------------------------------ MODULE Scanner ------------------------------
(***************************************************************************)
(* The readiness scan of a repository (scanner/): scan() of core.py, the   *)
(* common-core suite and the two fallback modules of fallbacks.py, the     *)
(* repository's own declarations of declarations.py, and the django and    *)
(* node-ts modules.                                                        *)
(*                                                                         *)
(* A repository is a set of files.  A file is a record: its directory (one *)
(* level, "." is the root), name and suffix; where its link leads ("no": a *)
(* regular file, "up": to another directory of the same repository, "out": *)
(* outside of it, "broken": nowhere); whether it can be read as text; the  *)
(* secret-shaped lines in it; what a check would find in its text ("has"); *)
(* and, for deployhub.yaml, the entries it declares.                       *)
(*                                                                         *)
(* scan() walks the tree many times: every hook of every module surveys it *)
(* again.  Each walk is a step here, and the owner of the working copy may *)
(* edit a file between two of them.                                        *)
(***************************************************************************)
EXTENDS Naturals, Sequences, FiniteSets, SequencesExt

CONSTANTS Trees,            \* the repositories scanned
          EditFiles,        \* the files that may appear or vanish during a scan
          MaxScanEdits,     \* bound: edits of the tree during one scan
          MaxDeclarations   \* declarations.MAX_DECLARATIONS

VARIABLES tree,      \* the working copy
          stage,     \* the next walk of scan(), then "report" or "error"
          mods,      \* the matched modules still to run, in registry order
          declared,  \* [accepted, problems] as declarations.load read them
          refused,   \* per module, the files it says it refused
          met,       \* the files the core walk found linked out of the tree
          checks,    \* the CheckResults so far, the core suite included
          asked,     \* the wizard questions so far
          manifest,  \* the manifest draft
          treeEdits   \* edits since the scan began
scanVars == <<tree, stage, mods, declared, refused, met, checks, asked, manifest, treeEdits>>

---------------------------------------------------------------------------
\* Walks and reads

None == "none"
CheckResult(id, tier) ==
    [id |-> id, tier |-> tier, refused |-> {}, accept |-> {}, only |-> FALSE]
OkOr(good, tier) == IF good THEN "ok" ELSE tier
Loud == {"blocker", "warning"}                    \* ANNOUNCEMENT_TIERS

\* is_file() follows links: only a broken one is no file.
IsFile(f) == f.body # "dir" /\ f.link # "broken"
At(t, d, names) == {f \in t : f.dir = d /\ f.name \in names /\ IsFile(f)}
Has(S, trait) == \E f \in S : trait \in f.has

\* A link is judged against the root the caller passes: one that stays inside
\* the repository still leaves a nested project directory.
escapes_root(r, f) == f.link \in {"out", "broken"} \/ (f.link = "up" /\ r # ".")

\* The directory names the walks prune; each walk has its own list.
CoreSkip == {"node_modules", ".venv", "dist", "build", "data", ".git"}
NodeSkip == {"node_modules", ".venv", "dist", "build", "coverage", ".git"}
DjangoSkip == {"node_modules", ".venv", "dist", "build", "staticfiles", ".git"}
ProjectSkip == {"node_modules", ".venv", "dist", "build", ".git"}

\* The files a walk meets, and the ones it yields: contained ones only.
Met(t, r, skip) ==
    {f \in t : IsFile(f) /\ f.dir \notin skip /\ (r = "." \/ f.dir = r)}
IterFiles(t, r, skip) == {f \in Met(t, r, skip) : ~escapes_root(r, f)}

ReadText(f) == f.body = "text"                    \* not binary, not too large
Unread(t) == {f \in Met(t, ".", CoreSkip) : f.body = "unreadable"}
TextFiles(t) == {f \in IterFiles(t, ".", CoreSkip) : ReadText(f)}
Escaped(t) == {f \in Met(t, ".", CoreSkip) : escapes_root(".", f) /\ ReadText(f)}
ReadContained(r, S) == {f \in S : ~escapes_root(r, f) /\ ReadText(f)}

---------------------------------------------------------------------------
\* declarations.py: what deployhub.yaml says about the repository

KeyFiles == {"package.json", "pyproject.toml", "requirements.txt", "manage.py",
             "Dockerfile", "pnpm-workspace.yaml", "settings.py", "deployhub.yaml"}

\* Inside(t, d) is os.walk of one directory: links are names like any other.
Inside(t, d) == {f \in t : f.dir = d /\ f.body # "dir"}
is_settings_module(f) ==
    /\ f.suf = ".py" /\ f.name # "__init__.py"
    /\ f.name = "settings.py" \/ f.dir = "settings"
KeyFileIn(t, d) == \E f \in Inside(t, d) : f.name \in KeyFiles
SettingsIn(t, d) == \E f \in Inside(t, d) : is_settings_module(f)

\* An entry is taken only when it is well formed (a reason, no control
\* characters, no glob, not absolute, no ..), names one existing directory
\* that is not the root, and hides nothing the scanner keys on.
ReadEntry(t, e) ==
    /\ e.wellFormed /\ e.path # "."
    /\ \E f \in t : f.dir = e.path
    /\ ~KeyFileIn(t, e.path)
    /\ ~SettingsIn(t, e.path)

NoDeclarations == [accepted |-> <<>>, problems |-> FALSE]
load(t) ==
    LET file == At(t, ".", {"deployhub.yaml"})
        f == CHOOSE g \in file : TRUE
        entries == SubSeq(f.decl, 1, IF Len(f.decl) < MaxDeclarations
                                     THEN Len(f.decl) ELSE MaxDeclarations)
    IN IF file = {} THEN NoDeclarations
       ELSE IF ~ReadText(f) \/ "malformed" \in f.has
            THEN [NoDeclarations EXCEPT !.problems = TRUE]
            ELSE [accepted |-> SelectSeq(entries, LAMBDA e : ReadEntry(t, e)),
                  problems |-> \/ Len(f.decl) > MaxDeclarations
                               \/ \E e \in ToSet(entries) : ~ReadEntry(t, e)]

Covers(e, f) == f.dir = e.path
\* The first accepted declaration covering f.
Covering(D, f) ==
    LET covers == {i \in DOMAIN D.accepted : Covers(D.accepted[i], f)}
    IN {D.accepted[i] : i \in {j \in covers : \A k \in covers : j <= k}}
ConfirmId(e) == <<e.path, e.reason>>

---------------------------------------------------------------------------
\* fallbacks.py: the secret scan

TestDirs == {"tests", "test", "testdata"}
TestNames == {"test_app.py", "app.test.ts", "conftest.py"}
IsTestPath(f) == f.dir \in TestDirs \/ f.name \in TestNames
DirIsGenerated(t, d) ==
    \/ d \in {"htmlcov", "storybook-static"}
    \/ d = "coverage" /\ \E f \in t : /\ f.dir = d /\ f.name = "lcov.info"
                                      /\ f.link = "no"
Generated(t, f) == f.suf \in {".min.js", ".map", ".lock"} \/ DirIsGenerated(t, f.dir)
EnvTemplates == {".env.example"}
IsEnvFamily(f) == f.name \in {".env", ".env.prod"} \cup EnvTemplates
IsEnvFile(f) == IsEnvFamily(f) /\ f.name \notin EnvTemplates

\* A value assigned or embedded on a line: its length, its entropy in tenths
\* of a bit per character, and what it is spelled like.
LooksPlaceholder(v) == v.marked /\ ~(v.len >= 40 /\ v.bits >= 40)
IsAddress(v) == v.shape \in {"path", "url"}       \* a URL without a password
IsDottedPath(v) ==
    v.shape = "dotted" /\ v.segment < 28 /\ ~(v.len >= 40 /\ v.bits >= 45)
IsEcho(v) == v.shape = "echo"
IsCssVar(v) == v.shape = "cssvar"
LooksInterpolation(v) == v.shape = "interpolated"

\* A published format, or a connection string with a real password in it.
CredentialFormatIn(l) ==
    \/ l.kind = "format"
    \/ /\ l.kind = "connection" /\ l.len >= 6
       /\ ~LooksPlaceholder(l) /\ ~LooksInterpolation(l)
\* A secret-shaped name assigned a quoted or bare value of enough entropy.
Heuristic(l) ==
    /\ \/ l.kind = "quoted" /\ l.len >= 16 /\ l.bits >= 25
       \/ l.kind = "bare" /\ l.len >= 20 /\ l.bits >= 35
    /\ ~IsAddress(l) /\ ~IsCssVar(l) /\ ~IsDottedPath(l) /\ ~IsEcho(l)
    /\ ~LooksPlaceholder(l)

Proof(f) == IsEnvFile(f) \/ \E l \in f.lines : CredentialFormatIn(l)
Guess(t, f) == /\ ~IsEnvFile(f) /\ ~Generated(t, f)
               /\ \E l \in f.lines : ~CredentialFormatIn(l) /\ Heuristic(l)

\* No declaration covers a proof: only guesses move to the declared bucket.
Findings(t, D) ==
    {f \in TextFiles(t) \cup Escaped(t) :
        ~IsTestPath(f) /\ (Proof(f) \/ (Guess(t, f) /\ Covering(D, f) = {}))}
DeclaredFindings(t, D) ==
    {f \in TextFiles(t) \cup Escaped(t) :
        ~IsTestPath(f) /\ Guess(t, f) /\ Covering(D, f) # {}}
TestFindings(t) ==
    {f \in TextFiles(t) \cup Escaped(t) : IsTestPath(f) /\ (Proof(f) \/ Guess(t, f))}

Acceptance(t, D) ==
    {ConfirmId(e) : e \in UNION {Covering(D, f) : f \in DeclaredFindings(t, D)}}

SecretScan(t, D) ==
    LET blocks == Findings(t, D) \cup DeclaredFindings(t, D)
        warns == TestFindings(t) # {} \/ D.problems \/ Unread(t) # {}
    IN [CheckResult("core.secret-scan",
                    IF blocks # {} THEN "blocker" ELSE OkOr(~warns, "warning"))
            EXCEPT !.accept = Acceptance(t, D),
                   !.only = blocks # {} /\ Findings(t, D) = {}]

---------------------------------------------------------------------------
\* fallbacks.py: the rest of the common-core suite

NodeLocks == {"package-lock.json", "pnpm-lock.yaml", "yarn.lock"}
PyLocks == {"uv.lock", "poetry.lock"}
Requirements == {"requirements.txt", "requirements-dev.txt"}

\* A lock counts by existing, at the manifest or at any directory above it.
LockedAtOrAbove(t, d, locks) == At(t, d, locks) \cup At(t, ".", locks) # {}
PinnedRequirements(t, d) ==
    Has(ReadContained(".", At(t, d, Requirements)), "pinned")
Manifests(t, name) == {f \in TextFiles(t) : f.name = name}
Lockfile(t) ==
    CheckResult("core.lockfile", OkOr(
        /\ \A f \in Manifests(t, "package.json") : LockedAtOrAbove(t, f.dir, NodeLocks)
        /\ \A f \in Manifests(t, "pyproject.toml") :
              \/ LockedAtOrAbove(t, f.dir, PyLocks)
              \/ PinnedRequirements(t, f.dir) \/ PinnedRequirements(t, "."),
        "warning"))

\* The root's .gitignore, else the one at or above a nested manage.py.
ProjectGitignore(t) ==
    LET nested == UNION {At(t, f.dir, {".gitignore"}) :
                      f \in {g \in IterFiles(t, ".", ProjectSkip) : g.name = "manage.py"}}
    IN IF At(t, ".", {".gitignore"}) # {} THEN At(t, ".", {".gitignore"})
       ELSE IF nested = {} THEN {} ELSE {CHOOSE f \in nested : TRUE}
Gitignore(t) ==
    LET rules == ReadContained(".", ProjectGitignore(t))
        envMatters == \/ \E f \in TextFiles(t) : IsEnvFamily(f)
                      \/ At(t, ".", {".env"}) # {}
    IN CheckResult("core.gitignore", OkOr(
           /\ ProjectGitignore(t) # {}
           /\ envMatters => Has(rules, "ignores_env")
           /\ Manifests(t, "package.json") # {} => Has(rules, "ignores_modules"),
           "warning"))

CodeSuffixes == {".py", ".js", ".ts"}
TestsExist(t) ==
    CheckResult("core.tests-exist", OkOr(
        \E f \in IterFiles(t, ".", CoreSkip) :
            \/ f.name \in TestNames \ {"conftest.py"}
            \/ f.dir \in {"tests", "test"} /\ f.suf \in CodeSuffixes, "advice"))
Healthz(t) == CheckResult("core.healthz", OkOr(Has(TextFiles(t), "health"), "advice"))
DigestPins(t) ==
    CheckResult("core.digest-pins", OkOr(
        ~\E f \in TextFiles(t) : f.name = "Dockerfile" /\ "unpinned_from" \in f.has,
        "warning"))
ExposureAuth(t) ==
    CheckResult("core.exposure-auth", OkOr(
        \E f \in TextFiles(t) : f.suf \in CodeSuffixes /\ "auth" \in f.has, "warning"))

\* paths are the paths of the TEXT files: a state file read as binary is not
\* among them.
LocalState == {".sqlite3", ".parquet", ".duckdb"}
IsSettingsText(f) == f.name = "settings.py" \/ f.dir = "settings" \/ "django_assign" \in f.has
ScaleReady(t) ==
    LET code == {f \in TextFiles(t) : f.name # "README"}
        celery == \/ Has(code, "celery_import")
                  \/ Has({f \in code : f.name \in Requirements \cup {"pyproject.toml"}},
                         "celery")
        media == /\ \E f \in TextFiles(t) : IsSettingsText(f)
                 /\ Has(code, "media_local") /\ ~Has(TextFiles(t), "object_storage")
    IN CheckResult("core.scale-ready", OkOr(
           ~ \/ \E f \in TextFiles(t) : f.suf \in LocalState
             \/ Has(code, "sqlite_engine") \/ Has(code, "locmem")
             \/ celery /\ Has(code, "broker_local")
             \/ media, "warning"))

\* The files the walk refused, less those a module announces in its own words.
SymlinkedFiles(t, elsewhere) ==
    LET own == Escaped(t) \ elsewhere
    IN IF own = {} THEN {}
       ELSE {[CheckResult("core.symlinked-files", "warning") EXCEPT !.refused = own]}

CommonSuite(t, D, elsewhere) ==
    {SecretScan(t, D), Lockfile(t), Gitignore(t), TestsExist(t), Healthz(t),
     DigestPins(t), ExposureAuth(t), ScaleReady(t)} \cup SymlinkedFiles(t, elsewhere)

---------------------------------------------------------------------------
\* fallbacks.py: the Dockerfile and static modules

DockerfileText(t) == ReadContained(".", At(t, ".", {"Dockerfile"}))
DockerfileDetect(t) == At(t, ".", {"Dockerfile"}) # {}
DockerfileChecks(t) ==
    LET text == DockerfileText(t)
    IN {CheckResult("dockerfile.expose", OkOr(Has(text, "expose"), "warning")),
        CheckResult("dockerfile.non-root", OkOr(Has(text, "user"), "warning")),
        CheckResult("dockerfile.latest-tag", OkOr(~Has(text, "latest"), "warning"))}

SiteDirs(t) == {d \in {".", "dist", "build"} : At(t, d, {"index.html"}) # {}}
StaticDetect(t) ==
    /\ At(t, ".", {"package.json", "pyproject.toml", "requirements.txt",
                   "manage.py", "Dockerfile"}) = {}
    /\ SiteDirs(t) # {}

---------------------------------------------------------------------------
\* node_ts.py: the survey

SourceSuffixes == {".ts", ".js"}
ServerDeps == {"fastify", "express"}
DirLinks(t) == {f \in t : f.body = "dir"}

\* Reading a file by its fixed name: a link that leads out, or nowhere, is
\* refused whether or not it is a file.
NodeRefuses(t, d, name) ==
    {f \in t : f.dir = d /\ f.name = name /\ escapes_root(".", f)}
NodeReads(t, d, name) == ReadContained(".", At(t, d, {name}))

\* Workspace patterns come from pnpm-workspace.yaml and the root's
\* package.json and name directories of the repository; one that is absolute
\* or climbs out is a problem instead.
PatternSources(t) ==
    NodeReads(t, ".", "pnpm-workspace.yaml") \cup NodeReads(t, ".", "package.json")
PackageDirs(t) ==
    {d \in {f.dir : f \in t} :
        /\ At(t, d, {"package.json"}) # {}
        /\ d = "." \/ Has(PatternSources(t), "workspaces")}
\* A linked candidate is refused, and a directory is never reached through it.
WorkspaceProblems(t) ==
    \/ Has(PatternSources(t), "bad_pattern")
    \/ Has(PatternSources(t), "workspaces") /\ DirLinks(t) # {}

Package(t, d) == NodeReads(t, d, "package.json")
AllDeps(t) == UNION {UNION {f.has : f \in Package(t, d)} : d \in PackageDirs(t)}

\* A server framework scores above a bare ws dependency; the root goes first.
ServiceScore(t, d) ==
    LET p == Package(t, d)
        server == \E s \in ServerDeps : Has(p, s)
    IN IF Has(p, "entry") /\ (server \/ Has(p, "ws"))
       THEN IF server THEN 2 ELSE 1
       ELSE 0
ServiceDir(t) ==
    LET best == {d \in PackageDirs(t) :
                    /\ ServiceScore(t, d) > 0
                    /\ \A e \in PackageDirs(t) : ServiceScore(t, d) >= ServiceScore(t, e)}
    IN IF best = {} THEN None
       ELSE IF "." \in best THEN "." ELSE CHOOSE d \in best : TRUE
ServiceBase(t) == IF ServiceDir(t) = None THEN "." ELSE ServiceDir(t)

NodeSourceFiles(t, d) == {f \in Met(t, d, NodeSkip) : f.suf \in SourceSuffixes}
ServiceSources(t) == ReadContained(".", NodeSourceFiles(t, ServiceBase(t)))
HealthzSources(t) == {f \in ServiceSources(t) : "health" \in f.has}

PickTsconfig(t) ==
    IF At(t, ServiceBase(t), {"tsconfig.json"}) # {}
    THEN At(t, ServiceBase(t), {"tsconfig.json"})
    ELSE At(t, ".", {"tsconfig.json"})

\* Everything the survey declined to read, in the order-free union of its
\* refusal channel.
SymlinkRefused(t) ==
    (UNION {NodeRefuses(t, d, "package.json") : d \in PackageDirs(t) \cup {"."}})
    \cup {f \in At(t, ".", {"pnpm-workspace.yaml", "pyproject.toml"}) : escapes_root(".", f)}
    \cup NodeRefuses(t, ".", ".env.example")
    \cup {f \in PickTsconfig(t) : escapes_root(".", f)}
    \cup {f \in UNION {NodeSourceFiles(t, d) : d \in PackageDirs(t) \cup {ServiceBase(t)}} :
              escapes_root(".", f)}

OfflineDeps(t) == Has(NodeReads(t, ".", "pyproject.toml"), "offline")

\* The one walk that follows links, files and directories alike, and does not
\* prune data/.
DataFiles(t) ==
    {f \in t : /\ f.dir \notin NodeSkip
               /\ \/ IsFile(f) /\ f.suf \in LocalState
                  \/ f.body = "dir" /\ "holds_state" \in f.has}
IngestionArmed(t) == "ccxt" \in AllDeps(t)
ExclusiveUpstreams(t) ==
    \/ Has(ServiceSources(t), "alpaca") \/ Has(NodeReads(t, ".", ".env.example"), "alpaca")
    \/ Has(ServiceSources(t), "exclusive_marker")
HandoffHook(t) == "handoff" \in AllDeps(t)
BrokerEnvNames(t) == Has(NodeReads(t, ".", ".env.example"), "broker_names")
FinancialSignals(t) == BrokerEnvNames(t) \/ ExclusiveUpstreams(t) \/ IngestionArmed(t)

NodeDetect(t) ==
    \/ At(t, ".", {"pnpm-workspace.yaml"}) # {}
    \/ AllDeps(t) \cap (ServerDeps \cup {"serverish_main"}) # {}
NodeRefusedPaths(t) == SymlinkRefused(t)

---------------------------------------------------------------------------
\* node_ts.py: the checks

\* With a Python offline component the module answers core.lockfile itself,
\* from the Node side alone.
LockfileOverride(t) ==
    IF ~OfflineDeps(t) THEN {}
    ELSE {CheckResult("core.lockfile", OkOr(
              At(t, ".", NodeLocks) # {}
              \/ UNION {At(t, d, {"package.json"}) : d \in PackageDirs(t) \cup {"."}} = {},
              "warning"))}
DetectionRecording(t) ==
    (IF WorkspaceProblems(t) THEN {CheckResult("node-ts.workspace-patterns", "warning")}
                             ELSE {})
    \cup (IF SymlinkRefused(t) = {} THEN {}
          ELSE {[CheckResult("node-ts.symlinked-files", "warning")
                    EXCEPT !.refused = SymlinkRefused(t)]})
    \cup {CheckResult("node-ts.monorepo", "ok"),
          CheckResult("node-ts.service-package", OkOr(ServiceDir(t) # None, "warning")),
          CheckResult("node-ts.recognized-deps", "ok"),
          CheckResult("node-ts.worker-threads", "ok")}
    \cup (IF OfflineDeps(t) THEN {CheckResult("node-ts.offline-component", "ok")} ELSE {})

\* A tsconfig that was refused is there and is not strict.
StrictBuild(t) ==
    CheckResult("node-ts.strict-build",
        OkOr(Has(ReadContained(".", PickTsconfig(t)), "strict"), "warning"))

\* The manifest the service checks judge; none without a service.
ServicePackage(t) == IF ServiceDir(t) = None THEN {} ELSE Package(t, ServiceDir(t))
CompiledJs(t) ==
    LET p == ServicePackage(t)
    IN CheckResult("node-ts.compiled-js",
           OkOr(Has(p, "start_node_dist") /\ ~Has(p, "start_tsx"), "warning"))
EnginesPin(t) ==
    CheckResult("node-ts.engines-pin",
        OkOr(Has(Package(t, ServiceBase(t)), "engines22"), "warning"))
BunDevOnly(t) ==
    CheckResult("node-ts.bun-dev-only",
        OkOr(~Has(ServicePackage(t), "start_bun") /\ "bun" \notin AllDeps(t), "warning"))

FastifyServing(t) ==
    IF "fastify" \notin AllDeps(t) THEN {}
    ELSE {CheckResult("node-ts.fastify-serving", OkOr(
              \A x \in {"trust_proxy", "body_limit", "listen_all"} :
                  Has(ServiceSources(t), x), "warning"))}
\* The handler has to close the ws server when there is one.
GracefulShutdown(t) ==
    CheckResult("node-ts.graceful-shutdown", OkOr(
        \E f \in ServiceSources(t) :
            "sigterm" \in f.has /\ ("ws" \in AllDeps(t) => "closes_ws" \in UNION
                {g.has : g \in {h \in ServiceSources(t) : "sigterm" \in h.has}}),
        "warning"))
WsHeartbeat(t) ==
    CheckResult("node-ts.ws-heartbeat", OkOr(
        "ws" \in AllDeps(t) =>
            Has(ServiceSources(t), "ping") /\ Has(ServiceSources(t), "pong"), "warning"))
ReadinessPattern(t) ==
    CheckResult("node-ts.readiness-pattern", OkOr(
        Has(HealthzSources(t), "ready") /\ ~Has(HealthzSources(t), "ready_true"), "warning"))

IngestReconnect(t) ==
    CheckResult("node-ts.ingest-reconnect", OkOr(Has(ServiceSources(t), "backoff"), "warning"))
IngestStaleness(t) ==
    CheckResult("node-ts.ingest-staleness", OkOr(Has(HealthzSources(t), "feed_age"), "warning"))
IngestBackfill(t) ==
    CheckResult("node-ts.ingest-backfill", OkOr(
        Has(ServiceSources(t), "checkpoint") /\ Has(ServiceSources(t), "concurrency"), "advice"))

ExclusiveUpstream(t) ==
    CheckResult("node-ts.exclusive-upstream",
                OkOr(ExclusiveUpstreams(t) => HandoffHook(t), "warning"))
LocalStateCheck(t) ==
    CheckResult("node-ts.local-state", OkOr(DataFiles(t) = {}, "warning"))
SecretsEnv(t) == CheckResult("node-ts.secrets-env", OkOr(~BrokerEnvNames(t), "advice"))

NodeChecks(t) ==
    LockfileOverride(t) \cup DetectionRecording(t) \cup FastifyServing(t)
    \cup {StrictBuild(t), CompiledJs(t), EnginesPin(t), BunDevOnly(t),
          GracefulShutdown(t), WsHeartbeat(t), ReadinessPattern(t),
          ExclusiveUpstream(t), LocalStateCheck(t), SecretsEnv(t)}
    \cup (IF IngestionArmed(t)
          THEN {IngestReconnect(t), IngestStaleness(t), IngestBackfill(t)} ELSE {})
    \cup (IF OfflineDeps(t) THEN {CheckResult("node-ts.jobs-image", "advice")} ELSE {})
NodeSandbox ==
    {CheckResult(id, "pending_sandbox") :
        id \in {"node-ts.install", "node-ts.tsc", "node-ts.build"}}

---------------------------------------------------------------------------
\* django.py

\* The directory holding manage.py, the root first; else the root itself when
\* its dependencies name django.
DepsText(t, r) == ReadContained(r, At(t, r, {"pyproject.toml"} \cup Requirements))
ProjectRoot(t) ==
    LET dirs == {f.dir : f \in {g \in IterFiles(t, ".", ProjectSkip) : g.name = "manage.py"}}
    IN IF "." \in dirs THEN "."
       ELSE IF dirs # {} THEN CHOOSE d \in dirs : TRUE
       ELSE IF Has(DepsText(t, "."), "django") THEN "." ELSE None
DjangoDetect(t) == ProjectRoot(t) # None

SettingsFiles(t, r) == {f \in IterFiles(t, r, DjangoSkip) : is_settings_module(f)}
DevNames == {"dev.py", "local.py"}
ProdSettings(t, r) == {f \in SettingsFiles(t, r) : f.name \notin DevNames}

SettingsShape(t, r) ==
    CheckResult("django.settings-shape", OkOr(
        \/ \E f \in SettingsFiles(t, r) : f.dir = "settings"
        \/ Has(SettingsFiles(t, r), "env_driven"), "warning"))
DebugHardcoded(t, r) ==
    CheckResult("django.debug-hardcoded", OkOr(~Has(ProdSettings(t, r), "debug"), "blocker"))
\* A literal is a dev fallback when a production settings file takes the same
\* name from os.environ[...]; otherwise it blocks.
SecretKey(t, r) ==
    LET literal == Has(SettingsFiles(t, r), "secret_literal")
        hardFails == Has(ProdSettings(t, r), "secret_from_environ")
    IN CheckResult(IF literal /\ hardFails THEN "django.secret-dev-fallback"
                                           ELSE "django.secret-key-literal",
                   IF ~literal THEN "ok" ELSE IF hardFails THEN "warning" ELSE "blocker")
AllowedHosts(t, r) ==
    CheckResult("django.allowed-hosts", OkOr(Has(ProdSettings(t, r), "allowed_hosts"), "warning"))
DbEngine(t, r) ==
    CheckResult("django.db-engine", OkOr(~Has(ProdSettings(t, r), "sqlite_engine"), "warning"))
StaticRoot(t, r) ==
    CheckResult("django.static-root", OkOr(Has(SettingsFiles(t, r), "static_root"), "warning"))
SecuritySettings(t, r) ==
    CheckResult("django.security-settings",
                OkOr(Has(ProdSettings(t, r), "all_security"), "warning"))
CsrfTrusted(t, r) ==
    IF Has(ProdSettings(t, r), "csrf")
    THEN {CheckResult("django.csrf-trusted-origins", "ok")}
    ELSE IF \/ Has(DepsText(t, r) \cup SettingsFiles(t, r), "corsheaders")
            \/ \E f \in IterFiles(t, r, DjangoSkip) : f.name = "package.json"
         THEN {CheckResult("django.csrf-trusted-origins", "advice")} ELSE {}

DependencySource(t, r) ==
    IF At(t, r, {"pyproject.toml"}) # {} /\ At(t, r, {"uv.lock"}) # {} THEN "uv"
    ELSE IF At(t, r, Requirements) # {} THEN "requirements" ELSE None
DependencyManifest(t, r) ==
    CheckResult("django.dependency-manifest", OkOr(DependencySource(t, r) # None, "blocker"))
DepsPinned(t, r) ==
    CheckResult("django.deps-pinned", OkOr(
        \/ At(t, r, {"uv.lock"}) # {}
        \/ ~Has(ReadContained(r, At(t, r, Requirements)), "unpinned"), "warning"))
Versions(t, r) ==
    CheckResult("django.runtime-versions", OkOr(~Has(DepsText(t, r), "old_versions"), "advice"))

\* Compose files lie in the project directory or above it, up to the root.
ComposeFiles(t, r) == At(t, r, {"compose.yml"}) \cup At(t, ".", {"compose.yml"})
ComposeServices(t, r) == UNION {f.has : f \in ReadContained(".", ComposeFiles(t, r))}
ServerShape(t, r) ==
    IF \/ {"daphne", "uvicorn"} \cap ComposeServices(t, r) # {}
       \/ \E x \in {"channels", "daphne", "uvicorn"} : Has(DepsText(t, r), x)
       \/ Has({f \in IterFiles(t, r, DjangoSkip) : f.name = "asgi.py"}, "protocol_router")
    THEN "asgi" ELSE "wsgi"
SidecarJobs(t, r) == ComposeServices(t, r) \cap {"worker", "beat", "migrate"}
Sidecars(t, r) ==
    IF ComposeFiles(t, r) = {} THEN {} ELSE {CheckResult("django.sidecars", "ok")}
Runserver(t, r) ==
    CheckResult("django.runserver", OkOr(
        ~ \/ Has({f \in IterFiles(t, r, DjangoSkip) : f.name = "Dockerfile"}, "runserver")
          \/ "runserver" \in ComposeServices(t, r), "blocker"))

DjangoChecks(t) ==
    LET r == IF ProjectRoot(t) = None THEN "." ELSE ProjectRoot(t)
    IN {SettingsShape(t, r), DebugHardcoded(t, r), SecretKey(t, r), AllowedHosts(t, r),
        DbEngine(t, r), StaticRoot(t, r), SecuritySettings(t, r),
        DependencyManifest(t, r), DepsPinned(t, r), Versions(t, r),
        CheckResult("django.server-mode", "ok"), Runserver(t, r)}
       \cup CsrfTrusted(t, r) \cup Sidecars(t, r)
DjangoSandbox ==
    {CheckResult(id, "pending_sandbox") :
        id \in {"django.check-deploy", "django.migrations-check", "django.collectstatic"}}
LivenessPath(t, r) ==
    LET urls == {f \in IterFiles(t, r, DjangoSkip) : f.name = "urls.py"}
    IN IF Has(urls, "health") THEN "/healthz" ELSE None

---------------------------------------------------------------------------
\* Questions and manifest fragments

Question(id, kind, default) == [id |-> <<id>>, kind |-> kind, default |-> default]
ConfirmQuestions(D) ==
    {[id |-> ConfirmId(e), kind |-> "bool", default |-> None] : e \in ToSet(D.accepted)}

EmptyManifest ==
    [strategy |-> "blue_green", service |-> None, static |-> None, jobs |-> {},
     volumes |-> {}, liveness |-> None, staleness |-> None, jobsImage |-> None,
     deps |-> None, declaredPaths |-> {}]

\* Lists grow, gaps are filled, and recreate wins over any other strategy.
FirstSet(a, b) == IF a = None THEN b ELSE a
DeepMerge(a, b) ==
    [strategy |-> IF "recreate" \in {a.strategy, b.strategy} THEN "recreate"
                                                            ELSE a.strategy,
     service |-> FirstSet(a.service, b.service), static |-> FirstSet(a.static, b.static),
     jobs |-> a.jobs \cup b.jobs, volumes |-> a.volumes \cup b.volumes,
     liveness |-> FirstSet(a.liveness, b.liveness),
     staleness |-> FirstSet(a.staleness, b.staleness),
     jobsImage |-> FirstSet(a.jobsImage, b.jobsImage), deps |-> FirstSet(a.deps, b.deps),
     declaredPaths |-> a.declaredPaths \cup b.declaredPaths]

NodeQuestions(t) ==
    {Question("node-ts.service-package", "choice", ServiceDir(t)),
     Question("node-ts.dev-packages", "text", None),
     Question("node-ts.data-dir", "text", IF DataFiles(t) = {} THEN "data" ELSE "state"),
     Question("node-ts.worker-threads", "number", None),
     Question("node-ts.exposure", "choice",
              IF FinancialSignals(t) THEN "mesh_only" ELSE "public"),
     Question("node-ts.exclusive-upstream", "bool",
              IF ExclusiveUpstreams(t) THEN "yes" ELSE "no")}
NodeFragment(t) ==
    LET healthz == IF HealthzSources(t) # {} THEN "/healthz" ELSE None
    IN [EmptyManifest EXCEPT
          !.strategy = IF DataFiles(t) # {} \/ ExclusiveUpstreams(t) THEN "recreate" ELSE None,
          !.service = "node-ts", !.liveness = healthz,
          !.staleness = IF IngestionArmed(t) THEN "900" ELSE None,
          !.volumes = {f.dir : f \in DataFiles(t)},
          !.jobsImage = IF OfflineDeps(t) THEN "manual-v1" ELSE None]

EnvNames(t, r) ==
    (IF Has(SettingsFiles(t, r), "env_driven") THEN {"DATABASE_HOST"} ELSE {})
    \cup (IF Has(SettingsFiles(t, r), "secret_from_environ") THEN {"SECRET_KEY"} ELSE {})
DjangoQuestions(t) ==
    LET r == IF ProjectRoot(t) = None THEN "." ELSE ProjectRoot(t)
    IN {Question("django.domain", "text", None), Question("django.db", "choice", "postgres"),
        Question("django.exposure", "choice", "public")}
       \cup {Question(n, IF n = "SECRET_KEY" THEN "secret" ELSE "text", None) :
                 n \in EnvNames(t, r)}
DjangoFragment(t) ==
    LET r == IF ProjectRoot(t) = None THEN "." ELSE ProjectRoot(t)
    IN [EmptyManifest EXCEPT
          !.strategy = None, !.service = ServerShape(t, r), !.jobs = SidecarJobs(t, r),
          !.liveness = LivenessPath(t, r), !.deps = DependencySource(t, r)]

DockerfileQuestions(t) ==
    {Question("dockerfile.domain", "text", None), Question("dockerfile.env", "secret", None),
     Question("dockerfile.exposure", "choice", "public")}
    \cup (IF Has(DockerfileText(t), "expose") THEN {}
          ELSE {Question("dockerfile.port", "number", None)})
DockerfileFragment(t) == [EmptyManifest EXCEPT !.strategy = None, !.service = "dockerfile"]
StaticQuestions(t) ==
    {Question("static.domain", "text", None), Question("static.exposure", "choice", "public")}
StaticFragment(t) ==
    [EmptyManifest EXCEPT !.strategy = None,
        !.static = IF SiteDirs(t) \ {"build"} = {} THEN "build"
                   ELSE IF "." \in SiteDirs(t) THEN "." ELSE "dist"]

---------------------------------------------------------------------------
\* core.py: the registry and scan()

Supersedes(m) == IF m = "node-ts" THEN {"core.lockfile"} ELSE {}

\* Every matching framework module runs; the fallbacks only when none does.
Matching(m, detected) == IF detected THEN <<m>> ELSE <<>>
DetectModules(t) ==
    IF DjangoDetect(t) \/ NodeDetect(t)
    THEN Matching("django", DjangoDetect(t)) \o Matching("node-ts", NodeDetect(t))
    ELSE Matching("dockerfile", DockerfileDetect(t)) \o Matching("static", StaticDetect(t))

ChecksOf(m, t) ==
    CASE m = "django" -> DjangoChecks(t) [] m = "node-ts" -> NodeChecks(t)
      [] m = "dockerfile" -> DockerfileChecks(t) [] OTHER -> {}
SandboxOf(m) ==
    CASE m = "django" -> DjangoSandbox [] m = "node-ts" -> NodeSandbox [] OTHER -> {}
QuestionsOf(m, t) ==
    CASE m = "django" -> DjangoQuestions(t) [] m = "node-ts" -> NodeQuestions(t)
      [] m = "dockerfile" -> DockerfileQuestions(t) [] OTHER -> StaticQuestions(t)
FragmentOf(m, t) ==
    CASE m = "django" -> DjangoFragment(t) [] m = "node-ts" -> NodeFragment(t)
      [] m = "dockerfile" -> DockerfileFragment(t) [] OTHER -> StaticFragment(t)
ModuleRefusedPaths(m, t) == IF m = "node-ts" THEN NodeRefusedPaths(t) ELSE {}

\* A module may replace the core results it declares, and no others.
CoreIds == {c.id : c \in checks}
Superseding(new) == {c \in new : c.id \in CoreIds}
Supersede(new) ==
    {c \in checks : ~\E n \in new : n.id = c.id} \cup new

Path(f) == <<f.dir, f.name>>
Paths(c) == {Path(f) : f \in c.refused}
Reported == UNION {Paths(c) : c \in {d \in checks : d.tier \in Loud}}
NoProblem == FALSE
\* What a module declared refused has to be announced by a check that survived.
RefusedPathsProblem == \E f \in refused : Path(f) \notin Reported

Init ==
    /\ tree \in Trees
    /\ stage = "detect" /\ mods = <<>> /\ declared = NoDeclarations
    /\ refused = {} /\ met = {} /\ checks = {} /\ asked = {}
    /\ manifest = EmptyManifest /\ treeEdits = 0

Detect ==
    /\ stage = "detect"
    /\ mods' = DetectModules(tree)
    /\ stage' = IF mods' = <<>> THEN "report" ELSE "declarations"
    /\ UNCHANGED <<tree, declared, refused, met, checks, asked, manifest, treeEdits>>

LoadDeclarations ==
    /\ stage = "declarations"
    /\ declared' = load(tree)
    /\ stage' = "refusals"
    /\ UNCHANGED <<tree, mods, refused, met, checks, asked, manifest, treeEdits>>

RefusedPaths ==
    /\ stage = "refusals"
    /\ refused' = UNION {ModuleRefusedPaths(m, tree) : m \in ToSet(mods)}
    /\ stage' = "core"
    /\ UNCHANGED <<tree, mods, declared, met, checks, asked, manifest, treeEdits>>

\* The suite reads the declarations scan() loaded, never the file again.
SuiteDeclarations == declared
CommonChecks ==
    /\ stage = "core"
    /\ met' = Escaped(tree)
    /\ checks' = CommonSuite(tree, SuiteDeclarations, refused)
    /\ asked' = ConfirmQuestions(declared)
    /\ manifest' = [EmptyManifest EXCEPT
                      !.declaredPaths = {e.path : e \in ToSet(declared.accepted)}]
    /\ stage' = "module"
    /\ UNCHANGED <<tree, mods, declared, refused, treeEdits>>

\* Each module: its checks, then its sandbox jobs, questions and fragment,
\* each from a survey of its own.
ModuleChecks ==
    /\ stage = "module" /\ mods # <<>>
    /\ LET new == ChecksOf(Head(mods), tree)
       IN IF \A c \in Superseding(new) : c.id \in Supersedes(Head(mods))
          THEN checks' = Supersede(new) /\ stage' = "fragment"
          ELSE stage' = "error" /\ UNCHANGED checks
    /\ UNCHANGED <<tree, mods, declared, refused, met, asked, manifest, treeEdits>>

ModuleFragment ==
    /\ stage = "fragment"
    /\ checks' = checks \cup SandboxOf(Head(mods))
    /\ asked' = asked \cup QuestionsOf(Head(mods), tree)
    /\ manifest' = DeepMerge(manifest, FragmentOf(Head(mods), tree))
    /\ mods' = Tail(mods)
    /\ stage' = "module"
    /\ UNCHANGED <<tree, declared, refused, met, treeEdits>>

Finish ==
    /\ stage = "module" /\ mods = <<>>
    /\ stage' = IF RefusedPathsProblem THEN "error" ELSE "report"
    /\ UNCHANGED <<tree, mods, declared, refused, met, checks, asked, manifest, treeEdits>>

\* The owner adds or removes a file while the scan is under way.
EditTree(f) ==
    /\ stage \notin {"report", "error"} /\ treeEdits < MaxScanEdits
    /\ tree' = IF f \in tree THEN tree \ {f}
               ELSE {g \in tree : Path(g) # Path(f)} \cup {f}
    /\ treeEdits' = treeEdits + 1
    /\ UNCHANGED <<stage, mods, declared, refused, met, checks, asked, manifest>>

Next ==
    \/ Detect \/ LoadDeclarations \/ RefusedPaths \/ CommonChecks
    \/ ModuleChecks \/ ModuleFragment \/ Finish
    \/ \E f \in EditFiles : EditTree(f)

Spec == Init /\ [][Next]_scanVars

---------------------------------------------------------------------------

\* Stages, modules and tiers; a report has one result to an id.
Frameworks == {"django", "node-ts", "dockerfile", "static"}
Tiers == {"blocker", "warning", "advice", "ok", "pending_sandbox"}
TypeOK ==
    /\ stage \in {"detect", "declarations", "refusals", "core", "module", "fragment",
                  "report", "error"}
    /\ ToSet(mods) \subseteq Frameworks
    /\ \A c \in checks : c.tier \in Tiers
    /\ \A c \in checks, d \in checks : c.id = d.id => c = d
    /\ treeEdits \in 0..MaxScanEdits

\* A file the core walk found linked out of the repository is announced at a
\* tier an operator reads, or the scan fails: no edit between the walks of
\* one scan lets a module's word that it reported a file stand for a report
\* nobody made (core.py, module_refused_paths and _refused_paths_problem).
\* In a tree that stands still it is announced exactly once.
EscapesAreAnnounced ==
    stage = "report" =>
        \A f \in met :
            LET by == {c \in checks : c.tier \in Loud /\ Path(f) \in Paths(c)}
            IN by # {} /\ (treeEdits = 0 => Cardinality(by) = 1)

\* A published credential format or a .env file outside test material blocks
\* the deploy and no confirm can clear it, whatever deployhub.yaml declares
\* about its directory (fallbacks.py, _check_secret_scan).
ProofsBlock ==
    stage = "report" /\ treeEdits = 0 =>
        \A f \in tree :
            /\ checks # {} /\ f.dir \notin CoreSkip /\ IsFile(f) /\ ReadText(f)
            /\ ~IsTestPath(f) /\ Proof(f)
            => \E c \in checks : /\ c.id = "core.secret-scan"
                                 /\ c.tier = "blocker" /\ ~c.only

\* A secret-scan block that only an acceptance can clear names confirms the
\* same report asks, however the file changes during the scan: the suite and
\* the questions come from one reading of deployhub.yaml (core.py, scan).
BlocksCanBeAnswered ==
    stage = "report" =>
        \A c \in checks : c.only => /\ c.accept # {}
                                    /\ c.accept \subseteq {q.id : q \in asked}

\* What the proofs need beside the properties.  Passed: the core suite ran and
\* no module's results were refused.
Passed == stage \in {"module", "fragment", "report"}
Plain(c, id) == c.id = id /\ c.tier \in Tiers /\ c.refused = {} /\ c.accept = {} /\ c.only = FALSE
NodeLinks(t) == [CheckResult("node-ts.symlinked-files", "warning")
                    EXCEPT !.refused = SymlinkRefused(t)]
CoreLinks(own) == [CheckResult("core.symlinked-files", "warning") EXCEPT !.refused = own]

SuiteRan == stage \in {"module", "fragment"}
ScanInv ==
    /\ mods \in Seq(Frameworks) /\ treeEdits \in Nat
    /\ stage = "fragment" => mods # <<>>
    /\ stage \in {"detect", "declarations", "refusals", "core"} => checks = {} /\ met = {}
    /\ SuiteRan => checks # {}

\* An acceptance the secret scan asks for is a confirm of the same reading.
AskedInv == \A c \in checks : c.only => /\ c.accept # {}
                                         /\ c.accept \subseteq {q.id : q \in asked}

\* The secret scan's block outlives the modules: none may replace its result.
HasProof(f) == /\ f.dir \notin CoreSkip /\ IsFile(f) /\ ReadText(f)
               /\ ~IsTestPath(f) /\ Proof(f)
Blocked == \E c \in checks : c.id = "core.secret-scan" /\ c.tier = "blocker" /\ ~c.only
BlockInv == Passed /\ checks # {} /\ treeEdits = 0 => \A f \in tree : HasProof(f) => Blocked

\* A file met is in the core's list, or some module said it would report it; a
\* report is only given when what modules said is in the surviving checks.
MetInv ==
    /\ Passed => \A f \in met \ refused : \E c \in checks :
                     c.id = "core.symlinked-files" /\ c.tier = "warning" /\ f \in c.refused
    /\ stage = "report" => met = {} \/ ~RefusedPathsProblem

\* In a tree that stands still the two lists are apart: the node module has
\* said what it will list before the core suite lists the rest.
NodeTold ==
    /\ stage \in {"core", "module", "fragment", "report"}
    /\ "node-ts" \in ToSet(mods) \/ NodeLinks(tree) \in checks
StillInv ==
    treeEdits = 0 =>
        /\ tree \in Trees /\ met \subseteq tree /\ refused \subseteq tree
        /\ \A c \in checks : c.refused = {} \/ c = CoreLinks(met \ refused) \/ c = NodeLinks(tree)
        /\ NodeTold => SymlinkRefused(tree) \subseteq refused

\* One result to an id; an id of a sandbox job stands for the job.
SandboxIds == {"django.check-deploy", "django.migrations-check", "django.collectstatic",
               "node-ts.install", "node-ts.tsc", "node-ts.build"}
NamedInv == /\ TypeOK
            /\ \A c \in checks : c.id \in SandboxIds => c = CheckResult(c.id, "pending_sandbox")
CompleteInv == ScanInv /\ AskedInv /\ BlockInv /\ MetInv /\ StillInv

\* tests/test_scale_ready_scan.py: "A committed sqlite file is marked, not
\* blocked."  A state file of the walked tree makes core.scale-ready warn.
CommittedStateIsMarked ==
    stage = "report" /\ treeEdits = 0 /\ checks # {} =>
        \A f \in tree :
            f.dir \notin CoreSkip /\ f.link = "no" /\ f.suf \in LocalState
                /\ f.body \in {"text", "binary"}
            => \E c \in checks : c.id = "core.scale-ready" /\ c.tier = "warning"

\* core.py, module_refused_paths: django reads "through the shared walk and
\* the shared `read_contained`, whose refusals ARE the core check's list".
\* What the django module declined to read is in the core walk's list.
DjangoRefusalsAreMet ==
    stage = "report" /\ treeEdits = 0 /\ ProjectRoot(tree) # None =>
        \A f \in Met(tree, ProjectRoot(tree), DjangoSkip) :
            (f.dir \notin CoreSkip /\ escapes_root(ProjectRoot(tree), f)) => f \in met
=============================================================================
