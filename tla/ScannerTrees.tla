---------------------------- MODULE ScannerTrees ----------------------------
(***************************************************************************)
(* The source trees Scanner is checked on: a project root of each framework *)
(* with every two further files that do not collide.  The files carry the   *)
(* traits the modules look for; links, unreadable and binary files, secrets *)
(* in code, in samples and in fixtures, and declarations are among them.    *)
(***************************************************************************)
EXTENDS Naturals, Sequences, FiniteSets

\* A literal on a line, by what the detectors read of it.
Val(kind, shape, len, bits, marked) == [kind |-> kind, shape |-> shape, len |-> len, bits |-> bits, marked |-> marked, segment |-> 10]
Pem == Val("format", "plain", 30, 30, FALSE)
Conn == Val("connection", "plain", 12, 35, FALSE)
ConnVar == Val("connection", "interpolated", 12, 35, FALSE)
Key == Val("quoted", "plain", 32, 38, FALSE)
Marked == Val("quoted", "plain", 44, 42, TRUE)
Sample == Val("quoted", "plain", 20, 30, TRUE)
Dotted == Val("quoted", "dotted", 30, 40, FALSE)

\* A file: directory, name, suffix, link target, content, literals, traits, declarations.
F(d, n, s, h) == [dir |-> d, name |-> n, suf |-> s, link |-> "no", body |-> "text", lines |-> {}, has |-> h, decl |-> <<>>]
Link(f, l) == [f EXCEPT !.link = l]
Lines(f, l) == [f EXCEPT !.lines = l]
Body(f, b) == [f EXCEPT !.body = b]
Entry(p, r, w) == [path |-> p, reason |-> r, wellFormed |-> w]

\* The roots and the files that make trouble.
Pkg == F(".", "package.json", ".json", {"fastify", "ws", "entry", "workspaces", "start_node_dist"})
AppPkg == F("app", "package.json", ".json", {"express", "entry", "handoff"})
Lock == F(".", "pnpm-lock.yaml", ".yaml", {})
Main == Lines(F("app", "main.ts", ".ts", {"health", "ready", "alpaca", "sigterm"}), {Key, ConnVar})
LinkedMain == Link(F("app", "metrics.ts", ".ts", {"auth"}), "out")
EnvEx == Link(Lines(F(".", ".env.example", "", {"broker_names"}), {Sample}), "out")
EnvFile == F("app", ".env", "", {})
Manage == F("app", "manage.py", ".py", {})
Settings == Lines(F("app", "settings.py", ".py", {"debug", "secret_literal"}), {Marked, Dotted})
UpSettings == Link(F("app", "settings.py", ".py", {"debug", "sqlite_engine"}), "up")
Reqs == F(".", "requirements.txt", ".txt", {"django", "pinned", "celery"})
Docker == F(".", "Dockerfile", "", {"unpinned_from", "expose", "runserver"})
Index == F("dist", "index.html", ".html", {})
State == Body(F("app", "db.sqlite3", ".sqlite3", {}), "binary")
DataState == F("data", "bars.parquet", ".parquet", {})
LinkDir == [F(".", "shared", "", {"holds_state"}) EXCEPT !.body = "dir", !.link = "out"]
Fixture == Lines(F("fixtures", "keys.py", ".py", {}), {Key})
Fixture2 == Lines(F("fixtures", "token.py", ".py", {}), {Pem})
TestKey == Lines(F("tests", "test_app.py", ".py", {}), {Conn})
Locked == Body(F("app", "secret.bin", ".py", {}), "unreadable")
Yaml1 == [F(".", "deployhub.yaml", ".yaml", {}) EXCEPT !.decl = <<Entry("fixtures", "r1", TRUE), Entry("app", "r2", TRUE)>>]
Yaml2 == [F(".", "deployhub.yaml", ".yaml", {}) EXCEPT !.decl = <<Entry("fixtures", "r3", TRUE)>>]
Cover == F("coverage", "lcov.info", ".info", {})
CoverJs == Lines(F("coverage", "app.js", ".js", {}), {Key})

Files == {Pkg, AppPkg, Lock, Main, LinkedMain, EnvEx, EnvFile, Manage, Settings, UpSettings,
          Reqs, Docker, Index, State, DataState, LinkDir, Fixture, Fixture2, TestKey, Locked,
          Yaml1, Yaml2, Cover, CoverJs}
Base == {{Pkg}, {Manage}, {Docker}, {Pkg, Manage, Yaml1}, {Index}}
Pairs == {{f, g} : f \in Files, g \in Files}
SmallTrees == {t \in {b \cup e : b \in Base, e \in Pairs} : Cardinality({<<f.dir, f.name>> : f \in t}) = Cardinality(t)}
SmallEdits == {LinkedMain, EnvEx, Yaml1, Yaml2}
=============================================================================
