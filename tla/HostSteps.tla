----------------------------- MODULE HostSteps ------------------------------
(***************************************************************************)
(* What the deploy steps do to one host (deploys/steps.py, deploys/certs.py,*)
(* deploys/dns01.py, deploys/breakglass.py): images, containers, volumes,   *)
(* certificate files, the Caddy configuration that its sites share, and the *)
(* break-glass runbook.  The order of the steps is the pipeline's; that at  *)
(* most one deployment holds the host's lock is DeployPipeline's result, so *)
(* here it is Begin's guard.  A superseded worker still finishes the step   *)
(* it is in.                                                                *)
(***************************************************************************)
EXTENDS Integers, Sequences, FiniteSets

CONSTANTS
    HostSites,      \* sites of the host
    RecreateSites,  \* those with deploy_strategy recreate; the others are blue_green
    PullSites,      \* those with secrets_mode ssm_pull; the others get an env file
    MaxDeploys, MaxKeys, MaxStepFaults      \* bounds of the exploration

VARIABLES
    work,       \* per deployment: [site, at, status, old, gen, had, read]
    images,     \* deployments whose tag the host has
    box,        \* per deployment: its container, "none", "running" or "stopped"
    volumes, migrations,    \* sites with their volume; migrate commands run, per deployment
    healthy,    \* deployments whose /healthz says ready
    params,     \* the sites whose values the host's parameters hold: one path per host and key
    dnsRecords, \* sites whose record is at the provider
    loaded,     \* sites tagged in Caddy's load_files
    routed,     \* sites whose Caddy server is PUT; every deployment of a site has the same upstream port
    pem,        \* per site: the key generation of cert, key, cert.prev and key.prev
    vaultKey, certRow,  \* per site: the vaulted key; newest fresh TlsCertificate row (0 for none)
    runbook,    \* per site: the deployment BREAK-GLASS.md describes, 0 for none
    keys, stepFaults,
    torn,       \* history: sites whose push was killed, overlapped, or failed with nothing to restore
    crossed       \* history: a merged tls app was PUT over a newer one

hostVars == <<work, images, box, volumes, migrations, healthy, params, dnsRecords, loaded, routed, pem,
              vaultKey, certRow, runbook, keys, stepFaults, torn, crossed>>

Deploys == DOMAIN work
NoPem == [cert |-> 0, key |-> 0, pcert |-> 0, pkey |-> 0]
Pushing == {"keep", "cert", "key", "reload", "row"}
InTls == Pushing \cup {"tls", "issue", "app", "merge", "put"}
Places == {"build", "ship", "migrate", "start", "health", "dns", "smoke", "cutover", "done"} \cup InTls

Init ==
    /\ work = <<>> /\ images = {} /\ box = <<>> /\ migrations = <<>> /\ volumes = {} /\ healthy = {}
    /\ params = {}
    /\ dnsRecords = {} /\ loaded = {} /\ routed = {}
    /\ pem = [s \in HostSites |-> NoPem] /\ vaultKey = [s \in HostSites |-> 0]
    /\ certRow = [s \in HostSites |-> 0] /\ runbook = [s \in HostSites |-> 0]
    /\ keys = 0 /\ stepFaults = 0 /\ torn = {} /\ crossed = FALSE

Containers == <<images, box, volumes, migrations, healthy, params>>
Edge == <<dnsRecords, loaded, routed, crossed>>
Material == <<pem, vaultKey, certRow, keys>>
Rest == <<runbook, torn>>

---------------------------------------------------------------------------
(* The pipeline around the steps *)

\* _run_step(): the next step is entered only by a deployment that was not superseded.
Goto(d, at) == work' = [work EXCEPT ![d].at = at]
Finish(d, next) ==
    work' = [work EXCEPT ![d].at = next,
                         ![d].status = IF @ = "stopping" THEN "superseded" ELSE IF next = "done" THEN "succeeded" ELSE @]
\* _mark_failed()
Fails(d) == work' = [work EXCEPT ![d].status = IF @ = "stopping" THEN "superseded" ELSE "failed",
                                 ![d].at = IF @ \in InTls THEN "tls" ELSE @]
Fault == stepFaults < MaxStepFaults /\ stepFaults' = stepFaults + 1
In(d, at) == d \in Deploys /\ work[d].at = at /\ work[d].status \in {"running", "stopping"}

\* _previous_succeeded(): the newest other deployment of the site that succeeded.
PreviousSucceeded(s) ==
    LET P == {d \in Deploys : work[d].site = s /\ work[d].status = "succeeded"}
    IN IF P = {} THEN 0 ELSE CHOOSE d \in P : \A e \in P : e <= d

\* begin_deploy(): refused while another site holds the host; the site's own running
\* deployment is superseded, and its worker goes on to the end of its step.
Begin(s) ==
    /\ Len(work) < MaxDeploys
    /\ \A d \in Deploys : work[d].status = "running" => work[d].site = s
    /\ work' = Append([d \in Deploys |-> IF work[d].status = "running" THEN [work[d] EXCEPT !.status = "stopping"] ELSE work[d]],
                      [site |-> s, at |-> "build", status |-> "running", old |-> PreviousSucceeded(s),
                       gen |-> 0, had |-> FALSE, read |-> {}])
    /\ box' = Append(box, "none") /\ migrations' = Append(migrations, 0)
    /\ UNCHANGED <<images, volumes, healthy, params, Edge, Material, Rest, stepFaults>>

\* A retry or a resume of the newest deployment starts at the step that failed.
Resume(d) ==
    /\ d = Len(work) /\ work[d].status = "failed" /\ \A e \in Deploys : work[e].status # "running"
    /\ work' = [work EXCEPT ![d].status = "running", ![d].old = PreviousSucceeded(work[d].site)]
    /\ UNCHANGED <<Containers, Edge, Material, Rest, stepFaults>>

\* The worker is killed: the watchdog fails the deployment, whatever the step had done.
Kill(d) ==
    /\ d \in Deploys /\ work[d].status \in {"running", "stopping"} /\ Fault
    /\ torn' = IF work[d].at \in Pushing THEN torn \cup {work[d].site} ELSE torn
    /\ Fails(d)
    /\ UNCHANGED <<Containers, Edge, Material, runbook>>

---------------------------------------------------------------------------
(* build, ship, migrate, start, health *)

\* The tag is the digest of the deployment's manifest and source.
ImagePresent(d) == d \in images
\* _image_present() skips; otherwise context, docker build, or it raises.
Build(d, ok) ==
    /\ In(d, "build")
    /\ IF ok \/ ImagePresent(d) THEN Finish(d, "ship") /\ images' = images \cup {d} /\ UNCHANGED stepFaults
       ELSE Fault /\ Fails(d) /\ UNCHANGED images
    /\ UNCHANGED <<box, volumes, migrations, healthy, params, Edge, Material, Rest>>
\* The tag that was built is present, so the image is neither loaded nor pulled; without
\* it, docker load, or push and pull through the registry.
Ship(d, ok) ==
    /\ In(d, "ship")
    /\ IF ok \/ ImagePresent(d) THEN Finish(d, "migrate") /\ images' = images \cup {d} /\ UNCHANGED stepFaults
       ELSE Fault /\ Fails(d) /\ UNCHANGED images
    /\ UNCHANGED <<box, volumes, migrations, healthy, params, Edge, Material, Rest>>
\* ensure_volume() first; backup and migrate run again on every retry, for the step is
\* SUCCEEDED only afterwards.
EnsureVolume(d) == volumes' = volumes \cup {work[d].site}
Migrate(d, ok) ==
    /\ In(d, "migrate") /\ EnsureVolume(d)
    /\ migrations' = [migrations EXCEPT ![d] = @ + 1]
    /\ IF ok THEN Finish(d, "start") /\ UNCHANGED stepFaults ELSE Fault /\ Fails(d)
    /\ UNCHANGED <<images, box, healthy, params, Edge, Material, Rest>>

Recreate(d) == work[d].site \in RecreateSites
\* recreate: the previous deployment's container is stopped before the new one runs.
StopOld(d) == IF work[d].old # 0 /\ box[work[d].old] = "running" /\ Recreate(d)
              THEN [box EXCEPT ![work[d].old] = "stopped"] ELSE box
\* _put_env_file(): a file of the deployment's own, or the parameters of the host, whose
\* paths do not name the site.
PutEnvFile(d) == IF work[d].site \in PullSites THEN {work[d].site} ELSE params
\* docker run
Run(b, d, ok) == [b EXCEPT ![d] = IF ok THEN "running" ELSE @]
\* A container that runs is adopted, one that is stopped is started again.  Writing the
\* environment and docker run may fail after the old container was stopped.
Start(d, ok) ==
    /\ In(d, "start")
    /\ params' = IF box[d] = "none" /\ ok THEN PutEnvFile(d) ELSE params
    /\ IF box[d] = "running" THEN Finish(d, "health") /\ UNCHANGED <<box, stepFaults>>
       ELSE /\ box' = Run(IF box[d] = "stopped" THEN box ELSE StopOld(d), d, ok)
            /\ IF ok THEN Finish(d, "health") /\ UNCHANGED stepFaults ELSE Fault /\ Fails(d)
    /\ UNCHANGED <<images, volumes, migrations, healthy, Edge, Material, Rest>>

\* /healthz turns ready in time, or its checks freeze, or the warmup times out.
HealthCheck(d, ready) ==
    /\ In(d, "health")
    /\ IF ready THEN Finish(d, "dns") /\ healthy' = healthy \cup {d} /\ UNCHANGED stepFaults
       ELSE Fault /\ Fails(d) /\ healthy' = healthy \ {d}
    /\ UNCHANGED <<images, box, volumes, migrations, params, Edge, Material, Rest>>

---------------------------------------------------------------------------
(* DNS and TLS *)

DesiredRecords(d) == {work[d].site}
\* ensure_dns(): upsert on a difference, then the DnsRecord rows.
Dns(d, ok) ==
    /\ In(d, "dns")
    /\ IF ok THEN dnsRecords' = dnsRecords \cup DesiredRecords(d) /\ Finish(d, "tls") /\ UNCHANGED stepFaults
       ELSE Fault /\ Fails(d) /\ UNCHANGED dnsRecords
    /\ UNCHANGED <<Containers, loaded, routed, crossed, Material, Rest>>

StillFresh(s) == certRow[s] # 0
\* ensure_site_certificate(): a fresh row skips; otherwise a new key replaces the vaulted
\* one before the issuer is asked.
Certificate(d) ==
    /\ In(d, "tls")
    /\ LET s == work[d].site IN
        IF StillFresh(s) THEN Goto(d, "app") /\ UNCHANGED <<keys, vaultKey>>
        ELSE /\ keys < MaxKeys /\ keys' = keys + 1
             /\ vaultKey' = [vaultKey EXCEPT ![s] = keys + 1]
             /\ work' = [work EXCEPT ![d].at = "issue", ![d].gen = keys + 1]
    /\ UNCHANGED <<Containers, Edge, pem, certRow, Rest, stepFaults>>
\* The issuer (Origin CA, or dns01 with its seam) refuses, or signs the vaulted key.
Issue(d, ok) ==
    /\ In(d, "issue")
    /\ IF ok THEN Goto(d, "keep") /\ UNCHANGED stepFaults ELSE Fault /\ Fails(d)
    /\ UNCHANGED <<Containers, Edge, Material, Rest>>

\* push_tls_material(): a mv of a file that is not there is not noticed.
Moved(p, s) == [p EXCEPT ![s] = [cert |-> 0, key |-> 0, pcert |-> @.cert, pkey |-> IF @.key # 0 THEN @.key ELSE @.pkey]]
KeepPrevious(d) ==
    /\ In(d, "keep")
    /\ LET s == work[d].site  had == pem[s].cert # 0 IN
        /\ pem' = IF had THEN Moved(pem, s) ELSE pem
        /\ work' = [work EXCEPT ![d].at = "cert", ![d].had = had]
        /\ torn' = IF \E e \in Deploys \ {d} : work[e].site = s /\ work[e].at \in Pushing
                                               /\ work[e].status \in {"running", "stopping"}
                   THEN torn \cup {s} ELSE torn
    /\ UNCHANGED <<Containers, Edge, vaultKey, certRow, keys, runbook, stepFaults>>
WriteCert(d) ==
    /\ In(d, "cert") /\ pem' = [pem EXCEPT ![work[d].site].cert = work[d].gen] /\ Goto(d, "key")
    /\ UNCHANGED <<Containers, Edge, vaultKey, certRow, keys, Rest, stepFaults>>
WriteKey(d) ==
    /\ In(d, "key") /\ pem' = [pem EXCEPT ![work[d].site].key = work[d].gen] /\ Goto(d, "reload")
    /\ UNCHANGED <<Containers, Edge, vaultKey, certRow, keys, Rest, stepFaults>>
Reload(d) ==
    /\ In(d, "reload") /\ Goto(d, "row")
    /\ UNCHANGED <<Containers, Edge, Material, Rest, stepFaults>>
RestoreNothing(p, s) == p
\* _restore_prev()
RestorePrev(p, s) ==
    [p EXCEPT ![s] = [cert |-> IF @.pcert # 0 THEN @.pcert ELSE @.cert, key |-> IF @.pkey # 0 THEN @.pkey ELSE @.key,
                      pcert |-> 0, pkey |-> 0]]
\* A write, its checksum or the reload fails.
PushFails(d) ==
    /\ d \in Deploys /\ work[d].at \in {"cert", "key", "reload"} /\ In(d, work[d].at) /\ Fault /\ Fails(d)
    /\ pem' = IF work[d].had THEN RestorePrev(pem, work[d].site) ELSE pem
    /\ torn' = IF work[d].had THEN torn ELSE torn \cup {work[d].site}
    /\ UNCHANGED <<Containers, Edge, vaultKey, certRow, keys, runbook>>
CertificateRow(d) ==
    /\ In(d, "row") /\ Goto(d, "app")
    /\ pem' = [pem EXCEPT ![work[d].site] = IF work[d].had THEN [@ EXCEPT !.pcert = 0, !.pkey = 0] ELSE @]
    /\ certRow' = [certRow EXCEPT ![work[d].site] = work[d].gen]
    /\ UNCHANGED <<Containers, Edge, vaultKey, keys, Rest, stepFaults>>

\* _put_caddy_origin_certs(): GET; a failed GET refuses, for nothing is cached on a new
\* transport; the site's own tag may already be there.
ReadTlsApp(d, ok) ==
    /\ In(d, "app")
    /\ IF ~ok THEN Fault /\ Fails(d)
       ELSE /\ UNCHANGED stepFaults
            /\ work' = [work EXCEPT ![d].at = IF work[d].site \in loaded THEN "put" ELSE "merge", ![d].read = loaded]
    /\ UNCHANGED <<Containers, Edge, Material, Rest>>
\* _merge_caddy_origin_tls()
Merge(live, s) == live \cup {s}
PutTlsApp(d) ==
    /\ In(d, "merge") /\ Goto(d, "put") /\ loaded' = Merge(work[d].read, work[d].site)
    /\ crossed' = (crossed \/ loaded # work[d].read)
    /\ UNCHANGED <<Containers, dnsRecords, routed, Material, Rest, stepFaults>>
RouteMatches(d) == work[d].site \in routed
\* The route is PUT unless it matches: it names the site's port, not the deployment.
PutRoute(d, ok) ==
    /\ In(d, "put")
    /\ IF ok \/ RouteMatches(d)
       THEN routed' = routed \cup {work[d].site} /\ Finish(d, "smoke") /\ UNCHANGED stepFaults
       ELSE Fault /\ Fails(d) /\ UNCHANGED routed
    /\ UNCHANGED <<Containers, dnsRecords, loaded, crossed, Material, Rest>>

---------------------------------------------------------------------------
(* smoke, cutover, runbook *)

\* _healthz_payload() asks the deployment's own container ...
Ready(d) == d \in healthy /\ box[d] = "running"
\* ... but the smoke test goes through Caddy to the site's port: any container of the site
\* that runs may be the one that answers, the old one too.
SmokePayload(d, e) == work[e].site = work[d].site /\ Ready(e)
WsFrame(d, e) == work[e].site = work[d].site /\ box[e] = "running"
Smoke(d, e) ==
    /\ In(d, "smoke") /\ (box[e] = "running" \/ e = d)
    /\ IF SmokePayload(d, e) /\ WsFrame(d, e) THEN Finish(d, "cutover") ELSE Fails(d)
    /\ UNCHANGED <<Containers, Edge, Material, Rest, stepFaults>>

\* _snapshot_and_runbook(): a runbook that is present is left as it is.
WriteRunbook(d) == IF runbook[work[d].site] # 0 THEN runbook ELSE [runbook EXCEPT ![work[d].site] = d]
CutoverReady(d) == Ready(d)
\* The old container is stopped, and kept.
Cutover(d) ==
    /\ In(d, "cutover")
    /\ IF CutoverReady(d)
       THEN /\ box' = IF work[d].old # 0 /\ box[work[d].old] = "running" THEN [box EXCEPT ![work[d].old] = "stopped"] ELSE box
            /\ runbook' = WriteRunbook(d) /\ Finish(d, "done")
       ELSE Fails(d) /\ UNCHANGED <<box, runbook>>
    /\ UNCHANGED <<images, volumes, migrations, healthy, params, Edge, Material, torn, stepFaults>>

\* The application stops being ready, or a certificate comes within its renewal window.
TurnsUnready(d) ==
    /\ d \in healthy /\ Fault /\ healthy' = healthy \ {d}
    /\ UNCHANGED <<work, images, box, volumes, migrations, params, Edge, Material, Rest>>
GrowsStale(s) ==
    /\ StillFresh(s) /\ keys < MaxKeys /\ certRow' = [certRow EXCEPT ![s] = 0]
    /\ UNCHANGED <<work, Containers, Edge, pem, vaultKey, keys, Rest, stepFaults>>

Next ==
    \/ \E s \in HostSites : Begin(s) \/ GrowsStale(s)
    \/ \E d \in Deploys :
        \/ Resume(d) \/ Kill(d) \/ TurnsUnready(d)
        \/ \E ok \in BOOLEAN : \/ Build(d, ok) \/ Ship(d, ok) \/ Migrate(d, ok) \/ Start(d, ok) \/ HealthCheck(d, ok)
                               \/ Dns(d, ok) \/ Issue(d, ok) \/ ReadTlsApp(d, ok) \/ PutRoute(d, ok)
        \/ Certificate(d) \/ KeepPrevious(d) \/ WriteCert(d) \/ WriteKey(d) \/ Reload(d) \/ PushFails(d)
        \/ CertificateRow(d) \/ PutTlsApp(d) \/ Cutover(d) \/ \E e \in Deploys : Smoke(d, e)

Spec == Init /\ [][Next]_hostVars

---------------------------------------------------------------------------
(* Properties *)

\* Deployments are in a step; files and runbooks name keys and deployments that exist.
Deployment == [site : HostSites, at : Places, status : {"running", "stopping", "failed", "superseded", "succeeded"},
               old : Nat, gen : Nat, had : BOOLEAN, read : SUBSET HostSites]
TypeOK ==
    /\ work \in Seq(Deployment) /\ box \in Seq({"none", "running", "stopped"}) /\ Len(box) = Len(work) /\ keys \in Nat
    /\ \A d \in Deploys : work[d].old < d /\ work[d].gen <= keys
    /\ pem \in [HostSites -> [cert : 0..keys, key : 0..keys, pcert : 0..keys, pkey : 0..keys]]
    /\ vaultKey \in [HostSites -> 0..keys] /\ certRow \in [HostSites -> 0..keys]
    /\ runbook \in [HostSites -> 0..Len(work)] /\ healthy \subseteq Deploys
    /\ routed \subseteq HostSites /\ loaded \subseteq HostSites /\ dnsRecords \subseteq HostSites
    /\ torn \subseteq HostSites /\ crossed \in BOOLEAN

\* Whatever step fails, a site's certificate and key on the host are of one generation
\* when nobody is replacing them: the previous pair is restored as a pair.  (A killed
\* worker, two pushes at once, and a first push that fails half way are excluded.)
PairMatches ==
    \A s \in HostSites \ torn :
        (\A d \in Deploys : work[d].site = s /\ work[d].status \in {"running", "stopping"} => work[d].at \notin Pushing)
        => pem[s].cert = pem[s].key

\* The sites of a host share one tls app: a site with a route keeps its certificate
\* loaded, whatever the deployments of its siblings do, unless two of them crossed.
SiblingsKeepTls == ~crossed => routed \subseteq loaded

\* A blue_green site that was deployed once never goes without a running container,
\* whichever step fails and whatever a superseded worker still does.
SomeContainerRuns ==
    \A s \in HostSites \ RecreateSites :
        PreviousSucceeded(s) # 0 => \E d \in Deploys : work[d].site = s /\ box[d] = "running"

\* Why: a deployment that stands inside the tls step has its worker, the one it replaces is of
\* its own site, and one that is about to PUT its route has its certificate loaded.
InsideTlsAlive == \A d \in Deploys : work[d].at \in InTls \ {"tls"} => work[d].status \in {"running", "stopping"}
OldIsSibling == \A d \in Deploys : work[d].old # 0 => work[work[d].old].site = work[d].site
PutIsLoaded == ~crossed => \A d \in Deploys : work[d].at = "put" => work[d].site \in loaded
\* The files of a site that is not torn: one deployment writes them at a time; with no writer
\* the pair is of one generation and has no copies; a writer finds the copies it made, and in
\* place what it has written so far.
Writing == {"cert", "key", "reload", "row"}
OneWriterOfFiles ==
    \A s \in HostSites \ torn : \A d, e \in Deploys :
        work[d].site = s /\ work[e].site = s /\ work[d].at \in Writing /\ work[e].at \in Writing => d = e
PairAtRest ==
    \A s \in HostSites \ torn : (\A d \in Deploys : work[d].site = s => work[d].at \notin Writing) =>
        pem[s].cert = pem[s].key /\ pem[s].pcert = 0 /\ pem[s].pkey = 0
PairInHand ==
    \A d \in Deploys : work[d].at \in Writing /\ work[d].site \notin torn =>
        LET p == pem[work[d].site] IN
            /\ work[d].had <=> p.pcert # 0
            /\ p.pcert = p.pkey
            /\ p.cert = IF work[d].at = "cert" THEN 0 ELSE work[d].gen
            /\ p.key = IF work[d].at \in {"cert", "key"} THEN 0 ELSE work[d].gen
\* What succeeded was running, and only a deployment that runs stops its predecessor.
SuccessRuns ==
    \A d \in Deploys : work[d].status = "succeeded" /\ work[d].site \notin RecreateSites =>
        \E e \in Deploys : work[e].site = work[d].site /\ box[e] = "running"

\* "recreate stops the old writer first": two containers of a recreate site never run at
\* once on its volume.
OneWriter ==
    \A s \in RecreateSites : Cardinality({d \in Deploys : work[d].site = s /\ box[d] = "running"}) <= 1

\* The runbook of a site describes the deployment that succeeded last ("current image
\* tags, exact manual rollback/restart commands").
RunbookIsCurrent == \A s \in HostSites : PreviousSucceeded(s) # 0 => runbook[s] = PreviousSucceeded(s)
=============================================================================
