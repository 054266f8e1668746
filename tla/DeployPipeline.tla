--------------------------- MODULE DeployPipeline ---------------------------
(***************************************************************************)
(* The deployment pipeline: deploys/pipeline.py (begin_deploy, execute,    *)
(* _run_step, _supersede_running, rollback), deploys/heartbeat.py (sweep), *)
(* deploys/tasks.py (run_deploy), core/locks.py, the deployment commands   *)
(* of deploys/hud.py, and the producers of deployments in deploys/poller.py*)
(* and deploys/env.py.                                                     *)
(*                                                                         *)
(* Every database statement of the code commits on its own (the code opens *)
(* no transaction around them), so every statement that another process    *)
(* could observe or disturb is a step of its own.  Processes are           *)
(*   Workers   - celery children (and the web process of the synchronous   *)
(*               site rollback) that run execute();                        *)
(*   Sweepers  - runs of the beat task sweep_stale_deployments;            *)
(*   Operators - HTTP requests that cancel or abort a deployment.          *)
(***************************************************************************)
EXTENDS Naturals, FiniteSets

CONSTANTS
    Sites, Targets,
    Deployments,      \* primary keys, positive numbers, in creation order
    SiteOf,           \* deployment.manifest.site
    TargetOf,         \* site.primary_target
    Windowed,         \* sites whose deploy_policy is WINDOWED
    Workers, Sweepers, Operators,
    NSteps,           \* number of rows persist_steps creates
    MigrateStep,      \* the step whose ensure_* itself saves SUCCEEDED
    NSkipped,         \* apply_env marks the first NSkipped steps SKIPPED
    MaxMessages,      \* bound: run_deploy messages in flight per deployment
    MaxCrashes,       \* bound: processes killed in one behaviour
    MaxFaults,        \* bound: escaped errors and lost messages in one behaviour
    MaxEnvEdits,      \* bound: env edits per site
    MaxRedispatch     \* bound: repeated dispatches of one message (SpecDup)

NoDep == 0

ASSUME DeploymentsAssumption == Deployments \subseteq Nat \ {0}
ASSUME PlacementAssumption == /\ SiteOf \in [Deployments -> Sites]
                              /\ TargetOf \in [Sites -> Targets]
                              /\ Windowed \subseteq Sites
ASSUME StepsAssumption == /\ NSteps \in Nat \ {0}
                          /\ MigrateStep \in Nat
                          /\ NSkipped \in Nat
ASSUME BoundsAssumption == /\ MaxMessages \in Nat \ {0}
                           /\ MaxCrashes \in Nat
                           /\ MaxFaults \in Nat
                           /\ MaxEnvEdits \in Nat
                           /\ MaxRedispatch \in Nat
ASSUME ProcsAssumption == /\ Workers \cap Sweepers = {}
                          /\ Workers \cap Operators = {}
                          /\ Sweepers \cap Operators = {}

Procs == Workers \cup Sweepers \cup Operators
Steps == 1..NSteps

Terminal == {"succeeded", "failed", "cancelled", "superseded", "rolled_back"}
Status == {"none", "queued", "running"} \cup Terminal
StepStatus == {"absent", "pending", "running", "succeeded", "failed", "skipped"}
\* Mutation of DoneStep: a step that was in flight counts as done.
DoneStepInFlight == {"running", "succeeded", "skipped"}
DoneStep == {"succeeded", "skipped"}

\* OperationLock rows of kind "deploy", keyed by (scope, object_id).
Resources == ({"site"} \X Sites) \cup ({"target"} \X Targets)
SiteLock(d) == <<"site", SiteOf[d]>>
TargetLock(d) == <<"target", TargetOf[SiteOf[d]]>>

VARIABLES
    status,       \* Deployment.status; "none" = the row does not exist
    hb,           \* Deployment.last_heartbeat: null, within 2 minutes, older
    step,         \* DeploymentStep.status by seq; "absent" = no row
    lock,         \* holder of the OperationLock row, NoDep = no row
    msgs,         \* run_deploy messages in the broker
    waiting,      \* deployments with a "deploy-waiting" audit event
    siteEnv,      \* version of the env bundle owned by the site
    manifestEnv,  \* version referenced by the site's latest Manifest
    envOf,        \* version referenced by the deployment's Manifest
    configStale,  \* Site.config_stale
    pc, dep, row, todo, vic, rows, ret, seq, cache,  \* locals of a process
    crashes, faults, redispatched,                   \* bounds
    begun,        \* history: deployments begin_deploy has set RUNNING
    applied,      \* history: steps whose ensure_* returned for a deployment
    overrun,      \* history: steps a task started on a stopped deployment
    retryOf       \* history: the deployment a retry was made from

rowVars == <<status, hb, step>>
envVars == <<siteEnv, manifestEnv, envOf, configStale>>
callVars == <<vic, rows, ret>>
taskVars == <<row, seq, cache, overrun>>
boundVars == <<crashes, faults, redispatched>>
markVars == <<waiting, retryOf, begun>>
vars == <<rowVars, lock, msgs, envVars, pc, dep, todo, callVars, taskVars,
          boundVars, applied, markVars>>

NoCache == [k \in Steps |-> "absent"]

Init ==
    /\ status = [d \in Deployments |-> "none"]
    /\ hb = [d \in Deployments |-> "null"]
    /\ step = [d \in Deployments |-> NoCache]
    /\ lock = [r \in Resources |-> NoDep]
    /\ msgs = [d \in Deployments |-> 0]
    /\ waiting = {}
    /\ siteEnv = [s \in Sites |-> 0]
    /\ manifestEnv = [s \in Sites |-> 0]
    /\ envOf = [d \in Deployments |-> 0]
    /\ configStale = [s \in Sites |-> FALSE]
    /\ pc = [p \in Procs |-> "idle"]
    /\ dep = [p \in Procs |-> NoDep]
    /\ row = [p \in Procs |-> "none"]
    /\ todo = [p \in Procs |-> {}]
    /\ vic = [p \in Procs |-> NoDep]
    /\ rows = [p \in Procs |-> {}]
    /\ ret = [p \in Procs |-> "idle"]
    /\ seq = [p \in Procs |-> 1]
    /\ cache = [p \in Procs |-> NoCache]
    /\ crashes = 0
    /\ faults = 0
    /\ redispatched = 0
    /\ begun = {}
    /\ applied = [d \in Deployments |-> {}]
    /\ overrun = [p \in Procs |-> 0]
    /\ retryOf = [d \in Deployments |-> NoDep]

-----------------------------------------------------------------------------
(* Control helpers *)

Goto(p, l) == pc' = [pc EXCEPT ![p] = l]

\* The task of p returns or raises: its locals are gone.
EndTask(p) ==
    /\ Goto(p, "idle")
    /\ dep' = [dep EXCEPT ![p] = NoDep]
    /\ row' = [row EXCEPT ![p] = "none"]
    /\ seq' = [seq EXCEPT ![p] = 1]
    /\ cache' = [cache EXCEPT ![p] = NoCache]
    /\ overrun' = [overrun EXCEPT ![p] = 0]

\* p calls release_deploy_locks(d) and continues at l.
CallRelease(p, d, l) ==
    /\ Goto(p, "release")
    /\ vic' = [vic EXCEPT ![p] = d]
    /\ ret' = [ret EXCEPT ![p] = l]
    /\ rows' = rows

Fault == faults < MaxFaults /\ faults' = faults + 1 /\ UNCHANGED <<crashes, redispatched>>

-----------------------------------------------------------------------------
(* Producers.  A deployment row is created QUEUED, then its message is sent. *)

NextPk(d) == /\ status[d] = "none"
             /\ \A e \in Deployments : e < d => status[e] # "none"

CreateRow(d) == status' = [status EXCEPT ![d] = "queued"]

producerUnchanged == <<hb, lock, pc, dep, todo, callVars, taskVars, applied>>

\* poller._enqueue: Manifest N+1 is a copy of the latest body, env ref included.
Enqueue(d) ==
    /\ NextPk(d)
    /\ CreateRow(d)
    /\ envOf' = [envOf EXCEPT ![d] = manifestEnv[SiteOf[d]]]
    /\ msgs' = [msgs EXCEPT ![d] = 1]
    /\ UNCHANGED <<step, siteEnv, manifestEnv, configStale, boundVars, markVars>>
    /\ UNCHANGED producerUnchanged

\* The producer dies, or the broker refuses, after the row and before delay().
EnqueueLost(d) ==
    /\ NextPk(d)
    /\ Fault
    /\ CreateRow(d)
    /\ envOf' = [envOf EXCEPT ![d] = manifestEnv[SiteOf[d]]]
    /\ UNCHANGED <<step, msgs, siteEnv, manifestEnv, configStale, markVars>>
    /\ UNCHANGED producerUnchanged

\* A WINDOWED site outside its window: the row waits, marked by an audit event.
Park(d) ==
    /\ NextPk(d)
    /\ SiteOf[d] \in Windowed
    /\ CreateRow(d)
    /\ envOf' = [envOf EXCEPT ![d] = manifestEnv[SiteOf[d]]]
    /\ waiting' = waiting \cup {d}
    /\ UNCHANGED <<step, msgs, siteEnv, manifestEnv, configStale, boundVars, retryOf,
                   begun>>
    /\ UNCHANGED producerUnchanged

\* _promote_waiting: the window is open; the heartbeat marks the row as sent.
Promote(d) ==
    /\ d \in waiting
    /\ status[d] = "queued"
    /\ hb[d] = "null"
    /\ hb' = [hb EXCEPT ![d] = "fresh"]
    /\ msgs' = [msgs EXCEPT ![d] = @ + 1]
    /\ UNCHANGED <<status, step, lock, envVars, pc, dep, todo, callVars, taskVars,
                   boundVars, applied, markVars>>

\* env.put_env: replace the site bundle, mark the site stale (one transaction).
PutEnv(s) ==
    /\ siteEnv[s] < MaxEnvEdits
    /\ siteEnv' = [siteEnv EXCEPT ![s] = @ + 1]
    /\ configStale' = [configStale EXCEPT ![s] = TRUE]
    /\ UNCHANGED <<status, step, msgs, manifestEnv, envOf, boundVars, markVars>>
    /\ UNCHANGED producerUnchanged

\* env.apply_env: Manifest N+1 with the site's bundle, steps persisted, the
\* first ones SKIPPED, all in one transaction; then the message.
ApplyEnv(d) ==
    /\ NextPk(d)
    /\ CreateRow(d)
    /\ step' = [step EXCEPT ![d] =
                  [k \in Steps |-> IF k <= NSkipped THEN "skipped" ELSE "pending"]]
    /\ manifestEnv' = [manifestEnv EXCEPT ![SiteOf[d]] = siteEnv[SiteOf[d]]]
    /\ envOf' = [envOf EXCEPT ![d] = siteEnv[SiteOf[d]]]
    /\ msgs' = [msgs EXCEPT ![d] = 1]
    /\ UNCHANGED <<siteEnv, configStale, boundVars, markVars>>
    /\ UNCHANGED producerUnchanged

\* hud deployment.retry: a new row on the failed deployment's Manifest.
Retry(d, old) ==
    /\ NextPk(d)
    /\ SiteOf[d] = SiteOf[old]
    /\ status[old] = "failed"
    /\ CreateRow(d)
    /\ envOf' = [envOf EXCEPT ![d] = envOf[old]]
    /\ msgs' = [msgs EXCEPT ![d] = 1]
    /\ retryOf' = [retryOf EXCEPT ![d] = old]
    /\ UNCHANGED <<step, siteEnv, manifestEnv, configStale, boundVars, waiting, begun>>
    /\ UNCHANGED producerUnchanged

\* previous_succeeded(dep): the newest other SUCCEEDED deployment of the site.
PreviousSucceeded(old, prev) ==
    LET won == {e \in Deployments \ {old} :
                  SiteOf[e] = SiteOf[old] /\ status[e] = "succeeded"}
    IN  prev \in won /\ \A e \in won : e <= prev

\* hud deployment.rollback: a new row on the previous release's Manifest.
Rollback(d, old, prev) ==
    /\ NextPk(d)
    /\ SiteOf[d] = SiteOf[old]
    /\ status[old] = "failed"
    /\ PreviousSucceeded(old, prev)
    /\ CreateRow(d)
    /\ envOf' = [envOf EXCEPT ![d] = envOf[prev]]
    /\ msgs' = [msgs EXCEPT ![d] = 1]
    /\ UNCHANGED <<step, siteEnv, manifestEnv, configStale, boundVars, markVars>>
    /\ UNCHANGED producerUnchanged

\* views.SiteRollbackView -> pipeline.rollback: the web process creates the
\* row and runs execute() itself; no message is sent.
RollbackNow(w, d, old) ==
    /\ pc[w] = "idle"
    /\ NextPk(d)
    /\ PreviousSucceeded(d, old)
    /\ SiteOf[d] = SiteOf[old]
    /\ CreateRow(d)
    /\ envOf' = [envOf EXCEPT ![d] = envOf[old]]
    /\ dep' = [dep EXCEPT ![w] = d]
    /\ row' = [row EXCEPT ![w] = "queued"]
    /\ Goto(w, "loaded")
    /\ UNCHANGED <<hb, step, lock, msgs, siteEnv, manifestEnv, configStale, todo,
                   callVars, seq, cache, overrun, boundVars, applied, markVars>>

-----------------------------------------------------------------------------
(* release_deploy_locks(deployment): list the holder's rows, delete each.   *)

ReleaseList(p) ==
    /\ pc[p] = "release"
    /\ rows' = [rows EXCEPT ![p] = {r \in Resources : lock[r] = vic[p]}]
    /\ Goto(p, "releasing")
    /\ UNCHANGED <<rowVars, lock, msgs, envVars, dep, todo, vic, ret, taskVars,
                   boundVars, applied, markVars>>

\* locks.release(..., holder=holder): the delete matches the holder only.
ReleaseRow(p, r) ==
    /\ pc[p] = "releasing"
    /\ r \in rows[p]
    /\ rows' = [rows EXCEPT ![p] = @ \ {r}]
    /\ lock' = [lock EXCEPT ![r] = IF @ = vic[p] THEN NoDep ELSE @]
    /\ UNCHANGED <<rowVars, msgs, envVars, pc, dep, todo, vic, ret, taskVars,
                   boundVars, applied, markVars>>

\* Every row is gone: back to the caller, or out of the task with it.
ReleaseReturn(p) ==
    /\ pc[p] = "releasing"
    /\ rows[p] = {}
    /\ ret[p] # "idle"
    /\ Goto(p, ret[p])
    /\ vic' = [vic EXCEPT ![p] = NoDep]
    /\ ret' = [ret EXCEPT ![p] = "idle"]
    /\ UNCHANGED <<rowVars, lock, msgs, envVars, dep, todo, rows, taskVars,
                   boundVars, applied, markVars>>

ReleaseEnd(p) ==
    /\ pc[p] = "releasing"
    /\ rows[p] = {}
    /\ ret[p] = "idle"
    /\ EndTask(p)
    /\ vic' = [vic EXCEPT ![p] = NoDep]
    /\ UNCHANGED <<rowVars, lock, msgs, envVars, todo, rows, ret, boundVars,
                   applied, markVars>>

-----------------------------------------------------------------------------
(* run_deploy / execute *)

\* A worker takes the message, the envelope is accepted, the row is read.
TakeMessage(w, d) ==
    /\ pc[w] = "idle"
    /\ msgs[d] > 0
    /\ msgs' = [msgs EXCEPT ![d] = @ - 1]
    /\ dep' = [dep EXCEPT ![w] = d]
    /\ row' = [row EXCEPT ![w] = status[d]]
    /\ Goto(w, "loaded")
    /\ UNCHANGED <<rowVars, lock, envVars, todo, callVars, seq, cache, overrun,
                   boundVars, applied, markVars>>

\* The envelope is older than its 300 s: the task returns and nothing remains.
EnvelopeExpired(d) ==
    /\ msgs[d] > 0
    /\ Fault
    /\ msgs' = [msgs EXCEPT ![d] = @ - 1]
    /\ UNCHANGED <<rowVars, lock, envVars, pc, dep, todo, callVars, taskVars,
                   applied, markVars>>

\* DeploySeamRefused: FAILED is saved over whatever the row holds by now.
SeamRefused(w) ==
    /\ pc[w] = "loaded"
    /\ status' = [status EXCEPT ![dep[w]] = "failed"]
    /\ row' = [row EXCEPT ![w] = "none"]
    /\ CallRelease(w, dep[w], "idle")
    /\ UNCHANGED <<hb, step, lock, msgs, envVars, dep, todo, seq, cache, overrun,
                   boundVars, applied, markVars>>

NotStartable(w) ==
    /\ pc[w] = "loaded"
    /\ row[w] \notin {"queued", "running"}
    /\ EndTask(w)
    /\ UNCHANGED <<rowVars, lock, msgs, envVars, todo, callVars, boundVars,
                   applied, markVars>>

\* Mutation of BeginDeploy: anything that is not RUNNING is begun.
BeginDeployAny(w) ==
    /\ pc[w] = "loaded"
    /\ row[w] # "running"
    /\ todo' = [todo EXCEPT ![w] = {}]
    /\ row' = [row EXCEPT ![w] = "none"]
    /\ Goto(w, "supersede")
    /\ UNCHANGED <<rowVars, lock, msgs, envVars, dep, callVars, seq, cache,
                   overrun, boundVars, applied, markVars>>

\* begin_deploy -> _supersede_running: the query for other RUNNING rows.
BeginDeploy(w) ==
    /\ pc[w] = "loaded"
    /\ row[w] = "queued"
    /\ todo' = [todo EXCEPT ![w] =
                  {d \in Deployments \ {dep[w]} :
                     SiteOf[d] = SiteOf[dep[w]] /\ status[d] = "running"}]
    /\ row' = [row EXCEPT ![w] = "none"]
    /\ Goto(w, "supersede")
    /\ UNCHANGED <<rowVars, lock, msgs, envVars, dep, callVars, seq, cache,
                   overrun, boundVars, applied, markVars>>

\* Mutation of SupersedeOne: the locks are taken over, the old row is not saved.
SupersedeOneUnsaved(w, old) ==
    /\ pc[w] = "supersede"
    /\ old \in todo[w]
    /\ todo' = [todo EXCEPT ![w] = @ \ {old}]
    /\ CallRelease(w, old, "supersede")
    /\ UNCHANGED <<rowVars, lock, msgs, envVars, dep, taskVars, boundVars,
                   applied, markVars>>

SupersedeOne(w, old) ==
    /\ pc[w] = "supersede"
    /\ old \in todo[w]
    /\ todo' = [todo EXCEPT ![w] = @ \ {old}]
    /\ status' = [status EXCEPT ![old] = "superseded"]
    /\ CallRelease(w, old, "supersede")
    /\ UNCHANGED <<hb, step, lock, msgs, envVars, dep, taskVars, boundVars,
                   applied, markVars>>

AcquireSite(w) ==
    /\ pc[w] = "supersede"
    /\ todo[w] = {}
    /\ lock[SiteLock(dep[w])] = NoDep
    /\ lock' = [lock EXCEPT ![SiteLock(dep[w])] = dep[w]]
    /\ Goto(w, "siteLocked")
    /\ UNCHANGED <<rowVars, msgs, envVars, dep, todo, callVars, taskVars,
                   boundVars, applied, markVars>>

\* locks.acquire returned None: {"started": False}, the row stays QUEUED.
SiteBusy(w) ==
    /\ pc[w] = "supersede"
    /\ todo[w] = {}
    /\ lock[SiteLock(dep[w])] # NoDep
    /\ EndTask(w)
    /\ UNCHANGED <<rowVars, lock, msgs, envVars, todo, callVars, boundVars,
                   applied, markVars>>

\* Mutation of AcquireTarget: an upsert instead of an insert, never refused.
AcquireTargetUpsert(w) ==
    /\ pc[w] = "siteLocked"
    /\ lock' = [lock EXCEPT ![TargetLock(dep[w])] = dep[w]]
    /\ Goto(w, "locked")
    /\ UNCHANGED <<rowVars, msgs, envVars, dep, todo, callVars, taskVars,
                   boundVars, applied, markVars>>

AcquireTarget(w) ==
    /\ pc[w] = "siteLocked"
    /\ lock[TargetLock(dep[w])] = NoDep
    /\ lock' = [lock EXCEPT ![TargetLock(dep[w])] = dep[w]]
    /\ Goto(w, "locked")
    /\ UNCHANGED <<rowVars, msgs, envVars, dep, todo, callVars, taskVars,
                   boundVars, applied, markVars>>

TargetBusy(w) ==
    /\ pc[w] = "siteLocked"
    /\ lock[TargetLock(dep[w])] # NoDep
    /\ Goto(w, "backout")
    /\ UNCHANGED <<rowVars, lock, msgs, envVars, dep, todo, callVars, taskVars,
                   boundVars, applied, markVars>>

\* Mutation of BackOut: begin_deploy returns False and keeps the site lock.
BackOutKeeps(w) ==
    /\ pc[w] = "backout"
    /\ EndTask(w)
    /\ UNCHANGED <<rowVars, lock, msgs, envVars, todo, callVars, boundVars, applied,
                   markVars>>

\* The site lock is given back (holder matched) and begin_deploy returns False.
BackOut(w) ==
    /\ pc[w] = "backout"
    /\ lock' = [lock EXCEPT ![SiteLock(dep[w])] =
                  IF @ = dep[w] THEN NoDep ELSE @]
    /\ EndTask(w)
    /\ UNCHANGED <<rowVars, msgs, envVars, todo, callVars, boundVars, applied,
                   markVars>>

\* persist_steps (once), then RUNNING and the heartbeat, whatever the row holds.
SaveRunning(w) ==
    /\ pc[w] = "locked"
    /\ status' = [status EXCEPT ![dep[w]] = "running"]
    /\ hb' = [hb EXCEPT ![dep[w]] = "fresh"]
    /\ step' = [step EXCEPT ![dep[w]] =
                  [k \in Steps |-> IF step[dep[w]][k] = "absent" THEN "pending"
                                   ELSE step[dep[w]][k]]]
    /\ begun' = begun \cup {dep[w]}
    /\ Goto(w, "begun")
    /\ UNCHANGED <<lock, msgs, envVars, dep, todo, callVars, taskVars, boundVars,
                   applied, waiting, retryOf>>

\* refresh_from_db after begin_deploy found the row not RUNNING any more.
BegunStopped(w) ==
    /\ pc[w] = "begun"
    /\ status[dep[w]] # "running"
    /\ EndTask(w)
    /\ UNCHANGED <<rowVars, lock, msgs, envVars, todo, callVars, boundVars,
                   applied, markVars>>

\* touch_heartbeat, for a deployment just begun or for one found RUNNING.
TouchHeartbeat(w) ==
    /\ \/ pc[w] = "begun" /\ status[dep[w]] = "running"
       \/ pc[w] = "loaded" /\ row[w] = "running"
    /\ hb' = [hb EXCEPT ![dep[w]] = "fresh"]
    /\ row' = [row EXCEPT ![w] = "none"]
    /\ Goto(w, "prepare")
    /\ UNCHANGED <<status, step, lock, msgs, envVars, dep, todo, callVars, seq,
                   cache, overrun, boundVars, applied, markVars>>

\* _assemble_desired and the env decrypt succeeded; the loop's query is read.
LoadSteps(w) ==
    /\ pc[w] = "prepare"
    /\ cache' = [cache EXCEPT ![w] = step[dep[w]]]
    /\ seq' = [seq EXCEPT ![w] = 1]
    /\ Goto(w, "loop")
    /\ UNCHANGED <<rowVars, lock, msgs, envVars, dep, todo, callVars, row,
                   overrun, boundVars, applied, markVars>>

\* _assemble_desired raised (vault, SSH, registry): straight to the finally.
PrepareRaises(w) ==
    /\ pc[w] = "prepare"
    /\ Fault
    /\ Goto(w, "finally")
    /\ UNCHANGED <<rowVars, lock, msgs, envVars, dep, todo, callVars, taskVars,
                   applied, markVars>>

-----------------------------------------------------------------------------
(* _execute_running: the step loop *)

\* refresh_from_db at the head of an iteration, and once after the loop.
LoopStopped(w) ==
    /\ pc[w] = "loop"
    /\ status[dep[w]] # "running"
    /\ Goto(w, "finally")
    /\ UNCHANGED <<rowVars, lock, msgs, envVars, dep, todo, callVars, taskVars,
                   boundVars, applied, markVars>>

\* A step whose cached row is SUCCEEDED or SKIPPED is passed over ...
LoopSkip(w) ==
    /\ pc[w] = "loop"
    /\ seq[w] \in Steps
    /\ status[dep[w]] = "running"
    /\ cache[w][seq[w]] \in DoneStep
    /\ seq' = [seq EXCEPT ![w] = @ + 1]
    /\ UNCHANGED <<rowVars, lock, msgs, envVars, pc, dep, todo, callVars, row,
                   cache, overrun, boundVars, applied, markVars>>

\* Mutation of LoopEnter: the row is not refreshed at the head of the loop.
LoopEnterUnchecked(w) ==
    /\ pc[w] = "loop"
    /\ seq[w] \in Steps
    /\ cache[w][seq[w]] \notin DoneStep
    /\ Goto(w, "startStep")
    /\ UNCHANGED <<rowVars, lock, msgs, envVars, dep, todo, callVars, taskVars,
                   boundVars, applied, markVars>>

\* ... and any other one is run.
LoopEnter(w) ==
    /\ pc[w] = "loop"
    /\ seq[w] \in Steps
    /\ status[dep[w]] = "running"
    /\ cache[w][seq[w]] \notin DoneStep
    /\ Goto(w, "startStep")
    /\ UNCHANGED <<rowVars, lock, msgs, envVars, dep, todo, callVars, taskVars,
                   boundVars, applied, markVars>>

\* _run_step: RUNNING saved on the step, heartbeat touched.
StartStep(w) ==
    /\ pc[w] = "startStep"
    /\ step' = [step EXCEPT ![dep[w]][seq[w]] = "running"]
    /\ hb' = [hb EXCEPT ![dep[w]] = "fresh"]
    /\ overrun' = [overrun EXCEPT ![w] =
                     IF status[dep[w]] = "running" THEN @ ELSE @ + 1]
    /\ Goto(w, "dispatch")
    /\ UNCHANGED <<status, lock, msgs, envVars, dep, todo, callVars, row, seq,
                   cache, boundVars, applied, markVars>>

\* _dispatch_step returned; ensure_migrate has saved its step SUCCEEDED inside.
StepApplied(w) ==
    /\ pc[w] = "dispatch"
    /\ applied' = [applied EXCEPT ![dep[w]] = @ \cup {seq[w]}]
    /\ step' = IF seq[w] = MigrateStep
                 THEN [step EXCEPT ![dep[w]][seq[w]] = "succeeded"]
                 ELSE step
    /\ Goto(w, "applied")
    /\ UNCHANGED <<status, hb, lock, msgs, envVars, dep, todo, callVars, taskVars,
                   boundVars, markVars>>

\* Mutation of StepRaises: the error is recorded and the loop goes on.
StepRaisesSwallowed(w) ==
    /\ pc[w] = "dispatch"
    /\ step' = [step EXCEPT ![dep[w]][seq[w]] = "failed"]
    /\ seq' = [seq EXCEPT ![w] = @ + 1]
    /\ Goto(w, "loop")
    /\ UNCHANGED <<status, hb, lock, msgs, envVars, dep, todo, callVars, row, cache,
                   overrun, boundVars, applied, markVars>>

\* ensure_* raised -> _mark_failed, first statement: the step row.
StepRaises(w) ==
    /\ pc[w] = "dispatch"
    /\ step' = [step EXCEPT ![dep[w]][seq[w]] = "failed"]
    /\ Goto(w, "markFailed")
    /\ UNCHANGED <<status, hb, lock, msgs, envVars, dep, todo, callVars, taskVars,
                   boundVars, applied, markVars>>

\* _mark_failed, second statement: FAILED over whatever the row holds by now.
MarkFailed(w) ==
    /\ pc[w] = "markFailed"
    /\ status' = [status EXCEPT ![dep[w]] = "failed"]
    /\ CallRelease(w, dep[w], "finally")
    /\ UNCHANGED <<hb, step, lock, msgs, envVars, dep, todo, taskVars, boundVars,
                   applied, markVars>>

\* Mutation of StepSucceeded: the loop advances by two.
StepSucceededTwice(w) ==
    /\ pc[w] = "applied"
    /\ step' = [step EXCEPT ![dep[w]][seq[w]] = "succeeded"]
    /\ hb' = [hb EXCEPT ![dep[w]] = "fresh"]
    /\ seq' = [seq EXCEPT ![w] = @ + 2]
    /\ Goto(w, "loop")
    /\ UNCHANGED <<status, lock, msgs, envVars, dep, todo, callVars, row, cache,
                   overrun, boundVars, applied, markVars>>

StepSucceeded(w) ==
    /\ pc[w] = "applied"
    /\ step' = [step EXCEPT ![dep[w]][seq[w]] = "succeeded"]
    /\ hb' = [hb EXCEPT ![dep[w]] = "fresh"]
    /\ seq' = [seq EXCEPT ![w] = @ + 1]
    /\ Goto(w, "loop")
    /\ UNCHANGED <<status, lock, msgs, envVars, dep, todo, callVars, row, cache,
                   overrun, boundVars, applied, markVars>>

\* _snapshot_and_runbook raised after cutover: no _mark_failed on this path.
SnapshotRaises(w) ==
    /\ pc[w] = "applied"
    /\ seq[w] = NSteps
    /\ Fault
    /\ Goto(w, "finally")
    /\ UNCHANGED <<rowVars, lock, msgs, envVars, dep, todo, callVars, taskVars,
                   applied, markVars>>

\* After the loop: the refreshed row is RUNNING ...
LoopFinished(w) ==
    /\ pc[w] = "loop"
    /\ seq[w] \notin Steps
    /\ status[dep[w]] = "running"
    /\ Goto(w, "finish")
    /\ UNCHANGED <<rowVars, lock, msgs, envVars, dep, todo, callVars, taskVars,
                   boundVars, applied, markVars>>

\* ... and SUCCEEDED is saved over whatever it holds by now ...
SaveSucceeded(w) ==
    /\ pc[w] = "finish"
    /\ status' = [status EXCEPT ![dep[w]] = "succeeded"]
    /\ Goto(w, "clearStale")
    /\ UNCHANGED <<hb, step, lock, msgs, envVars, dep, todo, callVars, taskVars,
                   boundVars, applied, markVars>>

\* ... and the site's config_stale is cleared.
ClearStale(w) ==
    /\ pc[w] = "clearStale"
    /\ configStale' = [configStale EXCEPT ![SiteOf[dep[w]]] = FALSE]
    /\ Goto(w, "finally")
    /\ UNCHANGED <<rowVars, lock, msgs, siteEnv, manifestEnv, envOf, dep, todo,
                   callVars, taskVars, boundVars, applied, markVars>>

\* execute()'s finally: release when the refreshed row is terminal.
FinallyRelease(w) ==
    /\ pc[w] = "finally"
    /\ status[dep[w]] \in Terminal
    /\ CallRelease(w, dep[w], "idle")
    /\ UNCHANGED <<rowVars, lock, msgs, envVars, dep, todo, taskVars, boundVars,
                   applied, markVars>>

FinallyKeep(w) ==
    /\ pc[w] = "finally"
    /\ status[dep[w]] \notin Terminal
    /\ EndTask(w)
    /\ UNCHANGED <<rowVars, lock, msgs, envVars, todo, callVars, boundVars,
                   applied, markVars>>

-----------------------------------------------------------------------------
(* heartbeat.sweep *)

Age(d) ==
    /\ status[d] = "running"
    /\ hb[d] = "fresh"
    /\ hb' = [hb EXCEPT ![d] = "stale"]
    /\ UNCHANGED <<status, step, lock, msgs, envVars, pc, dep, todo, callVars,
                   taskVars, boundVars, applied, markVars>>

\* Mutation of SweepList: only rows that never had a heartbeat are listed.
SweepListNull(p) ==
    /\ pc[p] = "idle"
    /\ LET staleIds == {d \in Deployments : status[d] = "running" /\ hb[d] = "null"}
       IN  staleIds # {} /\ todo' = [todo EXCEPT ![p] = staleIds]
    /\ Goto(p, "sweep")
    /\ UNCHANGED <<rowVars, lock, msgs, envVars, dep, callVars, taskVars,
                   boundVars, applied, markVars>>

SweepList(p) ==
    /\ pc[p] = "idle"
    /\ LET staleIds == {d \in Deployments : status[d] = "running" /\ hb[d] # "fresh"}
       IN  staleIds # {} /\ todo' = [todo EXCEPT ![p] = staleIds]
    /\ Goto(p, "sweep")
    /\ UNCHANGED <<rowVars, lock, msgs, envVars, dep, callVars, taskVars,
                   boundVars, applied, markVars>>

\* resume_step: the first step not SUCCEEDED or SKIPPED, None if there is none.
OpenSteps(d) == {k \in Steps : step[d][k] \notin DoneStep}
ResumeStep(d) == CHOOSE k \in OpenSteps(d) : \A j \in OpenSteps(d) : k <= j

\* What the sweep decides from the row and its steps.
Verdict(d) ==
    IF status[d] # "running" THEN "sweep"
    ELSE IF OpenSteps(d) = {} THEN "finalize"
    ELSE IF step[d][ResumeStep(d)] = "failed" THEN "abort" ELSE "resume"

\* The row and its steps are read; the decision is carried out later.
SweepRead(p, d) ==
    /\ pc[p] = "sweep"
    /\ d \in todo[p]
    /\ todo' = [todo EXCEPT ![p] = @ \ {d}]
    /\ dep' = [dep EXCEPT ![p] = d]
    /\ Goto(p, Verdict(d))
    /\ UNCHANGED <<rowVars, lock, msgs, envVars, callVars, taskVars, boundVars,
                   applied, markVars>>

\* UPDATE ... WHERE status = RUNNING; the locks only when it matched a row.
SweepClose(p, to) ==
    /\ status[dep[p]] = "running"
    /\ status' = [status EXCEPT ![dep[p]] = to]
    /\ CallRelease(p, dep[p], "sweep")
    /\ UNCHANGED <<hb, step, lock, msgs, envVars, dep, todo, taskVars, boundVars,
                   applied, markVars>>

SweepFinalize(p) == pc[p] = "finalize" /\ SweepClose(p, "succeeded")
SweepAbort(p) == pc[p] = "abort" /\ SweepClose(p, "failed")

\* The row left RUNNING since it was read: no row matched, or the refresh says so.
SweepSkip(p) ==
    /\ pc[p] \in {"finalize", "abort", "resume"}
    /\ status[dep[p]] # "running"
    /\ Goto(p, "sweep")
    /\ UNCHANGED <<rowVars, lock, msgs, envVars, dep, todo, callVars, taskVars,
                   boundVars, applied, markVars>>

\* The refreshed row is RUNNING: the heartbeat is stamped as a claim.
SweepClaim(p) ==
    /\ pc[p] = "resume"
    /\ status[dep[p]] = "running"
    /\ hb' = [hb EXCEPT ![dep[p]] = "fresh"]
    /\ Goto(p, "sweepEnqueue")
    /\ UNCHANGED <<status, step, lock, msgs, envVars, dep, todo, callVars,
                   taskVars, boundVars, applied, markVars>>

SweepEnqueue(p) ==
    /\ pc[p] = "sweepEnqueue"
    /\ msgs[dep[p]] < MaxMessages
    /\ msgs' = [msgs EXCEPT ![dep[p]] = @ + 1]
    /\ Goto(p, "sweep")
    /\ UNCHANGED <<rowVars, lock, envVars, dep, todo, callVars, taskVars,
                   boundVars, applied, markVars>>

SweepEnd(p) ==
    /\ pc[p] = "sweep"
    /\ todo[p] = {}
    /\ EndTask(p)
    /\ UNCHANGED <<rowVars, lock, msgs, envVars, todo, callVars, boundVars,
                   applied, markVars>>

-----------------------------------------------------------------------------
(* hud.DeploymentCommandView: read the row, check the action, save. *)

Command(o, d, seen, l) ==
    /\ pc[o] = "idle"
    /\ status[d] = seen
    /\ dep' = [dep EXCEPT ![o] = d]
    /\ Goto(o, l)
    /\ UNCHANGED <<rowVars, lock, msgs, envVars, todo, callVars, taskVars,
                   boundVars, applied, markVars>>

CancelRequest(o, d) == Command(o, d, "queued", "cancelSave")
AbortRequest(o, d) == Command(o, d, "running", "abortSave")

CancelSave(o) ==
    /\ pc[o] = "cancelSave"
    /\ status' = [status EXCEPT ![dep[o]] = "cancelled"]
    /\ EndTask(o)
    /\ UNCHANGED <<hb, step, lock, msgs, envVars, todo, callVars, boundVars,
                   applied, markVars>>

AbortSave(o) ==
    /\ pc[o] = "abortSave"
    /\ status' = [status EXCEPT ![dep[o]] = "cancelled"]
    /\ CallRelease(o, dep[o], "idle")
    /\ UNCHANGED <<hb, step, lock, msgs, envVars, dep, todo, taskVars, boundVars,
                   applied, markVars>>

-----------------------------------------------------------------------------
(* Failures *)

\* The process dies; the message it had taken was acknowledged on receipt.
Crash(p) ==
    /\ pc[p] # "idle"
    /\ crashes < MaxCrashes
    /\ crashes' = crashes + 1
    /\ EndTask(p)
    /\ todo' = [todo EXCEPT ![p] = {}]
    /\ vic' = [vic EXCEPT ![p] = NoDep]
    /\ rows' = [rows EXCEPT ![p] = {}]
    /\ ret' = [ret EXCEPT ![p] = "idle"]
    /\ UNCHANGED <<rowVars, lock, msgs, envVars, faults, redispatched, applied,
                   markVars>>

\* A second message for a deployment that was dispatched already: a HUD outbox
\* row whose claim went stale is dispatched again (core/hud/operations.py), and
\* two polls that both read last_heartbeat = null both promote a parked row.
Redispatch(d) ==
    /\ redispatched < MaxRedispatch
    /\ status[d] # "none"
    /\ msgs[d] < MaxMessages
    /\ msgs' = [msgs EXCEPT ![d] = @ + 1]
    /\ redispatched' = redispatched + 1
    /\ UNCHANGED <<rowVars, lock, envVars, pc, dep, todo, callVars, taskVars,
                   crashes, faults, applied, markVars>>

-----------------------------------------------------------------------------
Release(p) == \/ ReleaseList(p) \/ \E r \in Resources : ReleaseRow(p, r)
              \/ ReleaseReturn(p) \/ ReleaseEnd(p)

\* What a worker does with the deployment it holds.
WorkerStep(w) ==
    \/ NotStartable(w) \/ BeginDeploy(w)
    \/ \E d \in Deployments : SupersedeOne(w, d)
    \/ AcquireSite(w) \/ SiteBusy(w) \/ AcquireTarget(w) \/ TargetBusy(w) \/ BackOut(w)
    \/ SaveRunning(w) \/ BegunStopped(w) \/ TouchHeartbeat(w) \/ LoadSteps(w)
    \/ LoopStopped(w) \/ LoopSkip(w) \/ LoopEnter(w) \/ StartStep(w) \/ StepApplied(w)
    \/ StepSucceeded(w) \/ MarkFailed(w) \/ LoopFinished(w) \/ SaveSucceeded(w)
    \/ ClearStale(w) \/ FinallyRelease(w) \/ FinallyKeep(w) \/ Release(w)

WorkerFails(w) == SeamRefused(w) \/ PrepareRaises(w) \/ StepRaises(w) \/ SnapshotRaises(w)

SweeperStep(p) ==
    \/ SweepList(p) \/ SweepFinalize(p) \/ SweepAbort(p) \/ SweepSkip(p) \/ SweepClaim(p)
    \/ \E d \in Deployments : SweepRead(p, d)
    \/ SweepEnqueue(p) \/ SweepEnd(p) \/ Release(p)

OperatorStep(o) ==
    \/ \E d \in Deployments : CancelRequest(o, d) \/ AbortRequest(o, d)
    \/ CancelSave(o) \/ AbortSave(o) \/ Release(o)

Produce(d) ==
    \/ Enqueue(d) \/ EnqueueLost(d) \/ Park(d) \/ Promote(d) \/ ApplyEnv(d)
    \/ \E old \in Deployments : Retry(d, old)
    \/ \E old, prev \in Deployments : Rollback(d, old, prev)
    \/ \E w \in Workers, old \in Deployments : RollbackNow(w, d, old)

Next ==
    \/ \E d \in Deployments : Produce(d) \/ EnvelopeExpired(d) \/ Age(d)
    \/ \E s \in Sites : PutEnv(s)
    \/ \E w \in Workers : \/ \E d \in Deployments : TakeMessage(w, d)
                          \/ WorkerStep(w)
                          \/ WorkerFails(w)
    \/ \E p \in Sweepers : SweeperStep(p)
    \/ \E o \in Operators : OperatorStep(o)
    \/ \E p \in Procs : Crash(p)

Spec == Init /\ [][Next]_vars

SpecDup == Init /\ [][Next \/ \E d \in Deployments : Redispatch(d)]_vars

-----------------------------------------------------------------------------
(* Properties *)

Pcs == {"idle", "release", "releasing", "loaded", "supersede", "siteLocked",
        "backout", "locked", "begun", "prepare", "loop", "startStep", "dispatch",
        "applied", "markFailed", "finish", "clearStale", "finally", "sweep",
        "finalize", "abort", "resume", "sweepEnqueue", "cancelSave", "abortSave"}

DataTypeOK ==
    /\ status \in [Deployments -> Status]
    /\ hb \in [Deployments -> {"null", "fresh", "stale"}]
    /\ step \in [Deployments -> [Steps -> StepStatus]]
    /\ lock \in [Resources -> Deployments \cup {NoDep}]
    /\ msgs \in [Deployments -> Nat]
    /\ waiting \subseteq Deployments /\ begun \subseteq Deployments
    /\ siteEnv \in [Sites -> Nat] /\ manifestEnv \in [Sites -> Nat]
    /\ envOf \in [Deployments -> Nat]
    /\ configStale \in [Sites -> BOOLEAN]
    /\ crashes \in Nat /\ faults \in Nat /\ redispatched \in Nat
    /\ applied \in [Deployments -> SUBSET Steps]
    /\ retryOf \in [Deployments -> Deployments \cup {NoDep}]

TaskTypeOK ==
    /\ pc \in [Procs -> Pcs]
    /\ dep \in [Procs -> Deployments \cup {NoDep}]
    /\ row \in [Procs -> Status]
    /\ todo \in [Procs -> SUBSET Deployments]
    /\ vic \in [Procs -> Deployments \cup {NoDep}]
    /\ rows \in [Procs -> SUBSET Resources]
    /\ ret \in [Procs -> Pcs]
    /\ seq \in [Procs -> 1..(NSteps + 1)]
    /\ cache \in [Procs -> [Steps -> StepStatus]]
    /\ overrun \in [Procs -> Nat]

\* Every row, lock and local variable of the pipeline has its type.
TypeOK == DataTypeOK /\ TaskTypeOK

\* A RUNNING deployment holds the deploy lock of its site and of its target:
\* what begin_deploy takes is not given away, by a supersede, an abort, a sweep,
\* a failure or a crash, before the row has left RUNNING.
RunningHoldsLocks ==
    \A d \in Deployments : status[d] = "running" =>
        lock[SiteLock(d)] = d /\ lock[TargetLock(d)] = d

StepCovered(d, k) == k \in applied[d] \/ step[d][k] = "skipped"

\* A deployment is SUCCEEDED, by a worker or by the sweep, only when every step
\* was really carried out for it, however many workers resumed it concurrently.
SuccessMeansApplied ==
    \A d \in Deployments : status[d] = "succeeded" =>
        \A k \in Steps : StepCovered(d, k)

\* No step is entered before all earlier steps were carried out, whichever
\* worker, first run or resume, enters it.
StepsInOrder ==
    \A d \in Deployments : \A k \in Steps :
        step[d][k] \in {"running", "succeeded", "failed"} =>
            \A j \in 1..(k - 1) : StepCovered(d, j)

\* A worker whose deployment was superseded, aborted or failed under it starts
\* at most one more step: the refresh at the head of the loop is a fence.
AtMostOneOverrun == \A w \in Workers : overrun[w] <= 1

\* A process that is about to give lock r of deployment d back.
Releasing(p, r, d) ==
    \/ dep[p] = d /\ pc[p] \in {"siteLocked", "locked", "backout", "clearStale",
                                 "finally"}
    \/ vic[p] = d /\ (pc[p] = "release" \/ (pc[p] = "releasing" /\ r \in rows[p]))

\* Until a process is killed no deploy lock is leaked: its holder is RUNNING or
\* some process is on its way to release it.
LocksAccounted ==
    crashes = 0 => \A r \in Resources : lock[r] # NoDep =>
        status[lock[r]] = "running" \/ \E p \in Procs : Releasing(p, r, lock[r])

\* A finished deployment is never set RUNNING again (a cancelled one may be: the
\* worker that had read it QUEUED saves RUNNING over the cancel).
NeverRestarted ==
    [][\A d \in Deployments : status[d] \in Terminal \ {"cancelled"} =>
          status'[d] # "running"]_vars

\* A retry does not carry out again what its failed predecessor had succeeded in.
RetryKeepsProgress ==
    \A d \in Deployments : retryOf[d] # NoDep =>
        \A k \in Steps : step[retryOf[d]][k] = "succeeded" => step[d][k] # "running"

\* Every running process takes its next step, the broker delivers (each queue
\* is first-in first-out), beat keeps sweeping and time passes.
Fairness ==
    /\ \A w \in Workers : WF_vars(WorkerStep(w))
    /\ \A p \in Sweepers : WF_vars(SweeperStep(p))
    /\ \A o \in Operators : WF_vars(CancelSave(o) \/ AbortSave(o) \/ Release(o))
    /\ \A d \in Deployments :
         /\ SF_vars(\E w \in Workers : TakeMessage(w, d))
         /\ WF_vars(Age(d))

FairSpec == Spec /\ Fairness

\* Whatever is killed or raises, a RUNNING deployment does not stay RUNNING:
\* the sweep resumes it or closes it.
RunningSettles ==
    \A d \in Deployments : status[d] = "running" ~> status[d] # "running"

\* A deployment that got its site's lock comes to an end.
StartedSettles ==
    \A d \in Deployments : lock[SiteLock(d)] = d ~> status[d] \in Terminal

-----------------------------------------------------------------------------
(* The pipeline implements DeployLifecycle. *)

PhaseOf(st) == IF st \in Terminal \ {"cancelled"} THEN "ended" ELSE st

Lifecycle == INSTANCE DeployLifecycle WITH
    phase <- [d \in Deployments |-> PhaseOf(status[d])]

\* Deployments of one site, or of two sites on one host, never run together, and
\* no path of supersede, abort, sweep, resume or crash restarts an ended one.
ImplementsLifecycle == Lifecycle!Spec

-----------------------------------------------------------------------------
(* Inductive invariants.  BeginInv: a deployment is begun by one worker, once, *)
(* and everything that acts on a begun deployment knows it is begun.           *)

WorkerPcs == {"idle", "release", "releasing", "loaded", "supersede", "siteLocked",
              "backout", "locked", "begun", "prepare", "loop", "startStep",
              "dispatch", "applied", "markFailed", "finish", "clearStale", "finally"}
SweeperPcs == {"idle", "release", "releasing", "sweep", "finalize", "abort",
               "resume", "sweepEnqueue"}
OperatorPcs == {"idle", "release", "releasing", "cancelSave", "abortSave"}
SweepActs == {"finalize", "abort", "resume", "sweepEnqueue"}

Begun(d) == d \in begun

InRelease(p) == pc[p] \in {"release", "releasing"}

\* Worker w is inside begin_deploy for the deployment it holds.
InBegin(w) ==
    \/ pc[w] = "loaded" /\ row[w] = "queued"
    \/ pc[w] \in {"supersede", "siteLocked", "locked", "backout"}
    \/ InRelease(w) /\ ret[w] = "supersede"

\* Worker w runs a deployment that has begun.
InRun(w) ==
    \/ pc[w] = "loaded" /\ row[w] = "running"
    \/ pc[w] \in {"begun", "prepare", "loop", "startStep", "dispatch", "applied",
                  "markFailed", "finish", "clearStale", "finally"}
    \/ InRelease(w) /\ ret[w] = "finally"

\* Worker w is inside _run_step.
InStep(w) == pc[w] \in {"startStep", "dispatch", "applied", "markFailed"}

\* Each process is at a place of its own code, with the deployment it needs.
ControlInv ==
    /\ \A w \in Workers : /\ pc[w] \in WorkerPcs
                          /\ ret[w] \in {"idle", "supersede", "finally"}
                          /\ (pc[w] = "idle") <=> (dep[w] = NoDep)
                          /\ InStep(w) => seq[w] \in Steps
    /\ \A p \in Sweepers : /\ pc[p] \in SweeperPcs
                           /\ ret[p] \in {"idle", "sweep"}
                           /\ pc[p] \in SweepActs => dep[p] # NoDep
    /\ \A o \in Operators : /\ pc[o] \in OperatorPcs
                            /\ ret[o] = "idle"
                            /\ pc[o] \in {"cancelSave", "abortSave"} => dep[o] # NoDep
    /\ \A p \in Procs : InRelease(p) => vic[p] # NoDep

BeginInv ==
    /\ \A d \in Deployments :
         /\ status[d] = "running" => Begun(d)
         /\ Begun(d) => status[d] \notin {"none", "queued"}
         /\ status[d] = "none" => /\ d \notin waiting /\ msgs[d] = 0
                                 /\ \A p \in Procs : dep[p] # d
         /\ ~Begun(d) => /\ msgs[d] <= 1
                         /\ msgs[d] = 1 => \A w \in Workers : dep[w] # d
                         /\ d \in waiting /\ hb[d] = "null" =>
                              msgs[d] = 0 /\ \A w \in Workers : dep[w] # d
                         /\ \A v, w \in Workers : dep[v] = d /\ dep[w] = d => v = w
    /\ \A w \in Workers : /\ InBegin(w) => /\ ~Begun(dep[w])
                                          /\ status[dep[w]] \in {"queued", "cancelled"}
                          /\ InRun(w) => Begun(dep[w])
    /\ \A p \in Sweepers : pc[p] \in SweepActs => Begun(dep[p])
    /\ \A o \in Operators : pc[o] = "abortSave" => Begun(dep[o])
    /\ \A p \in Procs :
         /\ \A d \in todo[p] : Begun(d)
         /\ InRelease(p) /\ ~Begun(vic[p]) =>
              p \in Workers /\ dep[p] = vic[p] /\ ret[p] = "idle"

\* LockInv: nobody releases for a RUNNING deployment, and begin_deploy holds
\* what it acquired.
LockInv ==
    /\ RunningHoldsLocks
    /\ \A p \in Procs : InRelease(p) => status[vic[p]] # "running"
    /\ \A w \in Workers :
         /\ pc[w] \in {"siteLocked", "locked", "backout"} =>
              lock[SiteLock(dep[w])] = dep[w]
         /\ pc[w] = "locked" => lock[TargetLock(dep[w])] = dep[w]

\* StepInv: a worker's cached rows and its place in the loop are backed by steps
\* that were carried out, and it never touches a skipped step.
StepInv ==
    /\ SuccessMeansApplied
    /\ StepsInOrder
    /\ \A d \in Deployments : \A k \in Steps :
         step[d][k] = "succeeded" => k \in applied[d]
    /\ \A w \in Workers :
         /\ dep[w] = NoDep => seq[w] = 1 /\ cache[w] = NoCache
         /\ dep[w] # NoDep =>
              /\ \A k \in Steps : cache[w][k] \in DoneStep => StepCovered(dep[w], k)
              /\ \A j \in 1..(seq[w] - 1) : StepCovered(dep[w], j)
         /\ InStep(w) => cache[w][seq[w]] \notin DoneStep
         /\ InStep(w) \/ pc[w] = "loop" =>
              \A k \in Steps : step[dep[w]][k] = "skipped" => cache[w][k] = "skipped"
         /\ pc[w] = "applied" => seq[w] \in applied[dep[w]]
         /\ pc[w] = "finish" => seq[w] \notin Steps
    /\ \A p \in Sweepers : pc[p] = "finalize" =>
         \A k \in Steps : StepCovered(dep[p], k)

\* OverrunInv: a worker that overran its deployment's end cannot enter a step again.
OverrunInv == \A w \in Workers :
    /\ overrun[w] <= 1
    /\ dep[w] = NoDep => overrun[w] = 0
    /\ overrun[w] = 1 => /\ pc[w] # "startStep"
                         /\ Begun(dep[w]) /\ status[dep[w]] # "running"

PipelineInv == TypeOK /\ ControlInv /\ BeginInv /\ LockInv /\ StepInv /\ OverrunInv

\* Until begin_deploy has saved RUNNING, a lock r of d is held by the worker that
\* took it; after that, it is owed by a process that has yet to release it.
HeldBy(w, r, d) ==
    /\ dep[w] = d
    /\ \/ pc[w] = "locked"
       \/ pc[w] \in {"siteLocked", "backout"} /\ r = SiteLock(d)
OwedBy(p, r, d) ==
    \/ dep[p] = d /\ pc[p] \in {"clearStale", "finally"}
    \/ vic[p] = d /\ (pc[p] = "release" \/ (pc[p] = "releasing" /\ r \in rows[p]))

AccountedFor(r, d) ==
    \/ Begun(d) /\ status[d] \in {"running", "cancelled"}
    \/ Begun(d) /\ \E p \in Procs : OwedBy(p, r, d)
    \/ ~Begun(d) /\ \E w \in Workers : HeldBy(w, r, d)

\* AccountInv: without a kill only a cancel leaves a lock behind.
AccountInv ==
    crashes = 0 => \A r \in Resources, d \in Deployments : lock[r] = d => AccountedFor(r, d)
=============================================================================
