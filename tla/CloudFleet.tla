----------------------------- MODULE CloudFleet -----------------------------
(***************************************************************************)
(* Rented machines: enrolment of an EC2 target (provision/aws_enroll.py,    *)
(* providers/ec2.py), its provisioning (provision/service.py), termination, *)
(* and the overflow of one site onto it: enroll, deploy, join, scale in     *)
(* (provision/overflow.py, deploys/overflow.py, monitor/overflow_reaper.py).*)
(* All are HTTP requests that run to their end in the web process; a row is *)
(* a Target of the one host name the operator enrols.                       *)
(***************************************************************************)
EXTENDS Integers, Sequences, FiniteSets

CONSTANTS
    Requests,       \* concurrent enrolment requests
    MaxTargets, MaxInstances, MaxCloudFaults, MaxAsks    \* bounds of the exploration

VARIABLES
    targets,    \* Target rows: [status, ref, pinned, born, copy], ref 0 for none
    running,    \* instances that run, and are paid for
    created,    \* instances created so far
    req,        \* per request: [at, row, inst]
    attack, gate,   \* the playbook is engaged; state of scale-out-proposal
    siteLock, targetLock,   \* holders of the deploy locks of the site and of its overflow target
    op,         \* deploy, join, scalein: [at, t], at its checks or under its locks
    origins,    \* the A record of the site: rows joined to the primary
    siteDeploy, \* a deployment of the site itself: "idle", "running" or "superseded"
    orphan,     \* rows with an ephemeral-overflow-orphan finding
    cloudFaults, asks,
    overlapped, \* history: an enrolment met another one, a termination, or a decommissioned row
    direct,     \* history: a joined target was terminated outside of scale-in
    lateJoin    \* history: a join went on after its target was scaled in

fleetVars == <<targets, running, created, req, attack, gate, siteLock, targetLock, op, origins,
               siteDeploy, orphan, cloudFaults, asks, overlapped, direct, lateJoin>>

Gone == {"decommissioned", "deleted"}
NoReq == [at |-> "idle", row |-> 0, inst |-> 0]
NoOp == [at |-> "idle", t |-> 0]
Ops == {"deploy", "join", "scalein"}

Init ==
    /\ targets = <<>> /\ running = {} /\ created = 0 /\ req = [q \in Requests |-> NoReq]
    /\ attack = FALSE /\ gate = "accepted" /\ siteLock = "free" /\ targetLock = "free"
    /\ op = [o \in Ops |-> NoOp] /\ origins = {} /\ siteDeploy = "idle" /\ orphan = {}
    /\ cloudFaults = 0 /\ asks = 0 /\ overlapped = FALSE /\ direct = FALSE /\ lateJoin = FALSE

Enrolling == <<targets, running, created, req, cloudFaults, overlapped>>
Overflow == <<attack, gate, siteLock, targetLock, op, origins, siteDeploy, orphan, asks, direct, lateJoin>>
Fault == cloudFaults < MaxCloudFaults /\ cloudFaults' = cloudFaults + 1
Set(t, fields) == targets' = [targets EXCEPT ![t] = fields]
End(q) == req' = [req EXCEPT ![q] = NoReq]

---------------------------------------------------------------------------
(* enroll_aws_target() *)

\* The first row of the host that still exists.
Existing == LET S == {t \in DOMAIN targets : targets[t].status # "deleted"}
            IN IF S = {} THEN 0 ELSE CHOOSE t \in S : \A u \in S : t <= u
Pinned(t) == targets[t].ref # 0 /\ targets[t].pinned

\* refuse_if_attack(), then the ACCEPTED proposal.
PassesGate == ~attack /\ gate = "accepted"

\* The enrolment meets another one, or a row that was given up.
Meets == \/ \E p \in Requests : req[p].at # "idle"
         \/ Existing # 0 /\ targets[Existing].status \in Gone

\* A pinned row is returned as it is, whatever its status; otherwise the row is made and
\* its key vaulted.
EnrollStart(q) ==
    /\ req[q].at = "idle"
    /\ IF Existing # 0 THEN ~Pinned(Existing) /\ UNCHANGED targets
       ELSE /\ Len(targets) < MaxTargets
            /\ targets' = Append(targets, [status |-> "pending", ref |-> 0, pinned |-> FALSE,
                                           born |-> FALSE, copy |-> "none"])
    /\ req' = [req EXCEPT ![q] = [at |-> "create", row |-> IF Existing # 0 THEN Existing ELSE Len(targets'), inst |-> 0]]
    /\ overlapped' = (overlapped \/ Meets)
    /\ UNCHANGED <<running, created, cloudFaults, Overflow>>

\* POST: a request that names a site goes through enroll_overflow_target(), gate first.
InstanceCreateView(q, overflow) == (overflow => PassesGate) /\ EnrollStart(q)

\* create_instance(): RunInstances, then the host keys are waited for.
CreateInstance(q) ==
    /\ req[q].at = "create" /\ created < MaxInstances
    /\ created' = created + 1 /\ running' = running \cup {created + 1}
    /\ req' = [req EXCEPT ![q].at = "ref", ![q].inst = created + 1]
    /\ UNCHANGED <<targets, cloudFaults, overlapped, Overflow>>

\* RunInstances fails; or no key arrives in time: the instance is terminated, which may
\* fail silently, and the row stays without it.
CreateFails(q, left) ==
    /\ req[q].at = "create" /\ Fault /\ End(q)
    /\ left => created < MaxInstances
    /\ created' = IF left THEN created + 1 ELSE created
    /\ running' = IF left THEN running \cup {created + 1} ELSE running
    /\ UNCHANGED <<targets, overlapped, Overflow>>

SaveRef(q) ==
    /\ req[q].at = "ref" /\ req' = [req EXCEPT ![q].at = "pin"]
    /\ Set(req[q].row, [targets[req[q].row] EXCEPT !.ref = req[q].inst])
    /\ UNCHANGED <<running, created, cloudFaults, overlapped, Overflow>>
Pin(q) ==
    /\ req[q].at = "pin" /\ req' = [req EXCEPT ![q].at = "provision"]
    /\ Set(req[q].row, [targets[req[q].row] EXCEPT !.pinned = TRUE, !.ref = req[q].inst])
    /\ UNCHANGED <<running, created, cloudFaults, overlapped, Overflow>>

\* provision_host(): ports and containers are inspected, catalog versions imported.  A
\* host that is in use is refused; an SSH error leaves the row PENDING.
Provision(q, result) ==
    /\ req[q].at = "provision" /\ End(q)
    /\ (IF result = "ready" THEN UNCHANGED cloudFaults ELSE Fault)
    /\ LET t == targets[req[q].row] IN
        Set(req[q].row, CASE result = "ready" -> [t EXCEPT !.status = "ready", !.born = TRUE]
                          [] result = "refused" -> [t EXCEPT !.status = "error"]
                          [] OTHER -> t)
    /\ UNCHANGED <<running, created, overlapped, Overflow>>

\* The web process is killed, or the request times out.
KillRequest(q) ==
    /\ req[q].at # "idle" /\ Fault /\ End(q)
    /\ UNCHANGED <<targets, running, created, overlapped, Overflow>>

---------------------------------------------------------------------------
(* terminate_aws_target() *)

\* An enrolment of the row is in flight.
Busy(t) == \E q \in Requests : req[q].at # "idle" /\ req[q].row = t

TerminateQuietly(t, ok) == Set(t, [targets[t] EXCEPT !.status = "decommissioned"]) /\ running' = IF ok THEN running \ {targets[t].ref} ELSE running
\* An absent instance is a success; a failure is filed and the row kept as ERROR.
Terminated(t, ok) ==
    /\ running' = IF ok THEN running \ {targets[t].ref} ELSE running
    /\ Set(t, [targets[t] EXCEPT !.status = IF ok THEN "decommissioned" ELSE "error"])

\* A row without an instance id cannot be terminated: the id is malformed, not missing.
Terminable(t, ok) ==
    /\ ok => targets[t].ref # 0
    /\ IF ok \/ targets[t].ref = 0 THEN UNCHANGED cloudFaults ELSE Fault
    /\ direct' = (direct \/ ok)
    /\ overlapped' = (overlapped \/ Busy(t))
    /\ UNCHANGED <<created, req, attack, gate, siteLock, targetLock, op, origins, siteDeploy, orphan, asks, lateJoin>>

InstanceTerminateView(t, ok) ==
    /\ targets[t].status \notin Gone /\ Terminable(t, ok) /\ Terminated(t, ok)
\* The row is deleted once its instance is terminated, or was.
TargetDeleteView(t, ok) ==
    /\ targets[t].status # "deleted" /\ (targets[t].status = "decommissioned" => ok) /\ Terminable(t, ok)
    /\ IF ~ok THEN Terminated(t, FALSE)
       ELSE /\ running' = IF targets[t].status = "decommissioned" THEN running ELSE running \ {targets[t].ref}
            /\ Set(t, [targets[t] EXCEPT !.status = "deleted"])

---------------------------------------------------------------------------
(* The overflow of the site *)

At(o, at, t) == op' = [op EXCEPT ![o] = [at |-> at, t |-> t]]
Leave(o) == op' = [op EXCEPT ![o] = NoOp]
ReadyOverflow(t) == targets[t].status = "ready"

\* deploy_overflow_copy() and join_overflow_traffic() check first ...
Check(o, t) ==
    /\ asks < MaxAsks /\ asks' = asks + 1 /\ op[o].at = "idle"
    /\ PassesGate /\ ReadyOverflow(t) /\ (o = "join" => targets[t].copy = "running")
    /\ At(o, "checked", t)
    /\ UNCHANGED <<Enrolling, attack, gate, siteLock, targetLock, origins, siteDeploy, orphan, direct, lateJoin>>

\* ... and lock afterwards.  begin_deploy() supersedes the deployment the site has
\* running, whose locks it releases.
BeginOverflow ==
    /\ op["deploy"].at = "checked"
    /\ IF siteLock \in {"free", "pipeline"} /\ targetLock = "free"
       THEN siteLock' = "deploy" /\ targetLock' = "deploy" /\ At("deploy", "locked", op["deploy"].t)
       ELSE Leave("deploy") /\ UNCHANGED targetLock /\ siteLock' = IF siteLock = "pipeline" THEN "free" ELSE siteLock
    /\ siteDeploy' = IF siteDeploy = "running" THEN "superseded" ELSE siteDeploy
    /\ UNCHANGED <<Enrolling, attack, gate, origins, orphan, asks, direct, lateJoin>>

EndOverflow(ok) ==
    /\ op["deploy"].at = "locked" /\ Leave("deploy") /\ siteLock' = "free" /\ targetLock' = "free"
    /\ ok => targets[op["deploy"].t].ref \in running
    /\ LET t == op["deploy"].t IN
        Set(t, [targets[t] EXCEPT !.copy = IF ok THEN "running" ELSE @])
    /\ UNCHANGED <<running, created, req, cloudFaults, overlapped, attack, gate, origins, siteDeploy, orphan, asks, direct, lateJoin>>

JoinLock ==
    /\ op["join"].at = "checked"
    /\ IF siteLock = "free" THEN siteLock' = "join" /\ At("join", "locked", op["join"].t) ELSE Leave("join") /\ UNCHANGED siteLock
    /\ UNCHANGED <<Enrolling, attack, gate, targetLock, origins, siteDeploy, orphan, asks, direct, lateJoin>>
\* ensure_dns() with the primary and the overflow, or it raises; the finally unlocks.
JoinDns(ok) ==
    /\ op["join"].at = "locked" /\ Leave("join") /\ siteLock' = "free"
    /\ origins' = IF ok THEN {op["join"].t} ELSE origins
    /\ lateJoin' = (lateJoin \/ (ok /\ targets[op["join"].t].status \in Gone))
    /\ UNCHANGED <<Enrolling, attack, gate, targetLock, siteDeploy, orphan, asks, direct>>

\* scale_in_overflow(): both locks, or neither.
ScaleInLock(t) ==
    /\ op["scalein"].at = "idle" /\ targets[t].status # "deleted" /\ asks < MaxAsks /\ asks' = asks + 1
    /\ siteLock = "free" /\ targetLock = "free"
    /\ siteLock' = "scalein" /\ targetLock' = "scalein" /\ At("scalein", "unjoin", t)
    /\ UNCHANGED <<Enrolling, attack, gate, origins, siteDeploy, orphan, direct, lateJoin>>

Unlock == siteLock' = "free" /\ targetLock' = "free" /\ Leave("scalein")
\* The host leaves the record before the machine goes ...
Unjoin(ok) ==
    /\ op["scalein"].at = "unjoin"
    /\ IF ok THEN origins' = origins \ {op["scalein"].t} /\ At("scalein", "terminate", op["scalein"].t) /\ UNCHANGED <<siteLock, targetLock>>
       ELSE Unlock /\ UNCHANGED origins
    /\ UNCHANGED <<Enrolling, attack, gate, siteDeploy, orphan, asks, direct, lateJoin>>
\* ... and the copy and the proposal are closed after it.
ScaleInTerminate(ok) ==
    /\ op["scalein"].at = "terminate" /\ Unlock
    /\ LET t == op["scalein"].t IN
        IF ok \/ targets[t].status \in Gone
        THEN /\ running' = running \ {targets[t].ref}
             /\ Set(t, [targets[t] EXCEPT !.status = IF @ = "deleted" THEN @ ELSE "decommissioned",
                                          !.copy = IF @ = "none" THEN @ ELSE "absent"])
             /\ gate' = IF gate = "none" THEN gate ELSE "resolved"
        ELSE Terminated(t, FALSE) /\ UNCHANGED gate
    /\ ok => targets[op["scalein"].t].ref # 0
    /\ overlapped' = (overlapped \/ Busy(op["scalein"].t))
    /\ UNCHANGED <<created, req, cloudFaults, attack, origins, siteDeploy, orphan, asks, direct, lateJoin>>

\* The requests that start these operations, once the host name was typed.
OverflowDeployView(t) == Check("deploy", t)
OverflowJoinView(t) == Check("join", t)
OverflowScaleInView(t) == ScaleInLock(t)

\* The site deploys itself, the playbook and the operator move.
SiteDeploys ==
    /\ IF siteDeploy = "running" THEN siteDeploy' = "idle" /\ siteLock' = "free"
       ELSE siteDeploy' = "running" /\ siteLock = "free" /\ siteLock' = "pipeline"
    /\ UNCHANGED <<Enrolling, attack, gate, targetLock, op, origins, orphan, asks, direct, lateJoin>>
World(a, g) ==
    /\ asks < MaxAsks /\ asks' = asks + 1 /\ <<a, g>> # <<attack, gate>> /\ attack' = a /\ gate' = g
    /\ UNCHANGED <<Enrolling, siteLock, targetLock, op, origins, siteDeploy, orphan, direct, lateJoin>>

\* reap_stale_ephemerals(), a day later: a row that is born, or has an instance.
ReapStale ==
    /\ orphan' = {t \in DOMAIN targets : /\ targets[t].status \in {"ready", "error", "pending"}
                                         /\ targets[t].born \/ targets[t].ref # 0}
    /\ orphan' # orphan
    /\ UNCHANGED <<Enrolling, attack, gate, siteLock, targetLock, op, origins, siteDeploy, asks, direct, lateJoin>>

Next ==
    \/ \E q \in Requests :
        \/ CreateInstance(q) \/ SaveRef(q) \/ Pin(q) \/ KillRequest(q)
        \/ \E b \in BOOLEAN : InstanceCreateView(q, b) \/ CreateFails(q, b)
        \/ \E r \in {"ready", "refused", "raises"} : Provision(q, r)
    \/ \E t \in DOMAIN targets :
        \/ \E ok \in BOOLEAN : InstanceTerminateView(t, ok) \/ TargetDeleteView(t, ok)
        \/ OverflowDeployView(t) \/ OverflowJoinView(t) \/ OverflowScaleInView(t)
    \/ BeginOverflow \/ JoinLock \/ SiteDeploys \/ ReapStale
    \/ \E ok \in BOOLEAN : EndOverflow(ok) \/ JoinDns(ok) \/ Unjoin(ok) \/ ScaleInTerminate(ok)
    \/ \E a \in BOOLEAN, g \in {"accepted", "resolved"} : World(a, g)

Spec == Init /\ [][Next]_fleetVars

---------------------------------------------------------------------------
(* Properties *)

\* Rows, locks and places; a request and an operation are about a row that exists.
Target == [status : {"pending", "ready", "error", "decommissioned", "deleted"}, ref : Nat,
           pinned : BOOLEAN, born : BOOLEAN, copy : {"none", "running", "absent"}]
TypeOK ==
    /\ targets \in Seq(Target) /\ created \in Nat /\ running \subseteq 1..created /\ cloudFaults \in Nat
    /\ \A t \in DOMAIN targets : targets[t].ref <= created
    /\ req \in [Requests -> [at : {"idle", "create", "ref", "pin", "provision"}, row : Nat, inst : Nat]]
    /\ \A q \in Requests : req[q].inst <= created /\ (req[q].at \in {"idle", "create"} <=> req[q].inst = 0)
    /\ \A q \in Requests : req[q].at # "idle" => req[q].row \in DOMAIN targets
    /\ op \in [Ops -> [at : {"idle", "checked", "locked", "unjoin", "terminate"}, t : Nat]]
    /\ \A o \in Ops : op[o].at # "idle" => op[o].t \in DOMAIN targets
    /\ origins \subseteq DOMAIN targets /\ orphan \subseteq DOMAIN targets
    /\ siteLock \in {"free", "pipeline", "deploy", "join", "scalein"} /\ targetLock \in {"free", "deploy", "scalein"}
    /\ attack \in BOOLEAN /\ overlapped \in BOOLEAN /\ direct \in BOOLEAN /\ lateJoin \in BOOLEAN

\* While no call to the cloud is lost and enrolments do not overlap, every instance that
\* is paid for is the instance of a row that can still be terminated, or of a request
\* that is about to store it.
InstancesAreTracked ==
    cloudFaults = 0 /\ ~overlapped =>
    \A i \in running : \/ \E t \in DOMAIN targets : targets[t].ref = i /\ targets[t].status \notin Gone
                       \/ \E q \in Requests : req[q].inst = i

\* A failed termination never ends in a row that nobody looks at again: the instance of a
\* decommissioned or deleted row does not run (unless the row was enrolled again, or
\* terminated while its enrolment was in flight).
GoneIsGone == ~overlapped => \A t \in DOMAIN targets : targets[t].status \in Gone => targets[t].ref \notin running

\* The site's record only names machines that run, as long as the machine is not
\* terminated behind scale-in's back, no enrolment met another and no join acts on a check made before a scale-in.
OriginsRun == ~direct /\ ~overlapped /\ ~lateJoin => \A t \in origins : targets[t].ref \in running

\* Why: the lock of the site says who is under it, so what scale-in took out of the record
\* stays out until the machine is gone.
LocksHeld ==
    /\ op["join"].at = "locked" <=> siteLock = "join"
    /\ op["deploy"].at = "locked" <=> siteLock = "deploy"
    /\ op["scalein"].at # "idle" <=> siteLock = "scalein"
    /\ siteDeploy = "running" <=> siteLock = "pipeline"
Unjoined == op["scalein"].at = "terminate" => op["scalein"].t \notin origins
\* Enrolments that do not overlap: one at a time, its row not given up, no instance of two
\* rows, and the instance it brings runs and is nobody else's.
EnrolledApart ==
    ~overlapped =>
    /\ \A t, u \in DOMAIN targets : targets[t].ref = targets[u].ref /\ targets[t].ref # 0 => t = u
    /\ \A p, q \in Requests : req[p].at # "idle" /\ req[q].at # "idle" => p = q
    /\ \A q \in Requests : req[q].at # "idle" => targets[req[q].row].status \notin Gone
    /\ \A q \in Requests : req[q].at \in {"ref", "pin", "provision"} => req[q].inst \in running
    /\ \A q \in Requests : req[q].at = "ref" => \A t \in DOMAIN targets : targets[t].ref # req[q].inst
    /\ \A q \in Requests : req[q].at \in {"pin", "provision"} => targets[req[q].row].ref = req[q].inst
    /\ \A q \in Requests : req[q].at = "provision" => targets[req[q].row].pinned
\* A row whose reference is stored is pinned, or its request is about to pin it.
RefsPinned ==
    cloudFaults = 0 /\ ~overlapped =>
    /\ \A t \in DOMAIN targets : targets[t].ref # 0 =>
        targets[t].pinned \/ \E q \in Requests : req[q].at = "pin" /\ req[q].row = t
    /\ \A q \in Requests : req[q].at \in {"create", "ref"} => targets[req[q].row].ref = 0
\* A copy runs on a machine that runs, and a join that was let through still has its copy,
\* or its row was scaled in.
CopiesRun == ~direct /\ ~overlapped => \A t \in DOMAIN targets : targets[t].copy = "running" => targets[t].ref \in running
JoinChecked ==
    ~overlapped /\ op["join"].at # "idle" =>
        targets[op["join"].t].copy = "running" \/ targets[op["join"].t].status \in Gone

\* "Join: RUNNING SiteInstance, DNS A next to primary": no join publishes a copy that is
\* no longer running.
JoinedCopyRuns == ~direct /\ ~overlapped => \A t \in origins : targets[t].ref \in running
=============================================================================
