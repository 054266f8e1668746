--------------------------- MODULE MachineProofs ----------------------------
(***************************************************************************)
(* Proofs about the machines, for the composition of MCFleet: the instances*)
(* that enrolment, scaling and termination create and destroy, what the    *)
(* deploy steps do to one host, and the readiness scan of a repository, for*)
(* any number of requests, rows, sites, deployments, keys, faults, trees   *)
(* and edits.  OneAtATime leads from a step of the composition to a step of*)
(* the component that moves.                                               *)
(***************************************************************************)
EXTENDS MCFleet, TLAPS, FiniteSetTheorems, WellFoundedInduction

\* A step of the composition is a step of the component in focus, and of no other.
LEMMA OneAtATime ==
    [Next]_allVars =>
        /\ focus' = focus
        /\ focus = "adopt" => [Adopt!Next]_adoptState
        /\ focus = "adoptPlan" => [AdoptPlan!Next]_adoptPlanState
        /\ focus = "cloud" => [Cloud!Next]_cloudState
        /\ focus = "boxSteps" => [BoxSteps!Next]_boxStepsState
        /\ focus = "wizard" => [Wizard!Next]_wizardState
        /\ focus = "scanner" => [Scanner!Next]_scannerState
        /\ focus = "sshKeys" => [SshKeys!Next]_sshKeysState
        /\ focus = "backups" => [Backups!Next]_backupsState
<1> SUFFICES ASSUME [Next]_allVars
             PROVE  /\ focus' = focus
                    /\ focus = "adopt" => [Adopt!Next]_adoptState
                    /\ focus = "adoptPlan" => [AdoptPlan!Next]_adoptPlanState
                    /\ focus = "cloud" => [Cloud!Next]_cloudState
                    /\ focus = "boxSteps" => [BoxSteps!Next]_boxStepsState
                    /\ focus = "wizard" => [Wizard!Next]_wizardState
                    /\ focus = "scanner" => [Scanner!Next]_scannerState
                    /\ focus = "sshKeys" => [SshKeys!Next]_sshKeysState
                    /\ focus = "backups" => [Backups!Next]_backupsState
  OBVIOUS
<1>1. CASE Next
  BY <1>1, Zenon DEF Next
<1>2. CASE UNCHANGED allVars
  BY <1>2, Zenon DEF allVars
<1> QED BY <1>1, <1>2

---------------------------------------------------------------------------
(* The instances of the cloud *)

\* A row is replaced by another: the rest of the table stays.
LEMMA SetRow ==
    ASSUME NEW s \in Seq(Cloud!Target), NEW t \in DOMAIN s, NEW r \in Cloud!Target
    PROVE  LET new == [s EXCEPT ![t] = r] IN
           /\ new \in Seq(Cloud!Target) /\ DOMAIN new = DOMAIN s /\ new[t] = r
           /\ \A u \in DOMAIN s : u # t => new[u] = s[u]
  OBVIOUS

\* What an edit of a request leaves.
LEMMA RequestEdits ==
    ASSUME NEW f \in [Requests -> [at : {"idle", "create", "ref", "pin", "provision"}, row : Nat, inst : Nat]],
           NEW q \in Requests, NEW a \in {"idle", "create", "ref", "pin", "provision"}, NEW x \in Nat
    PROVE  LET g == [f EXCEPT ![q].at = a]
               h == [f EXCEPT ![q].at = a, ![q].inst = x]
           IN  /\ g \in [Requests -> [at : {"idle", "create", "ref", "pin", "provision"}, row : Nat, inst : Nat]]
               /\ h \in [Requests -> [at : {"idle", "create", "ref", "pin", "provision"}, row : Nat, inst : Nat]]
               /\ g[q].at = a /\ g[q].row = f[q].row /\ g[q].inst = f[q].inst
               /\ h[q].at = a /\ h[q].row = f[q].row /\ h[q].inst = x
               /\ \A p \in Requests : p # q => g[p] = f[p] /\ h[p] = f[p]
  OBVIOUS

\* The row an enrolment finds is a row of the table.
LEMMA ExistingFacts ==
    ASSUME Cloud!TypeOK, Cloud!Existing # 0
    PROVE  Cloud!Existing \in DOMAIN targets
<1> DEFINE S == {t \in DOMAIN targets : targets[t].status # "deleted"}
<1>1. S \subseteq Nat /\ (S # {})
  BY DEF Cloud!TypeOK, Cloud!Existing
<1>2. PICK m \in S : \A t \in S : ~(<<t, m>> \in OpToRel(<, Nat))
  BY <1>1, NatLessThanWellFounded, WFMin
<1>3. \A t \in S : m <= t
  <2> SUFFICES ASSUME NEW t \in S PROVE m <= t
    OBVIOUS
  <2>1. t \in Nat /\ m \in Nat /\ ~(t < m)
    BY <1>1, <1>2 DEF OpToRel
  <2> QED BY <2>1
<1>4. Cloud!Existing = CHOOSE t \in S : \A u \in S : t <= u
  BY <1>1 DEF Cloud!Existing
<1>5. Cloud!Existing \in S
  BY <1>3, <1>4
<1> QED BY <1>5

\* The operations of the overflow: their checks, their locks and the record they write.
LEMMA OverflowKeeps ==
    ASSUME Cloud!TypeOK, Cloud!LocksHeld, Cloud!Unjoined, Cloud!EnrolledApart,
        Cloud!RefsPinned, Cloud!CopiesRun, Cloud!JoinChecked, Cloud!GoneIsGone,
        Cloud!OriginsRun, Cloud!InstancesAreTracked,
           (\/ \E t \in DOMAIN targets :
               Cloud!OverflowDeployView(t) \/ Cloud!OverflowJoinView(t) \/ Cloud!OverflowScaleInView(t)
            \/ Cloud!BeginOverflow \/ Cloud!JoinLock \/ Cloud!SiteDeploys \/ Cloud!ReapStale
            \/ \E ok \in BOOLEAN : Cloud!JoinDns(ok) \/ Cloud!Unjoin(ok)
            \/ \E a \in BOOLEAN, g \in {"accepted", "resolved"} : Cloud!World(a, g))
    PROVE  /\ Cloud!TypeOK' /\ Cloud!LocksHeld' /\ Cloud!Unjoined' /\ Cloud!EnrolledApart'
           /\ Cloud!RefsPinned' /\ Cloud!CopiesRun' /\ Cloud!JoinChecked' /\ Cloud!GoneIsGone'
           /\ Cloud!OriginsRun' /\ Cloud!InstancesAreTracked'
<1>t. /\ targets \in Seq(Cloud!Target) /\ created \in Nat /\ running \subseteq 1..created
      /\ cloudFaults \in Nat
      /\ \A t \in DOMAIN targets : targets[t] \in Cloud!Target
          /\ targets[t].ref \in 0..created /\ t \in Nat /\ t # 0
      /\ \A q \in Requests : req[q].inst \in 0..created /\ (req[q].at # "idle" =>
          req[q].row \in DOMAIN targets)
      /\ \A q \in Requests : req[q].at \in {"idle", "create"} <=> req[q].inst = 0
      /\ \A o \in Cloud!Ops : op[o].at # "idle" => op[o].t \in DOMAIN targets
      /\ req \in [Requests -> [at : {"idle", "create", "ref", "pin", "provision"}, row : Nat,
          inst : Nat]]
      /\ op \in [Cloud!Ops -> [at : {"idle", "checked", "locked", "unjoin", "terminate"},
          t : Nat]]
  <2>1. \A t \in DOMAIN targets : targets[t] \in Cloud!Target /\ targets[t].ref <= created
            /\ t \in Nat /\ t # 0
    BY DEF Cloud!TypeOK
  <2>2. \A t \in DOMAIN targets : targets[t].ref \in Nat
    BY <2>1 DEF Cloud!Target
  <2> QED BY <2>1, <2>2 DEF Cloud!TypeOK
<1>1. ASSUME NEW o \in {"deploy", "join"}, NEW t \in DOMAIN targets, Cloud!Check(o, t)
      PROVE  /\ Cloud!TypeOK' /\ Cloud!LocksHeld' /\ Cloud!Unjoined' /\ Cloud!EnrolledApart'
             /\ Cloud!RefsPinned' /\ Cloud!CopiesRun' /\ Cloud!JoinChecked' /\ Cloud!GoneIsGone'
             /\ Cloud!OriginsRun' /\ Cloud!InstancesAreTracked'
  <2>1. /\ op[o].at = "idle" /\ op' = [op EXCEPT ![o] = [at |-> "checked", t |-> t]]
        /\ o = "join" => targets[t].copy = "running"
        /\ UNCHANGED <<targets, running, created, req, cloudFaults, overlapped>>
        /\ UNCHANGED <<attack, siteLock, targetLock, origins, siteDeploy, orphan, direct,
            lateJoin>>
    BY <1>1, Zenon DEF Cloud!Enrolling, Cloud!Check, Cloud!At
  <2>a. o \in Cloud!Ops
    BY Zenon DEF Cloud!Ops
  <2>2. Cloud!TypeOK'
    BY <2>1, <2>a, <1>t DEF Cloud!TypeOK, Cloud!Ops
  <2>3. Cloud!LocksHeld'
    BY <2>1, <2>a, <1>t DEF Cloud!LocksHeld, Cloud!Ops
  <2>4. Cloud!Unjoined'
    BY <2>1, <2>a, <1>t DEF Cloud!Unjoined, Cloud!Ops
  <2>5. Cloud!EnrolledApart'
    BY <2>1, <2>a, <1>t DEF Cloud!EnrolledApart, Cloud!Gone
  <2>6. Cloud!RefsPinned'
    BY <2>1, <2>a, <1>t DEF Cloud!RefsPinned, Cloud!EnrolledApart
  <2>7. Cloud!CopiesRun'
    BY <2>1, <2>a, <1>t DEF Cloud!CopiesRun, Cloud!EnrolledApart
  <2>8. Cloud!JoinChecked'
    BY <2>1, <2>a, <1>t DEF Cloud!JoinChecked, Cloud!EnrolledApart, Cloud!Gone
  <2>9. Cloud!GoneIsGone'
    BY <2>1, <2>a, <1>t DEF Cloud!GoneIsGone, Cloud!EnrolledApart, Cloud!Gone
  <2>10. Cloud!OriginsRun'
    BY <2>1, <2>a, <1>t DEF Cloud!OriginsRun, Cloud!EnrolledApart, Cloud!Unjoined
  <2>11. Cloud!InstancesAreTracked'
    BY <2>1, <2>a, <1>t DEF Cloud!InstancesAreTracked, Cloud!RefsPinned, Cloud!EnrolledApart,
       Cloud!Gone
  <2> QED BY <2>2, <2>3, <2>4, <2>5, <2>6, <2>7, <2>8, <2>9, <2>10, <2>11
<1>2. ASSUME Cloud!BeginOverflow
      PROVE  /\ Cloud!TypeOK' /\ Cloud!LocksHeld' /\ Cloud!Unjoined' /\ Cloud!EnrolledApart'
             /\ Cloud!RefsPinned' /\ Cloud!CopiesRun' /\ Cloud!JoinChecked' /\ Cloud!GoneIsGone'
             /\ Cloud!OriginsRun' /\ Cloud!InstancesAreTracked'
  <2>1. CASE siteLock \in {"free", "pipeline"} /\ targetLock = "free"
    <3>1. /\ op["deploy"].at = "checked"
          /\ siteDeploy' = IF siteDeploy = "running" THEN "superseded" ELSE siteDeploy
          /\ UNCHANGED <<targets, running, created, req, cloudFaults, overlapped>>
          /\ UNCHANGED <<attack, origins, orphan, direct, lateJoin>>
          /\ siteLock' = "deploy" /\ targetLock' = "deploy"
          /\ op' = [op EXCEPT !["deploy"] = [at |-> "locked", t |-> op["deploy"].t]]
      BY <2>1, <1>2, Zenon DEF Cloud!Enrolling, Cloud!BeginOverflow, Cloud!At
    <3>a. siteLock \in {"free", "pipeline"}
      BY <2>1
    <3>2. Cloud!TypeOK'
      BY <3>1, <3>a, <1>t DEF Cloud!TypeOK, Cloud!Ops
    <3>3. Cloud!LocksHeld'
      BY <3>1, <3>a, <1>t DEF Cloud!LocksHeld, Cloud!Ops
    <3>4. Cloud!Unjoined'
      BY <3>1, <3>a, <1>t DEF Cloud!Unjoined, Cloud!Ops
    <3>5. Cloud!EnrolledApart'
      BY <3>1, <3>a, <1>t DEF Cloud!EnrolledApart, Cloud!Gone
    <3>6. Cloud!RefsPinned'
      BY <3>1, <3>a, <1>t DEF Cloud!RefsPinned, Cloud!EnrolledApart
    <3>7. Cloud!CopiesRun'
      BY <3>1, <3>a, <1>t DEF Cloud!CopiesRun, Cloud!EnrolledApart
    <3>8. Cloud!JoinChecked'
      BY <3>1, <3>a, <1>t DEF Cloud!JoinChecked, Cloud!EnrolledApart, Cloud!Gone
    <3>9. Cloud!GoneIsGone'
      BY <3>1, <3>a, <1>t DEF Cloud!GoneIsGone, Cloud!EnrolledApart, Cloud!Gone
    <3>10. Cloud!OriginsRun'
      BY <3>1, <3>a, <1>t DEF Cloud!OriginsRun, Cloud!EnrolledApart, Cloud!Unjoined
    <3>11. Cloud!InstancesAreTracked'
      BY <3>1, <3>a, <1>t DEF Cloud!InstancesAreTracked, Cloud!RefsPinned, Cloud!EnrolledApart,
         Cloud!Gone
    <3> QED BY <3>2, <3>3, <3>4, <3>5, <3>6, <3>7, <3>8, <3>9, <3>10, <3>11
  <2>2. CASE ~(siteLock \in {"free", "pipeline"} /\ targetLock = "free")
    <3>1. /\ op["deploy"].at = "checked"
          /\ siteDeploy' = IF siteDeploy = "running" THEN "superseded" ELSE siteDeploy
          /\ UNCHANGED <<targets, running, created, req, cloudFaults, overlapped>>
          /\ UNCHANGED <<attack, origins, orphan, direct, lateJoin>>
          /\ op' = [op EXCEPT !["deploy"] = [at |-> "idle", t |-> 0]]
          /\ targetLock' = targetLock
          /\ siteLock' = IF siteLock = "pipeline" THEN "free" ELSE siteLock
      BY <2>2, <1>2, Zenon DEF Cloud!Enrolling, Cloud!BeginOverflow, Cloud!Leave, Cloud!NoOp
    <3>2. Cloud!TypeOK'
      BY <3>1, <1>t DEF Cloud!TypeOK, Cloud!Ops
    <3>3. Cloud!LocksHeld'
      BY <3>1, <1>t DEF Cloud!LocksHeld, Cloud!Ops
    <3>4. Cloud!Unjoined'
      BY <3>1, <1>t DEF Cloud!Unjoined, Cloud!Ops
    <3>5. Cloud!EnrolledApart'
      BY <3>1, <1>t DEF Cloud!EnrolledApart, Cloud!Gone
    <3>6. Cloud!RefsPinned'
      BY <3>1, <1>t DEF Cloud!RefsPinned, Cloud!EnrolledApart
    <3>7. Cloud!CopiesRun'
      BY <3>1, <1>t DEF Cloud!CopiesRun, Cloud!EnrolledApart
    <3>8. Cloud!JoinChecked'
      BY <3>1, <1>t DEF Cloud!JoinChecked, Cloud!EnrolledApart, Cloud!Gone
    <3>9. Cloud!GoneIsGone'
      BY <3>1, <1>t DEF Cloud!GoneIsGone, Cloud!EnrolledApart, Cloud!Gone
    <3>10. Cloud!OriginsRun'
      BY <3>1, <1>t DEF Cloud!OriginsRun, Cloud!EnrolledApart, Cloud!Unjoined
    <3>11. Cloud!InstancesAreTracked'
      BY <3>1, <1>t DEF Cloud!InstancesAreTracked, Cloud!RefsPinned, Cloud!EnrolledApart,
         Cloud!Gone
    <3> QED BY <3>2, <3>3, <3>4, <3>5, <3>6, <3>7, <3>8, <3>9, <3>10, <3>11
  <2> QED BY <2>1, <2>2
<1>3. ASSUME Cloud!JoinLock
      PROVE  /\ Cloud!TypeOK' /\ Cloud!LocksHeld' /\ Cloud!Unjoined' /\ Cloud!EnrolledApart'
             /\ Cloud!RefsPinned' /\ Cloud!CopiesRun' /\ Cloud!JoinChecked' /\ Cloud!GoneIsGone'
             /\ Cloud!OriginsRun' /\ Cloud!InstancesAreTracked'
  <2>1. CASE siteLock = "free"
    <3>1. /\ op["join"].at = "checked"
          /\ UNCHANGED <<targets, running, created, req, cloudFaults, overlapped>>
          /\ UNCHANGED <<attack, targetLock, siteDeploy, origins, orphan, direct, lateJoin>>
          /\ siteLock = "free" /\ siteLock' = "join"
          /\ op' = [op EXCEPT !["join"] = [at |-> "locked", t |-> op["join"].t]]
      BY <2>1, <1>3, Zenon DEF Cloud!Enrolling, Cloud!JoinLock, Cloud!At
    <3>2. Cloud!TypeOK'
      BY <3>1, <1>t DEF Cloud!TypeOK, Cloud!Ops
    <3>3. Cloud!LocksHeld'
      BY <3>1, <1>t DEF Cloud!LocksHeld, Cloud!Ops
    <3>4. Cloud!Unjoined'
      BY <3>1, <1>t DEF Cloud!Unjoined, Cloud!Ops
    <3>5. Cloud!EnrolledApart'
      BY <3>1, <1>t DEF Cloud!EnrolledApart, Cloud!Gone
    <3>6. Cloud!RefsPinned'
      BY <3>1, <1>t DEF Cloud!RefsPinned, Cloud!EnrolledApart
    <3>7. Cloud!CopiesRun'
      BY <3>1, <1>t DEF Cloud!CopiesRun, Cloud!EnrolledApart
    <3>8. Cloud!JoinChecked'
      BY <3>1, <1>t DEF Cloud!JoinChecked, Cloud!Ops
    <3>9. Cloud!GoneIsGone'
      BY <3>1, <1>t DEF Cloud!GoneIsGone, Cloud!EnrolledApart, Cloud!Gone
    <3>10. Cloud!OriginsRun'
      BY <3>1, <1>t DEF Cloud!OriginsRun, Cloud!EnrolledApart, Cloud!Unjoined
    <3>11. Cloud!InstancesAreTracked'
      BY <3>1, <1>t DEF Cloud!InstancesAreTracked, Cloud!RefsPinned, Cloud!EnrolledApart,
         Cloud!Gone
    <3> QED BY <3>2, <3>3, <3>4, <3>5, <3>6, <3>7, <3>8, <3>9, <3>10, <3>11
  <2>2. CASE siteLock # "free"
    <3>1. /\ op["join"].at = "checked"
          /\ UNCHANGED <<targets, running, created, req, cloudFaults, overlapped>>
          /\ UNCHANGED <<attack, targetLock, siteDeploy, origins, orphan, direct, lateJoin>>
          /\ op' = [op EXCEPT !["join"] = [at |-> "idle", t |-> 0]]
          /\ siteLock' = siteLock
      BY <2>2, <1>3, Zenon DEF Cloud!Enrolling, Cloud!JoinLock, Cloud!Leave, Cloud!NoOp
    <3>2. Cloud!TypeOK'
      BY <3>1, <1>t DEF Cloud!TypeOK, Cloud!Ops
    <3>3. Cloud!LocksHeld'
      BY <3>1, <1>t DEF Cloud!LocksHeld, Cloud!Ops
    <3>4. Cloud!Unjoined'
      BY <3>1, <1>t DEF Cloud!Unjoined, Cloud!Ops
    <3>5. Cloud!EnrolledApart'
      BY <3>1, <1>t DEF Cloud!EnrolledApart, Cloud!Gone
    <3>6. Cloud!RefsPinned'
      BY <3>1, <1>t DEF Cloud!RefsPinned, Cloud!EnrolledApart
    <3>7. Cloud!CopiesRun'
      BY <3>1, <1>t DEF Cloud!CopiesRun, Cloud!EnrolledApart
    <3>8. Cloud!JoinChecked'
      BY <3>1, <1>t DEF Cloud!JoinChecked, Cloud!Ops
    <3>9. Cloud!GoneIsGone'
      BY <3>1, <1>t DEF Cloud!GoneIsGone, Cloud!EnrolledApart, Cloud!Gone
    <3>10. Cloud!OriginsRun'
      BY <3>1, <1>t DEF Cloud!OriginsRun, Cloud!EnrolledApart, Cloud!Unjoined
    <3>11. Cloud!InstancesAreTracked'
      BY <3>1, <1>t DEF Cloud!InstancesAreTracked, Cloud!RefsPinned, Cloud!EnrolledApart,
         Cloud!Gone
    <3> QED BY <3>2, <3>3, <3>4, <3>5, <3>6, <3>7, <3>8, <3>9, <3>10, <3>11
  <2> QED BY <2>1, <2>2
<1>4. ASSUME NEW ok \in BOOLEAN, Cloud!JoinDns(ok)
      PROVE  /\ Cloud!TypeOK' /\ Cloud!LocksHeld' /\ Cloud!Unjoined' /\ Cloud!EnrolledApart'
             /\ Cloud!RefsPinned' /\ Cloud!CopiesRun' /\ Cloud!JoinChecked' /\ Cloud!GoneIsGone'
             /\ Cloud!OriginsRun' /\ Cloud!InstancesAreTracked'
  <2>1. /\ op["join"].at = "locked" /\ op' = [op EXCEPT !["join"] = [at |-> "idle", t |-> 0]]
        /\ siteLock' = "free"
        /\ origins' = IF ok THEN {op["join"].t} ELSE origins
        /\ lateJoin' = (lateJoin \/ (ok /\ targets[op["join"].t].status \in Cloud!Gone))
        /\ UNCHANGED <<targets, running, created, req, cloudFaults, overlapped>>
        /\ UNCHANGED <<attack, targetLock, siteDeploy, orphan, direct>>
    BY <1>4, Zenon DEF Cloud!Enrolling, Cloud!JoinDns, Cloud!Leave, Cloud!NoOp
  <2>a. lateJoin' \in BOOLEAN
    BY <2>1, Zenon
  <2>b. op["join"].t \in DOMAIN targets /\ origins' \subseteq DOMAIN targets
    BY <2>1, <1>t DEF Cloud!TypeOK, Cloud!Ops
  <2>c. ~lateJoin' => ~lateJoin /\ (ok => targets[op["join"].t].status \notin Cloud!Gone)
    BY <2>1, Zenon
  <2>2. Cloud!TypeOK'
    BY <2>1, <2>a, <2>b, <2>c, <1>t DEF Cloud!TypeOK, Cloud!Ops
  <2>3. Cloud!LocksHeld'
    BY <2>1, <2>a, <2>b, <2>c, <1>t DEF Cloud!LocksHeld, Cloud!Ops
  <2>4. Cloud!Unjoined'
    BY <2>1, <2>a, <2>b, <2>c, <1>t DEF Cloud!Unjoined, Cloud!LocksHeld, Cloud!Ops
  <2>5. Cloud!EnrolledApart'
    BY <2>1, <2>a, <2>b, <2>c, <1>t DEF Cloud!EnrolledApart, Cloud!Gone
  <2>6. Cloud!RefsPinned'
    BY <2>1, <2>a, <2>b, <2>c, <1>t DEF Cloud!RefsPinned, Cloud!EnrolledApart
  <2>7. Cloud!CopiesRun'
    BY <2>1, <2>a, <2>b, <2>c, <1>t DEF Cloud!CopiesRun, Cloud!EnrolledApart
  <2>8. Cloud!JoinChecked'
    BY <2>1, <2>a, <2>b, <2>c, <1>t DEF Cloud!JoinChecked, Cloud!Ops
  <2>9. Cloud!GoneIsGone'
    BY <2>1, <2>a, <2>b, <2>c, <1>t DEF Cloud!GoneIsGone, Cloud!EnrolledApart, Cloud!Gone
  <2>10. Cloud!OriginsRun'
    BY <2>1, <2>a, <2>b, <2>c, <1>t DEF Cloud!OriginsRun, Cloud!JoinChecked, Cloud!CopiesRun
  <2>11. Cloud!InstancesAreTracked'
    BY <2>1, <2>a, <2>b, <2>c, <1>t DEF Cloud!InstancesAreTracked, Cloud!RefsPinned,
       Cloud!EnrolledApart, Cloud!Gone
  <2> QED BY <2>2, <2>3, <2>4, <2>5, <2>6, <2>7, <2>8, <2>9, <2>10, <2>11
<1>5. ASSUME NEW t \in DOMAIN targets, Cloud!ScaleInLock(t)
      PROVE  /\ Cloud!TypeOK' /\ Cloud!LocksHeld' /\ Cloud!Unjoined' /\ Cloud!EnrolledApart'
             /\ Cloud!RefsPinned' /\ Cloud!CopiesRun' /\ Cloud!JoinChecked' /\ Cloud!GoneIsGone'
             /\ Cloud!OriginsRun' /\ Cloud!InstancesAreTracked'
  <2>1. /\ op["scalein"].at = "idle" /\ siteLock = "free"
        /\ siteLock' = "scalein" /\ targetLock' = "scalein"
        /\ op' = [op EXCEPT !["scalein"] = [at |-> "unjoin", t |-> t]]
        /\ UNCHANGED <<targets, running, created, req, cloudFaults, overlapped>>
        /\ UNCHANGED <<attack, siteDeploy, origins, orphan, direct, lateJoin>>
    BY <1>5, Zenon DEF Cloud!Enrolling, Cloud!ScaleInLock, Cloud!At
  <2>2. Cloud!TypeOK'
    BY <2>1, <1>t DEF Cloud!TypeOK, Cloud!Ops
  <2>3. Cloud!LocksHeld'
    BY <2>1, <1>t DEF Cloud!LocksHeld, Cloud!Ops
  <2>4. Cloud!Unjoined'
    BY <2>1, <1>t DEF Cloud!Unjoined, Cloud!Ops
  <2>5. Cloud!EnrolledApart'
    BY <2>1, <1>t DEF Cloud!EnrolledApart, Cloud!Gone
  <2>6. Cloud!RefsPinned'
    BY <2>1, <1>t DEF Cloud!RefsPinned, Cloud!EnrolledApart
  <2>7. Cloud!CopiesRun'
    BY <2>1, <1>t DEF Cloud!CopiesRun, Cloud!EnrolledApart
  <2>8. Cloud!JoinChecked'
    BY <2>1, <1>t DEF Cloud!JoinChecked, Cloud!Ops
  <2>9. Cloud!GoneIsGone'
    BY <2>1, <1>t DEF Cloud!GoneIsGone, Cloud!EnrolledApart, Cloud!Gone
  <2>10. Cloud!OriginsRun'
    BY <2>1, <1>t DEF Cloud!OriginsRun, Cloud!EnrolledApart, Cloud!Unjoined
  <2>11. Cloud!InstancesAreTracked'
    BY <2>1, <1>t DEF Cloud!InstancesAreTracked, Cloud!RefsPinned, Cloud!EnrolledApart,
       Cloud!Gone
  <2> QED BY <2>2, <2>3, <2>4, <2>5, <2>6, <2>7, <2>8, <2>9, <2>10, <2>11
<1>6. ASSUME NEW ok \in BOOLEAN, Cloud!Unjoin(ok)
      PROVE  /\ Cloud!TypeOK' /\ Cloud!LocksHeld' /\ Cloud!Unjoined' /\ Cloud!EnrolledApart'
             /\ Cloud!RefsPinned' /\ Cloud!CopiesRun' /\ Cloud!JoinChecked' /\ Cloud!GoneIsGone'
             /\ Cloud!OriginsRun' /\ Cloud!InstancesAreTracked'
  <2>1. CASE ok
    <3>1. /\ op["scalein"].at = "unjoin"
          /\ UNCHANGED <<targets, running, created, req, cloudFaults, overlapped>>
          /\ UNCHANGED <<attack, siteDeploy, orphan, direct, lateJoin>>
          /\ origins' = origins \ {op["scalein"].t}
          /\ op' = [op EXCEPT !["scalein"] = [at |-> "terminate", t |-> op["scalein"].t]]
          /\ UNCHANGED <<siteLock, targetLock>>
      BY <2>1, <1>6, Zenon DEF Cloud!Enrolling, Cloud!Unjoin, Cloud!At
    <3>2. Cloud!TypeOK'
      BY <3>1, <1>t DEF Cloud!TypeOK, Cloud!Ops
    <3>3. Cloud!LocksHeld'
      BY <3>1, <1>t DEF Cloud!LocksHeld, Cloud!Ops
    <3>4. Cloud!Unjoined'
      BY <3>1, <1>t DEF Cloud!Unjoined, Cloud!Ops
    <3>5. Cloud!EnrolledApart'
      BY <3>1, <1>t DEF Cloud!EnrolledApart, Cloud!Gone
    <3>6. Cloud!RefsPinned'
      BY <3>1, <1>t DEF Cloud!RefsPinned, Cloud!EnrolledApart
    <3>7. Cloud!CopiesRun'
      BY <3>1, <1>t DEF Cloud!CopiesRun, Cloud!EnrolledApart
    <3>8. Cloud!JoinChecked'
      BY <3>1, <1>t DEF Cloud!JoinChecked, Cloud!Ops
    <3>9. Cloud!GoneIsGone'
      BY <3>1, <1>t DEF Cloud!GoneIsGone, Cloud!EnrolledApart, Cloud!Gone
    <3>10. Cloud!OriginsRun'
      BY <3>1, <1>t DEF Cloud!OriginsRun, Cloud!EnrolledApart, Cloud!Unjoined
    <3>11. Cloud!InstancesAreTracked'
      BY <3>1, <1>t DEF Cloud!InstancesAreTracked, Cloud!RefsPinned, Cloud!EnrolledApart,
         Cloud!Gone
    <3> QED BY <3>2, <3>3, <3>4, <3>5, <3>6, <3>7, <3>8, <3>9, <3>10, <3>11
  <2>2. CASE ~ok
    <3>1. /\ op["scalein"].at = "unjoin"
          /\ UNCHANGED <<targets, running, created, req, cloudFaults, overlapped>>
          /\ UNCHANGED <<attack, siteDeploy, orphan, direct, lateJoin>>
          /\ op' = [op EXCEPT !["scalein"] = [at |-> "idle", t |-> 0]] /\ siteLock' = "free"
          /\ targetLock' = "free" /\ origins' = origins
      BY <2>2, <1>6, Zenon DEF Cloud!Enrolling, Cloud!Unjoin, Cloud!Unlock, Cloud!Leave,
         Cloud!NoOp
    <3>2. Cloud!TypeOK'
      BY <3>1, <1>t DEF Cloud!TypeOK, Cloud!Ops
    <3>3. Cloud!LocksHeld'
      BY <3>1, <1>t DEF Cloud!LocksHeld, Cloud!Ops
    <3>4. Cloud!Unjoined'
      BY <3>1, <1>t DEF Cloud!Unjoined, Cloud!Ops
    <3>5. Cloud!EnrolledApart'
      BY <3>1, <1>t DEF Cloud!EnrolledApart, Cloud!Gone
    <3>6. Cloud!RefsPinned'
      BY <3>1, <1>t DEF Cloud!RefsPinned, Cloud!EnrolledApart
    <3>7. Cloud!CopiesRun'
      BY <3>1, <1>t DEF Cloud!CopiesRun, Cloud!EnrolledApart
    <3>8. Cloud!JoinChecked'
      BY <3>1, <1>t DEF Cloud!JoinChecked, Cloud!Ops
    <3>9. Cloud!GoneIsGone'
      BY <3>1, <1>t DEF Cloud!GoneIsGone, Cloud!EnrolledApart, Cloud!Gone
    <3>10. Cloud!OriginsRun'
      BY <3>1, <1>t DEF Cloud!OriginsRun, Cloud!EnrolledApart, Cloud!Unjoined
    <3>11. Cloud!InstancesAreTracked'
      BY <3>1, <1>t DEF Cloud!InstancesAreTracked, Cloud!RefsPinned, Cloud!EnrolledApart,
         Cloud!Gone
    <3> QED BY <3>2, <3>3, <3>4, <3>5, <3>6, <3>7, <3>8, <3>9, <3>10, <3>11
  <2> QED BY <2>1, <2>2
<1>7. ASSUME Cloud!SiteDeploys
      PROVE  /\ Cloud!TypeOK' /\ Cloud!LocksHeld' /\ Cloud!Unjoined' /\ Cloud!EnrolledApart'
             /\ Cloud!RefsPinned' /\ Cloud!CopiesRun' /\ Cloud!JoinChecked' /\ Cloud!GoneIsGone'
             /\ Cloud!OriginsRun' /\ Cloud!InstancesAreTracked'
  <2>1. CASE siteDeploy = "running"
    <3>1. /\ UNCHANGED <<targets, running, created, req, cloudFaults, overlapped>>
          /\ UNCHANGED <<attack, targetLock, op, origins, orphan, direct, lateJoin>>
          /\ siteDeploy = "running" /\ siteDeploy' = "idle" /\ siteLock' = "free"
      BY <2>1, <1>7, Zenon DEF Cloud!Enrolling, Cloud!SiteDeploys
    <3>2. Cloud!TypeOK'
      BY <3>1, <1>t DEF Cloud!TypeOK, Cloud!Ops
    <3>3. Cloud!LocksHeld'
      BY <3>1, <1>t DEF Cloud!LocksHeld
    <3>4. Cloud!Unjoined'
      BY <3>1, <1>t DEF Cloud!Unjoined, Cloud!LocksHeld
    <3>5. Cloud!EnrolledApart'
      BY <3>1, <1>t DEF Cloud!EnrolledApart, Cloud!Gone
    <3>6. Cloud!RefsPinned'
      BY <3>1, <1>t DEF Cloud!RefsPinned, Cloud!EnrolledApart
    <3>7. Cloud!CopiesRun'
      BY <3>1, <1>t DEF Cloud!CopiesRun, Cloud!EnrolledApart
    <3>8. Cloud!JoinChecked'
      BY <3>1, <1>t DEF Cloud!JoinChecked, Cloud!EnrolledApart, Cloud!Gone
    <3>9. Cloud!GoneIsGone'
      BY <3>1, <1>t DEF Cloud!GoneIsGone, Cloud!EnrolledApart, Cloud!Gone
    <3>10. Cloud!OriginsRun'
      BY <3>1, <1>t DEF Cloud!OriginsRun, Cloud!EnrolledApart, Cloud!Unjoined
    <3>11. Cloud!InstancesAreTracked'
      BY <3>1, <1>t DEF Cloud!InstancesAreTracked, Cloud!RefsPinned, Cloud!EnrolledApart,
         Cloud!Gone
    <3> QED BY <3>2, <3>3, <3>4, <3>5, <3>6, <3>7, <3>8, <3>9, <3>10, <3>11
  <2>2. CASE siteDeploy # "running"
    <3>1. /\ UNCHANGED <<targets, running, created, req, cloudFaults, overlapped>>
          /\ UNCHANGED <<attack, targetLock, op, origins, orphan, direct, lateJoin>>
          /\ siteDeploy' = "running" /\ siteLock = "free" /\ siteLock' = "pipeline"
      BY <2>2, <1>7, Zenon DEF Cloud!Enrolling, Cloud!SiteDeploys
    <3>2. Cloud!TypeOK'
      BY <3>1, <1>t DEF Cloud!TypeOK, Cloud!Ops
    <3>3. Cloud!LocksHeld'
      BY <3>1, <1>t DEF Cloud!LocksHeld
    <3>4. Cloud!Unjoined'
      BY <3>1, <1>t DEF Cloud!Unjoined, Cloud!LocksHeld
    <3>5. Cloud!EnrolledApart'
      BY <3>1, <1>t DEF Cloud!EnrolledApart, Cloud!Gone
    <3>6. Cloud!RefsPinned'
      BY <3>1, <1>t DEF Cloud!RefsPinned, Cloud!EnrolledApart
    <3>7. Cloud!CopiesRun'
      BY <3>1, <1>t DEF Cloud!CopiesRun, Cloud!EnrolledApart
    <3>8. Cloud!JoinChecked'
      BY <3>1, <1>t DEF Cloud!JoinChecked, Cloud!EnrolledApart, Cloud!Gone
    <3>9. Cloud!GoneIsGone'
      BY <3>1, <1>t DEF Cloud!GoneIsGone, Cloud!EnrolledApart, Cloud!Gone
    <3>10. Cloud!OriginsRun'
      BY <3>1, <1>t DEF Cloud!OriginsRun, Cloud!EnrolledApart, Cloud!Unjoined
    <3>11. Cloud!InstancesAreTracked'
      BY <3>1, <1>t DEF Cloud!InstancesAreTracked, Cloud!RefsPinned, Cloud!EnrolledApart,
         Cloud!Gone
    <3> QED BY <3>2, <3>3, <3>4, <3>5, <3>6, <3>7, <3>8, <3>9, <3>10, <3>11
  <2> QED BY <2>1, <2>2
<1>8. ASSUME NEW a \in BOOLEAN, NEW g \in {"accepted", "resolved"}, Cloud!World(a, g)
      PROVE  /\ Cloud!TypeOK' /\ Cloud!LocksHeld' /\ Cloud!Unjoined' /\ Cloud!EnrolledApart'
             /\ Cloud!RefsPinned' /\ Cloud!CopiesRun' /\ Cloud!JoinChecked' /\ Cloud!GoneIsGone'
             /\ Cloud!OriginsRun' /\ Cloud!InstancesAreTracked'
  <2>1. /\ attack' = a
        /\ UNCHANGED <<targets, running, created, req, cloudFaults, overlapped>>
        /\ UNCHANGED <<siteLock, targetLock, op, origins, siteDeploy, orphan, direct, lateJoin>>
    BY <1>8, Zenon DEF Cloud!Enrolling, Cloud!World
  <2>2. Cloud!TypeOK'
    BY <2>1, <1>t DEF Cloud!TypeOK, Cloud!Ops
  <2>3. Cloud!LocksHeld'
    BY <2>1, <1>t DEF Cloud!LocksHeld
  <2>4. Cloud!Unjoined'
    BY <2>1, <1>t DEF Cloud!Unjoined, Cloud!LocksHeld
  <2>5. Cloud!EnrolledApart'
    BY <2>1, <1>t DEF Cloud!EnrolledApart, Cloud!Gone
  <2>6. Cloud!RefsPinned'
    BY <2>1, <1>t DEF Cloud!RefsPinned, Cloud!EnrolledApart
  <2>7. Cloud!CopiesRun'
    BY <2>1, <1>t DEF Cloud!CopiesRun, Cloud!EnrolledApart
  <2>8. Cloud!JoinChecked'
    BY <2>1, <1>t DEF Cloud!JoinChecked, Cloud!EnrolledApart, Cloud!Gone
  <2>9. Cloud!GoneIsGone'
    BY <2>1, <1>t DEF Cloud!GoneIsGone, Cloud!EnrolledApart, Cloud!Gone
  <2>10. Cloud!OriginsRun'
    BY <2>1, <1>t DEF Cloud!OriginsRun, Cloud!EnrolledApart, Cloud!Unjoined
  <2>11. Cloud!InstancesAreTracked'
    BY <2>1, <1>t DEF Cloud!InstancesAreTracked, Cloud!RefsPinned, Cloud!EnrolledApart,
       Cloud!Gone
  <2> QED BY <2>2, <2>3, <2>4, <2>5, <2>6, <2>7, <2>8, <2>9, <2>10, <2>11
<1>9. ASSUME Cloud!ReapStale
      PROVE  /\ Cloud!TypeOK' /\ Cloud!LocksHeld' /\ Cloud!Unjoined' /\ Cloud!EnrolledApart'
             /\ Cloud!RefsPinned' /\ Cloud!CopiesRun' /\ Cloud!JoinChecked' /\ Cloud!GoneIsGone'
             /\ Cloud!OriginsRun' /\ Cloud!InstancesAreTracked'
  <2>1. /\ orphan' \subseteq DOMAIN targets
        /\ UNCHANGED <<targets, running, created, req, cloudFaults, overlapped>>
        /\ UNCHANGED <<attack, siteLock, targetLock, op, origins, siteDeploy, direct, lateJoin>>
    BY <1>9, Zenon DEF Cloud!Enrolling, Cloud!ReapStale
  <2>2. Cloud!TypeOK'
    BY <2>1, <1>t DEF Cloud!TypeOK, Cloud!Ops
  <2>3. Cloud!LocksHeld'
    BY <2>1, <1>t DEF Cloud!LocksHeld
  <2>4. Cloud!Unjoined'
    BY <2>1, <1>t DEF Cloud!Unjoined, Cloud!LocksHeld
  <2>5. Cloud!EnrolledApart'
    BY <2>1, <1>t DEF Cloud!EnrolledApart, Cloud!Gone
  <2>6. Cloud!RefsPinned'
    BY <2>1, <1>t DEF Cloud!RefsPinned, Cloud!EnrolledApart
  <2>7. Cloud!CopiesRun'
    BY <2>1, <1>t DEF Cloud!CopiesRun, Cloud!EnrolledApart
  <2>8. Cloud!JoinChecked'
    BY <2>1, <1>t DEF Cloud!JoinChecked, Cloud!EnrolledApart, Cloud!Gone
  <2>9. Cloud!GoneIsGone'
    BY <2>1, <1>t DEF Cloud!GoneIsGone, Cloud!EnrolledApart, Cloud!Gone
  <2>10. Cloud!OriginsRun'
    BY <2>1, <1>t DEF Cloud!OriginsRun, Cloud!EnrolledApart, Cloud!Unjoined
  <2>11. Cloud!InstancesAreTracked'
    BY <2>1, <1>t DEF Cloud!InstancesAreTracked, Cloud!RefsPinned, Cloud!EnrolledApart,
       Cloud!Gone
  <2> QED BY <2>2, <2>3, <2>4, <2>5, <2>6, <2>7, <2>8, <2>9, <2>10, <2>11
<1> QED BY <1>1, <1>2, <1>3, <1>4, <1>5, <1>6, <1>7, <1>8, <1>9 DEF Cloud!OverflowDeployView,
       Cloud!OverflowJoinView, Cloud!OverflowScaleInView

\* The steps of an enrolment, from the row to the provisioned host, and the ways it ends.
LEMMA EnrolmentKeeps ==
    ASSUME Cloud!TypeOK, Cloud!LocksHeld, Cloud!Unjoined, Cloud!EnrolledApart,
        Cloud!RefsPinned, Cloud!CopiesRun, Cloud!JoinChecked, Cloud!GoneIsGone,
        Cloud!OriginsRun, Cloud!InstancesAreTracked,
           NEW q \in Requests,
           (\/ Cloud!CreateInstance(q) \/ Cloud!SaveRef(q) \/ Cloud!Pin(q) \/ Cloud!KillRequest(q)
            \/ \E v \in BOOLEAN : Cloud!InstanceCreateView(q, v) \/ Cloud!CreateFails(q, v)
            \/ \E r \in {"ready", "refused", "raises"} : Cloud!Provision(q, r))
    PROVE  /\ Cloud!TypeOK' /\ Cloud!LocksHeld' /\ Cloud!Unjoined' /\ Cloud!EnrolledApart'
           /\ Cloud!RefsPinned' /\ Cloud!CopiesRun' /\ Cloud!JoinChecked' /\ Cloud!GoneIsGone'
           /\ Cloud!OriginsRun' /\ Cloud!InstancesAreTracked'
<1>t. /\ targets \in Seq(Cloud!Target) /\ created \in Nat /\ running \subseteq 1..created
      /\ cloudFaults \in Nat
      /\ \A t \in DOMAIN targets : targets[t] \in Cloud!Target
          /\ targets[t].ref \in 0..created /\ t \in Nat /\ t # 0
      /\ \A x \in Requests : req[x].inst \in 0..created /\ (req[x].at # "idle" =>
          req[x].row \in DOMAIN targets)
      /\ \A x \in Requests : req[x].at \in {"idle", "create"} <=> req[x].inst = 0
      /\ \A o \in Cloud!Ops : op[o].at # "idle" => op[o].t \in DOMAIN targets
      /\ req \in [Requests -> [at : {"idle", "create", "ref", "pin", "provision"}, row : Nat,
          inst : Nat]]
      /\ op \in [Cloud!Ops -> [at : {"idle", "checked", "locked", "unjoin", "terminate"},
          t : Nat]]
  <2>1. \A t \in DOMAIN targets : targets[t] \in Cloud!Target /\ targets[t].ref <= created
            /\ t \in Nat /\ t # 0
    BY DEF Cloud!TypeOK
  <2>2. \A t \in DOMAIN targets : targets[t].ref \in Nat
    BY <2>1 DEF Cloud!Target
  <2> QED BY <2>1, <2>2 DEF Cloud!TypeOK
<1>1. ASSUME Cloud!EnrollStart(q)
      PROVE  /\ Cloud!TypeOK' /\ Cloud!LocksHeld' /\ Cloud!Unjoined' /\ Cloud!EnrolledApart'
             /\ Cloud!RefsPinned' /\ Cloud!CopiesRun' /\ Cloud!JoinChecked' /\ Cloud!GoneIsGone'
             /\ Cloud!OriginsRun' /\ Cloud!InstancesAreTracked'
  <2>1. CASE Cloud!Existing # 0
    <3>1. /\ req[q].at = "idle"
          /\ overlapped' = (overlapped \/ Cloud!Meets)
          /\ UNCHANGED <<running, created, cloudFaults>>
          /\ UNCHANGED <<attack, siteLock, targetLock, op, origins, siteDeploy, orphan, direct,
              lateJoin>>
          /\ Cloud!Existing # 0 /\ ~Cloud!Pinned(Cloud!Existing) /\ targets' = targets
          /\ req' = [req EXCEPT ![q] = [at |-> "create", row |-> Cloud!Existing, inst |-> 0]]
      BY <2>1, <1>1, Zenon DEF Cloud!Overflow, Cloud!EnrollStart
    <3>a. /\ overlapped' \in BOOLEAN
          /\ (~overlapped' => ~overlapped /\ \A p \in Requests : req[p].at = "idle")
      BY <3>1, Zenon DEF Cloud!Meets, Cloud!TypeOK
    <3>b. ~overlapped' => targets[Cloud!Existing].status \notin Cloud!Gone
      BY <3>1, Zenon DEF Cloud!Meets
    <3>c. Cloud!Existing \in DOMAIN targets
      BY <3>1, ExistingFacts
    <3>d. targets[Cloud!Existing].ref = 0 \/ ~targets[Cloud!Existing].pinned
      BY <3>1, Zenon DEF Cloud!Pinned
    <3>2. Cloud!TypeOK'
      BY <3>1, <3>a, <3>b, <3>c, <3>d, <1>t DEF Cloud!TypeOK, Cloud!Ops
    <3>3. Cloud!LocksHeld'
      BY <3>1, <3>a, <3>b, <3>c, <3>d, <1>t DEF Cloud!LocksHeld
    <3>4. Cloud!Unjoined'
      BY <3>1, <3>a, <3>b, <3>c, <3>d, <1>t DEF Cloud!Unjoined, Cloud!LocksHeld
    <3>5. Cloud!EnrolledApart'
      BY <3>1, <3>a, <3>b, <3>c, <3>d, <1>t DEF Cloud!EnrolledApart, Cloud!Gone
    <3>6. Cloud!RefsPinned'
      BY <3>1, <3>a, <3>b, <3>c, <3>d, <1>t DEF Cloud!RefsPinned, Cloud!EnrolledApart
    <3>7. Cloud!CopiesRun'
      BY <3>1, <3>a, <3>b, <3>c, <3>d, <1>t DEF Cloud!CopiesRun, Cloud!EnrolledApart
    <3>8. Cloud!JoinChecked'
      BY <3>1, <3>a, <3>b, <3>c, <3>d, <1>t DEF Cloud!JoinChecked, Cloud!EnrolledApart,
         Cloud!Gone
    <3>9. Cloud!GoneIsGone'
      BY <3>1, <3>a, <3>b, <3>c, <3>d, <1>t DEF Cloud!GoneIsGone, Cloud!EnrolledApart,
         Cloud!Gone
    <3>10. Cloud!OriginsRun'
      BY <3>1, <3>a, <3>b, <3>c, <3>d, <1>t DEF Cloud!OriginsRun, Cloud!EnrolledApart,
         Cloud!Unjoined
    <3>11. Cloud!InstancesAreTracked'
      BY <3>1, <3>a, <3>b, <3>c, <3>d, <1>t DEF Cloud!InstancesAreTracked, Cloud!RefsPinned,
         Cloud!EnrolledApart, Cloud!Gone
    <3> QED BY <3>2, <3>3, <3>4, <3>5, <3>6, <3>7, <3>8, <3>9, <3>10, <3>11
  <2>2. CASE Cloud!Existing = 0
    <3>1. /\ req[q].at = "idle"
          /\ overlapped' = (overlapped \/ Cloud!Meets)
          /\ UNCHANGED <<running, created, cloudFaults>>
          /\ UNCHANGED <<attack, siteLock, targetLock, op, origins, siteDeploy, orphan, direct,
              lateJoin>>
          /\ targets' = Append(targets, [status |-> "pending", ref |-> 0, pinned |-> FALSE,
              born |-> FALSE, copy |-> "none"])
          /\ req' = [req EXCEPT ![q] = [at |-> "create", row |-> Len(targets'), inst |-> 0]]
      BY <2>2, <1>1, Zenon DEF Cloud!Overflow, Cloud!EnrollStart
    <3>a. [status |-> "pending", ref |-> 0, pinned |-> FALSE, born |-> FALSE,
              copy |-> "none"] \in Cloud!Target
      BY DEF Cloud!Target
    <3>b. /\ targets' \in Seq(Cloud!Target)
          /\ DOMAIN targets' = DOMAIN targets \cup {Len(targets')} /\ Len(targets') \in Nat
          /\ Len(targets') \notin DOMAIN targets
          /\ targets'[Len(targets')] = [status |-> "pending", ref |-> 0, pinned |-> FALSE,
               born |-> FALSE, copy |-> "none"]
          /\ \A u \in DOMAIN targets : targets'[u] = targets[u]
      BY <3>1, <3>a, <1>t
    <3>c. /\ overlapped' \in BOOLEAN
          /\ (~overlapped' => ~overlapped /\ \A p \in Requests : req[p].at = "idle")
      BY <3>1, Zenon DEF Cloud!Meets, Cloud!TypeOK
    <3>d. /\ origins \subseteq DOMAIN targets
          /\ (op["join"].at # "idle" => op["join"].t \in DOMAIN targets)
      BY <1>t DEF Cloud!TypeOK, Cloud!Ops
    <3>2. Cloud!TypeOK'
      BY <3>1, <3>a, <3>b, <3>c, <3>d, <1>t DEF Cloud!TypeOK, Cloud!Ops
    <3>3. Cloud!LocksHeld'
      BY <3>1, <3>a, <3>b, <3>c, <3>d, <1>t DEF Cloud!LocksHeld
    <3>4. Cloud!Unjoined'
      BY <3>1, <3>a, <3>b, <3>c, <3>d, <1>t DEF Cloud!Unjoined, Cloud!LocksHeld
    <3>5. Cloud!EnrolledApart'
      BY <3>1, <3>a, <3>b, <3>c, <3>d, <1>t DEF Cloud!EnrolledApart, Cloud!Gone
    <3>6. Cloud!RefsPinned'
      BY <3>1, <3>a, <3>b, <3>c, <3>d, <1>t DEF Cloud!RefsPinned, Cloud!EnrolledApart
    <3>7. Cloud!CopiesRun'
      BY <3>1, <3>a, <3>b, <3>c, <3>d, <1>t DEF Cloud!CopiesRun, Cloud!EnrolledApart
    <3>8. Cloud!JoinChecked'
      BY <3>1, <3>a, <3>b, <3>c, <3>d, <1>t DEF Cloud!JoinChecked, Cloud!EnrolledApart,
         Cloud!Gone
    <3>9. Cloud!GoneIsGone'
      BY <3>1, <3>a, <3>b, <3>c, <3>d, <1>t DEF Cloud!GoneIsGone, Cloud!EnrolledApart,
         Cloud!Gone
    <3>10. Cloud!OriginsRun'
      BY <3>1, <3>a, <3>b, <3>c, <3>d, <1>t DEF Cloud!OriginsRun, Cloud!EnrolledApart,
         Cloud!Unjoined
    <3>11. Cloud!InstancesAreTracked'
      BY <3>1, <3>a, <3>b, <3>c, <3>d, <1>t DEF Cloud!InstancesAreTracked, Cloud!RefsPinned,
         Cloud!EnrolledApart, Cloud!Gone
    <3> QED BY <3>2, <3>3, <3>4, <3>5, <3>6, <3>7, <3>8, <3>9, <3>10, <3>11
  <2> QED BY <2>1, <2>2
<1>2. ASSUME Cloud!CreateInstance(q)
      PROVE  /\ Cloud!TypeOK' /\ Cloud!LocksHeld' /\ Cloud!Unjoined' /\ Cloud!EnrolledApart'
             /\ Cloud!RefsPinned' /\ Cloud!CopiesRun' /\ Cloud!JoinChecked' /\ Cloud!GoneIsGone'
             /\ Cloud!OriginsRun' /\ Cloud!InstancesAreTracked'
  <2>1. /\ req[q].at = "create" /\ created' = created + 1
        /\ running' = running \cup {created + 1}
        /\ req' = [req EXCEPT ![q].at = "ref", ![q].inst = created + 1]
        /\ UNCHANGED <<targets, cloudFaults, overlapped>>
        /\ UNCHANGED <<attack, siteLock, targetLock, op, origins, siteDeploy, orphan, direct,
            lateJoin>>
    BY <1>2, Zenon DEF Cloud!Overflow, Cloud!CreateInstance
  <2>a. /\ req' \in [Requests -> [at : {"idle", "create", "ref", "pin", "provision"},
             row : Nat, inst : Nat]]
        /\ req'[q].at = "ref" /\ req'[q].row = req[q].row /\ req'[q].inst = created + 1
        /\ \A p \in Requests : p # q => req'[p] = req[p]
    BY <2>1, <1>t, RequestEdits
  <2>b. /\ created' \in Nat /\ created <= created' /\ running' \subseteq 1..created'
        /\ \A t \in DOMAIN targets : targets[t].ref <= created'
    BY <2>1, <1>t
  <2>c. \A p \in Requests : req'[p].inst <= created' /\ (req'[p].at \in {"idle",
            "create"} <=> req'[p].inst = 0)
    BY <2>1, <2>a, <1>t
  <2>2. Cloud!TypeOK'
    BY <2>1, <2>a, <2>b, <2>c, <1>t DEF Cloud!TypeOK, Cloud!Ops
  <2>3. Cloud!LocksHeld'
    BY <2>1, <2>a, <2>b, <2>c, <1>t DEF Cloud!LocksHeld
  <2>4. Cloud!Unjoined'
    BY <2>1, <2>a, <2>b, <2>c, <1>t DEF Cloud!Unjoined, Cloud!LocksHeld
  <2>5. Cloud!EnrolledApart'
    BY <2>1, <2>a, <2>b, <2>c, <1>t DEF Cloud!EnrolledApart, Cloud!Gone
  <2>6. Cloud!RefsPinned'
    BY <2>1, <2>a, <2>b, <2>c, <1>t DEF Cloud!RefsPinned, Cloud!EnrolledApart
  <2>7. Cloud!CopiesRun'
    BY <2>1, <2>a, <2>b, <2>c, <1>t DEF Cloud!CopiesRun, Cloud!EnrolledApart
  <2>8. Cloud!JoinChecked'
    BY <2>1, <2>a, <2>b, <2>c, <1>t DEF Cloud!JoinChecked, Cloud!EnrolledApart, Cloud!Gone
  <2>9. Cloud!GoneIsGone'
    BY <2>1, <2>a, <2>b, <2>c, <1>t DEF Cloud!GoneIsGone, Cloud!EnrolledApart, Cloud!Gone
  <2>10. Cloud!OriginsRun'
    BY <2>1, <2>a, <2>b, <2>c, <1>t DEF Cloud!OriginsRun, Cloud!EnrolledApart, Cloud!Unjoined
  <2>11. Cloud!InstancesAreTracked'
    BY <2>1, <2>a, <2>b, <2>c, <1>t DEF Cloud!InstancesAreTracked, Cloud!RefsPinned,
       Cloud!EnrolledApart, Cloud!Gone
  <2> QED BY <2>2, <2>3, <2>4, <2>5, <2>6, <2>7, <2>8, <2>9, <2>10, <2>11
<1>3. ASSUME NEW left \in BOOLEAN, Cloud!CreateFails(q, left)
      PROVE  /\ Cloud!TypeOK' /\ Cloud!LocksHeld' /\ Cloud!Unjoined' /\ Cloud!EnrolledApart'
             /\ Cloud!RefsPinned' /\ Cloud!CopiesRun' /\ Cloud!JoinChecked' /\ Cloud!GoneIsGone'
             /\ Cloud!OriginsRun' /\ Cloud!InstancesAreTracked'
  <2>1. /\ req[q].at = "create" /\ cloudFaults' = cloudFaults + 1
        /\ req' = [req EXCEPT ![q] = [at |-> "idle", row |-> 0, inst |-> 0]]
        /\ created' = IF left THEN created + 1 ELSE created
        /\ running' = IF left THEN running \cup {created + 1} ELSE running
        /\ UNCHANGED <<targets, overlapped>>
        /\ UNCHANGED <<attack, siteLock, targetLock, op, origins, siteDeploy, orphan, direct,
            lateJoin>>
    BY <1>3, Zenon DEF Cloud!Overflow, Cloud!CreateFails, Cloud!Fault, Cloud!End, Cloud!NoReq
  <2>a. /\ created' \in Nat /\ created <= created' /\ running' \subseteq 1..created'
        /\ \A t \in DOMAIN targets : targets[t].ref <= created'
    BY <2>1, <1>t
  <2>b. \A p \in Requests : req'[p].inst <= created'
    BY <2>1, <2>a, <1>t
  <2>2. Cloud!TypeOK'
    BY <2>1, <2>a, <2>b, <1>t DEF Cloud!TypeOK, Cloud!Ops
  <2>3. Cloud!LocksHeld'
    BY <2>1, <2>a, <2>b, <1>t DEF Cloud!LocksHeld
  <2>4. Cloud!Unjoined'
    BY <2>1, <2>a, <2>b, <1>t DEF Cloud!Unjoined, Cloud!LocksHeld
  <2>5. Cloud!EnrolledApart'
    BY <2>1, <2>a, <2>b, <1>t DEF Cloud!EnrolledApart, Cloud!Gone
  <2>6. Cloud!RefsPinned'
    BY <2>1, <2>a, <2>b, <1>t DEF Cloud!RefsPinned, Cloud!EnrolledApart
  <2>7. Cloud!CopiesRun'
    BY <2>1, <2>a, <2>b, <1>t DEF Cloud!CopiesRun, Cloud!EnrolledApart
  <2>8. Cloud!JoinChecked'
    BY <2>1, <2>a, <2>b, <1>t DEF Cloud!JoinChecked, Cloud!EnrolledApart, Cloud!Gone
  <2>9. Cloud!GoneIsGone'
    BY <2>1, <2>a, <2>b, <1>t DEF Cloud!GoneIsGone, Cloud!EnrolledApart, Cloud!Gone
  <2>10. Cloud!OriginsRun'
    BY <2>1, <2>a, <2>b, <1>t DEF Cloud!OriginsRun, Cloud!EnrolledApart, Cloud!Unjoined
  <2>11. Cloud!InstancesAreTracked'
    BY <2>1, <2>a, <2>b, <1>t DEF Cloud!InstancesAreTracked, Cloud!RefsPinned,
       Cloud!EnrolledApart, Cloud!Gone
  <2> QED BY <2>2, <2>3, <2>4, <2>5, <2>6, <2>7, <2>8, <2>9, <2>10, <2>11
<1>4. ASSUME Cloud!SaveRef(q)
      PROVE  /\ Cloud!TypeOK' /\ Cloud!LocksHeld' /\ Cloud!Unjoined' /\ Cloud!EnrolledApart'
             /\ Cloud!RefsPinned' /\ Cloud!CopiesRun' /\ Cloud!JoinChecked' /\ Cloud!GoneIsGone'
             /\ Cloud!OriginsRun' /\ Cloud!InstancesAreTracked'
  <2>1. /\ req[q].at = "ref" /\ req' = [req EXCEPT ![q].at = "pin"]
        /\ targets' = [targets EXCEPT ![req[q].row] = [targets[req[q].row] EXCEPT !.ref = req[q].inst]]
        /\ UNCHANGED <<running, created, cloudFaults, overlapped>>
        /\ UNCHANGED <<attack, siteLock, targetLock, op, origins, siteDeploy, orphan, direct,
            lateJoin>>
    BY <1>4, Zenon DEF Cloud!Overflow, Cloud!SaveRef, Cloud!Set
  <2>a. /\ req[q].row \in DOMAIN targets /\ targets[req[q].row] \in Cloud!Target
        /\ req[q].inst \in Nat
    BY <2>1, <1>t DEF Cloud!Ops
  <2>b. /\ [targets[req[q].row] EXCEPT !.ref = req[q].inst] \in Cloud!Target
        /\ [targets[req[q].row] EXCEPT !.ref = req[q].inst].status = targets[req[q].row].status
        /\ [targets[req[q].row] EXCEPT !.ref = req[q].inst].ref = req[q].inst
        /\ [targets[req[q].row] EXCEPT !.ref = req[q].inst].pinned = targets[req[q].row].pinned
        /\ [targets[req[q].row] EXCEPT !.ref = req[q].inst].copy = targets[req[q].row].copy
    BY <2>a DEF Cloud!Target
  <2>c. /\ targets' \in Seq(Cloud!Target) /\ DOMAIN targets' = DOMAIN targets
        /\ targets'[req[q].row] = [targets[req[q].row] EXCEPT !.ref = req[q].inst]
        /\ \A u \in DOMAIN targets : u # req[q].row => targets'[u] = targets[u]
    BY <2>1, <2>a, <2>b, <1>t, SetRow
  <2>d. /\ req' \in [Requests -> [at : {"idle", "create", "ref", "pin", "provision"},
             row : Nat, inst : Nat]]
        /\ req'[q].at = "pin" /\ req'[q].row = req[q].row /\ req'[q].inst = req[q].inst
        /\ \A p \in Requests : p # q => req'[p] = req[p]
    BY <2>1, <1>t, RequestEdits
  <2>2. Cloud!TypeOK'
    BY <2>1, <2>a, <2>b, <2>c, <2>d, <1>t DEF Cloud!TypeOK, Cloud!Ops
  <2>3. Cloud!LocksHeld'
    BY <2>1, <2>a, <2>b, <2>c, <2>d, <1>t DEF Cloud!LocksHeld
  <2>4. Cloud!Unjoined'
    BY <2>1, <2>a, <2>b, <2>c, <2>d, <1>t DEF Cloud!Unjoined, Cloud!LocksHeld
  <2>5. Cloud!EnrolledApart'
    BY <2>1, <2>a, <2>b, <2>c, <2>d, <1>t DEF Cloud!EnrolledApart, Cloud!Gone
  <2>6. Cloud!RefsPinned'
    BY <2>1, <2>a, <2>b, <2>c, <2>d, <1>t DEF Cloud!RefsPinned, Cloud!EnrolledApart
  <2>7. Cloud!CopiesRun'
    BY <2>1, <2>a, <2>b, <2>c, <2>d, <1>t DEF Cloud!CopiesRun, Cloud!EnrolledApart
  <2>8. Cloud!JoinChecked'
    BY <2>1, <2>a, <2>b, <2>c, <2>d, <1>t DEF Cloud!JoinChecked, Cloud!EnrolledApart, Cloud!Gone
  <2>9. Cloud!GoneIsGone'
    BY <2>1, <2>a, <2>b, <2>c, <2>d, <1>t DEF Cloud!GoneIsGone, Cloud!EnrolledApart, Cloud!Gone
  <2>10. Cloud!OriginsRun'
    BY <2>1, <2>a, <2>b, <2>c, <2>d, <1>t DEF Cloud!OriginsRun, Cloud!EnrolledApart,
       Cloud!Unjoined
  <2>11. Cloud!InstancesAreTracked'
    BY <2>1, <2>a, <2>b, <2>c, <2>d, <1>t DEF Cloud!InstancesAreTracked, Cloud!RefsPinned,
       Cloud!EnrolledApart, Cloud!Gone
  <2> QED BY <2>2, <2>3, <2>4, <2>5, <2>6, <2>7, <2>8, <2>9, <2>10, <2>11
<1>5. ASSUME Cloud!Pin(q)
      PROVE  /\ Cloud!TypeOK' /\ Cloud!LocksHeld' /\ Cloud!Unjoined' /\ Cloud!EnrolledApart'
             /\ Cloud!RefsPinned' /\ Cloud!CopiesRun' /\ Cloud!JoinChecked' /\ Cloud!GoneIsGone'
             /\ Cloud!OriginsRun' /\ Cloud!InstancesAreTracked'
  <2>1. /\ req[q].at = "pin" /\ req' = [req EXCEPT ![q].at = "provision"]
        /\ targets' = [targets EXCEPT ![req[q].row] = [targets[req[q].row] EXCEPT !.pinned = TRUE, !.ref = req[q].inst]]
        /\ UNCHANGED <<running, created, cloudFaults, overlapped>>
        /\ UNCHANGED <<attack, siteLock, targetLock, op, origins, siteDeploy, orphan, direct,
            lateJoin>>
    BY <1>5, Zenon DEF Cloud!Overflow, Cloud!Pin, Cloud!Set
  <2>a. /\ req[q].row \in DOMAIN targets /\ targets[req[q].row] \in Cloud!Target
        /\ req[q].inst \in Nat
    BY <2>1, <1>t DEF Cloud!Ops
  <2>b. /\ [targets[req[q].row] EXCEPT !.pinned = TRUE, !.ref = req[q].inst] \in Cloud!Target
        /\ [targets[req[q].row] EXCEPT !.pinned = TRUE,
             !.ref = req[q].inst].status = targets[req[q].row].status
        /\ [targets[req[q].row] EXCEPT !.pinned = TRUE, !.ref = req[q].inst].ref = req[q].inst
        /\ [targets[req[q].row] EXCEPT !.pinned = TRUE, !.ref = req[q].inst].pinned = TRUE
        /\ [targets[req[q].row] EXCEPT !.pinned = TRUE,
             !.ref = req[q].inst].copy = targets[req[q].row].copy
    BY <2>a DEF Cloud!Target
  <2>c. /\ targets' \in Seq(Cloud!Target) /\ DOMAIN targets' = DOMAIN targets
        /\ targets'[req[q].row] = [targets[req[q].row] EXCEPT !.pinned = TRUE,
             !.ref = req[q].inst]
        /\ \A u \in DOMAIN targets : u # req[q].row => targets'[u] = targets[u]
    BY <2>1, <2>a, <2>b, <1>t, SetRow
  <2>d. /\ req' \in [Requests -> [at : {"idle", "create", "ref", "pin", "provision"},
             row : Nat, inst : Nat]]
        /\ req'[q].at = "provision" /\ req'[q].row = req[q].row /\ req'[q].inst = req[q].inst
        /\ \A p \in Requests : p # q => req'[p] = req[p]
    BY <2>1, <1>t, RequestEdits
  <2>2. Cloud!TypeOK'
    BY <2>1, <2>a, <2>b, <2>c, <2>d, <1>t DEF Cloud!TypeOK, Cloud!Ops
  <2>3. Cloud!LocksHeld'
    BY <2>1, <2>a, <2>b, <2>c, <2>d, <1>t DEF Cloud!LocksHeld
  <2>4. Cloud!Unjoined'
    BY <2>1, <2>a, <2>b, <2>c, <2>d, <1>t DEF Cloud!Unjoined, Cloud!LocksHeld
  <2>5. Cloud!EnrolledApart'
    BY <2>1, <2>a, <2>b, <2>c, <2>d, <1>t DEF Cloud!EnrolledApart, Cloud!Gone
  <2>6. Cloud!RefsPinned'
    BY <2>1, <2>a, <2>b, <2>c, <2>d, <1>t DEF Cloud!RefsPinned, Cloud!EnrolledApart
  <2>7. Cloud!CopiesRun'
    BY <2>1, <2>a, <2>b, <2>c, <2>d, <1>t DEF Cloud!CopiesRun, Cloud!EnrolledApart
  <2>8. Cloud!JoinChecked'
    BY <2>1, <2>a, <2>b, <2>c, <2>d, <1>t DEF Cloud!JoinChecked, Cloud!EnrolledApart, Cloud!Gone
  <2>9. Cloud!GoneIsGone'
    BY <2>1, <2>a, <2>b, <2>c, <2>d, <1>t DEF Cloud!GoneIsGone, Cloud!EnrolledApart, Cloud!Gone
  <2>10. Cloud!OriginsRun'
    BY <2>1, <2>a, <2>b, <2>c, <2>d, <1>t DEF Cloud!OriginsRun, Cloud!EnrolledApart,
       Cloud!Unjoined
  <2>11. Cloud!InstancesAreTracked'
    BY <2>1, <2>a, <2>b, <2>c, <2>d, <1>t DEF Cloud!InstancesAreTracked, Cloud!RefsPinned,
       Cloud!EnrolledApart, Cloud!Gone
  <2> QED BY <2>2, <2>3, <2>4, <2>5, <2>6, <2>7, <2>8, <2>9, <2>10, <2>11
<1>6. ASSUME NEW r \in {"ready", "refused", "raises"}, Cloud!Provision(q, r)
      PROVE  /\ Cloud!TypeOK' /\ Cloud!LocksHeld' /\ Cloud!Unjoined' /\ Cloud!EnrolledApart'
             /\ Cloud!RefsPinned' /\ Cloud!CopiesRun' /\ Cloud!JoinChecked' /\ Cloud!GoneIsGone'
             /\ Cloud!OriginsRun' /\ Cloud!InstancesAreTracked'
  <2>1. CASE r = "ready"
    <3>1. /\ req[q].at = "provision"
          /\ req' = [req EXCEPT ![q] = [at |-> "idle", row |-> 0, inst |-> 0]]
          /\ targets' = [targets EXCEPT ![req[q].row] = [targets[req[q].row] EXCEPT !.status = "ready", !.born = TRUE]]
          /\ cloudFaults' = cloudFaults
          /\ UNCHANGED <<running, created, overlapped>>
          /\ UNCHANGED <<attack, siteLock, targetLock, op, origins, siteDeploy, orphan, direct,
              lateJoin>>
      BY <2>1, <1>6, Zenon DEF Cloud!Overflow, Cloud!Provision, Cloud!Set, Cloud!End,
         Cloud!NoReq, Cloud!Fault
    <3>a. req[q].row \in DOMAIN targets /\ targets[req[q].row] \in Cloud!Target
      BY <3>1, <1>t DEF Cloud!Ops
    <3>b. /\ [targets[req[q].row] EXCEPT !.status = "ready", !.born = TRUE] \in Cloud!Target
          /\ [targets[req[q].row] EXCEPT !.status = "ready", !.born = TRUE].status = "ready"
          /\ [targets[req[q].row] EXCEPT !.status = "ready",
               !.born = TRUE].ref = targets[req[q].row].ref
          /\ [targets[req[q].row] EXCEPT !.status = "ready",
               !.born = TRUE].pinned = targets[req[q].row].pinned
          /\ [targets[req[q].row] EXCEPT !.status = "ready",
               !.born = TRUE].copy = targets[req[q].row].copy
      BY <3>a DEF Cloud!Target
    <3>c. /\ targets' \in Seq(Cloud!Target) /\ DOMAIN targets' = DOMAIN targets
          /\ targets'[req[q].row] = [targets[req[q].row] EXCEPT !.status = "ready",
               !.born = TRUE]
          /\ \A u \in DOMAIN targets : u # req[q].row => targets'[u] = targets[u]
      BY <3>1, <3>a, <3>b, <1>t, SetRow
    <3>2. Cloud!TypeOK'
      BY <3>1, <3>a, <3>b, <3>c, <1>t DEF Cloud!TypeOK, Cloud!Ops
    <3>3. Cloud!LocksHeld'
      BY <3>1, <3>a, <3>b, <3>c, <1>t DEF Cloud!LocksHeld
    <3>4. Cloud!Unjoined'
      BY <3>1, <3>a, <3>b, <3>c, <1>t DEF Cloud!Unjoined, Cloud!LocksHeld
    <3>5. Cloud!EnrolledApart'
      BY <3>1, <3>a, <3>b, <3>c, <1>t DEF Cloud!EnrolledApart, Cloud!Gone
    <3>6. Cloud!RefsPinned'
      BY <3>1, <3>a, <3>b, <3>c, <1>t DEF Cloud!RefsPinned, Cloud!EnrolledApart
    <3>7. Cloud!CopiesRun'
      BY <3>1, <3>a, <3>b, <3>c, <1>t DEF Cloud!CopiesRun, Cloud!EnrolledApart
    <3>8. Cloud!JoinChecked'
      BY <3>1, <3>a, <3>b, <3>c, <1>t DEF Cloud!JoinChecked, Cloud!EnrolledApart, Cloud!Gone
    <3>9. Cloud!GoneIsGone'
      BY <3>1, <3>a, <3>b, <3>c, <1>t DEF Cloud!GoneIsGone, Cloud!EnrolledApart, Cloud!Gone
    <3>10. Cloud!OriginsRun'
      BY <3>1, <3>a, <3>b, <3>c, <1>t DEF Cloud!OriginsRun, Cloud!EnrolledApart, Cloud!Unjoined
    <3>11. Cloud!InstancesAreTracked'
      BY <3>1, <3>a, <3>b, <3>c, <1>t DEF Cloud!InstancesAreTracked, Cloud!RefsPinned,
         Cloud!EnrolledApart, Cloud!Gone
    <3> QED BY <3>2, <3>3, <3>4, <3>5, <3>6, <3>7, <3>8, <3>9, <3>10, <3>11
  <2>2. CASE r = "refused"
    <3>1. /\ req[q].at = "provision"
          /\ req' = [req EXCEPT ![q] = [at |-> "idle", row |-> 0, inst |-> 0]]
          /\ targets' = [targets EXCEPT ![req[q].row] = [targets[req[q].row] EXCEPT !.status = "error"]]
          /\ cloudFaults' = cloudFaults + 1
          /\ UNCHANGED <<running, created, overlapped>>
          /\ UNCHANGED <<attack, siteLock, targetLock, op, origins, siteDeploy, orphan, direct,
              lateJoin>>
      BY <2>2, <1>6, Zenon DEF Cloud!Overflow, Cloud!Provision, Cloud!Set, Cloud!End,
         Cloud!NoReq, Cloud!Fault
    <3>a. req[q].row \in DOMAIN targets /\ targets[req[q].row] \in Cloud!Target
      BY <3>1, <1>t DEF Cloud!Ops
    <3>b. /\ [targets[req[q].row] EXCEPT !.status = "error"] \in Cloud!Target
          /\ [targets[req[q].row] EXCEPT !.status = "error"].status = "error"
          /\ [targets[req[q].row] EXCEPT !.status = "error"].ref = targets[req[q].row].ref
          /\ [targets[req[q].row] EXCEPT !.status = "error"].pinned = targets[req[q].row].pinned
          /\ [targets[req[q].row] EXCEPT !.status = "error"].copy = targets[req[q].row].copy
      BY <3>a DEF Cloud!Target
    <3>c. /\ targets' \in Seq(Cloud!Target) /\ DOMAIN targets' = DOMAIN targets
          /\ targets'[req[q].row] = [targets[req[q].row] EXCEPT !.status = "error"]
          /\ \A u \in DOMAIN targets : u # req[q].row => targets'[u] = targets[u]
      BY <3>1, <3>a, <3>b, <1>t, SetRow
    <3>2. Cloud!TypeOK'
      BY <3>1, <3>a, <3>b, <3>c, <1>t DEF Cloud!TypeOK, Cloud!Ops
    <3>3. Cloud!LocksHeld'
      BY <3>1, <3>a, <3>b, <3>c, <1>t DEF Cloud!LocksHeld
    <3>4. Cloud!Unjoined'
      BY <3>1, <3>a, <3>b, <3>c, <1>t DEF Cloud!Unjoined, Cloud!LocksHeld
    <3>5. Cloud!EnrolledApart'
      BY <3>1, <3>a, <3>b, <3>c, <1>t DEF Cloud!EnrolledApart, Cloud!Gone
    <3>6. Cloud!RefsPinned'
      BY <3>1, <3>a, <3>b, <3>c, <1>t DEF Cloud!RefsPinned, Cloud!EnrolledApart
    <3>7. Cloud!CopiesRun'
      BY <3>1, <3>a, <3>b, <3>c, <1>t DEF Cloud!CopiesRun, Cloud!EnrolledApart
    <3>8. Cloud!JoinChecked'
      BY <3>1, <3>a, <3>b, <3>c, <1>t DEF Cloud!JoinChecked, Cloud!EnrolledApart, Cloud!Gone
    <3>9. Cloud!GoneIsGone'
      BY <3>1, <3>a, <3>b, <3>c, <1>t DEF Cloud!GoneIsGone, Cloud!EnrolledApart, Cloud!Gone
    <3>10. Cloud!OriginsRun'
      BY <3>1, <3>a, <3>b, <3>c, <1>t DEF Cloud!OriginsRun, Cloud!EnrolledApart, Cloud!Unjoined
    <3>11. Cloud!InstancesAreTracked'
      BY <3>1, <3>a, <3>b, <3>c, <1>t DEF Cloud!InstancesAreTracked, Cloud!RefsPinned,
         Cloud!EnrolledApart, Cloud!Gone
    <3> QED BY <3>2, <3>3, <3>4, <3>5, <3>6, <3>7, <3>8, <3>9, <3>10, <3>11
  <2>3. CASE r = "raises"
    <3>1. /\ req[q].at = "provision"
          /\ req' = [req EXCEPT ![q] = [at |-> "idle", row |-> 0, inst |-> 0]]
          /\ targets' = [targets EXCEPT ![req[q].row] = targets[req[q].row]]
          /\ cloudFaults' = cloudFaults + 1
          /\ UNCHANGED <<running, created, overlapped>>
          /\ UNCHANGED <<attack, siteLock, targetLock, op, origins, siteDeploy, orphan, direct,
              lateJoin>>
      BY <2>3, <1>6, Zenon DEF Cloud!Overflow, Cloud!Provision, Cloud!Set, Cloud!End,
         Cloud!NoReq, Cloud!Fault
    <3>a. req[q].row \in DOMAIN targets /\ targets[req[q].row] \in Cloud!Target
      BY <3>1, <1>t DEF Cloud!Ops
    <3>b. /\ targets[req[q].row] \in Cloud!Target
          /\ targets[req[q].row].status = targets[req[q].row].status
          /\ targets[req[q].row].ref = targets[req[q].row].ref
          /\ targets[req[q].row].pinned = targets[req[q].row].pinned
          /\ targets[req[q].row].copy = targets[req[q].row].copy
      BY <3>a DEF Cloud!Target
    <3>c. /\ targets' \in Seq(Cloud!Target) /\ DOMAIN targets' = DOMAIN targets
          /\ targets'[req[q].row] = targets[req[q].row]
          /\ \A u \in DOMAIN targets : u # req[q].row => targets'[u] = targets[u]
      BY <3>1, <3>a, <3>b, <1>t, SetRow
    <3>2. Cloud!TypeOK'
      BY <3>1, <3>a, <3>b, <3>c, <1>t DEF Cloud!TypeOK, Cloud!Ops
    <3>3. Cloud!LocksHeld'
      BY <3>1, <3>a, <3>b, <3>c, <1>t DEF Cloud!LocksHeld
    <3>4. Cloud!Unjoined'
      BY <3>1, <3>a, <3>b, <3>c, <1>t DEF Cloud!Unjoined, Cloud!LocksHeld
    <3>5. Cloud!EnrolledApart'
      BY <3>1, <3>a, <3>b, <3>c, <1>t DEF Cloud!EnrolledApart, Cloud!Gone
    <3>6. Cloud!RefsPinned'
      BY <3>1, <3>a, <3>b, <3>c, <1>t DEF Cloud!RefsPinned, Cloud!EnrolledApart
    <3>7. Cloud!CopiesRun'
      BY <3>1, <3>a, <3>b, <3>c, <1>t DEF Cloud!CopiesRun, Cloud!EnrolledApart
    <3>8. Cloud!JoinChecked'
      BY <3>1, <3>a, <3>b, <3>c, <1>t DEF Cloud!JoinChecked, Cloud!EnrolledApart, Cloud!Gone
    <3>9. Cloud!GoneIsGone'
      BY <3>1, <3>a, <3>b, <3>c, <1>t DEF Cloud!GoneIsGone, Cloud!EnrolledApart, Cloud!Gone
    <3>10. Cloud!OriginsRun'
      BY <3>1, <3>a, <3>b, <3>c, <1>t DEF Cloud!OriginsRun, Cloud!EnrolledApart, Cloud!Unjoined
    <3>11. Cloud!InstancesAreTracked'
      BY <3>1, <3>a, <3>b, <3>c, <1>t DEF Cloud!InstancesAreTracked, Cloud!RefsPinned,
         Cloud!EnrolledApart, Cloud!Gone
    <3> QED BY <3>2, <3>3, <3>4, <3>5, <3>6, <3>7, <3>8, <3>9, <3>10, <3>11
  <2> QED BY <2>1, <2>2, <2>3
<1>7. ASSUME Cloud!KillRequest(q)
      PROVE  /\ Cloud!TypeOK' /\ Cloud!LocksHeld' /\ Cloud!Unjoined' /\ Cloud!EnrolledApart'
             /\ Cloud!RefsPinned' /\ Cloud!CopiesRun' /\ Cloud!JoinChecked' /\ Cloud!GoneIsGone'
             /\ Cloud!OriginsRun' /\ Cloud!InstancesAreTracked'
  <2>1. /\ cloudFaults' = cloudFaults + 1
        /\ req' = [req EXCEPT ![q] = [at |-> "idle", row |-> 0, inst |-> 0]]
        /\ UNCHANGED <<targets, running, created, overlapped>>
        /\ UNCHANGED <<attack, siteLock, targetLock, op, origins, siteDeploy, orphan, direct,
            lateJoin>>
    BY <1>7, Zenon DEF Cloud!Overflow, Cloud!KillRequest, Cloud!Fault, Cloud!End, Cloud!NoReq
  <2>2. Cloud!TypeOK'
    BY <2>1, <1>t DEF Cloud!TypeOK, Cloud!Ops
  <2>3. Cloud!LocksHeld'
    BY <2>1, <1>t DEF Cloud!LocksHeld
  <2>4. Cloud!Unjoined'
    BY <2>1, <1>t DEF Cloud!Unjoined, Cloud!LocksHeld
  <2>5. Cloud!EnrolledApart'
    BY <2>1, <1>t DEF Cloud!EnrolledApart, Cloud!Gone
  <2>6. Cloud!RefsPinned'
    BY <2>1, <1>t DEF Cloud!RefsPinned, Cloud!EnrolledApart
  <2>7. Cloud!CopiesRun'
    BY <2>1, <1>t DEF Cloud!CopiesRun, Cloud!EnrolledApart
  <2>8. Cloud!JoinChecked'
    BY <2>1, <1>t DEF Cloud!JoinChecked, Cloud!EnrolledApart, Cloud!Gone
  <2>9. Cloud!GoneIsGone'
    BY <2>1, <1>t DEF Cloud!GoneIsGone, Cloud!EnrolledApart, Cloud!Gone
  <2>10. Cloud!OriginsRun'
    BY <2>1, <1>t DEF Cloud!OriginsRun, Cloud!EnrolledApart, Cloud!Unjoined
  <2>11. Cloud!InstancesAreTracked'
    BY <2>1, <1>t DEF Cloud!InstancesAreTracked, Cloud!RefsPinned, Cloud!EnrolledApart,
       Cloud!Gone
  <2> QED BY <2>2, <2>3, <2>4, <2>5, <2>6, <2>7, <2>8, <2>9, <2>10, <2>11
<1> QED BY <1>1, <1>2, <1>3, <1>4, <1>5, <1>6, <1>7 DEF Cloud!InstanceCreateView

\* The terminations, by hand and by scale-in, and the end of a deployment to the overflow.
LEMMA TerminationKeeps ==
    ASSUME Cloud!TypeOK, Cloud!LocksHeld, Cloud!Unjoined, Cloud!EnrolledApart,
        Cloud!RefsPinned, Cloud!CopiesRun, Cloud!JoinChecked, Cloud!GoneIsGone,
        Cloud!OriginsRun, Cloud!InstancesAreTracked,
           (\/ \E t \in DOMAIN targets, ok \in BOOLEAN : Cloud!InstanceTerminateView(t,
               ok) \/ Cloud!TargetDeleteView(t, ok)
            \/ \E ok \in BOOLEAN : Cloud!ScaleInTerminate(ok) \/ Cloud!EndOverflow(ok))
    PROVE  /\ Cloud!TypeOK' /\ Cloud!LocksHeld' /\ Cloud!Unjoined' /\ Cloud!EnrolledApart'
           /\ Cloud!RefsPinned' /\ Cloud!CopiesRun' /\ Cloud!JoinChecked' /\ Cloud!GoneIsGone'
           /\ Cloud!OriginsRun' /\ Cloud!InstancesAreTracked'
<1>t. /\ targets \in Seq(Cloud!Target) /\ created \in Nat /\ running \subseteq 1..created
      /\ cloudFaults \in Nat
      /\ \A t \in DOMAIN targets : targets[t] \in Cloud!Target
          /\ targets[t].ref \in 0..created /\ t \in Nat /\ t # 0
      /\ \A q \in Requests : req[q].inst \in 0..created /\ (req[q].at # "idle" =>
          req[q].row \in DOMAIN targets)
      /\ \A q \in Requests : req[q].at \in {"idle", "create"} <=> req[q].inst = 0
      /\ \A o \in Cloud!Ops : op[o].at # "idle" => op[o].t \in DOMAIN targets
      /\ req \in [Requests -> [at : {"idle", "create", "ref", "pin", "provision"}, row : Nat,
          inst : Nat]]
      /\ op \in [Cloud!Ops -> [at : {"idle", "checked", "locked", "unjoin", "terminate"},
          t : Nat]]
  <2>1. \A t \in DOMAIN targets : targets[t] \in Cloud!Target /\ targets[t].ref <= created
            /\ t \in Nat /\ t # 0
    BY DEF Cloud!TypeOK
  <2>2. \A t \in DOMAIN targets : targets[t].ref \in Nat
    BY <2>1 DEF Cloud!Target
  <2> QED BY <2>1, <2>2 DEF Cloud!TypeOK
<1>1. ASSUME NEW t \in DOMAIN targets, NEW ok \in BOOLEAN, Cloud!InstanceTerminateView(t, ok)
      PROVE  /\ Cloud!TypeOK' /\ Cloud!LocksHeld' /\ Cloud!Unjoined' /\ Cloud!EnrolledApart'
             /\ Cloud!RefsPinned' /\ Cloud!CopiesRun' /\ Cloud!JoinChecked' /\ Cloud!GoneIsGone'
             /\ Cloud!OriginsRun' /\ Cloud!InstancesAreTracked'
  <2>1. CASE ok
    <3>1. /\ targets[t].status \notin Cloud!Gone /\ direct' = TRUE /\ cloudFaults' = cloudFaults
          /\ running' = running \ {targets[t].ref}
          /\ overlapped' = (overlapped \/ Cloud!Busy(t))
          /\ targets' = [targets EXCEPT ![t] = [targets[t] EXCEPT !.status = "decommissioned"]]
          /\ UNCHANGED <<created, req, attack, siteLock, targetLock, op, origins, siteDeploy,
              orphan, lateJoin>>
      BY <2>1, <1>1, Zenon DEF Cloud!InstanceTerminateView, Cloud!Terminable, Cloud!Terminated,
         Cloud!Set, Cloud!Fault
    <3>a. t \in DOMAIN targets /\ targets[t] \in Cloud!Target
      BY <3>1, <1>t DEF Cloud!Ops
    <3>b. /\ [targets[t] EXCEPT !.status = "decommissioned"] \in Cloud!Target
          /\ [targets[t] EXCEPT !.status = "decommissioned"].status = "decommissioned"
          /\ [targets[t] EXCEPT !.status = "decommissioned"].ref = targets[t].ref
          /\ [targets[t] EXCEPT !.status = "decommissioned"].pinned = targets[t].pinned
          /\ [targets[t] EXCEPT !.status = "decommissioned"].copy = targets[t].copy
      BY <3>a DEF Cloud!Target
    <3>c. /\ targets' \in Seq(Cloud!Target) /\ DOMAIN targets' = DOMAIN targets
          /\ targets'[t] = [targets[t] EXCEPT !.status = "decommissioned"]
          /\ \A u \in DOMAIN targets : u # t => targets'[u] = targets[u]
      BY <3>1, <3>a, <3>b, <1>t, SetRow
    <3>d. /\ overlapped' \in BOOLEAN
          /\ (~overlapped' => ~overlapped /\ \A q \in Requests : req[q].at # "idle" =>
               req[q].row # t)
      BY <3>1, Zenon DEF Cloud!Busy, Cloud!TypeOK
    <3>e. ~overlapped' => \A q \in Requests : req[q].at \in {"ref", "pin",
              "provision"} => req[q].inst # targets[t].ref
      BY <3>1, <3>a, <3>d, <1>t DEF Cloud!EnrolledApart
    <3>f. \A u \in DOMAIN targets : targets'[u].ref = targets[u].ref
              /\ targets'[u].pinned = targets[u].pinned
      BY <3>1, <3>a, <3>b, <3>c
    <3>2. Cloud!TypeOK'
      BY <3>1, <3>a, <3>b, <3>c, <3>d, <3>e, <3>f, <1>t DEF Cloud!TypeOK, Cloud!Ops
    <3>3. Cloud!LocksHeld'
      BY <3>1, <3>a, <3>b, <3>c, <3>d, <3>e, <3>f, <1>t DEF Cloud!LocksHeld
    <3>4. Cloud!Unjoined'
      BY <3>1, <3>a, <3>b, <3>c, <3>d, <3>e, <3>f, <1>t DEF Cloud!Unjoined, Cloud!LocksHeld
    <3>5. Cloud!EnrolledApart'
      BY <3>1, <3>a, <3>b, <3>c, <3>d, <3>e, <3>f, <1>t DEF Cloud!EnrolledApart, Cloud!Gone
    <3>6. Cloud!RefsPinned'
      BY <3>1, <3>a, <3>b, <3>c, <3>d, <3>e, <3>f, <1>t DEF Cloud!RefsPinned,
         Cloud!EnrolledApart
    <3>7. Cloud!CopiesRun'
      BY <3>1, <3>a, <3>b, <3>c, <3>d, <3>e, <3>f, <1>t DEF Cloud!CopiesRun, Cloud!EnrolledApart
    <3>8. Cloud!JoinChecked'
      BY <3>1, <3>a, <3>b, <3>c, <3>d, <3>e, <3>f, <1>t DEF Cloud!JoinChecked,
         Cloud!EnrolledApart, Cloud!Gone
    <3>9. Cloud!GoneIsGone'
      BY <3>1, <3>a, <3>b, <3>c, <3>d, <3>e, <3>f, <1>t DEF Cloud!GoneIsGone,
         Cloud!EnrolledApart, Cloud!Gone
    <3>10. Cloud!OriginsRun'
      BY <3>1, <3>a, <3>b, <3>c, <3>d, <3>e, <3>f, <1>t DEF Cloud!OriginsRun,
         Cloud!EnrolledApart, Cloud!Unjoined
    <3>11. Cloud!InstancesAreTracked'
      BY <3>1, <3>a, <3>b, <3>c, <3>d, <3>e, <3>f, <1>t DEF Cloud!InstancesAreTracked,
         Cloud!RefsPinned, Cloud!EnrolledApart, Cloud!Gone
    <3> QED BY <3>2, <3>3, <3>4, <3>5, <3>6, <3>7, <3>8, <3>9, <3>10, <3>11
  <2>2. CASE ~ok
    <3>1. /\ targets[t].status \notin Cloud!Gone /\ direct' = (direct \/ ok)
          /\ running' = running
          /\ cloudFaults' = IF targets[t].ref = 0 THEN cloudFaults ELSE cloudFaults + 1
          /\ overlapped' = (overlapped \/ Cloud!Busy(t))
          /\ targets' = [targets EXCEPT ![t] = [targets[t] EXCEPT !.status = "error"]]
          /\ UNCHANGED <<created, req, attack, siteLock, targetLock, op, origins, siteDeploy,
              orphan, lateJoin>>
      BY <2>2, <1>1, Zenon DEF Cloud!InstanceTerminateView, Cloud!Terminable, Cloud!Terminated,
         Cloud!Set, Cloud!Fault
    <3>a. t \in DOMAIN targets /\ targets[t] \in Cloud!Target
      BY <3>1, <1>t DEF Cloud!Ops
    <3>b. /\ [targets[t] EXCEPT !.status = "error"] \in Cloud!Target
          /\ [targets[t] EXCEPT !.status = "error"].status = "error"
          /\ [targets[t] EXCEPT !.status = "error"].ref = targets[t].ref
          /\ [targets[t] EXCEPT !.status = "error"].pinned = targets[t].pinned
          /\ [targets[t] EXCEPT !.status = "error"].copy = targets[t].copy
      BY <3>a DEF Cloud!Target
    <3>c. /\ targets' \in Seq(Cloud!Target) /\ DOMAIN targets' = DOMAIN targets
          /\ targets'[t] = [targets[t] EXCEPT !.status = "error"]
          /\ \A u \in DOMAIN targets : u # t => targets'[u] = targets[u]
      BY <3>1, <3>a, <3>b, <1>t, SetRow
    <3>d. /\ overlapped' \in BOOLEAN
          /\ (~overlapped' => ~overlapped /\ \A q \in Requests : req[q].at # "idle" =>
               req[q].row # t)
      BY <3>1, Zenon DEF Cloud!Busy, Cloud!TypeOK
    <3>e. cloudFaults' \in Nat /\ (cloudFaults' = 0 => cloudFaults = 0)
      BY <3>1, <1>t
    <3>f. \A u \in DOMAIN targets : targets'[u].ref = targets[u].ref
              /\ targets'[u].pinned = targets[u].pinned
              /\ (targets[u].status \notin Cloud!Gone => targets'[u].status \notin Cloud!Gone)
      BY <3>1, <3>a, <3>b, <3>c DEF Cloud!Gone
    <3>g. direct' = direct
      BY <3>1, <2>2, Zenon DEF Cloud!TypeOK
    <3>2. Cloud!TypeOK'
      BY <3>1, <3>a, <3>b, <3>c, <3>d, <3>e, <3>f, <3>g, <1>t DEF Cloud!TypeOK, Cloud!Ops
    <3>3. Cloud!LocksHeld'
      BY <3>1, <3>a, <3>b, <3>c, <3>d, <3>e, <3>f, <3>g, <1>t DEF Cloud!LocksHeld
    <3>4. Cloud!Unjoined'
      BY <3>1, <3>a, <3>b, <3>c, <3>d, <3>e, <3>f, <3>g, <1>t DEF Cloud!Unjoined,
         Cloud!LocksHeld
    <3>5. Cloud!EnrolledApart'
      BY <3>1, <3>a, <3>b, <3>c, <3>d, <3>e, <3>f, <3>g, <1>t DEF Cloud!EnrolledApart,
         Cloud!Gone
    <3>6. Cloud!RefsPinned'
      BY <3>1, <3>a, <3>b, <3>c, <3>d, <3>e, <3>f, <3>g, <1>t DEF Cloud!RefsPinned,
         Cloud!EnrolledApart
    <3>7. Cloud!CopiesRun'
      BY <3>1, <3>a, <3>b, <3>c, <3>d, <3>e, <3>f, <3>g, <1>t DEF Cloud!CopiesRun,
         Cloud!EnrolledApart
    <3>8. Cloud!JoinChecked'
      BY <3>1, <3>a, <3>b, <3>c, <3>d, <3>e, <3>f, <3>g, <1>t DEF Cloud!JoinChecked,
         Cloud!EnrolledApart, Cloud!Gone
    <3>9. Cloud!GoneIsGone'
      BY <3>1, <3>a, <3>b, <3>c, <3>d, <3>e, <3>f, <3>g, <1>t DEF Cloud!GoneIsGone,
         Cloud!EnrolledApart, Cloud!Gone
    <3>10. Cloud!OriginsRun'
      BY <3>1, <3>a, <3>b, <3>c, <3>d, <3>e, <3>f, <3>g, <1>t DEF Cloud!OriginsRun,
         Cloud!EnrolledApart, Cloud!Unjoined
    <3>11. Cloud!InstancesAreTracked'
      BY <3>1, <3>c, <3>d, <3>e, <3>f DEF Cloud!InstancesAreTracked
    <3> QED BY <3>2, <3>3, <3>4, <3>5, <3>6, <3>7, <3>8, <3>9, <3>10, <3>11
  <2> QED BY <2>1, <2>2
<1>2. ASSUME NEW t \in DOMAIN targets, NEW ok \in BOOLEAN, Cloud!TargetDeleteView(t, ok)
      PROVE  /\ Cloud!TypeOK' /\ Cloud!LocksHeld' /\ Cloud!Unjoined' /\ Cloud!EnrolledApart'
             /\ Cloud!RefsPinned' /\ Cloud!CopiesRun' /\ Cloud!JoinChecked' /\ Cloud!GoneIsGone'
             /\ Cloud!OriginsRun' /\ Cloud!InstancesAreTracked'
  <2>1. CASE ok /\ targets[t].status = "decommissioned"
    <3>1. /\ targets[t].status = "decommissioned" /\ direct' = TRUE
          /\ cloudFaults' = cloudFaults
          /\ running' = running
          /\ overlapped' = (overlapped \/ Cloud!Busy(t))
          /\ targets' = [targets EXCEPT ![t] = [targets[t] EXCEPT !.status = "deleted"]]
          /\ UNCHANGED <<created, req, attack, siteLock, targetLock, op, origins, siteDeploy,
              orphan, lateJoin>>
      BY <2>1, <1>2, Zenon DEF Cloud!TargetDeleteView, Cloud!Terminable, Cloud!Terminated,
         Cloud!Set, Cloud!Fault
    <3>a. t \in DOMAIN targets /\ targets[t] \in Cloud!Target
      BY <3>1, <1>t DEF Cloud!Ops
    <3>b. /\ [targets[t] EXCEPT !.status = "deleted"] \in Cloud!Target
          /\ [targets[t] EXCEPT !.status = "deleted"].status = "deleted"
          /\ [targets[t] EXCEPT !.status = "deleted"].ref = targets[t].ref
          /\ [targets[t] EXCEPT !.status = "deleted"].pinned = targets[t].pinned
          /\ [targets[t] EXCEPT !.status = "deleted"].copy = targets[t].copy
      BY <3>a DEF Cloud!Target
    <3>c. /\ targets' \in Seq(Cloud!Target) /\ DOMAIN targets' = DOMAIN targets
          /\ targets'[t] = [targets[t] EXCEPT !.status = "deleted"]
          /\ \A u \in DOMAIN targets : u # t => targets'[u] = targets[u]
      BY <3>1, <3>a, <3>b, <1>t, SetRow
    <3>d. /\ overlapped' \in BOOLEAN
          /\ (~overlapped' => ~overlapped /\ \A q \in Requests : req[q].at # "idle" =>
               req[q].row # t)
      BY <3>1, Zenon DEF Cloud!Busy, Cloud!TypeOK
    <3>2. Cloud!TypeOK'
      BY <3>1, <3>a, <3>b, <3>c, <3>d, <1>t DEF Cloud!TypeOK, Cloud!Ops
    <3>3. Cloud!LocksHeld'
      BY <3>1, <3>a, <3>b, <3>c, <3>d, <1>t DEF Cloud!LocksHeld
    <3>4. Cloud!Unjoined'
      BY <3>1, <3>a, <3>b, <3>c, <3>d, <1>t DEF Cloud!Unjoined, Cloud!LocksHeld
    <3>5. Cloud!EnrolledApart'
      BY <3>1, <3>a, <3>b, <3>c, <3>d, <1>t DEF Cloud!EnrolledApart, Cloud!Gone
    <3>6. Cloud!RefsPinned'
      BY <3>1, <3>a, <3>b, <3>c, <3>d, <1>t DEF Cloud!RefsPinned, Cloud!EnrolledApart
    <3>7. Cloud!CopiesRun'
      BY <3>1, <3>a, <3>b, <3>c, <3>d, <1>t DEF Cloud!CopiesRun, Cloud!EnrolledApart
    <3>8. Cloud!JoinChecked'
      BY <3>1, <3>a, <3>b, <3>c, <3>d, <1>t DEF Cloud!JoinChecked, Cloud!EnrolledApart,
         Cloud!Gone
    <3>9. Cloud!GoneIsGone'
      BY <3>1, <3>a, <3>b, <3>c, <3>d, <1>t DEF Cloud!GoneIsGone, Cloud!EnrolledApart,
         Cloud!Gone
    <3>10. Cloud!OriginsRun'
      BY <3>1, <3>a, <3>b, <3>c, <3>d, <1>t DEF Cloud!OriginsRun, Cloud!EnrolledApart,
         Cloud!Unjoined
    <3>11. Cloud!InstancesAreTracked'
      BY <3>1, <3>a, <3>b, <3>c, <3>d, <1>t DEF Cloud!InstancesAreTracked, Cloud!RefsPinned,
         Cloud!EnrolledApart, Cloud!Gone
    <3> QED BY <3>2, <3>3, <3>4, <3>5, <3>6, <3>7, <3>8, <3>9, <3>10, <3>11
  <2>2. CASE ok /\ targets[t].status # "decommissioned"
    <3>1. /\ targets[t].status # "decommissioned" /\ direct' = TRUE
          /\ cloudFaults' = cloudFaults
          /\ running' = running \ {targets[t].ref}
          /\ overlapped' = (overlapped \/ Cloud!Busy(t))
          /\ targets' = [targets EXCEPT ![t] = [targets[t] EXCEPT !.status = "deleted"]]
          /\ UNCHANGED <<created, req, attack, siteLock, targetLock, op, origins, siteDeploy,
              orphan, lateJoin>>
      BY <2>2, <1>2, Zenon DEF Cloud!TargetDeleteView, Cloud!Terminable, Cloud!Terminated,
         Cloud!Set, Cloud!Fault
    <3>a. t \in DOMAIN targets /\ targets[t] \in Cloud!Target
      BY <3>1, <1>t DEF Cloud!Ops
    <3>b. /\ [targets[t] EXCEPT !.status = "deleted"] \in Cloud!Target
          /\ [targets[t] EXCEPT !.status = "deleted"].status = "deleted"
          /\ [targets[t] EXCEPT !.status = "deleted"].ref = targets[t].ref
          /\ [targets[t] EXCEPT !.status = "deleted"].pinned = targets[t].pinned
          /\ [targets[t] EXCEPT !.status = "deleted"].copy = targets[t].copy
      BY <3>a DEF Cloud!Target
    <3>c. /\ targets' \in Seq(Cloud!Target) /\ DOMAIN targets' = DOMAIN targets
          /\ targets'[t] = [targets[t] EXCEPT !.status = "deleted"]
          /\ \A u \in DOMAIN targets : u # t => targets'[u] = targets[u]
      BY <3>1, <3>a, <3>b, <1>t, SetRow
    <3>d. /\ overlapped' \in BOOLEAN
          /\ (~overlapped' => ~overlapped /\ \A q \in Requests : req[q].at # "idle" =>
               req[q].row # t)
      BY <3>1, Zenon DEF Cloud!Busy, Cloud!TypeOK
    <3>e. ~overlapped' => \A q \in Requests : req[q].at \in {"ref", "pin",
              "provision"} => req[q].inst # targets[t].ref
      BY <3>1, <3>a, <3>d, <1>t DEF Cloud!EnrolledApart
    <3>f. \A u \in DOMAIN targets : targets'[u].ref = targets[u].ref
              /\ targets'[u].pinned = targets[u].pinned
      BY <3>1, <3>a, <3>b, <3>c
    <3>2. Cloud!TypeOK'
      BY <3>1, <3>a, <3>b, <3>c, <3>d, <3>e, <3>f, <1>t DEF Cloud!TypeOK, Cloud!Ops
    <3>3. Cloud!LocksHeld'
      BY <3>1, <3>a, <3>b, <3>c, <3>d, <3>e, <3>f, <1>t DEF Cloud!LocksHeld
    <3>4. Cloud!Unjoined'
      BY <3>1, <3>a, <3>b, <3>c, <3>d, <3>e, <3>f, <1>t DEF Cloud!Unjoined, Cloud!LocksHeld
    <3>5. Cloud!EnrolledApart'
      BY <3>1, <3>a, <3>b, <3>c, <3>d, <3>e, <3>f, <1>t DEF Cloud!EnrolledApart, Cloud!Gone
    <3>6. Cloud!RefsPinned'
      BY <3>1, <3>a, <3>b, <3>c, <3>d, <3>e, <3>f, <1>t DEF Cloud!RefsPinned,
         Cloud!EnrolledApart
    <3>7. Cloud!CopiesRun'
      BY <3>1, <3>a, <3>b, <3>c, <3>d, <3>e, <3>f, <1>t DEF Cloud!CopiesRun, Cloud!EnrolledApart
    <3>8. Cloud!JoinChecked'
      BY <3>1, <3>a, <3>b, <3>c, <3>d, <3>e, <3>f, <1>t DEF Cloud!JoinChecked,
         Cloud!EnrolledApart, Cloud!Gone
    <3>9. Cloud!GoneIsGone'
      BY <3>1, <3>a, <3>b, <3>c, <3>d, <3>e, <3>f, <1>t DEF Cloud!GoneIsGone,
         Cloud!EnrolledApart, Cloud!Gone
    <3>10. Cloud!OriginsRun'
      BY <3>1, <3>a, <3>b, <3>c, <3>d, <3>e, <3>f, <1>t DEF Cloud!OriginsRun,
         Cloud!EnrolledApart, Cloud!Unjoined
    <3>11. Cloud!InstancesAreTracked'
      BY <3>1, <3>a, <3>b, <3>c, <3>d, <3>e, <3>f, <1>t DEF Cloud!InstancesAreTracked,
         Cloud!RefsPinned, Cloud!EnrolledApart, Cloud!Gone
    <3> QED BY <3>2, <3>3, <3>4, <3>5, <3>6, <3>7, <3>8, <3>9, <3>10, <3>11
  <2>3. CASE ~ok
    <3>1. /\ targets[t].status \notin Cloud!Gone
          /\ direct' = (direct \/ ok) /\ running' = running
          /\ cloudFaults' = IF targets[t].ref = 0 THEN cloudFaults ELSE cloudFaults + 1
          /\ overlapped' = (overlapped \/ Cloud!Busy(t))
          /\ targets' = [targets EXCEPT ![t] = [targets[t] EXCEPT !.status = "error"]]
          /\ UNCHANGED <<created, req, attack, siteLock, targetLock, op, origins, siteDeploy,
              orphan, lateJoin>>
      BY <2>3, <1>2, Zenon DEF Cloud!Gone, Cloud!TargetDeleteView, Cloud!Terminable,
         Cloud!Terminated, Cloud!Set, Cloud!Fault
    <3>a. t \in DOMAIN targets /\ targets[t] \in Cloud!Target
      BY <3>1, <1>t DEF Cloud!Ops
    <3>b. /\ [targets[t] EXCEPT !.status = "error"] \in Cloud!Target
          /\ [targets[t] EXCEPT !.status = "error"].status = "error"
          /\ [targets[t] EXCEPT !.status = "error"].ref = targets[t].ref
          /\ [targets[t] EXCEPT !.status = "error"].pinned = targets[t].pinned
          /\ [targets[t] EXCEPT !.status = "error"].copy = targets[t].copy
      BY <3>a DEF Cloud!Target
    <3>c. /\ targets' \in Seq(Cloud!Target) /\ DOMAIN targets' = DOMAIN targets
          /\ targets'[t] = [targets[t] EXCEPT !.status = "error"]
          /\ \A u \in DOMAIN targets : u # t => targets'[u] = targets[u]
      BY <3>1, <3>a, <3>b, <1>t, SetRow
    <3>d. /\ overlapped' \in BOOLEAN
          /\ (~overlapped' => ~overlapped /\ \A q \in Requests : req[q].at # "idle" =>
               req[q].row # t)
      BY <3>1, Zenon DEF Cloud!Busy, Cloud!TypeOK
    <3>e. cloudFaults' \in Nat /\ (cloudFaults' = 0 => cloudFaults = 0)
      BY <3>1, <1>t
    <3>f. \A u \in DOMAIN targets : targets'[u].ref = targets[u].ref
              /\ targets'[u].pinned = targets[u].pinned
              /\ (targets[u].status \notin Cloud!Gone => targets'[u].status \notin Cloud!Gone)
      BY <3>1, <3>a, <3>b, <3>c DEF Cloud!Gone
    <3>g. direct' = direct
      BY <3>1, <2>3, Zenon DEF Cloud!TypeOK
    <3>2. Cloud!TypeOK'
      BY <3>1, <3>a, <3>b, <3>c, <3>d, <3>e, <3>f, <3>g, <1>t DEF Cloud!TypeOK, Cloud!Ops
    <3>3. Cloud!LocksHeld'
      BY <3>1, <3>a, <3>b, <3>c, <3>d, <3>e, <3>f, <3>g, <1>t DEF Cloud!LocksHeld
    <3>4. Cloud!Unjoined'
      BY <3>1, <3>a, <3>b, <3>c, <3>d, <3>e, <3>f, <3>g, <1>t DEF Cloud!Unjoined,
         Cloud!LocksHeld
    <3>5. Cloud!EnrolledApart'
      BY <3>1, <3>a, <3>b, <3>c, <3>d, <3>e, <3>f, <3>g, <1>t DEF Cloud!EnrolledApart,
         Cloud!Gone
    <3>6. Cloud!RefsPinned'
      BY <3>1, <3>a, <3>b, <3>c, <3>d, <3>e, <3>f, <3>g, <1>t DEF Cloud!RefsPinned,
         Cloud!EnrolledApart
    <3>7. Cloud!CopiesRun'
      BY <3>1, <3>a, <3>b, <3>c, <3>d, <3>e, <3>f, <3>g, <1>t DEF Cloud!CopiesRun,
         Cloud!EnrolledApart
    <3>8. Cloud!JoinChecked'
      BY <3>1, <3>a, <3>b, <3>c, <3>d, <3>e, <3>f, <3>g, <1>t DEF Cloud!JoinChecked,
         Cloud!EnrolledApart, Cloud!Gone
    <3>9. Cloud!GoneIsGone'
      BY <3>1, <3>a, <3>b, <3>c, <3>d, <3>e, <3>f, <3>g, <1>t DEF Cloud!GoneIsGone,
         Cloud!EnrolledApart, Cloud!Gone
    <3>10. Cloud!OriginsRun'
      BY <3>1, <3>a, <3>b, <3>c, <3>d, <3>e, <3>f, <3>g, <1>t DEF Cloud!OriginsRun,
         Cloud!EnrolledApart, Cloud!Unjoined
    <3>11. Cloud!InstancesAreTracked'
      BY <3>1, <3>c, <3>d, <3>e, <3>f DEF Cloud!InstancesAreTracked
    <3> QED BY <3>2, <3>3, <3>4, <3>5, <3>6, <3>7, <3>8, <3>9, <3>10, <3>11
  <2> QED BY <2>1, <2>2, <2>3
<1>3. ASSUME NEW ok \in BOOLEAN, Cloud!ScaleInTerminate(ok)
      PROVE  /\ Cloud!TypeOK' /\ Cloud!LocksHeld' /\ Cloud!Unjoined' /\ Cloud!EnrolledApart'
             /\ Cloud!RefsPinned' /\ Cloud!CopiesRun' /\ Cloud!JoinChecked' /\ Cloud!GoneIsGone'
             /\ Cloud!OriginsRun' /\ Cloud!InstancesAreTracked'
  <2>1. CASE ok \/ targets[op["scalein"].t].status \in Cloud!Gone
    <3> DEFINE gone == [targets[op["scalein"].t] EXCEPT
                   !.status = IF targets[op["scalein"].t].status = "deleted" THEN targets[op["scalein"].t].status ELSE "decommissioned",
                   !.copy = IF targets[op["scalein"].t].copy = "none" THEN targets[op["scalein"].t].copy ELSE "absent"]
    <3>1. /\ op["scalein"].at = "terminate"
          /\ siteLock' = "free" /\ targetLock' = "free"
          /\ op' = [op EXCEPT !["scalein"] = [at |-> "idle", t |-> 0]]
          /\ overlapped' = (overlapped \/ Cloud!Busy(op["scalein"].t))
          /\ UNCHANGED <<created, req, cloudFaults, attack, origins, siteDeploy, orphan,
              direct, lateJoin>>
          /\ running' = running \ {targets[op["scalein"].t].ref}
          /\ targets' = [targets EXCEPT ![op["scalein"].t] = gone]
      BY <2>1, <1>3, Zenon DEF Cloud!ScaleInTerminate, Cloud!Unlock, Cloud!Leave, Cloud!NoOp,
         Cloud!Set, Cloud!Terminated
    <3>a. op["scalein"].t \in DOMAIN targets /\ targets[op["scalein"].t] \in Cloud!Target
      BY <3>1, <1>t DEF Cloud!Ops
    <3>b. /\ gone \in Cloud!Target
          /\ gone.status = (IF targets[op["scalein"].t].status = "deleted" THEN targets[op["scalein"].t].status ELSE "decommissioned")
          /\ gone.ref = targets[op["scalein"].t].ref
          /\ gone.pinned = targets[op["scalein"].t].pinned
          /\ gone.copy = (IF targets[op["scalein"].t].copy = "none" THEN targets[op["scalein"].t].copy ELSE "absent")
      BY <3>a DEF Cloud!Target
    <3> HIDE DEF gone
    <3>c. /\ targets' \in Seq(Cloud!Target) /\ DOMAIN targets' = DOMAIN targets
          /\ targets'[op["scalein"].t] = gone
          /\ \A u \in DOMAIN targets : u # op["scalein"].t => targets'[u] = targets[u]
      BY <3>1, <3>a, <3>b, <1>t, SetRow
    <3>d. /\ overlapped' \in BOOLEAN
          /\ (~overlapped' => ~overlapped /\ \A q \in Requests : req[q].at # "idle" =>
               req[q].row # op["scalein"].t)
      BY <3>1, Zenon DEF Cloud!Busy, Cloud!TypeOK
    <3>e. /\ origins \subseteq DOMAIN targets
          /\ (op["join"].at # "idle" => op["join"].t \in DOMAIN targets)
      BY <1>t DEF Cloud!TypeOK, Cloud!Ops
    <3>2. Cloud!TypeOK'
      BY <3>1, <3>a, <3>b, <3>c, <3>d, <3>e, <1>t DEF Cloud!TypeOK, Cloud!Ops
    <3>3. Cloud!LocksHeld'
      BY <3>1, <3>a, <3>b, <3>c, <3>d, <3>e, <1>t DEF Cloud!LocksHeld, Cloud!Ops
    <3>4. Cloud!Unjoined'
      BY <3>1, <3>a, <3>b, <3>c, <3>d, <3>e, <1>t DEF Cloud!Unjoined, Cloud!Ops
    <3>5. Cloud!EnrolledApart'
      <4>1. \A u \in DOMAIN targets : targets'[u].ref = targets[u].ref /\ targets'[u].pinned = targets[u].pinned
        BY <3>a, <3>b, <3>c
      <4>2. \A q \in Requests : req[q].at # "idle" /\ ~overlapped' =>
                req[q].row \in DOMAIN targets /\ targets'[req[q].row] = targets[req[q].row]
        BY <3>c, <3>d, <1>t
      <4>3. \A q \in Requests : req[q].at \in {"ref", "pin", "provision"} /\ ~overlapped' =>
                req[q].inst # targets[op["scalein"].t].ref
        <5> SUFFICES ASSUME NEW q \in Requests, req[q].at \in {"ref", "pin", "provision"}, ~overlapped'
                     PROVE  req[q].inst # targets[op["scalein"].t].ref
          OBVIOUS
        <5>1. CASE req[q].at = "ref"
          BY <3>a, <3>d, <5>1 DEF Cloud!EnrolledApart
        <5>2. CASE req[q].at \in {"pin", "provision"}
          <6>1. req[q].inst # 0 /\ req[q].row # op["scalein"].t /\ req[q].row \in DOMAIN targets
            BY <1>t, <3>d, <5>2
          <6>2. targets[req[q].row].ref = req[q].inst
            BY <3>d, <5>2 DEF Cloud!EnrolledApart
          <6> QED BY <3>a, <3>d, <6>1, <6>2 DEF Cloud!EnrolledApart
        <5> QED BY <5>1, <5>2
      <4>4. req' = req /\ running' = running \ {targets[op["scalein"].t].ref} /\ DOMAIN targets' = DOMAIN targets
        BY <3>1, <3>c
      <4> QED BY <3>d, <4>1, <4>2, <4>3, <4>4 DEF Cloud!EnrolledApart, Cloud!Gone
    <3>6. Cloud!RefsPinned'
      BY <3>1, <3>a, <3>b, <3>c, <3>d, <3>e, <1>t DEF Cloud!RefsPinned, Cloud!EnrolledApart
    <3>7. Cloud!CopiesRun'
      BY <3>1, <3>a, <3>b, <3>c, <3>d, <3>e, <1>t DEF Cloud!CopiesRun, Cloud!EnrolledApart
    <3>8. Cloud!JoinChecked'
      BY <3>1, <3>a, <3>b, <3>c, <3>d, <3>e, <1>t DEF Cloud!JoinChecked, Cloud!EnrolledApart,
         Cloud!Gone, Cloud!Ops
    <3>9. Cloud!GoneIsGone'
      BY <3>1, <3>a, <3>b, <3>c, <3>d, <3>e, <1>t DEF Cloud!GoneIsGone, Cloud!EnrolledApart,
         Cloud!Gone
    <3>10. Cloud!OriginsRun'
      BY <3>1, <3>a, <3>b, <3>c, <3>d, <3>e, <1>t DEF Cloud!OriginsRun, Cloud!EnrolledApart,
         Cloud!Unjoined
    <3>11. Cloud!InstancesAreTracked'
      BY <3>1, <3>a, <3>b, <3>c, <3>d, <3>e, <1>t DEF Cloud!InstancesAreTracked,
         Cloud!RefsPinned, Cloud!EnrolledApart, Cloud!Gone
    <3> QED BY <3>2, <3>3, <3>4, <3>5, <3>6, <3>7, <3>8, <3>9, <3>10, <3>11
  <2>2. CASE ~(ok \/ targets[op["scalein"].t].status \in Cloud!Gone)
    <3>1. /\ op["scalein"].at = "terminate"
          /\ siteLock' = "free" /\ targetLock' = "free"
          /\ op' = [op EXCEPT !["scalein"] = [at |-> "idle", t |-> 0]]
          /\ overlapped' = (overlapped \/ Cloud!Busy(op["scalein"].t))
          /\ UNCHANGED <<created, req, cloudFaults, attack, origins, siteDeploy, orphan,
              direct, lateJoin>>
          /\ running' = running
          /\ targets[op["scalein"].t].status \notin Cloud!Gone
          /\ targets' = [targets EXCEPT ![op["scalein"].t] = [targets[op["scalein"].t] EXCEPT !.status = "error"]]
      BY <2>2, <1>3, Zenon DEF Cloud!ScaleInTerminate, Cloud!Unlock, Cloud!Leave, Cloud!NoOp,
         Cloud!Set, Cloud!Terminated
    <3>a. op["scalein"].t \in DOMAIN targets /\ targets[op["scalein"].t] \in Cloud!Target
      BY <3>1, <1>t DEF Cloud!Ops
    <3>b. /\ [targets[op["scalein"].t] EXCEPT !.status = "error"] \in Cloud!Target
          /\ [targets[op["scalein"].t] EXCEPT !.status = "error"].status = "error"
          /\ [targets[op["scalein"].t] EXCEPT !.status = "error"].ref = targets[op["scalein"].t].ref
          /\ [targets[op["scalein"].t] EXCEPT !.status = "error"].pinned = targets[op["scalein"].t].pinned
          /\ [targets[op["scalein"].t] EXCEPT !.status = "error"].copy = targets[op["scalein"].t].copy
      BY <3>a DEF Cloud!Target
    <3>c. /\ targets' \in Seq(Cloud!Target) /\ DOMAIN targets' = DOMAIN targets
          /\ targets'[op["scalein"].t] = [targets[op["scalein"].t] EXCEPT !.status = "error"]
          /\ \A u \in DOMAIN targets : u # op["scalein"].t => targets'[u] = targets[u]
      BY <3>1, <3>a, <3>b, <1>t, SetRow
    <3>d. /\ overlapped' \in BOOLEAN
          /\ (~overlapped' => ~overlapped /\ \A q \in Requests : req[q].at # "idle" =>
               req[q].row # op["scalein"].t)
      BY <3>1, Zenon DEF Cloud!Busy, Cloud!TypeOK
    <3>e. /\ origins \subseteq DOMAIN targets
          /\ (op["join"].at # "idle" => op["join"].t \in DOMAIN targets)
      BY <1>t DEF Cloud!TypeOK, Cloud!Ops
    <3>2. Cloud!TypeOK'
      BY <3>1, <3>a, <3>b, <3>c, <3>d, <3>e, <1>t DEF Cloud!TypeOK, Cloud!Ops
    <3>3. Cloud!LocksHeld'
      BY <3>1, <3>a, <3>b, <3>c, <3>d, <3>e, <1>t DEF Cloud!LocksHeld, Cloud!Ops
    <3>4. Cloud!Unjoined'
      BY <3>1, <3>a, <3>b, <3>c, <3>d, <3>e, <1>t DEF Cloud!Unjoined, Cloud!Ops
    <3>5. Cloud!EnrolledApart'
      BY <3>1, <3>a, <3>b, <3>c, <3>d, <3>e, <1>t DEF Cloud!EnrolledApart, Cloud!Gone
    <3>6. Cloud!RefsPinned'
      BY <3>1, <3>a, <3>b, <3>c, <3>d, <3>e, <1>t DEF Cloud!RefsPinned, Cloud!EnrolledApart
    <3>7. Cloud!CopiesRun'
      BY <3>1, <3>a, <3>b, <3>c, <3>d, <3>e, <1>t DEF Cloud!CopiesRun, Cloud!EnrolledApart
    <3>8. Cloud!JoinChecked'
      BY <3>1, <3>a, <3>b, <3>c, <3>d, <3>e, <1>t DEF Cloud!JoinChecked, Cloud!EnrolledApart,
         Cloud!Gone, Cloud!Ops
    <3>9. Cloud!GoneIsGone'
      BY <3>1, <3>a, <3>b, <3>c, <3>d, <3>e, <1>t DEF Cloud!GoneIsGone, Cloud!EnrolledApart,
         Cloud!Gone
    <3>10. Cloud!OriginsRun'
      BY <3>1, <3>a, <3>b, <3>c, <3>d, <3>e, <1>t DEF Cloud!OriginsRun, Cloud!EnrolledApart,
         Cloud!Unjoined
    <3>11. Cloud!InstancesAreTracked'
      BY <3>1, <3>a, <3>b, <3>c, <3>d, <3>e, <1>t DEF Cloud!InstancesAreTracked,
         Cloud!RefsPinned, Cloud!EnrolledApart, Cloud!Gone
    <3> QED BY <3>2, <3>3, <3>4, <3>5, <3>6, <3>7, <3>8, <3>9, <3>10, <3>11
  <2> QED BY <2>1, <2>2
<1>4. ASSUME NEW ok \in BOOLEAN, Cloud!EndOverflow(ok)
      PROVE  /\ Cloud!TypeOK' /\ Cloud!LocksHeld' /\ Cloud!Unjoined' /\ Cloud!EnrolledApart'
             /\ Cloud!RefsPinned' /\ Cloud!CopiesRun' /\ Cloud!JoinChecked' /\ Cloud!GoneIsGone'
             /\ Cloud!OriginsRun' /\ Cloud!InstancesAreTracked'
  <2>1. CASE ok
    <3>1. /\ op["deploy"].at = "locked"
          /\ siteLock' = "free" /\ targetLock' = "free"
          /\ op' = [op EXCEPT !["deploy"] = [at |-> "idle", t |-> 0]]
          /\ UNCHANGED <<running, created, req, cloudFaults, overlapped, attack, origins,
              siteDeploy, orphan, direct, lateJoin>>
          /\ targets[op["deploy"].t].ref \in running
          /\ targets' = [targets EXCEPT ![op["deploy"].t] = [targets[op["deploy"].t] EXCEPT !.copy = "running"]]
      BY <2>1, <1>4, Zenon DEF Cloud!EndOverflow, Cloud!Leave, Cloud!NoOp, Cloud!Set
    <3>a. op["deploy"].t \in DOMAIN targets /\ targets[op["deploy"].t] \in Cloud!Target
      BY <3>1, <1>t DEF Cloud!Ops
    <3>b. /\ [targets[op["deploy"].t] EXCEPT !.copy = "running"] \in Cloud!Target
          /\ [targets[op["deploy"].t] EXCEPT !.copy = "running"].status = targets[op["deploy"].t].status
          /\ [targets[op["deploy"].t] EXCEPT !.copy = "running"].ref = targets[op["deploy"].t].ref
          /\ [targets[op["deploy"].t] EXCEPT !.copy = "running"].pinned = targets[op["deploy"].t].pinned
          /\ [targets[op["deploy"].t] EXCEPT !.copy = "running"].copy = "running"
      BY <3>a DEF Cloud!Target
    <3>c. /\ targets' \in Seq(Cloud!Target) /\ DOMAIN targets' = DOMAIN targets
          /\ targets'[op["deploy"].t] = [targets[op["deploy"].t] EXCEPT !.copy = "running"]
          /\ \A u \in DOMAIN targets : u # op["deploy"].t => targets'[u] = targets[u]
      BY <3>1, <3>a, <3>b, <1>t, SetRow
    <3>d. /\ origins \subseteq DOMAIN targets
          /\ (op["join"].at # "idle" => op["join"].t \in DOMAIN targets)
      BY <1>t DEF Cloud!TypeOK, Cloud!Ops
    <3>e. \A u \in DOMAIN targets : targets'[u].ref = targets[u].ref
              /\ targets'[u].pinned = targets[u].pinned
              /\ (targets[u].status \notin Cloud!Gone => targets'[u].status \notin Cloud!Gone)
      BY <3>1, <3>a, <3>b, <3>c DEF Cloud!Gone
    <3>2. Cloud!TypeOK'
      BY <3>1, <3>a, <3>b, <3>c, <3>d, <3>e, <1>t DEF Cloud!TypeOK, Cloud!Ops
    <3>3. Cloud!LocksHeld'
      BY <3>1, <3>a, <3>b, <3>c, <3>d, <3>e, <1>t DEF Cloud!LocksHeld, Cloud!Ops
    <3>4. Cloud!Unjoined'
      BY <3>1, <3>a, <3>b, <3>c, <3>d, <3>e, <1>t DEF Cloud!Unjoined, Cloud!Ops
    <3>5. Cloud!EnrolledApart'
      BY <3>1, <3>a, <3>b, <3>c, <3>d, <3>e, <1>t DEF Cloud!EnrolledApart, Cloud!Gone
    <3>6. Cloud!RefsPinned'
      BY <3>1, <3>a, <3>b, <3>c, <3>d, <3>e, <1>t DEF Cloud!RefsPinned, Cloud!EnrolledApart
    <3>7. Cloud!CopiesRun'
      BY <3>1, <3>a, <3>b, <3>c, <3>d, <3>e, <1>t DEF Cloud!CopiesRun, Cloud!EnrolledApart
    <3>8. Cloud!JoinChecked'
      BY <3>1, <3>a, <3>b, <3>c, <3>d, <3>e, <1>t DEF Cloud!JoinChecked, Cloud!EnrolledApart,
         Cloud!Gone, Cloud!Ops
    <3>9. Cloud!GoneIsGone'
      BY <3>1, <3>a, <3>b, <3>c, <3>d, <3>e, <1>t DEF Cloud!GoneIsGone, Cloud!EnrolledApart,
         Cloud!Gone
    <3>10. Cloud!OriginsRun'
      BY <3>1, <3>a, <3>b, <3>c, <3>d, <3>e, <1>t DEF Cloud!OriginsRun, Cloud!EnrolledApart,
         Cloud!Unjoined
    <3>11. Cloud!InstancesAreTracked'
      BY <3>1, <3>a, <3>b, <3>c, <3>d, <3>e, <1>t DEF Cloud!InstancesAreTracked,
         Cloud!RefsPinned, Cloud!EnrolledApart, Cloud!Gone
    <3> QED BY <3>2, <3>3, <3>4, <3>5, <3>6, <3>7, <3>8, <3>9, <3>10, <3>11
  <2>2. CASE ~ok
    <3>1. /\ op["deploy"].at = "locked"
          /\ siteLock' = "free" /\ targetLock' = "free"
          /\ op' = [op EXCEPT !["deploy"] = [at |-> "idle", t |-> 0]]
          /\ UNCHANGED <<running, created, req, cloudFaults, overlapped, attack, origins,
              siteDeploy, orphan, direct, lateJoin>>
          /\ targets' = [targets EXCEPT ![op["deploy"].t] = [targets[op["deploy"].t] EXCEPT !.copy = targets[op["deploy"].t].copy]]
      BY <2>2, <1>4, Zenon DEF Cloud!EndOverflow, Cloud!Leave, Cloud!NoOp, Cloud!Set
    <3>a. op["deploy"].t \in DOMAIN targets /\ targets[op["deploy"].t] \in Cloud!Target
      BY <3>1, <1>t DEF Cloud!Ops
    <3>b. /\ [targets[op["deploy"].t] EXCEPT !.copy = targets[op["deploy"].t].copy] \in Cloud!Target
          /\ [targets[op["deploy"].t] EXCEPT !.copy = targets[op["deploy"].t].copy].status = targets[op["deploy"].t].status
          /\ [targets[op["deploy"].t] EXCEPT !.copy = targets[op["deploy"].t].copy].ref = targets[op["deploy"].t].ref
          /\ [targets[op["deploy"].t] EXCEPT !.copy = targets[op["deploy"].t].copy].pinned = targets[op["deploy"].t].pinned
          /\ [targets[op["deploy"].t] EXCEPT !.copy = targets[op["deploy"].t].copy].copy = targets[op["deploy"].t].copy
      BY <3>a DEF Cloud!Target
    <3>c. /\ targets' \in Seq(Cloud!Target) /\ DOMAIN targets' = DOMAIN targets
          /\ targets'[op["deploy"].t] = [targets[op["deploy"].t] EXCEPT !.copy = targets[op["deploy"].t].copy]
          /\ \A u \in DOMAIN targets : u # op["deploy"].t => targets'[u] = targets[u]
      BY <3>1, <3>a, <3>b, <1>t, SetRow
    <3>d. /\ origins \subseteq DOMAIN targets
          /\ (op["join"].at # "idle" => op["join"].t \in DOMAIN targets)
      BY <1>t DEF Cloud!TypeOK, Cloud!Ops
    <3>e. \A u \in DOMAIN targets : targets'[u].ref = targets[u].ref
              /\ targets'[u].pinned = targets[u].pinned
              /\ (targets[u].status \notin Cloud!Gone => targets'[u].status \notin Cloud!Gone)
      BY <3>1, <3>a, <3>b, <3>c DEF Cloud!Gone
    <3>2. Cloud!TypeOK'
      BY <3>1, <3>a, <3>b, <3>c, <3>d, <3>e, <1>t DEF Cloud!TypeOK, Cloud!Ops
    <3>3. Cloud!LocksHeld'
      BY <3>1, <3>a, <3>b, <3>c, <3>d, <3>e, <1>t DEF Cloud!LocksHeld, Cloud!Ops
    <3>4. Cloud!Unjoined'
      BY <3>1, <3>a, <3>b, <3>c, <3>d, <3>e, <1>t DEF Cloud!Unjoined, Cloud!Ops
    <3>5. Cloud!EnrolledApart'
      BY <3>1, <3>a, <3>b, <3>c, <3>d, <3>e, <1>t DEF Cloud!EnrolledApart, Cloud!Gone
    <3>6. Cloud!RefsPinned'
      BY <3>1, <3>a, <3>b, <3>c, <3>d, <3>e, <1>t DEF Cloud!RefsPinned, Cloud!EnrolledApart
    <3>7. Cloud!CopiesRun'
      BY <3>1, <3>a, <3>b, <3>c, <3>d, <3>e, <1>t DEF Cloud!CopiesRun, Cloud!EnrolledApart
    <3>8. Cloud!JoinChecked'
      BY <3>1, <3>a, <3>b, <3>c, <3>d, <3>e, <1>t DEF Cloud!JoinChecked, Cloud!EnrolledApart,
         Cloud!Gone, Cloud!Ops
    <3>9. Cloud!GoneIsGone'
      BY <3>1, <3>a, <3>b, <3>c, <3>d, <3>e, <1>t DEF Cloud!GoneIsGone, Cloud!EnrolledApart,
         Cloud!Gone
    <3>10. Cloud!OriginsRun'
      BY <3>1, <3>a, <3>b, <3>c, <3>d, <3>e, <1>t DEF Cloud!OriginsRun, Cloud!EnrolledApart,
         Cloud!Unjoined
    <3>11. Cloud!InstancesAreTracked'
      BY <3>1, <3>a, <3>b, <3>c, <3>d, <3>e, <1>t DEF Cloud!InstancesAreTracked,
         Cloud!RefsPinned, Cloud!EnrolledApart, Cloud!Gone
    <3> QED BY <3>2, <3>3, <3>4, <3>5, <3>6, <3>7, <3>8, <3>9, <3>10, <3>11
  <2> QED BY <2>1, <2>2
<1> QED BY <1>1, <1>2, <1>3, <1>4 DEF Cloud!Ops

\* A step keeps the invariant.
LEMMA CloudNext ==
    /\ Cloud!TypeOK /\ Cloud!LocksHeld /\ Cloud!Unjoined /\ Cloud!EnrolledApart
    /\ Cloud!RefsPinned /\ Cloud!CopiesRun /\ Cloud!JoinChecked /\ Cloud!GoneIsGone
    /\ Cloud!OriginsRun /\ Cloud!InstancesAreTracked /\ [Cloud!Next]_cloudState
    => /\ Cloud!TypeOK' /\ Cloud!LocksHeld' /\ Cloud!Unjoined' /\ Cloud!EnrolledApart'
       /\ Cloud!RefsPinned' /\ Cloud!CopiesRun' /\ Cloud!JoinChecked' /\ Cloud!GoneIsGone'
       /\ Cloud!OriginsRun' /\ Cloud!InstancesAreTracked'
<1> SUFFICES ASSUME Cloud!TypeOK, Cloud!LocksHeld, Cloud!Unjoined, Cloud!EnrolledApart,
                    Cloud!RefsPinned, Cloud!CopiesRun, Cloud!JoinChecked, Cloud!GoneIsGone,
                    Cloud!OriginsRun, Cloud!InstancesAreTracked, [Cloud!Next]_cloudState
             PROVE  /\ Cloud!TypeOK' /\ Cloud!LocksHeld' /\ Cloud!Unjoined'
                    /\ Cloud!EnrolledApart' /\ Cloud!RefsPinned' /\ Cloud!CopiesRun'
                    /\ Cloud!JoinChecked' /\ Cloud!GoneIsGone' /\ Cloud!OriginsRun'
                    /\ Cloud!InstancesAreTracked'
  OBVIOUS
<1>1. CASE Cloud!Next
  BY <1>1, OverflowKeeps, EnrolmentKeeps, TerminationKeeps DEF Cloud!Next
<1>2. CASE UNCHANGED cloudState
  BY <1>2 DEF cloudState, Cloud!TypeOK, Cloud!LocksHeld, Cloud!Unjoined, Cloud!EnrolledApart,
     Cloud!RefsPinned, Cloud!CopiesRun, Cloud!JoinChecked, Cloud!GoneIsGone, Cloud!OriginsRun,
     Cloud!InstancesAreTracked
<1> QED BY <1>1, <1>2

\* The inductive invariant of the cloud fleet.
CloudInv == focus = "cloud" => Cloud!TypeOK /\ Cloud!LocksHeld /\ Cloud!Unjoined
    /\ Cloud!EnrolledApart /\ Cloud!RefsPinned /\ Cloud!CopiesRun /\ Cloud!JoinChecked
    /\ Cloud!GoneIsGone /\ Cloud!OriginsRun /\ Cloud!InstancesAreTracked

\* The composition keeps the invariant of the cloud.
LEMMA CloudInvariant == Spec => []CloudInv
<1>1. Init => CloudInv
  <2> SUFFICES ASSUME Cloud!Init
               PROVE  /\ Cloud!TypeOK /\ Cloud!LocksHeld /\ Cloud!Unjoined
                      /\ Cloud!EnrolledApart /\ Cloud!RefsPinned /\ Cloud!CopiesRun
                      /\ Cloud!JoinChecked /\ Cloud!GoneIsGone /\ Cloud!OriginsRun
                      /\ Cloud!InstancesAreTracked
    BY DEF Init, CloudStarts, CloudInv
  <2>1. Cloud!TypeOK
    <3>1. /\ targets = <<>> /\ targets \in Seq(Cloud!Target) /\ DOMAIN targets = {}
          /\ created = 0 /\ cloudFaults = 0
          /\ running = {} /\ origins = {} /\ orphan = {}
      BY DEF Cloud!Init
    <3>2. req = [q \in Requests |-> [at |-> "idle", row |-> 0, inst |-> 0]]
      BY DEF Cloud!Init, Cloud!NoReq
    <3>3. op = [o \in Cloud!Ops |-> [at |-> "idle", t |-> 0]]
      BY DEF Cloud!Init, Cloud!NoOp
    <3>4. /\ siteLock = "free" /\ targetLock = "free" /\ attack \in BOOLEAN
          /\ overlapped \in BOOLEAN
          /\ direct \in BOOLEAN /\ lateJoin \in BOOLEAN
      BY Zenon DEF Cloud!Init
    <3>5. /\ req \in [Requests -> [at : {"idle", "create", "ref", "pin", "provision"},
              row : Nat, inst : Nat]]
          /\ \A q \in Requests : req[q].at = "idle" /\ req[q].inst = 0
      BY <3>2
    <3>6. /\ op \in [Cloud!Ops -> [at : {"idle", "checked", "locked", "unjoin", "terminate"},
              t : Nat]]
          /\ \A o \in Cloud!Ops : op[o].at = "idle"
      BY <3>3
    <3> QED BY <3>1, <3>4, <3>5, <3>6 DEF Cloud!TypeOK
  <2>2. Cloud!LocksHeld
    BY DEF Cloud!Init, Cloud!Ops, Cloud!NoReq, Cloud!NoOp, Cloud!LocksHeld
  <2>3. Cloud!Unjoined
    BY DEF Cloud!Init, Cloud!Ops, Cloud!NoReq, Cloud!NoOp, Cloud!Unjoined
  <2>4. Cloud!EnrolledApart
    BY DEF Cloud!Init, Cloud!Ops, Cloud!NoReq, Cloud!NoOp, Cloud!EnrolledApart
  <2>5. Cloud!RefsPinned
    BY DEF Cloud!Init, Cloud!Ops, Cloud!NoReq, Cloud!NoOp, Cloud!RefsPinned
  <2>6. Cloud!CopiesRun
    BY DEF Cloud!Init, Cloud!Ops, Cloud!NoReq, Cloud!NoOp, Cloud!CopiesRun
  <2>7. Cloud!JoinChecked
    BY DEF Cloud!Init, Cloud!Ops, Cloud!NoReq, Cloud!NoOp, Cloud!JoinChecked
  <2>8. Cloud!GoneIsGone
    BY DEF Cloud!Init, Cloud!Ops, Cloud!NoReq, Cloud!NoOp, Cloud!GoneIsGone
  <2>9. Cloud!OriginsRun
    BY DEF Cloud!Init, Cloud!Ops, Cloud!NoReq, Cloud!NoOp, Cloud!OriginsRun
  <2>10. Cloud!InstancesAreTracked
    BY DEF Cloud!Init, Cloud!Ops, Cloud!NoReq, Cloud!NoOp, Cloud!InstancesAreTracked
  <2> QED BY <2>1, <2>2, <2>3, <2>4, <2>5, <2>6, <2>7, <2>8, <2>9, <2>10
<1>2. CloudInv /\ [Next]_allVars => CloudInv'
  <2> SUFFICES ASSUME CloudInv, [Next]_allVars, focus = "cloud"
               PROVE  /\ Cloud!TypeOK' /\ Cloud!LocksHeld' /\ Cloud!Unjoined'
                      /\ Cloud!EnrolledApart' /\ Cloud!RefsPinned' /\ Cloud!CopiesRun'
                      /\ Cloud!JoinChecked' /\ Cloud!GoneIsGone' /\ Cloud!OriginsRun'
                      /\ Cloud!InstancesAreTracked'
    BY OneAtATime DEF CloudInv
  <2>1. /\ Cloud!TypeOK /\ Cloud!LocksHeld /\ Cloud!Unjoined /\ Cloud!EnrolledApart
        /\ Cloud!RefsPinned /\ Cloud!CopiesRun /\ Cloud!JoinChecked /\ Cloud!GoneIsGone
        /\ Cloud!OriginsRun /\ Cloud!InstancesAreTracked /\ [Cloud!Next]_cloudState
    BY OneAtATime DEF CloudInv
  <2> QED BY <2>1, CloudNext
<1> QED BY <1>1, <1>2, PTL DEF Spec

\* provision/, scaling/: for any number of requests, rows, instances and faults, while no call
\* is lost and enrolments do not overlap, every instance that is paid for belongs to a row that
\* can still be terminated; a row that is gone has none running; and the record of the site
\* names only machines that run.
THEOREM CloudTheorem == Spec => []InstancesTracked
<1>1. CloudInv => InstancesTracked
  BY DEF CloudInv, InstancesTracked
<1> QED BY <1>1, CloudInvariant, PTL

---------------------------------------------------------------------------
(* The deploy steps on a host *)

\* A set of integers within bounds has a largest element.
LEMMA LargestOf ==
    ASSUME NEW a \in Int, NEW b \in Int, NEW S \in SUBSET (a..b), S # {}
    PROVE  \E x \in S : \A y \in S : y <= x
<1> DEFINE D == {b - y : y \in S}
<1>1. D \subseteq Nat /\ D # {}
  OBVIOUS
<1>2. PICK m \in D : \A t \in D : ~(<<t, m>> \in OpToRel(<, Nat))
  BY <1>1, NatLessThanWellFounded, WFMin
<1>4. PICK x \in S : m = b - x
  OBVIOUS
<1>a. \A y \in S : b - y \in D
  OBVIOUS
<1> HIDE DEF D
<1>3. \A t \in D : m <= t
  <2> SUFFICES ASSUME NEW t \in D PROVE m <= t
    OBVIOUS
  <2>1. t \in Nat /\ m \in Nat /\ ~(t < m)
    BY <1>1, <1>2 DEF OpToRel
  <2> QED BY <2>1
<1>5. \A y \in S : b - x <= b - y
  BY <1>3, <1>4, <1>a
<1> QED BY <1>5

\* One deployment moves: the others stay as they are, and it stays a deployment of its site.
Touches(d) ==
    /\ work' \in Seq(BoxSteps!Deployment) /\ Len(work') = Len(work)
    /\ \A e \in BoxSteps!Deploys : e # d => work'[e] = work[e]
    /\ work'[d] \in BoxSteps!Deployment /\ work'[d].site = work[d].site
\* ... and what it noted stays.
Keeps(d) ==
    work'[d].old = work[d].old /\ work'[d].gen = work[d].gen /\ work'[d].had = work[d].had /\ work'[d].read = work[d].read

\* The deployments of the host and their containers, by their types.
LEMMA WorkTypes ==
    ASSUME BoxSteps!TypeOK
    PROVE  /\ work \in Seq(BoxSteps!Deployment) /\ BoxSteps!Deploys = 1..Len(work) /\ Len(work) \in Nat
           /\ BoxSteps!Deploys = DOMAIN work /\ DOMAIN box = BoxSteps!Deploys
           /\ \A d \in BoxSteps!Deploys :
                /\ d \in Nat /\ d # 0 /\ work[d] \in BoxSteps!Deployment /\ work[d].site \in HostSites
                /\ work[d].old \in Nat /\ work[d].gen \in Nat /\ work[d].had \in BOOLEAN /\ work[d].read \subseteq HostSites
                /\ work[d].at \in BoxSteps!Places /\ box[d] \in {"none", "running", "stopped"}
                /\ work[d].status \in {"running", "stopping", "failed", "superseded", "succeeded"}
<1>1. /\ work \in Seq(BoxSteps!Deployment) /\ BoxSteps!Deploys = 1..Len(work) /\ Len(work) \in Nat
      /\ DOMAIN box = BoxSteps!Deploys /\ BoxSteps!Deploys = DOMAIN work
      /\ \A d \in BoxSteps!Deploys : work[d] \in BoxSteps!Deployment /\ box[d] \in {"none", "running", "stopped"}
  BY DEF BoxSteps!TypeOK, BoxSteps!Deploys
<1> QED BY <1>1 DEF BoxSteps!Deployment

\* A deployment is replaced by another of its site.
LEMMA SetWork ==
    ASSUME BoxSteps!TypeOK, NEW d \in BoxSteps!Deploys, NEW r \in BoxSteps!Deployment, r.site = work[d].site,
           work' = [work EXCEPT ![d] = r]
    PROVE  Touches(d) /\ work'[d] = r /\ BoxSteps!Deploys' = BoxSteps!Deploys
<1>1. work \in Seq(BoxSteps!Deployment) /\ d \in DOMAIN work
  BY WorkTypes
<1>2. work' \in Seq(BoxSteps!Deployment) /\ DOMAIN work' = DOMAIN work /\ Len(work') = Len(work)
  BY <1>1
<1>3. work'[d] = r /\ \A e \in DOMAIN work : e # d => work'[e] = work[e]
  BY <1>1
<1> QED BY <1>2, <1>3, WorkTypes DEF Touches, BoxSteps!Deploys

\* The edits of a deployment that the steps make.
LEMMA GotoFacts ==
    ASSUME BoxSteps!TypeOK, NEW d \in BoxSteps!Deploys, NEW a \in BoxSteps!Places,
           BoxSteps!Goto(d, a)
    PROVE  /\ Touches(d) /\ BoxSteps!Deploys' = BoxSteps!Deploys
           /\ Keeps(d) /\ work'[d].at = a /\ work'[d].status = work[d].status
<1> DEFINE r == [work[d] EXCEPT !.at = a]
<1>1. /\ work[d] \in BoxSteps!Deployment
      /\ work[d].status \in {"running", "stopping", "failed", "superseded", "succeeded"} /\ work[d].at \in BoxSteps!Places
      /\ "tls" \in BoxSteps!Places
  BY WorkTypes DEF BoxSteps!Places, BoxSteps!InTls
<1>2. /\ r \in BoxSteps!Deployment /\ r.site = work[d].site
      /\ r.old = work[d].old /\ r.gen = work[d].gen /\ r.had = work[d].had /\ r.read = work[d].read
      /\ r.at = a /\ r.status = work[d].status
  BY <1>1 DEF BoxSteps!Deployment
<1>3. work' = [work EXCEPT ![d] = r]
  BY Zenon DEF BoxSteps!Goto, r
<1> HIDE DEF r
<1>4. Touches(d) /\ work'[d] = r /\ BoxSteps!Deploys' = BoxSteps!Deploys
  BY <1>2, <1>3, SetWork
<1> QED BY <1>2, <1>4, Zenon DEF Keeps

\* A step that ends: a superseded deployment stops there, the last step makes it succeed.
LEMMA FinishFacts ==
    ASSUME BoxSteps!TypeOK, NEW d \in BoxSteps!Deploys, NEW a \in BoxSteps!Places,
           BoxSteps!Finish(d, a)
    PROVE  /\ Touches(d) /\ BoxSteps!Deploys' = BoxSteps!Deploys
           /\ Keeps(d) /\ work'[d].at = a
           /\ (work'[d].status = "succeeded" => a = "done" \/ work[d].status = "succeeded")
<1> DEFINE r == [work[d] EXCEPT !.at = a,
                            !.status = IF work[d].status = "stopping" THEN "superseded" ELSE IF a = "done" THEN "succeeded" ELSE work[d].status]
<1>1. /\ work[d] \in BoxSteps!Deployment
      /\ work[d].status \in {"running", "stopping", "failed", "superseded", "succeeded"} /\ work[d].at \in BoxSteps!Places
      /\ "tls" \in BoxSteps!Places
  BY WorkTypes DEF BoxSteps!Places, BoxSteps!InTls
<1>2. /\ r \in BoxSteps!Deployment /\ r.site = work[d].site
      /\ r.old = work[d].old /\ r.gen = work[d].gen /\ r.had = work[d].had /\ r.read = work[d].read
      /\ r.at = a
           /\ (r.status = "succeeded" => a = "done" \/ work[d].status = "succeeded")
  BY <1>1 DEF BoxSteps!Deployment
<1>3. work' = [work EXCEPT ![d] = r]
  BY Zenon DEF BoxSteps!Finish, r
<1> HIDE DEF r
<1>4. Touches(d) /\ work'[d] = r /\ BoxSteps!Deploys' = BoxSteps!Deploys
  BY <1>2, <1>3, SetWork
<1> QED BY <1>2, <1>4, Zenon DEF Keeps

\* A step that fails is tried again from the start of the tls step, or from itself.
LEMMA FailsFacts ==
    ASSUME BoxSteps!TypeOK, NEW d \in BoxSteps!Deploys,
           BoxSteps!Fails(d)
    PROVE  /\ Touches(d) /\ BoxSteps!Deploys' = BoxSteps!Deploys
           /\ Keeps(d) /\ work'[d].at = (IF work[d].at \in BoxSteps!InTls THEN "tls" ELSE work[d].at)
           /\ work'[d].status # "succeeded"
<1> DEFINE r == [work[d] EXCEPT !.status = IF work[d].status = "stopping" THEN "superseded" ELSE "failed",
                            !.at = IF work[d].at \in BoxSteps!InTls THEN "tls" ELSE work[d].at]
<1>1. /\ work[d] \in BoxSteps!Deployment
      /\ work[d].status \in {"running", "stopping", "failed", "superseded", "succeeded"} /\ work[d].at \in BoxSteps!Places
      /\ "tls" \in BoxSteps!Places
  BY WorkTypes DEF BoxSteps!Places, BoxSteps!InTls
<1>2. /\ r \in BoxSteps!Deployment /\ r.site = work[d].site
      /\ r.old = work[d].old /\ r.gen = work[d].gen /\ r.had = work[d].had /\ r.read = work[d].read
      /\ r.at = (IF work[d].at \in BoxSteps!InTls THEN "tls" ELSE work[d].at)
           /\ r.status # "succeeded"
  BY <1>1 DEF BoxSteps!Deployment
<1>3. work' = [work EXCEPT ![d] = r]
  BY Zenon DEF BoxSteps!Fails, r
<1> HIDE DEF r
<1>4. Touches(d) /\ work'[d] = r /\ BoxSteps!Deploys' = BoxSteps!Deploys
  BY <1>2, <1>3, SetWork
<1> QED BY <1>2, <1>4, Zenon DEF Keeps

\* A resume runs again and looks up its predecessor again.
LEMMA ResumeFacts ==
    ASSUME BoxSteps!TypeOK, NEW d \in BoxSteps!Deploys, NEW p \in Nat,
           work' = [work EXCEPT ![d].status = "running", ![d].old = p]
    PROVE  /\ Touches(d) /\ BoxSteps!Deploys' = BoxSteps!Deploys
           /\ work'[d].old = p /\ work'[d].gen = work[d].gen /\ work'[d].at = work[d].at /\ work'[d].status = "running"
<1> DEFINE r == [work[d] EXCEPT !.status = "running", !.old = p]
<1>1. /\ work[d] \in BoxSteps!Deployment
      /\ work[d].status \in {"running", "stopping", "failed", "superseded", "succeeded"} /\ work[d].at \in BoxSteps!Places
      /\ "tls" \in BoxSteps!Places
  BY WorkTypes DEF BoxSteps!Places, BoxSteps!InTls
<1>2. /\ r \in BoxSteps!Deployment /\ r.site = work[d].site
      /\ r.old = p /\ r.gen = work[d].gen /\ r.at = work[d].at /\ r.status = "running"
  BY <1>1 DEF BoxSteps!Deployment
<1>3. work' = [work EXCEPT ![d] = r]
  BY Zenon DEF r
<1> HIDE DEF r
<1>4. Touches(d) /\ work'[d] = r /\ BoxSteps!Deploys' = BoxSteps!Deploys
  BY <1>2, <1>3, SetWork
<1> QED BY <1>2, <1>4, Zenon DEF Keeps

\* A new key is noted in the deployment it is made for.
LEMMA KeyFacts ==
    ASSUME BoxSteps!TypeOK, NEW d \in BoxSteps!Deploys, NEW a \in BoxSteps!Places, NEW g \in Nat,
           work' = [work EXCEPT ![d].at = a, ![d].gen = g]
    PROVE  /\ Touches(d) /\ BoxSteps!Deploys' = BoxSteps!Deploys
           /\ work'[d].old = work[d].old /\ work'[d].gen = g /\ work'[d].at = a /\ work'[d].status = work[d].status
<1> DEFINE r == [work[d] EXCEPT !.at = a, !.gen = g]
<1>1. /\ work[d] \in BoxSteps!Deployment
      /\ work[d].status \in {"running", "stopping", "failed", "superseded", "succeeded"} /\ work[d].at \in BoxSteps!Places
      /\ "tls" \in BoxSteps!Places
  BY WorkTypes DEF BoxSteps!Places, BoxSteps!InTls
<1>2. /\ r \in BoxSteps!Deployment /\ r.site = work[d].site
      /\ r.old = work[d].old /\ r.gen = g /\ r.at = a /\ r.status = work[d].status
  BY <1>1 DEF BoxSteps!Deployment
<1>3. work' = [work EXCEPT ![d] = r]
  BY Zenon DEF r
<1> HIDE DEF r
<1>4. Touches(d) /\ work'[d] = r /\ BoxSteps!Deploys' = BoxSteps!Deploys
  BY <1>2, <1>3, SetWork
<1> QED BY <1>2, <1>4, Zenon DEF Keeps

\* What push_tls_material() found is noted.
LEMMA HadFacts ==
    ASSUME BoxSteps!TypeOK, NEW d \in BoxSteps!Deploys, NEW a \in BoxSteps!Places, NEW h \in BOOLEAN,
           work' = [work EXCEPT ![d].at = a, ![d].had = h]
    PROVE  /\ Touches(d) /\ BoxSteps!Deploys' = BoxSteps!Deploys
           /\ work'[d].old = work[d].old /\ work'[d].gen = work[d].gen /\ work'[d].at = a /\ work'[d].had = h
           /\ work'[d].status = work[d].status
<1> DEFINE r == [work[d] EXCEPT !.at = a, !.had = h]
<1>1. /\ work[d] \in BoxSteps!Deployment
      /\ work[d].status \in {"running", "stopping", "failed", "superseded", "succeeded"} /\ work[d].at \in BoxSteps!Places
      /\ "tls" \in BoxSteps!Places
  BY WorkTypes DEF BoxSteps!Places, BoxSteps!InTls
<1>2. /\ r \in BoxSteps!Deployment /\ r.site = work[d].site
      /\ r.old = work[d].old /\ r.gen = work[d].gen
      /\ r.at = a /\ r.had = h
           /\ r.status = work[d].status
  BY <1>1 DEF BoxSteps!Deployment
<1>3. work' = [work EXCEPT ![d] = r]
  BY Zenon DEF r
<1> HIDE DEF r
<1>4. Touches(d) /\ work'[d] = r /\ BoxSteps!Deploys' = BoxSteps!Deploys
  BY <1>2, <1>3, SetWork
<1> QED BY <1>2, <1>4, Zenon DEF Keeps

\* What was read of the tls app is noted.
LEMMA ReadFacts ==
    ASSUME BoxSteps!TypeOK, NEW d \in BoxSteps!Deploys, NEW a \in BoxSteps!Places, NEW l \in SUBSET HostSites,
           work' = [work EXCEPT ![d].at = a, ![d].read = l]
    PROVE  /\ Touches(d) /\ BoxSteps!Deploys' = BoxSteps!Deploys
           /\ work'[d].old = work[d].old /\ work'[d].gen = work[d].gen /\ work'[d].at = a /\ work'[d].status = work[d].status
<1> DEFINE r == [work[d] EXCEPT !.at = a, !.read = l]
<1>1. /\ work[d] \in BoxSteps!Deployment
      /\ work[d].status \in {"running", "stopping", "failed", "superseded", "succeeded"} /\ work[d].at \in BoxSteps!Places
      /\ "tls" \in BoxSteps!Places
  BY WorkTypes DEF BoxSteps!Places, BoxSteps!InTls
<1>2. /\ r \in BoxSteps!Deployment /\ r.site = work[d].site
      /\ r.old = work[d].old /\ r.gen = work[d].gen /\ r.at = a /\ r.status = work[d].status
  BY <1>1 DEF BoxSteps!Deployment
<1>3. work' = [work EXCEPT ![d] = r]
  BY Zenon DEF r
<1> HIDE DEF r
<1>4. Touches(d) /\ work'[d] = r /\ BoxSteps!Deploys' = BoxSteps!Deploys
  BY <1>2, <1>3, SetWork
<1> QED BY <1>2, <1>4, Zenon DEF Keeps

\* What a step of one deployment keeps, conjunct by conjunct: the types,
LEMMA TypeFrame ==
    ASSUME BoxSteps!TypeOK, NEW d \in BoxSteps!Deploys, Touches(d), BoxSteps!Deploys' = BoxSteps!Deploys,
           work'[d].old < d, work'[d].gen <= keys', keys' \in Nat, keys <= keys',
           box' \in Seq({"none", "running", "stopped"}), Len(box') = Len(box),
           pem' \in [HostSites -> [cert : 0..keys', key : 0..keys', pcert : 0..keys', pkey : 0..keys']],
           vaultKey' \in [HostSites -> 0..keys'], certRow' \in [HostSites -> 0..keys'],
           runbook' \in [HostSites -> 0..Len(work)], healthy' \subseteq BoxSteps!Deploys,
           routed' \subseteq HostSites, loaded' \subseteq HostSites, dnsRecords' \subseteq HostSites,
           torn' \subseteq HostSites, crossed' \in BOOLEAN
    PROVE  BoxSteps!TypeOK'
<1>1. \A e \in BoxSteps!Deploys' : work'[e].old < e /\ work'[e].gen <= keys'
  <2> SUFFICES ASSUME NEW e \in BoxSteps!Deploys PROVE work'[e].old < e /\ work'[e].gen <= keys'
    OBVIOUS
  <2>1. CASE e = d
    BY <2>1
  <2>2. CASE e # d
    <3>1. work'[e] = work[e] /\ work[e].gen \in Nat /\ work[e].gen <= keys /\ work[e].old < e /\ keys \in Nat
      BY <2>2, WorkTypes DEF Touches, BoxSteps!TypeOK
    <3> QED BY <3>1
  <2> QED BY <2>1, <2>2
<1>2. work' \in Seq(BoxSteps!Deployment) /\ Len(work') = Len(work) /\ Len(box') = Len(work')
  BY DEF Touches, BoxSteps!TypeOK
<1> QED BY <1>1, <1>2 DEF BoxSteps!TypeOK

\* ... that a deployment inside the tls step has its worker,
LEMMA AliveFrame ==
    ASSUME BoxSteps!InsideTlsAlive, NEW d \in BoxSteps!Deploys, Touches(d), BoxSteps!Deploys' = BoxSteps!Deploys,
           work'[d].at \in BoxSteps!InTls \ {"tls"} => work'[d].status \in {"running", "stopping"}
    PROVE  BoxSteps!InsideTlsAlive'
  BY DEF Touches, BoxSteps!InsideTlsAlive, BoxSteps!InTls, BoxSteps!Pushing

\* ... that a predecessor is of the same site,
LEMMA OldFrame ==
    ASSUME BoxSteps!TypeOK, BoxSteps!OldIsSibling, NEW d \in BoxSteps!Deploys, Touches(d),
           BoxSteps!Deploys' = BoxSteps!Deploys, work'[d].old \in Nat, work'[d].old < d,
           work'[d].old # 0 => work[work'[d].old].site = work[d].site
    PROVE  BoxSteps!OldIsSibling'
<1>1. \A e \in BoxSteps!Deploys : work'[e].site = work[e].site
  BY DEF Touches
<1>2. \A e \in BoxSteps!Deploys : work'[e].old \in Nat /\ work'[e].old < e
  BY WorkTypes DEF Touches, BoxSteps!TypeOK
<1>3. \A e \in BoxSteps!Deploys : work'[e].old # 0 => work'[e].old \in BoxSteps!Deploys
  BY <1>2, WorkTypes
<1>4. \A e \in BoxSteps!Deploys : work'[e].old # 0 => work[work'[e].old].site = work[e].site
  BY DEF Touches, BoxSteps!OldIsSibling
<1> QED BY <1>1, <1>3, <1>4 DEF BoxSteps!OldIsSibling

\* ... that a route has its certificate loaded,
LEMMA EdgeFrame ==
    ASSUME BoxSteps!PutIsLoaded, BoxSteps!SiblingsKeepTls, NEW d \in BoxSteps!Deploys, Touches(d),
           BoxSteps!Deploys' = BoxSteps!Deploys, UNCHANGED <<loaded, routed, crossed>>,
           ~crossed /\ work'[d].at = "put" => work[d].site \in loaded
    PROVE  BoxSteps!PutIsLoaded' /\ BoxSteps!SiblingsKeepTls'
  BY DEF Touches, BoxSteps!PutIsLoaded, BoxSteps!SiblingsKeepTls

\* ... the files of a site, when the step does not write them,
LEMMA PairFrame ==
    ASSUME BoxSteps!TypeOK, BoxSteps!OneWriterOfFiles, BoxSteps!PairAtRest, BoxSteps!PairInHand,
           NEW d \in BoxSteps!Deploys, Touches(d), BoxSteps!Deploys' = BoxSteps!Deploys, UNCHANGED pem,
           torn \subseteq torn', work'[d].at \notin BoxSteps!Writing,
           work[d].at \in BoxSteps!Writing => work[d].site \in torn'
    PROVE  BoxSteps!OneWriterOfFiles' /\ BoxSteps!PairAtRest' /\ BoxSteps!PairInHand'
<1>1. \A e \in BoxSteps!Deploys : work'[e].site = work[e].site
  BY DEF Touches
<1>2. \A e \in BoxSteps!Deploys : work'[e].at \in BoxSteps!Writing => work'[e] = work[e]
  BY DEF Touches
<1>3. \A e \in BoxSteps!Deploys : work[e].at \in BoxSteps!Writing /\ work[e].site \notin torn' => work'[e] = work[e]
  BY DEF Touches
<1>4. BoxSteps!OneWriterOfFiles'
  BY <1>1, <1>2 DEF BoxSteps!OneWriterOfFiles
<1>5. BoxSteps!PairAtRest'
  BY <1>1, <1>3 DEF BoxSteps!PairAtRest
<1>6. BoxSteps!PairInHand'
  BY <1>1, <1>2 DEF BoxSteps!PairInHand
<1> QED BY <1>4, <1>5, <1>6

\* ... and that what succeeded runs.
LEMMA RunFrame ==
    ASSUME BoxSteps!SuccessRuns, NEW d \in BoxSteps!Deploys, Touches(d), BoxSteps!Deploys' = BoxSteps!Deploys,
           work'[d].status = "succeeded" => work[d].status = "succeeded", UNCHANGED box
    PROVE  BoxSteps!SuccessRuns'
<1>1. \A e \in BoxSteps!Deploys : work'[e].site = work[e].site
  BY DEF Touches
<1>2. \A e \in BoxSteps!Deploys : work'[e].status = "succeeded" => work[e].status = "succeeded"
  BY DEF Touches
<1> QED BY <1>1, <1>2 DEF BoxSteps!SuccessRuns

\* A step that touches neither the files nor the edge nor the containers of the host.
LEMMA QuietStep ==
    ASSUME BoxSteps!TypeOK, BoxSteps!InsideTlsAlive, BoxSteps!OldIsSibling, BoxSteps!PutIsLoaded, BoxSteps!SiblingsKeepTls,
           BoxSteps!OneWriterOfFiles, BoxSteps!PairAtRest, BoxSteps!PairInHand, BoxSteps!SuccessRuns,
           NEW d \in BoxSteps!Deploys, Touches(d), BoxSteps!Deploys' = BoxSteps!Deploys,
           work'[d].old \in Nat, work'[d].old < d, work'[d].gen <= keys,
           work'[d].old # 0 => work[work'[d].old].site = work[d].site,
           work'[d].at \in BoxSteps!InTls \ {"tls"} => work'[d].status \in {"running", "stopping"},
           work'[d].at \notin BoxSteps!Writing, work[d].at \in BoxSteps!Writing => work[d].site \in torn',
           ~crossed /\ work'[d].at = "put" => work[d].site \in loaded,
           box' \in Seq({"none", "running", "stopped"}), Len(box') = Len(box),
           healthy' \subseteq BoxSteps!Deploys, dnsRecords' \subseteq HostSites, torn \subseteq torn',
           torn' \subseteq HostSites, UNCHANGED <<pem, vaultKey, certRow, keys, loaded, routed, crossed, runbook>>
    PROVE  BoxSteps!TypeOK' /\ BoxSteps!InsideTlsAlive' /\ BoxSteps!OldIsSibling' /\ BoxSteps!PutIsLoaded'
           /\ BoxSteps!SiblingsKeepTls' /\ BoxSteps!OneWriterOfFiles' /\ BoxSteps!PairAtRest' /\ BoxSteps!PairInHand'
<1>1. BoxSteps!TypeOK'
  <2>1. /\ keys' = keys /\ keys \in Nat /\ pem' = pem /\ vaultKey' = vaultKey /\ certRow' = certRow
        /\ runbook' = runbook /\ loaded' = loaded /\ routed' = routed /\ crossed' = crossed /\ crossed \in BOOLEAN
        /\ pem \in [HostSites -> [cert : 0..keys, key : 0..keys, pcert : 0..keys, pkey : 0..keys]]
        /\ vaultKey \in [HostSites -> 0..keys] /\ certRow \in [HostSites -> 0..keys]
        /\ runbook \in [HostSites -> 0..Len(work)] /\ routed \subseteq HostSites /\ loaded \subseteq HostSites
    BY Zenon DEF BoxSteps!TypeOK
  <2>2. keys <= keys
    BY <2>1
  <2> QED BY <2>1, <2>2, TypeFrame
<1>2. BoxSteps!InsideTlsAlive'
  BY AliveFrame
<1>3. BoxSteps!OldIsSibling'
  BY OldFrame
<1>4. BoxSteps!PutIsLoaded' /\ BoxSteps!SiblingsKeepTls'
  BY EdgeFrame
<1>5. BoxSteps!OneWriterOfFiles' /\ BoxSteps!PairAtRest' /\ BoxSteps!PairInHand'
  BY PairFrame
<1> QED BY <1>1, <1>2, <1>3, <1>4, <1>5

\* A step that ends, fails or goes on, with the files and the edge as they were.
LEMMA PlainStep ==
    ASSUME BoxSteps!TypeOK, BoxSteps!InsideTlsAlive, BoxSteps!OldIsSibling, BoxSteps!PutIsLoaded, BoxSteps!SiblingsKeepTls,
           BoxSteps!OneWriterOfFiles, BoxSteps!PairAtRest, BoxSteps!PairInHand, BoxSteps!SuccessRuns,
           NEW d \in BoxSteps!Deploys, work[d].status \in {"running", "stopping"},
           work[d].at \notin BoxSteps!Writing \cup {"put"} \/ BoxSteps!Fails(d),
           work[d].at \in BoxSteps!Writing => work[d].site \in torn',
           (\/ BoxSteps!Fails(d)
            \/ \E a \in {"ship", "migrate", "start", "health", "dns", "tls", "smoke", "cutover"} : BoxSteps!Finish(d, a)
            \/ \E a \in {"app", "keep"} : BoxSteps!Goto(d, a)),
           box' \in Seq({"none", "running", "stopped"}), Len(box') = Len(box),
           healthy' \subseteq BoxSteps!Deploys, dnsRecords' \subseteq HostSites, torn \subseteq torn',
           torn' \subseteq HostSites, UNCHANGED <<pem, vaultKey, certRow, keys, loaded, routed, crossed, runbook>>
    PROVE  /\ BoxSteps!TypeOK' /\ BoxSteps!InsideTlsAlive' /\ BoxSteps!OldIsSibling' /\ BoxSteps!PutIsLoaded'
           /\ BoxSteps!SiblingsKeepTls' /\ BoxSteps!OneWriterOfFiles' /\ BoxSteps!PairAtRest' /\ BoxSteps!PairInHand'
           /\ Touches(d) /\ BoxSteps!Deploys' = BoxSteps!Deploys /\ Keeps(d) /\ work'[d].status # "succeeded"
<1>1. /\ Touches(d) /\ BoxSteps!Deploys' = BoxSteps!Deploys /\ Keeps(d) /\ work'[d].status # "succeeded"
      /\ work'[d].at \notin BoxSteps!Writing /\ work'[d].at # "put"
      /\ work'[d].at \in BoxSteps!InTls \ {"tls"} => work'[d].status \in {"running", "stopping"}
  <2>1. CASE BoxSteps!Fails(d)
    <3>1. /\ Touches(d) /\ BoxSteps!Deploys' = BoxSteps!Deploys /\ Keeps(d) /\ work'[d].status # "succeeded"
          /\ work'[d].at = (IF work[d].at \in BoxSteps!InTls THEN "tls" ELSE work[d].at)
      BY <2>1, FailsFacts
    <3> QED BY <3>1 DEF BoxSteps!InTls, BoxSteps!Pushing, BoxSteps!Writing
  <2>2. ASSUME NEW a \in {"ship", "migrate", "start", "health", "dns", "tls", "smoke", "cutover"}, BoxSteps!Finish(d, a)
        PROVE  /\ Touches(d) /\ BoxSteps!Deploys' = BoxSteps!Deploys /\ Keeps(d) /\ work'[d].status # "succeeded"
               /\ work'[d].at \notin BoxSteps!Writing /\ work'[d].at # "put"
               /\ work'[d].at \in BoxSteps!InTls \ {"tls"} => work'[d].status \in {"running", "stopping"}
    <3>1. a \in BoxSteps!Places
      BY DEF BoxSteps!Places, BoxSteps!InTls
    <3>2. /\ Touches(d) /\ BoxSteps!Deploys' = BoxSteps!Deploys /\ Keeps(d) /\ work'[d].at = a
          /\ (work'[d].status = "succeeded" => a = "done" \/ work[d].status = "succeeded")
      BY <2>2, <3>1, FinishFacts
    <3> QED BY <3>2 DEF BoxSteps!InTls, BoxSteps!Pushing, BoxSteps!Writing
  <2>3. ASSUME NEW a \in {"app", "keep"}, BoxSteps!Goto(d, a)
        PROVE  /\ Touches(d) /\ BoxSteps!Deploys' = BoxSteps!Deploys /\ Keeps(d) /\ work'[d].status # "succeeded"
               /\ work'[d].at \notin BoxSteps!Writing /\ work'[d].at # "put"
               /\ work'[d].at \in BoxSteps!InTls \ {"tls"} => work'[d].status \in {"running", "stopping"}
    <3>1. a \in BoxSteps!Places
      BY DEF BoxSteps!Places, BoxSteps!InTls, BoxSteps!Pushing
    <3>2. /\ Touches(d) /\ BoxSteps!Deploys' = BoxSteps!Deploys /\ Keeps(d) /\ work'[d].at = a
          /\ work'[d].status = work[d].status
      BY <2>3, <3>1, GotoFacts
    <3> QED BY <3>2 DEF BoxSteps!Writing
  <2> QED BY <2>1, <2>2, <2>3
<1>2. work[d].old \in Nat /\ work[d].old < d /\ work[d].gen <= keys
  BY WorkTypes DEF BoxSteps!TypeOK
<1>3. /\ work'[d].old \in Nat /\ work'[d].old < d /\ work'[d].gen <= keys
      /\ work'[d].old # 0 => work[work'[d].old].site = work[d].site
  BY <1>1, <1>2 DEF Keeps, BoxSteps!OldIsSibling
<1>4. BoxSteps!TypeOK' /\ BoxSteps!InsideTlsAlive' /\ BoxSteps!OldIsSibling' /\ BoxSteps!PutIsLoaded'
           /\ BoxSteps!SiblingsKeepTls' /\ BoxSteps!OneWriterOfFiles' /\ BoxSteps!PairAtRest' /\ BoxSteps!PairInHand'
  BY <1>1, <1>3, QuietStep
<1> QED BY <1>1, <1>4

\* The same, with the containers as they were.
LEMMA PlainKeeps ==
    ASSUME BoxSteps!TypeOK, BoxSteps!InsideTlsAlive, BoxSteps!OldIsSibling, BoxSteps!PutIsLoaded, BoxSteps!SiblingsKeepTls,
           BoxSteps!OneWriterOfFiles, BoxSteps!PairAtRest, BoxSteps!PairInHand, BoxSteps!SuccessRuns,
           NEW d \in BoxSteps!Deploys, work[d].status \in {"running", "stopping"},
           work[d].at \notin BoxSteps!Writing \cup {"put"} \/ BoxSteps!Fails(d),
           work[d].at \in BoxSteps!Writing => work[d].site \in torn',
           (\/ BoxSteps!Fails(d)
            \/ \E a \in {"ship", "migrate", "start", "health", "dns", "tls", "smoke", "cutover"} : BoxSteps!Finish(d, a)
            \/ \E a \in {"app", "keep"} : BoxSteps!Goto(d, a)),
           healthy' \subseteq BoxSteps!Deploys, dnsRecords' \subseteq HostSites, torn \subseteq torn',
           torn' \subseteq HostSites, UNCHANGED <<box, pem, vaultKey, certRow, keys, loaded, routed, crossed, runbook>>
    PROVE  BoxSteps!TypeOK' /\ BoxSteps!InsideTlsAlive' /\ BoxSteps!OldIsSibling' /\ BoxSteps!PutIsLoaded'
           /\ BoxSteps!SiblingsKeepTls' /\ BoxSteps!OneWriterOfFiles' /\ BoxSteps!PairAtRest' /\ BoxSteps!PairInHand'
           /\ BoxSteps!SuccessRuns'
<1>1. box' \in Seq({"none", "running", "stopped"}) /\ Len(box') = Len(box)
  BY DEF BoxSteps!TypeOK
<1>2. /\ BoxSteps!TypeOK' /\ BoxSteps!InsideTlsAlive' /\ BoxSteps!OldIsSibling' /\ BoxSteps!PutIsLoaded'
           /\ BoxSteps!SiblingsKeepTls' /\ BoxSteps!OneWriterOfFiles' /\ BoxSteps!PairAtRest' /\ BoxSteps!PairInHand'
      /\ Touches(d) /\ BoxSteps!Deploys' = BoxSteps!Deploys /\ work'[d].status # "succeeded"
  BY <1>1, PlainStep
<1> QED BY <1>2, RunFrame

\* The steps that leave files, edge and containers alone.
LEMMA StepsKeep ==
    ASSUME BoxSteps!TypeOK, BoxSteps!InsideTlsAlive, BoxSteps!OldIsSibling,
        BoxSteps!PutIsLoaded, BoxSteps!SiblingsKeepTls, BoxSteps!OneWriterOfFiles,
        BoxSteps!PairAtRest, BoxSteps!PairInHand, BoxSteps!SuccessRuns,
           NEW d \in BoxSteps!Deploys,
           (\/ \E ok \in BOOLEAN : \/ BoxSteps!Build(d, ok) \/ BoxSteps!Ship(d, ok)
                                   \/ BoxSteps!Migrate(d, ok) \/ BoxSteps!Issue(d, ok)
                                   \/ BoxSteps!HealthCheck(d, ok) \/ BoxSteps!Dns(d, ok)
            \/ \E e \in BoxSteps!Deploys : BoxSteps!Smoke(d, e))
    PROVE  /\ BoxSteps!TypeOK' /\ BoxSteps!InsideTlsAlive' /\ BoxSteps!OldIsSibling'
           /\ BoxSteps!PutIsLoaded' /\ BoxSteps!SiblingsKeepTls' /\ BoxSteps!OneWriterOfFiles'
           /\ BoxSteps!PairAtRest' /\ BoxSteps!PairInHand' /\ BoxSteps!SuccessRuns'
<1>1. ASSUME NEW ok \in BOOLEAN, BoxSteps!Build(d, ok)
      PROVE  /\ BoxSteps!TypeOK' /\ BoxSteps!InsideTlsAlive' /\ BoxSteps!OldIsSibling'
             /\ BoxSteps!PutIsLoaded' /\ BoxSteps!SiblingsKeepTls' /\ BoxSteps!OneWriterOfFiles'
             /\ BoxSteps!PairAtRest' /\ BoxSteps!PairInHand' /\ BoxSteps!SuccessRuns'
  <2>1. /\ work[d].at = "build" /\ work[d].status \in {"running", "stopping"}
        /\ BoxSteps!Fails(d) \/ BoxSteps!Finish(d, "ship")
        /\ healthy' = healthy /\ dnsRecords' = dnsRecords
        /\ UNCHANGED <<box, pem, vaultKey, certRow, keys, loaded, routed, crossed, runbook,
            torn>>
    BY <1>1, Zenon DEF BoxSteps!Build, BoxSteps!In, BoxSteps!Edge, BoxSteps!Material,
       BoxSteps!Rest, BoxSteps!Containers, BoxSteps!DesiredRecords
  <2>2. /\ torn \subseteq HostSites /\ healthy \subseteq BoxSteps!Deploys
        /\ dnsRecords \subseteq HostSites /\ work[d].site \in HostSites
    BY WorkTypes DEF BoxSteps!TypeOK
  <2>3. work[d].at \notin BoxSteps!Writing \cup {"put"}
    BY <2>1 DEF BoxSteps!Writing
  <2> QED BY <2>1, <2>2, <2>3, PlainKeeps
<1>2. ASSUME NEW ok \in BOOLEAN, BoxSteps!Ship(d, ok)
      PROVE  /\ BoxSteps!TypeOK' /\ BoxSteps!InsideTlsAlive' /\ BoxSteps!OldIsSibling'
             /\ BoxSteps!PutIsLoaded' /\ BoxSteps!SiblingsKeepTls' /\ BoxSteps!OneWriterOfFiles'
             /\ BoxSteps!PairAtRest' /\ BoxSteps!PairInHand' /\ BoxSteps!SuccessRuns'
  <2>1. /\ work[d].at = "ship" /\ work[d].status \in {"running", "stopping"}
        /\ BoxSteps!Fails(d) \/ BoxSteps!Finish(d, "migrate")
        /\ healthy' = healthy /\ dnsRecords' = dnsRecords
        /\ UNCHANGED <<box, pem, vaultKey, certRow, keys, loaded, routed, crossed, runbook,
            torn>>
    BY <1>2, Zenon DEF BoxSteps!Ship, BoxSteps!In, BoxSteps!Edge, BoxSteps!Material,
       BoxSteps!Rest, BoxSteps!Containers, BoxSteps!DesiredRecords
  <2>2. /\ torn \subseteq HostSites /\ healthy \subseteq BoxSteps!Deploys
        /\ dnsRecords \subseteq HostSites /\ work[d].site \in HostSites
    BY WorkTypes DEF BoxSteps!TypeOK
  <2>3. work[d].at \notin BoxSteps!Writing \cup {"put"}
    BY <2>1 DEF BoxSteps!Writing
  <2> QED BY <2>1, <2>2, <2>3, PlainKeeps
<1>3. ASSUME NEW ok \in BOOLEAN, BoxSteps!Migrate(d, ok)
      PROVE  /\ BoxSteps!TypeOK' /\ BoxSteps!InsideTlsAlive' /\ BoxSteps!OldIsSibling'
             /\ BoxSteps!PutIsLoaded' /\ BoxSteps!SiblingsKeepTls' /\ BoxSteps!OneWriterOfFiles'
             /\ BoxSteps!PairAtRest' /\ BoxSteps!PairInHand' /\ BoxSteps!SuccessRuns'
  <2>1. /\ work[d].at = "migrate" /\ work[d].status \in {"running", "stopping"}
        /\ BoxSteps!Fails(d) \/ BoxSteps!Finish(d, "start")
        /\ healthy' = healthy /\ dnsRecords' = dnsRecords
        /\ UNCHANGED <<box, pem, vaultKey, certRow, keys, loaded, routed, crossed, runbook,
            torn>>
    BY <1>3, Zenon DEF BoxSteps!Migrate, BoxSteps!In, BoxSteps!Edge, BoxSteps!Material,
       BoxSteps!Rest, BoxSteps!Containers, BoxSteps!DesiredRecords
  <2>2. /\ torn \subseteq HostSites /\ healthy \subseteq BoxSteps!Deploys
        /\ dnsRecords \subseteq HostSites /\ work[d].site \in HostSites
    BY WorkTypes DEF BoxSteps!TypeOK
  <2>3. work[d].at \notin BoxSteps!Writing \cup {"put"}
    BY <2>1 DEF BoxSteps!Writing
  <2> QED BY <2>1, <2>2, <2>3, PlainKeeps
<1>4. ASSUME NEW ok \in BOOLEAN, BoxSteps!HealthCheck(d, ok)
      PROVE  /\ BoxSteps!TypeOK' /\ BoxSteps!InsideTlsAlive' /\ BoxSteps!OldIsSibling'
             /\ BoxSteps!PutIsLoaded' /\ BoxSteps!SiblingsKeepTls' /\ BoxSteps!OneWriterOfFiles'
             /\ BoxSteps!PairAtRest' /\ BoxSteps!PairInHand' /\ BoxSteps!SuccessRuns'
  <2>1. /\ work[d].at = "health" /\ work[d].status \in {"running", "stopping"}
        /\ BoxSteps!Fails(d) \/ BoxSteps!Finish(d, "dns")
        /\ (healthy' = healthy \cup {d} \/ healthy' = healthy \ {d}) /\ dnsRecords' = dnsRecords
        /\ UNCHANGED <<box, pem, vaultKey, certRow, keys, loaded, routed, crossed, runbook,
            torn>>
    BY <1>4, Zenon DEF BoxSteps!HealthCheck, BoxSteps!In, BoxSteps!Edge, BoxSteps!Material,
       BoxSteps!Rest, BoxSteps!Containers, BoxSteps!DesiredRecords
  <2>2. /\ torn \subseteq HostSites /\ healthy \subseteq BoxSteps!Deploys
        /\ dnsRecords \subseteq HostSites /\ work[d].site \in HostSites
    BY WorkTypes DEF BoxSteps!TypeOK
  <2>3. work[d].at \notin BoxSteps!Writing \cup {"put"}
    BY <2>1 DEF BoxSteps!Writing
  <2> QED BY <2>1, <2>2, <2>3, PlainKeeps
<1>5. ASSUME NEW ok \in BOOLEAN, BoxSteps!Dns(d, ok)
      PROVE  /\ BoxSteps!TypeOK' /\ BoxSteps!InsideTlsAlive' /\ BoxSteps!OldIsSibling'
             /\ BoxSteps!PutIsLoaded' /\ BoxSteps!SiblingsKeepTls' /\ BoxSteps!OneWriterOfFiles'
             /\ BoxSteps!PairAtRest' /\ BoxSteps!PairInHand' /\ BoxSteps!SuccessRuns'
  <2>1. /\ work[d].at = "dns" /\ work[d].status \in {"running", "stopping"}
        /\ BoxSteps!Fails(d) \/ BoxSteps!Finish(d, "tls")
        /\ healthy' = healthy
        /\ (dnsRecords' = dnsRecords \cup {work[d].site} \/ dnsRecords' = dnsRecords)
        /\ UNCHANGED <<box, pem, vaultKey, certRow, keys, loaded, routed, crossed, runbook,
            torn>>
    BY <1>5, Zenon DEF BoxSteps!Dns, BoxSteps!In, BoxSteps!Edge, BoxSteps!Material,
       BoxSteps!Rest, BoxSteps!Containers, BoxSteps!DesiredRecords
  <2>2. /\ torn \subseteq HostSites /\ healthy \subseteq BoxSteps!Deploys
        /\ dnsRecords \subseteq HostSites /\ work[d].site \in HostSites
    BY WorkTypes DEF BoxSteps!TypeOK
  <2>3. work[d].at \notin BoxSteps!Writing \cup {"put"}
    BY <2>1 DEF BoxSteps!Writing
  <2> QED BY <2>1, <2>2, <2>3, PlainKeeps
<1>6. ASSUME NEW ok \in BOOLEAN, BoxSteps!Issue(d, ok)
      PROVE  /\ BoxSteps!TypeOK' /\ BoxSteps!InsideTlsAlive' /\ BoxSteps!OldIsSibling'
             /\ BoxSteps!PutIsLoaded' /\ BoxSteps!SiblingsKeepTls' /\ BoxSteps!OneWriterOfFiles'
             /\ BoxSteps!PairAtRest' /\ BoxSteps!PairInHand' /\ BoxSteps!SuccessRuns'
  <2>1. /\ work[d].at = "issue" /\ work[d].status \in {"running", "stopping"}
        /\ BoxSteps!Fails(d) \/ BoxSteps!Goto(d, "keep")
        /\ healthy' = healthy /\ dnsRecords' = dnsRecords
        /\ UNCHANGED <<box, pem, vaultKey, certRow, keys, loaded, routed, crossed, runbook,
            torn>>
    BY <1>6, Zenon DEF BoxSteps!Issue, BoxSteps!In, BoxSteps!Edge, BoxSteps!Material,
       BoxSteps!Rest, BoxSteps!Containers, BoxSteps!DesiredRecords
  <2>2. /\ torn \subseteq HostSites /\ healthy \subseteq BoxSteps!Deploys
        /\ dnsRecords \subseteq HostSites /\ work[d].site \in HostSites
    BY WorkTypes DEF BoxSteps!TypeOK
  <2>3. work[d].at \notin BoxSteps!Writing \cup {"put"}
    BY <2>1 DEF BoxSteps!Writing
  <2> QED BY <2>1, <2>2, <2>3, PlainKeeps
<1>7. ASSUME NEW e \in BoxSteps!Deploys, BoxSteps!Smoke(d, e)
      PROVE  /\ BoxSteps!TypeOK' /\ BoxSteps!InsideTlsAlive' /\ BoxSteps!OldIsSibling'
             /\ BoxSteps!PutIsLoaded' /\ BoxSteps!SiblingsKeepTls' /\ BoxSteps!OneWriterOfFiles'
             /\ BoxSteps!PairAtRest' /\ BoxSteps!PairInHand' /\ BoxSteps!SuccessRuns'
  <2>1. /\ work[d].at = "smoke" /\ work[d].status \in {"running", "stopping"}
        /\ BoxSteps!Fails(d) \/ BoxSteps!Finish(d, "cutover")
        /\ healthy' = healthy /\ dnsRecords' = dnsRecords
        /\ UNCHANGED <<box, pem, vaultKey, certRow, keys, loaded, routed, crossed, runbook,
            torn>>
    BY <1>7, Zenon DEF BoxSteps!Smoke, BoxSteps!In, BoxSteps!Edge, BoxSteps!Material,
       BoxSteps!Rest, BoxSteps!Containers, BoxSteps!DesiredRecords
  <2>2. /\ torn \subseteq HostSites /\ healthy \subseteq BoxSteps!Deploys
        /\ dnsRecords \subseteq HostSites /\ work[d].site \in HostSites
    BY WorkTypes DEF BoxSteps!TypeOK
  <2>3. work[d].at \notin BoxSteps!Writing \cup {"put"}
    BY <2>1 DEF BoxSteps!Writing
  <2> QED BY <2>1, <2>2, <2>3, PlainKeeps
<1> QED BY <1>1, <1>2, <1>3, <1>4, <1>5, <1>6, <1>7

\* The deployment a new one replaces is one of its site that succeeded.
LEMMA PreviousFacts ==
    ASSUME BoxSteps!TypeOK, NEW s \in HostSites, BoxSteps!PreviousSucceeded(s) # 0
    PROVE  /\ BoxSteps!PreviousSucceeded(s) \in BoxSteps!Deploys
           /\ work[BoxSteps!PreviousSucceeded(s)].site = s /\ work[BoxSteps!PreviousSucceeded(s)].status = "succeeded"
<1> DEFINE S == {d \in BoxSteps!Deploys : work[d].site = s /\ work[d].status = "succeeded"}
<1>1. S \in SUBSET (1..Len(work)) /\ Len(work) \in Int /\ 1 \in Int
  BY WorkTypes
<1>2. S # {}
  BY DEF BoxSteps!PreviousSucceeded
<1>3. \E x \in S : \A y \in S : y <= x
  BY <1>1, <1>2, LargestOf
<1>4. BoxSteps!PreviousSucceeded(s) = CHOOSE d \in S : \A e \in S : e <= d
  BY <1>2 DEF BoxSteps!PreviousSucceeded
<1>5. BoxSteps!PreviousSucceeded(s) \in S
  BY <1>3, <1>4
<1> QED BY <1>5

\* A step whose new containers leave every running one of a blue_green site running.
LEMMA MoreRun ==
    ASSUME BoxSteps!SuccessRuns, NEW d \in BoxSteps!Deploys, Touches(d), BoxSteps!Deploys' = BoxSteps!Deploys,
           work'[d].status # "succeeded",
           \A e \in BoxSteps!Deploys : box[e] = "running" /\ work[e].site \notin RecreateSites => box'[e] = "running"
    PROVE  BoxSteps!SuccessRuns'
<1>1. \A e \in BoxSteps!Deploys : work'[e].site = work[e].site
  BY DEF Touches
<1>2. \A e \in BoxSteps!Deploys : work'[e].status = "succeeded" => work[e].status = "succeeded"
  BY DEF Touches
<1> QED BY <1>1, <1>2 DEF BoxSteps!SuccessRuns

\* A write to the files of a site by the one deployment that may.
LEMMA PairStep ==
    ASSUME BoxSteps!TypeOK, BoxSteps!OneWriterOfFiles, BoxSteps!PairAtRest, BoxSteps!PairInHand,
           NEW d \in BoxSteps!Deploys, Touches(d), BoxSteps!Deploys' = BoxSteps!Deploys, torn \subseteq torn',
           \A s \in HostSites : s # work[d].site => pem'[s] = pem[s],
           work[d].site \notin torn' =>
             /\ \A e \in BoxSteps!Deploys : e # d /\ work[e].site = work[d].site => work[e].at \notin BoxSteps!Writing
             /\ IF work'[d].at \in BoxSteps!Writing
                THEN /\ work'[d].had <=> pem'[work[d].site].pcert # 0
                     /\ pem'[work[d].site].pcert = pem'[work[d].site].pkey
                     /\ pem'[work[d].site].cert = IF work'[d].at = "cert" THEN 0 ELSE work'[d].gen
                     /\ pem'[work[d].site].key = IF work'[d].at \in {"cert", "key"} THEN 0 ELSE work'[d].gen
                ELSE /\ pem'[work[d].site].cert = pem'[work[d].site].key
                     /\ pem'[work[d].site].pcert = 0 /\ pem'[work[d].site].pkey = 0
    PROVE  BoxSteps!OneWriterOfFiles' /\ BoxSteps!PairAtRest' /\ BoxSteps!PairInHand'
<1>1. \A e \in BoxSteps!Deploys : work'[e].site = work[e].site /\ work[e].site \in HostSites
  BY WorkTypes DEF Touches
<1>2. \A e \in BoxSteps!Deploys : e # d => work'[e] = work[e]
  BY DEF Touches
<1>3. BoxSteps!OneWriterOfFiles'
  <2> SUFFICES ASSUME NEW s \in HostSites, s \notin torn', NEW e \in BoxSteps!Deploys, NEW f \in BoxSteps!Deploys,
                      work'[e].site = s, work'[f].site = s, work'[e].at \in BoxSteps!Writing,
                      work'[f].at \in BoxSteps!Writing
               PROVE  e = f
    BY DEF BoxSteps!OneWriterOfFiles
  <2>1. CASE s = work[d].site
    BY <2>1, <1>1, <1>2
  <2>2. CASE s # work[d].site
    <3>1. e # d /\ f # d
      BY <2>2, <1>1
    <3>2. work[e].site = s /\ work[f].site = s /\ work[e].at \in BoxSteps!Writing /\ work[f].at \in BoxSteps!Writing
      BY <3>1, <1>2
    <3> QED BY <3>2 DEF BoxSteps!OneWriterOfFiles
  <2> QED BY <2>1, <2>2
<1>4. BoxSteps!PairAtRest'
  <2> SUFFICES ASSUME NEW s \in HostSites, s \notin torn',
                      \A e \in BoxSteps!Deploys : work'[e].site = s => work'[e].at \notin BoxSteps!Writing
               PROVE  pem'[s].cert = pem'[s].key /\ pem'[s].pcert = 0 /\ pem'[s].pkey = 0
    BY DEF BoxSteps!PairAtRest
  <2>1. CASE s = work[d].site
    BY <2>1, <1>1
  <2>2. CASE s # work[d].site
    <3>1. \A e \in BoxSteps!Deploys : work[e].site = s => work[e].at \notin BoxSteps!Writing
      BY <2>2, <1>1, <1>2
    <3> QED BY <2>2, <3>1 DEF BoxSteps!PairAtRest
  <2> QED BY <2>1, <2>2
<1>5. BoxSteps!PairInHand'
  <2> SUFFICES ASSUME NEW e \in BoxSteps!Deploys, work'[e].at \in BoxSteps!Writing, work'[e].site \notin torn'
               PROVE  /\ work'[e].had <=> pem'[work'[e].site].pcert # 0
                      /\ pem'[work'[e].site].pcert = pem'[work'[e].site].pkey
                      /\ pem'[work'[e].site].cert = IF work'[e].at = "cert" THEN 0 ELSE work'[e].gen
                      /\ pem'[work'[e].site].key = IF work'[e].at \in {"cert", "key"} THEN 0 ELSE work'[e].gen
    BY DEF BoxSteps!PairInHand
  <2>1. CASE e = d
    BY <2>1, <1>1
  <2>2. CASE e # d
    <3>1. work'[e] = work[e] /\ work[e].site # work[d].site
      BY <2>2, <1>1, <1>2
    <3>2. pem'[work[e].site] = pem[work[e].site] /\ work[e].site \notin torn
      BY <3>1, <1>1
    <3> QED BY <3>1, <3>2 DEF BoxSteps!PairInHand
  <2> QED BY <2>1, <2>2
<1> QED BY <1>3, <1>4, <1>5

\* The files of one site change.
LEMMA PemEdit ==
    ASSUME BoxSteps!TypeOK, NEW s \in HostSites,
           NEW r \in [cert : 0..keys, key : 0..keys, pcert : 0..keys, pkey : 0..keys], pem' = [pem EXCEPT ![s] = r]
    PROVE  /\ pem' \in [HostSites -> [cert : 0..keys, key : 0..keys, pcert : 0..keys, pkey : 0..keys]]
           /\ pem'[s] = r /\ \A z \in HostSites : z # s => pem'[z] = pem[z]
<1>1. pem \in [HostSites -> [cert : 0..keys, key : 0..keys, pcert : 0..keys, pkey : 0..keys]]
  BY DEF BoxSteps!TypeOK
<1> QED BY <1>1

\* A step that changes at most the files of its site keeps everything else.
LEMMA PushStep ==
    ASSUME BoxSteps!TypeOK, BoxSteps!InsideTlsAlive, BoxSteps!OldIsSibling, BoxSteps!PutIsLoaded, BoxSteps!SiblingsKeepTls,
           BoxSteps!OneWriterOfFiles, BoxSteps!PairAtRest, BoxSteps!PairInHand, BoxSteps!SuccessRuns,
           NEW d \in BoxSteps!Deploys, Touches(d), BoxSteps!Deploys' = BoxSteps!Deploys,
           work'[d].old = work[d].old, work'[d].gen = work[d].gen, work'[d].at # "put",
           work'[d].at \in BoxSteps!InTls \ {"tls"} => work'[d].status \in {"running", "stopping"},
           work'[d].status = "succeeded" => work[d].status = "succeeded",
           pem' \in [HostSites -> [cert : 0..keys, key : 0..keys, pcert : 0..keys, pkey : 0..keys]],
           certRow' \in [HostSites -> 0..keys], torn' \subseteq HostSites,
           BoxSteps!OneWriterOfFiles', BoxSteps!PairAtRest', BoxSteps!PairInHand',
           UNCHANGED <<box, vaultKey, keys, loaded, routed, crossed, runbook, healthy, dnsRecords>>
    PROVE  BoxSteps!TypeOK' /\ BoxSteps!InsideTlsAlive' /\ BoxSteps!OldIsSibling' /\ BoxSteps!PutIsLoaded'
           /\ BoxSteps!SiblingsKeepTls' /\ BoxSteps!OneWriterOfFiles' /\ BoxSteps!PairAtRest' /\ BoxSteps!PairInHand'
           /\ BoxSteps!SuccessRuns'
<1>1. /\ work[d].old \in Nat /\ work[d].old < d /\ work[d].gen <= keys /\ keys \in Nat /\ keys <= keys
      /\ work[d].old # 0 => work[work[d].old].site = work[d].site
  BY WorkTypes DEF BoxSteps!TypeOK, BoxSteps!OldIsSibling
<1>2. /\ keys' = keys /\ vaultKey' = vaultKey /\ runbook' = runbook /\ loaded' = loaded /\ routed' = routed
      /\ crossed' = crossed /\ crossed \in BOOLEAN /\ vaultKey \in [HostSites -> 0..keys] /\ box' = box
      /\ box \in Seq({"none", "running", "stopped"}) /\ healthy' = healthy /\ healthy \subseteq BoxSteps!Deploys
      /\ dnsRecords' = dnsRecords /\ dnsRecords \subseteq HostSites
      /\ runbook \in [HostSites -> 0..Len(work)] /\ routed \subseteq HostSites /\ loaded \subseteq HostSites
  BY Zenon DEF BoxSteps!TypeOK
<1>3. BoxSteps!TypeOK'
  BY <1>1, <1>2, TypeFrame
<1>4. BoxSteps!InsideTlsAlive'
  BY AliveFrame
<1>5. BoxSteps!OldIsSibling'
  BY <1>1, OldFrame
<1>6. BoxSteps!PutIsLoaded' /\ BoxSteps!SiblingsKeepTls'
  BY EdgeFrame
<1>7. BoxSteps!SuccessRuns'
  BY RunFrame
<1> QED BY <1>3, <1>4, <1>5, <1>6, <1>7

\* push_tls_material() and the row that follows it.
LEMMA PushKeeps ==
    ASSUME BoxSteps!TypeOK, BoxSteps!InsideTlsAlive, BoxSteps!OldIsSibling, BoxSteps!PutIsLoaded, BoxSteps!SiblingsKeepTls,
           BoxSteps!OneWriterOfFiles, BoxSteps!PairAtRest, BoxSteps!PairInHand, BoxSteps!SuccessRuns,
           NEW d \in BoxSteps!Deploys,
           (\/ BoxSteps!KeepPrevious(d) \/ BoxSteps!WriteCert(d) \/ BoxSteps!WriteKey(d) \/ BoxSteps!Reload(d)
            \/ BoxSteps!PushFails(d) \/ BoxSteps!CertificateRow(d))
    PROVE  BoxSteps!TypeOK' /\ BoxSteps!InsideTlsAlive' /\ BoxSteps!OldIsSibling' /\ BoxSteps!PutIsLoaded'
           /\ BoxSteps!SiblingsKeepTls' /\ BoxSteps!OneWriterOfFiles' /\ BoxSteps!PairAtRest' /\ BoxSteps!PairInHand'
           /\ BoxSteps!SuccessRuns'
<1> DEFINE s == work[d].site
           Pem == [cert : 0..keys, key : 0..keys, pcert : 0..keys, pkey : 0..keys]
<1>1. /\ s \in HostSites /\ work[d].gen \in 0..keys /\ work[d].had \in BOOLEAN /\ keys \in Nat
      /\ pem \in [HostSites -> Pem] /\ pem[s] \in Pem /\ torn \subseteq HostSites
      /\ certRow \in [HostSites -> 0..keys]
  <2>1. s \in HostSites /\ work[d].gen \in Nat /\ work[d].had \in BOOLEAN
    BY WorkTypes
  <2>2. work[d].gen <= keys /\ keys \in Nat /\ torn \subseteq HostSites /\ certRow \in [HostSites -> 0..keys]
    BY DEF BoxSteps!TypeOK
  <2>3. pem \in [HostSites -> Pem]
    BY Zenon DEF BoxSteps!TypeOK
  <2> HIDE DEF Pem
  <2> QED BY <2>1, <2>2, <2>3
<1>2. /\ pem[s].cert \in 0..keys /\ pem[s].key \in 0..keys /\ pem[s].pcert \in 0..keys /\ pem[s].pkey \in 0..keys
  BY <1>1
<1>3. /\ {"cert", "key", "reload", "row", "tls", "app"} \subseteq BoxSteps!Places
      /\ BoxSteps!Writing \subseteq BoxSteps!Pushing /\ BoxSteps!Writing \subseteq BoxSteps!InTls \ {"tls"}
  BY DEF BoxSteps!Places, BoxSteps!InTls, BoxSteps!Pushing, BoxSteps!Writing
\* A deployment that writes is the only one, and finds the pair in its hand.
<1>4. ASSUME work[d].at \in BoxSteps!Writing, s \notin torn
      PROVE  /\ \A e \in BoxSteps!Deploys : e # d /\ work[e].site = s => work[e].at \notin BoxSteps!Writing
             /\ work[d].had <=> pem[s].pcert # 0
             /\ pem[s].pcert = pem[s].pkey
             /\ pem[s].cert = IF work[d].at = "cert" THEN 0 ELSE work[d].gen
             /\ pem[s].key = IF work[d].at \in {"cert", "key"} THEN 0 ELSE work[d].gen
  BY <1>1, <1>4 DEF BoxSteps!OneWriterOfFiles, BoxSteps!PairInHand
<1>5. CASE BoxSteps!KeepPrevious(d)
  <2> DEFINE had == pem[s].cert # 0
             beside == \E e \in BoxSteps!Deploys \ {d} : /\ work[e].site = s /\ work[e].at \in BoxSteps!Pushing
                                                      /\ work[e].status \in {"running", "stopping"}
             moved1 == [cert |-> 0, key |-> 0, pcert |-> pem[s].cert,
                        pkey |-> IF pem[s].key # 0 THEN pem[s].key ELSE pem[s].pkey]
  <2>1. /\ work[d].at = "keep" /\ work[d].status \in {"running", "stopping"}
        /\ work' = [work EXCEPT ![d].at = "cert", ![d].had = had]
        /\ pem' = IF had THEN BoxSteps!Moved(pem, s) ELSE pem
        /\ torn' = IF beside THEN torn \cup {s} ELSE torn
        /\ UNCHANGED <<box, vaultKey, certRow, keys, loaded, routed, crossed, runbook, healthy, dnsRecords>>
    BY <1>5, Zenon DEF BoxSteps!KeepPrevious, BoxSteps!In, BoxSteps!Edge, BoxSteps!Containers
  <2>2. had \in BOOLEAN
    OBVIOUS
  <2>3. /\ Touches(d) /\ BoxSteps!Deploys' = BoxSteps!Deploys /\ work'[d].old = work[d].old
        /\ work'[d].gen = work[d].gen /\ work'[d].at = "cert" /\ work'[d].had = had
        /\ work'[d].status = work[d].status
    <3> HIDE DEF had
    <3> QED BY <1>3, <2>1, <2>2, HadFacts
  <2>4. moved1 \in Pem
    BY <1>1, <1>2
  <2>5. pem' = [pem EXCEPT ![s] = IF had THEN moved1 ELSE pem[s]]
    BY <1>1, <2>1 DEF BoxSteps!Moved
  <2>6. (IF had THEN moved1 ELSE pem[s]) \in Pem
    BY <1>1, <2>4
  <2>7. /\ pem' \in [HostSites -> Pem] /\ pem'[s] = (IF had THEN moved1 ELSE pem[s])
        /\ \A z \in HostSites : z # s => pem'[z] = pem[z]
    BY <1>1, <2>5, <2>6, PemEdit
  <2>8. torn \subseteq torn' /\ torn' \subseteq HostSites
    BY <1>1, <2>1
  <2>9. ASSUME s \notin torn'
        PROVE  \A e \in BoxSteps!Deploys : e # d /\ work[e].site = s => work[e].at \notin BoxSteps!Writing
    <3>1. ~beside
      BY <2>1, <2>9
    <3> QED BY <1>3, <3>1 DEF BoxSteps!InsideTlsAlive
  <2>10. ASSUME s \notin torn'
         PROVE  pem[s].cert = pem[s].key /\ pem[s].pcert = 0 /\ pem[s].pkey = 0
    <3>1. \A e \in BoxSteps!Deploys : work[e].site = s => work[e].at \notin BoxSteps!Writing
      BY <2>1, <2>9, <2>10 DEF BoxSteps!Writing
    <3> QED BY <1>1, <2>8, <2>10, <3>1 DEF BoxSteps!PairAtRest
  <2>11. ASSUME s \notin torn'
         PROVE  /\ work'[d].had <=> pem'[s].pcert # 0
                /\ pem'[s].pcert = pem'[s].pkey /\ pem'[s].cert = 0 /\ pem'[s].key = 0
    <3>1. CASE had
      <4>1. pem'[s] = moved1 /\ pem[s].key = pem[s].cert /\ pem[s].cert # 0
        BY <2>7, <2>10, <2>11, <3>1
      <4>2. moved1.cert = 0 /\ moved1.key = 0 /\ moved1.pcert = pem[s].cert /\ moved1.pkey = pem[s].key
        BY <4>1
      <4>3. work'[d].had
        BY <2>3, <3>1, Zenon
      <4> HIDE DEF moved1
      <4> QED BY <4>1, <4>2, <4>3
    <3>2. CASE ~had
      BY <1>1, <2>3, <2>7, <2>10, <2>11, <3>2
    <3> QED BY <3>1, <3>2
  <2>12. BoxSteps!OneWriterOfFiles' /\ BoxSteps!PairAtRest' /\ BoxSteps!PairInHand'
    <3> HIDE DEF had, beside, moved1
    <3> QED BY <2>3, <2>7, <2>8, <2>9, <2>11, PairStep DEF BoxSteps!Writing
  <2> QED BY <2>1, <2>3, <2>7, <2>8, <2>12, <1>1, PushStep
<1>6. CASE BoxSteps!WriteCert(d)
  <2>1. /\ work[d].at = "cert" /\ work[d].status \in {"running", "stopping"} /\ BoxSteps!Goto(d, "key")
        /\ pem' = [pem EXCEPT ![s].cert = work[d].gen]
        /\ UNCHANGED <<box, vaultKey, certRow, keys, loaded, routed, crossed, runbook, healthy, dnsRecords, torn>>
    BY <1>6, Zenon DEF BoxSteps!WriteCert, BoxSteps!In, BoxSteps!Edge, BoxSteps!Containers, BoxSteps!Rest
  <2>2. /\ Touches(d) /\ BoxSteps!Deploys' = BoxSteps!Deploys /\ Keeps(d) /\ work'[d].at = "key"
        /\ work'[d].status = work[d].status
    BY <1>3, <2>1, GotoFacts
  <2>3. /\ [pem[s] EXCEPT !.cert = work[d].gen] \in Pem /\ [pem[s] EXCEPT !.cert = work[d].gen].cert = work[d].gen
        /\ [pem[s] EXCEPT !.cert = work[d].gen].key = pem[s].key
        /\ [pem[s] EXCEPT !.cert = work[d].gen].pcert = pem[s].pcert
        /\ [pem[s] EXCEPT !.cert = work[d].gen].pkey = pem[s].pkey
    BY <1>1
  <2>4. /\ pem' \in [HostSites -> Pem] /\ pem'[s] = [pem[s] EXCEPT !.cert = work[d].gen]
        /\ \A z \in HostSites : z # s => pem'[z] = pem[z]
    BY <1>1, <2>1, <2>3, PemEdit
  <2>5. ASSUME s \notin torn
        PROVE  /\ \A e \in BoxSteps!Deploys : e # d /\ work[e].site = s => work[e].at \notin BoxSteps!Writing
               /\ work'[d].had <=> pem'[s].pcert # 0
               /\ pem'[s].pcert = pem'[s].pkey
               /\ pem'[s].cert = work'[d].gen /\ pem'[s].key = 0
    <3>1. work[d].at \in BoxSteps!Writing
      BY <2>1 DEF BoxSteps!Writing
    <3> QED BY <1>4, <2>1, <2>2, <2>3, <2>4, <2>5, <3>1 DEF Keeps
  <2>6. BoxSteps!OneWriterOfFiles' /\ BoxSteps!PairAtRest' /\ BoxSteps!PairInHand'
    BY <2>1, <2>2, <2>4, <2>5, PairStep DEF BoxSteps!Writing
  <2> QED BY <2>1, <2>2, <2>4, <2>6, <1>1, PushStep DEF Keeps
<1>7. CASE BoxSteps!WriteKey(d)
  <2>1. /\ work[d].at = "key" /\ work[d].status \in {"running", "stopping"} /\ BoxSteps!Goto(d, "reload")
        /\ pem' = [pem EXCEPT ![s].key = work[d].gen]
        /\ UNCHANGED <<box, vaultKey, certRow, keys, loaded, routed, crossed, runbook, healthy, dnsRecords, torn>>
    BY <1>7, Zenon DEF BoxSteps!WriteKey, BoxSteps!In, BoxSteps!Edge, BoxSteps!Containers, BoxSteps!Rest
  <2>2. /\ Touches(d) /\ BoxSteps!Deploys' = BoxSteps!Deploys /\ Keeps(d) /\ work'[d].at = "reload"
        /\ work'[d].status = work[d].status
    BY <1>3, <2>1, GotoFacts
  <2>3. /\ [pem[s] EXCEPT !.key = work[d].gen] \in Pem /\ [pem[s] EXCEPT !.key = work[d].gen].key = work[d].gen
        /\ [pem[s] EXCEPT !.key = work[d].gen].cert = pem[s].cert
        /\ [pem[s] EXCEPT !.key = work[d].gen].pcert = pem[s].pcert
        /\ [pem[s] EXCEPT !.key = work[d].gen].pkey = pem[s].pkey
    BY <1>1
  <2>4. /\ pem' \in [HostSites -> Pem] /\ pem'[s] = [pem[s] EXCEPT !.key = work[d].gen]
        /\ \A z \in HostSites : z # s => pem'[z] = pem[z]
    BY <1>1, <2>1, <2>3, PemEdit
  <2>5. ASSUME s \notin torn
        PROVE  /\ \A e \in BoxSteps!Deploys : e # d /\ work[e].site = s => work[e].at \notin BoxSteps!Writing
               /\ work'[d].had <=> pem'[s].pcert # 0
               /\ pem'[s].pcert = pem'[s].pkey
               /\ pem'[s].cert = work'[d].gen /\ pem'[s].key = work'[d].gen
    <3>1. work[d].at \in BoxSteps!Writing
      BY <2>1 DEF BoxSteps!Writing
    <3> QED BY <1>4, <2>1, <2>2, <2>3, <2>4, <2>5, <3>1 DEF Keeps
  <2>6. BoxSteps!OneWriterOfFiles' /\ BoxSteps!PairAtRest' /\ BoxSteps!PairInHand'
    BY <2>1, <2>2, <2>4, <2>5, PairStep DEF BoxSteps!Writing
  <2> QED BY <2>1, <2>2, <2>4, <2>6, <1>1, PushStep DEF Keeps
<1>8. CASE BoxSteps!Reload(d)
  <2>1. /\ work[d].at = "reload" /\ work[d].status \in {"running", "stopping"} /\ BoxSteps!Goto(d, "row")
        /\ UNCHANGED <<box, pem, vaultKey, certRow, keys, loaded, routed, crossed, runbook, healthy, dnsRecords, torn>>
    BY <1>8, Zenon DEF BoxSteps!Reload, BoxSteps!In, BoxSteps!Edge, BoxSteps!Containers, BoxSteps!Rest, BoxSteps!Material
  <2>2. /\ Touches(d) /\ BoxSteps!Deploys' = BoxSteps!Deploys /\ Keeps(d) /\ work'[d].at = "row"
        /\ work'[d].status = work[d].status
    BY <1>3, <2>1, GotoFacts
  <2>3. BoxSteps!OneWriterOfFiles' /\ BoxSteps!PairAtRest' /\ BoxSteps!PairInHand'
    BY <1>4, <2>1, <2>2, PairStep DEF Keeps, BoxSteps!Writing
  <2> QED BY <2>1, <2>2, <2>3, <1>1, PushStep DEF Keeps
<1>9. CASE BoxSteps!PushFails(d)
  <2> DEFINE back == [cert |-> IF pem[s].pcert # 0 THEN pem[s].pcert ELSE pem[s].cert,
                      key |-> IF pem[s].pkey # 0 THEN pem[s].pkey ELSE pem[s].key, pcert |-> 0, pkey |-> 0]
  <2>1. /\ work[d].at \in {"cert", "key", "reload"} /\ work[d].status \in {"running", "stopping"} /\ BoxSteps!Fails(d)
        /\ pem' = IF work[d].had THEN BoxSteps!RestorePrev(pem, s) ELSE pem
        /\ torn' = IF work[d].had THEN torn ELSE torn \cup {s}
        /\ UNCHANGED <<box, vaultKey, certRow, keys, loaded, routed, crossed, runbook, healthy, dnsRecords>>
    BY <1>9, Zenon DEF BoxSteps!PushFails, BoxSteps!In, BoxSteps!Edge, BoxSteps!Containers
  <2>2. /\ Touches(d) /\ BoxSteps!Deploys' = BoxSteps!Deploys /\ Keeps(d) /\ work'[d].status # "succeeded"
        /\ work'[d].at = (IF work[d].at \in BoxSteps!InTls THEN "tls" ELSE work[d].at)
    BY <2>1, FailsFacts
  <2>3. work[d].at \in BoxSteps!Writing /\ work'[d].at = "tls"
    BY <2>1, <2>2 DEF BoxSteps!Writing, BoxSteps!InTls, BoxSteps!Pushing
  <2>4. back \in Pem /\ (IF work[d].had THEN back ELSE pem[s]) \in Pem
    BY <1>1, <1>2
  <2>5. pem' = [pem EXCEPT ![s] = IF work[d].had THEN back ELSE pem[s]]
    BY <1>1, <2>1 DEF BoxSteps!RestorePrev
  <2>6. /\ pem' \in [HostSites -> Pem] /\ pem'[s] = (IF work[d].had THEN back ELSE pem[s])
        /\ \A z \in HostSites : z # s => pem'[z] = pem[z]
    <3> HIDE DEF back
    <3> QED BY <1>1, <2>4, <2>5, PemEdit
  <2>7. torn \subseteq torn' /\ torn' \subseteq HostSites
    BY <1>1, <2>1
  <2>8. ASSUME s \notin torn'
        PROVE  /\ \A e \in BoxSteps!Deploys : e # d /\ work[e].site = s => work[e].at \notin BoxSteps!Writing
               /\ pem'[s].cert = pem'[s].key /\ pem'[s].pcert = 0 /\ pem'[s].pkey = 0
    <3>1. work[d].had /\ s \notin torn
      BY <2>1, <2>8
    <3>2. pem'[s] = back /\ pem[s].pcert # 0 /\ pem[s].pkey = pem[s].pcert
      BY <1>4, <2>3, <2>6, <3>1
    <3> QED BY <1>4, <2>3, <3>1, <3>2
  <2>9. BoxSteps!OneWriterOfFiles' /\ BoxSteps!PairAtRest' /\ BoxSteps!PairInHand'
    <3> HIDE DEF back
    <3> QED BY <2>2, <2>3, <2>6, <2>7, <2>8, PairStep DEF BoxSteps!Writing
  <2> QED BY <2>1, <2>2, <2>3, <2>6, <2>7, <2>9, <1>1, PushStep DEF Keeps
<1>10. CASE BoxSteps!CertificateRow(d)
  <2> DEFINE clean == [pem[s] EXCEPT !.pcert = 0, !.pkey = 0]
  <2>1. /\ work[d].at = "row" /\ work[d].status \in {"running", "stopping"} /\ BoxSteps!Goto(d, "app")
        /\ pem' = [pem EXCEPT ![s] = IF work[d].had THEN clean ELSE pem[s]]
        /\ certRow' = [certRow EXCEPT ![s] = work[d].gen]
        /\ UNCHANGED <<box, vaultKey, keys, loaded, routed, crossed, runbook, healthy, dnsRecords, torn>>
    BY <1>10, Zenon DEF BoxSteps!CertificateRow, BoxSteps!In, BoxSteps!Edge, BoxSteps!Containers, BoxSteps!Rest
  <2>2. /\ Touches(d) /\ BoxSteps!Deploys' = BoxSteps!Deploys /\ Keeps(d) /\ work'[d].at = "app"
        /\ work'[d].status = work[d].status
    BY <1>3, <2>1, GotoFacts
  <2>3. clean \in Pem /\ clean.cert = pem[s].cert /\ clean.key = pem[s].key /\ clean.pcert = 0 /\ clean.pkey = 0
    <3>1. pem[s] \in Pem /\ 0 \in 0..keys
      BY <1>1
    <3> QED BY <3>1
  <2> HIDE DEF clean
  <2>4. (IF work[d].had THEN clean ELSE pem[s]) \in Pem
    BY <1>1, <2>3
  <2>5. /\ pem' \in [HostSites -> Pem] /\ pem'[s] = (IF work[d].had THEN clean ELSE pem[s])
        /\ \A z \in HostSites : z # s => pem'[z] = pem[z]
    BY <1>1, <2>1, <2>4, PemEdit
  <2>6. work[d].at \in BoxSteps!Writing /\ certRow' \in [HostSites -> 0..keys]
    BY <1>1, <2>1 DEF BoxSteps!Writing
  <2>7. ASSUME s \notin torn
        PROVE  /\ \A e \in BoxSteps!Deploys : e # d /\ work[e].site = s => work[e].at \notin BoxSteps!Writing
               /\ pem'[s].cert = pem'[s].key /\ pem'[s].pcert = 0 /\ pem'[s].pkey = 0
    BY <1>4, <2>1, <2>3, <2>5, <2>6, <2>7
  <2>8. BoxSteps!OneWriterOfFiles' /\ BoxSteps!PairAtRest' /\ BoxSteps!PairInHand'
    BY <2>1, <2>2, <2>5, <2>7, PairStep DEF BoxSteps!Writing
  <2> QED BY <2>1, <2>2, <2>5, <2>6, <2>8, <1>1, PushStep DEF Keeps
<1> QED BY <1>5, <1>6, <1>7, <1>8, <1>9, <1>10

\* The containers of a host change in one place.
LEMMA BoxEdit ==
    ASSUME BoxSteps!TypeOK, NEW d \in BoxSteps!Deploys, NEW c \in {"none", "running", "stopped"},
           NEW b \in Seq({"none", "running", "stopped"}), Len(b) = Len(box)
    PROVE  /\ [b EXCEPT ![d] = c] \in Seq({"none", "running", "stopped"}) /\ Len([b EXCEPT ![d] = c]) = Len(box)
           /\ [b EXCEPT ![d] = c][d] = c
           /\ \A e \in BoxSteps!Deploys : e # d => [b EXCEPT ![d] = c][e] = b[e]
<1>1. d \in DOMAIN b /\ DOMAIN b = BoxSteps!Deploys
  BY WorkTypes DEF BoxSteps!TypeOK
<1> QED BY <1>1

\* start: whatever is stopped is the predecessor in a recreate site.
LEMMA StartKeeps ==
    ASSUME BoxSteps!TypeOK, BoxSteps!InsideTlsAlive, BoxSteps!OldIsSibling, BoxSteps!PutIsLoaded, BoxSteps!SiblingsKeepTls,
           BoxSteps!OneWriterOfFiles, BoxSteps!PairAtRest, BoxSteps!PairInHand, BoxSteps!SuccessRuns,
           NEW d \in BoxSteps!Deploys, NEW ok \in BOOLEAN, BoxSteps!Start(d, ok)
    PROVE  BoxSteps!TypeOK' /\ BoxSteps!InsideTlsAlive' /\ BoxSteps!OldIsSibling' /\ BoxSteps!PutIsLoaded'
           /\ BoxSteps!SiblingsKeepTls' /\ BoxSteps!OneWriterOfFiles' /\ BoxSteps!PairAtRest' /\ BoxSteps!PairInHand'
           /\ BoxSteps!SuccessRuns'
<1> DEFINE o == work[d].old
           base == IF box[d] = "stopped" THEN box ELSE BoxSteps!StopOld(d)
           Boxes == Seq({"none", "running", "stopped"})
<1>1. /\ work[d].at = "start" /\ work[d].status \in {"running", "stopping"}
      /\ BoxSteps!Finish(d, "health") \/ BoxSteps!Fails(d)
      /\ UNCHANGED <<pem, vaultKey, certRow, keys, loaded, routed, crossed, runbook, healthy, dnsRecords, torn>>
  BY Zenon DEF BoxSteps!Start, BoxSteps!In, BoxSteps!Edge, BoxSteps!Material, BoxSteps!Rest
<1>2. box' = box \/ box' = [base EXCEPT ![d] = IF ok THEN "running" ELSE base[d]]
  BY Zenon DEF BoxSteps!Start, BoxSteps!Run
<1>3. /\ box \in Boxes /\ \A e \in BoxSteps!Deploys : box[e] \in {"none", "running", "stopped"}
      /\ o \in Nat /\ o < d /\ (o # 0 => o \in BoxSteps!Deploys /\ work[o].site = work[d].site)
  BY WorkTypes DEF BoxSteps!TypeOK, BoxSteps!OldIsSibling
<1>4. /\ base \in Boxes /\ Len(base) = Len(box)
      /\ \A e \in BoxSteps!Deploys : /\ base[e] \in {"none", "running", "stopped"}
                                     /\ box[e] = "running" /\ work[e].site \notin RecreateSites => base[e] = "running"
  <2>1. CASE base = box
    BY <2>1, <1>3
  <2>2. CASE base # box
    <3>1. o # 0 /\ work[d].site \in RecreateSites /\ base = [box EXCEPT ![o] = "stopped"]
      BY <2>2, Zenon DEF BoxSteps!StopOld, BoxSteps!Recreate
    <3>2. o \in BoxSteps!Deploys /\ work[o].site \in RecreateSites
      BY <1>3, <3>1
    <3> HIDE DEF base, o
    <3>3. /\ base \in Boxes /\ Len(base) = Len(box) /\ base[o] = "stopped"
          /\ \A e \in BoxSteps!Deploys : e # o => base[e] = box[e]
      BY <1>3, <3>1, <3>2, BoxEdit
    <3> QED BY <1>3, <3>2, <3>3
  <2> QED BY <2>1, <2>2
<1>5. /\ box' \in Boxes /\ Len(box') = Len(box)
      /\ \A e \in BoxSteps!Deploys : box[e] = "running" /\ work[e].site \notin RecreateSites => box'[e] = "running"
  <2>1. CASE box' = box
    BY <2>1, <1>3
  <2>2. CASE box' = [base EXCEPT ![d] = IF ok THEN "running" ELSE base[d]]
    <3> DEFINE c == IF ok THEN "running" ELSE base[d]
    <3>1. c \in {"none", "running", "stopped"} /\ (base[d] = "running" => c = "running")
      BY <1>4
    <3>2. box' = [base EXCEPT ![d] = c]
      BY <2>2
    <3> HIDE DEF base, c
    <3>3. /\ box' \in Boxes /\ Len(box') = Len(box) /\ box'[d] = c
          /\ \A e \in BoxSteps!Deploys : e # d => box'[e] = base[e]
      BY <1>4, <3>1, <3>2, BoxEdit
    <3> QED BY <1>4, <3>1, <3>3
  <2> QED BY <2>1, <2>2, <1>2
<1>6. torn \subseteq HostSites /\ healthy \subseteq BoxSteps!Deploys /\ dnsRecords \subseteq HostSites
  BY DEF BoxSteps!TypeOK
<1>7. work[d].at \notin BoxSteps!Writing \cup {"put"}
  BY <1>1 DEF BoxSteps!Writing
<1>8. /\ BoxSteps!TypeOK' /\ BoxSteps!InsideTlsAlive' /\ BoxSteps!OldIsSibling' /\ BoxSteps!PutIsLoaded'
           /\ BoxSteps!SiblingsKeepTls' /\ BoxSteps!OneWriterOfFiles' /\ BoxSteps!PairAtRest' /\ BoxSteps!PairInHand'
      /\ Touches(d) /\ BoxSteps!Deploys' = BoxSteps!Deploys /\ work'[d].status # "succeeded"
  BY <1>1, <1>5, <1>6, <1>7, PlainStep
<1> QED BY <1>5, <1>8, MoreRun

\* ensure_site_certificate(): the pushing steps start from a new key.
LEMMA CertificateKeeps ==
    ASSUME BoxSteps!TypeOK, BoxSteps!InsideTlsAlive, BoxSteps!OldIsSibling, BoxSteps!PutIsLoaded, BoxSteps!SiblingsKeepTls,
           BoxSteps!OneWriterOfFiles, BoxSteps!PairAtRest, BoxSteps!PairInHand, BoxSteps!SuccessRuns,
           NEW d \in BoxSteps!Deploys, BoxSteps!Certificate(d)
    PROVE  BoxSteps!TypeOK' /\ BoxSteps!InsideTlsAlive' /\ BoxSteps!OldIsSibling' /\ BoxSteps!PutIsLoaded'
           /\ BoxSteps!SiblingsKeepTls' /\ BoxSteps!OneWriterOfFiles' /\ BoxSteps!PairAtRest' /\ BoxSteps!PairInHand'
           /\ BoxSteps!SuccessRuns'
<1> DEFINE s == work[d].site
<1>1. /\ work[d].at = "tls" /\ work[d].status \in {"running", "stopping"}
      /\ UNCHANGED <<box, pem, certRow, loaded, routed, crossed, runbook, healthy, dnsRecords, torn>>
      /\ \/ BoxSteps!Goto(d, "app") /\ UNCHANGED <<keys, vaultKey>>
         \/ /\ keys' = keys + 1 /\ vaultKey' = [vaultKey EXCEPT ![s] = keys + 1]
            /\ work' = [work EXCEPT ![d].at = "issue", ![d].gen = keys + 1]
  BY Zenon DEF BoxSteps!Certificate, BoxSteps!In, BoxSteps!Containers, BoxSteps!Edge, BoxSteps!Rest
<1>2. /\ torn \subseteq HostSites /\ healthy \subseteq BoxSteps!Deploys /\ dnsRecords \subseteq HostSites
      /\ s \in HostSites /\ keys \in Nat /\ work[d].old \in Nat /\ work[d].old < d
      /\ work[d].old # 0 => work[work[d].old].site = work[d].site
  BY WorkTypes DEF BoxSteps!TypeOK, BoxSteps!OldIsSibling
<1>3. work[d].at \notin BoxSteps!Writing \cup {"put"}
  BY <1>1 DEF BoxSteps!Writing
<1>4. CASE BoxSteps!Goto(d, "app") /\ UNCHANGED <<keys, vaultKey>>
  BY <1>1, <1>2, <1>3, <1>4, PlainKeeps
<1>5. CASE /\ keys' = keys + 1 /\ vaultKey' = [vaultKey EXCEPT ![s] = keys + 1]
           /\ work' = [work EXCEPT ![d].at = "issue", ![d].gen = keys + 1]
  <2>1. "issue" \in BoxSteps!Places /\ keys + 1 \in Nat
    BY <1>2 DEF BoxSteps!Places, BoxSteps!InTls
  <2>2. /\ Touches(d) /\ BoxSteps!Deploys' = BoxSteps!Deploys /\ work'[d].old = work[d].old
        /\ work'[d].gen = keys + 1 /\ work'[d].at = "issue" /\ work'[d].status = work[d].status
    BY <1>5, <2>1, KeyFacts
  <2>3. /\ keys' \in Nat /\ keys <= keys' /\ work'[d].gen <= keys' /\ work'[d].old < d
    BY <1>2, <1>5, <2>2
  <2>4. /\ pem' \in [HostSites -> [cert : 0..keys', key : 0..keys', pcert : 0..keys', pkey : 0..keys']]
    <3>1. pem' = pem /\ pem \in [HostSites -> [cert : 0..keys, key : 0..keys, pcert : 0..keys, pkey : 0..keys]]
      BY <1>1, Zenon DEF BoxSteps!TypeOK
    <3>2. 0..keys \subseteq 0..keys'
      BY <1>2, <2>3
    <3>3. [cert : 0..keys, key : 0..keys, pcert : 0..keys, pkey : 0..keys]
          \subseteq [cert : 0..keys', key : 0..keys', pcert : 0..keys', pkey : 0..keys']
      BY <3>2
    <3> QED BY <3>1, <3>3
  <2>5. vaultKey' \in [HostSites -> 0..keys'] /\ certRow' \in [HostSites -> 0..keys']
    <3>1. /\ vaultKey \in [HostSites -> 0..keys] /\ certRow \in [HostSites -> 0..keys] /\ certRow' = certRow
      BY <1>1 DEF BoxSteps!TypeOK
    <3>2. 0..keys \subseteq 0..keys' /\ keys + 1 \in 0..keys'
      BY <1>2, <1>5
    <3> QED BY <1>5, <3>1, <3>2
  <2>6. /\ runbook' = runbook /\ loaded' = loaded /\ routed' = routed /\ crossed' = crossed /\ crossed \in BOOLEAN
        /\ box' = box /\ box \in Seq({"none", "running", "stopped"}) /\ healthy' = healthy
        /\ dnsRecords' = dnsRecords /\ torn' = torn /\ pem' = pem
        /\ runbook \in [HostSites -> 0..Len(work)] /\ routed \subseteq HostSites /\ loaded \subseteq HostSites
    BY <1>1, Zenon DEF BoxSteps!TypeOK
  <2>7. BoxSteps!TypeOK'
    BY <1>2, <2>2, <2>3, <2>4, <2>5, <2>6, TypeFrame
  <2>8. BoxSteps!InsideTlsAlive'
    BY <1>1, <2>2, AliveFrame
  <2>9. BoxSteps!OldIsSibling'
    BY <1>2, <2>2, OldFrame
  <2>10. BoxSteps!PutIsLoaded' /\ BoxSteps!SiblingsKeepTls'
    BY <2>2, <2>6, EdgeFrame
  <2>11. BoxSteps!OneWriterOfFiles' /\ BoxSteps!PairAtRest' /\ BoxSteps!PairInHand'
    BY <1>3, <2>2, <2>6, PairFrame DEF BoxSteps!Writing
  <2>12. BoxSteps!SuccessRuns'
    BY <2>2, <2>6, RunFrame
  <2> QED BY <2>7, <2>8, <2>9, <2>10, <2>11, <2>12
<1> QED BY <1>1, <1>4, <1>5

\* _put_caddy_origin_certs() and the route: the tls app is read, merged and PUT.
LEMMA EdgeKeeps ==
    ASSUME BoxSteps!TypeOK, BoxSteps!InsideTlsAlive, BoxSteps!OldIsSibling, BoxSteps!PutIsLoaded, BoxSteps!SiblingsKeepTls,
           BoxSteps!OneWriterOfFiles, BoxSteps!PairAtRest, BoxSteps!PairInHand, BoxSteps!SuccessRuns,
           NEW d \in BoxSteps!Deploys, NEW ok \in BOOLEAN,
           BoxSteps!ReadTlsApp(d, ok) \/ BoxSteps!PutTlsApp(d) \/ BoxSteps!PutRoute(d, ok)
    PROVE  BoxSteps!TypeOK' /\ BoxSteps!InsideTlsAlive' /\ BoxSteps!OldIsSibling' /\ BoxSteps!PutIsLoaded'
           /\ BoxSteps!SiblingsKeepTls' /\ BoxSteps!OneWriterOfFiles' /\ BoxSteps!PairAtRest' /\ BoxSteps!PairInHand'
           /\ BoxSteps!SuccessRuns'
<1> DEFINE s == work[d].site
           Boxes == Seq({"none", "running", "stopped"})
<1>1. /\ torn \subseteq HostSites /\ healthy \subseteq BoxSteps!Deploys /\ dnsRecords \subseteq HostSites
      /\ loaded \subseteq HostSites /\ routed \subseteq HostSites /\ box \in Boxes /\ Len(box) = Len(work)
      /\ s \in HostSites /\ keys \in Nat /\ keys <= keys /\ work[d].read \subseteq HostSites
      /\ work[d].old \in Nat /\ work[d].old < d /\ work[d].gen <= keys
      /\ work[d].old # 0 => work[work[d].old].site = work[d].site
  BY WorkTypes DEF BoxSteps!TypeOK, BoxSteps!OldIsSibling
<1>2. /\ pem \in [HostSites -> [cert : 0..keys, key : 0..keys, pcert : 0..keys, pkey : 0..keys]]
      /\ vaultKey \in [HostSites -> 0..keys] /\ certRow \in [HostSites -> 0..keys]
      /\ runbook \in [HostSites -> 0..Len(work)] /\ crossed \in BOOLEAN
  BY Zenon DEF BoxSteps!TypeOK
<1>3. {"put", "merge", "smoke"} \subseteq BoxSteps!Places /\ {"put", "merge", "smoke"} \cap BoxSteps!Writing = {}
  BY DEF BoxSteps!Places, BoxSteps!InTls, BoxSteps!Writing
<1>4. ASSUME BoxSteps!ReadTlsApp(d, ok)
      PROVE  BoxSteps!TypeOK' /\ BoxSteps!InsideTlsAlive' /\ BoxSteps!OldIsSibling' /\ BoxSteps!PutIsLoaded'
           /\ BoxSteps!SiblingsKeepTls' /\ BoxSteps!OneWriterOfFiles' /\ BoxSteps!PairAtRest' /\ BoxSteps!PairInHand'
           /\ BoxSteps!SuccessRuns'
  <2>1. /\ work[d].at = "app" /\ work[d].status \in {"running", "stopping"}
        /\ UNCHANGED <<box, pem, vaultKey, certRow, keys, loaded, routed, crossed, runbook, healthy, dnsRecords, torn>>
        /\ \/ BoxSteps!Fails(d)
           \/ work' = [work EXCEPT ![d].at = IF s \in loaded THEN "put" ELSE "merge", ![d].read = loaded]
    BY <1>4, Zenon DEF BoxSteps!ReadTlsApp, BoxSteps!In, BoxSteps!Containers, BoxSteps!Edge, BoxSteps!Material, BoxSteps!Rest
  <2>2. work[d].at \notin BoxSteps!Writing \cup {"put"}
    BY <2>1 DEF BoxSteps!Writing
  <2>3. CASE BoxSteps!Fails(d)
    BY <1>1, <2>1, <2>2, <2>3, PlainKeeps
  <2>4. CASE work' = [work EXCEPT ![d].at = IF s \in loaded THEN "put" ELSE "merge", ![d].read = loaded]
    <3> DEFINE a == IF s \in loaded THEN "put" ELSE "merge"
    <3>1. a \in BoxSteps!Places /\ a \notin BoxSteps!Writing /\ (a = "put" => s \in loaded)
      BY <1>3
    <3>2. work' = [work EXCEPT ![d].at = a, ![d].read = loaded]
      BY <2>4
    <3> HIDE DEF a
    <3>3. /\ Touches(d) /\ BoxSteps!Deploys' = BoxSteps!Deploys /\ work'[d].old = work[d].old
          /\ work'[d].gen = work[d].gen /\ work'[d].at = a /\ work'[d].status = work[d].status
      BY <1>1, <3>1, <3>2, ReadFacts
    <3>4. BoxSteps!TypeOK' /\ BoxSteps!InsideTlsAlive' /\ BoxSteps!OldIsSibling' /\ BoxSteps!PutIsLoaded'
           /\ BoxSteps!SiblingsKeepTls' /\ BoxSteps!OneWriterOfFiles' /\ BoxSteps!PairAtRest' /\ BoxSteps!PairInHand'
      BY <1>1, <2>1, <2>2, <3>1, <3>3, QuietStep
    <3> QED BY <2>1, <3>3, <3>4, RunFrame
  <2> QED BY <2>1, <2>3, <2>4
<1>5. ASSUME BoxSteps!PutTlsApp(d)
      PROVE  BoxSteps!TypeOK' /\ BoxSteps!InsideTlsAlive' /\ BoxSteps!OldIsSibling' /\ BoxSteps!PutIsLoaded'
           /\ BoxSteps!SiblingsKeepTls' /\ BoxSteps!OneWriterOfFiles' /\ BoxSteps!PairAtRest' /\ BoxSteps!PairInHand'
           /\ BoxSteps!SuccessRuns'
  <2>1. /\ work[d].at = "merge" /\ work[d].status \in {"running", "stopping"} /\ BoxSteps!Goto(d, "put")
        /\ loaded' = work[d].read \cup {s} /\ crossed' = (crossed \/ loaded # work[d].read)
        /\ UNCHANGED <<box, pem, vaultKey, certRow, keys, routed, runbook, healthy, dnsRecords, torn>>
    BY <1>5, Zenon DEF BoxSteps!PutTlsApp, BoxSteps!Merge, BoxSteps!In, BoxSteps!Containers, BoxSteps!Material, BoxSteps!Rest
  <2>2. /\ Touches(d) /\ BoxSteps!Deploys' = BoxSteps!Deploys /\ Keeps(d) /\ work'[d].at = "put"
        /\ work'[d].status = work[d].status
    BY <1>3, <2>1, GotoFacts
  <2>3. loaded' \subseteq HostSites /\ crossed' \in BOOLEAN
    BY <1>1, <1>2, <2>1
  <2>4. ~crossed' => ~crossed /\ loaded' = loaded \cup {s}
    BY <2>1
  <2>5. BoxSteps!TypeOK'
    BY <1>1, <1>2, <2>1, <2>2, <2>3, TypeFrame DEF Keeps
  <2>6. BoxSteps!InsideTlsAlive'
    BY <2>1, <2>2, AliveFrame
  <2>7. BoxSteps!OldIsSibling'
    BY <1>1, <2>2, OldFrame DEF Keeps
  <2>8. BoxSteps!PutIsLoaded' /\ BoxSteps!SiblingsKeepTls'
    BY <2>1, <2>2, <2>4 DEF Touches, BoxSteps!PutIsLoaded, BoxSteps!SiblingsKeepTls
  <2>9. BoxSteps!OneWriterOfFiles' /\ BoxSteps!PairAtRest' /\ BoxSteps!PairInHand'
    BY <2>1, <2>2, PairFrame DEF BoxSteps!Writing
  <2>10. BoxSteps!SuccessRuns'
    BY <2>1, <2>2, RunFrame
  <2> QED BY <2>5, <2>6, <2>7, <2>8, <2>9, <2>10
<1>6. ASSUME BoxSteps!PutRoute(d, ok)
      PROVE  BoxSteps!TypeOK' /\ BoxSteps!InsideTlsAlive' /\ BoxSteps!OldIsSibling' /\ BoxSteps!PutIsLoaded'
           /\ BoxSteps!SiblingsKeepTls' /\ BoxSteps!OneWriterOfFiles' /\ BoxSteps!PairAtRest' /\ BoxSteps!PairInHand'
           /\ BoxSteps!SuccessRuns'
  <2>1. /\ work[d].at = "put" /\ work[d].status \in {"running", "stopping"}
        /\ UNCHANGED <<box, pem, vaultKey, certRow, keys, loaded, crossed, runbook, healthy, dnsRecords, torn>>
        /\ \/ BoxSteps!Fails(d) /\ routed' = routed
           \/ BoxSteps!Finish(d, "smoke") /\ routed' = routed \cup {s}
    BY <1>6, Zenon DEF BoxSteps!PutRoute, BoxSteps!In, BoxSteps!Containers, BoxSteps!Material, BoxSteps!Rest
  <2>2. work[d].at \notin BoxSteps!Writing
    BY <2>1 DEF BoxSteps!Writing
  <2>3. CASE BoxSteps!Fails(d) /\ routed' = routed
    BY <1>1, <2>1, <2>2, <2>3, PlainKeeps
  <2>4. CASE BoxSteps!Finish(d, "smoke") /\ routed' = routed \cup {s}
    <3>1. /\ Touches(d) /\ BoxSteps!Deploys' = BoxSteps!Deploys /\ Keeps(d) /\ work'[d].at = "smoke"
          /\ (work'[d].status = "succeeded" => "smoke" = "done" \/ work[d].status = "succeeded")
      BY <1>3, <2>4, FinishFacts
    <3>2. routed' \subseteq HostSites
      BY <1>1, <2>4
    <3>3. BoxSteps!TypeOK'
      BY <1>1, <1>2, <2>1, <3>1, <3>2, TypeFrame DEF Keeps
    <3>4. BoxSteps!InsideTlsAlive'
      BY <3>1, AliveFrame DEF BoxSteps!InTls, BoxSteps!Pushing
    <3>5. BoxSteps!OldIsSibling'
      BY <1>1, <3>1, OldFrame DEF Keeps
    <3>6. BoxSteps!PutIsLoaded' /\ BoxSteps!SiblingsKeepTls'
      BY <2>1, <2>4, <3>1 DEF Touches, BoxSteps!PutIsLoaded, BoxSteps!SiblingsKeepTls
    <3>7. BoxSteps!OneWriterOfFiles' /\ BoxSteps!PairAtRest' /\ BoxSteps!PairInHand'
      BY <2>1, <2>2, <3>1, PairFrame DEF BoxSteps!Writing
    <3>8. BoxSteps!SuccessRuns'
      BY <2>1, <3>1, RunFrame
    <3> QED BY <3>3, <3>4, <3>5, <3>6, <3>7, <3>8
  <2> QED BY <2>1, <2>3, <2>4
<1> QED BY <1>4, <1>5, <1>6

\* cutover: the deployment that runs stops its predecessor.
LEMMA CutoverKeeps ==
    ASSUME BoxSteps!TypeOK, BoxSteps!InsideTlsAlive, BoxSteps!OldIsSibling, BoxSteps!PutIsLoaded, BoxSteps!SiblingsKeepTls,
           BoxSteps!OneWriterOfFiles, BoxSteps!PairAtRest, BoxSteps!PairInHand, BoxSteps!SuccessRuns,
           NEW d \in BoxSteps!Deploys, BoxSteps!Cutover(d)
    PROVE  BoxSteps!TypeOK' /\ BoxSteps!InsideTlsAlive' /\ BoxSteps!OldIsSibling' /\ BoxSteps!PutIsLoaded'
           /\ BoxSteps!SiblingsKeepTls' /\ BoxSteps!OneWriterOfFiles' /\ BoxSteps!PairAtRest' /\ BoxSteps!PairInHand'
           /\ BoxSteps!SuccessRuns'
<1> DEFINE s == work[d].site
           o == work[d].old
           Boxes == Seq({"none", "running", "stopped"})
<1>1. /\ torn \subseteq HostSites /\ healthy \subseteq BoxSteps!Deploys /\ dnsRecords \subseteq HostSites
      /\ loaded \subseteq HostSites /\ routed \subseteq HostSites /\ box \in Boxes /\ Len(box) = Len(work)
      /\ s \in HostSites /\ keys \in Nat /\ keys <= keys /\ d \in 1..Len(work)
      /\ o \in Nat /\ o < d /\ work[d].gen <= keys
      /\ (o # 0 => o \in BoxSteps!Deploys /\ work[o].site = s)
  <2>1. s \in HostSites /\ d \in 1..Len(work) /\ o \in Nat /\ BoxSteps!Deploys = 1..Len(work) /\ Len(work) \in Nat
    BY WorkTypes
  <2>2. /\ torn \subseteq HostSites /\ healthy \subseteq BoxSteps!Deploys /\ dnsRecords \subseteq HostSites
        /\ loaded \subseteq HostSites /\ routed \subseteq HostSites /\ box \in Boxes /\ Len(box) = Len(work)
        /\ keys \in Nat /\ o < d /\ work[d].gen <= keys
    BY DEF BoxSteps!TypeOK
  <2>3. o # 0 => work[o].site = s
    BY DEF BoxSteps!OldIsSibling
  <2> QED BY <2>1, <2>2, <2>3
<1>2. /\ pem \in [HostSites -> [cert : 0..keys, key : 0..keys, pcert : 0..keys, pkey : 0..keys]]
      /\ vaultKey \in [HostSites -> 0..keys] /\ certRow \in [HostSites -> 0..keys]
      /\ runbook \in [HostSites -> 0..Len(work)] /\ crossed \in BOOLEAN
  BY Zenon DEF BoxSteps!TypeOK
<1>3. /\ work[d].at = "cutover" /\ work[d].status \in {"running", "stopping"}
      /\ UNCHANGED <<pem, vaultKey, certRow, keys, loaded, routed, crossed, healthy, dnsRecords, torn>>
      /\ \/ BoxSteps!Fails(d) /\ UNCHANGED <<box, runbook>>
         \/ /\ BoxSteps!Finish(d, "done") /\ box[d] = "running"
            /\ box' = box \/ (o # 0 /\ box' = [box EXCEPT ![o] = "stopped"])
            /\ runbook' = runbook \/ runbook' = [runbook EXCEPT ![s] = d]
  BY Zenon DEF BoxSteps!Cutover, BoxSteps!CutoverReady, BoxSteps!Ready, BoxSteps!WriteRunbook, BoxSteps!In, BoxSteps!Edge,
     BoxSteps!Material
<1>4. work[d].at \notin BoxSteps!Writing \cup {"put"}
  BY <1>3 DEF BoxSteps!Writing
<1>5. CASE BoxSteps!Fails(d) /\ UNCHANGED <<box, runbook>>
  BY <1>1, <1>3, <1>4, <1>5, PlainKeeps
<1>6. CASE /\ BoxSteps!Finish(d, "done") /\ box[d] = "running"
           /\ box' = box \/ (o # 0 /\ box' = [box EXCEPT ![o] = "stopped"])
           /\ runbook' = runbook \/ runbook' = [runbook EXCEPT ![s] = d]
  <2>1. "done" \in BoxSteps!Places /\ "done" \notin BoxSteps!Writing /\ "done" \notin BoxSteps!InTls
    BY DEF BoxSteps!Places, BoxSteps!Writing, BoxSteps!InTls, BoxSteps!Pushing
  <2>2. Touches(d) /\ BoxSteps!Deploys' = BoxSteps!Deploys /\ Keeps(d) /\ work'[d].at = "done"
    BY <1>6, <2>1, FinishFacts
  <2>3. /\ box' \in Boxes /\ Len(box') = Len(box) /\ box'[d] = "running"
        /\ \A e \in BoxSteps!Deploys : e # o => box'[e] = box[e]
    <3>1. CASE box' = box
      BY <1>1, <1>6, <3>1
    <3>2. CASE o # 0 /\ box' = [box EXCEPT ![o] = "stopped"]
      <4>1. o \in BoxSteps!Deploys /\ o # d /\ box \in Boxes /\ Len(box) = Len(box)
        BY <1>1, <3>2
      <4> HIDE DEF o
      <4>2. /\ box' \in Boxes /\ Len(box') = Len(box)
            /\ \A e \in BoxSteps!Deploys : e # o => box'[e] = box[e]
        BY <3>2, <4>1, BoxEdit
      <4> QED BY <1>6, <4>1, <4>2
    <3> QED BY <1>6, <3>1, <3>2
  <2>4. runbook' \in [HostSites -> 0..Len(work)]
    <3>1. d \in 0..Len(work)
      BY <1>1
    <3> QED BY <1>1, <1>2, <1>6, <3>1
  <2>5. BoxSteps!TypeOK'
    BY <1>1, <1>2, <1>3, <2>2, <2>3, <2>4, TypeFrame DEF Keeps
  <2>6. BoxSteps!InsideTlsAlive'
    BY <2>1, <2>2, AliveFrame
  <2>7. BoxSteps!OldIsSibling'
    BY <1>1, <2>2, OldFrame DEF Keeps
  <2>8. BoxSteps!PutIsLoaded' /\ BoxSteps!SiblingsKeepTls'
    BY <1>3, <2>2, EdgeFrame
  <2>9. BoxSteps!OneWriterOfFiles' /\ BoxSteps!PairAtRest' /\ BoxSteps!PairInHand'
    BY <1>3, <1>4, <2>1, <2>2, PairFrame
  <2>10. BoxSteps!SuccessRuns'
    <3>1. \A e \in BoxSteps!Deploys : work'[e].site = work[e].site
      BY <2>2 DEF Touches
    <3>2. \A e \in BoxSteps!Deploys : e # d /\ work'[e].status = "succeeded" => work[e].status = "succeeded"
      BY <2>2 DEF Touches
    <3>3. \A e \in BoxSteps!Deploys : work[e].site # s /\ box[e] = "running" => box'[e] = "running"
      <4> SUFFICES ASSUME NEW e \in BoxSteps!Deploys, work[e].site # s, box[e] = "running" PROVE box'[e] = "running"
        OBVIOUS
      <4>1. e # 0
        BY WorkTypes
      <4>2. e # o
        BY <1>1, <4>1
      <4> QED BY <2>3, <4>2
    <3> QED BY <2>2, <2>3, <3>1, <3>2, <3>3 DEF BoxSteps!SuccessRuns
  <2> QED BY <2>5, <2>6, <2>7, <2>8, <2>9, <2>10
<1> QED BY <1>3, <1>5, <1>6

\* begin_deploy(): one deployment more, and the site's running one is heard to stop.
LEMMA BeginKeeps ==
    ASSUME BoxSteps!TypeOK, BoxSteps!InsideTlsAlive, BoxSteps!OldIsSibling, BoxSteps!PutIsLoaded, BoxSteps!SiblingsKeepTls,
           BoxSteps!OneWriterOfFiles, BoxSteps!PairAtRest, BoxSteps!PairInHand, BoxSteps!SuccessRuns,
           NEW s \in HostSites, BoxSteps!Begin(s)
    PROVE  BoxSteps!TypeOK' /\ BoxSteps!InsideTlsAlive' /\ BoxSteps!OldIsSibling' /\ BoxSteps!PutIsLoaded'
           /\ BoxSteps!SiblingsKeepTls' /\ BoxSteps!OneWriterOfFiles' /\ BoxSteps!PairAtRest' /\ BoxSteps!PairInHand'
           /\ BoxSteps!SuccessRuns'
<1> DEFINE N == Len(work) + 1
           p == BoxSteps!PreviousSucceeded(s)
           first == [site |-> s, at |-> "build", status |-> "running", old |-> p, gen |-> 0, had |-> FALSE, read |-> {}]
           heard(e) == IF work[e].status = "running" THEN [work[e] EXCEPT !.status = "stopping"] ELSE work[e]
           Boxes == Seq({"none", "running", "stopped"})
<1>1. /\ work' = Append([e \in BoxSteps!Deploys |-> heard(e)], first) /\ box' = Append(box, "none")
      /\ UNCHANGED <<pem, vaultKey, certRow, keys, loaded, routed, crossed, runbook, healthy, dnsRecords, torn>>
  BY Zenon DEF BoxSteps!Begin, BoxSteps!Edge, BoxSteps!Material, BoxSteps!Rest
<1>2. /\ Len(work) \in Nat /\ BoxSteps!Deploys = 1..Len(work) /\ N \in Nat
      /\ \A e \in BoxSteps!Deploys : work[e] \in BoxSteps!Deployment
  BY WorkTypes
<1>3. p \in Nat /\ p < N /\ (p # 0 => p \in BoxSteps!Deploys /\ work[p].site = s)
  <2>1. CASE p = 0
    BY <1>2, <2>1
  <2>2. CASE p # 0
    <3>1. p \in BoxSteps!Deploys /\ work[p].site = s
      BY <2>2, PreviousFacts
    <3> HIDE DEF p
    <3> QED BY <1>2, <3>1
  <2> QED BY <2>1, <2>2
<1> HIDE DEF p
<1>4. first \in BoxSteps!Deployment
  BY <1>3 DEF BoxSteps!Deployment, BoxSteps!Places
<1>5. \A e \in BoxSteps!Deploys :
        /\ heard(e) \in BoxSteps!Deployment /\ heard(e).site = work[e].site /\ heard(e).at = work[e].at
        /\ heard(e).old = work[e].old /\ heard(e).gen = work[e].gen /\ heard(e).had = work[e].had
        /\ (work[e].status \in {"running", "stopping"} => heard(e).status = "stopping")
        /\ (heard(e).status = "succeeded" => work[e].status = "succeeded")
  BY <1>2 DEF BoxSteps!Deployment
<1> HIDE DEF first, heard
<1>6. /\ work' \in Seq(BoxSteps!Deployment) /\ Len(work') = N /\ work'[N] = first
      /\ \A e \in BoxSteps!Deploys : work'[e] = heard(e)
  <2>1. [e \in BoxSteps!Deploys |-> heard(e)] \in Seq(BoxSteps!Deployment)
    BY <1>2, <1>5
  <2>2. Len([e \in BoxSteps!Deploys |-> heard(e)]) = Len(work)
    BY <1>2
  <2> QED BY <1>1, <1>2, <1>4, <2>1, <2>2
<1>7. BoxSteps!Deploys' = 1..N /\ BoxSteps!Deploys \subseteq BoxSteps!Deploys'
  BY <1>2, <1>6 DEF BoxSteps!Deploys
<1>8. \A e \in BoxSteps!Deploys' : e \in BoxSteps!Deploys \/ e = N
  BY <1>2, <1>7
<1>9. /\ box \in Boxes /\ Len(box) = Len(work) /\ box' \in Boxes /\ Len(box') = N
      /\ \A e \in BoxSteps!Deploys : box'[e] = box[e]
  <2>1. box \in Boxes /\ Len(box) = Len(work)
    BY DEF BoxSteps!TypeOK
  <2> QED BY <1>1, <1>2, <2>1
<1>10. /\ first.site = s /\ first.at = "build" /\ first.status = "running" /\ first.old = p /\ first.gen = 0
  BY DEF first
<1>11. BoxSteps!TypeOK'
  <2>1. /\ keys \in Nat /\ pem \in [HostSites -> [cert : 0..keys, key : 0..keys, pcert : 0..keys, pkey : 0..keys]]
        /\ vaultKey \in [HostSites -> 0..keys] /\ certRow \in [HostSites -> 0..keys]
        /\ runbook \in [HostSites -> 0..Len(work)] /\ crossed \in BOOLEAN
        /\ torn \subseteq HostSites /\ healthy \subseteq BoxSteps!Deploys /\ dnsRecords \subseteq HostSites
        /\ loaded \subseteq HostSites /\ routed \subseteq HostSites
    BY Zenon DEF BoxSteps!TypeOK
  <2>2. \A e \in BoxSteps!Deploys : work[e].old < e /\ work[e].gen <= keys
    BY DEF BoxSteps!TypeOK
  <2>3. \A e \in BoxSteps!Deploys' : work'[e].old < e /\ work'[e].gen <= keys
    <3> SUFFICES ASSUME NEW e \in BoxSteps!Deploys' PROVE work'[e].old < e /\ work'[e].gen <= keys
      OBVIOUS
    <3>1. CASE e \in BoxSteps!Deploys
      <4>1. work'[e].old = work[e].old /\ work'[e].gen = work[e].gen
        BY <1>5, <1>6, <3>1
      <4> QED BY <2>2, <3>1, <4>1
    <3>2. CASE e = N
      <4>1. work'[e].old = p /\ work'[e].gen = 0
        BY <1>6, <1>10, <3>2
      <4> QED BY <1>3, <2>1, <3>2, <4>1
    <3> QED BY <1>8, <3>1, <3>2
  <2>4. runbook \in [HostSites -> 0..N]
    BY <1>2, <2>1
  <2>5. /\ keys' = keys /\ pem' = pem /\ vaultKey' = vaultKey /\ certRow' = certRow /\ runbook' = runbook
        /\ crossed' = crossed /\ torn' = torn /\ healthy' = healthy /\ dnsRecords' = dnsRecords /\ loaded' = loaded
        /\ routed' = routed
    BY <1>1, Zenon
  <2> HIDE DEF N
  <2> QED BY <1>6, <1>7, <1>9, <2>1, <2>3, <2>4, <2>5 DEF BoxSteps!TypeOK
<1>12. BoxSteps!InsideTlsAlive'
  BY <1>5, <1>6, <1>8, <1>10 DEF BoxSteps!InsideTlsAlive, BoxSteps!InTls, BoxSteps!Pushing
<1>13. BoxSteps!OldIsSibling'
  <2>1. \A e \in BoxSteps!Deploys : work'[e].site = work[e].site /\ work'[e].old = work[e].old
    BY <1>5, <1>6
  <2>2. \A e \in BoxSteps!Deploys : work[e].old # 0 => work[e].old \in BoxSteps!Deploys /\ work[work[e].old].site = work[e].site
    <3>1. \A e \in BoxSteps!Deploys : work[e].old \in Nat /\ work[e].old < e
      BY WorkTypes DEF BoxSteps!TypeOK
    <3>2. \A e \in BoxSteps!Deploys : work[e].old # 0 => work[e].old \in BoxSteps!Deploys
      BY <1>2, <3>1
    <3> QED BY <3>2 DEF BoxSteps!OldIsSibling
  <2>3. work'[N].site = s /\ work'[N].old = p
    BY <1>6, <1>10
  <2> SUFFICES ASSUME NEW e \in BoxSteps!Deploys', work'[e].old # 0 PROVE work'[work'[e].old].site = work'[e].site
    BY DEF BoxSteps!OldIsSibling
  <2>4. CASE e \in BoxSteps!Deploys
    BY <2>1, <2>2, <2>4
  <2>5. CASE e = N
    BY <1>3, <2>1, <2>3, <2>5
  <2> QED BY <1>8, <2>4, <2>5
<1>14. BoxSteps!PutIsLoaded' /\ BoxSteps!SiblingsKeepTls'
  BY <1>1, <1>5, <1>6, <1>8, <1>10 DEF BoxSteps!PutIsLoaded, BoxSteps!SiblingsKeepTls
<1>15. /\ \A e \in BoxSteps!Deploys : /\ work'[e].site = work[e].site /\ work'[e].at = work[e].at
                                      /\ work'[e].gen = work[e].gen /\ work'[e].had = work[e].had
       /\ \A e \in BoxSteps!Deploys' : work'[e].at \in BoxSteps!Writing => e \in BoxSteps!Deploys
       /\ pem' = pem /\ torn' = torn
  BY <1>1, <1>5, <1>6, <1>8, <1>10 DEF BoxSteps!Writing
<1>16. BoxSteps!OneWriterOfFiles'
  BY <1>15 DEF BoxSteps!OneWriterOfFiles
<1>17. BoxSteps!PairAtRest'
  BY <1>7, <1>15 DEF BoxSteps!PairAtRest
<1>18. BoxSteps!PairInHand'
  BY <1>15 DEF BoxSteps!PairInHand
<1>19. BoxSteps!SuccessRuns'
  <2>1. \A e \in BoxSteps!Deploys : /\ work'[e].site = work[e].site
                                    /\ (work'[e].status = "succeeded" => work[e].status = "succeeded")
    BY <1>5, <1>6
  <2>2. \A e \in BoxSteps!Deploys' : work'[e].status = "succeeded" => e \in BoxSteps!Deploys
    BY <1>6, <1>8, <1>10
  <2> QED BY <1>7, <1>9, <2>1, <2>2 DEF BoxSteps!SuccessRuns
<1> QED BY <1>11, <1>12, <1>13, <1>14, <1>16, <1>17, <1>18, <1>19

\* A resume, a killed worker, an application that turns unready, a row that grows stale.
LEMMA AroundKeeps ==
    ASSUME BoxSteps!TypeOK, BoxSteps!InsideTlsAlive, BoxSteps!OldIsSibling, BoxSteps!PutIsLoaded, BoxSteps!SiblingsKeepTls,
           BoxSteps!OneWriterOfFiles, BoxSteps!PairAtRest, BoxSteps!PairInHand, BoxSteps!SuccessRuns,
           (\/ \E d \in BoxSteps!Deploys : BoxSteps!Resume(d) \/ BoxSteps!Kill(d) \/ BoxSteps!TurnsUnready(d)
            \/ \E s \in HostSites : BoxSteps!GrowsStale(s))
    PROVE  BoxSteps!TypeOK' /\ BoxSteps!InsideTlsAlive' /\ BoxSteps!OldIsSibling' /\ BoxSteps!PutIsLoaded'
           /\ BoxSteps!SiblingsKeepTls' /\ BoxSteps!OneWriterOfFiles' /\ BoxSteps!PairAtRest' /\ BoxSteps!PairInHand'
           /\ BoxSteps!SuccessRuns'
<1> DEFINE Boxes == Seq({"none", "running", "stopped"})
<1>1. /\ torn \subseteq HostSites /\ healthy \subseteq BoxSteps!Deploys /\ dnsRecords \subseteq HostSites
      /\ box \in Boxes /\ keys \in Nat /\ certRow \in [HostSites -> 0..keys]
  BY DEF BoxSteps!TypeOK
<1>2. ASSUME NEW d \in BoxSteps!Deploys, BoxSteps!Resume(d)
      PROVE  BoxSteps!TypeOK' /\ BoxSteps!InsideTlsAlive' /\ BoxSteps!OldIsSibling' /\ BoxSteps!PutIsLoaded'
           /\ BoxSteps!SiblingsKeepTls' /\ BoxSteps!OneWriterOfFiles' /\ BoxSteps!PairAtRest' /\ BoxSteps!PairInHand'
           /\ BoxSteps!SuccessRuns'
  <2> DEFINE p == BoxSteps!PreviousSucceeded(work[d].site)
  <2>1. /\ d = Len(work) /\ work[d].status = "failed"
        /\ work' = [work EXCEPT ![d].status = "running", ![d].old = p]
        /\ UNCHANGED <<box, pem, vaultKey, certRow, keys, loaded, routed, crossed, runbook, healthy, dnsRecords, torn>>
    BY <1>2, Zenon DEF BoxSteps!Resume, BoxSteps!Containers, BoxSteps!Edge, BoxSteps!Material, BoxSteps!Rest
  <2>2. p \in Nat /\ p < d /\ (p # 0 => work[p].site = work[d].site)
    <3>1. CASE p = 0
      BY <3>1, WorkTypes
    <3>2. CASE p # 0
      <4>1. p \in BoxSteps!Deploys /\ work[p].site = work[d].site /\ work[p].status = "succeeded"
        BY <3>2, WorkTypes, PreviousFacts
      <4> HIDE DEF p
      <4>2. p # d
        BY <2>1, <4>1
      <4> QED BY <2>1, <4>1, <4>2, WorkTypes
    <3> QED BY <3>1, <3>2
  <2> HIDE DEF p
  <2>3. /\ Touches(d) /\ BoxSteps!Deploys' = BoxSteps!Deploys /\ work'[d].old = p /\ work'[d].gen = work[d].gen
        /\ work'[d].at = work[d].at /\ work'[d].status = "running"
    BY <2>1, <2>2, ResumeFacts
  <2>4. work[d].at \notin BoxSteps!InTls \ {"tls"}
    BY <2>1 DEF BoxSteps!InsideTlsAlive
  <2>5. work[d].at \notin BoxSteps!Writing /\ work[d].at # "put"
    BY <2>4 DEF BoxSteps!InTls, BoxSteps!Pushing, BoxSteps!Writing
  <2>6. work[d].gen <= keys
    BY DEF BoxSteps!TypeOK
  <2>7. BoxSteps!TypeOK' /\ BoxSteps!InsideTlsAlive' /\ BoxSteps!OldIsSibling' /\ BoxSteps!PutIsLoaded'
           /\ BoxSteps!SiblingsKeepTls' /\ BoxSteps!OneWriterOfFiles' /\ BoxSteps!PairAtRest' /\ BoxSteps!PairInHand'
    BY <1>1, <2>1, <2>2, <2>3, <2>5, <2>6, QuietStep
  <2>8. BoxSteps!SuccessRuns'
    BY <2>1, <2>3, RunFrame
  <2> QED BY <2>7, <2>8
<1>3. ASSUME NEW d \in BoxSteps!Deploys, BoxSteps!Kill(d)
      PROVE  BoxSteps!TypeOK' /\ BoxSteps!InsideTlsAlive' /\ BoxSteps!OldIsSibling' /\ BoxSteps!PutIsLoaded'
           /\ BoxSteps!SiblingsKeepTls' /\ BoxSteps!OneWriterOfFiles' /\ BoxSteps!PairAtRest' /\ BoxSteps!PairInHand'
           /\ BoxSteps!SuccessRuns'
  <2>1. /\ work[d].status \in {"running", "stopping"} /\ BoxSteps!Fails(d)
        /\ torn' = IF work[d].at \in BoxSteps!Pushing THEN torn \cup {work[d].site} ELSE torn
        /\ UNCHANGED <<box, pem, vaultKey, certRow, keys, loaded, routed, crossed, runbook, healthy, dnsRecords>>
    BY <1>3, Zenon DEF BoxSteps!Kill, BoxSteps!Containers, BoxSteps!Edge, BoxSteps!Material
  <2>2. work[d].site \in HostSites
    BY WorkTypes
  <2>3. /\ torn \subseteq torn' /\ torn' \subseteq HostSites
        /\ work[d].at \in BoxSteps!Writing => work[d].site \in torn'
    BY <1>1, <2>1, <2>2 DEF BoxSteps!Writing, BoxSteps!Pushing
  <2> QED BY <1>1, <2>1, <2>3, PlainKeeps
<1>4. ASSUME NEW d \in BoxSteps!Deploys, BoxSteps!TurnsUnready(d)
      PROVE  BoxSteps!TypeOK' /\ BoxSteps!InsideTlsAlive' /\ BoxSteps!OldIsSibling' /\ BoxSteps!PutIsLoaded'
           /\ BoxSteps!SiblingsKeepTls' /\ BoxSteps!OneWriterOfFiles' /\ BoxSteps!PairAtRest' /\ BoxSteps!PairInHand'
           /\ BoxSteps!SuccessRuns'
  <2>1. /\ healthy' = healthy \ {d}
        /\ UNCHANGED <<work, box, pem, vaultKey, certRow, keys, loaded, routed, crossed, runbook, dnsRecords, torn>>
    BY <1>4, Zenon DEF BoxSteps!TurnsUnready, BoxSteps!Edge, BoxSteps!Material, BoxSteps!Rest
  <2> QED BY <2>1 DEF BoxSteps!TypeOK, BoxSteps!InsideTlsAlive, BoxSteps!OldIsSibling, BoxSteps!PutIsLoaded,
         BoxSteps!SiblingsKeepTls, BoxSteps!OneWriterOfFiles, BoxSteps!PairAtRest, BoxSteps!PairInHand,
         BoxSteps!SuccessRuns, BoxSteps!Deploys
<1>5. ASSUME NEW s \in HostSites, BoxSteps!GrowsStale(s)
      PROVE  BoxSteps!TypeOK' /\ BoxSteps!InsideTlsAlive' /\ BoxSteps!OldIsSibling' /\ BoxSteps!PutIsLoaded'
           /\ BoxSteps!SiblingsKeepTls' /\ BoxSteps!OneWriterOfFiles' /\ BoxSteps!PairAtRest' /\ BoxSteps!PairInHand'
           /\ BoxSteps!SuccessRuns'
  <2>1. /\ certRow' = [certRow EXCEPT ![s] = 0]
        /\ UNCHANGED <<work, box, pem, vaultKey, keys, loaded, routed, crossed, runbook, healthy, dnsRecords, torn>>
    BY <1>5, Zenon DEF BoxSteps!GrowsStale, BoxSteps!Containers, BoxSteps!Edge, BoxSteps!Rest
  <2>2. certRow' \in [HostSites -> 0..keys]
    BY <1>1, <2>1
  <2>3. BoxSteps!TypeOK'
    <3>1. /\ work' = work /\ box' = box /\ pem' = pem /\ vaultKey' = vaultKey /\ keys' = keys /\ loaded' = loaded
          /\ routed' = routed /\ crossed' = crossed /\ runbook' = runbook /\ healthy' = healthy
          /\ dnsRecords' = dnsRecords /\ torn' = torn
      BY <2>1, Zenon
    <3> QED BY <2>2, <3>1, Zenon DEF BoxSteps!TypeOK, BoxSteps!Deploys
  <2>4. /\ BoxSteps!InsideTlsAlive' /\ BoxSteps!OldIsSibling' /\ BoxSteps!PutIsLoaded' /\ BoxSteps!SiblingsKeepTls'
        /\ BoxSteps!OneWriterOfFiles' /\ BoxSteps!PairAtRest' /\ BoxSteps!PairInHand' /\ BoxSteps!SuccessRuns'
    BY <2>1 DEF BoxSteps!InsideTlsAlive, BoxSteps!OldIsSibling, BoxSteps!PutIsLoaded, BoxSteps!SiblingsKeepTls,
       BoxSteps!OneWriterOfFiles, BoxSteps!PairAtRest, BoxSteps!PairInHand, BoxSteps!SuccessRuns, BoxSteps!Deploys
  <2> QED BY <2>3, <2>4
<1> QED BY <1>2, <1>3, <1>4, <1>5

\* A step keeps the invariant.
LEMMA HostNext ==
    /\ BoxSteps!TypeOK /\ BoxSteps!InsideTlsAlive /\ BoxSteps!OldIsSibling
    /\ BoxSteps!PutIsLoaded /\ BoxSteps!SiblingsKeepTls /\ BoxSteps!OneWriterOfFiles
    /\ BoxSteps!PairAtRest /\ BoxSteps!PairInHand /\ BoxSteps!SuccessRuns
    /\ [BoxSteps!Next]_boxStepsState
    => /\ BoxSteps!TypeOK' /\ BoxSteps!InsideTlsAlive' /\ BoxSteps!OldIsSibling'
       /\ BoxSteps!PutIsLoaded' /\ BoxSteps!SiblingsKeepTls' /\ BoxSteps!OneWriterOfFiles'
       /\ BoxSteps!PairAtRest' /\ BoxSteps!PairInHand' /\ BoxSteps!SuccessRuns'
<1> SUFFICES ASSUME BoxSteps!TypeOK, BoxSteps!InsideTlsAlive, BoxSteps!OldIsSibling,
                    BoxSteps!PutIsLoaded, BoxSteps!SiblingsKeepTls, BoxSteps!OneWriterOfFiles,
                    BoxSteps!PairAtRest, BoxSteps!PairInHand, BoxSteps!SuccessRuns,
                    [BoxSteps!Next]_boxStepsState
             PROVE  /\ BoxSteps!TypeOK' /\ BoxSteps!InsideTlsAlive' /\ BoxSteps!OldIsSibling'
                    /\ BoxSteps!PutIsLoaded' /\ BoxSteps!SiblingsKeepTls'
                    /\ BoxSteps!OneWriterOfFiles' /\ BoxSteps!PairAtRest'
                    /\ BoxSteps!PairInHand' /\ BoxSteps!SuccessRuns'
  OBVIOUS
<1>1. CASE BoxSteps!Next
  <2>1. ASSUME NEW s \in HostSites, BoxSteps!Begin(s)
        PROVE  /\ BoxSteps!TypeOK' /\ BoxSteps!InsideTlsAlive' /\ BoxSteps!OldIsSibling'
               /\ BoxSteps!PutIsLoaded' /\ BoxSteps!SiblingsKeepTls'
               /\ BoxSteps!OneWriterOfFiles' /\ BoxSteps!PairAtRest' /\ BoxSteps!PairInHand'
               /\ BoxSteps!SuccessRuns'
    BY <2>1, BeginKeeps
  <2>2. ASSUME NEW s \in HostSites, BoxSteps!GrowsStale(s)
        PROVE  /\ BoxSteps!TypeOK' /\ BoxSteps!InsideTlsAlive' /\ BoxSteps!OldIsSibling'
               /\ BoxSteps!PutIsLoaded' /\ BoxSteps!SiblingsKeepTls'
               /\ BoxSteps!OneWriterOfFiles' /\ BoxSteps!PairAtRest' /\ BoxSteps!PairInHand'
               /\ BoxSteps!SuccessRuns'
    BY <2>2, AroundKeeps
  <2>3. ASSUME NEW d \in BoxSteps!Deploys,
               BoxSteps!Resume(d) \/ BoxSteps!Kill(d) \/ BoxSteps!TurnsUnready(d)
        PROVE  /\ BoxSteps!TypeOK' /\ BoxSteps!InsideTlsAlive' /\ BoxSteps!OldIsSibling'
               /\ BoxSteps!PutIsLoaded' /\ BoxSteps!SiblingsKeepTls'
               /\ BoxSteps!OneWriterOfFiles' /\ BoxSteps!PairAtRest' /\ BoxSteps!PairInHand'
               /\ BoxSteps!SuccessRuns'
    BY <2>3, AroundKeeps
  <2>4. ASSUME NEW d \in BoxSteps!Deploys, NEW ok \in BOOLEAN,
               \/ BoxSteps!Build(d, ok) \/ BoxSteps!Ship(d, ok) \/ BoxSteps!Migrate(d, ok)
               \/ BoxSteps!HealthCheck(d, ok) \/ BoxSteps!Dns(d, ok) \/ BoxSteps!Issue(d, ok)
        PROVE  /\ BoxSteps!TypeOK' /\ BoxSteps!InsideTlsAlive' /\ BoxSteps!OldIsSibling'
               /\ BoxSteps!PutIsLoaded' /\ BoxSteps!SiblingsKeepTls'
               /\ BoxSteps!OneWriterOfFiles' /\ BoxSteps!PairAtRest' /\ BoxSteps!PairInHand'
               /\ BoxSteps!SuccessRuns'
    BY <2>4, StepsKeep
  <2>5. ASSUME NEW d \in BoxSteps!Deploys, NEW e \in BoxSteps!Deploys, BoxSteps!Smoke(d, e)
        PROVE  /\ BoxSteps!TypeOK' /\ BoxSteps!InsideTlsAlive' /\ BoxSteps!OldIsSibling'
               /\ BoxSteps!PutIsLoaded' /\ BoxSteps!SiblingsKeepTls'
               /\ BoxSteps!OneWriterOfFiles' /\ BoxSteps!PairAtRest' /\ BoxSteps!PairInHand'
               /\ BoxSteps!SuccessRuns'
    BY <2>5, StepsKeep
  <2>6. ASSUME NEW d \in BoxSteps!Deploys, NEW ok \in BOOLEAN, BoxSteps!Start(d, ok)
        PROVE  /\ BoxSteps!TypeOK' /\ BoxSteps!InsideTlsAlive' /\ BoxSteps!OldIsSibling'
               /\ BoxSteps!PutIsLoaded' /\ BoxSteps!SiblingsKeepTls'
               /\ BoxSteps!OneWriterOfFiles' /\ BoxSteps!PairAtRest' /\ BoxSteps!PairInHand'
               /\ BoxSteps!SuccessRuns'
    BY <2>6, StartKeeps
  <2>7. ASSUME NEW d \in BoxSteps!Deploys, NEW ok \in BOOLEAN,
               BoxSteps!ReadTlsApp(d, ok) \/ BoxSteps!PutTlsApp(d) \/ BoxSteps!PutRoute(d, ok)
        PROVE  /\ BoxSteps!TypeOK' /\ BoxSteps!InsideTlsAlive' /\ BoxSteps!OldIsSibling'
               /\ BoxSteps!PutIsLoaded' /\ BoxSteps!SiblingsKeepTls'
               /\ BoxSteps!OneWriterOfFiles' /\ BoxSteps!PairAtRest' /\ BoxSteps!PairInHand'
               /\ BoxSteps!SuccessRuns'
    BY <2>7, EdgeKeeps
  <2>8. ASSUME NEW d \in BoxSteps!Deploys,
               \/ BoxSteps!KeepPrevious(d) \/ BoxSteps!WriteCert(d) \/ BoxSteps!WriteKey(d) \/ BoxSteps!Reload(d)
               \/ BoxSteps!PushFails(d) \/ BoxSteps!CertificateRow(d)
        PROVE  /\ BoxSteps!TypeOK' /\ BoxSteps!InsideTlsAlive' /\ BoxSteps!OldIsSibling'
               /\ BoxSteps!PutIsLoaded' /\ BoxSteps!SiblingsKeepTls'
               /\ BoxSteps!OneWriterOfFiles' /\ BoxSteps!PairAtRest' /\ BoxSteps!PairInHand'
               /\ BoxSteps!SuccessRuns'
    BY <2>8, PushKeeps
  <2>9. ASSUME NEW d \in BoxSteps!Deploys, BoxSteps!Certificate(d) \/ BoxSteps!Cutover(d)
        PROVE  /\ BoxSteps!TypeOK' /\ BoxSteps!InsideTlsAlive' /\ BoxSteps!OldIsSibling'
               /\ BoxSteps!PutIsLoaded' /\ BoxSteps!SiblingsKeepTls'
               /\ BoxSteps!OneWriterOfFiles' /\ BoxSteps!PairAtRest' /\ BoxSteps!PairInHand'
               /\ BoxSteps!SuccessRuns'
    BY <2>9, CertificateKeeps, CutoverKeeps
  <2> QED BY <1>1, <2>1, <2>2, <2>3, <2>4, <2>5, <2>6, <2>7, <2>8, <2>9, Zenon DEF BoxSteps!Next
<1>2. CASE UNCHANGED boxStepsState
  BY <1>2 DEF boxStepsState, BoxSteps!Deploys, BoxSteps!TypeOK, BoxSteps!InsideTlsAlive,
     BoxSteps!OldIsSibling, BoxSteps!PutIsLoaded, BoxSteps!SiblingsKeepTls,
     BoxSteps!OneWriterOfFiles, BoxSteps!PairAtRest, BoxSteps!PairInHand, BoxSteps!SuccessRuns
<1> QED BY <1>1, <1>2

\* The inductive invariant of the steps on a host.
HostInv == focus = "boxSteps" => BoxSteps!TypeOK /\ BoxSteps!InsideTlsAlive
    /\ BoxSteps!OldIsSibling /\ BoxSteps!PutIsLoaded /\ BoxSteps!SiblingsKeepTls
    /\ BoxSteps!OneWriterOfFiles /\ BoxSteps!PairAtRest /\ BoxSteps!PairInHand
    /\ BoxSteps!SuccessRuns

\* The composition keeps the invariant of the host.
LEMMA HostInvariant == Spec => []HostInv
<1>1. Init => HostInv
  <2> SUFFICES ASSUME BoxSteps!Init
               PROVE  /\ BoxSteps!TypeOK /\ BoxSteps!InsideTlsAlive /\ BoxSteps!OldIsSibling
                      /\ BoxSteps!PutIsLoaded /\ BoxSteps!SiblingsKeepTls
                      /\ BoxSteps!OneWriterOfFiles /\ BoxSteps!PairAtRest /\ BoxSteps!PairInHand
                      /\ BoxSteps!SuccessRuns
    BY DEF Init, BoxStepsStarts, HostInv
  <2>1. BoxSteps!TypeOK
    <3>1. /\ work = <<>> /\ box = <<>> /\ BoxSteps!Deploys = {} /\ healthy = {} /\ keys = 0
          /\ routed = {} /\ loaded = {}
          /\ dnsRecords = {} /\ torn = {}
      BY DEF BoxSteps!Init, BoxSteps!Deploys
    <3>2. /\ pem = [s \in HostSites |-> [cert |-> 0, key |-> 0, pcert |-> 0, pkey |-> 0]]
          /\ vaultKey = [s \in HostSites |-> 0] /\ certRow = [s \in HostSites |-> 0]
          /\ runbook = [s \in HostSites |-> 0]
      BY DEF BoxSteps!Init, BoxSteps!NoPem
    <3>3. crossed \in BOOLEAN
      BY Zenon DEF BoxSteps!Init
    <3>4. /\ work \in Seq(BoxSteps!Deployment) /\ box \in Seq({"none", "running", "stopped"})
          /\ Len(box) = Len(work)
      BY <3>1
    <3>5. /\ pem \in [HostSites -> [cert : 0..keys, key : 0..keys, pcert : 0..keys,
              pkey : 0..keys]]
          /\ vaultKey \in [HostSites -> 0..keys] /\ certRow \in [HostSites -> 0..keys]
          /\ runbook \in [HostSites -> 0..Len(work)]
      BY <3>1, <3>2
    <3> QED BY <3>1, <3>3, <3>4, <3>5 DEF BoxSteps!TypeOK
  <2>2. BoxSteps!InsideTlsAlive
    BY DEF BoxSteps!Init, BoxSteps!Deploys, BoxSteps!NoPem, BoxSteps!InsideTlsAlive
  <2>3. BoxSteps!OldIsSibling
    BY DEF BoxSteps!Init, BoxSteps!Deploys, BoxSteps!NoPem, BoxSteps!OldIsSibling
  <2>4. BoxSteps!PutIsLoaded
    BY DEF BoxSteps!Init, BoxSteps!Deploys, BoxSteps!NoPem, BoxSteps!PutIsLoaded
  <2>5. BoxSteps!SiblingsKeepTls
    BY DEF BoxSteps!Init, BoxSteps!Deploys, BoxSteps!NoPem, BoxSteps!SiblingsKeepTls
  <2>6. BoxSteps!OneWriterOfFiles
    BY DEF BoxSteps!Init, BoxSteps!Deploys, BoxSteps!NoPem, BoxSteps!OneWriterOfFiles
  <2>7. BoxSteps!PairAtRest
    BY DEF BoxSteps!Init, BoxSteps!Deploys, BoxSteps!NoPem, BoxSteps!PairAtRest
  <2>8. BoxSteps!PairInHand
    BY DEF BoxSteps!Init, BoxSteps!Deploys, BoxSteps!NoPem, BoxSteps!PairInHand
  <2>9. BoxSteps!SuccessRuns
    BY DEF BoxSteps!Init, BoxSteps!Deploys, BoxSteps!NoPem, BoxSteps!SuccessRuns
  <2> QED BY <2>1, <2>2, <2>3, <2>4, <2>5, <2>6, <2>7, <2>8, <2>9
<1>2. HostInv /\ [Next]_allVars => HostInv'
  <2> SUFFICES ASSUME HostInv, [Next]_allVars, focus = "boxSteps"
               PROVE  /\ BoxSteps!TypeOK' /\ BoxSteps!InsideTlsAlive' /\ BoxSteps!OldIsSibling'
                      /\ BoxSteps!PutIsLoaded' /\ BoxSteps!SiblingsKeepTls'
                      /\ BoxSteps!OneWriterOfFiles' /\ BoxSteps!PairAtRest'
                      /\ BoxSteps!PairInHand' /\ BoxSteps!SuccessRuns'
    BY OneAtATime DEF HostInv
  <2>1. /\ BoxSteps!TypeOK /\ BoxSteps!InsideTlsAlive /\ BoxSteps!OldIsSibling
        /\ BoxSteps!PutIsLoaded /\ BoxSteps!SiblingsKeepTls /\ BoxSteps!OneWriterOfFiles
        /\ BoxSteps!PairAtRest /\ BoxSteps!PairInHand /\ BoxSteps!SuccessRuns
        /\ [BoxSteps!Next]_boxStepsState
    BY OneAtATime DEF HostInv
  <2> QED BY <2>1, HostNext
<1> QED BY <1>1, <1>2, PTL DEF Spec

\* deploys/steps.py, deploys/certs.py: for any number of sites, deployments, keys and faults, the
\* certificate and the key of a site are of one generation whenever nobody replaces them, unless
\* a push was killed, overlapped or failed with nothing to restore; a site with a route keeps
\* its certificate loaded whatever its siblings deploy, unless a merge was put over a newer one;
\* and a blue_green site that was deployed once has a running container whichever step fails.
THEOREM HostTheorem == Spec => []HostHolds
<1>1. HostInv => HostHolds
  <2> SUFFICES ASSUME focus = "boxSteps", BoxSteps!TypeOK, BoxSteps!InsideTlsAlive, BoxSteps!PairAtRest,
                      BoxSteps!SiblingsKeepTls, BoxSteps!SuccessRuns
               PROVE  BoxSteps!PairMatches /\ BoxSteps!SomeContainerRuns
    BY DEF HostInv, HostHolds
  <2>1. BoxSteps!PairMatches
    <3>1. BoxSteps!Writing \subseteq BoxSteps!Pushing /\ BoxSteps!Writing \subseteq BoxSteps!InTls \ {"tls"}
      BY DEF BoxSteps!Writing, BoxSteps!Pushing, BoxSteps!InTls
    <3> QED BY <3>1 DEF BoxSteps!PairMatches, BoxSteps!PairAtRest, BoxSteps!InsideTlsAlive
  <2>2. BoxSteps!SomeContainerRuns
    <3> SUFFICES ASSUME NEW s \in HostSites, s \notin RecreateSites, BoxSteps!PreviousSucceeded(s) # 0
                 PROVE  \E d \in BoxSteps!Deploys : work[d].site = s /\ box[d] = "running"
      BY DEF BoxSteps!SomeContainerRuns
    <3> QED BY PreviousFacts DEF BoxSteps!SuccessRuns
  <2> QED BY <2>1, <2>2
<1> QED BY <1>1, HostInvariant, PTL

---------------------------------------------------------------------------
(* The readiness scan *)

\* A check that records nothing beside its tier.
LEMMA ResultFacts ==
    ASSUME NEW id, NEW tier \in Scanner!Tiers
    PROVE  Scanner!Plain(Scanner!CheckResult(id, tier), id)
  BY DEF Scanner!Plain, Scanner!CheckResult

\* The tiers a condition chooses from.
LEMMA OkOrFacts ==
    ASSUME NEW good, NEW tier \in Scanner!Tiers
    PROVE  Scanner!OkOr(good, tier) \in Scanner!Tiers
  BY DEF Scanner!OkOr, Scanner!Tiers

\* A list of links changes only that.
LEMMA LinkFacts ==
    ASSUME NEW S, NEW t
    PROVE  /\ Scanner!CoreLinks(S).id = "core.symlinked-files" /\ Scanner!CoreLinks(S).tier = "warning"
           /\ Scanner!CoreLinks(S).refused = S /\ Scanner!CoreLinks(S).only = FALSE
           /\ Scanner!NodeLinks(t).id = "node-ts.symlinked-files" /\ Scanner!NodeLinks(t).tier = "warning"
           /\ Scanner!NodeLinks(t).refused = Scanner!SymlinkRefused(t)
           /\ Scanner!NodeLinks(t).only = FALSE
  BY DEF Scanner!CheckResult, Scanner!CoreLinks, Scanner!NodeLinks

\* The checks of the core suite beside the secret scan and the list of links.
LEMMA CoreResults ==
    ASSUME NEW t
    PROVE  /\ Scanner!Plain(Scanner!Lockfile(t), "core.lockfile")
           /\ Scanner!Plain(Scanner!Gitignore(t), "core.gitignore")
           /\ Scanner!Plain(Scanner!TestsExist(t), "core.tests-exist")
           /\ Scanner!Plain(Scanner!Healthz(t), "core.healthz")
           /\ Scanner!Plain(Scanner!DigestPins(t), "core.digest-pins")
           /\ Scanner!Plain(Scanner!ExposureAuth(t), "core.exposure-auth")
           /\ Scanner!Plain(Scanner!ScaleReady(t), "core.scale-ready")
<1>1. "ok" \in Scanner!Tiers /\ "warning" \in Scanner!Tiers /\ "advice" \in Scanner!Tiers
      /\ "blocker" \in Scanner!Tiers
  BY DEF Scanner!Tiers
<1>2. Scanner!Plain(Scanner!Lockfile(t), "core.lockfile")
  BY <1>1, ResultFacts, OkOrFacts, Zenon DEF Scanner!Lockfile
<1>3. Scanner!Plain(Scanner!Gitignore(t), "core.gitignore")
  BY <1>1, ResultFacts, OkOrFacts, Zenon DEF Scanner!Gitignore
<1>4. Scanner!Plain(Scanner!TestsExist(t), "core.tests-exist")
  BY <1>1, ResultFacts, OkOrFacts, Zenon DEF Scanner!TestsExist
<1>5. Scanner!Plain(Scanner!Healthz(t), "core.healthz")
  BY <1>1, ResultFacts, OkOrFacts, Zenon DEF Scanner!Healthz
<1>6. Scanner!Plain(Scanner!DigestPins(t), "core.digest-pins")
  BY <1>1, ResultFacts, OkOrFacts, Zenon DEF Scanner!DigestPins
<1>7. Scanner!Plain(Scanner!ExposureAuth(t), "core.exposure-auth")
  BY <1>1, ResultFacts, OkOrFacts, Zenon DEF Scanner!ExposureAuth
<1>8. Scanner!Plain(Scanner!ScaleReady(t), "core.scale-ready")
  BY <1>1, ResultFacts, OkOrFacts, Zenon DEF Scanner!ScaleReady
<1> QED BY <1>2, <1>3, <1>4, <1>5, <1>6, <1>7, <1>8

\* The checks of the node module that are always one result.
LEMMA NodeResults ==
    ASSUME NEW t
    PROVE  /\ Scanner!Plain(Scanner!StrictBuild(t), "node-ts.strict-build")
           /\ Scanner!Plain(Scanner!CompiledJs(t), "node-ts.compiled-js")
           /\ Scanner!Plain(Scanner!EnginesPin(t), "node-ts.engines-pin")
           /\ Scanner!Plain(Scanner!BunDevOnly(t), "node-ts.bun-dev-only")
           /\ Scanner!Plain(Scanner!GracefulShutdown(t), "node-ts.graceful-shutdown")
           /\ Scanner!Plain(Scanner!WsHeartbeat(t), "node-ts.ws-heartbeat")
           /\ Scanner!Plain(Scanner!ReadinessPattern(t), "node-ts.readiness-pattern")
           /\ Scanner!Plain(Scanner!ExclusiveUpstream(t), "node-ts.exclusive-upstream")
           /\ Scanner!Plain(Scanner!LocalStateCheck(t), "node-ts.local-state")
           /\ Scanner!Plain(Scanner!SecretsEnv(t), "node-ts.secrets-env")
           /\ Scanner!Plain(Scanner!IngestReconnect(t), "node-ts.ingest-reconnect")
           /\ Scanner!Plain(Scanner!IngestStaleness(t), "node-ts.ingest-staleness")
           /\ Scanner!Plain(Scanner!IngestBackfill(t), "node-ts.ingest-backfill")
<1>1. "ok" \in Scanner!Tiers /\ "warning" \in Scanner!Tiers /\ "advice" \in Scanner!Tiers
      /\ "blocker" \in Scanner!Tiers
  BY DEF Scanner!Tiers
<1>2. Scanner!Plain(Scanner!StrictBuild(t), "node-ts.strict-build")
  BY <1>1, ResultFacts, OkOrFacts, Zenon DEF Scanner!StrictBuild
<1>3. Scanner!Plain(Scanner!CompiledJs(t), "node-ts.compiled-js")
  BY <1>1, ResultFacts, OkOrFacts, Zenon DEF Scanner!CompiledJs
<1>4. Scanner!Plain(Scanner!EnginesPin(t), "node-ts.engines-pin")
  BY <1>1, ResultFacts, OkOrFacts, Zenon DEF Scanner!EnginesPin
<1>5. Scanner!Plain(Scanner!BunDevOnly(t), "node-ts.bun-dev-only")
  BY <1>1, ResultFacts, OkOrFacts, Zenon DEF Scanner!BunDevOnly
<1>6. Scanner!Plain(Scanner!GracefulShutdown(t), "node-ts.graceful-shutdown")
  BY <1>1, ResultFacts, OkOrFacts, Zenon DEF Scanner!GracefulShutdown
<1>7. Scanner!Plain(Scanner!WsHeartbeat(t), "node-ts.ws-heartbeat")
  BY <1>1, ResultFacts, OkOrFacts, Zenon DEF Scanner!WsHeartbeat
<1>8. Scanner!Plain(Scanner!ReadinessPattern(t), "node-ts.readiness-pattern")
  BY <1>1, ResultFacts, OkOrFacts, Zenon DEF Scanner!ReadinessPattern
<1>9. Scanner!Plain(Scanner!ExclusiveUpstream(t), "node-ts.exclusive-upstream")
  BY <1>1, ResultFacts, OkOrFacts, Zenon DEF Scanner!ExclusiveUpstream
<1>10. Scanner!Plain(Scanner!LocalStateCheck(t), "node-ts.local-state")
  BY <1>1, ResultFacts, OkOrFacts, Zenon DEF Scanner!LocalStateCheck
<1>11. Scanner!Plain(Scanner!SecretsEnv(t), "node-ts.secrets-env")
  BY <1>1, ResultFacts, OkOrFacts, Zenon DEF Scanner!SecretsEnv
<1>12. Scanner!Plain(Scanner!IngestReconnect(t), "node-ts.ingest-reconnect")
  BY <1>1, ResultFacts, OkOrFacts, Zenon DEF Scanner!IngestReconnect
<1>13. Scanner!Plain(Scanner!IngestStaleness(t), "node-ts.ingest-staleness")
  BY <1>1, ResultFacts, OkOrFacts, Zenon DEF Scanner!IngestStaleness
<1>14. Scanner!Plain(Scanner!IngestBackfill(t), "node-ts.ingest-backfill")
  BY <1>1, ResultFacts, OkOrFacts, Zenon DEF Scanner!IngestBackfill
<1> QED BY <1>2, <1>3, <1>4, <1>5, <1>6, <1>7, <1>8, <1>9, <1>10, <1>11, <1>12, <1>13, <1>14

\* The checks of the django module that are always one result.
LEMMA DjangoResults ==
    ASSUME NEW t, NEW r
    PROVE  /\ Scanner!Plain(Scanner!SettingsShape(t, r), "django.settings-shape")
           /\ Scanner!Plain(Scanner!DebugHardcoded(t, r), "django.debug-hardcoded")
           /\ Scanner!Plain(Scanner!AllowedHosts(t, r), "django.allowed-hosts")
           /\ Scanner!Plain(Scanner!DbEngine(t, r), "django.db-engine")
           /\ Scanner!Plain(Scanner!StaticRoot(t, r), "django.static-root")
           /\ Scanner!Plain(Scanner!SecuritySettings(t, r), "django.security-settings")
           /\ Scanner!Plain(Scanner!DependencyManifest(t, r), "django.dependency-manifest")
           /\ Scanner!Plain(Scanner!DepsPinned(t, r), "django.deps-pinned")
           /\ Scanner!Plain(Scanner!Versions(t, r), "django.runtime-versions")
           /\ Scanner!Plain(Scanner!Runserver(t, r), "django.runserver")
<1>1. "ok" \in Scanner!Tiers /\ "warning" \in Scanner!Tiers /\ "advice" \in Scanner!Tiers
      /\ "blocker" \in Scanner!Tiers
  BY DEF Scanner!Tiers
<1>2. Scanner!Plain(Scanner!SettingsShape(t, r), "django.settings-shape")
  BY <1>1, ResultFacts, OkOrFacts, Zenon DEF Scanner!SettingsShape
<1>3. Scanner!Plain(Scanner!DebugHardcoded(t, r), "django.debug-hardcoded")
  BY <1>1, ResultFacts, OkOrFacts, Zenon DEF Scanner!DebugHardcoded
<1>4. Scanner!Plain(Scanner!AllowedHosts(t, r), "django.allowed-hosts")
  BY <1>1, ResultFacts, OkOrFacts, Zenon DEF Scanner!AllowedHosts
<1>5. Scanner!Plain(Scanner!DbEngine(t, r), "django.db-engine")
  BY <1>1, ResultFacts, OkOrFacts, Zenon DEF Scanner!DbEngine
<1>6. Scanner!Plain(Scanner!StaticRoot(t, r), "django.static-root")
  BY <1>1, ResultFacts, OkOrFacts, Zenon DEF Scanner!StaticRoot
<1>7. Scanner!Plain(Scanner!SecuritySettings(t, r), "django.security-settings")
  BY <1>1, ResultFacts, OkOrFacts, Zenon DEF Scanner!SecuritySettings
<1>8. Scanner!Plain(Scanner!DependencyManifest(t, r), "django.dependency-manifest")
  BY <1>1, ResultFacts, OkOrFacts, Zenon DEF Scanner!DependencyManifest
<1>9. Scanner!Plain(Scanner!DepsPinned(t, r), "django.deps-pinned")
  BY <1>1, ResultFacts, OkOrFacts, Zenon DEF Scanner!DepsPinned
<1>10. Scanner!Plain(Scanner!Versions(t, r), "django.runtime-versions")
  BY <1>1, ResultFacts, OkOrFacts, Zenon DEF Scanner!Versions
<1>11. Scanner!Plain(Scanner!Runserver(t, r), "django.runserver")
  BY <1>1, ResultFacts, OkOrFacts, Zenon DEF Scanner!Runserver
<1> QED BY <1>2, <1>3, <1>4, <1>5, <1>6, <1>7, <1>8, <1>9, <1>10, <1>11

\* What the node module reports: one list of links, and plain results.
LEMMA NodeReports ==
    ASSUME NEW t, NEW c \in Scanner!NodeChecks(t)
    PROVE  Scanner!Plain(c, c.id) \/ c = Scanner!NodeLinks(t)
<1> DEFINE ok(x) == Scanner!Plain(x, x.id) \/ x = Scanner!NodeLinks(t)
<1>p. \A x, id : Scanner!Plain(x, id) => ok(x)
  BY DEF Scanner!Plain
<1>t. "ok" \in Scanner!Tiers /\ "warning" \in Scanner!Tiers /\ "advice" \in Scanner!Tiers
  BY DEF Scanner!Tiers
<1>r. ASSUME NEW id, NEW tier \in Scanner!Tiers PROVE ok(Scanner!CheckResult(id, tier))
  BY <1>p, ResultFacts
<1>o. ASSUME NEW id, NEW good, NEW tier \in Scanner!Tiers
      PROVE  ok(Scanner!CheckResult(id, Scanner!OkOr(good, tier)))
  BY <1>r, OkOrFacts
<1>1. \A x \in Scanner!LockfileOverride(t) : ok(x)
  BY <1>o, <1>t, Zenon DEF Scanner!LockfileOverride
<1>2. \A x \in Scanner!DetectionRecording(t) : ok(x)
  <2> DEFINE links == IF Scanner!SymlinkRefused(t) = {} THEN {} ELSE {Scanner!NodeLinks(t)}
             patterns == IF Scanner!WorkspaceProblems(t)
                         THEN {Scanner!CheckResult("node-ts.workspace-patterns", "warning")} ELSE {}
             offline == IF Scanner!OfflineDeps(t)
                        THEN {Scanner!CheckResult("node-ts.offline-component", "ok")} ELSE {}
             fixed == {Scanner!CheckResult("node-ts.monorepo", "ok"),
                       Scanner!CheckResult("node-ts.service-package",
                           Scanner!OkOr(Scanner!ServiceDir(t) # Scanner!None, "warning")),
                       Scanner!CheckResult("node-ts.recognized-deps", "ok"),
                       Scanner!CheckResult("node-ts.worker-threads", "ok")}
  <2>1. Scanner!DetectionRecording(t) = patterns \cup links \cup fixed \cup offline
    BY Zenon DEF Scanner!DetectionRecording, Scanner!NodeLinks
  <2>2. \A x \in links : ok(x)
    BY Zenon
  <2>3. \A x \in patterns : ok(x)
    BY <1>r, <1>t, Zenon
  <2>4. \A x \in offline : ok(x)
    BY <1>r, <1>t, Zenon
  <2>5. \A x \in fixed : ok(x)
    BY <1>r, <1>o, <1>t, Zenon
  <2> QED BY <2>1, <2>2, <2>3, <2>4, <2>5, Zenon
<1>3. \A x \in Scanner!FastifyServing(t) : ok(x)
  BY <1>o, <1>t, Zenon DEF Scanner!FastifyServing
<1>4. \A x \in {Scanner!StrictBuild(t), Scanner!CompiledJs(t), Scanner!EnginesPin(t),
                Scanner!BunDevOnly(t), Scanner!GracefulShutdown(t), Scanner!WsHeartbeat(t),
                Scanner!ReadinessPattern(t), Scanner!ExclusiveUpstream(t),
                Scanner!LocalStateCheck(t), Scanner!SecretsEnv(t)} : ok(x)
  BY <1>p, NodeResults, Zenon
<1>5. \A x \in (IF Scanner!IngestionArmed(t)
                THEN {Scanner!IngestReconnect(t), Scanner!IngestStaleness(t),
                      Scanner!IngestBackfill(t)} ELSE {}) : ok(x)
  BY <1>p, NodeResults, Zenon
<1>6. \A x \in (IF Scanner!OfflineDeps(t)
                THEN {Scanner!CheckResult("node-ts.jobs-image", "advice")} ELSE {}) : ok(x)
  BY <1>r, <1>t, Zenon
<1> HIDE DEF ok
<1>7. ok(c)
  BY <1>1, <1>2, <1>3, <1>4, <1>5, <1>6, Zenon DEF Scanner!NodeChecks
<1> QED BY <1>7 DEF ok

\* What the other modules report is plain.
LEMMA DjangoReports ==
    ASSUME NEW t, NEW c \in Scanner!DjangoChecks(t)
    PROVE  Scanner!Plain(c, c.id)
<1> DEFINE ok(x) == Scanner!Plain(x, x.id)
<1>p. \A x, id : Scanner!Plain(x, id) => ok(x)
  BY DEF Scanner!Plain
<1>t. "ok" \in Scanner!Tiers /\ "warning" \in Scanner!Tiers /\ "advice" \in Scanner!Tiers /\ "blocker" \in Scanner!Tiers
  BY DEF Scanner!Tiers
<1>r. ASSUME NEW id, NEW tier \in Scanner!Tiers PROVE ok(Scanner!CheckResult(id, tier))
  BY <1>p, ResultFacts
<1>r0. PICK r : r = (IF Scanner!ProjectRoot(t) = Scanner!None THEN "." ELSE Scanner!ProjectRoot(t))
  OBVIOUS
<1>1. ok(Scanner!SecretKey(t, r))
  BY <1>r, <1>t, Zenon DEF Scanner!SecretKey
<1>2. \A x \in Scanner!CsrfTrusted(t, r) : ok(x)
  BY <1>r, <1>t, Zenon DEF Scanner!CsrfTrusted
<1>3. \A x \in Scanner!Sidecars(t, r) : ok(x)
  BY <1>r, <1>t, Zenon DEF Scanner!Sidecars
<1>4. ok(Scanner!CheckResult("django.server-mode", "ok"))
  BY <1>r, <1>t
<1>5. /\ ok(Scanner!SettingsShape(t, r)) /\ ok(Scanner!DebugHardcoded(t, r))
      /\ ok(Scanner!AllowedHosts(t, r)) /\ ok(Scanner!DbEngine(t, r)) /\ ok(Scanner!StaticRoot(t, r))
      /\ ok(Scanner!SecuritySettings(t, r)) /\ ok(Scanner!DependencyManifest(t, r))
      /\ ok(Scanner!DepsPinned(t, r)) /\ ok(Scanner!Versions(t, r)) /\ ok(Scanner!Runserver(t, r))
  BY <1>p, DjangoResults, Zenon
<1> HIDE DEF ok
<1>6. ok(c)
  BY <1>r0, <1>1, <1>2, <1>3, <1>4, <1>5, Zenon DEF Scanner!DjangoChecks
<1> QED BY <1>6 DEF ok

\* A module's results are plain, beside the links the node module lists.
LEMMA ModuleReports ==
    ASSUME NEW m \in Scanner!Frameworks, NEW t, NEW c \in Scanner!ChecksOf(m, t)
    PROVE  Scanner!Plain(c, c.id) \/ (m = "node-ts" /\ c = Scanner!NodeLinks(t))
<1>1. CASE m = "django"
  BY <1>1, DjangoReports DEF Scanner!ChecksOf
<1>2. CASE m = "node-ts"
  BY <1>2, NodeReports DEF Scanner!ChecksOf
<1>3. CASE m = "dockerfile"
  <2>1. "ok" \in Scanner!Tiers /\ "warning" \in Scanner!Tiers
    BY DEF Scanner!Tiers
  <2>2. \A id, good : Scanner!Plain(Scanner!CheckResult(id, Scanner!OkOr(good, "warning")), id)
    BY <2>1, ResultFacts, OkOrFacts, Zenon
  <2>3. \E id : Scanner!Plain(c, id)
    <3>1. c \in Scanner!DockerfileChecks(t)
      BY <1>3 DEF Scanner!ChecksOf
    <3> QED BY <2>2, <3>1, Zenon DEF Scanner!DockerfileChecks
  <2> QED BY <2>3 DEF Scanner!Plain
<1>4. CASE m = "static"
  BY <1>4 DEF Scanner!ChecksOf
<1> QED BY <1>1, <1>2, <1>3, <1>4 DEF Scanner!Frameworks

\* The jobs left for the sandbox are plain.
LEMMA SandboxReports ==
    ASSUME NEW m \in Scanner!Frameworks, NEW c \in Scanner!SandboxOf(m)
    PROVE  Scanner!Plain(c, c.id)
<1>1. "pending_sandbox" \in Scanner!Tiers
  BY DEF Scanner!Tiers
<1>2. PICK id : c = Scanner!CheckResult(id, "pending_sandbox")
  BY DEF Scanner!SandboxOf, Scanner!DjangoSandbox, Scanner!NodeSandbox, Scanner!Frameworks
<1> QED BY <1>1, <1>2, ResultFacts DEF Scanner!Plain

\* The secret scan: a proof blocks and no acceptance clears it; what an
\* acceptance can clear names declarations of the reading it was given.
LEMMA SecretFacts ==
    ASSUME NEW t, NEW D
    PROVE  LET c == Scanner!SecretScan(t, D) IN
           /\ c.id = "core.secret-scan" /\ c.tier \in Scanner!Tiers /\ c.refused = {}
           /\ c.only => c.accept # {}
           /\ c.accept \subseteq {Scanner!ConfirmId(e) : e \in Scanner!ToSet(D.accepted)}
           /\ (\E f \in t : Scanner!HasProof(f)) => c.tier = "blocker" /\ ~c.only
<1>c. PICK c : c = Scanner!SecretScan(t, D)
  OBVIOUS
<1>1. /\ c.id = "core.secret-scan" /\ c.tier \in Scanner!Tiers /\ c.refused = {}
      /\ c.accept = Scanner!Acceptance(t, D)
      /\ c.only = (Scanner!Findings(t, D) \cup Scanner!DeclaredFindings(t, D) # {}
                      /\ Scanner!Findings(t, D) = {})
      /\ Scanner!Findings(t, D) # {} => c.tier = "blocker"
  BY <1>c DEF Scanner!SecretScan, Scanner!CheckResult, Scanner!OkOr, Scanner!Tiers
<1>2. \A f : Scanner!Covering(D, f) \subseteq Scanner!ToSet(D.accepted)
  BY DEF Scanner!Covering, Scanner!ToSet
<1>3. c.accept \subseteq {Scanner!ConfirmId(e) : e \in Scanner!ToSet(D.accepted)}
  BY <1>1, <1>2, Zenon DEF Scanner!Acceptance
<1>4. c.only => c.accept # {}
  <2> SUFFICES ASSUME c.only PROVE c.accept # {}
    OBVIOUS
  <2>1. PICK f \in Scanner!DeclaredFindings(t, D) : TRUE
    BY <1>1
  <2>2. Scanner!Covering(D, f) # {}
    BY <2>1 DEF Scanner!DeclaredFindings
  <2>3. PICK e : e \in Scanner!Covering(D, f)
    BY <2>2
  <2>4. e \in UNION {Scanner!Covering(D, g) : g \in Scanner!DeclaredFindings(t, D)}
    BY <2>1, <2>3, Zenon
  <2> QED BY <1>1, <2>4 DEF Scanner!Acceptance
<1>5. ASSUME NEW f \in t, Scanner!HasProof(f) PROVE f \in Scanner!Findings(t, D)
  <2>1. f \in Scanner!Met(t, ".", Scanner!CoreSkip) /\ Scanner!ReadText(f)
    BY <1>5 DEF Scanner!HasProof, Scanner!Met
  <2>2. f \in Scanner!TextFiles(t) \cup Scanner!Escaped(t)
    BY <2>1, Zenon DEF Scanner!TextFiles, Scanner!Escaped, Scanner!IterFiles
  <2> QED BY <1>5, <2>2, Zenon DEF Scanner!Findings, Scanner!HasProof
<1>6. (\E f \in t : Scanner!HasProof(f)) => c.tier = "blocker" /\ ~c.only
  BY <1>1, <1>5
<1> QED BY <1>c, <1>1, <1>3, <1>4, <1>6, Zenon

\* The core suite: plain results, the secret scan and the list of links.
LEMMA SuiteReports ==
    ASSUME NEW t, NEW D, NEW e, NEW c \in Scanner!CommonSuite(t, D, e)
    PROVE  \/ Scanner!Plain(c, c.id) \/ c = Scanner!SecretScan(t, D)
           \/ c = Scanner!CoreLinks(Scanner!Escaped(t) \ e)
<1> DEFINE ok(x) == Scanner!Plain(x, x.id)
<1>p. \A x, id : Scanner!Plain(x, id) => ok(x)
  BY DEF Scanner!Plain
<1>1. \A x \in {Scanner!Lockfile(t), Scanner!Gitignore(t), Scanner!TestsExist(t), Scanner!Healthz(t),
                Scanner!DigestPins(t), Scanner!ExposureAuth(t), Scanner!ScaleReady(t)} : ok(x)
  BY <1>p, CoreResults, Zenon
<1>2. \A x \in Scanner!SymlinkedFiles(t, e) : x = Scanner!CoreLinks(Scanner!Escaped(t) \ e)
  BY Zenon DEF Scanner!SymlinkedFiles, Scanner!CoreLinks
<1> HIDE DEF ok
<1>3. \/ c = Scanner!SecretScan(t, D) \/ c \in Scanner!SymlinkedFiles(t, e)
      \/ c \in {Scanner!Lockfile(t), Scanner!Gitignore(t), Scanner!TestsExist(t), Scanner!Healthz(t),
                Scanner!DigestPins(t), Scanner!ExposureAuth(t), Scanner!ScaleReady(t)}
  BY Zenon DEF Scanner!CommonSuite
<1>4. ok(c) \/ c = Scanner!SecretScan(t, D) \/ c = Scanner!CoreLinks(Scanner!Escaped(t) \ e)
  BY <1>1, <1>2, <1>3, Zenon
<1> QED BY <1>4 DEF ok

\* What the node module refuses is in the tree.
LEMMA RefusedIsThere ==
    ASSUME NEW t PROVE Scanner!SymlinkRefused(t) \subseteq t
<1>1. \A d, names : Scanner!At(t, d, names) \subseteq t
  BY DEF Scanner!At
<1>2. \A d, name : Scanner!NodeRefuses(t, d, name) \subseteq t
  BY DEF Scanner!NodeRefuses
<1>3. \A d : Scanner!NodeSourceFiles(t, d) \subseteq t
  BY DEF Scanner!NodeSourceFiles, Scanner!Met
<1>4. Scanner!PickTsconfig(t) \subseteq t
  BY <1>1, Zenon DEF Scanner!PickTsconfig
<1>5. \A D : UNION {Scanner!NodeSourceFiles(t, d) : d \in D} \subseteq t
  BY <1>3, Zenon
<1>6. \A D : UNION {Scanner!NodeRefuses(t, d, "package.json") : d \in D} \subseteq t
  BY <1>2, Zenon
<1> DEFINE fixed == {f \in Scanner!At(t, ".", {"pnpm-workspace.yaml", "pyproject.toml"}) :
                        Scanner!escapes_root(".", f)}
           configs == {f \in Scanner!PickTsconfig(t) : Scanner!escapes_root(".", f)}
           packages == UNION {Scanner!NodeRefuses(t, d, "package.json") :
                                 d \in Scanner!PackageDirs(t) \cup {"."}}
           sources == {f \in UNION {Scanner!NodeSourceFiles(t, d) :
                                  d \in Scanner!PackageDirs(t) \cup {Scanner!ServiceBase(t)}} :
                          Scanner!escapes_root(".", f)}
<1>7. fixed \subseteq t /\ configs \subseteq t /\ packages \subseteq t /\ sources \subseteq t
  BY <1>1, <1>4, <1>5, <1>6, Zenon
<1>8. Scanner!SymlinkRefused(t) =
          packages \cup fixed \cup Scanner!NodeRefuses(t, ".", ".env.example") \cup configs \cup sources
  BY DEF Scanner!SymlinkRefused
<1> HIDE DEF fixed, configs, packages, sources
<1> QED BY <1>2, <1>7, <1>8, Zenon

\* Modules replace the core's lockfile result and nothing else.
LEMMA Survives ==
    ASSUME NEW m, NEW new, NEW c \in checks, c.id # "core.lockfile",
           \A n \in Scanner!Superseding(new) : n.id \in Scanner!Supersedes(m)
    PROVE  c \in Scanner!Supersede(new)
<1>1. \A n \in new : n.id # c.id
  BY Zenon DEF Scanner!Superseding, Scanner!Supersedes, Scanner!CoreIds
<1> QED BY <1>1 DEF Scanner!Supersede

\* The reading of the declarations and the first walks leave no result behind.
LEMMA FirstWalksKeep ==
    ASSUME Scanner!CompleteInv, Scanner!Detect \/ Scanner!LoadDeclarations \/ Scanner!RefusedPaths
    PROVE  Scanner!CompleteInv'
<1>d. checks = {} /\ met = {} /\ checks' = {} /\ met' = {} /\ tree' = tree /\ treeEdits' = treeEdits
  BY DEF Scanner!CompleteInv, Scanner!ScanInv, Scanner!Detect, Scanner!LoadDeclarations, Scanner!RefusedPaths
<1>1. Scanner!ScanInv'
  <2>1. CASE Scanner!Detect
    <3>1. \A m \in Scanner!Frameworks : \A b : Scanner!Matching(m, b) \in Seq(Scanner!Frameworks)
      BY DEF Scanner!Matching
    <3>2. "django" \in Scanner!Frameworks /\ "node-ts" \in Scanner!Frameworks
          /\ "dockerfile" \in Scanner!Frameworks /\ "static" \in Scanner!Frameworks
      BY DEF Scanner!Frameworks
    <3>3. Scanner!DetectModules(tree) \in Seq(Scanner!Frameworks)
      BY <3>1, <3>2 DEF Scanner!DetectModules
    <3> QED BY <2>1, <3>3, <1>d DEF Scanner!Detect, Scanner!CompleteInv, Scanner!ScanInv, Scanner!SuiteRan
  <2>2. CASE Scanner!LoadDeclarations \/ Scanner!RefusedPaths
    BY <2>2, <1>d DEF Scanner!LoadDeclarations, Scanner!RefusedPaths, Scanner!CompleteInv, Scanner!ScanInv, Scanner!SuiteRan
  <2> QED BY <2>1, <2>2
<1>2. Scanner!AskedInv' /\ Scanner!BlockInv' /\ Scanner!MetInv'
  BY <1>d DEF Scanner!AskedInv, Scanner!BlockInv, Scanner!MetInv
<1>3. Scanner!StillInv'
  <2> SUFFICES ASSUME treeEdits' = 0 PROVE Scanner!StillInv'
    BY DEF Scanner!StillInv
  <2>1. tree \in Trees /\ refused \subseteq tree
    BY <1>d DEF Scanner!CompleteInv, Scanner!StillInv
  <2>2. CASE Scanner!Detect \/ Scanner!LoadDeclarations
    <3>1. refused' = refused
      BY <2>2 DEF Scanner!Detect, Scanner!LoadDeclarations
    <3>2. ~Scanner!NodeTold'
      <4>1. CASE Scanner!Detect
        BY <4>1, <1>d DEF Scanner!Detect, Scanner!NodeTold, Scanner!ToSet
      <4>2. CASE Scanner!LoadDeclarations
        BY <4>2 DEF Scanner!LoadDeclarations, Scanner!NodeTold
      <4> QED BY <2>2, <4>1, <4>2
    <3> QED BY <1>d, <2>1, <3>1, <3>2 DEF Scanner!StillInv
  <2>3. CASE Scanner!RefusedPaths
    <3>1. refused' = UNION {Scanner!ModuleRefusedPaths(m, tree) : m \in Scanner!ToSet(mods)} /\ mods' = mods
      BY <2>3 DEF Scanner!RefusedPaths
    <3>2. \A m : Scanner!ModuleRefusedPaths(m, tree) \subseteq tree
      BY RefusedIsThere DEF Scanner!ModuleRefusedPaths, Scanner!NodeRefusedPaths
    <3>3. refused' \subseteq tree
      BY <3>1, <3>2, Zenon
    <3>4. "node-ts" \in Scanner!ToSet(mods) => Scanner!SymlinkRefused(tree) \subseteq refused'
      BY <3>1, Zenon DEF Scanner!ModuleRefusedPaths, Scanner!NodeRefusedPaths
    <3>5. Scanner!NodeTold' => "node-ts" \in Scanner!ToSet(mods)
      BY <1>d, <3>1 DEF Scanner!NodeTold
    <3> QED BY <1>d, <2>1, <3>3, <3>4, <3>5 DEF Scanner!StillInv
  <2> QED BY <2>2, <2>3
<1> QED BY <1>1, <1>2, <1>3 DEF Scanner!CompleteInv

\* The core suite lists every link it met that no module took over.
LEMMA SuiteKeeps ==
    ASSUME Scanner!CompleteInv, Scanner!CommonChecks PROVE Scanner!CompleteInv'
<1>d. /\ stage = "core" /\ stage' = "module" /\ met' = Scanner!Escaped(tree)
      /\ checks' = Scanner!CommonSuite(tree, declared, refused)
      /\ asked' = Scanner!ConfirmQuestions(declared)
      /\ UNCHANGED <<tree, mods, declared, refused, treeEdits>>
  BY DEF Scanner!CommonChecks, Scanner!SuiteDeclarations
<1>s. PICK s : s = Scanner!SecretScan(tree, declared)
  OBVIOUS
<1>i. s \in checks'
  BY <1>d, <1>s, Zenon DEF Scanner!CommonSuite
<1>1. Scanner!ScanInv'
  BY <1>d, <1>i DEF Scanner!CompleteInv, Scanner!ScanInv, Scanner!SuiteRan
<1>r. ASSUME NEW c \in checks'
      PROVE  Scanner!Plain(c, c.id) \/ c = s \/ c = Scanner!CoreLinks(met' \ refused)
  BY <1>d, <1>s, SuiteReports
<1>l. /\ Scanner!CoreLinks(met' \ refused).id = "core.symlinked-files"
      /\ Scanner!CoreLinks(met' \ refused).tier = "warning"
      /\ Scanner!CoreLinks(met' \ refused).refused = met' \ refused
      /\ Scanner!CoreLinks(met' \ refused).only = FALSE
  BY LinkFacts
<1>2. Scanner!AskedInv'
  <2> SUFFICES ASSUME NEW c \in checks', c.only
               PROVE  c.accept # {} /\ c.accept \subseteq {q.id : q \in asked'}
    BY DEF Scanner!AskedInv
  <2>1. c = s
    BY <1>r, <1>l DEF Scanner!Plain
  <2>2. c.accept # {} /\ c.accept \subseteq {Scanner!ConfirmId(e) : e \in Scanner!ToSet(declared.accepted)}
    BY <2>1, <1>s, SecretFacts, Zenon
  <2>3. {Scanner!ConfirmId(e) : e \in Scanner!ToSet(declared.accepted)} \subseteq {q.id : q \in asked'}
    <3> SUFFICES ASSUME NEW e \in Scanner!ToSet(declared.accepted)
                 PROVE  \E q \in asked' : q.id = Scanner!ConfirmId(e)
      OBVIOUS
    <3>1. PICK q : q = [id |-> Scanner!ConfirmId(e), kind |-> "bool", default |-> Scanner!None]
      OBVIOUS
    <3>2. q \in asked'
      BY <1>d, <3>1, Zenon DEF Scanner!ConfirmQuestions
    <3>3. q.id = Scanner!ConfirmId(e)
      BY <3>1
    <3> QED BY <3>2, <3>3
  <2> QED BY <2>2, <2>3
<1>3. Scanner!BlockInv'
  <2> SUFFICES ASSUME NEW f \in tree', Scanner!HasProof(f) PROVE Scanner!Blocked'
    BY DEF Scanner!BlockInv
  <2>1. s.id = "core.secret-scan" /\ s.tier = "blocker" /\ ~s.only
    BY <1>d, <1>s, SecretFacts, Zenon
  <2> QED BY <1>i, <2>1, Zenon DEF Scanner!Blocked
<1>4. Scanner!MetInv'
  <2> SUFFICES ASSUME NEW f \in met' \ refused
               PROVE  Scanner!CoreLinks(met' \ refused) \in checks'
    BY <1>d, <1>l DEF Scanner!MetInv
  <2>1. Scanner!CoreLinks(met' \ refused) \in Scanner!SymlinkedFiles(tree, refused)
    BY <1>d DEF Scanner!SymlinkedFiles, Scanner!CoreLinks
  <2> QED BY <1>d, <2>1, Zenon DEF Scanner!CommonSuite
<1>5. Scanner!StillInv'
  <2> SUFFICES ASSUME treeEdits' = 0 PROVE Scanner!StillInv'
    BY DEF Scanner!StillInv
  <2>1. tree' \in Trees /\ refused' \subseteq tree'
    BY <1>d DEF Scanner!CompleteInv, Scanner!StillInv
  <2>2. met' \subseteq tree'
    BY <1>d DEF Scanner!Escaped, Scanner!Met
  <2>3. s.refused = {}
    BY <1>s, SecretFacts, Zenon
  <2>4. \A c \in checks' : c.refused = {} \/ c = Scanner!CoreLinks(met' \ refused')
    BY <1>r, <1>d, <2>3 DEF Scanner!Plain
  <2>5. Scanner!NodeTold' => Scanner!SymlinkRefused(tree') \subseteq refused'
    <3>1. Scanner!NodeLinks(tree).refused = Scanner!SymlinkRefused(tree)
          /\ Scanner!NodeLinks(tree).id = "node-ts.symlinked-files"
      BY LinkFacts
    <3>2. Scanner!NodeLinks(tree) \in checks' => Scanner!SymlinkRefused(tree) = {}
      BY <2>4, <3>1, <1>l, <1>d
    <3>3. CASE "node-ts" \in Scanner!ToSet(mods)
      <4>1. Scanner!NodeTold
        BY <3>3, <1>d DEF Scanner!NodeTold
      <4> QED BY <4>1, <1>d DEF Scanner!CompleteInv, Scanner!StillInv
    <3> QED BY <3>2, <3>3, <1>d DEF Scanner!NodeTold
  <2> QED BY <2>1, <2>2, <2>4, <2>5 DEF Scanner!StillInv
<1> QED BY <1>1, <1>2, <1>3, <1>4, <1>5 DEF Scanner!CompleteInv

\* A module's results join the report, or the scan fails; the secret scan and the
\* list of links stay.
LEMMA ModuleKeeps ==
    ASSUME Scanner!CompleteInv, Scanner!ModuleChecks PROVE Scanner!CompleteInv'
<1>d. /\ stage = "module" /\ mods # <<>> /\ stage' \in {"fragment", "error"}
      /\ UNCHANGED <<tree, mods, declared, refused, met, asked, treeEdits>>
  BY DEF Scanner!ModuleChecks
<1>s. mods \in Seq(Scanner!Frameworks) /\ treeEdits \in Nat
  BY DEF Scanner!CompleteInv, Scanner!ScanInv
<1>m. PICK m \in Scanner!Frameworks : m = Head(mods) /\ m \in Scanner!ToSet(mods)
  <2>1. Head(mods) = mods[1] /\ 1 \in DOMAIN mods /\ mods[1] \in Scanner!Frameworks
    BY <1>d, <1>s
  <2> QED BY <2>1 DEF Scanner!ToSet
<1>n. PICK new : new = Scanner!ChecksOf(m, tree)
  OBVIOUS
<1>r. \A c \in new : Scanner!Plain(c, c.id) \/ (m = "node-ts" /\ c = Scanner!NodeLinks(tree))
  BY <1>n, ModuleReports
<1>u. checks' \subseteq checks \cup new
  BY <1>m, <1>n, Zenon DEF Scanner!ModuleChecks, Scanner!Supersede
<1>k. ASSUME stage' # "error", NEW c \in checks, c.id # "core.lockfile" PROVE c \in checks'
  <2>1. /\ \A n \in Scanner!Superseding(new) : n.id \in Scanner!Supersedes(m)
        /\ checks' = Scanner!Supersede(new)
    BY <1>m, <1>n, <1>k, Zenon DEF Scanner!ModuleChecks
  <2> QED BY <2>1, <1>k, Survives
<1>1. Scanner!ScanInv'
  <2>1. PICK x \in checks : TRUE
    BY <1>d DEF Scanner!CompleteInv, Scanner!ScanInv, Scanner!SuiteRan
  <2>2. stage' = "fragment" => checks' # {}
    BY <2>1, <1>m, <1>n, Zenon DEF Scanner!ModuleChecks, Scanner!Supersede
  <2> QED BY <1>d, <1>s, <2>2 DEF Scanner!ScanInv, Scanner!SuiteRan
<1>o. \A c \in new : c.only = FALSE
  <2>1. Scanner!NodeLinks(tree).only = FALSE
    BY LinkFacts
  <2> QED BY <1>r, <2>1 DEF Scanner!Plain
<1>2. Scanner!AskedInv'
  BY <1>u, <1>o, <1>d DEF Scanner!CompleteInv, Scanner!AskedInv
<1>3. Scanner!BlockInv'
  <2> SUFFICES ASSUME Scanner!Passed', checks' # {}, treeEdits' = 0, NEW f \in tree', Scanner!HasProof(f)
               PROVE  Scanner!Blocked'
    BY DEF Scanner!BlockInv
  <2>1. stage' # "error" /\ Scanner!Passed
    BY <1>d DEF Scanner!Passed
  <2>2. checks # {}
    BY <1>d DEF Scanner!CompleteInv, Scanner!ScanInv, Scanner!SuiteRan
  <2>3. Scanner!Blocked
    BY <1>d, <2>1, <2>2 DEF Scanner!CompleteInv, Scanner!BlockInv
  <2> QED BY <2>1, <2>3, <1>k DEF Scanner!Blocked
<1>4. Scanner!MetInv'
  <2>1. stage' # "report"
    BY <1>d
  <2> SUFFICES ASSUME Scanner!Passed', NEW f \in met' \ refused'
               PROVE  \E c \in checks' : c.id = "core.symlinked-files" /\ c.tier = "warning" /\ f \in c.refused
    BY <2>1 DEF Scanner!MetInv
  <2>2. stage' # "error" /\ Scanner!Passed
    BY <1>d DEF Scanner!Passed
  <2>3. PICK c \in checks : c.id = "core.symlinked-files" /\ c.tier = "warning" /\ f \in c.refused
    BY <1>d, <2>2 DEF Scanner!CompleteInv, Scanner!MetInv
  <2> QED BY <2>2, <2>3, <1>k
<1>5. Scanner!StillInv'
  <2> SUFFICES ASSUME treeEdits' = 0 PROVE Scanner!StillInv'
    BY DEF Scanner!StillInv
  <2>1. /\ tree \in Trees /\ met \subseteq tree /\ refused \subseteq tree
        /\ \A c \in checks : \/ c.refused = {} \/ c = Scanner!CoreLinks(met \ refused)
                             \/ c = Scanner!NodeLinks(tree)
        /\ Scanner!NodeTold => Scanner!SymlinkRefused(tree) \subseteq refused
    BY <1>d DEF Scanner!CompleteInv, Scanner!StillInv
  <2>2. \A c \in checks' : \/ c.refused = {} \/ c = Scanner!CoreLinks(met \ refused)
                           \/ c = Scanner!NodeLinks(tree)
    BY <2>1, <1>u, <1>r DEF Scanner!Plain
  <2>3. Scanner!NodeTold' => Scanner!SymlinkRefused(tree) \subseteq refused
    <3>1. CASE "node-ts" \in Scanner!ToSet(mods) \/ Scanner!NodeLinks(tree) \in checks
      BY <3>1, <1>d, <2>1 DEF Scanner!NodeTold
    <3>2. CASE Scanner!NodeLinks(tree) \in new
      <4>1. CASE m = "node-ts"
        BY <4>1, <1>m, <3>1
      <4>2. CASE Scanner!Plain(Scanner!NodeLinks(tree), Scanner!NodeLinks(tree).id)
        BY <4>2, LinkFacts DEF Scanner!Plain
      <4> QED BY <3>2, <4>1, <4>2, <1>r
    <3> QED BY <3>1, <3>2, <1>u, <1>d DEF Scanner!NodeTold
  <2> QED BY <2>1, <2>2, <2>3, <1>d DEF Scanner!StillInv
<1> QED BY <1>1, <1>2, <1>3, <1>4, <1>5 DEF Scanner!CompleteInv

\* Sandbox jobs and questions only add.
LEMMA FragmentKeeps ==
    ASSUME Scanner!CompleteInv, Scanner!ModuleFragment PROVE Scanner!CompleteInv'
<1>d. /\ stage = "fragment" /\ stage' = "module" /\ mods' = Tail(mods)
      /\ checks' = checks \cup Scanner!SandboxOf(Head(mods)) /\ asked \subseteq asked'
      /\ UNCHANGED <<tree, declared, refused, met, treeEdits>>
  BY DEF Scanner!ModuleFragment
<1>s. mods \in Seq(Scanner!Frameworks) /\ mods # <<>> /\ treeEdits \in Nat
  BY <1>d DEF Scanner!CompleteInv, Scanner!ScanInv
<1>m. Head(mods) \in Scanner!Frameworks /\ mods' \in Seq(Scanner!Frameworks)
  BY <1>s, <1>d
<1>t. Scanner!ToSet(mods') \subseteq Scanner!ToSet(mods)
  <2>1. \A i \in DOMAIN mods' : mods'[i] = mods[i + 1] /\ i + 1 \in DOMAIN mods
    BY <1>s, <1>d
  <2> QED BY <2>1, Zenon DEF Scanner!ToSet
<1>r. \A c \in Scanner!SandboxOf(Head(mods)) : c.only = FALSE /\ c.refused = {}
  BY <1>m, SandboxReports DEF Scanner!Plain
<1>1. Scanner!ScanInv'
  BY <1>d, <1>s, <1>m DEF Scanner!CompleteInv, Scanner!ScanInv, Scanner!SuiteRan
<1>2. Scanner!AskedInv'
  <2> SUFFICES ASSUME NEW c \in checks', c.only
               PROVE  c.accept # {} /\ c.accept \subseteq {q.id : q \in asked'}
    BY DEF Scanner!AskedInv
  <2>1. c \in checks
    BY <1>d, <1>r
  <2>2. c.accept # {} /\ c.accept \subseteq {q.id : q \in asked}
    BY <2>1 DEF Scanner!CompleteInv, Scanner!AskedInv
  <2>3. {q.id : q \in asked} \subseteq {q.id : q \in asked'}
    BY <1>d
  <2> QED BY <2>2, <2>3
<1>3. Scanner!BlockInv'
  <2> SUFFICES ASSUME treeEdits' = 0, NEW f \in tree', Scanner!HasProof(f)
               PROVE  Scanner!Blocked'
    BY DEF Scanner!BlockInv
  <2>1. Scanner!Passed /\ checks # {}
    BY <1>d DEF Scanner!Passed, Scanner!CompleteInv, Scanner!ScanInv, Scanner!SuiteRan
  <2>2. Scanner!Blocked
    BY <1>d, <2>1 DEF Scanner!CompleteInv, Scanner!BlockInv
  <2> QED BY <2>2, <1>d DEF Scanner!Blocked
<1>4. Scanner!MetInv'
  <2> SUFFICES ASSUME NEW f \in met' \ refused'
               PROVE  \E c \in checks' : c.id = "core.symlinked-files" /\ c.tier = "warning" /\ f \in c.refused
    BY <1>d DEF Scanner!MetInv
  <2>1. PICK c \in checks : c.id = "core.symlinked-files" /\ c.tier = "warning" /\ f \in c.refused
    BY <1>d DEF Scanner!CompleteInv, Scanner!MetInv, Scanner!Passed
  <2> QED BY <2>1, <1>d
<1>5. Scanner!StillInv'
  <2> SUFFICES ASSUME treeEdits' = 0 PROVE Scanner!StillInv'
    BY DEF Scanner!StillInv
  <2>1. /\ tree \in Trees /\ met \subseteq tree /\ refused \subseteq tree
        /\ \A c \in checks : \/ c.refused = {} \/ c = Scanner!CoreLinks(met \ refused)
                             \/ c = Scanner!NodeLinks(tree)
        /\ Scanner!NodeTold => Scanner!SymlinkRefused(tree) \subseteq refused
    BY <1>d DEF Scanner!CompleteInv, Scanner!StillInv
  <2>2. \A c \in checks' : \/ c.refused = {} \/ c = Scanner!CoreLinks(met \ refused)
                           \/ c = Scanner!NodeLinks(tree)
    BY <2>1, <1>d, <1>r
  <2>3. Scanner!NodeTold' => Scanner!SymlinkRefused(tree) \subseteq refused
    <3>1. CASE "node-ts" \in Scanner!ToSet(mods) \/ Scanner!NodeLinks(tree) \in checks
      BY <3>1, <1>d, <2>1 DEF Scanner!NodeTold
    <3>2. CASE Scanner!NodeLinks(tree) \in Scanner!SandboxOf(Head(mods))
      BY <3>2, <1>r, LinkFacts
    <3> QED BY <3>1, <3>2, <1>t, <1>d DEF Scanner!NodeTold
  <2> QED BY <2>1, <2>2, <2>3, <1>d DEF Scanner!StillInv
<1> QED BY <1>1, <1>2, <1>3, <1>4, <1>5 DEF Scanner!CompleteInv

\* Finish, an edit of the tree, and a stutter.
LEMMA RestKeeps ==
    ASSUME Scanner!CompleteInv,
           Scanner!Finish \/ (\E f \in EditFiles : Scanner!EditTree(f)) \/ UNCHANGED scannerState
    PROVE  Scanner!CompleteInv'
<1>1. CASE Scanner!Finish
  <2>d. /\ stage = "module" /\ stage' \in {"error", "report"}
        /\ stage' = "report" => ~Scanner!RefusedPathsProblem
        /\ UNCHANGED <<tree, mods, declared, refused, met, checks, asked, treeEdits>>
    BY <1>1 DEF Scanner!Finish
  <2>p. Scanner!RefusedPathsProblem' = Scanner!RefusedPathsProblem
    BY <2>d DEF Scanner!RefusedPathsProblem, Scanner!Reported
  <2>1. Scanner!ScanInv' /\ Scanner!AskedInv'
    BY <2>d DEF Scanner!CompleteInv, Scanner!ScanInv, Scanner!SuiteRan, Scanner!AskedInv
  <2>2. Scanner!BlockInv'
    BY <2>d DEF Scanner!CompleteInv, Scanner!BlockInv, Scanner!Passed, Scanner!Blocked
  <2>3. Scanner!MetInv'
    BY <2>d, <2>p DEF Scanner!CompleteInv, Scanner!MetInv, Scanner!Passed
  <2>4. Scanner!StillInv'
    BY <2>d DEF Scanner!CompleteInv, Scanner!StillInv, Scanner!NodeTold
  <2> QED BY <2>1, <2>2, <2>3, <2>4 DEF Scanner!CompleteInv
<1>2. ASSUME NEW f \in EditFiles, Scanner!EditTree(f) PROVE Scanner!CompleteInv'
  <2>d. /\ stage # "report" /\ treeEdits' = treeEdits + 1
        /\ UNCHANGED <<stage, mods, declared, refused, met, checks, asked>>
    BY <1>2 DEF Scanner!EditTree
  <2>e. treeEdits' \in Nat /\ treeEdits' # 0
    BY <2>d DEF Scanner!CompleteInv, Scanner!ScanInv
  <2>1. Scanner!ScanInv' /\ Scanner!AskedInv'
    BY <2>d, <2>e DEF Scanner!CompleteInv, Scanner!ScanInv, Scanner!SuiteRan, Scanner!AskedInv
  <2>2. Scanner!BlockInv' /\ Scanner!StillInv'
    BY <2>e DEF Scanner!BlockInv, Scanner!StillInv
  <2>3. Scanner!MetInv'
    BY <2>d DEF Scanner!CompleteInv, Scanner!MetInv, Scanner!Passed
  <2> QED BY <2>1, <2>2, <2>3 DEF Scanner!CompleteInv
<1>3. CASE UNCHANGED scannerState
  <2>d. UNCHANGED <<tree, stage, mods, declared, refused, met, checks, asked, treeEdits>>
    BY <1>3 DEF scannerState
  <2>1. Scanner!ScanInv' /\ Scanner!AskedInv'
    BY <2>d DEF Scanner!CompleteInv, Scanner!ScanInv, Scanner!SuiteRan, Scanner!AskedInv
  <2>2. Scanner!BlockInv'
    BY <2>d DEF Scanner!CompleteInv, Scanner!BlockInv, Scanner!Passed, Scanner!Blocked
  <2>3. Scanner!MetInv'
    BY <2>d DEF Scanner!CompleteInv, Scanner!MetInv, Scanner!Passed, Scanner!RefusedPathsProblem, Scanner!Reported
  <2>4. Scanner!StillInv'
    BY <2>d DEF Scanner!CompleteInv, Scanner!StillInv, Scanner!NodeTold
  <2> QED BY <2>1, <2>2, <2>3, <2>4 DEF Scanner!CompleteInv
<1> QED BY <1>1, <1>2, <1>3

\* The instance counts as the library does.
LEMMA ScanCardinality == \A S : Scanner!Cardinality(S) = Cardinality(S)
  BY DEF Scanner!Cardinality, Cardinality, Scanner!IsFiniteSet, IsFiniteSet

\* What the invariant says of a report that was given.
LEMMA CompleteIsEnough ==
    ASSUME Scanner!CompleteInv
    PROVE  Scanner!EscapesAreAnnounced /\ Scanner!ProofsBlock /\ Scanner!BlocksCanBeAnswered
<1>1. Scanner!ProofsBlock
  <2> SUFFICES ASSUME stage = "report", treeEdits = 0, NEW f \in tree, checks # {}, Scanner!HasProof(f)
               PROVE  Scanner!Blocked
    BY Zenon DEF Scanner!ProofsBlock, Scanner!Blocked, Scanner!HasProof
  <2> QED BY DEF Scanner!CompleteInv, Scanner!BlockInv, Scanner!Passed
<1>2. Scanner!BlocksCanBeAnswered
  BY DEF Scanner!CompleteInv, Scanner!AskedInv, Scanner!BlocksCanBeAnswered
<1>3. Scanner!EscapesAreAnnounced
  <2> SUFFICES ASSUME stage = "report", NEW f \in met
               PROVE  LET by == {c \in checks : c.tier \in Scanner!Loud /\ Scanner!Path(f) \in Scanner!Paths(c)}
                      IN  by # {} /\ (treeEdits = 0 => Scanner!Cardinality(by) = 1)
    BY Zenon DEF Scanner!EscapesAreAnnounced
  <2> DEFINE by == {c \in checks : c.tier \in Scanner!Loud /\ Scanner!Path(f) \in Scanner!Paths(c)}
  <2>p. \A c, g : g \in c.refused => Scanner!Path(g) \in Scanner!Paths(c)
    BY Zenon DEF Scanner!Paths
  <2>1. by # {}
    <3>1. CASE f \in refused
      <4>1. ~Scanner!RefusedPathsProblem
        BY DEF Scanner!CompleteInv, Scanner!MetInv
      <4>2. Scanner!Path(f) \in Scanner!Reported
        BY <3>1, <4>1 DEF Scanner!RefusedPathsProblem
      <4> QED BY <4>2, Zenon DEF Scanner!Reported
    <3>2. CASE f \notin refused
      <4>1. PICK c \in checks : c.id = "core.symlinked-files" /\ c.tier = "warning" /\ f \in c.refused
        BY <3>2 DEF Scanner!CompleteInv, Scanner!MetInv, Scanner!Passed
      <4>2. c.tier \in Scanner!Loud
        BY <4>1 DEF Scanner!Loud
      <4> QED BY <4>1, <4>2, <2>p, Zenon
    <3> QED BY <3>1, <3>2
  <2>2. ASSUME treeEdits = 0, NEW c \in by, NEW d \in by PROVE c = d
    <3>1. /\ tree \in Trees /\ met \subseteq tree /\ refused \subseteq tree
          /\ \A x \in checks : \/ x.refused = {} \/ x = Scanner!CoreLinks(met \ refused)
                               \/ x = Scanner!NodeLinks(tree)
          /\ Scanner!NodeTold => Scanner!SymlinkRefused(tree) \subseteq refused
      BY <2>2 DEF Scanner!CompleteInv, Scanner!StillInv
    <3>2. ASSUME NEW g \in tree, Scanner!Path(g) = Scanner!Path(f) PROVE g = f
      BY <3>1, <3>2, TreePaths DEF Scanner!Path
    <3>3. ASSUME NEW x \in by PROVE \E g \in x.refused : Scanner!Path(g) = Scanner!Path(f)
      BY Zenon DEF Scanner!Paths
    <3>4. ASSUME NEW x \in by, x = Scanner!CoreLinks(met \ refused) PROVE f \notin refused
      <4>1. x.refused = met \ refused
        BY <3>4, LinkFacts
      <4>2. PICK g \in x.refused : Scanner!Path(g) = Scanner!Path(f)
        BY <3>3, <3>4
      <4>3. g = f
        BY <3>1, <3>2, <4>1, <4>2
      <4> QED BY <4>1, <4>3
    <3>5. ASSUME NEW x \in by, x = Scanner!NodeLinks(tree) PROVE f \in refused
      <4>1. Scanner!NodeTold
        BY <3>5 DEF Scanner!NodeTold
      <4>2. Scanner!SymlinkRefused(tree) \subseteq refused
        BY <4>1, <3>1
      <4>3. x.refused = Scanner!SymlinkRefused(tree)
        BY <3>5, LinkFacts
      <4>4. PICK g \in x.refused : Scanner!Path(g) = Scanner!Path(f)
        BY <3>3, <3>5
      <4>5. g = f
        BY <3>1, <3>2, <4>2, <4>3, <4>4
      <4> QED BY <4>2, <4>3, <4>5
    <3>6. ASSUME NEW x \in by
          PROVE  x = Scanner!CoreLinks(met \ refused) \/ x = Scanner!NodeLinks(tree)
      BY <3>1, <3>3
    <3> QED BY <2>2, <3>4, <3>5, <3>6
  <2>3. ASSUME treeEdits = 0 PROVE Scanner!Cardinality(by) = 1
    <3>1. PICK c \in by : TRUE
      BY <2>1
    <3>2. by = {c}
      BY <2>2, <2>3, <3>1
    <3> QED BY <3>2, FS_Singleton, ScanCardinality
  <2> QED BY <2>1, <2>3
<1> QED BY <1>1, <1>2, <1>3

\* The core suite has one result to an id, and none is a sandbox job's.
LEMMA SuiteNames ==
    ASSUME NEW t, NEW D, NEW e, NEW c \in Scanner!CommonSuite(t, D, e)
    PROVE  /\ c.id \notin Scanner!SandboxIds /\ c.tier \in Scanner!Tiers
           /\ \A d \in Scanner!CommonSuite(t, D, e) : c.id = d.id => c = d
<1>1. Scanner!SecretScan(t, D).id = "core.secret-scan" /\ Scanner!SecretScan(t, D).tier \in Scanner!Tiers
  BY SecretFacts, Zenon
<1>2. \A x \in Scanner!SymlinkedFiles(t, e) : /\ x = Scanner!CoreLinks(Scanner!Escaped(t) \ e)
                                              /\ x.id = "core.symlinked-files" /\ x.tier \in Scanner!Tiers
  <2>1. \A x \in Scanner!SymlinkedFiles(t, e) : x = Scanner!CoreLinks(Scanner!Escaped(t) \ e)
    BY Zenon DEF Scanner!SymlinkedFiles, Scanner!CoreLinks
  <2>2. /\ Scanner!CoreLinks(Scanner!Escaped(t) \ e).id = "core.symlinked-files"
        /\ Scanner!CoreLinks(Scanner!Escaped(t) \ e).tier = "warning"
    BY LinkFacts
  <2> QED BY <2>1, <2>2 DEF Scanner!Tiers
<1>3. /\ Scanner!Lockfile(t).id = "core.lockfile" /\ Scanner!Gitignore(t).id = "core.gitignore"
      /\ Scanner!TestsExist(t).id = "core.tests-exist" /\ Scanner!Healthz(t).id = "core.healthz"
      /\ Scanner!DigestPins(t).id = "core.digest-pins" /\ Scanner!ExposureAuth(t).id = "core.exposure-auth"
      /\ Scanner!ScaleReady(t).id = "core.scale-ready"
      /\ Scanner!Lockfile(t).tier \in Scanner!Tiers /\ Scanner!Gitignore(t).tier \in Scanner!Tiers
      /\ Scanner!TestsExist(t).tier \in Scanner!Tiers /\ Scanner!Healthz(t).tier \in Scanner!Tiers
      /\ Scanner!DigestPins(t).tier \in Scanner!Tiers /\ Scanner!ExposureAuth(t).tier \in Scanner!Tiers
      /\ Scanner!ScaleReady(t).tier \in Scanner!Tiers
  BY CoreResults DEF Scanner!Plain
<1>4. \A x \in Scanner!CommonSuite(t, D, e) :
          \/ x = Scanner!SecretScan(t, D) \/ x \in Scanner!SymlinkedFiles(t, e)
          \/ x = Scanner!Lockfile(t) \/ x = Scanner!Gitignore(t) \/ x = Scanner!TestsExist(t)
          \/ x = Scanner!Healthz(t) \/ x = Scanner!DigestPins(t) \/ x = Scanner!ExposureAuth(t)
          \/ x = Scanner!ScaleReady(t)
  BY Zenon DEF Scanner!CommonSuite
<1> QED BY <1>1, <1>2, <1>3, <1>4 DEF Scanner!SandboxIds

\* So has the node module.
LEMMA NodeNames ==
    ASSUME NEW t, NEW c \in Scanner!NodeChecks(t)
    PROVE  /\ c.id \notin Scanner!SandboxIds
           /\ \A d \in Scanner!NodeChecks(t) : c.id = d.id => c = d
<1>r. \A id, tier : Scanner!CheckResult(id, tier).id = id
  BY DEF Scanner!CheckResult
<1> DEFINE links == IF Scanner!SymlinkRefused(t) = {} THEN {} ELSE {Scanner!NodeLinks(t)}
           patterns == IF Scanner!WorkspaceProblems(t)
                       THEN {Scanner!CheckResult("node-ts.workspace-patterns", "warning")} ELSE {}
           offline == IF Scanner!OfflineDeps(t)
                      THEN {Scanner!CheckResult("node-ts.offline-component", "ok")} ELSE {}
           jobs == IF Scanner!OfflineDeps(t)
                   THEN {Scanner!CheckResult("node-ts.jobs-image", "advice")} ELSE {}
           ingest == IF Scanner!IngestionArmed(t)
                     THEN {Scanner!IngestReconnect(t), Scanner!IngestStaleness(t),
                           Scanner!IngestBackfill(t)} ELSE {}
           package == Scanner!CheckResult("node-ts.service-package",
                          Scanner!OkOr(Scanner!ServiceDir(t) # Scanner!None, "warning"))
           mono == Scanner!CheckResult("node-ts.monorepo", "ok")
           deps == Scanner!CheckResult("node-ts.recognized-deps", "ok")
           threads == Scanner!CheckResult("node-ts.worker-threads", "ok")
<1>1. Scanner!DetectionRecording(t) = patterns \cup links \cup {mono, package, deps, threads} \cup offline
  BY Zenon DEF Scanner!DetectionRecording, Scanner!NodeLinks
<1>2. Scanner!NodeChecks(t) =
          Scanner!LockfileOverride(t) \cup Scanner!DetectionRecording(t) \cup Scanner!FastifyServing(t)
          \cup {Scanner!StrictBuild(t), Scanner!CompiledJs(t), Scanner!EnginesPin(t),
                Scanner!BunDevOnly(t), Scanner!GracefulShutdown(t), Scanner!WsHeartbeat(t),
                Scanner!ReadinessPattern(t), Scanner!ExclusiveUpstream(t),
                Scanner!LocalStateCheck(t), Scanner!SecretsEnv(t)} \cup ingest \cup jobs
  BY Zenon DEF Scanner!NodeChecks
<1>3. /\ mono.id = "node-ts.monorepo" /\ package.id = "node-ts.service-package"
      /\ deps.id = "node-ts.recognized-deps" /\ threads.id = "node-ts.worker-threads"
  BY <1>r, Zenon
<1>4. \A x \in patterns, y \in patterns : x = y /\ x.id = "node-ts.workspace-patterns"
  BY <1>r, Zenon
<1>5. \A x \in offline, y \in offline : x = y /\ x.id = "node-ts.offline-component"
  BY <1>r, Zenon
<1>6. \A x \in jobs, y \in jobs : x = y /\ x.id = "node-ts.jobs-image"
  BY <1>r, Zenon
<1>7. \A x \in links, y \in links : x = y /\ x.id = "node-ts.symlinked-files"
  <2>1. Scanner!NodeLinks(t).id = "node-ts.symlinked-files"
    BY LinkFacts
  <2> QED BY <2>1, Zenon
<1>8. \A x \in Scanner!LockfileOverride(t), y \in Scanner!LockfileOverride(t) : x = y /\ x.id = "core.lockfile"
  BY <1>r, Zenon DEF Scanner!LockfileOverride
<1>9. \A x \in Scanner!FastifyServing(t), y \in Scanner!FastifyServing(t) :
          x = y /\ x.id = "node-ts.fastify-serving"
  BY <1>r, Zenon DEF Scanner!FastifyServing
<1>10. /\ Scanner!StrictBuild(t).id = "node-ts.strict-build" /\ Scanner!CompiledJs(t).id = "node-ts.compiled-js"
       /\ Scanner!EnginesPin(t).id = "node-ts.engines-pin" /\ Scanner!BunDevOnly(t).id = "node-ts.bun-dev-only"
       /\ Scanner!GracefulShutdown(t).id = "node-ts.graceful-shutdown"
       /\ Scanner!WsHeartbeat(t).id = "node-ts.ws-heartbeat"
       /\ Scanner!ReadinessPattern(t).id = "node-ts.readiness-pattern"
       /\ Scanner!ExclusiveUpstream(t).id = "node-ts.exclusive-upstream"
       /\ Scanner!LocalStateCheck(t).id = "node-ts.local-state" /\ Scanner!SecretsEnv(t).id = "node-ts.secrets-env"
       /\ Scanner!IngestReconnect(t).id = "node-ts.ingest-reconnect"
       /\ Scanner!IngestStaleness(t).id = "node-ts.ingest-staleness"
       /\ Scanner!IngestBackfill(t).id = "node-ts.ingest-backfill"
  BY NodeResults DEF Scanner!Plain
<1>11. \A x \in ingest : \/ x = Scanner!IngestReconnect(t) \/ x = Scanner!IngestStaleness(t)
                         \/ x = Scanner!IngestBackfill(t)
  BY Zenon
<1> HIDE DEF links, patterns, offline, jobs, ingest, package, mono, deps, threads
<1>12. \A x \in Scanner!NodeChecks(t) :
          \/ x \in Scanner!LockfileOverride(t) \/ x \in patterns \/ x \in links
          \/ x = mono \/ x = package \/ x = deps \/ x = threads \/ x \in offline
          \/ x \in Scanner!FastifyServing(t)
          \/ x = Scanner!StrictBuild(t) \/ x = Scanner!CompiledJs(t) \/ x = Scanner!EnginesPin(t)
          \/ x = Scanner!BunDevOnly(t) \/ x = Scanner!GracefulShutdown(t) \/ x = Scanner!WsHeartbeat(t)
          \/ x = Scanner!ReadinessPattern(t) \/ x = Scanner!ExclusiveUpstream(t)
          \/ x = Scanner!LocalStateCheck(t) \/ x = Scanner!SecretsEnv(t)
          \/ x = Scanner!IngestReconnect(t) \/ x = Scanner!IngestStaleness(t)
          \/ x = Scanner!IngestBackfill(t) \/ x \in jobs
  BY <1>1, <1>2, <1>11, Zenon
<1> QED BY <1>3, <1>4, <1>5, <1>6, <1>7, <1>8, <1>9, <1>10, <1>12 DEF Scanner!SandboxIds

\* So has the django module.
LEMMA DjangoNames ==
    ASSUME NEW t, NEW c \in Scanner!DjangoChecks(t)
    PROVE  /\ c.id \notin Scanner!SandboxIds
           /\ \A d \in Scanner!DjangoChecks(t) : c.id = d.id => c = d
<1>r. \A id, tier : Scanner!CheckResult(id, tier).id = id
  BY DEF Scanner!CheckResult
<1>r0. PICK r : r = (IF Scanner!ProjectRoot(t) = Scanner!None THEN "." ELSE Scanner!ProjectRoot(t))
  OBVIOUS
<1>1. Scanner!SecretKey(t, r).id \in {"django.secret-dev-fallback", "django.secret-key-literal"}
  BY <1>r, Zenon DEF Scanner!SecretKey
<1>2. \A x \in Scanner!CsrfTrusted(t, r), y \in Scanner!CsrfTrusted(t, r) :
          x = y /\ x.id = "django.csrf-trusted-origins"
  BY <1>r, Zenon DEF Scanner!CsrfTrusted
<1>3. \A x \in Scanner!Sidecars(t, r), y \in Scanner!Sidecars(t, r) : x = y /\ x.id = "django.sidecars"
  BY <1>r, Zenon DEF Scanner!Sidecars
<1>4. PICK mode : mode = Scanner!CheckResult("django.server-mode", "ok") /\ mode.id = "django.server-mode"
  BY <1>r
<1>5. /\ Scanner!SettingsShape(t, r).id = "django.settings-shape"
      /\ Scanner!DebugHardcoded(t, r).id = "django.debug-hardcoded"
      /\ Scanner!AllowedHosts(t, r).id = "django.allowed-hosts" /\ Scanner!DbEngine(t, r).id = "django.db-engine"
      /\ Scanner!StaticRoot(t, r).id = "django.static-root"
      /\ Scanner!SecuritySettings(t, r).id = "django.security-settings"
      /\ Scanner!DependencyManifest(t, r).id = "django.dependency-manifest"
      /\ Scanner!DepsPinned(t, r).id = "django.deps-pinned" /\ Scanner!Versions(t, r).id = "django.runtime-versions"
      /\ Scanner!Runserver(t, r).id = "django.runserver"
  <2>1. \A x, id : Scanner!Plain(x, id) => x.id = id
    BY DEF Scanner!Plain
  <2> QED BY <2>1, DjangoResults, Zenon
<1>6. \A x \in Scanner!DjangoChecks(t) :
          \/ x = Scanner!SettingsShape(t, r) \/ x = Scanner!DebugHardcoded(t, r)
          \/ x = Scanner!SecretKey(t, r) \/ x = Scanner!AllowedHosts(t, r) \/ x = Scanner!DbEngine(t, r)
          \/ x = Scanner!StaticRoot(t, r) \/ x = Scanner!SecuritySettings(t, r)
          \/ x = Scanner!DependencyManifest(t, r) \/ x = Scanner!DepsPinned(t, r)
          \/ x = Scanner!Versions(t, r) \/ x = mode \/ x = Scanner!Runserver(t, r)
          \/ x \in Scanner!CsrfTrusted(t, r) \/ x \in Scanner!Sidecars(t, r)
  BY <1>r0, <1>4, Zenon DEF Scanner!DjangoChecks
<1> QED BY <1>1, <1>2, <1>3, <1>4, <1>5, <1>6 DEF Scanner!SandboxIds

\* So has every module.
LEMMA ModuleNames ==
    ASSUME NEW m \in Scanner!Frameworks, NEW t, NEW c \in Scanner!ChecksOf(m, t)
    PROVE  /\ c.id \notin Scanner!SandboxIds /\ c.tier \in Scanner!Tiers
           /\ \A d \in Scanner!ChecksOf(m, t) : c.id = d.id => c = d
<1>0. c.tier \in Scanner!Tiers
  <2>1. Scanner!NodeLinks(t).tier = "warning"
    BY LinkFacts
  <2> QED BY <2>1, ModuleReports DEF Scanner!Plain, Scanner!Tiers
<1>1. CASE m = "django"
  BY <1>0, <1>1, DjangoNames DEF Scanner!ChecksOf
<1>2. CASE m = "node-ts"
  BY <1>0, <1>2, NodeNames DEF Scanner!ChecksOf
<1>3. CASE m = "dockerfile"
  <2>1. \A id, tier : Scanner!CheckResult(id, tier).id = id
    BY DEF Scanner!CheckResult
  <2>2. PICK x, y, z : /\ Scanner!DockerfileChecks(t) = {x, y, z} /\ x.id = "dockerfile.expose"
                       /\ y.id = "dockerfile.non-root" /\ z.id = "dockerfile.latest-tag"
    <3> DEFINE text == Scanner!DockerfileText(t)
               x == Scanner!CheckResult("dockerfile.expose",
                        Scanner!OkOr(Scanner!Has(text, "expose"), "warning"))
               y == Scanner!CheckResult("dockerfile.non-root",
                        Scanner!OkOr(Scanner!Has(text, "user"), "warning"))
               z == Scanner!CheckResult("dockerfile.latest-tag",
                        Scanner!OkOr(~Scanner!Has(text, "latest"), "warning"))
    <3>1. Scanner!DockerfileChecks(t) = {x, y, z}
      BY Zenon DEF Scanner!DockerfileChecks
    <3>2. x.id = "dockerfile.expose" /\ y.id = "dockerfile.non-root" /\ z.id = "dockerfile.latest-tag"
      BY <2>1, Zenon
    <3> HIDE DEF x, y, z
    <3> QED BY <3>1, <3>2, Zenon
  <2> QED BY <1>0, <1>3, <2>2 DEF Scanner!ChecksOf, Scanner!SandboxIds
<1>4. CASE m = "static"
  BY <1>4 DEF Scanner!ChecksOf
<1> QED BY <1>1, <1>2, <1>3, <1>4 DEF Scanner!Frameworks

\* Results keep their names through every step of a scan.
LEMMA NamedNext ==
    ASSUME Scanner!ScanInv, Scanner!NamedInv, [Scanner!Next]_scannerState
    PROVE  Scanner!NamedInv'
<1>t. /\ Scanner!TypeOK /\ mods \in Seq(Scanner!Frameworks)
      /\ \A c \in checks : c.id \in Scanner!SandboxIds => c = Scanner!CheckResult(c.id, "pending_sandbox")
  BY DEF Scanner!NamedInv, Scanner!ScanInv
<1>e. treeEdits \in 0..MaxScanEdits
  BY <1>t DEF Scanner!TypeOK
<1>1. CASE Scanner!Detect
  <2>1. \A m \in Scanner!Frameworks : \A b : Scanner!Matching(m, b) \in Seq(Scanner!Frameworks)
    BY DEF Scanner!Matching
  <2>2. "django" \in Scanner!Frameworks /\ "node-ts" \in Scanner!Frameworks
        /\ "dockerfile" \in Scanner!Frameworks /\ "static" \in Scanner!Frameworks
    BY DEF Scanner!Frameworks
  <2>3. Scanner!DetectModules(tree) \in Seq(Scanner!Frameworks)
    BY <2>1, <2>2 DEF Scanner!DetectModules
  <2>4. Scanner!ToSet(mods') \subseteq Scanner!Frameworks
    BY <1>1, <2>3 DEF Scanner!Detect, Scanner!ToSet
  <2> QED BY <1>1, <1>t, <1>e, <2>4 DEF Scanner!Detect, Scanner!NamedInv, Scanner!TypeOK
<1>2. CASE Scanner!LoadDeclarations \/ Scanner!RefusedPaths \/ Scanner!Finish
  BY <1>2, <1>t, <1>e DEF Scanner!LoadDeclarations, Scanner!RefusedPaths, Scanner!Finish, Scanner!NamedInv, Scanner!TypeOK
<1>3. CASE Scanner!CommonChecks
  <2>1. stage' = "module" /\ mods' = mods /\ treeEdits' = treeEdits
        /\ checks' = Scanner!CommonSuite(tree, declared, refused)
    BY <1>3 DEF Scanner!CommonChecks, Scanner!SuiteDeclarations
  <2>2. \A c \in checks' : /\ c.id \notin Scanner!SandboxIds /\ c.tier \in Scanner!Tiers
                           /\ \A d \in checks' : c.id = d.id => c = d
    BY <2>1, SuiteNames, Zenon
  <2> QED BY <1>t, <1>e, <2>1, <2>2 DEF Scanner!NamedInv, Scanner!TypeOK
<1>4. CASE Scanner!ModuleChecks
  <2>1. stage' \in {"fragment", "error"} /\ mods # <<>> /\ mods' = mods /\ treeEdits' = treeEdits
    BY <1>4 DEF Scanner!ModuleChecks
  <2>2. PICK m \in Scanner!Frameworks : m = Head(mods)
    BY <1>t, <2>1
  <2>3. PICK new : new = Scanner!ChecksOf(m, tree)
    OBVIOUS
  <2>4. checks' = checks \/ checks' = Scanner!Supersede(new)
    BY <1>4, <2>2, <2>3, Zenon DEF Scanner!ModuleChecks
  <2>5. \A c \in new : /\ c.id \notin Scanner!SandboxIds /\ c.tier \in Scanner!Tiers
                       /\ \A d \in new : c.id = d.id => c = d
    BY <2>3, ModuleNames, Zenon
  <2>6. \A c \in Scanner!Supersede(new) : c \in new \/ (c \in checks /\ \A n \in new : n.id # c.id)
    BY Zenon DEF Scanner!Supersede
  <2>7. \A c \in checks : c.tier \in Scanner!Tiers /\ \A d \in checks : c.id = d.id => c = d
    BY <1>t DEF Scanner!TypeOK
  <2>8. \A c \in checks' : c.tier \in Scanner!Tiers /\ \A d \in checks' : c.id = d.id => c = d
    BY <2>4, <2>5, <2>6, <2>7
  <2>9. \A c \in checks' : c.id \in Scanner!SandboxIds => c = Scanner!CheckResult(c.id, "pending_sandbox")
    BY <1>t, <2>4, <2>5, <2>6
  <2> QED BY <1>t, <1>e, <2>1, <2>8, <2>9 DEF Scanner!NamedInv, Scanner!TypeOK
<1>5. CASE Scanner!ModuleFragment
  <2>1. /\ stage = "fragment" /\ stage' = "module" /\ mods' = Tail(mods) /\ treeEdits' = treeEdits
        /\ checks' = checks \cup Scanner!SandboxOf(Head(mods))
    BY <1>5 DEF Scanner!ModuleFragment
  <2>2. mods # <<>>
    BY <2>1 DEF Scanner!ScanInv
  <2>3. Head(mods) \in Scanner!Frameworks /\ mods' \in Seq(Scanner!Frameworks)
    BY <1>t, <2>1, <2>2
  <2>4. \A c \in Scanner!SandboxOf(Head(mods)) :
            c.id \in Scanner!SandboxIds /\ c = Scanner!CheckResult(c.id, "pending_sandbox")
    <3>1. \A id, tier : Scanner!CheckResult(id, tier).id = id
      BY DEF Scanner!CheckResult
    <3>2. ASSUME NEW c \in Scanner!SandboxOf(Head(mods))
          PROVE  \E id \in Scanner!SandboxIds : c = Scanner!CheckResult(id, "pending_sandbox")
      BY DEF Scanner!SandboxOf, Scanner!DjangoSandbox, Scanner!NodeSandbox, Scanner!SandboxIds
    <3>3. ASSUME NEW id \in Scanner!SandboxIds, NEW c, c = Scanner!CheckResult(id, "pending_sandbox")
          PROVE  c.id \in Scanner!SandboxIds /\ c = Scanner!CheckResult(c.id, "pending_sandbox")
      <4>1. c.id = id
        BY <3>1, <3>3
      <4> QED BY <3>3, <4>1
    <3> QED BY <3>2, <3>3
  <2>5. \A id : Scanner!CheckResult(id, "pending_sandbox").tier = "pending_sandbox"
    BY DEF Scanner!CheckResult
  <2>6. \A c \in checks : c.tier \in Scanner!Tiers /\ \A d \in checks : c.id = d.id => c = d
    BY <1>t DEF Scanner!TypeOK
  <2>7. \A c \in checks' : c.id \in Scanner!SandboxIds => c = Scanner!CheckResult(c.id, "pending_sandbox")
    BY <1>t, <2>1, <2>4
  <2>8. \A c \in checks' : c.tier \in Scanner!Tiers /\ \A d \in checks' : c.id = d.id => c = d
    <3>1. \A c \in checks' : c.tier \in Scanner!Tiers
      <4>1. "pending_sandbox" \in Scanner!Tiers
        BY DEF Scanner!Tiers
      <4>2. \A c \in Scanner!SandboxOf(Head(mods)) : c.tier = "pending_sandbox"
        BY <2>4, <2>5, Zenon
      <4> QED BY <2>1, <2>6, <4>1, <4>2
    <3>2. ASSUME NEW c \in checks', NEW d \in checks', c.id = d.id PROVE c = d
      <4>1. CASE c.id \in Scanner!SandboxIds
        BY <2>7, <3>2, <4>1
      <4>2. CASE c.id \notin Scanner!SandboxIds
        BY <2>1, <2>4, <2>6, <3>2, <4>2
      <4> QED BY <4>1, <4>2
    <3> QED BY <3>1, <3>2
  <2>9. Scanner!ToSet(mods') \subseteq Scanner!Frameworks
    BY <2>3 DEF Scanner!ToSet
  <2> QED BY <1>e, <2>1, <2>7, <2>8, <2>9 DEF Scanner!NamedInv, Scanner!TypeOK
<1>6. ASSUME NEW f \in EditFiles, Scanner!EditTree(f) PROVE Scanner!NamedInv'
  <2>1. treeEdits < MaxScanEdits /\ treeEdits' = treeEdits + 1 /\ UNCHANGED <<stage, mods, checks>>
    BY <1>6 DEF Scanner!EditTree
  <2>2. treeEdits' \in 0..MaxScanEdits
    BY <2>1, <1>e, ScanBounds
  <2> QED BY <1>t, <2>1, <2>2 DEF Scanner!NamedInv, Scanner!TypeOK
<1>7. CASE UNCHANGED scannerState
  <2>1. UNCHANGED <<stage, mods, checks, treeEdits>>
    BY <1>7 DEF scannerState
  <2> QED BY <1>t, <1>e, <2>1 DEF Scanner!NamedInv, Scanner!TypeOK
<1> QED BY <1>1, <1>2, <1>3, <1>4, <1>5, <1>6, <1>7 DEF Scanner!Next

\* The invariant of the scanner, of the composition.
ReportInv == focus = "scanner" => Scanner!CompleteInv /\ Scanner!NamedInv

\* The composition keeps it.
LEMMA ReportInvariant == Spec => []ReportInv
<1>1. Init => ReportInv
  <2> SUFFICES ASSUME Init, focus = "scanner" PROVE Scanner!CompleteInv /\ Scanner!NamedInv
    BY DEF ReportInv
  <2>1. Scanner!Init
    BY DEF Init, ScannerStarts
  <2>2. /\ stage = "detect" /\ mods = <<>> /\ treeEdits = 0 /\ checks = {} /\ met = {} /\ refused = {}
        /\ tree \in Trees
    BY <2>1 DEF Scanner!Init
  <2>3. Scanner!ScanInv /\ Scanner!AskedInv /\ Scanner!BlockInv /\ Scanner!MetInv
    BY <2>2 DEF Scanner!ScanInv, Scanner!SuiteRan, Scanner!AskedInv, Scanner!BlockInv, Scanner!Passed, Scanner!MetInv
  <2>4. Scanner!StillInv
    BY <2>2 DEF Scanner!StillInv, Scanner!NodeTold
  <2>5. Scanner!NamedInv
    BY <2>2, ScanBounds DEF Scanner!NamedInv, Scanner!TypeOK, Scanner!ToSet
  <2> QED BY <2>3, <2>4, <2>5 DEF Scanner!CompleteInv
<1>2. ReportInv /\ [Next]_allVars => ReportInv'
  <2> SUFFICES ASSUME Scanner!CompleteInv, Scanner!NamedInv, [Scanner!Next]_scannerState
               PROVE  Scanner!CompleteInv' /\ Scanner!NamedInv'
    BY OneAtATime DEF ReportInv
  <2>1. Scanner!NamedInv'
    BY NamedNext DEF Scanner!CompleteInv
  <2>2. Scanner!CompleteInv'
    BY FirstWalksKeep, SuiteKeeps, ModuleKeeps, FragmentKeeps, RestKeeps DEF Scanner!Next
  <2> QED BY <2>1, <2>2
<1> QED BY <1>1, <1>2, PTL DEF Spec

\* For any trees, edits and limits: a report that is given announces every file the core
\* walk found linked out of the tree, exactly once when the tree stood still, blocks for
\* every proof, and asks every confirm its blocks need (core.py, scan).
THEOREM ScanTheorem == Spec => []ReportIsComplete
<1>1. ReportInv => ReportIsComplete
  BY CompleteIsEnough DEF ReportIsComplete, ReportInv
<1> QED BY <1>1, ReportInvariant, PTL
=============================================================================
