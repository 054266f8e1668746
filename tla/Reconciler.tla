----------------------------- MODULE Reconciler -----------------------------
(***************************************************************************)
(* The reconciler, reconcile/loop.py and reconcile/tasks.py, with the      *)
(* collector that feeds it (monitor/collector.py, monitor/tasks.py).       *)
(*                                                                         *)
(* Beat starts a pass over the fleet every 90 s on a queue with four       *)
(* children; a pass that waits for SSH is overtaken by the next one, so    *)
(* several tickers may look at a site at once.  A site has one             *)
(* SiteInstance here, named like the site.                                 *)
(*                                                                         *)
(* What a container is (host) and what is seen of it (an observation) are  *)
(* both one of States.  "down" stands for absent and for stopped, which    *)
(* _plan treats alike; "degraded" for a container whose health carries a   *)
(* reason that brakes the reconciler (feed staleness, upstream down).      *)
(* observed_state and observed_at are written and never read by the loop,  *)
(* so they are left out, like the audit texts.                             *)
(***************************************************************************)
EXTENDS Integers, Sequences, FiniteSets

CONSTANTS
    Sites,
    TargetOf,        \* SiteInstance.target, and the target deployments lock
    Ready,           \* targets of status READY: the ones that are collected
    Tickers,         \* children of the probes queue that run tick_all
    NoSite,
    NoPayload,       \* no collect payload younger than COLLECT_FRESH_S
    BackoffAfter,    \* BACKOFF_AFTER
    FlapCycleLimit,  \* FLAP_CYCLE_LIMIT
    GlobalBudget,    \* GLOBAL_MUTATION_BUDGET
    MaxEdits,        \* bound: drifts, operator commands and deployments
    MaxFaults,       \* bound: commands that fail and observations that raise
    MaxExpiries,     \* bound: payloads that outlive COLLECT_FRESH_S
    MaxCrashes       \* bound: tickers killed in one behaviour

ASSUME SiteAssumption == NoSite \notin Sites
ASSUME TickersAssumption == IsFiniteSet(Tickers) /\ Tickers # {}
ASSUME ReadyAssumption == Ready \subseteq {TargetOf[s] : s \in Sites}
ASSUME LimitsAssumption == /\ BackoffAfter \in Nat \ {0}
                           /\ FlapCycleLimit \in Nat \ {0}
                           /\ GlobalBudget \in Nat \ {0}
ASSUME ReconcilerBoundsAssumption == /\ MaxEdits \in Nat
                                     /\ MaxFaults \in Nat
                                     /\ MaxExpiries \in Nat
                                     /\ MaxCrashes \in Nat

VARIABLES
    host,      \* the container, as it really is
    desired,   \* SiteInstance.desired_state
    failures,  \* SiteInstance.consecutive_failures
    enabled,   \* Site.reconcile_enabled
    maint,     \* Site.maintenance_until lies ahead
    lock,      \* the site's OperationLock of kind reconcile
    deploying, \* sites whose deployment holds its deploy locks
    repairs,   \* start and stop repairs in the flap window since the re-arm
    paused,    \* a flap pause newer than the last re-arm
    payload,   \* per target: a fresh collect payload
    probing,   \* per target: what a collector has read and not yet saved
    pc, site, row, act, armed, todo, budget,  \* the tickers, see below
    late,      \* history: repairs of a site since a deployment took its locks
    offs,      \* history: repairs by a ticker since the site was switched off
    excess,    \* history: repairs since the flap limit was reached
    restarts,  \* history: restarts of a container that stayed unhealthy
    edits, faults, expiries, crashes

rowVars == <<desired, failures>>
siteVars == <<enabled, maint>>
flapVars == <<repairs, paused>>
collectVars == <<payload, probing>>
passVars == <<armed, todo, budget>>
tickerVars == <<pc, site, row, act>>
histVars == <<late, offs, excess, restarts>>
boundVars == <<edits, faults, expiries, crashes>>
vars == <<host, rowVars, siteVars, lock, deploying, flapVars, collectVars,
          passVars, tickerVars, histVars, boundVars>>

States == {"down", "running", "warming", "unhealthy", "degraded"}
Up == States \ {"down"}
Wishes == {"running", "stopped"}
Ops == {"none", "start", "stop", "restart"}
\* What a ticker holds of the SiteInstance it last read.
Rows == [failures : Nat, desired : Wishes]
NoRow == [failures |-> 0, desired |-> "running"]
ReadRow(s) == [failures |-> failures[s], desired |-> desired[s]]
Targets == {TargetOf[s] : s \in Sites}
SitesOn(h) == {s \in Sites : TargetOf[s] = h}

Init ==
    /\ host = [s \in Sites |-> "running"]
    /\ desired = [s \in Sites |-> "running"]
    /\ failures = [s \in Sites |-> 0]
    /\ enabled = [s \in Sites |-> TRUE]
    /\ maint = [s \in Sites |-> FALSE]
    /\ lock = [s \in Sites |-> FALSE]
    /\ deploying = {}
    /\ repairs = [s \in Sites |-> <<>>]
    /\ paused = [s \in Sites |-> FALSE]
    /\ payload = [h \in Targets |-> NoPayload]
    /\ probing = [h \in Targets |-> NoPayload]
    /\ pc = [t \in Tickers |-> "idle"]
    /\ site = [t \in Tickers |-> NoSite]
    /\ row = [t \in Tickers |-> NoRow]
    /\ act = [t \in Tickers |-> "none"]
    /\ armed = [t \in Tickers |-> {}]
    /\ todo = [t \in Tickers |-> {}]
    /\ budget = [t \in Tickers |-> 0]
    /\ late = [d \in Sites |-> [s \in Sites |-> 0]]
    /\ offs = [s \in Sites |-> [t \in Tickers |-> 0]]
    /\ excess = [s \in Sites |-> 0]
    /\ restarts = [s \in Sites |-> 0]
    /\ edits = 0 /\ faults = 0 /\ expiries = 0 /\ crashes = 0

-----------------------------------------------------------------------------
(* What the loop reads and decides. *)

\* docker inspect only tells a live container from the rest.
ProbeState(s) == IF host[s] = "down" THEN "down" ELSE "running"

\* _read_observed: a fresh payload wins over the probe.
Seen(s) ==
    LET p == payload[TargetOf[s]]
    IN  IF p # NoPayload THEN p[s] ELSE ProbeState(s)

\* _braked, for a ticker that holds the row r and observed o.
Braked(t, s, r, o) ==
    \/ s \notin armed[t]
    \/ o = "degraded"
    \/ r.failures >= BackoffAfter
    \/ paused[s]

\* _plan
Plan(r, o) ==
    IF r.desired = "stopped" /\ o \in {"running", "unhealthy"} THEN "stop"
    ELSE IF r.desired = "running" /\ o = "unhealthy" /\ r.failures = 0 THEN "restart"
    ELSE IF r.desired = "running" /\ o = "down" THEN "start"
    ELSE "none"

\* _maybe_clear_failures
ClearFailures(s, r, o) ==
    failures' = IF o = "running" /\ r.desired = "running" /\ r.failures > 0
                THEN [failures EXCEPT ![s] = 0] ELSE failures

\* _deploy_lock_held: the site's own lock, or its target's.
DeployLockHeld(s) == \E d \in deploying : TargetOf[d] = TargetOf[s]

\* _cycle_count: pairs of a start and a stop, taken greedily from the left.
CycleCount(ops) ==
    LET cycles[i \in Nat] ==
          IF i >= Len(ops) THEN 0
          ELSE IF ops[i] # ops[i + 1] THEN 1 + cycles[i + 2]
          ELSE cycles[i + 1]
    IN  cycles[1]

Goto(t, from, to) == pc[t] = from /\ pc' = [pc EXCEPT ![t] = to]

Fault == faults < MaxFaults /\ faults' = faults + 1 /\ UNCHANGED <<edits, expiries, crashes>>

-----------------------------------------------------------------------------
(* tick_all: one pass over the fleet. *)

\* Mutant: the pass takes every site that is not under maintenance.
StartPassUnswitched(t) ==
    /\ Goto(t, "idle", "next")
    /\ armed' = [armed EXCEPT ![t] = {s \in Sites : ~maint[s]}]
    /\ todo' = [todo EXCEPT ![t] = Sites]
    /\ budget' = [budget EXCEPT ![t] = GlobalBudget]
    /\ UNCHANGED <<host, rowVars, siteVars, lock, deploying, flapVars, collectVars,
                   site, row, act, histVars, boundVars>>

\* The query joins the sites: reconcile_enabled and maintenance_until are read
\* here, for the whole pass.
StartPass(t) ==
    /\ Goto(t, "idle", "next")
    /\ armed' = [armed EXCEPT ![t] = {s \in Sites : enabled[s] /\ ~maint[s]}]
    /\ todo' = [todo EXCEPT ![t] = Sites]
    /\ budget' = [budget EXCEPT ![t] = GlobalBudget]
    /\ UNCHANGED <<host, rowVars, siteVars, lock, deploying, flapVars, collectVars,
                   site, row, act, histVars, boundVars>>

EndPass(t) ==
    /\ todo[t] = {} \/ budget[t] = 0
    /\ Goto(t, "next", "idle")
    /\ armed' = [armed EXCEPT ![t] = {}]
    /\ todo' = [todo EXCEPT ![t] = {}]
    /\ budget' = [budget EXCEPT ![t] = 0]
    /\ UNCHANGED <<host, rowVars, siteVars, lock, deploying, flapVars, collectVars,
                   site, row, act, histVars, boundVars>>

\* tick reads the instance again before it observes.
Visit(t, s) ==
    /\ s \in todo[t] /\ budget[t] > 0
    /\ Goto(t, "next", "look")
    /\ site' = [site EXCEPT ![t] = s]
    /\ row' = [row EXCEPT ![t] = ReadRow(s)]
    /\ todo' = [todo EXCEPT ![t] = @ \ {s}]
    /\ UNCHANGED <<host, rowVars, siteVars, lock, deploying, flapVars, collectVars,
                   act, armed, budget, histVars, boundVars>>

\* Done with the instance: nothing is kept of it.
Leave(t, from) ==
    /\ Goto(t, from, "next")
    /\ site' = [site EXCEPT ![t] = NoSite]
    /\ row' = [row EXCEPT ![t] = NoRow]
    /\ act' = [act EXCEPT ![t] = "none"]

\* The first observation, the brakes, the plan and the look at the deploy locks.
Look(t) ==
    LET s == site[t]
        r == row[t]
        o == Seen(s)
        plan == Plan(r, o)
    IN  /\ pc[t] = "look"
        /\ \/ /\ Braked(t, s, r, o)
              /\ Leave(t, "look") /\ UNCHANGED failures
           \/ /\ ~Braked(t, s, r, o) /\ plan = "none"
              /\ Leave(t, "look") /\ ClearFailures(s, r, o)
           \/ /\ ~Braked(t, s, r, o) /\ plan # "none" /\ DeployLockHeld(s)
              /\ Leave(t, "look") /\ UNCHANGED failures
           \/ /\ ~Braked(t, s, r, o) /\ plan # "none" /\ ~DeployLockHeld(s)
              /\ Goto(t, "look", "acquire") /\ UNCHANGED <<site, row, act, failures>>
        /\ UNCHANGED <<host, desired, siteVars, lock, deploying, flapVars, collectVars,
                       passVars, histVars, boundVars>>

\* The observation raises; tick_all audits it and goes on.
LookError(t) ==
    /\ Leave(t, "look")
    /\ Fault
    /\ UNCHANGED <<host, rowVars, siteVars, lock, deploying, flapVars, collectVars,
                   passVars, histVars>>

-----------------------------------------------------------------------------
(* _apply: under the reconcile lock. *)

Acquire(t) ==
    LET s == site[t]
    IN  /\ pc[t] = "acquire"
        /\ \/ /\ lock[s] /\ Leave(t, "acquire") /\ UNCHANGED lock
           \/ /\ ~lock[s]
              /\ Goto(t, "acquire", "recheck")
              /\ lock' = [lock EXCEPT ![s] = TRUE]
              /\ UNCHANGED <<site, row, act>>
        /\ UNCHANGED <<host, rowVars, siteVars, deploying, flapVars, collectVars,
                       passVars, histVars, boundVars>>

\* refresh_from_db, the second observation, the brakes and the plan again.
Recheck(t) ==
    LET s == site[t]
        r == ReadRow(s)
        o == Seen(s)
        plan == Plan(r, o)
    IN  /\ pc[t] = "recheck"
        /\ \/ /\ Braked(t, s, r, o)
              /\ Goto(t, "recheck", "release") /\ UNCHANGED <<act, failures>>
           \/ /\ ~Braked(t, s, r, o) /\ plan = "none"
              /\ Goto(t, "recheck", "release") /\ UNCHANGED act
              /\ ClearFailures(s, r, o)
           \/ /\ ~Braked(t, s, r, o) /\ plan # "none"
              /\ Goto(t, "recheck", "guard")
              /\ act' = [act EXCEPT ![t] = plan]
              /\ UNCHANGED failures
        /\ row' = [row EXCEPT ![t] = r]
        /\ UNCHANGED <<host, desired, siteVars, lock, deploying, flapVars, collectVars,
                       passVars, site, histVars, boundVars>>

\* The second observation raises inside the try: a failed convergence.
RecheckError(t) ==
    LET s == site[t]
    IN  /\ Goto(t, "recheck", "release")
        /\ failures' = [failures EXCEPT ![s] = @ + 1]
        /\ Fault
        /\ UNCHANGED <<host, desired, siteVars, lock, deploying, flapVars, collectVars,
                       passVars, site, row, act, histVars>>

\* Mutant: the deploy locks are not looked at again under the reconcile lock.
GuardUnlocked(t) ==
    /\ Goto(t, "guard", "act")
    /\ UNCHANGED <<host, rowVars, siteVars, lock, deploying, flapVars, collectVars,
                   passVars, site, row, act, histVars, boundVars>>

\* The lock row is still there, and no deployment has taken its locks.
Guard(t) ==
    LET s == site[t]
    IN  /\ pc[t] = "guard"
        /\ IF lock[s] /\ ~DeployLockHeld(s)
           THEN Goto(t, "guard", "act") /\ UNCHANGED act
           ELSE Goto(t, "guard", "release") /\ act' = [act EXCEPT ![t] = "none"]
        /\ UNCHANGED <<host, rowVars, siteVars, lock, deploying, flapVars, collectVars,
                       passVars, site, row, histVars, boundVars>>

\* ensure_start leaves a live container alone; creating one for a site of the
\* recreate strategy opens its maintenance window.
EnsureStart(s) ==
    IF host[s] = "down"
    THEN /\ \E x \in Up : host' = [host EXCEPT ![s] = x]
         /\ \E m \in {maint[s], TRUE} : maint' = [maint EXCEPT ![s] = m]
    ELSE UNCHANGED <<host, maint>>

\* The command succeeds.
ActOk(t) ==
    LET s == site[t]
    IN  /\ Goto(t, "act", "save")
        /\ \/ /\ act[t] = "start"
              /\ EnsureStart(s)
              /\ UNCHANGED restarts
           \/ /\ act[t] = "stop"
              /\ host' = [host EXCEPT ![s] = "down"]
              /\ UNCHANGED <<maint, restarts>>
           \/ /\ act[t] = "restart"
              /\ \E x \in Up :
                   /\ host' = [host EXCEPT ![s] = x]
                   /\ restarts' = [restarts EXCEPT ![s] =
                        IF host[s] # "unhealthy" THEN 0
                        ELSE IF @ < 2 THEN @ + 1 ELSE 2]
              /\ UNCHANGED maint
        /\ late' = [d \in Sites |->
             IF d \in deploying /\ TargetOf[d] = TargetOf[s]
             THEN [late[d] EXCEPT ![s] = @ + 1] ELSE late[d]]
        /\ offs' = IF enabled[s] THEN offs ELSE [offs EXCEPT ![s][t] = @ + 1]
        /\ UNCHANGED <<rowVars, enabled, lock, deploying, flapVars, collectVars,
                       passVars, site, row, act, excess, boundVars>>

\* The command fails: the except branch counts it.
ActFail(t) ==
    LET s == site[t]
    IN  /\ Goto(t, "act", "release")
        /\ act' = [act EXCEPT ![t] = "none"]
        /\ failures' = [failures EXCEPT ![s] = row[t].failures + 1]
        /\ Fault
        /\ UNCHANGED <<host, desired, siteVars, lock, deploying, flapVars, collectVars,
                       passVars, site, row, histVars>>

\* The row, the audit event and the payload, which is marked old.
Save(t) ==
    LET s == site[t]
        ops == IF act[t] = "restart" THEN repairs[s] ELSE Append(repairs[s], act[t])
    IN  /\ Goto(t, "save", "release")
        /\ failures' = [failures EXCEPT ![s] =
             CASE act[t] = "start"   -> 0
               [] act[t] = "stop"    -> row[t].failures
               [] act[t] = "restart" -> row[t].failures + 1]
        /\ repairs' = [repairs EXCEPT ![s] = ops]
        /\ payload' = [payload EXCEPT ![TargetOf[s]] = NoPayload]
        /\ excess' = [excess EXCEPT ![s] =
             IF CycleCount(repairs[s]) >= FlapCycleLimit THEN @ + 1 ELSE 0]
        /\ UNCHANGED <<host, desired, siteVars, lock, deploying, paused, probing,
                       passVars, site, row, act, late, offs, restarts, boundVars>>

\* Mutant: the lock is given back only after a repair.
ReleaseOnSuccess(t) ==
    /\ pc[t] = "release"
    /\ IF act[t] = "none" THEN Leave(t, "release") /\ UNCHANGED lock
       ELSE /\ Goto(t, "release", "flap") /\ UNCHANGED <<site, row, act>>
            /\ lock' = [lock EXCEPT ![site[t]] = FALSE]
    /\ UNCHANGED <<host, rowVars, siteVars, deploying, flapVars, collectVars,
                   passVars, histVars, boundVars>>

\* The finally clause; every ticker uses the same holder.
Release(t) ==
    /\ pc[t] = "release"
    /\ lock' = [lock EXCEPT ![site[t]] = FALSE]
    /\ IF act[t] = "none" THEN Leave(t, "release")
       ELSE Goto(t, "release", "flap") /\ UNCHANGED <<site, row, act>>
    /\ UNCHANGED <<host, rowVars, siteVars, deploying, flapVars, collectVars,
                   passVars, histVars, boundVars>>

\* Mutant: the pause comes one cycle late.
FlapLate(t) ==
    LET s == site[t]
    IN  /\ Leave(t, "flap")
        /\ budget' = [budget EXCEPT ![t] = @ - 1]
        /\ paused' = [paused EXCEPT ![s] = @ \/ CycleCount(repairs[s]) > FlapCycleLimit]
        /\ UNCHANGED <<host, rowVars, siteVars, lock, deploying, repairs, collectVars,
                       armed, todo, histVars, boundVars>>

\* Mutant: a mutation is taken from the budget by tick and by tick_all.
FlapChargesTwice(t) ==
    LET s == site[t]
    IN  /\ Leave(t, "flap")
        /\ budget' = [budget EXCEPT ![t] = @ - 2]
        /\ paused' = [paused EXCEPT ![s] = @ \/ CycleCount(repairs[s]) >= FlapCycleLimit]
        /\ UNCHANGED <<host, rowVars, siteVars, lock, deploying, repairs, collectVars,
                       armed, todo, histVars, boundVars>>

\* Back in tick: the budget and the flap pause.
Flap(t) ==
    LET s == site[t]
    IN  /\ Leave(t, "flap")
        /\ budget' = [budget EXCEPT ![t] = @ - 1]
        /\ paused' = [paused EXCEPT ![s] = @ \/ CycleCount(repairs[s]) >= FlapCycleLimit]
        /\ UNCHANGED <<host, rowVars, siteVars, lock, deploying, repairs, collectVars,
                       armed, todo, histVars, boundVars>>

\* The process is killed; no finally runs and nothing sweeps reconcile locks.
Crash(t) ==
    /\ pc[t] # "idle" /\ crashes < MaxCrashes
    /\ crashes' = crashes + 1
    /\ pc' = [pc EXCEPT ![t] = "idle"]
    /\ site' = [site EXCEPT ![t] = NoSite]
    /\ row' = [row EXCEPT ![t] = NoRow]
    /\ act' = [act EXCEPT ![t] = "none"]
    /\ armed' = [armed EXCEPT ![t] = {}]
    /\ todo' = [todo EXCEPT ![t] = {}]
    /\ budget' = [budget EXCEPT ![t] = 0]
    /\ UNCHANGED <<host, rowVars, siteVars, lock, deploying, flapVars, collectVars,
                   histVars, edits, faults, expiries>>

-----------------------------------------------------------------------------
(* The collector: one per target, under a lock of kind collect. *)

CollectRead(h) ==
    /\ probing[h] = NoPayload
    /\ probing' = [probing EXCEPT ![h] = [s \in SitesOn(h) |-> host[s]]]
    /\ UNCHANGED <<host, rowVars, siteVars, lock, deploying, flapVars, payload,
                   passVars, tickerVars, histVars, boundVars>>

\* collect_at is the time of the save, however old the reading is.
CollectSave(h) ==
    /\ probing[h] # NoPayload
    /\ payload' = [payload EXCEPT ![h] = probing[h]]
    /\ probing' = [probing EXCEPT ![h] = NoPayload]
    /\ UNCHANGED <<host, rowVars, siteVars, lock, deploying, flapVars,
                   passVars, tickerVars, histVars, boundVars>>

\* _fresh_collect_payload: older than COLLECT_FRESH_S.
PayloadExpires(h) ==
    /\ payload[h] # NoPayload /\ expiries < MaxExpiries
    /\ payload' = [payload EXCEPT ![h] = NoPayload]
    /\ expiries' = expiries + 1
    /\ UNCHANGED <<host, rowVars, siteVars, lock, deploying, flapVars, probing,
                   passVars, tickerVars, histVars, edits, faults, crashes>>

-----------------------------------------------------------------------------
(* Everybody else. *)

Edit == edits < MaxEdits /\ edits' = edits + 1 /\ UNCHANGED <<faults, expiries, crashes>>

\* A container changes by itself.
Drift(s) ==
    /\ \E x \in States \ {host[s]} : host' = [host EXCEPT ![s] = x]
    /\ restarts' = [restarts EXCEPT ![s] = 0]
    /\ Edit
    /\ UNCHANGED <<rowVars, siteVars, lock, deploying, flapVars, collectVars,
                   passVars, tickerVars, late, offs, excess>>

\* A takedown, or its reversal, writes desired_state.
SetDesired(s) ==
    /\ \E w \in Wishes \ {desired[s]} : desired' = [desired EXCEPT ![s] = w]
    /\ Edit
    /\ UNCHANGED <<host, failures, siteVars, lock, deploying, flapVars, collectVars,
                   passVars, tickerVars, histVars>>

\* The operator's per-site kill switch.
SwitchEnabled(s) ==
    /\ enabled' = [enabled EXCEPT ![s] = ~@]
    /\ offs' = [offs EXCEPT ![s] = [t \in Tickers |-> 0]]
    /\ Edit
    /\ UNCHANGED <<host, rowVars, maint, lock, deploying, flapVars, collectVars,
                   passVars, tickerVars, late, excess, restarts>>

MaintenanceEnds(s) ==
    /\ maint[s] /\ maint' = [maint EXCEPT ![s] = FALSE]
    /\ UNCHANGED <<host, rowVars, enabled, lock, deploying, flapVars, collectVars,
                   passVars, tickerVars, histVars, boundVars>>

\* rearm: repairs and pauses before it no longer count.
Rearm(s) ==
    /\ failures' = [failures EXCEPT ![s] = 0]
    /\ repairs' = [repairs EXCEPT ![s] = <<>>]
    /\ paused' = [paused EXCEPT ![s] = FALSE]
    /\ excess' = [excess EXCEPT ![s] = 0]
    /\ restarts' = [restarts EXCEPT ![s] = 0]
    /\ Edit
    /\ UNCHANGED <<host, desired, siteVars, lock, deploying, collectVars,
                   passVars, tickerVars, late, offs>>

\* A repair leaves FLAP_WINDOW.
WindowSlides(s) ==
    /\ repairs[s] # <<>>
    /\ repairs' = [repairs EXCEPT ![s] = Tail(@)]
    /\ excess' = [excess EXCEPT ![s] =
         IF CycleCount(Tail(repairs[s])) >= FlapCycleLimit THEN @ ELSE 0]
    /\ UNCHANGED <<host, rowVars, siteVars, lock, deploying, paused, collectVars,
                   passVars, tickerVars, late, offs, restarts, boundVars>>

\* begin_deploy takes the site's and the target's deploy lock, so a target
\* carries one deployment at a time.
DeployBegins(d) ==
    /\ ~DeployLockHeld(d)
    /\ deploying' = deploying \cup {d}
    /\ late' = [late EXCEPT ![d] = [s \in Sites |-> 0]]
    /\ Edit
    /\ UNCHANGED <<host, rowVars, siteVars, lock, flapVars, collectVars,
                   passVars, tickerVars, offs, excess, restarts>>

DeployEnds(d) ==
    /\ d \in deploying
    /\ deploying' = deploying \ {d}
    /\ UNCHANGED <<host, rowVars, siteVars, lock, flapVars, collectVars,
                   passVars, tickerVars, histVars, boundVars>>

-----------------------------------------------------------------------------
TickerStep(t) ==
    \/ EndPass(t)
    \/ \E s \in Sites : Visit(t, s)
    \/ Look(t)
    \/ Acquire(t)
    \/ Recheck(t)
    \/ Guard(t)
    \/ ActOk(t)
    \/ Save(t)
    \/ Release(t)
    \/ Flap(t)

TickerFault(t) == LookError(t) \/ RecheckError(t) \/ ActFail(t)

Next ==
    \/ \E t \in Tickers : StartPass(t) \/ TickerStep(t) \/ TickerFault(t) \/ Crash(t)
    \/ \E h \in Ready : CollectRead(h) \/ CollectSave(h) \/ PayloadExpires(h)
    \/ \E s \in Sites :
         \/ Drift(s) \/ SetDesired(s) \/ SwitchEnabled(s) \/ MaintenanceEnds(s)
         \/ Rearm(s) \/ WindowSlides(s) \/ DeployBegins(s) \/ DeployEnds(s)

Spec == Init /\ [][Next]_vars

(* Beat starts passes, SSH commands time out, the collector is a Beat task, a  *)
(* warm-up window is finite and a deployment ends (DeployPipeline!RunningSettles). *)
Fairness ==
    /\ \A t \in Tickers : WF_vars(StartPass(t)) /\ WF_vars(TickerStep(t))
    /\ \A h \in Ready : WF_vars(CollectRead(h)) /\ WF_vars(CollectSave(h))
    /\ \A s \in Sites : WF_vars(MaintenanceEnds(s)) /\ WF_vars(DeployEnds(s))

FairSpec == Spec /\ Fairness

-----------------------------------------------------------------------------
(* Properties. *)

PCs == {"idle", "next", "look", "acquire", "recheck", "guard", "act", "save", "release", "flap"}
\* Between acquire and release of _apply.
Locked == {"recheck", "guard", "act", "save", "release"}

Payloads(h) == [SitesOn(h) -> States] \cup {NoPayload}

DataOK ==
    /\ host \in [Sites -> States]
    /\ desired \in [Sites -> Wishes]
    /\ failures \in [Sites -> Nat]
    /\ enabled \in [Sites -> BOOLEAN]
    /\ maint \in [Sites -> BOOLEAN]
    /\ lock \in [Sites -> BOOLEAN]
    /\ deploying \in SUBSET Sites
    /\ repairs \in [Sites -> Seq(Ops)]
    /\ paused \in [Sites -> BOOLEAN]

CollectOK ==
    /\ DOMAIN payload = Targets
    /\ DOMAIN probing = Targets
    /\ \A h \in Targets : payload[h] \in Payloads(h) /\ probing[h] \in Payloads(h)

TickerOK ==
    /\ pc \in [Tickers -> PCs]
    /\ site \in [Tickers -> Sites \cup {NoSite}]
    /\ row \in [Tickers -> Rows]
    /\ act \in [Tickers -> Ops]
    /\ armed \in [Tickers -> SUBSET Sites]
    /\ todo \in [Tickers -> SUBSET Sites]
    /\ budget \in [Tickers -> Nat]

HistoryOK ==
    /\ late \in [Sites -> [Sites -> Nat]]
    /\ offs \in [Sites -> [Tickers -> Nat]]
    /\ excess \in [Sites -> Nat]
    /\ restarts \in [Sites -> Nat]
    /\ edits \in Nat /\ faults \in Nat /\ expiries \in Nat /\ crashes \in Nat

\* Rows, locks, observations and the tickers' local variables keep their types.
TypeOK == DataOK /\ CollectOK /\ TickerOK /\ HistoryOK

(* What the tickers know, as an inductive invariant. *)

\* Where a ticker is says what it holds.
PlaceInv ==
    \A t \in Tickers :
      /\ site[t] = NoSite <=> pc[t] \in {"idle", "next"}
      /\ site[t] # NoSite => budget[t] > 0 /\ site[t] \notin todo[t]
      /\ pc[t] \in {"acquire", "recheck", "guard", "act"} => site[t] \in armed[t]
      /\ pc[t] \in {"guard", "act", "save", "flap"} => act[t] # "none"

\* The reconcile lock admits one ticker to _apply's try block.
LockInv ==
    /\ \A t \in Tickers : pc[t] \in Locked => lock[site[t]]
    /\ \A t, u \in Tickers :
         pc[t] \in Locked /\ pc[u] \in Locked /\ site[t] = site[u] => t = u

\* A ticker about to act has seen every deployment that began before its look.
LateInv ==
    /\ \A d, s \in Sites : late[d][s] <= 1
    /\ \A t \in Tickers, d \in Sites :
         pc[t] = "act" /\ d \in deploying /\ TargetOf[d] = TargetOf[site[t]]
           => late[d][site[t]] = 0

\* A ticker that repaired a site after it was switched off is done with it.
OffInv ==
    \A s \in Sites, t \in Tickers :
      /\ offs[s][t] <= 1
      /\ offs[s][t] > 0 =>
           /\ ~enabled[s]
           /\ \/ s \notin armed[t]
              \/ /\ s \notin todo[t]
                 /\ site[t] = s => pc[t] \in {"save", "release", "flap"}

RecInv == TypeOK /\ PlaceInv /\ LockInv /\ LateInv /\ OffInv

\* Tickers with a repair of s planned, and tickers that saved one and have yet to
\* look at the flap limit.
Repairing(s) == {t \in Tickers : site[t] = s /\ pc[t] \in {"guard", "act", "save"}}
Saved(s) == {t \in Tickers : site[t] = s /\ pc[t] \in {"release", "flap"} /\ act[t] # "none"}
Flapping(s) == CycleCount(repairs[s]) >= FlapCycleLimit

\* While a site flaps unpaused, every repair past the limit is owed to a ticker that
\* has yet to write the pause, or was killed; once it is paused, to one that is left.
FlapAt(s) ==
    /\ ~Flapping(s) => excess[s] = 0
    /\ Flapping(s) /\ ~paused[s] => excess[s] < Cardinality(Saved(s)) + crashes
    /\ paused[s] => excess[s] + Cardinality(Repairing(s)) < Cardinality(Tickers) + crashes

FlapInv == \A s \in Sites : FlapAt(s)

\* The look at the deploy locks in _apply and the command after it are not one
\* step, so a deployment may begin between them.  At most one repair of a site
\* lands inside a deployment of it or of its target, however many passes overlap.
AtMostOneLateRepair == \A d, s \in Sites : late[d][s] <= 1

\* reconcile_enabled is read once per pass.  After it is switched off, a ticker
\* repairs the site at most once more, and only in the pass it was in.
KillSwitchBounded == \A s \in Sites, t \in Tickers : offs[s][t] <= 1

\* The flap pause is written after the lock was given back.  Once a site has
\* cycled FLAP_CYCLE_LIMIT times, every other ticker repairs it at most once before
\* the pause brakes them all; a killed ticker may leave one more to its successor.
FlapBounded == \A s \in Sites : excess[s] <= Cardinality(Tickers) - 1 + crashes

\* The container is as the row wants it, or a brake holds the reconciler back, or
\* a killed ticker left its lock.  A restarted container may stay unhealthy, and a
\* warming one is left alone.
Settled(s) ==
    \/ desired[s] = "running" /\ host[s] \in {"running", "warming"}
    \/ desired[s] = "running" /\ host[s] = "unhealthy" /\ failures[s] > 0
    \/ desired[s] = "stopped" /\ host[s] \in {"down", "warming"}
    \/ host[s] = "degraded" \/ failures[s] >= BackoffAfter \/ paused[s] \/ ~enabled[s]
    \/ crashes > 0 /\ lock[s] /\ \A t \in Tickers : site[t] = s => pc[t] \notin Locked

\* tick converges: whatever drifts, fails or is edited, the site settles again.
DriftSettles == \A s \in Sites : []<>Settled(s)

\* tests/test_reconciler_staleness.py says of a live process that fails its checks
\* that it is restarted once and then left to the backoff.
RestartsOnce == \A s \in Sites : restarts[s] <= 1
=============================================================================
