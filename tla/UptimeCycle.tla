----------------------------- MODULE UptimeCycle -----------------------------
(***************************************************************************)
(* The probe cycle (monitor/uptime.py), the dead-man ping after it          *)
(* (monitor/deadman.py), the rows it leaves and the janitor that deletes    *)
(* them (monitor/retention.py).  Beat starts a cycle every minute on any of *)
(* the children of the probes queue; one row of OperationLock keeps them    *)
(* apart.  The unit of time is one minute.                                  *)
(***************************************************************************)
EXTENDS Integers, Sequences

CONSTANTS
    Children,       \* workers of the probes queue
    Probed,         \* sites with a READY target, a sequence
    StaleAfter,     \* CYCLE_LOCK_STALE_S
    Horizon,        \* HORIZONS["UptimeEvent"]["raw"]
    MaxMinute, MaxCrash   \* bounds of the exploration

VARIABLES
    minute,
    queued,         \* probe_uptime messages Beat has sent and no child has taken
    cycleLock,      \* heartbeat of the lock row, or NoLock; all cycles share one holder
    cycle,          \* per child: place, start, sites done, unexpected errors, lock to break
    uptime,         \* UptimeEvent rows per site, by id: [at, up]
    egress,         \* the row deadman:post-failed is open
    crashes,
    overrun         \* history: some cycle outlived the stale limit

uptimeVars == <<minute, queued, cycleLock, cycle, uptime, egress, crashes, overrun>>

NoLock == -1
Idle == [at |-> "idle", since |-> 0, done |-> 0, errors |-> 0]
NoRows == [i \in {} |-> Idle]
SiteSet == {Probed[i] : i \in DOMAIN Probed}

Init ==
    /\ minute = 0 /\ queued = 1 /\ cycleLock = NoLock /\ cycle = [w \in Children |-> Idle]
    /\ uptime = [s \in SiteSet |-> NoRows]
    /\ egress = FALSE /\ crashes = 0 /\ overrun = FALSE

Step(w, c) == cycle' = [cycle EXCEPT ![w] = c]
Take == queued > 0 /\ queued' = queued - 1
Begin(w) == Step(w, [at |-> "probe", since |-> minute, done |-> 0, errors |-> 0])

\* _acquire_cycle_lock(): the row is inserted, ...
AcquireCycle(w) ==
    /\ Take /\ cycle[w].at = "idle" /\ cycleLock = NoLock
    /\ cycleLock' = minute /\ Begin(w)
    /\ UNCHANGED <<minute, uptime, egress, crashes, overrun>>

BreakAnyCycle(w) ==
    /\ Take /\ cycle[w].at = "idle" /\ cycleLock # NoLock
    /\ cycleLock' = NoLock /\ Step(w, [Idle EXCEPT !.at = "retake"])
    /\ UNCHANGED <<minute, uptime, egress, crashes, overrun>>

\* ... or one that is older than the limit is deleted ...
BreakStaleCycle(w) ==
    /\ Take /\ cycle[w].at = "idle" /\ cycleLock # NoLock /\ cycleLock < minute - StaleAfter
    /\ cycleLock' = NoLock /\ Step(w, [Idle EXCEPT !.at = "retake"])
    /\ UNCHANGED <<minute, uptime, egress, crashes, overrun>>
\* ... and inserted again, unless another cycle was faster: that one is skipped.
RetakeCycle(w) ==
    /\ cycle[w].at = "retake"
    /\ IF cycleLock = NoLock THEN cycleLock' = minute /\ Begin(w)
       ELSE Step(w, Idle) /\ UNCHANGED cycleLock
    /\ UNCHANGED <<minute, queued, uptime, egress, crashes, overrun>>

\* A young lock: the cycle is a recorded skip.
SkipCycle(w) ==
    /\ Take /\ cycle[w].at = "idle" /\ cycleLock # NoLock /\ cycleLock >= minute - StaleAfter
    /\ UNCHANGED <<minute, cycleLock, cycle, uptime, egress, crashes, overrun>>

\* record_transition(): one event per change of state.
Latest(events) == CHOOSE i \in DOMAIN events : \A j \in DOMAIN events : j <= i
Insert(events, i, up) == [j \in DOMAIN events \cup {i} |-> IF j = i THEN [at |-> minute, up |-> up] ELSE events[j]]
RecordTransition(events, up) ==
    IF DOMAIN events = {} THEN Insert(events, 1, up)
    ELSE IF events[Latest(events)].up = up THEN events
    ELSE Insert(events, Latest(events) + 1, up)

\* _run_cycle(), one site: an answer or an OSError is a completed probe.
ProbeNext(w, up) ==
    /\ cycle[w].at = "probe" /\ cycle[w].done < Len(Probed)
    /\ LET s == Probed[cycle[w].done + 1] IN uptime' = [uptime EXCEPT ![s] = RecordTransition(@, up)]
    /\ Step(w, [cycle[w] EXCEPT !.done = @ + 1])
    /\ UNCHANGED <<minute, queued, cycleLock, egress, crashes, overrun>>

\* Any other exception marks the cycle incomplete.
ProbeError(w) ==
    /\ cycle[w].at = "probe" /\ cycle[w].done < Len(Probed) /\ cycle[w].errors = 0
    /\ Step(w, [cycle[w] EXCEPT !.done = @ + 1, !.errors = 1])
    /\ UNCHANGED <<minute, queued, cycleLock, uptime, egress, crashes, overrun>>

\* ping_after_cycle(): only a complete cycle over at least one site.
MayPing(c) == c.errors = 0 /\ Len(Probed) > 0

\* The finally of probe_cycle() deletes the row by holder, whoever inserted it; ping()
\* posts, or files the one row deadman:post-failed.
FinishCycle(w, posted) ==
    /\ cycle[w].at = "probe" /\ cycle[w].done = Len(Probed)
    /\ cycleLock' = NoLock
    /\ egress' = (egress \/ (MayPing(cycle[w]) /\ ~posted))
    /\ posted \/ MayPing(cycle[w])
    /\ Step(w, Idle)
    /\ UNCHANGED <<minute, queued, uptime, crashes, overrun>>

\* The child is killed: the lock stays.
CrashCycle(w) ==
    /\ crashes < MaxCrash /\ crashes' = crashes + 1 /\ cycle[w].at # "idle"
    /\ Step(w, Idle)
    /\ UNCHANGED <<minute, queued, cycleLock, uptime, egress, overrun>>

\* _sweep_uptime(), _delete_batched(): rows before the horizon, in batches.
Young(events) == {i \in DOMAIN events : events[i].at >= minute - Horizon}
Sweep ==
    /\ \E s \in SiteSet : Young(uptime[s]) # DOMAIN uptime[s]
    /\ uptime' = [s \in SiteSet |-> [i \in Young(uptime[s]) |-> uptime[s][i]]]
    /\ UNCHANGED <<minute, queued, cycleLock, cycle, egress, crashes, overrun>>

Minute ==
    /\ minute < MaxMinute /\ minute' = minute + 1 /\ queued' = queued + 1
    /\ overrun' = (overrun \/ \E w \in Children :
                        cycle[w].at = "probe" /\ cycle[w].since < minute + 1 - StaleAfter)
    /\ UNCHANGED <<cycleLock, cycle, uptime, egress, crashes>>

Next ==
    \/ \E w \in Children :
        \/ AcquireCycle(w) \/ BreakStaleCycle(w) \/ SkipCycle(w) \/ RetakeCycle(w) \/ ProbeError(w) \/ CrashCycle(w)
        \/ \E b \in BOOLEAN : ProbeNext(w, b) \/ FinishCycle(w, b)
    \/ Sweep \/ Minute

Spec == Init /\ [][Next]_uptimeVars

---------------------------------------------------------------------------
(* Properties *)

RowsTyped(events, now) ==
    \A i \in DOMAIN events : i \in Nat /\ events[i].at \in 0..now /\ events[i].up \in BOOLEAN
\* The lock row, the cycles and the event rows have their types.
TypeOK ==
    /\ minute \in 0..MaxMinute /\ queued \in 0..(minute + 1) /\ cycleLock \in NoLock..minute
    /\ cycle \in [Children -> [at : {"idle", "retake", "probe"}, since : Nat,
                               done : 0..Len(Probed), errors : 0..1]]
    /\ \A s \in SiteSet : RowsTyped(uptime[s], minute)
    /\ egress \in BOOLEAN /\ overrun \in BOOLEAN /\ crashes \in 0..MaxCrash

Running == {w \in Children : cycle[w].at = "probe"}

\* The lock keeps cycles apart, through crashes and the takeover of stale rows, as long
\* as none outlives the limit: then no event repeats its predecessor's state either.
CyclesApart ==
    ~overrun =>
        /\ \A v, w \in Running : v = w
        /\ \A s \in SiteSet : \A i, j \in DOMAIN uptime[s] :
              i < j /\ (\A k \in DOMAIN uptime[s] : k <= i \/ j <= k) => uptime[s][i].up # uptime[s][j].up

\* Why: a cycle that runs holds the lock it inserted, which is too young to be broken; and
\* the rows of a site are in the order of their times, so a sweep deletes the first ones.
LockInv ==
    ~overrun =>
        /\ \A v, w \in Running : v = w
        /\ \A w \in Running : cycleLock = cycle[w].since /\ cycle[w].since >= minute - StaleAfter
InOrder(events) ==
    /\ DOMAIN events # {} => \E i \in DOMAIN events : \A j \in DOMAIN events : j <= i
    /\ \A i, j \in DOMAIN events : i < j => events[i].at <= events[j].at
    /\ \A i, j \in DOMAIN events : i..j \subseteq DOMAIN events
    /\ \A i, j \in DOMAIN events : j = i + 1 => events[i].up # events[j].up
RowsInOrder == DOMAIN uptime = SiteSet /\ \A s \in SiteSet : InOrder(uptime[s])
=============================================================================
