---------------------------- MODULE WatchProofs -----------------------------
(***************************************************************************)
(* Proofs about the watchers: the uptime cycle, the traffic collector, the *)
(* attack playbook with its scaler, the DNS zones with their tokens and the *)
(* anti-noise engine of the alerts, for any number of sites, workers, files, *)
(* rotations, processes, tokens and pages.                                 *)
(* OneAtATime of RecordProofs leads from a step of the composition to a    *)
(* step of the component that moves; the last theorem, on the types, joins *)
(* the invariants of both modules.                                         *)
(***************************************************************************)
EXTENDS RecordProofs, WellFoundedInduction, FiniteSetTheorems

---------------------------------------------------------------------------
(* The uptime cycle *)

\* RecordTransition keeps a site's rows typed, in the order of their times and without a
\* repetition.
LEMMA TransitionInOrder ==
    ASSUME NEW rowsOf, NEW up \in BOOLEAN, minute \in Nat,
           Uptime!RowsTyped(rowsOf, minute), Uptime!InOrder(rowsOf)
    PROVE  /\ Uptime!RowsTyped(Uptime!RecordTransition(rowsOf, up), minute)
           /\ Uptime!InOrder(Uptime!RecordTransition(rowsOf, up))
<1>1. CASE DOMAIN rowsOf = {}
  <2> DEFINE new == Uptime!Insert(rowsOf, 1, up)
  <2>1. DOMAIN new = {1} /\ new[1] = [at |-> minute, up |-> up]
    BY <1>1 DEF Uptime!Insert
  <2>2. Uptime!RecordTransition(rowsOf, up) = new
    BY <1>1 DEF Uptime!RecordTransition
  <2> HIDE DEF new
  <2>3. Uptime!RowsTyped(new, minute) /\ Uptime!InOrder(new)
    BY <2>1 DEF Uptime!RowsTyped, Uptime!InOrder
  <2> QED BY <2>2, <2>3
<1>2. CASE DOMAIN rowsOf # {}
  <2> DEFINE n == Uptime!Latest(rowsOf)
  <2>1. n \in DOMAIN rowsOf /\ \A j \in DOMAIN rowsOf : j <= n
    BY <1>2 DEF Uptime!InOrder, Uptime!Latest
  <2> HIDE DEF n
  <2>2. CASE rowsOf[n].up = up
    BY <1>2, <2>2 DEF Uptime!RecordTransition, n
  <2>3. CASE rowsOf[n].up # up
    <3> DEFINE new == Uptime!Insert(rowsOf, n + 1, up)
    <3>1. Uptime!RecordTransition(rowsOf, up) = new
      BY <1>2, <2>3 DEF Uptime!RecordTransition, n
    <3>2. n \in Nat /\ n + 1 \notin DOMAIN rowsOf
      BY <2>1 DEF Uptime!RowsTyped
    <3>3. /\ DOMAIN new = DOMAIN rowsOf \cup {n + 1} /\ new[n + 1] = [at |-> minute, up |-> up]
          /\ \A j \in DOMAIN rowsOf : new[j] = rowsOf[j]
      BY <3>2 DEF Uptime!Insert
    <3> HIDE DEF new
    <3>4. Uptime!RowsTyped(new, minute)
      BY <3>2, <3>3 DEF Uptime!RowsTyped
    <3>5. \E i \in DOMAIN new : \A j \in DOMAIN new : j <= i
      <4>1. \A j \in DOMAIN new : j <= n + 1
        BY <2>1, <3>2, <3>3 DEF Uptime!RowsTyped
      <4> QED BY <4>1, <3>3
    <3>6. \A i, j \in DOMAIN new : i < j => new[i].at <= new[j].at
      BY <2>1, <3>2, <3>3 DEF Uptime!RowsTyped, Uptime!InOrder
    <3>7. \A i, j \in DOMAIN new : i..j \subseteq DOMAIN new
      <4> SUFFICES ASSUME NEW i \in DOMAIN new, NEW j \in DOMAIN new, NEW k \in i..j
                   PROVE  k \in DOMAIN new
        OBVIOUS
      <4>1. i \in Nat /\ j \in Nat /\ (i = n + 1 \/ i \in DOMAIN rowsOf)
        BY <3>2, <3>3 DEF Uptime!RowsTyped
      <4>2. CASE k = n + 1
        BY <4>2, <3>3
      <4>3. CASE k # n + 1 /\ i = n + 1
        BY <4>3, <4>1, <2>1, <3>2, <3>3 DEF Uptime!RowsTyped
      <4>4. CASE k # n + 1 /\ i \in DOMAIN rowsOf
        <5>1. k \in i..n
          BY <4>4, <4>1, <2>1, <3>2, <3>3
        <5> QED BY <5>1, <4>4, <2>1, <3>3 DEF Uptime!InOrder
      <4> QED BY <4>1, <4>2, <4>3, <4>4
    <3>8. \A i, j \in DOMAIN new : j = i + 1 => new[i].up # new[j].up
      <4> SUFFICES ASSUME NEW i \in DOMAIN new, NEW j \in DOMAIN new, j = i + 1
                   PROVE  new[i].up # new[j].up
        OBVIOUS
      <4>1. i \in Nat /\ j \in Nat /\ i \in DOMAIN rowsOf
        BY <2>1, <3>2, <3>3 DEF Uptime!RowsTyped
      <4>2. CASE j = n + 1
        <5>1. i = n /\ new[j].up = up
          BY <4>1, <4>2, <3>2, <3>3
        <5> QED BY <5>1, <4>1, <3>3, <2>3
      <4>3. CASE j \in DOMAIN rowsOf
        BY <4>1, <4>3, <3>3 DEF Uptime!InOrder
      <4> QED BY <4>2, <4>3, <3>3
    <3>9. Uptime!InOrder(new)
      BY <3>5, <3>6, <3>7, <3>8, Zenon DEF Uptime!InOrder
    <3> QED BY <3>1, <3>4, <3>9
  <2> QED BY <2>2, <2>3
<1> QED BY <1>1, <1>2

\* A sweep deletes the oldest rows, and what is left is still in order.
LEMMA SweepInOrder ==
    ASSUME NEW rowsOf, minute \in Nat,
           Uptime!RowsTyped(rowsOf, minute), Uptime!InOrder(rowsOf)
    PROVE  /\ Uptime!RowsTyped([i \in Uptime!Young(rowsOf) |-> rowsOf[i]], minute)
           /\ Uptime!InOrder([i \in Uptime!Young(rowsOf) |-> rowsOf[i]])
<1> DEFINE kept == [i \in Uptime!Young(rowsOf) |-> rowsOf[i]]
<1>1. /\ DOMAIN kept = {i \in DOMAIN rowsOf : rowsOf[i].at >= minute - Horizon}
      /\ \A i \in DOMAIN kept : kept[i] = rowsOf[i]
  BY DEF Uptime!Young
<1> HIDE DEF kept
<1>2. Uptime!RowsTyped(kept, minute)
  BY <1>1 DEF Uptime!RowsTyped
<1>3. DOMAIN kept # {} => \E i \in DOMAIN kept : \A j \in DOMAIN kept : j <= i
  <2> SUFFICES ASSUME NEW m \in DOMAIN kept
               PROVE  \E i \in DOMAIN kept : \A j \in DOMAIN kept : j <= i
    OBVIOUS
  <2>1. PICK n \in DOMAIN rowsOf : \A j \in DOMAIN rowsOf : j <= n
    BY <1>1 DEF Uptime!InOrder
  <2>2. m \in DOMAIN rowsOf /\ rowsOf[m].at >= minute - Horizon /\ m <= n
    BY <1>1, <2>1
  <2>3. m = n \/ rowsOf[m].at <= rowsOf[n].at
    BY <2>1, <2>2 DEF Uptime!InOrder, Uptime!RowsTyped
  <2>4. n \in DOMAIN kept
    BY <1>1, <2>1, <2>2, <2>3, UptimeBounds DEF Uptime!RowsTyped
  <2> QED BY <2>1, <2>4, <1>1
<1>4. \A i, j \in DOMAIN kept : i < j => kept[i].at <= kept[j].at
  BY <1>1 DEF Uptime!InOrder
<1>5. \A i, j \in DOMAIN kept : i..j \subseteq DOMAIN kept
  <2> SUFFICES ASSUME NEW i \in DOMAIN kept, NEW j \in DOMAIN kept, NEW k \in i..j
               PROVE  k \in DOMAIN kept
    OBVIOUS
  <2>1. k \in DOMAIN rowsOf /\ i \in DOMAIN rowsOf /\ i \in Nat /\ k \in Nat /\ i <= k
    BY <1>1 DEF Uptime!InOrder, Uptime!RowsTyped
  <2>2. i = k \/ rowsOf[i].at <= rowsOf[k].at
    BY <2>1 DEF Uptime!InOrder
  <2> QED BY <1>1, <2>1, <2>2, UptimeBounds DEF Uptime!RowsTyped
<1>6. \A i, j \in DOMAIN kept : j = i + 1 => kept[i].up # kept[j].up
  BY <1>1 DEF Uptime!InOrder
<1>7. Uptime!InOrder(kept)
  BY <1>3, <1>4, <1>5, <1>6, Zenon DEF Uptime!InOrder
<1> QED BY <1>2, <1>7 DEF kept

\* A step of a cycle, the janitor and the clock keep the lock and the rows.
LEMMA UptimeNext ==
    Uptime!TypeOK /\ Uptime!LockInv /\ Uptime!RowsInOrder /\ [Uptime!Next]_uptimeState =>
        /\ Uptime!TypeOK' /\ Uptime!LockInv' /\ Uptime!RowsInOrder'
<1> SUFFICES ASSUME Uptime!TypeOK, Uptime!LockInv, Uptime!RowsInOrder, [Uptime!Next]_uptimeState
             PROVE  Uptime!TypeOK' /\ Uptime!LockInv' /\ Uptime!RowsInOrder'
  OBVIOUS
<1> USE UptimeBounds
<1>1. ASSUME NEW w \in Children, Uptime!AcquireCycle(w)
      PROVE  /\ Uptime!TypeOK' /\ Uptime!LockInv' /\ Uptime!RowsInOrder'
  <2>1. /\ queued > 0
        /\ queued' = queued - 1
        /\ cycle[w].at = "idle"
        /\ cycleLock = Uptime!NoLock
        /\ cycleLock' = minute
        /\ cycle' = [cycle EXCEPT ![w] = [at |-> "probe", since |-> minute, done |-> 0,
            errors |-> 0]]
        /\ UNCHANGED <<minute, uptime, egress, crashes, overrun>>
    BY <1>1, Zenon DEF Uptime!AcquireCycle, Uptime!Take, Uptime!Begin, Uptime!Step
  <2>2. Uptime!TypeOK'
    BY <2>1 DEF Uptime!TypeOK, Uptime!NoLock, Uptime!RowsTyped
  <2>3. Uptime!LockInv'
    BY <2>1, <2>2 DEF Uptime!TypeOK, Uptime!NoLock, Uptime!RowsTyped, Uptime!LockInv,
       Uptime!Running
  <2>4. Uptime!RowsInOrder'
    BY <2>1, <2>2 DEF Uptime!RowsInOrder
  <2> QED BY <2>2, <2>3, <2>4
<1>2. ASSUME NEW w \in Children, Uptime!BreakStaleCycle(w)
      PROVE  /\ Uptime!TypeOK' /\ Uptime!LockInv' /\ Uptime!RowsInOrder'
  <2>1. /\ queued > 0
        /\ queued' = queued - 1
        /\ cycle[w].at = "idle"
        /\ cycleLock < minute - StaleAfter
        /\ cycleLock' = Uptime!NoLock
        /\ cycle' = [cycle EXCEPT ![w] = [Uptime!Idle EXCEPT !.at = "retake"]]
        /\ UNCHANGED <<minute, uptime, egress, crashes, overrun>>
    BY <1>2, Zenon DEF Uptime!BreakStaleCycle, Uptime!Take, Uptime!Step
  <2>a. [Uptime!Idle EXCEPT !.at = "retake"] = [at |-> "retake", since |-> 0, done |-> 0,
            errors |-> 0]
    BY DEF Uptime!Idle
  <2>b. cycle' = [cycle EXCEPT ![w] = [at |-> "retake", since |-> 0, done |-> 0, errors |-> 0]]
    BY <2>1, <2>a, Zenon
  <2>c. /\ cycle[w].at = "idle" /\ queued > 0 /\ queued' = queued - 1
        /\ cycleLock < minute - StaleAfter /\ cycleLock' = Uptime!NoLock
        /\ UNCHANGED <<minute, uptime, egress, crashes, overrun>>
    BY <2>1
  <2>2. Uptime!TypeOK'
    BY <2>b, <2>c DEF Uptime!TypeOK, Uptime!NoLock, Uptime!RowsTyped
  <2>3. Uptime!LockInv'
    BY <2>b, <2>c DEF Uptime!TypeOK, Uptime!NoLock, Uptime!RowsTyped, Uptime!LockInv,
       Uptime!Running
  <2>4. Uptime!RowsInOrder'
    BY <2>b, <2>c DEF Uptime!RowsInOrder
  <2> QED BY <2>2, <2>3, <2>4
<1>3. ASSUME NEW w \in Children, Uptime!SkipCycle(w)
      PROVE  /\ Uptime!TypeOK' /\ Uptime!LockInv' /\ Uptime!RowsInOrder'
  <2>1. /\ queued > 0
        /\ queued' = queued - 1
        /\ UNCHANGED <<cycleLock, cycle, minute, uptime, egress, crashes, overrun>>
    BY <1>3, Zenon DEF Uptime!SkipCycle, Uptime!Take
  <2>2. Uptime!TypeOK'
    BY <2>1 DEF Uptime!TypeOK, Uptime!NoLock, Uptime!RowsTyped
  <2>3. Uptime!LockInv'
    BY <2>1, <2>2 DEF Uptime!TypeOK, Uptime!NoLock, Uptime!RowsTyped, Uptime!LockInv,
       Uptime!Running
  <2>4. Uptime!RowsInOrder'
    BY <2>1, <2>2 DEF Uptime!RowsInOrder
  <2> QED BY <2>2, <2>3, <2>4
<1>4. ASSUME NEW w \in Children, Uptime!RetakeCycle(w)
      PROVE  /\ Uptime!TypeOK' /\ Uptime!LockInv' /\ Uptime!RowsInOrder'
  <2>1. CASE cycleLock = Uptime!NoLock
    <3>1. /\ cycle[w].at = "retake"
          /\ cycleLock' = minute
          /\ cycle' = [cycle EXCEPT ![w] = [at |-> "probe", since |-> minute, done |-> 0,
              errors |-> 0]]
          /\ UNCHANGED <<queued, minute, uptime, egress, crashes, overrun>>
      BY <1>4, <2>1, Zenon DEF Uptime!RetakeCycle, Uptime!Begin, Uptime!Step, Uptime!Idle
    <3>2. Uptime!TypeOK'
      BY <3>1, <2>1 DEF Uptime!TypeOK, Uptime!NoLock, Uptime!RowsTyped
    <3>3. Uptime!LockInv'
      BY <3>1, <2>1, <3>2 DEF Uptime!TypeOK, Uptime!NoLock, Uptime!RowsTyped, Uptime!LockInv,
         Uptime!Running
    <3>4. Uptime!RowsInOrder'
      BY <3>1, <2>1, <3>2 DEF Uptime!RowsInOrder
    <3> QED BY <3>2, <3>3, <3>4
  <2>2. CASE cycleLock # Uptime!NoLock
    <3>1. /\ cycle[w].at = "retake"
          /\ cycleLock' = cycleLock
          /\ cycle' = [cycle EXCEPT ![w] = [at |-> "idle", since |-> 0, done |-> 0,
              errors |-> 0]]
          /\ UNCHANGED <<queued, minute, uptime, egress, crashes, overrun>>
      BY <1>4, <2>2, Zenon DEF Uptime!RetakeCycle, Uptime!Begin, Uptime!Step, Uptime!Idle
    <3>2. Uptime!TypeOK'
      BY <3>1, <2>2 DEF Uptime!TypeOK, Uptime!NoLock, Uptime!RowsTyped
    <3>3. Uptime!LockInv'
      BY <3>1, <2>2, <3>2 DEF Uptime!TypeOK, Uptime!NoLock, Uptime!RowsTyped, Uptime!LockInv,
         Uptime!Running
    <3>4. Uptime!RowsInOrder'
      BY <3>1, <2>2, <3>2 DEF Uptime!RowsInOrder
    <3> QED BY <3>2, <3>3, <3>4
  <2> QED BY <2>1, <2>2
<1>5. ASSUME NEW w \in Children, Uptime!ProbeError(w)
      PROVE  /\ Uptime!TypeOK' /\ Uptime!LockInv' /\ Uptime!RowsInOrder'
  <2>1. /\ cycle[w].at = "probe"
        /\ cycle[w].done < Len(Probed)
        /\ cycle[w].errors = 0
        /\ cycle' = [cycle EXCEPT ![w] = [cycle[w] EXCEPT !.done = cycle[w].done + 1,
            !.errors = 1]]
        /\ UNCHANGED <<queued, cycleLock, minute, uptime, egress, crashes, overrun>>
    BY <1>5, Zenon DEF Uptime!ProbeError, Uptime!Step
  <2>a. /\ cycle[w] \in [at : {"idle", "retake", "probe"}, since : Nat, done : 0..Len(Probed),
             errors : 0..1]
        /\ cycle[w].done < Len(Probed)
    BY <2>1 DEF Uptime!TypeOK
  <2>b. [cycle[w] EXCEPT !.done = cycle[w].done + 1] \in [at : {"idle", "retake", "probe"},
            since : Nat, done : 0..Len(Probed), errors : 0..1]
    BY <2>a
  <2>c. \A c \in [at : {"idle", "retake", "probe"}, since : Nat, done : 0..Len(Probed),
            errors : 0..1] : [c EXCEPT !.errors = 1] \in [at : {"idle", "retake", "probe"},
            since : Nat, done : 0..Len(Probed), errors : 0..1]
    BY SMT
  <2>d. [[cycle[w] EXCEPT !.done = cycle[w].done + 1] EXCEPT !.errors = 1] \in [at : {"idle",
            "retake", "probe"}, since : Nat, done : 0..Len(Probed), errors : 0..1]
    BY <2>b, <2>c, Zenon
  <2>e. cycle' \in [Children -> [at : {"idle", "retake", "probe"}, since : Nat,
            done : 0..Len(Probed), errors : 0..1]]
    BY <2>1, <2>a, <2>b, <2>c, <2>d DEF Uptime!TypeOK
  <2>2. Uptime!TypeOK'
    BY <2>1, <2>a, <2>b, <2>c, <2>d, <2>e DEF Uptime!TypeOK, Uptime!NoLock, Uptime!RowsTyped
  <2>3. Uptime!LockInv'
    BY <2>1, <2>a, <2>b, <2>c, <2>d, <2>e, <2>2 DEF Uptime!TypeOK, Uptime!NoLock,
       Uptime!RowsTyped, Uptime!LockInv, Uptime!Running
  <2>4. Uptime!RowsInOrder'
    BY <2>1, <2>a, <2>b, <2>c, <2>d, <2>e, <2>2 DEF Uptime!RowsInOrder
  <2> QED BY <2>2, <2>3, <2>4
<1>6. ASSUME NEW w \in Children, Uptime!CrashCycle(w)
      PROVE  /\ Uptime!TypeOK' /\ Uptime!LockInv' /\ Uptime!RowsInOrder'
  <2>1. /\ crashes < MaxCrash
        /\ crashes' = crashes + 1
        /\ cycle' = [cycle EXCEPT ![w] = [at |-> "idle", since |-> 0, done |-> 0, errors |-> 0]]
        /\ UNCHANGED <<minute, queued, cycleLock, uptime, egress, overrun>>
    BY <1>6, Zenon DEF Uptime!CrashCycle, Uptime!Step, Uptime!Idle
  <2>2. Uptime!TypeOK'
    BY <2>1 DEF Uptime!TypeOK, Uptime!NoLock, Uptime!RowsTyped
  <2>3. Uptime!LockInv'
    BY <2>1, <2>2 DEF Uptime!TypeOK, Uptime!NoLock, Uptime!RowsTyped, Uptime!LockInv,
       Uptime!Running
  <2>4. Uptime!RowsInOrder'
    BY <2>1, <2>2 DEF Uptime!RowsInOrder
  <2> QED BY <2>2, <2>3, <2>4
<1>7. ASSUME NEW w \in Children, NEW up \in BOOLEAN, Uptime!ProbeNext(w, up)
      PROVE  /\ Uptime!TypeOK' /\ Uptime!LockInv' /\ Uptime!RowsInOrder'
  <2>1. /\ cycle[w].at = "probe"
        /\ cycle[w].done < Len(Probed)
        /\ uptime' = [uptime EXCEPT ![Probed[cycle[w].done + 1]] = Uptime!RecordTransition(uptime[Probed[cycle[w].done + 1]], up)]
        /\ cycle' = [cycle EXCEPT ![w] = [cycle[w] EXCEPT !.done = cycle[w].done + 1]]
        /\ UNCHANGED <<minute, queued, cycleLock, egress, crashes, overrun>>
    BY <1>7, Zenon DEF Uptime!ProbeNext, Uptime!Step
  <2>a. /\ cycle[w] \in [at : {"idle", "retake", "probe"}, since : Nat, done : 0..Len(Probed),
             errors : 0..1]
        /\ minute \in Nat
    BY DEF Uptime!TypeOK
  <2>b. [cycle[w] EXCEPT !.done = cycle[w].done + 1] \in [at : {"idle", "retake", "probe"},
            since : Nat, done : 0..Len(Probed), errors : 0..1]
    BY <2>1, <2>a
  <2>c. /\ cycle' \in [Children -> [at : {"idle", "retake", "probe"}, since : Nat,
             done : 0..Len(Probed), errors : 0..1]]
        /\ cycle'[w].at = "probe" /\ cycle'[w].since = cycle[w].since
        /\ \A v \in Children : v # w => cycle'[v] = cycle[v]
    BY <2>1, <2>a, <2>b DEF Uptime!TypeOK
  <2>d. Probed[cycle[w].done + 1] \in Uptime!SiteSet
    BY <2>1, <2>a, <2>b, <2>c DEF Uptime!TypeOK, Uptime!SiteSet
  <2>e. \A s \in Uptime!SiteSet : Uptime!RowsTyped(uptime[s],
            minute) /\ Uptime!InOrder(uptime[s])
    BY DEF Uptime!TypeOK, Uptime!RowsInOrder
  <2>f. /\ Uptime!RowsTyped(Uptime!RecordTransition(uptime[Probed[cycle[w].done + 1]], up),
             minute)
        /\ Uptime!InOrder(Uptime!RecordTransition(uptime[Probed[cycle[w].done + 1]], up))
    BY <2>a, <2>d, <2>e, TransitionInOrder
  <2>g. /\ DOMAIN uptime' = Uptime!SiteSet
        /\ \A s \in Uptime!SiteSet : Uptime!RowsTyped(uptime'[s],
             minute) /\ Uptime!InOrder(uptime'[s])
    BY <2>1, <2>d, <2>e, <2>f DEF Uptime!RowsInOrder
  <2>2. Uptime!TypeOK'
    BY <2>1, <2>c, <2>g DEF Uptime!TypeOK, Uptime!NoLock
  <2>3. Uptime!LockInv'
    BY <2>1, <2>c DEF Uptime!TypeOK, Uptime!NoLock, Uptime!RowsTyped, Uptime!LockInv,
       Uptime!Running
  <2>4. Uptime!RowsInOrder'
    BY <2>1, <2>g DEF Uptime!RowsInOrder
  <2> QED BY <2>2, <2>3, <2>4
<1>8. ASSUME NEW w \in Children, NEW posted \in BOOLEAN, Uptime!FinishCycle(w, posted)
      PROVE  /\ Uptime!TypeOK' /\ Uptime!LockInv' /\ Uptime!RowsInOrder'
  <2>1. /\ cycle[w].at = "probe"
        /\ cycleLock' = Uptime!NoLock
        /\ egress' = (egress \/ (Uptime!MayPing(cycle[w]) /\ ~posted))
        /\ cycle' = [cycle EXCEPT ![w] = [at |-> "idle", since |-> 0, done |-> 0, errors |-> 0]]
        /\ UNCHANGED <<minute, queued, uptime, crashes, overrun>>
    BY <1>8, Zenon DEF Uptime!FinishCycle, Uptime!Step, Uptime!Idle
  <2>2. Uptime!TypeOK'
    BY <2>1 DEF Uptime!TypeOK, Uptime!NoLock, Uptime!RowsTyped
  <2>3. Uptime!LockInv'
    BY <2>1, <2>2 DEF Uptime!TypeOK, Uptime!NoLock, Uptime!RowsTyped, Uptime!LockInv,
       Uptime!Running
  <2>4. Uptime!RowsInOrder'
    BY <2>1, <2>2 DEF Uptime!RowsInOrder
  <2> QED BY <2>2, <2>3, <2>4
<1>9. ASSUME Uptime!Sweep PROVE Uptime!TypeOK' /\ Uptime!LockInv' /\ Uptime!RowsInOrder'
  <2>1. /\ uptime' = [s \in Uptime!SiteSet |-> [i \in Uptime!Young(uptime[s]) |-> uptime[s][i]]]
        /\ UNCHANGED <<minute, queued, cycleLock, cycle, egress, crashes, overrun>>
    BY <1>9, Zenon DEF Uptime!Sweep
  <2>a. \A s \in Uptime!SiteSet : Uptime!RowsTyped(uptime[s],
            minute) /\ Uptime!InOrder(uptime[s])
    BY DEF Uptime!TypeOK, Uptime!RowsInOrder
  <2>b. minute \in Nat
    BY DEF Uptime!TypeOK
  <2>c. \A s \in Uptime!SiteSet :
            Uptime!RowsTyped([i \in Uptime!Young(uptime[s]) |-> uptime[s][i]],
            minute) /\ Uptime!InOrder([i \in Uptime!Young(uptime[s]) |-> uptime[s][i]])
    BY <2>a, <2>b, SweepInOrder
  <2>d. /\ DOMAIN uptime' = Uptime!SiteSet
        /\ \A s \in Uptime!SiteSet : Uptime!RowsTyped(uptime'[s],
             minute) /\ Uptime!InOrder(uptime'[s])
    BY <2>1, <2>c, Zenon
  <2>e. UNCHANGED <<minute, queued, cycleLock, cycle, egress, crashes, overrun>>
    BY <2>1
  <2>2. Uptime!TypeOK'
    BY <2>d, <2>e DEF Uptime!TypeOK, Uptime!NoLock
  <2>3. Uptime!LockInv'
    BY <2>e DEF Uptime!TypeOK, Uptime!NoLock, Uptime!RowsTyped, Uptime!LockInv, Uptime!Running
  <2>4. Uptime!RowsInOrder'
    BY <2>d, <2>e DEF Uptime!RowsInOrder
  <2> QED BY <2>2, <2>3, <2>4
<1>10. ASSUME Uptime!Minute PROVE Uptime!TypeOK' /\ Uptime!LockInv' /\ Uptime!RowsInOrder'
  <2>1. /\ minute < MaxMinute
        /\ minute' = minute + 1
        /\ queued' = queued + 1
        /\ overrun' = (overrun \/ \E w \in Children : cycle[w].at = "probe"
            /\ cycle[w].since < minute + 1 - StaleAfter)
        /\ UNCHANGED <<cycleLock, cycle, uptime, egress, crashes>>
    BY <1>10, Zenon DEF Uptime!Minute
  <2>a. ~overrun' => ~overrun /\ \A w \in Children : cycle[w].at = "probe" =>
            ~(cycle[w].since < minute + 1 - StaleAfter)
    BY <2>1, Zenon
  <2>2. Uptime!TypeOK'
    BY <2>1, <2>a DEF Uptime!TypeOK, Uptime!NoLock, Uptime!RowsTyped
  <2>3. Uptime!LockInv'
    BY <2>1, <2>a, <2>2 DEF Uptime!TypeOK, Uptime!NoLock, Uptime!RowsTyped, Uptime!LockInv,
       Uptime!Running
  <2>4. Uptime!RowsInOrder'
    BY <2>1, <2>a, <2>2 DEF Uptime!RowsInOrder
  <2> QED BY <2>2, <2>3, <2>4
<1>11. CASE UNCHANGED uptimeState
  BY <1>11 DEF uptimeState, Uptime!TypeOK, Uptime!NoLock, Uptime!RowsTyped, Uptime!LockInv,
     Uptime!Running, Uptime!RowsInOrder
<1> QED
  BY <1>1, <1>2, <1>3, <1>4, <1>5, <1>6, <1>7, <1>8, <1>9, <1>10, <1>11 DEF Uptime!Next

\* The lock and the rows, wherever the probe cycle is what moves.
UptimeAll == focus = "uptime" => Uptime!TypeOK /\ Uptime!LockInv /\ Uptime!RowsInOrder

\* The composition keeps the invariant of the uptime cycle.
LEMMA UptimeInvariant == Spec => []UptimeAll
<1>1. Init => UptimeAll
  <2> SUFFICES ASSUME Uptime!Init PROVE Uptime!TypeOK /\ Uptime!LockInv /\ Uptime!RowsInOrder
    BY DEF Init, UptimeStarts, UptimeAll
  <2>1. /\ minute = 0 /\ queued = 1 /\ cycleLock = Uptime!NoLock /\ crashes = 0
        /\ cycle = [w \in Children |-> Uptime!Idle] /\ egress \in BOOLEAN /\ overrun \in BOOLEAN
        /\ uptime = [s \in Uptime!SiteSet |-> Uptime!NoRows]
    BY Zenon DEF Uptime!Init
  <2>2. DOMAIN uptime = Uptime!SiteSet /\ \A s \in Uptime!SiteSet : DOMAIN uptime[s] = {}
    BY <2>1 DEF Uptime!NoRows
  <2>3. cycle \in [Children -> [at : {"idle", "retake", "probe"}, since : Nat,
            done : 0..Len(Probed), errors : 0..1]]
    BY <2>1, UptimeBounds DEF Uptime!Idle
  <2>4. \A w \in Children : cycle[w].at = "idle"
    BY <2>1 DEF Uptime!Idle
  <2>5. Uptime!TypeOK
    <3>1. /\ minute \in 0..MaxMinute /\ queued \in 0..(minute + 1)
          /\ cycleLock \in Uptime!NoLock..minute /\ crashes \in 0..MaxCrash
      BY <2>1, UptimeBounds DEF Uptime!NoLock
    <3>2. \A s \in Uptime!SiteSet : Uptime!RowsTyped(uptime[s], minute)
      BY <2>2 DEF Uptime!RowsTyped
    <3> QED BY <2>1, <2>3, <3>1, <3>2, Zenon DEF Uptime!TypeOK
  <2>6. Uptime!LockInv
    BY <2>4 DEF Uptime!LockInv, Uptime!Running
  <2>7. Uptime!RowsInOrder
    BY <2>2 DEF Uptime!RowsInOrder, Uptime!InOrder
  <2> QED BY <2>5, <2>6, <2>7
<1>2. UptimeAll /\ [Next]_allVars => UptimeAll'
  <2> SUFFICES ASSUME UptimeAll, [Next]_allVars, focus = "uptime"
               PROVE  Uptime!TypeOK' /\ Uptime!LockInv' /\ Uptime!RowsInOrder'
    BY OneAtATime DEF UptimeAll
  <2>1. Uptime!TypeOK /\ Uptime!LockInv /\ Uptime!RowsInOrder /\ [Uptime!Next]_uptimeState
    BY OneAtATime DEF UptimeAll
  <2> QED BY <2>1, UptimeNext
<1> QED BY <1>1, <1>2, PTL DEF Spec

\* monitor/uptime.py: through crashes and takeovers of stale locks, at most one cycle probes as
\* long as none outlives the stale limit, and no uptime event of a site repeats the state of
\* the one before it, for any sites, workers and limits.
THEOREM CyclesTheorem == Spec => []CyclesApart
<1>1. UptimeAll => CyclesApart
  <2> SUFFICES ASSUME Uptime!TypeOK, Uptime!LockInv, Uptime!RowsInOrder PROVE Uptime!CyclesApart
    BY DEF UptimeAll, CyclesApart
  <2>1. ~overrun => \A v, w \in Uptime!Running : v = w
    BY Zenon DEF Uptime!LockInv
  <2>2. ASSUME NEW s \in Uptime!SiteSet, NEW i \in DOMAIN uptime[s], NEW j \in DOMAIN uptime[s],
               i < j, \A k \in DOMAIN uptime[s] : k <= i \/ j <= k
        PROVE  uptime[s][i].up # uptime[s][j].up
    <3>1. Uptime!InOrder(uptime[s]) /\ Uptime!RowsTyped(uptime[s], minute)
      BY DEF Uptime!RowsInOrder, Uptime!TypeOK
    <3>2. i \in Nat /\ j \in Nat /\ i + 1 \in i..j
      BY <3>1, <2>2 DEF Uptime!RowsTyped
    <3>3. i + 1 \in DOMAIN uptime[s]
      BY <3>1, <3>2 DEF Uptime!InOrder
    <3>4. j = i + 1
      BY <3>2, <3>3, <2>2
    <3> QED BY <3>1, <3>4, Zenon DEF Uptime!InOrder
  <2>3. \A s \in Uptime!SiteSet : \A i, j \in DOMAIN uptime[s] :
            i < j /\ (\A k \in DOMAIN uptime[s] : k <= i \/ j <= k) =>
                uptime[s][i].up # uptime[s][j].up
    BY <2>2
  <2> QED BY <2>1, <2>3, Zenon DEF Uptime!CyclesApart
<1> QED BY <1>1, UptimeInvariant, PTL

---------------------------------------------------------------------------
(* The traffic collector *)

\* A set of integers within bounds has a largest element.
LEMMA LargestOf ==
    ASSUME NEW a \in Int, NEW b \in Int, NEW S \in SUBSET (a..b), S # {}
    PROVE  \E x \in S : \A y \in S : y <= x
<1> DEFINE T == {b - y : y \in S}
<1>1. T \subseteq Nat /\ T # {}
  OBVIOUS
<1>2. PICK m \in T : \A t \in T : ~(<<t, m>> \in OpToRel(<, Nat))
  BY <1>1, NatLessThanWellFounded, WFMin
<1>4. PICK x \in S : m = b - x
  OBVIOUS
<1>a. \A y \in S : b - y \in T
  OBVIOUS
<1> HIDE DEF T
<1>3. \A t \in T : m <= t
  <2> SUFFICES ASSUME NEW t \in T PROVE m <= t
    OBVIOUS
  <2>1. t \in Nat /\ m \in Nat /\ ~(t < m)
    BY <1>1, <1>2 DEF OpToRel
  <2> QED BY <2>1
<1>5. \A y \in S : b - x <= b - y
  BY <1>3, <1>4, <1>a
<1> QED BY <1>5

\* A summary ends within what is pending.
LEMMA SummaryBounds ==
    ASSUME file.size \in Nat, NEW start \in 0..file.size
    PROVE  Collect!SummaryEnd(start) \in start..file.size
<1> DEFINE ends == {n \in start..file.size : n % 2 = 0 /\ n - 2 - start < ScanCap}
<1>1. CASE ends = {}
  BY <1>1 DEF Collect!SummaryEnd
<1>2. CASE ends # {}
  <2>1. ends \in SUBSET (start..file.size)
    OBVIOUS
  <2>2. \E n \in ends : \A m \in ends : m <= n
    <3>1. start \in Int /\ file.size \in Int
      OBVIOUS
    <3> HIDE DEF ends
    <3> QED BY <1>2, <2>1, <3>1, LargestOf
  <2>3. Collect!SummaryEnd(start) = CHOOSE n \in ends : \A m \in ends : m <= n
    BY <1>2 DEF Collect!SummaryEnd
  <2> HIDE DEF ends
  <2>4. Collect!SummaryEnd(start) \in ends
    BY <2>2, <2>3
  <2> QED BY <2>1, <2>4
<1> QED BY <1>1, <1>2

\* What the script answers: a chunk of the file that is there now, which begins at the
\* cursor or, on another inode or past the end, at the start.
LEMMA ChunkFacts ==
    ASSUME Collect!TypeOK, NEW c \in Collect!Cursors
    PROVE  LET ch == Collect!LogChunk(c) IN
           /\ ch \in Collect!Chunks /\ ch.inode = file.inode
           /\ ch.from = (IF (c.inode # 0 /\ file.inode # c.inode) \/ c.off > file.size THEN 0 ELSE c.off)
           /\ ch.to \in ch.from..file.size
<1> USE TrafficBounds
<1> DEFINE rotated == c.inode # 0 /\ file.inode # c.inode
           start == IF rotated \/ c.off > file.size THEN 0 ELSE c.off
           raw == file.size - start <= Chunk
           to == IF raw THEN file.size ELSE Collect!SummaryEnd(start)
<1>1. c.inode \in 0..(MaxRotations + 1) /\ c.off \in 0..MaxUnits
  BY DEF Collect!Cursors
<1>2. file.inode \in 1..(MaxRotations + 1) /\ file.size \in 0..MaxUnits
  BY DEF Collect!TypeOK, Collect!Inodes
<1>3. start \in 0..file.size /\ start \in 0..MaxUnits
  BY <1>1, <1>2
<1>4. to \in start..file.size /\ to \in 0..MaxUnits
  <2>1. Collect!SummaryEnd(start) \in start..file.size
    <3> HIDE DEF start
    <3> QED BY <1>2, <1>3, SummaryBounds
  <2> HIDE DEF start, raw
  <2> QED BY <2>1, <1>2, <1>3
<1>5. Collect!LogChunk(c) = [inode |-> file.inode, from |-> start, to |-> to,
                             rotated |-> rotated, sampled |-> ~raw]
  BY DEF Collect!LogChunk
<1>6. rotated \in BOOLEAN /\ (~raw) \in BOOLEAN
  OBVIOUS
<1>7. start = (IF (c.inode # 0 /\ file.inode # c.inode) \/ c.off > file.size THEN 0 ELSE c.off)
  OBVIOUS
<1> HIDE DEF start, to, rotated, raw
<1> QED BY <1>2, <1>3, <1>4, <1>5, <1>6, <1>7 DEF Collect!Chunks

\* What a pull reads of the log, or echoes when there is nothing new, is a chunk of its file.
LEMMA ChunkBounds ==
    ASSUME Collect!TypeOK, NEW c \in Collect!Cursors
    PROVE  Collect!LogChunk(c) \in Collect!Chunks /\ Collect!EchoCursor(c) \in Collect!Chunks
<1>1. Collect!LogChunk(c) \in Collect!Chunks
  BY ChunkFacts
<1>2. Collect!EchoCursor(c) \in Collect!Chunks
  BY DEF Collect!EchoCursor, Collect!Chunks, Collect!Cursors
<1> QED BY <1>1, <1>2

\* A pull with the stored cursor begins behind every counted line of its file.
LEMMA ChunkCovers ==
    ASSUME Collect!TypeOK, Collect!CursorCovers, ~staleRead, NEW c \in Collect!Cursors,
           c = cursor, NEW ch \in {Collect!LogChunk(c), Collect!EchoCursor(c)}
    PROVE  /\ ch.inode <= file.inode /\ (ch.inode = file.inode => ch.to <= file.size)
           /\ \A l \in Collect!Lines : counted[l] > 0 =>
                 Collect!Behind(l, ch.inode, ch.from) /\ Collect!Behind(l, ch.inode, ch.to)
<1> USE TrafficBounds
<1>1. /\ cursor.inode \in 0..(MaxRotations + 1) /\ cursor.off \in 0..MaxUnits
      /\ file.inode \in 1..(MaxRotations + 1) /\ file.size \in 0..MaxUnits
  BY DEF Collect!TypeOK, Collect!Cursors, Collect!Inodes
<1>2. \A l \in Collect!Lines : l[1] \in 1..(MaxRotations + 1) /\ l[2] \in Int
  BY DEF Collect!Lines, Collect!Inodes
<1>3. /\ cursor.inode <= file.inode /\ (cursor.inode = file.inode => cursor.off <= file.size)
      /\ \A l \in Collect!Lines : counted[l] > 0 => Collect!Behind(l, cursor.inode, cursor.off)
  BY DEF Collect!CursorCovers
<1>4. CASE ch = Collect!LogChunk(c)
  <2>1. /\ ch.inode = file.inode
        /\ ch.from = (IF (c.inode # 0 /\ file.inode # c.inode) \/ c.off > file.size THEN 0 ELSE c.off)
        /\ ch.to \in ch.from..file.size /\ ch \in Collect!Chunks
    BY <1>4, ChunkFacts
  <2>2. ch.from \in Int /\ ch.to \in Int
    BY <2>1 DEF Collect!Chunks
  <2>3. ASSUME NEW l \in Collect!Lines, counted[l] > 0
        PROVE  Collect!Behind(l, ch.inode, ch.from) /\ Collect!Behind(l, ch.inode, ch.to)
    <3>1. l[1] < cursor.inode \/ (l[1] = cursor.inode /\ 2 * l[2] <= cursor.off)
      BY <1>3, <2>3 DEF Collect!Behind
    <3>2. CASE cursor.inode = file.inode
      <4>1. ch.from = cursor.off
        BY <2>1, <3>2, <1>1, <1>3
      <4> QED BY <2>1, <2>2, <3>1, <3>2, <4>1, <1>1, <1>2 DEF Collect!Behind
    <3>3. CASE cursor.inode < file.inode
      BY <2>1, <3>1, <3>3, <1>1, <1>2 DEF Collect!Behind
    <3> QED BY <3>2, <3>3, <1>1, <1>3
  <2>4. ch.inode <= file.inode /\ ch.to <= file.size
    BY <2>1, <2>2, <1>1
  <2> QED BY <2>3, <2>4
<1>5. CASE ch = Collect!EchoCursor(c)
  <2>1. ch.inode = cursor.inode /\ ch.from = cursor.off /\ ch.to = cursor.off
    BY <1>5 DEF Collect!EchoCursor
  <2> QED BY <2>1, <1>3
<1> QED BY <1>4, <1>5

\* A step of a tick, of the log and of its rotation keeps the windows apart.
LEMMA CollectNext ==
    Collect!TypeOK /\ Collect!OnePull /\ Collect!CursorCovers /\ [Collect!Next]_collectState =>
        /\ Collect!TypeOK' /\ Collect!OnePull' /\ Collect!CursorCovers'
<1> SUFFICES ASSUME Collect!TypeOK, Collect!OnePull, Collect!CursorCovers,
        [Collect!Next]_collectState
             PROVE  Collect!TypeOK' /\ Collect!OnePull' /\ Collect!CursorCovers'
  OBVIOUS
<1> USE TrafficBounds
<1>1. ASSUME Collect!WriteLog PROVE Collect!TypeOK' /\ Collect!OnePull' /\ Collect!CursorCovers'
  <2>1. /\ file.size < MaxUnits
        /\ file' = [file EXCEPT !.size = file.size + 1]
        /\ UNCHANGED <<cursor, collectLock, tick, counted, sampledFrom, staleRead>>
    BY <1>1, Zenon DEF Collect!WriteLog
  <2>2. Collect!TypeOK'
    BY <2>1 DEF Collect!TypeOK, Collect!Away, Collect!Cursors, Collect!Chunks, Collect!Inodes
  <2>3. Collect!OnePull'
    BY <2>1, <2>2 DEF Collect!TypeOK, Collect!Away, Collect!Cursors, Collect!Chunks,
       Collect!Inodes, Collect!OnePull
  <2>4. Collect!CursorCovers'
    BY <2>1, <2>2 DEF Collect!TypeOK, Collect!Away, Collect!Cursors, Collect!Chunks,
       Collect!Inodes, Collect!OnePull, Collect!CursorCovers
  <2> QED BY <2>2, <2>3, <2>4
<1>2. ASSUME Collect!Rotate PROVE Collect!TypeOK' /\ Collect!OnePull' /\ Collect!CursorCovers'
  <2>1. /\ file.inode <= MaxRotations
        /\ file' = [inode |-> file.inode + 1, size |-> 0]
        /\ UNCHANGED <<cursor, collectLock, tick, counted, sampledFrom, staleRead>>
    BY <1>2, Zenon DEF Collect!Rotate
  <2>2. Collect!TypeOK'
    BY <2>1 DEF Collect!TypeOK, Collect!Away, Collect!Cursors, Collect!Chunks, Collect!Inodes
  <2>3. Collect!OnePull'
    BY <2>1, <2>2 DEF Collect!TypeOK, Collect!Away, Collect!Cursors, Collect!Chunks,
       Collect!Inodes, Collect!OnePull
  <2>4. Collect!CursorCovers'
    BY <2>1, <2>2 DEF Collect!TypeOK, Collect!Away, Collect!Cursors, Collect!Chunks,
       Collect!Inodes, Collect!OnePull, Collect!CursorCovers
  <2> QED BY <2>2, <2>3, <2>4
<1>3. ASSUME NEW w \in Ticks, Collect!ListTargets(w)
      PROVE  /\ Collect!TypeOK' /\ Collect!OnePull' /\ Collect!CursorCovers'
  <2>1. /\ tick[w].at = "idle"
        /\ tick' = [tick EXCEPT ![w] = [at |-> "listed", row |-> cursor]]
        /\ UNCHANGED <<file, cursor, collectLock, counted, sampledFrom, staleRead>>
    BY <1>3, Zenon DEF Collect!ListTargets
  <2>2. Collect!TypeOK'
    BY <2>1 DEF Collect!TypeOK, Collect!Away, Collect!Cursors, Collect!Chunks, Collect!Inodes
  <2>3. Collect!OnePull'
    BY <2>1, <2>2 DEF Collect!TypeOK, Collect!Away, Collect!Cursors, Collect!Chunks,
       Collect!Inodes, Collect!OnePull
  <2>4. Collect!CursorCovers'
    BY <2>1, <2>2 DEF Collect!TypeOK, Collect!Away, Collect!Cursors, Collect!Chunks,
       Collect!Inodes, Collect!OnePull, Collect!CursorCovers
  <2> QED BY <2>2, <2>3, <2>4
<1>4. ASSUME NEW w \in Ticks, Collect!LockTarget(w)
      PROVE  /\ Collect!TypeOK' /\ Collect!OnePull' /\ Collect!CursorCovers'
  <2>1. CASE collectLock
    <3>1. /\ tick[w].at = "listed"
          /\ tick' = [tick EXCEPT ![w] = [at |-> "idle"]]
          /\ UNCHANGED <<file, cursor, collectLock, counted, sampledFrom, staleRead>>
      BY <1>4, <2>1, Zenon DEF Collect!LockTarget, Collect!Away
    <3>2. Collect!TypeOK'
      BY <3>1, <2>1 DEF Collect!TypeOK, Collect!Away, Collect!Cursors, Collect!Chunks,
         Collect!Inodes
    <3>3. Collect!OnePull'
      BY <3>1, <2>1, <3>2 DEF Collect!TypeOK, Collect!Away, Collect!Cursors, Collect!Chunks,
         Collect!Inodes, Collect!OnePull
    <3>4. Collect!CursorCovers'
      BY <3>1, <2>1, <3>2 DEF Collect!TypeOK, Collect!Away, Collect!Cursors, Collect!Chunks,
         Collect!Inodes, Collect!OnePull, Collect!CursorCovers
    <3> QED BY <3>2, <3>3, <3>4
  <2>2. CASE ~collectLock
    <3>1. /\ tick[w].at = "listed"
          /\ tick' = [tick EXCEPT ![w] = [tick[w] EXCEPT !.at = "locked"]]
          /\ collectLock' = TRUE
          /\ UNCHANGED <<file, cursor, counted, sampledFrom, staleRead>>
      BY <1>4, <2>2, Zenon DEF Collect!LockTarget, Collect!Away
    <3>a. tick[w] \in [at : {"listed", "locked"}, row : Collect!Cursors]
      BY <3>1 DEF Collect!TypeOK, Collect!Away
    <3>b. [tick[w] EXCEPT !.at = "locked"] \in [at : {"listed", "locked"},
              row : Collect!Cursors]
      BY <3>a
    <3>c. collectLock' \in BOOLEAN
      BY <3>1, Zenon
    <3>2. Collect!TypeOK'
      BY <3>1, <2>2, <3>a, <3>b, <3>c DEF Collect!TypeOK
    <3>3. Collect!OnePull'
      BY <3>1, <2>2, <3>a, <3>b, <3>c, <3>2 DEF Collect!TypeOK, Collect!Away, Collect!Cursors,
         Collect!Chunks, Collect!Inodes, Collect!OnePull
    <3>4. Collect!CursorCovers'
      BY <3>1, <2>2, <3>a, <3>b, <3>c, <3>2 DEF Collect!TypeOK, Collect!Away, Collect!Cursors,
         Collect!Chunks, Collect!Inodes, Collect!OnePull, Collect!CursorCovers
    <3> QED BY <3>2, <3>3, <3>4
  <2> QED BY <2>1, <2>2
<1>5. ASSUME NEW w \in Ticks, Collect!Ingest(w)
      PROVE  /\ Collect!TypeOK' /\ Collect!OnePull' /\ Collect!CursorCovers'
  <2>1. /\ tick[w].at = "pulled"
        /\ counted' = [l \in Collect!Lines |-> IF l[1] = tick[w].chunk.inode
            /\ l[2] \in Collect!Whole(tick[w].chunk) THEN counted[l] + 1 ELSE counted[l]]
        /\ sampledFrom' = IF tick[w].chunk.rotated \/ tick[w].chunk.sampled THEN sampledFrom \cup {tick[w].chunk.inode} ELSE sampledFrom
        /\ tick' = [tick EXCEPT ![w] = [at |-> "idle"]]
        /\ collectLock' = FALSE
        /\ UNCHANGED <<file, cursor, staleRead>>
    BY <1>5, Zenon DEF Collect!Ingest, Collect!Away
  <2> DEFINE ch == tick[w].chunk
  <2>a. ch \in Collect!Chunks
    BY <2>1 DEF Collect!TypeOK, Collect!Away
  <2>b. counted' \in [Collect!Lines -> Nat]
    BY <2>1 DEF Collect!TypeOK
  <2>c. \A l \in Collect!Lines : counted'[l] = IF l[1] = ch.inode
            /\ l[2] \in Collect!Whole(ch) THEN counted[l] + 1 ELSE counted[l]
    BY <2>1
  <2>d. sampledFrom' \subseteq 0..(MaxRotations + 1)
    BY <2>1, <2>a DEF Collect!TypeOK, Collect!Chunks
  <2>e. /\ tick' = [tick EXCEPT ![w] = [at |-> "idle"]] /\ UNCHANGED <<file, cursor, staleRead>>
        /\ collectLock' = FALSE /\ tick[w].at = "pulled"
    BY <2>1
  <2>f. collectLock' \in BOOLEAN
    BY <2>e, Zenon
  <2>g. ~staleRead => ch.inode = cursor.inode /\ ch.to = cursor.off /\ \A l \in Collect!Lines :
            counted[l] > 0 => Collect!Behind(l, ch.inode, ch.from)
    BY <2>e DEF Collect!CursorCovers
  <2>h. \A l \in Collect!Lines : l[1] \in Int /\ l[2] \in Int /\ l[2] \in 1..(MaxUnits \div 2)
    BY DEF Collect!Lines, Collect!Inodes
  <2>i. ~staleRead => \A l \in Collect!Lines : counted'[l] <= 1 /\ (counted'[l] > 0 =>
            Collect!Behind(l, cursor.inode, cursor.off))
    BY <2>a, <2>c, <2>g, <2>h DEF Collect!CursorCovers, Collect!Behind, Collect!Whole,
       Collect!TypeOK, Collect!Chunks, Collect!Cursors
  <2>j. \A v \in Ticks : tick'[v].at \notin {"locked", "pulled"}
    BY <2>e DEF Collect!OnePull, Collect!TypeOK, Collect!Away
  <2> HIDE DEF ch
  <2>2. Collect!TypeOK'
    BY <2>b, <2>d, <2>e, <2>f DEF Collect!TypeOK, Collect!Away
  <2>3. Collect!OnePull'
    BY <2>j DEF Collect!OnePull
  <2>4. Collect!CursorCovers'
    BY <2>e, <2>i, <2>j DEF Collect!CursorCovers
  <2> QED BY <2>2, <2>3, <2>4
<1>6. ASSUME NEW w \in Ticks, Collect!CollectFails(w)
      PROVE  /\ Collect!TypeOK' /\ Collect!OnePull' /\ Collect!CursorCovers'
  <2>1. /\ tick[w].at \in {"locked", "pulled"}
        /\ tick' = [tick EXCEPT ![w] = [at |-> "idle"]]
        /\ collectLock' = FALSE
        /\ UNCHANGED <<file, cursor, counted, sampledFrom, staleRead>>
    BY <1>6, Zenon DEF Collect!CollectFails, Collect!Away
  <2>a. collectLock' \in BOOLEAN
    BY <2>1, Zenon
  <2>2. Collect!TypeOK'
    BY <2>1, <2>a DEF Collect!TypeOK, Collect!Away, Collect!Cursors, Collect!Chunks,
       Collect!Inodes
  <2>3. Collect!OnePull'
    BY <2>1, <2>a, <2>2 DEF Collect!TypeOK, Collect!Away, Collect!Cursors, Collect!Chunks,
       Collect!Inodes, Collect!OnePull
  <2>4. Collect!CursorCovers'
    BY <2>1, <2>a, <2>2 DEF Collect!TypeOK, Collect!Away, Collect!Cursors, Collect!Chunks,
       Collect!Inodes, Collect!OnePull, Collect!CursorCovers
  <2> QED BY <2>2, <2>3, <2>4
<1>7. ASSUME NEW w \in Ticks, Collect!KillTick(w)
      PROVE  /\ Collect!TypeOK' /\ Collect!OnePull' /\ Collect!CursorCovers'
  <2>1. /\ tick[w].at \in {"locked", "pulled"}
        /\ tick' = [tick EXCEPT ![w] = [at |-> "idle"]]
        /\ UNCHANGED <<file, cursor, collectLock, counted, sampledFrom, staleRead>>
    BY <1>7, Zenon DEF Collect!KillTick, Collect!Away
  <2>2. Collect!TypeOK'
    BY <2>1 DEF Collect!TypeOK, Collect!Away, Collect!Cursors, Collect!Chunks, Collect!Inodes
  <2>3. Collect!OnePull'
    BY <2>1, <2>2 DEF Collect!TypeOK, Collect!Away, Collect!Cursors, Collect!Chunks,
       Collect!Inodes, Collect!OnePull
  <2>4. Collect!CursorCovers'
    BY <2>1, <2>2 DEF Collect!TypeOK, Collect!Away, Collect!Cursors, Collect!Chunks,
       Collect!Inodes, Collect!OnePull, Collect!CursorCovers
  <2> QED BY <2>2, <2>3, <2>4
<1>8. ASSUME NEW w \in Ticks, NEW ok \in BOOLEAN, Collect!Collect(w, ok)
      PROVE  /\ Collect!TypeOK' /\ Collect!OnePull' /\ Collect!CursorCovers'
  <2>1. CASE ok
    <3>1. /\ tick[w].at = "locked"
          /\ tick' = [tick EXCEPT ![w] = [at |-> "pulled",
              chunk |-> Collect!LogChunk(tick[w].row)]]
          /\ cursor' = [inode |-> Collect!LogChunk(tick[w].row).inode,
              off |-> Collect!LogChunk(tick[w].row).to]
          /\ staleRead' = (staleRead \/ tick[w].row # cursor)
          /\ UNCHANGED <<file, collectLock, counted, sampledFrom>>
      BY <1>8, <2>1, Zenon DEF Collect!Collect
    <3> DEFINE ch == Collect!LogChunk(tick[w].row)
    <3>a. tick[w].row \in Collect!Cursors
      BY <3>1 DEF Collect!TypeOK, Collect!Away
    <3>b. ch \in Collect!Chunks
      BY <3>a, ChunkBounds
    <3>c. ~staleRead' => ~staleRead /\ tick[w].row = cursor
      BY <3>1, Zenon
    <3>d. /\ tick' = [tick EXCEPT ![w] = [at |-> "pulled", chunk |-> ch]]
          /\ cursor' = [inode |-> ch.inode, off |-> ch.to]
          /\ UNCHANGED <<file, collectLock, counted, sampledFrom>> /\ tick[w].at = "locked"
      BY <3>1
    <3>e. staleRead' \in BOOLEAN
      BY <3>1, Zenon
    <3>f. ~staleRead /\ tick[w].row = cursor => /\ ch.inode <= file.inode
              /\ (ch.inode = file.inode => ch.to <= file.size) /\ \A l \in Collect!Lines :
              counted[l] > 0 => Collect!Behind(l, ch.inode, ch.from) /\ Collect!Behind(l,
              ch.inode, ch.to)
      BY <3>a, ChunkCovers
    <3> HIDE DEF ch
    <3>2. Collect!TypeOK'
      BY <3>b, <3>d, <3>e DEF Collect!TypeOK, Collect!Cursors, Collect!Chunks, Collect!Away
    <3>3. Collect!OnePull'
      BY <3>d DEF Collect!TypeOK, Collect!OnePull, Collect!Away
    <3>4. Collect!CursorCovers'
      BY <3>b, <3>c, <3>d, <3>f, <3>2 DEF Collect!TypeOK, Collect!OnePull, Collect!Cursors,
         Collect!Chunks, Collect!Away, Collect!CursorCovers
    <3> QED BY <3>2, <3>3, <3>4
  <2>2. CASE ~ok
    <3>1. /\ tick[w].at = "locked"
          /\ tick' = [tick EXCEPT ![w] = [at |-> "pulled",
              chunk |-> Collect!EchoCursor(tick[w].row)]]
          /\ cursor' = [inode |-> Collect!EchoCursor(tick[w].row).inode,
              off |-> Collect!EchoCursor(tick[w].row).to]
          /\ staleRead' = (staleRead \/ tick[w].row # cursor)
          /\ UNCHANGED <<file, collectLock, counted, sampledFrom>>
      BY <1>8, <2>2, Zenon DEF Collect!Collect
    <3> DEFINE ch == Collect!EchoCursor(tick[w].row)
    <3>a. tick[w].row \in Collect!Cursors
      BY <3>1 DEF Collect!TypeOK, Collect!Away
    <3>b. ch \in Collect!Chunks
      BY <3>a, ChunkBounds
    <3>c. ~staleRead' => ~staleRead /\ tick[w].row = cursor
      BY <3>1, Zenon
    <3>d. /\ tick' = [tick EXCEPT ![w] = [at |-> "pulled", chunk |-> ch]]
          /\ cursor' = [inode |-> ch.inode, off |-> ch.to]
          /\ UNCHANGED <<file, collectLock, counted, sampledFrom>> /\ tick[w].at = "locked"
      BY <3>1
    <3>e. staleRead' \in BOOLEAN
      BY <3>1, Zenon
    <3>f. ~staleRead /\ tick[w].row = cursor => /\ ch.inode <= file.inode
              /\ (ch.inode = file.inode => ch.to <= file.size) /\ \A l \in Collect!Lines :
              counted[l] > 0 => Collect!Behind(l, ch.inode, ch.from) /\ Collect!Behind(l,
              ch.inode, ch.to)
      BY <3>a, ChunkCovers
    <3> HIDE DEF ch
    <3>2. Collect!TypeOK'
      BY <3>b, <3>d, <3>e DEF Collect!TypeOK, Collect!Cursors, Collect!Chunks, Collect!Away
    <3>3. Collect!OnePull'
      BY <3>d DEF Collect!TypeOK, Collect!OnePull, Collect!Away
    <3>4. Collect!CursorCovers'
      BY <3>b, <3>c, <3>d, <3>f, <3>2 DEF Collect!TypeOK, Collect!OnePull, Collect!Cursors,
         Collect!Chunks, Collect!Away, Collect!CursorCovers
    <3> QED BY <3>2, <3>3, <3>4
  <2> QED BY <2>1, <2>2
<1>9. CASE UNCHANGED collectState
  BY <1>9 DEF collectState, Collect!TypeOK, Collect!Away, Collect!Cursors, Collect!Chunks,
     Collect!Inodes, Collect!OnePull, Collect!CursorCovers
<1> QED
  BY <1>1, <1>2, <1>3, <1>4, <1>5, <1>6, <1>7, <1>8, <1>9 DEF Collect!Next

\* The windows, wherever the collector is what moves.
CollectAll == focus = "collect" => Collect!TypeOK /\ Collect!OnePull /\ Collect!CursorCovers

\* The composition keeps the invariant of the traffic collector.
LEMMA CollectInvariant == Spec => []CollectAll
<1>1. Init => CollectAll
  <2> SUFFICES ASSUME Collect!Init
               PROVE  /\ Collect!TypeOK /\ Collect!OnePull /\ Collect!CursorCovers
    BY DEF Init, CollectStarts, CollectAll
  <2>a. /\ file = [inode |-> 1, size |-> 0] /\ cursor = Collect!Zero
        /\ tick = [w \in Ticks |-> Collect!Away]
        /\ counted = [l \in Collect!Lines |-> 0] /\ sampledFrom = {} /\ staleRead \in BOOLEAN
        /\ collectLock \in BOOLEAN
    BY Zenon DEF Collect!Init
  <2>1. Collect!TypeOK
    BY <2>a, TrafficBounds DEF Collect!TypeOK, Collect!Cursors, Collect!Inodes, Collect!Zero
  <2>2. Collect!OnePull
    BY TrafficBounds DEF Collect!TypeOK, Collect!Away, Collect!Cursors, Collect!Chunks,
       Collect!Inodes, Collect!Init, Collect!Zero, Collect!OnePull, Collect!CursorCovers,
       Collect!Lines
  <2>3. Collect!CursorCovers
    BY TrafficBounds DEF Collect!TypeOK, Collect!Away, Collect!Cursors, Collect!Chunks,
       Collect!Inodes, Collect!Init, Collect!Zero, Collect!OnePull, Collect!CursorCovers,
       Collect!Lines
  <2> QED BY <2>1, <2>2, <2>3
<1>2. CollectAll /\ [Next]_allVars => CollectAll'
  <2> SUFFICES ASSUME CollectAll, [Next]_allVars, focus = "collect"
               PROVE  Collect!TypeOK' /\ Collect!OnePull' /\ Collect!CursorCovers'
    BY OneAtATime DEF CollectAll
  <2>1. Collect!TypeOK /\ Collect!OnePull /\ Collect!CursorCovers /\ [Collect!Next]_collectState
    BY OneAtATime DEF CollectAll
  <2> QED BY <2>1, CollectNext
<1> QED BY <1>1, <1>2, PTL DEF Spec

\* monitor/collector.py, monitor/traffic.py: as long as no tick pulls with a cursor that another
\* one has moved, no request is counted twice, for any sizes of the log, of a chunk and of the
\* scan, and any number of rotations, ticks, failures and kills.
THEOREM CollectTheorem == Spec => []CountedOnce
<1>1. CollectAll => CountedOnce
  BY DEF CollectAll, CountedOnce, Collect!CursorCovers, Collect!CountedOnce
<1> QED BY <1>1, CollectInvariant, PTL

---------------------------------------------------------------------------
(* The attack playbook and the scaler *)

\* The playbook, the scaler and the operator keep the types, the hold and the row.
LEMMA AttackNext ==
    /\ AttackGate!TypeOK /\ AttackGate!HeldBack /\ AttackGate!UnderAttackIsTracked
    /\ [AttackGate!Next]_attackGateState
    => /\ AttackGate!TypeOK' /\ AttackGate!HeldBack' /\ AttackGate!UnderAttackIsTracked'
<1> SUFFICES ASSUME AttackGate!TypeOK, AttackGate!HeldBack, AttackGate!UnderAttackIsTracked,
        [AttackGate!Next]_attackGateState
             PROVE  /\ AttackGate!TypeOK' /\ AttackGate!HeldBack'
                    /\ AttackGate!UnderAttackIsTracked'
  OBVIOUS
<1>1. ASSUME NEW s \in ZoneSites, NEW z \in {"none", "calm", "warm", "hot"},
             AttackGate!Traffic(s, z)
      PROVE  /\ AttackGate!TypeOK' /\ AttackGate!HeldBack' /\ AttackGate!UnderAttackIsTracked'
  <2>1. /\ score' = [score EXCEPT ![s] = z]
        /\ UNCHANGED <<edgeLevel, edgeRef, engaged, cheap, proposal, home, evaluating, evals,
            seen, torn>>
    BY <1>1, Zenon DEF AttackGate!Traffic, AttackGate!ScalerSide
  <2>2. AttackGate!TypeOK'
    BY <2>1 DEF AttackGate!TypeOK, AttackGate!HeldBack, AttackGate!Row, AttackGate!Raised,
       AttackGate!Live, AttackGate!Pending, AttackGate!OverflowHome
  <2>3. AttackGate!HeldBack'
    BY <2>1, <2>2 DEF AttackGate!TypeOK, AttackGate!HeldBack, AttackGate!Row,
       AttackGate!Raised, AttackGate!Live, AttackGate!Pending, AttackGate!OverflowHome
  <2>4. AttackGate!UnderAttackIsTracked'
    BY <2>1, <2>2 DEF AttackGate!TypeOK, AttackGate!HeldBack, AttackGate!Row,
       AttackGate!Raised, AttackGate!Live, AttackGate!Pending, AttackGate!OverflowHome,
       AttackGate!UnderAttackIsTracked
  <2> QED BY <2>2, <2>3, <2>4
<1>2. ASSUME NEW s \in ZoneSites, AttackGate!Engage(s)
      PROVE  /\ AttackGate!TypeOK' /\ AttackGate!HeldBack' /\ AttackGate!UnderAttackIsTracked'
  <2>1. CASE edgeRef /\ AttackGate!Live(engaged)
    <3>1. /\ edgeLevel' = "under_attack"
          /\ engaged' = AttackGate!Raised(engaged)
          /\ seen' = seen
          /\ UNCHANGED <<score, edgeRef, cheap, proposal, home, evaluating, evals, torn>>
      BY <1>2, <2>1, Zenon DEF AttackGate!Engage, AttackGate!ScalerSide
    <3>2. AttackGate!TypeOK'
      BY <3>1, <2>1 DEF AttackGate!TypeOK, AttackGate!HeldBack, AttackGate!Row,
         AttackGate!Raised, AttackGate!Live, AttackGate!Pending, AttackGate!OverflowHome
    <3>3. AttackGate!HeldBack'
      BY <3>1, <2>1, <3>2 DEF AttackGate!TypeOK, AttackGate!HeldBack, AttackGate!Row,
         AttackGate!Raised, AttackGate!Live, AttackGate!Pending, AttackGate!OverflowHome
    <3>4. AttackGate!UnderAttackIsTracked'
      BY <3>1, <2>1, <3>2 DEF AttackGate!TypeOK, AttackGate!HeldBack, AttackGate!Row,
         AttackGate!Raised, AttackGate!Live, AttackGate!Pending, AttackGate!OverflowHome,
         AttackGate!UnderAttackIsTracked
    <3> QED BY <3>2, <3>3, <3>4
  <2>2. CASE edgeRef /\ ~AttackGate!Live(engaged)
    <3>1. /\ edgeLevel' = "under_attack"
          /\ engaged' = AttackGate!Raised(engaged)
          /\ seen' = {}
          /\ UNCHANGED <<score, edgeRef, cheap, proposal, home, evaluating, evals, torn>>
      BY <1>2, <2>2, Zenon DEF AttackGate!Engage, AttackGate!ScalerSide
    <3>2. AttackGate!TypeOK'
      BY <3>1, <2>2 DEF AttackGate!TypeOK, AttackGate!HeldBack, AttackGate!Row,
         AttackGate!Raised, AttackGate!Live, AttackGate!Pending, AttackGate!OverflowHome
    <3>3. AttackGate!HeldBack'
      BY <3>1, <2>2, <3>2 DEF AttackGate!TypeOK, AttackGate!HeldBack, AttackGate!Row,
         AttackGate!Raised, AttackGate!Live, AttackGate!Pending, AttackGate!OverflowHome
    <3>4. AttackGate!UnderAttackIsTracked'
      BY <3>1, <2>2, <3>2 DEF AttackGate!TypeOK, AttackGate!HeldBack, AttackGate!Row,
         AttackGate!Raised, AttackGate!Live, AttackGate!Pending, AttackGate!OverflowHome,
         AttackGate!UnderAttackIsTracked
    <3> QED BY <3>2, <3>3, <3>4
  <2>3. CASE ~edgeRef /\ AttackGate!Live(engaged)
    <3>1. /\ edgeLevel' = edgeLevel
          /\ engaged' = AttackGate!Raised(engaged)
          /\ seen' = seen
          /\ UNCHANGED <<score, edgeRef, cheap, proposal, home, evaluating, evals, torn>>
      BY <1>2, <2>3, Zenon DEF AttackGate!Engage, AttackGate!ScalerSide
    <3>2. AttackGate!TypeOK'
      BY <3>1, <2>3 DEF AttackGate!TypeOK, AttackGate!HeldBack, AttackGate!Row,
         AttackGate!Raised, AttackGate!Live, AttackGate!Pending, AttackGate!OverflowHome
    <3>3. AttackGate!HeldBack'
      BY <3>1, <2>3, <3>2 DEF AttackGate!TypeOK, AttackGate!HeldBack, AttackGate!Row,
         AttackGate!Raised, AttackGate!Live, AttackGate!Pending, AttackGate!OverflowHome
    <3>4. AttackGate!UnderAttackIsTracked'
      BY <3>1, <2>3, <3>2 DEF AttackGate!TypeOK, AttackGate!HeldBack, AttackGate!Row,
         AttackGate!Raised, AttackGate!Live, AttackGate!Pending, AttackGate!OverflowHome,
         AttackGate!UnderAttackIsTracked
    <3> QED BY <3>2, <3>3, <3>4
  <2>4. CASE ~edgeRef /\ ~AttackGate!Live(engaged)
    <3>1. /\ edgeLevel' = edgeLevel
          /\ engaged' = AttackGate!Raised(engaged)
          /\ seen' = {}
          /\ UNCHANGED <<score, edgeRef, cheap, proposal, home, evaluating, evals, torn>>
      BY <1>2, <2>4, Zenon DEF AttackGate!Engage, AttackGate!ScalerSide
    <3>2. AttackGate!TypeOK'
      BY <3>1, <2>4 DEF AttackGate!TypeOK, AttackGate!HeldBack, AttackGate!Row,
         AttackGate!Raised, AttackGate!Live, AttackGate!Pending, AttackGate!OverflowHome
    <3>3. AttackGate!HeldBack'
      BY <3>1, <2>4, <3>2 DEF AttackGate!TypeOK, AttackGate!HeldBack, AttackGate!Row,
         AttackGate!Raised, AttackGate!Live, AttackGate!Pending, AttackGate!OverflowHome
    <3>4. AttackGate!UnderAttackIsTracked'
      BY <3>1, <2>4, <3>2 DEF AttackGate!TypeOK, AttackGate!HeldBack, AttackGate!Row,
         AttackGate!Raised, AttackGate!Live, AttackGate!Pending, AttackGate!OverflowHome,
         AttackGate!UnderAttackIsTracked
    <3> QED BY <3>2, <3>3, <3>4
  <2> QED BY <2>1, <2>2, <2>3, <2>4
<1>3. ASSUME NEW s \in ZoneSites, AttackGate!Relax(s)
      PROVE  /\ AttackGate!TypeOK' /\ AttackGate!HeldBack' /\ AttackGate!UnderAttackIsTracked'
  <2>1. CASE edgeRef
    <3>1. /\ edgeLevel' = "medium"
          /\ engaged' = "resolved"
          /\ torn' = (torn \/ (~edgeRef /\ edgeLevel = "under_attack"))
          /\ UNCHANGED <<score, edgeRef, cheap, proposal, home, evaluating, evals, seen>>
      BY <1>3, <2>1, Zenon DEF AttackGate!Relax, AttackGate!ScalerSide
    <3>2. AttackGate!TypeOK'
      BY <3>1, <2>1 DEF AttackGate!TypeOK, AttackGate!HeldBack, AttackGate!Row,
         AttackGate!Raised, AttackGate!Live, AttackGate!Pending, AttackGate!OverflowHome
    <3>3. AttackGate!HeldBack'
      BY <3>1, <2>1, <3>2 DEF AttackGate!TypeOK, AttackGate!HeldBack, AttackGate!Row,
         AttackGate!Raised, AttackGate!Live, AttackGate!Pending, AttackGate!OverflowHome
    <3>4. AttackGate!UnderAttackIsTracked'
      BY <3>1, <2>1, <3>2 DEF AttackGate!TypeOK, AttackGate!HeldBack, AttackGate!Row,
         AttackGate!Raised, AttackGate!Live, AttackGate!Pending, AttackGate!OverflowHome,
         AttackGate!UnderAttackIsTracked
    <3> QED BY <3>2, <3>3, <3>4
  <2>2. CASE ~edgeRef
    <3>1. /\ edgeLevel' = edgeLevel
          /\ engaged' = "resolved"
          /\ torn' = (torn \/ edgeLevel = "under_attack")
          /\ UNCHANGED <<score, edgeRef, cheap, proposal, home, evaluating, evals, seen>>
      BY <1>3, <2>2, Zenon DEF AttackGate!Relax, AttackGate!ScalerSide
    <3>2. AttackGate!TypeOK'
      BY <3>1, <2>2 DEF AttackGate!TypeOK, AttackGate!HeldBack, AttackGate!Row,
         AttackGate!Raised, AttackGate!Live, AttackGate!Pending, AttackGate!OverflowHome
    <3>3. AttackGate!HeldBack'
      BY <3>1, <2>2, <3>2 DEF AttackGate!TypeOK, AttackGate!HeldBack, AttackGate!Row,
         AttackGate!Raised, AttackGate!Live, AttackGate!Pending, AttackGate!OverflowHome
    <3>4. AttackGate!UnderAttackIsTracked'
      BY <3>1, <2>2, <3>2 DEF AttackGate!TypeOK, AttackGate!HeldBack, AttackGate!Row,
         AttackGate!Raised, AttackGate!Live, AttackGate!Pending, AttackGate!OverflowHome,
         AttackGate!UnderAttackIsTracked
    <3> QED BY <3>2, <3>3, <3>4
  <2> QED BY <2>1, <2>2
<1>4. ASSUME NEW s \in ZoneSites, AttackGate!EvalRefused(s)
      PROVE  /\ AttackGate!TypeOK' /\ AttackGate!HeldBack' /\ AttackGate!UnderAttackIsTracked'
  <2>1. /\ ~evaluating[s]
        /\ seen' = seen \cup {s}
        /\ UNCHANGED <<score, edgeLevel, edgeRef, engaged, evaluating, torn>>
        /\ cheap' = [cheap EXCEPT ![s] = IF AttackGate!Pending(cheap[s]) THEN "resolved" ELSE cheap[s]]
        /\ proposal' = [proposal EXCEPT ![s] = IF AttackGate!Pending(proposal[s]) THEN "resolved" ELSE proposal[s]]
        /\ home' = home
    BY <1>4, Zenon DEF AttackGate!EvalRefused, AttackGate!Retract, AttackGate!RefuseIfAttack
  <2>2. AttackGate!TypeOK'
    BY <2>1 DEF AttackGate!TypeOK, AttackGate!HeldBack, AttackGate!Row, AttackGate!Raised,
       AttackGate!Live, AttackGate!Pending, AttackGate!OverflowHome
  <2>3. AttackGate!HeldBack'
    BY <2>1, <2>2 DEF AttackGate!TypeOK, AttackGate!HeldBack, AttackGate!Row,
       AttackGate!Raised, AttackGate!Live, AttackGate!Pending, AttackGate!OverflowHome
  <2>4. AttackGate!UnderAttackIsTracked'
    BY <2>1, <2>2 DEF AttackGate!TypeOK, AttackGate!HeldBack, AttackGate!Row,
       AttackGate!Raised, AttackGate!Live, AttackGate!Pending, AttackGate!OverflowHome,
       AttackGate!UnderAttackIsTracked
  <2> QED BY <2>2, <2>3, <2>4
<1>5. ASSUME NEW s \in ZoneSites, AttackGate!EvalStarts(s)
      PROVE  /\ AttackGate!TypeOK' /\ AttackGate!HeldBack' /\ AttackGate!UnderAttackIsTracked'
  <2>1. /\ ~AttackGate!Live(engaged)
        /\ evaluating' = [evaluating EXCEPT ![s] = TRUE]
        /\ seen' = seen
        /\ UNCHANGED <<score, edgeLevel, edgeRef, engaged, cheap, proposal, home, torn>>
    BY <1>5, Zenon DEF AttackGate!EvalStarts, AttackGate!RefuseIfAttack
  <2>2. AttackGate!TypeOK'
    BY <2>1 DEF AttackGate!TypeOK, AttackGate!HeldBack, AttackGate!Row, AttackGate!Raised,
       AttackGate!Live, AttackGate!Pending, AttackGate!OverflowHome
  <2>3. AttackGate!HeldBack'
    BY <2>1, <2>2 DEF AttackGate!TypeOK, AttackGate!HeldBack, AttackGate!Row,
       AttackGate!Raised, AttackGate!Live, AttackGate!Pending, AttackGate!OverflowHome
  <2>4. AttackGate!UnderAttackIsTracked'
    BY <2>1, <2>2 DEF AttackGate!TypeOK, AttackGate!HeldBack, AttackGate!Row,
       AttackGate!Raised, AttackGate!Live, AttackGate!Pending, AttackGate!OverflowHome,
       AttackGate!UnderAttackIsTracked
  <2> QED BY <2>2, <2>3, <2>4
<1>6. ASSUME NEW s \in ZoneSites, NEW b \in BOOLEAN, AttackGate!EngageFails(s, b)
      PROVE  /\ AttackGate!TypeOK' /\ AttackGate!HeldBack' /\ AttackGate!UnderAttackIsTracked'
  <2>1. CASE b
    <3>1. /\ torn' = TRUE
          /\ edgeLevel' = "under_attack"
          /\ UNCHANGED <<score, edgeRef, engaged, cheap, proposal, home, evaluating, evals,
              seen>>
      BY <1>6, <2>1, Zenon DEF AttackGate!EngageFails, AttackGate!ScalerSide
    <3>2. AttackGate!TypeOK'
      BY <3>1, <2>1 DEF AttackGate!TypeOK, AttackGate!HeldBack, AttackGate!Row,
         AttackGate!Raised, AttackGate!Live, AttackGate!Pending, AttackGate!OverflowHome
    <3>3. AttackGate!HeldBack'
      BY <3>1, <2>1, <3>2 DEF AttackGate!TypeOK, AttackGate!HeldBack, AttackGate!Row,
         AttackGate!Raised, AttackGate!Live, AttackGate!Pending, AttackGate!OverflowHome
    <3>4. AttackGate!UnderAttackIsTracked'
      BY <3>1, <2>1, <3>2 DEF AttackGate!TypeOK, AttackGate!HeldBack, AttackGate!Row,
         AttackGate!Raised, AttackGate!Live, AttackGate!Pending, AttackGate!OverflowHome,
         AttackGate!UnderAttackIsTracked
    <3> QED BY <3>2, <3>3, <3>4
  <2>2. CASE ~b
    <3>1. /\ torn' = TRUE
          /\ edgeLevel' = edgeLevel
          /\ UNCHANGED <<score, edgeRef, engaged, cheap, proposal, home, evaluating, evals,
              seen>>
      BY <1>6, <2>2, Zenon DEF AttackGate!EngageFails, AttackGate!ScalerSide
    <3>2. AttackGate!TypeOK'
      BY <3>1, <2>2 DEF AttackGate!TypeOK, AttackGate!HeldBack, AttackGate!Row,
         AttackGate!Raised, AttackGate!Live, AttackGate!Pending, AttackGate!OverflowHome
    <3>3. AttackGate!HeldBack'
      BY <3>1, <2>2, <3>2 DEF AttackGate!TypeOK, AttackGate!HeldBack, AttackGate!Row,
         AttackGate!Raised, AttackGate!Live, AttackGate!Pending, AttackGate!OverflowHome
    <3>4. AttackGate!UnderAttackIsTracked'
      BY <3>1, <2>2, <3>2 DEF AttackGate!TypeOK, AttackGate!HeldBack, AttackGate!Row,
         AttackGate!Raised, AttackGate!Live, AttackGate!Pending, AttackGate!OverflowHome,
         AttackGate!UnderAttackIsTracked
    <3> QED BY <3>2, <3>3, <3>4
  <2> QED BY <2>1, <2>2
<1>7. ASSUME NEW s \in ZoneSites, NEW axis, AttackGate!Evaluate(s, axis)
      PROVE  /\ AttackGate!TypeOK' /\ AttackGate!HeldBack' /\ AttackGate!UnderAttackIsTracked'
  <2>1. CASE axis = "none"
    <3>1. /\ evaluating[s]
          /\ evaluating' = [evaluating EXCEPT ![s] = FALSE]
          /\ UNCHANGED <<score, edgeLevel, edgeRef, engaged, edgeFaults, clicks, traffic,
              evals, seen, torn>>
          /\ cheap' = [cheap EXCEPT ![s] = IF AttackGate!Pending(cheap[s]) THEN "resolved" ELSE cheap[s]]
          /\ proposal' = [proposal EXCEPT ![s] = IF AttackGate!Pending(proposal[s]) THEN "resolved" ELSE proposal[s]]
          /\ home' = home
      BY <1>7, <2>1, Zenon DEF AttackGate!Evaluate, AttackGate!Retract
    <3>2. AttackGate!TypeOK'
      BY <3>1, <2>1 DEF AttackGate!TypeOK, AttackGate!HeldBack, AttackGate!Row,
         AttackGate!Raised, AttackGate!Live, AttackGate!Pending, AttackGate!OverflowHome
    <3>3. AttackGate!HeldBack'
      BY <3>1, <2>1, <3>2 DEF AttackGate!TypeOK, AttackGate!HeldBack, AttackGate!Row,
         AttackGate!Raised, AttackGate!Live, AttackGate!Pending, AttackGate!OverflowHome
    <3>4. AttackGate!UnderAttackIsTracked'
      BY <3>1, <2>1, <3>2 DEF AttackGate!TypeOK, AttackGate!HeldBack, AttackGate!Row,
         AttackGate!Raised, AttackGate!Live, AttackGate!Pending, AttackGate!OverflowHome,
         AttackGate!UnderAttackIsTracked
    <3> QED BY <3>2, <3>3, <3>4
  <2>2. CASE axis # "none" /\ cheap[s] \in {"none", "resolved"}
    <3>1. /\ evaluating[s]
          /\ evaluating' = [evaluating EXCEPT ![s] = FALSE]
          /\ UNCHANGED <<score, edgeLevel, edgeRef, engaged, edgeFaults, clicks, traffic,
              evals, seen, torn>>
          /\ cheap' = [cheap EXCEPT ![s] = "open"]
          /\ UNCHANGED <<proposal, home>>
      BY <1>7, <2>2, Zenon DEF AttackGate!Evaluate, AttackGate!Retract
    <3>2. AttackGate!TypeOK'
      BY <3>1, <2>2 DEF AttackGate!TypeOK, AttackGate!HeldBack, AttackGate!Row,
         AttackGate!Raised, AttackGate!Live, AttackGate!Pending, AttackGate!OverflowHome
    <3>3. AttackGate!HeldBack'
      BY <3>1, <2>2, <3>2 DEF AttackGate!TypeOK, AttackGate!HeldBack, AttackGate!Row,
         AttackGate!Raised, AttackGate!Live, AttackGate!Pending, AttackGate!OverflowHome
    <3>4. AttackGate!UnderAttackIsTracked'
      BY <3>1, <2>2, <3>2 DEF AttackGate!TypeOK, AttackGate!HeldBack, AttackGate!Row,
         AttackGate!Raised, AttackGate!Live, AttackGate!Pending, AttackGate!OverflowHome,
         AttackGate!UnderAttackIsTracked
    <3> QED BY <3>2, <3>3, <3>4
  <2>3. CASE /\ axis # "none" /\ cheap[s] \notin {"none", "resolved"}
             /\ AttackGate!Pending(cheap[s])
    <3>1. /\ evaluating[s]
          /\ evaluating' = [evaluating EXCEPT ![s] = FALSE]
          /\ UNCHANGED <<score, edgeLevel, edgeRef, engaged, edgeFaults, clicks, traffic,
              evals, seen, torn>>
          /\ UNCHANGED <<cheap, proposal, home>>
      BY <1>7, <2>3, Zenon DEF AttackGate!Evaluate, AttackGate!Retract
    <3>2. AttackGate!TypeOK'
      BY <3>1, <2>3 DEF AttackGate!TypeOK, AttackGate!HeldBack, AttackGate!Row,
         AttackGate!Raised, AttackGate!Live, AttackGate!Pending, AttackGate!OverflowHome
    <3>3. AttackGate!HeldBack'
      BY <3>1, <2>3, <3>2 DEF AttackGate!TypeOK, AttackGate!HeldBack, AttackGate!Row,
         AttackGate!Raised, AttackGate!Live, AttackGate!Pending, AttackGate!OverflowHome
    <3>4. AttackGate!UnderAttackIsTracked'
      BY <3>1, <2>3, <3>2 DEF AttackGate!TypeOK, AttackGate!HeldBack, AttackGate!Row,
         AttackGate!Raised, AttackGate!Live, AttackGate!Pending, AttackGate!OverflowHome,
         AttackGate!UnderAttackIsTracked
    <3> QED BY <3>2, <3>3, <3>4
  <2>4. CASE /\ axis # "none" /\ cheap[s] \notin {"none", "resolved"}
             /\ ~AttackGate!Pending(cheap[s])
    <3>1. /\ evaluating[s]
          /\ evaluating' = [evaluating EXCEPT ![s] = FALSE]
          /\ UNCHANGED <<score, edgeLevel, edgeRef, engaged, edgeFaults, clicks, traffic,
              evals, seen, torn>>
          /\ proposal' = [proposal EXCEPT ![s] = AttackGate!Raised(proposal[s])]
          /\ home' = [home EXCEPT ![s] = AttackGate!OverflowHome(s)]
          /\ UNCHANGED <<cheap>>
      BY <1>7, <2>4, Zenon DEF AttackGate!Evaluate, AttackGate!Retract
    <3>2. AttackGate!TypeOK'
      BY <3>1, <2>4 DEF AttackGate!TypeOK, AttackGate!HeldBack, AttackGate!Row,
         AttackGate!Raised, AttackGate!Live, AttackGate!Pending, AttackGate!OverflowHome
    <3>3. AttackGate!HeldBack'
      BY <3>1, <2>4, <3>2 DEF AttackGate!TypeOK, AttackGate!HeldBack, AttackGate!Row,
         AttackGate!Raised, AttackGate!Live, AttackGate!Pending, AttackGate!OverflowHome
    <3>4. AttackGate!UnderAttackIsTracked'
      BY <3>1, <2>4, <3>2 DEF AttackGate!TypeOK, AttackGate!HeldBack, AttackGate!Row,
         AttackGate!Raised, AttackGate!Live, AttackGate!Pending, AttackGate!OverflowHome,
         AttackGate!UnderAttackIsTracked
    <3> QED BY <3>2, <3>3, <3>4
  <2> QED BY <2>1, <2>2, <2>3, <2>4
<1>8. ASSUME NEW s \in ZoneSites, NEW to \in {"acked", "accepted", "resolved"},
             AttackGate!ClickCheap(s, to)
      PROVE  /\ AttackGate!TypeOK' /\ AttackGate!HeldBack' /\ AttackGate!UnderAttackIsTracked'
  <2>1. /\ AttackGate!Pending(cheap[s])
        /\ cheap' = [cheap EXCEPT ![s] = to]
        /\ UNCHANGED <<score, edgeLevel, edgeRef, engaged, proposal, home, evaluating, seen,
            torn>>
    BY <1>8, Zenon DEF AttackGate!ClickCheap, AttackGate!Click
  <2>2. AttackGate!TypeOK'
    BY <2>1 DEF AttackGate!TypeOK, AttackGate!HeldBack, AttackGate!Row, AttackGate!Raised,
       AttackGate!Live, AttackGate!Pending, AttackGate!OverflowHome
  <2>3. AttackGate!HeldBack'
    BY <2>1, <2>2 DEF AttackGate!TypeOK, AttackGate!HeldBack, AttackGate!Row,
       AttackGate!Raised, AttackGate!Live, AttackGate!Pending, AttackGate!OverflowHome
  <2>4. AttackGate!UnderAttackIsTracked'
    BY <2>1, <2>2 DEF AttackGate!TypeOK, AttackGate!HeldBack, AttackGate!Row,
       AttackGate!Raised, AttackGate!Live, AttackGate!Pending, AttackGate!OverflowHome,
       AttackGate!UnderAttackIsTracked
  <2> QED BY <2>2, <2>3, <2>4
<1>9. ASSUME NEW to \in {"acked", "accepted", "resolved"}, AttackGate!ClickEngaged(to)
      PROVE  /\ AttackGate!TypeOK' /\ AttackGate!HeldBack' /\ AttackGate!UnderAttackIsTracked'
  <2>1. /\ AttackGate!Pending(engaged)
        /\ engaged' = to
        /\ torn' = (torn \/ to = "resolved")
        /\ UNCHANGED <<score, edgeLevel, edgeRef, cheap, proposal, home, evaluating, evals,
            seen>>
    BY <1>9, Zenon DEF AttackGate!ClickEngaged, AttackGate!Click, AttackGate!ScalerSide
  <2>2. AttackGate!TypeOK'
    BY <2>1 DEF AttackGate!TypeOK, AttackGate!HeldBack, AttackGate!Row, AttackGate!Raised,
       AttackGate!Live, AttackGate!Pending, AttackGate!OverflowHome
  <2>3. AttackGate!HeldBack'
    BY <2>1, <2>2 DEF AttackGate!TypeOK, AttackGate!HeldBack, AttackGate!Row,
       AttackGate!Raised, AttackGate!Live, AttackGate!Pending, AttackGate!OverflowHome
  <2>4. AttackGate!UnderAttackIsTracked'
    BY <2>1, <2>2 DEF AttackGate!TypeOK, AttackGate!HeldBack, AttackGate!Row,
       AttackGate!Raised, AttackGate!Live, AttackGate!Pending, AttackGate!OverflowHome,
       AttackGate!UnderAttackIsTracked
  <2> QED BY <2>2, <2>3, <2>4
<1>10. ASSUME AttackGate!ToggleEdge
       PROVE  /\ AttackGate!TypeOK' /\ AttackGate!HeldBack' /\ AttackGate!UnderAttackIsTracked'
  <2>1. /\ edgeRef' = ~edgeRef
        /\ UNCHANGED <<score, edgeLevel, engaged, cheap, proposal, home, evaluating, evals,
            seen, torn>>
    BY <1>10, Zenon DEF AttackGate!ToggleEdge, AttackGate!ScalerSide
  <2>2. AttackGate!TypeOK'
    BY <2>1 DEF AttackGate!TypeOK, AttackGate!HeldBack, AttackGate!Row, AttackGate!Raised,
       AttackGate!Live, AttackGate!Pending, AttackGate!OverflowHome
  <2>3. AttackGate!HeldBack'
    BY <2>1, <2>2 DEF AttackGate!TypeOK, AttackGate!HeldBack, AttackGate!Row,
       AttackGate!Raised, AttackGate!Live, AttackGate!Pending, AttackGate!OverflowHome
  <2>4. AttackGate!UnderAttackIsTracked'
    BY <2>1, <2>2 DEF AttackGate!TypeOK, AttackGate!HeldBack, AttackGate!Row,
       AttackGate!Raised, AttackGate!Live, AttackGate!Pending, AttackGate!OverflowHome,
       AttackGate!UnderAttackIsTracked
  <2> QED BY <2>2, <2>3, <2>4
<1>11. CASE UNCHANGED attackGateState
  BY <1>11 DEF attackGateState, AttackGate!TypeOK, AttackGate!HeldBack, AttackGate!Row,
     AttackGate!Raised, AttackGate!Live, AttackGate!Pending, AttackGate!OverflowHome,
     AttackGate!UnderAttackIsTracked
<1> QED
  BY <1>1, <1>2, <1>3, <1>4, <1>5, <1>6, <1>7, <1>8, <1>9, <1>10, <1>11 DEF AttackGate!Next

\* The hold, wherever the attack playbook is what moves.
AttackAll == focus = "attackGate" => AttackGate!TypeOK /\ AttackGate!HeldBack
    /\ AttackGate!UnderAttackIsTracked

\* The composition keeps the invariant of the attack playbook.
LEMMA AttackInvariant == Spec => []AttackAll
<1>1. Init => AttackAll
  <2> SUFFICES ASSUME AttackGate!Init
               PROVE  /\ AttackGate!TypeOK /\ AttackGate!HeldBack
                      /\ AttackGate!UnderAttackIsTracked
    BY DEF Init, AttackGateStarts, AttackAll
  <2>1. AttackGate!TypeOK
    BY  DEF AttackGate!Init, AttackGate!TypeOK, AttackGate!HeldBack,
       AttackGate!UnderAttackIsTracked, AttackGate!Row, AttackGate!Live
  <2>2. AttackGate!HeldBack
    BY  DEF AttackGate!Init, AttackGate!TypeOK, AttackGate!HeldBack,
       AttackGate!UnderAttackIsTracked, AttackGate!Row, AttackGate!Live
  <2>3. AttackGate!UnderAttackIsTracked
    BY  DEF AttackGate!Init, AttackGate!TypeOK, AttackGate!HeldBack,
       AttackGate!UnderAttackIsTracked, AttackGate!Row, AttackGate!Live
  <2> QED BY <2>1, <2>2, <2>3
<1>2. AttackAll /\ [Next]_allVars => AttackAll'
  <2> SUFFICES ASSUME AttackAll, [Next]_allVars, focus = "attackGate"
               PROVE  /\ AttackGate!TypeOK' /\ AttackGate!HeldBack'
                      /\ AttackGate!UnderAttackIsTracked'
    BY OneAtATime DEF AttackAll
  <2>1. /\ AttackGate!TypeOK /\ AttackGate!HeldBack /\ AttackGate!UnderAttackIsTracked
        /\ [AttackGate!Next]_attackGateState
    BY OneAtATime DEF AttackAll
  <2> QED BY <2>1, AttackNext
<1> QED BY <1>1, <1>2, PTL DEF Spec

\* monitor/attack_playbook.py, scaling/evaluator.py: a site evaluated after the engagement has no
\* scaling row pending while the attack lasts, and Under-Attack at the edge has its row,
\* for any sites of the zone, any machines and any number of clicks, faults and minutes.
THEOREM AttackTheorem == Spec => []AttackHandled
<1>1. AttackAll => AttackHandled
  BY DEF AttackAll, AttackHandled, AttackGate!HeldBack, AttackGate!NoScaleUnderAttack,
     AttackGate!TypeOK
<1> QED BY <1>1, AttackInvariant, PTL

-----------------------------------------------------------------------------
(* The DNS zones *)

\* The rows, the account, the clients, the caches and the plants, as one invariant.
ZonesVault ==
    /\ Zones!ZoneTypes /\ Zones!RefsApart /\ Zones!AccountInv /\ Zones!PassInv
    /\ Zones!PlantInv /\ Zones!PlantedIsKept

\* A process stays, stops, begins to connect, or goes on with the client it has.
Calm(q) ==
    \/ agent'[q] = agent[q]
    \/ agent'[q].at = "idle"
    \/ agent'[q].at = "observed" /\ agent'[q].token \in Tokens
    \/ /\ agent[q].at \in Zones!Calling /\ agent'[q].at \in Zones!Calling \ {"probing"}
       /\ agent'[q].role = agent[q].role /\ agent'[q].row = agent[q].row

\* A process keeps its cache and its passes, or loses both.
CacheKept(q) ==
    \/ verified'[q] = verified[q] /\ probed'[q] = probed[q]
    \/ verified'[q] = {} /\ probed'[q] = {}

\* Such steps, which leave the vault and the account alone, keep the invariant.
LEMMA VaultFrame ==
    ASSUME ZonesVault, UNCHANGED <<tokenRows, dnsAccount, refs, plantFile, planted, plantRaced>>,
           dnsClock' \in Nat, dnsClock' >= dnsClock,
           agent' = [p \in DnsAgents |-> agent'[p]],
           verified' = [p \in DnsAgents |-> verified'[p]],
           probed' = [p \in DnsAgents |-> probed'[p]],
           \A q \in DnsAgents : Calm(q) /\ CacheKept(q)
    PROVE  ZonesVault'
<1>0. /\ Zones!ZoneTypes /\ Zones!RefsApart /\ Zones!AccountInv /\ Zones!PassInv
      /\ Zones!PlantInv /\ Zones!PlantedIsKept
  BY DEF ZonesVault
<1>1. \A q \in DnsAgents :
        /\ agent'[q].at = "stored" => agent'[q] = agent[q]
        /\ agent'[q].at \in Zones!PlantPlaces => agent'[q] = agent[q]
        /\ agent'[q].at = "probing" => agent'[q] = agent[q]
        /\ agent'[q].at \in Zones!Calling =>
             /\ agent[q].at \in Zones!Calling
             /\ agent'[q].role = agent[q].role /\ agent'[q].row = agent[q].row
  BY DEF Calm, Zones!PlantPlaces, Zones!Calling
<1>2. Zones!ZoneTypes'
  <2>1. \A q \in DnsAgents : Zones!Remembers(agent[q])'
    <3> SUFFICES ASSUME NEW q \in DnsAgents PROVE Zones!Remembers(agent[q])'
      OBVIOUS
    <3>1. Zones!Remembers(agent[q]) /\ Calm(q)
      BY <1>0 DEF Zones!ZoneTypes
    <3> QED BY <3>1 DEF Calm, Zones!Remembers, Zones!Calling, Zones!PlantPlaces, Zones!Places
  <2>2. /\ verified' \in [DnsAgents -> SUBSET [key : Zones!Roles \X Nat \X Nat, at : Nat]]
        /\ probed' \in [DnsAgents -> SUBSET [row : Nat, at : Nat]]
    BY <1>0 DEF CacheKept, Zones!ZoneTypes
  <2> QED BY <1>0, <2>1, <2>2 DEF Zones!ZoneTypes
<1>3. \A x : Zones!PlantOwn(x) => Zones!PlantOwn(x)'
  BY <1>1 DEF Zones!PlantOwn, Zones!Is
<1>4. Zones!RefsApart'
  <2>1. \A q \in DnsAgents : agent'[q].at = "stored" => Zones!ConnectOwn(q)'
    BY <1>0, <1>1 DEF Zones!RefsApart, Zones!ConnectOwn, Zones!Is
  <2>2. \A q \in DnsAgents : agent'[q].at \in Zones!PlantPlaces =>
            Zones!PlantOwn(agent[q].had)' /\ Zones!PlantOwn(agent[q].ref)'
    BY <1>0, <1>1, <1>3 DEF Zones!RefsApart
  <2>3. \A q \in DnsAgents : agent'[q].at \in Zones!Calling =>
            Zones!RowOf(agent[q].role, agent[q].row)'
    BY <1>0, <1>1, <1>3 DEF Zones!RefsApart, Zones!RowOf
  <2>4. \A q \in DnsAgents : agent'[q].at = "probing" =>
            agent'[q].key = Zones!CacheKey(agent[q].role, agent[q].row)'
    BY <1>0, <1>1 DEF Zones!RefsApart, Zones!CacheKey, Zones!Is
  <2> QED BY <1>0, <1>1, <1>3, <2>1, <2>2, <2>3, <2>4 DEF Zones!RefsApart, Zones!Is
<1>5. Zones!AccountInv'
  BY <1>0 DEF Zones!AccountInv, Calm, CacheKept, Zones!Calling
<1>6. Zones!PassInv'
  <2> SUFFICES ASSUME NEW q \in DnsAgents
               PROVE  /\ \A f \in probed'[q] : f.at <= dnsClock'
                      /\ \A e \in verified'[q] :
                          \E role \in Zones!Roles \ {"origin"}, k \in DOMAIN tokenRows :
                            /\ e.key = Zones!CacheKey(role, k)
                            /\ tokenRows[k].ref = dnsAccount.ref[role]
                            /\ e.at <= dnsClock' /\ \E f \in probed'[q] : f.row = k /\ f.at >= e.at
    BY DEF Zones!PassInv, Zones!CacheKey
  <2>1. CASE verified'[q] = {} /\ probed'[q] = {}
    BY <2>1
  <2>2. CASE verified'[q] = verified[q] /\ probed'[q] = probed[q]
    <3>1. dnsClock \in Nat /\ probed[q] \subseteq [row : Nat, at : Nat]
          /\ \A e \in verified[q] : e.at \in Nat
      BY <1>0 DEF Zones!ZoneTypes
    <3> QED BY <1>0, <2>2, <3>1 DEF Zones!PassInv
  <2> QED BY <2>1, <2>2 DEF CacheKept
<1>7. Zones!PlantInv'
  <2>1. Zones!Planting' \subseteq Zones!Planting /\ \A q \in Zones!Planting' : agent'[q] = agent[q]
    BY <1>1 DEF Zones!Planting, Zones!PlantPlaces
  <2> QED BY <1>0, <2>1 DEF Zones!PlantInv, Zones!PlantSound, Zones!InVault
<1>8. Zones!PlantedIsKept'
  BY <1>0 DEF Zones!PlantedIsKept, Zones!InVault
<1> QED BY <1>2, <1>4, <1>5, <1>6, <1>7, <1>8 DEF ZonesVault

\* An upsert on its way, and the records, are left alone by every other step.
LEMMA ServedFrame ==
    ASSUME Zones!ServedInv, UNCHANGED <<provider, records, recordIds>>,
           agent' = [p \in DnsAgents |-> agent'[p]],
           \A q \in DnsAgents : \/ agent'[q] = agent[q]
                                \/ agent'[q].at \notin {"ensure", "writing"}
                                \/ agent'[q].at = "ensure" /\ agent'[q].wish \in Wishes
    PROVE  Zones!ServedInv'
<1>1. \A q \in DnsAgents : agent'[q].at = "writing" => agent'[q] = agent[q]
  OBVIOUS
<1>2. ASSUME NEW q \in DnsAgents, agent'[q].at = "writing" PROVE Zones!Writing(q)'
  <2>1. Zones!Writing(q) /\ agent'[q] = agent[q]
    BY <1>1, <1>2 DEF Zones!ServedInv, Zones!Is
  <2>2. \A r \in DnsAgents : agent[r].at # "writing" => agent'[r].at # "writing"
    BY <1>1
  <2>3. Zones!HalfWritten(agent[q])' <=> Zones!HalfWritten(agent[q])
    BY <2>1 DEF Zones!HalfWritten
  <2>4. Zones!SameValues(records, agent[q].wish)' <=> Zones!SameValues(records, agent[q].wish)
    BY <2>1
  <2>5. Zones!Listed(agent[q].current)' <=> Zones!Listed(agent[q].current)
    BY <2>1
  <2> QED BY <2>1, <2>2, <2>3, <2>4, <2>5 DEF Zones!Writing, Zones!Is
<1>3. \A q \in DnsAgents : agent'[q].at = "ensure" => agent'[q].wish \in Wishes
  BY DEF Zones!ServedInv, Zones!Is
<1> QED BY <1>2, <1>3 DEF Zones!ServedInv, Zones!Is

\* What vault_service.put() adds.
LEMMA PutRow ==
    ASSUME Zones!ZoneTypes, NEW x \in Nat \ {0}, NEW t \in Tokens, Zones!Put(x, t)
    PROVE  /\ Len(tokenRows) + 1 \in Nat /\ Len(tokenRows) + 1 \notin DOMAIN tokenRows
           /\ DOMAIN tokenRows' = DOMAIN tokenRows \cup {Len(tokenRows) + 1}
           /\ tokenRows' \in Seq([ref : Nat \ {0}, token : Tokens, live : BOOLEAN])
           /\ \A k \in DOMAIN tokenRows : tokenRows'[k] = tokenRows[k]
           /\ tokenRows'[Len(tokenRows) + 1] = [ref |-> x, token |-> t, live |-> TRUE]
<1> DEFINE R == [ref : Nat \ {0}, token : Tokens, live : BOOLEAN]
           new == [ref |-> x, token |-> t, live |-> TRUE]
<1>1. tokenRows \in Seq(R) /\ tokenRows' = Append(tokenRows, new) /\ new \in R
  BY DEF Zones!ZoneTypes, Zones!Put
<1> HIDE DEF R, new
<1>2. /\ Len(tokenRows) + 1 \in Nat /\ Len(tokenRows) + 1 \notin DOMAIN tokenRows
      /\ DOMAIN tokenRows' = DOMAIN tokenRows \cup {Len(tokenRows) + 1}
      /\ tokenRows' \in Seq(R)
      /\ \A k \in DOMAIN tokenRows : tokenRows'[k] = tokenRows[k]
      /\ tokenRows'[Len(tokenRows) + 1] = new
  BY <1>1
<1> QED BY <1>2 DEF R, new

\* The bounds of the refs and rows that the processes know.
LEMMA VaultTypes ==
    ASSUME Zones!ZoneTypes
    PROVE  /\ \A k \in DOMAIN tokenRows : tokenRows[k].ref <= refs /\ tokenRows[k].ref \in Nat \ {0}
           /\ \A r \in Zones!Roles : dnsAccount.ref[r] <= refs /\ dnsAccount.ref[r] \in Nat
           /\ \A q \in DnsAgents : agent[q].at = "stored" => agent[q].row \in DOMAIN tokenRows
           /\ \A q \in DnsAgents : agent[q].at \in Zones!Calling => agent[q].row \in DOMAIN tokenRows
           /\ \A q \in DnsAgents : agent[q].at \in Zones!PlantPlaces =>
                agent[q].had \in 0..refs /\ agent[q].ref \in 0..refs
<1> DEFINE R == [ref : Nat \ {0}, token : Tokens, live : BOOLEAN]
<1>1. tokenRows \in Seq(R) /\ \A k \in DOMAIN tokenRows : tokenRows[k].ref <= refs
  BY DEF Zones!ZoneTypes
<1>2. \A k \in DOMAIN tokenRows : tokenRows[k] \in R
  <2> HIDE DEF R
  <2> QED BY <1>1
<1>3. \A q \in DnsAgents : Zones!Remembers(agent[q])
  BY DEF Zones!ZoneTypes
<1>4. \A q \in DnsAgents : agent[q].at \in Zones!PlantPlaces =>
          agent[q].had \in 0..refs /\ agent[q].ref \in 0..refs
  BY <1>3 DEF Zones!Remembers
<1>5. \A q \in DnsAgents : agent[q].at = "stored" \/ agent[q].at \in Zones!Calling =>
          agent[q].row \in DOMAIN tokenRows
  BY <1>3 DEF Zones!Remembers
<1>6. \A r \in Zones!Roles : dnsAccount.ref[r] <= refs /\ dnsAccount.ref[r] \in Nat
  BY DEF Zones!ZoneTypes
<1>7. \A k \in DOMAIN tokenRows : tokenRows[k].ref <= refs /\ tokenRows[k].ref \in Nat \ {0}
  BY <1>1, <1>2
<1> QED BY <1>4, <1>5, <1>6, <1>7

\* CloudflareConnectView puts its secret under a ref of its own.
LEMMA ConnectPutKeeps ==
    ASSUME ZonesVault, NEW p \in DnsAgents, Zones!ConnectPut(p) PROVE ZonesVault'
<1>0. /\ Zones!ZoneTypes /\ Zones!RefsApart /\ Zones!AccountInv /\ Zones!PassInv
      /\ Zones!PlantInv /\ Zones!PlantedIsKept
  BY DEF ZonesVault
<1> DEFINE n == Len(tokenRows) + 1
<1>1. /\ agent[p].at = "observed" /\ refs' = refs + 1
      /\ agent' = [agent EXCEPT ![p] = [at |-> "stored", row |-> n]]
      /\ UNCHANGED <<dnsAccount, plantFile, planted, plantRaced, verified, probed, dnsClock>>
  BY DEF Zones!ConnectPut, Zones!Is, Zones!Goes, Zones!trust
<1>2. refs \in Nat /\ agent[p].token \in Tokens
  BY <1>0, <1>1 DEF Zones!ZoneTypes, Zones!Remembers
<1>3. Zones!Put(refs + 1, agent[p].token)
  BY DEF Zones!ConnectPut
<1>4. /\ n \in Nat /\ n \notin DOMAIN tokenRows
      /\ DOMAIN tokenRows' = DOMAIN tokenRows \cup {n}
      /\ tokenRows' \in Seq([ref : Nat \ {0}, token : Tokens, live : BOOLEAN])
      /\ \A k \in DOMAIN tokenRows : tokenRows'[k] = tokenRows[k]
      /\ tokenRows'[n].ref = refs + 1 /\ tokenRows'[n].live
  <2>1. refs + 1 \in Nat \ {0}
    BY <1>2
  <2>2. /\ n \in Nat /\ n \notin DOMAIN tokenRows
        /\ DOMAIN tokenRows' = DOMAIN tokenRows \cup {n}
        /\ tokenRows' \in Seq([ref : Nat \ {0}, token : Tokens, live : BOOLEAN])
        /\ \A k \in DOMAIN tokenRows : tokenRows'[k] = tokenRows[k]
        /\ tokenRows'[n] = [ref |-> refs + 1, token |-> agent[p].token, live |-> TRUE]
    BY <1>0, <1>2, <1>3, <2>1, PutRow, Zenon
  <2> QED BY <2>2
<1> HIDE DEF n
<1>5. /\ agent'[p] = [at |-> "stored", row |-> n]
      /\ \A q \in DnsAgents : q # p => agent'[q] = agent[q]
      /\ agent' = [q \in DnsAgents |-> agent'[q]]
  BY <1>0, <1>1 DEF Zones!ZoneTypes
<1>a. /\ \A k \in DOMAIN tokenRows : tokenRows[k].ref <= refs /\ tokenRows[k].ref \in Nat \ {0}
      /\ \A r \in Zones!Roles : dnsAccount.ref[r] <= refs /\ dnsAccount.ref[r] \in Nat
      /\ \A q \in DnsAgents : agent[q].at = "stored" => agent[q].row \in DOMAIN tokenRows
      /\ \A q \in DnsAgents : agent[q].at \in Zones!Calling => agent[q].row \in DOMAIN tokenRows
      /\ \A q \in DnsAgents : agent[q].at \in Zones!PlantPlaces =>
           agent[q].had \in 0..refs /\ agent[q].ref \in 0..refs
  BY <1>0, VaultTypes
<1>b. \A x, t : Zones!InVault(x, t) => Zones!InVault(x, t)'
  BY <1>4 DEF Zones!InVault
<1>6. Zones!ZoneTypes'
  <2>1. \A q \in DnsAgents : Zones!Remembers(agent[q])'
    <3> SUFFICES ASSUME NEW q \in DnsAgents PROVE Zones!Remembers(agent[q])'
      OBVIOUS
    <3>1. CASE q = p
      BY <1>4, <1>5, <3>1 DEF Zones!Remembers, Zones!Places, Zones!Calling, Zones!PlantPlaces
    <3>2. CASE q # p
      <4>1. Zones!Remembers(agent[q])
        BY <1>0 DEF Zones!ZoneTypes
      <4> QED BY <1>1, <1>2, <1>4, <1>5, <3>2, <4>1 DEF Zones!Remembers
    <3> QED BY <3>1, <3>2
  <2>2. \A k \in DOMAIN tokenRows' : tokenRows'[k].ref <= refs'
    BY <1>1, <1>2, <1>4, <1>a
  <2>3. \A r \in Zones!Roles : dnsAccount'.ref[r] <= refs'
    BY <1>1, <1>2, <1>a
  <2> QED BY <1>0, <1>1, <1>2, <1>4, <1>5, <2>1, <2>2, <2>3 DEF Zones!ZoneTypes
<1>7. \A x \in 0..refs : Zones!PlantOwn(x) => Zones!PlantOwn(x)'
  BY <1>1, <1>2, <1>4, <1>5, <1>a DEF Zones!PlantOwn, Zones!Is
<1>8. Zones!RefsApart'
  <2>1. Zones!PlantOwn(dnsAccount.ref["origin"])'
    BY <1>0, <1>1, <1>2, <1>7, <1>a DEF Zones!RefsApart, Zones!Roles
  <2>2. ASSUME NEW q \in DnsAgents, agent'[q].at = "stored" PROVE Zones!ConnectOwn(q)'
    <3>1. CASE q = p
      BY <1>1, <1>2, <1>4, <1>5, <1>a, <3>1 DEF Zones!ConnectOwn, Zones!Is
    <3>2. CASE q # p
      <4>1. Zones!ConnectOwn(q) /\ agent[q].row \in DOMAIN tokenRows
        BY <1>0, <1>5, <1>a, <2>2, <3>2 DEF Zones!RefsApart, Zones!Is
      <4> QED BY <1>1, <1>2, <1>4, <1>5, <1>a, <3>2, <4>1 DEF Zones!ConnectOwn, Zones!Is
    <3> QED BY <3>1, <3>2
  <2>3. ASSUME NEW q \in DnsAgents, agent'[q].at \in Zones!PlantPlaces
        PROVE  Zones!PlantOwn(agent[q].had)' /\ Zones!PlantOwn(agent[q].ref)'
    <3>1. q # p /\ agent'[q] = agent[q]
      BY <1>5, <2>3 DEF Zones!PlantPlaces
    <3> QED BY <1>0, <1>7, <1>a, <2>3, <3>1 DEF Zones!RefsApart
  <2>4. ASSUME NEW q \in DnsAgents, agent'[q].at \in Zones!Calling
        PROVE  Zones!RowOf(agent[q].role, agent[q].row)' /\ (agent'[q].at = "probing" =>
                 agent'[q].key = Zones!CacheKey(agent[q].role, agent[q].row)')
    <3>1. q # p /\ agent'[q] = agent[q]
      BY <1>5, <2>4 DEF Zones!Calling
    <3>2. /\ Zones!RowOf(agent[q].role, agent[q].row) /\ agent[q].row \in DOMAIN tokenRows
          /\ agent[q].at = "probing" => agent[q].key = Zones!CacheKey(agent[q].role, agent[q].row)
      BY <1>0, <1>a, <2>4, <3>1 DEF Zones!RefsApart, Zones!Is
    <3>3. tokenRows'[agent[q].row] = tokenRows[agent[q].row]
          /\ tokenRows[agent[q].row].ref \in 0..refs
      BY <1>2, <1>4, <1>a, <3>2
    <3> QED BY <1>1, <1>7, <3>1, <3>2, <3>3 DEF Zones!RowOf, Zones!CacheKey
  <2> QED BY <1>0, <1>1, <2>1, <2>2, <2>3, <2>4 DEF Zones!RefsApart, Zones!Is, Zones!Calling
<1>9. Zones!AccountInv'
  BY <1>0, <1>1, <1>4, <1>5 DEF Zones!AccountInv
<1>10. Zones!PassInv'
  BY <1>0, <1>1, <1>4 DEF Zones!PassInv, Zones!CacheKey
<1>11. Zones!PlantInv'
  <2>1. Zones!Planting' = Zones!Planting /\ \A q \in Zones!Planting : agent'[q] = agent[q]
    BY <1>1, <1>5 DEF Zones!Planting
  <2> QED BY <1>0, <1>1, <1>b, <2>1 DEF Zones!PlantInv, Zones!PlantSound
<1>12. Zones!PlantedIsKept'
  BY <1>0, <1>1, <1>b DEF Zones!PlantedIsKept
<1> QED BY <1>6, <1>8, <1>9, <1>10, <1>11, <1>12 DEF ZonesVault

\* The transaction of both rows claims the zone with the request's ref, or the request takes
\* its secret back.
LEMMA ConnectRowsKeeps ==
    ASSUME ZonesVault, NEW p \in DnsAgents, Zones!ConnectRows(p) PROVE ZonesVault'
<1>0. /\ Zones!ZoneTypes /\ Zones!RefsApart /\ Zones!AccountInv /\ Zones!PassInv
      /\ Zones!PlantInv /\ Zones!PlantedIsKept
  BY DEF ZonesVault
<1> DEFINE k == agent[p].row
<1>1. /\ agent[p].at = "stored" /\ agent' = [agent EXCEPT ![p] = Zones!Idle]
      /\ UNCHANGED <<refs, plantFile, planted, plantRaced, verified, probed, dnsClock>>
      /\ \/ /\ ~dnsAccount.exists /\ tokenRows' = tokenRows
            /\ dnsAccount' = [dnsAccount EXCEPT !.exists = TRUE, !.ref["dns"] = tokenRows[k].ref]
         \/ tokenRows' = [tokenRows EXCEPT ![k].live = FALSE] /\ dnsAccount' = dnsAccount
  BY DEF Zones!ConnectRows, Zones!Is, Zones!Goes, Zones!trust
<1>2. /\ agent'[p].at = "idle" /\ \A q \in DnsAgents : q # p => agent'[q] = agent[q]
      /\ agent' = [q \in DnsAgents |-> agent'[q]]
  BY <1>0, <1>1 DEF Zones!ZoneTypes, Zones!Idle
<1>a. /\ \A j \in DOMAIN tokenRows : tokenRows[j].ref <= refs /\ tokenRows[j].ref \in Nat \ {0}
      /\ \A r \in Zones!Roles : dnsAccount.ref[r] <= refs /\ dnsAccount.ref[r] \in Nat
      /\ \A q \in DnsAgents : agent[q].at = "stored" => agent[q].row \in DOMAIN tokenRows
      /\ \A q \in DnsAgents : agent[q].at \in Zones!Calling => agent[q].row \in DOMAIN tokenRows
      /\ \A q \in DnsAgents : agent[q].at \in Zones!PlantPlaces =>
           agent[q].had \in 0..refs /\ agent[q].ref \in 0..refs
  BY <1>0, VaultTypes
<1>b. Zones!ConnectOwn(p) /\ k \in DOMAIN tokenRows
  BY <1>0, <1>1, <1>a DEF Zones!RefsApart, Zones!Is
<1>c. \A q \in DnsAgents : Zones!Remembers(agent[q])
  BY <1>0 DEF Zones!ZoneTypes
<1>d. /\ \A q \in DnsAgents : agent'[q].at = "stored" => q # p /\ agent'[q] = agent[q]
      /\ \A q \in DnsAgents : agent'[q].at \in Zones!PlantPlaces => q # p /\ agent'[q] = agent[q]
      /\ \A q \in DnsAgents : agent'[q].at \in Zones!Calling => q # p /\ agent'[q] = agent[q]
      /\ Zones!Planting' = Zones!Planting /\ p \notin Zones!Planting
  BY <1>1, <1>2 DEF Zones!PlantPlaces, Zones!Calling, Zones!Planting
<1>3. CASE /\ ~dnsAccount.exists /\ tokenRows' = tokenRows
           /\ dnsAccount' = [dnsAccount EXCEPT !.exists = TRUE, !.ref["dns"] = tokenRows[k].ref]
  <2> DEFINE x == tokenRows[k].ref
  <2>1. /\ dnsAccount'.exists = TRUE /\ dnsAccount'.ref["dns"] = x
        /\ dnsAccount'.ref["edge"] = 0 /\ dnsAccount'.ref["origin"] = 0
        /\ dnsAccount' \in [exists : BOOLEAN, ref : [Zones!Roles -> Nat]]
        /\ \A r \in Zones!Roles : dnsAccount'.ref[r] <= refs
    BY <1>0, <1>3, <1>a, <1>b DEF Zones!ZoneTypes, Zones!AccountInv, Zones!Roles
  <2>2. x \in Nat \ {0}
    BY <1>a, <1>b
  <2> HIDE DEF k
  <2>3. \A q \in DnsAgents : /\ agent[q].at \in {"idle", "observed", "stored"} /\ verified[q] = {}
                             /\ agent[q].at \notin Zones!PlantPlaces
                             /\ agent[q].at \notin Zones!Calling
    BY <1>0, <1>3 DEF Zones!AccountInv, Zones!PlantPlaces, Zones!Calling
  <2>4. Zones!ZoneTypes'
    <3>1. \A q \in DnsAgents : Zones!Remembers(agent[q])'
      BY <1>1, <1>2, <1>3, <1>c DEF Zones!Remembers, Zones!Places, Zones!PlantPlaces, Zones!Calling
    <3> QED BY <1>0, <1>1, <1>2, <1>3, <2>1, <3>1 DEF Zones!ZoneTypes
  <2>5. Zones!RefsApart'
    <3>1. ASSUME NEW q \in DnsAgents, agent'[q].at = "stored" PROVE Zones!ConnectOwn(q)'
      <4>1. q # p /\ agent'[q] = agent[q] /\ Zones!ConnectOwn(q) /\ agent[q].row # k
            /\ agent[q].row \in DOMAIN tokenRows
        BY <1>0, <1>a, <1>b, <1>d, <3>1 DEF Zones!RefsApart, Zones!Is, Zones!ConnectOwn, k
      <4>2. tokenRows[agent[q].row].ref # x
        BY <1>b, <4>1 DEF Zones!ConnectOwn, k
      <4>3. \A r \in Zones!Roles : dnsAccount'.ref[r] # tokenRows[agent[q].row].ref
        BY <1>a, <2>1, <4>1, <4>2 DEF Zones!Roles
      <4> QED BY <1>2, <1>3, <1>d, <4>1, <4>3 DEF Zones!ConnectOwn, Zones!Is
    <3>2. Zones!PlantOwn(dnsAccount.ref["origin"])'
      BY <2>1 DEF Zones!PlantOwn
    <3> QED BY <1>d, <2>1, <2>2, <2>3, <3>1, <3>2 DEF Zones!RefsApart, Zones!Is, Zones!Calling
  <2>6. Zones!AccountInv'
    BY <1>3, <1>b, <2>1 DEF Zones!AccountInv, Zones!ConnectOwn, k
  <2>7. Zones!PassInv'
    BY <1>0, <1>1, <2>3 DEF Zones!PassInv
  <2>8. Zones!Planting = {}
    BY <2>3 DEF Zones!Planting, Zones!PlantPlaces
  <2>9. ~plantRaced => planted = {}
    <3> SUFFICES ASSUME ~plantRaced, NEW t \in planted PROVE FALSE
      OBVIOUS
    <3>1. Zones!InVault(0, t)
      BY <1>0, <1>3 DEF Zones!PlantedIsKept, Zones!AccountInv, Zones!Roles
    <3> QED BY <1>a, <3>1 DEF Zones!InVault
  <2> QED BY <1>1, <1>d, <2>4, <2>5, <2>6, <2>7, <2>8, <2>9
         DEF ZonesVault, Zones!PlantInv, Zones!PlantedIsKept
<1>4. CASE tokenRows' = [tokenRows EXCEPT ![k].live = FALSE] /\ dnsAccount' = dnsAccount
  <2> DEFINE R == [ref : Nat \ {0}, token : Tokens, live : BOOLEAN]
  <2>1. /\ DOMAIN tokenRows' = DOMAIN tokenRows /\ tokenRows' \in Seq(R)
        /\ \A j \in DOMAIN tokenRows : j # k => tokenRows'[j] = tokenRows[j]
        /\ \A j \in DOMAIN tokenRows : tokenRows'[j].ref = tokenRows[j].ref
    <3>1. tokenRows \in Seq(R)
      BY <1>0 DEF Zones!ZoneTypes
    <3>2. tokenRows[k] \in R
      <4> HIDE DEF R
      <4> QED BY <1>b, <3>1
    <3> DEFINE new == [tokenRows[k] EXCEPT !.live = FALSE]
    <3>3. new \in R /\ new.ref = tokenRows[k].ref /\ tokenRows' = [tokenRows EXCEPT ![k] = new]
      BY <1>4, <3>2
    <3> HIDE DEF R, new, k
    <3> QED BY <1>b, <3>1, <3>3
  <2> HIDE DEF R, k
  <2>2. Zones!ZoneTypes'
    <3>1. \A q \in DnsAgents : Zones!Remembers(agent[q])'
      BY <1>1, <1>2, <1>c, <2>1 DEF Zones!Remembers, Zones!Places, Zones!PlantPlaces, Zones!Calling
    <3> QED BY <1>0, <1>1, <1>2, <1>4, <2>1, <3>1 DEF Zones!ZoneTypes, R
  <2>3. \A x : Zones!PlantOwn(x) => Zones!PlantOwn(x)'
    BY <1>4, <1>a, <1>d, <2>1 DEF Zones!PlantOwn, Zones!Is
  <2>4. Zones!RefsApart'
    <3>1. ASSUME NEW q \in DnsAgents, agent'[q].at = "stored" PROVE Zones!ConnectOwn(q)'
      <4>1. q # p /\ agent'[q] = agent[q] /\ Zones!ConnectOwn(q) /\ agent[q].row # k
            /\ agent[q].row \in DOMAIN tokenRows
        BY <1>0, <1>a, <1>b, <1>d, <3>1 DEF Zones!RefsApart, Zones!Is, Zones!ConnectOwn, k
      <4> QED BY <1>2, <1>4, <1>d, <2>1, <4>1 DEF Zones!ConnectOwn, Zones!Is
    <3>2. ASSUME NEW q \in DnsAgents, agent'[q].at \in Zones!PlantPlaces
          PROVE  Zones!PlantOwn(agent[q].had)' /\ Zones!PlantOwn(agent[q].ref)'
      BY <1>0, <1>d, <2>3, <3>2 DEF Zones!RefsApart
    <3>3. ASSUME NEW q \in DnsAgents, agent'[q].at \in Zones!Calling
          PROVE  Zones!RowOf(agent[q].role, agent[q].row)' /\ (agent'[q].at = "probing" =>
                   agent'[q].key = Zones!CacheKey(agent[q].role, agent[q].row)')
      BY <1>0, <1>4, <1>a, <1>d, <2>1, <2>3, <3>3
         DEF Zones!RefsApart, Zones!RowOf, Zones!CacheKey, Zones!Is
    <3> QED BY <1>0, <1>4, <2>3, <3>1, <3>2, <3>3 DEF Zones!RefsApart, Zones!Is, Zones!Calling
  <2>5. Zones!AccountInv'
    <3>1. \A j \in DOMAIN tokenRows : tokenRows[j].ref = dnsAccount.ref["dns"] => j # k
      BY <1>b DEF Zones!ConnectOwn, Zones!Roles, k
    <3> QED BY <1>0, <1>1, <1>2, <1>4, <2>1, <3>1 DEF Zones!AccountInv
  <2>6. Zones!PassInv'
    BY <1>0, <1>1, <1>4, <2>1 DEF Zones!PassInv, Zones!CacheKey
  <2>7. \A x, t : Zones!InVault(x, t) /\ x # tokenRows[k].ref => Zones!InVault(x, t)'
    <3> SUFFICES ASSUME NEW x, NEW t, Zones!InVault(x, t), x # tokenRows[k].ref
                 PROVE  Zones!InVault(x, t)'
      OBVIOUS
    <3>1. PICK j \in DOMAIN tokenRows : tokenRows[j] = [ref |-> x, token |-> t, live |-> TRUE]
      BY DEF Zones!InVault
    <3>2. j # k
      BY <3>1
    <3> QED BY <2>1, <3>1, <3>2 DEF Zones!InVault
  <2>8. \A q \in Zones!Planting : agent[q].ref # tokenRows[k].ref
    BY <1>0, <1>1, <1>a, <1>b
       DEF Zones!RefsApart, Zones!PlantOwn, Zones!Planting, Zones!PlantPlaces, Zones!Is, k
  <2>9. Zones!PlantInv'
    BY <1>0, <1>1, <1>2, <1>4, <1>d, <2>7, <2>8 DEF Zones!PlantInv, Zones!PlantSound
  <2>10. Zones!PlantedIsKept'
    BY <1>0, <1>1, <1>4, <1>b, <2>7 DEF Zones!PlantedIsKept, Zones!ConnectOwn, Zones!Roles, k
  <2> QED BY <2>2, <2>4, <2>5, <2>6, <2>9, <2>10 DEF ZonesVault
<1> QED BY <1>1, <1>3, <1>4

\* A row stored under a role's ref, its first or the one it has, is the role's.
LEMMA StoreTokenKeeps ==
    ASSUME ZonesVault, NEW role \in Zones!Roles \ {"origin"}, NEW t \in Tokens,
           Zones!StoreToken(role, t)
    PROVE  ZonesVault'
<1>0. /\ Zones!ZoneTypes /\ Zones!RefsApart /\ Zones!AccountInv /\ Zones!PassInv
      /\ Zones!PlantInv /\ Zones!PlantedIsKept
  BY DEF ZonesVault
<1>a. /\ \A k \in DOMAIN tokenRows : tokenRows[k].ref <= refs /\ tokenRows[k].ref \in Nat \ {0}
      /\ \A r \in Zones!Roles : dnsAccount.ref[r] <= refs /\ dnsAccount.ref[r] \in Nat
      /\ \A q \in DnsAgents : agent[q].at = "stored" => agent[q].row \in DOMAIN tokenRows
      /\ \A q \in DnsAgents : agent[q].at \in Zones!Calling => agent[q].row \in DOMAIN tokenRows
      /\ \A q \in DnsAgents : agent[q].at \in Zones!PlantPlaces =>
           agent[q].had \in 0..refs /\ agent[q].ref \in 0..refs
  BY <1>0, VaultTypes
<1> DEFINE x == IF dnsAccount.ref[role] = 0 THEN refs + 1 ELSE dnsAccount.ref[role]
           n == Len(tokenRows) + 1
<1>1. /\ dnsAccount.exists /\ Zones!Put(x, t) /\ dnsAccount' = [dnsAccount EXCEPT !.ref[role] = x]
      /\ refs' = (IF x > refs THEN x ELSE refs)
      /\ UNCHANGED <<plantFile, planted, plantRaced, verified, probed, dnsClock, agent>>
  BY DEF Zones!StoreToken, Zones!trust
<1>2. /\ refs \in Nat /\ dnsAccount \in [exists : BOOLEAN, ref : [Zones!Roles -> Nat]]
      /\ {"dns", "edge", "origin"} = Zones!Roles /\ role \in {"dns", "edge"}
  BY <1>0 DEF Zones!ZoneTypes, Zones!Roles
<1>3. /\ x \in Nat \ {0} /\ x <= refs' /\ refs' \in Nat /\ refs <= refs'
      /\ dnsAccount'.exists /\ dnsAccount'.ref[role] = x
      /\ \A r \in Zones!Roles : r # role => dnsAccount'.ref[r] = dnsAccount.ref[r]
      /\ dnsAccount' \in [exists : BOOLEAN, ref : [Zones!Roles -> Nat]]
      /\ x = refs + 1 \/ (x = dnsAccount.ref[role] /\ x # 0)
  BY <1>1, <1>2, <1>a
<1>4. /\ n \in Nat /\ n \notin DOMAIN tokenRows
      /\ DOMAIN tokenRows' = DOMAIN tokenRows \cup {n}
      /\ tokenRows' \in Seq([ref : Nat \ {0}, token : Tokens, live : BOOLEAN])
      /\ \A k \in DOMAIN tokenRows : tokenRows'[k] = tokenRows[k]
      /\ tokenRows'[n].ref = x
  <2>1. /\ n \in Nat /\ n \notin DOMAIN tokenRows
        /\ DOMAIN tokenRows' = DOMAIN tokenRows \cup {n}
        /\ tokenRows' \in Seq([ref : Nat \ {0}, token : Tokens, live : BOOLEAN])
        /\ \A k \in DOMAIN tokenRows : tokenRows'[k] = tokenRows[k]
        /\ tokenRows'[n] = [ref |-> x, token |-> t, live |-> TRUE]
    <3> HIDE DEF x
    <3> QED BY <1>0, <1>1, <1>3, PutRow, Zenon
  <2> HIDE DEF x, n
  <2> QED BY <2>1
<1> HIDE DEF x, n
<1>b. \A y, s : Zones!InVault(y, s) => Zones!InVault(y, s)'
  BY <1>4 DEF Zones!InVault
<1>c. /\ dnsAccount.ref["dns"] \in Nat \ {0}
      /\ \A r \in Zones!Roles : dnsAccount.ref[r] # 0 => dnsAccount'.ref[r] = dnsAccount.ref[r]
      /\ \A r \in Zones!Roles : dnsAccount'.ref[r] = dnsAccount.ref[r] \/ dnsAccount'.ref[r] = refs + 1
  <2>1. dnsAccount.ref["dns"] \in Nat \ {0}
    BY <1>0, <1>1, <1>a DEF Zones!AccountInv
  <2> QED BY <1>3, <2>1, <1>a DEF x
<1>6. Zones!ZoneTypes'
  <2>1. \A q \in DnsAgents : Zones!Remembers(agent[q])'
    <3> SUFFICES ASSUME NEW q \in DnsAgents PROVE Zones!Remembers(agent[q])'
      OBVIOUS
    <3>1. Zones!Remembers(agent[q]) /\ agent' = agent
      BY <1>0, <1>1 DEF Zones!ZoneTypes
    <3> QED BY <1>2, <1>3, <1>4, <3>1 DEF Zones!Remembers
  <2>2. \A k \in DOMAIN tokenRows' : tokenRows'[k].ref <= refs'
    BY <1>2, <1>3, <1>4, <1>a
  <2>3. \A r \in Zones!Roles : dnsAccount'.ref[r] <= refs'
    BY <1>2, <1>3, <1>a
  <2> QED BY <1>0, <1>1, <1>2, <1>3, <1>4, <2>1, <2>2, <2>3 DEF Zones!ZoneTypes
<1>7. \A y \in 0..refs : Zones!PlantOwn(y) => Zones!PlantOwn(y)'
  <2> SUFFICES ASSUME NEW y \in 0..refs, Zones!PlantOwn(y), y # 0 PROVE Zones!PlantOwn(y)'
    BY DEF Zones!PlantOwn
  <2>1. y # dnsAccount'.ref["dns"] /\ y # dnsAccount'.ref["edge"]
    BY <1>2, <1>c DEF Zones!PlantOwn
  <2> QED BY <1>1, <1>4, <1>a, <2>1 DEF Zones!PlantOwn, Zones!Is
<1>8. Zones!RefsApart'
  <2>1. Zones!PlantOwn(dnsAccount.ref["origin"])'
    <3>1. dnsAccount'.ref["origin"] = dnsAccount.ref["origin"] /\ dnsAccount.ref["origin"] \in 0..refs
      BY <1>2, <1>3, <1>a
    <3> QED BY <1>0, <1>7, <3>1 DEF Zones!RefsApart
  <2>2. ASSUME NEW q \in DnsAgents, agent[q].at = "stored" PROVE Zones!ConnectOwn(q)'
    <3>1. Zones!ConnectOwn(q) /\ agent[q].row \in DOMAIN tokenRows /\ agent' = agent
      BY <1>0, <1>1, <1>a, <2>2 DEF Zones!RefsApart, Zones!Is
    <3>2. x # tokenRows[agent[q].row].ref
      BY <1>2, <1>3, <1>a, <3>1 DEF Zones!ConnectOwn
    <3>3. \A r \in Zones!Roles : dnsAccount'.ref[r] # tokenRows[agent[q].row].ref
      BY <1>2, <1>a, <1>c, <3>1 DEF Zones!ConnectOwn
    <3> QED BY <1>4, <3>1, <3>2, <3>3 DEF Zones!ConnectOwn, Zones!Is
  <2>3. ASSUME NEW q \in DnsAgents, agent[q].at \in Zones!PlantPlaces
        PROVE  Zones!PlantOwn(agent[q].had)' /\ Zones!PlantOwn(agent[q].ref)'
    BY <1>0, <1>1, <1>7, <1>a, <2>3 DEF Zones!RefsApart
  <2>4. ASSUME NEW q \in DnsAgents, agent[q].at \in Zones!Calling
        PROVE  Zones!RowOf(agent[q].role, agent[q].row)' /\ (agent[q].at = "probing" =>
                 agent[q].key = Zones!CacheKey(agent[q].role, agent[q].row)')
    <3>1. /\ Zones!RowOf(agent[q].role, agent[q].row) /\ agent[q].row \in DOMAIN tokenRows
          /\ agent[q].at = "probing" => agent[q].key = Zones!CacheKey(agent[q].role, agent[q].row)
          /\ agent[q].role \in Zones!Roles
      BY <1>0, <1>a, <2>4 DEF Zones!RefsApart, Zones!Is, Zones!ZoneTypes, Zones!Remembers
    <3>2. tokenRows'[agent[q].row] = tokenRows[agent[q].row]
          /\ tokenRows[agent[q].row].ref \in 1..refs
      BY <1>2, <1>4, <1>a, <3>1
    <3>3. CASE agent[q].role = "origin"
      BY <1>1, <1>7, <3>1, <3>2, <3>3 DEF Zones!RowOf, Zones!CacheKey
    <3>4. CASE agent[q].role # "origin"
      BY <1>1, <1>c, <3>1, <3>2, <3>4 DEF Zones!RowOf, Zones!CacheKey
    <3> QED BY <3>3, <3>4
  <2>5. dnsAccount'.ref["dns"] # dnsAccount'.ref["edge"]
    BY <1>0, <1>2, <1>3, <1>a, <1>c DEF Zones!RefsApart
  <2> QED BY <1>1, <2>1, <2>2, <2>3, <2>4, <2>5 DEF Zones!RefsApart, Zones!Is, Zones!Calling
<1>9. Zones!AccountInv'
  BY <1>0, <1>1, <1>2, <1>3, <1>4, <1>c DEF Zones!AccountInv
<1>10. Zones!PassInv'
  <2>1. \A k \in DOMAIN tokenRows : \A r \in Zones!Roles :
            tokenRows[k].ref = dnsAccount.ref[r] =>
              tokenRows'[k].ref = dnsAccount'.ref[r] /\ Zones!CacheKey(r, k)' = Zones!CacheKey(r, k)
    BY <1>4, <1>a, <1>c DEF Zones!CacheKey
  <2> QED BY <1>0, <1>1, <1>4, <2>1 DEF Zones!PassInv
<1>11. Zones!PlantInv'
  BY <1>0, <1>1, <1>2, <1>3, <1>b DEF Zones!PlantInv, Zones!PlantSound, Zones!Planting
<1>12. Zones!PlantedIsKept'
  BY <1>0, <1>1, <1>2, <1>3, <1>b DEF Zones!PlantedIsKept
<1> QED BY <1>6, <1>8, <1>9, <1>10, <1>11, <1>12 DEF ZonesVault

\* The operator writes the plant file only while none is there, so no plant is on its way.
LEMMA WritePlantKeeps ==
    ASSUME ZonesVault, NEW t \in Tokens, Zones!WritePlant(t) PROVE ZonesVault'
<1>0. /\ Zones!ZoneTypes /\ Zones!RefsApart /\ Zones!AccountInv /\ Zones!PassInv
      /\ Zones!PlantInv /\ Zones!PlantedIsKept
  BY DEF ZonesVault
<1>1. /\ plantFile = Zones!NoToken /\ plantFile' = t
      /\ UNCHANGED <<tokenRows, dnsAccount, refs, planted, plantRaced, verified, probed, agent, dnsClock>>
  BY DEF Zones!WritePlant, Zones!trust
<1>2. Zones!ZoneTypes'
  BY <1>0, <1>1 DEF Zones!ZoneTypes, Zones!Remembers
<1>3. Zones!RefsApart' /\ Zones!AccountInv' /\ Zones!PassInv'
  BY <1>0, <1>1 DEF Zones!RefsApart, Zones!AccountInv, Zones!PassInv, Zones!ConnectOwn, Zones!RowOf,
     Zones!PlantOwn, Zones!Is, Zones!CacheKey
<1>4. ~plantRaced => Zones!Planting = {}
  BY <1>0, <1>1 DEF Zones!PlantInv, Zones!PlantSound
<1>5. Zones!PlantInv' /\ Zones!PlantedIsKept'
  BY <1>0, <1>1, <1>4 DEF Zones!PlantInv, Zones!PlantedIsKept, Zones!InVault, Zones!Planting
<1> QED BY <1>2, <1>3, <1>5 DEF ZonesVault

\* OriginCaPlantView reads the account and the file.
LEMMA PlantKeeps ==
    ASSUME ZonesVault, NEW p \in DnsAgents, Zones!Plant(p) PROVE ZonesVault'
<1>0. /\ Zones!ZoneTypes /\ Zones!RefsApart /\ Zones!AccountInv /\ Zones!PassInv
      /\ Zones!PlantInv /\ Zones!PlantedIsKept
  BY DEF ZonesVault
<1>a. /\ \A k \in DOMAIN tokenRows : tokenRows[k].ref <= refs /\ tokenRows[k].ref \in Nat \ {0}
      /\ \A r \in Zones!Roles : dnsAccount.ref[r] <= refs /\ dnsAccount.ref[r] \in Nat
      /\ \A q \in DnsAgents : agent[q].at = "stored" => agent[q].row \in DOMAIN tokenRows
      /\ \A q \in DnsAgents : agent[q].at \in Zones!Calling => agent[q].row \in DOMAIN tokenRows
      /\ \A q \in DnsAgents : agent[q].at \in Zones!PlantPlaces =>
           agent[q].had \in 0..refs /\ agent[q].ref \in 0..refs
  BY <1>0, VaultTypes
<1> DEFINE new == [at |-> "planting", token |-> plantFile, had |-> dnsAccount.ref["origin"], ref |-> 0]
<1>1. /\ agent[p].at = "idle" /\ agent' = [agent EXCEPT ![p] = new]
      /\ dnsAccount.exists /\ plantFile # Zones!NoToken
      /\ plantRaced' = (plantRaced \/ Zones!Planting # {})
      /\ UNCHANGED <<tokenRows, dnsAccount, refs, planted, plantFile, verified, probed, dnsClock>>
  BY DEF Zones!Plant, Zones!Begin, Zones!Is, Zones!Goes, Zones!trust
<1>2. agent'[p] = new
  BY <1>0, <1>1 DEF Zones!ZoneTypes
<1>d. /\ \A q \in DnsAgents : q # p => agent'[q] = agent[q]
      /\ \A q \in DnsAgents : agent'[q].at = "stored" => q # p /\ agent'[q] = agent[q]
      /\ \A q \in DnsAgents : agent'[q].at \in Zones!Calling => q # p /\ agent'[q] = agent[q]
      /\ agent' = [q \in DnsAgents |-> agent'[q]]
  BY <1>0, <1>1, <1>2 DEF Zones!ZoneTypes, Zones!Calling
<1>3. plantFile \in Tokens /\ refs \in Nat /\ dnsAccount.ref["origin"] \in 0..refs
  BY <1>0, <1>1, <1>a DEF Zones!ZoneTypes, Zones!Roles
<1>4. Zones!ZoneTypes'
  <2>1. \A q \in DnsAgents : Zones!Remembers(agent[q])'
    <3> SUFFICES ASSUME NEW q \in DnsAgents PROVE Zones!Remembers(agent[q])'
      OBVIOUS
    <3>1. CASE q = p
      BY <1>1, <1>2, <1>3, <3>1 DEF Zones!Remembers, Zones!Places, Zones!PlantPlaces, Zones!Calling
    <3>2. CASE q # p
      BY <1>0, <1>1, <1>d, <3>2 DEF Zones!Remembers, Zones!ZoneTypes
    <3> QED BY <3>1, <3>2
  <2> QED BY <1>0, <1>1, <1>d, <2>1 DEF Zones!ZoneTypes
<1>5. \A x : Zones!PlantOwn(x) => Zones!PlantOwn(x)'
  BY <1>1, <1>d DEF Zones!PlantOwn, Zones!Is
<1>6. Zones!RefsApart'
  <2>1. ASSUME NEW q \in DnsAgents, agent'[q].at = "stored" PROVE Zones!ConnectOwn(q)'
    BY <1>0, <1>1, <1>d, <2>1 DEF Zones!RefsApart, Zones!ConnectOwn, Zones!Is
  <2>2. ASSUME NEW q \in DnsAgents, agent'[q].at \in Zones!PlantPlaces
        PROVE  Zones!PlantOwn(agent[q].had)' /\ Zones!PlantOwn(agent[q].ref)'
    <3>1. CASE q = p
      BY <1>0, <1>2, <1>5, <3>1 DEF Zones!RefsApart, Zones!PlantOwn
    <3>2. CASE q # p
      BY <1>0, <1>5, <1>d, <2>2, <3>2 DEF Zones!RefsApart
    <3> QED BY <3>1, <3>2
  <2>3. ASSUME NEW q \in DnsAgents, agent'[q].at \in Zones!Calling
        PROVE  Zones!RowOf(agent[q].role, agent[q].row)' /\ (agent'[q].at = "probing" =>
                 agent'[q].key = Zones!CacheKey(agent[q].role, agent[q].row)')
    BY <1>0, <1>1, <1>5, <1>d, <2>3 DEF Zones!RefsApart, Zones!RowOf, Zones!CacheKey, Zones!Is
  <2> QED BY <1>0, <1>1, <1>5, <2>1, <2>2, <2>3 DEF Zones!RefsApart, Zones!Is, Zones!Calling
<1>7. Zones!AccountInv' /\ Zones!PassInv'
  BY <1>0, <1>1 DEF Zones!AccountInv, Zones!PassInv, Zones!CacheKey
<1>8. Zones!PlantInv'
  <2> SUFFICES ASSUME ~plantRaced'
               PROVE  /\ \A q, r \in Zones!Planting' : q = r
                      /\ \A q \in Zones!Planting' : Zones!PlantSound(agent[q])'
    BY DEF Zones!PlantInv
  <2>1. Zones!Planting = {}
    BY <1>1
  <2>2. Zones!Planting' \subseteq {p}
    BY <1>d, <2>1 DEF Zones!Planting
  <2>3. Zones!PlantSound(agent[p])'
    BY <1>1, <1>2 DEF Zones!PlantSound
  <2> QED BY <2>2, <2>3
<1>9. Zones!PlantedIsKept'
  BY <1>0, <1>1 DEF Zones!PlantedIsKept, Zones!InVault
<1> QED BY <1>4, <1>6, <1>7, <1>8, <1>9 DEF ZonesVault

\* The plant's token is put under the ref the account had, or a new one.
LEMMA PlantPutKeeps ==
    ASSUME ZonesVault, NEW p \in DnsAgents, Zones!PlantPut(p) PROVE ZonesVault'
<1>0. /\ Zones!ZoneTypes /\ Zones!RefsApart /\ Zones!AccountInv /\ Zones!PassInv
      /\ Zones!PlantInv /\ Zones!PlantedIsKept
  BY DEF ZonesVault
<1>a. /\ \A k \in DOMAIN tokenRows : tokenRows[k].ref <= refs /\ tokenRows[k].ref \in Nat \ {0}
      /\ \A r \in Zones!Roles : dnsAccount.ref[r] <= refs /\ dnsAccount.ref[r] \in Nat
      /\ \A q \in DnsAgents : agent[q].at = "stored" => agent[q].row \in DOMAIN tokenRows
      /\ \A q \in DnsAgents : agent[q].at \in Zones!Calling => agent[q].row \in DOMAIN tokenRows
      /\ \A q \in DnsAgents : agent[q].at \in Zones!PlantPlaces =>
           agent[q].had \in 0..refs /\ agent[q].ref \in 0..refs
  BY <1>0, VaultTypes
<1> DEFINE a == agent[p]
           x == IF a.had = 0 THEN refs + 1 ELSE a.had
           new == [a EXCEPT !.at = "plant_put", !.ref = x]
           n == Len(tokenRows) + 1
<1>1. /\ a.at = "planting" /\ agent' = [agent EXCEPT ![p] = new] /\ Zones!Put(x, a.token)
      /\ refs' = (IF a.had = 0 THEN refs + 1 ELSE refs)
      /\ UNCHANGED <<dnsAccount, plantFile, planted, plantRaced, verified, probed, dnsClock>>
  BY DEF Zones!PlantPut, Zones!Is, Zones!Goes, Zones!trust
<1>3. /\ a \in [at : Zones!PlantPlaces, token : Tokens, had : 0..refs, ref : 0..refs] /\ refs \in Nat
  BY <1>0, <1>1 DEF Zones!ZoneTypes, Zones!Remembers, Zones!PlantPlaces
<1>4. /\ x \in Nat \ {0} /\ refs' \in Nat /\ refs <= refs' /\ x <= refs'
      /\ x = refs + 1 \/ (x = a.had /\ x # 0)
  BY <1>1, <1>3
<1>5. new \in [at : {"plant_put"}, token : {a.token}, had : {a.had}, ref : {x}]
  <2> HIDE DEF x
  <2> QED BY <1>3
<1>2. agent'[p] = new
  BY <1>0, <1>1 DEF Zones!ZoneTypes
<1>6. new.at = "plant_put" /\ new.token = a.token /\ new.had = a.had /\ new.ref = x
  <2> HIDE DEF new, x, a
  <2> QED BY <1>5
<1>7. /\ n \in Nat /\ n \notin DOMAIN tokenRows
      /\ DOMAIN tokenRows' = DOMAIN tokenRows \cup {n}
      /\ tokenRows' \in Seq([ref : Nat \ {0}, token : Tokens, live : BOOLEAN])
      /\ \A k \in DOMAIN tokenRows : tokenRows'[k] = tokenRows[k]
      /\ tokenRows'[n] = [ref |-> x, token |-> a.token, live |-> TRUE]
  <2>1. a.token \in Tokens
    BY <1>3
  <2> HIDE DEF x, a
  <2> QED BY <1>0, <1>1, <1>4, <2>1, PutRow, Zenon
<1>8. tokenRows'[n].ref = x
  <2> HIDE DEF x, a, n
  <2> QED BY <1>7
<1>9. /\ a.had = 0 \/ Zones!PlantOwn(a.had)
      /\ a.had \in Nat
  BY <1>0, <1>1, <1>3 DEF Zones!RefsApart, Zones!PlantPlaces
<1>e. new \in [at : Zones!PlantPlaces, token : Tokens, had : 0..refs', ref : 0..refs']
  <2>1. a.had \in 0..refs' /\ a.token \in Tokens /\ x \in 0..refs'
    BY <1>1, <1>3, <1>4
  <2> HIDE DEF x, a, new
  <2> QED BY <1>5, <2>1 DEF Zones!PlantPlaces
<1> HIDE DEF x, n, new
<1>d. /\ \A q \in DnsAgents : q # p => agent'[q] = agent[q]
      /\ \A q \in DnsAgents : agent'[q].at = "stored" => q # p /\ agent'[q] = agent[q]
      /\ \A q \in DnsAgents : agent'[q].at \in Zones!Calling => q # p /\ agent'[q] = agent[q]
      /\ agent' = [q \in DnsAgents |-> agent'[q]]
  BY <1>0, <1>1, <1>2, <1>6 DEF Zones!ZoneTypes, Zones!Calling
<1>b. \A y, s : Zones!InVault(y, s) => Zones!InVault(y, s)'
  BY <1>7 DEF Zones!InVault
<1>c. \A y, s : y = x /\ s = a.token => Zones!InVault(y, s)'
  BY <1>7 DEF Zones!InVault
<1>10. Zones!ZoneTypes'
  <2>1. \A q \in DnsAgents : Zones!Remembers(agent[q])'
    <3> SUFFICES ASSUME NEW q \in DnsAgents PROVE Zones!Remembers(agent[q])'
      OBVIOUS
    <3>1. CASE q = p
      BY <1>2, <1>6, <1>e, <3>1 DEF Zones!Remembers, Zones!Places, Zones!PlantPlaces, Zones!Calling
    <3>2. CASE q # p
      <4>1. Zones!Remembers(agent[q]) /\ agent'[q] = agent[q]
        BY <1>0, <1>d, <3>2 DEF Zones!ZoneTypes
      <4> QED BY <1>3, <1>4, <1>7, <4>1 DEF Zones!Remembers
    <3> QED BY <3>1, <3>2
  <2>2. \A k \in DOMAIN tokenRows' : tokenRows'[k].ref <= refs'
    BY <1>3, <1>4, <1>7, <1>8, <1>a
  <2>3. \A r \in Zones!Roles : dnsAccount'.ref[r] <= refs'
    BY <1>1, <1>3, <1>4, <1>a
  <2> QED BY <1>0, <1>1, <1>4, <1>7, <1>d, <2>1, <2>2, <2>3 DEF Zones!ZoneTypes
<1>11. \A y \in 0..refs' : y = x \/ Zones!PlantOwn(y) => Zones!PlantOwn(y)'
  <2>1. \A y : Zones!PlantOwn(y) => Zones!PlantOwn(y)'
    BY <1>1, <1>7, <1>a, <1>d DEF Zones!PlantOwn, Zones!Is
  <2>2. CASE x = a.had /\ x # 0
    BY <1>9, <2>1, <2>2
  <2>3. CASE x = refs + 1
    <3>1. Zones!PlantOwn(x)
      BY <1>3, <1>a, <2>3 DEF Zones!PlantOwn, Zones!Is, Zones!Roles
    <3> QED BY <2>1, <3>1
  <2> QED BY <1>4, <2>2, <2>3
<1>12. Zones!RefsApart'
  <2>1. ASSUME NEW q \in DnsAgents, agent'[q].at = "stored" PROVE Zones!ConnectOwn(q)'
    <3>1. /\ Zones!ConnectOwn(q) /\ agent[q].row \in DOMAIN tokenRows /\ agent'[q] = agent[q]
          /\ agent[q].at = "stored"
      BY <1>0, <1>a, <1>d, <2>1 DEF Zones!RefsApart, Zones!Is
    <3>2. x # tokenRows[agent[q].row].ref
      BY <1>3, <1>4, <1>9, <1>a, <3>1 DEF Zones!PlantOwn, Zones!Is
    <3> QED BY <1>1, <1>7, <1>8, <1>d, <3>1, <3>2 DEF Zones!ConnectOwn, Zones!Is
  <2>2. ASSUME NEW q \in DnsAgents, agent'[q].at \in Zones!PlantPlaces
        PROVE  Zones!PlantOwn(agent[q].had)' /\ Zones!PlantOwn(agent[q].ref)'
    <3>1. CASE q = p
      BY <1>2, <1>3, <1>4, <1>6, <1>9, <1>11, <3>1 DEF Zones!PlantOwn
    <3>2. CASE q # p
      <4>1. /\ Zones!PlantOwn(agent[q].had) /\ Zones!PlantOwn(agent[q].ref)
            /\ agent[q].had \in 0..refs' /\ agent[q].ref \in 0..refs' /\ agent'[q] = agent[q]
        BY <1>0, <1>3, <1>4, <1>a, <1>d, <2>2, <3>2 DEF Zones!RefsApart
      <4> QED BY <1>11, <4>1
    <3> QED BY <3>1, <3>2
  <2>3. ASSUME NEW q \in DnsAgents, agent'[q].at \in Zones!Calling
        PROVE  Zones!RowOf(agent[q].role, agent[q].row)' /\ (agent'[q].at = "probing" =>
                 agent'[q].key = Zones!CacheKey(agent[q].role, agent[q].row)')
    <3>1. /\ Zones!RowOf(agent[q].role, agent[q].row) /\ agent[q].row \in DOMAIN tokenRows
          /\ agent[q].at = "probing" => agent[q].key = Zones!CacheKey(agent[q].role, agent[q].row)
          /\ agent'[q] = agent[q]
      BY <1>0, <1>a, <1>d, <2>3 DEF Zones!RefsApart, Zones!Is
    <3>2. tokenRows'[agent[q].row] = tokenRows[agent[q].row]
          /\ tokenRows[agent[q].row].ref \in 0..refs'
      BY <1>3, <1>4, <1>7, <1>a, <3>1
    <3> QED BY <1>1, <1>11, <3>1, <3>2 DEF Zones!RowOf, Zones!CacheKey
  <2>4. Zones!PlantOwn(dnsAccount.ref["origin"])'
    <3>1. dnsAccount.ref["origin"] \in 0..refs' /\ dnsAccount' = dnsAccount
      BY <1>1, <1>3, <1>4, <1>a DEF Zones!Roles
    <3> QED BY <1>0, <1>11, <3>1 DEF Zones!RefsApart
  <2> QED BY <1>0, <1>1, <2>1, <2>2, <2>3, <2>4 DEF Zones!RefsApart, Zones!Is, Zones!Calling
<1>13. Zones!AccountInv' /\ Zones!PassInv'
  <2>1. dnsAccount.exists
    BY <1>0, <1>1 DEF Zones!AccountInv
  <2> QED BY <1>0, <1>1, <1>7, <2>1 DEF Zones!AccountInv, Zones!PassInv, Zones!CacheKey
<1>14. Zones!PlantInv'
  <2> SUFFICES ASSUME ~plantRaced
               PROVE  /\ \A q, r \in Zones!Planting' : q = r
                      /\ \A q \in Zones!Planting' : Zones!PlantSound(agent[q])'
    BY <1>1 DEF Zones!PlantInv
  <2>1. p \in Zones!Planting /\ Zones!Planting' = Zones!Planting
    BY <1>1, <1>2, <1>6, <1>d DEF Zones!Planting
  <2>2. Zones!PlantSound(a) /\ \A q, r \in Zones!Planting : q = r
    BY <1>0, <2>1 DEF Zones!PlantInv
  <2>3. Zones!InVault(agent[p].ref, agent[p].token)'
    BY <1>2, <1>6, <1>c
  <2>4. a.had # 0 => x = a.had
    BY DEF x
  <2>5. Zones!PlantSound(agent[p])'
    BY <1>1, <1>2, <1>6, <2>2, <2>3, <2>4 DEF Zones!PlantSound
  <2> QED BY <2>1, <2>2, <2>5
<1>15. Zones!PlantedIsKept'
  BY <1>0, <1>1, <1>b DEF Zones!PlantedIsKept
<1> QED BY <1>10, <1>12, <1>13, <1>14, <1>15 DEF ZonesVault

\* The account takes the plant's ref if it had none, as the request read it.
LEMMA PlantSaveKeeps ==
    ASSUME ZonesVault, NEW p \in DnsAgents, Zones!PlantSave(p) PROVE ZonesVault'
<1>0. /\ Zones!ZoneTypes /\ Zones!RefsApart /\ Zones!AccountInv /\ Zones!PassInv
      /\ Zones!PlantInv /\ Zones!PlantedIsKept
  BY DEF ZonesVault
<1>a. /\ \A k \in DOMAIN tokenRows : tokenRows[k].ref <= refs /\ tokenRows[k].ref \in Nat \ {0}
      /\ \A r \in Zones!Roles : dnsAccount.ref[r] <= refs /\ dnsAccount.ref[r] \in Nat
      /\ \A q \in DnsAgents : agent[q].at = "stored" => agent[q].row \in DOMAIN tokenRows
      /\ \A q \in DnsAgents : agent[q].at \in Zones!Calling => agent[q].row \in DOMAIN tokenRows
      /\ \A q \in DnsAgents : agent[q].at \in Zones!PlantPlaces =>
           agent[q].had \in 0..refs /\ agent[q].ref \in 0..refs
  BY <1>0, VaultTypes
<1>b. PICK a : a = agent[p]
  OBVIOUS
<1> DEFINE new == [a EXCEPT !.at = "plant_saved"]
<1>1. /\ a.at = "plant_put" /\ agent' = [agent EXCEPT ![p] = new]
      /\ dnsAccount' = (IF a.had # a.ref THEN [dnsAccount EXCEPT !.ref["origin"] = a.ref] ELSE dnsAccount)
      /\ UNCHANGED <<tokenRows, refs, plantFile, planted, plantRaced, verified, probed, dnsClock>>
  BY <1>b DEF Zones!PlantSave, Zones!Is, Zones!Goes, Zones!trust
<1>2. /\ a \in [at : Zones!PlantPlaces, token : Tokens, had : 0..refs, ref : 0..refs] /\ refs \in Nat
      /\ dnsAccount \in [exists : BOOLEAN, ref : [Zones!Roles -> Nat]]
      /\ Zones!PlantOwn(a.had) /\ Zones!PlantOwn(a.ref) /\ dnsAccount.exists
  BY <1>0, <1>1, <1>b DEF Zones!ZoneTypes, Zones!Remembers, Zones!PlantPlaces, Zones!RefsApart, Zones!AccountInv
<1>3. /\ new.at = "plant_saved" /\ new.token = a.token /\ new.had = a.had /\ new.ref = a.ref
      /\ new \in [at : Zones!PlantPlaces, token : Tokens, had : 0..refs, ref : 0..refs]
  BY <1>2 DEF Zones!PlantPlaces
<1>4. agent'[p] = new
  BY <1>0, <1>1 DEF Zones!ZoneTypes
<1> HIDE DEF new
<1>d. /\ \A q \in DnsAgents : q # p => agent'[q] = agent[q]
      /\ \A q \in DnsAgents : agent'[q].at = "stored" => q # p /\ agent'[q] = agent[q]
      /\ \A q \in DnsAgents : agent'[q].at \in Zones!Calling => q # p /\ agent'[q] = agent[q]
      /\ agent' = [q \in DnsAgents |-> agent'[q]]
  BY <1>0, <1>1, <1>3, <1>4 DEF Zones!ZoneTypes, Zones!Calling
<1>5. /\ dnsAccount' \in [exists : BOOLEAN, ref : [Zones!Roles -> Nat]]
      /\ dnsAccount'.exists = dnsAccount.exists
      /\ dnsAccount'.ref["dns"] = dnsAccount.ref["dns"]
      /\ dnsAccount'.ref["edge"] = dnsAccount.ref["edge"]
      /\ dnsAccount'.ref["origin"] = (IF a.had # a.ref THEN a.ref ELSE dnsAccount.ref["origin"])
  <2>1. a.ref \in Nat
    BY <1>2
  <2>2. CASE a.had = a.ref
    <3>1. dnsAccount' = dnsAccount
      BY <1>1, <2>2
    <3> QED BY <1>2, <2>2, <3>1
  <2>3. CASE a.had # a.ref
    <3>1. dnsAccount' = [dnsAccount EXCEPT !.ref["origin"] = a.ref]
      BY <1>1, <2>3
    <3> QED BY <1>2, <2>1, <2>3, <3>1 DEF Zones!Roles
  <2> QED BY <2>2, <2>3
<1>6. Zones!ZoneTypes'
  <2>1. \A q \in DnsAgents : Zones!Remembers(agent[q])'
    <3> SUFFICES ASSUME NEW q \in DnsAgents PROVE Zones!Remembers(agent[q])'
      OBVIOUS
    <3>1. CASE q = p
      BY <1>1, <1>3, <1>4, <3>1 DEF Zones!Remembers, Zones!Places, Zones!PlantPlaces, Zones!Calling
    <3>2. CASE q # p
      BY <1>0, <1>1, <1>d, <3>2 DEF Zones!Remembers, Zones!ZoneTypes
    <3> QED BY <3>1, <3>2
  <2>2. \A r \in Zones!Roles : dnsAccount'.ref[r] <= refs
    BY <1>2, <1>5, <1>a DEF Zones!Roles
  <2> QED BY <1>0, <1>1, <1>5, <1>d, <2>1, <2>2 DEF Zones!ZoneTypes
<1>7. \A x : Zones!PlantOwn(x) => Zones!PlantOwn(x)'
  BY <1>1, <1>5, <1>d DEF Zones!PlantOwn, Zones!Is
<1>8. Zones!RefsApart'
  <2>1. ASSUME NEW q \in DnsAgents, agent'[q].at = "stored" PROVE Zones!ConnectOwn(q)'
    <3>1. Zones!ConnectOwn(q) /\ agent[q].row \in DOMAIN tokenRows /\ agent'[q] = agent[q]
          /\ agent[q].at = "stored"
      BY <1>0, <1>a, <1>d, <2>1 DEF Zones!RefsApart, Zones!Is
    <3>2. a.ref # tokenRows[agent[q].row].ref
      BY <1>2, <1>a, <3>1 DEF Zones!PlantOwn, Zones!Is
    <3>3. \A r \in Zones!Roles : dnsAccount'.ref[r] # tokenRows[agent[q].row].ref
      BY <1>5, <3>1, <3>2 DEF Zones!ConnectOwn, Zones!Roles
    <3> QED BY <1>1, <1>d, <3>1, <3>3 DEF Zones!ConnectOwn, Zones!Is
  <2>2. ASSUME NEW q \in DnsAgents, agent'[q].at \in Zones!PlantPlaces
        PROVE  Zones!PlantOwn(agent[q].had)' /\ Zones!PlantOwn(agent[q].ref)'
    <3>1. CASE q = p
      BY <1>2, <1>3, <1>4, <1>7, <3>1
    <3>2. CASE q # p
      BY <1>0, <1>7, <1>d, <2>2, <3>2 DEF Zones!RefsApart
    <3> QED BY <3>1, <3>2
  <2>3. ASSUME NEW q \in DnsAgents, agent'[q].at \in Zones!Calling
        PROVE  Zones!RowOf(agent[q].role, agent[q].row)' /\ (agent'[q].at = "probing" =>
                 agent'[q].key = Zones!CacheKey(agent[q].role, agent[q].row)')
    <3>1. agent[q].role \in Zones!Roles /\ agent'[q] = agent[q]
      BY <1>0, <1>d, <2>3 DEF Zones!ZoneTypes, Zones!Remembers
    <3> QED BY <1>0, <1>1, <1>5, <1>7, <2>3, <3>1
           DEF Zones!RefsApart, Zones!RowOf, Zones!CacheKey, Zones!Is, Zones!Roles
  <2>4. Zones!PlantOwn(dnsAccount.ref["origin"])'
    BY <1>0, <1>2, <1>5, <1>7 DEF Zones!RefsApart
  <2> QED BY <1>0, <1>5, <2>1, <2>2, <2>3, <2>4 DEF Zones!RefsApart, Zones!Is, Zones!Calling
<1>9. Zones!AccountInv'
  BY <1>0, <1>1, <1>2, <1>5 DEF Zones!AccountInv
<1>10. Zones!PassInv'
  BY <1>0, <1>1, <1>5 DEF Zones!PassInv, Zones!CacheKey, Zones!Roles
<1>c. \A x, t : Zones!InVault(x, t)' <=> Zones!InVault(x, t)
  BY <1>1 DEF Zones!InVault
<1>11. ~plantRaced => /\ p \in Zones!Planting /\ Zones!Planting' = Zones!Planting
                      /\ Zones!PlantSound(a) /\ \A q, r \in Zones!Planting : q = r
  BY <1>0, <1>1, <1>3, <1>4, <1>b, <1>d DEF Zones!PlantInv, Zones!Planting
<1>12. Zones!PlantInv'
  <2> SUFFICES ASSUME ~plantRaced
               PROVE  /\ \A q, r \in Zones!Planting' : q = r
                      /\ \A q \in Zones!Planting' : Zones!PlantSound(agent[q])'
    BY <1>1 DEF Zones!PlantInv
  <2>1. Zones!InVault(agent[p].ref, agent[p].token)'
    BY <1>1, <1>3, <1>4, <1>11, <1>c DEF Zones!PlantSound
  <2>2. Zones!PlantSound(agent[p])'
    BY <1>1, <1>2, <1>3, <1>4, <1>5, <1>11, <2>1 DEF Zones!PlantSound
  <2> QED BY <1>11, <2>2
<1>13. Zones!PlantedIsKept'
  <2> SUFFICES ASSUME ~plantRaced, NEW t \in planted PROVE Zones!InVault(dnsAccount.ref["origin"], t)'
    BY <1>1 DEF Zones!PlantedIsKept
  <2>1. PICK o : o = dnsAccount.ref["origin"] /\ Zones!InVault(o, t)
    BY <1>0 DEF Zones!PlantedIsKept
  <2>2. o # 0
    BY <1>a, <2>1 DEF Zones!InVault
  <2>3. a.had = o /\ a.ref = a.had
    BY <1>1, <1>11, <2>1, <2>2 DEF Zones!PlantSound
  <2> QED BY <1>5, <1>c, <2>1, <2>3
<1> QED BY <1>6, <1>8, <1>9, <1>10, <1>12, <1>13 DEF ZonesVault

\* The file is removed once its token is in the vault under the account's ref.
LEMMA PlantUnlinkKeeps ==
    ASSUME ZonesVault, NEW p \in DnsAgents, Zones!PlantUnlink(p) PROVE ZonesVault'
<1>0. /\ Zones!ZoneTypes /\ Zones!RefsApart /\ Zones!AccountInv /\ Zones!PassInv
      /\ Zones!PlantInv /\ Zones!PlantedIsKept
  BY DEF ZonesVault
<1>1. /\ agent[p].at = "plant_saved" /\ agent' = [agent EXCEPT ![p] = Zones!Idle]
      /\ planted' = planted \cup ({plantFile} \ {Zones!NoToken}) /\ plantFile' = Zones!NoToken
      /\ UNCHANGED <<tokenRows, dnsAccount, refs, plantRaced, verified, probed, dnsClock>>
  BY DEF Zones!PlantUnlink, Zones!Is, Zones!Goes, Zones!trust
<1>d. /\ \A q \in DnsAgents : q # p => agent'[q] = agent[q]
      /\ agent'[p].at = "idle" /\ agent' = [q \in DnsAgents |-> agent'[q]]
      /\ \A q \in DnsAgents : agent'[q].at # "idle" => agent'[q] = agent[q]
  BY <1>0, <1>1 DEF Zones!ZoneTypes, Zones!Idle
<1>2. Zones!ZoneTypes'
  <2>1. \A q \in DnsAgents : Zones!Remembers(agent[q])'
    <3> SUFFICES ASSUME NEW q \in DnsAgents PROVE Zones!Remembers(agent[q])'
      OBVIOUS
    <3>1. Zones!Remembers(agent[q])
      BY <1>0 DEF Zones!ZoneTypes
    <3> QED BY <1>1, <1>d, <3>1 DEF Zones!Remembers, Zones!Places, Zones!PlantPlaces, Zones!Calling
  <2> QED BY <1>0, <1>1, <1>d, <2>1 DEF Zones!ZoneTypes
<1>3. \A x : Zones!PlantOwn(x) => Zones!PlantOwn(x)'
  BY <1>1, <1>d DEF Zones!PlantOwn, Zones!Is
<1>4. Zones!RefsApart'
  <2>1. ASSUME NEW q \in DnsAgents, agent'[q].at = "stored" PROVE Zones!ConnectOwn(q)'
    BY <1>0, <1>1, <1>d, <2>1 DEF Zones!RefsApart, Zones!ConnectOwn, Zones!Is
  <2>2. ASSUME NEW q \in DnsAgents, agent'[q].at \in Zones!PlantPlaces
        PROVE  Zones!PlantOwn(agent[q].had)' /\ Zones!PlantOwn(agent[q].ref)'
    BY <1>0, <1>3, <1>d, <2>2 DEF Zones!RefsApart, Zones!PlantPlaces
  <2>3. ASSUME NEW q \in DnsAgents, agent'[q].at \in Zones!Calling
        PROVE  Zones!RowOf(agent[q].role, agent[q].row)' /\ (agent'[q].at = "probing" =>
                 agent'[q].key = Zones!CacheKey(agent[q].role, agent[q].row)')
    BY <1>0, <1>1, <1>3, <1>d, <2>3
       DEF Zones!RefsApart, Zones!RowOf, Zones!CacheKey, Zones!Is, Zones!Calling
  <2> QED BY <1>0, <1>1, <1>3, <2>1, <2>2, <2>3 DEF Zones!RefsApart, Zones!Is, Zones!Calling
<1>5. Zones!AccountInv' /\ Zones!PassInv'
  BY <1>0, <1>1, <1>d DEF Zones!AccountInv, Zones!PassInv, Zones!CacheKey
<1>6. \A x, t : Zones!InVault(x, t)' <=> Zones!InVault(x, t)
  BY <1>1 DEF Zones!InVault
<1>7. ~plantRaced => /\ Zones!PlantSound(agent[p]) /\ Zones!Planting' = {}
  BY <1>0, <1>1, <1>d DEF Zones!PlantInv, Zones!Planting
<1>8. Zones!PlantInv'
  BY <1>1, <1>7 DEF Zones!PlantInv
<1>9. Zones!PlantedIsKept'
  <2> SUFFICES ASSUME ~plantRaced, NEW t \in planted' PROVE Zones!InVault(dnsAccount.ref["origin"], t)'
    BY <1>1 DEF Zones!PlantedIsKept
  <2>1. Zones!InVault(dnsAccount.ref["origin"], t)
    BY <1>0, <1>1, <1>7 DEF Zones!PlantedIsKept, Zones!PlantSound
  <2> QED BY <1>1, <1>6, <2>1
<1> QED BY <1>2, <1>4, <1>5, <1>8, <1>9 DEF ZonesVault

\* _load_token(): the newest secret is a live row of the ref, if the ref has one.
LEMMA NewestFacts ==
    ASSUME Zones!ZoneTypes, NEW x
    PROVE  /\ Zones!NewestOf(x) # 0 => /\ Zones!NewestOf(x) \in DOMAIN tokenRows
                                       /\ tokenRows[Zones!NewestOf(x)].ref = x
           /\ (\E k \in DOMAIN tokenRows : tokenRows[k].ref = x /\ tokenRows[k].live) =>
                Zones!NewestOf(x) # 0
<1> DEFINE mine == {k \in DOMAIN tokenRows : tokenRows[k].ref = x /\ tokenRows[k].live}
<1>1. Len(tokenRows) \in Nat /\ DOMAIN tokenRows = 1..Len(tokenRows)
  BY DEF Zones!ZoneTypes
<1>2. CASE mine = {}
  <2>1. Zones!NewestOf(x) = 0
    BY <1>2 DEF Zones!NewestOf
  <2> QED BY <1>2, <2>1
<1>3. CASE mine # {}
  <2>1. mine \in SUBSET (1..Len(tokenRows)) /\ 1 \in Int /\ Len(tokenRows) \in Int
    BY <1>1
  <2>2. Zones!NewestOf(x) = CHOOSE k \in mine : \A j \in mine : j <= k
    BY <1>3 DEF Zones!NewestOf
  <2>3. \A k \in mine : k \in DOMAIN tokenRows /\ k # 0 /\ tokenRows[k].ref = x
    BY <1>1
  <2> HIDE DEF mine
  <2>4. \E k \in mine : \A j \in mine : j <= k
    BY <1>3, <2>1, LargestOf
  <2>5. Zones!NewestOf(x) \in mine
    BY <2>2, <2>4
  <2> QED BY <2>3, <2>5
<1> QED BY <1>2, <1>3

\* A process that gets or loses a client, with the cache to show for it, disturbs nothing else.
LEMMA ClientFrame ==
    ASSUME ZonesVault, NEW p \in DnsAgents, Zones!PassInv', dnsAccount.exists,
           UNCHANGED <<tokenRows, dnsAccount, refs, plantFile, planted, plantRaced, dnsClock>>,
           verified' \in [DnsAgents -> SUBSET [key : Zones!Roles \X Nat \X Nat, at : Nat]],
           probed' \in [DnsAgents -> SUBSET [row : Nat, at : Nat]],
           agent' = [q \in DnsAgents |-> agent'[q]],
           \A q \in DnsAgents : q # p => agent'[q] = agent[q],
           agent[p].at \notin Zones!PlantPlaces,
           \/ agent'[p].at = "idle"
           \/ /\ agent'[p].at \in {"probing", "client"} /\ agent'[p].role \in Zones!Roles
              /\ agent'[p].row \in DOMAIN tokenRows
              /\ Zones!RowOf(agent'[p].role, agent'[p].row)
              /\ agent'[p].at = "probing" =>
                   agent'[p].key = Zones!CacheKey(agent'[p].role, agent'[p].row)
    PROVE  ZonesVault'
<1>0. /\ Zones!ZoneTypes /\ Zones!RefsApart /\ Zones!AccountInv /\ Zones!PassInv
      /\ Zones!PlantInv /\ Zones!PlantedIsKept
  BY DEF ZonesVault
<1>1. /\ \A q \in DnsAgents : agent'[q].at = "stored" => agent'[q] = agent[q]
      /\ \A q \in DnsAgents : agent'[q].at \in Zones!PlantPlaces => agent'[q] = agent[q]
      /\ Zones!Planting' = Zones!Planting /\ p \notin Zones!Planting
  BY DEF Zones!PlantPlaces, Zones!Planting
<1>2. Zones!ZoneTypes'
  <2>1. \A q \in DnsAgents : Zones!Remembers(agent[q])'
    <3> SUFFICES ASSUME NEW q \in DnsAgents PROVE Zones!Remembers(agent[q])'
      OBVIOUS
    <3>1. CASE q = p
      BY <3>1 DEF Zones!Remembers, Zones!Places, Zones!PlantPlaces, Zones!Calling
    <3>2. CASE q # p
      BY <1>0, <3>2 DEF Zones!Remembers, Zones!ZoneTypes
    <3> QED BY <3>1, <3>2
  <2> QED BY <1>0, <2>1 DEF Zones!ZoneTypes
<1>3. \A x : Zones!PlantOwn(x) => Zones!PlantOwn(x)'
  BY <1>1 DEF Zones!PlantOwn, Zones!Is
<1>4. \A r, k : /\ Zones!RowOf(r, k) => Zones!RowOf(r, k)'
                /\ Zones!CacheKey(r, k)' = Zones!CacheKey(r, k)
  BY <1>3 DEF Zones!RowOf, Zones!CacheKey
<1>5. Zones!RefsApart'
  <2>1. ASSUME NEW q \in DnsAgents, agent'[q].at = "stored" PROVE Zones!ConnectOwn(q)'
    BY <1>0, <1>1, <2>1 DEF Zones!RefsApart, Zones!ConnectOwn, Zones!Is
  <2>2. ASSUME NEW q \in DnsAgents, agent'[q].at \in Zones!PlantPlaces
        PROVE  Zones!PlantOwn(agent[q].had)' /\ Zones!PlantOwn(agent[q].ref)'
    BY <1>0, <1>1, <1>3, <2>2 DEF Zones!RefsApart
  <2>3. ASSUME NEW q \in DnsAgents, agent'[q].at \in Zones!Calling
        PROVE  Zones!RowOf(agent[q].role, agent[q].row)' /\ (agent'[q].at = "probing" =>
                 agent'[q].key = Zones!CacheKey(agent[q].role, agent[q].row)')
    <3>1. CASE q = p
      BY <1>4, <2>3, <3>1 DEF Zones!Calling
    <3>2. CASE q # p
      BY <1>0, <1>4, <2>3, <3>2 DEF Zones!RefsApart, Zones!Is
    <3> QED BY <3>1, <3>2
  <2> QED BY <1>0, <1>3, <2>1, <2>2, <2>3 DEF Zones!RefsApart, Zones!Is, Zones!Calling
<1>6. Zones!AccountInv'
  BY <1>0 DEF Zones!AccountInv
<1>7. Zones!PlantInv' /\ Zones!PlantedIsKept'
  <2>1. \A x, t : Zones!InVault(x, t)' <=> Zones!InVault(x, t)
    BY DEF Zones!InVault
  <2>2. \A q \in Zones!Planting : agent'[q] = agent[q] /\ Zones!Planting' = Zones!Planting
    BY <1>1 DEF Zones!Planting
  <2>3. Zones!PlantInv'
    BY <1>0, <1>1, <2>1, <2>2 DEF Zones!PlantInv, Zones!PlantSound
  <2> QED BY <1>0, <2>1, <2>3 DEF Zones!PlantedIsKept
<1> QED BY <1>2, <1>5, <1>6, <1>7 DEF ZonesVault

\* A client that comes from the cache has its pass; the others have yet to be probed.
LEMMA ConstructKeeps ==
    ASSUME ZonesVault, NEW p \in DnsAgents, NEW role \in Zones!Roles, Zones!Construct(p, role)
    PROVE  ZonesVault' /\ (~unproved => ~unproved')
<1>0. /\ Zones!ZoneTypes /\ Zones!RefsApart /\ Zones!AccountInv /\ Zones!PassInv
      /\ Zones!PlantInv /\ Zones!PlantedIsKept
  BY DEF ZonesVault
<1>b. PICK k : k = Zones!NewestOf(dnsAccount.ref[role])
  OBVIOUS
<1> DEFINE key == Zones!CacheKey(role, k)
           stamps == {e \in verified[p] : e.key = key}
           young == /\ role # "origin" /\ provider = "cloudflare"
                    /\ \E e \in stamps : dnsClock - e.at < VerifyTtl
           client == [at |-> "client", role |-> role, row |-> k, token |-> tokenRows[k].token]
           probing == [at |-> "probing", role |-> role, row |-> k, key |-> key,
                       token |-> tokenRows[k].token]
<1>1. /\ agent[p].at = "idle" /\ dnsAccount.exists /\ k # 0 /\ probed' = probed
      /\ UNCHANGED <<tokenRows, dnsAccount, refs, plantFile, planted, plantRaced, dnsClock>>
      /\ \/ /\ young /\ agent' = [agent EXCEPT ![p] = client] /\ verified' = verified
            /\ unproved' = (unproved \/ ~Zones!Proved(p, k))
         \/ /\ agent' = [agent EXCEPT ![p] = probing] /\ unproved' = unproved
            /\ verified' = [verified EXCEPT ![p] = @ \ stamps]
  BY <1>b DEF Zones!Construct, Zones!Begin, Zones!Is, Zones!Goes, Zones!Holds, Zones!keeping
<1>2. k \in DOMAIN tokenRows /\ tokenRows[k].ref = dnsAccount.ref[role]
  BY <1>0, <1>1, <1>b, NewestFacts
<1>3. Zones!RowOf(role, k)
  BY <1>0, <1>2 DEF Zones!RowOf, Zones!RefsApart
<1>4. /\ verified \in [DnsAgents -> SUBSET [key : Zones!Roles \X Nat \X Nat, at : Nat]]
      /\ probed \in [DnsAgents -> SUBSET [row : Nat, at : Nat]] /\ dnsClock \in Nat
      /\ agent = [q \in DnsAgents |-> agent[q]]
  BY <1>0 DEF Zones!ZoneTypes
<1>5. /\ verified' \in [DnsAgents -> SUBSET [key : Zones!Roles \X Nat \X Nat, at : Nat]]
      /\ \A q \in DnsAgents : verified'[q] \subseteq verified[q]
  <2> HIDE DEF stamps, young, client, probing
  <2> QED BY <1>1, <1>4
<1>6. Zones!PassInv'
  <2> HIDE DEF stamps, young, client, probing
  <2> QED BY <1>0, <1>1, <1>5 DEF Zones!PassInv, Zones!CacheKey
<1>7. /\ agent' = [q \in DnsAgents |-> agent'[q]]
      /\ \A q \in DnsAgents : q # p => agent'[q] = agent[q]
      /\ agent'[p] = client \/ agent'[p] = probing
  <2> HIDE DEF stamps, young, client, probing
  <2> QED BY <1>1, <1>4
<1>8. /\ agent'[p].at \in {"probing", "client"} /\ agent'[p].role = role /\ agent'[p].row = k
      /\ agent'[p].at = "probing" => agent'[p].key = key
  <2> HIDE DEF key
  <2> QED BY <1>7
<1>9. agent[p].at \notin Zones!PlantPlaces
  BY <1>1 DEF Zones!PlantPlaces
<1>10. ZonesVault'
  <2> HIDE DEF stamps, young, client, probing
  <2> QED BY <1>1, <1>2, <1>3, <1>4, <1>5, <1>6, <1>7, <1>8, <1>9, ClientFrame
<1>11. young => Zones!Proved(p, k)
  <2> SUFFICES ASSUME NEW e \in verified[p], e.key = key, dnsClock - e.at < VerifyTtl
               PROVE  Zones!Proved(p, k)
    OBVIOUS
  <2>1. PICK r \in Zones!Roles \ {"origin"}, j \in DOMAIN tokenRows :
            e.key = Zones!CacheKey(r, j) /\ \E f \in probed[p] : f.row = j /\ f.at >= e.at
    BY <1>0 DEF Zones!PassInv
  <2>2. j = k
    BY <2>1 DEF Zones!CacheKey
  <2>3. PICK f \in probed[p] : f.row = k /\ f.at >= e.at
    BY <2>1, <2>2
  <2>4. f.at \in Nat /\ e.at \in Nat
    BY <1>4, <2>3
  <2>5. dnsClock - f.at < VerifyTtl
    BY <1>4, <2>3, <2>4, ZoneBounds
  <2> QED BY <2>3, <2>5 DEF Zones!Proved
<1>12. ~unproved => ~unproved'
  <2> HIDE DEF young
  <2> QED BY <1>1, <1>11, Zenon
<1> QED BY <1>10, <1>12

\* A pass is stamped with the row it is of.
LEMMA ProbePassesKeeps ==
    ASSUME ZonesVault, NEW p \in DnsAgents, Zones!ProbePasses(p) PROVE ZonesVault'
<1>0. /\ Zones!ZoneTypes /\ Zones!RefsApart /\ Zones!AccountInv /\ Zones!PassInv
      /\ Zones!PlantInv /\ Zones!PlantedIsKept
  BY DEF ZonesVault
<1>a. /\ \A k \in DOMAIN tokenRows : tokenRows[k].ref <= refs /\ tokenRows[k].ref \in Nat \ {0}
      /\ \A r \in Zones!Roles : dnsAccount.ref[r] <= refs /\ dnsAccount.ref[r] \in Nat
      /\ \A q \in DnsAgents : agent[q].at = "stored" => agent[q].row \in DOMAIN tokenRows
      /\ \A q \in DnsAgents : agent[q].at \in Zones!Calling => agent[q].row \in DOMAIN tokenRows
      /\ \A q \in DnsAgents : agent[q].at \in Zones!PlantPlaces =>
           agent[q].had \in 0..refs /\ agent[q].ref \in 0..refs
  BY <1>0, VaultTypes
<1>b. PICK a, k, role : a = agent[p] /\ k = a.row /\ role = a.role
  OBVIOUS
<1> DEFINE pass == [row |-> k, at |-> dnsClock]
           stamp == [key |-> a.key, at |-> dnsClock]
<1>1. /\ a.at = "probing"
      /\ agent' = [agent EXCEPT ![p] =
            [at |-> "client", role |-> role, row |-> k, token |-> tokenRows[k].token]]
      /\ verified' = (IF role = "origin" \/ provider = "route53" THEN verified
                      ELSE [verified EXCEPT ![p] = @ \cup {stamp}])
      /\ probed' = [probed EXCEPT ![p] = {f \in @ : f.row # k} \cup {pass}]
      /\ UNCHANGED <<tokenRows, dnsAccount, refs, plantFile, planted, plantRaced, dnsClock>>
  BY <1>b DEF Zones!ProbePasses, Zones!Is, Zones!Goes, Zones!Holds, Zones!keeping
<1>2. /\ k \in DOMAIN tokenRows /\ role \in Zones!Roles /\ Zones!RowOf(role, k)
      /\ a.key = Zones!CacheKey(role, k) /\ dnsAccount.exists
  BY <1>0, <1>1, <1>b DEF Zones!ZoneTypes, Zones!Remembers, Zones!RefsApart, Zones!AccountInv,
     Zones!Is, Zones!Calling
<1>3. /\ verified \in [DnsAgents -> SUBSET [key : Zones!Roles \X Nat \X Nat, at : Nat]]
      /\ probed \in [DnsAgents -> SUBSET [row : Nat, at : Nat]] /\ dnsClock \in Nat
      /\ agent = [q \in DnsAgents |-> agent[q]] /\ k \in Nat
  BY <1>0, <1>2 DEF Zones!ZoneTypes
<1>4. a.key \in Zones!Roles \X Nat \X Nat
  BY <1>2, <1>3, <1>a DEF Zones!CacheKey
<1>5. /\ pass \in [row : Nat, at : Nat] /\ pass.row = k /\ pass.at = dnsClock
      /\ stamp \in [key : Zones!Roles \X Nat \X Nat, at : Nat]
      /\ stamp.key = a.key /\ stamp.at = dnsClock
  BY <1>3, <1>4
<1> HIDE DEF pass, stamp
<1>6. /\ verified' \in [DnsAgents -> SUBSET [key : Zones!Roles \X Nat \X Nat, at : Nat]]
      /\ probed' \in [DnsAgents -> SUBSET [row : Nat, at : Nat]]
      /\ \A q \in DnsAgents : q # p => verified'[q] = verified[q] /\ probed'[q] = probed[q]
      /\ \A e \in verified'[p] : e \in verified[p] \/ (e = stamp /\ role # "origin")
      /\ probed'[p] = {f \in probed[p] : f.row # k} \cup {pass}
  <2>1. probed' \in [DnsAgents -> SUBSET [row : Nat, at : Nat]]
    BY <1>1, <1>3, <1>5
  <2>2. verified' \in [DnsAgents -> SUBSET [key : Zones!Roles \X Nat \X Nat, at : Nat]]
    <3> DEFINE E == [key : Zones!Roles \X Nat \X Nat, at : Nat]
    <3>1. verified \in [DnsAgents -> SUBSET E] /\ stamp \in E
      BY <1>3, <1>5
    <3> HIDE DEF E
    <3>2. verified' \in [DnsAgents -> SUBSET E]
      BY <1>1, <3>1
    <3> QED BY <3>2 DEF E
  <2> QED BY <1>1, <1>3, <2>1, <2>2
<1>7. Zones!PassInv'
  <2> SUFFICES ASSUME NEW q \in DnsAgents
               PROVE  /\ \A f \in probed'[q] : f.at <= dnsClock
                      /\ \A e \in verified'[q] :
                          \E r \in Zones!Roles \ {"origin"}, j \in DOMAIN tokenRows :
                            /\ e.key = Zones!CacheKey(r, j)
                            /\ tokenRows[j].ref = dnsAccount.ref[r]
                            /\ e.at <= dnsClock /\ \E f \in probed'[q] : f.row = j /\ f.at >= e.at
    BY <1>1 DEF Zones!PassInv, Zones!CacheKey
  <2>1. CASE q # p
    BY <1>0, <1>6, <2>1 DEF Zones!PassInv
  <2>2. CASE q = p
    <3>1. \A f \in probed'[p] : f.at <= dnsClock
      BY <1>0, <1>3, <1>5, <1>6 DEF Zones!PassInv
    <3>2. ASSUME NEW e \in verified'[p]
          PROVE  \E r \in Zones!Roles \ {"origin"}, j \in DOMAIN tokenRows :
                    /\ e.key = Zones!CacheKey(r, j)
                    /\ tokenRows[j].ref = dnsAccount.ref[r]
                    /\ e.at <= dnsClock /\ \E f \in probed'[p] : f.row = j /\ f.at >= e.at
      <4>1. CASE e = stamp /\ role # "origin"
        <5>1. tokenRows[k].ref = dnsAccount.ref[role] /\ pass \in probed'[p]
          BY <1>2, <1>6, <4>1 DEF Zones!RowOf
        <5> QED BY <1>2, <1>3, <1>5, <4>1, <5>1
      <4>2. CASE e \in verified[p]
        <5>1. PICK r \in Zones!Roles \ {"origin"}, j \in DOMAIN tokenRows :
                  /\ e.key = Zones!CacheKey(r, j) /\ tokenRows[j].ref = dnsAccount.ref[r]
                  /\ e.at <= dnsClock /\ \E f \in probed[p] : f.row = j /\ f.at >= e.at
          BY <1>0, <4>2 DEF Zones!PassInv
        <5>2. \E f \in probed'[p] : f.row = j /\ f.at >= e.at
          <6>1. CASE j = k
            BY <1>3, <1>5, <1>6, <5>1, <6>1
          <6>2. CASE j # k
            BY <1>6, <5>1, <6>2
          <6> QED BY <6>1, <6>2
        <5> QED BY <5>1, <5>2
      <4> QED BY <1>6, <4>1, <4>2
    <3> QED BY <2>2, <3>1, <3>2
  <2> QED BY <2>1, <2>2
<1>8. /\ agent' = [q \in DnsAgents |-> agent'[q]]
      /\ \A q \in DnsAgents : q # p => agent'[q] = agent[q]
      /\ agent'[p].at = "client" /\ agent'[p].role = role /\ agent'[p].row = k
  BY <1>1, <1>3
<1>9. agent[p].at \notin Zones!PlantPlaces
  BY <1>1, <1>b DEF Zones!PlantPlaces
<1> QED BY <1>1, <1>2, <1>6, <1>7, <1>8, <1>9, ClientFrame

\* on_auth_error drops the entry of the client together with the passes of its row.
LEMMA ForgetKeeps ==
    ASSUME ZonesVault, NEW p \in DnsAgents, agent[p].at \in Zones!Calling, Zones!Forget(p),
           agent' = [agent EXCEPT ![p] = Zones!Idle],
           UNCHANGED <<tokenRows, dnsAccount, refs, plantFile, planted, plantRaced, dnsClock>>
    PROVE  ZonesVault'
<1>0. /\ Zones!ZoneTypes /\ Zones!RefsApart /\ Zones!AccountInv /\ Zones!PassInv
      /\ Zones!PlantInv /\ Zones!PlantedIsKept
  BY DEF ZonesVault
<1>a. /\ \A k \in DOMAIN tokenRows : tokenRows[k].ref <= refs /\ tokenRows[k].ref \in Nat \ {0}
      /\ \A r \in Zones!Roles : dnsAccount.ref[r] <= refs /\ dnsAccount.ref[r] \in Nat
      /\ \A q \in DnsAgents : agent[q].at = "stored" => agent[q].row \in DOMAIN tokenRows
      /\ \A q \in DnsAgents : agent[q].at \in Zones!Calling => agent[q].row \in DOMAIN tokenRows
      /\ \A q \in DnsAgents : agent[q].at \in Zones!PlantPlaces =>
           agent[q].had \in 0..refs /\ agent[q].ref \in 0..refs
  BY <1>0, VaultTypes
<1>b. PICK a, k, role : a = agent[p] /\ k = a.row /\ role = a.role
  OBVIOUS
<1>1. /\ verified' = (IF role = "origin" THEN verified
                      ELSE [verified EXCEPT ![p] = {e \in @ : e.key # Zones!CacheKey(role, k)}])
      /\ probed' = [probed EXCEPT ![p] = {f \in @ : f.row # k}]
  BY <1>b DEF Zones!Forget
<1>2. /\ k \in DOMAIN tokenRows /\ role \in Zones!Roles /\ Zones!RowOf(role, k) /\ dnsAccount.exists
  BY <1>0, <1>b DEF Zones!ZoneTypes, Zones!Remembers, Zones!RefsApart, Zones!AccountInv, Zones!Calling
<1>3. /\ verified \in [DnsAgents -> SUBSET [key : Zones!Roles \X Nat \X Nat, at : Nat]]
      /\ probed \in [DnsAgents -> SUBSET [row : Nat, at : Nat]]
      /\ agent = [q \in DnsAgents |-> agent[q]]
  BY <1>0 DEF Zones!ZoneTypes
<1>4. /\ verified' \in [DnsAgents -> SUBSET [key : Zones!Roles \X Nat \X Nat, at : Nat]]
      /\ probed' \in [DnsAgents -> SUBSET [row : Nat, at : Nat]]
      /\ \A q \in DnsAgents : q # p => verified'[q] = verified[q] /\ probed'[q] = probed[q]
      /\ \A e \in verified'[p] : e \in verified[p]
      /\ role # "origin" => \A e \in verified'[p] : e.key # Zones!CacheKey(role, k)
      /\ probed'[p] = {f \in probed[p] : f.row # k}
  <2> DEFINE E == [key : Zones!Roles \X Nat \X Nat, at : Nat]
             F == [row : Nat, at : Nat]
  <2> HIDE DEF E, F
  <2>1. verified \in [DnsAgents -> SUBSET E] /\ probed \in [DnsAgents -> SUBSET F]
    BY <1>3 DEF E, F
  <2>2. /\ verified' \in [DnsAgents -> SUBSET E] /\ probed' \in [DnsAgents -> SUBSET F]
        /\ \A q \in DnsAgents : q # p => verified'[q] = verified[q] /\ probed'[q] = probed[q]
        /\ \A e \in verified'[p] : e \in verified[p]
        /\ role # "origin" => \A e \in verified'[p] : e.key # Zones!CacheKey(role, k)
        /\ probed'[p] = {f \in probed[p] : f.row # k}
    BY <1>1, <2>1
  <2> QED BY <2>2 DEF E, F
<1>5. Zones!PassInv'
  <2> SUFFICES ASSUME NEW q \in DnsAgents
               PROVE  /\ \A f \in probed'[q] : f.at <= dnsClock
                      /\ \A e \in verified'[q] :
                          \E r \in Zones!Roles \ {"origin"}, j \in DOMAIN tokenRows :
                            /\ e.key = Zones!CacheKey(r, j)
                            /\ tokenRows[j].ref = dnsAccount.ref[r]
                            /\ e.at <= dnsClock /\ \E f \in probed'[q] : f.row = j /\ f.at >= e.at
    BY DEF Zones!PassInv, Zones!CacheKey
  <2>1. CASE q # p
    BY <1>0, <1>4, <2>1 DEF Zones!PassInv
  <2>2. CASE q = p
    <3>1. \A f \in probed'[p] : f.at <= dnsClock
      BY <1>0, <1>4 DEF Zones!PassInv
    <3>2. ASSUME NEW e \in verified'[p]
          PROVE  \E r \in Zones!Roles \ {"origin"}, j \in DOMAIN tokenRows :
                    /\ e.key = Zones!CacheKey(r, j)
                    /\ tokenRows[j].ref = dnsAccount.ref[r]
                    /\ e.at <= dnsClock /\ \E f \in probed'[p] : f.row = j /\ f.at >= e.at
      <4>1. PICK r \in Zones!Roles \ {"origin"}, j \in DOMAIN tokenRows :
                /\ e.key = Zones!CacheKey(r, j) /\ tokenRows[j].ref = dnsAccount.ref[r]
                /\ e.at <= dnsClock /\ \E f \in probed[p] : f.row = j /\ f.at >= e.at
        BY <1>0, <1>4 DEF Zones!PassInv
      <4>2. j # k
        <5> SUFFICES ASSUME j = k PROVE FALSE
          OBVIOUS
        <5>1. tokenRows[k].ref # 0 /\ tokenRows[k].ref = dnsAccount.ref[r] /\ r \in {"dns", "edge"}
          BY <1>2, <1>a, <4>1 DEF Zones!Roles
        <5>2. role # "origin"
          BY <1>2, <5>1 DEF Zones!RowOf, Zones!PlantOwn
        <5>3. dnsAccount.ref[role] = dnsAccount.ref[r] /\ role \in {"dns", "edge"}
          BY <1>2, <5>1, <5>2 DEF Zones!RowOf, Zones!Roles
        <5>4. role = r
          BY <1>0, <5>1, <5>3 DEF Zones!RefsApart
        <5> QED BY <1>4, <4>1, <5>2, <5>4
      <4>3. \E f \in probed'[p] : f.row = j /\ f.at >= e.at
        BY <1>4, <4>1, <4>2
      <4> QED BY <4>1, <4>3
    <3> QED BY <2>2, <3>1, <3>2
  <2> QED BY <2>1, <2>2
<1>6. /\ agent' = [q \in DnsAgents |-> agent'[q]]
      /\ \A q \in DnsAgents : q # p => agent'[q] = agent[q]
      /\ agent'[p].at = "idle"
  BY <1>3 DEF Zones!Idle
<1>7. agent[p].at \notin Zones!PlantPlaces
  BY DEF Zones!PlantPlaces, Zones!Calling
<1> QED BY <1>2, <1>4, <1>5, <1>6, <1>7, ClientFrame

\* The rows P of R have id d; the ids of R are among the first m.
Numbered(R, P, d) == \A k \in P : k \in DOMAIN R /\ R[k].id = d
Below(R, m) == (m > 0 => R # <<>>) /\ \A k \in DOMAIN R : R[k].id \in 1..m
Posted(R, m, row, S) == Below(R, m) /\ row.id = m + 1 /\ S = Append(R, row)

\* A PUT keeps the ids and so the order of the list.
LEMMA ListedPut ==
    ASSUME NEW E, NEW R \in Seq(E), NEW P, NEW row \in E,
           Numbered(R, P, row.id), Zones!Listed(R), NEW S, S = Zones!Replace(R, P, row)
    PROVE  /\ S \in Seq(E) /\ Len(S) = Len(R) /\ DOMAIN S = DOMAIN R
           /\ \A j \in DOMAIN R : S[j].id = R[j].id
           /\ \A j \in P : S[j] = row
           /\ \A j \in DOMAIN R \ P : S[j] = R[j]
           /\ Zones!Listed(S) /\ (S = <<>> <=> R = <<>>)
<1>1. /\ DOMAIN R = 1..Len(R) /\ Len(R) \in Nat /\ DOMAIN S = DOMAIN R
      /\ \A j \in DOMAIN R : R[j] \in E
  BY DEF Zones!Replace
<1>2. \A j \in DOMAIN R : /\ S[j] \in E /\ S[j].id = R[j].id
                          /\ j \in P => S[j] = row
                          /\ j \notin P => S[j] = R[j]
  BY <1>1 DEF Zones!Replace, Numbered
<1>3. S = [j \in 1..Len(R) |-> S[j]]
  BY <1>1 DEF Zones!Replace
<1>4. S \in Seq(E) /\ Len(S) = Len(R)
  BY <1>1, <1>2, <1>3
<1>5. S = <<>> <=> R = <<>>
  BY <1>1, <1>4
<1>6. Zones!Listed(S)
  <2>1. \A i, j \in DOMAIN S : i < j => S[i].id < S[j].id
    BY <1>1, <1>2 DEF Zones!Listed
  <2>2. S # <<>> => S[1].id = 1
    BY <1>1, <1>2, <1>5 DEF Zones!Listed
  <2> QED BY <2>1, <2>2 DEF Zones!Listed
<1>7. P \subseteq DOMAIN R
  BY DEF Numbered
<1>8. /\ \A j \in DOMAIN R : S[j].id = R[j].id
      /\ \A j \in P : S[j] = row
      /\ \A j \in DOMAIN R \ P : S[j] = R[j]
  BY <1>2, <1>7
<1> QED BY <1>1, <1>4, <1>5, <1>6, <1>8, Zenon

\* A POST appends a row with the next id.
LEMMA ListedPost ==
    ASSUME NEW E, NEW R \in Seq(E), NEW m \in Nat, NEW row \in E, Zones!Listed(R),
           NEW S, Posted(R, m, row, S)
    PROVE  /\ S \in Seq(E) /\ Len(S) = Len(R) + 1 /\ S # <<>>
           /\ \A j \in DOMAIN R : S[j] = R[j]
           /\ S[Len(R) + 1] = row
           /\ Zones!Listed(S) /\ Below(S, m + 1)
<1>3. Below(R, m) /\ row.id = m + 1 /\ S = Append(R, row)
  BY DEF Posted
<1>4. /\ S \in Seq(E) /\ Len(S) = Len(R) + 1 /\ S # <<>> /\ Len(R) \in Nat
      /\ DOMAIN R = 1..Len(R) /\ DOMAIN S = 1..(Len(R) + 1)
      /\ \A j \in DOMAIN R : S[j] = R[j] /\ R[j] \in E
      /\ S[Len(R) + 1] = row
  BY <1>3
<1>5. Below(S, m + 1)
  BY <1>3, <1>4 DEF Below
<1>6. \A i, j \in DOMAIN S : i < j => S[i].id < S[j].id
  <2> SUFFICES ASSUME NEW i \in DOMAIN S, NEW j \in DOMAIN S, i < j PROVE S[i].id < S[j].id
    OBVIOUS
  <2>1. i \in DOMAIN R
    BY <1>4
  <2>2. CASE j \in DOMAIN R
    BY <1>4, <2>1, <2>2 DEF Zones!Listed
  <2>3. CASE j \notin DOMAIN R
    <3>1. j = Len(R) + 1
      BY <1>4, <2>3
    <3> QED BY <1>3, <1>4, <2>1, <3>1 DEF Below
  <2> QED BY <2>2, <2>3
<1>7. S[1].id = 1
  <2>1. CASE R = <<>>
    <3>1. Len(R) = 0 /\ m = 0
      BY <1>3, <2>1 DEF Below
    <3> QED BY <1>3, <1>4, <3>1
  <2>2. CASE R # <<>>
    <3>1. 1 \in DOMAIN R
      BY <1>4, <2>2
    <3> QED BY <1>4, <2>2, <3>1 DEF Zones!Listed
  <2> QED BY <2>1, <2>2
<1>8. Zones!Listed(S)
  BY <1>6, <1>7 DEF Zones!Listed
<1> QED BY <1>4, <1>5, <1>8

\* A DELETE of another row than the oldest keeps the list in order and nonempty.
LEMMA ListedDrop ==
    ASSUME NEW E, NEW R \in Seq(E), NEW k \in DOMAIN R, R[k].id > 1,
           Zones!Listed(R), NEW S, S = Zones!Drop(R, k)
    PROVE  /\ S \in Seq(E) /\ Len(S) = Len(R) - 1 /\ S # <<>>
           /\ DOMAIN S = 1..(Len(R) - 1)
           /\ \A j \in DOMAIN S : (j < k => S[j] = R[j]) /\ (j >= k => S[j] = R[j + 1])
           /\ Zones!Listed(S)
<1>2. /\ Len(R) \in Nat /\ DOMAIN R = 1..Len(R) /\ k \in 1..Len(R) /\ R # <<>>
      /\ \A j \in DOMAIN R : R[j] \in E
  OBVIOUS
<1>3. R[1].id = 1 /\ k # 1 /\ Len(R) - 1 \in Nat /\ Len(R) - 1 >= 1
  BY <1>2 DEF Zones!Listed
<1>4. S = [j \in 1..(Len(R) - 1) |-> IF j < k THEN R[j] ELSE R[j + 1]]
  BY DEF Zones!Drop
<1>5. \A j \in 1..(Len(R) - 1) : /\ j < k => S[j] = R[j]
                                 /\ j >= k => S[j] = R[j + 1]
                                 /\ S[j] \in E
  <2> SUFFICES ASSUME NEW j \in 1..(Len(R) - 1)
               PROVE  /\ j < k => S[j] = R[j]
                      /\ j >= k => S[j] = R[j + 1]
                      /\ S[j] \in E
    OBVIOUS
  <2>1. S[j] = IF j < k THEN R[j] ELSE R[j + 1]
    BY <1>4
  <2>2. j \in DOMAIN R /\ j + 1 \in DOMAIN R /\ j \in Int /\ k \in Int
    BY <1>2
  <2>3. R[j] \in E /\ R[j + 1] \in E
    BY <1>2, <2>2
  <2> QED BY <2>1, <2>3
<1>6. S \in Seq(E) /\ Len(S) = Len(R) - 1 /\ DOMAIN S = 1..(Len(R) - 1)
  BY <1>3, <1>4, <1>5
<1>7. S # <<>>
  BY <1>3, <1>6
<1>8. \A i, j \in DOMAIN S : i < j => S[i].id < S[j].id
  <2> SUFFICES ASSUME NEW i \in 1..(Len(R) - 1), NEW j \in 1..(Len(R) - 1), i < j
               PROVE  S[i].id < S[j].id
    BY <1>6
  <2>1. /\ i \in DOMAIN R /\ i + 1 \in DOMAIN R /\ j \in DOMAIN R /\ j + 1 \in DOMAIN R
        /\ i \in Int /\ j \in Int /\ k \in Int
    BY <1>2
  <2>2. (i < k => S[i] = R[i]) /\ (i >= k => S[i] = R[i + 1])
    BY <1>5, <2>1
  <2>3. (j < k => S[j] = R[j]) /\ (j >= k => S[j] = R[j + 1])
    BY <1>5, <2>1
  <2>4. \A x, y \in DOMAIN R : x < y => R[x].id < R[y].id
    BY DEF Zones!Listed
  <2>5. CASE j < k
    BY <2>1, <2>2, <2>3, <2>4, <2>5
  <2>6. CASE j >= k /\ i >= k
    <3>1. S[i] = R[i + 1] /\ S[j] = R[j + 1] /\ i + 1 < j + 1
      BY <2>1, <2>2, <2>3, <2>6
    <3> QED BY <2>1, <2>4, <3>1
  <2>7. CASE j >= k /\ i < k
    <3>1. S[i] = R[i] /\ S[j] = R[j + 1] /\ i < j + 1
      BY <2>1, <2>2, <2>3, <2>7
    <3> QED BY <2>1, <2>4, <3>1
  <2> QED BY <2>1, <2>5, <2>6, <2>7
<1>9. S[1].id = 1
  BY <1>2, <1>3, <1>5
<1>10. Zones!Listed(S)
  BY <1>8, <1>9 DEF Zones!Listed
<1> QED BY <1>5, <1>6, <1>7, <1>10

\* HalfWritten() of rows R, for a wish w, a list c and the number i of the next call.
Half(R, w, c, i) ==
    LET n == Len(w)
        done == IF i <= n THEN i - 1 ELSE n
        rest == IF i <= Len(c) THEN Len(c) - i + 1 ELSE 0
    IN
    /\ Len(R) = done + rest
    /\ \A j \in 1..done : R[j].value = w[j]
    /\ \A j \in 1..rest : R[done + j] = c[i + j - 1]

\* The place in the list a lone upsert comes to with call i.
Spot(w, i) == IF i <= Len(w) THEN i ELSE Len(w) + 1

\* The row a lone upsert comes to is there, as it was listed and alone with its id.
LEMMA HalfAt ==
    ASSUME NEW E, NEW R \in Seq(E), NEW V, NEW w \in Seq(V), NEW c \in Seq(E), NEW i \in Nat \ {0},
           Half(R, w, c, i), Zones!Listed(R), i <= Len(c), \A e \in E : e.id \in Nat,
           NEW x, x = Spot(w, i)
    PROVE  /\ x \in DOMAIN R /\ R[x] = c[i]
           /\ \A j \in DOMAIN R : R[j].id = c[i].id => j = x
<1>1. \A e \in E : e.id \in Nat
  OBVIOUS
<1>2. /\ Len(R) \in Nat /\ DOMAIN R = 1..Len(R) /\ Len(w) \in Nat /\ Len(c) \in Nat
      /\ \A j \in DOMAIN R : R[j] \in E
  BY <1>1
<1>3. PICK d : d = IF i <= Len(w) THEN i - 1 ELSE Len(w)
  OBVIOUS
<1>4. d \in Nat /\ x = d + 1
  BY <1>2, <1>3 DEF Spot
<1>5. /\ Len(R) = d + (Len(c) - i + 1)
      /\ \A j \in 1..(Len(c) - i + 1) : R[d + j] = c[i + j - 1]
  BY <1>3 DEF Half
<1>6. 1 \in 1..(Len(c) - i + 1) /\ i + 1 - 1 = i
  BY <1>2
<1>7. x \in DOMAIN R /\ R[x] = c[i]
  <2>1. R[d + 1] = c[i + 1 - 1]
    BY <1>5, <1>6
  <2>2. d + 1 \in 1..Len(R)
    BY <1>2, <1>4, <1>5
  <2> QED BY <1>2, <1>4, <1>6, <2>1, <2>2
<1>8. ASSUME NEW j \in DOMAIN R, R[j].id = c[i].id PROVE j = x
  <2>1. R[j].id \in Nat /\ R[x].id \in Nat /\ j \in Int /\ x \in Int
    BY <1>1, <1>2, <1>7
  <2>2. ~(j < x) /\ ~(x < j)
    BY <1>7, <1>8, <2>1 DEF Zones!Listed
  <2> QED BY <2>1, <2>2
<1> QED BY <1>7, <1>8

\* A row that is kept or PUT carries its value.
LEMMA HalfPut ==
    ASSUME NEW E, NEW R \in Seq(E), NEW V, NEW w \in Seq(V), NEW c \in Seq(E), NEW i \in Nat \ {0},
           Half(R, w, c, i), i <= Len(c), i <= Len(w),
           NEW S, Len(S) = Len(R), \A j \in DOMAIN R \ {i} : S[j] = R[j], S[i].value = w[i]
    PROVE  Half(S, w, c, i + 1)
<1>1. Len(R) \in Nat /\ Len(w) \in Nat /\ Len(c) \in Nat /\ DOMAIN R = 1..Len(R)
  OBVIOUS
<1>2. /\ Len(R) = (i - 1) + (Len(c) - i + 1)
      /\ \A j \in 1..(i - 1) : R[j].value = w[j]
      /\ \A j \in 1..(Len(c) - i + 1) : R[(i - 1) + j] = c[i + j - 1]
  BY DEF Half
<1>3. PICK r : r = IF i + 1 <= Len(c) THEN Len(c) - (i + 1) + 1 ELSE 0
  OBVIOUS
<1>4. r = Len(c) - i /\ r \in Nat
  BY <1>1, <1>3
<1>5. (IF i + 1 <= Len(w) THEN (i + 1) - 1 ELSE Len(w)) = i
  BY <1>1
<1>6. Len(S) = i + r
  BY <1>1, <1>2, <1>4
<1>7. ASSUME NEW j \in 1..i PROVE S[j].value = w[j]
  <2>1. CASE j = i
    BY <2>1
  <2>2. CASE j # i
    <3>1. j \in 1..(i - 1) /\ j \in DOMAIN R \ {i}
      BY <1>1, <1>2, <2>2
    <3> QED BY <1>2, <3>1
  <2> QED BY <2>1, <2>2
<1>8. ASSUME NEW j \in 1..r PROVE S[i + j] = c[(i + 1) + j - 1]
  <2>a. i \in Int /\ j \in 1..(Len(c) - i) /\ Len(R) = Len(c)
    BY <1>1, <1>2, <1>4
  <2>b. i + j \in DOMAIN R \ {i}
    BY <1>1, <2>a
  <2>1. j + 1 \in 1..(Len(c) - i + 1) /\ (i - 1) + (j + 1) = i + j
        /\ i + (j + 1) - 1 = (i + 1) + j - 1 /\ i + j \in DOMAIN R \ {i}
    BY <1>1, <2>a, <2>b
  <2>2. R[(i - 1) + (j + 1)] = c[i + (j + 1) - 1]
    BY <1>2, <2>1
  <2> QED BY <2>1, <2>2
<1> QED BY <1>3, <1>5, <1>6, <1>7, <1>8 DEF Half

\* A value beyond the listed rows is appended.
LEMMA HalfPost ==
    ASSUME NEW E, NEW R \in Seq(E), NEW V, NEW w \in Seq(V), NEW c \in Seq(E), NEW i \in Nat \ {0},
           Half(R, w, c, i), i > Len(c), i <= Len(w),
           NEW S, Len(S) = Len(R) + 1, \A j \in DOMAIN R : S[j] = R[j],
           S[Len(R) + 1].value = w[i]
    PROVE  Half(S, w, c, i + 1)
<1>1. Len(R) \in Nat /\ Len(w) \in Nat /\ Len(c) \in Nat /\ DOMAIN R = 1..Len(R)
  OBVIOUS
<1>2. Len(R) = (i - 1) + 0 /\ \A j \in 1..(i - 1) : R[j].value = w[j]
  BY <1>1 DEF Half
<1>3. PICK r : r = IF i + 1 <= Len(c) THEN Len(c) - (i + 1) + 1 ELSE 0
  OBVIOUS
<1>4. r = 0
  BY <1>1, <1>3
<1>5. (IF i + 1 <= Len(w) THEN (i + 1) - 1 ELSE Len(w)) = i
  BY <1>1
<1>6. Len(S) = i + r
  BY <1>1, <1>2, <1>4
<1>7. ASSUME NEW j \in 1..i PROVE S[j].value = w[j]
  <2>1. CASE j = i
    <3>1. j = Len(R) + 1
      BY <1>2, <2>1
    <3> QED BY <2>1, <3>1
  <2>2. CASE j # i
    <3>1. j \in 1..(i - 1) /\ j \in DOMAIN R
      BY <1>1, <1>2, <2>2
    <3> QED BY <1>2, <3>1
  <2> QED BY <2>1, <2>2
<1>8. \A j \in 1..r : S[i + j] = c[(i + 1) + j - 1]
  BY <1>4
<1> QED BY <1>3, <1>5, <1>6, <1>7, <1>8 DEF Half

\* A row beyond the wish is dropped, the rows behind it move up.
LEMMA HalfDrop ==
    ASSUME NEW E, NEW R \in Seq(E), NEW V, NEW w \in Seq(V), NEW c \in Seq(E), NEW i \in Nat \ {0},
           Half(R, w, c, i), i <= Len(c), i > Len(w),
           NEW S, Len(S) = Len(R) - 1, DOMAIN S = 1..(Len(R) - 1),
           \A j \in DOMAIN S : (j < Len(w) + 1 => S[j] = R[j]) /\ (j >= Len(w) + 1 => S[j] = R[j + 1])
    PROVE  Half(S, w, c, i + 1)
<1>1. Len(R) \in Nat /\ Len(w) \in Nat /\ Len(c) \in Nat
  OBVIOUS
<1>2. /\ Len(R) = Len(w) + (Len(c) - i + 1)
      /\ \A j \in 1..Len(w) : R[j].value = w[j]
      /\ \A j \in 1..(Len(c) - i + 1) : R[Len(w) + j] = c[i + j - 1]
  <2>1. ~(i <= Len(w))
    BY <1>1
  <2> QED BY <2>1, Zenon DEF Half
<1>3. PICK r : r = IF i + 1 <= Len(c) THEN Len(c) - (i + 1) + 1 ELSE 0
  OBVIOUS
<1>4. r = Len(c) - i /\ r \in Nat
  BY <1>1, <1>3
<1>5. (IF i + 1 <= Len(w) THEN (i + 1) - 1 ELSE Len(w)) = Len(w)
  BY <1>1
<1>6. Len(S) = Len(w) + r
  BY <1>1, <1>2, <1>4
<1>7. ASSUME NEW j \in 1..Len(w) PROVE S[j].value = w[j]
  <2>1. j \in DOMAIN S /\ j < Len(w) + 1
    BY <1>1, <1>2
  <2> QED BY <1>2, <2>1
<1>8. ASSUME NEW j \in 1..r PROVE S[Len(w) + j] = c[(i + 1) + j - 1]
  <2>1. /\ j + 1 \in 1..(Len(c) - i + 1) /\ Len(w) + (j + 1) = (Len(w) + j) + 1
        /\ i + (j + 1) - 1 = (i + 1) + j - 1
        /\ Len(w) + j \in DOMAIN S /\ Len(w) + j >= Len(w) + 1
    BY <1>1, <1>2, <1>4
  <2>2. R[Len(w) + (j + 1)] = c[i + (j + 1) - 1]
    BY <1>2, <2>1
  <2>3. S[Len(w) + j] = R[(Len(w) + j) + 1]
    BY <2>1
  <2> QED BY <2>1, <2>2, <2>3
<1> QED BY <1>3, <1>5, <1>6, <1>7, <1>8 DEF Half

\* At the end the rows are the values asked for.
LEMMA HalfEnd ==
    ASSUME NEW E, NEW R \in Seq(E), NEW V, NEW w \in Seq(V), NEW c \in Seq(E), NEW i \in Nat \ {0},
           Half(R, w, c, i), i > Len(c), i > Len(w)
    PROVE  Zones!SameValues(R, w)
<1>1. /\ Len(R) \in Nat /\ Len(w) \in Nat /\ Len(c) \in Nat
      /\ DOMAIN R = 1..Len(R) /\ DOMAIN w = 1..Len(w)
  OBVIOUS
<1>2. Len(R) = Len(w) /\ \A j \in 1..Len(w) : R[j].value = w[j]
  <2>1. ~(i <= Len(w)) /\ ~(i <= Len(c))
    BY <1>1
  <2>2. Len(R) = Len(w) + 0 /\ \A j \in 1..Len(w) : R[j].value = w[j]
    BY <2>1, Zenon DEF Half
  <2> QED BY <1>1, <2>2
<1>3. PICK f : f = [j \in DOMAIN w |-> j]
  OBVIOUS
<1>4. f \in [DOMAIN w -> DOMAIN R] /\ \A j \in DOMAIN w : f[j] = j
  BY <1>1, <1>2, <1>3
<1>5. /\ \A j, l \in DOMAIN w : f[j] = f[l] => j = l
      /\ \A j \in DOMAIN w : R[f[j]].value = w[j]
  BY <1>1, <1>2, <1>4
<1> QED BY <1>2, <1>4, <1>5, Zenon DEF Zones!SameValues

\* An upsert on its way has a wish with a value and a list of rows.
LEMMA WritingFacts ==
    ASSUME Zones!ServedInv, NEW p \in DnsAgents, NEW a, a = agent[p], a.at = "writing"
    PROVE  /\ a = [at |-> "writing", role |-> a.role, row |-> a.row, token |-> a.token,
                   wish |-> a.wish, current |-> a.current, next |-> a.next, alone |-> a.alone]
           /\ a.wish \in Wishes /\ a.wish \in Seq(Zones!Texts) /\ a.wish # <<>>
           /\ Len(a.wish) \in Nat \ {0}
           /\ a.current \in Seq([id : Nat, value : Zones!Texts])
           /\ a.next \in Nat \ {0} /\ a.alone \in BOOLEAN
           /\ provider = "cloudflare" => Zones!Listed(a.current)
           /\ a.alone /\ provider = "cloudflare" => Half(records, a.wish, a.current, a.next)
           /\ a.alone /\ provider = "route53" =>
                IF a.next = 1 THEN records = a.current ELSE Zones!SameValues(records, a.wish)
           /\ \A q \in DnsAgents : agent[q].at = "writing" /\ agent[q].alone => q = p \/ ~a.alone
<1>1. Zones!Writing(p)
  BY DEF Zones!ServedInv, Zones!Is
<1>2. /\ a = [at |-> "writing", role |-> a.role, row |-> a.row, token |-> a.token,
                   wish |-> a.wish, current |-> a.current, next |-> a.next, alone |-> a.alone]
      /\ a.wish \in Wishes /\ a.current \in Seq([id : Nat, value : Zones!Texts])
      /\ a.next \in Nat \ {0} /\ a.alone \in BOOLEAN
      /\ provider = "cloudflare" => Zones!Listed(a.current)
      /\ a.alone /\ provider = "route53" =>
           IF a.next = 1 THEN records = a.current ELSE Zones!SameValues(records, a.wish)
  BY <1>1, Zenon DEF Zones!Writing
<1>3. a.wish \in Seq(Zones!Texts) /\ a.wish # <<>>
  BY <1>2, ZoneBounds
<1>4. Len(a.wish) \in Nat \ {0}
  BY <1>3
<1>5. a.alone /\ provider = "cloudflare" => Zones!HalfWritten(a)
  BY <1>1, Zenon DEF Zones!Writing
<1>6. Zones!HalfWritten(a) => Half(records, a.wish, a.current, a.next)
  BY Zenon DEF Zones!HalfWritten, Half
<1>7. a.alone => \A q \in DnsAgents \ {p} : ~Zones!Is(q, "writing")
  BY <1>1, Zenon DEF Zones!Writing
<1> QED BY <1>2, <1>3, <1>4, <1>5, <1>6, <1>7 DEF Zones!Is

\* A call of the loop goes on to the next number; it proves that no other upsert is alone.
LEMMA WriteStep ==
    ASSUME Zones!ServedInv, provider = "cloudflare", provider' = provider,
           NEW p \in DnsAgents, NEW a, a = agent[p], a.at = "writing",
           agent' = [agent EXCEPT ![p] = [a EXCEPT !.next = a.next + 1]],
           recordIds' \in Nat, records' \in Seq([id : Nat, value : Zones!Texts]),
           Zones!Listed(records'), recordIds' > 0 => records' # <<>>,
           \A k \in DOMAIN records' : records'[k].id \in 1..recordIds',
           a.alone => Half(records', a.wish, a.current, a.next + 1)
    PROVE  Zones!ServedInv'
<1>1. /\ a = [at |-> "writing", role |-> a.role, row |-> a.row, token |-> a.token,
              wish |-> a.wish, current |-> a.current, next |-> a.next, alone |-> a.alone]
      /\ a.wish \in Wishes /\ a.current \in Seq([id : Nat, value : Zones!Texts])
      /\ a.next \in Nat \ {0} /\ a.alone \in BOOLEAN /\ Zones!Listed(a.current)
  BY WritingFacts
<1>2. PICK b : b = [a EXCEPT !.next = a.next + 1]
  OBVIOUS
<1>3. /\ b = [at |-> "writing", role |-> b.role, row |-> b.row, token |-> b.token,
              wish |-> b.wish, current |-> b.current, next |-> b.next, alone |-> b.alone]
      /\ b.wish = a.wish /\ b.current = a.current /\ b.next = a.next + 1 /\ b.alone = a.alone
      /\ b.at = "writing"
  BY <1>1, <1>2
<1>4. /\ agent' = [q \in DnsAgents |-> agent'[q]] /\ agent'[p] = b
      /\ \A q \in DnsAgents : q # p => agent'[q] = agent[q]
  BY <1>2 DEF Zones!ServedInv
<1>5. Zones!Writing(p)'
  <2>1. Zones!HalfWritten(b)' <=> Half(records', b.wish, b.current, b.next)
    BY Zenon DEF Zones!HalfWritten, Half
  <2>2. b.alone => Zones!HalfWritten(b)'
    BY <1>3, <2>1
  <2>3. b.next \in Nat \ {0} /\ b.alone \in BOOLEAN /\ b.wish \in Wishes /\ Zones!Listed(b.current)
        /\ b.current \in Seq([id : Nat, value : Zones!Texts])
    BY <1>1, <1>3
  <2>4. b.alone => \A q \in DnsAgents \ {p} : agent'[q].at # "writing"
    <3>1. a.alone => \A q \in DnsAgents \ {p} : agent[q].at # "writing"
      BY DEF Zones!ServedInv, Zones!Writing, Zones!Is
    <3> QED BY <1>3, <1>4, <3>1
  <2>5. Zones!Listed(b.current)'
    BY <2>3 DEF Zones!Listed
  <2>6. Zones!HalfWritten(agent[p])' <=> Zones!HalfWritten(b)'
    <3>1. Zones!HalfWritten(agent[p])' <=>
            Half(records', agent'[p].wish, agent'[p].current, agent'[p].next)
      BY Zenon DEF Zones!HalfWritten, Half
    <3> QED BY <1>4, <2>1, <3>1
  <2>7. Zones!Listed(agent[p].current)'
    BY <1>4, <2>5 DEF Zones!Listed
  <2>8. provider' # "route53"
    OBVIOUS
  <2> QED BY <1>3, <1>4, <2>2, <2>3, <2>4, <2>6, <2>7, <2>8 DEF Zones!Writing, Zones!Is
<1>6. ASSUME NEW q \in DnsAgents, q # p, agent'[q].at = "writing" PROVE Zones!Writing(q)'
  <2>1. Zones!Writing(q) /\ agent'[q] = agent[q]
    BY <1>4, <1>6 DEF Zones!ServedInv, Zones!Is
  <2>2. ~agent[q].alone
    BY <1>6, <2>1 DEF Zones!Writing, Zones!Is
  <2>3. Zones!Listed(agent[q].current)' <=> Zones!Listed(agent[q].current)
    BY <2>1 DEF Zones!Listed
  <2> QED BY <2>1, <2>2, <2>3 DEF Zones!Writing
<1>7. \A q \in DnsAgents : agent'[q].at = "ensure" => agent'[q].wish \in Wishes
  BY <1>3, <1>4 DEF Zones!ServedInv, Zones!Is
<1>8. Zones!Listed(records)'
  BY DEF Zones!Listed
<1> QED BY <1>4, <1>5, <1>6, <1>7, <1>8 DEF Zones!ServedInv, Zones!Is

\* upsert_record() on Cloudflare: each call keeps the oldest row and the order of the list.
LEMMA UpsertCallKeeps ==
    ASSUME Zones!ServedInv, NEW p \in DnsAgents, Zones!UpsertCall(p)
    PROVE  Zones!ServedInv'
<1>a. PICK a : a = agent[p]
  OBVIOUS
<1>i. PICK i : i = a.next
  OBVIOUS
<1>c. PICK c : c = a.current
  OBVIOUS
<1>w. PICK w : w = a.wish
  OBVIOUS
<1>P. PICK P : P = IF i <= Len(c) THEN {j \in DOMAIN records : records[j].id = c[i].id} ELSE {}
  OBVIOUS
<1>V. PICK V : V = Zones!Texts
  OBVIOUS
<1>E. PICK E : E = [id : Nat, value : V]
  OBVIOUS
<1>1. /\ a.at = "writing" /\ provider = "cloudflare" /\ provider' = provider
      /\ i <= Len(w) \/ i <= Len(c)
      /\ \/ /\ i <= Len(w) /\ i <= Len(c) /\ c[i].value = w[i]
            /\ agent' = [agent EXCEPT ![p] = [a EXCEPT !.next = a.next + 1]]
            /\ UNCHANGED <<records, recordIds>>
         \/ /\ i <= Len(w) /\ i <= Len(c)
            /\ agent' = [agent EXCEPT ![p] = IF P = {} THEN Zones!Idle ELSE [a EXCEPT !.next = a.next + 1]]
            /\ records' = Zones!Replace(records, P, Zones!Row(c[i].id, w[i]))
            /\ UNCHANGED recordIds
         \/ /\ i <= Len(w) /\ i > Len(c)
            /\ agent' = [agent EXCEPT ![p] = [a EXCEPT !.next = a.next + 1]]
            /\ records' = Append(records, Zones!Row(recordIds + 1, w[i]))
            /\ recordIds' = recordIds + 1
         \/ /\ i > Len(w)
            /\ agent' = [agent EXCEPT ![p] = [a EXCEPT !.next = a.next + 1]]
            /\ IF P = {} THEN UNCHANGED records
               ELSE \E k \in P : records' = Zones!Drop(records, k)
            /\ UNCHANGED recordIds
  BY <1>a, <1>i, <1>c, <1>w, <1>P, Zenon DEF Zones!UpsertCall, Zones!Is, Zones!Goes
<1>2. /\ w \in Seq(V) /\ Len(w) \in Nat \ {0} /\ i \in Nat \ {0}
      /\ c \in Seq(E) /\ Zones!Listed(c)
      /\ a.alone => Half(records, w, c, i)
  BY <1>1, <1>a, <1>i, <1>c, <1>w, <1>V, <1>E, WritingFacts
<1>3. /\ recordIds \in Nat /\ records \in Seq(E) /\ Zones!Listed(records)
      /\ recordIds > 0 => records # <<>>
      /\ \A k \in DOMAIN records : records[k].id \in 1..recordIds
  BY <1>1, <1>V, <1>E DEF Zones!ServedInv
<1>4. /\ Len(c) \in Nat /\ DOMAIN c = 1..Len(c) /\ DOMAIN w = 1..Len(w)
      /\ Len(records) \in Nat /\ DOMAIN records = 1..Len(records)
  BY <1>2, <1>3
<1>5. i <= Len(w) => w[i] \in V
  BY <1>2
<1>6. /\ \A e \in E : e.id \in Nat /\ e.value \in V
      /\ \A d \in Nat, v \in V :
           Zones!Row(d, v) \in E /\ Zones!Row(d, v).id = d /\ Zones!Row(d, v).value = v
      /\ i <= Len(c) => c[i] \in E
  <2>1. i <= Len(c) => c[i] \in E
    BY <1>2
  <2>2. \A d \in Nat, v \in V :
           Zones!Row(d, v) \in E /\ Zones!Row(d, v).id = d /\ Zones!Row(d, v).value = v
    BY <1>E DEF Zones!Row
  <2>3. \A e \in E : e.id \in Nat /\ e.value \in V
    BY <1>E
  <2> QED BY <2>1, <2>2, <2>3
<1>7. /\ P \subseteq DOMAIN records
      /\ i <= Len(c) => \A j \in P : records[j].id = c[i].id
      /\ i > Len(c) => P = {}
  BY <1>2, <1>4, <1>P
<1>8. PICK x : x = Spot(w, i)
  OBVIOUS
<1>9. a.alone /\ i <= Len(c) => x \in DOMAIN records /\ records[x] = c[i] /\ P = {x}
  <2> SUFFICES ASSUME a.alone, i <= Len(c)
               PROVE  x \in DOMAIN records /\ records[x] = c[i] /\ P = {x}
    OBVIOUS
  <2>1. /\ x \in DOMAIN records /\ records[x] = c[i]
        /\ \A j \in DOMAIN records : records[j].id = c[i].id => j = x
    BY <1>2, <1>3, <1>6, <1>8, HalfAt
  <2> QED BY <2>1, <1>P
<1>10. CASE /\ i <= Len(w) /\ i <= Len(c) /\ c[i].value = w[i]
            /\ agent' = [agent EXCEPT ![p] = [a EXCEPT !.next = a.next + 1]]
            /\ UNCHANGED <<records, recordIds>>
  <2>1. a.alone => Half(records, w, c, i + 1)
    <3> SUFFICES ASSUME a.alone PROVE Half(records, w, c, i + 1)
      OBVIOUS
    <3>1. records[i].value = w[i]
      BY <1>8, <1>9, <1>10 DEF Spot
    <3> QED BY <1>2, <1>3, <1>10, <3>1, HalfPut
  <2> QED BY <1>1, <1>3, <1>10, <1>V, <1>E, <1>a, <1>i, <1>c, <1>w, <2>1, WriteStep
<1>11. CASE /\ i <= Len(w) /\ i <= Len(c)
            /\ agent' = [agent EXCEPT ![p] = IF P = {} THEN Zones!Idle ELSE [a EXCEPT !.next = a.next + 1]]
            /\ records' = Zones!Replace(records, P, Zones!Row(c[i].id, w[i]))
            /\ UNCHANGED recordIds
  <2>1. CASE P = {}
    <3>1. records' = records
      <4>1. records' = [j \in DOMAIN records |-> records[j]]
        BY <1>11, <2>1 DEF Zones!Replace
      <4> QED BY <1>3, <4>1
    <3>2. agent' = [q \in DnsAgents |-> agent'[q]] /\ \A q \in DnsAgents : q # p => agent'[q] = agent[q]
      BY <1>11 DEF Zones!ServedInv
    <3>3. agent'[p].at = "idle"
      BY <1>11, <2>1 DEF Zones!Idle, Zones!ServedInv
    <3>4. \A q \in DnsAgents : \/ agent'[q] = agent[q]
                               \/ agent'[q].at \notin {"ensure", "writing"}
      BY <3>2, <3>3
    <3> QED BY <1>1, <1>11, <3>1, <3>2, <3>4, ServedFrame
  <2>2. CASE P # {}
    <3>1. PICK row : row = Zones!Row(c[i].id, w[i])
      OBVIOUS
    <3>2. /\ row \in E /\ row.value = w[i] /\ \A k \in P : records[k].id = row.id
          /\ Numbered(records, P, row.id)
      BY <1>5, <1>6, <1>7, <1>11, <3>1 DEF Numbered
    <3>3. PICK S : S = records'
      OBVIOUS
    <3>4. S = Zones!Replace(records, P, row)
      BY <1>11, <3>1, <3>3
    <3>5. /\ S \in Seq(E) /\ Len(S) = Len(records) /\ DOMAIN S = DOMAIN records
          /\ \A j \in DOMAIN records : S[j].id = records[j].id
          /\ \A j \in P : S[j] = row
          /\ \A j \in DOMAIN records \ P : S[j] = records[j]
          /\ Zones!Listed(S) /\ (S = <<>> <=> records = <<>>)
      <4>1. records \in Seq(E) /\ Zones!Listed(records) /\ row \in E /\ Numbered(records, P, row.id)
        BY <1>3, <3>2
      <4> QED BY <3>4, <4>1, ListedPut
    <3>6. a.alone => Half(S, w, c, i + 1)
      <4> SUFFICES ASSUME a.alone PROVE Half(S, w, c, i + 1)
        OBVIOUS
      <4>1. x = i /\ P = {i}
        BY <1>8, <1>9, <1>11 DEF Spot
      <4>2. S[i].value = w[i] /\ \A j \in DOMAIN records \ {i} : S[j] = records[j]
        BY <3>2, <3>5, <4>1
      <4> QED BY <1>2, <1>3, <1>11, <3>5, <4>2, HalfPut
    <3>7. agent' = [agent EXCEPT ![p] = [a EXCEPT !.next = a.next + 1]]
      BY <1>11, <2>2
    <3>8. /\ recordIds' \in Nat /\ (recordIds' > 0 => S # <<>>)
          /\ \A k \in DOMAIN S : S[k].id \in 1..recordIds'
      BY <1>3, <1>11, <3>5
    <3> QED BY <1>1, <1>V, <1>E, <1>a, <1>i, <1>c, <1>w, <3>3, <3>5, <3>6, <3>7, <3>8, WriteStep
  <2> QED BY <2>1, <2>2
<1>12. CASE /\ i <= Len(w) /\ i > Len(c)
            /\ agent' = [agent EXCEPT ![p] = [a EXCEPT !.next = a.next + 1]]
            /\ records' = Append(records, Zones!Row(recordIds + 1, w[i]))
            /\ recordIds' = recordIds + 1
  <2>1. PICK S : S = records'
    OBVIOUS
  <2>a. PICK row : row = Zones!Row(recordIds + 1, w[i])
    OBVIOUS
  <2>b. recordIds + 1 \in Nat /\ w[i] \in V
    BY <1>3, <1>5, <1>12
  <2>c. S = Append(records, row) /\ row \in E /\ row.id = recordIds + 1 /\ row.value = w[i]
    BY <1>6, <1>12, <2>1, <2>a, <2>b
  <2>2. /\ S \in Seq(E) /\ Len(S) = Len(records) + 1 /\ S # <<>>
        /\ \A j \in DOMAIN records : S[j] = records[j]
        /\ S[Len(records) + 1] = row
        /\ Zones!Listed(S) /\ \A k \in DOMAIN S : S[k].id \in 1..(recordIds + 1)
    <3>1. Below(records, recordIds)
      BY <1>3 DEF Below
    <3>2. /\ S \in Seq(E) /\ Len(S) = Len(records) + 1 /\ S # <<>>
          /\ \A j \in DOMAIN records : S[j] = records[j]
          /\ S[Len(records) + 1] = row
          /\ Zones!Listed(S) /\ Below(S, recordIds + 1)
      <4>1. /\ records \in Seq(E) /\ Zones!Listed(records) /\ recordIds \in Nat /\ row \in E
            /\ Posted(records, recordIds, row, S)
        BY <1>3, <2>c, <3>1 DEF Posted
      <4> QED BY <4>1, ListedPost
    <3> QED BY <3>2 DEF Below
  <2>3. a.alone => Half(S, w, c, i + 1)
    BY <1>2, <1>3, <1>12, <2>c, <2>2, HalfPost
  <2>4. recordIds' \in Nat /\ \A k \in DOMAIN S : S[k].id \in 1..recordIds'
    BY <1>3, <1>12, <2>2
  <2> QED BY <1>1, <1>12, <1>V, <1>E, <1>a, <1>i, <1>c, <1>w, <2>1, <2>2, <2>3, <2>4, WriteStep
<1>13. CASE /\ i > Len(w)
            /\ agent' = [agent EXCEPT ![p] = [a EXCEPT !.next = a.next + 1]]
            /\ IF P = {} THEN UNCHANGED records
               ELSE \E k \in P : records' = Zones!Drop(records, k)
            /\ UNCHANGED recordIds
  <2>1. CASE P = {}
    <3>1. i <= Len(c)
      BY <1>1, <1>2, <1>4, <1>13
    <3>2. ~a.alone
      BY <1>9, <2>1, <3>1
    <3> QED BY <1>1, <1>3, <1>13, <1>V, <1>E, <1>a, <1>i, <1>c, <1>w, <2>1, <3>2, WriteStep
  <2>2. CASE P # {}
    <3>1. PICK k \in P : records' = Zones!Drop(records, k)
      BY <1>13, <2>2
    <3>2. i <= Len(c) /\ i > 1 /\ i \in DOMAIN c /\ 1 \in DOMAIN c /\ c # <<>>
      BY <1>1, <1>2, <1>4, <1>13
    <3>3. c[1].id = 1 /\ c[1].id < c[i].id
      BY <1>2, <3>2 DEF Zones!Listed
    <3>4. k \in DOMAIN records /\ records[k].id = c[i].id
      BY <1>7, <3>1, <3>2
    <3>5. records[k].id > 1
      BY <1>6, <3>2, <3>3, <3>4
    <3>6. PICK S : S = records'
      OBVIOUS
    <3>7. /\ S \in Seq(E) /\ Len(S) = Len(records) - 1 /\ S # <<>>
          /\ DOMAIN S = 1..(Len(records) - 1)
          /\ \A j \in DOMAIN S : (j < k => S[j] = records[j]) /\ (j >= k => S[j] = records[j + 1])
          /\ Zones!Listed(S)
      BY <1>3, <3>1, <3>4, <3>5, <3>6, ListedDrop
    <3>8. a.alone => Half(S, w, c, i + 1)
      <4> SUFFICES ASSUME a.alone PROVE Half(S, w, c, i + 1)
        OBVIOUS
      <4>1. x = Len(w) + 1 /\ k = x
        BY <1>2, <1>4, <1>8, <1>9, <1>13, <3>1, <3>2 DEF Spot
      <4> QED BY <1>2, <1>3, <1>13, <3>2, <3>7, <4>1, HalfDrop
    <3>9. \A j \in DOMAIN S : S[j].id \in 1..recordIds
      <4> SUFFICES ASSUME NEW j \in DOMAIN S PROVE S[j].id \in 1..recordIds
        OBVIOUS
      <4>1. j \in DOMAIN records /\ j + 1 \in DOMAIN records /\ j \in Int /\ k \in Int
        BY <1>4, <3>4, <3>7
      <4>2. S[j] = records[j] \/ S[j] = records[j + 1]
        BY <3>7, <4>1
      <4> QED BY <1>3, <4>1, <4>2
    <3> QED BY <1>1, <1>3, <1>13, <1>V, <1>E, <1>a, <1>i, <1>c, <1>w, <3>6, <3>7, <3>8, <3>9, WriteStep
  <2> QED BY <2>1, <2>2
<1> QED BY <1>1, <1>10, <1>11, <1>12, <1>13

\* The list of a name is the records as they are: nothing written, everything left.
LEMMA ListsAll ==
    ASSUME NEW E, NEW R \in Seq(E), NEW V, NEW w \in Seq(V), w # <<>>
    PROVE  Half(R, w, R, 1)
<1>1. Len(R) \in Nat /\ Len(w) \in Nat /\ Len(w) >= 1
  OBVIOUS
<1>2. PICK d : d = IF 1 <= Len(w) THEN 1 - 1 ELSE Len(w)
  OBVIOUS
<1>3. PICK r : r = IF 1 <= Len(R) THEN Len(R) - 1 + 1 ELSE 0
  OBVIOUS
<1>4. d = 0 /\ r = Len(R)
  BY <1>1, <1>2, <1>3
<1>5. Len(R) = d + r /\ (\A j \in 1..d : R[j].value = w[j]) /\ \A j \in 1..r : R[d + j] = R[1 + j - 1]
  <2>1. \A j \in 1..r : d + j = j /\ 1 + j - 1 = j
    BY <1>1, <1>4
  <2> QED BY <1>1, <1>4, <2>1
<1> QED BY <1>2, <1>3, <1>5, Zenon DEF Half

\* upsert_record() lists: a second one on its way makes none alone.
LEMMA UpsertListKeeps ==
    ASSUME Zones!ServedInv, NEW p \in DnsAgents, NEW wish \in Wishes, Zones!UpsertList(p, wish)
    PROVE  /\ Zones!ServedInv' /\ agent' = [q \in DnsAgents |-> agent'[q]]
           /\ \A q \in DnsAgents : Calm(q)
<1>1. PICK b : b = [at |-> "writing", role |-> agent[p].role, row |-> agent[p].row,
                    token |-> agent[p].token, wish |-> wish, current |-> records, next |-> 1,
                    alone |-> \A r \in DnsAgents \ {p} : ~Zones!Is(r, "writing")]
  OBVIOUS
<1>2. /\ agent' = [q \in DnsAgents |->
           IF q = p THEN b
           ELSE IF Zones!Is(q, "writing") THEN [agent[q] EXCEPT !.alone = FALSE] ELSE agent[q]]
      /\ agent[p].at \in {"ensure", "client"}
      /\ UNCHANGED <<provider, records, recordIds>>
  BY <1>1, Zenon DEF Zones!UpsertList, Zones!Is, Zones!served
<1>3. /\ agent' = [q \in DnsAgents |-> agent'[q]] /\ agent'[p] = b
      /\ \A q \in DnsAgents : q # p /\ agent[q].at = "writing" =>
           agent'[q] = [agent[q] EXCEPT !.alone = FALSE]
      /\ \A q \in DnsAgents : q # p /\ agent[q].at # "writing" => agent'[q] = agent[q]
  BY <1>2 DEF Zones!Is
<1>4. /\ b = [at |-> "writing", role |-> b.role, row |-> b.row, token |-> b.token, wish |-> b.wish,
              current |-> b.current, next |-> b.next, alone |-> b.alone]
      /\ b.at = "writing" /\ b.role = agent[p].role /\ b.row = agent[p].row
      /\ b.wish = wish /\ b.current = records /\ b.next = 1
  BY <1>1
<1>5. b.alone \in BOOLEAN /\ (b.alone => \A q \in DnsAgents \ {p} : agent[q].at # "writing")
  <2>1. b.alone = \A r \in DnsAgents \ {p} : ~Zones!Is(r, "writing")
    BY <1>1
  <2> QED BY <2>1, Zenon DEF Zones!Is
<1>6. ASSUME NEW q \in DnsAgents, q # p, agent[q].at = "writing"
      PROVE  /\ agent'[q].at = "writing" /\ agent'[q].role = agent[q].role
             /\ agent'[q].row = agent[q].row /\ Zones!Writing(q)'
  <2>1. PICK a : a = agent[q]
    OBVIOUS
  <2>2. /\ a = [at |-> "writing", role |-> a.role, row |-> a.row, token |-> a.token,
                wish |-> a.wish, current |-> a.current, next |-> a.next, alone |-> a.alone]
        /\ a.wish \in Wishes /\ a.current \in Seq([id : Nat, value : Zones!Texts])
        /\ a.next \in Nat \ {0} /\ (provider = "cloudflare" => Zones!Listed(a.current))
    BY <1>6, <2>1, WritingFacts
  <2>3. PICK e : e = [a EXCEPT !.alone = FALSE]
    OBVIOUS
  <2>4. /\ e = [at |-> "writing", role |-> e.role, row |-> e.row, token |-> e.token,
                wish |-> e.wish, current |-> e.current, next |-> e.next, alone |-> e.alone]
        /\ e.wish = a.wish /\ e.current = a.current /\ e.next = a.next /\ e.alone = FALSE
        /\ e.at = "writing" /\ e.role = a.role /\ e.row = a.row
    <3>1. e = [at |-> "writing", role |-> a.role, row |-> a.row, token |-> a.token,
               wish |-> a.wish, current |-> a.current, next |-> a.next, alone |-> FALSE]
      <4>1. PICK rl, rw, tk, ws, cu, nx, lone :
              a = [at |-> "writing", role |-> rl, row |-> rw, token |-> tk, wish |-> ws,
                   current |-> cu, next |-> nx, alone |-> lone]
        BY <2>2, Zenon
      <4>2. e = [at |-> "writing", role |-> rl, row |-> rw, token |-> tk, wish |-> ws,
                 current |-> cu, next |-> nx, alone |-> FALSE]
        BY <2>3, <4>1
      <4> QED BY <4>1, <4>2
    <3>2. /\ e.wish = a.wish /\ e.current = a.current /\ e.next = a.next /\ e.alone = FALSE
          /\ e.at = "writing" /\ e.role = a.role /\ e.row = a.row /\ e.token = a.token
      BY <3>1
    <3> QED BY <3>1, <3>2, Zenon
  <2>5. agent'[q] = e
    BY <1>3, <1>6, <2>1, <2>3
  <2>6. Zones!Listed(agent[q].current)' <=> Zones!Listed(a.current)
    BY <2>4, <2>5 DEF Zones!Listed
  <2>7. Zones!Writing(q)'
    BY <1>2, <2>2, <2>4, <2>5, <2>6 DEF Zones!Writing
  <2> QED BY <2>1, <2>4, <2>5, <2>7
<1>7. \A q \in DnsAgents : Calm(q)
  <2>1. Calm(p)
    BY <1>2, <1>3, <1>4 DEF Calm, Zones!Calling
  <2>2. ASSUME NEW q \in DnsAgents, q # p PROVE Calm(q)
    <3>1. CASE agent[q].at = "writing"
      BY <1>6, <2>2, <3>1 DEF Calm, Zones!Calling
    <3>2. CASE agent[q].at # "writing"
      BY <1>3, <2>2, <3>2 DEF Calm
    <3> QED BY <3>1, <3>2
  <2> QED BY <2>1, <2>2
<1>8. Zones!Writing(p)'
  <2>1. /\ records \in Seq([id : Nat, value : Zones!Texts])
        /\ provider = "cloudflare" => Zones!Listed(records)
    BY DEF Zones!ServedInv
  <2>2. wish \in Seq(Zones!Texts) /\ wish # <<>>
    BY ZoneBounds
  <2>3. Half(records, wish, records, 1)
    BY <2>1, <2>2, ListsAll
  <2>4. Zones!HalfWritten(agent[p])' <=>
          Half(records', agent'[p].wish, agent'[p].current, agent'[p].next)
    BY Zenon DEF Zones!HalfWritten, Half
  <2>5. Zones!HalfWritten(agent[p])'
    BY <1>2, <1>3, <1>4, <2>3, <2>4
  <2>6. provider' = "cloudflare" => Zones!Listed(agent[p].current)'
    BY <1>2, <1>3, <1>4, <2>1 DEF Zones!Listed
  <2>7. b.alone => \A q \in DnsAgents \ {p} : agent'[q].at # "writing"
    BY <1>3, <1>5
  <2> QED BY <1>2, <1>3, <1>4, <1>5, <2>1, <2>5, <2>6, <2>7 DEF Zones!Writing, Zones!Is
<1>9. \A q \in DnsAgents : /\ agent'[q].at = "writing" => Zones!Writing(q)'
                           /\ agent'[q].at = "ensure" => agent'[q].wish \in Wishes
  <2> SUFFICES ASSUME NEW q \in DnsAgents
               PROVE  /\ agent'[q].at = "writing" => Zones!Writing(q)'
                      /\ agent'[q].at = "ensure" => agent'[q].wish \in Wishes
    OBVIOUS
  <2>1. CASE q = p
    BY <1>3, <1>4, <1>8, <2>1
  <2>2. CASE q # p /\ agent[q].at = "writing"
    BY <1>6, <2>2
  <2>3. CASE q # p /\ agent[q].at # "writing"
    BY <1>3, <2>3 DEF Zones!ServedInv, Zones!Is
  <2> QED BY <2>1, <2>2, <2>3
<1>10. Zones!Listed(records)' <=> Zones!Listed(records)
  BY <1>2 DEF Zones!Listed
<1>11. Zones!ServedInv'
  BY <1>2, <1>3, <1>9, <1>10 DEF Zones!ServedInv, Zones!Is
<1> QED BY <1>3, <1>7, <1>11

\* Route 53 takes the values as they are asked for.
LEMMA Route53ChangeKeeps ==
    ASSUME Zones!ServedInv, NEW p \in DnsAgents, Zones!Route53Change(p)
    PROVE  Zones!ServedInv'
<1>a. PICK a : a = agent[p]
  OBVIOUS
<1>1. /\ a.at = "writing" /\ provider = "route53" /\ a.next = 1 /\ UNCHANGED <<provider, recordIds>>
      /\ records' = IF Zones!SameValues(a.current, a.wish) THEN records
                    ELSE [j \in DOMAIN a.wish |-> Zones!Row(0, a.wish[j])]
      /\ agent' = [agent EXCEPT ![p] = [a EXCEPT !.next = 1 + Len(a.wish), !.current = <<>>]]
  BY <1>a, Zenon DEF Zones!Route53Change, Zones!Is, Zones!Goes
<1>2. /\ a = [at |-> "writing", role |-> a.role, row |-> a.row, token |-> a.token,
              wish |-> a.wish, current |-> a.current, next |-> a.next, alone |-> a.alone]
      /\ a.wish \in Wishes /\ a.wish \in Seq(Zones!Texts) /\ Len(a.wish) \in Nat \ {0}
      /\ a.alone \in BOOLEAN /\ (a.alone => records = a.current)
  BY <1>1, <1>a, WritingFacts
<1>3. PICK b : b = [a EXCEPT !.next = 1 + Len(a.wish), !.current = <<>>]
  OBVIOUS
<1>4. /\ b = [at |-> "writing", role |-> b.role, row |-> b.row, token |-> b.token,
              wish |-> b.wish, current |-> b.current, next |-> b.next, alone |-> b.alone]
      /\ b.wish = a.wish /\ b.current = <<>> /\ b.next = 1 + Len(a.wish) /\ b.alone = a.alone
      /\ b.at = "writing"
  <2>1. b = [at |-> "writing", role |-> a.role, row |-> a.row, token |-> a.token, wish |-> a.wish,
             current |-> <<>>, next |-> 1 + Len(a.wish), alone |-> a.alone]
    <3>1. PICK rl, rw, tk, ws, cu, nx, lone :
            a = [at |-> "writing", role |-> rl, row |-> rw, token |-> tk, wish |-> ws,
                 current |-> cu, next |-> nx, alone |-> lone]
      BY <1>2, Zenon
    <3>2. PICK n : n = 1 + Len(a.wish)
      OBVIOUS
    <3>3. b = [at |-> "writing", role |-> rl, row |-> rw, token |-> tk, wish |-> ws,
               current |-> <<>>, next |-> n, alone |-> lone]
      BY <1>3, <3>1, <3>2
    <3> QED BY <3>1, <3>2, <3>3
  <2>2. /\ b.wish = a.wish /\ b.current = <<>> /\ b.next = 1 + Len(a.wish) /\ b.alone = a.alone
        /\ b.at = "writing" /\ b.role = a.role /\ b.row = a.row /\ b.token = a.token
    BY <2>1
  <2> QED BY <2>1, <2>2, Zenon
<1>5. /\ agent' = [q \in DnsAgents |-> agent'[q]] /\ agent'[p] = b
      /\ \A q \in DnsAgents : q # p => agent'[q] = agent[q]
  BY <1>1, <1>3 DEF Zones!ServedInv
<1>6. /\ records' \in Seq([id : Nat, value : Zones!Texts])
      /\ a.alone => Zones!SameValues(records', a.wish)
  <2>1. CASE Zones!SameValues(a.current, a.wish)
    BY <1>1, <1>2, <2>1 DEF Zones!ServedInv
  <2>2. CASE ~Zones!SameValues(a.current, a.wish)
    <3>1. PICK w : w = a.wish
      OBVIOUS
    <3>2. PICK S : S = [j \in DOMAIN w |-> Zones!Row(0, w[j])]
      OBVIOUS
    <3>3. PICK E : E = [id : Nat, value : Zones!Texts]
      OBVIOUS
    <3>4. w \in Seq(Zones!Texts) /\ DOMAIN w = 1..Len(w) /\ Len(w) \in Nat
      BY <1>2, <3>1
    <3>5. \A j \in DOMAIN w : w[j] \in Zones!Texts
      BY <3>4
    <3>6. \A j \in DOMAIN w : S[j] \in E /\ S[j].value = w[j]
      BY <3>2, <3>3, <3>5 DEF Zones!Row
    <3>7. S = [j \in 1..Len(w) |-> S[j]] /\ DOMAIN S = DOMAIN w
      BY <3>2, <3>4
    <3>8. S \in Seq(E) /\ Len(S) = Len(w)
      BY <3>4, <3>6, <3>7
    <3>9. PICK f : f = [j \in DOMAIN w |-> j]
      OBVIOUS
    <3>10. f \in [DOMAIN w -> DOMAIN S] /\ \A j \in DOMAIN w : f[j] = j
      BY <3>7, <3>9
    <3>11. /\ \A j, l \in DOMAIN w : f[j] = f[l] => j = l
           /\ \A j \in DOMAIN w : S[f[j]].value = w[j]
      BY <3>6, <3>10
    <3>12. Zones!SameValues(S, w)
      BY <3>8, <3>10, <3>11, Zenon DEF Zones!SameValues
    <3>13. records' = S
      BY <1>1, <2>2, <3>1, <3>2
    <3> QED BY <3>1, <3>3, <3>8, <3>12, <3>13
  <2> QED BY <2>1, <2>2
<1>7. Zones!Writing(p)'
  <2>1. b.next \in Nat \ {0} /\ b.next # 1 /\ b.current \in Seq([id : Nat, value : Zones!Texts])
    BY <1>2, <1>4
  <2>2. b.alone => \A q \in DnsAgents \ {p} : agent'[q].at # "writing"
    <3>1. a.alone => \A q \in DnsAgents \ {p} : agent[q].at # "writing"
      BY <1>1, <1>a DEF Zones!ServedInv, Zones!Writing, Zones!Is
    <3> QED BY <1>4, <1>5, <3>1
  <2>3. b.alone => Zones!SameValues(records, agent[p].wish)'
    BY <1>4, <1>5, <1>6
  <2>4. provider' # "cloudflare"
    BY <1>1
  <2> QED BY <1>2, <1>4, <1>5, <2>1, <2>2, <2>3, <2>4 DEF Zones!Writing, Zones!Is
<1>8. ASSUME NEW q \in DnsAgents, q # p, agent'[q].at = "writing" PROVE Zones!Writing(q)'
  <2>1. Zones!Writing(q) /\ agent'[q] = agent[q]
    BY <1>5, <1>8 DEF Zones!ServedInv, Zones!Is
  <2>2. ~agent[q].alone
    BY <1>1, <1>8, <1>a, <2>1 DEF Zones!Writing, Zones!Is
  <2>3. Zones!Listed(agent[q].current)' <=> Zones!Listed(agent[q].current)
    BY <2>1 DEF Zones!Listed
  <2> QED BY <1>1, <2>1, <2>2, <2>3 DEF Zones!Writing
<1>9. \A q \in DnsAgents : agent'[q].at = "ensure" => agent'[q].wish \in Wishes
  BY <1>4, <1>5 DEF Zones!ServedInv, Zones!Is
<1>10. provider' # "cloudflare" /\ recordIds' = 0 /\ provider' \in Providers
  BY <1>1 DEF Zones!ServedInv
<1> QED BY <1>5, <1>6, <1>7, <1>8, <1>9, <1>10 DEF Zones!ServedInv, Zones!Is

\* What is kept about a zone, and the histories that stay clean.
ZonesGood ==
    /\ ZonesVault /\ Zones!ServedInv /\ ~unproved /\ ~inexact /\ ~blamed

\* The histories after a step that has nothing to add to them.
Clean == unproved' = unproved /\ inexact' = inexact /\ blamed' = blamed

\* One process goes on to b; its upsert, if it has one, is over or yet to come.
LEMMA OneServes ==
    ASSUME Zones!ServedInv, NEW p \in DnsAgents, NEW b, agent' = [agent EXCEPT ![p] = b],
           b.at \notin {"ensure", "writing"} \/ (b.at = "ensure" /\ b.wish \in Wishes),
           UNCHANGED <<provider, records, recordIds>>
    PROVE  Zones!ServedInv'
<1>1. /\ agent' = [q \in DnsAgents |-> agent'[q]] /\ agent'[p] = b
      /\ \A q \in DnsAgents : q # p => agent'[q] = agent[q]
  BY DEF Zones!ServedInv
<1>2. \A q \in DnsAgents : \/ agent'[q] = agent[q]
                           \/ agent'[q].at \notin {"ensure", "writing"}
                           \/ agent'[q].at = "ensure" /\ agent'[q].wish \in Wishes
  BY <1>1
<1> QED BY <1>1, <1>2, ServedFrame

\* One process goes on to b, which gives it nothing it has to prove.
LEMMA OneCalm ==
    ASSUME ZonesVault, NEW p \in DnsAgents, NEW b, agent' = [agent EXCEPT ![p] = b],
           \/ b.at = "idle"
           \/ b.at = "observed" /\ b.token \in Tokens
           \/ /\ agent[p].at \in Zones!Calling /\ b.at \in Zones!Calling \ {"probing"}
              /\ b.role = agent[p].role /\ b.row = agent[p].row,
           UNCHANGED <<tokenRows, dnsAccount, refs, plantFile, planted, plantRaced, dnsClock>>,
           \/ verified' = verified /\ probed' = probed
           \/ verified' = [verified EXCEPT ![p] = {}] /\ probed' = [probed EXCEPT ![p] = {}]
    PROVE  ZonesVault'
<1>1. /\ agent = [q \in DnsAgents |-> agent[q]] /\ dnsClock \in Nat
      /\ verified = [q \in DnsAgents |-> verified[q]] /\ probed = [q \in DnsAgents |-> probed[q]]
  BY DEF ZonesVault, Zones!ZoneTypes
<1>2. /\ agent' = [q \in DnsAgents |-> agent'[q]] /\ agent'[p] = b
      /\ \A q \in DnsAgents : q # p => agent'[q] = agent[q]
  BY <1>1
<1>3. /\ verified' = [q \in DnsAgents |-> verified'[q]] /\ probed' = [q \in DnsAgents |-> probed'[q]]
      /\ \A q \in DnsAgents : CacheKept(q)
  BY <1>1 DEF CacheKept
<1>4. \A q \in DnsAgents : Calm(q)
  BY <1>2 DEF Calm
<1>5. dnsClock' \in Nat /\ dnsClock' >= dnsClock
  BY <1>1
<1> QED BY <1>2, <1>3, <1>4, <1>5, VaultFrame

\* A step that touches neither the processes nor what they share with the vault.
LEMMA NoneMoves ==
    ASSUME ZonesVault, Zones!ServedInv,
           UNCHANGED <<tokenRows, dnsAccount, refs, plantFile, planted, plantRaced, agent,
                       verified, probed, provider, records, recordIds>>,
           dnsClock' \in Nat, dnsClock' >= dnsClock
    PROVE  ZonesVault' /\ Zones!ServedInv'
<1>1. /\ agent' = [q \in DnsAgents |-> agent'[q]]
      /\ verified' = [q \in DnsAgents |-> verified'[q]] /\ probed' = [q \in DnsAgents |-> probed'[q]]
  BY DEF ZonesVault, Zones!ZoneTypes
<1>2. \A q \in DnsAgents : Calm(q) /\ CacheKept(q) /\ agent'[q] = agent[q]
  BY DEF Calm, CacheKept
<1>3. ZonesVault'
  BY <1>1, <1>2, VaultFrame
<1>4. Zones!ServedInv'
  BY <1>1, <1>2, ServedFrame
<1> QED BY <1>3, <1>4

\* The owner, the clock and the daily audit; the audit blames no token of this one zone.
LEMMA OwnerKeeps ==
    ASSUME ZonesGood,
           \/ Zones!TimePasses
           \/ \E t \in Tokens, s \in Zones!TokenScopes : Zones!EditScope(t, s)
           \/ \E p \in DnsAgents : Zones!AuditTokens(p)
    PROVE  ZonesGood'
<1>1. dnsClock \in Nat /\ ZonesVault /\ Zones!ServedInv /\ ~unproved /\ ~inexact /\ ~blamed
  BY DEF ZonesGood, ZonesVault, Zones!ZoneTypes
<1>2. CASE Zones!TimePasses
  <2>1. /\ UNCHANGED <<tokenRows, dnsAccount, refs, plantFile, planted, plantRaced, agent,
                       verified, probed, provider, records, recordIds>>
        /\ dnsClock' = dnsClock + 1 /\ Clean
    BY <1>2 DEF Zones!TimePasses, Zones!keeping, Zones!trust, Zones!served, Clean
  <2>2. ZonesVault' /\ Zones!ServedInv'
    BY <1>1, <2>1, NoneMoves
  <2> QED BY <1>1, <2>1, <2>2 DEF ZonesGood, Clean
<1>3. ASSUME NEW t \in Tokens, NEW s \in Zones!TokenScopes, Zones!EditScope(t, s) PROVE ZonesGood'
  <2>1. /\ UNCHANGED <<tokenRows, dnsAccount, refs, plantFile, planted, plantRaced, agent,
                       verified, probed, provider, records, recordIds>>
        /\ dnsClock' = dnsClock /\ Clean
    BY <1>3 DEF Zones!EditScope, Zones!keeping, Zones!trust, Zones!served, Clean
  <2>2. ZonesVault' /\ Zones!ServedInv'
    BY <1>1, <2>1, NoneMoves
  <2> QED BY <1>1, <2>1, <2>2 DEF ZonesGood, Clean
<1>4. ASSUME NEW p \in DnsAgents, Zones!AuditTokens(p) PROVE ZonesGood'
  <2>1. /\ UNCHANGED <<tokenRows, dnsAccount, refs, plantFile, planted, plantRaced, agent,
                       verified, probed, provider, records, recordIds>>
        /\ dnsClock' = dnsClock /\ unproved' = unproved /\ inexact' = inexact
    BY <1>4 DEF Zones!AuditTokens, Zones!keeping, Zones!trust, Zones!served
  <2>2. ZonesVault' /\ Zones!ServedInv'
    BY <1>1, <2>1, NoneMoves
  <2>3. \A t : ~(Zones!Drifted(t) /\ Zones!OneZone(t))
    BY DEF Zones!Drifted, Zones!OneZone
  <2>4. blamed' => blamed \/ \E t : Zones!Drifted(t) /\ Zones!OneZone(t)
    BY <1>4, Zenon DEF Zones!AuditTokens
  <2> QED BY <1>1, <2>1, <2>2, <2>3, <2>4 DEF ZonesGood
<1> QED BY <1>2, <1>3, <1>4

\* Process p goes on to a place where no upsert is on its way.
Leaves(p) == \E b : agent' = [agent EXCEPT ![p] = b] /\ b.at \notin {"ensure", "writing"}

\* Connecting and planting leave the records and the histories alone.
LEMMA VaultKeeps ==
    ASSUME ZonesGood, NEW p \in DnsAgents,
           \/ \E t \in Tokens : Zones!Connect(p, t)
           \/ Zones!ConnectPut(p) \/ Zones!ConnectRows(p) \/ Zones!Plant(p)
           \/ Zones!PlantPut(p) \/ Zones!PlantSave(p) \/ Zones!PlantUnlink(p)
    PROVE  ZonesGood'
<1>1. ZonesVault /\ Zones!ServedInv /\ ~unproved /\ ~inexact /\ ~blamed
  BY DEF ZonesGood
<1>2. ASSUME NEW t \in Tokens, Zones!Connect(p, t) PROVE ZonesVault' /\ Leaves(p)
  <2>1. PICK b : b = [at |-> "observed", token |-> t]
    OBVIOUS
  <2>2. /\ agent' = [agent EXCEPT ![p] = b] /\ b.at = "observed" /\ b.token = t
        /\ UNCHANGED <<tokenRows, dnsAccount, refs, plantFile, planted, plantRaced, dnsClock>>
        /\ verified' = verified /\ probed' = probed
    BY <1>2, <2>1 DEF Zones!Connect, Zones!Goes, Zones!keeping, Zones!trust
  <2>3. ZonesVault'
    BY <1>1, <2>2, OneCalm
  <2>4. Leaves(p)
    BY <2>2 DEF Leaves
  <2> QED BY <2>3, <2>4
<1>3. ZonesVault'
  BY <1>1, <1>2, ConnectPutKeeps, ConnectRowsKeeps, PlantKeeps, PlantPutKeeps, PlantSaveKeeps,
     PlantUnlinkKeeps
<1>4. UNCHANGED <<provider, records, recordIds>> /\ Clean
  BY DEF Zones!Connect, Zones!ConnectPut, Zones!ConnectRows, Zones!Plant, Zones!PlantPut,
         Zones!PlantSave, Zones!PlantUnlink, Zones!trust, Zones!served, Clean
<1>5. Leaves(p)
  <2>1. CASE Zones!ConnectPut(p)
    <3>1. PICK b : b = [at |-> "stored", row |-> Len(tokenRows) + 1]
      OBVIOUS
    <3>2. agent' = [agent EXCEPT ![p] = b]
      BY <2>1, <3>1, Zenon DEF Zones!ConnectPut, Zones!Goes
    <3>3. b.at = "stored"
      BY <3>1
    <3> QED BY <3>2, <3>3 DEF Leaves
  <2>2. CASE Zones!ConnectRows(p) \/ Zones!PlantUnlink(p)
    <3>1. PICK b : b = Zones!Idle
      OBVIOUS
    <3>2. agent' = [agent EXCEPT ![p] = b]
      BY <2>2, <3>1, Zenon DEF Zones!ConnectRows, Zones!PlantUnlink, Zones!Goes
    <3>3. b.at = "idle"
      BY <3>1 DEF Zones!Idle
    <3> QED BY <3>2, <3>3 DEF Leaves
  <2>3. CASE Zones!Plant(p)
    <3>1. PICK b : b = [at |-> "planting", token |-> plantFile, had |-> dnsAccount.ref["origin"],
                        ref |-> 0]
      OBVIOUS
    <3>2. agent' = [agent EXCEPT ![p] = b]
      BY <2>3, <3>1, Zenon DEF Zones!Plant, Zones!Goes
    <3>3. b.at = "planting"
      BY <3>1
    <3> QED BY <3>2, <3>3 DEF Leaves
  <2>4. CASE Zones!PlantPut(p) \/ Zones!PlantSave(p)
    <3>1. PICK a : a = agent[p]
      OBVIOUS
    <3>2. a.at \in Zones!PlantPlaces
      BY <2>4, <3>1 DEF Zones!PlantPut, Zones!PlantSave, Zones!Is, Zones!PlantPlaces
    <3>3. a \in [at : Zones!PlantPlaces, token : Tokens, had : 0..refs, ref : 0..refs]
      BY <1>1, <3>1, <3>2 DEF ZonesVault, Zones!ZoneTypes, Zones!Remembers
    <3>4. CASE Zones!PlantPut(p)
      <4>1. PICK x : agent' = [agent EXCEPT ![p] = [a EXCEPT !.at = "plant_put", !.ref = x]]
        BY <3>1, <3>4, Zenon DEF Zones!PlantPut, Zones!Goes
      <4>2. PICK b : b = [a EXCEPT !.at = "plant_put", !.ref = x]
        OBVIOUS
      <4>3. b.at = "plant_put"
        BY <3>3, <4>2
      <4> QED BY <4>1, <4>2, <4>3 DEF Leaves
    <3>5. CASE Zones!PlantSave(p)
      <4>1. PICK b : b = [a EXCEPT !.at = "plant_saved"]
        OBVIOUS
      <4>2. agent' = [agent EXCEPT ![p] = b]
        BY <3>1, <3>5, <4>1, Zenon DEF Zones!PlantSave, Zones!Goes
      <4>3. b.at = "plant_saved"
        BY <3>3, <4>1
      <4> QED BY <4>2, <4>3 DEF Leaves
    <3> QED BY <2>4, <3>4, <3>5
  <2> QED BY <1>2, <2>1, <2>2, <2>3, <2>4
<1>6. Zones!ServedInv'
  <2>1. PICK b : agent' = [agent EXCEPT ![p] = b] /\ b.at \notin {"ensure", "writing"}
    BY <1>5 DEF Leaves
  <2> QED BY <1>1, <1>4, <2>1, OneServes
<1> QED BY <1>1, <1>3, <1>4, <1>6 DEF ZonesGood, Clean

\* Clients: made, probed, refused, dropped or gone with their process.
LEMMA ClientsKeep ==
    ASSUME ZonesGood, NEW p \in DnsAgents, NEW role \in Zones!Roles,
           \/ Zones!Construct(p, role) \/ Zones!ProbePasses(p) \/ Zones!ProbeRefuses(p)
           \/ Zones!CallRefused(p) \/ Zones!OtherCall(p) \/ Zones!Killed(p)
    PROVE  ZonesGood'
<1>1. ZonesVault /\ Zones!ServedInv /\ ~unproved /\ ~inexact /\ ~blamed
  BY DEF ZonesGood
<1>2. UNCHANGED <<provider, records, recordIds>> /\ inexact' = inexact /\ blamed' = blamed
  BY DEF Zones!Construct, Zones!ProbePasses, Zones!ProbeRefuses, Zones!CallRefused, Zones!OtherCall,
         Zones!Killed, Zones!served
<1>3. Leaves(p)
  <2>1. CASE Zones!Construct(p, role)
    <3>1. PICK k : k = Zones!NewestOf(dnsAccount.ref[role])
      OBVIOUS
    <3>2. PICK b : b = [at |-> "client", role |-> role, row |-> k, token |-> tokenRows[k].token]
      OBVIOUS
    <3>3. PICK e : e = [at |-> "probing", role |-> role, row |-> k, key |-> Zones!CacheKey(role, k),
                        token |-> tokenRows[k].token]
      OBVIOUS
    <3>4. agent' = [agent EXCEPT ![p] = b] \/ agent' = [agent EXCEPT ![p] = e]
      BY <2>1, <3>1, <3>2, <3>3, Zenon DEF Zones!Construct, Zones!Holds, Zones!Goes
    <3>5. b.at = "client" /\ e.at = "probing"
      BY <3>2, <3>3
    <3> QED BY <3>4, <3>5 DEF Leaves
  <2>2. CASE Zones!ProbePasses(p)
    <3>1. PICK a : a = agent[p]
      OBVIOUS
    <3>2. PICK b : b = [at |-> "client", role |-> a.role, row |-> a.row,
                        token |-> tokenRows[a.row].token]
      OBVIOUS
    <3>3. agent' = [agent EXCEPT ![p] = b]
      BY <2>2, <3>1, <3>2, Zenon DEF Zones!ProbePasses, Zones!Holds, Zones!Goes
    <3>4. b.at = "client"
      BY <3>2
    <3> QED BY <3>3, <3>4 DEF Leaves
  <2>3. CASE ~Zones!Construct(p, role) /\ ~Zones!ProbePasses(p)
    <3>1. PICK b : b = Zones!Idle
      OBVIOUS
    <3>2. agent' = [agent EXCEPT ![p] = b]
      BY <2>3, <3>1 DEF Zones!ProbeRefuses, Zones!CallRefused, Zones!OtherCall, Zones!Killed,
         Zones!Goes
    <3>3. b.at = "idle"
      BY <3>1 DEF Zones!Idle
    <3> QED BY <3>2, <3>3 DEF Leaves
  <2> QED BY <2>1, <2>2, <2>3
<1>4. Zones!ServedInv'
  <2>1. PICK b : agent' = [agent EXCEPT ![p] = b] /\ b.at \notin {"ensure", "writing"}
    BY <1>3 DEF Leaves
  <2> QED BY <1>1, <1>2, <2>1, OneServes
<1>5. ZonesVault' /\ ~unproved'
  <2>1. CASE Zones!Construct(p, role)
    BY <1>1, <2>1, ConstructKeeps
  <2>2. CASE Zones!ProbePasses(p)
    <3>1. unproved' = unproved
      BY <2>2 DEF Zones!ProbePasses
    <3> QED BY <1>1, <2>2, <3>1, ProbePassesKeeps
  <2>3. CASE Zones!CallRefused(p) /\ Zones!Forget(p)
    <3>1. /\ agent' = [agent EXCEPT ![p] = Zones!Idle] /\ unproved' = unproved
          /\ UNCHANGED <<tokenRows, dnsAccount, refs, plantFile, planted, plantRaced, dnsClock>>
          /\ Zones!CallDue(agent[p])
      BY <2>3 DEF Zones!CallRefused, Zones!Goes, Zones!keeping
    <3>2. agent[p].at \in Zones!Calling
      BY <3>1 DEF Zones!CallDue, Zones!Calling
    <3> QED BY <1>1, <2>3, <3>1, <3>2, ForgetKeeps
  <2>4. CASE \/ Zones!ProbeRefuses(p) \/ (Zones!CallRefused(p) /\ ~Zones!Forget(p))
             \/ Zones!OtherCall(p) \/ Zones!Killed(p)
    <3>1. /\ agent' = [agent EXCEPT ![p] = Zones!Idle] /\ unproved' = unproved
          /\ UNCHANGED <<tokenRows, dnsAccount, refs, plantFile, planted, plantRaced, dnsClock>>
      BY <2>4 DEF Zones!ProbeRefuses, Zones!CallRefused, Zones!OtherCall, Zones!Killed, Zones!Goes,
         Zones!keeping, Zones!trust
    <3>2. \/ verified' = verified /\ probed' = probed
          \/ verified' = [verified EXCEPT ![p] = {}] /\ probed' = [probed EXCEPT ![p] = {}]
      BY <2>4 DEF Zones!ProbeRefuses, Zones!CallRefused, Zones!OtherCall, Zones!Killed, Zones!trust
    <3>3. Zones!Idle.at = "idle"
      BY DEF Zones!Idle
    <3> QED BY <1>1, <3>1, <3>2, <3>3, OneCalm
  <2> QED BY <2>1, <2>2, <2>3, <2>4
<1> QED BY <1>1, <1>2, <1>4, <1>5 DEF ZonesGood

\* ensure_dns() and upsert_record(): a lone upsert ends with exactly the values asked for.
LEMMA UpsertsKeep ==
    ASSUME ZonesGood, NEW p \in DnsAgents,
           \/ \E wish \in Wishes : Zones!EnsureDns(p, wish) \/ Zones!UpsertList(p, wish)
           \/ Zones!UpsertCall(p) \/ Zones!Route53Change(p) \/ Zones!UpsertDone(p)
    PROVE  ZonesGood'
<1>1. ZonesVault /\ Zones!ServedInv /\ ~unproved /\ ~inexact /\ ~blamed
  BY DEF ZonesGood
<1>a. PICK a : a = agent[p]
  OBVIOUS
<1>2. /\ UNCHANGED <<tokenRows, dnsAccount, refs, plantFile, planted, plantRaced, dnsClock>>
      /\ verified' = verified /\ probed' = probed /\ unproved' = unproved /\ blamed' = blamed
      /\ provider' = provider
  BY DEF Zones!EnsureDns, Zones!UpsertList, Zones!UpsertCall, Zones!Route53Change, Zones!UpsertDone,
         Zones!keeping, Zones!trust
<1>3. ASSUME NEW wish \in Wishes, Zones!EnsureDns(p, wish) PROVE ZonesGood'
  <2>1. PICK e : e = [at |-> "ensure", role |-> "dns", row |-> agent[p].row,
                      token |-> agent[p].token, wish |-> wish]
    OBVIOUS
  <2>2. PICK b \in {Zones!Idle, e} : agent' = [agent EXCEPT ![p] = b] /\ agent[p].role = "dns"
    BY <1>3, <2>1, Zenon DEF Zones!EnsureDns, Zones!Goes
  <2>a. \/ b.at = "idle"
        \/ b.at = "ensure" /\ b.wish = wish /\ b.role = agent[p].role /\ b.row = agent[p].row
    BY <2>1, <2>2 DEF Zones!Idle
  <2>3. agent[p].at \in Zones!Calling
    BY <1>3 DEF Zones!EnsureDns, Zones!Is, Zones!Calling
  <2>4. UNCHANGED <<records, recordIds>> /\ inexact' = inexact
    BY <1>3 DEF Zones!EnsureDns
  <2>5. Zones!ServedInv'
    BY <1>1, <1>2, <2>2, <2>a, <2>4, OneServes
  <2>6. ZonesVault'
    <3>1. \/ b.at = "idle"
          \/ /\ agent[p].at \in Zones!Calling /\ b.at \in Zones!Calling \ {"probing"}
             /\ b.role = agent[p].role /\ b.row = agent[p].row
      BY <2>a, <2>3 DEF Zones!Calling
    <3> QED BY <1>1, <1>2, <2>2, <3>1, OneCalm
  <2> QED BY <1>1, <1>2, <2>4, <2>5, <2>6 DEF ZonesGood
<1>4. ASSUME NEW wish \in Wishes, Zones!UpsertList(p, wish) PROVE ZonesGood'
  <2>1. /\ Zones!ServedInv' /\ agent' = [q \in DnsAgents |-> agent'[q]]
        /\ \A q \in DnsAgents : Calm(q)
    BY <1>1, <1>4, UpsertListKeeps
  <2>2. inexact' = inexact
    BY <1>4 DEF Zones!UpsertList, Zones!served
  <2>3. /\ dnsClock \in Nat /\ verified = [q \in DnsAgents |-> verified[q]]
        /\ probed = [q \in DnsAgents |-> probed[q]]
    BY <1>1 DEF ZonesVault, Zones!ZoneTypes
  <2>4. /\ dnsClock' \in Nat /\ dnsClock' >= dnsClock /\ verified' = [q \in DnsAgents |-> verified'[q]]
        /\ probed' = [q \in DnsAgents |-> probed'[q]] /\ \A q \in DnsAgents : CacheKept(q)
    BY <1>2, <2>3 DEF CacheKept
  <2>5. ZonesVault'
    BY <1>1, <1>2, <2>1, <2>4, VaultFrame
  <2> QED BY <1>1, <1>2, <2>1, <2>2, <2>5 DEF ZonesGood
<1>5. CASE Zones!UpsertCall(p) \/ Zones!Route53Change(p)
  <2>1. Zones!ServedInv'
    BY <1>1, <1>5, UpsertCallKeeps, Route53ChangeKeeps
  <2>2. inexact' = inexact /\ a.at = "writing"
    BY <1>5, <1>a DEF Zones!UpsertCall, Zones!Route53Change, Zones!Is
  <2>3. a = [at |-> "writing", role |-> a.role, row |-> a.row, token |-> a.token,
             wish |-> a.wish, current |-> a.current, next |-> a.next, alone |-> a.alone]
    BY <1>1, <1>a, <2>2, WritingFacts
  <2>4. PICK d : d = [a EXCEPT !.next = a.next + 1]
    OBVIOUS
  <2>5. PICK e : e = [a EXCEPT !.next = 1 + Len(a.wish), !.current = <<>>]
    OBVIOUS
  <2>a. PICK b \in {Zones!Idle, d, e} : agent' = [agent EXCEPT ![p] = b]
    BY <1>5, <1>a, <2>4, <2>5, Zenon DEF Zones!UpsertCall, Zones!Route53Change, Zones!Goes
  <2>b. PICK rl, rw, tk, ws, cu, nx, lone :
          a = [at |-> "writing", role |-> rl, row |-> rw, token |-> tk, wish |-> ws,
               current |-> cu, next |-> nx, alone |-> lone]
    BY <2>3, Zenon
  <2>c. /\ d.at = "writing" /\ d.role = a.role /\ d.row = a.row
        /\ e.at = "writing" /\ e.role = a.role /\ e.row = a.row
    BY <2>4, <2>5, <2>b
  <2>d. b.at = "idle" \/ (b.at = "writing" /\ b.role = a.role /\ b.row = a.row)
    BY <2>a, <2>c DEF Zones!Idle
  <2>6. ZonesVault'
    <3>1. \/ b.at = "idle"
          \/ /\ agent[p].at \in Zones!Calling /\ b.at \in Zones!Calling \ {"probing"}
             /\ b.role = agent[p].role /\ b.row = agent[p].row
      BY <1>a, <2>2, <2>d DEF Zones!Calling
    <3> QED BY <1>1, <1>2, <2>a, <3>1, OneCalm
  <2> QED BY <1>1, <1>2, <2>1, <2>2, <2>6 DEF ZonesGood
<1>6. CASE Zones!UpsertDone(p)
  <2>1. /\ a.at = "writing" /\ a.next > Len(a.wish) /\ a.next > Len(a.current)
        /\ agent' = [agent EXCEPT ![p] = Zones!Idle] /\ UNCHANGED <<records, recordIds>>
        /\ inexact' = (inexact \/ (a.alone /\ ~Zones!SameValues(records, a.wish)))
    BY <1>6, <1>a, Zenon DEF Zones!UpsertDone, Zones!Is, Zones!Goes
  <2>2. /\ a.wish \in Seq(Zones!Texts) /\ Len(a.wish) \in Nat \ {0} /\ a.next \in Nat \ {0}
        /\ a.current \in Seq([id : Nat, value : Zones!Texts])
        /\ a.alone /\ provider = "cloudflare" => Half(records, a.wish, a.current, a.next)
        /\ a.alone /\ provider = "route53" =>
             IF a.next = 1 THEN records = a.current ELSE Zones!SameValues(records, a.wish)
    BY <1>1, <1>a, <2>1, WritingFacts
  <2>3. a.alone => Zones!SameValues(records, a.wish)
    <3> SUFFICES ASSUME a.alone PROVE Zones!SameValues(records, a.wish)
      OBVIOUS
    <3>1. provider \in {"cloudflare", "route53"} /\ records \in Seq([id : Nat, value : Zones!Texts])
      BY <1>1, ZoneBounds DEF Zones!ServedInv
    <3>2. CASE provider = "cloudflare"
      <4>1. PICK E : E = [id : Nat, value : Zones!Texts]
        OBVIOUS
      <4>2. records \in Seq(E) /\ a.current \in Seq(E)
        BY <2>2, <3>1, <4>1
      <4> QED BY <2>1, <2>2, <3>2, <4>2, HalfEnd
    <3>3. CASE provider = "route53"
      <4>1. a.next # 1
        BY <2>1, <2>2
      <4> QED BY <2>2, <3>3, <4>1
    <3> QED BY <3>1, <3>2, <3>3
  <2>4. ~inexact'
    BY <1>1, <2>1, <2>3, Zenon
  <2>5. Zones!Idle.at = "idle"
    BY DEF Zones!Idle
  <2>6. Zones!ServedInv'
    BY <1>1, <1>2, <2>1, <2>5, OneServes
  <2>7. ZonesVault'
    BY <1>1, <1>2, <2>1, <2>5, OneCalm
  <2> QED BY <1>1, <1>2, <2>4, <2>6, <2>7 DEF ZonesGood
<1> QED BY <1>3, <1>4, <1>5, <1>6

\* Every step of the zone keeps the invariant.
LEMMA ZonesNext ==
    ASSUME ZonesGood, [Zones!Next]_zonesState PROVE ZonesGood'
<1>1. CASE UNCHANGED zonesState
  <2>1. ZonesVault /\ Zones!ServedInv /\ ~unproved /\ ~inexact /\ ~blamed /\ dnsClock \in Nat
    BY DEF ZonesGood, ZonesVault, Zones!ZoneTypes
  <2>2. /\ UNCHANGED <<tokenRows, dnsAccount, refs, plantFile, planted, plantRaced, agent,
                       verified, probed, provider, records, recordIds>>
        /\ dnsClock' = dnsClock /\ Clean
    BY <1>1 DEF zonesState, Clean
  <2>3. ZonesVault' /\ Zones!ServedInv'
    BY <2>1, <2>2, NoneMoves
  <2> QED BY <2>1, <2>2, <2>3 DEF ZonesGood, Clean
<1>2. CASE \/ Zones!TimePasses
           \/ \E t \in Tokens, s \in Zones!TokenScopes : Zones!EditScope(t, s)
           \/ \E p \in DnsAgents : Zones!AuditTokens(p)
  BY <1>2, OwnerKeeps
<1>3. ASSUME NEW t \in Tokens, NEW role \in Zones!Roles \ {"origin"}, Zones!StoreToken(role, t)
      PROVE  ZonesGood'
  <2>1. ZonesVault /\ Zones!ServedInv /\ ~unproved /\ ~inexact /\ ~blamed
    BY DEF ZonesGood
  <2>2. agent' = agent /\ UNCHANGED <<provider, records, recordIds>> /\ Clean
    BY <1>3 DEF Zones!StoreToken, Zones!trust, Zones!served, Clean
  <2>3. agent' = [q \in DnsAgents |-> agent'[q]]
    BY <2>1, <2>2 DEF Zones!ServedInv
  <2>4. Zones!ServedInv'
    BY <2>1, <2>2, <2>3, ServedFrame
  <2> QED BY <1>3, <2>1, <2>2, <2>4, StoreTokenKeeps DEF ZonesGood, Clean
<1>4. ASSUME NEW t \in Tokens, Zones!WritePlant(t) PROVE ZonesGood'
  <2>1. ZonesVault /\ Zones!ServedInv /\ ~unproved /\ ~inexact /\ ~blamed
    BY DEF ZonesGood
  <2>2. agent' = agent /\ UNCHANGED <<provider, records, recordIds>> /\ Clean
    BY <1>4 DEF Zones!WritePlant, Zones!trust, Zones!served, Clean
  <2>3. agent' = [q \in DnsAgents |-> agent'[q]]
    BY <2>1, <2>2 DEF Zones!ServedInv
  <2>4. Zones!ServedInv'
    BY <2>1, <2>2, <2>3, ServedFrame
  <2> QED BY <1>4, <2>1, <2>2, <2>4, WritePlantKeeps DEF ZonesGood, Clean
<1>5. ASSUME NEW p \in DnsAgents,
             \/ Zones!ConnectPut(p) \/ Zones!ConnectRows(p) \/ Zones!Plant(p) \/ Zones!PlantPut(p)
             \/ Zones!PlantSave(p) \/ Zones!PlantUnlink(p)
             \/ \E t \in Tokens : Zones!Connect(p, t)
      PROVE  ZonesGood'
  BY <1>5, VaultKeeps
<1>6. ASSUME NEW p \in DnsAgents,
             \/ Zones!ProbePasses(p) \/ Zones!ProbeRefuses(p) \/ Zones!CallRefused(p)
             \/ Zones!OtherCall(p) \/ Zones!Killed(p)
             \/ \E role \in Zones!Roles : Zones!Construct(p, role)
      PROVE  ZonesGood'
  BY <1>6, ClientsKeep DEF Zones!Roles
<1>7. ASSUME NEW p \in DnsAgents,
             \/ Zones!UpsertCall(p) \/ Zones!Route53Change(p) \/ Zones!UpsertDone(p)
             \/ \E wish \in Wishes : Zones!EnsureDns(p, wish) \/ Zones!UpsertList(p, wish)
      PROVE  ZonesGood'
  BY <1>7, UpsertsKeep
<1>8. CASE Zones!Next
  BY <1>2, <1>3, <1>4, <1>5, <1>6, <1>7, <1>8, Zenon DEF Zones!Next
<1> QED BY <1>1, <1>8

\* Every step of the zones keeps the scopes, the findings and the rows without ids.
LEMMA PlainNext ==
    ASSUME ZonesGood, Zones!PlainTypes, [Zones!Next]_zonesState PROVE Zones!PlainTypes'
<1>0. /\ scope \in [Tokens -> Zones!TokenScopes]
      /\ findings \subseteq {"cf-scope", "r53-fail", "cf-token-scope"} \X Zones!Roles
      /\ provider # "cloudflare" => \A i \in DOMAIN records : records[i].id = 0
    BY DEF Zones!PlainTypes
<1>1. CASE UNCHANGED <<provider, scope, findings, records>>
    BY <1>0, <1>1 DEF Zones!PlainTypes
<1>2. CASE UNCHANGED zonesState
    BY <1>1, <1>2 DEF zonesState
<1>3. ASSUME NEW t \in Tokens, NEW s \in Zones!TokenScopes, Zones!EditScope(t, s)
      PROVE  Zones!PlainTypes'
    <2>1. scope' = [scope EXCEPT ![t] = s] /\ UNCHANGED <<provider, findings, records>>
        BY <1>3 DEF Zones!EditScope, Zones!served
    <2>2. scope' \in [Tokens -> Zones!TokenScopes]
        BY <1>0, <2>1
    <2>3. QED
        BY <1>0, <2>1, <2>2 DEF Zones!PlainTypes
<1>4. ASSUME NEW p \in DnsAgents, Zones!ProbeRefuses(p) PROVE Zones!PlainTypes'
    <2>1. /\ UNCHANGED <<provider, scope, records>> /\ agent[p].at = "probing"
          /\ findings' = findings \cup (IF agent[p].role = "origin" THEN {}
                ELSE {<<IF provider = "route53" THEN "r53-fail" ELSE "cf-scope", agent[p].role>>})
        BY <1>4 DEF Zones!ProbeRefuses, Zones!served, Zones!Is
    <2>2. Zones!Remembers(agent[p])
        BY DEF ZonesGood, ZonesVault, Zones!ZoneTypes
    <2>3. agent[p].role \in Zones!Roles
        BY <2>1, <2>2 DEF Zones!Remembers, Zones!Calling
    <2>4. QED
        BY <1>0, <2>1, <2>3 DEF Zones!PlainTypes
<1>5. ASSUME NEW p \in DnsAgents, Zones!AuditTokens(p) PROVE Zones!PlainTypes'
    <2>1. /\ UNCHANGED <<provider, scope, records>>
          /\ \E bad \in SUBSET Zones!Roles : findings' = findings \cup {<<"cf-token-scope", r>> : r \in bad}
        BY <1>5 DEF Zones!AuditTokens, Zones!served
    <2>2. QED
        BY <1>0, <2>1 DEF Zones!PlainTypes
<1>6. ASSUME NEW p \in DnsAgents, Zones!UpsertCall(p) PROVE Zones!PlainTypes'
    <2>1. provider = "cloudflare" /\ UNCHANGED <<provider, scope, findings>>
        BY <1>6 DEF Zones!UpsertCall
    <2>2. QED
        BY <1>0, <2>1 DEF Zones!PlainTypes
<1>7. ASSUME NEW p \in DnsAgents, Zones!Route53Change(p) PROVE Zones!PlainTypes'
    <2>1. /\ provider = "route53" /\ UNCHANGED <<provider, scope, findings>>
          /\ \/ records' = records
             \/ records' = [i \in DOMAIN agent[p].wish |-> Zones!Row(0, agent[p].wish[i])]
        BY <1>7 DEF Zones!Route53Change
    <2>2. \A i \in DOMAIN records' : records'[i].id = 0
        BY <1>0, <2>1 DEF Zones!Row
    <2>3. QED
        BY <1>0, <2>1, <2>2 DEF Zones!PlainTypes
<1>8. ASSUME NEW p \in DnsAgents,
             \/ Zones!ConnectPut(p) \/ Zones!ConnectRows(p) \/ Zones!Plant(p) \/ Zones!PlantPut(p)
             \/ Zones!PlantSave(p) \/ Zones!PlantUnlink(p)
             \/ \E t \in Tokens : Zones!Connect(p, t)
      PROVE  Zones!PlainTypes'
    <2>1. UNCHANGED <<provider, scope, findings, records>>
        BY <1>8 DEF Zones!ConnectPut, Zones!ConnectRows, Zones!Plant, Zones!PlantPut, Zones!PlantSave,
           Zones!PlantUnlink, Zones!Connect, Zones!served
    <2>2. QED
        BY <1>1, <2>1
<1>9. ASSUME NEW p \in DnsAgents,
             \/ Zones!ProbePasses(p) \/ Zones!CallRefused(p) \/ Zones!OtherCall(p) \/ Zones!Killed(p)
             \/ \E role \in Zones!Roles : Zones!Construct(p, role)
             \/ Zones!UpsertDone(p)
             \/ \E wish \in Wishes : Zones!EnsureDns(p, wish) \/ Zones!UpsertList(p, wish)
      PROVE  Zones!PlainTypes'
    <2>1. UNCHANGED <<provider, scope, findings, records>>
        BY <1>9 DEF Zones!ProbePasses, Zones!CallRefused, Zones!OtherCall, Zones!Killed,
           Zones!Construct, Zones!UpsertDone, Zones!EnsureDns, Zones!UpsertList, Zones!served
    <2>2. QED
        BY <1>1, <2>1
<1>10. ASSUME \/ Zones!TimePasses
              \/ \E t \in Tokens :
                    Zones!WritePlant(t) \/ \E role \in Zones!Roles \ {"origin"} : Zones!StoreToken(role, t)
       PROVE  Zones!PlainTypes'
    <2>1. UNCHANGED <<provider, scope, findings, records>>
        BY <1>10 DEF Zones!TimePasses, Zones!WritePlant, Zones!StoreToken, Zones!served
    <2>2. QED
        BY <1>1, <2>1
<1>11. CASE Zones!Next
    BY <1>3, <1>4, <1>5, <1>6, <1>7, <1>8, <1>9, <1>10, <1>11, Zenon DEF Zones!Next
<1>12. QED
    BY <1>2, <1>11

\* The invariants of the zones give their types.
LEMMA ZonesTypes == ASSUME ZonesGood, Zones!PlainTypes PROVE Zones!TypeOK
<1>1. Zones!ZoneTypes /\ Zones!PassInv /\ Zones!ServedInv
    BY DEF ZonesGood, ZonesVault
<1>2. /\ scope \in [Tokens -> Zones!TokenScopes]
      /\ findings \subseteq {"cf-scope", "r53-fail", "cf-token-scope"} \X Zones!Roles
    BY DEF Zones!PlainTypes
<1>3. dnsAccount.ref \in [Zones!Roles -> 0..refs]
    <2>1. dnsAccount.ref \in [Zones!Roles -> Nat] /\ \A r \in Zones!Roles : dnsAccount.ref[r] <= refs
        BY <1>1 DEF Zones!ZoneTypes
    <2>2. refs \in Nat
        BY <1>1 DEF Zones!ZoneTypes
    <2>3. QED
        BY <2>1, <2>2
<1>4. \A k \in DOMAIN tokenRows : tokenRows[k].ref \in 1..refs /\ tokenRows[k].token \in Tokens
    <2>E. PICK E : E = [ref : Nat \ {0}, token : Tokens, live : BOOLEAN]
        OBVIOUS
    <2>0. tokenRows \in Seq(E)
        BY <1>1, <2>E DEF Zones!ZoneTypes
    <2>1. \A k \in DOMAIN tokenRows : tokenRows[k] \in E
        BY <2>0
    <2>2. refs \in Nat /\ \A k \in DOMAIN tokenRows : tokenRows[k].ref <= refs
        BY <1>1 DEF Zones!ZoneTypes
    <2>3. QED
        BY <2>1, <2>2, <2>E
<1>5. ASSUME NEW p \in DnsAgents PROVE agent[p].at \in Zones!Places /\ \A e \in verified[p] : e.at \in 0..dnsClock
    <2>1. agent[p].at \in Zones!Places
        BY <1>1 DEF Zones!ZoneTypes, Zones!Remembers
    <2>2. dnsClock \in Nat /\ \A e \in verified[p] : e.at \in Nat
        BY <1>1 DEF Zones!ZoneTypes
    <2>3. \A e \in verified[p] : e.at <= dnsClock
        BY <1>1 DEF Zones!PassInv
    <2>4. QED
        BY <2>1, <2>2, <2>3
<1>6. \A i \in DOMAIN records : records[i].id \in 0..recordIds
    BY <1>1 DEF Zones!ServedInv, Zones!PlainTypes
<1>7. QED
    BY <1>2, <1>3, <1>4, <1>5, <1>6 DEF Zones!TypeOK

ZonesAll == focus = "zones" => ZonesGood /\ Zones!PlainTypes

\* The composition keeps the invariants of the zones.
LEMMA ZonesInvariant == Spec => []ZonesAll
<1>1. Init => ZonesAll
  <2>0. ASSUME Zones!Init PROVE Zones!PlainTypes
    <3>1. findings = {} /\ records = <<>> /\ scope \in [Tokens -> {Zones!Narrow, Zones!Wide}]
      BY <2>0 DEF Zones!Init
    <3>2. scope \in [Tokens -> Zones!TokenScopes]
      BY <3>1 DEF Zones!TokenScopes
    <3> QED BY <3>1, <3>2 DEF Zones!PlainTypes
  <2> SUFFICES ASSUME Zones!Init PROVE ZonesGood
    BY <2>0 DEF Init, ZonesStarts, ZonesAll
  <2>1. /\ verified = [q \in DnsAgents |-> {}] /\ probed = [q \in DnsAgents |-> {}]
        /\ agent = [q \in DnsAgents |-> Zones!Idle] /\ records = <<>> /\ recordIds = 0
        /\ dnsClock = 0 /\ plantFile = Zones!NoToken /\ planted = {} /\ ~plantRaced
        /\ ~unproved /\ ~inexact /\ ~blamed /\ provider \in Providers
    BY DEF Zones!Init
  <2>2. /\ \A q \in DnsAgents : agent[q].at = "idle" /\ verified[q] = {} /\ probed[q] = {}
        /\ agent = [q \in DnsAgents |-> agent[q]]
    BY <2>1 DEF Zones!Idle
  <2>3. \/ /\ \E t \in Tokens : tokenRows = <<[ref |-> 1, token |-> t, live |-> TRUE]>>
           /\ dnsAccount = [exists |-> TRUE,
                            ref |-> [r \in Zones!Roles |-> IF r = "dns" THEN 1 ELSE 0]]
           /\ refs = 1
        \/ /\ tokenRows = <<>> /\ refs = 0
           /\ dnsAccount = [exists |-> FALSE, ref |-> [r \in Zones!Roles |-> 0]]
    BY Zenon DEF Zones!Init
  <2>4. Zones!ServedInv
    <3>1. records \in Seq([id : Nat, value : Zones!Texts]) /\ DOMAIN records = {}
      BY <2>1
    <3> QED BY <2>1, <2>2, <3>1 DEF Zones!ServedInv, Zones!Is, Zones!Listed
  <2>5. Zones!PassInv /\ Zones!PlantInv /\ Zones!PlantedIsKept
    BY <2>1, <2>2 DEF Zones!PassInv, Zones!PlantInv, Zones!PlantedIsKept, Zones!Planting
  <2>6. /\ verified \in [DnsAgents -> SUBSET [key : Zones!Roles \X Nat \X Nat, at : Nat]]
        /\ probed \in [DnsAgents -> SUBSET [row : Nat, at : Nat]]
        /\ \A q \in DnsAgents : Zones!Remembers(agent[q])
    BY <2>1, <2>2 DEF Zones!Remembers, Zones!Places, Zones!PlantPlaces, Zones!Calling
  <2>7. "dns" \in Zones!Roles /\ "edge" \in Zones!Roles /\ "origin" \in Zones!Roles
    BY DEF Zones!Roles
  <2>8. CASE /\ tokenRows = <<>> /\ refs = 0
             /\ dnsAccount = [exists |-> FALSE, ref |-> [r \in Zones!Roles |-> 0]]
    <3>1. /\ tokenRows \in Seq([ref : Nat \ {0}, token : Tokens, live : BOOLEAN])
          /\ DOMAIN tokenRows = {} /\ dnsAccount \in [exists : BOOLEAN, ref : [Zones!Roles -> Nat]]
          /\ ~dnsAccount.exists /\ \A r \in Zones!Roles : dnsAccount.ref[r] = 0
      BY <2>8
    <3>2. Zones!ZoneTypes
      BY <2>1, <2>2, <2>6, <2>8, <3>1 DEF Zones!ZoneTypes
    <3>3. Zones!RefsApart /\ Zones!AccountInv
      BY <2>2, <2>7, <3>1 DEF Zones!RefsApart, Zones!AccountInv, Zones!PlantOwn, Zones!Is,
         Zones!PlantPlaces, Zones!Calling
    <3> QED BY <2>1, <2>4, <2>5, <3>2, <3>3 DEF ZonesGood, ZonesVault
  <2>9. CASE /\ \E t \in Tokens : tokenRows = <<[ref |-> 1, token |-> t, live |-> TRUE]>>
             /\ dnsAccount = [exists |-> TRUE,
                              ref |-> [r \in Zones!Roles |-> IF r = "dns" THEN 1 ELSE 0]]
             /\ refs = 1
    <3>1. PICK t \in Tokens : tokenRows = <<[ref |-> 1, token |-> t, live |-> TRUE]>>
      BY <2>9
    <3>2. /\ tokenRows \in Seq([ref : Nat \ {0}, token : Tokens, live : BOOLEAN])
          /\ DOMAIN tokenRows = {1} /\ tokenRows[1].ref = 1 /\ tokenRows[1].live
      BY <3>1
    <3>3. /\ dnsAccount \in [exists : BOOLEAN, ref : [Zones!Roles -> Nat]] /\ dnsAccount.exists
          /\ dnsAccount.ref["dns"] = 1 /\ dnsAccount.ref["edge"] = 0 /\ dnsAccount.ref["origin"] = 0
          /\ \A r \in Zones!Roles : dnsAccount.ref[r] <= 1
      BY <2>7, <2>9
    <3>4. Zones!ZoneTypes
      BY <2>1, <2>2, <2>6, <2>9, <3>2, <3>3 DEF Zones!ZoneTypes
    <3>5. Zones!RefsApart /\ Zones!AccountInv
      BY <2>2, <3>2, <3>3 DEF Zones!RefsApart, Zones!AccountInv, Zones!PlantOwn, Zones!Is,
         Zones!PlantPlaces, Zones!Calling
    <3> QED BY <2>1, <2>4, <2>5, <3>4, <3>5 DEF ZonesGood, ZonesVault
  <2> QED BY <2>3, <2>8, <2>9
<1>2. ZonesAll /\ [Next]_allVars => ZonesAll'
  <2> SUFFICES ASSUME ZonesAll, [Next]_allVars, focus = "zones" PROVE ZonesGood' /\ Zones!PlainTypes'
    BY OneAtATime DEF ZonesAll
  <2>1. ZonesGood /\ Zones!PlainTypes /\ [Zones!Next]_zonesState
    BY OneAtATime DEF ZonesAll
  <2> QED BY <2>1, ZonesNext, PlainNext
<1> QED BY <1>1, <1>2, PTL DEF Spec

\* providers/registry.py, cloudflare.py, route53.py, core/zone_views.py, monitor/token_audit.py:
\* no client without a pass of its own row, no account without a token, no planted token lost
\* while plants take turns, a lone upsert exact, a served name never empty, no token blamed
\* that the wall accepts; for any processes, tokens, wishes, lifetimes and faults.
THEOREM ZonesTheorem == Spec => []ZonesHold
<1>1. ZonesAll => ZonesHold
  <2> SUFFICES ASSUME ZonesGood
               PROVE  /\ Zones!ClientsAreProved /\ Zones!AccountHasToken /\ Zones!PlantedIsKept
                      /\ Zones!UpsertIsExact /\ Zones!NameStaysServed /\ Zones!AuditAgreesWithWall
    BY DEF ZonesAll, ZonesHold
  <2>1. /\ Zones!ZoneTypes /\ Zones!AccountInv /\ Zones!PlantedIsKept /\ Zones!ServedInv
        /\ ~unproved /\ ~inexact /\ ~blamed
    BY DEF ZonesGood, ZonesVault
  <2>2. Zones!AccountHasToken
    BY <2>1, NewestFacts DEF Zones!AccountInv, Zones!AccountHasToken
  <2>3. Zones!NameStaysServed
    BY <2>1 DEF Zones!ServedInv, Zones!NameStaysServed
  <2>4. Zones!ClientsAreProved /\ Zones!UpsertIsExact /\ Zones!AuditAgreesWithWall
    BY <2>1 DEF Zones!ClientsAreProved, Zones!UpsertIsExact, Zones!AuditAgreesWithWall
  <2> QED BY <2>1, <2>2, <2>3, <2>4
<1> QED BY <1>1, ZonesInvariant, PTL

---------------------------------------------------------------------------
(* The anti-noise engine of the alerts *)

\* The cardinality that the engine counts with is the one of the library.
LEMMA CountBridge == ASSUME NEW S PROVE Alerts!Cardinality(S) = Cardinality(S)
BY Zenon DEF Alerts!Cardinality, Cardinality

\* Of two sets of positions of a sequence, the larger has at least as many.
LEMMA CountSub ==
    ASSUME NEW n \in Nat, NEW T, T \subseteq 1..n, NEW S, S \subseteq T
    PROVE  /\ Alerts!Cardinality(T) \in Nat /\ Alerts!Cardinality(S) \in Nat
           /\ Alerts!Cardinality(S) <= Alerts!Cardinality(T)
<1>1. IsFiniteSet(1..n)
    BY FS_Interval
<1>2. IsFiniteSet(T)
    BY <1>1, FS_Subset
<1>3. IsFiniteSet(S) /\ Cardinality(S) <= Cardinality(T)
    BY <1>2, FS_Subset
<1>4. Cardinality(S) \in Nat /\ Cardinality(T) \in Nat
    BY <1>2, <1>3, FS_CardinalityType
<1>5. QED
    BY <1>3, <1>4, CountBridge

\* Positions that move into a set by a shift are no more than the set has.
LEMMA CountShift ==
    ASSUME NEW n \in Nat, NEW T, T \subseteq 1..n, NEW S, S \subseteq Int, NEW k \in Int,
           \A i \in S : i + k \in T
    PROVE  /\ Alerts!Cardinality(T) \in Nat /\ Alerts!Cardinality(S) \in Nat
           /\ Alerts!Cardinality(S) <= Alerts!Cardinality(T)
<1> DEFINE g == [i \in S |-> i + k]
<1>1. IsFiniteSet(T)
    <2>1. IsFiniteSet(1..n)
        BY FS_Interval
    <2>2. QED
        BY <2>1, FS_Subset
<1>2. g \in Injection(S, T)
    <2>1. g \in [S -> T]
        OBVIOUS
    <2>2. \A i, j \in S : g[i] = g[j] => i = j
        OBVIOUS
    <2>3. QED
        BY <2>1, <2>2 DEF Injection, IsInjective
<1>3. IsFiniteSet(S) /\ Cardinality(S) <= Cardinality(T)
    BY <1>1, <1>2, FS_Injection
<1>4. Cardinality(S) \in Nat /\ Cardinality(T) \in Nat
    BY <1>1, <1>3, FS_CardinalityType
<1>5. QED
    BY <1>3, <1>4, CountBridge

\* One more position adds at most one.
LEMMA CountAdd ==
    ASSUME NEW n \in Nat, NEW T, T \subseteq 1..n, NEW x \in 1..n, NEW S, S \subseteq T \cup {x}
    PROVE  /\ Alerts!Cardinality(T) \in Nat /\ Alerts!Cardinality(S) \in Nat
           /\ Alerts!Cardinality(S) <= Alerts!Cardinality(T) + 1
<1>1. IsFiniteSet(1..n)
    BY FS_Interval
<1>2. IsFiniteSet(T)
    BY <1>1, FS_Subset
<1>3. /\ IsFiniteSet(T \cup {x}) /\ Cardinality(T) \in Nat
      /\ Cardinality(T \cup {x}) <= Cardinality(T) + 1
    BY <1>2, FS_AddElement, FS_CardinalityType
<1>4. IsFiniteSet(S) /\ Cardinality(S) <= Cardinality(T \cup {x})
    BY <1>3, FS_Subset
<1>5. Cardinality(S) \in Nat /\ Cardinality(T \cup {x}) \in Nat
    BY <1>3, <1>4, FS_CardinalityType
<1>6. QED
    BY <1>3, <1>4, <1>5, CountBridge

\* No position, no count.
LEMMA CountNone == Alerts!Cardinality({}) = 0
BY CountBridge, FS_EmptySet

---------------------------------------------------------------------------
\* A site is quiet when it has moved, and not for FLAP_WINDOW.
Quiet(a, s, t) == a.moves[s] # <<>> /\ t - Alerts!LastMove(a, s) >= FlapWindow

\* What the calls inside a probe of s may do to the tables: they leave the counters, the
\* alerts' states and their moves alone, resolve no row of a site but the FLAPPING of s
\* after a quiet window, touch no other site's rows and keep the log within its bound.
Inner(a, b, s, t) ==
    /\ b \in Alerts!Tables
    /\ b.fails = a.fails /\ b.oks = a.oks /\ b.isOpen = a.isOpen /\ b.moves = a.moves
    /\ \A f \in Alerts!Fps : f[1] # s /\ f[1] # "fleet" => b.row[f] = a.row[f]
    /\ b.row[Alerts!Down(s)] = a.row[Alerts!Down(s)] \/ Alerts!Unresolved(b, Alerts!Down(s))
    /\ \/ b.row[Alerts!Flap(s)] = a.row[Alerts!Flap(s)]
       \/ Alerts!Unresolved(b, Alerts!Flap(s))
       \/ Quiet(a, s, t)
    /\ Alerts!LogInv(a.log) => Alerts!LogInv(b.log)

\* The rows of the sites and of the fleet are different rows.
LEMMA FpFacts ==
    ASSUME NEW s \in Alerts!Sites
    PROVE  /\ Alerts!Down(s) \in Alerts!Fps /\ Alerts!Flap(s) \in Alerts!Fps
           /\ Alerts!Storm \in Alerts!Fps /\ Alerts!Aggregate \in Alerts!Fps
           /\ s # "fleet" /\ Alerts!Down(s)[1] = s /\ Alerts!Flap(s)[1] = s
           /\ Alerts!Down(s)[2] = "down" /\ Alerts!Flap(s)[2] = "flap"
           /\ Alerts!Storm[1] = "fleet" /\ Alerts!Aggregate[1] = "fleet"
           /\ Alerts!Down(s) # Alerts!Flap(s)
           /\ {Alerts!Storm, Alerts!Aggregate} \cap {Alerts!Down(s), Alerts!Flap(s)} = {}
           /\ Alerts!Aggregate # Alerts!Storm
BY AlertBounds DEF Alerts!Down, Alerts!Flap, Alerts!Storm, Alerts!Aggregate, Alerts!Fps, Alerts!Sites

\* Inner is transitive.
LEMMA InnerTwice ==
    ASSUME NEW a, NEW b, NEW c, NEW s, NEW t, Inner(a, b, s, t), Inner(b, c, s, t)
    PROVE  Inner(a, c, s, t)
BY DEF Inner, Quiet, Alerts!LastMove, Alerts!Unresolved

\* Tables that differ only in clocks, deliveries and mails are related.
LEMMA InnerSame ==
    ASSUME NEW a, NEW b \in Alerts!Tables, NEW s, NEW t,
           b.fails = a.fails, b.oks = a.oks, b.isOpen = a.isOpen, b.moves = a.moves,
           b.row = a.row, b.log = a.log
    PROVE  Inner(a, b, s, t)
BY DEF Inner

\* Pages of a window that the breaker counts.
Counted(q, t) == {i \in DOMAIN q : q[i].counts /\ t - q[i].at <= StormWindow}

\* The log stays within its bound when the entry it gets is a notice, is the storm's own
\* page, or comes while the breaker is not storming.
LEMMA PushLog ==
    ASSUME NEW q \in Seq(Alerts!Push), NEW e \in Alerts!Push, Alerts!LogInv(q),
           \/ e.recovery
           \/ e.counts /\ e.fp = Alerts!Storm
           \/ e.counts /\ Alerts!Cardinality(Counted(q, e.at)) <= StormLimit
    PROVE  Alerts!LogInv(Append(q, e))
<1> PICK n \in Nat : n = Len(q)
    OBVIOUS
<1> PICK p : p = Append(q, e)
    OBVIOUS
<1>1. /\ DOMAIN q = 1..n /\ DOMAIN p = 1..(n + 1) /\ p[n + 1] = e
      /\ \A i \in 1..n : p[i] = q[i]
    OBVIOUS
<1>2. \A i \in DOMAIN p : ~p[i].recovery => p[i].counts
    BY <1>1 DEF Alerts!LogInv, Alerts!Push
<1>3. ASSUME NEW i \in Alerts!First(p) PROVE Alerts!Cardinality(Alerts!InWindow(p, i)) <= StormLimit + 1
    <2>1. CASE i \in 1..n
        <3>1. i \in Alerts!First(q) /\ Alerts!InWindow(p, i) = Alerts!InWindow(q, i)
            BY <1>1, <2>1 DEF Alerts!First, Alerts!InWindow
        <3>2. QED
            BY <3>1 DEF Alerts!LogInv
    <2>2. CASE i = n + 1
        <3>1. e.counts /\ Alerts!Cardinality(Counted(q, e.at)) <= StormLimit
            BY <1>1, <2>2 DEF Alerts!First, Alerts!Push
        <3>2. Counted(q, e.at) \subseteq 1..(n + 1)
            BY <1>1 DEF Counted
        <3>3. Alerts!InWindow(p, i) \subseteq Counted(q, e.at) \cup {n + 1}
            <4>1. SUFFICES ASSUME NEW j \in Alerts!InWindow(p, i), j # n + 1
                           PROVE  j \in Counted(q, e.at)
                OBVIOUS
            <4>2. j \in 1..n /\ ~p[j].recovery /\ e.at - p[j].at <= StormWindow
                BY <1>1, <2>2, <4>1 DEF Alerts!First, Alerts!InWindow
            <4>3. QED
                BY <1>1, <1>2, <4>2 DEF Counted
        <3>4. /\ Alerts!Cardinality(Counted(q, e.at)) \in Nat
              /\ Alerts!Cardinality(Alerts!InWindow(p, i)) \in Nat
              /\ Alerts!Cardinality(Alerts!InWindow(p, i)) <= Alerts!Cardinality(Counted(q, e.at)) + 1
            BY <3>2, <3>3, CountAdd
        <3>5. QED
            BY <3>1, <3>4, AlertBounds
    <2>3. QED
        BY <1>1, <2>1, <2>2 DEF Alerts!First
<1>4. Alerts!LogInv(p)
    BY <1>2, <1>3 DEF Alerts!LogInv
<1>5. QED
    BY <1>4

\* The fields of the tables have their types.
LEMMA FieldTypes ==
    ASSUME NEW a \in Alerts!Tables
    PROVE  /\ a.fails \in [Alerts!Sites -> Nat] /\ a.oks \in [Alerts!Sites -> Nat]
           /\ a.isOpen \in [Alerts!Sites -> BOOLEAN] /\ a.moves \in [Alerts!Sites -> Seq(Alerts!Move)]
           /\ a.openedAt \in [Alerts!Fps -> Int] /\ a.row \in [Alerts!Fps -> Alerts!States]
           /\ a.pushAt \in [Alerts!Fps -> Int] /\ a.log \in Seq(Alerts!Push) /\ a.storm \in Int
           /\ a.okOnce \in SUBSET Alerts!Fps /\ a.mailed \in SUBSET Alerts!Fps
           /\ a.failed \in SUBSET Alerts!Fps
BY DEF Alerts!Tables

\* _record_push() records an entry that the log has room for.
LEMMA RecordPushInner ==
    ASSUME NEW a \in Alerts!Tables, NEW f \in Alerts!Fps, NEW t \in Nat, NEW s,
           NEW counts \in BOOLEAN, NEW recovery \in BOOLEAN,
           \/ recovery
           \/ counts /\ f = Alerts!Storm
           \/ counts /\ ~Alerts!Storming(a, t)
    PROVE  /\ Inner(a, Alerts!RecordPush(a, f, t, counts, recovery), s, t)
           /\ Alerts!RecordPush(a, f, t, counts, recovery).row = a.row
<1> PICK e : e = [at |-> t, fp |-> f, counts |-> counts, delivered |-> FALSE, recovery |-> recovery]
    OBVIOUS
<1>1. /\ e \in Alerts!Push /\ e.at = t /\ e.fp = f /\ e.counts = counts /\ e.recovery = recovery
    BY DEF Alerts!Push
<1> PICK q : q = Append(a.log, e)
    OBVIOUS
<1> PICK b : b = [a EXCEPT !.log = q]
    OBVIOUS
<1>2. Alerts!RecordPush(a, f, t, counts, recovery) = b
    BY DEF Alerts!RecordPush
<1>3. a.log \in Seq(Alerts!Push)
    BY FieldTypes
<1>4. q \in Seq(Alerts!Push)
    BY <1>1, <1>3
<1>5. /\ b \in Alerts!Tables
      /\ b.fails = a.fails /\ b.oks = a.oks /\ b.isOpen = a.isOpen /\ b.moves = a.moves
      /\ b.row = a.row /\ b.log = q
    BY <1>4 DEF Alerts!Tables
<1>6. Alerts!Recent(a, t) = Counted(a.log, t)
    BY DEF Alerts!Recent, Counted
<1>7. ~Alerts!Storming(a, t) => Alerts!Cardinality(Counted(a.log, t)) <= StormLimit
    <2>1. Alerts!Cardinality(Counted(a.log, t)) \in Nat
        <3>1. Len(a.log) \in Nat /\ Counted(a.log, t) \subseteq 1..Len(a.log)
            BY <1>3 DEF Counted
        <3>2. QED
            BY <3>1, CountSub
    <2>2. QED
        BY <1>6, <2>1, AlertBounds DEF Alerts!Storming
<1>8. ASSUME Alerts!LogInv(a.log) PROVE Alerts!LogInv(q)
    BY <1>1, <1>3, <1>7, <1>8, PushLog
<1>9. QED
    BY <1>2, <1>5, <1>8 DEF Inner

\* Stamping a row's clock changes no row and no log.
LEMMA StampInner ==
    ASSUME NEW a \in Alerts!Tables, NEW f \in Alerts!Fps, NEW u \in Int, NEW s, NEW t
    PROVE  /\ Inner(a, [a EXCEPT !.pushAt[f] = u], s, t)
           /\ [a EXCEPT !.pushAt[f] = u].row = a.row
<1> PICK g : g = [a.pushAt EXCEPT ![f] = u]
    OBVIOUS
<1> PICK b : b = [a EXCEPT !.pushAt = g]
    OBVIOUS
<1>1. [a EXCEPT !.pushAt[f] = u] = b
    OBVIOUS
<1>2. g \in [Alerts!Fps -> Int]
    BY FieldTypes
<1>3. /\ b \in Alerts!Tables
      /\ b.fails = a.fails /\ b.oks = a.oks /\ b.isOpen = a.isOpen /\ b.moves = a.moves
      /\ b.row = a.row /\ b.log = a.log
    BY <1>2 DEF Alerts!Tables
<1>4. QED
    BY <1>1, <1>3, InnerSame

\* deliver() changes no row and no log.
LEMMA DeliverInner ==
    ASSUME NEW a \in Alerts!Tables, NEW f \in Alerts!Fps, NEW t \in Nat, NEW up \in BOOLEAN, NEW s
    PROVE  /\ Inner(a, Alerts!Deliver(a, f, t, up), s, t)
           /\ Alerts!Deliver(a, f, t, up).row = a.row
<1> PICK u : u = IF up THEN t ELSE IF f \in a.okOnce THEN a.pushAt[f] ELSE Alerts!None
    OBVIOUS
<1> PICK g : g = [a.pushAt EXCEPT ![f] = u]
    OBVIOUS
<1> PICK w : w = IF up THEN a.okOnce \cup {f} ELSE a.okOnce
    OBVIOUS
<1> PICK v : v = IF up THEN a.failed \ {f} ELSE a.failed \cup {f}
    OBVIOUS
<1> PICK b : b = [a EXCEPT !.pushAt = g, !.okOnce = w, !.failed = v]
    OBVIOUS
<1>1. u \in Int /\ w \in SUBSET Alerts!Fps /\ v \in SUBSET Alerts!Fps
    BY FieldTypes DEF Alerts!None
<1>2. g \in [Alerts!Fps -> Int]
    BY <1>1, FieldTypes
<1>3. /\ b \in Alerts!Tables
      /\ b.fails = a.fails /\ b.oks = a.oks /\ b.isOpen = a.isOpen /\ b.moves = a.moves
      /\ b.row = a.row /\ b.log = a.log
    BY <1>1, <1>2 DEF Alerts!Tables
<1>4. Alerts!Deliver(a, f, t, up) = b
    <2>1. CASE up
        BY <2>1 DEF Alerts!Deliver
    <2>2. CASE ~up
        <3>1. b = [a EXCEPT !.pushAt = g, !.failed = v]
            BY <2>2 DEF Alerts!Tables
        <3>2. QED
            BY <2>2, <3>1 DEF Alerts!Deliver
    <2>3. QED
        BY <2>1, <2>2
<1>5. QED
    BY <1>3, <1>4, InnerSame

\* A row given a state: nothing else changes.
LEMMA RowSet ==
    ASSUME NEW a \in Alerts!Tables, NEW f \in Alerts!Fps, NEW r \in Alerts!States
    PROVE  /\ [a EXCEPT !.row[f] = r] \in Alerts!Tables
           /\ [a EXCEPT !.row[f] = r].fails = a.fails /\ [a EXCEPT !.row[f] = r].oks = a.oks
           /\ [a EXCEPT !.row[f] = r].isOpen = a.isOpen /\ [a EXCEPT !.row[f] = r].moves = a.moves
           /\ [a EXCEPT !.row[f] = r].log = a.log /\ [a EXCEPT !.row[f] = r].storm = a.storm
           /\ [a EXCEPT !.row[f] = r].row = [a.row EXCEPT ![f] = r]
<1> PICK g : g = [a.row EXCEPT ![f] = r]
    OBVIOUS
<1>1. g \in [Alerts!Fps -> Alerts!States]
    BY FieldTypes
<1>2. [a EXCEPT !.row[f] = r] = [a EXCEPT !.row = g]
    OBVIOUS
<1>3. QED
    BY <1>1, <1>2 DEF Alerts!Tables

\* finding() leaves its row unresolved, and changes only that row.
LEMMA FiledInner ==
    ASSUME NEW a \in Alerts!Tables, NEW f \in Alerts!Fps, NEW s \in Alerts!Sites, NEW t,
           f[1] \in {s, "fleet"}
    PROVE  Inner(a, Alerts!Filed(a, f), s, t) /\ Alerts!Unresolved(Alerts!Filed(a, f), f)
<1> PICK r : r = IF a.row[f] \in {"none", "resolved"} THEN "open" ELSE a.row[f]
    OBVIOUS
<1> PICK b : b = [a EXCEPT !.row[f] = r]
    OBVIOUS
<1>1. Alerts!Filed(a, f) = b
    BY DEF Alerts!Filed
<1>2. r \in Alerts!States /\ r \notin {"none", "resolved"}
    BY FieldTypes DEF Alerts!States
<1>3. /\ b \in Alerts!Tables
      /\ b.fails = a.fails /\ b.oks = a.oks /\ b.isOpen = a.isOpen /\ b.moves = a.moves
      /\ b.log = a.log /\ b.row = [a.row EXCEPT ![f] = r]
    BY <1>2, RowSet
<1>4. /\ b.row[f] = r
      /\ \A g \in Alerts!Fps \ {f} : b.row[g] = a.row[g]
    BY <1>3, FieldTypes
<1>5. \A g \in Alerts!Fps : g[1] # s /\ g[1] # "fleet" => b.row[g] = a.row[g]
    BY <1>4
<1>6. \A g \in Alerts!Fps : b.row[g] = a.row[g] \/ Alerts!Unresolved(b, g)
    BY <1>2, <1>4 DEF Alerts!Unresolved
<1>7. Inner(a, b, s, t)
    BY <1>3, <1>5, <1>6, FpFacts DEF Inner
<1>8. QED
    BY <1>1, <1>2, <1>4, <1>7 DEF Alerts!Unresolved

\* Resolving the storm's row touches no site's row.
LEMMA StormResolved ==
    ASSUME NEW a \in Alerts!Tables, NEW s \in Alerts!Sites, NEW t
    PROVE  Inner(a, [a EXCEPT !.row[Alerts!Storm] = "resolved"], s, t)
<1> PICK b : b = [a EXCEPT !.row[Alerts!Storm] = "resolved"]
    OBVIOUS
<1>1. "resolved" \in Alerts!States /\ Alerts!Storm \in Alerts!Fps
    BY FpFacts DEF Alerts!States
<1>3. /\ b \in Alerts!Tables
      /\ b.fails = a.fails /\ b.oks = a.oks /\ b.isOpen = a.isOpen /\ b.moves = a.moves
      /\ b.log = a.log /\ b.row = [a.row EXCEPT ![Alerts!Storm] = "resolved"]
    BY <1>1, RowSet
<1>4. \A g \in Alerts!Fps \ {Alerts!Storm} : b.row[g] = a.row[g]
    BY <1>1, <1>3, FieldTypes
<1>5. QED
    BY <1>3, <1>4, FpFacts DEF Inner

\* The breaker's memory changes no row and no log.
LEMMA StormSet ==
    ASSUME NEW a \in Alerts!Tables, NEW u \in Int, NEW g \in [Alerts!Fps -> Int], NEW s, NEW t
    PROVE  /\ Inner(a, [a EXCEPT !.storm = u, !.openedAt = g], s, t)
           /\ Inner(a, [a EXCEPT !.storm = u], s, t)
           /\ [a EXCEPT !.storm = u, !.openedAt = g].row = a.row
           /\ [a EXCEPT !.storm = u].row = a.row
<1> PICK b : b = [a EXCEPT !.storm = u, !.openedAt = g]
    OBVIOUS
<1> PICK c : c = [a EXCEPT !.storm = u]
    OBVIOUS
<1>1. /\ b \in Alerts!Tables
      /\ b.fails = a.fails /\ b.oks = a.oks /\ b.isOpen = a.isOpen /\ b.moves = a.moves
      /\ b.row = a.row /\ b.log = a.log
    BY DEF Alerts!Tables
<1>2. /\ c \in Alerts!Tables
      /\ c.fails = a.fails /\ c.oks = a.oks /\ c.isOpen = a.isOpen /\ c.moves = a.moves
      /\ c.row = a.row /\ c.log = a.log
    BY DEF Alerts!Tables
<1>3. QED
    BY <1>1, <1>2, InnerSame

\* Both ends of Inner are tables.
LEMMA InnerTables ==
    ASSUME NEW a, NEW b, NEW s, NEW t, Inner(a, b, s, t)
    PROVE  b \in Alerts!Tables
BY DEF Inner

\* storm_breaker() stays inside a probe of any site.
LEMMA StormBreakerInner ==
    ASSUME NEW a \in Alerts!Tables, NEW t \in Nat, NEW up \in BOOLEAN, NEW nested \in BOOLEAN,
           NEW s \in Alerts!Sites
    PROVE  Inner(a, Alerts!StormBreaker(a, t, up, nested), s, t)
<1>0. Alerts!Storm \in Alerts!Fps /\ Alerts!Storm[1] = "fleet"
    BY FpFacts
<1>1. CASE Alerts!Storming(a, t) /\ (a.storm = Alerts!None \/ t - a.storm >= StormWindow)
    <2>g. PICK g : g = [a.openedAt EXCEPT ![Alerts!Storm] =
                        IF a.storm = Alerts!None THEN t ELSE a.openedAt[Alerts!Storm]]
        OBVIOUS
    <2>a1. PICK a1 : a1 = [a EXCEPT !.storm = t, !.openedAt = g]
        OBVIOUS
    <2>b. PICK b : b = Alerts!Filed(a1, Alerts!Storm)
        OBVIOUS
    <2>b1. PICK b1 : b1 = Alerts!RecordPush(b, Alerts!Storm, t, TRUE, FALSE)
        OBVIOUS
    <2>b2. PICK b2 : b2 = [b1 EXCEPT !.pushAt[Alerts!Storm] = t]
        OBVIOUS
    <2>c. PICK c : c = IF b.row[Alerts!Storm] = "open" /\ ~nested THEN b2 ELSE b
        OBVIOUS
    <2>d. PICK d : d = IF b.row[Alerts!Storm] = "open" THEN Alerts!Deliver(c, Alerts!Storm, t, up) ELSE c
        OBVIOUS
    <2>1. Alerts!StormBreaker(a, t, up, nested) = d
        <3>1. a1 = [a EXCEPT !.storm = t, !.openedAt[Alerts!Storm] = IF a.storm = Alerts!None THEN t ELSE @]
            BY <2>g, <2>a1
        <3>2. QED
            BY <1>1, <2>b, <2>b1, <2>b2, <2>c, <2>d, <3>1 DEF Alerts!StormBreaker
    <2>2. g \in [Alerts!Fps -> Int]
        BY <1>0, <2>g, FieldTypes
    <2>3. Inner(a, a1, s, t) /\ a1 \in Alerts!Tables
        <3>1. t \in Int
            OBVIOUS
        <3>2. Inner(a, [a EXCEPT !.storm = t, !.openedAt = g], s, t)
            BY <2>2, <3>1, StormSet, Zenon
        <3>3. QED
            BY <2>a1, <3>2, InnerTables
    <2>4. Inner(a1, b, s, t) /\ b \in Alerts!Tables
        BY <1>0, <2>3, <2>b, FiledInner, InnerTables
    <2>5. Inner(b, b1, s, t) /\ b1 \in Alerts!Tables
        BY <1>0, <2>4, <2>b1, RecordPushInner, InnerTables
    <2>6. Inner(b1, b2, s, t)
        BY <1>0, <2>5, <2>b2, StampInner
    <2>7. Inner(a, b, s, t)
        BY <2>3, <2>4, InnerTwice
    <2>8. Inner(a, b2, s, t)
        BY <2>5, <2>6, <2>7, InnerTwice
    <2>9. Inner(a, c, s, t) /\ c \in Alerts!Tables
        BY <2>7, <2>8, <2>c, InnerTables
    <2>10. Inner(c, Alerts!Deliver(c, Alerts!Storm, t, up), s, t)
        BY <1>0, <2>9, DeliverInner
    <2>11. Inner(a, d, s, t)
        BY <2>9, <2>10, <2>d, InnerTwice
    <2>12. QED
        BY <2>1, <2>11
<1>2. CASE ~Alerts!Storming(a, t) /\ a.storm # Alerts!None
    <2>b. PICK b : b = [a EXCEPT !.storm = Alerts!None]
        OBVIOUS
    <2>b1. PICK b1 : b1 = [b EXCEPT !.row[Alerts!Storm] = "resolved"]
        OBVIOUS
    <2>b2. PICK b2 : b2 = Alerts!RecordPush(b1, Alerts!Storm, t, FALSE, TRUE)
        OBVIOUS
    <2>1. Alerts!StormBreaker(a, t, up, nested) = IF Alerts!Unresolved(b, Alerts!Storm) THEN b2 ELSE b
        BY <1>2, <2>b, <2>b1, <2>b2 DEF Alerts!StormBreaker
    <2>2. Alerts!None \in Int /\ a.openedAt \in [Alerts!Fps -> Int]
        BY FieldTypes DEF Alerts!None
    <2>3. Inner(a, b, s, t) /\ b \in Alerts!Tables
        BY <2>2, <2>b, StormSet, InnerTables
    <2>4. Inner(b, b1, s, t) /\ b1 \in Alerts!Tables
        BY <2>3, <2>b1, StormResolved, InnerTables
    <2>5. Inner(b1, b2, s, t)
        BY <1>0, <2>4, <2>b2, RecordPushInner
    <2>6. Inner(a, b2, s, t)
        BY <2>3, <2>4, <2>5, InnerTwice
    <2>7. QED
        BY <2>1, <2>3, <2>6
<1>3. CASE /\ ~(Alerts!Storming(a, t) /\ (a.storm = Alerts!None \/ t - a.storm >= StormWindow))
           /\ ~(~Alerts!Storming(a, t) /\ a.storm # Alerts!None)
    <2>1. Alerts!StormBreaker(a, t, up, nested) = a
        BY <1>3 DEF Alerts!StormBreaker
    <2>2. QED
        BY <2>1, InnerSame
<1>4. QED
    BY <1>1, <1>2, <1>3

\* recovery_notice() stays inside a probe of any site.
LEMMA RecoveryInner ==
    ASSUME NEW a \in Alerts!Tables, NEW f \in Alerts!Fps, NEW t \in Nat, NEW up \in BOOLEAN,
           NEW nested \in BOOLEAN, NEW s \in Alerts!Sites
    PROVE  Inner(a, Alerts!RecoveryNotice(a, f, t, up, nested), s, t)
<1>b. PICK b : b = Alerts!RecordPush(a, f, t, TRUE, TRUE)
    OBVIOUS
<1>1. Inner(a, b, s, t) /\ b \in Alerts!Tables
    BY <1>b, RecordPushInner, InnerTables
<1>2. Inner(b, Alerts!StormBreaker(b, t, up, nested), s, t)
    BY <1>1, StormBreakerInner
<1>3. QED
    BY <1>1, <1>2, <1>b, InnerTwice DEF Alerts!RecoveryNotice

\* _maybe_resolve_flap() resolves FLAPPING of its site only after a quiet window.
LEMMA ResolveFlapInner ==
    ASSUME NEW a \in Alerts!Tables, NEW t \in Nat, NEW up \in BOOLEAN,
           NEW nested \in BOOLEAN, NEW s \in Alerts!Sites
    PROVE  Inner(a, Alerts!MaybeResolveFlap(a, s, t, up, nested), s, t)
<1>1. CASE Quiet(a, s, t) /\ Alerts!Unresolved(a, Alerts!Flap(s))
    <2>b. PICK b : b = [a EXCEPT !.row[Alerts!Flap(s)] = "resolved"]
        OBVIOUS
    <2>1. "resolved" \in Alerts!States /\ Alerts!Flap(s) \in Alerts!Fps
        BY FpFacts DEF Alerts!States
    <2>2. /\ b \in Alerts!Tables
          /\ b.fails = a.fails /\ b.oks = a.oks /\ b.isOpen = a.isOpen /\ b.moves = a.moves
          /\ b.log = a.log /\ b.row = [a.row EXCEPT ![Alerts!Flap(s)] = "resolved"]
        BY <2>1, <2>b, RowSet
    <2>3. \A g \in Alerts!Fps \ {Alerts!Flap(s)} : b.row[g] = a.row[g]
        BY <2>1, <2>2, FieldTypes
    <2>4. Inner(a, b, s, t)
        BY <1>1, <2>2, <2>3, FpFacts DEF Inner
    <2>5. Inner(b, Alerts!RecoveryNotice(b, Alerts!Flap(s), t, up, nested), s, t)
        BY <2>1, <2>2, RecoveryInner
    <2>6. Alerts!MaybeResolveFlap(a, s, t, up, nested)
            = Alerts!RecoveryNotice(b, Alerts!Flap(s), t, up, nested)
        BY <1>1, <2>b DEF Alerts!MaybeResolveFlap, Quiet
    <2>7. QED
        BY <2>4, <2>5, <2>6, InnerTwice
<1>2. CASE ~(Quiet(a, s, t) /\ Alerts!Unresolved(a, Alerts!Flap(s)))
    <2>1. Alerts!MaybeResolveFlap(a, s, t, up, nested) = a
        BY <1>2 DEF Alerts!MaybeResolveFlap, Quiet
    <2>2. QED
        BY <2>1, InnerSame
<1>3. QED
    BY <1>1, <1>2

\* after_raise() stays inside a probe of the site whose row it raises.
LEMMA AfterRaiseInner ==
    ASSUME NEW a \in Alerts!Tables, NEW f \in Alerts!Fps, NEW t \in Nat, NEW up \in BOOLEAN,
           NEW s \in Alerts!Sites, f[1] \in {s, "fleet"}
    PROVE  Inner(a, Alerts!AfterRaise(a, f, t, up), s, t)
<1>b. PICK b : b = IF f[1] \in Alerts!Sites THEN Alerts!MaybeResolveFlap(a, Alerts!SiteOf(f), t, up, TRUE)
                 ELSE a
    OBVIOUS
<1>c. PICK c : c = Alerts!StormBreaker(b, t, up, TRUE)
    OBVIOUS
<1>c1. PICK c1 : c1 = Alerts!RecordPush(c, f, t, TRUE, FALSE)
    OBVIOUS
<1>c2. PICK c2 : c2 = [c1 EXCEPT !.pushAt[f] = t]
    OBVIOUS
<1>d. PICK d : d = IF Alerts!WillPush(c, f, t) THEN c2 ELSE c
    OBVIOUS
<1>e. PICK e : e = Alerts!StormBreaker(d, t, up, TRUE)
    OBVIOUS
<1>r. PICK r : r = IF Alerts!WillPush(c, f, t) /\ Alerts!Severity(f) = "p1"
                 THEN Alerts!Deliver(e, f, t, up) ELSE e
    OBVIOUS
<1>1. Alerts!AfterRaise(a, f, t, up) = r
    BY <1>b, <1>c, <1>c1, <1>c2, <1>d, <1>e, <1>r DEF Alerts!AfterRaise
<1>2. Inner(a, b, s, t) /\ b \in Alerts!Tables
    <2>1. CASE f[1] \in Alerts!Sites
        <3>1. f[1] = s
            BY <2>1, FpFacts
        <3>2. QED
            BY <1>b, <2>1, <3>1, ResolveFlapInner, InnerTables DEF Alerts!SiteOf
    <2>2. CASE f[1] \notin Alerts!Sites
        BY <1>b, <2>2, InnerSame
    <2>3. QED
        BY <2>1, <2>2
<1>3. Inner(b, c, s, t) /\ c \in Alerts!Tables
    BY <1>2, <1>c, StormBreakerInner, InnerTables
<1>4. Inner(a, c, s, t)
    BY <1>2, <1>3, InnerTwice
<1>5. Inner(c, d, s, t) /\ d \in Alerts!Tables
    <2>1. CASE Alerts!WillPush(c, f, t)
        <3>1. f = Alerts!Storm \/ ~Alerts!Storming(c, t)
            BY <2>1 DEF Alerts!WillPush
        <3>2. Inner(c, c1, s, t) /\ c1 \in Alerts!Tables
            BY <1>3, <1>c1, <3>1, RecordPushInner, InnerTables
        <3>3. Inner(c1, c2, s, t)
            BY <1>c2, <3>2, StampInner
        <3>4. QED
            BY <1>d, <2>1, <3>2, <3>3, InnerTwice, InnerTables
    <2>2. CASE ~Alerts!WillPush(c, f, t)
        BY <1>3, <1>d, <2>2, InnerSame
    <2>3. QED
        BY <2>1, <2>2
<1>6. Inner(d, e, s, t) /\ e \in Alerts!Tables
    BY <1>5, <1>e, StormBreakerInner, InnerTables
<1>7. Inner(a, e, s, t)
    BY <1>4, <1>5, <1>6, InnerTwice
<1>8. Inner(e, Alerts!Deliver(e, f, t, up), s, t)
    BY <1>6, DeliverInner
<1>9. Inner(a, r, s, t)
    BY <1>7, <1>8, <1>r, InnerTwice
<1>10. QED
    BY <1>1, <1>9

\* raise_alert() stays inside a probe of the site whose row it raises, and leaves that row
\* unresolved unless it is the FLAPPING of a quiet site.
LEMMA RaiseInner ==
    ASSUME NEW a \in Alerts!Tables, NEW f \in Alerts!Fps, NEW t \in Nat, NEW up \in BOOLEAN,
           NEW s \in Alerts!Sites, f[1] \in {s, "fleet"}
    PROVE  /\ Inner(a, Alerts!RaiseAlert(a, f, t, up), s, t)
           /\ \/ f \notin {Alerts!Down(s), Alerts!Flap(s)}
              \/ f = Alerts!Flap(s) /\ Quiet(a, s, t)
              \/ Alerts!Unresolved(Alerts!RaiseAlert(a, f, t, up), f)
<1>b. PICK b : b = Alerts!Filed(a, f)
    OBVIOUS
<1>u. PICK u : u = IF b.openedAt[f] = Alerts!None THEN t ELSE b.openedAt[f]
    OBVIOUS
<1>g. PICK g : g = [b.openedAt EXCEPT ![f] = u]
    OBVIOUS
<1>c. PICK c : c = [b EXCEPT !.openedAt = g]
    OBVIOUS
<1>d. PICK d : d = Alerts!AfterRaise(c, f, t, up)
    OBVIOUS
<1>1. Alerts!RaiseAlert(a, f, t, up) = d
    <2>1. c = [b EXCEPT !.openedAt[f] = IF @ = Alerts!None THEN t ELSE @]
        BY <1>u, <1>g, <1>c
    <2>2. QED
        BY <2>1, <1>b, <1>d DEF Alerts!RaiseAlert
<1>2. Inner(a, b, s, t) /\ b \in Alerts!Tables /\ Alerts!Unresolved(b, f)
    BY <1>b, FiledInner, InnerTables
<1>3. u \in Int
    BY <1>2, <1>u, FieldTypes
<1>4. g \in [Alerts!Fps -> Int]
    BY <1>2, <1>3, <1>g, FieldTypes
<1>5. /\ c \in Alerts!Tables
      /\ c.fails = b.fails /\ c.oks = b.oks /\ c.isOpen = b.isOpen /\ c.moves = b.moves
      /\ c.row = b.row /\ c.log = b.log
    BY <1>2, <1>4, <1>c DEF Alerts!Tables
<1>6. Inner(b, c, s, t) /\ Alerts!Unresolved(c, f)
    BY <1>2, <1>5, InnerSame DEF Alerts!Unresolved
<1>7. Inner(c, d, s, t)
    BY <1>5, <1>d, AfterRaiseInner
<1>8. Inner(a, d, s, t)
    BY <1>2, <1>6, <1>7, InnerTwice
<1>9. c.moves = a.moves
    BY <1>2, <1>5 DEF Inner
<1>10. \/ f \notin {Alerts!Down(s), Alerts!Flap(s)}
       \/ f = Alerts!Flap(s) /\ Quiet(a, s, t)
       \/ Alerts!Unresolved(d, f)
    BY <1>6, <1>7, <1>9 DEF Inner, Quiet, Alerts!Unresolved, Alerts!LastMove
<1>11. QED
    BY <1>1, <1>8, <1>10

---------------------------------------------------------------------------
\* The transitions an engine appends.
MoveAt(t, ev) == [at |-> t, ev |-> ev]

\* The last move is of this moment.
EndsAt(m, t) == m # <<>> /\ m[Len(m)].at = t

\* The openings of a window are positions of the moves, and are counted.
LEMMA OpensFinite ==
    ASSUME NEW m \in Seq(Alerts!Move), NEW t
    PROVE  /\ Alerts!Opens(m, t) \subseteq 1..Len(m)
           /\ Alerts!Cardinality(Alerts!Opens(m, t)) \in Nat
<1>1. Len(m) \in Nat /\ Alerts!Opens(m, t) \subseteq 1..Len(m)
    BY DEF Alerts!Opens
<1>2. QED
    BY <1>1, CountSub

\* The moves of a site have times and kinds.
LEMMA MoveTypes ==
    ASSUME NEW m \in Seq(Alerts!Move)
    PROVE  /\ Len(m) \in Nat /\ DOMAIN m = 1..Len(m)
           /\ \A i \in 1..Len(m) : m[i].at \in Nat /\ m[i].ev \in {"open", "close"}
<1>1. Len(m) \in Nat /\ DOMAIN m = 1..Len(m) /\ \A i \in 1..Len(m) : m[i] \in Alerts!Move
    OBVIOUS
<1>2. QED
    BY <1>1 DEF Alerts!Move

\* MovesInv, over the positions of the moves.
LEMMA MovesFacts ==
    ASSUME NEW m \in Seq(Alerts!Move), NEW open \in BOOLEAN, NEW t, Alerts!MovesInv(m, open, t)
    PROVE  /\ \A i \in 1..Len(m) : m[i].at <= t
           /\ \A i, j \in 1..Len(m) : i < j => m[i].at <= m[j].at
           /\ \A i \in 1..Len(m) : m[i].ev = "open" /\ i < Len(m) => m[i + 1].ev = "close"
           /\ open => Len(m) > 0 /\ m[Len(m)].ev = "open"
           /\ ~open /\ Len(m) > 0 => m[Len(m)].ev # "open"
<1>1. DOMAIN m = 1..Len(m)
    OBVIOUS
<1>2. /\ \A i \in DOMAIN m : m[i].at <= t
      /\ \A i, j \in DOMAIN m : i < j => m[i].at <= m[j].at
      /\ \A i \in DOMAIN m : m[i].ev = "open" /\ i < Len(m) => m[i + 1].ev = "close"
    BY Zenon DEF Alerts!MovesInv
<1>3. open <=> m # <<>> /\ m[Len(m)].ev = "open"
    BY Zenon DEF Alerts!MovesInv
<1>4. Len(m) > 0 <=> m # <<>>
    OBVIOUS
<1>5. QED
    BY <1>1, <1>2, <1>3, <1>4

\* A site that has been quiet for a window has no opening in it.
LEMMA QuietNone ==
    ASSUME NEW a \in Alerts!Tables, NEW s \in Alerts!Sites, NEW t \in Nat,
           Alerts!MovesInv(a.moves[s], a.isOpen[s], t), Quiet(a, s, t)
    PROVE  Alerts!Cardinality(Alerts!Opens(a.moves[s], t)) = 0
<1>m. PICK m : m = a.moves[s]
    OBVIOUS
<1>1. m \in Seq(Alerts!Move)
    BY <1>m, FieldTypes
<1>2. /\ m # <<>> /\ t - m[Len(m)].at >= FlapWindow
      /\ \A i, j \in DOMAIN m : i < j => m[i].at <= m[j].at
    BY <1>m DEF Quiet, Alerts!LastMove, Alerts!MovesInv
<1>3. ASSUME NEW i \in Alerts!Opens(m, t) PROVE FALSE
    <2>1. i \in DOMAIN m /\ t - m[i].at < FlapWindow
        BY <1>3 DEF Alerts!Opens
    <2>2. Len(m) \in DOMAIN m /\ i \in Nat /\ i <= Len(m)
        BY <1>1, <1>2, <2>1
    <2>3. m[i].at <= m[Len(m)].at
        <3>1. CASE i = Len(m)
            BY <1>1, <2>2, <3>1, MoveTypes
        <3>2. CASE i < Len(m)
            BY <1>2, <2>1, <2>2, <3>2
        <3>3. QED
            BY <1>1, <2>2, <3>1, <3>2
    <2>4. m[i].at \in Nat /\ m[Len(m)].at \in Nat
        BY <1>1, <2>1, <2>2, MoveTypes
    <2>5. QED
        BY <1>2, <2>1, <2>3, <2>4, AlertBounds
<1>4. Alerts!Opens(m, t) = {}
    BY <1>3
<1>5. QED
    BY <1>m, <1>4, CountNone

\* What goes on inside a probe keeps the bound on the openings.
LEMMA InnerOpens ==
    ASSUME NEW a \in Alerts!Tables, NEW s \in Alerts!Sites, NEW t \in Nat, NEW b,
           Alerts!MovesInv(a.moves[s], a.isOpen[s], t), Inner(a, b, s, t), Alerts!OpensAt(a, s, t)
    PROVE  Alerts!OpensAt(b, s, t)
<1>1. b.moves = a.moves /\ b.isOpen = a.isOpen
    BY DEF Inner
<1>2. CASE Quiet(a, s, t)
    BY <1>1, <1>2, QuietNone, AlertBounds DEF Alerts!OpensAt
<1>3. CASE ~Quiet(a, s, t)
    <2>1. b.row[Alerts!Flap(s)] = a.row[Alerts!Flap(s)] \/ Alerts!Unresolved(b, Alerts!Flap(s))
        BY <1>3 DEF Inner
    <2>2. QED
        BY <1>1, <2>1 DEF Alerts!OpensAt, Alerts!Unresolved
<1>4. QED
    BY <1>2, <1>3

\* An opening is appended to moves that end with a closing.
LEMMA MovesOpen ==
    ASSUME NEW m \in Seq(Alerts!Move), NEW t \in Nat, Alerts!MovesInv(m, FALSE, t), NEW p,
           p = Append(m, MoveAt(t, "open"))
    PROVE  /\ p \in Seq(Alerts!Move) /\ Alerts!MovesInv(p, TRUE, t)
           /\ Alerts!Cardinality(Alerts!Opens(p, t))
                <= Alerts!Cardinality(Alerts!Opens(m, t)) + 1
<1>e. PICK e : e = MoveAt(t, "open")
    OBVIOUS
<1>0. e \in Alerts!Move /\ e.at = t /\ e.ev = "open"
    BY <1>e DEF MoveAt, Alerts!Move
<1>n. PICK n \in Nat : n = Len(m)
    OBVIOUS
<1>1. p = Append(m, e)
    BY <1>e
<1>2. /\ p \in Seq(Alerts!Move) /\ DOMAIN m = 1..n /\ DOMAIN p = 1..(n + 1) /\ Len(p) = n + 1
      /\ p[n + 1] = e /\ \A i \in 1..n : p[i] = m[i]
    BY <1>0, <1>1, <1>n
<1>3. /\ \A i \in 1..n : m[i].at <= t /\ m[i].at \in Nat
      /\ \A i, j \in 1..n : i < j => m[i].at <= m[j].at
      /\ \A i \in 1..n : m[i].ev = "open" /\ i < n => m[i + 1].ev = "close"
      /\ n > 0 => m[n].ev # "open"
    BY <1>n, MovesFacts, MoveTypes
<1>4. \A i \in 1..(n + 1) : p[i].at <= t
    BY <1>0, <1>2, <1>3
<1>5. \A i, j \in 1..(n + 1) : i < j => p[i].at <= p[j].at
    <2>1. SUFFICES ASSUME NEW i \in 1..(n + 1), NEW j \in 1..(n + 1), i < j
                   PROVE  p[i].at <= p[j].at
        OBVIOUS
    <2>2. CASE j = n + 1
        BY <1>0, <1>2, <1>3, <2>1, <2>2
    <2>3. CASE j # n + 1
        BY <1>2, <1>3, <2>1, <2>3
    <2>4. QED
        BY <2>2, <2>3
<1>6. \A i \in 1..(n + 1) : p[i].ev = "open" /\ i < n + 1 => p[i + 1].ev = "close"
    <2>1. SUFFICES ASSUME NEW i \in 1..n, m[i].ev = "open" PROVE p[i + 1].ev = "close"
        BY <1>2
    <2>2. i < n /\ i + 1 \in 1..n
        BY <1>3, <2>1
    <2>3. QED
        BY <1>2, <1>3, <2>1, <2>2
<1>7. Alerts!MovesInv(p, TRUE, t)
    BY <1>0, <1>2, <1>4, <1>5, <1>6 DEF Alerts!MovesInv
<1>8. Alerts!Opens(p, t) \subseteq Alerts!Opens(m, t) \cup {n + 1}
    BY <1>2 DEF Alerts!Opens
<1>9. Alerts!Opens(m, t) \subseteq 1..(n + 1) /\ n + 1 \in Nat /\ n + 1 \in 1..(n + 1)
    BY <1>2 DEF Alerts!Opens
<1>10. Alerts!Cardinality(Alerts!Opens(p, t)) <= Alerts!Cardinality(Alerts!Opens(m, t)) + 1
    BY <1>8, <1>9, CountAdd
<1>11. QED
    BY <1>2, <1>7, <1>10

\* A closing is appended to moves that end with an opening.
LEMMA MovesClose ==
    ASSUME NEW m \in Seq(Alerts!Move), NEW t \in Nat, Alerts!MovesInv(m, TRUE, t), NEW p,
           p = Append(m, MoveAt(t, "close"))
    PROVE  /\ p \in Seq(Alerts!Move) /\ Alerts!MovesInv(p, FALSE, t)
           /\ Alerts!Opens(p, t) = Alerts!Opens(m, t)
           /\ EndsAt(p, t)
<1>e. PICK e : e = MoveAt(t, "close")
    OBVIOUS
<1>0. e \in Alerts!Move /\ e.at = t /\ e.ev = "close"
    BY <1>e DEF MoveAt, Alerts!Move
<1>n. PICK n \in Nat : n = Len(m)
    OBVIOUS
<1>1. p = Append(m, e)
    BY <1>e
<1>2. /\ p \in Seq(Alerts!Move) /\ DOMAIN m = 1..n /\ DOMAIN p = 1..(n + 1) /\ Len(p) = n + 1
      /\ p[n + 1] = e /\ p # <<>> /\ \A i \in 1..n : p[i] = m[i]
    BY <1>0, <1>1, <1>n
<1>3. /\ \A i \in 1..n : m[i].at <= t /\ m[i].at \in Nat
      /\ \A i, j \in 1..n : i < j => m[i].at <= m[j].at
      /\ \A i \in 1..n : m[i].ev = "open" /\ i < n => m[i + 1].ev = "close"
    BY <1>n, MovesFacts, MoveTypes
<1>4. \A i \in 1..(n + 1) : p[i].at <= t
    BY <1>0, <1>2, <1>3
<1>5. \A i, j \in 1..(n + 1) : i < j => p[i].at <= p[j].at
    <2>1. SUFFICES ASSUME NEW i \in 1..(n + 1), NEW j \in 1..(n + 1), i < j
                   PROVE  p[i].at <= p[j].at
        OBVIOUS
    <2>2. CASE j = n + 1
        BY <1>0, <1>2, <1>3, <2>1, <2>2
    <2>3. CASE j # n + 1
        BY <1>2, <1>3, <2>1, <2>3
    <2>4. QED
        BY <2>2, <2>3
<1>6. \A i \in 1..(n + 1) : p[i].ev = "open" /\ i < n + 1 => p[i + 1].ev = "close"
    <2>1. SUFFICES ASSUME NEW i \in 1..n, m[i].ev = "open" PROVE p[i + 1].ev = "close"
        BY <1>2
    <2>2. CASE i = n
        BY <1>0, <1>2, <2>2
    <2>3. CASE i < n
        BY <1>2, <1>3, <2>1, <2>3
    <2>4. QED
        BY <1>n, <2>1, <2>2, <2>3
<1>7. Alerts!MovesInv(p, FALSE, t)
    BY <1>0, <1>2, <1>4, <1>5, <1>6 DEF Alerts!MovesInv
<1>8. Alerts!Opens(p, t) = Alerts!Opens(m, t)
    BY <1>0, <1>2 DEF Alerts!Opens
<1>9. QED
    BY <1>0, <1>2, <1>7, <1>8 DEF EndsAt

\* _cycle_count() of a site that has just closed counts every opening of the window: each
\* has the closing after it.
LEMMA CyclesCover ==
    ASSUME NEW a \in Alerts!Tables, NEW s \in Alerts!Sites, NEW t \in Nat,
           NEW m \in Seq(Alerts!Move), a.moves[s] = m,
           Alerts!MovesInv(m, FALSE, t), m # <<>>
    PROVE  /\ Alerts!CycleCount(a, s, t) \in Nat
           /\ Alerts!Cardinality(Alerts!Opens(m, t)) <= Alerts!CycleCount(a, s, t)
<1>w. PICK w : w = {i \in DOMAIN m : t - m[i].at <= FlapWindow}
    OBVIOUS
<1>c. PICK c : c = {i \in w : /\ m[i].ev = "close"
                              /\ \E j \in w : /\ j < i /\ m[j].ev = "open"
                                              /\ \A k \in w : j < k /\ k < i => m[k].ev # "close"}
    OBVIOUS
<1>n. PICK n \in Nat : n = Len(m)
    OBVIOUS
<1>1. Alerts!CycleCount(a, s, t) = Alerts!Cardinality(c)
    BY <1>w, <1>c DEF Alerts!CycleCount
<1>2. c \subseteq 1..n
    BY <1>w, <1>c, <1>n
<1>3. /\ DOMAIN m = 1..n /\ n > 0 /\ m[n].ev # "open"
      /\ \A i \in 1..n : m[i].at <= t /\ m[i].at \in Nat
      /\ \A i, j \in 1..n : i < j => m[i].at <= m[j].at
      /\ \A i \in 1..n : m[i].ev = "open" /\ i < n => m[i + 1].ev = "close"
    <2>1. n > 0
        BY <1>n
    <2>2. QED
        BY <1>n, <2>1, MovesFacts, MoveTypes
<1>4. ASSUME NEW i \in Alerts!Opens(m, t) PROVE i + 1 \in c
    <2>1. i \in 1..n /\ m[i].ev = "open" /\ t - m[i].at < FlapWindow
        BY <1>3 DEF Alerts!Opens
    <2>2. i < n /\ i + 1 \in 1..n
        BY <1>3, <2>1
    <2>3. m[i + 1].ev = "close" /\ m[i].at <= m[i + 1].at
        BY <1>3, <2>1, <2>2
    <2>4. m[i].at \in Nat /\ m[i + 1].at \in Nat
        BY <1>3, <2>1, <2>2
    <2>5. i \in w /\ i + 1 \in w
        BY <1>3, <1>w, <2>1, <2>2, <2>3, <2>4, AlertBounds
    <2>6. \A k \in w : i < k /\ k < i + 1 => m[k].ev # "close"
        BY <1>3, <1>w, <2>1
    <2>7. i < i + 1
        BY <2>1
    <2>8. QED
        BY <1>c, <2>1, <2>3, <2>5, <2>6, <2>7
<1>5. Alerts!Opens(m, t) \subseteq Int
    BY <1>3 DEF Alerts!Opens
<1>6. 1 \in Int
    OBVIOUS
<1>7. /\ Alerts!Cardinality(c) \in Nat
      /\ Alerts!Cardinality(Alerts!Opens(m, t)) <= Alerts!Cardinality(c)
    BY <1>2, <1>4, <1>5, <1>6, CountShift
<1>8. QED
    BY <1>1, <1>7

---------------------------------------------------------------------------
\* What a probe of s does to the tables as a whole: other sites are left alone, the log
\* stays within its bound, openings and closings of s alternate and keep theirs, and an
\* open alert has its row or the row it had.
Outer(a, b, s, t) ==
    /\ b \in Alerts!Tables
    /\ \A x \in Alerts!Sites \ {s} :
        b.fails[x] = a.fails[x] /\ b.isOpen[x] = a.isOpen[x] /\ b.moves[x] = a.moves[x]
    /\ \A f \in Alerts!Fps : f[1] # s /\ f[1] # "fleet" => b.row[f] = a.row[f]
    /\ Alerts!LogInv(b.log) /\ Alerts!MovesInv(b.moves[s], b.isOpen[s], t)
    /\ Alerts!OpensAt(a, s, t) => Alerts!OpensAt(b, s, t)
    /\ b.isOpen[s] => \/ Alerts!Unresolved(b, Alerts!Down(s))
                      \/ a.isOpen[s] /\ b.row[Alerts!Down(s)] = a.row[Alerts!Down(s)]

\* A probe may end with calls inside it.
LEMMA OuterInner ==
    ASSUME NEW a, NEW b, NEW c, NEW s \in Alerts!Sites, NEW t \in Nat,
           Outer(a, b, s, t), Inner(b, c, s, t)
    PROVE  Outer(a, c, s, t)
<1>1. b \in Alerts!Tables /\ c \in Alerts!Tables /\ Alerts!MovesInv(b.moves[s], b.isOpen[s], t)
    BY DEF Outer, Inner
<1>2. Alerts!OpensAt(a, s, t) => Alerts!OpensAt(c, s, t)
    BY <1>1, InnerOpens DEF Outer
<1>3. /\ Alerts!LogInv(c.log) /\ Alerts!MovesInv(c.moves[s], c.isOpen[s], t)
      /\ c.fails = b.fails /\ c.isOpen = b.isOpen /\ c.moves = b.moves
    BY <1>1 DEF Outer, Inner
<1>4. \A f \in Alerts!Fps : f[1] # s /\ f[1] # "fleet" => c.row[f] = a.row[f]
    BY DEF Outer, Inner
<1>5. c.isOpen[s] => \/ Alerts!Unresolved(c, Alerts!Down(s))
                     \/ a.isOpen[s] /\ c.row[Alerts!Down(s)] = a.row[Alerts!Down(s)]
    BY <1>3 DEF Outer, Inner, Alerts!Unresolved
<1>6. \A x \in Alerts!Sites \ {s} :
        c.fails[x] = a.fails[x] /\ c.isOpen[x] = a.isOpen[x] /\ c.moves[x] = a.moves[x]
    BY <1>3 DEF Outer
<1>7. QED
    BY <1>1, <1>2, <1>3, <1>4, <1>5, <1>6 DEF Outer

\* A probe may begin with calls inside it.
LEMMA InnerOuter ==
    ASSUME NEW a \in Alerts!Tables, NEW b, NEW c, NEW s \in Alerts!Sites, NEW t \in Nat,
           Alerts!MovesInv(a.moves[s], a.isOpen[s], t), Inner(a, b, s, t), Outer(b, c, s, t)
    PROVE  Outer(a, c, s, t)
<1>1. b \in Alerts!Tables /\ c \in Alerts!Tables
    BY DEF Outer, Inner
<1>2. Alerts!OpensAt(a, s, t) => Alerts!OpensAt(c, s, t)
    BY InnerOpens DEF Outer
<1>3. /\ Alerts!LogInv(c.log) /\ Alerts!MovesInv(c.moves[s], c.isOpen[s], t)
      /\ b.fails = a.fails /\ b.isOpen = a.isOpen /\ b.moves = a.moves
    BY DEF Outer, Inner
<1>4. \A f \in Alerts!Fps : f[1] # s /\ f[1] # "fleet" => c.row[f] = a.row[f]
    BY DEF Outer, Inner
<1>5. c.isOpen[s] => \/ Alerts!Unresolved(c, Alerts!Down(s))
                     \/ a.isOpen[s] /\ c.row[Alerts!Down(s)] = a.row[Alerts!Down(s)]
    BY <1>3 DEF Outer, Inner, Alerts!Unresolved
<1>6. \A x \in Alerts!Sites \ {s} :
        c.fails[x] = a.fails[x] /\ c.isOpen[x] = a.isOpen[x] /\ c.moves[x] = a.moves[x]
    BY <1>3 DEF Outer
<1>7. QED
    BY <1>1, <1>2, <1>3, <1>4, <1>5, <1>6 DEF Outer

\* _open() opens a site that FLAPPING does not hold.
LEMMA OpenKeeps ==
    ASSUME NEW a \in Alerts!Tables, NEW s \in Alerts!Sites, NEW t \in Nat, NEW up \in BOOLEAN,
           Alerts!LogInv(a.log), Alerts!MovesInv(a.moves[s], a.isOpen[s], t), ~a.isOpen[s]
    PROVE  /\ Outer(a, Alerts!Open(a, s, t, up), s, t)
           /\ \/ Alerts!Open(a, s, t, up).isOpen[s]
              \/ Alerts!Unresolved(Alerts!Open(a, s, t, up), Alerts!Flap(s))
<1>m. PICK m : m = a.moves[s]
    OBVIOUS
<1>0. m \in Seq(Alerts!Move) /\ a.isOpen[s] = FALSE /\ Alerts!MovesInv(m, FALSE, t)
    BY <1>m, FieldTypes
<1>1. CASE Alerts!FlapHolds(a, s, t)
    <2>1. Alerts!Open(a, s, t, up) = a /\ Alerts!Unresolved(a, Alerts!Flap(s))
        BY <1>1 DEF Alerts!Open, Alerts!FlapHolds
    <2>2. QED
        BY <2>1 DEF Outer
<1>2. CASE ~Alerts!FlapHolds(a, s, t)
    <2>p. PICK p : p = Append(m, MoveAt(t, "open"))
        OBVIOUS
    <2>io. PICK io : io = [a.isOpen EXCEPT ![s] = TRUE]
        OBVIOUS
    <2>oa. PICK oa : oa = [a.openedAt EXCEPT ![Alerts!Down(s)] = t]
        OBVIOUS
    <2>mv. PICK mv : mv = [a.moves EXCEPT ![s] = p]
        OBVIOUS
    <2>b. PICK b : b = [a EXCEPT !.isOpen = io, !.openedAt = oa, !.moves = mv]
        OBVIOUS
    <2>c. PICK c : c = Alerts!RaiseAlert(b, Alerts!Down(s), t, up)
        OBVIOUS
    <2>d. PICK d : d = IF s \in Alerts!Partner THEN Alerts!PartnerAggregate(c, t, up) ELSE c
        OBVIOUS
    <2>1. Alerts!Open(a, s, t, up) = d
        <3>1. b = [a EXCEPT !.isOpen[s] = TRUE, !.openedAt[Alerts!Down(s)] = t,
                            !.moves[s] = Append(@, [at |-> t, ev |-> "open"])]
            BY <1>m, <2>p, <2>io, <2>oa, <2>mv, <2>b DEF MoveAt
        <3>2. QED
            BY <1>2, <2>c, <2>d, <3>1 DEF Alerts!Open, Alerts!SuppressedBy
    <2>2. /\ p \in Seq(Alerts!Move) /\ Alerts!MovesInv(p, TRUE, t)
          /\ Alerts!Cardinality(Alerts!Opens(p, t)) <= Alerts!Cardinality(Alerts!Opens(m, t)) + 1
        BY <1>0, <2>p, MovesOpen
    <2>3. /\ io \in [Alerts!Sites -> BOOLEAN] /\ io[s] = TRUE /\ \A x \in Alerts!Sites \ {s} : io[x] = a.isOpen[x]
          /\ mv \in [Alerts!Sites -> Seq(Alerts!Move)] /\ mv[s] = p
          /\ \A x \in Alerts!Sites \ {s} : mv[x] = a.moves[x]
        BY <2>2, <2>io, <2>mv, FieldTypes
    <2>4. oa \in [Alerts!Fps -> Int]
        BY <2>oa, FieldTypes, FpFacts
    <2>5. /\ b \in Alerts!Tables /\ b.fails = a.fails /\ b.isOpen = io /\ b.moves = mv /\ b.row = a.row
          /\ b.log = a.log
        BY <2>3, <2>4, <2>b DEF Alerts!Tables
    <2>6. Inner(b, c, s, t) /\ c \in Alerts!Tables /\ Alerts!Unresolved(c, Alerts!Down(s))
        <3>1. Inner(b, c, s, t) /\ Alerts!Unresolved(c, Alerts!Down(s))
            BY <2>5, <2>c, RaiseInner, FpFacts
        <3>2. QED
            BY <3>1, InnerTables
    <2>7. Alerts!OpensAt(a, s, t) => Alerts!OpensAt(b, s, t)
        <3>1. SUFFICES ASSUME Alerts!OpensAt(a, s, t) PROVE Alerts!OpensAt(b, s, t)
            OBVIOUS
        <3>2. b.isOpen[s] = TRUE /\ b.moves[s] = p
            BY <2>3, <2>5
        <3>3. Alerts!Cardinality(Alerts!Opens(p, t)) \in Nat /\ Alerts!Cardinality(Alerts!Opens(m, t)) \in Nat
            BY <1>0, <2>2, OpensFinite
        <3>4. Alerts!Cardinality(Alerts!Opens(m, t)) < FlapCycles
            <4>1. CASE Alerts!Unresolved(a, Alerts!Flap(s))
                <5>1. Quiet(a, s, t)
                    <6>1. m # <<>> /\ ~(t - m[Len(m)].at < FlapWindow)
                        BY <1>2, <1>m, <4>1 DEF Alerts!FlapHolds, Alerts!LastMove
                    <6>2. m[Len(m)].at \in Nat
                        <7>1. Len(m) \in 1..Len(m)
                            BY <1>0, <6>1
                        <7>2. QED
                            BY <1>0, <7>1, MoveTypes
                    <6>3. QED
                        BY <1>m, <6>1, <6>2, AlertBounds DEF Quiet, Alerts!LastMove
                <5>2. QED
                    BY <1>m, <5>1, QuietNone, AlertBounds
            <4>2. CASE ~Alerts!Unresolved(a, Alerts!Flap(s))
                BY <1>0, <1>m, <3>1, <4>2 DEF Alerts!OpensAt
            <4>3. QED
                BY <4>1, <4>2
        <3>5. QED
            BY <2>2, <3>2, <3>3, <3>4, AlertBounds DEF Alerts!OpensAt
    <2>8. Alerts!MovesInv(b.moves[s], b.isOpen[s], t)
        BY <2>2, <2>3, <2>5
    <2>9. Outer(a, c, s, t)
        <3>1. c.fails = b.fails /\ c.isOpen = b.isOpen /\ c.moves = b.moves /\ Alerts!LogInv(c.log)
            BY <2>5, <2>6 DEF Inner
        <3>2. \A f \in Alerts!Fps : f[1] # s /\ f[1] # "fleet" => c.row[f] = a.row[f]
            BY <2>5, <2>6 DEF Inner
        <3>3. Alerts!OpensAt(a, s, t) => Alerts!OpensAt(c, s, t)
            BY <2>5, <2>6, <2>7, <2>8, InnerOpens
        <3>4. QED
            BY <2>3, <2>5, <2>6, <2>8, <3>1, <3>2, <3>3 DEF Outer
    <2>10. Inner(c, d, s, t)
        <3>1. Alerts!Aggregate \in Alerts!Fps /\ Alerts!Aggregate[1] \in {s, "fleet"}
            BY FpFacts
        <3>2. Inner(c, Alerts!RaiseAlert(c, Alerts!Aggregate, t, up), s, t)
            BY <2>6, <3>1, RaiseInner
        <3>3. Inner(c, c, s, t)
            BY <2>6, InnerSame
        <3>4. d \in {c, Alerts!RaiseAlert(c, Alerts!Aggregate, t, up)}
            BY <2>d DEF Alerts!PartnerAggregate
        <3>5. QED
            BY <3>2, <3>3, <3>4
    <2>11. Outer(a, d, s, t)
        BY <2>9, <2>10, OuterInner
    <2>12. d.isOpen[s] = TRUE
        BY <2>3, <2>5, <2>6, <2>10 DEF Inner
    <2>13. QED
        BY <2>1, <2>11, <2>12
<1>3. QED
    BY <1>1, <1>2

\* _close() closes an open site; FLAPPING is filed when the window has seen its cycles.
LEMMA CloseKeeps ==
    ASSUME NEW a \in Alerts!Tables, NEW s \in Alerts!Sites, NEW t \in Nat, NEW up \in BOOLEAN,
           Alerts!LogInv(a.log), Alerts!MovesInv(a.moves[s], a.isOpen[s], t), a.isOpen[s]
    PROVE  Outer(a, Alerts!Close(a, s, t, up), s, t) /\ Alerts!Close(a, s, t, up).fails = a.fails
<1>m. PICK m : m = a.moves[s]
    OBVIOUS
<1>0. m \in Seq(Alerts!Move) /\ a.isOpen[s] = TRUE /\ Alerts!MovesInv(m, TRUE, t)
    BY <1>m, FieldTypes
<1>p. PICK p : p = Append(m, MoveAt(t, "close"))
    OBVIOUS
<1>io. PICK io : io = [a.isOpen EXCEPT ![s] = FALSE]
    OBVIOUS
<1>mv. PICK mv : mv = [a.moves EXCEPT ![s] = p]
    OBVIOUS
<1>u. PICK u : u = IF a.row[Alerts!Down(s)] = "none" THEN "none" ELSE "resolved"
    OBVIOUS
<1>rw. PICK rw : rw = [a.row EXCEPT ![Alerts!Down(s)] = u]
    OBVIOUS
<1>b. PICK b : b = [a EXCEPT !.isOpen = io, !.moves = mv, !.row = rw]
    OBVIOUS
<1>c. PICK c : c = Alerts!FlapCheck(b, s, t, up)
    OBVIOUS
<1>d. PICK d : d = Alerts!RecoveryNotice(c, Alerts!Down(s), t, up, FALSE)
    OBVIOUS
<1>1. Alerts!Close(a, s, t, up) = d
    <2>1. b = [a EXCEPT !.isOpen[s] = FALSE, !.moves[s] = Append(@, [at |-> t, ev |-> "close"]),
                        !.row[Alerts!Down(s)] = IF @ = "none" THEN "none" ELSE "resolved"]
        BY <1>m, <1>p, <1>io, <1>mv, <1>u, <1>rw, <1>b DEF MoveAt
    <2>2. QED
        BY <1>c, <1>d, <2>1 DEF Alerts!Close
<1>2. /\ p \in Seq(Alerts!Move) /\ Alerts!MovesInv(p, FALSE, t) /\ Alerts!Opens(p, t) = Alerts!Opens(m, t)
      /\ EndsAt(p, t)
    BY <1>0, <1>p, MovesClose
<1>3. /\ io \in [Alerts!Sites -> BOOLEAN] /\ io[s] = FALSE /\ \A x \in Alerts!Sites \ {s} : io[x] = a.isOpen[x]
      /\ mv \in [Alerts!Sites -> Seq(Alerts!Move)] /\ mv[s] = p
      /\ \A x \in Alerts!Sites \ {s} : mv[x] = a.moves[x]
    BY <1>2, <1>io, <1>mv, FieldTypes
<1>4. /\ rw \in [Alerts!Fps -> Alerts!States]
      /\ \A f \in Alerts!Fps \ {Alerts!Down(s)} : rw[f] = a.row[f]
    <2>1. u \in Alerts!States
        BY <1>u DEF Alerts!States
    <2>2. QED
        BY <1>rw, <2>1, FieldTypes, FpFacts
<1>5. /\ b \in Alerts!Tables /\ b.fails = a.fails /\ b.isOpen = io /\ b.moves = mv /\ b.row = rw
      /\ b.log = a.log
    BY <1>3, <1>4, <1>b DEF Alerts!Tables
<1>6. /\ Alerts!Cardinality(Alerts!Opens(p, t)) \in Nat
      /\ Alerts!CycleCount(b, s, t) \in Nat
      /\ Alerts!Cardinality(Alerts!Opens(p, t)) <= Alerts!CycleCount(b, s, t)
    BY <1>2, <1>3, <1>5, CyclesCover, OpensFinite DEF EndsAt
<1>7. ~Quiet(b, s, t)
    BY <1>2, <1>3, <1>5, AlertBounds DEF Quiet, Alerts!LastMove, EndsAt
<1>8. /\ Inner(b, c, s, t)
      /\ Alerts!Unresolved(c, Alerts!Flap(s)) \/ Alerts!CycleCount(b, s, t) < FlapCycles
    <2>1. CASE Alerts!CycleCount(b, s, t) >= FlapCycles /\ ~Alerts!Unresolved(b, Alerts!Flap(s))
        <3>1. c = Alerts!RaiseAlert(b, Alerts!Flap(s), t, up)
            BY <1>c, <2>1 DEF Alerts!FlapCheck
        <3>2. Alerts!Flap(s) \in Alerts!Fps /\ Alerts!Flap(s)[1] \in {s, "fleet"}
            BY FpFacts
        <3>3. QED
            BY <1>5, <1>7, <3>1, <3>2, RaiseInner
    <2>2. CASE ~(Alerts!CycleCount(b, s, t) >= FlapCycles /\ ~Alerts!Unresolved(b, Alerts!Flap(s)))
        <3>1. c = b
            BY <1>c, <2>2 DEF Alerts!FlapCheck
        <3>2. Inner(b, c, s, t)
            BY <1>5, <3>1, InnerSame
        <3>3. QED
            BY <1>6, <2>2, <3>1, <3>2, AlertBounds
    <2>3. QED
        BY <2>1, <2>2
<1>9. /\ c \in Alerts!Tables /\ c.fails = b.fails /\ c.isOpen = io /\ c.moves = mv
      /\ Alerts!LogInv(c.log)
    BY <1>5, <1>8 DEF Inner
<1>10. Alerts!OpensAt(a, s, t) => Alerts!OpensAt(c, s, t)
    <2>1. SUFFICES ASSUME Alerts!OpensAt(a, s, t) PROVE Alerts!OpensAt(c, s, t)
        OBVIOUS
    <2>2. Alerts!Cardinality(Alerts!Opens(p, t)) <= FlapCycles
        BY <1>2, <1>m, <2>1 DEF Alerts!OpensAt
    <2>3. c.moves[s] = p
        BY <1>3, <1>9
    <2>4. QED
        BY <1>6, <1>8, <2>2, <2>3, AlertBounds DEF Alerts!OpensAt
<1>11. \A f \in Alerts!Fps : f[1] # s /\ f[1] # "fleet" => c.row[f] = a.row[f]
    <2>1. \A f \in Alerts!Fps : f[1] # s /\ f[1] # "fleet" => c.row[f] = b.row[f]
        BY <1>8 DEF Inner
    <2>2. Alerts!Down(s)[1] = s
        BY FpFacts
    <2>3. QED
        BY <1>4, <1>5, <2>1, <2>2
<1>12. Outer(a, c, s, t)
    BY <1>2, <1>3, <1>5, <1>9, <1>10, <1>11 DEF Outer
<1>13. Inner(c, d, s, t)
    BY <1>9, <1>d, RecoveryInner, FpFacts
<1>14. d.fails = a.fails
    BY <1>5, <1>9, <1>13 DEF Inner
<1>15. QED
    BY <1>1, <1>12, <1>13, <1>14, OuterInner

\* Two parts of a probe, one after the other.
LEMMA OuterTwice ==
    ASSUME NEW a, NEW b, NEW c, NEW s \in Alerts!Sites, NEW t \in Nat,
           Outer(a, b, s, t), Outer(b, c, s, t)
    PROVE  Outer(a, c, s, t)
<1>1. c \in Alerts!Tables /\ Alerts!LogInv(c.log) /\ Alerts!MovesInv(c.moves[s], c.isOpen[s], t)
    BY DEF Outer
<1>2. Alerts!OpensAt(a, s, t) => Alerts!OpensAt(c, s, t)
    BY DEF Outer
<1>3. \A f \in Alerts!Fps : f[1] # s /\ f[1] # "fleet" => c.row[f] = a.row[f]
    BY DEF Outer
<1>4. c.isOpen[s] => \/ Alerts!Unresolved(c, Alerts!Down(s))
                     \/ a.isOpen[s] /\ c.row[Alerts!Down(s)] = a.row[Alerts!Down(s)]
    BY DEF Outer, Alerts!Unresolved
<1>5. \A x \in Alerts!Sites \ {s} :
        c.fails[x] = a.fails[x] /\ c.isOpen[x] = a.isOpen[x] /\ c.moves[x] = a.moves[x]
    BY DEF Outer
<1>6. QED
    BY <1>1, <1>2, <1>3, <1>4, <1>5 DEF Outer

\* The tables with the two counters of a site.
Counters(a, s, u, v) == [a EXCEPT !.oks[s] = u, !.fails[s] = v]

\* Counting a probe is a part of it.
LEMMA CountersKeep ==
    ASSUME NEW a \in Alerts!Tables, NEW s \in Alerts!Sites, NEW t \in Nat,
           Alerts!LogInv(a.log), Alerts!MovesInv(a.moves[s], a.isOpen[s], t),
           NEW u \in Nat, NEW v \in Nat, NEW b, b = Counters(a, s, u, v)
    PROVE  Outer(a, b, s, t) /\ b.isOpen = a.isOpen /\ b.oks[s] = u /\ b.fails[s] = v
<1>o. PICK o : o = [a.oks EXCEPT ![s] = u]
    OBVIOUS
<1>g. PICK g : g = [a.fails EXCEPT ![s] = v]
    OBVIOUS
<1>1. /\ o \in [Alerts!Sites -> Nat] /\ o[s] = u
      /\ g \in [Alerts!Sites -> Nat] /\ g[s] = v /\ \A x \in Alerts!Sites \ {s} : g[x] = a.fails[x]
    BY <1>o, <1>g, FieldTypes
<1>2. b = [a EXCEPT !.oks = o, !.fails = g]
    BY <1>o, <1>g DEF Counters
<1>3. /\ b \in Alerts!Tables /\ b.oks = o /\ b.fails = g /\ b.isOpen = a.isOpen /\ b.moves = a.moves
      /\ b.row = a.row /\ b.log = a.log
    BY ONLY <1>1, <1>2, a \in Alerts!Tables DEF Alerts!Tables
<1>4. Alerts!OpensAt(a, s, t) => Alerts!OpensAt(b, s, t)
    BY <1>3 DEF Alerts!OpensAt, Alerts!Unresolved
<1>5. QED
    BY <1>1, <1>3, <1>4 DEF Outer

\* observe() as a whole: after OPEN_AFTER failures the site is open or FLAPPING.
LEMMA ObserveKeeps ==
    ASSUME NEW a \in Alerts!Tables, NEW s \in Alerts!Sites, NEW t \in Nat, NEW up \in BOOLEAN,
           NEW ok \in BOOLEAN, Alerts!LogInv(a.log), Alerts!MovesInv(a.moves[s], a.isOpen[s], t),
           NEW r, r = Alerts!Observe(a, s, ok, t, up)
    PROVE  /\ Outer(a, r, s, t)
           /\ r.fails[s] >= OpenAfter => r.isOpen[s] \/ Alerts!Unresolved(r, Alerts!Flap(s))
<1>0. OpenAfter \in Nat /\ OpenAfter > 0 /\ CloseAfter \in Nat
    BY AlertBounds
<1>b. PICK b : b = Alerts!MaybeResolveFlap(a, s, t, up, FALSE)
    OBVIOUS
<1>1. Inner(a, b, s, t) /\ b \in Alerts!Tables
    BY <1>b, ResolveFlapInner, InnerTables
<1>2. Alerts!LogInv(b.log) /\ Alerts!MovesInv(b.moves[s], b.isOpen[s], t)
    BY <1>1 DEF Inner
<1>3. b.oks[s] \in Nat /\ b.fails[s] \in Nat
    BY <1>1, FieldTypes
<1>u. PICK u : u = IF ok THEN Alerts!Capped(b.oks[s], CloseAfter) ELSE 0
    OBVIOUS
<1>v. PICK v : v = IF ok THEN 0 ELSE Alerts!Capped(b.fails[s], OpenAfter)
    OBVIOUS
<1>4. u \in Nat /\ v \in Nat
    BY <1>0, <1>3, <1>u, <1>v DEF Alerts!Capped
<1>c. PICK c : c = Counters(b, s, u, v)
    OBVIOUS
<1>5. /\ Outer(b, c, s, t) /\ c.oks[s] = u /\ c.fails[s] = v /\ c.isOpen = b.isOpen
    BY <1>1, <1>2, <1>4, <1>c, CountersKeep
<1>6. Outer(a, c, s, t)
    BY <1>1, <1>5, InnerOuter
<1>7. /\ c \in Alerts!Tables /\ Alerts!LogInv(c.log) /\ Alerts!MovesInv(c.moves[s], c.isOpen[s], t)
    BY <1>6 DEF Outer
<1>8. r = IF ok /\ c.isOpen[s] /\ c.oks[s] >= CloseAfter THEN Alerts!Close(c, s, t, up)
          ELSE IF ~ok /\ ~c.isOpen[s] /\ c.fails[s] >= OpenAfter THEN Alerts!Open(c, s, t, up)
          ELSE c
    <2>1. c = IF ok THEN [b EXCEPT !.oks[s] = Alerts!Capped(@, CloseAfter), !.fails[s] = 0]
              ELSE [b EXCEPT !.fails[s] = Alerts!Capped(@, OpenAfter), !.oks[s] = 0]
        <3>1. CASE ok
            BY <1>c, <1>u, <1>v, <3>1 DEF Counters
        <3>2. CASE ~ok
            <4>1. [b EXCEPT !.oks[s] = u, !.fails[s] = v] = [b EXCEPT !.fails[s] = v, !.oks[s] = u]
                BY <1>1 DEF Alerts!Tables
            <4>2. QED
                BY <1>c, <1>u, <1>v, <3>2, <4>1 DEF Counters
        <3>3. QED
            BY <3>1, <3>2
    <2>2. QED
        BY <1>b, <2>1 DEF Alerts!Observe
<1>9. CASE ok /\ c.isOpen[s] /\ c.oks[s] >= CloseAfter
    <2>1. Outer(c, r, s, t) /\ r.fails = c.fails
        <3>1. r = Alerts!Close(c, s, t, up)
            BY <1>8, <1>9
        <3>2. c.isOpen[s]
            BY <1>9
        <3>3. Outer(c, Alerts!Close(c, s, t, up), s, t) /\ Alerts!Close(c, s, t, up).fails = c.fails
            BY <1>7, <3>2, CloseKeeps
        <3>4. QED
            BY <3>1, <3>3
    <2>2. Outer(a, r, s, t)
        BY <1>6, <2>1, OuterTwice
    <2>3. ~(r.fails[s] >= OpenAfter)
        <3>1. v = 0
            BY <1>9, <1>v
        <3>2. r.fails[s] = 0
            BY <1>5, <2>1, <3>1
        <3>3. QED
            BY <1>0, <3>2
    <2>4. QED
        BY <2>2, <2>3
<1>10. CASE ~ok /\ ~c.isOpen[s] /\ c.fails[s] >= OpenAfter
    <2>1. /\ Outer(c, r, s, t)
          /\ r.isOpen[s] \/ Alerts!Unresolved(r, Alerts!Flap(s))
        BY <1>7, <1>8, <1>10, OpenKeeps
    <2>2. QED
        BY <1>6, <2>1, OuterTwice
<1>11. CASE /\ ~(ok /\ c.isOpen[s] /\ c.oks[s] >= CloseAfter)
            /\ ~(~ok /\ ~c.isOpen[s] /\ c.fails[s] >= OpenAfter)
    <2>1. r = c
        BY <1>8, <1>11
    <2>2. c.fails[s] >= OpenAfter => c.isOpen[s]
        BY <1>0, <1>5, <1>11, <1>v
    <2>3. QED
        BY <1>6, <2>1, <2>2
<1>12. QED
    BY <1>9, <1>10, <1>11

---------------------------------------------------------------------------
\* A set of naturals has a smallest element.
LEMMA SmallestOf ==
    ASSUME NEW S \in SUBSET Nat, S # {}
    PROVE  \E x \in S : \A y \in S : x <= y
<1>1. PICK m \in S : \A y \in S : ~(<<y, m>> \in OpToRel(<, Nat))
    BY NatLessThanWellFounded, WFMin
<1>2. ASSUME NEW y \in S PROVE m <= y
    <2>1. y \in Nat /\ m \in Nat /\ ~(y < m)
        BY <1>1 DEF OpToRel
    <2>2. QED
        BY <2>1
<1>3. QED
    BY <1>2

\* Shifted(q, p, d): p is q without its first d entries.
Shifted(q, p, d) ==
    /\ d \in 0..Len(q) /\ Len(p) = Len(q) - d /\ DOMAIN p = 1..(Len(q) - d)
    /\ \A i \in 1..(Len(q) - d) : p[i] = q[i + d]

\* From is a suffix, and not empty when something is kept.
LEMMA FromFacts ==
    ASSUME NEW E, NEW q \in Seq(E), NEW keep, keep \subseteq DOMAIN q
    PROVE  /\ Alerts!From(q, keep) \in Seq(E)
           /\ \E d \in 0..Len(q) : Shifted(q, Alerts!From(q, keep), d) /\ (keep # {} => d < Len(q))
<1>n. PICK n \in Nat : n = Len(q)
    OBVIOUS
<1>ks. PICK ks : ks = keep \cup {Len(q) + 1}
    OBVIOUS
<1>k. PICK k : k = CHOOSE i \in ks : \A j \in ks : i <= j
    OBVIOUS
<1>p. PICK p : p = [i \in 1..(Len(q) + 1 - k) |-> q[i + k - 1]]
    OBVIOUS
<1>1. Alerts!From(q, keep) = p
    BY <1>ks, <1>k, <1>p DEF Alerts!From
<1>2. DOMAIN q = 1..n /\ ks \subseteq 1..(n + 1) /\ ks # {} /\ keep \subseteq ks /\ ks \in SUBSET Nat
    BY <1>n, <1>ks
<1>3. \E i \in ks : \A j \in ks : i <= j
    BY <1>2, SmallestOf
<1>4. k \in ks /\ \A j \in ks : k <= j
    BY <1>3, <1>k
<1>5. k \in 1..(n + 1) /\ (keep # {} => k <= n)
    BY <1>2, <1>4, <1>n
<1>d. PICK d \in 0..n : d = k - 1
    BY <1>5, <1>n
<1>6. n + 1 - k = n - d /\ n - d \in Nat /\ \A i \in 1..(n - d) : i + k - 1 = i + d /\ i + d \in 1..n
    BY <1>d, <1>5, <1>n
<1>7. p = [i \in 1..(n - d) |-> q[i + d]]
    <2>1. p = [i \in 1..(n - d) |-> q[i + k - 1]]
        BY <1>p, <1>n, <1>6
    <2>2. QED
        BY <1>6, <2>1
<1>8. \A i \in 1..n : q[i] \in E
    BY <1>n
<1>9. p \in [1..(n - d) -> E]
    BY <1>6, <1>7, <1>8
<1>10. p \in Seq(E) /\ Len(p) = n - d /\ DOMAIN p = 1..(n - d)
    BY <1>6, <1>9
<1>11. \A i \in 1..(n - d) : p[i] = q[i + d]
    BY <1>7
<1>12. Shifted(q, p, d)
    BY <1>10, <1>11, <1>n, <1>d DEF Shifted
<1>13. keep # {} => d < n
    BY <1>5, <1>d, <1>n
<1>14. QED
    BY <1>1, <1>10, <1>12, <1>13, <1>n, <1>d

\* A log that forgets its oldest entries stays within its bound.
LEMMA LogForgets ==
    ASSUME NEW q \in Seq(Alerts!Push), Alerts!LogInv(q), NEW p \in Seq(Alerts!Push), NEW d \in 0..Len(q),
           Shifted(q, p, d)
    PROVE  Alerts!LogInv(p)
<1>n. PICK n \in Nat : n = Len(q)
    OBVIOUS
<1>1. /\ DOMAIN q = 1..n /\ DOMAIN p = 1..(n - d) /\ d \in 0..n
      /\ \A i \in 1..(n - d) : p[i] = q[i + d] /\ i + d \in 1..n
    BY <1>n DEF Shifted
<1>2. \A i \in DOMAIN p : ~p[i].recovery => p[i].counts
    BY <1>1 DEF Alerts!LogInv
<1>3. ASSUME NEW i \in Alerts!First(p) PROVE Alerts!Cardinality(Alerts!InWindow(p, i)) <= StormLimit + 1
    <2>1. i \in 1..(n - d) /\ i + d \in 1..n
        BY <1>1 DEF Alerts!First
    <2>2. i + d \in Alerts!First(q)
        BY <1>1, <2>1 DEF Alerts!First
    <2>3. Alerts!Cardinality(Alerts!InWindow(q, i + d)) <= StormLimit + 1
        BY <2>2 DEF Alerts!LogInv
    <2>4. Alerts!InWindow(q, i + d) \subseteq 1..n /\ Alerts!InWindow(p, i) \subseteq Int /\ d \in Int
        BY <1>1 DEF Alerts!InWindow, Alerts!First
    <2>5. \A j \in Alerts!InWindow(p, i) : j + d \in Alerts!InWindow(q, i + d)
        <3>1. SUFFICES ASSUME NEW j \in Alerts!InWindow(p, i) PROVE j + d \in Alerts!InWindow(q, i + d)
            OBVIOUS
        <3>2. j \in 1..(n - d) /\ j <= i /\ ~p[j].recovery /\ p[j].fp # Alerts!Storm /\ p[i].at - p[j].at <= StormWindow
            BY <1>1 DEF Alerts!InWindow, Alerts!First
        <3>3. j + d \in 1..n /\ j + d <= i + d /\ p[j] = q[j + d] /\ p[i] = q[i + d]
            BY <1>1, <2>1, <3>2
        <3>4. QED
            BY <1>1, <3>2, <3>3 DEF Alerts!InWindow, Alerts!First
    <2>6. /\ Alerts!Cardinality(Alerts!InWindow(p, i)) \in Nat
          /\ Alerts!Cardinality(Alerts!InWindow(q, i + d)) \in Nat
          /\ Alerts!Cardinality(Alerts!InWindow(p, i)) <= Alerts!Cardinality(Alerts!InWindow(q, i + d))
        BY <1>n, <2>4, <2>5, CountShift
    <2>7. QED
        BY <2>3, <2>6, AlertBounds
<1>4. QED
    BY <1>2, <1>3 DEF Alerts!LogInv

\* Moves that lose their oldest, later on: they still alternate, and open no more.
LEMMA MovesForget ==
    ASSUME NEW m \in Seq(Alerts!Move), NEW p \in Seq(Alerts!Move), NEW d \in 0..Len(m), Shifted(m, p, d),
           m # <<>> => d < Len(m), NEW open \in BOOLEAN, NEW t \in Nat, Alerts!MovesInv(m, open, t)
    PROVE  /\ Alerts!MovesInv(p, open, t + 1)
           /\ Alerts!Cardinality(Alerts!Opens(p, t + 1)) \in Nat
           /\ Alerts!Cardinality(Alerts!Opens(m, t)) \in Nat
           /\ Alerts!Cardinality(Alerts!Opens(p, t + 1)) <= Alerts!Cardinality(Alerts!Opens(m, t))
<1>n. PICK n \in Nat : n = Len(m)
    OBVIOUS
<1>1. /\ DOMAIN m = 1..n /\ DOMAIN p = 1..(n - d) /\ Len(p) = n - d /\ d \in 0..n /\ n - d \in Nat
      /\ \A i \in 1..(n - d) : p[i] = m[i + d] /\ i + d \in 1..n
    BY <1>n DEF Shifted
<1>2. /\ \A i \in 1..n : m[i].at <= t /\ m[i].at \in Nat
      /\ \A i, j \in 1..n : i < j => m[i].at <= m[j].at
      /\ \A i \in 1..n : m[i].ev = "open" /\ i < n => m[i + 1].ev = "close"
      /\ open => n > 0 /\ m[n].ev = "open"
      /\ ~open /\ n > 0 => m[n].ev # "open"
    BY <1>n, MovesFacts, MoveTypes
<1>3. \A i \in DOMAIN p : p[i].at <= t + 1
    BY <1>1, <1>2
<1>4. \A i, j \in DOMAIN p : i < j => p[i].at <= p[j].at
    <2>1. SUFFICES ASSUME NEW i \in 1..(n - d), NEW j \in 1..(n - d), i < j PROVE p[i].at <= p[j].at
        BY <1>1
    <2>2. i + d \in 1..n /\ j + d \in 1..n /\ i + d < j + d /\ p[i] = m[i + d] /\ p[j] = m[j + d]
        BY <1>1, <2>1
    <2>3. QED
        BY <1>2, <2>2
<1>5. \A i \in DOMAIN p : p[i].ev = "open" /\ i < Len(p) => p[i + 1].ev = "close"
    <2>1. SUFFICES ASSUME NEW i \in 1..(n - d), p[i].ev = "open", i < n - d PROVE p[i + 1].ev = "close"
        BY <1>1
    <2>2. /\ i + d \in 1..n /\ i + 1 \in 1..(n - d) /\ i + d < n /\ (i + 1) + d = (i + d) + 1
          /\ p[i] = m[i + d] /\ p[i + 1] = m[(i + 1) + d]
        BY <1>1, <2>1
    <2>3. QED
        BY <1>2, <2>1, <2>2
<1>6. n > 0 => n - d > 0 /\ n - d \in 1..(n - d) /\ p[n - d] = m[n]
    <2>1. SUFFICES ASSUME n > 0 PROVE n - d > 0 /\ n - d \in 1..(n - d) /\ p[n - d] = m[n]
        OBVIOUS
    <2>2. m # <<>> /\ d < n
        BY <1>n, <2>1
    <2>3. n - d > 0 /\ n - d \in 1..(n - d) /\ (n - d) + d = n
        BY <1>1, <1>n, <2>2
    <2>4. QED
        BY <1>1, <2>3
<1>7. open <=> p # <<>> /\ p[Len(p)].ev = "open"
    <2>1. p # <<>> <=> Len(p) > 0
        OBVIOUS
    <2>2. n - d > 0 => n > 0
        BY <1>1, <1>n
    <2>3. QED
        BY <1>1, <1>2, <1>6, <2>1, <2>2
<1>8. Alerts!MovesInv(p, open, t + 1)
    BY <1>3, <1>4, <1>5, <1>7, Zenon DEF Alerts!MovesInv
<1>9. Alerts!Opens(m, t) \subseteq 1..n /\ Alerts!Opens(p, t + 1) \subseteq Int /\ d \in Int
    BY <1>1 DEF Alerts!Opens
<1>10. \A i \in Alerts!Opens(p, t + 1) : i + d \in Alerts!Opens(m, t)
    <2>1. SUFFICES ASSUME NEW i \in Alerts!Opens(p, t + 1) PROVE i + d \in Alerts!Opens(m, t)
        OBVIOUS
    <2>2. i \in 1..(n - d) /\ p[i].ev = "open" /\ (t + 1) - p[i].at < FlapWindow
        BY <1>1 DEF Alerts!Opens
    <2>3. i + d \in 1..n /\ p[i] = m[i + d] /\ m[i + d].at \in Nat
        BY <1>1, <1>2, <2>2
    <2>4. t - m[i + d].at < FlapWindow
        <3>1. PICK x \in Nat : x = m[i + d].at /\ x = p[i].at
            BY <2>3
        <3>2. (t + 1) - x < FlapWindow /\ FlapWindow \in Nat
            BY <2>2, <3>1, AlertBounds
        <3>3. t - x < FlapWindow
            BY <3>2
        <3>4. QED
            BY <3>1, <3>3
    <2>5. QED
        BY <1>1, <2>2, <2>3, <2>4 DEF Alerts!Opens
<1>11. QED
    BY <1>8, <1>9, <1>10, <1>n, CountShift

\* Beaten(a, b, t): what the tasks of the beat at t + 1 do to the tables.
Beaten(a, b, t) ==
    /\ b \in Alerts!Tables
    /\ b.fails = a.fails /\ b.isOpen = a.isOpen /\ b.row = a.row /\ Alerts!LogInv(b.log)
    /\ \A s \in Alerts!Sites :
        /\ Alerts!MovesInv(b.moves[s], b.isOpen[s], t + 1)
        /\ Alerts!Cardinality(Alerts!Opens(b.moves[s], t + 1)) \in Nat
        /\ Alerts!Cardinality(Alerts!Opens(a.moves[s], t)) \in Nat
        /\ Alerts!Cardinality(Alerts!Opens(b.moves[s], t + 1))
            <= Alerts!Cardinality(Alerts!Opens(a.moves[s], t))

\* Tasks that touch only clocks, deliveries and mails.
LEMMA BeatenSame ==
    ASSUME NEW a, NEW b, NEW c \in Alerts!Tables, NEW t, Beaten(a, b, t),
           c.fails = b.fails, c.isOpen = b.isOpen, c.row = b.row, c.moves = b.moves,
           Alerts!LogInv(c.log)
    PROVE  Beaten(a, c, t)
BY DEF Beaten

\* Forgetting what no reader looks at.
LEMMA ForgetBeaten ==
    ASSUME NEW a \in Alerts!Tables, NEW t \in Nat, Alerts!LogInv(a.log),
           \A s \in Alerts!Sites : Alerts!MovesInv(a.moves[s], a.isOpen[s], t)
    PROVE  Beaten(a, Alerts!Forget(a, t + 1), t)
<1>K. PICK K : K = {i \in DOMAIN a.log : (t + 1) - a.log[i].at <= StormWindow
                                         \/ (t + 1) - a.log[i].at <= GroupWindow}
    OBVIOUS
<1>q. PICK q : q = Alerts!From(a.log, K)
    OBVIOUS
<1>M. PICK M : M = [s \in Alerts!Sites |->
        {i \in DOMAIN a.moves[s] : (t + 1) - a.moves[s][i].at <= FlapWindow \/ i = Len(a.moves[s])}]
    OBVIOUS
<1>mv. PICK mv : mv = [s \in Alerts!Sites |-> Alerts!From(a.moves[s], M[s])]
    OBVIOUS
<1>b. PICK b : b = [a EXCEPT !.log = q, !.moves = mv]
    OBVIOUS
<1>1. Alerts!Forget(a, t + 1) = b
    <2>1. mv = [s \in Alerts!Sites |->
                  Alerts!From(a.moves[s], {i \in DOMAIN a.moves[s] :
                        (t + 1) - a.moves[s][i].at <= FlapWindow \/ i = Len(a.moves[s])})]
        BY <1>M, <1>mv
    <2>2. QED
        BY <1>K, <1>q, <1>b, <2>1 DEF Alerts!Forget
<1>2. K \subseteq DOMAIN a.log /\ a.log \in Seq(Alerts!Push)
    BY <1>K, FieldTypes
<1>3. q \in Seq(Alerts!Push) /\ Alerts!LogInv(q)
    <2>1. q \in Seq(Alerts!Push) /\ \E d \in 0..Len(a.log) : Shifted(a.log, q, d)
        BY <1>2, <1>q, FromFacts
    <2>2. QED
        BY <1>2, <2>1, LogForgets
<1>4. ASSUME NEW s \in Alerts!Sites
      PROVE  /\ mv[s] \in Seq(Alerts!Move) /\ Alerts!MovesInv(mv[s], a.isOpen[s], t + 1)
             /\ Alerts!Cardinality(Alerts!Opens(mv[s], t + 1)) \in Nat
             /\ Alerts!Cardinality(Alerts!Opens(a.moves[s], t)) \in Nat
             /\ Alerts!Cardinality(Alerts!Opens(mv[s], t + 1))
                 <= Alerts!Cardinality(Alerts!Opens(a.moves[s], t))
    <2>m. PICK m : m = a.moves[s]
        OBVIOUS
    <2>k. PICK k : k = M[s]
        OBVIOUS
    <2>p. PICK p : p = Alerts!From(m, k)
        OBVIOUS
    <2>o. PICK o \in BOOLEAN : o = a.isOpen[s]
        BY FieldTypes
    <2>1. m \in Seq(Alerts!Move) /\ mv[s] = p /\ Alerts!MovesInv(m, o, t)
        BY <1>mv, <2>m, <2>k, <2>p, <2>o, FieldTypes
    <2>2. k = {i \in DOMAIN m : (t + 1) - m[i].at <= FlapWindow \/ i = Len(m)}
        BY <1>M, <2>k, <2>m
    <2>3. k \subseteq DOMAIN m
        BY <2>2
    <2>4. p \in Seq(Alerts!Move) /\ \E d \in 0..Len(m) : Shifted(m, p, d) /\ (k # {} => d < Len(m))
        BY <2>1, <2>3, <2>p, FromFacts
    <2>5. PICK d \in 0..Len(m) : Shifted(m, p, d) /\ (k # {} => d < Len(m))
        BY <2>4
    <2>6. m # <<>> => d < Len(m)
        <3>1. SUFFICES ASSUME m # <<>> PROVE k # {}
            BY <2>5
        <3>2. Len(m) \in DOMAIN m
            BY <2>1, <3>1
        <3>3. QED
            BY <2>2, <3>2
    <2>7. /\ Alerts!MovesInv(p, o, t + 1)
          /\ Alerts!Cardinality(Alerts!Opens(p, t + 1)) \in Nat
          /\ Alerts!Cardinality(Alerts!Opens(m, t)) \in Nat
          /\ Alerts!Cardinality(Alerts!Opens(p, t + 1)) <= Alerts!Cardinality(Alerts!Opens(m, t))
        BY <2>1, <2>4, <2>5, <2>6, <2>o, MovesForget
    <2>8. QED
        BY <2>1, <2>4, <2>7, <2>m, <2>o
<1>5. mv \in [Alerts!Sites -> Seq(Alerts!Move)]
    BY <1>4, <1>mv
<1>6. /\ b \in Alerts!Tables /\ b.fails = a.fails /\ b.isOpen = a.isOpen /\ b.row = a.row
      /\ b.log = q /\ b.moves = mv
    BY ONLY <1>3, <1>5, <1>b, a \in Alerts!Tables DEF Alerts!Tables
<1>7. QED
    BY <1>1, <1>3, <1>4, <1>6 DEF Beaten

\* repeat_unacked() touches only clocks, deliveries and mails.
LEMMA RepeatSame ==
    ASSUME NEW a \in Alerts!Tables, NEW t \in Nat, NEW up \in BOOLEAN, NEW b,
           b = Alerts!RepeatUnacked(a, t, up)
    PROVE  /\ b \in Alerts!Tables /\ b.fails = a.fails /\ b.isOpen = a.isOpen /\ b.row = a.row
           /\ b.moves = a.moves /\ b.log = a.log
<1>D. PICK D : D = {f \in Alerts!OpenP1(a) : Alerts!Due(a, f, t)}
    OBVIOUS
<1>g. PICK g : g = [f \in Alerts!Fps |-> IF f \in D THEN Alerts!Deliver(a, f, t, up).pushAt[f] ELSE a.pushAt[f]]
    OBVIOUS
<1>o. PICK o : o = IF up THEN a.okOnce \cup D ELSE a.okOnce
    OBVIOUS
<1>e. PICK e : e = IF up THEN a.failed \ D ELSE a.failed \cup D
    OBVIOUS
<1>l. PICK l : l = a.mailed \cup {f \in Alerts!OpenP1(a) : t - a.openedAt[f] >= UnackedAfter}
    OBVIOUS
<1>1. b = [a EXCEPT !.pushAt = g, !.okOnce = o, !.failed = e, !.mailed = l]
    BY <1>D, <1>g, <1>o, <1>e, <1>l DEF Alerts!RepeatUnacked
<1>2. Alerts!OpenP1(a) \subseteq Alerts!Fps /\ D \subseteq Alerts!Fps
    BY <1>D DEF Alerts!OpenP1
<1>3. o \in SUBSET Alerts!Fps /\ e \in SUBSET Alerts!Fps /\ l \in SUBSET Alerts!Fps
    BY <1>2, <1>o, <1>e, <1>l, FieldTypes
<1>4. ASSUME NEW f \in Alerts!Fps PROVE Alerts!Deliver(a, f, t, up).pushAt[f] \in Int /\ a.pushAt[f] \in Int
    <2>1. Inner(a, Alerts!Deliver(a, f, t, up), 0, t)
        BY DeliverInner
    <2>2. Alerts!Deliver(a, f, t, up) \in Alerts!Tables
        BY <2>1, InnerTables
    <2>3. QED
        BY <2>2, FieldTypes
<1>5. g \in [Alerts!Fps -> Int]
    BY <1>4, <1>g
<1>6. QED
    BY ONLY <1>1, <1>3, <1>5, a \in Alerts!Tables DEF Alerts!Tables

\* Marking entries as delivered leaves the bound of the log alone.
LEMMA MarkedLog ==
    ASSUME NEW q \in Seq(Alerts!Push), Alerts!LogInv(q), NEW fps,
           NEW p, p = [i \in DOMAIN q |-> IF q[i].fp \in fps THEN [q[i] EXCEPT !.delivered = TRUE] ELSE q[i]]
    PROVE  p \in Seq(Alerts!Push) /\ Alerts!LogInv(p)
<1>n. PICK n \in Nat : n = Len(q)
    OBVIOUS
<1>1. DOMAIN q = 1..n /\ \A i \in 1..n : q[i] \in Alerts!Push
    BY <1>n
<1>2. DOMAIN p = 1..n
    BY <1>1
<1>3. ASSUME NEW i \in 1..n
      PROVE  /\ p[i] \in Alerts!Push /\ p[i].at = q[i].at /\ p[i].fp = q[i].fp
             /\ p[i].counts = q[i].counts /\ p[i].recovery = q[i].recovery
    <2>1. p[i] = IF q[i].fp \in fps THEN [q[i] EXCEPT !.delivered = TRUE] ELSE q[i]
        BY <1>1
    <2>2. PICK e \in Alerts!Push : e = q[i]
        BY <1>1
    <2>3. PICK e1 : e1 = [e EXCEPT !.delivered = TRUE]
        OBVIOUS
    <2>4. e1 \in Alerts!Push /\ e1.at = e.at /\ e1.fp = e.fp /\ e1.counts = e.counts /\ e1.recovery = e.recovery
        BY ONLY <2>3, e \in Alerts!Push DEF Alerts!Push
    <2>5. p[i] = e1 \/ p[i] = e
        BY <2>1, <2>2, <2>3
    <2>6. QED
        BY <2>2, <2>4, <2>5
<1>4. p \in [1..n -> Alerts!Push]
    BY <1>1, <1>2, <1>3
<1>5. p \in Seq(Alerts!Push)
    BY <1>4
<1>6. Alerts!First(p) = Alerts!First(q)
    BY <1>1, <1>2, <1>3 DEF Alerts!First
<1>7. \A i \in Alerts!First(p) : Alerts!InWindow(p, i) = Alerts!InWindow(q, i)
    <2>1. SUFFICES ASSUME NEW i \in Alerts!First(p) PROVE Alerts!InWindow(p, i) = Alerts!InWindow(q, i)
        OBVIOUS
    <2>2. i \in 1..n /\ Alerts!First(q) \subseteq 1..n
        BY <1>1, <1>6 DEF Alerts!First
    <2>3. QED
        BY <1>3, <1>6, <2>2 DEF Alerts!InWindow
<1>8. \A i \in DOMAIN p : ~p[i].recovery => p[i].counts
    BY <1>1, <1>2, <1>3 DEF Alerts!LogInv
<1>9. QED
    BY <1>5, <1>6, <1>7, <1>8 DEF Alerts!LogInv

\* deliver_grouped() touches only clocks, deliveries and the marks of the log.
LEMMA GroupedSame ==
    ASSUME NEW a \in Alerts!Tables, NEW t \in Nat, NEW up \in BOOLEAN, Alerts!LogInv(a.log), NEW c,
           c = Alerts!DeliverGrouped(a, t, up)
    PROVE  /\ c \in Alerts!Tables /\ c.fails = a.fails /\ c.isOpen = a.isOpen /\ c.row = a.row
           /\ c.moves = a.moves /\ Alerts!LogInv(c.log)
<1>g. PICK g : g = Alerts!GroupP2(a, t)
    OBVIOUS
<1>x. PICK x : x = CHOOSE f \in g : TRUE
    OBVIOUS
<1>b. PICK b : b = IF Alerts!Cardinality(g) = 1 THEN Alerts!Deliver(a, x, t, up) ELSE a
    OBVIOUS
<1>1. c = IF up THEN Alerts!Marked(b, g) ELSE b
    BY <1>g, <1>x, <1>b DEF Alerts!DeliverGrouped
<1>2. g \subseteq Alerts!Fps
    <2>1. SUFFICES ASSUME NEW f \in g PROVE f \in Alerts!Fps
        OBVIOUS
    <2>2. PICK i \in DOMAIN a.log : f = a.log[i].fp
        BY <1>g, <2>1 DEF Alerts!GroupP2
    <2>3. a.log[i] \in Alerts!Push
        BY <2>2, FieldTypes
    <2>4. QED
        BY <2>2, <2>3 DEF Alerts!Push
<1>3. Alerts!Cardinality(g) = 1 => x \in Alerts!Fps
    <2>1. SUFFICES ASSUME Alerts!Cardinality(g) = 1 PROVE g # {}
        BY <1>2, <1>x
    <2>2. QED
        BY <2>1, CountNone
<1>4. /\ b \in Alerts!Tables /\ b.fails = a.fails /\ b.isOpen = a.isOpen /\ b.row = a.row
      /\ b.moves = a.moves /\ Alerts!LogInv(b.log)
    <2>1. CASE Alerts!Cardinality(g) = 1
        <3>1. Inner(a, b, 0, t) /\ b.row = a.row
            BY <1>3, <1>b, <2>1, DeliverInner
        <3>2. QED
            BY <3>1 DEF Inner
    <2>2. CASE Alerts!Cardinality(g) # 1
        BY <1>b, <2>2
    <2>3. QED
        BY <2>1, <2>2
<1>5. CASE up
    <2>p. PICK p : p = [i \in DOMAIN b.log |-> IF b.log[i].fp \in g THEN [b.log[i] EXCEPT !.delivered = TRUE]
                                               ELSE b.log[i]]
        OBVIOUS
    <2>1. c = [b EXCEPT !.log = p]
        BY <1>1, <1>5, <2>p DEF Alerts!Marked
    <2>2. p \in Seq(Alerts!Push) /\ Alerts!LogInv(p)
        <3>1. PICK q \in Seq(Alerts!Push) : q = b.log
            BY <1>4, FieldTypes
        <3>2. p = [i \in DOMAIN q |-> IF q[i].fp \in g THEN [q[i] EXCEPT !.delivered = TRUE] ELSE q[i]]
            BY <2>p, <3>1
        <3>3. Alerts!LogInv(q)
            BY <1>4, <3>1
        <3>4. QED
            BY <3>2, <3>3, MarkedLog
    <2>3. /\ c \in Alerts!Tables /\ c.fails = b.fails /\ c.isOpen = b.isOpen /\ c.row = b.row
          /\ c.moves = b.moves /\ c.log = p
        BY ONLY <2>1, <2>2, <1>4 DEF Alerts!Tables
    <2>4. QED
        BY <1>4, <2>2, <2>3
<1>6. CASE ~up
    BY <1>1, <1>4, <1>6
<1>7. QED
    BY <1>5, <1>6

\* A probe keeps the invariant: what the operator put away stays put away until the
\* engine moves the row.
LEMMA ProbeGood ==
    ASSUME NEW a, NEW h, NEW t, NEW n, Alerts!AlertGood(a, h, t, n), NEW s \in Alerts!Sites,
           NEW ok \in BOOLEAN, NEW up \in BOOLEAN, NEW b, b = Alerts!Observe(a, s, ok, t, up),
           NEW g, g = {f \in h : b.row[f] = a.row[f]}
    PROVE  Alerts!AlertGood(b, g, t, n)
<1>1. a \in Alerts!Tables /\ t \in Nat /\ n \in Nat /\ Alerts!LogInv(a.log)
    BY DEF Alerts!AlertGood
<1>2. /\ Outer(a, b, s, t)
      /\ b.fails[s] >= OpenAfter => b.isOpen[s] \/ Alerts!Unresolved(b, Alerts!Flap(s))
    <2>1. Alerts!MovesInv(a.moves[s], a.isOpen[s], t)
        BY DEF Alerts!AlertGood
    <2>2. QED
        BY <1>1, <2>1, ObserveKeeps
<1>3. b \in Alerts!Tables /\ Alerts!LogInv(b.log)
    BY <1>2 DEF Outer
<1>4. ASSUME NEW x \in Alerts!Sites PROVE Alerts!SilentOne(b, g, x)
    <2>1. Alerts!Down(x) \in Alerts!Fps /\ Alerts!Flap(x) \in Alerts!Fps
        BY FpFacts
    <2>2. CASE x = s
        <3>1. b.isOpen[s] => Alerts!Unresolved(b, Alerts!Down(s)) \/ Alerts!Down(s) \in g
            <4>1. SUFFICES ASSUME b.isOpen[s], ~Alerts!Unresolved(b, Alerts!Down(s))
                           PROVE  Alerts!Down(s) \in g
                OBVIOUS
            <4>2. a.isOpen[s] /\ b.row[Alerts!Down(s)] = a.row[Alerts!Down(s)]
                BY <1>2, <4>1 DEF Outer
            <4>3. Alerts!Down(s) \in h
                BY <4>1, <4>2 DEF Alerts!AlertGood, Alerts!SilentOne, Alerts!Unresolved
            <4>4. QED
                BY <4>2, <4>3
        <3>2. QED
            BY <1>2, <2>2, <3>1 DEF Alerts!SilentOne
    <2>3. CASE x # s
        <3>1. Alerts!Down(x)[1] = x /\ Alerts!Flap(x)[1] = x /\ x # "fleet"
            BY FpFacts
        <3>2. /\ b.fails[x] = a.fails[x] /\ b.isOpen[x] = a.isOpen[x]
              /\ b.row[Alerts!Down(x)] = a.row[Alerts!Down(x)]
              /\ b.row[Alerts!Flap(x)] = a.row[Alerts!Flap(x)]
            BY <1>2, <2>1, <2>3, <3>1 DEF Outer
        <3>3. /\ Alerts!Down(x) \in h => Alerts!Down(x) \in g
              /\ Alerts!Flap(x) \in h => Alerts!Flap(x) \in g
            BY <3>2
        <3>4. Alerts!SilentOne(a, h, x)
            BY DEF Alerts!AlertGood
        <3>5. QED
            BY <3>2, <3>3, <3>4 DEF Alerts!SilentOne, Alerts!Unresolved
    <2>4. QED
        BY <2>2, <2>3
<1>5. ASSUME NEW x \in Alerts!Sites
      PROVE  /\ Alerts!MovesInv(b.moves[x], b.isOpen[x], t)
             /\ n = 0 => Alerts!OpensAt(b, x, t)
    <2>1. Alerts!MovesInv(a.moves[x], a.isOpen[x], t) /\ (n = 0 => Alerts!OpensAt(a, x, t))
        BY DEF Alerts!AlertGood
    <2>2. CASE x = s
        BY <1>2, <2>1, <2>2 DEF Outer
    <2>3. CASE x # s
        <3>1. Alerts!Flap(x)[1] = x /\ x # "fleet" /\ Alerts!Flap(x) \in Alerts!Fps
            BY FpFacts
        <3>2. /\ b.moves[x] = a.moves[x] /\ b.isOpen[x] = a.isOpen[x]
              /\ b.row[Alerts!Flap(x)] = a.row[Alerts!Flap(x)]
            BY <1>2, <2>3, <3>1 DEF Outer
        <3>3. QED
            BY <2>1, <3>2 DEF Alerts!OpensAt, Alerts!Unresolved
    <2>4. QED
        BY <2>2, <2>3
<1>6. QED
    BY <1>1, <1>3, <1>4, <1>5 DEF Alerts!AlertGood

\* The tasks of a beat keep the invariant.
LEMMA BeatGood ==
    ASSUME NEW a, NEW h, NEW t, NEW n, Alerts!AlertGood(a, h, t, n), NEW up \in BOOLEAN, NEW d,
           d = Alerts!DeliverGrouped(Alerts!RepeatUnacked(Alerts!Forget(a, t + 1), t + 1, up), t + 1, up)
    PROVE  Alerts!AlertGood(d, h, t + 1, n)
<1>b. PICK b : b = Alerts!Forget(a, t + 1)
    OBVIOUS
<1>c. PICK c : c = Alerts!RepeatUnacked(b, t + 1, up)
    OBVIOUS
<1>1. d = Alerts!DeliverGrouped(c, t + 1, up)
    BY <1>b, <1>c
<1>2. /\ a \in Alerts!Tables /\ t \in Nat /\ t + 1 \in Nat /\ n \in Nat /\ Alerts!LogInv(a.log)
      /\ \A s \in Alerts!Sites : Alerts!MovesInv(a.moves[s], a.isOpen[s], t)
    BY DEF Alerts!AlertGood
<1>3. Beaten(a, b, t)
    BY <1>2, <1>b, ForgetBeaten
<1>4. b \in Alerts!Tables /\ Alerts!LogInv(b.log)
    BY <1>3 DEF Beaten
<1>5. /\ c \in Alerts!Tables /\ c.fails = b.fails /\ c.isOpen = b.isOpen /\ c.row = b.row
      /\ c.moves = b.moves /\ c.log = b.log
    BY <1>2, <1>4, <1>c, RepeatSame
<1>6. Alerts!LogInv(c.log)
    BY <1>4, <1>5
<1>7. /\ d \in Alerts!Tables /\ d.fails = c.fails /\ d.isOpen = c.isOpen /\ d.row = c.row
      /\ d.moves = c.moves /\ Alerts!LogInv(d.log)
    BY <1>1, <1>2, <1>5, <1>6, GroupedSame
<1>8. d.fails = b.fails /\ d.isOpen = b.isOpen /\ d.row = b.row /\ d.moves = b.moves
    BY <1>5, <1>7
<1>9. Beaten(a, d, t)
    BY <1>3, <1>7, <1>8, BeatenSame
<1>10. d.fails = a.fails /\ d.isOpen = a.isOpen /\ d.row = a.row
    BY <1>9 DEF Beaten
<1>11. \A s \in Alerts!Sites : Alerts!SilentOne(d, h, s)
    BY <1>10 DEF Alerts!AlertGood, Alerts!SilentOne, Alerts!Unresolved
<1>12. \A s \in Alerts!Sites : Alerts!MovesInv(d.moves[s], d.isOpen[s], t + 1)
    BY <1>9 DEF Beaten
<1>13. ASSUME n = 0, NEW s \in Alerts!Sites PROVE Alerts!OpensAt(d, s, t + 1)
    <2>1. Alerts!OpensAt(a, s, t)
        BY <1>13 DEF Alerts!AlertGood
    <2>2. /\ Alerts!Cardinality(Alerts!Opens(d.moves[s], t + 1)) \in Nat
          /\ Alerts!Cardinality(Alerts!Opens(a.moves[s], t)) \in Nat
          /\ Alerts!Cardinality(Alerts!Opens(d.moves[s], t + 1))
              <= Alerts!Cardinality(Alerts!Opens(a.moves[s], t))
        BY <1>9 DEF Beaten
    <2>3. FlapCycles \in Nat
        BY AlertBounds
    <2>4. Alerts!Unresolved(d, Alerts!Flap(s)) = Alerts!Unresolved(a, Alerts!Flap(s))
        BY <1>10 DEF Alerts!Unresolved
    <2>5. QED
        BY <1>10, <2>1, <2>2, <2>3, <2>4 DEF Alerts!OpensAt
<1>14. QED
    BY <1>2, <1>7, <1>11, <1>12, <1>13 DEF Alerts!AlertGood

\* The operator's transition keeps the invariant: its row counts as put away.
LEMMA TransitionGood ==
    ASSUME NEW a, NEW h, NEW t, NEW n, Alerts!AlertGood(a, h, t, n), NEW f \in Alerts!Fps,
           NEW to \in {"acked", "resolved", "accepted"}, NEW b, b = [a EXCEPT !.row[f] = to],
           NEW g, g = h \cup {f}
    PROVE  Alerts!AlertGood(b, g, t, n + 1)
<1>1. a \in Alerts!Tables /\ t \in Nat /\ n \in Nat /\ n + 1 \in Nat /\ n + 1 # 0 /\ Alerts!LogInv(a.log)
    BY DEF Alerts!AlertGood
<1>2. to \in Alerts!States
    BY DEF Alerts!States
<1>3. /\ b \in Alerts!Tables /\ b.fails = a.fails /\ b.isOpen = a.isOpen /\ b.moves = a.moves
      /\ b.log = a.log /\ b.row = [a.row EXCEPT ![f] = to]
    BY <1>1, <1>2, RowSet
<1>4. \A e \in Alerts!Fps \ {f} : b.row[e] = a.row[e]
    BY <1>1, <1>3, FieldTypes
<1>5. ASSUME NEW s \in Alerts!Sites PROVE Alerts!SilentOne(b, g, s)
    <2>1. Alerts!Down(s) \in Alerts!Fps /\ Alerts!Flap(s) \in Alerts!Fps
        BY FpFacts
    <2>2. /\ Alerts!Down(s) \in g \/ b.row[Alerts!Down(s)] = a.row[Alerts!Down(s)]
          /\ Alerts!Flap(s) \in g \/ b.row[Alerts!Flap(s)] = a.row[Alerts!Flap(s)]
        BY <1>4, <2>1
    <2>3. Alerts!SilentOne(a, h, s) /\ h \subseteq g
        BY DEF Alerts!AlertGood
    <2>4. QED
        BY <1>3, <2>2, <2>3 DEF Alerts!SilentOne, Alerts!Unresolved
<1>6. QED
    BY <1>1, <1>3, <1>5 DEF Alerts!AlertGood

\* Every step of the engine keeps the invariant.
LEMMA AlertsNext ==
    ASSUME Alerts!AlertInv, [Alerts!Next]_alertsState PROVE Alerts!AlertInv'
<1>0. Alerts!AlertGood(al, byHand, clock, hands) /\ at \in DOMAIN SiteOrder
    BY DEF Alerts!AlertInv
<1>1. CASE UNCHANGED alertsState
    BY <1>0, <1>1 DEF alertsState, Alerts!AlertInv, Alerts!AlertGood
<1>2. ASSUME NEW ok \in BOOLEAN, NEW up \in BOOLEAN, Alerts!ProbeSite(ok, up) PROVE Alerts!AlertInv'
    <2>1. /\ at' = (at % Len(SiteOrder)) + 1 /\ al' = Alerts!Observe(al, SiteOrder[at], ok, clock, up)
          /\ byHand' = {f \in byHand : al'.row[f] = al.row[f]} /\ clock' = clock /\ hands' = hands
        BY <1>2 DEF Alerts!ProbeSite
    <2>2. SiteOrder[at] \in Alerts!Sites
        BY <1>0 DEF Alerts!Sites
    <2>3. Alerts!AlertGood(al', byHand', clock, hands)
        BY <1>0, <2>1, <2>2, ProbeGood
    <2>4. at' \in DOMAIN SiteOrder
        <3>1. Len(SiteOrder) \in Nat \ {0} /\ DOMAIN SiteOrder = 1..Len(SiteOrder)
            BY AlertBounds
        <3>2. PICK k : k = Len(SiteOrder) /\ k \in Nat \ {0}
            BY <3>1
        <3>3. at \in 1..k /\ at' = (at % k) + 1
            BY <1>0, <2>1, <3>1, <3>2
        <3>a. k \in Nat /\ k > 0
            BY <3>2
        <3>4. at % k \in 0..(k - 1)
            BY <3>a, <3>3
        <3>5. at' \in 1..k
            BY <3>a, <3>3, <3>4
        <3>6. QED
            BY <3>1, <3>2, <3>5
    <2>5. QED
        BY <2>1, <2>3, <2>4 DEF Alerts!AlertInv
<1>3. ASSUME NEW up \in BOOLEAN, Alerts!Beat(up) PROVE Alerts!AlertInv'
    <2>1. /\ clock' = clock + 1 /\ byHand' = byHand /\ hands' = hands /\ at' = at
          /\ al' = Alerts!DeliverGrouped(Alerts!RepeatUnacked(Alerts!Forget(al, clock + 1), clock + 1, up),
                                         clock + 1, up)
        BY <1>3 DEF Alerts!Beat
    <2>2. Alerts!AlertGood(al', byHand, clock + 1, hands)
        BY <1>0, <2>1, BeatGood
    <2>3. QED
        BY <1>0, <2>1, <2>2 DEF Alerts!AlertInv
<1>4. ASSUME NEW f \in Alerts!Fps, NEW to \in {"acked", "resolved", "accepted"}, Alerts!Transition(f, to)
      PROVE  Alerts!AlertInv'
    <2>1. /\ hands' = hands + 1 /\ al' = [al EXCEPT !.row[f] = to] /\ byHand' = byHand \cup {f}
          /\ clock' = clock /\ at' = at
        BY <1>4 DEF Alerts!Transition
    <2>2. Alerts!AlertGood(al', byHand', clock, hands + 1)
        BY <1>0, <2>1, TransitionGood
    <2>3. QED
        BY <1>0, <2>1, <2>2 DEF Alerts!AlertInv
<1>5. CASE Alerts!Next
    BY <1>2, <1>3, <1>4, <1>5, Zenon DEF Alerts!Next
<1>6. QED
    BY <1>1, <1>5

---------------------------------------------------------------------------
(* The types of the alerts: nothing in the tables is ahead of the clock *)

MovesAt(t) == Seq([at : 0..t, ev : {"open", "close"}])
LogAt(t) == Seq([at : 0..t, fp : Alerts!Fps, counts : BOOLEAN, delivered : BOOLEAN, recovery : BOOLEAN])

\* The fields of the tables at a time.
LEMMA TimedFields ==
    ASSUME NEW t, NEW a \in Alerts!Timed(t)
    PROVE  /\ a.fails \in [Alerts!Sites -> 0..OpenAfter] /\ a.oks \in [Alerts!Sites -> 0..CloseAfter]
           /\ a.isOpen \in [Alerts!Sites -> BOOLEAN] /\ a.moves \in [Alerts!Sites -> MovesAt(t)]
           /\ a.openedAt \in [Alerts!Fps -> Alerts!None..t] /\ a.row \in [Alerts!Fps -> Alerts!States]
           /\ a.pushAt \in [Alerts!Fps -> Alerts!None..t] /\ a.log \in LogAt(t)
           /\ a.storm \in Alerts!None..t /\ a.okOnce \in SUBSET Alerts!Fps
           /\ a.mailed \in SUBSET Alerts!Fps /\ a.failed \in SUBSET Alerts!Fps
BY DEF Alerts!Timed, MovesAt, LogAt

\* The fields may be replaced by others of their type.
LEMMA TimedPut ==
    ASSUME NEW t, NEW a \in Alerts!Timed(t)
    PROVE  /\ \A g \in [Alerts!Fps -> Alerts!States] : [a EXCEPT !.row = g] \in Alerts!Timed(t)
           /\ \A g \in [Alerts!Fps -> Alerts!None..t] :
                /\ [a EXCEPT !.pushAt = g] \in Alerts!Timed(t)
                /\ [a EXCEPT !.openedAt = g] \in Alerts!Timed(t)
           /\ \A g \in LogAt(t) : [a EXCEPT !.log = g] \in Alerts!Timed(t)
           /\ \A g \in [Alerts!Sites -> MovesAt(t)] : [a EXCEPT !.moves = g] \in Alerts!Timed(t)
           /\ \A g \in [Alerts!Sites -> BOOLEAN] : [a EXCEPT !.isOpen = g] \in Alerts!Timed(t)
           /\ \A g \in [Alerts!Sites -> 0..OpenAfter] : [a EXCEPT !.fails = g] \in Alerts!Timed(t)
           /\ \A g \in [Alerts!Sites -> 0..CloseAfter] : [a EXCEPT !.oks = g] \in Alerts!Timed(t)
           /\ \A g \in Alerts!None..t : [a EXCEPT !.storm = g] \in Alerts!Timed(t)
           /\ \A g \in SUBSET Alerts!Fps :
                /\ [a EXCEPT !.okOnce = g] \in Alerts!Timed(t)
                /\ [a EXCEPT !.mailed = g] \in Alerts!Timed(t)
                /\ [a EXCEPT !.failed = g] \in Alerts!Timed(t)
BY DEF Alerts!Timed, MovesAt, LogAt

\* A row may get a state, and a clock any time up to now.
LEMMA TimedAt ==
    ASSUME NEW t, NEW a \in Alerts!Timed(t), NEW f \in Alerts!Fps
    PROVE  /\ \A r \in Alerts!States : [a EXCEPT !.row[f] = r] \in Alerts!Timed(t)
           /\ \A u \in Alerts!None..t :
                /\ [a EXCEPT !.pushAt[f] = u] \in Alerts!Timed(t)
                /\ [a EXCEPT !.openedAt[f] = u] \in Alerts!Timed(t)
<1>1. ASSUME NEW r \in Alerts!States PROVE [a EXCEPT !.row[f] = r] \in Alerts!Timed(t)
    <2>g. PICK g : g = [a.row EXCEPT ![f] = r]
        OBVIOUS
    <2>1. g \in [Alerts!Fps -> Alerts!States]
        BY <2>g, TimedFields
    <2>2. [a EXCEPT !.row = g] \in Alerts!Timed(t)
        BY <2>1, TimedPut
    <2>3. QED
        BY <2>g, <2>2
<1>2. ASSUME NEW u \in Alerts!None..t
      PROVE  /\ [a EXCEPT !.pushAt[f] = u] \in Alerts!Timed(t)
             /\ [a EXCEPT !.openedAt[f] = u] \in Alerts!Timed(t)
    <2>g. PICK g : g = [a.pushAt EXCEPT ![f] = u]
        OBVIOUS
    <2>h. PICK h : h = [a.openedAt EXCEPT ![f] = u]
        OBVIOUS
    <2>1. g \in [Alerts!Fps -> Alerts!None..t] /\ h \in [Alerts!Fps -> Alerts!None..t]
        BY <2>g, <2>h, TimedFields
    <2>2. [a EXCEPT !.pushAt = g] \in Alerts!Timed(t) /\ [a EXCEPT !.openedAt = h] \in Alerts!Timed(t)
        BY <2>1, TimedPut
    <2>3. QED
        BY <2>g, <2>h, <2>2
<1>3. QED
    BY <1>1, <1>2

\* Now is a time up to now, and so is no time.
LEMMA NowInTime ==
    ASSUME NEW t \in Nat PROVE t \in Alerts!None..t /\ Alerts!None \in Alerts!None..t /\ t \in 0..t
BY DEF Alerts!None

\* _record_push() stamps its entry with now.
LEMMA RecordPushTimed ==
    ASSUME NEW t \in Nat, NEW a \in Alerts!Timed(t), NEW f \in Alerts!Fps,
           NEW counts \in BOOLEAN, NEW recovery \in BOOLEAN
    PROVE  Alerts!RecordPush(a, f, t, counts, recovery) \in Alerts!Timed(t)
<1>e. PICK e : e = [at |-> t, fp |-> f, counts |-> counts, delivered |-> FALSE, recovery |-> recovery]
    OBVIOUS
<1>q. PICK q : q = Append(a.log, e)
    OBVIOUS
<1>1. e \in [at : 0..t, fp : Alerts!Fps, counts : BOOLEAN, delivered : BOOLEAN, recovery : BOOLEAN]
    BY <1>e, NowInTime
<1>2. a.log \in LogAt(t)
    BY TimedFields
<1>3. q \in LogAt(t)
    BY <1>1, <1>2, <1>q DEF LogAt
<1>4. [a EXCEPT !.log = q] \in Alerts!Timed(t)
    BY <1>3, TimedPut
<1>5. QED
    BY <1>4, <1>e, <1>q DEF Alerts!RecordPush

\* deliver() stamps now, keeps the clock or gives it back.
LEMMA DeliverTimed ==
    ASSUME NEW t \in Nat, NEW a \in Alerts!Timed(t), NEW f \in Alerts!Fps, NEW up \in BOOLEAN
    PROVE  Alerts!Deliver(a, f, t, up) \in Alerts!Timed(t)
<1>u. PICK u : u = IF up THEN t ELSE IF f \in a.okOnce THEN a.pushAt[f] ELSE Alerts!None
    OBVIOUS
<1>b. PICK b : b = [a EXCEPT !.pushAt[f] = u]
    OBVIOUS
<1>w. PICK w : w = IF up THEN b.okOnce \cup {f} ELSE b.okOnce
    OBVIOUS
<1>v. PICK v : v = IF up THEN b.failed \ {f} ELSE b.failed \cup {f}
    OBVIOUS
<1>c. PICK c : c = [b EXCEPT !.okOnce = w]
    OBVIOUS
<1>1. u \in Alerts!None..t
    BY <1>u, TimedFields, NowInTime
<1>2. b \in Alerts!Timed(t)
    BY <1>1, <1>b, TimedAt
<1>3. w \in SUBSET Alerts!Fps /\ v \in SUBSET Alerts!Fps
    BY <1>2, <1>w, <1>v, TimedFields
<1>4. c \in Alerts!Timed(t)
    BY <1>2, <1>3, <1>c, TimedPut
<1>5. [c EXCEPT !.failed = v] \in Alerts!Timed(t)
    BY <1>3, <1>4, TimedPut
<1>6. Alerts!Deliver(a, f, t, up) = [c EXCEPT !.failed = v]
    <2>1. b.okOnce = a.okOnce /\ b.failed = a.failed
        BY <1>b DEF Alerts!Timed
    <2>2. CASE up
        BY <1>u, <1>b, <1>w, <1>v, <1>c, <2>1, <2>2 DEF Alerts!Deliver
    <2>3. CASE ~up
        <3>1. c = b
            BY <1>2, <1>c, <1>w, <2>3 DEF Alerts!Timed
        <3>2. QED
            BY <1>u, <1>b, <1>v, <2>1, <2>3, <3>1 DEF Alerts!Deliver
    <2>4. QED
        BY <2>2, <2>3
<1>7. QED
    BY <1>5, <1>6

\* finding() gives its row a state.
LEMMA FiledTimed ==
    ASSUME NEW t, NEW a \in Alerts!Timed(t), NEW f \in Alerts!Fps
    PROVE  Alerts!Filed(a, f) \in Alerts!Timed(t)
<1>r. PICK r : r = IF a.row[f] \in {"none", "resolved"} THEN "open" ELSE a.row[f]
    OBVIOUS
<1>1. r \in Alerts!States
    BY <1>r, TimedFields DEF Alerts!States
<1>2. [a EXCEPT !.row[f] = r] \in Alerts!Timed(t)
    BY <1>1, TimedAt
<1>3. QED
    BY <1>2, <1>r DEF Alerts!Filed

\* storm_breaker() stamps the storm with now or ends it.
LEMMA StormBreakerTimed ==
    ASSUME NEW t \in Nat, NEW a \in Alerts!Timed(t), NEW up \in BOOLEAN, NEW nested \in BOOLEAN
    PROVE  Alerts!StormBreaker(a, t, up, nested) \in Alerts!Timed(t)
<1>0. Alerts!Storm \in Alerts!Fps /\ "resolved" \in Alerts!States
    BY DEF Alerts!Fps, Alerts!States
<1>1. CASE Alerts!Storming(a, t) /\ (a.storm = Alerts!None \/ t - a.storm >= StormWindow)
    <2>u. PICK u : u = IF a.storm = Alerts!None THEN t ELSE a.openedAt[Alerts!Storm]
        OBVIOUS
    <2>a0. PICK a0 : a0 = [a EXCEPT !.storm = t]
        OBVIOUS
    <2>a1. PICK a1 : a1 = [a0 EXCEPT !.openedAt[Alerts!Storm] = u]
        OBVIOUS
    <2>b. PICK b : b = Alerts!Filed(a1, Alerts!Storm)
        OBVIOUS
    <2>b1. PICK b1 : b1 = Alerts!RecordPush(b, Alerts!Storm, t, TRUE, FALSE)
        OBVIOUS
    <2>b2. PICK b2 : b2 = [b1 EXCEPT !.pushAt[Alerts!Storm] = t]
        OBVIOUS
    <2>c. PICK c : c = IF b.row[Alerts!Storm] = "open" /\ ~nested THEN b2 ELSE b
        OBVIOUS
    <2>d. PICK d : d = IF b.row[Alerts!Storm] = "open" THEN Alerts!Deliver(c, Alerts!Storm, t, up) ELSE c
        OBVIOUS
    <2>1. Alerts!StormBreaker(a, t, up, nested) = d
        <3>1. a1 = [a EXCEPT !.storm = t, !.openedAt[Alerts!Storm] = IF a.storm = Alerts!None THEN t ELSE @]
            BY <2>u, <2>a0, <2>a1
        <3>2. QED
            BY <1>1, <2>b, <2>b1, <2>b2, <2>c, <2>d, <3>1 DEF Alerts!StormBreaker
    <2>2. u \in Alerts!None..t /\ t \in Alerts!None..t
        BY <1>0, <2>u, TimedFields, NowInTime
    <2>3. a0 \in Alerts!Timed(t)
        BY <2>2, <2>a0, TimedPut
    <2>4. a1 \in Alerts!Timed(t)
        BY <1>0, <2>2, <2>3, <2>a1, TimedAt
    <2>5. b \in Alerts!Timed(t)
        BY <1>0, <2>4, <2>b, FiledTimed
    <2>6. b1 \in Alerts!Timed(t)
        BY <1>0, <2>5, <2>b1, RecordPushTimed
    <2>7. b2 \in Alerts!Timed(t)
        BY <1>0, <2>2, <2>6, <2>b2, TimedAt
    <2>8. c \in Alerts!Timed(t)
        BY <2>5, <2>7, <2>c
    <2>9. d \in Alerts!Timed(t)
        BY <1>0, <2>8, <2>d, DeliverTimed
    <2>10. QED
        BY <2>1, <2>9
<1>2. CASE ~Alerts!Storming(a, t) /\ a.storm # Alerts!None
    <2>b. PICK b : b = [a EXCEPT !.storm = Alerts!None]
        OBVIOUS
    <2>b1. PICK b1 : b1 = [b EXCEPT !.row[Alerts!Storm] = "resolved"]
        OBVIOUS
    <2>1. b \in Alerts!Timed(t)
        BY <2>b, TimedPut, NowInTime
    <2>2. b1 \in Alerts!Timed(t)
        BY <1>0, <2>1, <2>b1, TimedAt
    <2>3. Alerts!RecordPush(b1, Alerts!Storm, t, FALSE, TRUE) \in Alerts!Timed(t)
        BY <1>0, <2>2, RecordPushTimed
    <2>4. QED
        BY <1>2, <2>1, <2>3, <2>b, <2>b1 DEF Alerts!StormBreaker
<1>3. CASE /\ ~(Alerts!Storming(a, t) /\ (a.storm = Alerts!None \/ t - a.storm >= StormWindow))
           /\ ~(~Alerts!Storming(a, t) /\ a.storm # Alerts!None)
    BY <1>3 DEF Alerts!StormBreaker
<1>4. QED
    BY <1>1, <1>2, <1>3

\* recovery_notice() and _maybe_resolve_flap()
LEMMA ResolveFlapTimed ==
    ASSUME NEW t \in Nat, NEW a \in Alerts!Timed(t), NEW up \in BOOLEAN, NEW nested \in BOOLEAN
    PROVE  /\ \A f \in Alerts!Fps : Alerts!RecoveryNotice(a, f, t, up, nested) \in Alerts!Timed(t)
           /\ \A s \in Alerts!Sites : Alerts!MaybeResolveFlap(a, s, t, up, nested) \in Alerts!Timed(t)
<1>1. ASSUME NEW b \in Alerts!Timed(t), NEW f \in Alerts!Fps
      PROVE  Alerts!RecoveryNotice(b, f, t, up, nested) \in Alerts!Timed(t)
    <2>c. PICK c : c = Alerts!RecordPush(b, f, t, TRUE, TRUE)
        OBVIOUS
    <2>1. c \in Alerts!Timed(t)
        BY <2>c, RecordPushTimed
    <2>2. QED
        BY <2>1, <2>c, StormBreakerTimed DEF Alerts!RecoveryNotice
<1>2. ASSUME NEW s \in Alerts!Sites
      PROVE  Alerts!MaybeResolveFlap(a, s, t, up, nested) \in Alerts!Timed(t)
    <2>b. PICK b : b = [a EXCEPT !.row[Alerts!Flap(s)] = "resolved"]
        OBVIOUS
    <2>1. "resolved" \in Alerts!States /\ Alerts!Flap(s) \in Alerts!Fps
        BY FpFacts DEF Alerts!States
    <2>2. b \in Alerts!Timed(t)
        BY <2>1, <2>b, TimedAt
    <2>3. Alerts!RecoveryNotice(b, Alerts!Flap(s), t, up, nested) \in Alerts!Timed(t)
        BY <1>1, <2>1, <2>2
    <2>4. QED
        BY <2>b, <2>3 DEF Alerts!MaybeResolveFlap
<1>3. QED
    BY <1>1, <1>2

\* after_raise() and raise_alert()
LEMMA RaiseTimed ==
    ASSUME NEW t \in Nat, NEW x \in Alerts!Timed(t), NEW f \in Alerts!Fps, NEW up \in BOOLEAN
    PROVE  Alerts!RaiseAlert(x, f, t, up) \in Alerts!Timed(t)
<1>x1. PICK x1 : x1 = Alerts!Filed(x, f)
    OBVIOUS
<1>u. PICK u : u = IF x1.openedAt[f] = Alerts!None THEN t ELSE x1.openedAt[f]
    OBVIOUS
<1>a. PICK a : a = [x1 EXCEPT !.openedAt[f] = u]
    OBVIOUS
<1>b. PICK b : b = IF f[1] \in Alerts!Sites THEN Alerts!MaybeResolveFlap(a, Alerts!SiteOf(f), t, up, TRUE)
                 ELSE a
    OBVIOUS
<1>c. PICK c : c = Alerts!StormBreaker(b, t, up, TRUE)
    OBVIOUS
<1>c1. PICK c1 : c1 = Alerts!RecordPush(c, f, t, TRUE, FALSE)
    OBVIOUS
<1>c2. PICK c2 : c2 = [c1 EXCEPT !.pushAt[f] = t]
    OBVIOUS
<1>d. PICK d : d = IF Alerts!WillPush(c, f, t) THEN c2 ELSE c
    OBVIOUS
<1>e. PICK e : e = Alerts!StormBreaker(d, t, up, TRUE)
    OBVIOUS
<1>r. PICK r : r = IF Alerts!WillPush(c, f, t) /\ Alerts!Severity(f) = "p1"
                 THEN Alerts!Deliver(e, f, t, up) ELSE e
    OBVIOUS
<1>1. x1 \in Alerts!Timed(t)
    BY <1>x1, FiledTimed
<1>2. u \in Alerts!None..t
    BY <1>1, <1>u, TimedFields, NowInTime
<1>3. a \in Alerts!Timed(t)
    BY <1>1, <1>2, <1>a, TimedAt
<1>4. b \in Alerts!Timed(t)
    BY <1>3, <1>b, ResolveFlapTimed DEF Alerts!SiteOf
<1>5. c \in Alerts!Timed(t)
    BY <1>4, <1>c, StormBreakerTimed
<1>6. c1 \in Alerts!Timed(t)
    BY <1>5, <1>c1, RecordPushTimed
<1>7. c2 \in Alerts!Timed(t)
    BY <1>6, <1>c2, TimedAt, NowInTime
<1>8. d \in Alerts!Timed(t)
    BY <1>5, <1>7, <1>d
<1>9. e \in Alerts!Timed(t)
    BY <1>8, <1>e, StormBreakerTimed
<1>10. r \in Alerts!Timed(t)
    BY <1>9, <1>r, DeliverTimed
<1>11. Alerts!AfterRaise(a, f, t, up) = r
    BY <1>b, <1>c, <1>c1, <1>c2, <1>d, <1>e, <1>r DEF Alerts!AfterRaise
<1>12. Alerts!RaiseAlert(x, f, t, up) = Alerts!AfterRaise(a, f, t, up)
    <2>1. a = [x1 EXCEPT !.openedAt[f] = IF @ = Alerts!None THEN t ELSE @]
        BY <1>u, <1>a
    <2>2. QED
        BY <2>1, <1>x1 DEF Alerts!RaiseAlert
<1>13. QED
    BY <1>10, <1>11, <1>12

\* A transition of a site is of now, and its alert is open or closed.
LEMMA MovedTimed ==
    ASSUME NEW t \in Nat, NEW a \in Alerts!Timed(t), NEW s \in Alerts!Sites, NEW o \in BOOLEAN,
           NEW ev \in {"open", "close"}
    PROVE  [a EXCEPT !.isOpen[s] = o, !.moves[s] = Append(@, [at |-> t, ev |-> ev])] \in Alerts!Timed(t)
<1>g. PICK g : g = [a.isOpen EXCEPT ![s] = o]
    OBVIOUS
<1>q. PICK q : q = Append(a.moves[s], [at |-> t, ev |-> ev])
    OBVIOUS
<1>h. PICK h : h = [a.moves EXCEPT ![s] = q]
    OBVIOUS
<1>b. PICK b : b = [a EXCEPT !.isOpen = g]
    OBVIOUS
<1>1. [at |-> t, ev |-> ev] \in [at : 0..t, ev : {"open", "close"}]
    BY NowInTime
<1>2. a.moves[s] \in MovesAt(t)
    BY TimedFields
<1>3. q \in MovesAt(t)
    BY <1>1, <1>2, <1>q DEF MovesAt
<1>4. g \in [Alerts!Sites -> BOOLEAN] /\ h \in [Alerts!Sites -> MovesAt(t)]
    BY <1>3, <1>g, <1>h, TimedFields
<1>5. b \in Alerts!Timed(t)
    BY <1>4, <1>b, TimedPut
<1>6. [b EXCEPT !.moves = h] \in Alerts!Timed(t)
    BY <1>4, <1>5, TimedPut
<1>7. [b EXCEPT !.moves = h]
        = [a EXCEPT !.isOpen[s] = o, !.moves[s] = Append(@, [at |-> t, ev |-> ev])]
    BY <1>b, <1>g, <1>h, <1>q
<1>8. QED
    BY <1>6, <1>7

\* _open()
LEMMA OpenTimed ==
    ASSUME NEW t \in Nat, NEW a \in Alerts!Timed(t), NEW s \in Alerts!Sites, NEW up \in BOOLEAN
    PROVE  Alerts!Open(a, s, t, up) \in Alerts!Timed(t)
<1>x. PICK x : x = [a EXCEPT !.isOpen[s] = TRUE, !.moves[s] = Append(@, [at |-> t, ev |-> "open"])]
    OBVIOUS
<1>b. PICK b : b = [x EXCEPT !.openedAt[Alerts!Down(s)] = t]
    OBVIOUS
<1>c. PICK c : c = Alerts!RaiseAlert(b, Alerts!Down(s), t, up)
    OBVIOUS
<1>1. x \in Alerts!Timed(t)
    BY <1>x, MovedTimed
<1>2. Alerts!Down(s) \in Alerts!Fps /\ Alerts!Aggregate \in Alerts!Fps
    BY FpFacts
<1>3. b \in Alerts!Timed(t)
    BY <1>1, <1>2, <1>b, TimedAt, NowInTime
<1>4. c \in Alerts!Timed(t)
    BY <1>2, <1>3, <1>c, RaiseTimed
<1>5. Alerts!PartnerAggregate(c, t, up) \in Alerts!Timed(t)
    BY <1>2, <1>4, RaiseTimed DEF Alerts!PartnerAggregate
<1>6. b = [a EXCEPT !.isOpen[s] = TRUE, !.openedAt[Alerts!Down(s)] = t,
                    !.moves[s] = Append(@, [at |-> t, ev |-> "open"])]
    BY <1>x, <1>b DEF Alerts!Timed
<1>7. \/ Alerts!Open(a, s, t, up) = a
      \/ Alerts!Open(a, s, t, up) = Alerts!PartnerAggregate(c, t, up)
      \/ Alerts!Open(a, s, t, up) = c
    BY <1>6, <1>c DEF Alerts!Open
<1>8. QED
    BY <1>4, <1>5, <1>7

\* _close()
LEMMA CloseTimed ==
    ASSUME NEW t \in Nat, NEW a \in Alerts!Timed(t), NEW s \in Alerts!Sites, NEW up \in BOOLEAN
    PROVE  Alerts!Close(a, s, t, up) \in Alerts!Timed(t)
<1>x. PICK x : x = [a EXCEPT !.isOpen[s] = FALSE, !.moves[s] = Append(@, [at |-> t, ev |-> "close"])]
    OBVIOUS
<1>r. PICK r : r = IF a.row[Alerts!Down(s)] = "none" THEN "none" ELSE "resolved"
    OBVIOUS
<1>b. PICK b : b = [x EXCEPT !.row[Alerts!Down(s)] = r]
    OBVIOUS
<1>c. PICK c : c = Alerts!FlapCheck(b, s, t, up)
    OBVIOUS
<1>1. x \in Alerts!Timed(t)
    BY <1>x, MovedTimed
<1>2. Alerts!Down(s) \in Alerts!Fps /\ Alerts!Flap(s) \in Alerts!Fps /\ r \in Alerts!States
    BY <1>r, FpFacts DEF Alerts!States
<1>3. b \in Alerts!Timed(t)
    BY <1>1, <1>2, <1>b, TimedAt
<1>4. c \in Alerts!Timed(t)
    BY <1>2, <1>3, <1>c, RaiseTimed DEF Alerts!FlapCheck
<1>5. Alerts!RecoveryNotice(c, Alerts!Down(s), t, up, FALSE) \in Alerts!Timed(t)
    BY <1>2, <1>4, ResolveFlapTimed
<1>6. b = [a EXCEPT !.isOpen[s] = FALSE, !.moves[s] = Append(@, [at |-> t, ev |-> "close"]),
                    !.row[Alerts!Down(s)] = IF @ = "none" THEN "none" ELSE "resolved"]
    BY <1>x, <1>r, <1>b
<1>7. QED
    BY <1>5, <1>6, <1>c DEF Alerts!Close

\* observe(): the counters stay within the thresholds they are compared with.
LEMMA ObserveTimed ==
    ASSUME NEW t \in Nat, NEW a \in Alerts!Timed(t), NEW s \in Alerts!Sites, NEW ok \in BOOLEAN,
           NEW up \in BOOLEAN
    PROVE  Alerts!Observe(a, s, ok, t, up) \in Alerts!Timed(t)
<1>0. OpenAfter \in Nat /\ CloseAfter \in Nat
    BY AlertBounds
<1>b. PICK b : b = Alerts!MaybeResolveFlap(a, s, t, up, FALSE)
    OBVIOUS
<1>c. PICK c : c = IF ok THEN [b EXCEPT !.oks[s] = Alerts!Capped(@, CloseAfter), !.fails[s] = 0]
                   ELSE [b EXCEPT !.fails[s] = Alerts!Capped(@, OpenAfter), !.oks[s] = 0]
    OBVIOUS
<1>1. b \in Alerts!Timed(t)
    BY <1>b, ResolveFlapTimed
<1>2. b.oks[s] \in 0..CloseAfter /\ b.fails[s] \in 0..OpenAfter
    BY <1>1, TimedFields
<1>3. ASSUME NEW u \in 0..CloseAfter, NEW v \in 0..OpenAfter
      PROVE  /\ [b EXCEPT !.oks[s] = u, !.fails[s] = v] \in Alerts!Timed(t)
             /\ [b EXCEPT !.fails[s] = v, !.oks[s] = u] \in Alerts!Timed(t)
    <2>g. PICK g : g = [b.oks EXCEPT ![s] = u]
        OBVIOUS
    <2>h. PICK h : h = [b.fails EXCEPT ![s] = v]
        OBVIOUS
    <2>1. g \in [Alerts!Sites -> 0..CloseAfter] /\ h \in [Alerts!Sites -> 0..OpenAfter]
        BY <1>1, <2>g, <2>h, TimedFields
    <2>2. [b EXCEPT !.oks = g] \in Alerts!Timed(t) /\ [b EXCEPT !.fails = h] \in Alerts!Timed(t)
        BY <1>1, <2>1, TimedPut
    <2>3. /\ [[b EXCEPT !.oks = g] EXCEPT !.fails = h] \in Alerts!Timed(t)
          /\ [[b EXCEPT !.fails = h] EXCEPT !.oks = g] \in Alerts!Timed(t)
        BY <2>1, <2>2, TimedPut
    <2>4. QED
        BY <2>3, <2>g, <2>h
<1>4. /\ Alerts!Capped(b.oks[s], CloseAfter) \in 0..CloseAfter
      /\ Alerts!Capped(b.fails[s], OpenAfter) \in 0..OpenAfter
      /\ 0 \in 0..CloseAfter /\ 0 \in 0..OpenAfter
    BY <1>0, <1>2 DEF Alerts!Capped
<1>5. c \in Alerts!Timed(t)
    <2>u. PICK u : u = Alerts!Capped(b.oks[s], CloseAfter)
        OBVIOUS
    <2>v. PICK v : v = Alerts!Capped(b.fails[s], OpenAfter)
        OBVIOUS
    <2>1. /\ [b EXCEPT !.oks[s] = u, !.fails[s] = 0] \in Alerts!Timed(t)
          /\ [b EXCEPT !.fails[s] = v, !.oks[s] = 0] \in Alerts!Timed(t)
        BY <1>3, <1>4, <2>u, <2>v
    <2>2. QED
        BY <1>c, <2>1, <2>u, <2>v
<1>6. Alerts!Close(c, s, t, up) \in Alerts!Timed(t) /\ Alerts!Open(c, s, t, up) \in Alerts!Timed(t)
    BY <1>5, CloseTimed, OpenTimed
<1>7. \/ Alerts!Observe(a, s, ok, t, up) = c
      \/ Alerts!Observe(a, s, ok, t, up) = Alerts!Close(c, s, t, up)
      \/ Alerts!Observe(a, s, ok, t, up) = Alerts!Open(c, s, t, up)
    BY <1>b, <1>c DEF Alerts!Observe
<1>8. QED
    BY <1>5, <1>6, <1>7

\* What is typed at a time is typed later.
LEMMA LaterTimed ==
    ASSUME NEW t \in Nat, NEW a \in Alerts!Timed(t)
    PROVE  a \in Alerts!Timed(t + 1)
<1>0. Alerts!None..t \subseteq Alerts!None..(t + 1) /\ 0..t \subseteq 0..(t + 1)
    BY DEF Alerts!None
<1>1. ASSUME NEW E, NEW F, E \subseteq F PROVE Seq(E) \subseteq Seq(F)
    <2>1. SUFFICES ASSUME NEW q \in Seq(E) PROVE q \in Seq(F)
        OBVIOUS
    <2>2. q \in [1..Len(q) -> F] /\ Len(q) \in Nat
        BY <1>1
    <2>3. QED
        BY <2>2
<1>2. MovesAt(t) \subseteq MovesAt(t + 1)
    <2>1. [at : 0..t, ev : {"open", "close"}] \subseteq [at : 0..(t + 1), ev : {"open", "close"}]
        BY <1>0
    <2>2. QED
        BY <1>1, <2>1 DEF MovesAt
<1>3. LogAt(t) \subseteq LogAt(t + 1)
    <2>1. [at : 0..t, fp : Alerts!Fps, counts : BOOLEAN, delivered : BOOLEAN, recovery : BOOLEAN]
            \subseteq [at : 0..(t + 1), fp : Alerts!Fps, counts : BOOLEAN, delivered : BOOLEAN,
                       recovery : BOOLEAN]
        BY <1>0
    <2>2. QED
        BY <1>1, <2>1 DEF LogAt
<1>4. /\ a.moves \in [Alerts!Sites -> MovesAt(t + 1)] /\ a.log \in LogAt(t + 1)
      /\ a.openedAt \in [Alerts!Fps -> Alerts!None..(t + 1)]
      /\ a.pushAt \in [Alerts!Fps -> Alerts!None..(t + 1)] /\ a.storm \in Alerts!None..(t + 1)
    <2>1. /\ a.moves \in [Alerts!Sites -> MovesAt(t)] /\ a.log \in LogAt(t)
          /\ a.openedAt \in [Alerts!Fps -> Alerts!None..t]
          /\ a.pushAt \in [Alerts!Fps -> Alerts!None..t] /\ a.storm \in Alerts!None..t
        BY TimedFields
    <2>2. QED
        BY <1>0, <1>2, <1>3, <2>1
<1>5. QED
    BY <1>4 DEF Alerts!Timed, MovesAt, LogAt

\* Forgetting, the hourly repeat and the grouped push of a beat.
LEMMA ForgetTimed ==
    ASSUME NEW t \in Nat, NEW a \in Alerts!Timed(t)
    PROVE  Alerts!Forget(a, t) \in Alerts!Timed(t)
<1>K. PICK K : K = {i \in DOMAIN a.log : t - a.log[i].at <= StormWindow \/ t - a.log[i].at <= GroupWindow}
    OBVIOUS
<1>q. PICK q : q = Alerts!From(a.log, K)
    OBVIOUS
<1>mv. PICK mv : mv = [s \in Alerts!Sites |-> Alerts!From(a.moves[s],
         {i \in DOMAIN a.moves[s] : t - a.moves[s][i].at <= FlapWindow \/ i = Len(a.moves[s])})]
    OBVIOUS
<1>b. PICK b : b = [a EXCEPT !.log = q]
    OBVIOUS
<1>1. q \in LogAt(t)
    <2>1. K \subseteq DOMAIN a.log /\ a.log \in LogAt(t)
        BY <1>K, TimedFields
    <2>2. QED
        BY <1>q, <2>1, FromFacts DEF LogAt
<1>2. ASSUME NEW s \in Alerts!Sites PROVE mv[s] \in MovesAt(t)
    <2>k. PICK k : k = {i \in DOMAIN a.moves[s] : t - a.moves[s][i].at <= FlapWindow \/ i = Len(a.moves[s])}
        OBVIOUS
    <2>1. k \subseteq DOMAIN a.moves[s] /\ a.moves[s] \in MovesAt(t)
        BY <2>k, TimedFields
    <2>2. Alerts!From(a.moves[s], k) \in MovesAt(t)
        BY <2>1, FromFacts DEF MovesAt
    <2>3. QED
        BY <1>mv, <2>k, <2>2
<1>3. mv \in [Alerts!Sites -> MovesAt(t)]
    BY <1>2, <1>mv
<1>4. b \in Alerts!Timed(t)
    BY <1>1, <1>b, TimedPut
<1>5. [b EXCEPT !.moves = mv] \in Alerts!Timed(t)
    BY <1>3, <1>4, TimedPut
<1>6. Alerts!Forget(a, t) = [b EXCEPT !.moves = mv]
    BY <1>K, <1>q, <1>mv, <1>b DEF Alerts!Forget
<1>7. QED
    BY <1>5, <1>6

\* repeat_unacked() stamps now, keeps a clock or gives it back.
LEMMA RepeatTimed ==
    ASSUME NEW t \in Nat, NEW a \in Alerts!Timed(t), NEW up \in BOOLEAN
    PROVE  Alerts!RepeatUnacked(a, t, up) \in Alerts!Timed(t)
<1>D. PICK D : D = {f \in Alerts!OpenP1(a) : Alerts!Due(a, f, t)}
    OBVIOUS
<1>g. PICK g : g = [f \in Alerts!Fps |-> IF f \in D THEN Alerts!Deliver(a, f, t, up).pushAt[f] ELSE a.pushAt[f]]
    OBVIOUS
<1>o. PICK o : o = IF up THEN a.okOnce \cup D ELSE a.okOnce
    OBVIOUS
<1>e. PICK e : e = IF up THEN a.failed \ D ELSE a.failed \cup D
    OBVIOUS
<1>l. PICK l : l = a.mailed \cup {f \in Alerts!OpenP1(a) : t - a.openedAt[f] >= UnackedAfter}
    OBVIOUS
<1>1. Alerts!RepeatUnacked(a, t, up) = [a EXCEPT !.pushAt = g, !.okOnce = o, !.failed = e, !.mailed = l]
    BY <1>D, <1>g, <1>o, <1>e, <1>l DEF Alerts!RepeatUnacked
<1>2. Alerts!OpenP1(a) \subseteq Alerts!Fps /\ D \subseteq Alerts!Fps
    BY <1>D DEF Alerts!OpenP1
<1>3. o \in SUBSET Alerts!Fps /\ e \in SUBSET Alerts!Fps /\ l \in SUBSET Alerts!Fps
    BY <1>2, <1>o, <1>e, <1>l, TimedFields
<1>4. ASSUME NEW f \in Alerts!Fps
      PROVE  Alerts!Deliver(a, f, t, up).pushAt[f] \in Alerts!None..t /\ a.pushAt[f] \in Alerts!None..t
    <2>1. Alerts!Deliver(a, f, t, up) \in Alerts!Timed(t)
        BY DeliverTimed
    <2>2. QED
        BY <2>1, TimedFields
<1>5. g \in [Alerts!Fps -> Alerts!None..t]
    BY <1>4, <1>g
<1>6. [a EXCEPT !.pushAt = g, !.okOnce = o, !.failed = e, !.mailed = l] \in Alerts!Timed(t)
    BY ONLY <1>3, <1>5, a \in Alerts!Timed(t) DEF Alerts!Timed
<1>7. QED
    BY <1>1, <1>6

\* deliver_grouped() marks entries and stamps at most one clock.
LEMMA GroupedTimed ==
    ASSUME NEW t \in Nat, NEW a \in Alerts!Timed(t), NEW up \in BOOLEAN
    PROVE  Alerts!DeliverGrouped(a, t, up) \in Alerts!Timed(t)
<1>g. PICK g : g = Alerts!GroupP2(a, t)
    OBVIOUS
<1>x. PICK x : x = CHOOSE f \in g : TRUE
    OBVIOUS
<1>b. PICK b : b = IF Alerts!Cardinality(g) = 1 THEN Alerts!Deliver(a, x, t, up) ELSE a
    OBVIOUS
<1>1. g \subseteq Alerts!Fps
    <2>1. SUFFICES ASSUME NEW f \in g PROVE f \in Alerts!Fps
        OBVIOUS
    <2>2. PICK i \in DOMAIN a.log : f = a.log[i].fp
        BY <1>g, <2>1 DEF Alerts!GroupP2
    <2>E. PICK E : E = [at : 0..t, fp : Alerts!Fps, counts : BOOLEAN, delivered : BOOLEAN, recovery : BOOLEAN]
        OBVIOUS
    <2>3. a.log \in Seq(E)
        BY <2>E, TimedFields DEF LogAt
    <2>4. a.log[i] \in E
        BY <2>2, <2>3
    <2>5. QED
        BY <2>2, <2>4, <2>E
<1>2. Alerts!Cardinality(g) = 1 => x \in Alerts!Fps
    <2>1. SUFFICES ASSUME Alerts!Cardinality(g) = 1 PROVE g # {}
        BY <1>1, <1>x
    <2>2. QED
        BY <2>1, CountNone
<1>3. b \in Alerts!Timed(t)
    BY <1>2, <1>b, DeliverTimed
<1>4. Alerts!Marked(b, g) \in Alerts!Timed(t)
    <2>q. PICK q : q = b.log
        OBVIOUS
    <2>p. PICK p : p = [i \in DOMAIN q |-> IF q[i].fp \in g THEN [q[i] EXCEPT !.delivered = TRUE] ELSE q[i]]
        OBVIOUS
    <2>E. PICK E : E = [at : 0..t, fp : Alerts!Fps, counts : BOOLEAN, delivered : BOOLEAN, recovery : BOOLEAN]
        OBVIOUS
    <2>1. q \in Seq(E)
        BY <1>3, <2>q, <2>E, TimedFields DEF LogAt
    <2>2. \A e \in E : [e EXCEPT !.delivered = TRUE] \in E
        BY <2>E
    <2>3. DOMAIN q = 1..Len(q) /\ Len(q) \in Nat /\ \A i \in DOMAIN q : q[i] \in E
        BY <2>1
    <2>4. p \in [1..Len(q) -> E]
        BY <2>2, <2>3, <2>p
    <2>5. p \in LogAt(t)
        <3>1. p \in Seq(E)
            BY <2>3, <2>4
        <3>2. QED
            BY <2>E, <3>1 DEF LogAt
    <2>6. [b EXCEPT !.log = p] \in Alerts!Timed(t)
        BY <1>3, <2>5, TimedPut
    <2>7. Alerts!Marked(b, g) = [b EXCEPT !.log = p]
        BY <2>q, <2>p DEF Alerts!Marked
    <2>8. QED
        BY <2>6, <2>7
<1>5. Alerts!DeliverGrouped(a, t, up) = IF up THEN Alerts!Marked(b, g) ELSE b
    BY <1>g, <1>x, <1>b DEF Alerts!DeliverGrouped
<1>6. QED
    BY <1>3, <1>4, <1>5

\* Every step of the engine keeps the types.
LEMMA AlertsTyped ==
    ASSUME Alerts!TypeOK, [Alerts!Next]_alertsState PROVE Alerts!TypeOK'
<1>0. /\ clock \in 0..MaxClock /\ at \in DOMAIN SiteOrder /\ byHand \subseteq Alerts!Fps
      /\ al \in Alerts!Timed(clock) /\ MaxClock \in Nat /\ clock \in Nat
    BY AlertBounds DEF Alerts!TypeOK
<1>1. CASE UNCHANGED alertsState
    BY <1>0, <1>1 DEF alertsState, Alerts!TypeOK
<1>2. ASSUME NEW ok \in BOOLEAN, NEW up \in BOOLEAN, Alerts!ProbeSite(ok, up) PROVE Alerts!TypeOK'
    <2>1. /\ at' = (at % Len(SiteOrder)) + 1 /\ al' = Alerts!Observe(al, SiteOrder[at], ok, clock, up)
          /\ byHand' = {f \in byHand : al'.row[f] = al.row[f]} /\ clock' = clock
        BY <1>2 DEF Alerts!ProbeSite
    <2>2. SiteOrder[at] \in Alerts!Sites
        BY <1>0 DEF Alerts!Sites
    <2>3. al' \in Alerts!Timed(clock)
        BY <1>0, <2>1, <2>2, ObserveTimed
    <2>4. at' \in DOMAIN SiteOrder
        <3>1. Len(SiteOrder) \in Nat \ {0} /\ DOMAIN SiteOrder = 1..Len(SiteOrder)
            BY AlertBounds
        <3>2. PICK k : k = Len(SiteOrder) /\ k \in Nat \ {0}
            BY <3>1
        <3>3. at \in 1..k /\ at' = (at % k) + 1 /\ k \in Nat /\ k > 0
            BY <1>0, <2>1, <3>1, <3>2
        <3>4. at % k \in 0..(k - 1)
            BY <3>3
        <3>5. at' \in 1..k
            BY <3>3, <3>4
        <3>6. QED
            BY <3>1, <3>2, <3>5
    <2>5. byHand' \subseteq Alerts!Fps
        BY <1>0, <2>1
    <2>6. QED
        BY <1>0, <2>1, <2>3, <2>4, <2>5 DEF Alerts!TypeOK
<1>3. ASSUME NEW up \in BOOLEAN, Alerts!Beat(up) PROVE Alerts!TypeOK'
    <2>b. PICK b : b = Alerts!Forget(al, clock + 1)
        OBVIOUS
    <2>c. PICK c : c = Alerts!RepeatUnacked(b, clock + 1, up)
        OBVIOUS
    <2>1. /\ clock' = clock + 1 /\ clock < MaxClock /\ byHand' = byHand /\ at' = at
          /\ al' = Alerts!DeliverGrouped(c, clock + 1, up)
        BY <1>3, <2>b, <2>c DEF Alerts!Beat
    <2>2. clock + 1 \in Nat /\ clock + 1 \in 0..MaxClock
        BY <1>0, <2>1
    <2>3. al \in Alerts!Timed(clock + 1)
        BY <1>0, LaterTimed
    <2>4. b \in Alerts!Timed(clock + 1)
        BY <2>2, <2>3, <2>b, ForgetTimed
    <2>5. c \in Alerts!Timed(clock + 1)
        BY <2>2, <2>4, <2>c, RepeatTimed
    <2>6. al' \in Alerts!Timed(clock + 1)
        BY <2>1, <2>2, <2>5, GroupedTimed
    <2>7. QED
        BY <1>0, <2>1, <2>2, <2>6 DEF Alerts!TypeOK
<1>4. ASSUME NEW f \in Alerts!Fps, NEW to \in {"acked", "resolved", "accepted"}, Alerts!Transition(f, to)
      PROVE  Alerts!TypeOK'
    <2>1. /\ al' = [al EXCEPT !.row[f] = to] /\ byHand' = byHand \cup {f}
          /\ clock' = clock /\ at' = at
        BY <1>4 DEF Alerts!Transition
    <2>2. to \in Alerts!States
        BY DEF Alerts!States
    <2>3. al' \in Alerts!Timed(clock)
        BY <1>0, <2>1, <2>2, TimedAt
    <2>4. QED
        BY <1>0, <2>1, <2>3 DEF Alerts!TypeOK
<1>5. CASE Alerts!Next
    BY <1>2, <1>3, <1>4, <1>5, Zenon DEF Alerts!Next
<1>6. QED
    BY <1>1, <1>5

\* No site has been probed and no page has gone out yet.
LEMMA AlertsInitTyped == ASSUME Alerts!Init PROVE Alerts!TypeOK
<1>1. /\ clock = 0 /\ at = 1 /\ byHand = {}
    BY DEF Alerts!Init
<1>2. /\ 0 \in 0..OpenAfter /\ 0 \in 0..CloseAfter /\ 0 \in 0..MaxClock
      /\ "none" \in Alerts!States /\ Alerts!None \in Alerts!None..0
    BY AlertBounds DEF Alerts!States, Alerts!None
<1>3. <<>> \in MovesAt(0) /\ <<>> \in LogAt(0)
    BY DEF MovesAt, LogAt
<1>4. al \in Alerts!Timed(0)
    BY <1>2, <1>3 DEF Alerts!Init, Alerts!Timed, MovesAt, LogAt
<1>5. QED
    BY <1>1, <1>2, <1>4, AlertBounds DEF Alerts!TypeOK

---------------------------------------------------------------------------
(* The theorem of the alerts *)

AlertsAll == focus = "alerts" => Alerts!AlertInv /\ Alerts!TypeOK

\* The composition keeps the invariant and the types of the alerts.
LEMMA AlertsInvariant == Spec => []AlertsAll
<1>1. Init => AlertsAll
    <2>1. SUFFICES ASSUME Alerts!Init PROVE Alerts!AlertInv
        BY AlertsInitTyped DEF Init, AlertsStarts, AlertsAll
    <2>2. /\ clock = 0 /\ at = 1 /\ hands = 0 /\ byHand = {}
        BY <2>1 DEF Alerts!Init
    <2>3. /\ al.fails = [s \in Alerts!Sites |-> 0] /\ al.isOpen = [s \in Alerts!Sites |-> FALSE]
          /\ al.moves = [s \in Alerts!Sites |-> <<>>] /\ al.log = <<>>
        BY <2>1 DEF Alerts!Init
    <2>4. al \in Alerts!Tables
        <3>1. "none" \in Alerts!States /\ Alerts!None \in Int
            BY DEF Alerts!States, Alerts!None
        <3>2. <<>> \in Seq(Alerts!Move) /\ <<>> \in Seq(Alerts!Push)
            OBVIOUS
        <3>3. QED
            BY <2>1, <3>1, <3>2 DEF Alerts!Init, Alerts!Tables
    <2>5. Alerts!LogInv(al.log)
        BY <2>3 DEF Alerts!LogInv, Alerts!First
    <2>6. OpenAfter > 0 /\ OpenAfter \in Nat /\ FlapCycles > 0 /\ FlapCycles \in Nat
        BY AlertBounds
    <2>7. \A s \in Alerts!Sites : Alerts!SilentOne(al, byHand, s)
        BY <2>3, <2>6 DEF Alerts!SilentOne
    <2>8. \A s \in Alerts!Sites : Alerts!MovesInv(al.moves[s], al.isOpen[s], clock)
        BY <2>3 DEF Alerts!MovesInv
    <2>9. \A s \in Alerts!Sites : Alerts!OpensAt(al, s, clock)
        <3>1. Alerts!Opens(<<>>, clock) = {}
            BY DEF Alerts!Opens
        <3>2. Alerts!Cardinality(Alerts!Opens(<<>>, clock)) = 0
            BY <3>1, CountNone
        <3>3. \A s \in Alerts!Sites : al.moves[s] = <<>>
            BY <2>3
        <3>4. QED
            BY <2>6, <3>2, <3>3 DEF Alerts!OpensAt
    <2>10. at \in DOMAIN SiteOrder
        BY <2>2, AlertBounds
    <2>11. QED
        BY <2>2, <2>4, <2>5, <2>7, <2>8, <2>9, <2>10 DEF Alerts!AlertInv, Alerts!AlertGood
<1>2. AlertsAll /\ [Next]_allVars => AlertsAll'
    BY OneAtATime, AlertsNext, AlertsTyped DEF AlertsAll
<1> QED BY <1>1, <1>2, PTL DEF Spec

\* monitor/antinoise.py: however many sites fail and recover, pages stay within the storm
\* limit and the one that crossed it, a site opens at most FLAP_CYCLES times in a window,
\* and a site that is down is in the inbox unless the operator put its row away; for any
\* sites, tiers, thresholds and windows, whatever the pager answers.
THEOREM AlertsTheorem == Spec => []AlertsHold
<1>1. AlertsAll => AlertsHold
    <2>1. SUFFICES ASSUME Alerts!AlertGood(al, byHand, clock, hands)
                   PROVE  Alerts!StormBounded /\ Alerts!OpensBounded /\ Alerts!NoSilentOutage
        BY DEF AlertsAll, AlertsHold, Alerts!AlertInv
    <2>2. Alerts!StormBounded
        <3>1. Alerts!LogInv(al.log)
            BY <2>1 DEF Alerts!AlertGood
        <3>2. QED
            BY <3>1 DEF Alerts!LogInv, Alerts!First, Alerts!InWindow, Alerts!StormBounded
    <2>3. Alerts!OpensBounded
        BY <2>1 DEF Alerts!AlertGood, Alerts!OpensAt, Alerts!Opens, Alerts!OpensBounded
    <2>4. Alerts!NoSilentOutage
        BY <2>1 DEF Alerts!AlertGood, Alerts!SilentOne, Alerts!NoSilentOutage
    <2>5. QED
        BY <2>2, <2>3, <2>4
<1> QED BY <1>1, AlertsInvariant, PTL

---------------------------------------------------------------------------
(* Types *)

\* For every value of the constants, every component of the background work keeps to its
\* types: no page, probe, cursor, ref or record is ahead of its clock or its counter.
THEOREM BackgroundTyped == Spec => []TypeOK
<1>1. /\ AlertsAll /\ UptimeAll /\ InboxAll /\ AuditAll /\ LiveAll /\ DrillAll /\ CollectAll
      /\ AttackAll /\ ZonesAll
      => TypeOK
  BY ZonesTypes DEF AlertsAll, UptimeAll, InboxAll, AuditAll, LiveAll, DrillAll, CollectAll, AttackAll,
         ZonesAll, TypeOK, Drill!DrillType
<1> QED BY <1>1, AlertsInvariant, UptimeInvariant, InboxInvariant, AuditInvariant, LiveInvariant,
           DrillInvariant, CollectInvariant, AttackInvariant, ZonesInvariant, PTL
=============================================================================
