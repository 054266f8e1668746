-------------------------- MODULE ReconcilerProofs --------------------------
(***************************************************************************)
(* Proofs about Reconciler: its inductive invariant RecInv and what        *)
(* follows from it, for any number of sites, targets and tickers; then how *)
(* CycleCount moves with the window, and FlapInv, which bounds the repairs *)
(* of a site that flaps.                                                   *)
(***************************************************************************)
EXTENDS Reconciler, TLAPS, WellFoundedInduction, FiniteSetTheorems

\* Every initial state satisfies the inductive invariant.
LEMMA InitInv == Init => RecInv
<1>. SUFFICES ASSUME Init PROVE RecInv
  OBVIOUS
<1>1. TypeOK
  <2>1. DataOK
    BY DEF Init, DataOK, States, Wishes
  <2>2. CollectOK
    BY DEF Init, CollectOK, Payloads
  <2>3. TickerOK
    BY DEF Init, TickerOK, PCs, Rows, NoRow, Ops, Wishes
  <2>4. HistoryOK
    BY DEF Init, HistoryOK
  <2>. QED
    BY <2>1, <2>2, <2>3, <2>4 DEF TypeOK
<1>2. PlaceInv
  BY DEF Init, PlaceInv
<1>3. LockInv
  BY DEF Init, LockInv, Locked
<1>4. LateInv
  BY DEF Init, LateInv
<1>5. OffInv
  BY DEF Init, OffInv
<1>. QED
  BY <1>1, <1>2, <1>3, <1>4, <1>5 DEF RecInv

\* Look either is done with the site, or goes for the lock of a site that the
\* pass read as enabled.
LookShape(t) ==
    /\ pc[t] = "look"
    /\ \/ Leave(t, "look")
       \/ /\ Goto(t, "look", "acquire")
          /\ UNCHANGED <<site, row, act>>
          /\ site[t] \in armed[t]
    /\ UNCHANGED <<host, desired, siteVars, lock, deploying, flapVars, collectVars,
                   passVars, histVars, boundVars>>
    /\ failures' \in {failures, [failures EXCEPT ![site[t]] = 0]}

\* Every Look has that shape.
LEMMA LookSteps == ASSUME NEW t \in Tickers, Look(t) PROVE LookShape(t)
<1>. DEFINE r == row[t]
            o == Seen(site[t])
<1>1. /\ pc[t] = "look"
      /\ UNCHANGED <<host, desired, siteVars, lock, deploying, flapVars, collectVars,
                     passVars, histVars, boundVars>>
  BY DEF Look
<1>2. \/ Leave(t, "look") /\ UNCHANGED failures
      \/ Leave(t, "look") /\ ClearFailures(site[t], r, o)
      \/ /\ Goto(t, "look", "acquire") /\ UNCHANGED <<site, row, act, failures>>
         /\ ~Braked(t, site[t], r, o)
  BY DEF Look
<1>3. ClearFailures(site[t], r, o) => failures' \in {failures, [failures EXCEPT ![site[t]] = 0]}
  BY DEF ClearFailures
<1>4. ~Braked(t, site[t], r, o) => site[t] \in armed[t]
  BY DEF Braked
<1>. QED
  BY <1>1, <1>2, <1>3, <1>4 DEF LookShape

\* Recheck gives up or goes on with a plan; the row is read again.
RecheckShape(t) ==
    /\ pc[t] = "recheck"
    /\ \/ Goto(t, "recheck", "release") /\ UNCHANGED act
       \/ /\ Goto(t, "recheck", "guard")
          /\ \E a \in Ops \ {"none"} : act' = [act EXCEPT ![t] = a]
    /\ row' = [row EXCEPT ![t] = ReadRow(site[t])]
    /\ UNCHANGED <<host, desired, siteVars, lock, deploying, flapVars, collectVars,
                   passVars, site, histVars, boundVars>>
    /\ failures' \in {failures, [failures EXCEPT ![site[t]] = 0]}

\* Every Recheck has that shape.
LEMMA RecheckSteps == ASSUME NEW t \in Tickers, Recheck(t) PROVE RecheckShape(t)
<1>. DEFINE r == ReadRow(site[t])
            o == Seen(site[t])
<1>1. /\ pc[t] = "recheck"
      /\ row' = [row EXCEPT ![t] = r]
      /\ UNCHANGED <<host, desired, siteVars, lock, deploying, flapVars, collectVars,
                     passVars, site, histVars, boundVars>>
  BY DEF Recheck
<1>2. \/ Goto(t, "recheck", "release") /\ UNCHANGED <<act, failures>>
      \/ Goto(t, "recheck", "release") /\ UNCHANGED act /\ ClearFailures(site[t], r, o)
      \/ /\ Goto(t, "recheck", "guard") /\ UNCHANGED failures
         /\ Plan(r, o) # "none" /\ act' = [act EXCEPT ![t] = Plan(r, o)]
  BY DEF Recheck
<1>3. ClearFailures(site[t], r, o) => failures' \in {failures, [failures EXCEPT ![site[t]] = 0]}
  BY DEF ClearFailures
<1>4. Plan(r, o) \in Ops
  BY DEF Plan, Ops
<1>. HIDE DEF r, o
<1>5. Plan(r, o) # "none" => Plan(r, o) \in Ops \ {"none"}
  BY <1>4
<1>. QED
  BY <1>1, <1>2, <1>3, <1>5 DEF r, RecheckShape

\* Every step keeps the types of the rows, the locks and the containers.
LEMMA DataStep ==
    ASSUME DataOK, TickerOK, PlaceInv, SiteAssumption, [Next]_vars
    PROVE  DataOK'
<1>. USE DEF rowVars, siteVars, flapVars, collectVars, passVars, tickerVars, histVars, boundVars
<1>1. CASE UNCHANGED vars
  BY <1>1 DEF vars, DataOK
<1>2. ASSUME NEW t \in Tickers, StartPass(t) PROVE DataOK'
  BY <1>2 DEF StartPass, DataOK
<1>3. ASSUME NEW t \in Tickers, EndPass(t) PROVE DataOK'
  BY <1>3 DEF EndPass, DataOK
<1>4. ASSUME NEW t \in Tickers, NEW s \in Sites, Visit(t, s) PROVE DataOK'
  BY <1>4 DEF Visit, DataOK
<1>5. ASSUME NEW t \in Tickers, Look(t) PROVE DataOK'
  <2>1. site[t] \in Sites
    BY <1>5, LookSteps DEF LookShape, PlaceInv, TickerOK
  <2>2. LookShape(t)
    BY <1>5, LookSteps
  <2>3. failures' \in [Sites -> Nat]
    <3>1. CASE failures' = failures
      BY <3>1 DEF DataOK
    <3>2. CASE failures' = [failures EXCEPT ![site[t]] = 0]
      BY <2>1, <3>2 DEF DataOK
    <3>. QED
      BY <2>2, <3>1, <3>2 DEF LookShape
  <2>. QED
    BY <2>2, <2>3 DEF LookShape, DataOK
<1>6. ASSUME NEW t \in Tickers, LookError(t) PROVE DataOK'
  BY <1>6 DEF LookError, DataOK
<1>7. ASSUME NEW t \in Tickers, Acquire(t) PROVE DataOK'
  <2>1. CASE lock[site[t]] /\ Leave(t, "acquire") /\ UNCHANGED lock
    BY <1>7, <2>1 DEF Acquire, Goto, DataOK, TickerOK, PlaceInv
  <2>2. CASE /\ ~lock[site[t]]
             /\ Goto(t, "acquire", "recheck")
             /\ lock' = [lock EXCEPT ![site[t]] = TRUE]
             /\ UNCHANGED <<site, row, act>>
    BY <1>7, <2>2 DEF Acquire, Goto, DataOK, TickerOK, PlaceInv
  <2>. QED
    BY <1>7, <2>1, <2>2 DEF Acquire
<1>8. ASSUME NEW t \in Tickers, Recheck(t) PROVE DataOK'
  <2>1. site[t] \in Sites
    BY <1>8, RecheckSteps DEF RecheckShape, PlaceInv, TickerOK
  <2>2. RecheckShape(t)
    BY <1>8, RecheckSteps
  <2>3. failures' \in [Sites -> Nat]
    <3>1. CASE failures' = failures
      BY <3>1 DEF DataOK
    <3>2. CASE failures' = [failures EXCEPT ![site[t]] = 0]
      BY <2>1, <3>2 DEF DataOK
    <3>. QED
      BY <2>2, <3>1, <3>2 DEF RecheckShape
  <2>. QED
    BY <2>2, <2>3 DEF RecheckShape, DataOK
<1>9. ASSUME NEW t \in Tickers, RecheckError(t) PROVE DataOK'
  BY <1>9 DEF RecheckError, Goto, DataOK, TickerOK, PlaceInv
<1>10. ASSUME NEW t \in Tickers, Guard(t) PROVE DataOK'
  BY <1>10 DEF Guard, DataOK
<1>11. ASSUME NEW t \in Tickers, ActOk(t) PROVE DataOK'
  <2>1. site[t] \in Sites /\ pc[t] = "act"
    BY <1>11 DEF ActOk, Goto, PlaceInv, TickerOK
  <2>2. host' \in [Sites -> States]
    BY <1>11, <2>1 DEF ActOk, EnsureStart, DataOK, States, Up
  <2>3. maint' \in [Sites -> BOOLEAN]
    BY <1>11, <2>1 DEF ActOk, EnsureStart, DataOK
  <2>. QED
    BY <1>11, <2>2, <2>3 DEF ActOk, DataOK
<1>12. ASSUME NEW t \in Tickers, ActFail(t) PROVE DataOK'
  BY <1>12 DEF ActFail, Goto, DataOK, TickerOK, PlaceInv, Rows
<1>13. ASSUME NEW t \in Tickers, Save(t) PROVE DataOK'
  <2>1. site[t] \in Sites /\ act[t] \in {"start", "stop", "restart"} /\ row[t].failures \in Nat
    BY <1>13 DEF Save, Goto, PlaceInv, TickerOK, Ops, Rows
  <2>2. failures' \in [Sites -> Nat]
    <3>1. CASE act[t] = "start"
      BY <1>13, <2>1, <3>1 DEF Save, DataOK
    <3>2. CASE act[t] = "stop"
      BY <1>13, <2>1, <3>2 DEF Save, DataOK
    <3>3. CASE act[t] = "restart"
      BY <1>13, <2>1, <3>3 DEF Save, DataOK
    <3>. QED
      BY <2>1, <3>1, <3>2, <3>3
  <2>3. repairs' \in [Sites -> Seq(Ops)]
    <3>1. Append(repairs[site[t]], act[t]) \in Seq(Ops)
      BY <2>1 DEF DataOK, Ops
    <3>. QED
      BY <1>13, <2>1, <3>1 DEF Save, DataOK
  <2>. QED
    BY <1>13, <2>2, <2>3 DEF Save, DataOK
<1>14. ASSUME NEW t \in Tickers, Release(t) PROVE DataOK'
  <2>1. CASE Leave(t, "release")
    BY <1>14, <2>1 DEF Release, Goto, DataOK, TickerOK, PlaceInv
  <2>2. CASE act[t] # "none" /\ Goto(t, "release", "flap") /\ UNCHANGED <<site, row, act>>
    BY <1>14, <2>2 DEF Release, Goto, DataOK, TickerOK, PlaceInv
  <2>. QED
    BY <1>14, <2>1, <2>2 DEF Release
<1>15. ASSUME NEW t \in Tickers, Flap(t) PROVE DataOK'
  BY <1>15 DEF Flap, Goto, DataOK, TickerOK, PlaceInv
<1>16. ASSUME NEW t \in Tickers, Crash(t) PROVE DataOK'
  BY <1>16 DEF Crash, DataOK
<1>17. ASSUME NEW h \in Ready, CollectRead(h) PROVE DataOK'
  BY <1>17 DEF CollectRead, DataOK
<1>18. ASSUME NEW h \in Ready, CollectSave(h) PROVE DataOK'
  BY <1>18 DEF CollectSave, DataOK
<1>19. ASSUME NEW h \in Ready, PayloadExpires(h) PROVE DataOK'
  BY <1>19 DEF PayloadExpires, DataOK
<1>20. ASSUME NEW s \in Sites, Drift(s) PROVE DataOK'
  BY <1>20 DEF Drift, DataOK, TickerOK, PlaceInv
<1>21. ASSUME NEW s \in Sites, SetDesired(s) PROVE DataOK'
  BY <1>21 DEF SetDesired, DataOK, TickerOK, PlaceInv
<1>22. ASSUME NEW s \in Sites, SwitchEnabled(s) PROVE DataOK'
  BY <1>22 DEF SwitchEnabled, DataOK, TickerOK, PlaceInv
<1>23. ASSUME NEW s \in Sites, MaintenanceEnds(s) PROVE DataOK'
  BY <1>23 DEF MaintenanceEnds, DataOK, TickerOK, PlaceInv
<1>24. ASSUME NEW s \in Sites, Rearm(s) PROVE DataOK'
  BY <1>24 DEF Rearm, DataOK, TickerOK, PlaceInv
<1>25. ASSUME NEW s \in Sites, WindowSlides(s) PROVE DataOK'
  BY <1>25 DEF WindowSlides, DataOK, TickerOK, PlaceInv
<1>26. ASSUME NEW s \in Sites, DeployBegins(s) PROVE DataOK'
  BY <1>26 DEF DeployBegins, DataOK, TickerOK, PlaceInv
<1>27. ASSUME NEW s \in Sites, DeployEnds(s) PROVE DataOK'
  BY <1>27 DEF DeployEnds, DataOK, TickerOK, PlaceInv
<1>. QED
  BY <1>1, <1>2, <1>3, <1>4, <1>5, <1>6, <1>7, <1>8, <1>9, <1>10, <1>11, <1>12, <1>13, <1>14, <1>15, <1>16, <1>17, <1>18, <1>19, <1>20, <1>21, <1>22, <1>23, <1>24, <1>25, <1>26, <1>27
  DEF Next, TickerStep, TickerFault

\* Every step keeps the types of the collect payloads.
LEMMA CollectStep ==
    ASSUME DataOK, CollectOK, TickerOK, PlaceInv, ReadyAssumption, [Next]_vars
    PROVE  CollectOK'
<1>. USE DEF rowVars, siteVars, flapVars, collectVars, passVars, tickerVars, histVars, boundVars
<1>1. CASE UNCHANGED vars
  BY <1>1 DEF vars, CollectOK
<1>2. ASSUME NEW t \in Tickers, StartPass(t) PROVE CollectOK'
  BY <1>2 DEF StartPass, CollectOK
<1>3. ASSUME NEW t \in Tickers, EndPass(t) PROVE CollectOK'
  BY <1>3 DEF EndPass, CollectOK
<1>4. ASSUME NEW t \in Tickers, NEW s \in Sites, Visit(t, s) PROVE CollectOK'
  BY <1>4 DEF Visit, CollectOK
<1>5. ASSUME NEW t \in Tickers, Look(t) PROVE CollectOK'
  BY <1>5 DEF Look, CollectOK
<1>6. ASSUME NEW t \in Tickers, LookError(t) PROVE CollectOK'
  BY <1>6 DEF LookError, CollectOK
<1>7. ASSUME NEW t \in Tickers, Acquire(t) PROVE CollectOK'
  BY <1>7 DEF Acquire, CollectOK
<1>8. ASSUME NEW t \in Tickers, Recheck(t) PROVE CollectOK'
  BY <1>8 DEF Recheck, CollectOK
<1>9. ASSUME NEW t \in Tickers, RecheckError(t) PROVE CollectOK'
  BY <1>9 DEF RecheckError, CollectOK
<1>10. ASSUME NEW t \in Tickers, Guard(t) PROVE CollectOK'
  BY <1>10 DEF Guard, CollectOK
<1>11. ASSUME NEW t \in Tickers, ActOk(t) PROVE CollectOK'
  BY <1>11 DEF ActOk, CollectOK
<1>12. ASSUME NEW t \in Tickers, ActFail(t) PROVE CollectOK'
  BY <1>12 DEF ActFail, CollectOK
<1>13. ASSUME NEW t \in Tickers, Save(t) PROVE CollectOK'
  BY <1>13 DEF Save, Goto, CollectOK, Payloads
<1>14. ASSUME NEW t \in Tickers, Release(t) PROVE CollectOK'
  BY <1>14 DEF Release, CollectOK
<1>15. ASSUME NEW t \in Tickers, Flap(t) PROVE CollectOK'
  BY <1>15 DEF Flap, CollectOK
<1>16. ASSUME NEW t \in Tickers, Crash(t) PROVE CollectOK'
  BY <1>16 DEF Crash, CollectOK
<1>17. ASSUME NEW h \in Ready, CollectRead(h) PROVE CollectOK'
  <2>1. h \in Targets
    BY <1>17, ReadyAssumption DEF Targets
  <2>2. [x \in SitesOn(h) |-> host[x]] \in Payloads(h)
    BY DEF DataOK, Payloads, SitesOn
  <2>3. /\ payload' = payload
        /\ probing' = [probing EXCEPT ![h] = [x \in SitesOn(h) |-> host[x]]]
    BY <1>17 DEF CollectRead
  <2>. QED
    BY <2>1, <2>2, <2>3 DEF CollectOK
<1>18. ASSUME NEW h \in Ready, CollectSave(h) PROVE CollectOK'
  BY <1>18 DEF CollectSave, CollectOK, Payloads
<1>19. ASSUME NEW h \in Ready, PayloadExpires(h) PROVE CollectOK'
  BY <1>19 DEF PayloadExpires, CollectOK, Payloads
<1>20. ASSUME NEW s \in Sites, Drift(s) PROVE CollectOK'
  BY <1>20 DEF Drift, CollectOK
<1>21. ASSUME NEW s \in Sites, SetDesired(s) PROVE CollectOK'
  BY <1>21 DEF SetDesired, CollectOK
<1>22. ASSUME NEW s \in Sites, SwitchEnabled(s) PROVE CollectOK'
  BY <1>22 DEF SwitchEnabled, CollectOK
<1>23. ASSUME NEW s \in Sites, MaintenanceEnds(s) PROVE CollectOK'
  BY <1>23 DEF MaintenanceEnds, CollectOK
<1>24. ASSUME NEW s \in Sites, Rearm(s) PROVE CollectOK'
  BY <1>24 DEF Rearm, CollectOK
<1>25. ASSUME NEW s \in Sites, WindowSlides(s) PROVE CollectOK'
  BY <1>25 DEF WindowSlides, CollectOK
<1>26. ASSUME NEW s \in Sites, DeployBegins(s) PROVE CollectOK'
  BY <1>26 DEF DeployBegins, CollectOK
<1>27. ASSUME NEW s \in Sites, DeployEnds(s) PROVE CollectOK'
  BY <1>27 DEF DeployEnds, CollectOK
<1>. QED
  BY <1>1, <1>2, <1>3, <1>4, <1>5, <1>6, <1>7, <1>8, <1>9, <1>10, <1>11, <1>12, <1>13, <1>14, <1>15, <1>16, <1>17, <1>18, <1>19, <1>20, <1>21, <1>22, <1>23, <1>24, <1>25, <1>26, <1>27
  DEF Next, TickerStep, TickerFault

\* Every step keeps the types of the tickers' local variables.
LEMMA TickerTypeStep ==
    ASSUME DataOK, TickerOK, PlaceInv, [Next]_vars
    PROVE  TickerOK'
<1>. USE DEF rowVars, siteVars, flapVars, collectVars, passVars, tickerVars, histVars, boundVars
<1>1. CASE UNCHANGED vars
  BY <1>1 DEF vars, TickerOK
<1>2. ASSUME NEW t \in Tickers, StartPass(t) PROVE TickerOK'
  BY <1>2, LimitsAssumption DEF StartPass, Goto, TickerOK, PCs
<1>3. ASSUME NEW t \in Tickers, EndPass(t) PROVE TickerOK'
  BY <1>3 DEF EndPass, Goto, TickerOK, PlaceInv, PCs
<1>4. ASSUME NEW t \in Tickers, NEW s \in Sites, Visit(t, s) PROVE TickerOK'
  BY <1>4 DEF Visit, Goto, ReadRow, TickerOK, DataOK, PCs, Rows
<1>5. ASSUME NEW t \in Tickers, Look(t) PROVE TickerOK'
  <2>0. LookShape(t)
    BY <1>5, LookSteps
  <2>1. CASE Leave(t, "look")
    BY <2>0, <2>1 DEF LookShape, Goto, Leave, TickerOK, PlaceInv, PCs, Rows, NoRow, Ops, Wishes
  <2>2. CASE Goto(t, "look", "acquire") /\ UNCHANGED <<site, row, act>> /\ site[t] \in armed[t]
    BY <2>0, <2>2 DEF LookShape, Goto, TickerOK, PlaceInv, PCs
  <2>. QED
    BY <2>0, <2>1, <2>2 DEF LookShape
<1>6. ASSUME NEW t \in Tickers, LookError(t) PROVE TickerOK'
  BY <1>6 DEF LookError, Goto, Leave, TickerOK, PlaceInv, PCs, Rows, NoRow, Ops, Wishes
<1>7. ASSUME NEW t \in Tickers, Acquire(t) PROVE TickerOK'
  <2>1. CASE lock[site[t]] /\ Leave(t, "acquire") /\ UNCHANGED lock
    BY <1>7, <2>1 DEF Acquire, Goto, Leave, TickerOK, PlaceInv, PCs, Rows, NoRow, Ops, Wishes
  <2>2. CASE /\ ~lock[site[t]]
             /\ Goto(t, "acquire", "recheck")
             /\ lock' = [lock EXCEPT ![site[t]] = TRUE]
             /\ UNCHANGED <<site, row, act>>
    BY <1>7, <2>2 DEF Acquire, Goto, TickerOK, PlaceInv, PCs
  <2>. QED
    BY <1>7, <2>1, <2>2 DEF Acquire
<1>8. ASSUME NEW t \in Tickers, Recheck(t) PROVE TickerOK'
  <2>1. site[t] \in Sites
    BY <1>8, RecheckSteps DEF RecheckShape, PlaceInv, TickerOK
  <2>2. ReadRow(site[t]) \in Rows
    BY <2>1 DEF ReadRow, Rows, DataOK
  <2>3. row' \in [Tickers -> Rows]
    BY <1>8, <2>2, RecheckSteps DEF RecheckShape, TickerOK
  <2>4. pc' \in [Tickers -> PCs] /\ act' \in [Tickers -> Ops]
    BY <1>8, RecheckSteps DEF RecheckShape, Goto, TickerOK, PCs
  <2>. QED
    BY <1>8, <2>3, <2>4, RecheckSteps DEF RecheckShape, TickerOK
<1>9. ASSUME NEW t \in Tickers, RecheckError(t) PROVE TickerOK'
  BY <1>9 DEF RecheckError, Goto, TickerOK, PlaceInv, PCs
<1>10. ASSUME NEW t \in Tickers, Guard(t) PROVE TickerOK'
  <2>1. CASE /\ lock[site[t]]
             /\ ~DeployLockHeld(site[t])
             /\ Goto(t, "guard", "act")
             /\ UNCHANGED act
    BY <1>10, <2>1 DEF Guard, Goto, TickerOK, PlaceInv, PCs
  <2>2. CASE Goto(t, "guard", "release") /\ act' = [act EXCEPT ![t] = "none"]
    BY <1>10, <2>2 DEF Guard, Goto, TickerOK, PlaceInv, PCs, Ops
  <2>. QED
    BY <1>10, <2>1, <2>2 DEF Guard
<1>11. ASSUME NEW t \in Tickers, ActOk(t) PROVE TickerOK'
  BY <1>11 DEF ActOk, Goto, TickerOK, PlaceInv, PCs
<1>12. ASSUME NEW t \in Tickers, ActFail(t) PROVE TickerOK'
  BY <1>12 DEF ActFail, Goto, TickerOK, PlaceInv, PCs, Ops
<1>13. ASSUME NEW t \in Tickers, Save(t) PROVE TickerOK'
  BY <1>13 DEF Save, Goto, TickerOK, PlaceInv, PCs
<1>14. ASSUME NEW t \in Tickers, Release(t) PROVE TickerOK'
  <2>1. CASE Leave(t, "release")
    BY <1>14, <2>1 DEF Release, Goto, Leave, TickerOK, PlaceInv, PCs, Rows, NoRow, Wishes
  <2>2. CASE act[t] # "none" /\ Goto(t, "release", "flap") /\ UNCHANGED <<site, row, act>>
    BY <1>14, <2>2 DEF Release, Goto, TickerOK, PlaceInv, PCs
  <2>. QED
    BY <1>14, <2>1, <2>2 DEF Release
<1>15. ASSUME NEW t \in Tickers, Flap(t) PROVE TickerOK'
  <2>1. budget[t] - 1 \in Nat
    BY <1>15 DEF Flap, Leave, Goto, PlaceInv, TickerOK
  <2>. QED
    BY <1>15, <2>1 DEF Flap, Leave, Goto, TickerOK, PCs, Rows, NoRow, Ops, Wishes
<1>16. ASSUME NEW t \in Tickers, Crash(t) PROVE TickerOK'
  BY <1>16 DEF Crash, TickerOK, PlaceInv, PCs, Rows, NoRow, Ops, Wishes
<1>17. ASSUME NEW h \in Ready, CollectRead(h) PROVE TickerOK'
  BY <1>17 DEF CollectRead, TickerOK
<1>18. ASSUME NEW h \in Ready, CollectSave(h) PROVE TickerOK'
  BY <1>18 DEF CollectSave, TickerOK
<1>19. ASSUME NEW h \in Ready, PayloadExpires(h) PROVE TickerOK'
  BY <1>19 DEF PayloadExpires, TickerOK
<1>20. ASSUME NEW s \in Sites, Drift(s) PROVE TickerOK'
  BY <1>20 DEF Drift, TickerOK
<1>21. ASSUME NEW s \in Sites, SetDesired(s) PROVE TickerOK'
  BY <1>21 DEF SetDesired, TickerOK
<1>22. ASSUME NEW s \in Sites, SwitchEnabled(s) PROVE TickerOK'
  BY <1>22 DEF SwitchEnabled, TickerOK
<1>23. ASSUME NEW s \in Sites, MaintenanceEnds(s) PROVE TickerOK'
  BY <1>23 DEF MaintenanceEnds, TickerOK
<1>24. ASSUME NEW s \in Sites, Rearm(s) PROVE TickerOK'
  BY <1>24 DEF Rearm, TickerOK
<1>25. ASSUME NEW s \in Sites, WindowSlides(s) PROVE TickerOK'
  BY <1>25 DEF WindowSlides, TickerOK
<1>26. ASSUME NEW s \in Sites, DeployBegins(s) PROVE TickerOK'
  BY <1>26 DEF DeployBegins, TickerOK
<1>27. ASSUME NEW s \in Sites, DeployEnds(s) PROVE TickerOK'
  BY <1>27 DEF DeployEnds, TickerOK
<1>. QED
  BY <1>1, <1>2, <1>3, <1>4, <1>5, <1>6, <1>7, <1>8, <1>9, <1>10, <1>11, <1>12, <1>13, <1>14, <1>15, <1>16, <1>17, <1>18, <1>19, <1>20, <1>21, <1>22, <1>23, <1>24, <1>25, <1>26, <1>27
  DEF Next, TickerStep, TickerFault

\* Every step keeps the types of the histories and the counters.
LEMMA HistoryStep ==
    ASSUME HistoryOK, TickerOK, PlaceInv, [Next]_vars
    PROVE  HistoryOK'
<1>. USE DEF rowVars, siteVars, flapVars, collectVars, passVars, tickerVars, histVars, boundVars
<1>1. CASE UNCHANGED vars
  BY <1>1 DEF vars, HistoryOK
<1>2. ASSUME NEW t \in Tickers, StartPass(t) PROVE HistoryOK'
  BY <1>2 DEF StartPass, HistoryOK
<1>3. ASSUME NEW t \in Tickers, EndPass(t) PROVE HistoryOK'
  BY <1>3 DEF EndPass, HistoryOK
<1>4. ASSUME NEW t \in Tickers, NEW s \in Sites, Visit(t, s) PROVE HistoryOK'
  BY <1>4 DEF Visit, HistoryOK
<1>5. ASSUME NEW t \in Tickers, Look(t) PROVE HistoryOK'
  BY <1>5 DEF Look, HistoryOK
<1>6. ASSUME NEW t \in Tickers, LookError(t) PROVE HistoryOK'
  BY <1>6 DEF LookError, Goto, Fault, HistoryOK, TickerOK, PlaceInv
<1>7. ASSUME NEW t \in Tickers, Acquire(t) PROVE HistoryOK'
  BY <1>7 DEF Acquire, HistoryOK
<1>8. ASSUME NEW t \in Tickers, Recheck(t) PROVE HistoryOK'
  BY <1>8 DEF Recheck, HistoryOK
<1>9. ASSUME NEW t \in Tickers, RecheckError(t) PROVE HistoryOK'
  BY <1>9 DEF RecheckError, Goto, Fault, HistoryOK, TickerOK, PlaceInv
<1>10. ASSUME NEW t \in Tickers, Guard(t) PROVE HistoryOK'
  BY <1>10 DEF Guard, HistoryOK
<1>11. ASSUME NEW t \in Tickers, ActOk(t) PROVE HistoryOK'
  <2>1. site[t] \in Sites
    BY <1>11 DEF ActOk, Goto, PlaceInv, TickerOK
  <2>2. late' \in [Sites -> [Sites -> Nat]]
    BY <1>11, <2>1 DEF ActOk, HistoryOK
  <2>3. offs' \in [Sites -> [Tickers -> Nat]]
    BY <1>11, <2>1 DEF ActOk, HistoryOK
  <2>4. restarts' \in [Sites -> Nat]
    BY <1>11, <2>1 DEF ActOk, HistoryOK
  <2>. QED
    BY <1>11, <2>2, <2>3, <2>4 DEF ActOk, HistoryOK
<1>12. ASSUME NEW t \in Tickers, ActFail(t) PROVE HistoryOK'
  BY <1>12 DEF ActFail, Goto, Fault, HistoryOK, TickerOK, PlaceInv
<1>13. ASSUME NEW t \in Tickers, Save(t) PROVE HistoryOK'
  <2>1. site[t] \in Sites
    BY <1>13 DEF Save, Goto, PlaceInv, TickerOK
  <2>2. excess' \in {[excess EXCEPT ![site[t]] = @ + 1], [excess EXCEPT ![site[t]] = 0]}
    BY <1>13 DEF Save
  <2>. QED
    BY <1>13, <2>1, <2>2 DEF Save, HistoryOK
<1>14. ASSUME NEW t \in Tickers, Release(t) PROVE HistoryOK'
  BY <1>14 DEF Release, HistoryOK
<1>15. ASSUME NEW t \in Tickers, Flap(t) PROVE HistoryOK'
  BY <1>15 DEF Flap, HistoryOK
<1>16. ASSUME NEW t \in Tickers, Crash(t) PROVE HistoryOK'
  BY <1>16 DEF Crash, HistoryOK, TickerOK, PlaceInv
<1>17. ASSUME NEW h \in Ready, CollectRead(h) PROVE HistoryOK'
  BY <1>17 DEF CollectRead, HistoryOK
<1>18. ASSUME NEW h \in Ready, CollectSave(h) PROVE HistoryOK'
  BY <1>18 DEF CollectSave, HistoryOK
<1>19. ASSUME NEW h \in Ready, PayloadExpires(h) PROVE HistoryOK'
  BY <1>19 DEF PayloadExpires, HistoryOK, TickerOK, PlaceInv
<1>20. ASSUME NEW s \in Sites, Drift(s) PROVE HistoryOK'
  BY <1>20 DEF Drift, Edit, HistoryOK, TickerOK, PlaceInv
<1>21. ASSUME NEW s \in Sites, SetDesired(s) PROVE HistoryOK'
  BY <1>21 DEF SetDesired, Edit, HistoryOK, TickerOK, PlaceInv
<1>22. ASSUME NEW s \in Sites, SwitchEnabled(s) PROVE HistoryOK'
  BY <1>22 DEF SwitchEnabled, Edit, HistoryOK, TickerOK, PlaceInv
<1>23. ASSUME NEW s \in Sites, MaintenanceEnds(s) PROVE HistoryOK'
  BY <1>23 DEF MaintenanceEnds, HistoryOK
<1>24. ASSUME NEW s \in Sites, Rearm(s) PROVE HistoryOK'
  BY <1>24 DEF Rearm, Edit, HistoryOK, TickerOK, PlaceInv
<1>25. ASSUME NEW s \in Sites, WindowSlides(s) PROVE HistoryOK'
  BY <1>25 DEF WindowSlides, HistoryOK, TickerOK, PlaceInv
<1>26. ASSUME NEW s \in Sites, DeployBegins(s) PROVE HistoryOK'
  BY <1>26 DEF DeployBegins, Edit, HistoryOK, TickerOK, PlaceInv
<1>27. ASSUME NEW s \in Sites, DeployEnds(s) PROVE HistoryOK'
  BY <1>27 DEF DeployEnds, HistoryOK
<1>. QED
  BY <1>1, <1>2, <1>3, <1>4, <1>5, <1>6, <1>7, <1>8, <1>9, <1>10, <1>11, <1>12, <1>13, <1>14, <1>15, <1>16, <1>17, <1>18, <1>19, <1>20, <1>21, <1>22, <1>23, <1>24, <1>25, <1>26, <1>27
  DEF Next, TickerStep, TickerFault

\* Every step keeps what the place of a ticker says.
LEMMA PlaceStep ==
    ASSUME TickerOK, DataOK, PlaceInv, SiteAssumption, LimitsAssumption, [Next]_vars
    PROVE  PlaceInv'
<1>. USE DEF rowVars, siteVars, flapVars, collectVars, passVars, tickerVars, histVars, boundVars
<1>1. CASE UNCHANGED vars
  BY <1>1 DEF vars, PlaceInv
<1>2. ASSUME NEW t \in Tickers, StartPass(t) PROVE PlaceInv'
  BY <1>2 DEF StartPass, Goto, PlaceInv, TickerOK
<1>3. ASSUME NEW t \in Tickers, EndPass(t) PROVE PlaceInv'
  BY <1>3 DEF EndPass, Goto, PlaceInv, TickerOK
<1>4. ASSUME NEW t \in Tickers, NEW s \in Sites, Visit(t, s) PROVE PlaceInv'
  BY <1>4 DEF Visit, Goto, PlaceInv, TickerOK
<1>5. ASSUME NEW t \in Tickers, Look(t) PROVE PlaceInv'
  <2>0. LookShape(t)
    BY <1>5, LookSteps
  <2>1. CASE Leave(t, "look")
    BY <2>0, <2>1 DEF LookShape, Goto, Leave, PlaceInv, TickerOK
  <2>2. CASE Goto(t, "look", "acquire") /\ UNCHANGED <<site, row, act>> /\ site[t] \in armed[t]
    BY <2>0, <2>2 DEF LookShape, Goto, PlaceInv, TickerOK
  <2>. QED
    BY <2>0, <2>1, <2>2 DEF LookShape
<1>6. ASSUME NEW t \in Tickers, LookError(t) PROVE PlaceInv'
  BY <1>6 DEF LookError, Goto, Leave, PlaceInv, TickerOK
<1>7. ASSUME NEW t \in Tickers, Acquire(t) PROVE PlaceInv'
  <2>1. CASE lock[site[t]] /\ Leave(t, "acquire") /\ UNCHANGED lock
    BY <1>7, <2>1 DEF Acquire, Goto, Leave, PlaceInv, TickerOK
  <2>2. CASE /\ ~lock[site[t]]
             /\ Goto(t, "acquire", "recheck")
             /\ lock' = [lock EXCEPT ![site[t]] = TRUE]
             /\ UNCHANGED <<site, row, act>>
    BY <1>7, <2>2 DEF Acquire, Goto, PlaceInv, TickerOK
  <2>. QED
    BY <1>7, <2>1, <2>2 DEF Acquire
<1>8. ASSUME NEW t \in Tickers, Recheck(t) PROVE PlaceInv'
  <2>0. RecheckShape(t)
    BY <1>8, RecheckSteps
  <2>1. CASE Goto(t, "recheck", "release") /\ UNCHANGED act
    BY <2>0, <2>1 DEF RecheckShape, Goto, PlaceInv, TickerOK
  <2>2. CASE /\ Goto(t, "recheck", "guard")
             /\ \E a \in Ops \ {"none"} : act' = [act EXCEPT ![t] = a]
    BY <2>0, <2>2 DEF RecheckShape, Goto, PlaceInv, TickerOK
  <2>. QED
    BY <2>0, <2>1, <2>2 DEF RecheckShape
<1>9. ASSUME NEW t \in Tickers, RecheckError(t) PROVE PlaceInv'
  BY <1>9 DEF RecheckError, Goto, PlaceInv, TickerOK
<1>10. ASSUME NEW t \in Tickers, Guard(t) PROVE PlaceInv'
  <2>1. CASE /\ lock[site[t]]
             /\ ~DeployLockHeld(site[t])
             /\ Goto(t, "guard", "act")
             /\ UNCHANGED act
    BY <1>10, <2>1 DEF Guard, Goto, PlaceInv, TickerOK
  <2>2. CASE Goto(t, "guard", "release") /\ act' = [act EXCEPT ![t] = "none"]
    BY <1>10, <2>2 DEF Guard, Goto, PlaceInv, TickerOK
  <2>. QED
    BY <1>10, <2>1, <2>2 DEF Guard
<1>11. ASSUME NEW t \in Tickers, ActOk(t) PROVE PlaceInv'
  BY <1>11 DEF ActOk, Goto, PlaceInv, TickerOK
<1>12. ASSUME NEW t \in Tickers, ActFail(t) PROVE PlaceInv'
  BY <1>12 DEF ActFail, Goto, PlaceInv, TickerOK
<1>13. ASSUME NEW t \in Tickers, Save(t) PROVE PlaceInv'
  BY <1>13 DEF Save, Goto, PlaceInv, TickerOK
<1>14. ASSUME NEW t \in Tickers, Release(t) PROVE PlaceInv'
  <2>1. CASE Leave(t, "release")
    BY <1>14, <2>1 DEF Release, Goto, Leave, PlaceInv, TickerOK
  <2>2. CASE act[t] # "none" /\ Goto(t, "release", "flap") /\ UNCHANGED <<site, row, act>>
    BY <1>14, <2>2 DEF Release, Goto, PlaceInv, TickerOK
  <2>. QED
    BY <1>14, <2>1, <2>2 DEF Release
<1>15. ASSUME NEW t \in Tickers, Flap(t) PROVE PlaceInv'
  BY <1>15 DEF Flap, Goto, Leave, PlaceInv, TickerOK
<1>16. ASSUME NEW t \in Tickers, Crash(t) PROVE PlaceInv'
  BY <1>16 DEF Crash, PlaceInv, TickerOK
<1>17. ASSUME NEW h \in Ready, CollectRead(h) PROVE PlaceInv'
  BY <1>17 DEF CollectRead, PlaceInv
<1>18. ASSUME NEW h \in Ready, CollectSave(h) PROVE PlaceInv'
  BY <1>18 DEF CollectSave, PlaceInv
<1>19. ASSUME NEW h \in Ready, PayloadExpires(h) PROVE PlaceInv'
  BY <1>19 DEF PayloadExpires, PlaceInv
<1>20. ASSUME NEW s \in Sites, Drift(s) PROVE PlaceInv'
  BY <1>20 DEF Drift, PlaceInv
<1>21. ASSUME NEW s \in Sites, SetDesired(s) PROVE PlaceInv'
  BY <1>21 DEF SetDesired, PlaceInv
<1>22. ASSUME NEW s \in Sites, SwitchEnabled(s) PROVE PlaceInv'
  BY <1>22 DEF SwitchEnabled, PlaceInv
<1>23. ASSUME NEW s \in Sites, MaintenanceEnds(s) PROVE PlaceInv'
  BY <1>23 DEF MaintenanceEnds, PlaceInv
<1>24. ASSUME NEW s \in Sites, Rearm(s) PROVE PlaceInv'
  BY <1>24 DEF Rearm, PlaceInv
<1>25. ASSUME NEW s \in Sites, WindowSlides(s) PROVE PlaceInv'
  BY <1>25 DEF WindowSlides, PlaceInv
<1>26. ASSUME NEW s \in Sites, DeployBegins(s) PROVE PlaceInv'
  BY <1>26 DEF DeployBegins, PlaceInv
<1>27. ASSUME NEW s \in Sites, DeployEnds(s) PROVE PlaceInv'
  BY <1>27 DEF DeployEnds, PlaceInv
<1>. QED
  BY <1>1, <1>2, <1>3, <1>4, <1>5, <1>6, <1>7, <1>8, <1>9, <1>10, <1>11, <1>12, <1>13, <1>14, <1>15, <1>16, <1>17, <1>18, <1>19, <1>20, <1>21, <1>22, <1>23, <1>24, <1>25, <1>26, <1>27
  DEF Next, TickerStep, TickerFault

\* Every step keeps the exclusion the reconcile lock gives.
LEMMA LockStep ==
    ASSUME TickerOK, DataOK, PlaceInv, LockInv, SiteAssumption, [Next]_vars
    PROVE  LockInv'
<1>. USE DEF rowVars, siteVars, flapVars, collectVars, passVars, tickerVars, histVars, boundVars
<1>1. CASE UNCHANGED vars
  BY <1>1 DEF vars, LockInv
<1>2. ASSUME NEW t \in Tickers, StartPass(t) PROVE LockInv'
  BY <1>2 DEF StartPass, Goto, LockInv, Locked, TickerOK, DataOK, PlaceInv
<1>3. ASSUME NEW t \in Tickers, EndPass(t) PROVE LockInv'
  BY <1>3 DEF EndPass, Goto, LockInv, Locked, TickerOK, DataOK, PlaceInv
<1>4. ASSUME NEW t \in Tickers, NEW s \in Sites, Visit(t, s) PROVE LockInv'
  BY <1>4 DEF Visit, Goto, LockInv, Locked, TickerOK, DataOK, PlaceInv
<1>5. ASSUME NEW t \in Tickers, Look(t) PROVE LockInv'
  <2>0. LookShape(t)
    BY <1>5, LookSteps
  <2>1. CASE Leave(t, "look")
    BY <2>0, <2>1 DEF LookShape, Goto, Leave, LockInv, Locked, TickerOK, DataOK, PlaceInv
  <2>2. CASE Goto(t, "look", "acquire") /\ UNCHANGED <<site, row, act>> /\ site[t] \in armed[t]
    BY <2>0, <2>2 DEF LookShape, Goto, LockInv, Locked, TickerOK, DataOK, PlaceInv
  <2>. QED
    BY <2>0, <2>1, <2>2 DEF LookShape
<1>6. ASSUME NEW t \in Tickers, LookError(t) PROVE LockInv'
  BY <1>6 DEF LookError, Goto, Leave, LockInv, Locked, TickerOK, DataOK, PlaceInv
<1>7. ASSUME NEW t \in Tickers, Acquire(t) PROVE LockInv'
  <2>1. CASE lock[site[t]] /\ Leave(t, "acquire") /\ UNCHANGED lock
    BY <1>7, <2>1 DEF Acquire, Goto, Leave, LockInv, Locked, TickerOK, DataOK, PlaceInv
  <2>2. CASE /\ ~lock[site[t]]
             /\ Goto(t, "acquire", "recheck")
             /\ lock' = [lock EXCEPT ![site[t]] = TRUE]
             /\ UNCHANGED <<site, row, act>>
    BY <1>7, <2>2 DEF Acquire, Goto, LockInv, Locked, TickerOK, DataOK, PlaceInv
  <2>. QED
    BY <1>7, <2>1, <2>2 DEF Acquire
<1>8. ASSUME NEW t \in Tickers, Recheck(t) PROVE LockInv'
  <2>0. RecheckShape(t)
    BY <1>8, RecheckSteps
  <2>1. CASE Goto(t, "recheck", "release") /\ UNCHANGED act
    BY <2>0, <2>1 DEF RecheckShape, Goto, LockInv, Locked, TickerOK, DataOK, PlaceInv
  <2>2. CASE /\ Goto(t, "recheck", "guard")
             /\ \E a \in Ops \ {"none"} : act' = [act EXCEPT ![t] = a]
    BY <2>0, <2>2 DEF RecheckShape, Goto, LockInv, Locked, TickerOK, DataOK, PlaceInv
  <2>. QED
    BY <2>0, <2>1, <2>2 DEF RecheckShape
<1>9. ASSUME NEW t \in Tickers, RecheckError(t) PROVE LockInv'
  BY <1>9 DEF RecheckError, Goto, LockInv, Locked, TickerOK, DataOK, PlaceInv
<1>10. ASSUME NEW t \in Tickers, Guard(t) PROVE LockInv'
  <2>1. CASE /\ lock[site[t]]
             /\ ~DeployLockHeld(site[t])
             /\ Goto(t, "guard", "act")
             /\ UNCHANGED act
    BY <1>10, <2>1 DEF Guard, Goto, LockInv, Locked, TickerOK, DataOK, PlaceInv
  <2>2. CASE Goto(t, "guard", "release") /\ act' = [act EXCEPT ![t] = "none"]
    BY <1>10, <2>2 DEF Guard, Goto, LockInv, Locked, TickerOK, DataOK, PlaceInv
  <2>. QED
    BY <1>10, <2>1, <2>2 DEF Guard
<1>11. ASSUME NEW t \in Tickers, ActOk(t) PROVE LockInv'
  BY <1>11 DEF ActOk, Goto, LockInv, Locked, TickerOK, DataOK, PlaceInv
<1>12. ASSUME NEW t \in Tickers, ActFail(t) PROVE LockInv'
  BY <1>12 DEF ActFail, Goto, LockInv, Locked, TickerOK, DataOK, PlaceInv
<1>13. ASSUME NEW t \in Tickers, Save(t) PROVE LockInv'
  BY <1>13 DEF Save, Goto, LockInv, Locked, TickerOK, DataOK, PlaceInv
<1>14. ASSUME NEW t \in Tickers, Release(t) PROVE LockInv'
  <2>1. CASE Leave(t, "release")
    BY <1>14, <2>1 DEF Release, Goto, Leave, LockInv, Locked, TickerOK, DataOK, PlaceInv
  <2>2. CASE act[t] # "none" /\ Goto(t, "release", "flap") /\ UNCHANGED <<site, row, act>>
    BY <1>14, <2>2 DEF Release, Goto, LockInv, Locked, TickerOK, DataOK, PlaceInv
  <2>. QED
    BY <1>14, <2>1, <2>2 DEF Release
<1>15. ASSUME NEW t \in Tickers, Flap(t) PROVE LockInv'
  BY <1>15 DEF Flap, Goto, Leave, LockInv, Locked, TickerOK, DataOK, PlaceInv
<1>16. ASSUME NEW t \in Tickers, Crash(t) PROVE LockInv'
  BY <1>16 DEF Crash, LockInv, Locked, TickerOK, DataOK, PlaceInv
<1>17. ASSUME NEW h \in Ready, CollectRead(h) PROVE LockInv'
  BY <1>17 DEF CollectRead, LockInv
<1>18. ASSUME NEW h \in Ready, CollectSave(h) PROVE LockInv'
  BY <1>18 DEF CollectSave, LockInv
<1>19. ASSUME NEW h \in Ready, PayloadExpires(h) PROVE LockInv'
  BY <1>19 DEF PayloadExpires, LockInv
<1>20. ASSUME NEW s \in Sites, Drift(s) PROVE LockInv'
  BY <1>20 DEF Drift, LockInv
<1>21. ASSUME NEW s \in Sites, SetDesired(s) PROVE LockInv'
  BY <1>21 DEF SetDesired, LockInv
<1>22. ASSUME NEW s \in Sites, SwitchEnabled(s) PROVE LockInv'
  BY <1>22 DEF SwitchEnabled, LockInv
<1>23. ASSUME NEW s \in Sites, MaintenanceEnds(s) PROVE LockInv'
  BY <1>23 DEF MaintenanceEnds, LockInv
<1>24. ASSUME NEW s \in Sites, Rearm(s) PROVE LockInv'
  BY <1>24 DEF Rearm, LockInv
<1>25. ASSUME NEW s \in Sites, WindowSlides(s) PROVE LockInv'
  BY <1>25 DEF WindowSlides, LockInv
<1>26. ASSUME NEW s \in Sites, DeployBegins(s) PROVE LockInv'
  BY <1>26 DEF DeployBegins, LockInv
<1>27. ASSUME NEW s \in Sites, DeployEnds(s) PROVE LockInv'
  BY <1>27 DEF DeployEnds, LockInv
<1>. QED
  BY <1>1, <1>2, <1>3, <1>4, <1>5, <1>6, <1>7, <1>8, <1>9, <1>10, <1>11, <1>12, <1>13, <1>14, <1>15, <1>16, <1>17, <1>18, <1>19, <1>20, <1>21, <1>22, <1>23, <1>24, <1>25, <1>26, <1>27
  DEF Next, TickerStep, TickerFault

\* Every step keeps the bound on repairs inside a deployment.
LEMMA LateStep ==
    ASSUME TypeOK, PlaceInv, LockInv, LateInv, SiteAssumption, [Next]_vars
    PROVE  LateInv'
<1>. USE DEF rowVars, siteVars, flapVars, collectVars, passVars, tickerVars, histVars, boundVars
<1>1. CASE UNCHANGED vars
  BY <1>1 DEF vars, LateInv
<1>2. ASSUME NEW t \in Tickers, StartPass(t) PROVE LateInv'
  BY <1>2 DEF StartPass, Goto, LateInv, TypeOK, TickerOK, DataOK, HistoryOK, PlaceInv
<1>3. ASSUME NEW t \in Tickers, EndPass(t) PROVE LateInv'
  BY <1>3 DEF EndPass, Goto, LateInv, TypeOK, TickerOK, DataOK, HistoryOK, PlaceInv
<1>4. ASSUME NEW t \in Tickers, NEW s \in Sites, Visit(t, s) PROVE LateInv'
  BY <1>4 DEF Visit, Goto, LateInv, TypeOK, TickerOK, DataOK, HistoryOK, PlaceInv
<1>5. ASSUME NEW t \in Tickers, Look(t) PROVE LateInv'
  <2>0. LookShape(t)
    BY <1>5, LookSteps
  <2>1. CASE Leave(t, "look")
    BY <2>0, <2>1
    DEF LookShape, Goto, Leave, LateInv, TypeOK, TickerOK, DataOK, HistoryOK, PlaceInv
  <2>2. CASE Goto(t, "look", "acquire") /\ UNCHANGED <<site, row, act>> /\ site[t] \in armed[t]
    BY <2>0, <2>2 DEF LookShape, Goto, LateInv, TypeOK, TickerOK, DataOK, HistoryOK, PlaceInv
  <2>. QED
    BY <2>0, <2>1, <2>2 DEF LookShape
<1>6. ASSUME NEW t \in Tickers, LookError(t) PROVE LateInv'
  BY <1>6 DEF LookError, Goto, Leave, LateInv, TypeOK, TickerOK, DataOK, HistoryOK, PlaceInv
<1>7. ASSUME NEW t \in Tickers, Acquire(t) PROVE LateInv'
  <2>1. CASE lock[site[t]] /\ Leave(t, "acquire") /\ UNCHANGED lock
    BY <1>7, <2>1
    DEF Acquire, Goto, Leave, LateInv, TypeOK, TickerOK, DataOK, HistoryOK, PlaceInv
  <2>2. CASE /\ ~lock[site[t]]
             /\ Goto(t, "acquire", "recheck")
             /\ lock' = [lock EXCEPT ![site[t]] = TRUE]
             /\ UNCHANGED <<site, row, act>>
    BY <1>7, <2>2 DEF Acquire, Goto, LateInv, TypeOK, TickerOK, DataOK, HistoryOK, PlaceInv
  <2>. QED
    BY <1>7, <2>1, <2>2 DEF Acquire
<1>8. ASSUME NEW t \in Tickers, Recheck(t) PROVE LateInv'
  <2>0. RecheckShape(t)
    BY <1>8, RecheckSteps
  <2>1. CASE Goto(t, "recheck", "release") /\ UNCHANGED act
    BY <2>0, <2>1 DEF RecheckShape, Goto, LateInv, TypeOK, TickerOK, DataOK, HistoryOK, PlaceInv
  <2>2. CASE /\ Goto(t, "recheck", "guard")
             /\ \E a \in Ops \ {"none"} : act' = [act EXCEPT ![t] = a]
    BY <2>0, <2>2 DEF RecheckShape, Goto, LateInv, TypeOK, TickerOK, DataOK, HistoryOK, PlaceInv
  <2>. QED
    BY <2>0, <2>1, <2>2 DEF RecheckShape
<1>9. ASSUME NEW t \in Tickers, RecheckError(t) PROVE LateInv'
  BY <1>9 DEF RecheckError, Goto, LateInv, TypeOK, TickerOK, DataOK, HistoryOK, PlaceInv
<1>10. ASSUME NEW t \in Tickers, Guard(t) PROVE LateInv'
  <2>1. CASE /\ lock[site[t]]
             /\ ~DeployLockHeld(site[t])
             /\ Goto(t, "guard", "act")
             /\ UNCHANGED act
    BY <1>10, <2>1
    DEF Guard, Goto, DeployLockHeld, LateInv, TypeOK, TickerOK, DataOK, HistoryOK, PlaceInv
  <2>2. CASE Goto(t, "guard", "release") /\ act' = [act EXCEPT ![t] = "none"]
    BY <1>10, <2>2
    DEF Guard, Goto, DeployLockHeld, LateInv, TypeOK, TickerOK, DataOK, HistoryOK, PlaceInv
  <2>. QED
    BY <1>10, <2>1, <2>2 DEF Guard
<1>11. ASSUME NEW t \in Tickers, ActOk(t) PROVE LateInv'
  <2>. DEFINE s == site[t]
  <2>1. s \in Sites /\ pc[t] = "act" /\ pc' = [pc EXCEPT ![t] = "save"]
    BY <1>11 DEF ActOk, Goto, TypeOK, TickerOK, PlaceInv
  <2>2. late' = [d \in Sites |->
             IF d \in deploying /\ TargetOf[d] = TargetOf[s]
             THEN [late[d] EXCEPT ![s] = @ + 1] ELSE late[d]]
    BY <1>11 DEF ActOk
  <2>3. UNCHANGED <<site, deploying>>
    BY <1>11 DEF ActOk
  <2>4. ASSUME NEW d \in Sites, NEW x \in Sites PROVE late'[d][x] <= 1
    <3>1. late[d] \in [Sites -> Nat] /\ late[d][x] <= 1
      BY DEF TypeOK, HistoryOK, LateInv
    <3>2. CASE d \in deploying /\ TargetOf[d] = TargetOf[s] /\ x = s
      BY <2>1, <2>2, <3>1, <3>2 DEF LateInv
    <3>3. CASE ~(d \in deploying /\ TargetOf[d] = TargetOf[s] /\ x = s)
      BY <2>1, <2>2, <3>1, <3>3
    <3>. QED
      BY <3>2, <3>3
  <2>5. ASSUME NEW u \in Tickers, NEW d \in Sites,
               pc'[u] = "act", d \in deploying', TargetOf[d] = TargetOf[site'[u]]
        PROVE  late'[d][site'[u]] = 0
    <3>1. u # t /\ pc[u] = "act" /\ site'[u] = site[u] /\ d \in deploying
      BY <2>1, <2>3, <2>5 DEF TypeOK, TickerOK
    <3>2. site[u] # s
      BY <3>1, <2>1 DEF LockInv, Locked
    <3>3. site[u] \in Sites /\ late[d] \in [Sites -> Nat] /\ late[d][site[u]] = 0
      BY <2>5, <3>1 DEF TypeOK, TickerOK, PlaceInv, LateInv, HistoryOK
    <3>. QED
      BY <2>1, <2>2, <3>1, <3>2, <3>3
  <2>. QED
    BY <2>4, <2>5 DEF LateInv
<1>12. ASSUME NEW t \in Tickers, ActFail(t) PROVE LateInv'
  BY <1>12 DEF ActFail, Goto, LateInv, TypeOK, TickerOK, DataOK, HistoryOK, PlaceInv
<1>13. ASSUME NEW t \in Tickers, Save(t) PROVE LateInv'
  BY <1>13 DEF Save, Goto, LateInv, TypeOK, TickerOK, DataOK, HistoryOK, PlaceInv
<1>14. ASSUME NEW t \in Tickers, Release(t) PROVE LateInv'
  <2>1. CASE Leave(t, "release")
    BY <1>14, <2>1
    DEF Release, Goto, Leave, LateInv, TypeOK, TickerOK, DataOK, HistoryOK, PlaceInv
  <2>2. CASE act[t] # "none" /\ Goto(t, "release", "flap") /\ UNCHANGED <<site, row, act>>
    BY <1>14, <2>2 DEF Release, Goto, LateInv, TypeOK, TickerOK, DataOK, HistoryOK, PlaceInv
  <2>. QED
    BY <1>14, <2>1, <2>2 DEF Release
<1>15. ASSUME NEW t \in Tickers, Flap(t) PROVE LateInv'
  BY <1>15 DEF Flap, Goto, Leave, LateInv, TypeOK, TickerOK, DataOK, HistoryOK, PlaceInv
<1>16. ASSUME NEW t \in Tickers, Crash(t) PROVE LateInv'
  BY <1>16 DEF Crash, LateInv, TypeOK, TickerOK, DataOK, HistoryOK, PlaceInv
<1>17. ASSUME NEW h \in Ready, CollectRead(h) PROVE LateInv'
  BY <1>17 DEF CollectRead, LateInv
<1>18. ASSUME NEW h \in Ready, CollectSave(h) PROVE LateInv'
  BY <1>18 DEF CollectSave, LateInv
<1>19. ASSUME NEW h \in Ready, PayloadExpires(h) PROVE LateInv'
  BY <1>19 DEF PayloadExpires, LateInv
<1>20. ASSUME NEW s \in Sites, Drift(s) PROVE LateInv'
  BY <1>20 DEF Drift, LateInv
<1>21. ASSUME NEW s \in Sites, SetDesired(s) PROVE LateInv'
  BY <1>21 DEF SetDesired, LateInv
<1>22. ASSUME NEW s \in Sites, SwitchEnabled(s) PROVE LateInv'
  BY <1>22 DEF SwitchEnabled, LateInv
<1>23. ASSUME NEW s \in Sites, MaintenanceEnds(s) PROVE LateInv'
  BY <1>23 DEF MaintenanceEnds, LateInv
<1>24. ASSUME NEW s \in Sites, Rearm(s) PROVE LateInv'
  BY <1>24 DEF Rearm, LateInv
<1>25. ASSUME NEW s \in Sites, WindowSlides(s) PROVE LateInv'
  BY <1>25 DEF WindowSlides, LateInv
<1>26. ASSUME NEW s \in Sites, DeployBegins(s) PROVE LateInv'
  BY <1>26 DEF DeployBegins, LateInv, TypeOK, TickerOK, DataOK, HistoryOK, PlaceInv
<1>27. ASSUME NEW s \in Sites, DeployEnds(s) PROVE LateInv'
  BY <1>27 DEF DeployEnds, LateInv, TypeOK, TickerOK, DataOK, HistoryOK, PlaceInv
<1>. QED
  BY <1>1, <1>2, <1>3, <1>4, <1>5, <1>6, <1>7, <1>8, <1>9, <1>10, <1>11, <1>12, <1>13, <1>14, <1>15, <1>16, <1>17, <1>18, <1>19, <1>20, <1>21, <1>22, <1>23, <1>24, <1>25, <1>26, <1>27
  DEF Next, TickerStep, TickerFault

\* Every step keeps the bound on repairs of a site that was switched off.
LEMMA OffStep ==
    ASSUME TypeOK, PlaceInv, OffInv, SiteAssumption, [Next]_vars
    PROVE  OffInv'
<1>. USE DEF rowVars, siteVars, flapVars, collectVars, passVars, tickerVars, histVars, boundVars
<1>1. CASE UNCHANGED vars
  BY <1>1 DEF vars, OffInv
<1>2. ASSUME NEW t \in Tickers, StartPass(t) PROVE OffInv'
  BY <1>2 DEF StartPass, Goto, OffInv, TypeOK, TickerOK, DataOK, HistoryOK, PlaceInv
<1>3. ASSUME NEW t \in Tickers, EndPass(t) PROVE OffInv'
  BY <1>3 DEF EndPass, Goto, OffInv, TypeOK, TickerOK, DataOK, HistoryOK, PlaceInv
<1>4. ASSUME NEW t \in Tickers, NEW s \in Sites, Visit(t, s) PROVE OffInv'
  BY <1>4 DEF Visit, Goto, OffInv, TypeOK, TickerOK, DataOK, HistoryOK, PlaceInv
<1>5. ASSUME NEW t \in Tickers, Look(t) PROVE OffInv'
  <2>0. LookShape(t)
    BY <1>5, LookSteps
  <2>1. CASE Leave(t, "look")
    BY <2>0, <2>1
    DEF LookShape, Goto, Leave, OffInv, TypeOK, TickerOK, DataOK, HistoryOK, PlaceInv
  <2>2. CASE Goto(t, "look", "acquire") /\ UNCHANGED <<site, row, act>> /\ site[t] \in armed[t]
    BY <2>0, <2>2 DEF LookShape, Goto, OffInv, TypeOK, TickerOK, DataOK, HistoryOK, PlaceInv
  <2>. QED
    BY <2>0, <2>1, <2>2 DEF LookShape
<1>6. ASSUME NEW t \in Tickers, LookError(t) PROVE OffInv'
  BY <1>6 DEF LookError, Goto, Leave, OffInv, TypeOK, TickerOK, DataOK, HistoryOK, PlaceInv
<1>7. ASSUME NEW t \in Tickers, Acquire(t) PROVE OffInv'
  <2>1. CASE lock[site[t]] /\ Leave(t, "acquire") /\ UNCHANGED lock
    BY <1>7, <2>1
    DEF Acquire, Goto, Leave, OffInv, TypeOK, TickerOK, DataOK, HistoryOK, PlaceInv
  <2>2. CASE /\ ~lock[site[t]]
             /\ Goto(t, "acquire", "recheck")
             /\ lock' = [lock EXCEPT ![site[t]] = TRUE]
             /\ UNCHANGED <<site, row, act>>
    BY <1>7, <2>2 DEF Acquire, Goto, OffInv, TypeOK, TickerOK, DataOK, HistoryOK, PlaceInv
  <2>. QED
    BY <1>7, <2>1, <2>2 DEF Acquire
<1>8. ASSUME NEW t \in Tickers, Recheck(t) PROVE OffInv'
  <2>0. RecheckShape(t)
    BY <1>8, RecheckSteps
  <2>1. CASE Goto(t, "recheck", "release") /\ UNCHANGED act
    BY <2>0, <2>1 DEF RecheckShape, Goto, OffInv, TypeOK, TickerOK, DataOK, HistoryOK, PlaceInv
  <2>2. CASE /\ Goto(t, "recheck", "guard")
             /\ \E a \in Ops \ {"none"} : act' = [act EXCEPT ![t] = a]
    BY <2>0, <2>2 DEF RecheckShape, Goto, OffInv, TypeOK, TickerOK, DataOK, HistoryOK, PlaceInv
  <2>. QED
    BY <2>0, <2>1, <2>2 DEF RecheckShape
<1>9. ASSUME NEW t \in Tickers, RecheckError(t) PROVE OffInv'
  BY <1>9 DEF RecheckError, Goto, OffInv, TypeOK, TickerOK, DataOK, HistoryOK, PlaceInv
<1>10. ASSUME NEW t \in Tickers, Guard(t) PROVE OffInv'
  <2>1. CASE /\ lock[site[t]]
             /\ ~DeployLockHeld(site[t])
             /\ Goto(t, "guard", "act")
             /\ UNCHANGED act
    BY <1>10, <2>1 DEF Guard, Goto, OffInv, TypeOK, TickerOK, DataOK, HistoryOK, PlaceInv
  <2>2. CASE Goto(t, "guard", "release") /\ act' = [act EXCEPT ![t] = "none"]
    BY <1>10, <2>2 DEF Guard, Goto, OffInv, TypeOK, TickerOK, DataOK, HistoryOK, PlaceInv
  <2>. QED
    BY <1>10, <2>1, <2>2 DEF Guard
<1>11. ASSUME NEW t \in Tickers, ActOk(t) PROVE OffInv'
  <2>1. /\ site[t] \in Sites /\ site[t] \in armed[t] /\ site[t] \notin todo[t] /\ pc[t] = "act"
        /\ pc' = [pc EXCEPT ![t] = "save"] /\ UNCHANGED <<site, enabled, armed, todo>>
    BY <1>11 DEF ActOk, Goto, TypeOK, TickerOK, PlaceInv
  <2>2. offs[site[t]][t] = 0
    <3>1. offs[site[t]][t] \in Nat
      BY <2>1 DEF TypeOK, HistoryOK
    <3>2. ~(offs[site[t]][t] > 0)
      BY <2>1 DEF OffInv
    <3>. QED
      BY <3>1, <3>2
  <2>3. offs' = IF enabled[site[t]] THEN offs ELSE [offs EXCEPT ![site[t]][t] = @ + 1]
    BY <1>11 DEF ActOk
  <2>4. CASE enabled[site[t]]
    BY <2>1, <2>3, <2>4 DEF OffInv, TypeOK, TickerOK, HistoryOK
  <2>5. CASE ~enabled[site[t]]
    <3>1. ASSUME NEW x \in Sites, NEW u \in Tickers
          PROVE  offs'[x][u] = IF x = site[t] /\ u = t THEN 1 ELSE offs[x][u]
      BY <2>1, <2>2, <2>3, <2>5 DEF TypeOK, HistoryOK
    <3>. QED
      BY <2>1, <2>5, <3>1 DEF OffInv, TypeOK, TickerOK, HistoryOK
  <2>. QED
    BY <2>4, <2>5
<1>12. ASSUME NEW t \in Tickers, ActFail(t) PROVE OffInv'
  BY <1>12 DEF ActFail, Goto, OffInv, TypeOK, TickerOK, DataOK, HistoryOK, PlaceInv
<1>13. ASSUME NEW t \in Tickers, Save(t) PROVE OffInv'
  BY <1>13 DEF Save, Goto, OffInv, TypeOK, TickerOK, DataOK, HistoryOK, PlaceInv
<1>14. ASSUME NEW t \in Tickers, Release(t) PROVE OffInv'
  <2>1. CASE Leave(t, "release")
    BY <1>14, <2>1
    DEF Release, Goto, Leave, OffInv, TypeOK, TickerOK, DataOK, HistoryOK, PlaceInv
  <2>2. CASE act[t] # "none" /\ Goto(t, "release", "flap") /\ UNCHANGED <<site, row, act>>
    BY <1>14, <2>2 DEF Release, Goto, OffInv, TypeOK, TickerOK, DataOK, HistoryOK, PlaceInv
  <2>. QED
    BY <1>14, <2>1, <2>2 DEF Release
<1>15. ASSUME NEW t \in Tickers, Flap(t) PROVE OffInv'
  BY <1>15 DEF Flap, Goto, Leave, OffInv, TypeOK, TickerOK, DataOK, HistoryOK, PlaceInv
<1>16. ASSUME NEW t \in Tickers, Crash(t) PROVE OffInv'
  BY <1>16 DEF Crash, OffInv, TypeOK, TickerOK, DataOK, HistoryOK, PlaceInv
<1>17. ASSUME NEW h \in Ready, CollectRead(h) PROVE OffInv'
  BY <1>17 DEF CollectRead, OffInv
<1>18. ASSUME NEW h \in Ready, CollectSave(h) PROVE OffInv'
  BY <1>18 DEF CollectSave, OffInv
<1>19. ASSUME NEW h \in Ready, PayloadExpires(h) PROVE OffInv'
  BY <1>19 DEF PayloadExpires, OffInv
<1>20. ASSUME NEW s \in Sites, Drift(s) PROVE OffInv'
  BY <1>20 DEF Drift, OffInv
<1>21. ASSUME NEW s \in Sites, SetDesired(s) PROVE OffInv'
  BY <1>21 DEF SetDesired, OffInv
<1>22. ASSUME NEW s \in Sites, SwitchEnabled(s) PROVE OffInv'
  BY <1>22 DEF SwitchEnabled, OffInv, TypeOK, TickerOK, DataOK, HistoryOK, PlaceInv
<1>23. ASSUME NEW s \in Sites, MaintenanceEnds(s) PROVE OffInv'
  BY <1>23 DEF MaintenanceEnds, OffInv
<1>24. ASSUME NEW s \in Sites, Rearm(s) PROVE OffInv'
  BY <1>24 DEF Rearm, OffInv
<1>25. ASSUME NEW s \in Sites, WindowSlides(s) PROVE OffInv'
  BY <1>25 DEF WindowSlides, OffInv
<1>26. ASSUME NEW s \in Sites, DeployBegins(s) PROVE OffInv'
  BY <1>26 DEF DeployBegins, OffInv
<1>27. ASSUME NEW s \in Sites, DeployEnds(s) PROVE OffInv'
  BY <1>27 DEF DeployEnds, OffInv
<1>. QED
  BY <1>1, <1>2, <1>3, <1>4, <1>5, <1>6, <1>7, <1>8, <1>9, <1>10, <1>11, <1>12, <1>13, <1>14, <1>15, <1>16, <1>17, <1>18, <1>19, <1>20, <1>21, <1>22, <1>23, <1>24, <1>25, <1>26, <1>27
  DEF Next, TickerStep, TickerFault

\* The inductive invariant holds in every reachable state.
THEOREM ReconcilerInvariant == Spec => []RecInv
<1>1. Init => RecInv
  BY InitInv
<1>2. RecInv /\ [Next]_vars => RecInv'
  <2>. SUFFICES ASSUME RecInv, [Next]_vars PROVE RecInv'
    OBVIOUS
  <2>1. DataOK /\ CollectOK /\ TickerOK /\ HistoryOK /\ PlaceInv /\ LockInv /\ LateInv /\ OffInv
    BY DEF RecInv, TypeOK
  <2>2. TypeOK'
    BY <2>1, DataStep, CollectStep, TickerTypeStep, HistoryStep, SiteAssumption, ReadyAssumption
    DEF TypeOK
  <2>3. PlaceInv'
    BY <2>1, PlaceStep, SiteAssumption, LimitsAssumption
  <2>4. LockInv'
    BY <2>1, LockStep, SiteAssumption
  <2>5. LateInv' /\ OffInv'
    BY <2>1, LateStep, OffStep, SiteAssumption DEF TypeOK
  <2>. QED
    BY <2>2, <2>3, <2>4, <2>5 DEF RecInv
<1>. QED
  BY <1>1, <1>2, PTL DEF Spec

\* Rows, locks, payloads and the tickers' variables keep their types.
THEOREM ReconcilerTypes == Spec => []TypeOK
<1>1. RecInv => TypeOK
  BY DEF RecInv
<1>. QED
  BY <1>1, ReconcilerInvariant, PTL

\* _apply looks at the deploy locks under the reconcile lock: at most one repair
\* of a site lands inside a deployment, for any number of overlapping passes.
THEOREM LateRepairsBounded == Spec => []AtMostOneLateRepair
<1>1. RecInv => AtMostOneLateRepair
  BY DEF RecInv, LateInv, AtMostOneLateRepair
<1>. QED
  BY <1>1, ReconcilerInvariant, PTL

\* Switching reconcile_enabled off stops every ticker after at most one more
\* repair of the site.
THEOREM SwitchIsObeyed == Spec => []KillSwitchBounded
<1>1. RecInv => KillSwitchBounded
  BY DEF RecInv, OffInv, KillSwitchBounded
<1>. QED
  BY <1>1, ReconcilerInvariant, PTL

---------------------------------------------------------------------------
(* How the number of cycles moves with the window of repairs *)

\* What CycleCount evaluates, as a function of where it starts.
CyclesFrom(ops) ==
    CHOOSE f : f = [i \in Nat |->
          IF i >= Len(ops) THEN 0
          ELSE IF ops[i] # ops[i + 1] THEN 1 + f[i + 2]
          ELSE f[i + 1]]

\* CycleCount starts at the first repair.
LEMMA CycleCountIs == \A ops : CycleCount(ops) = CyclesFrom(ops)[1]
  BY DEF CycleCount, CyclesFrom

\* A function that obeys the recursion of CycleCount exists: it is built from the end.
LEMMA CyclesExist ==
    ASSUME NEW ops, Len(ops) \in Nat
    PROVE  \E f \in [Nat -> Nat] : \A i \in Nat :
             f[i] = IF i >= Len(ops) THEN 0
                    ELSE IF ops[i] # ops[i + 1] THEN 1 + f[i + 2]
                    ELSE f[i + 1]
<1> DEFINE Step(f, i) == IF i >= Len(ops) THEN 0
                         ELSE IF ops[i] # ops[i + 1] THEN 1 + f[i + 2]
                         ELSE f[i + 1]
           S == {k \in Nat : \E f \in [Nat -> Nat] : \A i \in Nat : i >= k => f[i] = Step(f, i)}
<1>1. Len(ops) \in S
  <2>1. [i \in Nat |-> 0] \in [Nat -> Nat]
    OBVIOUS
  <2> QED BY <2>1
<1>2. PICK k \in S : \A j \in S : ~(<<j, k>> \in OpToRel(<, Nat))
  BY <1>1, NatLessThanWellFounded, WFMin
<1>3. k \in Nat /\ \A j \in S : ~(j < k)
  BY <1>2 DEF OpToRel
<1>4. k = 0
  <2> SUFFICES ASSUME k # 0 PROVE FALSE
    OBVIOUS
  <2>1. PICK f \in [Nat -> Nat] : \A i \in Nat : i >= k => f[i] = Step(f, i)
    BY <1>2
  <2> DEFINE j == k - 1
             g == [f EXCEPT ![j] = Step(f, j)]
  <2>2. j \in Nat /\ j + 1 = k /\ j < k
    BY <1>3
  <2>3. Step(f, j) \in Nat
    <3> HIDE DEF j
    <3>1. j + 1 \in Nat /\ j + 2 \in Nat
      BY <2>2
    <3>2. f[j + 1] \in Nat /\ f[j + 2] \in Nat
      BY <3>1
    <3>3. Step(f, j) \in {0, 1 + f[j + 2], f[j + 1]}
      OBVIOUS
    <3>4. 0 \in Nat /\ \A n \in Nat : 1 + n \in Nat
      OBVIOUS
    <3> QED BY <3>2, <3>3, <3>4, Zenon
  <2>4. g \in [Nat -> Nat] /\ g[j] = Step(f, j) /\ \A i \in Nat : i # j => g[i] = f[i]
    BY <2>2, <2>3
  <2> HIDE DEF g
  <2>5. ASSUME NEW i \in Nat, i >= j PROVE g[i] = Step(g, i)
    <3>1. i + 1 \in Nat /\ i + 2 \in Nat /\ i + 1 # j /\ i + 2 # j
      BY <2>2, <2>5
    <3>2. Step(g, i) = Step(f, i)
      BY <2>4, <3>1
    <3>3. CASE i = j
      BY <2>4, <3>2, <3>3
    <3>4. CASE i # j
      <4>1. i >= k
        BY <2>2, <2>5, <3>4
      <4>2. f[i] = Step(f, i)
        BY <2>1, <4>1
      <4>3. g[i] = f[i]
        BY <2>4, <3>4
      <4> QED BY <3>2, <4>2, <4>3
    <3> QED BY <3>3, <3>4
  <2>6. j \in S
    BY <2>2, <2>4, <2>5
  <2> HIDE DEF S, j
  <2> QED BY <1>3, <2>2, <2>6
<1>5. PICK f \in [Nat -> Nat] : \A i \in Nat : i >= k => f[i] = Step(f, i)
  BY <1>2
<1>6. \A i \in Nat : i >= k
  BY <1>4
<1> QED BY <1>5, <1>6

\* The recursion of CycleCount defines a function of the positions.
LEMMA CyclesFacts ==
    ASSUME NEW ops, Len(ops) \in Nat
    PROVE  /\ CyclesFrom(ops) \in [Nat -> Nat]
           /\ \A i \in Nat : CyclesFrom(ops)[i] =
                IF i >= Len(ops) THEN 0
                ELSE IF ops[i] # ops[i + 1] THEN 1 + CyclesFrom(ops)[i + 2]
                ELSE CyclesFrom(ops)[i + 1]
<1> DEFINE Body(f) == [i \in Nat |->
                  IF i >= Len(ops) THEN 0
                  ELSE IF ops[i] # ops[i + 1] THEN 1 + f[i + 2]
                  ELSE f[i + 1]]
<1>1. PICK f \in [Nat -> Nat] : \A i \in Nat :
             f[i] = IF i >= Len(ops) THEN 0
                    ELSE IF ops[i] # ops[i + 1] THEN 1 + f[i + 2]
                    ELSE f[i + 1]
  BY CyclesExist
<1>2. f = Body(f)
  BY <1>1
<1>3. CyclesFrom(ops) = CHOOSE g : g = Body(g)
  BY DEF CyclesFrom
<1>4. CyclesFrom(ops) = Body(CyclesFrom(ops))
  <2> HIDE DEF Body
  <2> QED BY <1>2, <1>3
<1>5. CyclesFrom(ops) = f
  <2> DEFINE g == CyclesFrom(ops)
  <2>1. /\ DOMAIN g = Nat /\ g = [i \in Nat |-> g[i]]
        /\ \A i \in Nat : g[i] = IF i >= Len(ops) THEN 0
                    ELSE IF ops[i] # ops[i + 1] THEN 1 + g[i + 2]
                    ELSE g[i + 1]
    BY <1>4
  <2> HIDE DEF g
  <2> DEFINE S == {k \in Nat : \A i \in Nat : i >= k => g[i] = f[i]}
  <2>2. Len(ops) \in S
    BY <1>1, <2>1
  <2>3. PICK k \in S : \A j \in S : ~(<<j, k>> \in OpToRel(<, Nat))
    BY <2>2, NatLessThanWellFounded, WFMin
  <2>4. k \in Nat /\ \A j \in S : ~(j < k)
    BY <2>3 DEF OpToRel
  <2>5. k = 0
    <3> SUFFICES ASSUME k # 0 PROVE FALSE
      OBVIOUS
    <3> DEFINE j == k - 1
    <3>1. /\ j \in Nat /\ j < k /\ j + 1 \in Nat /\ j + 1 >= k /\ j + 2 \in Nat /\ j + 2 >= k
          /\ \A i \in Nat : i >= j => i = j \/ i >= k
      BY <2>4
    <3> HIDE DEF j
    <3>2. g[j] = f[j]
      <4>1. g[j + 1] = f[j + 1] /\ g[j + 2] = f[j + 2]
        BY <2>3, <3>1
      <4> QED BY <1>1, <2>1, <3>1, <4>1
    <3>3. j \in S
      BY <2>3, <3>1, <3>2
    <3> QED BY <2>4, <3>1, <3>3
  <2>6. \A i \in Nat : g[i] = f[i]
    <3>1. \A i \in Nat : i >= 0
      OBVIOUS
    <3> QED BY <2>3, <2>5, <3>1
  <2> QED BY <2>1, <2>6 DEF g
<1> QED BY <1>1, <1>5

\* Starting one position later loses at most one pair and gains none.
LEMMA CyclesDescend ==
    ASSUME NEW ops, Len(ops) \in Nat
    PROVE  \A i \in Nat : /\ CyclesFrom(ops)[i + 1] <= CyclesFrom(ops)[i]
                          /\ CyclesFrom(ops)[i] <= CyclesFrom(ops)[i + 1] + 1
<1> DEFINE f == CyclesFrom(ops)
           A(i) == f[i + 1] <= f[i] /\ f[i] <= f[i + 1] + 1
           S == {k \in Nat : \A i \in Nat : i >= k => A(i)}
<1>1. /\ f \in [Nat -> Nat]
      /\ \A i \in Nat : f[i] = IF i >= Len(ops) THEN 0
                               ELSE IF ops[i] # ops[i + 1] THEN 1 + f[i + 2]
                               ELSE f[i + 1]
  BY CyclesFacts
<1> HIDE DEF f
<1>2. Len(ops) \in S
  BY <1>1
<1>3. PICK k \in S : \A j \in S : ~(<<j, k>> \in OpToRel(<, Nat))
  BY <1>2, NatLessThanWellFounded, WFMin
<1>4. k \in Nat /\ \A j \in S : ~(j < k)
  BY <1>3 DEF OpToRel
<1>5. k = 0
  <2> SUFFICES ASSUME k # 0 PROVE FALSE
    OBVIOUS
  <2> DEFINE j == k - 1
  <2>1. j \in Nat /\ j < k /\ j + 1 \in Nat /\ j + 1 >= k /\ j + 2 \in Nat /\ (j + 1) + 1 = j + 2
    BY <1>4
  <2> HIDE DEF j
  <2>2. f[j + 2] <= f[j + 1] /\ f[j + 1] <= f[j + 2] + 1
    BY <1>3, <2>1
  <2>3. f[j] = 0 \/ f[j] = 1 + f[j + 2] \/ f[j] = f[j + 1]
    BY <1>1, <2>1
  <2>4. f[j] = 0 => f[j + 1] = 0
    BY <1>1, <2>1
  <2>5. A(j)
    <3>1. f[j] \in Nat /\ f[j + 1] \in Nat /\ f[j + 2] \in Nat
      BY <1>1, <2>1
    <3> QED BY <2>2, <2>3, <2>4, <3>1
  <2>6. j \in S
    <3>1. ASSUME NEW i \in Nat, i >= j PROVE A(i)
      <4>1. i = j \/ i >= k
        BY <2>1, <3>1, <1>4 DEF j
      <4> QED BY <1>3, <2>5, <3>1, <4>1
    <3> QED BY <2>1, <3>1
  <2> QED BY <1>4, <2>1, <2>6
<1>6. \A i \in Nat : A(i)
  <2>1. \A i \in Nat : i >= 0
    OBVIOUS
  <2> QED BY <1>3, <1>5, <2>1
<1> QED BY <1>6 DEF f

\* One more repair takes no cycle away.
LEMMA CyclesAppend ==
    ASSUME NEW ops \in Seq(Ops), NEW a
    PROVE  CycleCount(ops) <= CycleCount(Append(ops, a))
<1> DEFINE n == Len(ops)
           more == Append(ops, a)
           f == CyclesFrom(ops)
           g == CyclesFrom(more)
           S == {k \in Nat : \A i \in Nat : i >= k => f[i] <= g[i]}
<1>0. /\ n \in Nat /\ Len(more) = n + 1 /\ \A i \in 1..n : more[i] = ops[i]
  OBVIOUS
<1>1. /\ f \in [Nat -> Nat]
      /\ \A i \in Nat : f[i] = IF i >= n THEN 0
                               ELSE IF ops[i] # ops[i + 1] THEN 1 + f[i + 2]
                               ELSE f[i + 1]
  BY <1>0, CyclesFacts
<1>2. /\ g \in [Nat -> Nat]
      /\ \A i \in Nat : g[i] = IF i >= Len(more) THEN 0
                               ELSE IF more[i] # more[i + 1] THEN 1 + g[i + 2]
                               ELSE g[i + 1]
  <2>1. Len(more) \in Nat
    BY <1>0
  <2> QED BY <2>1, CyclesFacts
<1> HIDE DEF f, g, n, more
<1>3. n \in S
  BY <1>0, <1>1, <1>2
<1>4. PICK k \in S : \A j \in S : ~(<<j, k>> \in OpToRel(<, Nat))
  BY <1>3, NatLessThanWellFounded, WFMin
<1>5. k \in Nat /\ \A j \in S : ~(j < k)
  BY <1>4 DEF OpToRel
<1>6. k <= 1
  <2> SUFFICES ASSUME k > 1 PROVE FALSE
    BY <1>5
  <2> DEFINE j == k - 1
  <2>1. /\ j \in Nat \ {0} /\ j < k /\ j + 1 \in Nat /\ j + 1 >= k /\ j + 2 \in Nat /\ j + 2 >= k
        /\ \A i \in Nat : i >= j => i = j \/ i >= k
    BY <1>5
  <2> HIDE DEF j
  <2>2. f[j + 2] <= g[j + 2] /\ f[j + 1] <= g[j + 1]
    BY <1>4, <2>1
  <2>3. CASE j >= n
    <3>1. f[j] = 0 /\ g[j] \in Nat
      BY <1>1, <1>2, <2>1, <2>3
    <3>2. f[j] <= g[j]
      BY <3>1
    <3>3. j \in S
      BY <1>4, <2>1, <3>2
    <3> QED BY <1>5, <2>1, <3>3
  <2>4. CASE ~(j >= n)
    <3>1. j \in 1..n /\ j + 1 \in 1..n /\ ~(j >= Len(more))
      BY <1>0, <2>1, <2>4
    <3>2. more[j] = ops[j] /\ more[j + 1] = ops[j + 1]
      BY <1>0, <3>1
    <3>3. f[j] = IF ops[j] # ops[j + 1] THEN 1 + f[j + 2] ELSE f[j + 1]
      BY <1>1, <2>1, <2>4
    <3>4. g[j] = IF ops[j] # ops[j + 1] THEN 1 + g[j + 2] ELSE g[j + 1]
      BY <1>2, <2>1, <3>1, <3>2
    <3>5. /\ f[j + 1] \in Nat /\ f[j + 2] \in Nat /\ g[j + 1] \in Nat /\ g[j + 2] \in Nat
      BY <1>1, <1>2, <2>1
    <3>6. f[j] <= g[j]
      BY <2>2, <3>3, <3>4, <3>5
    <3>7. j \in S
      BY <1>4, <2>1, <3>6
    <3> QED BY <1>5, <2>1, <3>7
  <2> QED BY <2>3, <2>4
<1>7. f[1] <= g[1]
  BY <1>4, <1>5, <1>6
<1> QED BY <1>7, CycleCountIs DEF f, g, more

\* A repair that leaves the window adds no cycle.
LEMMA CyclesTail ==
    ASSUME NEW ops \in Seq(Ops), ops # <<>>
    PROVE  CycleCount(Tail(ops)) <= CycleCount(ops)
<1> DEFINE n == Len(ops)
           rest == Tail(ops)
           f == CyclesFrom(ops)
           g == CyclesFrom(rest)
           S == {k \in Nat : \A i \in Nat : i >= k /\ i > 0 => g[i] = f[i + 1]}
<1>0. n \in Nat \ {0} /\ Len(rest) = n - 1 /\ \A i \in 1..(n - 1) : rest[i] = ops[i + 1]
  OBVIOUS
<1>1. /\ f \in [Nat -> Nat]
      /\ \A i \in Nat : f[i] = IF i >= n THEN 0
                               ELSE IF ops[i] # ops[i + 1] THEN 1 + f[i + 2]
                               ELSE f[i + 1]
  BY <1>0, CyclesFacts
<1>2. /\ g \in [Nat -> Nat]
      /\ \A i \in Nat : g[i] = IF i >= n - 1 THEN 0
                               ELSE IF rest[i] # rest[i + 1] THEN 1 + g[i + 2]
                               ELSE g[i + 1]
  <2>1. Len(rest) \in Nat
    BY <1>0
  <2> QED BY <1>0, <2>1, CyclesFacts
<1>2a. f[2] <= f[1]
  <2>1. Len(ops) \in Nat
    BY <1>0
  <2>2. f[1 + 1] <= f[1]
    BY <2>1, CyclesDescend
  <2> QED BY <2>2
<1> HIDE DEF f, g, n, rest
<1>3. n \in S
  BY <1>0, <1>1, <1>2
<1>4. PICK k \in S : \A j \in S : ~(<<j, k>> \in OpToRel(<, Nat))
  BY <1>3, NatLessThanWellFounded, WFMin
<1>5. k \in Nat /\ \A j \in S : ~(j < k)
  BY <1>4 DEF OpToRel
<1>6. k = 0
  <2> SUFFICES ASSUME k # 0 PROVE FALSE
    OBVIOUS
  <2> DEFINE j == k - 1
  <2>1. /\ j \in Nat /\ j < k /\ j + 1 \in Nat /\ j + 1 >= k /\ j + 2 \in Nat /\ j + 2 >= k
        /\ j + 1 > 0 /\ j + 2 > 0 /\ (j + 1) + 1 = j + 2 /\ (j + 2) + 1 = j + 3 /\ (j + 1) + 2 = j + 3
        /\ \A i \in Nat : i >= j => i = j \/ i >= k
    BY <1>5
  <2> HIDE DEF j
  <2>2. g[j + 1] = f[j + 2] /\ g[j + 2] = f[j + 3]
    BY <1>4, <2>1
  <2>3. j > 0 => g[j] = f[j + 1]
    <3> SUFFICES ASSUME j > 0 PROVE g[j] = f[j + 1]
      OBVIOUS
    <3>1. CASE j >= n - 1
      <4>1. j + 1 >= n
        BY <1>0, <2>1, <3>1
      <4>2. g[j] = 0
        BY <1>2, <2>1, <3>1
      <4>3. f[j + 1] = 0
        BY <1>1, <2>1, <4>1
      <4> QED BY <4>2, <4>3
    <3>2. CASE ~(j >= n - 1)
      <4>1. j \in 1..(n - 1) /\ j + 1 \in 1..(n - 1) /\ ~(j + 1 >= n)
        BY <1>0, <2>1, <3>2
      <4>2. rest[j] = ops[j + 1] /\ rest[j + 1] = ops[j + 2]
        BY <1>0, <2>1, <4>1
      <4>3. f[j + 1] = IF ops[j + 1] # ops[j + 2] THEN 1 + f[j + 3] ELSE f[j + 2]
        BY <1>1, <2>1, <4>1
      <4>4. g[j] = IF ops[j + 1] # ops[j + 2] THEN 1 + g[j + 2] ELSE g[j + 1]
        BY <1>2, <2>1, <3>2, <4>2
      <4> QED BY <2>2, <4>3, <4>4
    <3> QED BY <3>1, <3>2
  <2>4. j \in S
    BY <1>4, <2>1, <2>3
  <2> QED BY <1>5, <2>1, <2>4
<1>7. g[1] = f[2]
  <2>1. 1 \in Nat /\ 1 >= 0 /\ 1 > 0
    OBVIOUS
  <2>2. g[1] = f[1 + 1]
    BY <1>4, <1>6, <2>1
  <2> QED BY <2>2
<1> QED BY <1>2a, <1>7, CycleCountIs DEF f, g, rest

\* No repair, no cycle; and the count is a number.
LEMMA CyclesNumber ==
    /\ CycleCount(<<>>) = 0
    /\ \A ops \in Seq(Ops) : CycleCount(ops) \in Nat
<1>1. Len(<<>>) = 0 /\ <<>> \in Seq(Ops)
  OBVIOUS
<1>2. CyclesFrom(<<>>)[1] = 0
  BY <1>1, CyclesFacts
<1>3. ASSUME NEW ops \in Seq(Ops) PROVE CyclesFrom(ops)[1] \in Nat
  <2>1. Len(ops) \in Nat
    OBVIOUS
  <2> QED BY <2>1, CyclesFacts
<1> QED BY <1>2, <1>3, CycleCountIs

---------------------------------------------------------------------------
(* The flap limit *)

\* A step that touches neither the window, the pause nor the count of s, takes no ticker
\* from the ones that owe s a look at the limit, and plans no repair of a paused s.
Quiet(s) ==
    /\ repairs'[s] = repairs[s] /\ paused'[s] = paused[s] /\ excess'[s] = excess[s]
    /\ crashes' = crashes
    /\ Saved(s) \subseteq Saved(s)'
    /\ paused[s] => Repairing(s)' \subseteq Repairing(s)

\* The sets of tickers that FlapInv counts are finite, and disjoint.
LEMMA Crowds ==
    ASSUME TypeOK, NEW s \in Sites
    PROVE  /\ IsFiniteSet(Saved(s)) /\ IsFiniteSet(Repairing(s)) /\ IsFiniteSet(Tickers)
           /\ Cardinality(Saved(s)) \in Nat /\ Cardinality(Repairing(s)) \in Nat
           /\ Cardinality(Tickers) \in Nat \ {0}
           /\ Cardinality(Saved(s)) + Cardinality(Repairing(s)) <= Cardinality(Tickers)
           /\ excess[s] \in Nat /\ crashes \in Nat
           /\ CycleCount(repairs[s]) \in Nat /\ FlapCycleLimit \in Nat \ {0}
<1>1. Saved(s) \subseteq Tickers /\ Repairing(s) \subseteq Tickers /\ Saved(s) \cap Repairing(s) = {}
  BY DEF Saved, Repairing
<1>2. IsFiniteSet(Saved(s)) /\ IsFiniteSet(Repairing(s)) /\ IsFiniteSet(Tickers)
  BY <1>1, TickersAssumption, FS_Subset
<1>3. /\ Cardinality(Saved(s)) \in Nat /\ Cardinality(Repairing(s)) \in Nat
      /\ Cardinality(Tickers) \in Nat \ {0}
  BY <1>2, TickersAssumption, FS_CardinalityType, FS_EmptySet
<1>4. Cardinality(Saved(s)) + Cardinality(Repairing(s)) <= Cardinality(Tickers)
  <2>1. /\ IsFiniteSet(Saved(s) \cup Repairing(s))
        /\ Cardinality(Saved(s) \cup Repairing(s))
             = Cardinality(Saved(s)) + Cardinality(Repairing(s)) - Cardinality(Saved(s) \cap Repairing(s))
    BY <1>2, FS_Union
  <2>2. Cardinality(Saved(s) \cap Repairing(s)) = 0
    BY <1>1, FS_EmptySet
  <2>3. Cardinality(Saved(s) \cup Repairing(s)) <= Cardinality(Tickers)
    BY <1>1, <1>2, FS_Subset
  <2> QED BY <1>3, <2>1, <2>2, <2>3
<1>5. repairs[s] \in Seq(Ops) /\ excess[s] \in Nat /\ crashes \in Nat
  BY DEF TypeOK, DataOK, HistoryOK
<1> QED BY <1>2, <1>3, <1>4, <1>5, CyclesNumber, LimitsAssumption

\* A quiet step keeps what FlapInv says of the site.
LEMMA QuietKeeps ==
    ASSUME TypeOK, NEW s \in Sites, FlapAt(s), Quiet(s)
    PROVE  FlapAt(s)'
<1> DEFINE a == Cardinality(Saved(s))
           b == Cardinality(Saved(s)')
           c == Cardinality(Repairing(s))
           d == Cardinality(Repairing(s)')
<1>1. /\ IsFiniteSet(Saved(s)') /\ IsFiniteSet(Repairing(s))
      /\ a \in Nat /\ b \in Nat /\ c \in Nat /\ d \in Nat /\ excess[s] \in Nat /\ crashes \in Nat
      /\ Cardinality(Tickers) \in Nat
  <2>1. Saved(s)' \subseteq Tickers /\ Repairing(s)' \subseteq Tickers
    BY DEF Saved, Repairing
  <2>2. IsFiniteSet(Saved(s)') /\ IsFiniteSet(Repairing(s)')
    BY <2>1, TickersAssumption, FS_Subset
  <2> QED BY <2>2, Crowds, FS_CardinalityType
<1>2. a <= b
  BY <1>1, FS_Subset DEF Quiet
<1>3. paused[s] => d <= c
  BY <1>1, FS_Subset DEF Quiet
<1>4. Flapping(s)' <=> Flapping(s)
  BY DEF Flapping, Quiet
<1>5. /\ ~Flapping(s) => excess[s] = 0
      /\ Flapping(s) /\ ~paused[s] => excess[s] < a + crashes
      /\ paused[s] => excess[s] + c < Cardinality(Tickers) + crashes
  BY DEF FlapAt
<1> HIDE DEF a, b, c, d
<1>6. /\ ~Flapping(s)' => excess'[s] = 0
      /\ Flapping(s)' /\ ~paused'[s] => excess'[s] < b + crashes'
      /\ paused'[s] => excess'[s] + d < Cardinality(Tickers) + crashes'
  BY <1>1, <1>2, <1>3, <1>4, <1>5 DEF Quiet
<1> QED BY <1>6 DEF FlapAt, b, d

\* Every step keeps the account of the repairs past the flap limit.
LEMMA FlapStep ==
    ASSUME TypeOK, PlaceInv, FlapInv, SiteAssumption, [Next]_vars
    PROVE  FlapInv'
<1> USE DEF rowVars, siteVars, flapVars, collectVars, passVars, tickerVars, histVars, boundVars
<1>0. ASSUME \A x \in Sites : Quiet(x) PROVE FlapInv'
  BY <1>0, QuietKeeps DEF FlapInv
<1>00. /\ pc \in [Tickers -> PCs] /\ act \in [Tickers -> Ops]
       /\ site \in [Tickers -> Sites \cup {NoSite}]
       /\ paused \in [Sites -> BOOLEAN]
       /\ repairs \in [Sites -> Seq(Ops)] /\ excess \in [Sites -> Nat] /\ crashes \in Nat
  BY DEF TypeOK, TickerOK, DataOK, HistoryOK
<1>1. CASE UNCHANGED vars
  <2>1. \A x \in Sites : Quiet(x)
    BY <1>1 DEF vars, Quiet, Saved, Repairing
  <2> QED BY <1>0, <2>1
<1>2. ASSUME NEW t \in Tickers, StartPass(t) PROVE FlapInv'
  <2>1. \A x \in Sites : Quiet(x)
    BY <1>00, <1>2 DEF StartPass, Goto, Quiet, Saved, Repairing
  <2> QED BY <1>0, <2>1
<1>3. ASSUME NEW t \in Tickers, EndPass(t) PROVE FlapInv'
  <2>1. \A x \in Sites : Quiet(x)
    BY <1>00, <1>3 DEF EndPass, Goto, Quiet, Saved, Repairing
  <2> QED BY <1>0, <2>1
<1>4. ASSUME NEW t \in Tickers, NEW s \in Sites, Visit(t, s) PROVE FlapInv'
  <2>1. \A x \in Sites : Quiet(x)
    BY <1>00, <1>4 DEF Visit, Goto, Quiet, Saved, Repairing
  <2> QED BY <1>0, <2>1
<1>5. ASSUME NEW t \in Tickers, Look(t) PROVE FlapInv'
  <2>0. LookShape(t)
    BY <1>5, LookSteps
  <2>1. \A x \in Sites : Quiet(x)
    <3>1. CASE Leave(t, "look")
      BY <1>00, <2>0, <3>1 DEF LookShape, Leave, Goto, Quiet, Saved, Repairing
    <3>2. CASE Goto(t, "look", "acquire") /\ UNCHANGED <<site, row, act>>
      BY <1>00, <2>0, <3>2 DEF LookShape, Goto, Quiet, Saved, Repairing
    <3> QED BY <2>0, <3>1, <3>2 DEF LookShape
  <2> QED BY <1>0, <2>1
<1>6. ASSUME NEW t \in Tickers, LookError(t) PROVE FlapInv'
  <2>1. \A x \in Sites : Quiet(x)
    BY <1>00, <1>6 DEF LookError, Leave, Goto, Fault, Quiet, Saved, Repairing
  <2> QED BY <1>0, <2>1
<1>7. ASSUME NEW t \in Tickers, Acquire(t) PROVE FlapInv'
  <2>1. CASE Leave(t, "acquire")
    <3>1. \A x \in Sites : Quiet(x)
      BY <1>00, <1>7, <2>1 DEF Acquire, Leave, Goto, Quiet, Saved, Repairing
    <3> QED BY <1>0, <3>1
  <2>2. CASE Goto(t, "acquire", "recheck") /\ UNCHANGED <<site, row, act>>
    <3>1. \A x \in Sites : Quiet(x)
      BY <1>00, <1>7, <2>2 DEF Acquire, Goto, Quiet, Saved, Repairing
    <3> QED BY <1>0, <3>1
  <2> QED BY <1>7, <2>1, <2>2 DEF Acquire
<1>8. ASSUME NEW t \in Tickers, Recheck(t) PROVE FlapInv'
  <2>0. RecheckShape(t)
    BY <1>8, RecheckSteps
  <2>1. Goto(t, "recheck", "guard") => ~paused[site[t]]
    <3>1. pc[t] = "recheck" /\ pc'[t] = "guard" => ~Braked(t, site[t], ReadRow(site[t]), Seen(site[t]))
      BY <1>00, <1>8 DEF Recheck, Goto
    <3> QED BY <1>00, <3>1 DEF Braked, Goto
  <2>2. CASE Goto(t, "recheck", "release") /\ UNCHANGED act
    <3>1. \A x \in Sites : Quiet(x)
      BY <1>00, <2>0, <2>2 DEF RecheckShape, Goto, Quiet, Saved, Repairing
    <3> QED BY <1>0, <3>1
  <2>3. CASE /\ Goto(t, "recheck", "guard")
             /\ \E a \in Ops \ {"none"} : act' = [act EXCEPT ![t] = a]
    <3>1. \A x \in Sites : Quiet(x)
      BY <1>00, <2>0, <2>1, <2>3 DEF RecheckShape, Goto, Quiet, Saved, Repairing
    <3> QED BY <1>0, <3>1
  <2> QED BY <2>0, <2>2, <2>3 DEF RecheckShape
<1>9. ASSUME NEW t \in Tickers, RecheckError(t) PROVE FlapInv'
  <2>1. \A x \in Sites : Quiet(x)
    BY <1>00, <1>9 DEF RecheckError, Goto, Fault, Quiet, Saved, Repairing
  <2> QED BY <1>0, <2>1
<1>10. ASSUME NEW t \in Tickers, Guard(t) PROVE FlapInv'
  <2>1. \A x \in Sites : Quiet(x)
    BY <1>00, <1>10 DEF Guard, Goto, Quiet, Saved, Repairing
  <2> QED BY <1>0, <2>1
<1>11. ASSUME NEW t \in Tickers, ActOk(t) PROVE FlapInv'
  <2>1. \A x \in Sites : Quiet(x)
    BY <1>00, <1>11 DEF ActOk, Goto, Quiet, Saved, Repairing
  <2> QED BY <1>0, <2>1
<1>12. ASSUME NEW t \in Tickers, ActFail(t) PROVE FlapInv'
  <2>1. \A x \in Sites : Quiet(x)
    BY <1>00, <1>12 DEF ActFail, Goto, Fault, Quiet, Saved, Repairing
  <2> QED BY <1>0, <2>1
<1>13. ASSUME NEW t \in Tickers, Save(t) PROVE FlapInv'
  <2>0. PICK s \in Sites : s = site[t]
    <3>1. site[t] \in Sites
      BY <1>00, <1>13 DEF Save, Goto, PlaceInv
    <3> QED BY <3>1
  <2>1. /\ pc[t] = "save" /\ act[t] \in Ops \ {"none"}
        /\ pc' = [pc EXCEPT ![t] = "release"]
        /\ UNCHANGED <<site, act, paused, crashes>>
    BY <1>00, <2>0, <1>13 DEF Save, Goto, PlaceInv
  <2>2. /\ excess'[s] = IF Flapping(s) THEN excess[s] + 1 ELSE 0
        /\ repairs'[s] = IF act[t] = "restart" THEN repairs[s] ELSE Append(repairs[s], act[t])
        /\ \A x \in Sites : x # s => excess'[x] = excess[x] /\ repairs'[x] = repairs[x]
    BY <1>00, <2>0, <2>1, <1>13 DEF Save, Flapping
  <2>3. ASSUME NEW x \in Sites, x # s PROVE FlapAt(x)'
    <3>1. Quiet(x)
      BY <1>00, <2>0, <2>1, <2>2, <2>3 DEF Quiet, Saved, Repairing
    <3> QED BY <2>3, <3>1, QuietKeeps DEF FlapInv
  <2>4. t \notin Saved(s) /\ Saved(s)' = Saved(s) \cup {t}
    BY <1>00, <2>0, <2>1 DEF Saved
  <2>5. t \in Repairing(s) /\ Repairing(s)' = Repairing(s) \ {t}
    BY <1>00, <2>0, <2>1 DEF Repairing
  <2>6. Cardinality(Saved(s)') = Cardinality(Saved(s)) + 1
    BY <2>1, <2>4, Crowds, FS_AddElement
  <2>7. Cardinality(Repairing(s)') = Cardinality(Repairing(s)) - 1
    BY <2>1, <2>5, Crowds, FS_RemoveElement
  <2>8. Flapping(s) => Flapping(s)'
    <3>1. CycleCount(repairs[s]) <= CycleCount(Append(repairs[s], act[t]))
      BY <1>00, <2>0, <2>1, CyclesAppend
    <3>2. CycleCount(repairs'[s]) \in Nat /\ CycleCount(repairs[s]) \in Nat
      <4>1. repairs'[s] \in Seq(Ops) /\ repairs[s] \in Seq(Ops)
        BY <1>00, <2>0, <2>1, <2>2
      <4> QED BY <4>1, CyclesNumber
    <3>3. CycleCount(repairs[s]) <= CycleCount(repairs'[s])
      BY <2>2, <3>1, <3>2
    <3> QED BY <3>2, <3>3, LimitsAssumption DEF Flapping
  <2>9. FlapAt(s)'
    <3> DEFINE a == Cardinality(Saved(s))
               b == Cardinality(Repairing(s))
               m == Cardinality(Tickers)
    <3>1. /\ a \in Nat /\ b \in Nat /\ m \in Nat /\ excess[s] \in Nat /\ crashes \in Nat
      BY <2>1, Crowds
    <3>2. /\ ~Flapping(s) => excess[s] = 0
          /\ Flapping(s) /\ ~paused[s] => excess[s] < a + crashes
          /\ paused[s] => excess[s] + b < m + crashes
      BY <2>1 DEF FlapInv, FlapAt
    <3> HIDE DEF a, b, m
    <3>3. /\ ~Flapping(s)' => excess'[s] = 0
          /\ Flapping(s)' /\ ~paused[s] => excess'[s] < (a + 1) + crashes
          /\ paused[s] => excess'[s] + (b - 1) < m + crashes
      BY <2>2, <2>8, <3>1, <3>2
    <3> QED BY <2>1, <2>6, <2>7, <3>3 DEF FlapAt, a, b, m
  <2> QED BY <2>3, <2>9 DEF FlapInv
<1>14. ASSUME NEW t \in Tickers, Release(t) PROVE FlapInv'
  <2>1. CASE act[t] = "none" /\ Leave(t, "release")
    <3>1. \A x \in Sites : Quiet(x)
      BY <1>00, <1>14, <2>1 DEF Release, Leave, Goto, Quiet, Saved, Repairing
    <3> QED BY <1>0, <3>1
  <2>2. CASE Goto(t, "release", "flap") /\ UNCHANGED <<site, row, act>>
    <3>1. \A x \in Sites : Quiet(x)
      BY <1>00, <1>14, <2>2 DEF Release, Goto, Quiet, Saved, Repairing
    <3> QED BY <1>0, <3>1
  <2> QED BY <1>14, <2>1, <2>2 DEF Release
<1>15. ASSUME NEW t \in Tickers, Flap(t) PROVE FlapInv'
  <2>0. PICK s \in Sites : s = site[t]
    <3>1. site[t] \in Sites
      BY <1>00, <1>15 DEF Flap, Leave, Goto, PlaceInv
    <3> QED BY <3>1
  <2>1. /\ pc[t] = "flap" /\ act[t] # "none"
        /\ pc' = [pc EXCEPT ![t] = "next"] /\ site' = [site EXCEPT ![t] = NoSite]
        /\ act' = [act EXCEPT ![t] = "none"]
        /\ UNCHANGED <<repairs, excess, crashes>>
        /\ paused' = [paused EXCEPT ![s] = @ \/ CycleCount(repairs[s]) >= FlapCycleLimit]
    BY <1>00, <2>0, <1>15 DEF Flap, Leave, Goto, PlaceInv
  <2>2. paused'[s] <=> paused[s] \/ Flapping(s)
    BY <1>00, <2>0, <2>1 DEF Flapping
  <2>3. ASSUME NEW x \in Sites, x # s PROVE FlapAt(x)'
    <3>1. Quiet(x)
      BY <1>00, <2>0, <2>1, <2>3 DEF Quiet, Saved, Repairing
    <3> QED BY <2>3, <3>1, QuietKeeps DEF FlapInv
  <2>4. Repairing(s)' = Repairing(s)
    BY <1>00, <2>0, <2>1, SiteAssumption DEF Repairing
  <2>5. Flapping(s)' <=> Flapping(s)
    BY <2>1 DEF Flapping
  <2>6. FlapAt(s)'
    <3> DEFINE a == Cardinality(Saved(s))
               b == Cardinality(Repairing(s))
               m == Cardinality(Tickers)
    <3>1. /\ a \in Nat /\ b \in Nat /\ m \in Nat /\ excess[s] \in Nat /\ crashes \in Nat
          /\ a + b <= m
      BY <2>1, Crowds
    <3>2. /\ ~Flapping(s) => excess[s] = 0
          /\ Flapping(s) /\ ~paused[s] => excess[s] < a + crashes
          /\ paused[s] => excess[s] + b < m + crashes
      BY <2>1 DEF FlapInv, FlapAt
    <3> HIDE DEF a, b, m
    <3>3. paused[s] \/ Flapping(s) => excess[s] + b < m + crashes
      BY <3>1, <3>2
    <3> QED BY <2>1, <2>2, <2>4, <2>5, <3>2, <3>3 DEF FlapAt, b, m
  <2> QED BY <2>3, <2>6 DEF FlapInv
<1>16. ASSUME NEW t \in Tickers, Crash(t) PROVE FlapInv'
  <2>1. /\ pc' = [pc EXCEPT ![t] = "idle"] /\ site' = [site EXCEPT ![t] = NoSite]
        /\ act' = [act EXCEPT ![t] = "none"] /\ crashes' = crashes + 1
        /\ UNCHANGED <<repairs, paused, excess>>
    BY <1>16 DEF Crash
  <2> SUFFICES ASSUME NEW s \in Sites PROVE FlapAt(s)'
    BY DEF FlapInv
  <2>2. Saved(s) \ {t} \subseteq Saved(s)' /\ Repairing(s)' \subseteq Repairing(s)
    BY <1>00, <2>1, SiteAssumption DEF Saved, Repairing
  <2>3. Saved(s)' \subseteq Tickers /\ Repairing(s)' \subseteq Tickers
    BY DEF Saved, Repairing
  <2> DEFINE a == Cardinality(Saved(s))
             a1 == Cardinality(Saved(s)')
             b == Cardinality(Repairing(s))
             b1 == Cardinality(Repairing(s)')
             m == Cardinality(Tickers)
  <2>4. /\ IsFiniteSet(Saved(s)') /\ IsFiniteSet(Repairing(s)') /\ a1 \in Nat /\ b1 \in Nat
    BY <2>3, TickersAssumption, FS_Subset, FS_CardinalityType
  <2>5. /\ a \in Nat /\ b \in Nat /\ m \in Nat /\ excess[s] \in Nat /\ crashes \in Nat
        /\ IsFiniteSet(Saved(s)) /\ IsFiniteSet(Repairing(s))
    BY Crowds
  <2>6. b1 <= b
    BY <2>2, <2>5, FS_Subset
  <2>7. a <= a1 + 1
    <3>1. /\ IsFiniteSet(Saved(s) \ {t})
          /\ Cardinality(Saved(s) \ {t}) = IF t \in Saved(s) THEN a - 1 ELSE a
      BY <2>5, FS_RemoveElement
    <3>2. Cardinality(Saved(s) \ {t}) <= a1
      BY <2>2, <2>4, FS_Subset
    <3> QED BY <2>4, <2>5, <3>1, <3>2
  <2>8. Flapping(s)' <=> Flapping(s)
    BY <2>1 DEF Flapping
  <2>9. /\ ~Flapping(s) => excess[s] = 0
        /\ Flapping(s) /\ ~paused[s] => excess[s] < a + crashes
        /\ paused[s] => excess[s] + b < m + crashes
    BY DEF FlapInv, FlapAt
  <2> HIDE DEF a, b, m, a1, b1
  <2>10. /\ Flapping(s) /\ ~paused[s] => excess[s] < a1 + (crashes + 1)
         /\ paused[s] => excess[s] + b1 < m + (crashes + 1)
    BY <2>4, <2>5, <2>6, <2>7, <2>9
  <2> QED BY <2>1, <2>8, <2>9, <2>10 DEF FlapAt, a1, b1, m
<1>17. ASSUME NEW h \in Ready, CollectRead(h) PROVE FlapInv'
  <2>1. \A x \in Sites : Quiet(x)
    BY <1>00, <1>17 DEF CollectRead, Quiet, Saved, Repairing
  <2> QED BY <1>0, <2>1
<1>18. ASSUME NEW h \in Ready, CollectSave(h) PROVE FlapInv'
  <2>1. \A x \in Sites : Quiet(x)
    BY <1>00, <1>18 DEF CollectSave, Quiet, Saved, Repairing
  <2> QED BY <1>0, <2>1
<1>19. ASSUME NEW h \in Ready, PayloadExpires(h) PROVE FlapInv'
  <2>1. \A x \in Sites : Quiet(x)
    BY <1>00, <1>19 DEF PayloadExpires, Quiet, Saved, Repairing
  <2> QED BY <1>0, <2>1
<1>20. ASSUME NEW s \in Sites, Drift(s) PROVE FlapInv'
  <2>1. \A x \in Sites : Quiet(x)
    BY <1>00, <1>20 DEF Drift, Edit, Quiet, Saved, Repairing
  <2> QED BY <1>0, <2>1
<1>21. ASSUME NEW s \in Sites, SetDesired(s) PROVE FlapInv'
  <2>1. \A x \in Sites : Quiet(x)
    BY <1>00, <1>21 DEF SetDesired, Edit, Quiet, Saved, Repairing
  <2> QED BY <1>0, <2>1
<1>22. ASSUME NEW s \in Sites, SwitchEnabled(s) PROVE FlapInv'
  <2>1. \A x \in Sites : Quiet(x)
    BY <1>00, <1>22 DEF SwitchEnabled, Edit, Quiet, Saved, Repairing
  <2> QED BY <1>0, <2>1
<1>23. ASSUME NEW s \in Sites, MaintenanceEnds(s) PROVE FlapInv'
  <2>1. \A x \in Sites : Quiet(x)
    BY <1>00, <1>23 DEF MaintenanceEnds, Quiet, Saved, Repairing
  <2> QED BY <1>0, <2>1
<1>24. ASSUME NEW s \in Sites, Rearm(s) PROVE FlapInv'
  <2>1. /\ repairs' = [repairs EXCEPT ![s] = <<>>] /\ paused' = [paused EXCEPT ![s] = FALSE]
        /\ excess' = [excess EXCEPT ![s] = 0] /\ UNCHANGED <<pc, site, act, crashes>>
    BY <1>24 DEF Rearm, Edit
  <2>2. ASSUME NEW x \in Sites, x # s PROVE FlapAt(x)'
    <3>1. Quiet(x)
      BY <1>00, <2>1, <2>2 DEF Quiet, Saved, Repairing
    <3> QED BY <2>2, <3>1, QuietKeeps DEF FlapInv
  <2>3. ~Flapping(s)' /\ ~paused'[s] /\ excess'[s] = 0
    BY <1>00, <2>1, CyclesNumber, LimitsAssumption DEF Flapping
  <2>4. FlapAt(s)'
    BY <2>3 DEF FlapAt
  <2> QED BY <2>2, <2>4 DEF FlapInv
<1>25. ASSUME NEW s \in Sites, WindowSlides(s) PROVE FlapInv'
  <2>1. /\ repairs[s] # <<>> /\ repairs' = [repairs EXCEPT ![s] = Tail(@)]
        /\ UNCHANGED <<pc, site, act, paused, crashes>>
        /\ \A x \in Sites : x # s => excess'[x] = excess[x]
        /\ excess'[s] = IF CycleCount(Tail(repairs[s])) >= FlapCycleLimit THEN excess[s] ELSE 0
    BY <1>00, <1>25 DEF WindowSlides
  <2>2. ASSUME NEW x \in Sites, x # s PROVE FlapAt(x)'
    <3>1. Quiet(x)
      BY <1>00, <2>1, <2>2 DEF Quiet, Saved, Repairing
    <3> QED BY <2>2, <3>1, QuietKeeps DEF FlapInv
  <2>3. Saved(s)' = Saved(s) /\ Repairing(s)' = Repairing(s)
    BY <2>1 DEF Saved, Repairing
  <2>4. /\ repairs'[s] = Tail(repairs[s])
        /\ Flapping(s)' <=> CycleCount(Tail(repairs[s])) >= FlapCycleLimit
    BY <1>00, <2>1 DEF Flapping
  <2>5. Flapping(s)' => Flapping(s)
    <3>1. CycleCount(Tail(repairs[s])) <= CycleCount(repairs[s])
      BY <1>00, <2>1, CyclesTail
    <3>2. CycleCount(Tail(repairs[s])) \in Nat /\ CycleCount(repairs[s]) \in Nat
      <4>1. Tail(repairs[s]) \in Seq(Ops) /\ repairs[s] \in Seq(Ops)
        BY <1>00, <2>1
      <4> QED BY <4>1, CyclesNumber
    <3> QED BY <2>4, <3>1, <3>2, LimitsAssumption DEF Flapping
  <2>6. FlapAt(s)'
    <3> DEFINE a == Cardinality(Saved(s))
               b == Cardinality(Repairing(s))
               m == Cardinality(Tickers)
    <3>1. /\ a \in Nat /\ b \in Nat /\ m \in Nat /\ excess[s] \in Nat /\ crashes \in Nat
      BY Crowds
    <3>2. /\ Flapping(s) /\ ~paused[s] => excess[s] < a + crashes
          /\ paused[s] => excess[s] + b < m + crashes
      BY DEF FlapInv, FlapAt
    <3> HIDE DEF a, b, m
    <3>3. /\ ~Flapping(s)' => excess'[s] = 0
          /\ Flapping(s)' /\ ~paused[s] => excess'[s] < a + crashes
          /\ paused[s] => excess'[s] + b < m + crashes
      BY <2>1, <2>4, <2>5, <3>1, <3>2
    <3> QED BY <2>1, <2>3, <3>3 DEF FlapAt, a, b, m
  <2> QED BY <2>2, <2>6 DEF FlapInv
<1>26. ASSUME NEW s \in Sites, DeployBegins(s) PROVE FlapInv'
  <2>1. \A x \in Sites : Quiet(x)
    BY <1>00, <1>26 DEF DeployBegins, Edit, Quiet, Saved, Repairing
  <2> QED BY <1>0, <2>1
<1>27. ASSUME NEW s \in Sites, DeployEnds(s) PROVE FlapInv'
  <2>1. \A x \in Sites : Quiet(x)
    BY <1>00, <1>27 DEF DeployEnds, Quiet, Saved, Repairing
  <2> QED BY <1>0, <2>1
<1> QED
  BY <1>1, <1>2, <1>3, <1>4, <1>5, <1>6, <1>7, <1>8, <1>9, <1>10, <1>11, <1>12, <1>13, <1>14, <1>15, <1>16, <1>17, <1>18, <1>19, <1>20, <1>21, <1>22, <1>23, <1>24, <1>25, <1>26, <1>27
  DEF Next, TickerStep, TickerFault

\* The flap pause is written after the lock was given back, and the repairs past the
\* limit stay bounded all the same, for any number of sites, tickers and kills
\* (reconcile/loop.py, tick and _cycle_count).
THEOREM FlapsAreBounded == Spec => []FlapBounded
<1>1. Init => FlapInv
  <2> SUFFICES ASSUME Init, NEW s \in Sites PROVE FlapAt(s)
    BY DEF FlapInv
  <2>1. repairs[s] = <<>> /\ excess[s] = 0 /\ ~paused[s]
    BY DEF Init
  <2>2. ~Flapping(s)
    BY <2>1, CyclesNumber, LimitsAssumption DEF Flapping
  <2> QED BY <2>1, <2>2 DEF FlapAt
<1>2. RecInv /\ FlapInv /\ [Next]_vars => FlapInv'
  BY FlapStep, SiteAssumption DEF RecInv
<1>3. RecInv /\ FlapInv => FlapBounded
  <2> SUFFICES ASSUME TypeOK, FlapInv, NEW s \in Sites
               PROVE  excess[s] <= Cardinality(Tickers) - 1 + crashes
    BY DEF RecInv, FlapBounded
  <2> DEFINE a == Cardinality(Saved(s))
             b == Cardinality(Repairing(s))
             m == Cardinality(Tickers)
  <2>1. /\ a \in Nat /\ b \in Nat /\ m \in Nat \ {0} /\ excess[s] \in Nat /\ crashes \in Nat
        /\ a + b <= m
    BY Crowds
  <2>2. /\ ~Flapping(s) => excess[s] = 0
        /\ Flapping(s) /\ ~paused[s] => excess[s] < a + crashes
        /\ paused[s] => excess[s] + b < m + crashes
    BY DEF FlapInv, FlapAt
  <2> HIDE DEF a, b, m
  <2>3. excess[s] <= m - 1 + crashes
    BY <2>1, <2>2
  <2> QED BY <2>3 DEF m
<1> QED BY <1>1, <1>2, <1>3, ReconcilerInvariant, PTL DEF Spec
=============================================================================
