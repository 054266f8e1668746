--------------------------- MODULE RecordProofs -----------------------------
(***************************************************************************)
(* Proofs about what the hub records and shows: the findings inbox, the    *)
(* audit trail and its offsite copy, the live panel and the drills, for any*)
(* number of workers, workspaces, views and rows, and any number of faults.*)
(* Each is proved of the composition of MCBackground, in which one         *)
(* component moves at a time: OneAtATime leads from its step to the        *)
(* component's.                                                            *)
(***************************************************************************)
EXTENDS MCBackground, TLAPS

\* A step of the composition is a step of the component in focus, and of no other.
LEMMA OneAtATime ==
    [Next]_allVars =>
        /\ focus' = focus
        /\ focus = "alerts" => [Alerts!Next]_alertsState
        /\ focus = "uptime" => [Uptime!Next]_uptimeState
        /\ focus = "inboxRow" => [InboxRow!Next]_inboxRowState
        /\ focus = "audit" => [Audit!Next]_auditState
        /\ focus = "live" => [Live!Next]_liveState
        /\ focus = "drill" => [Drill!Next]_drillState
        /\ focus = "collect" => [Collect!Next]_collectState
        /\ focus = "attackGate" => [AttackGate!Next]_attackGateState
        /\ focus = "zones" => [Zones!Next]_zonesState
<1> SUFFICES ASSUME [Next]_allVars
             PROVE  /\ focus' = focus
                    /\ focus = "alerts" => [Alerts!Next]_alertsState
                    /\ focus = "uptime" => [Uptime!Next]_uptimeState
                    /\ focus = "inboxRow" => [InboxRow!Next]_inboxRowState
                    /\ focus = "audit" => [Audit!Next]_auditState
                    /\ focus = "live" => [Live!Next]_liveState
                    /\ focus = "drill" => [Drill!Next]_drillState
                    /\ focus = "collect" => [Collect!Next]_collectState
                    /\ focus = "attackGate" => [AttackGate!Next]_attackGateState
                    /\ focus = "zones" => [Zones!Next]_zonesState
  OBVIOUS
<1>1. CASE Next
  BY <1>1, Zenon DEF Next
<1>2. CASE UNCHANGED allVars
  BY <1>2, Zenon DEF allVars
<1> QED BY <1>1, <1>2

---------------------------------------------------------------------------
(* The findings inbox *)

\* A step of an engine or an operator keeps the types and the order of the turns.
LEMMA InboxNext ==
    InboxRow!TypeOK /\ InboxRow!TurnInv /\ [InboxRow!Next]_inboxRowState =>
        /\ InboxRow!TypeOK' /\ InboxRow!TurnInv'
<1> SUFFICES ASSUME InboxRow!TypeOK, InboxRow!TurnInv, [InboxRow!Next]_inboxRowState
             PROVE  InboxRow!TypeOK' /\ InboxRow!TurnInv'
  OBVIOUS
<1> USE InboxBounds DEF InboxRow!Writers
<1>1. ASSUME NEW w \in Engines, InboxRow!FileRead(w) PROVE InboxRow!TypeOK' /\ InboxRow!TurnInv'
  <2>1. CASE inbox = "none"
    <3>1. /\ filings < MaxFilings
          /\ filings' = filings + 1
          /\ writer[w].at = "idle"
          /\ interleaved' = (interleaved \/ \E v \in InboxRow!Writers \ {w} :
              writer[v].at # "idle")
          /\ UNCHANGED <<inbox, trail, stream, moves>>
          /\ writer' = [writer EXCEPT ![w] = [at |-> "create", copy |-> "open", tells |-> TRUE]]
      BY <1>1, <2>1, Zenon DEF InboxRow!FileRead, InboxRow!Reread, InboxRow!Become,
         InboxRow!Overlap
    <3>2. InboxRow!TypeOK'
      BY <3>1, <2>1 DEF InboxRow!TypeOK, InboxRow!RowStates, InboxRow!Places
    <3>3. InboxRow!TurnInv'
      BY <3>1, <2>1, <3>2 DEF InboxRow!TypeOK, InboxRow!RowStates, InboxRow!Places,
         InboxRow!TurnInv, InboxRow!InTurn, InboxRow!Settled, InboxRow!Quiet
    <3> QED BY <3>2, <3>3
  <2>2. CASE inbox = "resolved"
    <3>1. /\ filings < MaxFilings
          /\ filings' = filings + 1
          /\ writer[w].at = "idle"
          /\ interleaved' = (interleaved \/ \E v \in InboxRow!Writers \ {w} :
              writer[v].at # "idle")
          /\ UNCHANGED <<inbox, trail, stream, moves>>
          /\ writer' = [writer EXCEPT ![w] = [at |-> "save", copy |-> "open", tells |-> TRUE]]
      BY <1>1, <2>2, Zenon DEF InboxRow!FileRead, InboxRow!Reread, InboxRow!Become,
         InboxRow!Overlap
    <3>2. InboxRow!TypeOK'
      BY <3>1, <2>2 DEF InboxRow!TypeOK, InboxRow!RowStates, InboxRow!Places
    <3>3. InboxRow!TurnInv'
      BY <3>1, <2>2, <3>2 DEF InboxRow!TypeOK, InboxRow!RowStates, InboxRow!Places,
         InboxRow!TurnInv, InboxRow!InTurn, InboxRow!Settled, InboxRow!Quiet
    <3> QED BY <3>2, <3>3
  <2>3. CASE inbox \notin {"none", "resolved"}
    <3>1. /\ filings < MaxFilings
          /\ filings' = filings + 1
          /\ writer[w].at = "idle"
          /\ interleaved' = (interleaved \/ \E v \in InboxRow!Writers \ {w} :
              writer[v].at # "idle")
          /\ UNCHANGED <<inbox, trail, stream, moves>>
          /\ writer' = [writer EXCEPT ![w] = [at |-> "save", copy |-> inbox, tells |-> FALSE]]
      BY <1>1, <2>3, Zenon DEF InboxRow!FileRead, InboxRow!Reread, InboxRow!Become,
         InboxRow!Overlap
    <3>2. InboxRow!TypeOK'
      BY <3>1, <2>3 DEF InboxRow!TypeOK, InboxRow!RowStates, InboxRow!Places
    <3>3. InboxRow!TurnInv'
      BY <3>1, <2>3, <3>2 DEF InboxRow!TypeOK, InboxRow!RowStates, InboxRow!Places,
         InboxRow!TurnInv, InboxRow!InTurn, InboxRow!Settled, InboxRow!Quiet
    <3> QED BY <3>2, <3>3
  <2> QED BY <2>1, <2>2, <2>3
<1>2. ASSUME NEW w \in Engines, InboxRow!FileCreate(w)
      PROVE  /\ InboxRow!TypeOK' /\ InboxRow!TurnInv'
  <2>1. CASE inbox = "none"
    <3>1. /\ writer[w].at = "create"
          /\ inbox' = "open"
          /\ UNCHANGED <<trail, stream, filings, moves, interleaved>>
          /\ writer' = [writer EXCEPT ![w] = [at |-> "audit", copy |-> "open", tells |-> TRUE]]
      BY <1>2, <2>1, Zenon DEF InboxRow!FileCreate, InboxRow!Reread, InboxRow!Become
    <3>2. InboxRow!TypeOK'
      BY <3>1, <2>1 DEF InboxRow!TypeOK, InboxRow!RowStates, InboxRow!Places
    <3>3. InboxRow!TurnInv'
      BY <3>1, <2>1, <3>2 DEF InboxRow!TypeOK, InboxRow!RowStates, InboxRow!Places,
         InboxRow!TurnInv, InboxRow!InTurn, InboxRow!Settled, InboxRow!Quiet
    <3> QED BY <3>2, <3>3
  <2>2. CASE inbox = "resolved"
    <3>1. /\ writer[w].at = "create"
          /\ UNCHANGED <<inbox, trail, stream, filings, moves, interleaved>>
          /\ writer' = [writer EXCEPT ![w] = [at |-> "save", copy |-> "open", tells |-> TRUE]]
      BY <1>2, <2>2, Zenon DEF InboxRow!FileCreate, InboxRow!Reread, InboxRow!Become
    <3>2. InboxRow!TypeOK'
      BY <3>1, <2>2 DEF InboxRow!TypeOK, InboxRow!RowStates, InboxRow!Places
    <3>3. InboxRow!TurnInv'
      BY <3>1, <2>2, <3>2 DEF InboxRow!TypeOK, InboxRow!RowStates, InboxRow!Places,
         InboxRow!TurnInv, InboxRow!InTurn, InboxRow!Settled, InboxRow!Quiet
    <3> QED BY <3>2, <3>3
  <2>3. CASE inbox \notin {"none", "resolved"}
    <3>1. /\ writer[w].at = "create"
          /\ UNCHANGED <<inbox, trail, stream, filings, moves, interleaved>>
          /\ writer' = [writer EXCEPT ![w] = [at |-> "save", copy |-> inbox, tells |-> FALSE]]
      BY <1>2, <2>3, Zenon DEF InboxRow!FileCreate, InboxRow!Reread, InboxRow!Become
    <3>2. InboxRow!TypeOK'
      BY <3>1, <2>3 DEF InboxRow!TypeOK, InboxRow!RowStates, InboxRow!Places
    <3>3. InboxRow!TurnInv'
      BY <3>1, <2>3, <3>2 DEF InboxRow!TypeOK, InboxRow!RowStates, InboxRow!Places,
         InboxRow!TurnInv, InboxRow!InTurn, InboxRow!Settled, InboxRow!Quiet
    <3> QED BY <3>2, <3>3
  <2> QED BY <2>1, <2>2, <2>3
<1>3. ASSUME NEW w \in Managers, NEW to \in {"acked", "resolved", "accepted"},
             InboxRow!AskMove(w, to)
      PROVE  /\ InboxRow!TypeOK' /\ InboxRow!TurnInv'
  <2>1. /\ moves < MaxMoves
        /\ moves' = moves + 1
        /\ writer[w].at = "idle"
        /\ writer' = [writer EXCEPT ![w] = [at |-> "save", copy |-> to, tells |-> TRUE]]
        /\ interleaved' = (interleaved \/ \E v \in InboxRow!Writers \ {w} :
            writer[v].at # "idle")
        /\ UNCHANGED <<inbox, trail, stream, filings>>
    BY <1>3, Zenon DEF InboxRow!AskMove, InboxRow!Become, InboxRow!Overlap
  <2>2. InboxRow!TypeOK'
    BY <2>1 DEF InboxRow!TypeOK, InboxRow!RowStates, InboxRow!Places
  <2>3. InboxRow!TurnInv'
    BY <2>1, <2>2 DEF InboxRow!TypeOK, InboxRow!RowStates, InboxRow!Places, InboxRow!TurnInv,
       InboxRow!InTurn, InboxRow!Settled, InboxRow!Quiet
  <2> QED BY <2>2, <2>3
<1>4. ASSUME NEW w \in InboxRow!Writers, InboxRow!SaveRow(w)
      PROVE  /\ InboxRow!TypeOK' /\ InboxRow!TurnInv'
  <2>1. CASE writer[w].tells
    <3>1. /\ writer[w].at = "save"
          /\ inbox' = writer[w].copy
          /\ writer' = [writer EXCEPT ![w] = [at |-> "audit", copy |-> writer[w].copy,
              tells |-> TRUE]]
          /\ UNCHANGED <<trail, stream, filings, moves, interleaved>>
      BY <1>4, <2>1, Zenon DEF InboxRow!SaveRow, InboxRow!Become, InboxRow!AtRest
    <3>2. InboxRow!TypeOK'
      BY <3>1, <2>1 DEF InboxRow!TypeOK, InboxRow!RowStates, InboxRow!Places
    <3>3. InboxRow!TurnInv'
      BY <3>1, <2>1, <3>2 DEF InboxRow!TypeOK, InboxRow!RowStates, InboxRow!Places,
         InboxRow!TurnInv, InboxRow!InTurn, InboxRow!Settled, InboxRow!Quiet
    <3> QED BY <3>2, <3>3
  <2>2. CASE ~writer[w].tells
    <3>1. /\ writer[w].at = "save"
          /\ inbox' = writer[w].copy
          /\ writer' = [writer EXCEPT ![w] = [at |-> "idle", copy |-> "none", tells |-> FALSE]]
          /\ UNCHANGED <<trail, stream, filings, moves, interleaved>>
      BY <1>4, <2>2, Zenon DEF InboxRow!SaveRow, InboxRow!Become, InboxRow!AtRest
    <3>2. InboxRow!TypeOK'
      BY <3>1, <2>2 DEF InboxRow!TypeOK, InboxRow!RowStates, InboxRow!Places
    <3>3. InboxRow!TurnInv'
      BY <3>1, <2>2, <3>2 DEF InboxRow!TypeOK, InboxRow!RowStates, InboxRow!Places,
         InboxRow!TurnInv, InboxRow!InTurn, InboxRow!Settled, InboxRow!Quiet
    <3> QED BY <3>2, <3>3
  <2> QED BY <2>1, <2>2
<1>5. ASSUME NEW w \in InboxRow!Writers, InboxRow!Audited(w)
      PROVE  /\ InboxRow!TypeOK' /\ InboxRow!TurnInv'
  <2>1. /\ writer[w].at = "audit"
        /\ trail' = writer[w].copy
        /\ writer' = [writer EXCEPT ![w] = [at |-> "publish", copy |-> writer[w].copy,
            tells |-> TRUE]]
        /\ UNCHANGED <<inbox, stream, filings, moves, interleaved>>
    BY <1>5, Zenon DEF InboxRow!Audited, InboxRow!Become
  <2>2. InboxRow!TypeOK'
    BY <2>1 DEF InboxRow!TypeOK, InboxRow!RowStates, InboxRow!Places
  <2>3. InboxRow!TurnInv'
    BY <2>1, <2>2 DEF InboxRow!TypeOK, InboxRow!RowStates, InboxRow!Places, InboxRow!TurnInv,
       InboxRow!InTurn, InboxRow!Settled, InboxRow!Quiet
  <2> QED BY <2>2, <2>3
<1>6. ASSUME NEW w \in InboxRow!Writers, InboxRow!Published(w)
      PROVE  /\ InboxRow!TypeOK' /\ InboxRow!TurnInv'
  <2>1. /\ writer[w].at = "publish"
        /\ stream' = writer[w].copy
        /\ writer' = [writer EXCEPT ![w] = [at |-> "idle", copy |-> "none", tells |-> FALSE]]
        /\ UNCHANGED <<inbox, trail, filings, moves, interleaved>>
    BY <1>6, Zenon DEF InboxRow!Published, InboxRow!AtRest
  <2>2. InboxRow!TypeOK'
    BY <2>1 DEF InboxRow!TypeOK, InboxRow!RowStates, InboxRow!Places
  <2>3. InboxRow!TurnInv'
    BY <2>1, <2>2 DEF InboxRow!TypeOK, InboxRow!RowStates, InboxRow!Places, InboxRow!TurnInv,
       InboxRow!InTurn, InboxRow!Settled, InboxRow!Quiet
  <2> QED BY <2>2, <2>3
<1>7. CASE UNCHANGED inboxRowState
  BY <1>7 DEF inboxRowState, InboxRow!TypeOK, InboxRow!RowStates, InboxRow!Places,
     InboxRow!TurnInv, InboxRow!InTurn, InboxRow!Settled, InboxRow!Quiet
<1> QED
  BY <1>1, <1>2, <1>3, <1>4, <1>5, <1>6, <1>7 DEF InboxRow!Next

\* The turns, wherever the inbox row is what moves.
InboxAll == focus = "inboxRow" => InboxRow!TypeOK /\ InboxRow!TurnInv

\* The composition keeps the invariant of the inbox row.
LEMMA InboxInvariant == Spec => []InboxAll
<1>1. Init => InboxAll
  <2> SUFFICES ASSUME InboxRow!Init PROVE InboxRow!TypeOK /\ InboxRow!TurnInv
    BY DEF Init, InboxRowStarts, InboxAll
  <2>a. InboxRow!AtRest \in [at : InboxRow!Places, copy : InboxRow!RowStates, tells : BOOLEAN]
    BY DEF InboxRow!AtRest, InboxRow!Places, InboxRow!RowStates
  <2>b. writer \in [InboxRow!Writers -> [at : InboxRow!Places, copy : InboxRow!RowStates,
            tells : BOOLEAN]]
    BY <2>a, Zenon DEF InboxRow!Init
  <2>c. /\ inbox = "none" /\ trail = "none" /\ stream = "none" /\ filings = 0 /\ moves = 0
        /\ interleaved = FALSE
    BY Zenon DEF InboxRow!Init
  <2>d. /\ inbox \in InboxRow!RowStates /\ trail \in InboxRow!RowStates
        /\ stream \in InboxRow!RowStates
    BY <2>c DEF InboxRow!RowStates
  <2>e. filings \in 0..MaxFilings /\ moves \in 0..MaxMoves
    BY <2>c, InboxBounds
  <2>1. InboxRow!TypeOK
    BY <2>b, <2>c, <2>d, <2>e, Zenon DEF InboxRow!TypeOK
  <2>2. InboxRow!TurnInv
    BY InboxBounds DEF InboxRow!Init, InboxRow!TypeOK, InboxRow!TurnInv, InboxRow!InTurn,
       InboxRow!Settled, InboxRow!Quiet, InboxRow!Writers, InboxRow!RowStates, InboxRow!Places,
       InboxRow!AtRest
  <2> QED BY <2>1, <2>2
<1>2. InboxAll /\ [Next]_allVars => InboxAll'
  <2> SUFFICES ASSUME InboxAll, [Next]_allVars, focus = "inboxRow"
               PROVE  InboxRow!TypeOK' /\ InboxRow!TurnInv'
    BY OneAtATime DEF InboxAll
  <2>1. InboxRow!TypeOK /\ InboxRow!TurnInv /\ [InboxRow!Next]_inboxRowState
    BY OneAtATime DEF InboxAll
  <2> QED BY <2>1, InboxNext
<1> QED BY <1>1, <1>2, PTL DEF Spec

\* core/findings.py: as long as no two writers hold a copy of the row at once, the row, the
\* audit trail and the realtime stream agree whenever every writer is done, for any
\* number of engines and operators and any number of filings and moves.
THEOREM InboxTheorem == Spec => []AgreeInTurn
<1>1. InboxAll => AgreeInTurn
  BY DEF InboxAll, AgreeInTurn, InboxRow!AgreeInTurn, InboxRow!TurnInv, InboxRow!Settled
<1> QED BY <1>1, InboxInvariant, PTL

---------------------------------------------------------------------------
(* The audit trail *)

\* The committed event of a call: it carries the last hash the call read under the lock.
NewEvent(c) == [scope |-> call[c].scope, prev |-> call[c].last, shipped |-> FALSE,
                partner |-> call[c].partner, nonce |-> Len(auditRows)]

\* A step of a transaction, of the shipper and of a deletion keeps the chains and their copies.
LEMMA AuditNext ==
    /\ Audit!TypeOK /\ Audit!HeadsHeld /\ Audit!BlankHeads /\ Audit!PutIsStored
    /\ Audit!WorkspaceChainsVerify /\ Audit!ShippedIsStored /\ [Audit!Next]_auditState
    => /\ Audit!TypeOK' /\ Audit!HeadsHeld' /\ Audit!BlankHeads' /\ Audit!PutIsStored'
       /\ Audit!WorkspaceChainsVerify' /\ Audit!ShippedIsStored'
<1> SUFFICES ASSUME Audit!TypeOK, Audit!HeadsHeld, Audit!BlankHeads, Audit!PutIsStored,
        Audit!WorkspaceChainsVerify, Audit!ShippedIsStored, [Audit!Next]_auditState
             PROVE  /\ Audit!TypeOK' /\ Audit!HeadsHeld' /\ Audit!BlankHeads'
                    /\ Audit!PutIsStored' /\ Audit!WorkspaceChainsVerify'
                    /\ Audit!ShippedIsStored'
  OBVIOUS
<1> USE AuditBounds
<1>1. ASSUME NEW c \in Callers, NEW s \in Scopes, NEW p \in BOOLEAN, Audit!BeginAudit(c, s, p)
      PROVE  /\ Audit!TypeOK' /\ Audit!HeadsHeld' /\ Audit!BlankHeads' /\ Audit!PutIsStored'
             /\ Audit!WorkspaceChainsVerify' /\ Audit!ShippedIsStored'
  <2>1. /\ Len(auditRows) < MaxAudits
        /\ ~(\E d \in Callers : call[d].at = "locked" /\ call[d].scope = s)
        /\ call' = [call EXCEPT ![c] = [at |-> "locked", scope |-> s, partner |-> p,
            last |-> heads[s]]]
        /\ UNCHANGED <<heads, auditRows, store, shipper, shipFaults, deletes, partnerGone>>
    BY <1>1, Zenon DEF Audit!BeginAudit, Audit!LockHead, Audit!Locked
  <2>a. [at |-> "locked", scope |-> s, partner |-> p, last |-> heads[s]] \in Audit!Calls
    BY <2>1 DEF Audit!TypeOK, Audit!Calls
  <2>2. Audit!TypeOK'
    BY <2>1, <2>a DEF Audit!TypeOK
  <2>3. Audit!HeadsHeld'
    BY <2>1, <2>a, <2>2 DEF Audit!HeadsHeld
  <2>4. Audit!BlankHeads'
    BY <2>1, <2>a, <2>2 DEF Audit!BlankHeads, Audit!Chain
  <2>5. Audit!PutIsStored'
    BY <2>1, <2>a, <2>2 DEF Audit!PutIsStored, Audit!Stored, Audit!RowHash, Audit!CanonicalRow
  <2>6. Audit!WorkspaceChainsVerify'
    BY <2>1, <2>a, <2>2 DEF Audit!WorkspaceChainsVerify, Audit!VerifyChain, Audit!Chain,
       Audit!RowHash, Audit!CanonicalRow
  <2>7. Audit!ShippedIsStored'
    BY <2>1, <2>a, <2>2 DEF Audit!ShippedIsStored, Audit!Stored, Audit!RowHash,
       Audit!CanonicalRow
  <2> QED BY <2>2, <2>3, <2>4, <2>5, <2>6, <2>7
<1>2. ASSUME NEW c \in Callers, Audit!CommitAudit(c)
      PROVE  /\ Audit!TypeOK' /\ Audit!HeadsHeld' /\ Audit!BlankHeads' /\ Audit!PutIsStored'
             /\ Audit!WorkspaceChainsVerify' /\ Audit!ShippedIsStored'
  <2>1. /\ call[c].at = "locked"
        /\ Len(auditRows) < MaxAudits
        /\ auditRows' = Append(auditRows, NewEvent(c))
        /\ heads' = [heads EXCEPT ![NewEvent(c).scope] = Audit!RowHash(NewEvent(c))]
        /\ call' = [call EXCEPT ![c] = Audit!Done]
        /\ UNCHANGED <<store, shipper, shipFaults, deletes, partnerGone>>
    BY <1>2, Zenon DEF Audit!CommitAudit, NewEvent
  <2>a. /\ auditRows \in Seq(Audit!Events) /\ Len(auditRows) \in Nat
        /\ DOMAIN auditRows = 1..Len(auditRows)
        /\ \A i \in 1..Len(auditRows) : auditRows[i] \in Audit!Events
    BY DEF Audit!TypeOK
  <2>b. /\ call \in [Callers -> Audit!Calls]
        /\ \A d \in Callers : call[d].at = "locked" => call[d].scope \in Scopes
             /\ call[d].partner \in BOOLEAN /\ call[d].last \in Seq(Audit!Contents)
    BY DEF Audit!TypeOK, Audit!Calls, Audit!Done
  <2>c. /\ NewEvent(c) \in Audit!Events /\ NewEvent(c).scope = call[c].scope
        /\ NewEvent(c).prev = call[c].last /\ NewEvent(c).shipped = FALSE
    BY <2>1, <2>a, <2>b DEF NewEvent, Audit!Events
  <2>d. /\ auditRows' \in Seq(Audit!Events) /\ Len(auditRows') = Len(auditRows) + 1
        /\ DOMAIN auditRows' = 1..(Len(auditRows) + 1)
    BY <2>1, <2>a, <2>c
  <2>e. /\ auditRows'[Len(auditRows) + 1] = NewEvent(c)
        /\ \A i \in 1..Len(auditRows) : auditRows'[i] = auditRows[i]
    BY <2>1, <2>a, <2>c
  <2>f. Audit!RowHash(NewEvent(c)) \in Seq(Audit!Contents)
    BY <2>c DEF Audit!RowHash, Audit!CanonicalRow, Audit!Events, Audit!Contents
  <2>g. call[c].last = heads[call[c].scope] /\ call[c].scope \in Scopes
    BY <2>1, <2>b DEF Audit!HeadsHeld
  <2>h. Audit!Done \in Audit!Calls /\ Audit!Done.at = "idle"
    BY AuditBounds DEF Audit!Calls, Audit!Done
  <2>i. /\ heads' = [heads EXCEPT ![call[c].scope] = Audit!RowHash(NewEvent(c))]
        /\ heads \in [Scopes -> Seq(Audit!Contents)]
    BY <2>1, <2>c DEF Audit!TypeOK
  <2>j. \A i \in 1..Len(auditRows) : Audit!Stored(i) => Audit!Stored(i)'
    BY <2>1, <2>e DEF Audit!Stored
  <2>k. /\ shipper.put \in 0..Len(auditRows)
        /\ shipper' \in [todo : SUBSET (1..(Len(auditRows) + 1)), put : 0..(Len(auditRows) + 1)]
    BY <2>1, <2>a DEF Audit!TypeOK
  <2>l. store' \subseteq [key : 1..(Len(auditRows) + 1), prev : Seq(Audit!Contents),
            row : Audit!Contents, hash : Seq(Audit!Contents)]
    BY <2>1, <2>a DEF Audit!TypeOK
  <2>m. \A s \in Scopes : s # call[c].scope => Audit!Chain(s)' = Audit!Chain(s)
            /\ heads'[s] = heads[s]
    BY <2>a, <2>c, <2>d, <2>e, <2>i DEF Audit!Chain
  <2>n. \A s \in Scopes : s = call[c].scope =>
            Audit!Chain(s)' = Audit!Chain(s) \cup {Len(auditRows) + 1}
            /\ heads'[s] = Audit!RowHash(NewEvent(c))
    BY <2>a, <2>c, <2>d, <2>e, <2>g, <2>i DEF Audit!Chain
  <2>o. \A s \in Scopes : Audit!Chain(s) \subseteq 1..Len(auditRows)
    BY <2>a DEF Audit!Chain
  <2>p. Len(auditRows') <= MaxAudits
    BY <2>1, <2>a, <2>d
  <2>q. heads' \in [Scopes -> Seq(Audit!Contents)]
    BY <2>f, <2>g, <2>i
  <2>r. call' \in [Callers -> Audit!Calls]
    BY <2>1, <2>b, <2>h
  <2>s. /\ shipFaults' \in 0..MaxShipFaults /\ deletes' \in 0..MaxPartnerDeletes
        /\ partnerGone' \in BOOLEAN
    BY <2>1 DEF Audit!TypeOK
  <2>2. Audit!TypeOK'
    BY <2>d, <2>p, <2>q, <2>r, <2>s, <2>k, <2>l DEF Audit!TypeOK
  <2>3. Audit!HeadsHeld'
    BY <2>1, <2>b, <2>g, <2>h, <2>i, <2>m DEF Audit!HeadsHeld
  <2>4. Audit!BlankHeads'
    BY <2>a, <2>m, <2>n DEF Audit!BlankHeads
  <2>5. Audit!PutIsStored'
    BY <2>1, <2>j, <2>k DEF Audit!PutIsStored
  <2>6. Audit!WorkspaceChainsVerify'
    <3> SUFFICES ASSUME ~partnerGone, NEW s \in Scopes
                PROVE  /\ Audit!VerifyChain(Audit!Chain(s))'
                       /\ (\A i \in Audit!Chain(s) : (\A j \in Audit!Chain(s) : j <= i) =>
                           heads[s] = Audit!RowHash(auditRows[i]))'
      BY <2>1, Zenon DEF Audit!WorkspaceChainsVerify
    <3>1. /\ Audit!VerifyChain(Audit!Chain(s))
        /\ \A i \in Audit!Chain(s) : (\A j \in Audit!Chain(s) : j <= i) =>
            heads[s] = Audit!RowHash(auditRows[i])
      BY Zenon DEF Audit!WorkspaceChainsVerify
    <3>2. \A i \in 1..Len(auditRows) :
              Audit!RowHash(auditRows[i])' = Audit!RowHash(auditRows[i])
      BY <2>e DEF Audit!RowHash, Audit!CanonicalRow
    <3>3. Audit!RowHash(auditRows'[Len(auditRows) + 1]) = Audit!RowHash(NewEvent(c))
      BY <2>e
    <3>4. CASE s # call[c].scope
      BY <3>1, <3>2, <3>4, <2>e, <2>m, <2>o DEF Audit!VerifyChain
    <3>5. CASE s = call[c].scope
      <4>1. Audit!Chain(s) = {} => heads[s] = Audit!Genesis
        BY DEF Audit!BlankHeads
      <4>2. /\ Audit!Chain(s)' = Audit!Chain(s) \cup {Len(auditRows) + 1}
            /\ Audit!Chain(s) \subseteq 1..Len(auditRows)
            /\ auditRows'[Len(auditRows) + 1].prev = heads[s] /\ Len(auditRows) \in Nat
        BY <3>5, <2>n, <2>o, <2>e, <2>c, <2>g, <2>a
      <4>3. ASSUME NEW i \in Audit!Chain(s) PROVE
              /\ (\A j \in Audit!Chain(s)' : i <= j) => auditRows'[i].prev = Audit!Genesis
              /\ \A j \in Audit!Chain(s)' : j < i /\ (\A k \in Audit!Chain(s)' :
                  k <= j \/ i <= k) => auditRows'[i].prev = Audit!RowHash(auditRows'[j])
        BY <3>1, <3>2, <4>2, <2>e DEF Audit!VerifyChain
      <4>4. (\A j \in Audit!Chain(s)' : Len(auditRows) + 1 <= j) =>
                auditRows'[Len(auditRows) + 1].prev = Audit!Genesis
        BY <4>1, <4>2
      <4>5. ASSUME NEW j \in Audit!Chain(s)', j < Len(auditRows) + 1,
                \A k \in Audit!Chain(s)' : k <= j \/ Len(auditRows) + 1 <= k
            PROVE  auditRows'[Len(auditRows) + 1].prev = Audit!RowHash(auditRows'[j])
        <5>1. j \in Audit!Chain(s) /\ \A k \in Audit!Chain(s) : k <= j
          BY <4>2, <4>5
        <5> QED BY <5>1, <4>2, <3>1, <3>2
      <4>6. Audit!VerifyChain(Audit!Chain(s))'
        BY <4>2, <4>3, <4>4, <4>5 DEF Audit!VerifyChain
      <4>7. ASSUME NEW i \in Audit!Chain(s)', \A j \in Audit!Chain(s)' : j <= i
            PROVE  i = Len(auditRows) + 1
        <5>1. Len(auditRows) + 1 <= i /\ i \in 1..(Len(auditRows) + 1)
          BY <4>2, <4>7
        <5> QED BY <5>1, <4>2
      <4> QED BY <4>6, <4>7, <2>n, <3>5, <3>3
    <3> QED BY <3>4, <3>5
  <2>7. Audit!ShippedIsStored'
    BY <2>a, <2>c, <2>d, <2>e, <2>j DEF Audit!ShippedIsStored
  <2> QED BY <2>2, <2>3, <2>4, <2>5, <2>6, <2>7
<1>3. ASSUME NEW c \in Callers, Audit!RollBack(c)
      PROVE  /\ Audit!TypeOK' /\ Audit!HeadsHeld' /\ Audit!BlankHeads' /\ Audit!PutIsStored'
             /\ Audit!WorkspaceChainsVerify' /\ Audit!ShippedIsStored'
  <2>1. /\ call' = [call EXCEPT ![c] = Audit!Done]
        /\ UNCHANGED <<heads, auditRows, store, shipper, shipFaults, deletes, partnerGone>>
    BY <1>3, Zenon DEF Audit!RollBack
  <2>a. Audit!Done \in Audit!Calls /\ Audit!Done.at = "idle"
    BY AuditBounds DEF Audit!Calls, Audit!Done
  <2>2. Audit!TypeOK'
    BY <2>1, <2>a DEF Audit!TypeOK
  <2>3. Audit!HeadsHeld'
    BY <2>1, <2>a, <2>2 DEF Audit!HeadsHeld
  <2>4. Audit!BlankHeads'
    BY <2>1, <2>a, <2>2 DEF Audit!BlankHeads, Audit!Chain
  <2>5. Audit!PutIsStored'
    BY <2>1, <2>a, <2>2 DEF Audit!PutIsStored, Audit!Stored, Audit!RowHash, Audit!CanonicalRow
  <2>6. Audit!WorkspaceChainsVerify'
    BY <2>1, <2>a, <2>2 DEF Audit!WorkspaceChainsVerify, Audit!VerifyChain, Audit!Chain,
       Audit!RowHash, Audit!CanonicalRow
  <2>7. Audit!ShippedIsStored'
    BY <2>1, <2>a, <2>2 DEF Audit!ShippedIsStored, Audit!Stored, Audit!RowHash,
       Audit!CanonicalRow
  <2> QED BY <2>2, <2>3, <2>4, <2>5, <2>6, <2>7
<1>4. ASSUME Audit!DeletePartner
      PROVE  /\ Audit!TypeOK' /\ Audit!HeadsHeld' /\ Audit!BlankHeads' /\ Audit!PutIsStored'
             /\ Audit!WorkspaceChainsVerify' /\ Audit!ShippedIsStored'
  <2>1. /\ deletes < MaxPartnerDeletes
        /\ deletes' = deletes + 1
        /\ partnerGone' = TRUE
        /\ auditRows' = [i \in DOMAIN auditRows |-> [auditRows[i] EXCEPT !.partner = FALSE]]
        /\ UNCHANGED <<heads, call, store, shipper, shipFaults>>
    BY <1>4, Zenon DEF Audit!DeletePartner
  <2>a. /\ auditRows \in Seq(Audit!Events) /\ Len(auditRows) \in Nat
        /\ Len(auditRows) <= MaxAudits
       /\ DOMAIN auditRows = 1..Len(auditRows)
       /\ \A i \in 1..Len(auditRows) : auditRows[i] \in Audit!Events
    BY DEF Audit!TypeOK
  <2>b. \A i \in 1..Len(auditRows) : /\ [auditRows[i] EXCEPT !.partner = FALSE] \in Audit!Events
       /\ auditRows'[i] = [auditRows[i] EXCEPT !.partner = FALSE]
    BY <2>1, <2>a DEF Audit!Events
  <2>c. /\ auditRows' \in Seq(Audit!Events) /\ Len(auditRows') = Len(auditRows)
        /\ DOMAIN auditRows' = DOMAIN auditRows
    BY <2>1, <2>a, <2>b
  <2>d. \A i \in 1..Len(auditRows) : auditRows'[i].scope = auditRows[i].scope
            /\ auditRows'[i].prev = auditRows[i].prev
            /\ auditRows'[i].shipped = auditRows[i].shipped
    BY <2>a, <2>b DEF Audit!Events
  <2>e. partnerGone' \in BOOLEAN
    BY <2>1, Zenon
  <2>f. shipper.put \in 0..Len(auditRows)
    BY <2>a DEF Audit!TypeOK
  <2>g. \A s \in Scopes : Audit!Chain(s)' = Audit!Chain(s)
    BY <2>a, <2>c, <2>d DEF Audit!Chain
  <2>2. Audit!TypeOK'
    BY <2>1, <2>c, <2>e DEF Audit!TypeOK
  <2>3. Audit!HeadsHeld'
    BY <2>1, <2>a, <2>b, <2>c, <2>d, <2>e, <2>f, <2>g, <2>2 DEF Audit!HeadsHeld
  <2>4. Audit!BlankHeads'
    BY <2>1, <2>g DEF Audit!BlankHeads
  <2>5. Audit!PutIsStored'
    BY <2>1, <2>a, <2>c, <2>d, <2>f DEF Audit!PutIsStored, Audit!Stored
  <2>6. Audit!WorkspaceChainsVerify'
    BY <2>1 DEF Audit!WorkspaceChainsVerify
  <2>7. Audit!ShippedIsStored'
    BY <2>1, <2>a, <2>c, <2>d DEF Audit!ShippedIsStored, Audit!Stored
  <2> QED BY <2>2, <2>3, <2>4, <2>5, <2>6, <2>7
<1>5. ASSUME Audit!ListPending
      PROVE  /\ Audit!TypeOK' /\ Audit!HeadsHeld' /\ Audit!BlankHeads' /\ Audit!PutIsStored'
             /\ Audit!WorkspaceChainsVerify' /\ Audit!ShippedIsStored'
  <2>1. /\ shipper' = [todo |-> {i \in DOMAIN auditRows : ~auditRows[i].shipped}, put |-> 0]
        /\ UNCHANGED <<heads, auditRows, call, store, shipFaults, deletes, partnerGone>>
    BY <1>5, Zenon DEF Audit!ListPending
  <2>a. /\ shipper' \in [todo : SUBSET (1..Len(auditRows)), put : 0..Len(auditRows)]
        /\ shipper'.put = 0
    BY <2>1 DEF Audit!TypeOK
  <2>2. Audit!TypeOK'
    BY <2>1, <2>a DEF Audit!TypeOK
  <2>3. Audit!HeadsHeld'
    BY <2>1, <2>a, <2>2 DEF Audit!HeadsHeld
  <2>4. Audit!BlankHeads'
    BY <2>1, <2>a, <2>2 DEF Audit!BlankHeads, Audit!Chain
  <2>5. Audit!PutIsStored'
    BY <2>1, <2>a, <2>2 DEF Audit!PutIsStored, Audit!Stored, Audit!RowHash, Audit!CanonicalRow
  <2>6. Audit!WorkspaceChainsVerify'
    BY <2>1, <2>a, <2>2 DEF Audit!WorkspaceChainsVerify, Audit!VerifyChain, Audit!Chain,
       Audit!RowHash, Audit!CanonicalRow
  <2>7. Audit!ShippedIsStored'
    BY <2>1, <2>a, <2>2 DEF Audit!ShippedIsStored, Audit!Stored, Audit!RowHash,
       Audit!CanonicalRow
  <2> QED BY <2>2, <2>3, <2>4, <2>5, <2>6, <2>7
<1>6. ASSUME Audit!PutObject
      PROVE  /\ Audit!TypeOK' /\ Audit!HeadsHeld' /\ Audit!BlankHeads' /\ Audit!PutIsStored'
             /\ Audit!WorkspaceChainsVerify' /\ Audit!ShippedIsStored'
  <2>1. PICK n \in shipper.todo : /\ store' = {o \in store : o.key # n} \cup {Audit!Payload(n)}
        /\ shipper' = [shipper EXCEPT !.put = n]
        /\ UNCHANGED <<heads, auditRows, call, shipFaults, deletes, partnerGone>>
    BY <1>6, Zenon DEF Audit!PutObject
  <2>a. /\ auditRows \in Seq(Audit!Events) /\ Len(auditRows) \in Nat
        /\ DOMAIN auditRows = 1..Len(auditRows)
        /\ \A i \in 1..Len(auditRows) : auditRows[i] \in Audit!Events
    BY DEF Audit!TypeOK
  <2>b. /\ n \in 1..Len(auditRows)
        /\ shipper' \in [todo : SUBSET (1..Len(auditRows)), put : 0..Len(auditRows)]
        /\ shipper'.put = n
    BY <2>1, <2>a DEF Audit!TypeOK
  <2>c. /\ auditRows[n].prev \in Seq(Audit!Contents)
        /\ Audit!CanonicalRow(auditRows[n]) \in Audit!Contents
    BY <2>a, <2>b DEF Audit!CanonicalRow, Audit!Events, Audit!Contents
  <2>d. Audit!RowHash(auditRows[n]) \in Seq(Audit!Contents)
    BY <2>c DEF Audit!RowHash
  <2>e. /\ Audit!Payload(n) \in [key : 1..Len(auditRows), prev : Seq(Audit!Contents),
             row : Audit!Contents, hash : Seq(Audit!Contents)]
        /\ Audit!Payload(n).key = n /\ Audit!Payload(n).prev = auditRows[n].prev
        /\ Audit!Payload(n).hash = Audit!RowHash(auditRows[n])
    BY <2>b, <2>c, <2>d DEF Audit!Payload
  <2>f. store' \subseteq [key : 1..Len(auditRows), prev : Seq(Audit!Contents),
            row : Audit!Contents, hash : Seq(Audit!Contents)]
    BY <2>1, <2>e DEF Audit!TypeOK
  <2>g. \A j \in 1..Len(auditRows) : Audit!Stored(j) => Audit!Stored(j)'
    BY <2>1, <2>a, <2>b, <2>e DEF Audit!Stored, Audit!RowHash, Audit!CanonicalRow
  <2>h. Audit!Stored(n)'
    BY <2>1, <2>a, <2>b, <2>e DEF Audit!Stored, Audit!RowHash, Audit!CanonicalRow
  <2>2. Audit!TypeOK'
    BY <2>1, <2>b, <2>f DEF Audit!TypeOK
  <2>3. Audit!HeadsHeld'
    BY <2>1, <2>a, <2>b, <2>c, <2>d, <2>e, <2>f, <2>g, <2>h, <2>2 DEF Audit!HeadsHeld
  <2>4. Audit!BlankHeads'
    BY <2>1 DEF Audit!BlankHeads, Audit!Chain
  <2>5. Audit!PutIsStored'
    BY <2>1, <2>b, <2>h DEF Audit!PutIsStored
  <2>6. Audit!WorkspaceChainsVerify'
    BY <2>1 DEF Audit!WorkspaceChainsVerify, Audit!VerifyChain, Audit!Chain, Audit!RowHash,
       Audit!CanonicalRow
  <2>7. Audit!ShippedIsStored'
    BY <2>1, <2>a, <2>g DEF Audit!ShippedIsStored
  <2> QED BY <2>2, <2>3, <2>4, <2>5, <2>6, <2>7
<1>7. ASSUME Audit!StampShipped
      PROVE  /\ Audit!TypeOK' /\ Audit!HeadsHeld' /\ Audit!BlankHeads' /\ Audit!PutIsStored'
             /\ Audit!WorkspaceChainsVerify' /\ Audit!ShippedIsStored'
  <2>1. /\ shipper.put # 0
        /\ auditRows' = [auditRows EXCEPT ![shipper.put].shipped = TRUE]
        /\ shipper' = [todo |-> shipper.todo \ {shipper.put}, put |-> 0]
        /\ UNCHANGED <<heads, call, store, shipFaults, deletes, partnerGone>>
    BY <1>7, Zenon DEF Audit!StampShipped
  <2>a. /\ auditRows \in Seq(Audit!Events) /\ Len(auditRows) \in Nat
        /\ DOMAIN auditRows = 1..Len(auditRows)
        /\ \A i \in 1..Len(auditRows) : auditRows[i] \in Audit!Events
    BY DEF Audit!TypeOK
  <2>b. /\ shipper.put \in 1..Len(auditRows)
        /\ shipper' \in [todo : SUBSET (1..Len(auditRows)), put : 0..Len(auditRows)]
        /\ shipper'.put = 0
    BY <2>1, <2>a DEF Audit!TypeOK
  <2>c. /\ [auditRows[shipper.put] EXCEPT !.shipped = TRUE] \in Audit!Events
        /\ auditRows'[shipper.put] = [auditRows[shipper.put] EXCEPT !.shipped = TRUE]
    BY <2>1, <2>a, <2>b DEF Audit!Events
  <2>d. \A i \in 1..Len(auditRows) : i # shipper.put => auditRows'[i] = auditRows[i]
    BY <2>1, <2>a, <2>b
  <2>e. /\ auditRows' \in Seq(Audit!Events) /\ Len(auditRows') = Len(auditRows)
        /\ DOMAIN auditRows' = DOMAIN auditRows
    BY <2>1, <2>a, <2>b, <2>c
  <2>f. \A i \in 1..Len(auditRows) : auditRows'[i].scope = auditRows[i].scope
            /\ auditRows'[i].prev = auditRows[i].prev
            /\ auditRows'[i].partner = auditRows[i].partner
            /\ auditRows'[i].nonce = auditRows[i].nonce
    BY <2>a, <2>b, <2>c, <2>d DEF Audit!Events
  <2>g. \A i \in 1..Len(auditRows) :
            Audit!RowHash(auditRows[i])' = Audit!RowHash(auditRows[i])
            /\ Audit!Stored(i)' = Audit!Stored(i)
    BY <2>1, <2>f DEF Audit!Stored, Audit!RowHash, Audit!CanonicalRow
  <2>h. \A s \in Scopes : Audit!Chain(s)' = Audit!Chain(s)
            /\ Audit!Chain(s) \subseteq 1..Len(auditRows)
    BY <2>a, <2>e, <2>f DEF Audit!Chain
  <2>2. Audit!TypeOK'
    BY <2>1, <2>b, <2>e DEF Audit!TypeOK
  <2>3. Audit!HeadsHeld'
    BY <2>1 DEF Audit!HeadsHeld
  <2>4. Audit!BlankHeads'
    BY <2>1, <2>h DEF Audit!BlankHeads
  <2>5. Audit!PutIsStored'
    BY <2>b DEF Audit!PutIsStored
  <2>6. Audit!WorkspaceChainsVerify'
    <3> SUFFICES ASSUME ~partnerGone, NEW s \in Scopes
                PROVE  /\ Audit!VerifyChain(Audit!Chain(s))'
                       /\ (\A i \in Audit!Chain(s) : (\A j \in Audit!Chain(s) : j <= i) =>
                           heads[s] = Audit!RowHash(auditRows[i]))'
      BY <2>1, Zenon DEF Audit!WorkspaceChainsVerify
    <3>1. /\ Audit!VerifyChain(Audit!Chain(s))
        /\ \A i \in Audit!Chain(s) : (\A j \in Audit!Chain(s) : j <= i) =>
            heads[s] = Audit!RowHash(auditRows[i])
      BY Zenon DEF Audit!WorkspaceChainsVerify
    <3>2. Audit!VerifyChain(Audit!Chain(s))'
      BY <3>1, <2>f, <2>g, <2>h DEF Audit!VerifyChain
    <3> QED BY <3>1, <3>2, <2>1, <2>g, <2>h
  <2>7. Audit!ShippedIsStored'
    BY <2>1, <2>a, <2>b, <2>d, <2>e, <2>g DEF Audit!ShippedIsStored, Audit!PutIsStored
  <2> QED BY <2>2, <2>3, <2>4, <2>5, <2>6, <2>7
<1>8. ASSUME Audit!ShipFails
      PROVE  /\ Audit!TypeOK' /\ Audit!HeadsHeld' /\ Audit!BlankHeads' /\ Audit!PutIsStored'
             /\ Audit!WorkspaceChainsVerify' /\ Audit!ShippedIsStored'
  <2>1. /\ shipFaults < MaxShipFaults
        /\ shipFaults' = shipFaults + 1
        /\ shipper' = [todo |-> {}, put |-> 0]
        /\ UNCHANGED <<heads, auditRows, call, store, deletes, partnerGone>>
    BY <1>8, Zenon DEF Audit!ShipFails
  <2>a. /\ auditRows \in Seq(Audit!Events) /\ Len(auditRows) \in Nat
        /\ DOMAIN auditRows = 1..Len(auditRows)
        /\ \A i \in 1..Len(auditRows) : auditRows[i] \in Audit!Events
    BY DEF Audit!TypeOK
  <2>b. /\ shipper' \in [todo : SUBSET (1..Len(auditRows)), put : 0..Len(auditRows)]
        /\ shipper'.put = 0
    BY <2>1, <2>a
  <2>2. Audit!TypeOK'
    BY <2>1, <2>a, <2>b DEF Audit!TypeOK
  <2>3. Audit!HeadsHeld'
    BY <2>1, <2>a, <2>b, <2>2 DEF Audit!HeadsHeld
  <2>4. Audit!BlankHeads'
    BY <2>1, <2>a, <2>b, <2>2 DEF Audit!BlankHeads, Audit!Chain
  <2>5. Audit!PutIsStored'
    BY <2>1, <2>a, <2>b, <2>2 DEF Audit!PutIsStored, Audit!Stored, Audit!RowHash,
       Audit!CanonicalRow
  <2>6. Audit!WorkspaceChainsVerify'
    BY <2>1, <2>a, <2>b, <2>2 DEF Audit!WorkspaceChainsVerify, Audit!VerifyChain, Audit!Chain,
       Audit!RowHash, Audit!CanonicalRow
  <2>7. Audit!ShippedIsStored'
    BY <2>1, <2>a, <2>b, <2>2 DEF Audit!ShippedIsStored, Audit!Stored, Audit!RowHash,
       Audit!CanonicalRow
  <2> QED BY <2>2, <2>3, <2>4, <2>5, <2>6, <2>7
<1>9. CASE UNCHANGED auditState
  BY <1>9 DEF auditState, Audit!TypeOK, Audit!HeadsHeld, Audit!BlankHeads, Audit!Chain,
     Audit!PutIsStored, Audit!Stored, Audit!RowHash, Audit!CanonicalRow,
     Audit!WorkspaceChainsVerify, Audit!VerifyChain, Audit!ShippedIsStored
<1> QED
  BY <1>1, <1>2, <1>3, <1>4, <1>5, <1>6, <1>7, <1>8, <1>9 DEF Audit!Next

\* The trail, wherever audits and their shipping are what moves.
AuditAll == focus = "audit" => Audit!TypeOK /\ Audit!HeadsHeld /\ Audit!BlankHeads
    /\ Audit!PutIsStored /\ Audit!WorkspaceChainsVerify /\ Audit!ShippedIsStored

\* The composition keeps the invariant of the audit trail.
LEMMA AuditInvariant == Spec => []AuditAll
<1>1. Init => AuditAll
  <2> SUFFICES ASSUME Audit!Init
               PROVE  /\ Audit!TypeOK /\ Audit!HeadsHeld /\ Audit!BlankHeads
                      /\ Audit!PutIsStored /\ Audit!WorkspaceChainsVerify
                      /\ Audit!ShippedIsStored
    BY DEF Init, AuditStarts, AuditAll
  <2>a. /\ heads = [s \in Scopes |-> Audit!Genesis] /\ auditRows = <<>>
        /\ call = [c \in Callers |-> Audit!Done]
        /\ store = {} /\ shipper = [todo |-> {}, put |-> 0] /\ shipFaults = 0 /\ deletes = 0
    BY Zenon DEF Audit!Init
  <2>b. partnerGone \in BOOLEAN
    BY Zenon DEF Audit!Init
  <2>c. /\ Audit!Genesis \in Seq(Audit!Contents) /\ Audit!Done \in Audit!Calls
        /\ Audit!Done.at = "idle"
    BY DEF Audit!Genesis, Audit!Calls, Audit!Done
  <2>d. auditRows \in Seq(Audit!Events) /\ Len(auditRows) = 0 /\ DOMAIN auditRows = {}
    BY <2>a
  <2>1. Audit!TypeOK
    BY <2>a, <2>b, <2>c, <2>d, AuditBounds DEF Audit!TypeOK
  <2>2. Audit!HeadsHeld
    BY <2>a, <2>c DEF Audit!HeadsHeld
  <2>3. Audit!BlankHeads
    BY <2>a DEF Audit!BlankHeads
  <2>4. Audit!PutIsStored
    BY <2>a DEF Audit!PutIsStored
  <2>5. Audit!WorkspaceChainsVerify
    BY <2>d DEF Audit!WorkspaceChainsVerify, Audit!VerifyChain, Audit!Chain
  <2>6. Audit!ShippedIsStored
    BY <2>d DEF Audit!ShippedIsStored
  <2> QED BY <2>1, <2>2, <2>3, <2>4, <2>5, <2>6
<1>2. AuditAll /\ [Next]_allVars => AuditAll'
  <2> SUFFICES ASSUME AuditAll, [Next]_allVars, focus = "audit"
               PROVE  /\ Audit!TypeOK' /\ Audit!HeadsHeld' /\ Audit!BlankHeads'
                      /\ Audit!PutIsStored' /\ Audit!WorkspaceChainsVerify'
                      /\ Audit!ShippedIsStored'
    BY OneAtATime DEF AuditAll
  <2>1. /\ Audit!TypeOK /\ Audit!HeadsHeld /\ Audit!BlankHeads /\ Audit!PutIsStored
        /\ Audit!WorkspaceChainsVerify /\ Audit!ShippedIsStored /\ [Audit!Next]_auditState
    BY OneAtATime DEF AuditAll
  <2> QED BY <2>1, AuditNext
<1> QED BY <1>1, <1>2, PTL DEF Spec

\* core/audit.py, core/audit_ship.py: the rows of every workspace verify as one chain that ends in its head
\* as long as no partner of the trail is deleted, and a row that counts as shipped is in the
\* bucket, for any number of workspaces, transactions, rows, faults and re-puts.
THEOREM TrailTheorem == Spec => []TrailHolds
<1>1. AuditAll => TrailHolds
  BY DEF AuditAll, TrailHolds
<1> QED BY <1>1, AuditInvariant, PTL

---------------------------------------------------------------------------
(* The live panel *)

\* A step of a producer, of the socket, of a snapshot view and of the client keeps the seqs honest.
LEMMA LiveNext ==
    /\ Live!TypeOK /\ Live!Numbered /\ Live!SnapshotCovers /\ Live!SeqIsHonest
    /\ [Live!Next]_liveState
    => /\ Live!TypeOK' /\ Live!Numbered' /\ Live!SnapshotCovers' /\ Live!SeqIsHonest'
<1> SUFFICES ASSUME Live!TypeOK, Live!Numbered, Live!SnapshotCovers, Live!SeqIsHonest,
        [Live!Next]_liveState
             PROVE  Live!TypeOK' /\ Live!Numbered' /\ Live!SnapshotCovers' /\ Live!SeqIsHonest'
  OBVIOUS
<1> USE LiveBounds
<1>1. ASSUME NEW r \in Rows, Live!SaveRow(r)
      PROVE  /\ Live!TypeOK' /\ Live!Numbered' /\ Live!SnapshotCovers' /\ Live!SeqIsHonest'
  <2>1. /\ producer[r] = "idle"
        /\ table[r] < MaxVersion
        /\ table' = [table EXCEPT ![r] = @ + 1]
        /\ producer' = [producer EXCEPT ![r] = "saved"]
        /\ UNCHANGED <<topicSeq, told, wire, foreign, status, last, view, fetch, frame, member,
            blind, drops, polls>>
    BY <1>1, Zenon DEF Live!SaveRow, Live!ServerSide
  <2>a. /\ table \in [Rows -> 0..MaxVersion] /\ view \in [Rows -> 0..MaxVersion]
        /\ \A q \in Rows : table[q] \in 0..MaxVersion /\ view[q] \in 0..MaxVersion
    BY <2>1 DEF Live!TypeOK, Live!Versions, Live!Places
  <2>b. \A d \in told : d.seq \in 1..topicSeq /\ d.row \in Rows /\ d.ver \in 0..MaxVersion
    BY <2>1, <2>a DEF Live!TypeOK
  <2>c. table' \in Live!Versions /\ \A q \in Rows : table'[q] >= table[q]
    BY <2>1, <2>a, <2>b DEF Live!Versions
  <2>2. Live!TypeOK'
    BY <2>1, <2>a, <2>b, <2>c DEF Live!TypeOK, Live!Versions, Live!Places
  <2>3. Live!Numbered'
    BY <2>1, <2>a, <2>b, <2>c, <2>2 DEF Live!Numbered
  <2>4. Live!SnapshotCovers'
    BY <2>1, <2>a, <2>b, <2>c, <2>2 DEF Live!SnapshotCovers
  <2>5. Live!SeqIsHonest'
    BY <2>1, <2>a, <2>b, <2>c, <2>2 DEF Live!SeqIsHonest
  <2> QED BY <2>2, <2>3, <2>4, <2>5
<1>2. ASSUME NEW r \in Rows, Live!NextSeq(r)
      PROVE  /\ Live!TypeOK' /\ Live!Numbered' /\ Live!SnapshotCovers' /\ Live!SeqIsHonest'
  <2>1. /\ producer[r] = "saved"
        /\ topicSeq' = topicSeq + 1
        /\ told' = told \cup {[seq |-> topicSeq + 1, row |-> r, ver |-> table[r]]}
        /\ producer' = [producer EXCEPT ![r] = "numbered"]
        /\ UNCHANGED <<table, wire, foreign, status, last, view, fetch, frame, member, blind,
            drops, polls>>
    BY <1>2, Zenon DEF Live!NextSeq, Live!ServerSide
  <2>a. topicSeq \in Nat /\ last \in 0..topicSeq
    BY <2>1 DEF Live!TypeOK
  <2>b. /\ table \in [Rows -> 0..MaxVersion] /\ view \in [Rows -> 0..MaxVersion]
        /\ \A q \in Rows : table[q] \in 0..MaxVersion /\ view[q] \in 0..MaxVersion
    BY <2>1, <2>a DEF Live!TypeOK, Live!Versions, Live!Places
  <2>c. \A d \in told : d.seq \in 1..topicSeq /\ d.row \in Rows /\ d.ver \in 0..MaxVersion
    BY <2>1, <2>a, <2>b DEF Live!TypeOK
  <2>d. /\ topicSeq \in Nat
        /\ \A q \in Syncs : fetch[q] \in [at : Live!Places, seq : 0..topicSeq,
             rows : Live!Versions]
    BY <2>1, <2>a, <2>b, <2>c DEF Live!TypeOK
  <2>e. fetch \in [Syncs -> [at : Live!Places, seq : 0..(topicSeq + 1), rows : Live!Versions]]
    BY <2>1, <2>a, <2>b, <2>c, <2>d DEF Live!TypeOK, Live!Versions, Live!Places
  <2>f. told' \subseteq [seq : 1..(topicSeq + 1), row : Rows, ver : 0..MaxVersion]
    BY <2>1, <2>a, <2>b, <2>c, <2>d, <2>e DEF Live!TypeOK
  <2>2. Live!TypeOK'
    BY <2>1, <2>a, <2>b, <2>c, <2>d, <2>e, <2>f DEF Live!TypeOK, Live!Versions, Live!Places
  <2>3. Live!Numbered'
    BY <2>1, <2>a, <2>b, <2>c, <2>d, <2>e, <2>f, <2>2 DEF Live!Numbered
  <2>4. Live!SnapshotCovers'
    BY <2>1, <2>a, <2>b, <2>c, <2>d, <2>e, <2>f, <2>2 DEF Live!SnapshotCovers
  <2>5. Live!SeqIsHonest'
    BY <2>1, <2>a, <2>b, <2>c, <2>d, <2>e, <2>f, <2>2 DEF Live!SeqIsHonest
  <2> QED BY <2>2, <2>3, <2>4, <2>5
<1>3. ASSUME NEW r \in Rows, Live!GroupSend(r)
      PROVE  /\ Live!TypeOK' /\ Live!Numbered' /\ Live!SnapshotCovers' /\ Live!SeqIsHonest'
  <2>1. PICK e \in told : /\ producer[r] = "numbered"
        /\ producer' = [producer EXCEPT ![r] = "idle"]
        /\ wire' \in {wire, wire \cup {e}}
        /\ UNCHANGED <<table, topicSeq, told, foreign, status, last, view, fetch, frame,
            member, blind, drops, polls>>
    BY <1>3, SMT DEF Live!GroupSend, Live!ServerSide
  <2>a. wire' \subseteq told'
    BY <2>1 DEF Live!TypeOK
  <2>2. Live!TypeOK'
    BY <2>1, <2>a DEF Live!TypeOK, Live!Versions, Live!Places
  <2>3. Live!Numbered'
    BY <2>1, <2>a, <2>2 DEF Live!Numbered
  <2>4. Live!SnapshotCovers'
    BY <2>1, <2>a, <2>2 DEF Live!SnapshotCovers
  <2>5. Live!SeqIsHonest'
    BY <2>1, <2>a, <2>2 DEF Live!SeqIsHonest
  <2> QED BY <2>2, <2>3, <2>4, <2>5
<1>4. ASSUME NEW f \in Syncs, Live!Connect(f)
      PROVE  /\ Live!TypeOK' /\ Live!Numbered' /\ Live!SnapshotCovers' /\ Live!SeqIsHonest'
  <2>1. /\ status' = "live"
        /\ fetch' = [fetch EXCEPT ![f] = [at |-> "asked", seq |-> 0, rows |-> Live!Bottom]]
        /\ UNCHANGED <<table, producer, topicSeq, told, foreign, wire, member, frame, last,
            view, blind, drops, polls>>
    BY <1>4, Zenon DEF Live!Connect, Live!TableSide, Live!Ask
  <2>a. \A d \in told : d.seq \in 1..topicSeq /\ d.row \in Rows /\ d.ver \in 0..MaxVersion
    BY <2>1 DEF Live!TypeOK
  <2>b. /\ topicSeq \in Nat
        /\ \A q \in Syncs : fetch[q] \in [at : Live!Places, seq : 0..topicSeq,
             rows : Live!Versions]
    BY <2>1, <2>a DEF Live!TypeOK
  <2>c. [at |-> "asked", seq |-> 0, rows |-> Live!Bottom] \in [at : Live!Places,
            seq : 0..topicSeq, rows : Live!Versions]
    BY LiveBounds, <2>b DEF Live!Versions, Live!Places, Live!Bottom
  <2>2. Live!TypeOK'
    BY <2>1, <2>a, <2>b, <2>c DEF Live!TypeOK, Live!Versions, Live!Places
  <2>3. Live!Numbered'
    BY <2>1, <2>a, <2>b, <2>c, <2>2 DEF Live!Numbered
  <2>4. Live!SnapshotCovers'
    BY <2>1, <2>a, <2>b, <2>c, <2>2 DEF Live!SnapshotCovers
  <2>5. Live!SeqIsHonest'
    BY <2>1, <2>a, <2>b, <2>c, <2>2 DEF Live!SeqIsHonest
  <2> QED BY <2>2, <2>3, <2>4, <2>5
<1>5. ASSUME NEW f \in Syncs, Live!Poll(f)
      PROVE  /\ Live!TypeOK' /\ Live!Numbered' /\ Live!SnapshotCovers' /\ Live!SeqIsHonest'
  <2>1. /\ polls < MaxPolls
        /\ polls' = polls + 1
        /\ fetch' = [fetch EXCEPT ![f] = [at |-> "asked", seq |-> 0, rows |-> Live!Bottom]]
        /\ UNCHANGED <<table, producer, topicSeq, told, foreign, wire, member, frame, status,
            last, view, blind, drops>>
    BY <1>5, Zenon DEF Live!Poll, Live!TableSide, Live!Ask
  <2>a. \A d \in told : d.seq \in 1..topicSeq /\ d.row \in Rows /\ d.ver \in 0..MaxVersion
    BY <2>1 DEF Live!TypeOK
  <2>b. /\ topicSeq \in Nat
        /\ \A q \in Syncs : fetch[q] \in [at : Live!Places, seq : 0..topicSeq,
             rows : Live!Versions]
    BY <2>1, <2>a DEF Live!TypeOK
  <2>c. [at |-> "asked", seq |-> 0, rows |-> Live!Bottom] \in [at : Live!Places,
            seq : 0..topicSeq, rows : Live!Versions]
    BY LiveBounds, <2>b DEF Live!Versions, Live!Places, Live!Bottom
  <2>2. Live!TypeOK'
    BY <2>1, <2>a, <2>b, <2>c DEF Live!TypeOK, Live!Versions, Live!Places
  <2>3. Live!Numbered'
    BY <2>1, <2>a, <2>b, <2>c, <2>2 DEF Live!Numbered
  <2>4. Live!SnapshotCovers'
    BY <2>1, <2>a, <2>b, <2>c, <2>2 DEF Live!SnapshotCovers
  <2>5. Live!SeqIsHonest'
    BY <2>1, <2>a, <2>b, <2>c, <2>2 DEF Live!SeqIsHonest
  <2> QED BY <2>2, <2>3, <2>4, <2>5
<1>6. ASSUME NEW f \in Syncs, Live!SnapshotSeq(f)
      PROVE  /\ Live!TypeOK' /\ Live!Numbered' /\ Live!SnapshotCovers' /\ Live!SeqIsHonest'
  <2>1. /\ fetch[f].at = "asked"
        /\ fetch' = [fetch EXCEPT ![f] = [at |-> "seq", seq |-> topicSeq, rows |-> Live!Bottom]]
        /\ UNCHANGED <<table, producer, topicSeq, told, foreign, wire, member, frame, status,
            last, view, blind, drops, polls>>
    BY <1>6, Zenon DEF Live!SnapshotSeq, Live!TableSide
  <2>a. \A d \in told : d.seq \in 1..topicSeq /\ d.row \in Rows /\ d.ver \in 0..MaxVersion
    BY <2>1 DEF Live!TypeOK
  <2>b. /\ topicSeq \in Nat
        /\ \A q \in Syncs : fetch[q] \in [at : Live!Places, seq : 0..topicSeq,
             rows : Live!Versions]
    BY <2>1, <2>a DEF Live!TypeOK
  <2>c. [at |-> "seq", seq |-> topicSeq, rows |-> Live!Bottom] \in [at : Live!Places,
            seq : 0..topicSeq, rows : Live!Versions]
    BY LiveBounds, <2>b DEF Live!Versions, Live!Places, Live!Bottom
  <2>2. Live!TypeOK'
    BY <2>1, <2>a, <2>b, <2>c DEF Live!TypeOK, Live!Versions, Live!Places
  <2>3. Live!Numbered'
    BY <2>1, <2>a, <2>b, <2>c, <2>2 DEF Live!Numbered
  <2>4. Live!SnapshotCovers'
    BY <2>1, <2>a, <2>b, <2>c, <2>2 DEF Live!SnapshotCovers
  <2>5. Live!SeqIsHonest'
    BY <2>1, <2>a, <2>b, <2>c, <2>2 DEF Live!SeqIsHonest
  <2> QED BY <2>2, <2>3, <2>4, <2>5
<1>7. ASSUME NEW f \in Syncs, Live!SnapshotRows(f)
      PROVE  /\ Live!TypeOK' /\ Live!Numbered' /\ Live!SnapshotCovers' /\ Live!SeqIsHonest'
  <2>1. /\ fetch[f].at = "seq"
        /\ fetch' = [fetch EXCEPT ![f] = [at |-> "answered", seq |-> fetch[f].seq,
            rows |-> table]]
        /\ UNCHANGED <<table, producer, topicSeq, told, foreign, wire, member, frame, status,
            last, view, blind, drops, polls>>
    BY <1>7, Zenon DEF Live!SnapshotRows, Live!TableSide
  <2>a. \A d \in told : d.seq \in 1..topicSeq /\ d.row \in Rows /\ d.ver \in 0..MaxVersion
    BY <2>1 DEF Live!TypeOK
  <2>b. /\ topicSeq \in Nat
        /\ \A q \in Syncs : fetch[q] \in [at : Live!Places, seq : 0..topicSeq,
             rows : Live!Versions]
    BY <2>1, <2>a DEF Live!TypeOK
  <2>c. [at |-> "answered", seq |-> fetch[f].seq, rows |-> table] \in [at : Live!Places,
            seq : 0..topicSeq, rows : Live!Versions]
    BY <2>b DEF Live!Places, Live!TypeOK
  <2>d. \A e \in told : e.ver <= table[e.row]
    BY LiveBounds DEF Live!Numbered
  <2>2. Live!TypeOK'
    BY <2>1, <2>a, <2>b, <2>c, <2>d DEF Live!TypeOK, Live!Versions, Live!Places
  <2>3. Live!Numbered'
    BY <2>1, <2>a, <2>b, <2>c, <2>d, <2>2 DEF Live!Numbered
  <2>4. Live!SnapshotCovers'
    BY <2>1, <2>a, <2>b, <2>c, <2>d, <2>2 DEF Live!SnapshotCovers
  <2>5. Live!SeqIsHonest'
    BY <2>1, <2>a, <2>b, <2>c, <2>d, <2>2 DEF Live!SeqIsHonest
  <2> QED BY <2>2, <2>3, <2>4, <2>5
<1>8. ASSUME NEW f \in Syncs, NEW ok \in BOOLEAN, Live!Synced(f, ok)
      PROVE  /\ Live!TypeOK' /\ Live!Numbered' /\ Live!SnapshotCovers' /\ Live!SeqIsHonest'
  <2>1. CASE ok
    <3>1. /\ fetch[f].at = "answered"
          /\ fetch' = [fetch EXCEPT ![f] = [at |-> "none", seq |-> 0, rows |-> Live!Bottom]]
          /\ last' = fetch[f].seq
          /\ view' = fetch[f].rows
          /\ frame' \in BOOLEAN
          /\ UNCHANGED <<table, producer, topicSeq, told, foreign, drops, wire, member, status,
              blind, polls>>
      BY <1>8, <2>1, Zenon DEF Live!Synced, Live!TableSide, Live!NoFetch, Live!Open
    <3>a. \A d \in told : d.seq \in 1..topicSeq /\ d.row \in Rows /\ d.ver \in 0..MaxVersion
      BY <3>1, <2>1 DEF Live!TypeOK
    <3>b. /\ topicSeq \in Nat
          /\ \A q \in Syncs : fetch[q] \in [at : Live!Places, seq : 0..topicSeq,
               rows : Live!Versions]
      BY <3>1, <2>1, <3>a DEF Live!TypeOK
    <3>c. [at |-> "none", seq |-> 0, rows |-> Live!Bottom] \in [at : Live!Places,
              seq : 0..topicSeq, rows : Live!Versions]
      BY LiveBounds, <3>b DEF Live!Versions, Live!Places, Live!Bottom
    <3>d. last' \in 0..topicSeq /\ view' \in Live!Versions
      BY <3>1, <2>1, <3>a, <3>b, <3>c
    <3>2. Live!TypeOK'
      BY <3>1, <2>1, <3>a, <3>b, <3>c, <3>d DEF Live!TypeOK, Live!Versions, Live!Places
    <3>3. Live!Numbered'
      BY <3>1, <2>1, <3>a, <3>b, <3>c, <3>d, <3>2 DEF Live!Numbered
    <3>4. Live!SnapshotCovers'
      BY <3>1, <2>1, <3>a, <3>b, <3>c, <3>d, <3>2 DEF Live!SnapshotCovers
    <3>5. Live!SeqIsHonest'
      BY <3>1, <2>1, <3>a, <3>b, <3>c, <3>d, <3>2 DEF Live!SeqIsHonest, Live!SnapshotCovers
    <3> QED BY <3>2, <3>3, <3>4, <3>5
  <2>2. CASE ~ok
    <3>1. /\ fetch[f].at = "answered"
          /\ fetch' = [fetch EXCEPT ![f] = [at |-> "none", seq |-> 0, rows |-> Live!Bottom]]
          /\ frame' \in BOOLEAN
          /\ drops < MaxDrops
          /\ drops' = drops + 1
          /\ UNCHANGED <<table, producer, topicSeq, told, foreign, last, view, wire, member,
              status, blind, polls>>
      BY <1>8, <2>2, Zenon DEF Live!Synced, Live!TableSide, Live!NoFetch, Live!Open
    <3>a. \A d \in told : d.seq \in 1..topicSeq /\ d.row \in Rows /\ d.ver \in 0..MaxVersion
      BY <3>1, <2>2 DEF Live!TypeOK
    <3>b. /\ topicSeq \in Nat
          /\ \A q \in Syncs : fetch[q] \in [at : Live!Places, seq : 0..topicSeq,
               rows : Live!Versions]
      BY <3>1, <2>2, <3>a DEF Live!TypeOK
    <3>c. [at |-> "none", seq |-> 0, rows |-> Live!Bottom] \in [at : Live!Places,
              seq : 0..topicSeq, rows : Live!Versions]
      BY LiveBounds, <3>b DEF Live!Versions, Live!Places, Live!Bottom
    <3>2. Live!TypeOK'
      BY <3>1, <2>2, <3>a, <3>b, <3>c DEF Live!TypeOK, Live!Versions, Live!Places
    <3>3. Live!Numbered'
      BY <3>1, <2>2, <3>a, <3>b, <3>c, <3>2 DEF Live!Numbered
    <3>4. Live!SnapshotCovers'
      BY <3>1, <2>2, <3>a, <3>b, <3>c, <3>2 DEF Live!SnapshotCovers
    <3>5. Live!SeqIsHonest'
      BY <3>1, <2>2, <3>a, <3>b, <3>c, <3>2 DEF Live!SeqIsHonest
    <3> QED BY <3>2, <3>3, <3>4, <3>5
  <2> QED BY <2>1, <2>2
<1>9. ASSUME NEW e \in wire, Live!OnMessage(e)
      PROVE  /\ Live!TypeOK' /\ Live!Numbered' /\ Live!SnapshotCovers' /\ Live!SeqIsHonest'
  <2>1. CASE UNCHANGED <<last, view, fetch>>
    <3>1. /\ wire' = wire \ {e}
          /\ blind' = (blind \/ (e.seq > last /\ last = 0))
          /\ UNCHANGED <<table, producer, topicSeq, told, foreign, member, frame, status,
              drops, polls>>
      BY <1>9, <2>1, Zenon DEF Live!OnMessage, Live!TableSide, Live!Open
    <3>a. blind' \in BOOLEAN /\ (blind => blind')
      BY <3>1, <2>1, Zenon DEF Live!TypeOK
    <3>2. Live!TypeOK'
      BY <3>1, <2>1, <3>a DEF Live!TypeOK, Live!Versions, Live!Places
    <3>3. Live!Numbered'
      BY <3>1, <2>1, <3>a, <3>2 DEF Live!Numbered
    <3>4. Live!SnapshotCovers'
      BY <3>1, <2>1, <3>a, <3>2 DEF Live!SnapshotCovers
    <3>5. Live!SeqIsHonest'
      BY <3>1, <2>1, <3>a, <3>2 DEF Live!SeqIsHonest
    <3> QED BY <3>2, <3>3, <3>4, <3>5
  <2>2. CASE UNCHANGED <<last, view>> /\ \E f \in Syncs : Live!Ask(f)
    <3>1. PICK f \in Syncs : /\ wire' = wire \ {e}
          /\ fetch' = [fetch EXCEPT ![f] = [at |-> "asked", seq |-> 0, rows |-> Live!Bottom]]
          /\ blind' = (blind \/ (e.seq > last /\ last = 0))
          /\ UNCHANGED <<table, producer, topicSeq, told, foreign, member, frame, status,
              drops, polls>>
      BY <1>9, <2>2, Zenon DEF Live!OnMessage, Live!TableSide, Live!Open, Live!Ask
    <3>a. \A d \in told : d.seq \in 1..topicSeq /\ d.row \in Rows /\ d.ver \in 0..MaxVersion
      BY <3>1, <2>2 DEF Live!TypeOK
    <3>b. /\ topicSeq \in Nat
          /\ \A q \in Syncs : fetch[q] \in [at : Live!Places, seq : 0..topicSeq,
               rows : Live!Versions]
      BY <3>1, <2>2, <3>a DEF Live!TypeOK
    <3>c. [at |-> "asked", seq |-> 0, rows |-> Live!Bottom] \in [at : Live!Places,
              seq : 0..topicSeq, rows : Live!Versions]
      BY LiveBounds, <3>b DEF Live!Versions, Live!Places, Live!Bottom
    <3>d. blind' \in BOOLEAN /\ (blind => blind')
      BY <3>1, <2>2, <3>a, <3>b, <3>c, Zenon DEF Live!TypeOK
    <3>2. Live!TypeOK'
      BY <3>1, <2>2, <3>a, <3>b, <3>c, <3>d DEF Live!TypeOK, Live!Versions, Live!Places
    <3>3. Live!Numbered'
      BY <3>1, <2>2, <3>a, <3>b, <3>c, <3>d, <3>2 DEF Live!Numbered
    <3>4. Live!SnapshotCovers'
      BY <3>1, <2>2, <3>a, <3>b, <3>c, <3>d, <3>2 DEF Live!SnapshotCovers
    <3>5. Live!SeqIsHonest'
      BY <3>1, <2>2, <3>a, <3>b, <3>c, <3>d, <3>2 DEF Live!SeqIsHonest
    <3> QED BY <3>2, <3>3, <3>4, <3>5
  <2>3. CASE /\ e.seq > last /\ ~Live!Gap(e) /\ last' = e.seq
             /\ view' = [view EXCEPT ![e.row] = e.ver] /\ UNCHANGED fetch
    <3>1. /\ wire' = wire \ {e}
          /\ blind' = (blind \/ (e.seq > last /\ last = 0))
          /\ UNCHANGED <<table, producer, topicSeq, told, foreign, member, frame, status,
              drops, polls>>
      BY <1>9, <2>3, Zenon DEF Live!OnMessage, Live!TableSide, Live!Open
    <3>a. blind' \in BOOLEAN /\ (blind => blind') /\ (e.seq > last /\ last = 0 => blind')
      BY <3>1, <2>3, Zenon DEF Live!TypeOK
    <3>b. /\ table \in [Rows -> 0..MaxVersion] /\ view \in [Rows -> 0..MaxVersion]
          /\ \A q \in Rows : table[q] \in 0..MaxVersion /\ view[q] \in 0..MaxVersion
      BY <3>1, <2>3, <3>a DEF Live!TypeOK, Live!Versions, Live!Places
    <3>c. \A d \in told : d.seq \in 1..topicSeq /\ d.row \in Rows /\ d.ver \in 0..MaxVersion
      BY <3>1, <2>3, <3>a, <3>b DEF Live!TypeOK
    <3>d. e \in told /\ last \in Nat /\ e.seq > last
      BY <3>1, <2>3, <3>a, <3>b, <3>c DEF Live!TypeOK
    <3>e. ~blind' => last # 0 /\ ~blind
      BY <3>a, <3>d
    <3>f. last # 0 => e.seq = last + 1
      BY <3>1, <2>3, <3>a, <3>b, <3>c, <3>d, <3>e DEF Live!Gap
    <3>2. Live!TypeOK'
      BY <3>1, <2>3, <3>a, <3>b, <3>c, <3>d, <3>e, <3>f DEF Live!TypeOK, Live!Versions,
         Live!Places
    <3>3. Live!Numbered'
      BY <3>1, <2>3, <3>a, <3>b, <3>c, <3>d, <3>e, <3>f, <3>2 DEF Live!Numbered
    <3>4. Live!SnapshotCovers'
      BY <3>1, <2>3, <3>a, <3>b, <3>c, <3>d, <3>e, <3>f, <3>2 DEF Live!SnapshotCovers
    <3>5. Live!SeqIsHonest'
      <4>1. SUFFICES ASSUME ~blind', NEW d \in told, d.seq <= e.seq PROVE view'[d.row] >= d.ver
        BY <3>1, <2>3 DEF Live!SeqIsHonest
      <4>2. e.seq = last + 1 /\ ~blind
        BY <3>e, <3>f, <4>1
      <4>3. CASE d.seq = e.seq
        BY <4>3, <2>3, <3>b, <3>c, <3>d DEF Live!Numbered
      <4>4. CASE d.seq <= last /\ d.row = e.row
        BY <4>4, <4>1, <2>3, <3>b, <3>c, <3>d DEF Live!Numbered
      <4>5. CASE d.seq <= last /\ d.row # e.row
        BY <4>5, <4>2, <2>3, <3>b, <3>c, <3>d DEF Live!SeqIsHonest
      <4> QED BY <4>1, <4>2, <4>3, <4>4, <4>5, <3>c, <3>d
    <3> QED BY <3>2, <3>3, <3>4, <3>5
  <2> QED BY <2>1, <2>2, <2>3, <1>9 DEF Live!OnMessage
<1>10. ASSUME Live!ForeignEvent
       PROVE  /\ Live!TypeOK' /\ Live!Numbered' /\ Live!SnapshotCovers' /\ Live!SeqIsHonest'
  <2>1. /\ foreign < MaxForeign
        /\ foreign' = foreign + 1
        /\ topicSeq' = topicSeq + 1
        /\ UNCHANGED <<table, producer, told, wire, status, last, view, fetch, frame, member,
            blind, drops, polls>>
    BY <1>10, Zenon DEF Live!ForeignEvent, Live!ServerSide
  <2>a. \A d \in told : d.seq \in 1..topicSeq /\ d.row \in Rows /\ d.ver \in 0..MaxVersion
    BY <2>1 DEF Live!TypeOK
  <2>b. /\ topicSeq \in Nat
        /\ \A q \in Syncs : fetch[q] \in [at : Live!Places, seq : 0..topicSeq,
             rows : Live!Versions]
    BY <2>1, <2>a DEF Live!TypeOK
  <2>c. fetch \in [Syncs -> [at : Live!Places, seq : 0..(topicSeq + 1), rows : Live!Versions]]
    BY <2>1, <2>a, <2>b DEF Live!TypeOK, Live!Versions, Live!Places
  <2>d. told \subseteq [seq : 1..(topicSeq + 1), row : Rows, ver : 0..MaxVersion]
    BY <2>1, <2>a, <2>b, <2>c DEF Live!TypeOK
  <2>2. Live!TypeOK'
    BY <2>1, <2>a, <2>b, <2>c, <2>d DEF Live!TypeOK, Live!Versions, Live!Places
  <2>3. Live!Numbered'
    BY <2>1, <2>a, <2>b, <2>c, <2>d, <2>2 DEF Live!Numbered
  <2>4. Live!SnapshotCovers'
    BY <2>1, <2>a, <2>b, <2>c, <2>d, <2>2 DEF Live!SnapshotCovers
  <2>5. Live!SeqIsHonest'
    BY <2>1, <2>a, <2>b, <2>c, <2>d, <2>2 DEF Live!SeqIsHonest
  <2> QED BY <2>2, <2>3, <2>4, <2>5
<1>11. ASSUME Live!Rejected
       PROVE  /\ Live!TypeOK' /\ Live!Numbered' /\ Live!SnapshotCovers' /\ Live!SeqIsHonest'
  <2>1. /\ drops < MaxDrops
        /\ drops' = drops + 1
        /\ status' = "auth-required"
        /\ UNCHANGED <<table, producer, topicSeq, told, foreign, wire, member, frame, last,
            view, fetch, blind, polls>>
    BY <1>11, Zenon DEF Live!Rejected, Live!TableSide
  <2>2. Live!TypeOK'
    BY <2>1 DEF Live!TypeOK, Live!Versions, Live!Places
  <2>3. Live!Numbered'
    BY <2>1, <2>2 DEF Live!Numbered
  <2>4. Live!SnapshotCovers'
    BY <2>1, <2>2 DEF Live!SnapshotCovers
  <2>5. Live!SeqIsHonest'
    BY <2>1, <2>2 DEF Live!SeqIsHonest
  <2> QED BY <2>2, <2>3, <2>4, <2>5
<1>12. ASSUME Live!Drop
       PROVE  /\ Live!TypeOK' /\ Live!Numbered' /\ Live!SnapshotCovers' /\ Live!SeqIsHonest'
  <2>1. /\ drops < MaxDrops
        /\ drops' = drops + 1
        /\ status' = "reconnecting" \/ status' = "degraded"
        /\ member' \in BOOLEAN
        /\ frame' \in BOOLEAN
        /\ wire' = {}
        /\ UNCHANGED <<table, producer, topicSeq, told, foreign, last, view, fetch, blind,
            polls>>
    BY <1>12, Zenon DEF Live!Drop, Live!TableSide, Live!Open
  <2>2. Live!TypeOK'
    BY <2>1 DEF Live!TypeOK, Live!Versions, Live!Places
  <2>3. Live!Numbered'
    BY <2>1, <2>2 DEF Live!Numbered
  <2>4. Live!SnapshotCovers'
    BY <2>1, <2>2 DEF Live!SnapshotCovers
  <2>5. Live!SeqIsHonest'
    BY <2>1, <2>2 DEF Live!SeqIsHonest
  <2> QED BY <2>2, <2>3, <2>4, <2>5
<1>13. ASSUME Live!Subscribe
       PROVE  /\ Live!TypeOK' /\ Live!Numbered' /\ Live!SnapshotCovers' /\ Live!SeqIsHonest'
  <2>1. /\ frame' = FALSE
        /\ member' = TRUE
        /\ UNCHANGED <<table, producer, topicSeq, told, foreign, wire, status, last, view,
            fetch, blind, drops, polls>>
    BY <1>13, Zenon DEF Live!Subscribe, Live!TableSide
  <2>2. Live!TypeOK'
    BY <2>1 DEF Live!TypeOK, Live!Versions, Live!Places
  <2>3. Live!Numbered'
    BY <2>1, <2>2 DEF Live!Numbered
  <2>4. Live!SnapshotCovers'
    BY <2>1, <2>2 DEF Live!SnapshotCovers
  <2>5. Live!SeqIsHonest'
    BY <2>1, <2>2 DEF Live!SeqIsHonest
  <2> QED BY <2>2, <2>3, <2>4, <2>5
<1>14. CASE UNCHANGED liveState
  BY <1>14 DEF liveState, Live!TypeOK, Live!Versions, Live!Places, Live!Numbered,
     Live!SnapshotCovers, Live!SeqIsHonest
<1> QED
  BY <1>1, <1>2, <1>3, <1>4, <1>5, <1>6, <1>7, <1>8, <1>9, <1>10, <1>11, <1>12, <1>13,
     <1>14 DEF Live!Next

\* The seqs, wherever the live panel is what moves.
LiveAll == focus = "live" => Live!TypeOK /\ Live!Numbered /\ Live!SnapshotCovers
    /\ Live!SeqIsHonest

\* The composition keeps the invariant of the live stream.
LEMMA LiveInvariant == Spec => []LiveAll
<1>1. Init => LiveAll
  <2> SUFFICES ASSUME Live!Init
               PROVE  /\ Live!TypeOK /\ Live!Numbered /\ Live!SnapshotCovers /\ Live!SeqIsHonest
    BY DEF Init, LiveStarts, LiveAll
  <2>a. /\ table = Live!Bottom /\ view = Live!Bottom /\ topicSeq = StartSeq /\ told = {}
        /\ wire = {} /\ last = 0
        /\ producer = [r \in Rows |-> "idle"] /\ status = "connecting" /\ drops = 0
        /\ foreign = 0 /\ polls = 0
        /\ fetch = [f \in Syncs |-> Live!NoFetch]
    BY Zenon DEF Live!Init
  <2>b. frame \in BOOLEAN /\ member \in BOOLEAN /\ blind \in BOOLEAN
    BY Zenon DEF Live!Init
  <2>c. Live!Bottom \in Live!Versions
    BY LiveBounds DEF Live!Bottom, Live!Versions
  <2>d. Live!NoFetch \in [at : Live!Places, seq : 0..StartSeq, rows : Live!Versions]
    BY <2>c, LiveBounds DEF Live!NoFetch, Live!Places, Live!Bottom
  <2>1. Live!TypeOK
    BY <2>a, <2>b, <2>c, <2>d, LiveBounds DEF Live!TypeOK
  <2>2. Live!Numbered
    BY <2>a DEF Live!Numbered
  <2>3. Live!SnapshotCovers
    BY <2>a DEF Live!SnapshotCovers
  <2>4. Live!SeqIsHonest
    BY <2>a DEF Live!SeqIsHonest
  <2> QED BY <2>1, <2>2, <2>3, <2>4
<1>2. LiveAll /\ [Next]_allVars => LiveAll'
  <2> SUFFICES ASSUME LiveAll, [Next]_allVars, focus = "live"
               PROVE  /\ Live!TypeOK' /\ Live!Numbered' /\ Live!SnapshotCovers'
                      /\ Live!SeqIsHonest'
    BY OneAtATime DEF LiveAll
  <2>1. /\ Live!TypeOK /\ Live!Numbered /\ Live!SnapshotCovers /\ Live!SeqIsHonest
        /\ [Live!Next]_liveState
    BY OneAtATime DEF LiveAll
  <2> QED BY <2>1, LiveNext
<1> QED BY <1>1, <1>2, PTL DEF Spec

\* realtime/publish.py, frontend/src/useEvents.js: once a snapshot of a topic that has had events has
\* come, whatever was published up to the panel's sequence number is on screen, for any rows,
\* versions, snapshots in flight, reordered sends, gaps and drops.
THEOREM StreamTheorem == Spec => []SeqIsHonest
<1>1. LiveAll => SeqIsHonest
  BY DEF LiveAll, SeqIsHonest
<1> QED BY <1>1, LiveInvariant, PTL

---------------------------------------------------------------------------
(* The drills *)

\* A drill ends in one of the three statuses of its CheckRun.
LEMMA DrillOutcome ==
    ASSUME NEW k \in Drill!Kinds, NEW w \in Drill!World
    PROVE  Drill!Outcome(k, w) \in {"succeeded", "failed", "skipped"}
  BY DrillBounds DEF Drill!Outcome, Drill!Kinds, Drill!HubDownDrill, Drill!ReaperDrill,
     Drill!RestoreCleanDrill, Drill!PagerDrill

\* A run, a lost message and an hour keep the times consistent.
LEMMA DrillNext ==
    Drill!DrillType /\ Drill!Overdue /\ [Drill!Next]_drillState =>
        /\ Drill!DrillType' /\ Drill!Overdue'
<1> SUFFICES ASSUME Drill!DrillType, Drill!Overdue, [Drill!Next]_drillState
             PROVE  Drill!DrillType' /\ Drill!Overdue'
  OBVIOUS
<1> USE DrillBounds DEF Drill!Kinds
<1>1. ASSUME NEW k \in Drill!Kinds, Drill!LoseDrill(k) PROVE Drill!DrillType' /\ Drill!Overdue'
  <2>1. /\ beatAt' = [beatAt EXCEPT ![k] = drillNow + Period[k]]
        /\ lost < MaxLost
        /\ lost' = lost + 1
        /\ UNCHANGED <<drillNow, dueAt, finished, latest, reported, begun>>
    BY <1>1, Zenon DEF Drill!LoseDrill, Drill!Sent
  <2>2. Drill!DrillType'
    BY <2>1 DEF Drill!DrillType, Drill!TypeOK, Drill!Never, Drill!Terminal
  <2>3. Drill!Overdue'
    BY <2>1, <2>2 DEF Drill!DrillType, Drill!TypeOK, Drill!Terminal, Drill!Never,
       Drill!Overdue, Drill!Missed, Drill!MissedExactly
  <2> QED BY <2>2, <2>3
<1>2. ASSUME NEW k \in Drill!Kinds, NEW w \in Drill!World, NEW raises \in BOOLEAN,
             Drill!RunDrill(k, w, raises)
      PROVE  /\ Drill!DrillType' /\ Drill!Overdue'
  <2>1. CASE raises
    <3>1. /\ beatAt' = [beatAt EXCEPT ![k] = drillNow + Period[k]]
          /\ dueAt' = [dueAt EXCEPT ![k] = drillNow + Period[k]]
          /\ begun' = [begun EXCEPT ![k] = drillNow]
          /\ reported' = [reported EXCEPT ![k] = FALSE]
          /\ UNCHANGED <<drillNow, lost>>
          /\ UNCHANGED <<latest, finished>>
      BY <1>2, <2>1, Zenon DEF Drill!RunDrill, Drill!Sent, Drill!SeedDueAt, Drill!RecordRun
    <3>2. Drill!DrillType'
      BY <3>1, <2>1, DrillOutcome DEF Drill!DrillType, Drill!TypeOK, Drill!Never, Drill!Terminal
    <3>3. Drill!Overdue'
      BY <3>1, <2>1, DrillOutcome, <3>2 DEF Drill!DrillType, Drill!TypeOK, Drill!Terminal,
         Drill!Never, Drill!Overdue, Drill!Missed, Drill!MissedExactly
    <3> QED BY <3>2, <3>3
  <2>2. CASE ~raises /\ Drill!Outcome(k, w) \in Drill!Terminal
    <3>1. /\ beatAt' = [beatAt EXCEPT ![k] = drillNow + Period[k]]
          /\ dueAt' = [dueAt EXCEPT ![k] = drillNow + Period[k]]
          /\ begun' = [begun EXCEPT ![k] = drillNow]
          /\ reported' = [reported EXCEPT ![k] = FALSE]
          /\ UNCHANGED <<drillNow, lost>>
          /\ latest' = [latest EXCEPT ![k] = Drill!Outcome(k, w)]
          /\ finished' = [finished EXCEPT ![k] = drillNow]
      BY <1>2, <2>2, Zenon DEF Drill!RunDrill, Drill!Sent, Drill!SeedDueAt, Drill!RecordRun
    <3>2. Drill!DrillType'
      BY <3>1, <2>2, DrillOutcome DEF Drill!DrillType, Drill!TypeOK, Drill!Never, Drill!Terminal
    <3>3. Drill!Overdue'
      BY <3>1, <2>2, DrillOutcome, <3>2 DEF Drill!DrillType, Drill!TypeOK, Drill!Terminal,
         Drill!Never, Drill!Overdue, Drill!Missed, Drill!MissedExactly
    <3> QED BY <3>2, <3>3
  <2>3. CASE ~raises /\ Drill!Outcome(k, w) \notin Drill!Terminal
    <3>1. /\ beatAt' = [beatAt EXCEPT ![k] = drillNow + Period[k]]
          /\ dueAt' = [dueAt EXCEPT ![k] = drillNow + Period[k]]
          /\ begun' = [begun EXCEPT ![k] = drillNow]
          /\ reported' = [reported EXCEPT ![k] = FALSE]
          /\ UNCHANGED <<drillNow, lost>>
          /\ latest' = [latest EXCEPT ![k] = Drill!Outcome(k, w)]
          /\ finished' = [finished EXCEPT ![k] = finished[k]]
      BY <1>2, <2>3, Zenon DEF Drill!RunDrill, Drill!Sent, Drill!SeedDueAt, Drill!RecordRun
    <3>2. Drill!DrillType'
      BY <3>1, <2>3, DrillOutcome DEF Drill!DrillType, Drill!TypeOK, Drill!Never, Drill!Terminal
    <3>3. Drill!Overdue'
      BY <3>1, <2>3, DrillOutcome, <3>2 DEF Drill!DrillType, Drill!TypeOK, Drill!Terminal,
         Drill!Never, Drill!Overdue, Drill!Missed, Drill!MissedExactly
    <3> QED BY <3>2, <3>3
  <2> QED BY <2>1, <2>2, <2>3
<1>3. ASSUME Drill!Hour PROVE Drill!DrillType' /\ Drill!Overdue'
  <2>1. /\ drillNow < MaxDrillNow
        /\ drillNow' = drillNow + 1
        /\ reported' \in [Drill!Kinds -> BOOLEAN]
        /\ \A k \in Drill!Kinds : reported'[k] <=> reported[k] \/ Drill!Missed(k, drillNow + 1)
        /\ UNCHANGED <<dueAt, finished, latest, beatAt, begun, lost>>
    BY <1>3, Zenon DEF Drill!Hour
  <2>2. Drill!DrillType'
    BY <2>1 DEF Drill!DrillType, Drill!TypeOK, Drill!Never, Drill!Terminal
  <2>3. Drill!Overdue'
    BY <2>1, <2>2 DEF Drill!DrillType, Drill!TypeOK, Drill!Terminal, Drill!Never,
       Drill!Overdue, Drill!Missed, Drill!MissedExactly
  <2> QED BY <2>2, <2>3
<1>4. CASE UNCHANGED drillState
  BY <1>4 DEF drillState, Drill!DrillType, Drill!TypeOK, Drill!Never, Drill!Terminal,
     Drill!Overdue, Drill!Missed, Drill!MissedExactly
<1> QED
  BY <1>1, <1>2, <1>3, <1>4 DEF Drill!Next

\* The times, wherever the drills are what moves.
DrillAll == focus = "drill" => Drill!DrillType /\ Drill!Overdue

\* The composition keeps the invariant of the drills.
LEMMA DrillInvariant == Spec => []DrillAll
<1>1. Init => DrillAll
  <2> SUFFICES ASSUME Drill!Init PROVE Drill!DrillType /\ Drill!Overdue
    BY DEF Init, DrillStarts, DrillAll
  <2>1. Drill!DrillType
    BY DrillBounds DEF Drill!Init, Drill!DrillType, Drill!TypeOK, Drill!Overdue, Drill!Kinds,
       Drill!Never, Drill!Terminal
  <2>2. Drill!Overdue
    BY DrillBounds DEF Drill!Init, Drill!DrillType, Drill!TypeOK, Drill!Overdue, Drill!Kinds,
       Drill!Never, Drill!Terminal
  <2> QED BY <2>1, <2>2
<1>2. DrillAll /\ [Next]_allVars => DrillAll'
  <2> SUFFICES ASSUME DrillAll, [Next]_allVars, focus = "drill"
               PROVE  Drill!DrillType' /\ Drill!Overdue'
    BY OneAtATime DEF DrillAll
  <2>1. Drill!DrillType /\ Drill!Overdue /\ [Drill!Next]_drillState
    BY OneAtATime DEF DrillAll
  <2> QED BY <2>1, DrillNext
<1> QED BY <1>1, <1>2, PTL DEF Spec

\* monitor/drills.py: a drill is in the inbox exactly when more than its period has passed since it
\* last started, for any periods, whatever messages of the beat were lost.
THEOREM DrillTheorem == Spec => []MissedExactly
<1>1. DrillAll => MissedExactly
  BY DEF DrillAll, MissedExactly, Drill!Overdue, Drill!MissedExactly
<1> QED BY <1>1, DrillInvariant, PTL
=============================================================================
