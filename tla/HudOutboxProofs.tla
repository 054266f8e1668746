-------------------------- MODULE HudOutboxProofs --------------------------
(***************************************************************************)
(* Proofs about HudOutbox, for every number of requests and workers and    *)
(* every bound on messages, expiries, crashes and faults.                  *)
(***************************************************************************)
EXTENDS HudOutbox, FiniteSetTheorems, TLAPS

\* Every action keeps every variable in its type.
LEMMA NextType == TypeOK /\ WorkerInv /\ [Next]_vars => TypeOK'
<1> SUFFICES ASSUME TypeOK, WorkerInv, [Next]_vars PROVE TypeOK'
  OBVIOUS
<1> USE RequestAssumption DEF rowVars, workerVars, countVars
<1>1. ASSUME NEW r \in Requests, CreateDeployment(r) PROVE TypeOK'
  BY <1>1 DEF CreateDeployment, WebGoto, TypeOK, Final, WorkerInv
<1>2. ASSUME NEW r \in Requests, Replay(r) PROVE TypeOK'
  BY <1>2 DEF Replay, WebGoto, TypeOK, Final, WorkerInv
<1>3. ASSUME NEW r \in Requests, LookupMisses(r) PROVE TypeOK'
  BY <1>3 DEF LookupMisses, WebGoto, TypeOK, Final, WorkerInv
<1>4. ASSUME NEW r \in Requests, InsertOperation(r) PROVE TypeOK'
  BY <1>4 DEF InsertOperation, Insert, WebGoto, TypeOK, Final, WorkerInv
<1>5. ASSUME NEW r \in Requests, Nudge(r) PROVE TypeOK'
  BY <1>5 DEF Nudge, WebGoto, TypeOK, Final, WorkerInv
<1>6. ASSUME NEW r \in Requests, NudgeLost(r) PROVE TypeOK'
  BY <1>6 DEF NudgeLost, WebGoto, TypeOK, Final, WorkerInv
<1>7. ASSUME NEW r \in Requests, WebDies(r) PROVE TypeOK'
  BY <1>7 DEF WebDies, TypeOK, Final, WorkerInv
<1>8. ASSUME NEW r \in Requests, Drain(r) PROVE TypeOK'
  BY <1>8 DEF Drain, TypeOK, Final, WorkerInv
<1>9. ASSUME NEW r \in Requests, EnvelopeExpired(r) PROVE TypeOK'
  BY <1>9 DEF EnvelopeExpired, TypeOK, Final, WorkerInv
<1>10. ASSUME NEW r \in Requests, ClaimExpires(r) PROVE TypeOK'
  BY <1>10 DEF ClaimExpires, TypeOK, Final, WorkerInv
<1>11. ASSUME NEW w \in Workers, NEW r \in Requests, Claim(w, r) PROVE TypeOK'
  BY <1>11 DEF Claim, Receive, ClaimRow, TypeOK, Final, WorkerInv
<1>12. ASSUME NEW w \in Workers, NEW r \in Requests, Duplicate(w, r) PROVE TypeOK'
  BY <1>12 DEF Duplicate, Receive, TypeOK, Final, WorkerInv
<1>13. ASSUME NEW w \in Workers, Dispatch(w) PROVE TypeOK'
  BY <1>13 DEF Dispatch, TypeOK, Final, WorkerInv
<1>14. ASSUME NEW w \in Workers, DispatchRaises(w) PROVE TypeOK'
  BY <1>14 DEF DispatchRaises, TypeOK, Final, WorkerInv
<1>15. ASSUME NEW w \in Workers, Finish(w) PROVE TypeOK'
  BY <1>15 DEF Finish, Close, TypeOK, Final, WorkerInv
<1>16. ASSUME NEW w \in Workers, RecordFailure(w) PROVE TypeOK'
  BY <1>16 DEF RecordFailure, Close, TypeOK, Final, WorkerInv
<1>17. ASSUME NEW w \in Workers, WorkerDies(w) PROVE TypeOK'
  BY <1>17 DEF WorkerDies, TypeOK, Final, WorkerInv
<1>18. CASE UNCHANGED vars
  BY <1>18 DEF vars, TypeOK, Final, WorkerInv
<1> QED
  BY <1>1, <1>2, <1>3, <1>4, <1>5, <1>6, <1>7, <1>8, <1>9, <1>10, <1>11, <1>12,
     <1>13, <1>14, <1>15, <1>16, <1>17, <1>18
     DEF Next, WebStep, WorkerStep

\* A request has an outbox row only once its insert committed.
LEMMA NextWeb == TypeOK /\ WebInv /\ WorkerInv /\ [Next]_vars => WebInv'
<1> SUFFICES ASSUME TypeOK, WebInv, WorkerInv, [Next]_vars PROVE WebInv'
  OBVIOUS
<1> USE RequestAssumption DEF rowVars, workerVars, countVars
<1>1. ASSUME NEW r \in Requests, CreateDeployment(r) PROVE WebInv'
  BY <1>1 DEF CreateDeployment, WebGoto, TypeOK, WebInv, WorkerInv, Final
<1>2. ASSUME NEW r \in Requests, Replay(r) PROVE WebInv'
  BY <1>2 DEF Replay, WebGoto, TypeOK, WebInv, WorkerInv, Final
<1>3. ASSUME NEW r \in Requests, LookupMisses(r) PROVE WebInv'
  BY <1>3 DEF LookupMisses, WebGoto, TypeOK, WebInv, WorkerInv, Final
<1>4. ASSUME NEW r \in Requests, InsertOperation(r) PROVE WebInv'
  BY <1>4 DEF InsertOperation, Insert, WebGoto, TypeOK, WebInv, WorkerInv, Final
<1>5. ASSUME NEW r \in Requests, Nudge(r) PROVE WebInv'
  BY <1>5 DEF Nudge, WebGoto, TypeOK, WebInv, WorkerInv, Final
<1>6. ASSUME NEW r \in Requests, NudgeLost(r) PROVE WebInv'
  BY <1>6 DEF NudgeLost, WebGoto, TypeOK, WebInv, WorkerInv, Final
<1>7. ASSUME NEW r \in Requests, WebDies(r) PROVE WebInv'
  BY <1>7 DEF WebDies, TypeOK, WebInv, WorkerInv, Final
<1>8. ASSUME NEW r \in Requests, Drain(r) PROVE WebInv'
  BY <1>8 DEF Drain, TypeOK, WebInv, WorkerInv, Final
<1>9. ASSUME NEW r \in Requests, EnvelopeExpired(r) PROVE WebInv'
  BY <1>9 DEF EnvelopeExpired, TypeOK, WebInv, WorkerInv, Final
<1>10. ASSUME NEW r \in Requests, ClaimExpires(r) PROVE WebInv'
  BY <1>10 DEF ClaimExpires, TypeOK, WebInv, WorkerInv, Final
<1>11. ASSUME NEW w \in Workers, NEW r \in Requests, Claim(w, r) PROVE WebInv'
  BY <1>11 DEF Claim, Receive, ClaimRow, TypeOK, WebInv, WorkerInv, Final
<1>12. ASSUME NEW w \in Workers, NEW r \in Requests, Duplicate(w, r) PROVE WebInv'
  BY <1>12 DEF Duplicate, Receive, TypeOK, WebInv, WorkerInv, Final
<1>13. ASSUME NEW w \in Workers, Dispatch(w) PROVE WebInv'
  BY <1>13 DEF Dispatch, TypeOK, WebInv, WorkerInv, Final
<1>14. ASSUME NEW w \in Workers, DispatchRaises(w) PROVE WebInv'
  BY <1>14 DEF DispatchRaises, TypeOK, WebInv, WorkerInv, Final
<1>15. ASSUME NEW w \in Workers, Finish(w) PROVE WebInv'
  BY <1>15 DEF Finish, Close, TypeOK, WebInv, WorkerInv, Final
<1>16. ASSUME NEW w \in Workers, RecordFailure(w) PROVE WebInv'
  BY <1>16 DEF RecordFailure, Close, TypeOK, WebInv, WorkerInv, Final
<1>17. ASSUME NEW w \in Workers, WorkerDies(w) PROVE WebInv'
  BY <1>17 DEF WorkerDies, TypeOK, WebInv, WorkerInv, Final
<1>18. CASE UNCHANGED vars
  BY <1>18 DEF vars, TypeOK, WebInv, WorkerInv, Final
<1> QED
  BY <1>1, <1>2, <1>3, <1>4, <1>5, <1>6, <1>7, <1>8, <1>9, <1>10, <1>11, <1>12,
     <1>13, <1>14, <1>15, <1>16, <1>17, <1>18
     DEF Next, WebStep, WorkerStep

\* The unique constraint, not the lookup, keeps a key with one operation.
LEMMA NextKey == TypeOK /\ WorkerInv /\ OneOperationPerKey /\ [Next]_vars => OneOperationPerKey'
<1> SUFFICES ASSUME TypeOK, WorkerInv, OneOperationPerKey, [Next]_vars PROVE OneOperationPerKey'
  OBVIOUS
<1> USE RequestAssumption DEF rowVars, workerVars, countVars
<1>1. ASSUME NEW r \in Requests, CreateDeployment(r) PROVE OneOperationPerKey'
  BY <1>1
     DEF CreateDeployment, WebGoto, TypeOK, OneOperationPerKey, Existing, WorkerInv,
         Final
<1>2. ASSUME NEW r \in Requests, Replay(r) PROVE OneOperationPerKey'
  BY <1>2 DEF Replay, WebGoto, TypeOK, OneOperationPerKey, Existing, WorkerInv, Final
<1>3. ASSUME NEW r \in Requests, LookupMisses(r) PROVE OneOperationPerKey'
  BY <1>3
     DEF LookupMisses, WebGoto, TypeOK, OneOperationPerKey, Existing, WorkerInv,
         Final
<1>4. ASSUME NEW r \in Requests, InsertOperation(r) PROVE OneOperationPerKey'
  BY <1>4
     DEF InsertOperation, Insert, WebGoto, TypeOK, OneOperationPerKey, Existing,
         WorkerInv, Final
<1>5. ASSUME NEW r \in Requests, Nudge(r) PROVE OneOperationPerKey'
  BY <1>5 DEF Nudge, WebGoto, TypeOK, OneOperationPerKey, Existing, WorkerInv, Final
<1>6. ASSUME NEW r \in Requests, NudgeLost(r) PROVE OneOperationPerKey'
  BY <1>6
     DEF NudgeLost, WebGoto, TypeOK, OneOperationPerKey, Existing, WorkerInv, Final
<1>7. ASSUME NEW r \in Requests, WebDies(r) PROVE OneOperationPerKey'
  BY <1>7 DEF WebDies, TypeOK, OneOperationPerKey, Existing, WorkerInv, Final
<1>8. ASSUME NEW r \in Requests, Drain(r) PROVE OneOperationPerKey'
  BY <1>8 DEF Drain, TypeOK, OneOperationPerKey, Existing, WorkerInv, Final
<1>9. ASSUME NEW r \in Requests, EnvelopeExpired(r) PROVE OneOperationPerKey'
  BY <1>9 DEF EnvelopeExpired, TypeOK, OneOperationPerKey, Existing, WorkerInv, Final
<1>10. ASSUME NEW r \in Requests, ClaimExpires(r) PROVE OneOperationPerKey'
  BY <1>10 DEF ClaimExpires, TypeOK, OneOperationPerKey, Existing, WorkerInv, Final
<1>11. ASSUME NEW w \in Workers, NEW r \in Requests, Claim(w, r) PROVE OneOperationPerKey'
  BY <1>11
     DEF Claim, Receive, ClaimRow, TypeOK, OneOperationPerKey, Existing, WorkerInv,
         Final
<1>12. ASSUME NEW w \in Workers, NEW r \in Requests, Duplicate(w, r) PROVE OneOperationPerKey'
  BY <1>12
     DEF Duplicate, Receive, TypeOK, OneOperationPerKey, Existing, WorkerInv, Final
<1>13. ASSUME NEW w \in Workers, Dispatch(w) PROVE OneOperationPerKey'
  BY <1>13 DEF Dispatch, TypeOK, OneOperationPerKey, Existing, WorkerInv, Final
<1>14. ASSUME NEW w \in Workers, DispatchRaises(w) PROVE OneOperationPerKey'
  BY <1>14 DEF DispatchRaises, TypeOK, OneOperationPerKey, Existing, WorkerInv, Final
<1>15. ASSUME NEW w \in Workers, Finish(w) PROVE OneOperationPerKey'
  BY <1>15 DEF Finish, Close, TypeOK, OneOperationPerKey, Existing, WorkerInv, Final
<1>16. ASSUME NEW w \in Workers, RecordFailure(w) PROVE OneOperationPerKey'
  BY <1>16
     DEF RecordFailure, Close, TypeOK, OneOperationPerKey, Existing, WorkerInv,
         Final
<1>17. ASSUME NEW w \in Workers, WorkerDies(w) PROVE OneOperationPerKey'
  BY <1>17 DEF WorkerDies, TypeOK, OneOperationPerKey, Existing, WorkerInv, Final
<1>18. CASE UNCHANGED vars
  BY <1>18 DEF vars, TypeOK, OneOperationPerKey, Existing, WorkerInv, Final
<1> QED
  BY <1>1, <1>2, <1>3, <1>4, <1>5, <1>6, <1>7, <1>8, <1>9, <1>10, <1>11, <1>12,
     <1>13, <1>14, <1>15, <1>16, <1>17, <1>18
     DEF Next, WebStep, WorkerStep

\* A worker past its claim works on an existing row, and finishes what it handed over.
LEMMA NextWorker == TypeOK /\ WorkerInv /\ [Next]_vars => WorkerInv'
<1> SUFFICES ASSUME TypeOK, WorkerInv, [Next]_vars PROVE WorkerInv'
  OBVIOUS
<1> USE RequestAssumption DEF rowVars, workerVars, countVars
<1>1. ASSUME NEW r \in Requests, CreateDeployment(r) PROVE WorkerInv'
  BY <1>1 DEF CreateDeployment, WebGoto, TypeOK, WorkerInv, Final
<1>2. ASSUME NEW r \in Requests, Replay(r) PROVE WorkerInv'
  BY <1>2 DEF Replay, WebGoto, TypeOK, WorkerInv, Final
<1>3. ASSUME NEW r \in Requests, LookupMisses(r) PROVE WorkerInv'
  BY <1>3 DEF LookupMisses, WebGoto, TypeOK, WorkerInv, Final
<1>4. ASSUME NEW r \in Requests, InsertOperation(r) PROVE WorkerInv'
  BY <1>4 DEF InsertOperation, Insert, WebGoto, TypeOK, WorkerInv, Final
<1>5. ASSUME NEW r \in Requests, Nudge(r) PROVE WorkerInv'
  BY <1>5 DEF Nudge, WebGoto, TypeOK, WorkerInv, Final
<1>6. ASSUME NEW r \in Requests, NudgeLost(r) PROVE WorkerInv'
  BY <1>6 DEF NudgeLost, WebGoto, TypeOK, WorkerInv, Final
<1>7. ASSUME NEW r \in Requests, WebDies(r) PROVE WorkerInv'
  BY <1>7 DEF WebDies, TypeOK, WorkerInv, Final
<1>8. ASSUME NEW r \in Requests, Drain(r) PROVE WorkerInv'
  BY <1>8 DEF Drain, TypeOK, WorkerInv, Final
<1>9. ASSUME NEW r \in Requests, EnvelopeExpired(r) PROVE WorkerInv'
  BY <1>9 DEF EnvelopeExpired, TypeOK, WorkerInv, Final
<1>10. ASSUME NEW r \in Requests, ClaimExpires(r) PROVE WorkerInv'
  BY <1>10 DEF ClaimExpires, TypeOK, WorkerInv, Final
<1>11. ASSUME NEW w \in Workers, NEW r \in Requests, Claim(w, r) PROVE WorkerInv'
  BY <1>11 DEF Claim, Receive, ClaimRow, TypeOK, WorkerInv, Final
<1>12. ASSUME NEW w \in Workers, NEW r \in Requests, Duplicate(w, r) PROVE WorkerInv'
  BY <1>12 DEF Duplicate, Receive, TypeOK, WorkerInv, Final
<1>13. ASSUME NEW w \in Workers, Dispatch(w) PROVE WorkerInv'
  BY <1>13 DEF Dispatch, TypeOK, WorkerInv, Final
<1>14. ASSUME NEW w \in Workers, DispatchRaises(w) PROVE WorkerInv'
  BY <1>14 DEF DispatchRaises, TypeOK, WorkerInv, Final
<1>15. ASSUME NEW w \in Workers, Finish(w) PROVE WorkerInv'
  BY <1>15 DEF Finish, Close, TypeOK, WorkerInv, Final
<1>16. ASSUME NEW w \in Workers, RecordFailure(w) PROVE WorkerInv'
  BY <1>16 DEF RecordFailure, Close, TypeOK, WorkerInv, Final
<1>17. ASSUME NEW w \in Workers, WorkerDies(w) PROVE WorkerInv'
  BY <1>17 DEF WorkerDies, TypeOK, WorkerInv, Final
<1>18. CASE UNCHANGED vars
  BY <1>18 DEF vars, TypeOK, WorkerInv, Final
<1> QED
  BY <1>1, <1>2, <1>3, <1>4, <1>5, <1>6, <1>7, <1>8, <1>9, <1>10, <1>11, <1>12,
     <1>13, <1>14, <1>15, <1>16, <1>17, <1>18
     DEF Next, WebStep, WorkerStep

\* SUCCEEDED is saved only by a worker that handed the command over.
LEMMA NextSuccess == TypeOK /\ WorkerInv /\ SuccessMeansDispatched /\ [Next]_vars => SuccessMeansDispatched'
<1> SUFFICES ASSUME TypeOK, WorkerInv, SuccessMeansDispatched, [Next]_vars PROVE SuccessMeansDispatched'
  OBVIOUS
<1> USE RequestAssumption DEF rowVars, workerVars, countVars
<1>1. ASSUME NEW r \in Requests, CreateDeployment(r) PROVE SuccessMeansDispatched'
  BY <1>1
     DEF CreateDeployment, WebGoto, TypeOK, WorkerInv, SuccessMeansDispatched, Final
<1>2. ASSUME NEW r \in Requests, Replay(r) PROVE SuccessMeansDispatched'
  BY <1>2 DEF Replay, WebGoto, TypeOK, WorkerInv, SuccessMeansDispatched, Final
<1>3. ASSUME NEW r \in Requests, LookupMisses(r) PROVE SuccessMeansDispatched'
  BY <1>3 DEF LookupMisses, WebGoto, TypeOK, WorkerInv, SuccessMeansDispatched, Final
<1>4. ASSUME NEW r \in Requests, InsertOperation(r) PROVE SuccessMeansDispatched'
  BY <1>4
     DEF InsertOperation, Insert, WebGoto, TypeOK, WorkerInv,
         SuccessMeansDispatched, Final
<1>5. ASSUME NEW r \in Requests, Nudge(r) PROVE SuccessMeansDispatched'
  BY <1>5 DEF Nudge, WebGoto, TypeOK, WorkerInv, SuccessMeansDispatched, Final
<1>6. ASSUME NEW r \in Requests, NudgeLost(r) PROVE SuccessMeansDispatched'
  BY <1>6 DEF NudgeLost, WebGoto, TypeOK, WorkerInv, SuccessMeansDispatched, Final
<1>7. ASSUME NEW r \in Requests, WebDies(r) PROVE SuccessMeansDispatched'
  BY <1>7 DEF WebDies, TypeOK, WorkerInv, SuccessMeansDispatched, Final
<1>8. ASSUME NEW r \in Requests, Drain(r) PROVE SuccessMeansDispatched'
  BY <1>8 DEF Drain, TypeOK, WorkerInv, SuccessMeansDispatched, Final
<1>9. ASSUME NEW r \in Requests, EnvelopeExpired(r) PROVE SuccessMeansDispatched'
  BY <1>9 DEF EnvelopeExpired, TypeOK, WorkerInv, SuccessMeansDispatched, Final
<1>10. ASSUME NEW r \in Requests, ClaimExpires(r) PROVE SuccessMeansDispatched'
  BY <1>10 DEF ClaimExpires, TypeOK, WorkerInv, SuccessMeansDispatched, Final
<1>11. ASSUME NEW w \in Workers, NEW r \in Requests, Claim(w, r) PROVE SuccessMeansDispatched'
  BY <1>11
     DEF Claim, Receive, ClaimRow, TypeOK, WorkerInv, SuccessMeansDispatched, Final
<1>12. ASSUME NEW w \in Workers, NEW r \in Requests, Duplicate(w, r) PROVE SuccessMeansDispatched'
  BY <1>12 DEF Duplicate, Receive, TypeOK, WorkerInv, SuccessMeansDispatched, Final
<1>13. ASSUME NEW w \in Workers, Dispatch(w) PROVE SuccessMeansDispatched'
  BY <1>13 DEF Dispatch, TypeOK, WorkerInv, SuccessMeansDispatched, Final
<1>14. ASSUME NEW w \in Workers, DispatchRaises(w) PROVE SuccessMeansDispatched'
  BY <1>14 DEF DispatchRaises, TypeOK, WorkerInv, SuccessMeansDispatched, Final
<1>15. ASSUME NEW w \in Workers, Finish(w) PROVE SuccessMeansDispatched'
  BY <1>15 DEF Finish, Close, TypeOK, WorkerInv, SuccessMeansDispatched, Final
<1>16. ASSUME NEW w \in Workers, RecordFailure(w) PROVE SuccessMeansDispatched'
  BY <1>16 DEF RecordFailure, Close, TypeOK, WorkerInv, SuccessMeansDispatched, Final
<1>17. ASSUME NEW w \in Workers, WorkerDies(w) PROVE SuccessMeansDispatched'
  BY <1>17 DEF WorkerDies, TypeOK, WorkerInv, SuccessMeansDispatched, Final
<1>18. CASE UNCHANGED vars
  BY <1>18 DEF vars, TypeOK, WorkerInv, SuccessMeansDispatched, Final
<1> QED
  BY <1>1, <1>2, <1>3, <1>4, <1>5, <1>6, <1>7, <1>8, <1>9, <1>10, <1>11, <1>12,
     <1>13, <1>14, <1>15, <1>16, <1>17, <1>18
     DEF Next, WebStep, WorkerStep

\* Load counts the workers that are about to hand r over: it is a number.
LEMMA LoadType == ASSUME TypeOK, NEW r \in Requests
                  PROVE  IsFiniteSet(Busy(r)) /\ Cardinality(Busy(r)) \in Nat /\ Load(r) \in Nat
<1>1. IsFiniteSet(Busy(r))
  BY WorkersAssumption, FS_Subset DEF Busy
<1>2. Cardinality(Busy(r)) \in Nat
  BY <1>1, FS_CardinalityType
<1> QED
  BY <1>1, <1>2 DEF Load, TypeOK

\* A row keeps its load when neither its workers nor its effects change.
LEMMA SameLoad == ASSUME NEW r \in Requests, Busy(r)' = Busy(r), effects'[r] = effects[r]
                  PROVE  Load(r)' = Load(r)
BY DEF Load

\* ClaimInv for a row of which nothing that matters changed.
LEMMA ClaimFrame ==
    ASSUME ClaimInv, NEW r \in Requests, Load(r)' = Load(r), expiries'[r] = expiries[r],
           box'[r] = box[r] \/ (box[r] = "none" /\ box'[r] = "pending") \/ box'[r] \in Final,
           claim'[r] = claim[r]
    PROVE  (/\ box[r] \in {"none", "pending"} => Load(r) = 0
            /\ box[r] = "processing" /\ claim[r] = "stale" => Load(r) <= expiries[r]
            /\ Load(r) <= 1 + expiries[r])'
BY DEF ClaimInv, Final

\* What has been handed over, or is about to be, is paid for by a claim or an expiry.
LEMMA NextClaim == TypeOK /\ WebInv /\ WorkerInv /\ ClaimInv /\ [Next]_vars => ClaimInv'
<1> SUFFICES ASSUME TypeOK, WebInv, WorkerInv, ClaimInv, [Next]_vars PROVE ClaimInv'
  OBVIOUS
<1> USE RequestAssumption DEF rowVars, workerVars, countVars
<1>1. ASSUME NEW r \in Requests, CreateDeployment(r) PROVE ClaimInv'
  <2> SUFFICES ASSUME NEW q \in Requests
               PROVE  (/\ box[q] \in {"none", "pending"} => Load(q) = 0
                       /\ box[q] = "processing" /\ claim[q] = "stale" => Load(q) <= expiries[q]
                       /\ Load(q) <= 1 + expiries[q])'
    BY DEF ClaimInv
  <2>1. Busy(q)' = Busy(q) /\ effects'[q] = effects[q]
    BY <1>1 DEF CreateDeployment, WebGoto, Busy, TypeOK
  <2>2. /\ expiries'[q] = expiries[q] /\ claim'[q] = claim[q]
        /\ box'[q] = box[q] \/ (box[q] = "none" /\ box'[q] = "pending") \/ box'[q] \in Final
    BY <1>1 DEF CreateDeployment, WebGoto, TypeOK, Final
  <2> QED
    BY <2>1, <2>2, SameLoad, ClaimFrame
<1>2. ASSUME NEW r \in Requests, Replay(r) PROVE ClaimInv'
  <2> SUFFICES ASSUME NEW q \in Requests
               PROVE  (/\ box[q] \in {"none", "pending"} => Load(q) = 0
                       /\ box[q] = "processing" /\ claim[q] = "stale" => Load(q) <= expiries[q]
                       /\ Load(q) <= 1 + expiries[q])'
    BY DEF ClaimInv
  <2>1. Busy(q)' = Busy(q) /\ effects'[q] = effects[q]
    BY <1>2 DEF Replay, WebGoto, Busy, TypeOK
  <2>2. /\ expiries'[q] = expiries[q] /\ claim'[q] = claim[q]
        /\ box'[q] = box[q] \/ (box[q] = "none" /\ box'[q] = "pending") \/ box'[q] \in Final
    BY <1>2 DEF Replay, WebGoto, TypeOK, Final
  <2> QED
    BY <2>1, <2>2, SameLoad, ClaimFrame
<1>3. ASSUME NEW r \in Requests, LookupMisses(r) PROVE ClaimInv'
  <2> SUFFICES ASSUME NEW q \in Requests
               PROVE  (/\ box[q] \in {"none", "pending"} => Load(q) = 0
                       /\ box[q] = "processing" /\ claim[q] = "stale" => Load(q) <= expiries[q]
                       /\ Load(q) <= 1 + expiries[q])'
    BY DEF ClaimInv
  <2>1. Busy(q)' = Busy(q) /\ effects'[q] = effects[q]
    BY <1>3 DEF LookupMisses, WebGoto, Busy, TypeOK
  <2>2. /\ expiries'[q] = expiries[q] /\ claim'[q] = claim[q]
        /\ box'[q] = box[q] \/ (box[q] = "none" /\ box'[q] = "pending") \/ box'[q] \in Final
    BY <1>3 DEF LookupMisses, WebGoto, TypeOK, Final
  <2> QED
    BY <2>1, <2>2, SameLoad, ClaimFrame
<1>4. ASSUME NEW r \in Requests, InsertOperation(r) PROVE ClaimInv'
  <2> SUFFICES ASSUME NEW q \in Requests
               PROVE  (/\ box[q] \in {"none", "pending"} => Load(q) = 0
                       /\ box[q] = "processing" /\ claim[q] = "stale" => Load(q) <= expiries[q]
                       /\ Load(q) <= 1 + expiries[q])'
    BY DEF ClaimInv
  <2>1. Busy(q)' = Busy(q) /\ effects'[q] = effects[q]
    BY <1>4 DEF InsertOperation, Insert, WebGoto, Busy
  <2>2. /\ UNCHANGED <<expiries, claim>>
        /\ box' = [box EXCEPT ![r] = "pending"]
    BY <1>4 DEF InsertOperation, Insert, WebGoto
  <2>3. box[r] = "none"
    BY <1>4 DEF InsertOperation, Insert, WebGoto, WebInv
  <2> QED
    BY <2>1, <2>2, <2>3, SameLoad, ClaimFrame DEF TypeOK
<1>5. ASSUME NEW r \in Requests, Nudge(r) PROVE ClaimInv'
  <2> SUFFICES ASSUME NEW q \in Requests
               PROVE  (/\ box[q] \in {"none", "pending"} => Load(q) = 0
                       /\ box[q] = "processing" /\ claim[q] = "stale" => Load(q) <= expiries[q]
                       /\ Load(q) <= 1 + expiries[q])'
    BY DEF ClaimInv
  <2>1. Busy(q)' = Busy(q) /\ effects'[q] = effects[q]
    BY <1>5 DEF Nudge, WebGoto, Busy, TypeOK
  <2>2. /\ expiries'[q] = expiries[q] /\ claim'[q] = claim[q]
        /\ box'[q] = box[q] \/ (box[q] = "none" /\ box'[q] = "pending") \/ box'[q] \in Final
    BY <1>5 DEF Nudge, WebGoto, TypeOK, Final
  <2> QED
    BY <2>1, <2>2, SameLoad, ClaimFrame
<1>6. ASSUME NEW r \in Requests, NudgeLost(r) PROVE ClaimInv'
  <2> SUFFICES ASSUME NEW q \in Requests
               PROVE  (/\ box[q] \in {"none", "pending"} => Load(q) = 0
                       /\ box[q] = "processing" /\ claim[q] = "stale" => Load(q) <= expiries[q]
                       /\ Load(q) <= 1 + expiries[q])'
    BY DEF ClaimInv
  <2>1. Busy(q)' = Busy(q) /\ effects'[q] = effects[q]
    BY <1>6 DEF NudgeLost, WebGoto, Busy, TypeOK
  <2>2. /\ expiries'[q] = expiries[q] /\ claim'[q] = claim[q]
        /\ box'[q] = box[q] \/ (box[q] = "none" /\ box'[q] = "pending") \/ box'[q] \in Final
    BY <1>6 DEF NudgeLost, WebGoto, TypeOK, Final
  <2> QED
    BY <2>1, <2>2, SameLoad, ClaimFrame
<1>7. ASSUME NEW r \in Requests, WebDies(r) PROVE ClaimInv'
  <2> SUFFICES ASSUME NEW q \in Requests
               PROVE  (/\ box[q] \in {"none", "pending"} => Load(q) = 0
                       /\ box[q] = "processing" /\ claim[q] = "stale" => Load(q) <= expiries[q]
                       /\ Load(q) <= 1 + expiries[q])'
    BY DEF ClaimInv
  <2>1. Busy(q)' = Busy(q) /\ effects'[q] = effects[q]
    BY <1>7 DEF WebDies, Busy, TypeOK
  <2>2. /\ expiries'[q] = expiries[q] /\ claim'[q] = claim[q]
        /\ box'[q] = box[q] \/ (box[q] = "none" /\ box'[q] = "pending") \/ box'[q] \in Final
    BY <1>7 DEF WebDies, TypeOK, Final
  <2> QED
    BY <2>1, <2>2, SameLoad, ClaimFrame
<1>8. ASSUME NEW r \in Requests, Drain(r) PROVE ClaimInv'
  <2> SUFFICES ASSUME NEW q \in Requests
               PROVE  (/\ box[q] \in {"none", "pending"} => Load(q) = 0
                       /\ box[q] = "processing" /\ claim[q] = "stale" => Load(q) <= expiries[q]
                       /\ Load(q) <= 1 + expiries[q])'
    BY DEF ClaimInv
  <2>1. Busy(q)' = Busy(q) /\ effects'[q] = effects[q]
    BY <1>8 DEF Drain, Busy, TypeOK
  <2>2. /\ expiries'[q] = expiries[q] /\ claim'[q] = claim[q]
        /\ box'[q] = box[q] \/ (box[q] = "none" /\ box'[q] = "pending") \/ box'[q] \in Final
    BY <1>8 DEF Drain, TypeOK, Final
  <2> QED
    BY <2>1, <2>2, SameLoad, ClaimFrame
<1>9. ASSUME NEW r \in Requests, EnvelopeExpired(r) PROVE ClaimInv'
  <2> SUFFICES ASSUME NEW q \in Requests
               PROVE  (/\ box[q] \in {"none", "pending"} => Load(q) = 0
                       /\ box[q] = "processing" /\ claim[q] = "stale" => Load(q) <= expiries[q]
                       /\ Load(q) <= 1 + expiries[q])'
    BY DEF ClaimInv
  <2>1. Busy(q)' = Busy(q) /\ effects'[q] = effects[q]
    BY <1>9 DEF EnvelopeExpired, Busy, TypeOK
  <2>2. /\ expiries'[q] = expiries[q] /\ claim'[q] = claim[q]
        /\ box'[q] = box[q] \/ (box[q] = "none" /\ box'[q] = "pending") \/ box'[q] \in Final
    BY <1>9 DEF EnvelopeExpired, TypeOK, Final
  <2> QED
    BY <2>1, <2>2, SameLoad, ClaimFrame
<1>10. ASSUME NEW r \in Requests, ClaimExpires(r) PROVE ClaimInv'
  <2> SUFFICES ASSUME NEW q \in Requests
               PROVE  (/\ box[q] \in {"none", "pending"} => Load(q) = 0
                       /\ box[q] = "processing" /\ claim[q] = "stale" => Load(q) <= expiries[q]
                       /\ Load(q) <= 1 + expiries[q])'
    BY DEF ClaimInv
  <2>1. Busy(q)' = Busy(q) /\ effects'[q] = effects[q]
    BY <1>10 DEF ClaimExpires, Busy
  <2>2. Load(q)' = Load(q) /\ Load(q) \in Nat
    BY <2>1, SameLoad, LoadType
  <2>3. CASE q = r
    BY <1>10, <2>2, <2>3 DEF ClaimExpires, TypeOK, ClaimInv
  <2>4. CASE q # r
    BY <1>10, <2>2, <2>4, ClaimFrame DEF ClaimExpires, TypeOK
  <2> QED
    BY <2>3, <2>4
<1>11. ASSUME NEW w \in Workers, NEW r \in Requests, Claim(w, r) PROVE ClaimInv'
  <2> SUFFICES ASSUME NEW q \in Requests
               PROVE  (/\ box[q] \in {"none", "pending"} => Load(q) = 0
                       /\ box[q] = "processing" /\ claim[q] = "stale" => Load(q) <= expiries[q]
                       /\ Load(q) <= 1 + expiries[q])'
    BY DEF ClaimInv
  <2>1. wpc[w] = "idle" /\ effects' = effects /\ expiries' = expiries
    BY <1>11 DEF Claim, Receive, ClaimRow
  <2>2. CASE q = r
    <3>1. Busy(r)' = Busy(r) \cup {w} /\ w \notin Busy(r)
      BY <1>11 DEF Claim, Receive, ClaimRow, Busy, TypeOK
    <3>2. Cardinality(Busy(r))' = Cardinality(Busy(r)) + 1
      BY <3>1, LoadType, FS_AddElement
    <3>3. Load(r)' = Load(r) + 1 /\ Load(r) \in Nat
      BY <2>1, <3>2, LoadType DEF Load, TypeOK
    <3>4. Load(r) <= expiries[r]
      BY <1>11 DEF Claim, Receive, ClaimRow, ClaimInv, TypeOK
    <3>5. box'[r] = "processing" /\ claim'[r] = "live"
      BY <1>11 DEF Claim, Receive, ClaimRow, TypeOK
    <3> QED
      BY <2>1, <2>2, <3>3, <3>4, <3>5 DEF TypeOK
  <2>3. CASE q # r
    <3>1. Busy(q)' = Busy(q)
      BY <1>11, <2>3 DEF Claim, Receive, ClaimRow, Busy, TypeOK
    <3>2. box'[q] = box[q] /\ claim'[q] = claim[q]
      BY <1>11, <2>3 DEF Claim, Receive, ClaimRow, TypeOK
    <3> QED
      BY <2>1, <3>1, <3>2, SameLoad, ClaimFrame
  <2> QED
    BY <2>2, <2>3
<1>12. ASSUME NEW w \in Workers, NEW r \in Requests, Duplicate(w, r) PROVE ClaimInv'
  <2> SUFFICES ASSUME NEW q \in Requests
               PROVE  (/\ box[q] \in {"none", "pending"} => Load(q) = 0
                       /\ box[q] = "processing" /\ claim[q] = "stale" => Load(q) <= expiries[q]
                       /\ Load(q) <= 1 + expiries[q])'
    BY DEF ClaimInv
  <2>1. Busy(q)' = Busy(q) /\ effects'[q] = effects[q]
    BY <1>12 DEF Duplicate, Receive, Busy, TypeOK
  <2>2. /\ expiries'[q] = expiries[q] /\ claim'[q] = claim[q]
        /\ box'[q] = box[q] \/ (box[q] = "none" /\ box'[q] = "pending") \/ box'[q] \in Final
    BY <1>12 DEF Duplicate, Receive, TypeOK, Final
  <2> QED
    BY <2>1, <2>2, SameLoad, ClaimFrame
<1>13. ASSUME NEW w \in Workers, Dispatch(w) PROVE ClaimInv'
  <2> SUFFICES ASSUME NEW q \in Requests
               PROVE  (/\ box[q] \in {"none", "pending"} => Load(q) = 0
                       /\ box[q] = "processing" /\ claim[q] = "stale" => Load(q) <= expiries[q]
                       /\ Load(q) <= 1 + expiries[q])'
    BY DEF ClaimInv
  <2>1. wrow[w] \in Requests /\ UNCHANGED <<box, claim, expiries>>
    BY <1>13 DEF Dispatch, WorkerInv
  <2>2. CASE q = wrow[w]
    <3>1. Busy(q)' = Busy(q) \ {w} /\ w \in Busy(q)
      BY <1>13, <2>2 DEF Dispatch, Busy, TypeOK
    <3>2. Cardinality(Busy(q))' = Cardinality(Busy(q)) - 1
      BY <3>1, LoadType, FS_RemoveElement
    <3>3. effects'[q] = effects[q] + 1 /\ effects[q] \in Nat
      BY <1>13, <2>1, <2>2 DEF Dispatch, TypeOK
    <3>4. Load(q)' = Load(q)
      BY <3>2, <3>3, LoadType DEF Load
    <3> QED
      BY <2>1, <3>4, ClaimFrame
  <2>3. CASE q # wrow[w]
    <3>1. Busy(q)' = Busy(q) /\ effects'[q] = effects[q]
      BY <1>13, <2>1, <2>3 DEF Dispatch, Busy, TypeOK
    <3> QED
      BY <2>1, <3>1, SameLoad, ClaimFrame
  <2> QED
    BY <2>2, <2>3
<1>14. ASSUME NEW w \in Workers, DispatchRaises(w) PROVE ClaimInv'
  <2> SUFFICES ASSUME NEW q \in Requests
               PROVE  (/\ box[q] \in {"none", "pending"} => Load(q) = 0
                       /\ box[q] = "processing" /\ claim[q] = "stale" => Load(q) <= expiries[q]
                       /\ Load(q) <= 1 + expiries[q])'
    BY DEF ClaimInv
  <2>1. UNCHANGED <<box, claim, expiries, effects>>
    BY <1>14 DEF DispatchRaises
  <2>2. Busy(q)' \subseteq Busy(q)
    BY <1>14 DEF DispatchRaises, Busy, TypeOK
  <2>3. Cardinality(Busy(q))' \in Nat /\ Cardinality(Busy(q))' <= Cardinality(Busy(q))
    BY <2>2, LoadType, FS_Subset, FS_CardinalityType
  <2>4. Load(q)' \in Nat /\ Load(q)' <= Load(q)
    BY <2>1, <2>3, LoadType DEF Load, TypeOK
  <2> QED
    BY <2>1, <2>4, LoadType DEF ClaimInv, TypeOK
<1>15. ASSUME NEW w \in Workers, Finish(w) PROVE ClaimInv'
  <2> SUFFICES ASSUME NEW q \in Requests
               PROVE  (/\ box[q] \in {"none", "pending"} => Load(q) = 0
                       /\ box[q] = "processing" /\ claim[q] = "stale" => Load(q) <= expiries[q]
                       /\ Load(q) <= 1 + expiries[q])'
    BY DEF ClaimInv
  <2>1. Busy(q)' = Busy(q) /\ effects'[q] = effects[q]
    BY <1>15 DEF Finish, Close, Busy, TypeOK
  <2>2. /\ expiries'[q] = expiries[q] /\ claim'[q] = claim[q]
        /\ box'[q] = box[q] \/ (box[q] = "none" /\ box'[q] = "pending") \/ box'[q] \in Final
    BY <1>15 DEF Finish, Close, TypeOK, Final
  <2> QED
    BY <2>1, <2>2, SameLoad, ClaimFrame
<1>16. ASSUME NEW w \in Workers, RecordFailure(w) PROVE ClaimInv'
  <2> SUFFICES ASSUME NEW q \in Requests
               PROVE  (/\ box[q] \in {"none", "pending"} => Load(q) = 0
                       /\ box[q] = "processing" /\ claim[q] = "stale" => Load(q) <= expiries[q]
                       /\ Load(q) <= 1 + expiries[q])'
    BY DEF ClaimInv
  <2>1. Busy(q)' = Busy(q) /\ effects'[q] = effects[q]
    BY <1>16 DEF RecordFailure, Close, Busy, TypeOK
  <2>2. /\ expiries'[q] = expiries[q] /\ claim'[q] = claim[q]
        /\ box'[q] = box[q] \/ (box[q] = "none" /\ box'[q] = "pending") \/ box'[q] \in Final
    BY <1>16 DEF RecordFailure, Close, TypeOK, Final
  <2> QED
    BY <2>1, <2>2, SameLoad, ClaimFrame
<1>17. ASSUME NEW w \in Workers, WorkerDies(w) PROVE ClaimInv'
  <2> SUFFICES ASSUME NEW q \in Requests
               PROVE  (/\ box[q] \in {"none", "pending"} => Load(q) = 0
                       /\ box[q] = "processing" /\ claim[q] = "stale" => Load(q) <= expiries[q]
                       /\ Load(q) <= 1 + expiries[q])'
    BY DEF ClaimInv
  <2>1. UNCHANGED <<box, claim, expiries, effects>>
    BY <1>17 DEF WorkerDies
  <2>2. Busy(q)' \subseteq Busy(q)
    BY <1>17 DEF WorkerDies, Busy, TypeOK
  <2>3. Cardinality(Busy(q))' \in Nat /\ Cardinality(Busy(q))' <= Cardinality(Busy(q))
    BY <2>2, LoadType, FS_Subset, FS_CardinalityType
  <2>4. Load(q)' \in Nat /\ Load(q)' <= Load(q)
    BY <2>1, <2>3, LoadType DEF Load, TypeOK
  <2> QED
    BY <2>1, <2>4, LoadType DEF ClaimInv, TypeOK
<1>18. CASE UNCHANGED vars
  BY <1>18 DEF vars, ClaimInv, Load, Busy
<1> QED
  BY <1>1, <1>2, <1>3, <1>4, <1>5, <1>6, <1>7, <1>8, <1>9, <1>10, <1>11, <1>12,
     <1>13, <1>14, <1>15, <1>16, <1>17, <1>18
     DEF Next, WebStep, WorkerStep

\* The initial state satisfies the inductive invariant.
LEMMA InitOutbox == Init => OutboxInv
<1> SUFFICES ASSUME Init PROVE OutboxInv
  OBVIOUS
<1>1. TypeOK /\ WebInv /\ WorkerInv /\ OneOperationPerKey /\ SuccessMeansDispatched
  BY DEF Init, TypeOK, WebInv, WorkerInv, OneOperationPerKey, SuccessMeansDispatched
<1>2. ASSUME NEW r \in Requests PROVE Load(r) = 0 /\ expiries[r] = 0
  <2>1. Busy(r) = {}
    BY DEF Init, Busy
  <2> QED
    BY <2>1, FS_EmptySet DEF Init, Load
<1>3. ClaimInv
  BY <1>2 DEF ClaimInv, Init
<1> QED
  BY <1>1, <1>3 DEF OutboxInv

\* OutboxInv is inductive, and therefore an invariant of the outbox.
THEOREM OutboxInvariant == Spec => []OutboxInv
<1>1. OutboxInv /\ [Next]_vars => OutboxInv'
  BY NextType, NextWeb, NextKey, NextWorker, NextSuccess, NextClaim DEF OutboxInv
<1> QED
  BY <1>1, InitOutbox, PTL DEF Spec

\* Every request, outbox row and worker keeps its type.
THEOREM OutboxTypes == Spec => []TypeOK
<1>1. OutboxInv => TypeOK
  BY DEF OutboxInv
<1> QED
  BY <1>1, OutboxInvariant, PTL

\* A key belongs to one operation, whatever the number of concurrent requests.
THEOREM KeyIsUnique == Spec => []OneOperationPerKey
<1>1. OutboxInv => OneOperationPerKey
  BY DEF OutboxInv
<1> QED
  BY <1>1, OutboxInvariant, PTL

\* SUCCEEDED is never reported for a command that was not handed over.
THEOREM SuccessIsReal == Spec => []SuccessMeansDispatched
<1>1. OutboxInv => SuccessMeansDispatched
  BY DEF OutboxInv
<1> QED
  BY <1>1, OutboxInvariant, PTL

\* Whatever the number of workers and deliveries, a command is handed over at most
\* once more than claims on it expired.
THEOREM ClaimsBoundEffects == Spec => []AtMostOncePerClaim
<1>1. OutboxInv => AtMostOncePerClaim
  <2> SUFFICES ASSUME OutboxInv, NEW r \in Requests PROVE effects[r] <= 1 + expiries[r]
    BY DEF AtMostOncePerClaim
  <2>1. TypeOK /\ Load(r) <= 1 + expiries[r]
    BY DEF OutboxInv, ClaimInv
  <2>2. Cardinality(Busy(r)) \in Nat
    BY <2>1, LoadType
  <2> QED
    BY <2>1, <2>2 DEF Load, TypeOK
<1> QED
  BY <1>1, OutboxInvariant, PTL
=============================================================================
