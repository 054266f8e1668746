----------------------- MODULE DeployPipelineProofs -----------------------
(***************************************************************************)
(* Proofs about DeployPipeline, for every number of sites, deployments,    *)
(* workers, sweepers, operators and steps.  The lemmas show that each      *)
(* action preserves each part of PipelineInv; the theorems follow.         *)
(***************************************************************************)
EXTENDS DeployPipeline, TLAPS

\* Every action keeps every variable in its type.
LEMMA NextType == TypeOK /\ ControlInv /\ [Next]_vars => TypeOK'
<1> SUFFICES ASSUME TypeOK, ControlInv, [Next]_vars PROVE TypeOK'
  OBVIOUS
<1> USE DeploymentsAssumption, PlacementAssumption, StepsAssumption
         DEF TypeOK, Procs, Steps, NoDep, rowVars, envVars, callVars, taskVars, boundVars, markVars
<1>1. ASSUME NEW d \in Deployments, Enqueue(d) PROVE TypeOK'
  <2>1. DataTypeOK'
    BY <1>1
       DEF Enqueue, NextPk, CreateRow, producerUnchanged, DataTypeOK, TaskTypeOK,
           Status, StepStatus, NoCache, Terminal
  <2>2. TaskTypeOK'
    BY <1>1
       DEF Enqueue, NextPk, CreateRow, producerUnchanged, DataTypeOK, TaskTypeOK,
           Pcs, Status, StepStatus, NoCache, Terminal
  <2> QED
    BY <2>1, <2>2
<1>2. ASSUME NEW d \in Deployments, EnqueueLost(d) PROVE TypeOK'
  <2>1. DataTypeOK'
    BY <1>2
       DEF EnqueueLost, NextPk, CreateRow, producerUnchanged, Fault, DataTypeOK,
           TaskTypeOK, Status, StepStatus, NoCache, Terminal
  <2>2. TaskTypeOK'
    BY <1>2
       DEF EnqueueLost, NextPk, CreateRow, producerUnchanged, Fault, DataTypeOK,
           TaskTypeOK, Pcs, Status, StepStatus, NoCache, Terminal
  <2> QED
    BY <2>1, <2>2
<1>3. ASSUME NEW d \in Deployments, Park(d) PROVE TypeOK'
  <2>1. DataTypeOK'
    BY <1>3
       DEF Park, NextPk, CreateRow, producerUnchanged, DataTypeOK, TaskTypeOK,
           Status, StepStatus, NoCache, Terminal
  <2>2. TaskTypeOK'
    BY <1>3
       DEF Park, NextPk, CreateRow, producerUnchanged, DataTypeOK, TaskTypeOK, Pcs,
           Status, StepStatus, NoCache, Terminal
  <2> QED
    BY <2>1, <2>2
<1>4. ASSUME NEW d \in Deployments, Promote(d) PROVE TypeOK'
  <2>1. DataTypeOK'
    BY <1>4 DEF Promote, DataTypeOK, TaskTypeOK, Status, StepStatus, NoCache, Terminal
  <2>2. TaskTypeOK'
    BY <1>4
       DEF Promote, DataTypeOK, TaskTypeOK, Pcs, Status, StepStatus, NoCache,
           Terminal
  <2> QED
    BY <2>1, <2>2
<1>5. ASSUME NEW d \in Deployments, ApplyEnv(d) PROVE TypeOK'
  <2>1. DataTypeOK'
    BY <1>5
       DEF ApplyEnv, NextPk, CreateRow, producerUnchanged, DataTypeOK, TaskTypeOK,
           Status, StepStatus, NoCache, Terminal
  <2>2. TaskTypeOK'
    BY <1>5
       DEF ApplyEnv, NextPk, CreateRow, producerUnchanged, DataTypeOK, TaskTypeOK,
           Pcs, Status, StepStatus, NoCache, Terminal
  <2> QED
    BY <2>1, <2>2
<1>6. ASSUME NEW d \in Deployments, NEW old \in Deployments, Retry(d, old)
      PROVE  TypeOK'
  <2>1. DataTypeOK'
    BY <1>6
       DEF Retry, NextPk, CreateRow, producerUnchanged, DataTypeOK, TaskTypeOK,
           Status, StepStatus, NoCache, Terminal
  <2>2. TaskTypeOK'
    BY <1>6
       DEF Retry, NextPk, CreateRow, producerUnchanged, DataTypeOK, TaskTypeOK, Pcs,
           Status, StepStatus, NoCache, Terminal
  <2> QED
    BY <2>1, <2>2
<1>7. ASSUME NEW d \in Deployments, NEW old \in Deployments, NEW prev \in
             Deployments, Rollback(d, old, prev)
      PROVE  TypeOK'
  <2>1. DataTypeOK'
    BY <1>7
       DEF Rollback, NextPk, CreateRow, producerUnchanged, DataTypeOK, TaskTypeOK,
           Status, StepStatus, NoCache, Terminal
  <2>2. TaskTypeOK'
    BY <1>7
       DEF Rollback, NextPk, CreateRow, producerUnchanged, DataTypeOK, TaskTypeOK,
           Pcs, Status, StepStatus, NoCache, Terminal
  <2> QED
    BY <2>1, <2>2
<1>8. ASSUME NEW w \in Workers, NEW d \in Deployments, NEW old \in Deployments,
             RollbackNow(w, d, old)
      PROVE  TypeOK'
  <2>1. DataTypeOK'
    BY <1>8
       DEF RollbackNow, NextPk, CreateRow, Goto, DataTypeOK, TaskTypeOK, Status,
           StepStatus, NoCache, Terminal
  <2>2. TaskTypeOK'
    BY <1>8
       DEF RollbackNow, NextPk, CreateRow, Goto, DataTypeOK, TaskTypeOK, Pcs,
           Status, StepStatus, NoCache, Terminal
  <2> QED
    BY <2>1, <2>2
<1>9. ASSUME NEW s \in Sites, PutEnv(s) PROVE TypeOK'
  <2>1. DataTypeOK'
    BY <1>9
       DEF PutEnv, producerUnchanged, DataTypeOK, TaskTypeOK, Status, StepStatus,
           NoCache, Terminal
  <2>2. TaskTypeOK'
    BY <1>9
       DEF PutEnv, producerUnchanged, DataTypeOK, TaskTypeOK, Pcs, Status,
           StepStatus, NoCache, Terminal
  <2> QED
    BY <2>1, <2>2
<1>10. ASSUME NEW d \in Deployments, EnvelopeExpired(d) PROVE TypeOK'
  <2>1. msgs[d] - 1 \in Nat
    BY <1>10 DEF EnvelopeExpired, Fault, DataTypeOK, TaskTypeOK
  <2>2. msgs' \in [Deployments -> Nat]
    BY <1>10, <2>1 DEF EnvelopeExpired, Fault, DataTypeOK, TaskTypeOK
  <2>3. DataTypeOK'
    <3>1. faults' \in Nat /\ UNCHANGED <<crashes, redispatched>>
      BY <1>10 DEF EnvelopeExpired, Fault, DataTypeOK
    <3>2. /\ UNCHANGED <<status, hb, step, lock, waiting, retryOf, begun, applied>>
          /\ UNCHANGED <<siteEnv, manifestEnv, envOf, configStale>>
      BY <1>10 DEF EnvelopeExpired
    <3> QED
      BY <2>2, <3>1, <3>2 DEF DataTypeOK
  <2>4. TaskTypeOK'
    BY <1>10, <2>1
       DEF EnvelopeExpired, Fault, DataTypeOK, TaskTypeOK, Pcs, Status, StepStatus,
           NoCache, Terminal
  <2> QED
    BY <2>3, <2>4
<1>11. ASSUME NEW d \in Deployments, Age(d) PROVE TypeOK'
  <2>1. DataTypeOK'
    BY <1>11 DEF Age, DataTypeOK, TaskTypeOK, Status, StepStatus, NoCache, Terminal
  <2>2. TaskTypeOK'
    BY <1>11
       DEF Age, DataTypeOK, TaskTypeOK, Pcs, Status, StepStatus, NoCache, Terminal
  <2> QED
    BY <2>1, <2>2
<1>12. ASSUME NEW w \in Workers, NEW d \in Deployments, TakeMessage(w, d)
       PROVE  TypeOK'
  <2>1. msgs[d] - 1 \in Nat
    BY <1>12 DEF TakeMessage, Goto, DataTypeOK, TaskTypeOK
  <2>2. msgs' \in [Deployments -> Nat]
    BY <1>12, <2>1 DEF TakeMessage, Goto, DataTypeOK, TaskTypeOK
  <2>3. DataTypeOK'
    BY <1>12, <2>1, <2>2
       DEF TakeMessage, Goto, DataTypeOK, TaskTypeOK, Status, StepStatus, NoCache,
           Terminal
  <2>4. TaskTypeOK'
    BY <1>12, <2>1
       DEF TakeMessage, Goto, DataTypeOK, TaskTypeOK, Pcs, Status, StepStatus,
           NoCache, Terminal
  <2> QED
    BY <2>3, <2>4
<1>13. ASSUME NEW w \in Workers, SeamRefused(w) PROVE TypeOK'
  <2>1. DataTypeOK'
    BY <1>13
       DEF SeamRefused, CallRelease, Goto, DataTypeOK, TaskTypeOK, Status,
           StepStatus, NoCache, Terminal
  <2>2. TaskTypeOK'
    BY <1>13
       DEF SeamRefused, CallRelease, Goto, DataTypeOK, TaskTypeOK, Pcs, Status,
           StepStatus, NoCache, Terminal
  <2> QED
    BY <2>1, <2>2
<1>14. ASSUME NEW w \in Workers, NotStartable(w) PROVE TypeOK'
  <2>1. DataTypeOK'
    BY <1>14
       DEF NotStartable, EndTask, Goto, DataTypeOK, TaskTypeOK, Status, StepStatus,
           NoCache, Terminal
  <2>2. TaskTypeOK'
    BY <1>14
       DEF NotStartable, EndTask, Goto, DataTypeOK, TaskTypeOK, Pcs, Status,
           StepStatus, NoCache, Terminal
  <2> QED
    BY <2>1, <2>2
<1>15. ASSUME NEW w \in Workers, BeginDeploy(w) PROVE TypeOK'
  <2>1. DataTypeOK'
    BY <1>15
       DEF BeginDeploy, Goto, DataTypeOK, TaskTypeOK, Status, StepStatus, NoCache,
           Terminal
  <2>2. TaskTypeOK'
    BY <1>15
       DEF BeginDeploy, Goto, DataTypeOK, TaskTypeOK, Pcs, Status, StepStatus,
           NoCache, Terminal
  <2> QED
    BY <2>1, <2>2
<1>16. ASSUME NEW w \in Workers, NEW d \in Deployments, SupersedeOne(w, d)
       PROVE  TypeOK'
  <2>1. DataTypeOK'
    BY <1>16
       DEF SupersedeOne, CallRelease, Goto, DataTypeOK, TaskTypeOK, Status,
           StepStatus, NoCache, Terminal
  <2>2. TaskTypeOK'
    BY <1>16
       DEF SupersedeOne, CallRelease, Goto, DataTypeOK, TaskTypeOK, Pcs, Status,
           StepStatus, NoCache, Terminal
  <2> QED
    BY <2>1, <2>2
<1>17. ASSUME NEW w \in Workers, AcquireSite(w) PROVE TypeOK'
  <2>1. DataTypeOK'
    BY <1>17
       DEF AcquireSite, Goto, DataTypeOK, TaskTypeOK, Status, StepStatus, NoCache,
           Terminal
  <2>2. TaskTypeOK'
    BY <1>17
       DEF AcquireSite, Goto, DataTypeOK, TaskTypeOK, Pcs, Status, StepStatus,
           NoCache, Terminal
  <2> QED
    BY <2>1, <2>2
<1>18. ASSUME NEW w \in Workers, SiteBusy(w) PROVE TypeOK'
  <2>1. DataTypeOK'
    BY <1>18
       DEF SiteBusy, EndTask, Goto, DataTypeOK, TaskTypeOK, Status, StepStatus,
           NoCache, Terminal
  <2>2. TaskTypeOK'
    BY <1>18
       DEF SiteBusy, EndTask, Goto, DataTypeOK, TaskTypeOK, Pcs, Status, StepStatus,
           NoCache, Terminal
  <2> QED
    BY <2>1, <2>2
<1>19. ASSUME NEW w \in Workers, AcquireTarget(w) PROVE TypeOK'
  <2>1. DataTypeOK'
    BY <1>19
       DEF AcquireTarget, Goto, DataTypeOK, TaskTypeOK, Status, StepStatus, NoCache,
           Terminal
  <2>2. TaskTypeOK'
    BY <1>19
       DEF AcquireTarget, Goto, DataTypeOK, TaskTypeOK, Pcs, Status, StepStatus,
           NoCache, Terminal
  <2> QED
    BY <2>1, <2>2
<1>20. ASSUME NEW w \in Workers, TargetBusy(w) PROVE TypeOK'
  <2>1. DataTypeOK'
    BY <1>20
       DEF TargetBusy, Goto, DataTypeOK, TaskTypeOK, Status, StepStatus, NoCache,
           Terminal
  <2>2. TaskTypeOK'
    BY <1>20
       DEF TargetBusy, Goto, DataTypeOK, TaskTypeOK, Pcs, Status, StepStatus,
           NoCache, Terminal
  <2> QED
    BY <2>1, <2>2
<1>21. ASSUME NEW w \in Workers, BackOut(w) PROVE TypeOK'
  <2>1. dep[w] \in Deployments
    BY <1>21 DEF BackOut, EndTask, Goto, DataTypeOK, TaskTypeOK, ControlInv
  <2>2. lock' \in [Resources -> Deployments \cup {NoDep}]
    BY <1>21, <2>1 DEF BackOut, EndTask, Goto, DataTypeOK, TaskTypeOK
  <2>3. pc' \in [Procs -> Pcs] /\ dep' \in [Procs -> Deployments \cup {NoDep}]
    BY <1>21
       DEF BackOut, EndTask, Goto, DataTypeOK, TaskTypeOK, Pcs, Status, StepStatus,
           NoCache, Terminal
  <2>4. row' \in [Procs -> Status] /\ seq' \in [Procs -> 1..(NSteps + 1)]
    BY <1>21
       DEF BackOut, EndTask, Goto, DataTypeOK, TaskTypeOK, Pcs, Status, StepStatus,
           NoCache, Terminal
  <2>5. cache' \in [Procs -> [Steps -> StepStatus]] /\ overrun' \in [Procs -> Nat]
    BY <1>21
       DEF BackOut, EndTask, Goto, DataTypeOK, TaskTypeOK, Pcs, Status, StepStatus,
           NoCache, Terminal
  <2>6. DataTypeOK'
    BY <1>21, <2>1, <2>2
       DEF BackOut, EndTask, Goto, DataTypeOK, TaskTypeOK, Status, StepStatus,
           NoCache, Terminal
  <2>7. TaskTypeOK'
    BY <1>21, <2>1, <2>3, <2>4, <2>5
       DEF BackOut, EndTask, Goto, DataTypeOK, TaskTypeOK, Pcs, Status, StepStatus,
           NoCache, Terminal
  <2> QED
    BY <2>6, <2>7
<1>22. ASSUME NEW w \in Workers, SaveRunning(w) PROVE TypeOK'
  <2>1. dep[w] \in Deployments
    BY <1>22 DEF SaveRunning, Goto, DataTypeOK, TaskTypeOK, ControlInv
  <2>2. [k \in Steps |-> IF step[dep[w]][k] = "absent" THEN "pending" ELSE step[dep[w]][k]]
           \in [Steps -> StepStatus]
    <3>1. step[dep[w]] \in [Steps -> StepStatus]
      BY <2>1 DEF DataTypeOK
    <3> QED
      BY <3>1 DEF StepStatus
  <2>3. step' \in [Deployments -> [Steps -> StepStatus]]
    BY <1>22, <2>2 DEF SaveRunning, Goto, DataTypeOK, TaskTypeOK
  <2>4. status' \in [Deployments -> Status] /\ hb' \in [Deployments -> {"null", "fresh", "stale"}]
    BY <1>22
       DEF SaveRunning, Goto, DataTypeOK, TaskTypeOK, Pcs, Status, StepStatus,
           NoCache, Terminal
  <2>5. pc' \in [Procs -> Pcs]
    BY <1>22
       DEF SaveRunning, Goto, DataTypeOK, TaskTypeOK, Pcs, Status, StepStatus,
           NoCache, Terminal
  <2>6. begun' \subseteq Deployments
    BY <1>22, <2>1 DEF SaveRunning, Goto, DataTypeOK, TaskTypeOK
  <2>7. DataTypeOK'
    BY <1>22, <2>1, <2>2, <2>3, <2>4, <2>6
       DEF SaveRunning, Goto, DataTypeOK, TaskTypeOK, Status, StepStatus, NoCache,
           Terminal
  <2>8. TaskTypeOK'
    BY <1>22, <2>1, <2>2, <2>5
       DEF SaveRunning, Goto, DataTypeOK, TaskTypeOK, Pcs, Status, StepStatus,
           NoCache, Terminal
  <2> QED
    BY <2>7, <2>8
<1>23. ASSUME NEW w \in Workers, BegunStopped(w) PROVE TypeOK'
  <2>1. DataTypeOK'
    BY <1>23
       DEF BegunStopped, EndTask, Goto, DataTypeOK, TaskTypeOK, Status, StepStatus,
           NoCache, Terminal
  <2>2. TaskTypeOK'
    BY <1>23
       DEF BegunStopped, EndTask, Goto, DataTypeOK, TaskTypeOK, Pcs, Status,
           StepStatus, NoCache, Terminal
  <2> QED
    BY <2>1, <2>2
<1>24. ASSUME NEW w \in Workers, TouchHeartbeat(w) PROVE TypeOK'
  <2>1. DataTypeOK'
    BY <1>24
       DEF TouchHeartbeat, Goto, DataTypeOK, TaskTypeOK, Status, StepStatus,
           NoCache, Terminal
  <2>2. TaskTypeOK'
    BY <1>24
       DEF TouchHeartbeat, Goto, DataTypeOK, TaskTypeOK, Pcs, Status, StepStatus,
           NoCache, Terminal
  <2> QED
    BY <2>1, <2>2
<1>25. ASSUME NEW w \in Workers, LoadSteps(w) PROVE TypeOK'
  <2>1. dep[w] \in Deployments
    BY <1>25 DEF LoadSteps, Goto, DataTypeOK, TaskTypeOK, ControlInv
  <2>2. step[dep[w]] \in [Steps -> StepStatus]
    BY <1>25, <2>1 DEF LoadSteps, Goto, DataTypeOK, TaskTypeOK
  <2>3. cache' \in [Procs -> [Steps -> StepStatus]]
    BY <1>25, <2>2 DEF LoadSteps, Goto, DataTypeOK, TaskTypeOK
  <2>4. seq' \in [Procs -> 1..(NSteps + 1)] /\ pc' \in [Procs -> Pcs]
    BY <1>25
       DEF LoadSteps, Goto, DataTypeOK, TaskTypeOK, Pcs, Status, StepStatus,
           NoCache, Terminal
  <2>5. DataTypeOK'
    BY <1>25, <2>1, <2>2
       DEF LoadSteps, Goto, DataTypeOK, TaskTypeOK, Status, StepStatus, NoCache,
           Terminal
  <2>6. TaskTypeOK'
    BY <1>25, <2>1, <2>2, <2>3, <2>4
       DEF LoadSteps, Goto, DataTypeOK, TaskTypeOK, Pcs, Status, StepStatus,
           NoCache, Terminal
  <2> QED
    BY <2>5, <2>6
<1>26. ASSUME NEW w \in Workers, PrepareRaises(w) PROVE TypeOK'
  <2>1. DataTypeOK'
    BY <1>26
       DEF PrepareRaises, Goto, Fault, DataTypeOK, TaskTypeOK, Status, StepStatus,
           NoCache, Terminal
  <2>2. TaskTypeOK'
    BY <1>26
       DEF PrepareRaises, Goto, Fault, DataTypeOK, TaskTypeOK, Pcs, Status,
           StepStatus, NoCache, Terminal
  <2> QED
    BY <2>1, <2>2
<1>27. ASSUME NEW w \in Workers, LoopStopped(w) PROVE TypeOK'
  <2>1. DataTypeOK'
    BY <1>27
       DEF LoopStopped, Goto, DataTypeOK, TaskTypeOK, Status, StepStatus, NoCache,
           Terminal
  <2>2. TaskTypeOK'
    BY <1>27
       DEF LoopStopped, Goto, DataTypeOK, TaskTypeOK, Pcs, Status, StepStatus,
           NoCache, Terminal
  <2> QED
    BY <2>1, <2>2
<1>28. ASSUME NEW w \in Workers, LoopSkip(w) PROVE TypeOK'
  <2>1. seq[w] \in 1..NSteps /\ seq[w] + 1 \in 1..(NSteps + 1)
    BY <1>28 DEF LoopSkip, DataTypeOK, TaskTypeOK
  <2>2. seq' \in [Procs -> 1..(NSteps + 1)]
    BY <1>28, <2>1 DEF LoopSkip, DataTypeOK, TaskTypeOK
  <2>3. pc' \in [Procs -> Pcs]
    BY <1>28
       DEF LoopSkip, DataTypeOK, TaskTypeOK, Pcs, Status, StepStatus, NoCache,
           Terminal
  <2>4. DataTypeOK'
    BY <1>28, <2>1
       DEF LoopSkip, DataTypeOK, TaskTypeOK, Status, StepStatus, NoCache, Terminal
  <2>5. TaskTypeOK'
    BY <1>28, <2>1, <2>2, <2>3
       DEF LoopSkip, DataTypeOK, TaskTypeOK, Pcs, Status, StepStatus, NoCache,
           Terminal
  <2> QED
    BY <2>4, <2>5
<1>29. ASSUME NEW w \in Workers, LoopEnter(w) PROVE TypeOK'
  <2>1. DataTypeOK'
    BY <1>29
       DEF LoopEnter, Goto, DataTypeOK, TaskTypeOK, Status, StepStatus, NoCache,
           Terminal
  <2>2. TaskTypeOK'
    BY <1>29
       DEF LoopEnter, Goto, DataTypeOK, TaskTypeOK, Pcs, Status, StepStatus,
           NoCache, Terminal
  <2> QED
    BY <2>1, <2>2
<1>30. ASSUME NEW w \in Workers, StartStep(w) PROVE TypeOK'
  <2>1. dep[w] \in Deployments
    BY <1>30 DEF StartStep, Goto, DataTypeOK, TaskTypeOK, ControlInv
  <2>2. seq[w] \in Steps
    BY <1>30 DEF StartStep, Goto, DataTypeOK, TaskTypeOK, ControlInv, InStep
  <2>3. step' \in [Deployments -> [Steps -> StepStatus]]
    BY <1>30
       DEF StartStep, Goto, DataTypeOK, TaskTypeOK, Pcs, Status, StepStatus,
           NoCache, Terminal
  <2>4. overrun' \in [Procs -> Nat]
    BY <1>30 DEF StartStep, Goto, DataTypeOK, TaskTypeOK
  <2>5. pc' \in [Procs -> Pcs]
    BY <1>30
       DEF StartStep, Goto, DataTypeOK, TaskTypeOK, Pcs, Status, StepStatus,
           NoCache, Terminal
  <2>6. DataTypeOK'
    BY <1>30, <2>1, <2>2, <2>3
       DEF StartStep, Goto, DataTypeOK, TaskTypeOK, Status, StepStatus, NoCache,
           Terminal
  <2>7. TaskTypeOK'
    BY <1>30, <2>1, <2>2, <2>4, <2>5
       DEF StartStep, Goto, DataTypeOK, TaskTypeOK, Pcs, Status, StepStatus,
           NoCache, Terminal
  <2> QED
    BY <2>6, <2>7
<1>31. ASSUME NEW w \in Workers, StepApplied(w) PROVE TypeOK'
  <2>1. dep[w] \in Deployments
    BY <1>31 DEF StepApplied, Goto, DataTypeOK, TaskTypeOK, ControlInv
  <2>2. seq[w] \in Steps
    BY <1>31 DEF StepApplied, Goto, DataTypeOK, TaskTypeOK, ControlInv, InStep
  <2>3. DataTypeOK'
    BY <1>31, <2>1, <2>2
       DEF StepApplied, Goto, DataTypeOK, TaskTypeOK, Status, StepStatus, NoCache,
           Terminal
  <2>4. TaskTypeOK'
    BY <1>31, <2>1, <2>2
       DEF StepApplied, Goto, DataTypeOK, TaskTypeOK, Pcs, Status, StepStatus,
           NoCache, Terminal
  <2> QED
    BY <2>3, <2>4
<1>32. ASSUME NEW w \in Workers, StepRaises(w) PROVE TypeOK'
  <2>1. DataTypeOK'
    BY <1>32
       DEF StepRaises, Goto, DataTypeOK, TaskTypeOK, Status, StepStatus, NoCache,
           Terminal
  <2>2. TaskTypeOK'
    BY <1>32
       DEF StepRaises, Goto, DataTypeOK, TaskTypeOK, Pcs, Status, StepStatus,
           NoCache, Terminal
  <2> QED
    BY <2>1, <2>2
<1>33. ASSUME NEW w \in Workers, MarkFailed(w) PROVE TypeOK'
  <2>1. DataTypeOK'
    BY <1>33
       DEF MarkFailed, CallRelease, Goto, DataTypeOK, TaskTypeOK, Status,
           StepStatus, NoCache, Terminal
  <2>2. TaskTypeOK'
    BY <1>33
       DEF MarkFailed, CallRelease, Goto, DataTypeOK, TaskTypeOK, Pcs, Status,
           StepStatus, NoCache, Terminal
  <2> QED
    BY <2>1, <2>2
<1>34. ASSUME NEW w \in Workers, StepSucceeded(w) PROVE TypeOK'
  <2>1. dep[w] \in Deployments
    BY <1>34 DEF StepSucceeded, Goto, DataTypeOK, TaskTypeOK, ControlInv
  <2>2. seq[w] \in Steps
    BY <1>34 DEF StepSucceeded, Goto, DataTypeOK, TaskTypeOK, ControlInv, InStep
  <2>3. seq[w] + 1 \in 1..(NSteps + 1)
    BY <1>34, <2>2 DEF StepSucceeded, Goto, DataTypeOK, TaskTypeOK
  <2>4. DataTypeOK'
    BY <1>34, <2>1, <2>2, <2>3
       DEF StepSucceeded, Goto, DataTypeOK, TaskTypeOK, Status, StepStatus, NoCache,
           Terminal
  <2>5. TaskTypeOK'
    BY <1>34, <2>1, <2>2, <2>3
       DEF StepSucceeded, Goto, DataTypeOK, TaskTypeOK, Pcs, Status, StepStatus,
           NoCache, Terminal
  <2> QED
    BY <2>4, <2>5
<1>35. ASSUME NEW w \in Workers, SnapshotRaises(w) PROVE TypeOK'
  <2>1. DataTypeOK'
    BY <1>35
       DEF SnapshotRaises, Goto, Fault, DataTypeOK, TaskTypeOK, Status, StepStatus,
           NoCache, Terminal
  <2>2. TaskTypeOK'
    BY <1>35
       DEF SnapshotRaises, Goto, Fault, DataTypeOK, TaskTypeOK, Pcs, Status,
           StepStatus, NoCache, Terminal
  <2> QED
    BY <2>1, <2>2
<1>36. ASSUME NEW w \in Workers, LoopFinished(w) PROVE TypeOK'
  <2>1. DataTypeOK'
    BY <1>36
       DEF LoopFinished, Goto, DataTypeOK, TaskTypeOK, Status, StepStatus, NoCache,
           Terminal
  <2>2. TaskTypeOK'
    BY <1>36
       DEF LoopFinished, Goto, DataTypeOK, TaskTypeOK, Pcs, Status, StepStatus,
           NoCache, Terminal
  <2> QED
    BY <2>1, <2>2
<1>37. ASSUME NEW w \in Workers, SaveSucceeded(w) PROVE TypeOK'
  <2>1. DataTypeOK'
    BY <1>37
       DEF SaveSucceeded, Goto, DataTypeOK, TaskTypeOK, Status, StepStatus, NoCache,
           Terminal
  <2>2. TaskTypeOK'
    BY <1>37
       DEF SaveSucceeded, Goto, DataTypeOK, TaskTypeOK, Pcs, Status, StepStatus,
           NoCache, Terminal
  <2> QED
    BY <2>1, <2>2
<1>38. ASSUME NEW w \in Workers, ClearStale(w) PROVE TypeOK'
  <2>1. DataTypeOK'
    BY <1>38
       DEF ClearStale, Goto, DataTypeOK, TaskTypeOK, Status, StepStatus, NoCache,
           Terminal
  <2>2. TaskTypeOK'
    BY <1>38
       DEF ClearStale, Goto, DataTypeOK, TaskTypeOK, Pcs, Status, StepStatus,
           NoCache, Terminal
  <2> QED
    BY <2>1, <2>2
<1>39. ASSUME NEW w \in Workers, FinallyRelease(w) PROVE TypeOK'
  <2>1. DataTypeOK'
    BY <1>39
       DEF FinallyRelease, CallRelease, Goto, DataTypeOK, TaskTypeOK, Status,
           StepStatus, NoCache, Terminal
  <2>2. TaskTypeOK'
    BY <1>39
       DEF FinallyRelease, CallRelease, Goto, DataTypeOK, TaskTypeOK, Pcs, Status,
           StepStatus, NoCache, Terminal
  <2> QED
    BY <2>1, <2>2
<1>40. ASSUME NEW w \in Workers, FinallyKeep(w) PROVE TypeOK'
  <2>1. DataTypeOK'
    BY <1>40
       DEF FinallyKeep, EndTask, Goto, DataTypeOK, TaskTypeOK, Status, StepStatus,
           NoCache, Terminal
  <2>2. TaskTypeOK'
    BY <1>40
       DEF FinallyKeep, EndTask, Goto, DataTypeOK, TaskTypeOK, Pcs, Status,
           StepStatus, NoCache, Terminal
  <2> QED
    BY <2>1, <2>2
<1>41. ASSUME NEW p \in Sweepers, SweepList(p) PROVE TypeOK'
  <2>1. DataTypeOK'
    BY <1>41
       DEF SweepList, Goto, DataTypeOK, TaskTypeOK, Status, StepStatus, NoCache,
           Terminal
  <2>2. TaskTypeOK'
    BY <1>41
       DEF SweepList, Goto, DataTypeOK, TaskTypeOK, Pcs, Status, StepStatus,
           NoCache, Terminal
  <2> QED
    BY <2>1, <2>2
<1>42. ASSUME NEW p \in Sweepers, NEW d \in Deployments, SweepRead(p, d) PROVE TypeOK'
  <2>1. DataTypeOK'
    BY <1>42
       DEF SweepRead, Goto, Verdict, DataTypeOK, TaskTypeOK, Status, StepStatus,
           NoCache, Terminal
  <2>2. TaskTypeOK'
    BY <1>42
       DEF SweepRead, Goto, Verdict, DataTypeOK, TaskTypeOK, Pcs, Status,
           StepStatus, NoCache, Terminal
  <2> QED
    BY <2>1, <2>2
<1>43. ASSUME NEW p \in Sweepers, SweepFinalize(p) PROVE TypeOK'
  <2>1. dep[p] \in Deployments
    BY <1>43
       DEF SweepFinalize, SweepClose, CallRelease, Goto, DataTypeOK, TaskTypeOK,
           ControlInv, SweepActs
  <2>2. status' \in [Deployments -> Status]
    BY <1>43
       DEF SweepFinalize, SweepClose, CallRelease, Goto, DataTypeOK, TaskTypeOK,
           Pcs, Status, StepStatus, NoCache, Terminal
  <2>3. pc' \in [Procs -> Pcs]
    BY <1>43
       DEF SweepFinalize, SweepClose, CallRelease, Goto, DataTypeOK, TaskTypeOK,
           Pcs, Status, StepStatus, NoCache, Terminal
  <2>4. vic' \in [Procs -> Deployments \cup {NoDep}] /\ ret' \in [Procs -> Pcs]
    BY <1>43
       DEF SweepFinalize, SweepClose, CallRelease, Goto, DataTypeOK, TaskTypeOK, Pcs
  <2>5. rows' \in [Procs -> SUBSET Resources]
    BY <1>43 DEF SweepFinalize, SweepClose, CallRelease, Goto, DataTypeOK, TaskTypeOK
  <2>6. DataTypeOK'
    BY <1>43, <2>1, <2>2
       DEF SweepFinalize, SweepClose, CallRelease, Goto, DataTypeOK, TaskTypeOK,
           Status, StepStatus, NoCache, Terminal
  <2>7. TaskTypeOK'
    BY <1>43, <2>1, <2>3, <2>4, <2>5
       DEF SweepFinalize, SweepClose, CallRelease, Goto, DataTypeOK, TaskTypeOK,
           Pcs, Status, StepStatus, NoCache, Terminal
  <2> QED
    BY <2>6, <2>7
<1>44. ASSUME NEW p \in Sweepers, SweepAbort(p) PROVE TypeOK'
  <2>1. dep[p] \in Deployments
    BY <1>44
       DEF SweepAbort, SweepClose, CallRelease, Goto, DataTypeOK, TaskTypeOK,
           ControlInv, SweepActs
  <2>2. status' \in [Deployments -> Status]
    BY <1>44
       DEF SweepAbort, SweepClose, CallRelease, Goto, DataTypeOK, TaskTypeOK, Pcs,
           Status, StepStatus, NoCache, Terminal
  <2>3. pc' \in [Procs -> Pcs]
    BY <1>44
       DEF SweepAbort, SweepClose, CallRelease, Goto, DataTypeOK, TaskTypeOK, Pcs,
           Status, StepStatus, NoCache, Terminal
  <2>4. vic' \in [Procs -> Deployments \cup {NoDep}] /\ ret' \in [Procs -> Pcs]
    BY <1>44
       DEF SweepAbort, SweepClose, CallRelease, Goto, DataTypeOK, TaskTypeOK, Pcs
  <2>5. rows' \in [Procs -> SUBSET Resources]
    BY <1>44 DEF SweepAbort, SweepClose, CallRelease, Goto, DataTypeOK, TaskTypeOK
  <2>6. DataTypeOK'
    BY <1>44, <2>1, <2>2
       DEF SweepAbort, SweepClose, CallRelease, Goto, DataTypeOK, TaskTypeOK,
           Status, StepStatus, NoCache, Terminal
  <2>7. TaskTypeOK'
    BY <1>44, <2>1, <2>3, <2>4, <2>5
       DEF SweepAbort, SweepClose, CallRelease, Goto, DataTypeOK, TaskTypeOK, Pcs,
           Status, StepStatus, NoCache, Terminal
  <2> QED
    BY <2>6, <2>7
<1>45. ASSUME NEW p \in Sweepers, SweepSkip(p) PROVE TypeOK'
  <2>1. DataTypeOK'
    BY <1>45
       DEF SweepSkip, Goto, DataTypeOK, TaskTypeOK, Status, StepStatus, NoCache,
           Terminal
  <2>2. TaskTypeOK'
    BY <1>45
       DEF SweepSkip, Goto, DataTypeOK, TaskTypeOK, Pcs, Status, StepStatus,
           NoCache, Terminal
  <2> QED
    BY <2>1, <2>2
<1>46. ASSUME NEW p \in Sweepers, SweepClaim(p) PROVE TypeOK'
  <2>1. dep[p] \in Deployments
    BY <1>46 DEF SweepClaim, Goto, DataTypeOK, TaskTypeOK, ControlInv, SweepActs
  <2>2. DataTypeOK'
    BY <1>46, <2>1
       DEF SweepClaim, Goto, DataTypeOK, TaskTypeOK, Status, StepStatus, NoCache,
           Terminal
  <2>3. TaskTypeOK'
    BY <1>46, <2>1
       DEF SweepClaim, Goto, DataTypeOK, TaskTypeOK, Pcs, Status, StepStatus,
           NoCache, Terminal
  <2> QED
    BY <2>2, <2>3
<1>47. ASSUME NEW p \in Sweepers, SweepEnqueue(p) PROVE TypeOK'
  <2>1. dep[p] \in Deployments
    BY <1>47 DEF SweepEnqueue, Goto, DataTypeOK, TaskTypeOK, ControlInv, SweepActs
  <2>2. msgs[dep[p]] \in Nat
    BY <2>1 DEF DataTypeOK
  <2>3. msgs[dep[p]] + 1 \in Nat
    BY <2>2 DEF DataTypeOK
  <2>4. msgs' \in [Deployments -> Nat]
    BY <1>47, <2>3 DEF SweepEnqueue, Goto, DataTypeOK, TaskTypeOK
  <2>5. pc' \in [Procs -> Pcs]
    BY <1>47
       DEF SweepEnqueue, Goto, DataTypeOK, TaskTypeOK, Pcs, Status, StepStatus,
           NoCache, Terminal
  <2>6. DataTypeOK'
    BY <1>47, <2>1, <2>2, <2>3, <2>4
       DEF SweepEnqueue, Goto, DataTypeOK, TaskTypeOK, Status, StepStatus, NoCache,
           Terminal
  <2>7. TaskTypeOK'
    BY <1>47, <2>1, <2>2, <2>3, <2>5
       DEF SweepEnqueue, Goto, DataTypeOK, TaskTypeOK, Pcs, Status, StepStatus,
           NoCache, Terminal
  <2> QED
    BY <2>6, <2>7
<1>48. ASSUME NEW p \in Sweepers, SweepEnd(p) PROVE TypeOK'
  <2>1. DataTypeOK'
    BY <1>48
       DEF SweepEnd, EndTask, Goto, DataTypeOK, TaskTypeOK, Status, StepStatus,
           NoCache, Terminal
  <2>2. TaskTypeOK'
    BY <1>48
       DEF SweepEnd, EndTask, Goto, DataTypeOK, TaskTypeOK, Pcs, Status, StepStatus,
           NoCache, Terminal
  <2> QED
    BY <2>1, <2>2
<1>49. ASSUME NEW o \in Operators, NEW d \in Deployments, CancelRequest(o, d)
       PROVE  TypeOK'
  <2>1. DataTypeOK'
    BY <1>49
       DEF CancelRequest, Command, Goto, DataTypeOK, TaskTypeOK, Status, StepStatus,
           NoCache, Terminal
  <2>2. TaskTypeOK'
    BY <1>49
       DEF CancelRequest, Command, Goto, DataTypeOK, TaskTypeOK, Pcs, Status,
           StepStatus, NoCache, Terminal
  <2> QED
    BY <2>1, <2>2
<1>50. ASSUME NEW o \in Operators, NEW d \in Deployments, AbortRequest(o, d)
       PROVE  TypeOK'
  <2>1. DataTypeOK'
    BY <1>50
       DEF AbortRequest, Command, Goto, DataTypeOK, TaskTypeOK, Status, StepStatus,
           NoCache, Terminal
  <2>2. TaskTypeOK'
    BY <1>50
       DEF AbortRequest, Command, Goto, DataTypeOK, TaskTypeOK, Pcs, Status,
           StepStatus, NoCache, Terminal
  <2> QED
    BY <2>1, <2>2
<1>51. ASSUME NEW o \in Operators, CancelSave(o) PROVE TypeOK'
  <2>1. dep[o] \in Deployments
    BY <1>51 DEF CancelSave, EndTask, Goto, DataTypeOK, TaskTypeOK, ControlInv
  <2>2. DataTypeOK'
    BY <1>51, <2>1
       DEF CancelSave, EndTask, Goto, DataTypeOK, TaskTypeOK, Status, StepStatus,
           NoCache, Terminal
  <2>3. TaskTypeOK'
    BY <1>51, <2>1
       DEF CancelSave, EndTask, Goto, DataTypeOK, TaskTypeOK, Pcs, Status,
           StepStatus, NoCache, Terminal
  <2> QED
    BY <2>2, <2>3
<1>52. ASSUME NEW o \in Operators, AbortSave(o) PROVE TypeOK'
  <2>1. DataTypeOK'
    BY <1>52
       DEF AbortSave, CallRelease, Goto, DataTypeOK, TaskTypeOK, Status, StepStatus,
           NoCache, Terminal
  <2>2. TaskTypeOK'
    BY <1>52
       DEF AbortSave, CallRelease, Goto, DataTypeOK, TaskTypeOK, Pcs, Status,
           StepStatus, NoCache, Terminal
  <2> QED
    BY <2>1, <2>2
<1>53. ASSUME NEW p \in Procs, ReleaseList(p) PROVE TypeOK'
  <2>1. DataTypeOK'
    BY <1>53
       DEF ReleaseList, Goto, DataTypeOK, TaskTypeOK, Status, StepStatus, NoCache,
           Terminal
  <2>2. TaskTypeOK'
    BY <1>53
       DEF ReleaseList, Goto, DataTypeOK, TaskTypeOK, Pcs, Status, StepStatus,
           NoCache, Terminal
  <2> QED
    BY <2>1, <2>2
<1>54. ASSUME NEW p \in Procs, NEW r \in Resources, ReleaseRow(p, r) PROVE TypeOK'
  <2>1. DataTypeOK'
    BY <1>54
       DEF ReleaseRow, DataTypeOK, TaskTypeOK, Status, StepStatus, NoCache, Terminal
  <2>2. TaskTypeOK'
    BY <1>54
       DEF ReleaseRow, DataTypeOK, TaskTypeOK, Pcs, Status, StepStatus, NoCache,
           Terminal
  <2> QED
    BY <2>1, <2>2
<1>55. ASSUME NEW p \in Procs, ReleaseReturn(p) PROVE TypeOK'
  <2>1. DataTypeOK'
    BY <1>55
       DEF ReleaseReturn, Goto, DataTypeOK, TaskTypeOK, Status, StepStatus, NoCache,
           Terminal
  <2>2. TaskTypeOK'
    BY <1>55
       DEF ReleaseReturn, Goto, DataTypeOK, TaskTypeOK, Pcs, Status, StepStatus,
           NoCache, Terminal
  <2> QED
    BY <2>1, <2>2
<1>56. ASSUME NEW p \in Procs, ReleaseEnd(p) PROVE TypeOK'
  <2>1. DataTypeOK'
    BY <1>56
       DEF ReleaseEnd, EndTask, Goto, DataTypeOK, TaskTypeOK, Status, StepStatus,
           NoCache, Terminal
  <2>2. TaskTypeOK'
    BY <1>56
       DEF ReleaseEnd, EndTask, Goto, DataTypeOK, TaskTypeOK, Pcs, Status,
           StepStatus, NoCache, Terminal
  <2> QED
    BY <2>1, <2>2
<1>57. ASSUME NEW p \in Procs, Crash(p) PROVE TypeOK'
  <2>1. DataTypeOK'
    BY <1>57
       DEF Crash, EndTask, Goto, DataTypeOK, TaskTypeOK, Status, StepStatus,
           NoCache, Terminal
  <2>2. TaskTypeOK'
    BY <1>57
       DEF Crash, EndTask, Goto, DataTypeOK, TaskTypeOK, Pcs, Status, StepStatus,
           NoCache, Terminal
  <2> QED
    BY <2>1, <2>2
<1>58. CASE UNCHANGED vars
  BY <1>58 DEF vars, DataTypeOK, TaskTypeOK
<1> QED
  BY <1>1, <1>2, <1>3, <1>4, <1>5, <1>6, <1>7, <1>8, <1>9, <1>10, <1>11, <1>12,
     <1>13, <1>14, <1>15, <1>16, <1>17, <1>18, <1>19, <1>20, <1>21, <1>22, <1>23,
     <1>24, <1>25, <1>26, <1>27, <1>28, <1>29, <1>30, <1>31, <1>32, <1>33, <1>34,
     <1>35, <1>36, <1>37, <1>38, <1>39, <1>40, <1>41, <1>42, <1>43, <1>44, <1>45,
     <1>46, <1>47, <1>48, <1>49, <1>50, <1>51, <1>52, <1>53, <1>54, <1>55, <1>56,
     <1>57, <1>58
     DEF Next, Produce, WorkerStep, WorkerFails, SweeperStep, OperatorStep, Release,
         Procs

\* Every process stays at a place of its own code and keeps the deployment it works on.
LEMMA NextControl == TypeOK /\ ControlInv /\ [Next]_vars => ControlInv'
<1> SUFFICES ASSUME TypeOK, ControlInv, [Next]_vars PROVE ControlInv'
  OBVIOUS
<1> USE DeploymentsAssumption, PlacementAssumption, StepsAssumption, ProcsAssumption
         DEF Procs, NoDep, rowVars, envVars, callVars, taskVars, boundVars, markVars
<1>t. /\ pc \in [Procs -> Pcs] /\ ret \in [Procs -> Pcs] /\ seq \in [Procs -> 1..(NSteps + 1)]
      /\ dep \in [Procs -> Deployments \cup {NoDep}]
      /\ vic \in [Procs -> Deployments \cup {NoDep}]
  BY DEF TypeOK, DataTypeOK, TaskTypeOK
<1>1. ASSUME NEW d \in Deployments, Enqueue(d) PROVE ControlInv'
  BY <1>1, <1>t
     DEF Enqueue, NextPk, CreateRow, producerUnchanged, ControlInv, InRelease,
         InStep, WorkerPcs, SweeperPcs, OperatorPcs, SweepActs
<1>2. ASSUME NEW d \in Deployments, EnqueueLost(d) PROVE ControlInv'
  BY <1>2, <1>t
     DEF EnqueueLost, NextPk, CreateRow, producerUnchanged, Fault, ControlInv,
         InRelease, InStep, WorkerPcs, SweeperPcs, OperatorPcs, SweepActs
<1>3. ASSUME NEW d \in Deployments, Park(d) PROVE ControlInv'
  BY <1>3, <1>t
     DEF Park, NextPk, CreateRow, producerUnchanged, ControlInv, InRelease, InStep,
         WorkerPcs, SweeperPcs, OperatorPcs, SweepActs
<1>4. ASSUME NEW d \in Deployments, Promote(d) PROVE ControlInv'
  BY <1>4, <1>t
     DEF Promote, ControlInv, InRelease, InStep, WorkerPcs, SweeperPcs, OperatorPcs,
         SweepActs
<1>5. ASSUME NEW d \in Deployments, ApplyEnv(d) PROVE ControlInv'
  BY <1>5, <1>t
     DEF ApplyEnv, NextPk, CreateRow, producerUnchanged, ControlInv, InRelease,
         InStep, WorkerPcs, SweeperPcs, OperatorPcs, SweepActs
<1>6. ASSUME NEW d \in Deployments, NEW old \in Deployments, Retry(d, old)
      PROVE  ControlInv'
  BY <1>6, <1>t
     DEF Retry, NextPk, CreateRow, producerUnchanged, ControlInv, InRelease, InStep,
         WorkerPcs, SweeperPcs, OperatorPcs, SweepActs
<1>7. ASSUME NEW d \in Deployments, NEW old \in Deployments, NEW prev \in
             Deployments, Rollback(d, old, prev)
      PROVE  ControlInv'
  BY <1>7, <1>t
     DEF Rollback, NextPk, CreateRow, producerUnchanged, ControlInv, InRelease,
         InStep, WorkerPcs, SweeperPcs, OperatorPcs, SweepActs
<1>8. ASSUME NEW w \in Workers, NEW d \in Deployments, NEW old \in Deployments,
             RollbackNow(w, d, old)
      PROVE  ControlInv'
  BY <1>8, <1>t
     DEF RollbackNow, NextPk, CreateRow, Goto, ControlInv, InRelease, InStep,
         WorkerPcs, SweeperPcs, OperatorPcs, SweepActs
<1>9. ASSUME NEW s \in Sites, PutEnv(s) PROVE ControlInv'
  BY <1>9, <1>t
     DEF PutEnv, producerUnchanged, ControlInv, InRelease, InStep, WorkerPcs,
         SweeperPcs, OperatorPcs, SweepActs
<1>10. ASSUME NEW d \in Deployments, EnvelopeExpired(d) PROVE ControlInv'
  BY <1>10, <1>t
     DEF EnvelopeExpired, Fault, ControlInv, InRelease, InStep, WorkerPcs,
         SweeperPcs, OperatorPcs, SweepActs
<1>11. ASSUME NEW d \in Deployments, Age(d) PROVE ControlInv'
  BY <1>11, <1>t
     DEF Age, ControlInv, InRelease, InStep, WorkerPcs, SweeperPcs, OperatorPcs,
         SweepActs
<1>12. ASSUME NEW w \in Workers, NEW d \in Deployments, TakeMessage(w, d)
       PROVE  ControlInv'
  BY <1>12, <1>t
     DEF TakeMessage, Goto, ControlInv, InRelease, InStep, WorkerPcs, SweeperPcs,
         OperatorPcs, SweepActs
<1>13. ASSUME NEW w \in Workers, SeamRefused(w) PROVE ControlInv'
  BY <1>13, <1>t
     DEF SeamRefused, CallRelease, Goto, ControlInv, InRelease, InStep, WorkerPcs,
         SweeperPcs, OperatorPcs, SweepActs
<1>14. ASSUME NEW w \in Workers, NotStartable(w) PROVE ControlInv'
  BY <1>14, <1>t
     DEF NotStartable, EndTask, Goto, ControlInv, InRelease, InStep, WorkerPcs,
         SweeperPcs, OperatorPcs, SweepActs
<1>15. ASSUME NEW w \in Workers, BeginDeploy(w) PROVE ControlInv'
  BY <1>15, <1>t
     DEF BeginDeploy, Goto, ControlInv, InRelease, InStep, WorkerPcs, SweeperPcs,
         OperatorPcs, SweepActs
<1>16. ASSUME NEW w \in Workers, NEW d \in Deployments, SupersedeOne(w, d)
       PROVE  ControlInv'
  BY <1>16, <1>t
     DEF SupersedeOne, CallRelease, Goto, ControlInv, InRelease, InStep, WorkerPcs,
         SweeperPcs, OperatorPcs, SweepActs
<1>17. ASSUME NEW w \in Workers, AcquireSite(w) PROVE ControlInv'
  BY <1>17, <1>t
     DEF AcquireSite, Goto, ControlInv, InRelease, InStep, WorkerPcs, SweeperPcs,
         OperatorPcs, SweepActs
<1>18. ASSUME NEW w \in Workers, SiteBusy(w) PROVE ControlInv'
  BY <1>18, <1>t
     DEF SiteBusy, EndTask, Goto, ControlInv, InRelease, InStep, WorkerPcs,
         SweeperPcs, OperatorPcs, SweepActs
<1>19. ASSUME NEW w \in Workers, AcquireTarget(w) PROVE ControlInv'
  BY <1>19, <1>t
     DEF AcquireTarget, Goto, ControlInv, InRelease, InStep, WorkerPcs, SweeperPcs,
         OperatorPcs, SweepActs
<1>20. ASSUME NEW w \in Workers, TargetBusy(w) PROVE ControlInv'
  BY <1>20, <1>t
     DEF TargetBusy, Goto, ControlInv, InRelease, InStep, WorkerPcs, SweeperPcs,
         OperatorPcs, SweepActs
<1>21. ASSUME NEW w \in Workers, BackOut(w) PROVE ControlInv'
  BY <1>21, <1>t
     DEF BackOut, EndTask, Goto, ControlInv, InRelease, InStep, WorkerPcs,
         SweeperPcs, OperatorPcs, SweepActs
<1>22. ASSUME NEW w \in Workers, SaveRunning(w) PROVE ControlInv'
  BY <1>22, <1>t
     DEF SaveRunning, Goto, ControlInv, InRelease, InStep, WorkerPcs, SweeperPcs,
         OperatorPcs, SweepActs
<1>23. ASSUME NEW w \in Workers, BegunStopped(w) PROVE ControlInv'
  BY <1>23, <1>t
     DEF BegunStopped, EndTask, Goto, ControlInv, InRelease, InStep, WorkerPcs,
         SweeperPcs, OperatorPcs, SweepActs
<1>24. ASSUME NEW w \in Workers, TouchHeartbeat(w) PROVE ControlInv'
  BY <1>24, <1>t
     DEF TouchHeartbeat, Goto, ControlInv, InRelease, InStep, WorkerPcs, SweeperPcs,
         OperatorPcs, SweepActs
<1>25. ASSUME NEW w \in Workers, LoadSteps(w) PROVE ControlInv'
  BY <1>25, <1>t
     DEF LoadSteps, Goto, ControlInv, InRelease, InStep, WorkerPcs, SweeperPcs,
         OperatorPcs, SweepActs
<1>26. ASSUME NEW w \in Workers, PrepareRaises(w) PROVE ControlInv'
  BY <1>26, <1>t
     DEF PrepareRaises, Goto, Fault, ControlInv, InRelease, InStep, WorkerPcs,
         SweeperPcs, OperatorPcs, SweepActs
<1>27. ASSUME NEW w \in Workers, LoopStopped(w) PROVE ControlInv'
  BY <1>27, <1>t
     DEF LoopStopped, Goto, ControlInv, InRelease, InStep, WorkerPcs, SweeperPcs,
         OperatorPcs, SweepActs
<1>28. ASSUME NEW w \in Workers, LoopSkip(w) PROVE ControlInv'
  BY <1>28, <1>t
     DEF LoopSkip, ControlInv, InRelease, InStep, WorkerPcs, SweeperPcs,
         OperatorPcs, SweepActs
<1>29. ASSUME NEW w \in Workers, LoopEnter(w) PROVE ControlInv'
  BY <1>29, <1>t
     DEF LoopEnter, Goto, ControlInv, InRelease, InStep, WorkerPcs, SweeperPcs,
         OperatorPcs, SweepActs
<1>30. ASSUME NEW w \in Workers, StartStep(w) PROVE ControlInv'
  BY <1>30, <1>t
     DEF StartStep, Goto, ControlInv, InRelease, InStep, WorkerPcs, SweeperPcs,
         OperatorPcs, SweepActs
<1>31. ASSUME NEW w \in Workers, StepApplied(w) PROVE ControlInv'
  BY <1>31, <1>t
     DEF StepApplied, Goto, ControlInv, InRelease, InStep, WorkerPcs, SweeperPcs,
         OperatorPcs, SweepActs
<1>32. ASSUME NEW w \in Workers, StepRaises(w) PROVE ControlInv'
  BY <1>32, <1>t
     DEF StepRaises, Goto, ControlInv, InRelease, InStep, WorkerPcs, SweeperPcs,
         OperatorPcs, SweepActs
<1>33. ASSUME NEW w \in Workers, MarkFailed(w) PROVE ControlInv'
  BY <1>33, <1>t
     DEF MarkFailed, CallRelease, Goto, ControlInv, InRelease, InStep, WorkerPcs,
         SweeperPcs, OperatorPcs, SweepActs
<1>34. ASSUME NEW w \in Workers, StepSucceeded(w) PROVE ControlInv'
  BY <1>34, <1>t
     DEF StepSucceeded, Goto, ControlInv, InRelease, InStep, WorkerPcs, SweeperPcs,
         OperatorPcs, SweepActs
<1>35. ASSUME NEW w \in Workers, SnapshotRaises(w) PROVE ControlInv'
  BY <1>35, <1>t
     DEF SnapshotRaises, Goto, Fault, ControlInv, InRelease, InStep, WorkerPcs,
         SweeperPcs, OperatorPcs, SweepActs
<1>36. ASSUME NEW w \in Workers, LoopFinished(w) PROVE ControlInv'
  BY <1>36, <1>t
     DEF LoopFinished, Goto, ControlInv, InRelease, InStep, WorkerPcs, SweeperPcs,
         OperatorPcs, SweepActs
<1>37. ASSUME NEW w \in Workers, SaveSucceeded(w) PROVE ControlInv'
  BY <1>37, <1>t
     DEF SaveSucceeded, Goto, ControlInv, InRelease, InStep, WorkerPcs, SweeperPcs,
         OperatorPcs, SweepActs
<1>38. ASSUME NEW w \in Workers, ClearStale(w) PROVE ControlInv'
  BY <1>38, <1>t
     DEF ClearStale, Goto, ControlInv, InRelease, InStep, WorkerPcs, SweeperPcs,
         OperatorPcs, SweepActs
<1>39. ASSUME NEW w \in Workers, FinallyRelease(w) PROVE ControlInv'
  BY <1>39, <1>t
     DEF FinallyRelease, CallRelease, Goto, ControlInv, InRelease, InStep,
         WorkerPcs, SweeperPcs, OperatorPcs, SweepActs
<1>40. ASSUME NEW w \in Workers, FinallyKeep(w) PROVE ControlInv'
  BY <1>40, <1>t
     DEF FinallyKeep, EndTask, Goto, ControlInv, InRelease, InStep, WorkerPcs,
         SweeperPcs, OperatorPcs, SweepActs
<1>41. ASSUME NEW p \in Sweepers, SweepList(p) PROVE ControlInv'
  BY <1>41, <1>t
     DEF SweepList, Goto, ControlInv, InRelease, InStep, WorkerPcs, SweeperPcs,
         OperatorPcs, SweepActs
<1>42. ASSUME NEW p \in Sweepers, NEW d \in Deployments, SweepRead(p, d)
       PROVE  ControlInv'
  BY <1>42, <1>t
     DEF SweepRead, Goto, Verdict, ControlInv, InRelease, InStep, WorkerPcs,
         SweeperPcs, OperatorPcs, SweepActs
<1>43. ASSUME NEW p \in Sweepers, SweepFinalize(p) PROVE ControlInv'
  BY <1>43, <1>t
     DEF SweepFinalize, SweepClose, CallRelease, Goto, ControlInv, InRelease,
         InStep, WorkerPcs, SweeperPcs, OperatorPcs, SweepActs
<1>44. ASSUME NEW p \in Sweepers, SweepAbort(p) PROVE ControlInv'
  BY <1>44, <1>t
     DEF SweepAbort, SweepClose, CallRelease, Goto, ControlInv, InRelease, InStep,
         WorkerPcs, SweeperPcs, OperatorPcs, SweepActs
<1>45. ASSUME NEW p \in Sweepers, SweepSkip(p) PROVE ControlInv'
  BY <1>45, <1>t
     DEF SweepSkip, Goto, ControlInv, InRelease, InStep, WorkerPcs, SweeperPcs,
         OperatorPcs, SweepActs
<1>46. ASSUME NEW p \in Sweepers, SweepClaim(p) PROVE ControlInv'
  BY <1>46, <1>t
     DEF SweepClaim, Goto, ControlInv, InRelease, InStep, WorkerPcs, SweeperPcs,
         OperatorPcs, SweepActs
<1>47. ASSUME NEW p \in Sweepers, SweepEnqueue(p) PROVE ControlInv'
  BY <1>47, <1>t
     DEF SweepEnqueue, Goto, ControlInv, InRelease, InStep, WorkerPcs, SweeperPcs,
         OperatorPcs, SweepActs
<1>48. ASSUME NEW p \in Sweepers, SweepEnd(p) PROVE ControlInv'
  BY <1>48, <1>t
     DEF SweepEnd, EndTask, Goto, ControlInv, InRelease, InStep, WorkerPcs,
         SweeperPcs, OperatorPcs, SweepActs
<1>49. ASSUME NEW o \in Operators, NEW d \in Deployments, CancelRequest(o, d)
       PROVE  ControlInv'
  BY <1>49, <1>t
     DEF CancelRequest, Command, Goto, ControlInv, InRelease, InStep, WorkerPcs,
         SweeperPcs, OperatorPcs, SweepActs
<1>50. ASSUME NEW o \in Operators, NEW d \in Deployments, AbortRequest(o, d)
       PROVE  ControlInv'
  BY <1>50, <1>t
     DEF AbortRequest, Command, Goto, ControlInv, InRelease, InStep, WorkerPcs,
         SweeperPcs, OperatorPcs, SweepActs
<1>51. ASSUME NEW o \in Operators, CancelSave(o) PROVE ControlInv'
  BY <1>51, <1>t
     DEF CancelSave, EndTask, Goto, ControlInv, InRelease, InStep, WorkerPcs,
         SweeperPcs, OperatorPcs, SweepActs
<1>52. ASSUME NEW o \in Operators, AbortSave(o) PROVE ControlInv'
  BY <1>52, <1>t
     DEF AbortSave, CallRelease, Goto, ControlInv, InRelease, InStep, WorkerPcs,
         SweeperPcs, OperatorPcs, SweepActs
<1>53. ASSUME NEW p \in Procs, ReleaseList(p) PROVE ControlInv'
  BY <1>53, <1>t
     DEF ReleaseList, Goto, ControlInv, InRelease, InStep, WorkerPcs, SweeperPcs,
         OperatorPcs, SweepActs
<1>54. ASSUME NEW p \in Procs, NEW r \in Resources, ReleaseRow(p, r) PROVE ControlInv'
  BY <1>54, <1>t
     DEF ReleaseRow, ControlInv, InRelease, InStep, WorkerPcs, SweeperPcs,
         OperatorPcs, SweepActs
<1>55. ASSUME NEW p \in Procs, ReleaseReturn(p) PROVE ControlInv'
  BY <1>55, <1>t
     DEF ReleaseReturn, Goto, ControlInv, InRelease, InStep, WorkerPcs, SweeperPcs,
         OperatorPcs, SweepActs
<1>56. ASSUME NEW p \in Procs, ReleaseEnd(p) PROVE ControlInv'
  BY <1>56, <1>t
     DEF ReleaseEnd, EndTask, Goto, ControlInv, InRelease, InStep, WorkerPcs,
         SweeperPcs, OperatorPcs, SweepActs
<1>57. ASSUME NEW p \in Procs, Crash(p) PROVE ControlInv'
  BY <1>57, <1>t
     DEF Crash, EndTask, Goto, ControlInv, InRelease, InStep, WorkerPcs, SweeperPcs,
         OperatorPcs, SweepActs
<1>58. CASE UNCHANGED vars
  BY <1>58, <1>t
     DEF vars, ControlInv, InRelease, InStep, WorkerPcs, SweeperPcs, OperatorPcs,
         SweepActs
<1> QED
  BY <1>1, <1>2, <1>3, <1>4, <1>5, <1>6, <1>7, <1>8, <1>9, <1>10, <1>11, <1>12,
     <1>13, <1>14, <1>15, <1>16, <1>17, <1>18, <1>19, <1>20, <1>21, <1>22, <1>23,
     <1>24, <1>25, <1>26, <1>27, <1>28, <1>29, <1>30, <1>31, <1>32, <1>33, <1>34,
     <1>35, <1>36, <1>37, <1>38, <1>39, <1>40, <1>41, <1>42, <1>43, <1>44, <1>45,
     <1>46, <1>47, <1>48, <1>49, <1>50, <1>51, <1>52, <1>53, <1>54, <1>55, <1>56,
     <1>57, <1>58
     DEF Next, Produce, WorkerStep, WorkerFails, SweeperStep, OperatorStep, Release,
         Procs

\* A deployment is begun once: the worker inside begin_deploy is alone with it, and
\* whoever acts on a begun deployment found it begun.
LEMMA NextBegin == TypeOK /\ ControlInv /\ BeginInv /\ [Next]_vars => BeginInv'
<1> SUFFICES ASSUME TypeOK, ControlInv, BeginInv, [Next]_vars PROVE BeginInv'
  OBVIOUS
<1> USE DeploymentsAssumption, PlacementAssumption, StepsAssumption, ProcsAssumption
         DEF Procs, NoDep, rowVars, envVars, callVars, taskVars, boundVars, markVars
<1>t. /\ pc \in [Procs -> Pcs] /\ ret \in [Procs -> Pcs] /\ row \in [Procs -> Status]
      /\ dep \in [Procs -> Deployments \cup {NoDep}]
      /\ vic \in [Procs -> Deployments \cup {NoDep}]
      /\ todo \in [Procs -> SUBSET Deployments]
      /\ status \in [Deployments -> Status] /\ msgs \in [Deployments -> Nat]
      /\ hb \in [Deployments -> {"null", "fresh", "stale"}]
  BY DEF TypeOK, DataTypeOK, TaskTypeOK
<1>1. ASSUME NEW d \in Deployments, Enqueue(d) PROVE BeginInv'
  BY <1>1, <1>t
     DEF Enqueue, NextPk, CreateRow, producerUnchanged, ControlInv, BeginInv, Begun,
         InBegin, InRun, InRelease, WorkerPcs, SweeperPcs, OperatorPcs, SweepActs,
         Terminal
<1>2. ASSUME NEW d \in Deployments, EnqueueLost(d) PROVE BeginInv'
  BY <1>2, <1>t
     DEF EnqueueLost, NextPk, CreateRow, producerUnchanged, Fault, ControlInv,
         BeginInv, Begun, InBegin, InRun, InRelease, WorkerPcs, SweeperPcs,
         OperatorPcs, SweepActs, Terminal
<1>3. ASSUME NEW d \in Deployments, Park(d) PROVE BeginInv'
  BY <1>3, <1>t
     DEF Park, NextPk, CreateRow, producerUnchanged, ControlInv, BeginInv, Begun,
         InBegin, InRun, InRelease, WorkerPcs, SweeperPcs, OperatorPcs, SweepActs,
         Terminal
<1>4. ASSUME NEW d \in Deployments, Promote(d) PROVE BeginInv'
  BY <1>4, <1>t
     DEF Promote, ControlInv, BeginInv, Begun, InBegin, InRun, InRelease, WorkerPcs,
         SweeperPcs, OperatorPcs, SweepActs, Terminal
<1>5. ASSUME NEW d \in Deployments, ApplyEnv(d) PROVE BeginInv'
  BY <1>5, <1>t
     DEF ApplyEnv, NextPk, CreateRow, producerUnchanged, ControlInv, BeginInv,
         Begun, InBegin, InRun, InRelease, WorkerPcs, SweeperPcs, OperatorPcs,
         SweepActs, Terminal
<1>6. ASSUME NEW d \in Deployments, NEW old \in Deployments, Retry(d, old)
      PROVE  BeginInv'
  BY <1>6, <1>t
     DEF Retry, NextPk, CreateRow, producerUnchanged, ControlInv, BeginInv, Begun,
         InBegin, InRun, InRelease, WorkerPcs, SweeperPcs, OperatorPcs, SweepActs,
         Terminal
<1>7. ASSUME NEW d \in Deployments, NEW old \in Deployments, NEW prev \in
             Deployments, Rollback(d, old, prev)
      PROVE  BeginInv'
  BY <1>7, <1>t
     DEF Rollback, NextPk, CreateRow, producerUnchanged, ControlInv, BeginInv,
         Begun, InBegin, InRun, InRelease, WorkerPcs, SweeperPcs, OperatorPcs,
         SweepActs, Terminal
<1>8. ASSUME NEW w \in Workers, NEW d \in Deployments, NEW old \in Deployments,
             RollbackNow(w, d, old)
      PROVE  BeginInv'
  BY <1>8, <1>t
     DEF RollbackNow, NextPk, CreateRow, Goto, ControlInv, BeginInv, Begun, InBegin,
         InRun, InRelease, WorkerPcs, SweeperPcs, OperatorPcs, SweepActs, Terminal
<1>9. ASSUME NEW s \in Sites, PutEnv(s) PROVE BeginInv'
  BY <1>9, <1>t
     DEF PutEnv, producerUnchanged, ControlInv, BeginInv, Begun, InBegin, InRun,
         InRelease, WorkerPcs, SweeperPcs, OperatorPcs, SweepActs, Terminal
<1>10. ASSUME NEW d \in Deployments, EnvelopeExpired(d) PROVE BeginInv'
  BY <1>10, <1>t
     DEF EnvelopeExpired, Fault, ControlInv, BeginInv, Begun, InBegin, InRun,
         InRelease, WorkerPcs, SweeperPcs, OperatorPcs, SweepActs, Terminal
<1>11. ASSUME NEW d \in Deployments, Age(d) PROVE BeginInv'
  BY <1>11, <1>t
     DEF Age, ControlInv, BeginInv, Begun, InBegin, InRun, InRelease, WorkerPcs,
         SweeperPcs, OperatorPcs, SweepActs, Terminal
<1>12. ASSUME NEW w \in Workers, NEW d \in Deployments, TakeMessage(w, d)
       PROVE  BeginInv'
  BY <1>12, <1>t
     DEF TakeMessage, Goto, ControlInv, BeginInv, Begun, InBegin, InRun, InRelease,
         WorkerPcs, SweeperPcs, OperatorPcs, SweepActs, Terminal
<1>13. ASSUME NEW w \in Workers, SeamRefused(w) PROVE BeginInv'
  <2>1. dep[w] \in Deployments /\ pc[w] = "loaded"
    BY <1>13, <1>t DEF SeamRefused, CallRelease, Goto, ControlInv
  <2>2. \A v \in Workers \ {w} : InBegin(v) => dep[v] # dep[w]
    BY <2>1 DEF BeginInv
  <2>3. ~InBegin(w)' /\ ~InRun(w)'
    BY <1>13, <1>t DEF SeamRefused, CallRelease, Goto, InBegin, InRun, InRelease
  <2>4. (\A v \in Workers :
           /\ InBegin(v) => ~Begun(dep[v]) /\ status[dep[v]] \in {"queued", "cancelled"}
           /\ InRun(v) => Begun(dep[v]))'
    BY <1>13, <1>t, <2>1, <2>2, <2>3
       DEF SeamRefused, CallRelease, Goto, BeginInv, ControlInv, InBegin, InRun,
           InRelease, Begun
  <2>5. /\ status' = [status EXCEPT ![dep[w]] = "failed"]
        /\ pc' = [pc EXCEPT ![w] = "release"]
        /\ vic' = [vic EXCEPT ![w] = dep[w]]
        /\ ret' = [ret EXCEPT ![w] = "idle"]
        /\ UNCHANGED <<hb, begun, waiting, dep, msgs, todo>>
    BY <1>13, <1>t DEF SeamRefused, CallRelease, Goto
  <2>6. \A d \in Deployments : Begun(d)' = Begun(d)
    BY <2>5 DEF Begun
  <2>7. status[dep[w]] # "none"
    BY <2>1 DEF BeginInv
  <2>8. ASSUME NEW d \in Deployments
        PROVE  (/\ status[d] = "running" => Begun(d)
                /\ Begun(d) => status[d] \notin {"none", "queued"}
                /\ status[d] = "none" => d \notin waiting /\ msgs[d] = 0 /\ \A p \in Procs : dep[p] # d
                /\ ~Begun(d) => /\ msgs[d] <= 1
                                /\ msgs[d] = 1 => \A v \in Workers : dep[v] # d
                                /\ d \in waiting /\ hb[d] = "null" =>
                                     msgs[d] = 0 /\ \A v \in Workers : dep[v] # d
                                /\ \A u, v \in Workers : dep[u] = d /\ dep[v] = d => u = v)'
    BY <2>1, <2>5, <2>7, <1>t DEF BeginInv, Begun
  <2>9. \A p \in Sweepers : pc'[p] \in SweepActs => Begun(dep[p])'
    BY <2>5, <1>t DEF BeginInv, Begun
  <2>10. \A o \in Operators : pc'[o] = "abortSave" => Begun(dep[o])'
    BY <2>5, <1>t DEF BeginInv, Begun
  <2>11. ASSUME NEW p \in Procs
         PROVE  /\ \A d \in todo'[p] : Begun(d)'
                /\ InRelease(p)' /\ ~Begun(vic[p])' =>
                     p \in Workers /\ dep'[p] = vic'[p] /\ ret'[p] = "idle"
    <3>1. CASE p = w
      BY <3>1, <2>1, <2>5, <1>t DEF BeginInv, Begun
    <3>2. CASE p # w
      BY <3>2, <2>5, <1>t DEF BeginInv, Begun, InRelease
    <3> QED
      BY <3>1, <3>2
  <2>12. (\A p \in Procs :
            /\ \A d \in todo[p] : Begun(d)
            /\ InRelease(p) /\ ~Begun(vic[p]) =>
                 p \in Workers /\ dep[p] = vic[p] /\ ret[p] = "idle")'
    BY <2>11
  <2> QED
    BY <2>4, <2>8, <2>9, <2>10, <2>12 DEF BeginInv
<1>14. ASSUME NEW w \in Workers, NotStartable(w) PROVE BeginInv'
  BY <1>14, <1>t
     DEF NotStartable, EndTask, Goto, ControlInv, BeginInv, Begun, InBegin, InRun,
         InRelease, WorkerPcs, SweeperPcs, OperatorPcs, SweepActs, Terminal
<1>15. ASSUME NEW w \in Workers, BeginDeploy(w) PROVE BeginInv'
  BY <1>15, <1>t
     DEF BeginDeploy, Goto, ControlInv, BeginInv, Begun, InBegin, InRun, InRelease,
         WorkerPcs, SweeperPcs, OperatorPcs, SweepActs, Terminal
<1>16. ASSUME NEW w \in Workers, NEW d \in Deployments, SupersedeOne(w, d)
       PROVE  BeginInv'
  BY <1>16, <1>t
     DEF SupersedeOne, CallRelease, Goto, ControlInv, BeginInv, Begun, InBegin,
         InRun, InRelease, WorkerPcs, SweeperPcs, OperatorPcs, SweepActs, Terminal
<1>17. ASSUME NEW w \in Workers, AcquireSite(w) PROVE BeginInv'
  BY <1>17, <1>t
     DEF AcquireSite, Goto, ControlInv, BeginInv, Begun, InBegin, InRun, InRelease,
         WorkerPcs, SweeperPcs, OperatorPcs, SweepActs, Terminal
<1>18. ASSUME NEW w \in Workers, SiteBusy(w) PROVE BeginInv'
  BY <1>18, <1>t
     DEF SiteBusy, EndTask, Goto, ControlInv, BeginInv, Begun, InBegin, InRun,
         InRelease, WorkerPcs, SweeperPcs, OperatorPcs, SweepActs, Terminal
<1>19. ASSUME NEW w \in Workers, AcquireTarget(w) PROVE BeginInv'
  BY <1>19, <1>t
     DEF AcquireTarget, Goto, ControlInv, BeginInv, Begun, InBegin, InRun,
         InRelease, WorkerPcs, SweeperPcs, OperatorPcs, SweepActs, Terminal
<1>20. ASSUME NEW w \in Workers, TargetBusy(w) PROVE BeginInv'
  BY <1>20, <1>t
     DEF TargetBusy, Goto, ControlInv, BeginInv, Begun, InBegin, InRun, InRelease,
         WorkerPcs, SweeperPcs, OperatorPcs, SweepActs, Terminal
<1>21. ASSUME NEW w \in Workers, BackOut(w) PROVE BeginInv'
  BY <1>21, <1>t
     DEF BackOut, EndTask, Goto, ControlInv, BeginInv, Begun, InBegin, InRun,
         InRelease, WorkerPcs, SweeperPcs, OperatorPcs, SweepActs, Terminal
<1>22. ASSUME NEW w \in Workers, SaveRunning(w) PROVE BeginInv'
  <2>1. dep[w] \in Deployments /\ ~Begun(dep[w])
    BY <1>22, <1>t DEF SaveRunning, Goto, ControlInv, BeginInv, InBegin
  <2>2. \A v \in Workers : dep[v] = dep[w] => v = w
    BY <2>1 DEF BeginInv
  <2>3. /\ pc' = [pc EXCEPT ![w] = "begun"]
        /\ status' = [status EXCEPT ![dep[w]] = "running"]
        /\ hb' = [hb EXCEPT ![dep[w]] = "fresh"]
        /\ begun' = begun \cup {dep[w]}
        /\ UNCHANGED <<dep, row, ret, vic, todo, msgs, waiting>>
    BY <1>22, <1>t DEF SaveRunning, Goto
  <2>4. \A p \in Procs : ~InRelease(p) \/ vic[p] # dep[w]
    BY <1>22, <1>t, <2>1, <2>2 DEF SaveRunning, Goto, BeginInv, InRelease
  <2>5. \A d \in Deployments : Begun(d)' <=> Begun(d) \/ d = dep[w]
    BY <2>1, <2>3, <1>t DEF Begun
  <2>6. \A v \in Workers :
           /\ InBegin(v)' => InBegin(v) /\ v # w
           /\ InRun(v)' => InRun(v) \/ v = w
    BY <2>3, <1>t DEF InBegin, InRun, InRelease
  <2>7. \A v \in Workers : InBegin(v) \/ InRun(v) => dep[v] \in Deployments
    BY <1>t DEF InBegin, InRun, InRelease, ControlInv
  <2>8. ASSUME NEW d \in Deployments
        PROVE  (/\ status[d] = "running" => Begun(d)
                /\ Begun(d) => status[d] \notin {"none", "queued"}
                /\ status[d] = "none" => d \notin waiting /\ msgs[d] = 0 /\ \A p \in Procs : dep[p] # d
                /\ ~Begun(d) => /\ msgs[d] <= 1
                                /\ msgs[d] = 1 => \A v \in Workers : dep[v] # d
                                /\ d \in waiting /\ hb[d] = "null" =>
                                     msgs[d] = 0 /\ \A v \in Workers : dep[v] # d
                                /\ \A u, v \in Workers : dep[u] = d /\ dep[v] = d => u = v)'
    BY <2>1, <2>3, <2>5, <1>t DEF BeginInv
  <2>9. ASSUME NEW v \in Workers
        PROVE  /\ (InBegin(v) => ~Begun(dep[v]) /\ status[dep[v]] \in {"queued", "cancelled"})'
               /\ (InRun(v) => Begun(dep[v]))'
    <3>1. dep'[v] = dep[v]
      BY <2>3
    <3>2. CASE v = w
      BY <3>1, <3>2, <2>1, <2>3, <1>t DEF InBegin, InRun, InRelease, Begun
    <3>3. CASE v # w
      <4>1. (Begun(dep[v]))' = Begun(dep[v]) /\ status'[dep[v]] = status[dep[v]]
        BY <3>3, <2>2, <2>3 DEF Begun
      <4>2. pc'[v] = pc[v] /\ row'[v] = row[v] /\ ret'[v] = ret[v]
        BY <3>3, <2>3
      <4> QED
        BY <4>1, <4>2, <3>1 DEF BeginInv, Begun, InBegin, InRun, InRelease
    <3> QED
      BY <3>2, <3>3
  <2>10. ASSUME NEW p \in Sweepers, pc'[p] \in SweepActs PROVE Begun(dep[p])'
    <3>1. p \in Procs /\ p # w
      OBVIOUS
    <3>2. pc[p] \in SweepActs
      BY <2>3, <2>10, <3>1
    <3>3. dep[p] \in Deployments /\ Begun(dep[p])
      BY <3>1, <3>2, <1>t DEF ControlInv, BeginInv
    <3> QED
      BY <2>3, <2>5, <3>3 DEF Begun
  <2>11. ASSUME NEW o \in Operators, pc'[o] = "abortSave" PROVE Begun(dep[o])'
    <3>1. o \in Procs /\ o # w
      OBVIOUS
    <3>2. pc[o] = "abortSave"
      BY <2>3, <2>11, <3>1
    <3>3. dep[o] \in Deployments /\ Begun(dep[o])
      BY <3>1, <3>2, <1>t DEF ControlInv, BeginInv
    <3> QED
      BY <2>3, <2>5, <3>3 DEF Begun
  <2>12. ASSUME NEW p \in Procs
         PROVE  /\ \A d \in todo'[p] : Begun(d)'
                /\ InRelease(p)' /\ ~Begun(vic[p])' =>
                     p \in Workers /\ dep'[p] = vic'[p] /\ ret'[p] = "idle"
    <3>1. InRelease(p)' => InRelease(p) /\ vic[p] \in Deployments
      BY <2>3, <1>t DEF InRelease, ControlInv
    <3>2. ~Begun(vic[p])' => ~Begun(vic[p]) \/ vic[p] \notin Deployments
      BY <2>3, <2>5 DEF Begun
    <3> QED
      BY <3>1, <3>2, <2>3, <2>5, <1>t DEF BeginInv
  <2> QED
    BY <2>8, <2>9, <2>10, <2>11, <2>12 DEF BeginInv
<1>23. ASSUME NEW w \in Workers, BegunStopped(w) PROVE BeginInv'
  BY <1>23, <1>t
     DEF BegunStopped, EndTask, Goto, ControlInv, BeginInv, Begun, InBegin, InRun,
         InRelease, WorkerPcs, SweeperPcs, OperatorPcs, SweepActs, Terminal
<1>24. ASSUME NEW w \in Workers, TouchHeartbeat(w) PROVE BeginInv'
  BY <1>24, <1>t
     DEF TouchHeartbeat, Goto, ControlInv, BeginInv, Begun, InBegin, InRun,
         InRelease, WorkerPcs, SweeperPcs, OperatorPcs, SweepActs, Terminal
<1>25. ASSUME NEW w \in Workers, LoadSteps(w) PROVE BeginInv'
  BY <1>25, <1>t
     DEF LoadSteps, Goto, ControlInv, BeginInv, Begun, InBegin, InRun, InRelease,
         WorkerPcs, SweeperPcs, OperatorPcs, SweepActs, Terminal
<1>26. ASSUME NEW w \in Workers, PrepareRaises(w) PROVE BeginInv'
  BY <1>26, <1>t
     DEF PrepareRaises, Goto, Fault, ControlInv, BeginInv, Begun, InBegin, InRun,
         InRelease, WorkerPcs, SweeperPcs, OperatorPcs, SweepActs, Terminal
<1>27. ASSUME NEW w \in Workers, LoopStopped(w) PROVE BeginInv'
  BY <1>27, <1>t
     DEF LoopStopped, Goto, ControlInv, BeginInv, Begun, InBegin, InRun, InRelease,
         WorkerPcs, SweeperPcs, OperatorPcs, SweepActs, Terminal
<1>28. ASSUME NEW w \in Workers, LoopSkip(w) PROVE BeginInv'
  BY <1>28, <1>t
     DEF LoopSkip, ControlInv, BeginInv, Begun, InBegin, InRun, InRelease,
         WorkerPcs, SweeperPcs, OperatorPcs, SweepActs, Terminal
<1>29. ASSUME NEW w \in Workers, LoopEnter(w) PROVE BeginInv'
  BY <1>29, <1>t
     DEF LoopEnter, Goto, ControlInv, BeginInv, Begun, InBegin, InRun, InRelease,
         WorkerPcs, SweeperPcs, OperatorPcs, SweepActs, Terminal
<1>30. ASSUME NEW w \in Workers, StartStep(w) PROVE BeginInv'
  BY <1>30, <1>t
     DEF StartStep, Goto, ControlInv, BeginInv, Begun, InBegin, InRun, InRelease,
         WorkerPcs, SweeperPcs, OperatorPcs, SweepActs, Terminal
<1>31. ASSUME NEW w \in Workers, StepApplied(w) PROVE BeginInv'
  BY <1>31, <1>t
     DEF StepApplied, Goto, ControlInv, BeginInv, Begun, InBegin, InRun, InRelease,
         WorkerPcs, SweeperPcs, OperatorPcs, SweepActs, Terminal
<1>32. ASSUME NEW w \in Workers, StepRaises(w) PROVE BeginInv'
  BY <1>32, <1>t
     DEF StepRaises, Goto, ControlInv, BeginInv, Begun, InBegin, InRun, InRelease,
         WorkerPcs, SweeperPcs, OperatorPcs, SweepActs, Terminal
<1>33. ASSUME NEW w \in Workers, MarkFailed(w) PROVE BeginInv'
  BY <1>33, <1>t
     DEF MarkFailed, CallRelease, Goto, ControlInv, BeginInv, Begun, InBegin, InRun,
         InRelease, WorkerPcs, SweeperPcs, OperatorPcs, SweepActs, Terminal
<1>34. ASSUME NEW w \in Workers, StepSucceeded(w) PROVE BeginInv'
  BY <1>34, <1>t
     DEF StepSucceeded, Goto, ControlInv, BeginInv, Begun, InBegin, InRun,
         InRelease, WorkerPcs, SweeperPcs, OperatorPcs, SweepActs, Terminal
<1>35. ASSUME NEW w \in Workers, SnapshotRaises(w) PROVE BeginInv'
  BY <1>35, <1>t
     DEF SnapshotRaises, Goto, Fault, ControlInv, BeginInv, Begun, InBegin, InRun,
         InRelease, WorkerPcs, SweeperPcs, OperatorPcs, SweepActs, Terminal
<1>36. ASSUME NEW w \in Workers, LoopFinished(w) PROVE BeginInv'
  BY <1>36, <1>t
     DEF LoopFinished, Goto, ControlInv, BeginInv, Begun, InBegin, InRun, InRelease,
         WorkerPcs, SweeperPcs, OperatorPcs, SweepActs, Terminal
<1>37. ASSUME NEW w \in Workers, SaveSucceeded(w) PROVE BeginInv'
  BY <1>37, <1>t
     DEF SaveSucceeded, Goto, ControlInv, BeginInv, Begun, InBegin, InRun,
         InRelease, WorkerPcs, SweeperPcs, OperatorPcs, SweepActs, Terminal
<1>38. ASSUME NEW w \in Workers, ClearStale(w) PROVE BeginInv'
  BY <1>38, <1>t
     DEF ClearStale, Goto, ControlInv, BeginInv, Begun, InBegin, InRun, InRelease,
         WorkerPcs, SweeperPcs, OperatorPcs, SweepActs, Terminal
<1>39. ASSUME NEW w \in Workers, FinallyRelease(w) PROVE BeginInv'
  BY <1>39, <1>t
     DEF FinallyRelease, CallRelease, Goto, ControlInv, BeginInv, Begun, InBegin,
         InRun, InRelease, WorkerPcs, SweeperPcs, OperatorPcs, SweepActs, Terminal
<1>40. ASSUME NEW w \in Workers, FinallyKeep(w) PROVE BeginInv'
  BY <1>40, <1>t
     DEF FinallyKeep, EndTask, Goto, ControlInv, BeginInv, Begun, InBegin, InRun,
         InRelease, WorkerPcs, SweeperPcs, OperatorPcs, SweepActs, Terminal
<1>41. ASSUME NEW p \in Sweepers, SweepList(p) PROVE BeginInv'
  BY <1>41, <1>t
     DEF SweepList, Goto, ControlInv, BeginInv, Begun, InBegin, InRun, InRelease,
         WorkerPcs, SweeperPcs, OperatorPcs, SweepActs, Terminal
<1>42. ASSUME NEW p \in Sweepers, NEW d \in Deployments, SweepRead(p, d)
       PROVE  BeginInv'
  BY <1>42, <1>t
     DEF SweepRead, Goto, Verdict, ControlInv, BeginInv, Begun, InBegin, InRun,
         InRelease, WorkerPcs, SweeperPcs, OperatorPcs, SweepActs, Terminal
<1>43. ASSUME NEW p \in Sweepers, SweepFinalize(p) PROVE BeginInv'
  BY <1>43, <1>t
     DEF SweepFinalize, SweepClose, CallRelease, Goto, ControlInv, BeginInv, Begun,
         InBegin, InRun, InRelease, WorkerPcs, SweeperPcs, OperatorPcs, SweepActs,
         Terminal
<1>44. ASSUME NEW p \in Sweepers, SweepAbort(p) PROVE BeginInv'
  BY <1>44, <1>t
     DEF SweepAbort, SweepClose, CallRelease, Goto, ControlInv, BeginInv, Begun,
         InBegin, InRun, InRelease, WorkerPcs, SweeperPcs, OperatorPcs, SweepActs,
         Terminal
<1>45. ASSUME NEW p \in Sweepers, SweepSkip(p) PROVE BeginInv'
  BY <1>45, <1>t
     DEF SweepSkip, Goto, ControlInv, BeginInv, Begun, InBegin, InRun, InRelease,
         WorkerPcs, SweeperPcs, OperatorPcs, SweepActs, Terminal
<1>46. ASSUME NEW p \in Sweepers, SweepClaim(p) PROVE BeginInv'
  BY <1>46, <1>t
     DEF SweepClaim, Goto, ControlInv, BeginInv, Begun, InBegin, InRun, InRelease,
         WorkerPcs, SweeperPcs, OperatorPcs, SweepActs, Terminal
<1>47. ASSUME NEW p \in Sweepers, SweepEnqueue(p) PROVE BeginInv'
  BY <1>47, <1>t
     DEF SweepEnqueue, Goto, ControlInv, BeginInv, Begun, InBegin, InRun, InRelease,
         WorkerPcs, SweeperPcs, OperatorPcs, SweepActs, Terminal
<1>48. ASSUME NEW p \in Sweepers, SweepEnd(p) PROVE BeginInv'
  BY <1>48, <1>t
     DEF SweepEnd, EndTask, Goto, ControlInv, BeginInv, Begun, InBegin, InRun,
         InRelease, WorkerPcs, SweeperPcs, OperatorPcs, SweepActs, Terminal
<1>49. ASSUME NEW o \in Operators, NEW d \in Deployments, CancelRequest(o, d)
       PROVE  BeginInv'
  BY <1>49, <1>t
     DEF CancelRequest, Command, Goto, ControlInv, BeginInv, Begun, InBegin, InRun,
         InRelease, WorkerPcs, SweeperPcs, OperatorPcs, SweepActs, Terminal
<1>50. ASSUME NEW o \in Operators, NEW d \in Deployments, AbortRequest(o, d)
       PROVE  BeginInv'
  BY <1>50, <1>t
     DEF AbortRequest, Command, Goto, ControlInv, BeginInv, Begun, InBegin, InRun,
         InRelease, WorkerPcs, SweeperPcs, OperatorPcs, SweepActs, Terminal
<1>51. ASSUME NEW o \in Operators, CancelSave(o) PROVE BeginInv'
  BY <1>51, <1>t
     DEF CancelSave, EndTask, Goto, ControlInv, BeginInv, Begun, InBegin, InRun,
         InRelease, WorkerPcs, SweeperPcs, OperatorPcs, SweepActs, Terminal
<1>52. ASSUME NEW o \in Operators, AbortSave(o) PROVE BeginInv'
  BY <1>52, <1>t
     DEF AbortSave, CallRelease, Goto, ControlInv, BeginInv, Begun, InBegin, InRun,
         InRelease, WorkerPcs, SweeperPcs, OperatorPcs, SweepActs, Terminal
<1>53. ASSUME NEW p \in Procs, ReleaseList(p) PROVE BeginInv'
  BY <1>53, <1>t
     DEF ReleaseList, Goto, ControlInv, BeginInv, Begun, InBegin, InRun, InRelease,
         WorkerPcs, SweeperPcs, OperatorPcs, SweepActs, Terminal
<1>54. ASSUME NEW p \in Procs, NEW r \in Resources, ReleaseRow(p, r) PROVE BeginInv'
  BY <1>54, <1>t
     DEF ReleaseRow, ControlInv, BeginInv, Begun, InBegin, InRun, InRelease,
         WorkerPcs, SweeperPcs, OperatorPcs, SweepActs, Terminal
<1>55. ASSUME NEW p \in Procs, ReleaseReturn(p) PROVE BeginInv'
  BY <1>55, <1>t
     DEF ReleaseReturn, Goto, ControlInv, BeginInv, Begun, InBegin, InRun,
         InRelease, WorkerPcs, SweeperPcs, OperatorPcs, SweepActs, Terminal
<1>56. ASSUME NEW p \in Procs, ReleaseEnd(p) PROVE BeginInv'
  BY <1>56, <1>t
     DEF ReleaseEnd, EndTask, Goto, ControlInv, BeginInv, Begun, InBegin, InRun,
         InRelease, WorkerPcs, SweeperPcs, OperatorPcs, SweepActs, Terminal
<1>57. ASSUME NEW p \in Procs, Crash(p) PROVE BeginInv'
  BY <1>57, <1>t
     DEF Crash, EndTask, Goto, ControlInv, BeginInv, Begun, InBegin, InRun,
         InRelease, WorkerPcs, SweeperPcs, OperatorPcs, SweepActs, Terminal
<1>58. CASE UNCHANGED vars
  BY <1>58, <1>t
     DEF vars, ControlInv, BeginInv, Begun, InBegin, InRun, InRelease, WorkerPcs,
         SweeperPcs, OperatorPcs, SweepActs
<1> QED
  BY <1>1, <1>2, <1>3, <1>4, <1>5, <1>6, <1>7, <1>8, <1>9, <1>10, <1>11, <1>12,
     <1>13, <1>14, <1>15, <1>16, <1>17, <1>18, <1>19, <1>20, <1>21, <1>22, <1>23,
     <1>24, <1>25, <1>26, <1>27, <1>28, <1>29, <1>30, <1>31, <1>32, <1>33, <1>34,
     <1>35, <1>36, <1>37, <1>38, <1>39, <1>40, <1>41, <1>42, <1>43, <1>44, <1>45,
     <1>46, <1>47, <1>48, <1>49, <1>50, <1>51, <1>52, <1>53, <1>54, <1>55, <1>56,
     <1>57, <1>58
     DEF Next, Produce, WorkerStep, WorkerFails, SweeperStep, OperatorStep, Release,
         Procs

\* The lock rows of a deployment exist, and no site row is a target row.
LEMMA LockKeys ==
    /\ \A d \in Deployments : SiteLock(d) \in Resources /\ TargetLock(d) \in Resources
    /\ \A d, e \in Deployments : SiteLock(d) # TargetLock(e)
BY PlacementAssumption DEF SiteLock, TargetLock, Resources

\* A worker inside begin_deploy shares its deployment with no other worker, and
\* nobody is releasing locks for it.
LEMMA BeginnerIsAlone ==
    ASSUME TypeOK, ControlInv, BeginInv, NEW w \in Workers,
           pc[w] \in {"supersede", "siteLocked", "locked", "backout"}
    PROVE  /\ dep[w] \in Deployments
           /\ status[dep[w]] # "running"
           /\ \A v \in Workers : dep[v] = dep[w] => v = w
           /\ \A p \in Procs : InRelease(p) => vic[p] # dep[w]
<1>1. dep[w] \in Deployments /\ ~Begun(dep[w])
  BY DEF TypeOK, DataTypeOK, TaskTypeOK, ControlInv, BeginInv, InBegin, Procs
<1>2. status[dep[w]] # "running" /\ \A v \in Workers : dep[v] = dep[w] => v = w
  BY <1>1 DEF BeginInv
<1>3. ASSUME NEW p \in Procs, InRelease(p), vic[p] = dep[w] PROVE FALSE
  <2>1. p \in Workers /\ dep[p] = dep[w]
    BY <1>1, <1>3 DEF BeginInv
  <2> QED
    BY <1>2, <1>3, <2>1 DEF InRelease
<1> QED
  BY <1>1, <1>2, <1>3

\* A RUNNING deployment keeps its locks: nobody releases for it, and begin_deploy
\* keeps what it acquired until it is RUNNING.
LEMMA NextLock == TypeOK /\ ControlInv /\ BeginInv /\ LockInv /\ [Next]_vars => LockInv'
<1> SUFFICES ASSUME TypeOK, ControlInv, BeginInv, LockInv, [Next]_vars PROVE LockInv'
  OBVIOUS
<1> USE DeploymentsAssumption, PlacementAssumption, StepsAssumption, ProcsAssumption
         DEF Procs, NoDep, rowVars, envVars, callVars, taskVars, boundVars, markVars
<1>t. /\ pc \in [Procs -> Pcs] /\ ret \in [Procs -> Pcs]
      /\ dep \in [Procs -> Deployments \cup {NoDep}]
      /\ vic \in [Procs -> Deployments \cup {NoDep}]
      /\ rows \in [Procs -> SUBSET Resources]
      /\ status \in [Deployments -> Status]
      /\ lock \in [Resources -> Deployments \cup {NoDep}]
  BY DEF TypeOK, DataTypeOK, TaskTypeOK
<1>1. ASSUME NEW d \in Deployments, Enqueue(d) PROVE LockInv'
  BY <1>1, <1>t
     DEF Enqueue, NextPk, CreateRow, producerUnchanged, ControlInv, LockInv,
         RunningHoldsLocks, InRelease
<1>2. ASSUME NEW d \in Deployments, EnqueueLost(d) PROVE LockInv'
  BY <1>2, <1>t
     DEF EnqueueLost, NextPk, CreateRow, producerUnchanged, Fault, ControlInv,
         LockInv, RunningHoldsLocks, InRelease
<1>3. ASSUME NEW d \in Deployments, Park(d) PROVE LockInv'
  BY <1>3, <1>t
     DEF Park, NextPk, CreateRow, producerUnchanged, ControlInv, LockInv,
         RunningHoldsLocks, InRelease
<1>4. ASSUME NEW d \in Deployments, Promote(d) PROVE LockInv'
  BY <1>4, <1>t DEF Promote, ControlInv, LockInv, RunningHoldsLocks, InRelease
<1>5. ASSUME NEW d \in Deployments, ApplyEnv(d) PROVE LockInv'
  BY <1>5, <1>t
     DEF ApplyEnv, NextPk, CreateRow, producerUnchanged, ControlInv, LockInv,
         RunningHoldsLocks, InRelease
<1>6. ASSUME NEW d \in Deployments, NEW old \in Deployments, Retry(d, old)
      PROVE  LockInv'
  BY <1>6, <1>t
     DEF Retry, NextPk, CreateRow, producerUnchanged, ControlInv, LockInv,
         RunningHoldsLocks, InRelease
<1>7. ASSUME NEW d \in Deployments, NEW old \in Deployments, NEW prev \in
             Deployments, Rollback(d, old, prev)
      PROVE  LockInv'
  BY <1>7, <1>t
     DEF Rollback, NextPk, CreateRow, producerUnchanged, ControlInv, LockInv,
         RunningHoldsLocks, InRelease
<1>8. ASSUME NEW w \in Workers, NEW d \in Deployments, NEW old \in Deployments,
             RollbackNow(w, d, old)
      PROVE  LockInv'
  BY <1>8, <1>t
     DEF RollbackNow, NextPk, CreateRow, Goto, ControlInv, LockInv,
         RunningHoldsLocks, InRelease
<1>9. ASSUME NEW s \in Sites, PutEnv(s) PROVE LockInv'
  BY <1>9, <1>t
     DEF PutEnv, producerUnchanged, ControlInv, LockInv, RunningHoldsLocks,
         InRelease
<1>10. ASSUME NEW d \in Deployments, EnvelopeExpired(d) PROVE LockInv'
  BY <1>10, <1>t
     DEF EnvelopeExpired, Fault, ControlInv, LockInv, RunningHoldsLocks, InRelease
<1>11. ASSUME NEW d \in Deployments, Age(d) PROVE LockInv'
  BY <1>11, <1>t DEF Age, ControlInv, LockInv, RunningHoldsLocks, InRelease
<1>12. ASSUME NEW w \in Workers, NEW d \in Deployments, TakeMessage(w, d)
       PROVE  LockInv'
  BY <1>12, <1>t
     DEF TakeMessage, Goto, ControlInv, LockInv, RunningHoldsLocks, InRelease
<1>13. ASSUME NEW w \in Workers, SeamRefused(w) PROVE LockInv'
  BY <1>13, <1>t
     DEF SeamRefused, CallRelease, Goto, ControlInv, LockInv, RunningHoldsLocks,
         InRelease
<1>14. ASSUME NEW w \in Workers, NotStartable(w) PROVE LockInv'
  BY <1>14, <1>t
     DEF NotStartable, EndTask, Goto, ControlInv, LockInv, RunningHoldsLocks,
         InRelease
<1>15. ASSUME NEW w \in Workers, BeginDeploy(w) PROVE LockInv'
  BY <1>15, <1>t
     DEF BeginDeploy, Goto, ControlInv, LockInv, RunningHoldsLocks, InRelease
<1>16. ASSUME NEW w \in Workers, NEW d \in Deployments, SupersedeOne(w, d)
       PROVE  LockInv'
  BY <1>16, <1>t
     DEF SupersedeOne, CallRelease, Goto, ControlInv, LockInv, RunningHoldsLocks,
         InRelease
<1>17. ASSUME NEW w \in Workers, AcquireSite(w) PROVE LockInv'
  <2>1. /\ dep[w] \in Deployments
        /\ status[dep[w]] # "running"
        /\ \A v \in Workers : dep[v] = dep[w] => v = w
        /\ \A p \in Procs : InRelease(p) => vic[p] # dep[w]
    BY <1>17, <1>t, BeginnerIsAlone DEF AcquireSite, Goto
  <2>2. /\ lock'[SiteLock(dep[w])] = dep[w]
        /\ \A r \in Resources : lock[r] # NoDep => lock'[r] = lock[r]
    BY <1>17, <1>t, <2>1, LockKeys DEF AcquireSite, Goto
  <2>3. /\ UNCHANGED <<status, dep, vic>>
        /\ pc' = [pc EXCEPT ![w] = "siteLocked"]
    BY <1>17, <1>t DEF AcquireSite, Goto
  <2>4. RunningHoldsLocks'
    BY <2>2, <2>3, LockKeys DEF LockInv, RunningHoldsLocks
  <2>5. ASSUME NEW v \in Workers, pc'[v] \in {"siteLocked", "locked", "backout"}
        PROVE  /\ lock'[SiteLock(dep'[v])] = dep'[v]
               /\ pc'[v] = "locked" => lock'[TargetLock(dep'[v])] = dep'[v]
    <3>1. CASE v = w
      BY <1>17, <1>t, <3>1, <2>1, <2>2, <2>3, LockKeys DEF AcquireSite, Goto, LockInv
    <3>2. CASE v # w
      <4>1. pc'[v] = pc[v] /\ dep'[v] = dep[v] /\ dep[v] \in Deployments
        BY <1>t, <3>2, <2>3, <2>5 DEF ControlInv
      <4>2. /\ lock[SiteLock(dep[v])] = dep[v]
            /\ pc[v] = "locked" => lock[TargetLock(dep[v])] = dep[v]
        BY <4>1, <2>5 DEF LockInv
      <4> QED
        BY <4>1, <4>2, <2>2, LockKeys
    <3> QED
      BY <3>1, <3>2
  <2>6. \A p \in Procs : InRelease(p)' => status'[vic'[p]] # "running"
    BY <1>t, <2>3 DEF LockInv, InRelease
  <2> QED
    BY <2>4, <2>5, <2>6 DEF LockInv
<1>18. ASSUME NEW w \in Workers, SiteBusy(w) PROVE LockInv'
  BY <1>18, <1>t
     DEF SiteBusy, EndTask, Goto, ControlInv, LockInv, RunningHoldsLocks, InRelease
<1>19. ASSUME NEW w \in Workers, AcquireTarget(w) PROVE LockInv'
  <2>1. /\ dep[w] \in Deployments
        /\ status[dep[w]] # "running"
        /\ \A v \in Workers : dep[v] = dep[w] => v = w
        /\ \A p \in Procs : InRelease(p) => vic[p] # dep[w]
    BY <1>19, <1>t, BeginnerIsAlone DEF AcquireTarget, Goto
  <2>2. /\ lock'[TargetLock(dep[w])] = dep[w]
        /\ \A r \in Resources : lock[r] # NoDep => lock'[r] = lock[r]
    BY <1>19, <1>t, <2>1, LockKeys DEF AcquireTarget, Goto
  <2>3. /\ UNCHANGED <<status, dep, vic>>
        /\ pc' = [pc EXCEPT ![w] = "locked"]
    BY <1>19, <1>t DEF AcquireTarget, Goto
  <2>4. RunningHoldsLocks'
    BY <2>2, <2>3, LockKeys DEF LockInv, RunningHoldsLocks
  <2>5. ASSUME NEW v \in Workers, pc'[v] \in {"siteLocked", "locked", "backout"}
        PROVE  /\ lock'[SiteLock(dep'[v])] = dep'[v]
               /\ pc'[v] = "locked" => lock'[TargetLock(dep'[v])] = dep'[v]
    <3>1. CASE v = w
      BY <1>19, <1>t, <3>1, <2>1, <2>2, <2>3, LockKeys
         DEF AcquireTarget, Goto, LockInv
    <3>2. CASE v # w
      <4>1. pc'[v] = pc[v] /\ dep'[v] = dep[v] /\ dep[v] \in Deployments
        BY <1>t, <3>2, <2>3, <2>5 DEF ControlInv
      <4>2. /\ lock[SiteLock(dep[v])] = dep[v]
            /\ pc[v] = "locked" => lock[TargetLock(dep[v])] = dep[v]
        BY <4>1, <2>5 DEF LockInv
      <4> QED
        BY <4>1, <4>2, <2>2, LockKeys
    <3> QED
      BY <3>1, <3>2
  <2>6. \A p \in Procs : InRelease(p)' => status'[vic'[p]] # "running"
    BY <1>t, <2>3 DEF LockInv, InRelease
  <2> QED
    BY <2>4, <2>5, <2>6 DEF LockInv
<1>20. ASSUME NEW w \in Workers, TargetBusy(w) PROVE LockInv'
  BY <1>20, <1>t
     DEF TargetBusy, Goto, ControlInv, LockInv, RunningHoldsLocks, InRelease
<1>21. ASSUME NEW w \in Workers, BackOut(w) PROVE LockInv'
  <2>1. /\ dep[w] \in Deployments
        /\ status[dep[w]] # "running"
        /\ \A v \in Workers : dep[v] = dep[w] => v = w
        /\ \A p \in Procs : InRelease(p) => vic[p] # dep[w]
    BY <1>21, <1>t, BeginnerIsAlone DEF BackOut, EndTask, Goto
  <2> QED
    BY <1>21, <1>t, <2>1, LockKeys
       DEF BackOut, EndTask, Goto, ControlInv, LockInv, RunningHoldsLocks, InRelease
<1>22. ASSUME NEW w \in Workers, SaveRunning(w) PROVE LockInv'
  <2>1. /\ dep[w] \in Deployments
        /\ status[dep[w]] # "running"
        /\ \A v \in Workers : dep[v] = dep[w] => v = w
        /\ \A p \in Procs : InRelease(p) => vic[p] # dep[w]
    BY <1>22, <1>t, BeginnerIsAlone DEF SaveRunning, Goto
  <2> QED
    BY <1>22, <1>t, <2>1, LockKeys
       DEF SaveRunning, Goto, ControlInv, LockInv, RunningHoldsLocks, InRelease
<1>23. ASSUME NEW w \in Workers, BegunStopped(w) PROVE LockInv'
  BY <1>23, <1>t
     DEF BegunStopped, EndTask, Goto, ControlInv, LockInv, RunningHoldsLocks,
         InRelease
<1>24. ASSUME NEW w \in Workers, TouchHeartbeat(w) PROVE LockInv'
  BY <1>24, <1>t
     DEF TouchHeartbeat, Goto, ControlInv, LockInv, RunningHoldsLocks, InRelease
<1>25. ASSUME NEW w \in Workers, LoadSteps(w) PROVE LockInv'
  BY <1>25, <1>t
     DEF LoadSteps, Goto, ControlInv, LockInv, RunningHoldsLocks, InRelease
<1>26. ASSUME NEW w \in Workers, PrepareRaises(w) PROVE LockInv'
  BY <1>26, <1>t
     DEF PrepareRaises, Goto, Fault, ControlInv, LockInv, RunningHoldsLocks,
         InRelease
<1>27. ASSUME NEW w \in Workers, LoopStopped(w) PROVE LockInv'
  BY <1>27, <1>t
     DEF LoopStopped, Goto, ControlInv, LockInv, RunningHoldsLocks, InRelease
<1>28. ASSUME NEW w \in Workers, LoopSkip(w) PROVE LockInv'
  BY <1>28, <1>t DEF LoopSkip, ControlInv, LockInv, RunningHoldsLocks, InRelease
<1>29. ASSUME NEW w \in Workers, LoopEnter(w) PROVE LockInv'
  BY <1>29, <1>t
     DEF LoopEnter, Goto, ControlInv, LockInv, RunningHoldsLocks, InRelease
<1>30. ASSUME NEW w \in Workers, StartStep(w) PROVE LockInv'
  BY <1>30, <1>t
     DEF StartStep, Goto, ControlInv, LockInv, RunningHoldsLocks, InRelease
<1>31. ASSUME NEW w \in Workers, StepApplied(w) PROVE LockInv'
  BY <1>31, <1>t
     DEF StepApplied, Goto, ControlInv, LockInv, RunningHoldsLocks, InRelease
<1>32. ASSUME NEW w \in Workers, StepRaises(w) PROVE LockInv'
  BY <1>32, <1>t
     DEF StepRaises, Goto, ControlInv, LockInv, RunningHoldsLocks, InRelease
<1>33. ASSUME NEW w \in Workers, MarkFailed(w) PROVE LockInv'
  BY <1>33, <1>t
     DEF MarkFailed, CallRelease, Goto, ControlInv, LockInv, RunningHoldsLocks,
         InRelease
<1>34. ASSUME NEW w \in Workers, StepSucceeded(w) PROVE LockInv'
  BY <1>34, <1>t
     DEF StepSucceeded, Goto, ControlInv, LockInv, RunningHoldsLocks, InRelease
<1>35. ASSUME NEW w \in Workers, SnapshotRaises(w) PROVE LockInv'
  BY <1>35, <1>t
     DEF SnapshotRaises, Goto, Fault, ControlInv, LockInv, RunningHoldsLocks,
         InRelease
<1>36. ASSUME NEW w \in Workers, LoopFinished(w) PROVE LockInv'
  BY <1>36, <1>t
     DEF LoopFinished, Goto, ControlInv, LockInv, RunningHoldsLocks, InRelease
<1>37. ASSUME NEW w \in Workers, SaveSucceeded(w) PROVE LockInv'
  BY <1>37, <1>t
     DEF SaveSucceeded, Goto, ControlInv, LockInv, RunningHoldsLocks, InRelease
<1>38. ASSUME NEW w \in Workers, ClearStale(w) PROVE LockInv'
  BY <1>38, <1>t
     DEF ClearStale, Goto, ControlInv, LockInv, RunningHoldsLocks, InRelease
<1>39. ASSUME NEW w \in Workers, FinallyRelease(w) PROVE LockInv'
  BY <1>39, <1>t
     DEF FinallyRelease, CallRelease, Goto, ControlInv, LockInv, RunningHoldsLocks,
         InRelease, Terminal
<1>40. ASSUME NEW w \in Workers, FinallyKeep(w) PROVE LockInv'
  BY <1>40, <1>t
     DEF FinallyKeep, EndTask, Goto, ControlInv, LockInv, RunningHoldsLocks,
         InRelease
<1>41. ASSUME NEW p \in Sweepers, SweepList(p) PROVE LockInv'
  BY <1>41, <1>t
     DEF SweepList, Goto, ControlInv, LockInv, RunningHoldsLocks, InRelease
<1>42. ASSUME NEW p \in Sweepers, NEW d \in Deployments, SweepRead(p, d)
       PROVE  LockInv'
  BY <1>42, <1>t
     DEF SweepRead, Goto, Verdict, ControlInv, LockInv, RunningHoldsLocks, InRelease
<1>43. ASSUME NEW p \in Sweepers, SweepFinalize(p) PROVE LockInv'
  BY <1>43, <1>t
     DEF SweepFinalize, SweepClose, CallRelease, Goto, ControlInv, LockInv,
         RunningHoldsLocks, InRelease, SweepActs
<1>44. ASSUME NEW p \in Sweepers, SweepAbort(p) PROVE LockInv'
  BY <1>44, <1>t
     DEF SweepAbort, SweepClose, CallRelease, Goto, ControlInv, LockInv,
         RunningHoldsLocks, InRelease, SweepActs
<1>45. ASSUME NEW p \in Sweepers, SweepSkip(p) PROVE LockInv'
  BY <1>45, <1>t
     DEF SweepSkip, Goto, ControlInv, LockInv, RunningHoldsLocks, InRelease
<1>46. ASSUME NEW p \in Sweepers, SweepClaim(p) PROVE LockInv'
  BY <1>46, <1>t
     DEF SweepClaim, Goto, ControlInv, LockInv, RunningHoldsLocks, InRelease
<1>47. ASSUME NEW p \in Sweepers, SweepEnqueue(p) PROVE LockInv'
  BY <1>47, <1>t
     DEF SweepEnqueue, Goto, ControlInv, LockInv, RunningHoldsLocks, InRelease
<1>48. ASSUME NEW p \in Sweepers, SweepEnd(p) PROVE LockInv'
  BY <1>48, <1>t
     DEF SweepEnd, EndTask, Goto, ControlInv, LockInv, RunningHoldsLocks, InRelease
<1>49. ASSUME NEW o \in Operators, NEW d \in Deployments, CancelRequest(o, d)
       PROVE  LockInv'
  BY <1>49, <1>t
     DEF CancelRequest, Command, Goto, ControlInv, LockInv, RunningHoldsLocks,
         InRelease
<1>50. ASSUME NEW o \in Operators, NEW d \in Deployments, AbortRequest(o, d)
       PROVE  LockInv'
  BY <1>50, <1>t
     DEF AbortRequest, Command, Goto, ControlInv, LockInv, RunningHoldsLocks,
         InRelease
<1>51. ASSUME NEW o \in Operators, CancelSave(o) PROVE LockInv'
  BY <1>51, <1>t
     DEF CancelSave, EndTask, Goto, ControlInv, LockInv, RunningHoldsLocks,
         InRelease
<1>52. ASSUME NEW o \in Operators, AbortSave(o) PROVE LockInv'
  BY <1>52, <1>t
     DEF AbortSave, CallRelease, Goto, ControlInv, LockInv, RunningHoldsLocks,
         InRelease
<1>53. ASSUME NEW p \in Procs, ReleaseList(p) PROVE LockInv'
  BY <1>53, <1>t
     DEF ReleaseList, Goto, ControlInv, LockInv, RunningHoldsLocks, InRelease
<1>54. ASSUME NEW p \in Procs, NEW r \in Resources, ReleaseRow(p, r) PROVE LockInv'
  <2>1. status[vic[p]] # "running" /\ vic[p] \in Deployments
    BY <1>54, <1>t DEF ReleaseRow, LockInv, ControlInv, InRelease
  <2>2. \A w \in Workers : pc[w] \in {"siteLocked", "locked", "backout"} => dep[w] # vic[p]
    BY <1>54, <1>t, BeginnerIsAlone DEF ReleaseRow, InRelease
  <2> QED
    BY <1>54, <1>t, <2>1, <2>2, LockKeys
       DEF ReleaseRow, ControlInv, LockInv, RunningHoldsLocks, InRelease
<1>55. ASSUME NEW p \in Procs, ReleaseReturn(p) PROVE LockInv'
  BY <1>55, <1>t
     DEF ReleaseReturn, Goto, ControlInv, LockInv, RunningHoldsLocks, InRelease
<1>56. ASSUME NEW p \in Procs, ReleaseEnd(p) PROVE LockInv'
  BY <1>56, <1>t
     DEF ReleaseEnd, EndTask, Goto, ControlInv, LockInv, RunningHoldsLocks,
         InRelease
<1>57. ASSUME NEW p \in Procs, Crash(p) PROVE LockInv'
  BY <1>57, <1>t
     DEF Crash, EndTask, Goto, ControlInv, LockInv, RunningHoldsLocks, InRelease
<1>58. CASE UNCHANGED vars
  BY <1>58, <1>t DEF vars, ControlInv, LockInv, RunningHoldsLocks, InRelease
<1> QED
  BY <1>1, <1>2, <1>3, <1>4, <1>5, <1>6, <1>7, <1>8, <1>9, <1>10, <1>11, <1>12,
     <1>13, <1>14, <1>15, <1>16, <1>17, <1>18, <1>19, <1>20, <1>21, <1>22, <1>23,
     <1>24, <1>25, <1>26, <1>27, <1>28, <1>29, <1>30, <1>31, <1>32, <1>33, <1>34,
     <1>35, <1>36, <1>37, <1>38, <1>39, <1>40, <1>41, <1>42, <1>43, <1>44, <1>45,
     <1>46, <1>47, <1>48, <1>49, <1>50, <1>51, <1>52, <1>53, <1>54, <1>55, <1>56,
     <1>57, <1>58
     DEF Next, Produce, WorkerStep, WorkerFails, SweeperStep, OperatorStep, Release,
         Procs

\* Cached step rows and the place in the loop are backed by steps carried out.
LEMMA NextStep == TypeOK /\ ControlInv /\ BeginInv /\ StepInv /\ [Next]_vars => StepInv'
<1> SUFFICES ASSUME TypeOK, ControlInv, BeginInv, StepInv, [Next]_vars PROVE StepInv'
  OBVIOUS
<1> USE DeploymentsAssumption, PlacementAssumption, StepsAssumption, ProcsAssumption
         DEF Procs, NoDep, rowVars, envVars, callVars, taskVars, boundVars, markVars
<1>t. /\ pc \in [Procs -> Pcs] /\ seq \in [Procs -> 1..(NSteps + 1)]
      /\ cache \in [Procs -> [Steps -> StepStatus]]
      /\ dep \in [Procs -> Deployments \cup {NoDep}]
      /\ status \in [Deployments -> Status]
      /\ step \in [Deployments -> [Steps -> StepStatus]]
      /\ applied \in [Deployments -> SUBSET Steps]
  BY DEF TypeOK, DataTypeOK, TaskTypeOK
<1>1. ASSUME NEW d \in Deployments, Enqueue(d) PROVE StepInv'
  BY <1>1, <1>t
     DEF Enqueue, NextPk, CreateRow, producerUnchanged, ControlInv, StepInv,
         SuccessMeansApplied, StepsInOrder, StepCovered, InStep, DoneStep, NoCache,
         Steps, WorkerPcs, SweeperPcs, Terminal
<1>2. ASSUME NEW d \in Deployments, EnqueueLost(d) PROVE StepInv'
  BY <1>2, <1>t
     DEF EnqueueLost, NextPk, CreateRow, producerUnchanged, Fault, ControlInv,
         StepInv, SuccessMeansApplied, StepsInOrder, StepCovered, InStep, DoneStep,
         NoCache, Steps, WorkerPcs, SweeperPcs, Terminal
<1>3. ASSUME NEW d \in Deployments, Park(d) PROVE StepInv'
  BY <1>3, <1>t
     DEF Park, NextPk, CreateRow, producerUnchanged, ControlInv, StepInv,
         SuccessMeansApplied, StepsInOrder, StepCovered, InStep, DoneStep, NoCache,
         Steps, WorkerPcs, SweeperPcs, Terminal
<1>4. ASSUME NEW d \in Deployments, Promote(d) PROVE StepInv'
  BY <1>4, <1>t
     DEF Promote, ControlInv, StepInv, SuccessMeansApplied, StepsInOrder,
         StepCovered, InStep, DoneStep, NoCache, Steps, WorkerPcs, SweeperPcs,
         Terminal
<1>5. ASSUME NEW d \in Deployments, ApplyEnv(d) PROVE StepInv'
  <2>1. /\ \A p \in Procs : dep[p] # d
        /\ status[d] = "none"
    BY <1>5, <1>t DEF ApplyEnv, NextPk, CreateRow, producerUnchanged, BeginInv
  <2>2. /\ status' = [status EXCEPT ![d] = "queued"]
        /\ UNCHANGED <<pc, dep, seq, cache, applied>>
        /\ \A e \in Deployments \ {d} : step'[e] = step[e]
        /\ \A k \in Steps : step'[d][k] \in {"skipped", "pending"}
    BY <1>5, <1>t DEF ApplyEnv, NextPk, CreateRow, producerUnchanged
  <2>3. SuccessMeansApplied'
    BY <1>t, <2>1, <2>2 DEF StepInv, SuccessMeansApplied, StepCovered
  <2>4. StepsInOrder'
    <3> SUFFICES ASSUME NEW e \in Deployments, NEW k \in Steps, NEW j \in 1..(k - 1),
                        step'[e][k] \in {"running", "succeeded", "failed"}
                 PROVE  StepCovered(e, j)'
      BY DEF StepsInOrder
    <3>1. e # d
      BY <2>2
    <3>2. StepCovered(e, j)
      BY <3>1, <2>2 DEF StepInv, StepsInOrder
    <3> QED
      BY <3>1, <3>2, <2>2 DEF StepCovered
  <2>5. \A e \in Deployments, k \in Steps : step'[e][k] = "succeeded" => k \in applied'[e]
    BY <2>2 DEF StepInv
  <2>6. \A p \in Procs : dep[p] # NoDep => step'[dep[p]] = step[dep[p]]
    BY <1>t, <2>1, <2>2
  <2>7. \A w \in Workers : pc[w] # "idle" => dep[w] # NoDep
    BY DEF ControlInv
  <2>8. \A p \in Sweepers : pc[p] = "finalize" => dep[p] # NoDep
    BY DEF ControlInv, SweepActs
  <2> QED
    BY <1>t, <2>2, <2>3, <2>4, <2>5, <2>6, <2>7, <2>8 DEF StepInv, StepCovered, InStep
<1>6. ASSUME NEW d \in Deployments, NEW old \in Deployments, Retry(d, old)
      PROVE  StepInv'
  BY <1>6, <1>t
     DEF Retry, NextPk, CreateRow, producerUnchanged, ControlInv, StepInv,
         SuccessMeansApplied, StepsInOrder, StepCovered, InStep, DoneStep, NoCache,
         Steps, WorkerPcs, SweeperPcs, Terminal
<1>7. ASSUME NEW d \in Deployments, NEW old \in Deployments, NEW prev \in
             Deployments, Rollback(d, old, prev)
      PROVE  StepInv'
  BY <1>7, <1>t
     DEF Rollback, NextPk, CreateRow, producerUnchanged, ControlInv, StepInv,
         SuccessMeansApplied, StepsInOrder, StepCovered, InStep, DoneStep, NoCache,
         Steps, WorkerPcs, SweeperPcs, Terminal
<1>8. ASSUME NEW w \in Workers, NEW d \in Deployments, NEW old \in Deployments,
             RollbackNow(w, d, old)
      PROVE  StepInv'
  BY <1>8, <1>t
     DEF RollbackNow, NextPk, CreateRow, Goto, ControlInv, StepInv,
         SuccessMeansApplied, StepsInOrder, StepCovered, InStep, DoneStep, NoCache,
         Steps, WorkerPcs, SweeperPcs, Terminal
<1>9. ASSUME NEW s \in Sites, PutEnv(s) PROVE StepInv'
  BY <1>9, <1>t
     DEF PutEnv, producerUnchanged, ControlInv, StepInv, SuccessMeansApplied,
         StepsInOrder, StepCovered, InStep, DoneStep, NoCache, Steps, WorkerPcs,
         SweeperPcs, Terminal
<1>10. ASSUME NEW d \in Deployments, EnvelopeExpired(d) PROVE StepInv'
  BY <1>10, <1>t
     DEF EnvelopeExpired, Fault, ControlInv, StepInv, SuccessMeansApplied,
         StepsInOrder, StepCovered, InStep, DoneStep, NoCache, Steps, WorkerPcs,
         SweeperPcs, Terminal
<1>11. ASSUME NEW d \in Deployments, Age(d) PROVE StepInv'
  BY <1>11, <1>t
     DEF Age, ControlInv, StepInv, SuccessMeansApplied, StepsInOrder, StepCovered,
         InStep, DoneStep, NoCache, Steps, WorkerPcs, SweeperPcs, Terminal
<1>12. ASSUME NEW w \in Workers, NEW d \in Deployments, TakeMessage(w, d)
       PROVE  StepInv'
  BY <1>12, <1>t
     DEF TakeMessage, Goto, ControlInv, StepInv, SuccessMeansApplied, StepsInOrder,
         StepCovered, InStep, DoneStep, NoCache, Steps, WorkerPcs, SweeperPcs,
         Terminal
<1>13. ASSUME NEW w \in Workers, SeamRefused(w) PROVE StepInv'
  BY <1>13, <1>t
     DEF SeamRefused, CallRelease, Goto, ControlInv, StepInv, SuccessMeansApplied,
         StepsInOrder, StepCovered, InStep, DoneStep, NoCache, Steps, WorkerPcs,
         SweeperPcs, Terminal
<1>14. ASSUME NEW w \in Workers, NotStartable(w) PROVE StepInv'
  BY <1>14, <1>t
     DEF NotStartable, EndTask, Goto, ControlInv, StepInv, SuccessMeansApplied,
         StepsInOrder, StepCovered, InStep, DoneStep, NoCache, Steps, WorkerPcs,
         SweeperPcs, Terminal
<1>15. ASSUME NEW w \in Workers, BeginDeploy(w) PROVE StepInv'
  BY <1>15, <1>t
     DEF BeginDeploy, Goto, ControlInv, StepInv, SuccessMeansApplied, StepsInOrder,
         StepCovered, InStep, DoneStep, NoCache, Steps, WorkerPcs, SweeperPcs,
         Terminal
<1>16. ASSUME NEW w \in Workers, NEW d \in Deployments, SupersedeOne(w, d)
       PROVE  StepInv'
  BY <1>16, <1>t
     DEF SupersedeOne, CallRelease, Goto, ControlInv, StepInv, SuccessMeansApplied,
         StepsInOrder, StepCovered, InStep, DoneStep, NoCache, Steps, WorkerPcs,
         SweeperPcs, Terminal
<1>17. ASSUME NEW w \in Workers, AcquireSite(w) PROVE StepInv'
  BY <1>17, <1>t
     DEF AcquireSite, Goto, ControlInv, StepInv, SuccessMeansApplied, StepsInOrder,
         StepCovered, InStep, DoneStep, NoCache, Steps, WorkerPcs, SweeperPcs,
         Terminal
<1>18. ASSUME NEW w \in Workers, SiteBusy(w) PROVE StepInv'
  BY <1>18, <1>t
     DEF SiteBusy, EndTask, Goto, ControlInv, StepInv, SuccessMeansApplied,
         StepsInOrder, StepCovered, InStep, DoneStep, NoCache, Steps, WorkerPcs,
         SweeperPcs, Terminal
<1>19. ASSUME NEW w \in Workers, AcquireTarget(w) PROVE StepInv'
  BY <1>19, <1>t
     DEF AcquireTarget, Goto, ControlInv, StepInv, SuccessMeansApplied,
         StepsInOrder, StepCovered, InStep, DoneStep, NoCache, Steps, WorkerPcs,
         SweeperPcs, Terminal
<1>20. ASSUME NEW w \in Workers, TargetBusy(w) PROVE StepInv'
  BY <1>20, <1>t
     DEF TargetBusy, Goto, ControlInv, StepInv, SuccessMeansApplied, StepsInOrder,
         StepCovered, InStep, DoneStep, NoCache, Steps, WorkerPcs, SweeperPcs,
         Terminal
<1>21. ASSUME NEW w \in Workers, BackOut(w) PROVE StepInv'
  BY <1>21, <1>t
     DEF BackOut, EndTask, Goto, ControlInv, StepInv, SuccessMeansApplied,
         StepsInOrder, StepCovered, InStep, DoneStep, NoCache, Steps, WorkerPcs,
         SweeperPcs, Terminal
<1>22. ASSUME NEW w \in Workers, SaveRunning(w) PROVE StepInv'
  BY <1>22, <1>t
     DEF SaveRunning, Goto, ControlInv, StepInv, SuccessMeansApplied, StepsInOrder,
         StepCovered, InStep, DoneStep, NoCache, Steps, WorkerPcs, SweeperPcs,
         Terminal
<1>23. ASSUME NEW w \in Workers, BegunStopped(w) PROVE StepInv'
  BY <1>23, <1>t
     DEF BegunStopped, EndTask, Goto, ControlInv, StepInv, SuccessMeansApplied,
         StepsInOrder, StepCovered, InStep, DoneStep, NoCache, Steps, WorkerPcs,
         SweeperPcs, Terminal
<1>24. ASSUME NEW w \in Workers, TouchHeartbeat(w) PROVE StepInv'
  BY <1>24, <1>t
     DEF TouchHeartbeat, Goto, ControlInv, StepInv, SuccessMeansApplied,
         StepsInOrder, StepCovered, InStep, DoneStep, NoCache, Steps, WorkerPcs,
         SweeperPcs, Terminal
<1>25. ASSUME NEW w \in Workers, LoadSteps(w) PROVE StepInv'
  <2>1. dep[w] \in Deployments
    BY <1>25, <1>t DEF LoadSteps, Goto, ControlInv
  <2>2. \A k \in Steps : step[dep[w]][k] \in DoneStep => StepCovered(dep[w], k)
    BY <2>1 DEF StepInv, DoneStep, StepCovered
  <2>3. /\ cache' = [cache EXCEPT ![w] = step[dep[w]]]
        /\ seq' = [seq EXCEPT ![w] = 1]
        /\ pc' = [pc EXCEPT ![w] = "loop"]
        /\ UNCHANGED <<status, step, dep, applied>>
    BY <1>25, <1>t DEF LoadSteps, Goto
  <2>4. SuccessMeansApplied' /\ StepsInOrder'
    BY <2>3 DEF StepInv, SuccessMeansApplied, StepsInOrder, StepCovered
  <2>5. cache'[w] = step[dep[w]] /\ seq'[w] = 1 /\ pc'[w] = "loop"
    BY <1>t, <2>3
  <2>6. \A v \in Workers \ {w} : cache'[v] = cache[v] /\ seq'[v] = seq[v] /\ pc'[v] = pc[v]
    BY <1>t, <2>3
  <2>7. \A p \in Sweepers : pc'[p] = pc[p]
    BY <1>t, <2>3
  <2> QED
    BY <1>t, <2>1, <2>2, <2>3, <2>4, <2>5, <2>6, <2>7 DEF StepInv, StepCovered, InStep
<1>26. ASSUME NEW w \in Workers, PrepareRaises(w) PROVE StepInv'
  <2>1. /\ pc' = [pc EXCEPT ![w] = "finally"]
        /\ UNCHANGED <<status, step, dep, seq, cache, applied>>
    BY <1>26, <1>t DEF PrepareRaises, Goto, Fault
  <2>2. SuccessMeansApplied'
    BY <2>1 DEF StepInv, SuccessMeansApplied, StepCovered
  <2>3. StepsInOrder'
    BY <2>1 DEF StepInv, StepsInOrder, StepCovered
  <2> QED
    BY <1>t, <2>1, <2>2, <2>3 DEF StepInv, StepCovered, InStep
<1>27. ASSUME NEW w \in Workers, LoopStopped(w) PROVE StepInv'
  BY <1>27, <1>t
     DEF LoopStopped, Goto, ControlInv, StepInv, SuccessMeansApplied, StepsInOrder,
         StepCovered, InStep, DoneStep, NoCache, Steps, WorkerPcs, SweeperPcs,
         Terminal
<1>28. ASSUME NEW w \in Workers, LoopSkip(w) PROVE StepInv'
  BY <1>28, <1>t
     DEF LoopSkip, ControlInv, StepInv, SuccessMeansApplied, StepsInOrder,
         StepCovered, InStep, DoneStep, NoCache, Steps, WorkerPcs, SweeperPcs,
         Terminal
<1>29. ASSUME NEW w \in Workers, LoopEnter(w) PROVE StepInv'
  BY <1>29, <1>t
     DEF LoopEnter, Goto, ControlInv, StepInv, SuccessMeansApplied, StepsInOrder,
         StepCovered, InStep, DoneStep, NoCache, Steps, WorkerPcs, SweeperPcs,
         Terminal
<1>30. ASSUME NEW w \in Workers, StartStep(w) PROVE StepInv'
  BY <1>30, <1>t
     DEF StartStep, Goto, ControlInv, StepInv, SuccessMeansApplied, StepsInOrder,
         StepCovered, InStep, DoneStep, NoCache, Steps, WorkerPcs, SweeperPcs,
         Terminal
<1>31. ASSUME NEW w \in Workers, StepApplied(w) PROVE StepInv'
  BY <1>31, <1>t
     DEF StepApplied, Goto, ControlInv, StepInv, SuccessMeansApplied, StepsInOrder,
         StepCovered, InStep, DoneStep, NoCache, Steps, WorkerPcs, SweeperPcs,
         Terminal
<1>32. ASSUME NEW w \in Workers, StepRaises(w) PROVE StepInv'
  BY <1>32, <1>t
     DEF StepRaises, Goto, ControlInv, StepInv, SuccessMeansApplied, StepsInOrder,
         StepCovered, InStep, DoneStep, NoCache, Steps, WorkerPcs, SweeperPcs,
         Terminal
<1>33. ASSUME NEW w \in Workers, MarkFailed(w) PROVE StepInv'
  BY <1>33, <1>t
     DEF MarkFailed, CallRelease, Goto, ControlInv, StepInv, SuccessMeansApplied,
         StepsInOrder, StepCovered, InStep, DoneStep, NoCache, Steps, WorkerPcs,
         SweeperPcs, Terminal
<1>34. ASSUME NEW w \in Workers, StepSucceeded(w) PROVE StepInv'
  BY <1>34, <1>t
     DEF StepSucceeded, Goto, ControlInv, StepInv, SuccessMeansApplied,
         StepsInOrder, StepCovered, InStep, DoneStep, NoCache, Steps, WorkerPcs,
         SweeperPcs, Terminal
<1>35. ASSUME NEW w \in Workers, SnapshotRaises(w) PROVE StepInv'
  BY <1>35, <1>t
     DEF SnapshotRaises, Goto, Fault, ControlInv, StepInv, SuccessMeansApplied,
         StepsInOrder, StepCovered, InStep, DoneStep, NoCache, Steps, WorkerPcs,
         SweeperPcs, Terminal
<1>36. ASSUME NEW w \in Workers, LoopFinished(w) PROVE StepInv'
  BY <1>36, <1>t
     DEF LoopFinished, Goto, ControlInv, StepInv, SuccessMeansApplied, StepsInOrder,
         StepCovered, InStep, DoneStep, NoCache, Steps, WorkerPcs, SweeperPcs,
         Terminal
<1>37. ASSUME NEW w \in Workers, SaveSucceeded(w) PROVE StepInv'
  BY <1>37, <1>t
     DEF SaveSucceeded, Goto, ControlInv, StepInv, SuccessMeansApplied,
         StepsInOrder, StepCovered, InStep, DoneStep, NoCache, Steps, WorkerPcs,
         SweeperPcs, Terminal
<1>38. ASSUME NEW w \in Workers, ClearStale(w) PROVE StepInv'
  BY <1>38, <1>t
     DEF ClearStale, Goto, ControlInv, StepInv, SuccessMeansApplied, StepsInOrder,
         StepCovered, InStep, DoneStep, NoCache, Steps, WorkerPcs, SweeperPcs,
         Terminal
<1>39. ASSUME NEW w \in Workers, FinallyRelease(w) PROVE StepInv'
  BY <1>39, <1>t
     DEF FinallyRelease, CallRelease, Goto, ControlInv, StepInv,
         SuccessMeansApplied, StepsInOrder, StepCovered, InStep, DoneStep, NoCache,
         Steps, WorkerPcs, SweeperPcs, Terminal
<1>40. ASSUME NEW w \in Workers, FinallyKeep(w) PROVE StepInv'
  BY <1>40, <1>t
     DEF FinallyKeep, EndTask, Goto, ControlInv, StepInv, SuccessMeansApplied,
         StepsInOrder, StepCovered, InStep, DoneStep, NoCache, Steps, WorkerPcs,
         SweeperPcs, Terminal
<1>41. ASSUME NEW p \in Sweepers, SweepList(p) PROVE StepInv'
  BY <1>41, <1>t
     DEF SweepList, Goto, ControlInv, StepInv, SuccessMeansApplied, StepsInOrder,
         StepCovered, InStep, DoneStep, NoCache, Steps, WorkerPcs, SweeperPcs,
         Terminal
<1>42. ASSUME NEW p \in Sweepers, NEW d \in Deployments, SweepRead(p, d)
       PROVE  StepInv'
  <2>1. ASSUME pc'[p] = "finalize" PROVE \A k \in Steps : StepCovered(d, k)
    <3>1. OpenSteps(d) = {}
      BY <1>42, <1>t, <2>1 DEF SweepRead, Goto, Verdict
    <3> QED
      BY <3>1 DEF OpenSteps, StepInv, StepCovered, DoneStep
  <2>2. /\ UNCHANGED <<status, step, applied, seq, cache>>
        /\ dep' = [dep EXCEPT ![p] = d]
        /\ \A q \in Procs \ {p} : pc'[q] = pc[q]
    BY <1>42, <1>t DEF SweepRead, Goto, Verdict
  <2> QED
    BY <1>42, <1>t, <2>1, <2>2
       DEF StepInv, SuccessMeansApplied, StepsInOrder, StepCovered, InStep
<1>43. ASSUME NEW p \in Sweepers, SweepFinalize(p) PROVE StepInv'
  BY <1>43, <1>t
     DEF SweepFinalize, SweepClose, CallRelease, Goto, ControlInv, StepInv,
         SuccessMeansApplied, StepsInOrder, StepCovered, InStep, DoneStep, NoCache,
         Steps, WorkerPcs, SweeperPcs, Terminal
<1>44. ASSUME NEW p \in Sweepers, SweepAbort(p) PROVE StepInv'
  BY <1>44, <1>t
     DEF SweepAbort, SweepClose, CallRelease, Goto, ControlInv, StepInv,
         SuccessMeansApplied, StepsInOrder, StepCovered, InStep, DoneStep, NoCache,
         Steps, WorkerPcs, SweeperPcs, Terminal
<1>45. ASSUME NEW p \in Sweepers, SweepSkip(p) PROVE StepInv'
  BY <1>45, <1>t
     DEF SweepSkip, Goto, ControlInv, StepInv, SuccessMeansApplied, StepsInOrder,
         StepCovered, InStep, DoneStep, NoCache, Steps, WorkerPcs, SweeperPcs,
         Terminal
<1>46. ASSUME NEW p \in Sweepers, SweepClaim(p) PROVE StepInv'
  BY <1>46, <1>t
     DEF SweepClaim, Goto, ControlInv, StepInv, SuccessMeansApplied, StepsInOrder,
         StepCovered, InStep, DoneStep, NoCache, Steps, WorkerPcs, SweeperPcs,
         Terminal
<1>47. ASSUME NEW p \in Sweepers, SweepEnqueue(p) PROVE StepInv'
  BY <1>47, <1>t
     DEF SweepEnqueue, Goto, ControlInv, StepInv, SuccessMeansApplied, StepsInOrder,
         StepCovered, InStep, DoneStep, NoCache, Steps, WorkerPcs, SweeperPcs,
         Terminal
<1>48. ASSUME NEW p \in Sweepers, SweepEnd(p) PROVE StepInv'
  BY <1>48, <1>t
     DEF SweepEnd, EndTask, Goto, ControlInv, StepInv, SuccessMeansApplied,
         StepsInOrder, StepCovered, InStep, DoneStep, NoCache, Steps, WorkerPcs,
         SweeperPcs, Terminal
<1>49. ASSUME NEW o \in Operators, NEW d \in Deployments, CancelRequest(o, d)
       PROVE  StepInv'
  BY <1>49, <1>t
     DEF CancelRequest, Command, Goto, ControlInv, StepInv, SuccessMeansApplied,
         StepsInOrder, StepCovered, InStep, DoneStep, NoCache, Steps, WorkerPcs,
         SweeperPcs, Terminal
<1>50. ASSUME NEW o \in Operators, NEW d \in Deployments, AbortRequest(o, d)
       PROVE  StepInv'
  BY <1>50, <1>t
     DEF AbortRequest, Command, Goto, ControlInv, StepInv, SuccessMeansApplied,
         StepsInOrder, StepCovered, InStep, DoneStep, NoCache, Steps, WorkerPcs,
         SweeperPcs, Terminal
<1>51. ASSUME NEW o \in Operators, CancelSave(o) PROVE StepInv'
  BY <1>51, <1>t
     DEF CancelSave, EndTask, Goto, ControlInv, StepInv, SuccessMeansApplied,
         StepsInOrder, StepCovered, InStep, DoneStep, NoCache, Steps, WorkerPcs,
         SweeperPcs, Terminal
<1>52. ASSUME NEW o \in Operators, AbortSave(o) PROVE StepInv'
  BY <1>52, <1>t
     DEF AbortSave, CallRelease, Goto, ControlInv, StepInv, SuccessMeansApplied,
         StepsInOrder, StepCovered, InStep, DoneStep, NoCache, Steps, WorkerPcs,
         SweeperPcs, Terminal
<1>53. ASSUME NEW p \in Procs, ReleaseList(p) PROVE StepInv'
  BY <1>53, <1>t
     DEF ReleaseList, Goto, ControlInv, StepInv, SuccessMeansApplied, StepsInOrder,
         StepCovered, InStep, DoneStep, NoCache, Steps, WorkerPcs, SweeperPcs,
         Terminal
<1>54. ASSUME NEW p \in Procs, NEW r \in Resources, ReleaseRow(p, r) PROVE StepInv'
  BY <1>54, <1>t
     DEF ReleaseRow, ControlInv, StepInv, SuccessMeansApplied, StepsInOrder,
         StepCovered, InStep, DoneStep, NoCache, Steps, WorkerPcs, SweeperPcs,
         Terminal
<1>55. ASSUME NEW p \in Procs, ReleaseReturn(p) PROVE StepInv'
  BY <1>55, <1>t
     DEF ReleaseReturn, Goto, ControlInv, StepInv, SuccessMeansApplied,
         StepsInOrder, StepCovered, InStep, DoneStep, NoCache, Steps, WorkerPcs,
         SweeperPcs, Terminal
<1>56. ASSUME NEW p \in Procs, ReleaseEnd(p) PROVE StepInv'
  BY <1>56, <1>t
     DEF ReleaseEnd, EndTask, Goto, ControlInv, StepInv, SuccessMeansApplied,
         StepsInOrder, StepCovered, InStep, DoneStep, NoCache, Steps, WorkerPcs,
         SweeperPcs, Terminal
<1>57. ASSUME NEW p \in Procs, Crash(p) PROVE StepInv'
  BY <1>57, <1>t
     DEF Crash, EndTask, Goto, ControlInv, StepInv, SuccessMeansApplied,
         StepsInOrder, StepCovered, InStep, DoneStep, NoCache, Steps, WorkerPcs,
         SweeperPcs, Terminal
<1>58. CASE UNCHANGED vars
  BY <1>58, <1>t
     DEF vars, ControlInv, StepInv, SuccessMeansApplied, StepsInOrder, StepCovered,
         InStep, DoneStep, NoCache, Steps, WorkerPcs, SweeperPcs
<1> QED
  BY <1>1, <1>2, <1>3, <1>4, <1>5, <1>6, <1>7, <1>8, <1>9, <1>10, <1>11, <1>12,
     <1>13, <1>14, <1>15, <1>16, <1>17, <1>18, <1>19, <1>20, <1>21, <1>22, <1>23,
     <1>24, <1>25, <1>26, <1>27, <1>28, <1>29, <1>30, <1>31, <1>32, <1>33, <1>34,
     <1>35, <1>36, <1>37, <1>38, <1>39, <1>40, <1>41, <1>42, <1>43, <1>44, <1>45,
     <1>46, <1>47, <1>48, <1>49, <1>50, <1>51, <1>52, <1>53, <1>54, <1>55, <1>56,
     <1>57, <1>58
     DEF Next, Produce, WorkerStep, WorkerFails, SweeperStep, OperatorStep, Release,
         Procs

\* A worker that overran the end of its deployment cannot enter a step again.
LEMMA NextOverrun == TypeOK /\ ControlInv /\ BeginInv /\ OverrunInv /\ [Next]_vars => OverrunInv'
<1> SUFFICES ASSUME TypeOK, ControlInv, BeginInv, OverrunInv, [Next]_vars
             PROVE  OverrunInv'
  OBVIOUS
<1> USE DeploymentsAssumption, PlacementAssumption, StepsAssumption, ProcsAssumption
         DEF Procs, NoDep, rowVars, envVars, callVars, taskVars, boundVars, markVars
<1>t. /\ pc \in [Procs -> Pcs] /\ overrun \in [Procs -> Nat]
      /\ dep \in [Procs -> Deployments \cup {NoDep}]
      /\ status \in [Deployments -> Status]
      /\ hb \in [Deployments -> {"null", "fresh", "stale"}]
  BY DEF TypeOK, DataTypeOK, TaskTypeOK
<1>1. ASSUME NEW d \in Deployments, Enqueue(d) PROVE OverrunInv'
  BY <1>1, <1>t
     DEF Enqueue, NextPk, CreateRow, producerUnchanged, ControlInv, BeginInv,
         OverrunInv, Begun, InBegin, InRun
<1>2. ASSUME NEW d \in Deployments, EnqueueLost(d) PROVE OverrunInv'
  BY <1>2, <1>t
     DEF EnqueueLost, NextPk, CreateRow, producerUnchanged, Fault, ControlInv,
         BeginInv, OverrunInv, Begun, InBegin, InRun
<1>3. ASSUME NEW d \in Deployments, Park(d) PROVE OverrunInv'
  BY <1>3, <1>t
     DEF Park, NextPk, CreateRow, producerUnchanged, ControlInv, BeginInv,
         OverrunInv, Begun, InBegin, InRun
<1>4. ASSUME NEW d \in Deployments, Promote(d) PROVE OverrunInv'
  BY <1>4, <1>t DEF Promote, ControlInv, BeginInv, OverrunInv, Begun, InBegin, InRun
<1>5. ASSUME NEW d \in Deployments, ApplyEnv(d) PROVE OverrunInv'
  BY <1>5, <1>t
     DEF ApplyEnv, NextPk, CreateRow, producerUnchanged, ControlInv, BeginInv,
         OverrunInv, Begun, InBegin, InRun
<1>6. ASSUME NEW d \in Deployments, NEW old \in Deployments, Retry(d, old)
      PROVE  OverrunInv'
  BY <1>6, <1>t
     DEF Retry, NextPk, CreateRow, producerUnchanged, ControlInv, BeginInv,
         OverrunInv, Begun, InBegin, InRun
<1>7. ASSUME NEW d \in Deployments, NEW old \in Deployments, NEW prev \in
             Deployments, Rollback(d, old, prev)
      PROVE  OverrunInv'
  BY <1>7, <1>t
     DEF Rollback, NextPk, CreateRow, producerUnchanged, ControlInv, BeginInv,
         OverrunInv, Begun, InBegin, InRun
<1>8. ASSUME NEW w \in Workers, NEW d \in Deployments, NEW old \in Deployments,
             RollbackNow(w, d, old)
      PROVE  OverrunInv'
  BY <1>8, <1>t
     DEF RollbackNow, NextPk, CreateRow, Goto, ControlInv, BeginInv, OverrunInv,
         Begun, InBegin, InRun
<1>9. ASSUME NEW s \in Sites, PutEnv(s) PROVE OverrunInv'
  BY <1>9, <1>t
     DEF PutEnv, producerUnchanged, ControlInv, BeginInv, OverrunInv, Begun,
         InBegin, InRun
<1>10. ASSUME NEW d \in Deployments, EnvelopeExpired(d) PROVE OverrunInv'
  BY <1>10, <1>t
     DEF EnvelopeExpired, Fault, ControlInv, BeginInv, OverrunInv, Begun, InBegin,
         InRun
<1>11. ASSUME NEW d \in Deployments, Age(d) PROVE OverrunInv'
  BY <1>11, <1>t DEF Age, ControlInv, BeginInv, OverrunInv, Begun, InBegin, InRun
<1>12. ASSUME NEW w \in Workers, NEW d \in Deployments, TakeMessage(w, d)
       PROVE  OverrunInv'
  BY <1>12, <1>t
     DEF TakeMessage, Goto, ControlInv, BeginInv, OverrunInv, Begun, InBegin, InRun
<1>13. ASSUME NEW w \in Workers, SeamRefused(w) PROVE OverrunInv'
  BY <1>13, <1>t
     DEF SeamRefused, CallRelease, Goto, ControlInv, BeginInv, OverrunInv, Begun,
         InBegin, InRun
<1>14. ASSUME NEW w \in Workers, NotStartable(w) PROVE OverrunInv'
  BY <1>14, <1>t
     DEF NotStartable, EndTask, Goto, ControlInv, BeginInv, OverrunInv, Begun,
         InBegin, InRun
<1>15. ASSUME NEW w \in Workers, BeginDeploy(w) PROVE OverrunInv'
  BY <1>15, <1>t
     DEF BeginDeploy, Goto, ControlInv, BeginInv, OverrunInv, Begun, InBegin, InRun
<1>16. ASSUME NEW w \in Workers, NEW d \in Deployments, SupersedeOne(w, d)
       PROVE  OverrunInv'
  BY <1>16, <1>t
     DEF SupersedeOne, CallRelease, Goto, ControlInv, BeginInv, OverrunInv, Begun,
         InBegin, InRun
<1>17. ASSUME NEW w \in Workers, AcquireSite(w) PROVE OverrunInv'
  BY <1>17, <1>t
     DEF AcquireSite, Goto, ControlInv, BeginInv, OverrunInv, Begun, InBegin, InRun
<1>18. ASSUME NEW w \in Workers, SiteBusy(w) PROVE OverrunInv'
  BY <1>18, <1>t
     DEF SiteBusy, EndTask, Goto, ControlInv, BeginInv, OverrunInv, Begun, InBegin,
         InRun
<1>19. ASSUME NEW w \in Workers, AcquireTarget(w) PROVE OverrunInv'
  BY <1>19, <1>t
     DEF AcquireTarget, Goto, ControlInv, BeginInv, OverrunInv, Begun, InBegin,
         InRun
<1>20. ASSUME NEW w \in Workers, TargetBusy(w) PROVE OverrunInv'
  BY <1>20, <1>t
     DEF TargetBusy, Goto, ControlInv, BeginInv, OverrunInv, Begun, InBegin, InRun
<1>21. ASSUME NEW w \in Workers, BackOut(w) PROVE OverrunInv'
  BY <1>21, <1>t
     DEF BackOut, EndTask, Goto, ControlInv, BeginInv, OverrunInv, Begun, InBegin,
         InRun
<1>22. ASSUME NEW w \in Workers, SaveRunning(w) PROVE OverrunInv'
  BY <1>22, <1>t
     DEF SaveRunning, Goto, ControlInv, BeginInv, OverrunInv, Begun, InBegin, InRun
<1>23. ASSUME NEW w \in Workers, BegunStopped(w) PROVE OverrunInv'
  BY <1>23, <1>t
     DEF BegunStopped, EndTask, Goto, ControlInv, BeginInv, OverrunInv, Begun,
         InBegin, InRun
<1>24. ASSUME NEW w \in Workers, TouchHeartbeat(w) PROVE OverrunInv'
  BY <1>24, <1>t
     DEF TouchHeartbeat, Goto, ControlInv, BeginInv, OverrunInv, Begun, InBegin,
         InRun
<1>25. ASSUME NEW w \in Workers, LoadSteps(w) PROVE OverrunInv'
  BY <1>25, <1>t
     DEF LoadSteps, Goto, ControlInv, BeginInv, OverrunInv, Begun, InBegin, InRun
<1>26. ASSUME NEW w \in Workers, PrepareRaises(w) PROVE OverrunInv'
  BY <1>26, <1>t
     DEF PrepareRaises, Goto, Fault, ControlInv, BeginInv, OverrunInv, Begun,
         InBegin, InRun
<1>27. ASSUME NEW w \in Workers, LoopStopped(w) PROVE OverrunInv'
  BY <1>27, <1>t
     DEF LoopStopped, Goto, ControlInv, BeginInv, OverrunInv, Begun, InBegin, InRun
<1>28. ASSUME NEW w \in Workers, LoopSkip(w) PROVE OverrunInv'
  BY <1>28, <1>t DEF LoopSkip, ControlInv, BeginInv, OverrunInv, Begun, InBegin, InRun
<1>29. ASSUME NEW w \in Workers, LoopEnter(w) PROVE OverrunInv'
  BY <1>29, <1>t
     DEF LoopEnter, Goto, ControlInv, BeginInv, OverrunInv, Begun, InBegin, InRun
<1>30. ASSUME NEW w \in Workers, StartStep(w) PROVE OverrunInv'
  <2>1. /\ pc[w] = "startStep" /\ pc' = [pc EXCEPT ![w] = "dispatch"]
        /\ UNCHANGED <<status, dep, begun>>
        /\ overrun' = [overrun EXCEPT ![w] =
                         IF status[dep[w]] = "running" THEN @ ELSE @ + 1]
    BY <1>30 DEF StartStep, Goto
  <2>2. dep[w] # NoDep /\ Begun(dep[w]) /\ overrun[w] = 0
    BY <2>1, <1>t DEF ControlInv, BeginInv, OverrunInv, InRun
  <2>3. ASSUME NEW v \in Workers, v # w
        PROVE  overrun'[v] = overrun[v] /\ pc'[v] = pc[v]
    BY <2>1, <2>3, <1>t
  <2>4. pc'[w] = "dispatch" /\ overrun'[w] \in {0, 1}
    BY <2>1, <2>2, <1>t
  <2>5. overrun'[w] = 1 => status[dep[w]] # "running"
    BY <2>1, <2>2, <1>t
  <2> QED
    BY <2>1, <2>2, <2>3, <2>4, <2>5 DEF OverrunInv, Begun
<1>31. ASSUME NEW w \in Workers, StepApplied(w) PROVE OverrunInv'
  BY <1>31, <1>t
     DEF StepApplied, Goto, ControlInv, BeginInv, OverrunInv, Begun, InBegin, InRun
<1>32. ASSUME NEW w \in Workers, StepRaises(w) PROVE OverrunInv'
  BY <1>32, <1>t
     DEF StepRaises, Goto, ControlInv, BeginInv, OverrunInv, Begun, InBegin, InRun
<1>33. ASSUME NEW w \in Workers, MarkFailed(w) PROVE OverrunInv'
  BY <1>33, <1>t
     DEF MarkFailed, CallRelease, Goto, ControlInv, BeginInv, OverrunInv, Begun,
         InBegin, InRun
<1>34. ASSUME NEW w \in Workers, StepSucceeded(w) PROVE OverrunInv'
  BY <1>34, <1>t
     DEF StepSucceeded, Goto, ControlInv, BeginInv, OverrunInv, Begun, InBegin,
         InRun
<1>35. ASSUME NEW w \in Workers, SnapshotRaises(w) PROVE OverrunInv'
  BY <1>35, <1>t
     DEF SnapshotRaises, Goto, Fault, ControlInv, BeginInv, OverrunInv, Begun,
         InBegin, InRun
<1>36. ASSUME NEW w \in Workers, LoopFinished(w) PROVE OverrunInv'
  BY <1>36, <1>t
     DEF LoopFinished, Goto, ControlInv, BeginInv, OverrunInv, Begun, InBegin, InRun
<1>37. ASSUME NEW w \in Workers, SaveSucceeded(w) PROVE OverrunInv'
  BY <1>37, <1>t
     DEF SaveSucceeded, Goto, ControlInv, BeginInv, OverrunInv, Begun, InBegin,
         InRun
<1>38. ASSUME NEW w \in Workers, ClearStale(w) PROVE OverrunInv'
  BY <1>38, <1>t
     DEF ClearStale, Goto, ControlInv, BeginInv, OverrunInv, Begun, InBegin, InRun
<1>39. ASSUME NEW w \in Workers, FinallyRelease(w) PROVE OverrunInv'
  BY <1>39, <1>t
     DEF FinallyRelease, CallRelease, Goto, ControlInv, BeginInv, OverrunInv, Begun,
         InBegin, InRun
<1>40. ASSUME NEW w \in Workers, FinallyKeep(w) PROVE OverrunInv'
  BY <1>40, <1>t
     DEF FinallyKeep, EndTask, Goto, ControlInv, BeginInv, OverrunInv, Begun,
         InBegin, InRun
<1>41. ASSUME NEW p \in Sweepers, SweepList(p) PROVE OverrunInv'
  BY <1>41, <1>t
     DEF SweepList, Goto, ControlInv, BeginInv, OverrunInv, Begun, InBegin, InRun
<1>42. ASSUME NEW p \in Sweepers, NEW d \in Deployments, SweepRead(p, d)
       PROVE  OverrunInv'
  BY <1>42, <1>t
     DEF SweepRead, Goto, Verdict, ControlInv, BeginInv, OverrunInv, Begun, InBegin,
         InRun
<1>43. ASSUME NEW p \in Sweepers, SweepFinalize(p) PROVE OverrunInv'
  BY <1>43, <1>t
     DEF SweepFinalize, SweepClose, CallRelease, Goto, ControlInv, BeginInv,
         OverrunInv, Begun, InBegin, InRun
<1>44. ASSUME NEW p \in Sweepers, SweepAbort(p) PROVE OverrunInv'
  BY <1>44, <1>t
     DEF SweepAbort, SweepClose, CallRelease, Goto, ControlInv, BeginInv,
         OverrunInv, Begun, InBegin, InRun
<1>45. ASSUME NEW p \in Sweepers, SweepSkip(p) PROVE OverrunInv'
  BY <1>45, <1>t
     DEF SweepSkip, Goto, ControlInv, BeginInv, OverrunInv, Begun, InBegin, InRun
<1>46. ASSUME NEW p \in Sweepers, SweepClaim(p) PROVE OverrunInv'
  BY <1>46, <1>t
     DEF SweepClaim, Goto, ControlInv, BeginInv, OverrunInv, Begun, InBegin, InRun
<1>47. ASSUME NEW p \in Sweepers, SweepEnqueue(p) PROVE OverrunInv'
  BY <1>47, <1>t
     DEF SweepEnqueue, Goto, ControlInv, BeginInv, OverrunInv, Begun, InBegin, InRun
<1>48. ASSUME NEW p \in Sweepers, SweepEnd(p) PROVE OverrunInv'
  BY <1>48, <1>t
     DEF SweepEnd, EndTask, Goto, ControlInv, BeginInv, OverrunInv, Begun, InBegin,
         InRun
<1>49. ASSUME NEW o \in Operators, NEW d \in Deployments, CancelRequest(o, d)
       PROVE  OverrunInv'
  BY <1>49, <1>t
     DEF CancelRequest, Command, Goto, ControlInv, BeginInv, OverrunInv, Begun,
         InBegin, InRun
<1>50. ASSUME NEW o \in Operators, NEW d \in Deployments, AbortRequest(o, d)
       PROVE  OverrunInv'
  BY <1>50, <1>t
     DEF AbortRequest, Command, Goto, ControlInv, BeginInv, OverrunInv, Begun,
         InBegin, InRun
<1>51. ASSUME NEW o \in Operators, CancelSave(o) PROVE OverrunInv'
  BY <1>51, <1>t
     DEF CancelSave, EndTask, Goto, ControlInv, BeginInv, OverrunInv, Begun,
         InBegin, InRun
<1>52. ASSUME NEW o \in Operators, AbortSave(o) PROVE OverrunInv'
  BY <1>52, <1>t
     DEF AbortSave, CallRelease, Goto, ControlInv, BeginInv, OverrunInv, Begun,
         InBegin, InRun
<1>53. ASSUME NEW p \in Procs, ReleaseList(p) PROVE OverrunInv'
  BY <1>53, <1>t
     DEF ReleaseList, Goto, ControlInv, BeginInv, OverrunInv, Begun, InBegin, InRun
<1>54. ASSUME NEW p \in Procs, NEW r \in Resources, ReleaseRow(p, r) PROVE OverrunInv'
  BY <1>54, <1>t
     DEF ReleaseRow, ControlInv, BeginInv, OverrunInv, Begun, InBegin, InRun
<1>55. ASSUME NEW p \in Procs, ReleaseReturn(p) PROVE OverrunInv'
  BY <1>55, <1>t
     DEF ReleaseReturn, Goto, ControlInv, BeginInv, OverrunInv, Begun, InBegin,
         InRun
<1>56. ASSUME NEW p \in Procs, ReleaseEnd(p) PROVE OverrunInv'
  BY <1>56, <1>t
     DEF ReleaseEnd, EndTask, Goto, ControlInv, BeginInv, OverrunInv, Begun,
         InBegin, InRun
<1>57. ASSUME NEW p \in Procs, Crash(p) PROVE OverrunInv'
  BY <1>57, <1>t
     DEF Crash, EndTask, Goto, ControlInv, BeginInv, OverrunInv, Begun, InBegin,
         InRun
<1>58. CASE UNCHANGED vars
  BY <1>58, <1>t DEF vars, ControlInv, BeginInv, OverrunInv, Begun, InBegin, InRun
<1> QED
  BY <1>1, <1>2, <1>3, <1>4, <1>5, <1>6, <1>7, <1>8, <1>9, <1>10, <1>11, <1>12,
     <1>13, <1>14, <1>15, <1>16, <1>17, <1>18, <1>19, <1>20, <1>21, <1>22, <1>23,
     <1>24, <1>25, <1>26, <1>27, <1>28, <1>29, <1>30, <1>31, <1>32, <1>33, <1>34,
     <1>35, <1>36, <1>37, <1>38, <1>39, <1>40, <1>41, <1>42, <1>43, <1>44, <1>45,
     <1>46, <1>47, <1>48, <1>49, <1>50, <1>51, <1>52, <1>53, <1>54, <1>55, <1>56,
     <1>57, <1>58
     DEF Next, Produce, WorkerStep, WorkerFails, SweeperStep, OperatorStep, Release,
         Procs

\* What a step of the pipeline may do to the status of a deployment.
Sets(d, to) == status' = [status EXCEPT ![d] = to]
StatusChange ==
    \/ UNCHANGED status
    \/ \E d \in Deployments : status[d] = "none" /\ Sets(d, "queued")
    \/ \E d \in Deployments, to \in Terminal : status[d] # "none" /\ Sets(d, to)
    \/ \E d \in Deployments : /\ status[d] \in {"queued", "cancelled"}
                              /\ \A e \in Deployments :
                                   Lifecycle!Conflict(d, e) => status[e] # "running"
                              /\ Sets(d, "running")

\* A step leaves every status alone, submits a new row, ends an existing one, or
\* starts a queued or cancelled one that nothing RUNNING conflicts with.
LEMMA NextStatus == TypeOK /\ ControlInv /\ BeginInv /\ LockInv /\ [Next]_vars => StatusChange
<1> SUFFICES ASSUME TypeOK, ControlInv, BeginInv, LockInv, [Next]_vars
             PROVE  StatusChange
  OBVIOUS
<1> USE DeploymentsAssumption, PlacementAssumption, StepsAssumption, ProcsAssumption
         DEF Procs, NoDep, rowVars, envVars, callVars, taskVars, boundVars, markVars
<1>t. /\ pc \in [Procs -> Pcs] /\ dep \in [Procs -> Deployments \cup {NoDep}]
      /\ todo \in [Procs -> SUBSET Deployments]
      /\ status \in [Deployments -> Status]
  BY DEF TypeOK, DataTypeOK, TaskTypeOK
<1>1. ASSUME NEW d \in Deployments, Enqueue(d) PROVE StatusChange
  BY <1>1, <1>t DEF Enqueue, NextPk, CreateRow, producerUnchanged, Sets, StatusChange
<1>2. ASSUME NEW d \in Deployments, EnqueueLost(d) PROVE StatusChange
  BY <1>2, <1>t
     DEF EnqueueLost, NextPk, CreateRow, producerUnchanged, Fault, Sets,
         StatusChange
<1>3. ASSUME NEW d \in Deployments, Park(d) PROVE StatusChange
  BY <1>3, <1>t DEF Park, NextPk, CreateRow, producerUnchanged, Sets, StatusChange
<1>4. ASSUME NEW d \in Deployments, Promote(d) PROVE StatusChange
  BY <1>4, <1>t DEF Promote, Sets, StatusChange
<1>5. ASSUME NEW d \in Deployments, ApplyEnv(d) PROVE StatusChange
  BY <1>5, <1>t DEF ApplyEnv, NextPk, CreateRow, producerUnchanged, Sets, StatusChange
<1>6. ASSUME NEW d \in Deployments, NEW old \in Deployments, Retry(d, old)
      PROVE  StatusChange
  BY <1>6, <1>t DEF Retry, NextPk, CreateRow, producerUnchanged, Sets, StatusChange
<1>7. ASSUME NEW d \in Deployments, NEW old \in Deployments, NEW prev \in
             Deployments, Rollback(d, old, prev)
      PROVE  StatusChange
  BY <1>7, <1>t DEF Rollback, NextPk, CreateRow, producerUnchanged, Sets, StatusChange
<1>8. ASSUME NEW w \in Workers, NEW d \in Deployments, NEW old \in Deployments,
             RollbackNow(w, d, old)
      PROVE  StatusChange
  BY <1>8, <1>t DEF RollbackNow, NextPk, CreateRow, Goto, Sets, StatusChange
<1>9. ASSUME NEW s \in Sites, PutEnv(s) PROVE StatusChange
  BY <1>9, <1>t DEF PutEnv, producerUnchanged, Sets, StatusChange
<1>10. ASSUME NEW d \in Deployments, EnvelopeExpired(d) PROVE StatusChange
  BY <1>10, <1>t DEF EnvelopeExpired, Fault, Sets, StatusChange
<1>11. ASSUME NEW d \in Deployments, Age(d) PROVE StatusChange
  BY <1>11, <1>t DEF Age, Sets, StatusChange
<1>12. ASSUME NEW w \in Workers, NEW d \in Deployments, TakeMessage(w, d)
       PROVE  StatusChange
  BY <1>12, <1>t DEF TakeMessage, Goto, Sets, StatusChange
<1>13. ASSUME NEW w \in Workers, SeamRefused(w) PROVE StatusChange
  <2>1. dep[w] \in Deployments
    BY <1>13, <1>t DEF SeamRefused, CallRelease, Goto, ControlInv
  <2>2. status[dep[w]] # "none"
    BY <2>1 DEF BeginInv
  <2> QED
    BY <1>13, <1>t, <2>1, <2>2
       DEF SeamRefused, CallRelease, Goto, Sets, StatusChange, Terminal
<1>14. ASSUME NEW w \in Workers, NotStartable(w) PROVE StatusChange
  BY <1>14, <1>t DEF NotStartable, EndTask, Goto, Sets, StatusChange
<1>15. ASSUME NEW w \in Workers, BeginDeploy(w) PROVE StatusChange
  BY <1>15, <1>t DEF BeginDeploy, Goto, Sets, StatusChange
<1>16. ASSUME NEW w \in Workers, NEW d \in Deployments, SupersedeOne(w, d)
       PROVE  StatusChange
  <2>1. status[d] # "none"
    BY <1>16, <1>t DEF SupersedeOne, CallRelease, Goto, BeginInv
  <2> QED
    BY <1>16, <1>t, <2>1
       DEF SupersedeOne, CallRelease, Goto, Sets, StatusChange, Terminal
<1>17. ASSUME NEW w \in Workers, AcquireSite(w) PROVE StatusChange
  BY <1>17, <1>t DEF AcquireSite, Goto, Sets, StatusChange
<1>18. ASSUME NEW w \in Workers, SiteBusy(w) PROVE StatusChange
  BY <1>18, <1>t DEF SiteBusy, EndTask, Goto, Sets, StatusChange
<1>19. ASSUME NEW w \in Workers, AcquireTarget(w) PROVE StatusChange
  BY <1>19, <1>t DEF AcquireTarget, Goto, Sets, StatusChange
<1>20. ASSUME NEW w \in Workers, TargetBusy(w) PROVE StatusChange
  BY <1>20, <1>t DEF TargetBusy, Goto, Sets, StatusChange
<1>21. ASSUME NEW w \in Workers, BackOut(w) PROVE StatusChange
  BY <1>21, <1>t DEF BackOut, EndTask, Goto, Sets, StatusChange
<1>22. ASSUME NEW w \in Workers, SaveRunning(w) PROVE StatusChange
  <2>1. dep[w] \in Deployments /\ status[dep[w]] \in {"queued", "cancelled"}
    BY <1>22, <1>t DEF SaveRunning, Goto, ControlInv, BeginInv, InBegin
  <2>2. lock[SiteLock(dep[w])] = dep[w] /\ lock[TargetLock(dep[w])] = dep[w]
    BY <1>22, <1>t DEF SaveRunning, Goto, LockInv
  <2>3. ASSUME NEW e \in Deployments, Lifecycle!Conflict(dep[w], e), status[e] = "running"
        PROVE  FALSE
    <3>1. lock[SiteLock(e)] = e /\ lock[TargetLock(e)] = e
      BY <2>3 DEF LockInv, RunningHoldsLocks
    <3>2. SiteLock(e) = SiteLock(dep[w]) \/ TargetLock(e) = TargetLock(dep[w])
      BY <2>3 DEF Lifecycle!Conflict, SiteLock, TargetLock
    <3> QED
      BY <2>2, <2>3, <3>1, <3>2 DEF Lifecycle!Conflict
  <2>4. Sets(dep[w], "running")
    BY <1>22, <1>t DEF SaveRunning, Goto, Sets
  <2> QED
    BY <2>1, <2>3, <2>4 DEF StatusChange
<1>23. ASSUME NEW w \in Workers, BegunStopped(w) PROVE StatusChange
  BY <1>23, <1>t DEF BegunStopped, EndTask, Goto, Sets, StatusChange
<1>24. ASSUME NEW w \in Workers, TouchHeartbeat(w) PROVE StatusChange
  BY <1>24, <1>t DEF TouchHeartbeat, Goto, Sets, StatusChange
<1>25. ASSUME NEW w \in Workers, LoadSteps(w) PROVE StatusChange
  BY <1>25, <1>t DEF LoadSteps, Goto, Sets, StatusChange
<1>26. ASSUME NEW w \in Workers, PrepareRaises(w) PROVE StatusChange
  BY <1>26, <1>t DEF PrepareRaises, Goto, Fault, Sets, StatusChange
<1>27. ASSUME NEW w \in Workers, LoopStopped(w) PROVE StatusChange
  BY <1>27, <1>t DEF LoopStopped, Goto, Sets, StatusChange
<1>28. ASSUME NEW w \in Workers, LoopSkip(w) PROVE StatusChange
  BY <1>28, <1>t DEF LoopSkip, Sets, StatusChange
<1>29. ASSUME NEW w \in Workers, LoopEnter(w) PROVE StatusChange
  BY <1>29, <1>t DEF LoopEnter, Goto, Sets, StatusChange
<1>30. ASSUME NEW w \in Workers, StartStep(w) PROVE StatusChange
  BY <1>30, <1>t DEF StartStep, Goto, Sets, StatusChange
<1>31. ASSUME NEW w \in Workers, StepApplied(w) PROVE StatusChange
  BY <1>31, <1>t DEF StepApplied, Goto, Sets, StatusChange
<1>32. ASSUME NEW w \in Workers, StepRaises(w) PROVE StatusChange
  BY <1>32, <1>t DEF StepRaises, Goto, Sets, StatusChange
<1>33. ASSUME NEW w \in Workers, MarkFailed(w) PROVE StatusChange
  <2>1. dep[w] \in Deployments
    BY <1>33, <1>t DEF MarkFailed, CallRelease, Goto, ControlInv
  <2>2. status[dep[w]] # "none"
    BY <2>1 DEF BeginInv
  <2> QED
    BY <1>33, <1>t, <2>1, <2>2
       DEF MarkFailed, CallRelease, Goto, Sets, StatusChange, Terminal
<1>34. ASSUME NEW w \in Workers, StepSucceeded(w) PROVE StatusChange
  BY <1>34, <1>t DEF StepSucceeded, Goto, Sets, StatusChange
<1>35. ASSUME NEW w \in Workers, SnapshotRaises(w) PROVE StatusChange
  BY <1>35, <1>t DEF SnapshotRaises, Goto, Fault, Sets, StatusChange
<1>36. ASSUME NEW w \in Workers, LoopFinished(w) PROVE StatusChange
  BY <1>36, <1>t DEF LoopFinished, Goto, Sets, StatusChange
<1>37. ASSUME NEW w \in Workers, SaveSucceeded(w) PROVE StatusChange
  <2>1. dep[w] \in Deployments
    BY <1>37, <1>t DEF SaveSucceeded, Goto, ControlInv
  <2>2. status[dep[w]] # "none"
    BY <2>1 DEF BeginInv
  <2> QED
    BY <1>37, <1>t, <2>1, <2>2 DEF SaveSucceeded, Goto, Sets, StatusChange, Terminal
<1>38. ASSUME NEW w \in Workers, ClearStale(w) PROVE StatusChange
  BY <1>38, <1>t DEF ClearStale, Goto, Sets, StatusChange
<1>39. ASSUME NEW w \in Workers, FinallyRelease(w) PROVE StatusChange
  BY <1>39, <1>t DEF FinallyRelease, CallRelease, Goto, Sets, StatusChange
<1>40. ASSUME NEW w \in Workers, FinallyKeep(w) PROVE StatusChange
  BY <1>40, <1>t DEF FinallyKeep, EndTask, Goto, Sets, StatusChange
<1>41. ASSUME NEW p \in Sweepers, SweepList(p) PROVE StatusChange
  BY <1>41, <1>t DEF SweepList, Goto, Sets, StatusChange
<1>42. ASSUME NEW p \in Sweepers, NEW d \in Deployments, SweepRead(p, d)
       PROVE  StatusChange
  BY <1>42, <1>t DEF SweepRead, Goto, Verdict, Sets, StatusChange
<1>43. ASSUME NEW p \in Sweepers, SweepFinalize(p) PROVE StatusChange
  <2>1. dep[p] \in Deployments
    BY <1>43, <1>t
       DEF SweepFinalize, SweepClose, CallRelease, Goto, ControlInv, SweepActs
  <2>2. status[dep[p]] # "none"
    BY <2>1 DEF BeginInv
  <2> QED
    BY <1>43, <1>t, <2>1, <2>2
       DEF SweepFinalize, SweepClose, CallRelease, Goto, Sets, StatusChange,
           Terminal
<1>44. ASSUME NEW p \in Sweepers, SweepAbort(p) PROVE StatusChange
  <2>1. dep[p] \in Deployments
    BY <1>44, <1>t
       DEF SweepAbort, SweepClose, CallRelease, Goto, ControlInv, SweepActs
  <2>2. status[dep[p]] # "none"
    BY <2>1 DEF BeginInv
  <2> QED
    BY <1>44, <1>t, <2>1, <2>2
       DEF SweepAbort, SweepClose, CallRelease, Goto, Sets, StatusChange, Terminal
<1>45. ASSUME NEW p \in Sweepers, SweepSkip(p) PROVE StatusChange
  BY <1>45, <1>t DEF SweepSkip, Goto, Sets, StatusChange
<1>46. ASSUME NEW p \in Sweepers, SweepClaim(p) PROVE StatusChange
  BY <1>46, <1>t DEF SweepClaim, Goto, Sets, StatusChange
<1>47. ASSUME NEW p \in Sweepers, SweepEnqueue(p) PROVE StatusChange
  BY <1>47, <1>t DEF SweepEnqueue, Goto, Sets, StatusChange
<1>48. ASSUME NEW p \in Sweepers, SweepEnd(p) PROVE StatusChange
  BY <1>48, <1>t DEF SweepEnd, EndTask, Goto, Sets, StatusChange
<1>49. ASSUME NEW o \in Operators, NEW d \in Deployments, CancelRequest(o, d)
       PROVE  StatusChange
  BY <1>49, <1>t DEF CancelRequest, Command, Goto, Sets, StatusChange
<1>50. ASSUME NEW o \in Operators, NEW d \in Deployments, AbortRequest(o, d)
       PROVE  StatusChange
  BY <1>50, <1>t DEF AbortRequest, Command, Goto, Sets, StatusChange
<1>51. ASSUME NEW o \in Operators, CancelSave(o) PROVE StatusChange
  <2>1. dep[o] \in Deployments
    BY <1>51, <1>t DEF CancelSave, EndTask, Goto, ControlInv
  <2>2. status[dep[o]] # "none"
    BY <2>1 DEF BeginInv
  <2> QED
    BY <1>51, <1>t, <2>1, <2>2
       DEF CancelSave, EndTask, Goto, Sets, StatusChange, Terminal
<1>52. ASSUME NEW o \in Operators, AbortSave(o) PROVE StatusChange
  <2>1. dep[o] \in Deployments
    BY <1>52, <1>t DEF AbortSave, CallRelease, Goto, ControlInv
  <2>2. status[dep[o]] # "none"
    BY <2>1 DEF BeginInv
  <2> QED
    BY <1>52, <1>t, <2>1, <2>2
       DEF AbortSave, CallRelease, Goto, Sets, StatusChange, Terminal
<1>53. ASSUME NEW p \in Procs, ReleaseList(p) PROVE StatusChange
  BY <1>53, <1>t DEF ReleaseList, Goto, Sets, StatusChange
<1>54. ASSUME NEW p \in Procs, NEW r \in Resources, ReleaseRow(p, r)
       PROVE  StatusChange
  BY <1>54, <1>t DEF ReleaseRow, Sets, StatusChange
<1>55. ASSUME NEW p \in Procs, ReleaseReturn(p) PROVE StatusChange
  BY <1>55, <1>t DEF ReleaseReturn, Goto, Sets, StatusChange
<1>56. ASSUME NEW p \in Procs, ReleaseEnd(p) PROVE StatusChange
  BY <1>56, <1>t DEF ReleaseEnd, EndTask, Goto, Sets, StatusChange
<1>57. ASSUME NEW p \in Procs, Crash(p) PROVE StatusChange
  BY <1>57, <1>t DEF Crash, EndTask, Goto, Sets, StatusChange
<1>58. CASE UNCHANGED vars
  BY <1>58, <1>t DEF vars, Sets, StatusChange
<1> QED
  BY <1>1, <1>2, <1>3, <1>4, <1>5, <1>6, <1>7, <1>8, <1>9, <1>10, <1>11, <1>12,
     <1>13, <1>14, <1>15, <1>16, <1>17, <1>18, <1>19, <1>20, <1>21, <1>22, <1>23,
     <1>24, <1>25, <1>26, <1>27, <1>28, <1>29, <1>30, <1>31, <1>32, <1>33, <1>34,
     <1>35, <1>36, <1>37, <1>38, <1>39, <1>40, <1>41, <1>42, <1>43, <1>44, <1>45,
     <1>46, <1>47, <1>48, <1>49, <1>50, <1>51, <1>52, <1>53, <1>54, <1>55, <1>56,
     <1>57, <1>58
     DEF Next, Produce, WorkerStep, WorkerFails, SweeperStep, OperatorStep, Release,
         Procs

\* The initial state satisfies the inductive invariant.
LEMMA InitPipeline == Init => PipelineInv
<1> SUFFICES ASSUME Init PROVE PipelineInv
  OBVIOUS
<1> USE DeploymentsAssumption, StepsAssumption DEF Init, Procs, NoDep
<1>1. TypeOK
  BY
     DEF TypeOK, DataTypeOK, TaskTypeOK, NoCache, Status, StepStatus, Pcs, Terminal,
         Steps
<1>2. ControlInv
  BY DEF ControlInv, InStep, InRelease, WorkerPcs, SweeperPcs, OperatorPcs, SweepActs
<1>3. BeginInv
  BY DEF BeginInv, Begun, InBegin, InRun, InRelease, SweepActs
<1>4. LockInv
  BY DEF LockInv, RunningHoldsLocks, InRelease
<1>5. StepInv
  BY DEF StepInv, SuccessMeansApplied, StepsInOrder, StepCovered, InStep, NoCache,
         DoneStep
<1>6. OverrunInv
  BY DEF OverrunInv
<1> QED
  BY <1>1, <1>2, <1>3, <1>4, <1>5, <1>6 DEF PipelineInv

\* PipelineInv is inductive, and therefore an invariant of the pipeline.
THEOREM PipelineInvariant == Spec => []PipelineInv
<1>1. PipelineInv /\ [Next]_vars => PipelineInv'
  BY NextType, NextControl, NextBegin, NextLock, NextStep, NextOverrun DEF PipelineInv
<1> QED
  BY <1>1, InitPipeline, PTL DEF Spec

\* Every row, lock and local variable of the pipeline keeps its type.
THEOREM TypeCorrect == Spec => []TypeOK
<1>1. PipelineInv => TypeOK
  BY DEF PipelineInv
<1> QED
  BY <1>1, PipelineInvariant, PTL

\* However many workers, sweepers and operators there are, a RUNNING deployment
\* holds the deploy locks of its site and of its target.
THEOREM RunningHolds == Spec => []RunningHoldsLocks
<1>1. PipelineInv => RunningHoldsLocks
  BY DEF PipelineInv, LockInv
<1> QED
  BY <1>1, PipelineInvariant, PTL

\* For any number of steps, workers and sweeps: SUCCEEDED means every step was done.
THEOREM SuccessIsEarned == Spec => []SuccessMeansApplied
<1>1. PipelineInv => SuccessMeansApplied
  BY DEF PipelineInv, StepInv
<1> QED
  BY <1>1, PipelineInvariant, PTL

\* For any number of steps, workers and sweeps: no step before its predecessors.
THEOREM OrderKept == Spec => []StepsInOrder
<1>1. PipelineInv => StepsInOrder
  BY DEF PipelineInv, StepInv
<1> QED
  BY <1>1, PipelineInvariant, PTL

\* A worker starts at most one step after its deployment left RUNNING.
THEOREM OneOverrun == Spec => []AtMostOneOverrun
<1>1. PipelineInv => AtMostOneOverrun
  BY DEF PipelineInv, OverrunInv, AtMostOneOverrun
<1> QED
  BY <1>1, PipelineInvariant, PTL

\* No step of the pipeline sets a finished deployment RUNNING again.
THEOREM NotRestarted == Spec => NeverRestarted
<1>1. PipelineInv /\ [Next]_vars =>
        [\A d \in Deployments : status[d] \in Terminal \ {"cancelled"} =>
            status'[d] # "running"]_vars
  <2> SUFFICES ASSUME PipelineInv, [Next]_vars, NEW d \in Deployments,
                      status[d] \in Terminal \ {"cancelled"}
               PROVE  status'[d] # "running"
    OBVIOUS
  <2>1. StatusChange /\ status \in [Deployments -> Status]
    BY NextStatus DEF PipelineInv, TypeOK, DataTypeOK
  <2> QED
    BY <2>1 DEF StatusChange, Sets, Terminal
<1> QED
  BY <1>1, PipelineInvariant, PTL DEF Spec, NeverRestarted

\* The pipeline implements DeployLifecycle: every change of a status is a Submit, a
\* Start that conflicts with nothing RUNNING, an End or a Cancel.
THEOREM LifecycleImplemented == Spec => ImplementsLifecycle
<1> DEFINE bar == [d \in Deployments |-> PhaseOf(status[d])]
<1>1. Init => Lifecycle!Init
  BY DEF Init, Lifecycle!Init, PhaseOf, Terminal
<1>2. ASSUME PipelineInv, [Next]_vars PROVE [Lifecycle!Next]_bar
  <2>0. StatusChange /\ status \in [Deployments -> Status]
    BY <1>2, NextStatus DEF PipelineInv, TypeOK, DataTypeOK
  <2>1. ASSUME NEW d \in Deployments, NEW to \in Status, Sets(d, to)
        PROVE  bar' = [bar EXCEPT ![d] = PhaseOf(to)]
    BY <2>0, <2>1 DEF Sets
  <2>2. CASE UNCHANGED status
    BY <2>2
  <2>3. ASSUME NEW d \in Deployments, status[d] = "none", Sets(d, "queued")
        PROVE  Lifecycle!Next
    <3>1. bar' = [bar EXCEPT ![d] = "queued"] /\ bar[d] = "none"
      BY <2>1, <2>3 DEF PhaseOf, Terminal, Status
    <3> QED
      BY <3>1 DEF Lifecycle!Next, Lifecycle!Submit, Lifecycle!Move
  <2>4. ASSUME NEW d \in Deployments, NEW to \in Terminal, status[d] # "none",
               Sets(d, to)
        PROVE  [Lifecycle!Next]_bar
    <3>1. bar' = [bar EXCEPT ![d] = PhaseOf(to)] /\ PhaseOf(to) \in {"ended", "cancelled"}
      BY <2>1, <2>4 DEF PhaseOf, Terminal, Status
    <3>2. bar[d] \in {"queued", "running", "cancelled", "ended"}
      BY <2>0, <2>4 DEF PhaseOf, Terminal, Status
    <3>3. CASE bar[d] = PhaseOf(to)
      BY <3>1, <3>3
    <3>4. CASE bar[d] # PhaseOf(to)
      BY <3>1, <3>2, <3>4
         DEF Lifecycle!Next, Lifecycle!End, Lifecycle!Cancel, Lifecycle!Move
    <3> QED
      BY <3>3, <3>4
  <2>5. ASSUME NEW d \in Deployments, status[d] \in {"queued", "cancelled"},
               \A e \in Deployments : Lifecycle!Conflict(d, e) => status[e] # "running",
               Sets(d, "running")
        PROVE  Lifecycle!Next
    <3>1. bar' = [bar EXCEPT ![d] = "running"] /\ bar[d] \in {"queued", "cancelled"}
      BY <2>1, <2>5 DEF PhaseOf, Terminal, Status
    <3>2. \A e \in Deployments : Lifecycle!Conflict(d, e) => bar[e] # "running"
      BY <2>5 DEF PhaseOf, Terminal
    <3> QED
      BY <3>1, <3>2 DEF Lifecycle!Next, Lifecycle!Start, Lifecycle!Move
  <2> QED
    BY <2>0, <2>2, <2>3, <2>4, <2>5 DEF StatusChange
<1> QED
  BY <1>1, <1>2, PipelineInvariant, PTL DEF Spec, ImplementsLifecycle, Lifecycle!Spec

\* What a process can be at when it holds a lock or owes its release.
Holding == {"siteLocked", "locked", "backout", "clearStale", "finally", "release", "releasing"}

Same(q) == pc'[q] = pc[q] /\ dep'[q] = dep[q] /\ vic'[q] = vic[q] /\ rows'[q] = rows[q]

\* Nothing but a cancel or an abort sets a deployment CANCELLED.
OnlyOperatorsCancel ==
    \A d \in Deployments : status'[d] = "cancelled" => status[d] = "cancelled" \/ Operators # {}

\* The processes that hold or owe a lock stay where they are, and a deployment leaves
\* RUNNING only together with a process that now owes its locks.
HoldersStay ==
    /\ UNCHANGED <<lock, begun, crashes>>
    /\ \A q \in Procs : pc[q] \in Holding => Same(q)
    /\ \A d \in Deployments : status[d] \in {"running", "cancelled"} =>
         \/ status'[d] \in {"running", "cancelled"}
         \/ \E p \in Procs : \/ dep'[p] = d /\ pc'[p] \in {"clearStale", "finally"}
                             \/ vic'[p] = d /\ pc'[p] = "release"

\* Such a step keeps the account of the locks.
LEMMA HoldersAccount == ASSUME AccountInv, HoldersStay PROVE AccountInv'
<1> SUFFICES ASSUME crashes = 0, NEW r \in Resources, NEW d \in Deployments, lock[r] = d
             PROVE  AccountedFor(r, d)'
  BY DEF AccountInv, HoldersStay
<1>0. AccountedFor(r, d) /\ (Begun(d)' <=> Begun(d))
  BY DEF AccountInv, HoldersStay, Begun
<1>1. CASE ~Begun(d)
  <2>1. PICK w \in Workers : HeldBy(w, r, d)
    BY <1>0, <1>1 DEF AccountedFor
  <2>2. Same(w)
    BY <2>1 DEF HeldBy, HoldersStay, Holding, Procs
  <2>3. HeldBy(w, r, d)'
    BY <2>1, <2>2 DEF HeldBy, Same
  <2> QED BY <1>0, <1>1, <2>3 DEF AccountedFor
<1>2. CASE Begun(d) /\ status[d] \in {"running", "cancelled"}
  <2>1. CASE status'[d] \in {"running", "cancelled"}
    BY <1>0, <1>2, <2>1 DEF AccountedFor
  <2>2. CASE status'[d] \notin {"running", "cancelled"}
    <3>1. PICK p \in Procs : \/ dep'[p] = d /\ pc'[p] \in {"clearStale", "finally"}
                             \/ vic'[p] = d /\ pc'[p] = "release"
      BY <1>2, <2>2 DEF HoldersStay
    <3>2. OwedBy(p, r, d)'
      BY <3>1 DEF OwedBy
    <3> QED BY <1>0, <1>2, <3>2 DEF AccountedFor
  <2> QED BY <2>1, <2>2
<1>3. CASE Begun(d) /\ status[d] \notin {"running", "cancelled"}
  <2>1. PICK p \in Procs : OwedBy(p, r, d)
    BY <1>0, <1>3 DEF AccountedFor
  <2>2. Same(p)
    BY <2>1 DEF OwedBy, HoldersStay, Holding
  <2>3. OwedBy(p, r, d)'
    BY <2>1, <2>2 DEF Same, OwedBy
  <2> QED BY <1>0, <1>3, <2>3 DEF AccountedFor
<1> QED BY <1>1, <1>2, <1>3

\* A lock stays accounted for when one process moves and, if the lock was its, takes the
\* debt along.
LEMMA MoverAccounts ==
    ASSUME NEW p \in Procs, NEW r \in Resources, NEW d \in Deployments, AccountedFor(r, d),
           \A q \in Procs : q # p => Same(q),
           begun' = begun, status'[d] = status[d],
           Begun(d) /\ OwedBy(p, r, d) => status[d] = "running" \/ OwedBy(p, r, d)',
           ~Begun(d) /\ HeldBy(p, r, d) => HeldBy(p, r, d)'
    PROVE  AccountedFor(r, d)'
<1>0. Begun(d)' <=> Begun(d)
  BY DEF Begun
<1>1. CASE Begun(d) /\ status[d] \in {"running", "cancelled"}
  BY <1>0, <1>1 DEF AccountedFor
<1>2. ASSUME NEW q \in Procs, Begun(d), OwedBy(q, r, d) PROVE AccountedFor(r, d)'
  <2>1. CASE q = p
    BY <1>0, <1>2, <2>1 DEF AccountedFor
  <2>2. CASE q # p
    <3>1. OwedBy(q, r, d)'
      BY <1>2, <2>2 DEF Same, OwedBy
    <3> QED BY <1>0, <1>2, <3>1 DEF AccountedFor
  <2> QED BY <2>1, <2>2
<1>3. ASSUME NEW w \in Workers, ~Begun(d), HeldBy(w, r, d) PROVE AccountedFor(r, d)'
  <2>1. CASE w = p
    BY <1>0, <1>3, <2>1 DEF AccountedFor
  <2>2. CASE w # p
    <3>1. HeldBy(w, r, d)'
      BY <1>3, <2>2 DEF Same, HeldBy, Procs
    <3> QED BY <1>0, <1>3, <3>1 DEF AccountedFor
  <2> QED BY <2>1, <2>2
<1> QED BY <1>1, <1>2, <1>3 DEF AccountedFor

\* Every step keeps the account of the locks.
LEMMA NextAccount ==
    TypeOK /\ ControlInv /\ BeginInv /\ LockInv /\ AccountInv /\ [Next]_vars
      => AccountInv' /\ OnlyOperatorsCancel
<1> SUFFICES ASSUME TypeOK, ControlInv, BeginInv, LockInv, AccountInv, [Next]_vars
             PROVE  AccountInv' /\ OnlyOperatorsCancel
  OBVIOUS
<1> USE DeploymentsAssumption, PlacementAssumption, StepsAssumption, ProcsAssumption
         DEF Procs, NoDep, rowVars, envVars, callVars, taskVars, boundVars, markVars
<1>t. /\ pc \in [Procs -> Pcs] /\ dep \in [Procs -> Deployments \cup {NoDep}]
      /\ vic \in [Procs -> Deployments \cup {NoDep}] /\ rows \in [Procs -> SUBSET Resources]
      /\ todo \in [Procs -> SUBSET Deployments]
      /\ status \in [Deployments -> Status]
      /\ lock \in [Resources -> Deployments \cup {NoDep}] /\ crashes \in Nat
  BY DEF TypeOK, DataTypeOK, TaskTypeOK
<1>1. ASSUME NEW d \in Deployments, Enqueue(d)
      PROVE  AccountInv' /\ OnlyOperatorsCancel
  <2>1. HoldersStay /\ OnlyOperatorsCancel
    BY <1>1, <1>t DEF Enqueue, NextPk, CreateRow, producerUnchanged, HoldersStay, Holding, Same,
       OnlyOperatorsCancel
  <2> QED BY <2>1, HoldersAccount
<1>2. ASSUME NEW d \in Deployments, EnqueueLost(d)
      PROVE  AccountInv' /\ OnlyOperatorsCancel
  <2>1. HoldersStay /\ OnlyOperatorsCancel
    BY <1>2, <1>t DEF EnqueueLost, NextPk, CreateRow, producerUnchanged, Fault, HoldersStay, Holding,
       Same, OnlyOperatorsCancel
  <2> QED BY <2>1, HoldersAccount
<1>3. ASSUME NEW d \in Deployments, Park(d)
      PROVE  AccountInv' /\ OnlyOperatorsCancel
  <2>1. HoldersStay /\ OnlyOperatorsCancel
    BY <1>3, <1>t DEF Park, NextPk, CreateRow, producerUnchanged, HoldersStay, Holding, Same,
       OnlyOperatorsCancel
  <2> QED BY <2>1, HoldersAccount
<1>4. ASSUME NEW d \in Deployments, Promote(d)
      PROVE  AccountInv' /\ OnlyOperatorsCancel
  <2>1. HoldersStay /\ OnlyOperatorsCancel
    BY <1>4, <1>t DEF Promote, HoldersStay, Holding, Same, OnlyOperatorsCancel
  <2> QED BY <2>1, HoldersAccount
<1>5. ASSUME NEW d \in Deployments, ApplyEnv(d)
      PROVE  AccountInv' /\ OnlyOperatorsCancel
  <2>1. HoldersStay /\ OnlyOperatorsCancel
    BY <1>5, <1>t DEF ApplyEnv, NextPk, CreateRow, producerUnchanged, HoldersStay, Holding, Same,
       OnlyOperatorsCancel
  <2> QED BY <2>1, HoldersAccount
<1>6. ASSUME NEW d \in Deployments, NEW old \in Deployments, Retry(d, old)
      PROVE  AccountInv' /\ OnlyOperatorsCancel
  <2>1. HoldersStay /\ OnlyOperatorsCancel
    BY <1>6, <1>t DEF Retry, NextPk, CreateRow, producerUnchanged, HoldersStay, Holding, Same,
       OnlyOperatorsCancel
  <2> QED BY <2>1, HoldersAccount
<1>7. ASSUME NEW d \in Deployments, NEW old \in Deployments, NEW prev \in Deployments, Rollback(d, old,
            prev)
      PROVE  AccountInv' /\ OnlyOperatorsCancel
  <2>1. HoldersStay /\ OnlyOperatorsCancel
    BY <1>7, <1>t DEF Rollback, NextPk, CreateRow, producerUnchanged, HoldersStay, Holding, Same,
       OnlyOperatorsCancel
  <2> QED BY <2>1, HoldersAccount
<1>8. ASSUME NEW w \in Workers, NEW d \in Deployments, NEW old \in Deployments, RollbackNow(w, d, old)
      PROVE  AccountInv' /\ OnlyOperatorsCancel
  <2>1. HoldersStay /\ OnlyOperatorsCancel
    BY <1>8, <1>t DEF RollbackNow, NextPk, CreateRow, Goto, HoldersStay, Holding, Same,
       OnlyOperatorsCancel
  <2> QED BY <2>1, HoldersAccount
<1>9. ASSUME NEW s \in Sites, PutEnv(s)
      PROVE  AccountInv' /\ OnlyOperatorsCancel
  <2>1. HoldersStay /\ OnlyOperatorsCancel
    BY <1>9, <1>t DEF PutEnv, producerUnchanged, HoldersStay, Holding, Same, OnlyOperatorsCancel
  <2> QED BY <2>1, HoldersAccount
<1>10. ASSUME NEW d \in Deployments, EnvelopeExpired(d)
      PROVE  AccountInv' /\ OnlyOperatorsCancel
  <2>1. HoldersStay /\ OnlyOperatorsCancel
    BY <1>10, <1>t DEF EnvelopeExpired, Fault, HoldersStay, Holding, Same, OnlyOperatorsCancel
  <2> QED BY <2>1, HoldersAccount
<1>11. ASSUME NEW d \in Deployments, Age(d)
      PROVE  AccountInv' /\ OnlyOperatorsCancel
  <2>1. HoldersStay /\ OnlyOperatorsCancel
    BY <1>11, <1>t DEF Age, HoldersStay, Holding, Same, OnlyOperatorsCancel
  <2> QED BY <2>1, HoldersAccount
<1>12. ASSUME NEW w \in Workers, NEW d \in Deployments, TakeMessage(w, d)
      PROVE  AccountInv' /\ OnlyOperatorsCancel
  <2>1. HoldersStay /\ OnlyOperatorsCancel
    BY <1>12, <1>t DEF TakeMessage, Goto, HoldersStay, Holding, Same, OnlyOperatorsCancel
  <2> QED BY <2>1, HoldersAccount
<1>13. ASSUME NEW w \in Workers, SeamRefused(w)
      PROVE  AccountInv' /\ OnlyOperatorsCancel
  <2>1. HoldersStay /\ OnlyOperatorsCancel
    BY <1>13, <1>t DEF SeamRefused, CallRelease, Goto, HoldersStay, Holding, Same, OnlyOperatorsCancel
  <2> QED BY <2>1, HoldersAccount
<1>14. ASSUME NEW w \in Workers, NotStartable(w)
      PROVE  AccountInv' /\ OnlyOperatorsCancel
  <2>1. HoldersStay /\ OnlyOperatorsCancel
    BY <1>14, <1>t DEF NotStartable, EndTask, Goto, HoldersStay, Holding, Same, OnlyOperatorsCancel
  <2> QED BY <2>1, HoldersAccount
<1>15. ASSUME NEW w \in Workers, BeginDeploy(w)
      PROVE  AccountInv' /\ OnlyOperatorsCancel
  <2>1. HoldersStay /\ OnlyOperatorsCancel
    BY <1>15, <1>t DEF BeginDeploy, Goto, HoldersStay, Holding, Same, OnlyOperatorsCancel
  <2> QED BY <2>1, HoldersAccount
<1>16. ASSUME NEW w \in Workers, NEW d \in Deployments, SupersedeOne(w, d)
      PROVE  AccountInv' /\ OnlyOperatorsCancel
  <2>1. HoldersStay /\ OnlyOperatorsCancel
    BY <1>16, <1>t DEF SupersedeOne, CallRelease, Goto, HoldersStay, Holding, Same, OnlyOperatorsCancel
  <2> QED BY <2>1, HoldersAccount
<1>17. ASSUME NEW w \in Workers, AcquireSite(w)
      PROVE  AccountInv' /\ OnlyOperatorsCancel
  <2>1. /\ pc[w] = "supersede"
        /\ pc' = [pc EXCEPT ![w] = "siteLocked"]
        /\ dep' = dep
        /\ lock' = [lock EXCEPT ![SiteLock(dep[w])] = dep[w]]
    BY <1>17, <1>t DEF AcquireSite, Goto
  <2>2. /\ \A q \in Procs : q # w => Same(q)
        /\ UNCHANGED <<status, begun, crashes>>
    BY <1>17, <1>t DEF AcquireSite, Goto, Same
  <2>3. OnlyOperatorsCancel
    BY <2>2 DEF OnlyOperatorsCancel
  <2> SUFFICES ASSUME crashes' = 0, NEW r \in Resources, NEW d \in Deployments, lock'[r] = d
               PROVE  AccountedFor(r, d)'
    BY <2>3 DEF AccountInv
  <2> DEFINE L == SiteLock(dep[w])
  <2>4. CASE r = L
    <3>1. d = dep[w] /\ ~Begun(d)
      BY <1>t, <2>1, <2>4, LockKeys DEF BeginInv, InBegin, ControlInv
    <3>2. HeldBy(w, r, d)' /\ ~Begun(d)'
      BY <1>t, <2>1, <2>2, <2>4, <3>1 DEF HeldBy, Begun
    <3> QED BY <3>2 DEF AccountedFor
  <2>5. CASE r # L
    <3>1. lock[r] = d /\ AccountedFor(r, d)
      BY <1>t, <2>1, <2>2, <2>5 DEF AccountInv, SiteLock, TargetLock, Resources
    <3>2. Begun(d) /\ OwedBy(w, r, d) => status[d] = "running" \/ OwedBy(w, r, d)'
      BY <1>t, <2>1, <2>2, <3>1 DEF OwedBy
    <3>3. ~Begun(d) /\ HeldBy(w, r, d) => HeldBy(w, r, d)'
      BY <1>t, <2>1, <2>2, <3>1, <2>5 DEF HeldBy
    <3> QED BY <2>2, <3>1, <3>2, <3>3, MoverAccounts
  <2> QED BY <2>4, <2>5
<1>18. ASSUME NEW w \in Workers, SiteBusy(w)
      PROVE  AccountInv' /\ OnlyOperatorsCancel
  <2>1. HoldersStay /\ OnlyOperatorsCancel
    BY <1>18, <1>t DEF SiteBusy, EndTask, Goto, HoldersStay, Holding, Same, OnlyOperatorsCancel
  <2> QED BY <2>1, HoldersAccount
<1>19. ASSUME NEW w \in Workers, AcquireTarget(w)
      PROVE  AccountInv' /\ OnlyOperatorsCancel
  <2>1. /\ pc[w] = "siteLocked"
        /\ pc' = [pc EXCEPT ![w] = "locked"]
        /\ dep' = dep
        /\ lock' = [lock EXCEPT ![TargetLock(dep[w])] = dep[w]]
    BY <1>19, <1>t DEF AcquireTarget, Goto
  <2>2. /\ \A q \in Procs : q # w => Same(q)
        /\ UNCHANGED <<status, begun, crashes>>
    BY <1>19, <1>t DEF AcquireTarget, Goto, Same
  <2>3. OnlyOperatorsCancel
    BY <2>2 DEF OnlyOperatorsCancel
  <2> SUFFICES ASSUME crashes' = 0, NEW r \in Resources, NEW d \in Deployments, lock'[r] = d
               PROVE  AccountedFor(r, d)'
    BY <2>3 DEF AccountInv
  <2> DEFINE L == TargetLock(dep[w])
  <2>4. CASE r = L
    <3>1. d = dep[w] /\ ~Begun(d)
      BY <1>t, <2>1, <2>4, LockKeys DEF BeginInv, InBegin, ControlInv
    <3>2. HeldBy(w, r, d)' /\ ~Begun(d)'
      BY <1>t, <2>1, <2>2, <2>4, <3>1 DEF HeldBy, Begun
    <3> QED BY <3>2 DEF AccountedFor
  <2>5. CASE r # L
    <3>1. lock[r] = d /\ AccountedFor(r, d)
      BY <1>t, <2>1, <2>2, <2>5 DEF AccountInv, SiteLock, TargetLock, Resources
    <3>2. Begun(d) /\ OwedBy(w, r, d) => status[d] = "running" \/ OwedBy(w, r, d)'
      BY <1>t, <2>1, <2>2, <3>1 DEF OwedBy
    <3>3. ~Begun(d) /\ HeldBy(w, r, d) => HeldBy(w, r, d)'
      BY <1>t, <2>1, <2>2, <3>1, <2>5 DEF HeldBy
    <3> QED BY <2>2, <3>1, <3>2, <3>3, MoverAccounts
  <2> QED BY <2>4, <2>5
<1>20. ASSUME NEW w \in Workers, TargetBusy(w)
      PROVE  AccountInv' /\ OnlyOperatorsCancel
  <2>1. pc[w] = "siteLocked" /\ pc' = [pc EXCEPT ![w] = "backout"] /\ dep' = dep /\ lock' = lock
    BY <1>20, <1>t DEF TargetBusy, Goto
  <2>2. /\ \A q \in Procs : q # w => Same(q)
        /\ UNCHANGED <<status, begun, crashes>>
    BY <1>20, <1>t DEF TargetBusy, Goto, Same
  <2>3. OnlyOperatorsCancel
    BY <2>2 DEF OnlyOperatorsCancel
  <2> SUFFICES ASSUME crashes' = 0, NEW r \in Resources, NEW d \in Deployments, lock'[r] = d
               PROVE  AccountedFor(r, d)'
    BY <2>3 DEF AccountInv
  <2>4. lock[r] = d /\ AccountedFor(r, d)
    BY <1>t, <2>1, <2>2 DEF AccountInv, SiteLock, TargetLock, Resources
  <2>5. Begun(d) /\ OwedBy(w, r, d) => status[d] = "running" \/ OwedBy(w, r, d)'
    BY <1>t, <2>1, <2>2, <2>4 DEF OwedBy
  <2>6. ~Begun(d) /\ HeldBy(w, r, d) => HeldBy(w, r, d)'
    BY <1>t, <2>1, <2>2, <2>4 DEF HeldBy
  <2> QED BY <2>2, <2>4, <2>5, <2>6, MoverAccounts
<1>21. ASSUME NEW w \in Workers, BackOut(w)
      PROVE  AccountInv' /\ OnlyOperatorsCancel
  <2>1. /\ pc[w] = "backout"
        /\ lock' = [lock EXCEPT ![SiteLock(dep[w])] =
                     IF lock[SiteLock(dep[w])] = dep[w] THEN NoDep ELSE lock[SiteLock(dep[w])]]
    BY <1>21, <1>t DEF BackOut, EndTask, Goto
  <2>2. /\ \A q \in Procs : q # w => Same(q)
        /\ UNCHANGED <<status, begun, crashes>>
    BY <1>21, <1>t DEF BackOut, EndTask, Goto, Same
  <2>3. OnlyOperatorsCancel
    BY <2>2 DEF OnlyOperatorsCancel
  <2> SUFFICES ASSUME crashes' = 0, NEW r \in Resources, NEW d \in Deployments, lock'[r] = d
               PROVE  AccountedFor(r, d)'
    BY <2>3 DEF AccountInv
  <2>4. lock[r] = d /\ AccountedFor(r, d)
    BY <1>t, <2>1, <2>2 DEF AccountInv, SiteLock, TargetLock, Resources
  <2>5. Begun(d) /\ OwedBy(w, r, d) => status[d] = "running" \/ OwedBy(w, r, d)'
    BY <1>t, <2>1, <2>2, <2>4 DEF OwedBy
  <2>6. ~Begun(d) /\ HeldBy(w, r, d) => HeldBy(w, r, d)'
    BY <1>t, <2>1, <2>2, <2>4 DEF HeldBy
  <2> QED BY <2>2, <2>4, <2>5, <2>6, MoverAccounts
<1>22. ASSUME NEW w \in Workers, SaveRunning(w)
      PROVE  AccountInv' /\ OnlyOperatorsCancel
  <2>1. /\ pc[w] = "locked" /\ dep[w] \in Deployments /\ lock' = lock /\ crashes' = crashes
        /\ begun' = begun \cup {dep[w]} /\ status' = [status EXCEPT ![dep[w]] = "running"]
        /\ \A q \in Procs : q # w => Same(q)
    BY <1>22, <1>t DEF SaveRunning, Goto, InBegin, RunningHoldsLocks, SiteLock, TargetLock, Same,
       ControlInv
  <2>2. OnlyOperatorsCancel
    BY <1>t, <2>1 DEF OnlyOperatorsCancel
  <2> SUFFICES ASSUME crashes = 0, NEW r \in Resources, NEW d \in Deployments, lock[r] = d
               PROVE  AccountedFor(r, d)'
    BY <2>1, <2>2 DEF AccountInv
  <2>3. CASE d = dep[w]
    BY <1>t, <2>1, <2>3 DEF AccountedFor, Begun
  <2>4. CASE d # dep[w]
    <3>1. AccountedFor(r, d) /\ (Begun(d)' <=> Begun(d)) /\ status'[d] = status[d]
      BY <1>t, <2>1, <2>4 DEF AccountInv, Begun
    <3>2. ~OwedBy(w, r, d) \/ status[d] = "running"
      BY <2>1, <2>4, <1>22 DEF OwedBy
    <3>3. ~HeldBy(w, r, d)
      BY <2>4 DEF HeldBy
    <3>4. \A q \in Procs : q # w /\ OwedBy(q, r, d) => OwedBy(q, r, d)'
      BY <2>1 DEF Same, OwedBy
    <3>5. \A q \in Workers : q # w /\ HeldBy(q, r, d) => HeldBy(q, r, d)'
      BY <2>1 DEF Same, HeldBy
    <3> QED BY <3>1, <3>2, <3>3, <3>4, <3>5 DEF AccountedFor
  <2> QED BY <2>3, <2>4
<1>23. ASSUME NEW w \in Workers, BegunStopped(w)
      PROVE  AccountInv' /\ OnlyOperatorsCancel
  <2>1. HoldersStay /\ OnlyOperatorsCancel
    BY <1>23, <1>t DEF BegunStopped, EndTask, Goto, HoldersStay, Holding, Same, OnlyOperatorsCancel
  <2> QED BY <2>1, HoldersAccount
<1>24. ASSUME NEW w \in Workers, TouchHeartbeat(w)
      PROVE  AccountInv' /\ OnlyOperatorsCancel
  <2>1. HoldersStay /\ OnlyOperatorsCancel
    BY <1>24, <1>t DEF TouchHeartbeat, Goto, HoldersStay, Holding, Same, OnlyOperatorsCancel
  <2> QED BY <2>1, HoldersAccount
<1>25. ASSUME NEW w \in Workers, LoadSteps(w)
      PROVE  AccountInv' /\ OnlyOperatorsCancel
  <2>1. HoldersStay /\ OnlyOperatorsCancel
    BY <1>25, <1>t DEF LoadSteps, Goto, HoldersStay, Holding, Same, OnlyOperatorsCancel
  <2> QED BY <2>1, HoldersAccount
<1>26. ASSUME NEW w \in Workers, PrepareRaises(w)
      PROVE  AccountInv' /\ OnlyOperatorsCancel
  <2>1. HoldersStay /\ OnlyOperatorsCancel
    BY <1>26, <1>t DEF PrepareRaises, Goto, Fault, HoldersStay, Holding, Same, OnlyOperatorsCancel
  <2> QED BY <2>1, HoldersAccount
<1>27. ASSUME NEW w \in Workers, LoopStopped(w)
      PROVE  AccountInv' /\ OnlyOperatorsCancel
  <2>1. HoldersStay /\ OnlyOperatorsCancel
    BY <1>27, <1>t DEF LoopStopped, Goto, HoldersStay, Holding, Same, OnlyOperatorsCancel
  <2> QED BY <2>1, HoldersAccount
<1>28. ASSUME NEW w \in Workers, LoopSkip(w)
      PROVE  AccountInv' /\ OnlyOperatorsCancel
  <2>1. HoldersStay /\ OnlyOperatorsCancel
    BY <1>28, <1>t DEF LoopSkip, HoldersStay, Holding, Same, OnlyOperatorsCancel
  <2> QED BY <2>1, HoldersAccount
<1>29. ASSUME NEW w \in Workers, LoopEnter(w)
      PROVE  AccountInv' /\ OnlyOperatorsCancel
  <2>1. HoldersStay /\ OnlyOperatorsCancel
    BY <1>29, <1>t DEF LoopEnter, Goto, HoldersStay, Holding, Same, OnlyOperatorsCancel
  <2> QED BY <2>1, HoldersAccount
<1>30. ASSUME NEW w \in Workers, StartStep(w)
      PROVE  AccountInv' /\ OnlyOperatorsCancel
  <2>1. HoldersStay /\ OnlyOperatorsCancel
    BY <1>30, <1>t DEF StartStep, Goto, HoldersStay, Holding, Same, OnlyOperatorsCancel
  <2> QED BY <2>1, HoldersAccount
<1>31. ASSUME NEW w \in Workers, StepApplied(w)
      PROVE  AccountInv' /\ OnlyOperatorsCancel
  <2>1. HoldersStay /\ OnlyOperatorsCancel
    BY <1>31, <1>t DEF StepApplied, Goto, HoldersStay, Holding, Same, OnlyOperatorsCancel
  <2> QED BY <2>1, HoldersAccount
<1>32. ASSUME NEW w \in Workers, StepRaises(w)
      PROVE  AccountInv' /\ OnlyOperatorsCancel
  <2>1. HoldersStay /\ OnlyOperatorsCancel
    BY <1>32, <1>t DEF StepRaises, Goto, HoldersStay, Holding, Same, OnlyOperatorsCancel
  <2> QED BY <2>1, HoldersAccount
<1>33. ASSUME NEW w \in Workers, MarkFailed(w)
      PROVE  AccountInv' /\ OnlyOperatorsCancel
  <2>1. HoldersStay /\ OnlyOperatorsCancel
    BY <1>33, <1>t DEF MarkFailed, CallRelease, Goto, HoldersStay, Holding, Same, OnlyOperatorsCancel
  <2> QED BY <2>1, HoldersAccount
<1>34. ASSUME NEW w \in Workers, StepSucceeded(w)
      PROVE  AccountInv' /\ OnlyOperatorsCancel
  <2>1. HoldersStay /\ OnlyOperatorsCancel
    BY <1>34, <1>t DEF StepSucceeded, Goto, HoldersStay, Holding, Same, OnlyOperatorsCancel
  <2> QED BY <2>1, HoldersAccount
<1>35. ASSUME NEW w \in Workers, SnapshotRaises(w)
      PROVE  AccountInv' /\ OnlyOperatorsCancel
  <2>1. HoldersStay /\ OnlyOperatorsCancel
    BY <1>35, <1>t DEF SnapshotRaises, Goto, Fault, HoldersStay, Holding, Same, OnlyOperatorsCancel
  <2> QED BY <2>1, HoldersAccount
<1>36. ASSUME NEW w \in Workers, LoopFinished(w)
      PROVE  AccountInv' /\ OnlyOperatorsCancel
  <2>1. HoldersStay /\ OnlyOperatorsCancel
    BY <1>36, <1>t DEF LoopFinished, Goto, HoldersStay, Holding, Same, OnlyOperatorsCancel
  <2> QED BY <2>1, HoldersAccount
<1>37. ASSUME NEW w \in Workers, SaveSucceeded(w)
      PROVE  AccountInv' /\ OnlyOperatorsCancel
  <2>1. HoldersStay /\ OnlyOperatorsCancel
    BY <1>37, <1>t DEF SaveSucceeded, Goto, HoldersStay, Holding, Same, OnlyOperatorsCancel
  <2> QED BY <2>1, HoldersAccount
<1>38. ASSUME NEW w \in Workers, ClearStale(w)
      PROVE  AccountInv' /\ OnlyOperatorsCancel
  <2>1. pc[w] = "clearStale" /\ pc' = [pc EXCEPT ![w] = "finally"] /\ dep' = dep /\ lock' = lock
    BY <1>38, <1>t DEF ClearStale, Goto
  <2>2. /\ \A q \in Procs : q # w => Same(q)
        /\ UNCHANGED <<status, begun, crashes>>
    BY <1>38, <1>t DEF ClearStale, Goto, Same
  <2>3. OnlyOperatorsCancel
    BY <2>2 DEF OnlyOperatorsCancel
  <2> SUFFICES ASSUME crashes' = 0, NEW r \in Resources, NEW d \in Deployments, lock'[r] = d
               PROVE  AccountedFor(r, d)'
    BY <2>3 DEF AccountInv
  <2>4. lock[r] = d /\ AccountedFor(r, d)
    BY <1>t, <2>1, <2>2 DEF AccountInv, SiteLock, TargetLock, Resources
  <2>5. Begun(d) /\ OwedBy(w, r, d) => status[d] = "running" \/ OwedBy(w, r, d)'
    BY <1>t, <2>1, <2>2, <2>4 DEF OwedBy
  <2>6. ~Begun(d) /\ HeldBy(w, r, d) => HeldBy(w, r, d)'
    BY <1>t, <2>1, <2>2, <2>4 DEF HeldBy
  <2> QED BY <2>2, <2>4, <2>5, <2>6, MoverAccounts
<1>39. ASSUME NEW w \in Workers, FinallyRelease(w)
      PROVE  AccountInv' /\ OnlyOperatorsCancel
  <2>1. /\ pc[w] = "finally"
        /\ pc' = [pc EXCEPT ![w] = "release"]
        /\ vic' = [vic EXCEPT ![w] = dep[w]]
        /\ lock' = lock
    BY <1>39, <1>t DEF FinallyRelease, CallRelease, Goto
  <2>2. /\ \A q \in Procs : q # w => Same(q)
        /\ UNCHANGED <<status, begun, crashes>>
    BY <1>39, <1>t DEF FinallyRelease, CallRelease, Goto, Same
  <2>3. OnlyOperatorsCancel
    BY <2>2 DEF OnlyOperatorsCancel
  <2> SUFFICES ASSUME crashes' = 0, NEW r \in Resources, NEW d \in Deployments, lock'[r] = d
               PROVE  AccountedFor(r, d)'
    BY <2>3 DEF AccountInv
  <2>4. lock[r] = d /\ AccountedFor(r, d)
    BY <1>t, <2>1, <2>2 DEF AccountInv, SiteLock, TargetLock, Resources
  <2>5. Begun(d) /\ OwedBy(w, r, d) => status[d] = "running" \/ OwedBy(w, r, d)'
    BY <1>t, <2>1, <2>2, <2>4 DEF OwedBy
  <2>6. ~Begun(d) /\ HeldBy(w, r, d) => HeldBy(w, r, d)'
    BY <1>t, <2>1, <2>2, <2>4 DEF HeldBy
  <2> QED BY <2>2, <2>4, <2>5, <2>6, MoverAccounts
<1>40. ASSUME NEW w \in Workers, FinallyKeep(w)
      PROVE  AccountInv' /\ OnlyOperatorsCancel
  <2>1. pc[w] = "finally" /\ status[dep[w]] \notin Terminal /\ lock' = lock
    BY <1>40, <1>t DEF FinallyKeep, EndTask, Goto
  <2>2. /\ \A q \in Procs : q # w => Same(q)
        /\ UNCHANGED <<status, begun, crashes>>
    BY <1>40, <1>t DEF FinallyKeep, EndTask, Goto, Same
  <2>3. OnlyOperatorsCancel
    BY <2>2 DEF OnlyOperatorsCancel
  <2> SUFFICES ASSUME crashes' = 0, NEW r \in Resources, NEW d \in Deployments, lock'[r] = d
               PROVE  AccountedFor(r, d)'
    BY <2>3 DEF AccountInv
  <2>4. lock[r] = d /\ AccountedFor(r, d)
    BY <1>t, <2>1, <2>2 DEF AccountInv, SiteLock, TargetLock, Resources
  <2>5. Begun(d) /\ OwedBy(w, r, d) => status[d] = "running" \/ OwedBy(w, r, d)'
    BY <1>t, <2>1, <2>2, <2>4 DEF OwedBy, BeginInv, Terminal, Status
  <2>6. ~Begun(d) /\ HeldBy(w, r, d) => HeldBy(w, r, d)'
    BY <1>t, <2>1, <2>2, <2>4 DEF HeldBy
  <2> QED BY <2>2, <2>4, <2>5, <2>6, MoverAccounts
<1>41. ASSUME NEW p \in Sweepers, SweepList(p)
      PROVE  AccountInv' /\ OnlyOperatorsCancel
  <2>1. HoldersStay /\ OnlyOperatorsCancel
    BY <1>41, <1>t DEF SweepList, Goto, HoldersStay, Holding, Same, OnlyOperatorsCancel
  <2> QED BY <2>1, HoldersAccount
<1>42. ASSUME NEW p \in Sweepers, NEW d \in Deployments, SweepRead(p, d)
      PROVE  AccountInv' /\ OnlyOperatorsCancel
  <2>1. HoldersStay /\ OnlyOperatorsCancel
    BY <1>42, <1>t DEF SweepRead, Goto, Verdict, HoldersStay, Holding, Same, OnlyOperatorsCancel
  <2> QED BY <2>1, HoldersAccount
<1>43. ASSUME NEW p \in Sweepers, SweepFinalize(p)
      PROVE  AccountInv' /\ OnlyOperatorsCancel
  <2>1. HoldersStay /\ OnlyOperatorsCancel
    BY <1>43, <1>t DEF SweepFinalize, SweepClose, CallRelease, Goto, SweepActs, HoldersStay, Holding,
       Same, OnlyOperatorsCancel
  <2> QED BY <2>1, HoldersAccount
<1>44. ASSUME NEW p \in Sweepers, SweepAbort(p)
      PROVE  AccountInv' /\ OnlyOperatorsCancel
  <2>1. HoldersStay /\ OnlyOperatorsCancel
    BY <1>44, <1>t DEF SweepAbort, SweepClose, CallRelease, Goto, SweepActs, HoldersStay, Holding,
       Same, OnlyOperatorsCancel
  <2> QED BY <2>1, HoldersAccount
<1>45. ASSUME NEW p \in Sweepers, SweepSkip(p)
      PROVE  AccountInv' /\ OnlyOperatorsCancel
  <2>1. HoldersStay /\ OnlyOperatorsCancel
    BY <1>45, <1>t DEF SweepSkip, Goto, HoldersStay, Holding, Same, OnlyOperatorsCancel
  <2> QED BY <2>1, HoldersAccount
<1>46. ASSUME NEW p \in Sweepers, SweepClaim(p)
      PROVE  AccountInv' /\ OnlyOperatorsCancel
  <2>1. HoldersStay /\ OnlyOperatorsCancel
    BY <1>46, <1>t DEF SweepClaim, Goto, HoldersStay, Holding, Same, OnlyOperatorsCancel
  <2> QED BY <2>1, HoldersAccount
<1>47. ASSUME NEW p \in Sweepers, SweepEnqueue(p)
      PROVE  AccountInv' /\ OnlyOperatorsCancel
  <2>1. HoldersStay /\ OnlyOperatorsCancel
    BY <1>47, <1>t DEF SweepEnqueue, Goto, HoldersStay, Holding, Same, OnlyOperatorsCancel
  <2> QED BY <2>1, HoldersAccount
<1>48. ASSUME NEW p \in Sweepers, SweepEnd(p)
      PROVE  AccountInv' /\ OnlyOperatorsCancel
  <2>1. HoldersStay /\ OnlyOperatorsCancel
    BY <1>48, <1>t DEF SweepEnd, EndTask, Goto, HoldersStay, Holding, Same, OnlyOperatorsCancel
  <2> QED BY <2>1, HoldersAccount
<1>49. ASSUME NEW o \in Operators, NEW d \in Deployments, CancelRequest(o, d)
      PROVE  AccountInv' /\ OnlyOperatorsCancel
  <2>1. HoldersStay /\ OnlyOperatorsCancel
    BY <1>49, <1>t DEF CancelRequest, Command, Goto, HoldersStay, Holding, Same, OnlyOperatorsCancel
  <2> QED BY <2>1, HoldersAccount
<1>50. ASSUME NEW o \in Operators, NEW d \in Deployments, AbortRequest(o, d)
      PROVE  AccountInv' /\ OnlyOperatorsCancel
  <2>1. HoldersStay /\ OnlyOperatorsCancel
    BY <1>50, <1>t DEF AbortRequest, Command, Goto, HoldersStay, Holding, Same, OnlyOperatorsCancel
  <2> QED BY <2>1, HoldersAccount
<1>51. ASSUME NEW o \in Operators, CancelSave(o)
      PROVE  AccountInv' /\ OnlyOperatorsCancel
  <2>1. HoldersStay /\ OnlyOperatorsCancel
    BY <1>51, <1>t DEF CancelSave, EndTask, Goto, HoldersStay, Holding, Same, OnlyOperatorsCancel
  <2> QED BY <2>1, HoldersAccount
<1>52. ASSUME NEW o \in Operators, AbortSave(o)
      PROVE  AccountInv' /\ OnlyOperatorsCancel
  <2>1. HoldersStay /\ OnlyOperatorsCancel
    BY <1>52, <1>t DEF AbortSave, CallRelease, Goto, HoldersStay, Holding, Same, OnlyOperatorsCancel
  <2> QED BY <2>1, HoldersAccount
<1>53. ASSUME NEW p \in Procs, ReleaseList(p)
      PROVE  AccountInv' /\ OnlyOperatorsCancel
  <2>1. /\ pc[p] = "release"
        /\ pc' = [pc EXCEPT ![p] = "releasing"]
        /\ vic' = vic
        /\ rows' = [rows EXCEPT ![p] = {x \in Resources : lock[x] = vic[p]}]
        /\ lock' = lock
    BY <1>53, <1>t DEF ReleaseList, Goto
  <2>2. /\ \A q \in Procs : q # p => Same(q)
        /\ UNCHANGED <<status, begun, crashes>>
    BY <1>53, <1>t DEF ReleaseList, Goto, Same
  <2>3. OnlyOperatorsCancel
    BY <2>2 DEF OnlyOperatorsCancel
  <2> SUFFICES ASSUME crashes' = 0, NEW r \in Resources, NEW d \in Deployments, lock'[r] = d
               PROVE  AccountedFor(r, d)'
    BY <2>3 DEF AccountInv
  <2>4. lock[r] = d /\ AccountedFor(r, d)
    BY <1>t, <2>1, <2>2 DEF AccountInv, SiteLock, TargetLock, Resources
  <2>5. Begun(d) /\ OwedBy(p, r, d) => status[d] = "running" \/ OwedBy(p, r, d)'
    BY <1>t, <2>1, <2>2, <2>4 DEF OwedBy
  <2>6. ~Begun(d) /\ HeldBy(p, r, d) => HeldBy(p, r, d)'
    BY <1>t, <2>1, <2>2, <2>4 DEF HeldBy
  <2> QED BY <2>2, <2>4, <2>5, <2>6, MoverAccounts
<1>54. ASSUME NEW p \in Procs, NEW x \in Resources, ReleaseRow(p, x)
      PROVE  AccountInv' /\ OnlyOperatorsCancel
  <2>1. /\ pc[p] = "releasing"
        /\ pc' = pc
        /\ vic' = vic
        /\ rows' = [rows EXCEPT ![p] = rows[p] \ {x}]
        /\ lock' = [lock EXCEPT ![x] = IF lock[x] = vic[p] THEN NoDep ELSE lock[x]]
        /\ x \in Resources
    BY <1>54, <1>t DEF ReleaseRow
  <2>2. /\ \A q \in Procs : q # p => Same(q)
        /\ UNCHANGED <<status, begun, crashes>>
    BY <1>54, <1>t DEF ReleaseRow, Same
  <2>3. OnlyOperatorsCancel
    BY <2>2 DEF OnlyOperatorsCancel
  <2> SUFFICES ASSUME crashes' = 0, NEW r \in Resources, NEW d \in Deployments, lock'[r] = d
               PROVE  AccountedFor(r, d)'
    BY <2>3 DEF AccountInv
  <2>4. lock[r] = d /\ AccountedFor(r, d)
    BY <1>t, <2>1, <2>2 DEF AccountInv, SiteLock, TargetLock, Resources
  <2>5. Begun(d) /\ OwedBy(p, r, d) => status[d] = "running" \/ OwedBy(p, r, d)'
    BY <1>t, <2>1, <2>2, <2>4 DEF OwedBy
  <2>6. ~Begun(d) /\ HeldBy(p, r, d) => HeldBy(p, r, d)'
    BY <1>t, <2>1, <2>2, <2>4 DEF HeldBy
  <2> QED BY <2>2, <2>4, <2>5, <2>6, MoverAccounts
<1>55. ASSUME NEW p \in Procs, ReleaseReturn(p)
      PROVE  AccountInv' /\ OnlyOperatorsCancel
  <2>1. pc[p] = "releasing" /\ rows[p] = {} /\ lock' = lock
    BY <1>55, <1>t DEF ReleaseReturn, Goto
  <2>2. /\ \A q \in Procs : q # p => Same(q)
        /\ UNCHANGED <<status, begun, crashes>>
    BY <1>55, <1>t DEF ReleaseReturn, Goto, Same
  <2>3. OnlyOperatorsCancel
    BY <2>2 DEF OnlyOperatorsCancel
  <2> SUFFICES ASSUME crashes' = 0, NEW r \in Resources, NEW d \in Deployments, lock'[r] = d
               PROVE  AccountedFor(r, d)'
    BY <2>3 DEF AccountInv
  <2>4. lock[r] = d /\ AccountedFor(r, d)
    BY <1>t, <2>1, <2>2 DEF AccountInv, SiteLock, TargetLock, Resources
  <2>5. Begun(d) /\ OwedBy(p, r, d) => status[d] = "running" \/ OwedBy(p, r, d)'
    BY <1>t, <2>1, <2>2, <2>4 DEF OwedBy
  <2>6. ~Begun(d) /\ HeldBy(p, r, d) => HeldBy(p, r, d)'
    BY <1>t, <2>1, <2>2, <2>4 DEF HeldBy
  <2> QED BY <2>2, <2>4, <2>5, <2>6, MoverAccounts
<1>56. ASSUME NEW p \in Procs, ReleaseEnd(p)
      PROVE  AccountInv' /\ OnlyOperatorsCancel
  <2>1. pc[p] = "releasing" /\ rows[p] = {} /\ lock' = lock
    BY <1>56, <1>t DEF ReleaseEnd, EndTask, Goto
  <2>2. /\ \A q \in Procs : q # p => Same(q)
        /\ UNCHANGED <<status, begun, crashes>>
    BY <1>56, <1>t DEF ReleaseEnd, EndTask, Goto, Same
  <2>3. OnlyOperatorsCancel
    BY <2>2 DEF OnlyOperatorsCancel
  <2> SUFFICES ASSUME crashes' = 0, NEW r \in Resources, NEW d \in Deployments, lock'[r] = d
               PROVE  AccountedFor(r, d)'
    BY <2>3 DEF AccountInv
  <2>4. lock[r] = d /\ AccountedFor(r, d)
    BY <1>t, <2>1, <2>2 DEF AccountInv, SiteLock, TargetLock, Resources
  <2>5. Begun(d) /\ OwedBy(p, r, d) => status[d] = "running" \/ OwedBy(p, r, d)'
    BY <1>t, <2>1, <2>2, <2>4 DEF OwedBy
  <2>6. ~Begun(d) /\ HeldBy(p, r, d) => HeldBy(p, r, d)'
    BY <1>t, <2>1, <2>2, <2>4 DEF HeldBy
  <2> QED BY <2>2, <2>4, <2>5, <2>6, MoverAccounts
<1>57. ASSUME NEW p \in Procs, Crash(p)
      PROVE  AccountInv' /\ OnlyOperatorsCancel
  <2>1. crashes' = crashes + 1 /\ status' = status
    BY <1>57 DEF Crash, EndTask, Goto
  <2> QED BY <1>t, <2>1 DEF AccountInv, OnlyOperatorsCancel
<1>58. CASE UNCHANGED vars
  <2>1. HoldersStay /\ OnlyOperatorsCancel
    BY <1>58 DEF vars, HoldersStay, Same, OnlyOperatorsCancel
  <2> QED BY <2>1, HoldersAccount
<1> QED
  BY <1>1, <1>2, <1>3, <1>4, <1>5, <1>6, <1>7, <1>8, <1>9, <1>10, <1>11, <1>12,
     <1>13, <1>14, <1>15, <1>16, <1>17, <1>18, <1>19, <1>20, <1>21, <1>22, <1>23,
     <1>24, <1>25, <1>26, <1>27, <1>28, <1>29, <1>30, <1>31, <1>32, <1>33, <1>34,
     <1>35, <1>36, <1>37, <1>38, <1>39, <1>40, <1>41, <1>42, <1>43, <1>44, <1>45,
     <1>46, <1>47, <1>48, <1>49, <1>50, <1>51, <1>52, <1>53, <1>54, <1>55, <1>56,
     <1>57, <1>58
     DEF Next, Produce, WorkerStep, WorkerFails, SweeperStep, OperatorStep, Release,
         Procs

\* Until a process is killed, a lock whose deployment has begun and is neither RUNNING nor
\* on some process's way to a release belongs to a CANCELLED one (deploys/pipeline.py).
THEOREM OnlyCancelLeaks == Spec => []AccountInv
<1>1. Init => AccountInv
  BY DeploymentsAssumption DEF Init, AccountInv, NoDep
<1>2. PipelineInv /\ AccountInv /\ [Next]_vars => AccountInv'
  BY NextAccount DEF PipelineInv
<1> QED BY <1>1, <1>2, PipelineInvariant, PTL DEF Spec

\* Without a kill and without a cancel or an abort, for any sites, targets, deployments,
\* workers, sweeps and faults, no deploy lock is leaked (deploys/pipeline.py, heartbeat.py);
\* with a cancel one may be, as cancel_leaks_lock shows.
THEOREM NoLockLeaks == ASSUME Operators = {} PROVE Spec => []LocksAccounted
<1> DEFINE NoCancel == \A d \in Deployments : status[d] # "cancelled"
<1>1. Init => NoCancel
  BY DEF Init
<1>2. PipelineInv /\ AccountInv /\ NoCancel /\ [Next]_vars => NoCancel'
  BY NextAccount DEF PipelineInv, OnlyOperatorsCancel
<1>3. PipelineInv /\ AccountInv /\ NoCancel => LocksAccounted
  <2> SUFFICES ASSUME PipelineInv, AccountInv, NoCancel,
                      crashes = 0, NEW r \in Resources, lock[r] # NoDep
               PROVE  \/ status[lock[r]] = "running"
                      \/ \E p \in Procs : Releasing(p, r, lock[r])
    BY DEF LocksAccounted
  <2>1. lock[r] \in Deployments
    BY DEF PipelineInv, TypeOK, DataTypeOK
  <2>2. CASE Begun(lock[r])
    BY <2>1, <2>2 DEF AccountInv, AccountedFor, OwedBy, Releasing
  <2>3. CASE ~Begun(lock[r])
    BY <2>1, <2>3 DEF AccountInv, AccountedFor, HeldBy, Releasing, Procs
  <2> QED BY <2>2, <2>3
<1>4. Spec => []PipelineInv
  BY PipelineInvariant
<1> HIDE DEF NoCancel
<1> QED BY <1>1, <1>2, <1>3, <1>4, OnlyCancelLeaks, PTL DEF Spec
=============================================================================
