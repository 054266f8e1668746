---------------------------- MODULE FleetProofs -----------------------------
(***************************************************************************)
(* Proofs about the fleet, for the composition of MCFleet, in which one    *)
(* component moves at a time: the rotation of SSH keys, the wizard, the    *)
(* backups with the vault of their keys, and the adoption of a running     *)
(* stack with its plan.  With MachineProofs, the types of all components.  *)
(***************************************************************************)
EXTENDS MachineProofs

---------------------------------------------------------------------------
(* The rotation of SSH keys *)

\* Every step of a rotation keeps the types and what a run that is alone relies on.
LEMMA RotationNext ==
    /\ SshKeys!TypeOK /\ SshKeys!Counted /\ SshKeys!NoOrphanLine /\ SshKeys!SomeKeyOpens
    /\ SshKeys!AloneInv /\ [SshKeys!Next]_sshKeysState
    => /\ SshKeys!TypeOK' /\ SshKeys!Counted' /\ SshKeys!NoOrphanLine' /\ SshKeys!SomeKeyOpens'
       /\ SshKeys!AloneInv'
<1> SUFFICES ASSUME SshKeys!TypeOK, SshKeys!Counted, SshKeys!NoOrphanLine,
        SshKeys!SomeKeyOpens, SshKeys!AloneInv, [SshKeys!Next]_sshKeysState
             PROVE  /\ SshKeys!TypeOK' /\ SshKeys!Counted' /\ SshKeys!NoOrphanLine'
                    /\ SshKeys!SomeKeyOpens' /\ SshKeys!AloneInv'
  OBVIOUS
<1> USE RotationBounds
<1>1. ASSUME SshKeys!QuarterPasses
      PROVE  /\ SshKeys!TypeOK' /\ SshKeys!Counted' /\ SshKeys!NoOrphanLine'
             /\ SshKeys!SomeKeyOpens' /\ SshKeys!AloneInv'
  <2>1. /\ UNCHANGED <<rotation, keyRef, keyVault, authKeys, keysMade, tornPuts, together>>
    BY <1>1, Zenon DEF SshKeys!QuarterPasses, SshKeys!budget
  <2>2. SshKeys!TypeOK'
    BY <2>1 DEF SshKeys!TypeOK, SshKeys!HubKeys, SshKeys!Places, SshKeys!NotRotating,
       SshKeys!Run, SshKeys!Counted
  <2>3. SshKeys!Counted'
    BY <2>1, <2>2 DEF SshKeys!TypeOK, SshKeys!HubKeys, SshKeys!Places, SshKeys!NotRotating,
       SshKeys!Run, SshKeys!Counted
  <2>4. SshKeys!NoOrphanLine'
    BY <2>1, <2>2 DEF SshKeys!TypeOK, SshKeys!HubKeys, SshKeys!Places, SshKeys!NotRotating,
       SshKeys!Run, SshKeys!Counted, SshKeys!AloneInv, SshKeys!Alone, SshKeys!At,
       SshKeys!Opens, SshKeys!NoOrphanLine, SshKeys!SomeKeyOpens
  <2>5. SshKeys!SomeKeyOpens'
    BY <2>1, <2>2 DEF SshKeys!TypeOK, SshKeys!HubKeys, SshKeys!Places, SshKeys!NotRotating,
       SshKeys!Run, SshKeys!Counted, SshKeys!AloneInv, SshKeys!Alone, SshKeys!At,
       SshKeys!Opens, SshKeys!NoOrphanLine, SshKeys!SomeKeyOpens
  <2>6. SshKeys!AloneInv'
    BY <2>1, <2>2 DEF SshKeys!TypeOK, SshKeys!HubKeys, SshKeys!Places, SshKeys!NotRotating,
       SshKeys!Run, SshKeys!Counted, SshKeys!AloneInv, SshKeys!Alone, SshKeys!At,
       SshKeys!Opens, SshKeys!NoOrphanLine, SshKeys!SomeKeyOpens
  <2> QED BY <2>2, <2>3, <2>4, <2>5, <2>6
<1>2. ASSUME NEW w \in Rotators, SshKeys!Sweep(w)
      PROVE  /\ SshKeys!TypeOK' /\ SshKeys!Counted' /\ SshKeys!NoOrphanLine'
             /\ SshKeys!SomeKeyOpens' /\ SshKeys!AloneInv'
  <2>1. /\ rotation[w].at = "idle"
        /\ rotation' = [rotation EXCEPT ![w] = [at |-> "inspect", force |-> FALSE,
            ref |-> keyRef, text |-> {}, current |-> keyRef, new |-> keyRef]]
        /\ together' = (together \/ \E v \in Rotators \ {w} : rotation[v].at # "idle")
        /\ UNCHANGED <<keyRef, keyVault, authKeys, keysMade, tornPuts>>
    BY <1>2, Zenon DEF SshKeys!Sweep, SshKeys!StartRotation, SshKeys!At, SshKeys!To
  <2>a. ~together' => ~together /\ \A v \in Rotators : v # w => rotation[v].at = "idle"
    BY <2>1, Zenon
  <2>2. SshKeys!TypeOK'
    BY <2>1, <2>a DEF SshKeys!TypeOK, SshKeys!HubKeys, SshKeys!Places, SshKeys!NotRotating,
       SshKeys!Run, SshKeys!Counted
  <2>3. SshKeys!Counted'
    BY <2>1, <2>a, <2>2 DEF SshKeys!TypeOK, SshKeys!HubKeys, SshKeys!Places,
       SshKeys!NotRotating, SshKeys!Run, SshKeys!Counted
  <2>4. SshKeys!NoOrphanLine'
    BY <2>1, <2>a, <2>2 DEF SshKeys!TypeOK, SshKeys!HubKeys, SshKeys!Places,
       SshKeys!NotRotating, SshKeys!Run, SshKeys!Counted, SshKeys!AloneInv, SshKeys!Alone,
       SshKeys!At, SshKeys!Opens, SshKeys!NoOrphanLine, SshKeys!SomeKeyOpens
  <2>5. SshKeys!SomeKeyOpens'
    BY <2>1, <2>a, <2>2 DEF SshKeys!TypeOK, SshKeys!HubKeys, SshKeys!Places,
       SshKeys!NotRotating, SshKeys!Run, SshKeys!Counted, SshKeys!AloneInv, SshKeys!Alone,
       SshKeys!At, SshKeys!Opens, SshKeys!NoOrphanLine, SshKeys!SomeKeyOpens
  <2>6. SshKeys!AloneInv'
    BY <2>1, <2>a, <2>2 DEF SshKeys!TypeOK, SshKeys!HubKeys, SshKeys!Places,
       SshKeys!NotRotating, SshKeys!Run, SshKeys!Counted, SshKeys!AloneInv, SshKeys!Alone,
       SshKeys!At, SshKeys!Opens, SshKeys!NoOrphanLine, SshKeys!SomeKeyOpens
  <2> QED BY <2>2, <2>3, <2>4, <2>5, <2>6
<1>3. ASSUME NEW w \in Rotators, SshKeys!Request(w)
      PROVE  /\ SshKeys!TypeOK' /\ SshKeys!Counted' /\ SshKeys!NoOrphanLine'
             /\ SshKeys!SomeKeyOpens' /\ SshKeys!AloneInv'
  <2>1. /\ rotation[w].at = "idle"
        /\ rotation' = [rotation EXCEPT ![w] = [at |-> "inspect", force |-> TRUE,
            ref |-> keyRef, text |-> {}, current |-> keyRef, new |-> keyRef]]
        /\ together' = (together \/ \E v \in Rotators \ {w} : rotation[v].at # "idle")
        /\ UNCHANGED <<keyRef, keyVault, authKeys, keysMade, tornPuts>>
    BY <1>3, Zenon DEF SshKeys!Request, SshKeys!StartRotation, SshKeys!At, SshKeys!To
  <2>a. ~together' => ~together /\ \A v \in Rotators : v # w => rotation[v].at = "idle"
    BY <2>1, Zenon
  <2>2. SshKeys!TypeOK'
    BY <2>1, <2>a DEF SshKeys!TypeOK, SshKeys!HubKeys, SshKeys!Places, SshKeys!NotRotating,
       SshKeys!Run, SshKeys!Counted
  <2>3. SshKeys!Counted'
    BY <2>1, <2>a, <2>2 DEF SshKeys!TypeOK, SshKeys!HubKeys, SshKeys!Places,
       SshKeys!NotRotating, SshKeys!Run, SshKeys!Counted
  <2>4. SshKeys!NoOrphanLine'
    BY <2>1, <2>a, <2>2 DEF SshKeys!TypeOK, SshKeys!HubKeys, SshKeys!Places,
       SshKeys!NotRotating, SshKeys!Run, SshKeys!Counted, SshKeys!AloneInv, SshKeys!Alone,
       SshKeys!At, SshKeys!Opens, SshKeys!NoOrphanLine, SshKeys!SomeKeyOpens
  <2>5. SshKeys!SomeKeyOpens'
    BY <2>1, <2>a, <2>2 DEF SshKeys!TypeOK, SshKeys!HubKeys, SshKeys!Places,
       SshKeys!NotRotating, SshKeys!Run, SshKeys!Counted, SshKeys!AloneInv, SshKeys!Alone,
       SshKeys!At, SshKeys!Opens, SshKeys!NoOrphanLine, SshKeys!SomeKeyOpens
  <2>6. SshKeys!AloneInv'
    BY <2>1, <2>a, <2>2 DEF SshKeys!TypeOK, SshKeys!HubKeys, SshKeys!Places,
       SshKeys!NotRotating, SshKeys!Run, SshKeys!Counted, SshKeys!AloneInv, SshKeys!Alone,
       SshKeys!At, SshKeys!Opens, SshKeys!NoOrphanLine, SshKeys!SomeKeyOpens
  <2> QED BY <2>2, <2>3, <2>4, <2>5, <2>6
<1>4. ASSUME NEW w \in Rotators, SshKeys!Inspect(w)
      PROVE  /\ SshKeys!TypeOK' /\ SshKeys!Counted' /\ SshKeys!NoOrphanLine'
             /\ SshKeys!SomeKeyOpens' /\ SshKeys!AloneInv'
  <2>1. CASE rotation' # [rotation EXCEPT ![w] = [at |-> "idle"]]
    <3>1. /\ rotation[w].at = "inspect"
          /\ rotation[w].ref \in keyVault /\ rotation[w].ref \in authKeys
          /\ rotation' = [rotation EXCEPT ![w] = [rotation[w] EXCEPT !.at = "choose",
              !.text = authKeys]]
          /\ UNCHANGED <<keyRef, keyVault, authKeys, keysMade, tornPuts, together>>
      BY <1>4, <2>1, Zenon DEF SshKeys!Inspect, SshKeys!At, SshKeys!To, SshKeys!Done,
         SshKeys!NotRotating, SshKeys!Opens, SshKeys!HostFails, SshKeys!budget
    <3>a. rotation[w] \in SshKeys!Run
      BY <3>1, <2>1 DEF SshKeys!TypeOK, SshKeys!NotRotating
    <3>b. [rotation[w] EXCEPT !.at = "choose", !.text = authKeys] \in SshKeys!Run
      BY <3>1, <2>1, <3>a DEF SshKeys!Run, SshKeys!Places, SshKeys!HubKeys, SshKeys!TypeOK,
         SshKeys!Counted
    <3>c. rotation[w].text \subseteq SshKeys!HubKeys /\ rotation[w].new \in SshKeys!HubKeys
      BY <3>a DEF SshKeys!Run
    <3>2. SshKeys!TypeOK'
      BY <3>1, <2>1, <3>a, <3>b, <3>c DEF SshKeys!TypeOK, SshKeys!NotRotating
    <3>3. SshKeys!Counted'
      BY <3>1, <2>1, <3>a, <3>b, <3>c, <3>2 DEF SshKeys!TypeOK, SshKeys!HubKeys,
         SshKeys!Places, SshKeys!NotRotating, SshKeys!Run, SshKeys!Counted
    <3>4. SshKeys!NoOrphanLine'
      BY <3>1, <2>1, <3>a, <3>b, <3>c, <3>2 DEF SshKeys!TypeOK, SshKeys!HubKeys,
         SshKeys!Places, SshKeys!NotRotating, SshKeys!Run, SshKeys!Counted, SshKeys!AloneInv,
         SshKeys!Alone, SshKeys!At, SshKeys!Opens, SshKeys!NoOrphanLine, SshKeys!SomeKeyOpens
    <3>5. SshKeys!SomeKeyOpens'
      BY <3>1, <2>1, <3>a, <3>b, <3>c, <3>2 DEF SshKeys!TypeOK, SshKeys!HubKeys,
         SshKeys!Places, SshKeys!NotRotating, SshKeys!Run, SshKeys!Counted, SshKeys!AloneInv,
         SshKeys!Alone, SshKeys!At, SshKeys!Opens, SshKeys!NoOrphanLine, SshKeys!SomeKeyOpens
    <3>6. SshKeys!AloneInv'
      BY <3>1, <2>1, <3>a, <3>b, <3>c, <3>2 DEF SshKeys!TypeOK, SshKeys!HubKeys,
         SshKeys!Places, SshKeys!NotRotating, SshKeys!Run, SshKeys!Counted, SshKeys!AloneInv,
         SshKeys!Alone, SshKeys!At, SshKeys!Opens, SshKeys!NoOrphanLine, SshKeys!SomeKeyOpens
    <3> QED BY <3>2, <3>3, <3>4, <3>5, <3>6
  <2>2. CASE rotation' = [rotation EXCEPT ![w] = [at |-> "idle"]]
    <3>1. /\ rotation[w].at = "inspect"
          /\ UNCHANGED <<keyRef, keyVault, authKeys, keysMade, tornPuts, together>>
      BY <1>4, <2>2, Zenon DEF SshKeys!Inspect, SshKeys!At, SshKeys!To, SshKeys!Done,
         SshKeys!NotRotating, SshKeys!Opens, SshKeys!HostFails, SshKeys!budget
    <3>2. SshKeys!TypeOK'
      BY <3>1, <2>2 DEF SshKeys!TypeOK, SshKeys!HubKeys, SshKeys!Places, SshKeys!NotRotating,
         SshKeys!Run, SshKeys!Counted
    <3>3. SshKeys!Counted'
      BY <3>1, <2>2, <3>2 DEF SshKeys!TypeOK, SshKeys!HubKeys, SshKeys!Places,
         SshKeys!NotRotating, SshKeys!Run, SshKeys!Counted
    <3>4. SshKeys!NoOrphanLine'
      BY <3>1, <2>2, <3>2 DEF SshKeys!TypeOK, SshKeys!HubKeys, SshKeys!Places,
         SshKeys!NotRotating, SshKeys!Run, SshKeys!Counted, SshKeys!AloneInv, SshKeys!Alone,
         SshKeys!At, SshKeys!Opens, SshKeys!NoOrphanLine, SshKeys!SomeKeyOpens
    <3>5. SshKeys!SomeKeyOpens'
      BY <3>1, <2>2, <3>2 DEF SshKeys!TypeOK, SshKeys!HubKeys, SshKeys!Places,
         SshKeys!NotRotating, SshKeys!Run, SshKeys!Counted, SshKeys!AloneInv, SshKeys!Alone,
         SshKeys!At, SshKeys!Opens, SshKeys!NoOrphanLine, SshKeys!SomeKeyOpens
    <3>6. SshKeys!AloneInv'
      BY <3>1, <2>2, <3>2 DEF SshKeys!TypeOK, SshKeys!HubKeys, SshKeys!Places,
         SshKeys!NotRotating, SshKeys!Run, SshKeys!Counted, SshKeys!AloneInv, SshKeys!Alone,
         SshKeys!At, SshKeys!Opens, SshKeys!NoOrphanLine, SshKeys!SomeKeyOpens
    <3> QED BY <3>2, <3>3, <3>4, <3>5, <3>6
  <2> QED BY <2>1, <2>2
<1>5. ASSUME NEW w \in Rotators, SshKeys!Choose(w)
      PROVE  /\ SshKeys!TypeOK' /\ SshKeys!Counted' /\ SshKeys!NoOrphanLine'
             /\ SshKeys!SomeKeyOpens' /\ SshKeys!AloneInv'
  <2>1. CASE /\ rotation' = [rotation EXCEPT ![w] = [at |-> "idle"]]
             /\ UNCHANGED <<keyVault, keysMade>>
    <3>1. /\ rotation[w].at = "choose"
          /\ UNCHANGED <<keyRef, keyVault, authKeys, keysMade, tornPuts, together>>
      BY <1>5, <2>1, Zenon DEF SshKeys!Choose, SshKeys!At, SshKeys!To, SshKeys!Done,
         SshKeys!NotRotating, SshKeys!StoreNew
    <3>2. SshKeys!TypeOK'
      BY <3>1, <2>1 DEF SshKeys!TypeOK, SshKeys!HubKeys, SshKeys!Places, SshKeys!NotRotating,
         SshKeys!Run, SshKeys!Counted
    <3>3. SshKeys!Counted'
      BY <3>1, <2>1, <3>2 DEF SshKeys!TypeOK, SshKeys!HubKeys, SshKeys!Places,
         SshKeys!NotRotating, SshKeys!Run, SshKeys!Counted
    <3>4. SshKeys!NoOrphanLine'
      BY <3>1, <2>1, <3>2 DEF SshKeys!TypeOK, SshKeys!HubKeys, SshKeys!Places,
         SshKeys!NotRotating, SshKeys!Run, SshKeys!Counted, SshKeys!AloneInv, SshKeys!Alone,
         SshKeys!At, SshKeys!Opens, SshKeys!NoOrphanLine, SshKeys!SomeKeyOpens
    <3>5. SshKeys!SomeKeyOpens'
      BY <3>1, <2>1, <3>2 DEF SshKeys!TypeOK, SshKeys!HubKeys, SshKeys!Places,
         SshKeys!NotRotating, SshKeys!Run, SshKeys!Counted, SshKeys!AloneInv, SshKeys!Alone,
         SshKeys!At, SshKeys!Opens, SshKeys!NoOrphanLine, SshKeys!SomeKeyOpens
    <3>6. SshKeys!AloneInv'
      BY <3>1, <2>1, <3>2 DEF SshKeys!TypeOK, SshKeys!HubKeys, SshKeys!Places,
         SshKeys!NotRotating, SshKeys!Run, SshKeys!Counted, SshKeys!AloneInv, SshKeys!Alone,
         SshKeys!At, SshKeys!Opens, SshKeys!NoOrphanLine, SshKeys!SomeKeyOpens
    <3> QED BY <3>2, <3>3, <3>4, <3>5, <3>6
  <2>2. CASE /\ (\E k \in SshKeys!Pending(rotation[w]) :
                  rotation' = [rotation EXCEPT ![w] = [rotation[w] EXCEPT !.at = "append",
                  !.new = k,
                  !.current = IF SshKeys!Current(rotation[w]) # {} THEN rotation[w].ref ELSE 0]])
             /\ UNCHANGED <<keyVault, keysMade>>
    <3>1. PICK k \in SshKeys!Pending(rotation[w]) : /\ rotation[w].at = "choose"
          /\ rotation' = [rotation EXCEPT ![w] = [rotation[w] EXCEPT !.at = "append",
              !.new = k,
              !.current = IF SshKeys!Current(rotation[w]) # {} THEN rotation[w].ref ELSE 0]]
          /\ UNCHANGED <<keyRef, keyVault, authKeys, keysMade, tornPuts, together>>
      BY <1>5, <2>2, Zenon DEF SshKeys!Choose, SshKeys!At, SshKeys!To, SshKeys!Done,
         SshKeys!NotRotating, SshKeys!StoreNew
    <3> DEFINE cur == IF SshKeys!Current(rotation[w]) # {} THEN rotation[w].ref ELSE 0
    <3>a. /\ rotation[w].at = "choose"
          /\ UNCHANGED <<keyVault, authKeys, keyRef, keysMade, tornPuts, together>>
      BY <3>1
    <3>b. k \in keyVault /\ k # rotation[w].ref
      BY <3>1 DEF SshKeys!Pending
    <3>c. rotation[w] \in SshKeys!Run
      BY <3>1 DEF SshKeys!TypeOK, SshKeys!NotRotating
    <3>d. cur \in {0} \cup SshKeys!HubKeys
      BY <3>c DEF SshKeys!Run
    <3>e. ~together => cur = rotation[w].ref /\ cur \in keyVault
      BY <3>1 DEF SshKeys!AloneInv, SshKeys!Alone, SshKeys!Opens, SshKeys!Current
    <3>f. [rotation[w] EXCEPT !.at = "append", !.new = k, !.current = cur] \in SshKeys!Run
      BY <3>a, <3>b, <3>c, <3>d DEF SshKeys!Run, SshKeys!Places, SshKeys!HubKeys,
         SshKeys!TypeOK, SshKeys!Counted
    <3>g. rotation' = [rotation EXCEPT ![w] = [rotation[w] EXCEPT !.at = "append", !.new = k,
              !.current = cur]]
      BY <3>1
    <3> HIDE DEF cur
    <3>2. SshKeys!TypeOK'
      BY <3>a, <3>b, <3>f, <3>g DEF SshKeys!TypeOK, SshKeys!NotRotating, SshKeys!HubKeys
    <3>3. SshKeys!Counted'
      BY <3>a, <3>b DEF SshKeys!TypeOK, SshKeys!HubKeys, SshKeys!Places, SshKeys!NotRotating,
         SshKeys!Run, SshKeys!Counted
    <3>4. SshKeys!NoOrphanLine'
      BY <3>a, <3>b DEF SshKeys!TypeOK, SshKeys!HubKeys, SshKeys!Places, SshKeys!NotRotating,
         SshKeys!Run, SshKeys!Counted, SshKeys!AloneInv, SshKeys!Alone, SshKeys!At,
         SshKeys!Opens, SshKeys!NoOrphanLine, SshKeys!SomeKeyOpens
    <3>5. SshKeys!SomeKeyOpens'
      BY <3>a, <3>b DEF SshKeys!TypeOK, SshKeys!HubKeys, SshKeys!Places, SshKeys!NotRotating,
         SshKeys!Run, SshKeys!Counted, SshKeys!AloneInv, SshKeys!Alone, SshKeys!At,
         SshKeys!Opens, SshKeys!NoOrphanLine, SshKeys!SomeKeyOpens
    <3>6. SshKeys!AloneInv'
      BY <3>a, <3>b, <3>c, <3>e, <3>g, <3>2 DEF SshKeys!TypeOK, SshKeys!HubKeys,
         SshKeys!Places, SshKeys!NotRotating, SshKeys!Run, SshKeys!Counted, SshKeys!AloneInv,
         SshKeys!Alone, SshKeys!At, SshKeys!Opens, SshKeys!NoOrphanLine, SshKeys!SomeKeyOpens
    <3> QED BY <3>2, <3>3, <3>4, <3>5, <3>6
  <2>3. CASE /\ rotation' = [rotation EXCEPT ![w] = [rotation[w] EXCEPT !.at = "append",
                  !.new = keysMade + 1,
                  !.current = IF SshKeys!Current(rotation[w]) # {} THEN rotation[w].ref ELSE 0]]
             /\ SshKeys!StoreNew
    <3>1. /\ rotation[w].at = "choose"
          /\ rotation' = [rotation EXCEPT ![w] = [rotation[w] EXCEPT !.at = "append",
              !.new = keysMade + 1,
              !.current = IF SshKeys!Current(rotation[w]) # {} THEN rotation[w].ref ELSE 0]]
          /\ keysMade < MaxHubKeys
          /\ keysMade' = keysMade + 1
          /\ keyVault' = keyVault \cup {keysMade + 1}
          /\ UNCHANGED <<keyRef, authKeys, tornPuts, together>>
      BY <1>5, <2>3, Zenon DEF SshKeys!Choose, SshKeys!At, SshKeys!To, SshKeys!Done,
         SshKeys!NotRotating, SshKeys!StoreNew
    <3> DEFINE cur == IF SshKeys!Current(rotation[w]) # {} THEN rotation[w].ref ELSE 0
    <3>a. /\ rotation[w].at = "choose" /\ keysMade < MaxHubKeys /\ keysMade' = keysMade + 1
          /\ keyVault' = keyVault \cup {keysMade + 1}
          /\ UNCHANGED <<keyRef, authKeys, tornPuts, together>>
      BY <3>1
    <3>b. keysMade + 1 \in SshKeys!HubKeys /\ keysMade + 1 \notin keyVault
      BY <3>a DEF SshKeys!HubKeys, SshKeys!Counted
    <3>c. rotation[w] \in SshKeys!Run
      BY <3>1 DEF SshKeys!TypeOK, SshKeys!NotRotating
    <3>d. cur \in {0} \cup SshKeys!HubKeys
      BY <3>c DEF SshKeys!Run
    <3>e. ~together => cur = rotation[w].ref /\ cur \in keyVault
      BY <3>1 DEF SshKeys!AloneInv, SshKeys!Alone, SshKeys!Opens, SshKeys!Current
    <3>f. [rotation[w] EXCEPT !.at = "append", !.new = keysMade + 1,
              !.current = cur] \in SshKeys!Run
      BY <3>a, <3>b, <3>c, <3>d DEF SshKeys!Run, SshKeys!Places, SshKeys!HubKeys,
         SshKeys!TypeOK, SshKeys!Counted
    <3>g. rotation' = [rotation EXCEPT ![w] = [rotation[w] EXCEPT !.at = "append",
              !.new = keysMade + 1, !.current = cur]]
      BY <3>1
    <3> HIDE DEF cur
    <3>2. SshKeys!TypeOK'
      BY <3>a, <3>b, <3>f, <3>g DEF SshKeys!TypeOK, SshKeys!NotRotating, SshKeys!HubKeys
    <3>3. SshKeys!Counted'
      BY <3>a, <3>b DEF SshKeys!TypeOK, SshKeys!HubKeys, SshKeys!Places, SshKeys!NotRotating,
         SshKeys!Run, SshKeys!Counted
    <3>4. SshKeys!NoOrphanLine'
      BY <3>a, <3>b DEF SshKeys!TypeOK, SshKeys!HubKeys, SshKeys!Places, SshKeys!NotRotating,
         SshKeys!Run, SshKeys!Counted, SshKeys!AloneInv, SshKeys!Alone, SshKeys!At,
         SshKeys!Opens, SshKeys!NoOrphanLine, SshKeys!SomeKeyOpens
    <3>5. SshKeys!SomeKeyOpens'
      BY <3>a, <3>b DEF SshKeys!TypeOK, SshKeys!HubKeys, SshKeys!Places, SshKeys!NotRotating,
         SshKeys!Run, SshKeys!Counted, SshKeys!AloneInv, SshKeys!Alone, SshKeys!At,
         SshKeys!Opens, SshKeys!NoOrphanLine, SshKeys!SomeKeyOpens
    <3>6. SshKeys!AloneInv'
      BY <3>a, <3>b, <3>c, <3>e, <3>g, <3>2 DEF SshKeys!TypeOK, SshKeys!HubKeys,
         SshKeys!Places, SshKeys!NotRotating, SshKeys!Run, SshKeys!Counted, SshKeys!AloneInv,
         SshKeys!Alone, SshKeys!At, SshKeys!Opens, SshKeys!NoOrphanLine, SshKeys!SomeKeyOpens
    <3> QED BY <3>2, <3>3, <3>4, <3>5, <3>6
  <2> QED BY <2>1, <2>2, <2>3, <1>5, Zenon DEF SshKeys!Choose, SshKeys!At, SshKeys!To,
         SshKeys!Done, SshKeys!NotRotating
<1>6. ASSUME NEW w \in Rotators, SshKeys!Append(w)
      PROVE  /\ SshKeys!TypeOK' /\ SshKeys!Counted' /\ SshKeys!NoOrphanLine'
             /\ SshKeys!SomeKeyOpens' /\ SshKeys!AloneInv'
  <2>1. CASE rotation[w].new \in rotation[w].text
    <3>1. /\ rotation[w].at = "append"
          /\ authKeys' = authKeys
          /\ rotation' = [rotation EXCEPT ![w] = [rotation[w] EXCEPT !.at = "try",
              !.text = rotation[w].text \cup {rotation[w].new}]]
          /\ UNCHANGED <<keyRef, keyVault, keysMade, tornPuts, together>>
      BY <1>6, <2>1, Zenon DEF SshKeys!Append, SshKeys!At, SshKeys!To, SshKeys!budget
    <3>a. rotation[w] \in SshKeys!Run
      BY <3>1, <2>1 DEF SshKeys!TypeOK, SshKeys!NotRotating
    <3>b. [rotation[w] EXCEPT !.at = "try",
              !.text = rotation[w].text \cup {rotation[w].new}] \in SshKeys!Run
      BY <3>1, <2>1, <3>a DEF SshKeys!Run, SshKeys!Places, SshKeys!HubKeys, SshKeys!TypeOK,
         SshKeys!Counted
    <3>c. rotation[w].text \subseteq SshKeys!HubKeys /\ rotation[w].new \in SshKeys!HubKeys
      BY <3>a DEF SshKeys!Run
    <3>2. SshKeys!TypeOK'
      BY <3>1, <2>1, <3>a, <3>b, <3>c DEF SshKeys!TypeOK, SshKeys!NotRotating
    <3>3. SshKeys!Counted'
      BY <3>1, <2>1, <3>a, <3>b, <3>c, <3>2 DEF SshKeys!TypeOK, SshKeys!HubKeys,
         SshKeys!Places, SshKeys!NotRotating, SshKeys!Run, SshKeys!Counted
    <3>4. SshKeys!NoOrphanLine'
      BY <3>1, <2>1, <3>a, <3>b, <3>c, <3>2 DEF SshKeys!TypeOK, SshKeys!HubKeys,
         SshKeys!Places, SshKeys!NotRotating, SshKeys!Run, SshKeys!Counted, SshKeys!AloneInv,
         SshKeys!Alone, SshKeys!At, SshKeys!Opens, SshKeys!NoOrphanLine, SshKeys!SomeKeyOpens
    <3>5. SshKeys!SomeKeyOpens'
      BY <3>1, <2>1, <3>a, <3>b, <3>c, <3>2 DEF SshKeys!TypeOK, SshKeys!HubKeys,
         SshKeys!Places, SshKeys!NotRotating, SshKeys!Run, SshKeys!Counted, SshKeys!AloneInv,
         SshKeys!Alone, SshKeys!At, SshKeys!Opens, SshKeys!NoOrphanLine, SshKeys!SomeKeyOpens
    <3>6. SshKeys!AloneInv'
      BY <3>1, <2>1, <3>a, <3>b, <3>c, <3>2 DEF SshKeys!TypeOK, SshKeys!HubKeys,
         SshKeys!Places, SshKeys!NotRotating, SshKeys!Run, SshKeys!Counted, SshKeys!AloneInv,
         SshKeys!Alone, SshKeys!At, SshKeys!Opens, SshKeys!NoOrphanLine, SshKeys!SomeKeyOpens
    <3> QED BY <3>2, <3>3, <3>4, <3>5, <3>6
  <2>2. CASE rotation[w].new \notin rotation[w].text
    <3>1. /\ rotation[w].at = "append"
          /\ authKeys' = rotation[w].text \cup {rotation[w].new}
          /\ rotation' = [rotation EXCEPT ![w] = [rotation[w] EXCEPT !.at = "try",
              !.text = rotation[w].text \cup {rotation[w].new}]]
          /\ UNCHANGED <<keyRef, keyVault, keysMade, tornPuts, together>>
      BY <1>6, <2>2, Zenon DEF SshKeys!Append, SshKeys!At, SshKeys!To, SshKeys!budget
    <3>a. rotation[w] \in SshKeys!Run
      BY <3>1, <2>2 DEF SshKeys!TypeOK, SshKeys!NotRotating
    <3>b. [rotation[w] EXCEPT !.at = "try",
              !.text = rotation[w].text \cup {rotation[w].new}] \in SshKeys!Run
      BY <3>1, <2>2, <3>a DEF SshKeys!Run, SshKeys!Places, SshKeys!HubKeys, SshKeys!TypeOK,
         SshKeys!Counted
    <3>c. rotation[w].text \subseteq SshKeys!HubKeys /\ rotation[w].new \in SshKeys!HubKeys
      BY <3>a DEF SshKeys!Run
    <3>2. SshKeys!TypeOK'
      BY <3>1, <2>2, <3>a, <3>b, <3>c DEF SshKeys!TypeOK, SshKeys!NotRotating
    <3>3. SshKeys!Counted'
      BY <3>1, <2>2, <3>a, <3>b, <3>c, <3>2 DEF SshKeys!TypeOK, SshKeys!HubKeys,
         SshKeys!Places, SshKeys!NotRotating, SshKeys!Run, SshKeys!Counted
    <3>4. SshKeys!NoOrphanLine'
      BY <3>1, <2>2, <3>a, <3>b, <3>c, <3>2 DEF SshKeys!TypeOK, SshKeys!HubKeys,
         SshKeys!Places, SshKeys!NotRotating, SshKeys!Run, SshKeys!Counted, SshKeys!AloneInv,
         SshKeys!Alone, SshKeys!At, SshKeys!Opens, SshKeys!NoOrphanLine, SshKeys!SomeKeyOpens
    <3>5. SshKeys!SomeKeyOpens'
      BY <3>1, <2>2, <3>a, <3>b, <3>c, <3>2 DEF SshKeys!TypeOK, SshKeys!HubKeys,
         SshKeys!Places, SshKeys!NotRotating, SshKeys!Run, SshKeys!Counted, SshKeys!AloneInv,
         SshKeys!Alone, SshKeys!At, SshKeys!Opens, SshKeys!NoOrphanLine, SshKeys!SomeKeyOpens
    <3>6. SshKeys!AloneInv'
      BY <3>1, <2>2, <3>a, <3>b, <3>c, <3>2 DEF SshKeys!TypeOK, SshKeys!HubKeys,
         SshKeys!Places, SshKeys!NotRotating, SshKeys!Run, SshKeys!Counted, SshKeys!AloneInv,
         SshKeys!Alone, SshKeys!At, SshKeys!Opens, SshKeys!NoOrphanLine, SshKeys!SomeKeyOpens
    <3> QED BY <3>2, <3>3, <3>4, <3>5, <3>6
  <2> QED BY <2>1, <2>2
<1>7. ASSUME NEW w \in Rotators, SshKeys!TryNew(w)
      PROVE  /\ SshKeys!TypeOK' /\ SshKeys!Counted' /\ SshKeys!NoOrphanLine'
             /\ SshKeys!SomeKeyOpens' /\ SshKeys!AloneInv'
  <2>1. CASE rotation' # [rotation EXCEPT ![w] = [at |-> "idle"]]
    <3>1. /\ rotation[w].at = "try"
          /\ rotation[w].new \in keyVault /\ rotation[w].new \in authKeys
          /\ rotation' = [rotation EXCEPT ![w] = [rotation[w] EXCEPT !.at = "drop"]]
          /\ UNCHANGED <<keyRef, keyVault, authKeys, keysMade, tornPuts, together>>
      BY <1>7, <2>1, Zenon DEF SshKeys!TryNew, SshKeys!At, SshKeys!To, SshKeys!Done,
         SshKeys!NotRotating, SshKeys!Opens, SshKeys!HostFails, SshKeys!budget
    <3>a. rotation[w] \in SshKeys!Run
      BY <3>1, <2>1 DEF SshKeys!TypeOK, SshKeys!NotRotating
    <3>b. [rotation[w] EXCEPT !.at = "drop"] \in SshKeys!Run
      BY <3>1, <2>1, <3>a DEF SshKeys!Run, SshKeys!Places, SshKeys!HubKeys, SshKeys!TypeOK,
         SshKeys!Counted
    <3>c. rotation[w].text \subseteq SshKeys!HubKeys /\ rotation[w].new \in SshKeys!HubKeys
      BY <3>a DEF SshKeys!Run
    <3>2. SshKeys!TypeOK'
      BY <3>1, <2>1, <3>a, <3>b, <3>c DEF SshKeys!TypeOK, SshKeys!NotRotating
    <3>3. SshKeys!Counted'
      BY <3>1, <2>1, <3>a, <3>b, <3>c, <3>2 DEF SshKeys!TypeOK, SshKeys!HubKeys,
         SshKeys!Places, SshKeys!NotRotating, SshKeys!Run, SshKeys!Counted
    <3>4. SshKeys!NoOrphanLine'
      BY <3>1, <2>1, <3>a, <3>b, <3>c, <3>2 DEF SshKeys!TypeOK, SshKeys!HubKeys,
         SshKeys!Places, SshKeys!NotRotating, SshKeys!Run, SshKeys!Counted, SshKeys!AloneInv,
         SshKeys!Alone, SshKeys!At, SshKeys!Opens, SshKeys!NoOrphanLine, SshKeys!SomeKeyOpens
    <3>5. SshKeys!SomeKeyOpens'
      BY <3>1, <2>1, <3>a, <3>b, <3>c, <3>2 DEF SshKeys!TypeOK, SshKeys!HubKeys,
         SshKeys!Places, SshKeys!NotRotating, SshKeys!Run, SshKeys!Counted, SshKeys!AloneInv,
         SshKeys!Alone, SshKeys!At, SshKeys!Opens, SshKeys!NoOrphanLine, SshKeys!SomeKeyOpens
    <3>6. SshKeys!AloneInv'
      BY <3>1, <2>1, <3>a, <3>b, <3>c, <3>2 DEF SshKeys!TypeOK, SshKeys!HubKeys,
         SshKeys!Places, SshKeys!NotRotating, SshKeys!Run, SshKeys!Counted, SshKeys!AloneInv,
         SshKeys!Alone, SshKeys!At, SshKeys!Opens, SshKeys!NoOrphanLine, SshKeys!SomeKeyOpens
    <3> QED BY <3>2, <3>3, <3>4, <3>5, <3>6
  <2>2. CASE rotation' = [rotation EXCEPT ![w] = [at |-> "idle"]]
    <3>1. /\ rotation[w].at = "try"
          /\ UNCHANGED <<keyRef, keyVault, authKeys, keysMade, tornPuts, together>>
      BY <1>7, <2>2, Zenon DEF SshKeys!TryNew, SshKeys!At, SshKeys!To, SshKeys!Done,
         SshKeys!NotRotating, SshKeys!Opens, SshKeys!HostFails, SshKeys!budget
    <3>2. SshKeys!TypeOK'
      BY <3>1, <2>2 DEF SshKeys!TypeOK, SshKeys!HubKeys, SshKeys!Places, SshKeys!NotRotating,
         SshKeys!Run, SshKeys!Counted
    <3>3. SshKeys!Counted'
      BY <3>1, <2>2, <3>2 DEF SshKeys!TypeOK, SshKeys!HubKeys, SshKeys!Places,
         SshKeys!NotRotating, SshKeys!Run, SshKeys!Counted
    <3>4. SshKeys!NoOrphanLine'
      BY <3>1, <2>2, <3>2 DEF SshKeys!TypeOK, SshKeys!HubKeys, SshKeys!Places,
         SshKeys!NotRotating, SshKeys!Run, SshKeys!Counted, SshKeys!AloneInv, SshKeys!Alone,
         SshKeys!At, SshKeys!Opens, SshKeys!NoOrphanLine, SshKeys!SomeKeyOpens
    <3>5. SshKeys!SomeKeyOpens'
      BY <3>1, <2>2, <3>2 DEF SshKeys!TypeOK, SshKeys!HubKeys, SshKeys!Places,
         SshKeys!NotRotating, SshKeys!Run, SshKeys!Counted, SshKeys!AloneInv, SshKeys!Alone,
         SshKeys!At, SshKeys!Opens, SshKeys!NoOrphanLine, SshKeys!SomeKeyOpens
    <3>6. SshKeys!AloneInv'
      BY <3>1, <2>2, <3>2 DEF SshKeys!TypeOK, SshKeys!HubKeys, SshKeys!Places,
         SshKeys!NotRotating, SshKeys!Run, SshKeys!Counted, SshKeys!AloneInv, SshKeys!Alone,
         SshKeys!At, SshKeys!Opens, SshKeys!NoOrphanLine, SshKeys!SomeKeyOpens
    <3> QED BY <3>2, <3>3, <3>4, <3>5, <3>6
  <2> QED BY <2>1, <2>2
<1>8. ASSUME NEW w \in Rotators, SshKeys!Drop(w)
      PROVE  /\ SshKeys!TypeOK' /\ SshKeys!Counted' /\ SshKeys!NoOrphanLine'
             /\ SshKeys!SomeKeyOpens' /\ SshKeys!AloneInv'
  <2>1. CASE rotation[w].current \in rotation[w].text
    <3>1. /\ rotation[w].at = "drop"
          /\ authKeys' = rotation[w].text \ {rotation[w].current}
          /\ rotation' = [rotation EXCEPT ![w] = [rotation[w] EXCEPT !.at = "point",
              !.text = rotation[w].text \ {rotation[w].current}]]
          /\ UNCHANGED <<keyRef, keyVault, keysMade, tornPuts, together>>
      BY <1>8, <2>1, Zenon DEF SshKeys!Drop, SshKeys!At, SshKeys!To, SshKeys!budget
    <3>a. rotation[w] \in SshKeys!Run
      BY <3>1, <2>1 DEF SshKeys!TypeOK, SshKeys!NotRotating
    <3>b. [rotation[w] EXCEPT !.at = "point",
              !.text = rotation[w].text \ {rotation[w].current}] \in SshKeys!Run
      BY <3>1, <2>1, <3>a DEF SshKeys!Run, SshKeys!Places, SshKeys!HubKeys, SshKeys!TypeOK,
         SshKeys!Counted
    <3>c. rotation[w].text \subseteq SshKeys!HubKeys /\ rotation[w].new \in SshKeys!HubKeys
      BY <3>a DEF SshKeys!Run
    <3>2. SshKeys!TypeOK'
      BY <3>1, <2>1, <3>a, <3>b, <3>c DEF SshKeys!TypeOK, SshKeys!NotRotating
    <3>3. SshKeys!Counted'
      BY <3>1, <2>1, <3>a, <3>b, <3>c, <3>2 DEF SshKeys!TypeOK, SshKeys!HubKeys,
         SshKeys!Places, SshKeys!NotRotating, SshKeys!Run, SshKeys!Counted
    <3>4. SshKeys!NoOrphanLine'
      BY <3>1, <2>1, <3>a, <3>b, <3>c, <3>2 DEF SshKeys!TypeOK, SshKeys!HubKeys,
         SshKeys!Places, SshKeys!NotRotating, SshKeys!Run, SshKeys!Counted, SshKeys!AloneInv,
         SshKeys!Alone, SshKeys!At, SshKeys!Opens, SshKeys!NoOrphanLine, SshKeys!SomeKeyOpens
    <3>5. SshKeys!SomeKeyOpens'
      BY <3>1, <2>1, <3>a, <3>b, <3>c, <3>2 DEF SshKeys!TypeOK, SshKeys!HubKeys,
         SshKeys!Places, SshKeys!NotRotating, SshKeys!Run, SshKeys!Counted, SshKeys!AloneInv,
         SshKeys!Alone, SshKeys!At, SshKeys!Opens, SshKeys!NoOrphanLine, SshKeys!SomeKeyOpens
    <3>6. SshKeys!AloneInv'
      BY <3>1, <2>1, <3>a, <3>b, <3>c, <3>2 DEF SshKeys!TypeOK, SshKeys!HubKeys,
         SshKeys!Places, SshKeys!NotRotating, SshKeys!Run, SshKeys!Counted, SshKeys!AloneInv,
         SshKeys!Alone, SshKeys!At, SshKeys!Opens, SshKeys!NoOrphanLine, SshKeys!SomeKeyOpens
    <3> QED BY <3>2, <3>3, <3>4, <3>5, <3>6
  <2>2. CASE rotation[w].current \notin rotation[w].text
    <3>1. /\ rotation[w].at = "drop"
          /\ authKeys' = authKeys
          /\ rotation' = [rotation EXCEPT ![w] = [rotation[w] EXCEPT !.at = "point",
              !.text = rotation[w].text \ {rotation[w].current}]]
          /\ UNCHANGED <<keyRef, keyVault, keysMade, tornPuts, together>>
      BY <1>8, <2>2, Zenon DEF SshKeys!Drop, SshKeys!At, SshKeys!To, SshKeys!budget
    <3>a. rotation[w] \in SshKeys!Run
      BY <3>1, <2>2 DEF SshKeys!TypeOK, SshKeys!NotRotating
    <3>b. [rotation[w] EXCEPT !.at = "point",
              !.text = rotation[w].text \ {rotation[w].current}] \in SshKeys!Run
      BY <3>1, <2>2, <3>a DEF SshKeys!Run, SshKeys!Places, SshKeys!HubKeys, SshKeys!TypeOK,
         SshKeys!Counted
    <3>c. rotation[w].text \subseteq SshKeys!HubKeys /\ rotation[w].new \in SshKeys!HubKeys
      BY <3>a DEF SshKeys!Run
    <3>2. SshKeys!TypeOK'
      BY <3>1, <2>2, <3>a, <3>b, <3>c DEF SshKeys!TypeOK, SshKeys!NotRotating
    <3>3. SshKeys!Counted'
      BY <3>1, <2>2, <3>a, <3>b, <3>c, <3>2 DEF SshKeys!TypeOK, SshKeys!HubKeys,
         SshKeys!Places, SshKeys!NotRotating, SshKeys!Run, SshKeys!Counted
    <3>4. SshKeys!NoOrphanLine'
      BY <3>1, <2>2, <3>a, <3>b, <3>c, <3>2 DEF SshKeys!TypeOK, SshKeys!HubKeys,
         SshKeys!Places, SshKeys!NotRotating, SshKeys!Run, SshKeys!Counted, SshKeys!AloneInv,
         SshKeys!Alone, SshKeys!At, SshKeys!Opens, SshKeys!NoOrphanLine, SshKeys!SomeKeyOpens
    <3>5. SshKeys!SomeKeyOpens'
      BY <3>1, <2>2, <3>a, <3>b, <3>c, <3>2 DEF SshKeys!TypeOK, SshKeys!HubKeys,
         SshKeys!Places, SshKeys!NotRotating, SshKeys!Run, SshKeys!Counted, SshKeys!AloneInv,
         SshKeys!Alone, SshKeys!At, SshKeys!Opens, SshKeys!NoOrphanLine, SshKeys!SomeKeyOpens
    <3>6. SshKeys!AloneInv'
      BY <3>1, <2>2, <3>a, <3>b, <3>c, <3>2 DEF SshKeys!TypeOK, SshKeys!HubKeys,
         SshKeys!Places, SshKeys!NotRotating, SshKeys!Run, SshKeys!Counted, SshKeys!AloneInv,
         SshKeys!Alone, SshKeys!At, SshKeys!Opens, SshKeys!NoOrphanLine, SshKeys!SomeKeyOpens
    <3> QED BY <3>2, <3>3, <3>4, <3>5, <3>6
  <2> QED BY <2>1, <2>2
<1>9. ASSUME NEW w \in Rotators, SshKeys!Point(w)
      PROVE  /\ SshKeys!TypeOK' /\ SshKeys!Counted' /\ SshKeys!NoOrphanLine'
             /\ SshKeys!SomeKeyOpens' /\ SshKeys!AloneInv'
  <2>1. CASE rotation[w].ref # rotation[w].new
    <3>1. /\ rotation[w].at = "point"
          /\ keyRef' = rotation[w].new
          /\ rotation' = [rotation EXCEPT ![w] = [rotation[w] EXCEPT !.at = "probe",
              !.ref = rotation[w].new]]
          /\ UNCHANGED <<authKeys, keyVault, keysMade, tornPuts, together>>
      BY <1>9, <2>1, Zenon DEF SshKeys!Point, SshKeys!At, SshKeys!To, SshKeys!budget
    <3>a. rotation[w] \in SshKeys!Run
      BY <3>1, <2>1 DEF SshKeys!TypeOK, SshKeys!NotRotating
    <3>b. [rotation[w] EXCEPT !.at = "probe", !.ref = rotation[w].new] \in SshKeys!Run
      BY <3>1, <2>1, <3>a DEF SshKeys!Run, SshKeys!Places, SshKeys!HubKeys, SshKeys!TypeOK,
         SshKeys!Counted
    <3>c. rotation[w].text \subseteq SshKeys!HubKeys /\ rotation[w].new \in SshKeys!HubKeys
      BY <3>a DEF SshKeys!Run
    <3>2. SshKeys!TypeOK'
      BY <3>1, <2>1, <3>a, <3>b, <3>c DEF SshKeys!TypeOK, SshKeys!NotRotating
    <3>3. SshKeys!Counted'
      BY <3>1, <2>1, <3>a, <3>b, <3>c, <3>2 DEF SshKeys!TypeOK, SshKeys!HubKeys,
         SshKeys!Places, SshKeys!NotRotating, SshKeys!Run, SshKeys!Counted
    <3>4. SshKeys!NoOrphanLine'
      BY <3>1, <2>1, <3>a, <3>b, <3>c, <3>2 DEF SshKeys!TypeOK, SshKeys!HubKeys,
         SshKeys!Places, SshKeys!NotRotating, SshKeys!Run, SshKeys!Counted, SshKeys!AloneInv,
         SshKeys!Alone, SshKeys!At, SshKeys!Opens, SshKeys!NoOrphanLine, SshKeys!SomeKeyOpens
    <3>5. SshKeys!SomeKeyOpens'
      BY <3>1, <2>1, <3>a, <3>b, <3>c, <3>2 DEF SshKeys!TypeOK, SshKeys!HubKeys,
         SshKeys!Places, SshKeys!NotRotating, SshKeys!Run, SshKeys!Counted, SshKeys!AloneInv,
         SshKeys!Alone, SshKeys!At, SshKeys!Opens, SshKeys!NoOrphanLine, SshKeys!SomeKeyOpens
    <3>6. SshKeys!AloneInv'
      BY <3>1, <2>1, <3>a, <3>b, <3>c, <3>2 DEF SshKeys!TypeOK, SshKeys!HubKeys,
         SshKeys!Places, SshKeys!NotRotating, SshKeys!Run, SshKeys!Counted, SshKeys!AloneInv,
         SshKeys!Alone, SshKeys!At, SshKeys!Opens, SshKeys!NoOrphanLine, SshKeys!SomeKeyOpens
    <3> QED BY <3>2, <3>3, <3>4, <3>5, <3>6
  <2>2. CASE rotation[w].ref = rotation[w].new
    <3>1. /\ rotation[w].at = "point"
          /\ keyRef' = keyRef
          /\ rotation' = [rotation EXCEPT ![w] = [rotation[w] EXCEPT !.at = "probe",
              !.ref = rotation[w].new]]
          /\ UNCHANGED <<authKeys, keyVault, keysMade, tornPuts, together>>
      BY <1>9, <2>2, Zenon DEF SshKeys!Point, SshKeys!At, SshKeys!To, SshKeys!budget
    <3>a. rotation[w] \in SshKeys!Run
      BY <3>1, <2>2 DEF SshKeys!TypeOK, SshKeys!NotRotating
    <3>b. [rotation[w] EXCEPT !.at = "probe", !.ref = rotation[w].new] \in SshKeys!Run
      BY <3>1, <2>2, <3>a DEF SshKeys!Run, SshKeys!Places, SshKeys!HubKeys, SshKeys!TypeOK,
         SshKeys!Counted
    <3>c. rotation[w].text \subseteq SshKeys!HubKeys /\ rotation[w].new \in SshKeys!HubKeys
      BY <3>a DEF SshKeys!Run
    <3>2. SshKeys!TypeOK'
      BY <3>1, <2>2, <3>a, <3>b, <3>c DEF SshKeys!TypeOK, SshKeys!NotRotating
    <3>3. SshKeys!Counted'
      BY <3>1, <2>2, <3>a, <3>b, <3>c, <3>2 DEF SshKeys!TypeOK, SshKeys!HubKeys,
         SshKeys!Places, SshKeys!NotRotating, SshKeys!Run, SshKeys!Counted
    <3>4. SshKeys!NoOrphanLine'
      BY <3>1, <2>2, <3>a, <3>b, <3>c, <3>2 DEF SshKeys!TypeOK, SshKeys!HubKeys,
         SshKeys!Places, SshKeys!NotRotating, SshKeys!Run, SshKeys!Counted, SshKeys!AloneInv,
         SshKeys!Alone, SshKeys!At, SshKeys!Opens, SshKeys!NoOrphanLine, SshKeys!SomeKeyOpens
    <3>5. SshKeys!SomeKeyOpens'
      BY <3>1, <2>2, <3>a, <3>b, <3>c, <3>2 DEF SshKeys!TypeOK, SshKeys!HubKeys,
         SshKeys!Places, SshKeys!NotRotating, SshKeys!Run, SshKeys!Counted, SshKeys!AloneInv,
         SshKeys!Alone, SshKeys!At, SshKeys!Opens, SshKeys!NoOrphanLine, SshKeys!SomeKeyOpens
    <3>6. SshKeys!AloneInv'
      BY <3>1, <2>2, <3>a, <3>b, <3>c, <3>2 DEF SshKeys!TypeOK, SshKeys!HubKeys,
         SshKeys!Places, SshKeys!NotRotating, SshKeys!Run, SshKeys!Counted, SshKeys!AloneInv,
         SshKeys!Alone, SshKeys!At, SshKeys!Opens, SshKeys!NoOrphanLine, SshKeys!SomeKeyOpens
    <3> QED BY <3>2, <3>3, <3>4, <3>5, <3>6
  <2> QED BY <2>1, <2>2
<1>10. ASSUME NEW w \in Rotators, SshKeys!ProbeOld(w)
       PROVE  /\ SshKeys!TypeOK' /\ SshKeys!Counted' /\ SshKeys!NoOrphanLine'
              /\ SshKeys!SomeKeyOpens' /\ SshKeys!AloneInv'
  <2>1. CASE rotation' = [rotation EXCEPT ![w] = [at |-> "idle"]]
    <3>1. /\ rotation[w].at = "probe"
          /\ UNCHANGED <<keyRef, keyVault, authKeys, keysMade, tornPuts, together>>
      BY <1>10, <2>1, Zenon DEF SshKeys!ProbeOld, SshKeys!At, SshKeys!To, SshKeys!Done,
         SshKeys!NotRotating, SshKeys!HostFails, SshKeys!budget
    <3>2. SshKeys!TypeOK'
      BY <3>1, <2>1 DEF SshKeys!TypeOK, SshKeys!HubKeys, SshKeys!Places, SshKeys!NotRotating,
         SshKeys!Run, SshKeys!Counted
    <3>3. SshKeys!Counted'
      BY <3>1, <2>1, <3>2 DEF SshKeys!TypeOK, SshKeys!HubKeys, SshKeys!Places,
         SshKeys!NotRotating, SshKeys!Run, SshKeys!Counted
    <3>4. SshKeys!NoOrphanLine'
      BY <3>1, <2>1, <3>2 DEF SshKeys!TypeOK, SshKeys!HubKeys, SshKeys!Places,
         SshKeys!NotRotating, SshKeys!Run, SshKeys!Counted, SshKeys!AloneInv, SshKeys!Alone,
         SshKeys!At, SshKeys!Opens, SshKeys!NoOrphanLine, SshKeys!SomeKeyOpens
    <3>5. SshKeys!SomeKeyOpens'
      BY <3>1, <2>1, <3>2 DEF SshKeys!TypeOK, SshKeys!HubKeys, SshKeys!Places,
         SshKeys!NotRotating, SshKeys!Run, SshKeys!Counted, SshKeys!AloneInv, SshKeys!Alone,
         SshKeys!At, SshKeys!Opens, SshKeys!NoOrphanLine, SshKeys!SomeKeyOpens
    <3>6. SshKeys!AloneInv'
      BY <3>1, <2>1, <3>2 DEF SshKeys!TypeOK, SshKeys!HubKeys, SshKeys!Places,
         SshKeys!NotRotating, SshKeys!Run, SshKeys!Counted, SshKeys!AloneInv, SshKeys!Alone,
         SshKeys!At, SshKeys!Opens, SshKeys!NoOrphanLine, SshKeys!SomeKeyOpens
    <3> QED BY <3>2, <3>3, <3>4, <3>5, <3>6
  <2>2. CASE /\ rotation' # [rotation EXCEPT ![w] = [at |-> "idle"]]
             /\ rotation[w].current \in authKeys
    <3>1. /\ rotation[w].at = "probe"
          /\ rotation' = [rotation EXCEPT ![w] = [rotation[w] EXCEPT !.at = "again",
              !.current = 0]]
          /\ UNCHANGED <<keyRef, keyVault, authKeys, keysMade, tornPuts, together>>
      BY <1>10, <2>2, Zenon DEF SshKeys!ProbeOld, SshKeys!At, SshKeys!To, SshKeys!Done,
         SshKeys!NotRotating, SshKeys!HostFails, SshKeys!budget
    <3>a. rotation[w] \in SshKeys!Run
      BY <3>1, <2>2 DEF SshKeys!TypeOK, SshKeys!NotRotating
    <3>b. [rotation[w] EXCEPT !.at = "again", !.current = 0] \in SshKeys!Run
      BY <3>1, <2>2, <3>a DEF SshKeys!Run, SshKeys!Places, SshKeys!HubKeys, SshKeys!TypeOK,
         SshKeys!Counted
    <3>c. rotation[w].text \subseteq SshKeys!HubKeys /\ rotation[w].new \in SshKeys!HubKeys
      BY <3>a DEF SshKeys!Run
    <3>2. SshKeys!TypeOK'
      BY <3>1, <2>2, <3>a, <3>b, <3>c DEF SshKeys!TypeOK, SshKeys!NotRotating
    <3>3. SshKeys!Counted'
      BY <3>1, <2>2, <3>a, <3>b, <3>c, <3>2 DEF SshKeys!TypeOK, SshKeys!HubKeys,
         SshKeys!Places, SshKeys!NotRotating, SshKeys!Run, SshKeys!Counted
    <3>4. SshKeys!NoOrphanLine'
      BY <3>1, <2>2, <3>a, <3>b, <3>c, <3>2 DEF SshKeys!TypeOK, SshKeys!HubKeys,
         SshKeys!Places, SshKeys!NotRotating, SshKeys!Run, SshKeys!Counted, SshKeys!AloneInv,
         SshKeys!Alone, SshKeys!At, SshKeys!Opens, SshKeys!NoOrphanLine, SshKeys!SomeKeyOpens
    <3>5. SshKeys!SomeKeyOpens'
      BY <3>1, <2>2, <3>a, <3>b, <3>c, <3>2 DEF SshKeys!TypeOK, SshKeys!HubKeys,
         SshKeys!Places, SshKeys!NotRotating, SshKeys!Run, SshKeys!Counted, SshKeys!AloneInv,
         SshKeys!Alone, SshKeys!At, SshKeys!Opens, SshKeys!NoOrphanLine, SshKeys!SomeKeyOpens
    <3>6. SshKeys!AloneInv'
      BY <3>1, <2>2, <3>a, <3>b, <3>c, <3>2 DEF SshKeys!TypeOK, SshKeys!HubKeys,
         SshKeys!Places, SshKeys!NotRotating, SshKeys!Run, SshKeys!Counted, SshKeys!AloneInv,
         SshKeys!Alone, SshKeys!At, SshKeys!Opens, SshKeys!NoOrphanLine, SshKeys!SomeKeyOpens
    <3> QED BY <3>2, <3>3, <3>4, <3>5, <3>6
  <2>3. CASE /\ rotation' # [rotation EXCEPT ![w] = [at |-> "idle"]]
             /\ rotation[w].current \notin authKeys
    <3>1. /\ rotation[w].at = "probe"
          /\ rotation' = [rotation EXCEPT ![w] = [rotation[w] EXCEPT !.at = "again",
              !.current = rotation[w].current]]
          /\ UNCHANGED <<keyRef, keyVault, authKeys, keysMade, tornPuts, together>>
      BY <1>10, <2>3, Zenon DEF SshKeys!ProbeOld, SshKeys!At, SshKeys!To, SshKeys!Done,
         SshKeys!NotRotating, SshKeys!HostFails, SshKeys!budget
    <3>a. rotation[w] \in SshKeys!Run
      BY <3>1, <2>3 DEF SshKeys!TypeOK, SshKeys!NotRotating
    <3>b. [rotation[w] EXCEPT !.at = "again", !.current = rotation[w].current] \in SshKeys!Run
      BY <3>1, <2>3, <3>a DEF SshKeys!Run, SshKeys!Places, SshKeys!HubKeys, SshKeys!TypeOK,
         SshKeys!Counted
    <3>c. rotation[w].text \subseteq SshKeys!HubKeys /\ rotation[w].new \in SshKeys!HubKeys
      BY <3>a DEF SshKeys!Run
    <3>2. SshKeys!TypeOK'
      BY <3>1, <2>3, <3>a, <3>b, <3>c DEF SshKeys!TypeOK, SshKeys!NotRotating
    <3>3. SshKeys!Counted'
      BY <3>1, <2>3, <3>a, <3>b, <3>c, <3>2 DEF SshKeys!TypeOK, SshKeys!HubKeys,
         SshKeys!Places, SshKeys!NotRotating, SshKeys!Run, SshKeys!Counted
    <3>4. SshKeys!NoOrphanLine'
      BY <3>1, <2>3, <3>a, <3>b, <3>c, <3>2 DEF SshKeys!TypeOK, SshKeys!HubKeys,
         SshKeys!Places, SshKeys!NotRotating, SshKeys!Run, SshKeys!Counted, SshKeys!AloneInv,
         SshKeys!Alone, SshKeys!At, SshKeys!Opens, SshKeys!NoOrphanLine, SshKeys!SomeKeyOpens
    <3>5. SshKeys!SomeKeyOpens'
      BY <3>1, <2>3, <3>a, <3>b, <3>c, <3>2 DEF SshKeys!TypeOK, SshKeys!HubKeys,
         SshKeys!Places, SshKeys!NotRotating, SshKeys!Run, SshKeys!Counted, SshKeys!AloneInv,
         SshKeys!Alone, SshKeys!At, SshKeys!Opens, SshKeys!NoOrphanLine, SshKeys!SomeKeyOpens
    <3>6. SshKeys!AloneInv'
      BY <3>1, <2>3, <3>a, <3>b, <3>c, <3>2 DEF SshKeys!TypeOK, SshKeys!HubKeys,
         SshKeys!Places, SshKeys!NotRotating, SshKeys!Run, SshKeys!Counted, SshKeys!AloneInv,
         SshKeys!Alone, SshKeys!At, SshKeys!Opens, SshKeys!NoOrphanLine, SshKeys!SomeKeyOpens
    <3> QED BY <3>2, <3>3, <3>4, <3>5, <3>6
  <2> QED BY <2>1, <2>2, <2>3
<1>11. ASSUME NEW w \in Rotators, SshKeys!TryAgain(w)
       PROVE  /\ SshKeys!TypeOK' /\ SshKeys!Counted' /\ SshKeys!NoOrphanLine'
              /\ SshKeys!SomeKeyOpens' /\ SshKeys!AloneInv'
  <2>1. CASE rotation' # [rotation EXCEPT ![w] = [at |-> "idle"]]
    <3>1. /\ rotation[w].at = "again"
          /\ rotation[w].new \in keyVault /\ rotation[w].new \in authKeys
          /\ rotation' = [rotation EXCEPT ![w] = [rotation[w] EXCEPT !.at = "revoke"]]
          /\ UNCHANGED <<keyRef, keyVault, authKeys, keysMade, tornPuts, together>>
      BY <1>11, <2>1, Zenon DEF SshKeys!TryAgain, SshKeys!At, SshKeys!To, SshKeys!Done,
         SshKeys!NotRotating, SshKeys!Opens, SshKeys!HostFails, SshKeys!budget
    <3>a. rotation[w] \in SshKeys!Run
      BY <3>1, <2>1 DEF SshKeys!TypeOK, SshKeys!NotRotating
    <3>b. [rotation[w] EXCEPT !.at = "revoke"] \in SshKeys!Run
      BY <3>1, <2>1, <3>a DEF SshKeys!Run, SshKeys!Places, SshKeys!HubKeys, SshKeys!TypeOK,
         SshKeys!Counted
    <3>c. rotation[w].text \subseteq SshKeys!HubKeys /\ rotation[w].new \in SshKeys!HubKeys
      BY <3>a DEF SshKeys!Run
    <3>2. SshKeys!TypeOK'
      BY <3>1, <2>1, <3>a, <3>b, <3>c DEF SshKeys!TypeOK, SshKeys!NotRotating
    <3>3. SshKeys!Counted'
      BY <3>1, <2>1, <3>a, <3>b, <3>c, <3>2 DEF SshKeys!TypeOK, SshKeys!HubKeys,
         SshKeys!Places, SshKeys!NotRotating, SshKeys!Run, SshKeys!Counted
    <3>4. SshKeys!NoOrphanLine'
      BY <3>1, <2>1, <3>a, <3>b, <3>c, <3>2 DEF SshKeys!TypeOK, SshKeys!HubKeys,
         SshKeys!Places, SshKeys!NotRotating, SshKeys!Run, SshKeys!Counted, SshKeys!AloneInv,
         SshKeys!Alone, SshKeys!At, SshKeys!Opens, SshKeys!NoOrphanLine, SshKeys!SomeKeyOpens
    <3>5. SshKeys!SomeKeyOpens'
      BY <3>1, <2>1, <3>a, <3>b, <3>c, <3>2 DEF SshKeys!TypeOK, SshKeys!HubKeys,
         SshKeys!Places, SshKeys!NotRotating, SshKeys!Run, SshKeys!Counted, SshKeys!AloneInv,
         SshKeys!Alone, SshKeys!At, SshKeys!Opens, SshKeys!NoOrphanLine, SshKeys!SomeKeyOpens
    <3>6. SshKeys!AloneInv'
      BY <3>1, <2>1, <3>a, <3>b, <3>c, <3>2 DEF SshKeys!TypeOK, SshKeys!HubKeys,
         SshKeys!Places, SshKeys!NotRotating, SshKeys!Run, SshKeys!Counted, SshKeys!AloneInv,
         SshKeys!Alone, SshKeys!At, SshKeys!Opens, SshKeys!NoOrphanLine, SshKeys!SomeKeyOpens
    <3> QED BY <3>2, <3>3, <3>4, <3>5, <3>6
  <2>2. CASE rotation' = [rotation EXCEPT ![w] = [at |-> "idle"]]
    <3>1. /\ rotation[w].at = "again"
          /\ UNCHANGED <<keyRef, keyVault, authKeys, keysMade, tornPuts, together>>
      BY <1>11, <2>2, Zenon DEF SshKeys!TryAgain, SshKeys!At, SshKeys!To, SshKeys!Done,
         SshKeys!NotRotating, SshKeys!Opens, SshKeys!HostFails, SshKeys!budget
    <3>2. SshKeys!TypeOK'
      BY <3>1, <2>2 DEF SshKeys!TypeOK, SshKeys!HubKeys, SshKeys!Places, SshKeys!NotRotating,
         SshKeys!Run, SshKeys!Counted
    <3>3. SshKeys!Counted'
      BY <3>1, <2>2, <3>2 DEF SshKeys!TypeOK, SshKeys!HubKeys, SshKeys!Places,
         SshKeys!NotRotating, SshKeys!Run, SshKeys!Counted
    <3>4. SshKeys!NoOrphanLine'
      BY <3>1, <2>2, <3>2 DEF SshKeys!TypeOK, SshKeys!HubKeys, SshKeys!Places,
         SshKeys!NotRotating, SshKeys!Run, SshKeys!Counted, SshKeys!AloneInv, SshKeys!Alone,
         SshKeys!At, SshKeys!Opens, SshKeys!NoOrphanLine, SshKeys!SomeKeyOpens
    <3>5. SshKeys!SomeKeyOpens'
      BY <3>1, <2>2, <3>2 DEF SshKeys!TypeOK, SshKeys!HubKeys, SshKeys!Places,
         SshKeys!NotRotating, SshKeys!Run, SshKeys!Counted, SshKeys!AloneInv, SshKeys!Alone,
         SshKeys!At, SshKeys!Opens, SshKeys!NoOrphanLine, SshKeys!SomeKeyOpens
    <3>6. SshKeys!AloneInv'
      BY <3>1, <2>2, <3>2 DEF SshKeys!TypeOK, SshKeys!HubKeys, SshKeys!Places,
         SshKeys!NotRotating, SshKeys!Run, SshKeys!Counted, SshKeys!AloneInv, SshKeys!Alone,
         SshKeys!At, SshKeys!Opens, SshKeys!NoOrphanLine, SshKeys!SomeKeyOpens
    <3> QED BY <3>2, <3>3, <3>4, <3>5, <3>6
  <2> QED BY <2>1, <2>2
<1>12. ASSUME NEW w \in Rotators, SshKeys!Revoke(w)
       PROVE  /\ SshKeys!TypeOK' /\ SshKeys!Counted' /\ SshKeys!NoOrphanLine'
              /\ SshKeys!SomeKeyOpens' /\ SshKeys!AloneInv'
  <2>1. /\ rotation[w].at = "revoke"
        /\ keyVault' = keyVault \ {rotation[w].current}
        /\ rotation' = [rotation EXCEPT ![w] = [at |-> "idle"]]
        /\ UNCHANGED <<keyRef, authKeys, keysMade, tornPuts, together>>
    BY <1>12, Zenon DEF SshKeys!Revoke, SshKeys!At, SshKeys!Done, SshKeys!NotRotating,
       SshKeys!budget
  <2>2. SshKeys!TypeOK'
    BY <2>1 DEF SshKeys!TypeOK, SshKeys!HubKeys, SshKeys!Places, SshKeys!NotRotating,
       SshKeys!Run, SshKeys!Counted
  <2>3. SshKeys!Counted'
    BY <2>1, <2>2 DEF SshKeys!TypeOK, SshKeys!HubKeys, SshKeys!Places, SshKeys!NotRotating,
       SshKeys!Run, SshKeys!Counted
  <2>4. SshKeys!NoOrphanLine'
    BY <2>1, <2>2 DEF SshKeys!TypeOK, SshKeys!HubKeys, SshKeys!Places, SshKeys!NotRotating,
       SshKeys!Run, SshKeys!Counted, SshKeys!AloneInv, SshKeys!Alone, SshKeys!At,
       SshKeys!Opens, SshKeys!NoOrphanLine, SshKeys!SomeKeyOpens
  <2>5. SshKeys!SomeKeyOpens'
    BY <2>1, <2>2 DEF SshKeys!TypeOK, SshKeys!HubKeys, SshKeys!Places, SshKeys!NotRotating,
       SshKeys!Run, SshKeys!Counted, SshKeys!AloneInv, SshKeys!Alone, SshKeys!At,
       SshKeys!Opens, SshKeys!NoOrphanLine, SshKeys!SomeKeyOpens
  <2>6. SshKeys!AloneInv'
    BY <2>1, <2>2 DEF SshKeys!TypeOK, SshKeys!HubKeys, SshKeys!Places, SshKeys!NotRotating,
       SshKeys!Run, SshKeys!Counted, SshKeys!AloneInv, SshKeys!Alone, SshKeys!At,
       SshKeys!Opens, SshKeys!NoOrphanLine, SshKeys!SomeKeyOpens
  <2> QED BY <2>2, <2>3, <2>4, <2>5, <2>6
<1>13. ASSUME NEW w \in Rotators, SshKeys!Die(w)
       PROVE  /\ SshKeys!TypeOK' /\ SshKeys!Counted' /\ SshKeys!NoOrphanLine'
              /\ SshKeys!SomeKeyOpens' /\ SshKeys!AloneInv'
  <2>1. /\ rotation' = [rotation EXCEPT ![w] = [at |-> "idle"]]
        /\ UNCHANGED <<keyRef, keyVault, authKeys, keysMade, tornPuts, together>>
    BY <1>13, Zenon DEF SshKeys!Die, SshKeys!At, SshKeys!Done, SshKeys!NotRotating
  <2>2. SshKeys!TypeOK'
    BY <2>1 DEF SshKeys!TypeOK, SshKeys!HubKeys, SshKeys!Places, SshKeys!NotRotating,
       SshKeys!Run, SshKeys!Counted
  <2>3. SshKeys!Counted'
    BY <2>1, <2>2 DEF SshKeys!TypeOK, SshKeys!HubKeys, SshKeys!Places, SshKeys!NotRotating,
       SshKeys!Run, SshKeys!Counted
  <2>4. SshKeys!NoOrphanLine'
    BY <2>1, <2>2 DEF SshKeys!TypeOK, SshKeys!HubKeys, SshKeys!Places, SshKeys!NotRotating,
       SshKeys!Run, SshKeys!Counted, SshKeys!AloneInv, SshKeys!Alone, SshKeys!At,
       SshKeys!Opens, SshKeys!NoOrphanLine, SshKeys!SomeKeyOpens
  <2>5. SshKeys!SomeKeyOpens'
    BY <2>1, <2>2 DEF SshKeys!TypeOK, SshKeys!HubKeys, SshKeys!Places, SshKeys!NotRotating,
       SshKeys!Run, SshKeys!Counted, SshKeys!AloneInv, SshKeys!Alone, SshKeys!At,
       SshKeys!Opens, SshKeys!NoOrphanLine, SshKeys!SomeKeyOpens
  <2>6. SshKeys!AloneInv'
    BY <2>1, <2>2 DEF SshKeys!TypeOK, SshKeys!HubKeys, SshKeys!Places, SshKeys!NotRotating,
       SshKeys!Run, SshKeys!Counted, SshKeys!AloneInv, SshKeys!Alone, SshKeys!At,
       SshKeys!Opens, SshKeys!NoOrphanLine, SshKeys!SomeKeyOpens
  <2> QED BY <2>2, <2>3, <2>4, <2>5, <2>6
<1>14. ASSUME NEW w \in Rotators, SshKeys!TornPut(w)
       PROVE  /\ SshKeys!TypeOK' /\ SshKeys!Counted' /\ SshKeys!NoOrphanLine'
              /\ SshKeys!SomeKeyOpens' /\ SshKeys!AloneInv'
  <2>1. CASE rotation[w].at = "append"
    <3>1. /\ authKeys' \in SUBSET rotation[w].text
          /\ tornPuts' = tornPuts + 1
          /\ rotation' = [rotation EXCEPT ![w] = [at |-> "idle"]]
          /\ UNCHANGED <<keyRef, keyVault, keysMade, together>>
      BY <1>14, <2>1, Zenon DEF SshKeys!TornPut, SshKeys!At, SshKeys!Done, SshKeys!NotRotating
    <3>2. SshKeys!TypeOK'
      BY <3>1, <2>1 DEF SshKeys!TypeOK, SshKeys!HubKeys, SshKeys!Places, SshKeys!NotRotating,
         SshKeys!Run, SshKeys!Counted
    <3>3. SshKeys!Counted'
      BY <3>1, <2>1, <3>2 DEF SshKeys!TypeOK, SshKeys!HubKeys, SshKeys!Places,
         SshKeys!NotRotating, SshKeys!Run, SshKeys!Counted
    <3>4. SshKeys!NoOrphanLine'
      BY <3>1, <2>1, <3>2 DEF SshKeys!TypeOK, SshKeys!HubKeys, SshKeys!Places,
         SshKeys!NotRotating, SshKeys!Run, SshKeys!Counted, SshKeys!AloneInv, SshKeys!Alone,
         SshKeys!At, SshKeys!Opens, SshKeys!NoOrphanLine, SshKeys!SomeKeyOpens
    <3>5. SshKeys!SomeKeyOpens'
      BY <3>1, <2>1, <3>2 DEF SshKeys!TypeOK, SshKeys!HubKeys, SshKeys!Places,
         SshKeys!NotRotating, SshKeys!Run, SshKeys!Counted, SshKeys!AloneInv, SshKeys!Alone,
         SshKeys!At, SshKeys!Opens, SshKeys!NoOrphanLine, SshKeys!SomeKeyOpens
    <3>6. SshKeys!AloneInv'
      BY <3>1, <2>1, <3>2 DEF SshKeys!TypeOK, SshKeys!HubKeys, SshKeys!Places,
         SshKeys!NotRotating, SshKeys!Run, SshKeys!Counted, SshKeys!AloneInv, SshKeys!Alone,
         SshKeys!At, SshKeys!Opens, SshKeys!NoOrphanLine, SshKeys!SomeKeyOpens
    <3> QED BY <3>2, <3>3, <3>4, <3>5, <3>6
  <2>2. CASE rotation[w].at = "drop"
    <3>1. /\ authKeys' \in SUBSET (rotation[w].text \ {rotation[w].current})
          /\ tornPuts' = tornPuts + 1
          /\ rotation' = [rotation EXCEPT ![w] = [at |-> "idle"]]
          /\ UNCHANGED <<keyRef, keyVault, keysMade, together>>
      BY <1>14, <2>2, Zenon DEF SshKeys!TornPut, SshKeys!At, SshKeys!Done, SshKeys!NotRotating
    <3>2. SshKeys!TypeOK'
      BY <3>1, <2>2 DEF SshKeys!TypeOK, SshKeys!HubKeys, SshKeys!Places, SshKeys!NotRotating,
         SshKeys!Run, SshKeys!Counted
    <3>3. SshKeys!Counted'
      BY <3>1, <2>2, <3>2 DEF SshKeys!TypeOK, SshKeys!HubKeys, SshKeys!Places,
         SshKeys!NotRotating, SshKeys!Run, SshKeys!Counted
    <3>4. SshKeys!NoOrphanLine'
      BY <3>1, <2>2, <3>2 DEF SshKeys!TypeOK, SshKeys!HubKeys, SshKeys!Places,
         SshKeys!NotRotating, SshKeys!Run, SshKeys!Counted, SshKeys!AloneInv, SshKeys!Alone,
         SshKeys!At, SshKeys!Opens, SshKeys!NoOrphanLine, SshKeys!SomeKeyOpens
    <3>5. SshKeys!SomeKeyOpens'
      BY <3>1, <2>2, <3>2 DEF SshKeys!TypeOK, SshKeys!HubKeys, SshKeys!Places,
         SshKeys!NotRotating, SshKeys!Run, SshKeys!Counted, SshKeys!AloneInv, SshKeys!Alone,
         SshKeys!At, SshKeys!Opens, SshKeys!NoOrphanLine, SshKeys!SomeKeyOpens
    <3>6. SshKeys!AloneInv'
      BY <3>1, <2>2, <3>2 DEF SshKeys!TypeOK, SshKeys!HubKeys, SshKeys!Places,
         SshKeys!NotRotating, SshKeys!Run, SshKeys!Counted, SshKeys!AloneInv, SshKeys!Alone,
         SshKeys!At, SshKeys!Opens, SshKeys!NoOrphanLine, SshKeys!SomeKeyOpens
    <3> QED BY <3>2, <3>3, <3>4, <3>5, <3>6
  <2> QED BY <2>1, <2>2, <1>14 DEF SshKeys!TornPut, SshKeys!At
<1>15. CASE UNCHANGED sshKeysState
  BY <1>15 DEF sshKeysState, SshKeys!TypeOK, SshKeys!HubKeys, SshKeys!Places,
     SshKeys!NotRotating, SshKeys!Run, SshKeys!Counted, SshKeys!AloneInv, SshKeys!Alone,
     SshKeys!At, SshKeys!Opens, SshKeys!NoOrphanLine, SshKeys!SomeKeyOpens
<1> QED
  BY <1>1, <1>2, <1>3, <1>4, <1>5, <1>6, <1>7, <1>8, <1>9, <1>10, <1>11, <1>12, <1>13, <1>14,
     <1>15 DEF SshKeys!Next

\* What a lone rotation relies on, wherever the keys are what moves.
KeysAll == focus = "sshKeys" => SshKeys!TypeOK /\ SshKeys!Counted /\ SshKeys!NoOrphanLine
    /\ SshKeys!SomeKeyOpens /\ SshKeys!AloneInv

\* The composition keeps the invariant of the rotation.
LEMMA KeysInvariant == Spec => []KeysAll
<1>1. Init => KeysAll
  <2> SUFFICES ASSUME SshKeys!Init
               PROVE  /\ SshKeys!TypeOK /\ SshKeys!Counted /\ SshKeys!NoOrphanLine
                      /\ SshKeys!SomeKeyOpens /\ SshKeys!AloneInv
    BY DEF Init, SshKeysStarts, KeysAll
  <2>a. keysMade = 1 /\ tornPuts = 0 /\ keyVault = {1} /\ together \in BOOLEAN
    BY Zenon DEF SshKeys!Init
  <2>1. SshKeys!TypeOK
    BY RotationBounds DEF SshKeys!TypeOK, SshKeys!HubKeys, SshKeys!Places, SshKeys!NotRotating,
       SshKeys!Run, SshKeys!Counted, SshKeys!AloneInv, SshKeys!Alone, SshKeys!At,
       SshKeys!Opens, SshKeys!NoOrphanLine, SshKeys!SomeKeyOpens, SshKeys!Init
  <2>2. SshKeys!Counted
    BY <2>a, RotationBounds DEF SshKeys!Counted
  <2>3. SshKeys!NoOrphanLine
    BY RotationBounds DEF SshKeys!TypeOK, SshKeys!HubKeys, SshKeys!Places, SshKeys!NotRotating,
       SshKeys!Run, SshKeys!Counted, SshKeys!AloneInv, SshKeys!Alone, SshKeys!At,
       SshKeys!Opens, SshKeys!NoOrphanLine, SshKeys!SomeKeyOpens, SshKeys!Init
  <2>4. SshKeys!SomeKeyOpens
    BY RotationBounds DEF SshKeys!TypeOK, SshKeys!HubKeys, SshKeys!Places, SshKeys!NotRotating,
       SshKeys!Run, SshKeys!Counted, SshKeys!AloneInv, SshKeys!Alone, SshKeys!At,
       SshKeys!Opens, SshKeys!NoOrphanLine, SshKeys!SomeKeyOpens, SshKeys!Init
  <2>5. SshKeys!AloneInv
    BY RotationBounds DEF SshKeys!TypeOK, SshKeys!HubKeys, SshKeys!Places, SshKeys!NotRotating,
       SshKeys!Run, SshKeys!Counted, SshKeys!AloneInv, SshKeys!Alone, SshKeys!At,
       SshKeys!Opens, SshKeys!NoOrphanLine, SshKeys!SomeKeyOpens, SshKeys!Init
  <2> QED BY <2>1, <2>2, <2>3, <2>4, <2>5
<1>2. KeysAll /\ [Next]_allVars => KeysAll'
  <2> SUFFICES ASSUME KeysAll, [Next]_allVars, focus = "sshKeys"
               PROVE  /\ SshKeys!TypeOK' /\ SshKeys!Counted' /\ SshKeys!NoOrphanLine'
                      /\ SshKeys!SomeKeyOpens' /\ SshKeys!AloneInv'
    BY OneAtATime DEF KeysAll
  <2>1. /\ SshKeys!TypeOK /\ SshKeys!Counted /\ SshKeys!NoOrphanLine /\ SshKeys!SomeKeyOpens
        /\ SshKeys!AloneInv /\ [SshKeys!Next]_sshKeysState
    BY OneAtATime DEF KeysAll
  <2> QED BY <2>1, RotationNext
<1> QED BY <1>1, <1>2, PTL DEF Spec

\* provision/ssh_rotate.py: whichever step a rotation that is alone dies at, a key of the vault opens
\* the host unless a put was torn, and no line on the host is without its key, for any number
\* of workers, keys, runs, faults and deaths.
THEOREM KeysTheorem == Spec => []KeysHold
<1>1. KeysAll => KeysHold
  BY DEF KeysAll, KeysHold
<1> QED BY <1>1, KeysInvariant, PTL

---------------------------------------------------------------------------
(* The wizard *)

\* What the scrubs leave is a set of answers in which no question got a yes it did not have.
LEMMA ScrubFacts ==
    ASSUME NEW r \in Reports \cup {Nothing}, NEW a \in Wizard!Answers
    PROVE  /\ Wizard!ScrubOrphans(r, a) \in Wizard!Answers /\ Wizard!Scrubbed(r, a) \in Wizard!Answers
           /\ \A w \in Wordings :
                /\ Wizard!ScrubOrphans(r, a).confirm[w] = "yes" => a.confirm[w] = "yes"
                /\ Wizard!Scrubbed(r, a).confirm[w] = "yes" => a.confirm[w] = "yes"
           /\ r # Nothing => \A w \in r.decls : Wizard!ScrubOrphans(r, a).confirm[w] = a.confirm[w]
<1> DEFINE kept(b) == [w \in Wordings |-> IF r = Nothing \/ Wizard!Asks(r, w) THEN b.confirm[w] ELSE Nothing]
<1>1. ASSUME NEW b \in Wizard!Answers
      PROVE  /\ Wizard!ScrubOrphans(r, b) \in Wizard!Answers
             /\ \A w \in Wordings : Wizard!ScrubOrphans(r, b).confirm[w] = "yes" => b.confirm[w] = "yes"
             /\ \A w \in Wordings : r # Nothing /\ Wizard!Asks(r, w) =>
                    Wizard!ScrubOrphans(r, b).confirm[w] = b.confirm[w]
  <2>1. b.confirm \in [Wordings -> {Nothing, "yes", "no"}]
    BY DEF Wizard!Answers
  <2>2. kept(b) \in [Wordings -> {Nothing, "yes", "no"}]
    BY <2>1
  <2>3. Wizard!ScrubOrphans(r, b) = [b EXCEPT !.confirm = kept(b)]
    BY DEF Wizard!ScrubOrphans
  <2>4. Wizard!ScrubOrphans(r, b).confirm = kept(b) /\ Wizard!ScrubOrphans(r, b) \in Wizard!Answers
    BY <2>2, <2>3 DEF Wizard!Answers
  <2> QED BY <2>4, WizardBounds
<1>2. ASSUME NEW b \in Wizard!Answers
      PROVE  Wizard!ScrubDowngraded(r, b) \in Wizard!Answers /\ Wizard!ScrubDowngraded(r, b).confirm = b.confirm
  <2>1. Wizard!ScrubDowngraded(r, b) = [b EXCEPT !.env = IF Wizard!Downgraded(r, b) THEN Nothing ELSE b.env]
    BY DEF Wizard!ScrubDowngraded
  <2>2. (IF Wizard!Downgraded(r, b) THEN Nothing ELSE b.env) \in {Nothing, "plain", "vaulted"}
    BY DEF Wizard!Answers
  <2> QED BY <2>1, <2>2 DEF Wizard!Answers
<1>3. Wizard!Scrubbed(r, a) = Wizard!ScrubOrphans(r, Wizard!ScrubDowngraded(r, a))
  BY DEF Wizard!Scrubbed
<1>4. r # Nothing => \A w \in r.decls : w \in Wordings /\ Wizard!Asks(r, w)
  BY WizardBounds DEF Wizard!Asks, Wizard!ConfirmId
<1> HIDE DEF kept
<1> QED BY <1>1, <1>2, <1>3, <1>4

\* A PATCH that commits: the answers hold no yes that nobody said, and whoever waits to freeze
\* has seen them move.
LEMMA SavedKeeps ==
    ASSUME Wizard!TypeOK, Wizard!YesWasSaid, Wizard!GateHolds, Wizard!AcceptedAsWorded, Wizard!FrozenIsGated,
           NEW c \in Clients, NEW new \in Wizard!Answers, Wizard!Saved(c, new), said \subseteq said',
           said' \subseteq Wordings, \A w \in Wordings : new.confirm[w] = "yes" => w \in said'
    PROVE  /\ Wizard!TypeOK' /\ Wizard!YesWasSaid' /\ Wizard!GateHolds' /\ Wizard!AcceptedAsWorded'
           /\ Wizard!FrozenIsGated'
<1>1. /\ client[c].at = "save" /\ answers' = new /\ rowLock' = Nothing
      /\ client' = [client EXCEPT ![c] = [at |-> "idle", report |-> Nothing]]
      /\ UNCHANGED <<source, stored, manifests, scan>>
      /\ moved' = IF new # answers THEN {d \in Clients : client[d].at = "freeze"} \cup moved ELSE moved
  BY Zenon DEF Wizard!Saved, Wizard!Idle
<1>2. Wizard!TypeOK'
  BY <1>1, WizardBounds DEF Wizard!TypeOK
<1>3. Wizard!YesWasSaid'
  BY <1>1 DEF Wizard!YesWasSaid
<1>4. Wizard!GateHolds'
  <2> SUFFICES ASSUME NEW d \in Clients, client'[d].at = "freeze"
               PROVE  /\ client'[d].report.current /\ ~client'[d].report.hard
                      /\ d \in moved' \/ \A w \in client'[d].report.soft : answers'.confirm[w] = "yes"
    BY Zenon DEF Wizard!GateHolds
  <2>1. client'[d] = client[d] /\ client[d].at = "freeze"
    BY <1>1 DEF Wizard!TypeOK
  <2>2. /\ client[d].report.current /\ ~client[d].report.hard
        /\ d \in moved \/ \A w \in client[d].report.soft : answers.confirm[w] = "yes"
    BY <2>1, Zenon DEF Wizard!GateHolds
  <2>3. d \in moved' \/ \A w \in client[d].report.soft : answers'.confirm[w] = "yes"
    BY <1>1, <2>1, <2>2
  <2> QED BY <2>1, <2>2, <2>3
<1>5. Wizard!AcceptedAsWorded'
  BY <1>1 DEF Wizard!AcceptedAsWorded
<1>6. Wizard!FrozenIsGated'
  BY <1>1 DEF Wizard!FrozenIsGated
<1> QED BY <1>2, <1>3, <1>4, <1>5, <1>6

\* A step of a scan, of a PATCH and of a materialize keeps what the gate relies on.
LEMMA WizardNext ==
    /\ Wizard!TypeOK /\ Wizard!YesWasSaid /\ Wizard!GateHolds /\ Wizard!AcceptedAsWorded
    /\ Wizard!FrozenIsGated /\ [Wizard!Next]_wizardState
    => /\ Wizard!TypeOK' /\ Wizard!YesWasSaid' /\ Wizard!GateHolds' /\ Wizard!AcceptedAsWorded'
       /\ Wizard!FrozenIsGated'
<1> SUFFICES ASSUME Wizard!TypeOK, Wizard!YesWasSaid, Wizard!GateHolds,
                    Wizard!AcceptedAsWorded, Wizard!FrozenIsGated, [Wizard!Next]_wizardState
             PROVE  /\ Wizard!TypeOK' /\ Wizard!YesWasSaid' /\ Wizard!GateHolds'
                    /\ Wizard!AcceptedAsWorded' /\ Wizard!FrozenIsGated'
  OBVIOUS
<1>1. ASSUME NEW m \in BOOLEAN, NEW z \in EligibleZones \cup {Nothing},
             NEW t \in Machines \cup {Nothing}, Wizard!CreateProject(m, z, t)
      PROVE  /\ Wizard!TypeOK' /\ Wizard!YesWasSaid' /\ Wizard!GateHolds'
             /\ Wizard!AcceptedAsWorded' /\ Wizard!FrozenIsGated'
  <2>1. /\ UNCHANGED <<source, stored, rowLock, client, scan>>
        /\ UNCHANGED <<answers, said, moved, manifests>>
    BY <1>1, Zenon DEF Wizard!CreateProject
  <2>2. Wizard!TypeOK'
    BY <2>1, WizardBounds DEF Wizard!TypeOK
  <2>3. Wizard!YesWasSaid' /\ Wizard!AcceptedAsWorded' /\ Wizard!FrozenIsGated'
    BY <2>1 DEF Wizard!YesWasSaid, Wizard!AcceptedAsWorded, Wizard!FrozenIsGated
  <2>4. \A d \in Clients : client'[d].at = "freeze" => client[d] = client'[d]
    BY <2>1 DEF Wizard!TypeOK
  <2>5. Wizard!GateHolds'
    BY <2>1, <2>4 DEF Wizard!GateHolds
  <2> QED BY <2>2, <2>3, <2>5
<1>2. ASSUME NEW r \in Reports, Wizard!EditSource(r)
      PROVE  /\ Wizard!TypeOK' /\ Wizard!YesWasSaid' /\ Wizard!GateHolds'
             /\ Wizard!AcceptedAsWorded' /\ Wizard!FrozenIsGated'
  <2>1. /\ source' = r
        /\ UNCHANGED <<stored, rowLock, client, scan>>
        /\ UNCHANGED <<answers, said, moved, manifests>>
    BY <1>2, Zenon DEF Wizard!EditSource
  <2>2. Wizard!TypeOK'
    BY <2>1, WizardBounds DEF Wizard!TypeOK
  <2>3. Wizard!YesWasSaid' /\ Wizard!AcceptedAsWorded' /\ Wizard!FrozenIsGated'
    BY <2>1 DEF Wizard!YesWasSaid, Wizard!AcceptedAsWorded, Wizard!FrozenIsGated
  <2>4. \A d \in Clients : client'[d].at = "freeze" => client[d] = client'[d]
    BY <2>1 DEF Wizard!TypeOK
  <2>5. Wizard!GateHolds'
    BY <2>1, <2>4 DEF Wizard!GateHolds
  <2> QED BY <2>2, <2>3, <2>5
<1>3. ASSUME NEW k \in Scans, Wizard!ScanStart(k)
      PROVE  /\ Wizard!TypeOK' /\ Wizard!YesWasSaid' /\ Wizard!GateHolds'
             /\ Wizard!AcceptedAsWorded' /\ Wizard!FrozenIsGated'
  <2>1. /\ scan' = [scan EXCEPT ![k] = [at |-> "scanned", report |-> source]]
        /\ UNCHANGED <<source, stored, rowLock, client>>
        /\ UNCHANGED <<answers, said, moved, manifests>>
    BY <1>3, Zenon DEF Wizard!ScanStart
  <2>2. Wizard!TypeOK'
    BY <2>1, WizardBounds DEF Wizard!TypeOK
  <2>3. Wizard!YesWasSaid' /\ Wizard!AcceptedAsWorded' /\ Wizard!FrozenIsGated'
    BY <2>1 DEF Wizard!YesWasSaid, Wizard!AcceptedAsWorded, Wizard!FrozenIsGated
  <2>4. \A d \in Clients : client'[d].at = "freeze" => client[d] = client'[d]
    BY <2>1 DEF Wizard!TypeOK
  <2>5. Wizard!GateHolds'
    BY <2>1, <2>4 DEF Wizard!GateHolds
  <2> QED BY <2>2, <2>3, <2>5
<1>4. ASSUME NEW k \in Scans, Wizard!ScanSave(k)
      PROVE  /\ Wizard!TypeOK' /\ Wizard!YesWasSaid' /\ Wizard!GateHolds'
             /\ Wizard!AcceptedAsWorded' /\ Wizard!FrozenIsGated'
  <2>1. /\ scan' = [scan EXCEPT ![k] = [at |-> "idle", report |-> Nothing]]
        /\ stored' = scan[k].report
        /\ UNCHANGED <<source, rowLock, client>>
        /\ UNCHANGED <<answers, said, moved, manifests>>
    BY <1>4, Zenon DEF Wizard!ScanSave, Wizard!Idle
  <2>2. Wizard!TypeOK'
    BY <2>1, WizardBounds DEF Wizard!TypeOK
  <2>3. Wizard!YesWasSaid' /\ Wizard!AcceptedAsWorded' /\ Wizard!FrozenIsGated'
    BY <2>1 DEF Wizard!YesWasSaid, Wizard!AcceptedAsWorded, Wizard!FrozenIsGated
  <2>4. \A d \in Clients : client'[d].at = "freeze" => client[d] = client'[d]
    BY <2>1 DEF Wizard!TypeOK
  <2>5. Wizard!GateHolds'
    BY <2>1, <2>4 DEF Wizard!GateHolds
  <2> QED BY <2>2, <2>3, <2>5
<1>5. ASSUME NEW c \in Clients, Wizard!WizardView(c)
      PROVE  /\ Wizard!TypeOK' /\ Wizard!YesWasSaid' /\ Wizard!GateHolds'
             /\ Wizard!AcceptedAsWorded' /\ Wizard!FrozenIsGated'
  <2>1. /\ client[c].at = "idle" /\ rowLock = Nothing /\ rowLock' = c
        /\ client' = [client EXCEPT ![c] = [at |-> "save", report |-> stored]]
        /\ UNCHANGED <<source, stored, scan>>
        /\ UNCHANGED <<answers, said, moved, manifests>>
    BY <1>5, Zenon DEF Wizard!WizardView, Wizard!SetAnswers
  <2>2. Wizard!TypeOK'
    BY <2>1, WizardBounds DEF Wizard!TypeOK
  <2>3. Wizard!YesWasSaid' /\ Wizard!AcceptedAsWorded' /\ Wizard!FrozenIsGated'
    BY <2>1 DEF Wizard!YesWasSaid, Wizard!AcceptedAsWorded, Wizard!FrozenIsGated
  <2>4. \A d \in Clients : client'[d].at = "freeze" => client[d] = client'[d]
    BY <2>1 DEF Wizard!TypeOK
  <2>5. Wizard!GateHolds'
    BY <2>1, <2>4 DEF Wizard!GateHolds
  <2> QED BY <2>2, <2>3, <2>5
<1>6. ASSUME NEW c \in Clients, Wizard!ManifestView(c)
      PROVE  /\ Wizard!TypeOK' /\ Wizard!YesWasSaid' /\ Wizard!GateHolds'
             /\ Wizard!AcceptedAsWorded' /\ Wizard!FrozenIsGated'
  <2>1. /\ client[c].at = "idle"
        /\ client' = [client EXCEPT ![c] = [at |-> "gate", report |-> stored]]
        /\ UNCHANGED <<source, stored, rowLock, scan>>
        /\ UNCHANGED <<answers, said, moved, manifests>>
    BY <1>6, Zenon DEF Wizard!ManifestView, Wizard!Materialize
  <2>2. Wizard!TypeOK'
    BY <2>1, WizardBounds DEF Wizard!TypeOK
  <2>3. Wizard!YesWasSaid' /\ Wizard!AcceptedAsWorded' /\ Wizard!FrozenIsGated'
    BY <2>1 DEF Wizard!YesWasSaid, Wizard!AcceptedAsWorded, Wizard!FrozenIsGated
  <2>4. \A d \in Clients : client'[d].at = "freeze" => client[d] = client'[d]
    BY <2>1 DEF Wizard!TypeOK
  <2>5. Wizard!GateHolds'
    BY <2>1, <2>4 DEF Wizard!GateHolds
  <2> QED BY <2>2, <2>3, <2>5
<1>7. ASSUME NEW c \in Clients, Wizard!SaveDomain(c)
      PROVE  /\ Wizard!TypeOK' /\ Wizard!YesWasSaid' /\ Wizard!GateHolds'
             /\ Wizard!AcceptedAsWorded' /\ Wizard!FrozenIsGated'
  <2>1. client[c].report \in Reports \cup {Nothing} /\ answers \in Wizard!Answers
    BY DEF Wizard!TypeOK
  <2> DEFINE old == Wizard!Scrubbed(client[c].report, answers)
  <2>2. /\ old \in Wizard!Answers /\ \A w \in Wordings : old.confirm[w] = "yes" => w \in said
    BY <2>1, ScrubFacts DEF Wizard!YesWasSaid
  <2> HIDE DEF old
  <2>3. Wizard!Saved(c, [old EXCEPT !.domain = TRUE]) /\ said' = said
    BY <1>7, Zenon DEF Wizard!SaveDomain, old
  <2>4. /\ [old EXCEPT !.domain = TRUE] \in Wizard!Answers
        /\ [old EXCEPT !.domain = TRUE].confirm = old.confirm
    BY <2>2 DEF Wizard!Answers
  <2>5. said \subseteq Wordings
    BY DEF Wizard!TypeOK
  <2> QED BY <2>2, <2>3, <2>4, <2>5, SavedKeeps
<1>8. ASSUME NEW c \in Clients, Wizard!SaveEnv(c)
      PROVE  /\ Wizard!TypeOK' /\ Wizard!YesWasSaid' /\ Wizard!GateHolds'
             /\ Wizard!AcceptedAsWorded' /\ Wizard!FrozenIsGated'
  <2>1. client[c].report \in Reports \cup {Nothing} /\ answers \in Wizard!Answers
    BY DEF Wizard!TypeOK
  <2> DEFINE old == Wizard!Scrubbed(client[c].report, answers)
  <2>2. /\ old \in Wizard!Answers /\ \A w \in Wordings : old.confirm[w] = "yes" => w \in said
    BY <2>1, ScrubFacts DEF Wizard!YesWasSaid
  <2> HIDE DEF old
  <2> DEFINE env == IF client[c].report.secret THEN "vaulted" ELSE "plain"
  <2>3. Wizard!Saved(c, [old EXCEPT !.env = env]) /\ said' = said
    BY <1>8, Zenon DEF Wizard!SaveEnv, old
  <2>4. /\ [old EXCEPT !.env = env] \in Wizard!Answers
        /\ [old EXCEPT !.env = env].confirm = old.confirm
    BY <2>2 DEF Wizard!Answers
  <2>5. said \subseteq Wordings
    BY DEF Wizard!TypeOK
  <2> QED BY <2>2, <2>3, <2>4, <2>5, SavedKeeps
<1>9. ASSUME NEW c \in Clients, NEW w \in Wordings, NEW v \in {"yes", "no"},
             Wizard!SaveConfirm(c, w, v)
      PROVE  /\ Wizard!TypeOK' /\ Wizard!YesWasSaid' /\ Wizard!GateHolds'
             /\ Wizard!AcceptedAsWorded' /\ Wizard!FrozenIsGated'
  <2>1. client[c].report \in Reports \cup {Nothing} /\ answers \in Wizard!Answers
    BY DEF Wizard!TypeOK
  <2> DEFINE old == Wizard!Scrubbed(client[c].report, answers)
  <2>2. /\ old \in Wizard!Answers /\ \A x \in Wordings : old.confirm[x] = "yes" => x \in said
    BY <2>1, ScrubFacts DEF Wizard!YesWasSaid
  <2> HIDE DEF old
  <2>3. Wizard!Saved(c, [old EXCEPT !.confirm[w] = v])
    BY <1>9, Zenon DEF Wizard!SaveConfirm, Wizard!ConfirmId, old
  <2>4. said' = IF v = "yes" THEN said \cup {w} ELSE said
    BY <1>9, Zenon DEF Wizard!SaveConfirm
  <2>5. old.confirm \in [Wordings -> {Nothing, "yes", "no"}]
    BY <2>2 DEF Wizard!Answers
  <2>6. [old EXCEPT !.confirm[w] = v] = [old EXCEPT !.confirm = [old.confirm EXCEPT ![w] = v]]
    BY <2>2 DEF Wizard!Answers
  <2>7. /\ [old EXCEPT !.confirm[w] = v] \in Wizard!Answers
        /\ [old EXCEPT !.confirm[w] = v].confirm = [old.confirm EXCEPT ![w] = v]
    BY <2>2, <2>5, <2>6 DEF Wizard!Answers
  <2>8. \A x \in Wordings : [old EXCEPT !.confirm[w] = v].confirm[x] = "yes" => x \in said'
    BY <2>2, <2>4, <2>5, <2>7
  <2>9. said \subseteq said' /\ said' \subseteq Wordings
    BY <2>4 DEF Wizard!TypeOK
  <2> QED BY <2>3, <2>7, <2>8, <2>9, SavedKeeps
<1>10. ASSUME NEW c \in Clients, Wizard!SaveRefused(c)
       PROVE  /\ Wizard!TypeOK' /\ Wizard!YesWasSaid' /\ Wizard!GateHolds'
              /\ Wizard!AcceptedAsWorded' /\ Wizard!FrozenIsGated'
  <2>1. Wizard!Saved(c, answers) /\ said' = said
    BY <1>10, Zenon DEF Wizard!SaveRefused
  <2>2. answers \in Wizard!Answers /\ said \subseteq Wordings
    BY DEF Wizard!TypeOK
  <2> QED BY <2>1, <2>2, SavedKeeps DEF Wizard!YesWasSaid
<1>11. ASSUME NEW c \in Clients, NEW b \in BOOLEAN, Wizard!Gate(c, b)
       PROVE  /\ Wizard!TypeOK' /\ Wizard!YesWasSaid' /\ Wizard!GateHolds'
              /\ Wizard!AcceptedAsWorded' /\ Wizard!FrozenIsGated'
  <2>1. client[c].report \in Reports \cup {Nothing} /\ answers \in Wizard!Answers
    BY DEF Wizard!TypeOK
  <2>2. /\ client[c].at = "gate"
        /\ UNCHANGED <<source, stored, answers, manifests, rowLock, scan, said, moved>>
    BY <1>11, Zenon DEF Wizard!Gate
  <2>3. CASE /\ Wizard!Preflight(client[c].report, Wizard!Scrubbed(client[c].report, answers))
             /\ client' = [client EXCEPT ![c] = [client[c] EXCEPT !.at = "freeze"]]
    <3>1. /\ client[c].report \in Reports /\ client[c].report.current /\ ~client[c].report.hard
          /\ \A w \in client[c].report.soft : Wizard!Scrubbed(client[c].report,
              answers).confirm[w] = "yes"
      BY <2>1, <2>3, Zenon DEF Wizard!Preflight, Wizard!Cleared, Wizard!ConfirmId
    <3>2. \A w \in client[c].report.soft : answers.confirm[w] = "yes"
      BY <2>1, <3>1, ScrubFacts, WizardBounds
    <3>3. /\ client'[c].at = "freeze" /\ client'[c].report = client[c].report
          /\ client'[c] \in [at : {"idle", "save", "gate", "freeze"},
              report : Reports \cup {Nothing}]
          /\ \A d \in Clients : d # c => client'[d] = client[d]
      BY <2>3 DEF Wizard!TypeOK
    <3>4. Wizard!TypeOK'
      BY <2>2, <2>3, <3>1, <3>3 DEF Wizard!TypeOK
    <3>5. Wizard!GateHolds'
      BY <2>2, <3>1, <3>2, <3>3 DEF Wizard!GateHolds
    <3>6. Wizard!YesWasSaid' /\ Wizard!AcceptedAsWorded' /\ Wizard!FrozenIsGated'
      BY <2>2 DEF Wizard!YesWasSaid, Wizard!AcceptedAsWorded, Wizard!FrozenIsGated
    <3> QED BY <3>4, <3>5, <3>6
  <2>4. CASE client' = [client EXCEPT ![c] = Wizard!Idle]
    <3>1. client' = [client EXCEPT ![c] = [at |-> "idle", report |-> Nothing]]
      BY <2>4 DEF Wizard!Idle
    <3>2. Wizard!TypeOK'
      BY <2>2, <3>1 DEF Wizard!TypeOK
    <3>3. \A d \in Clients : client'[d].at = "freeze" => client[d] = client'[d]
      BY <3>1 DEF Wizard!TypeOK
    <3>4. Wizard!GateHolds'
      BY <2>2, <3>3 DEF Wizard!GateHolds
    <3>5. Wizard!YesWasSaid' /\ Wizard!AcceptedAsWorded' /\ Wizard!FrozenIsGated'
      BY <2>2 DEF Wizard!YesWasSaid, Wizard!AcceptedAsWorded, Wizard!FrozenIsGated
    <3> QED BY <3>2, <3>4, <3>5
  <2> QED BY <1>11, <2>3, <2>4, Zenon DEF Wizard!Gate
<1>12. ASSUME NEW c \in Clients, Wizard!Freeze(c)
       PROVE  /\ Wizard!TypeOK' /\ Wizard!YesWasSaid' /\ Wizard!GateHolds'
              /\ Wizard!AcceptedAsWorded' /\ Wizard!FrozenIsGated'
  <2> DEFINE r == client[c].report
  <2> DEFINE a == Wizard!ScrubOrphans(r, answers)
  <2> DEFINE m == [report |-> r, accepted |-> Wizard!Accepted(r, a),
          refused |-> r.decls \ Wizard!Accepted(r, a), env |-> a.env, late |-> c \in moved]
  <2>1. /\ client[c].at = "freeze" /\ Len(manifests) < MaxManifests
        /\ manifests' = Append(manifests, m) /\ answers' = a
        /\ client' = [client EXCEPT ![c] = [at |-> "idle", report |-> Nothing]]
        /\ moved' = (IF answers' # answers THEN {d \in Clients :
            client[d].at = "freeze"} \cup moved ELSE moved) \ {c}
        /\ UNCHANGED <<source, stored, rowLock, scan, said>>
    BY <1>12, Zenon DEF Wizard!Freeze, Wizard!FrozenReport, Wizard!Idle
  <2>2. r \in Reports /\ answers \in Wizard!Answers
    BY <2>1 DEF Wizard!TypeOK
  <2>3. /\ a \in Wizard!Answers
        /\ \A w \in Wordings : a.confirm[w] = "yes" => answers.confirm[w] = "yes"
        /\ \A w \in r.decls : a.confirm[w] = answers.confirm[w]
    BY <2>2, ScrubFacts, WizardBounds
  <2>4. Wizard!Accepted(r, a) = {w \in r.decls : a.confirm[w] = "yes"}
    BY DEF Wizard!Accepted, Wizard!ConfirmId
  <2>5. /\ r.current /\ ~r.hard
        /\ c \in moved \/ \A w \in r.soft : answers.confirm[w] = "yes"
    BY <2>1, Zenon DEF Wizard!GateHolds
  <2>6. m.report = r /\ m.accepted = Wizard!Accepted(r, a) /\ (m.late <=> c \in moved)
    OBVIOUS
  <2> HIDE DEF a, m, r
  <2>7. m.accepted \subseteq said
    BY <2>2, <2>3, <2>4, <2>6, WizardBounds DEF Wizard!YesWasSaid
  <2>8. m.late \/ m.report.soft \subseteq m.accepted
    <3>1. r.soft \subseteq r.decls
      BY <2>2, WizardBounds
    <3>2. CASE c \in moved
      BY <2>6, <3>2
    <3>3. CASE \A w \in r.soft : answers.confirm[w] = "yes"
      BY <2>3, <2>4, <2>6, <3>1, <3>3
    <3> QED BY <2>5, <3>2, <3>3
  <2>9. Wizard!TypeOK'
    <3>a. m \in Wizard!Manifest
      <4>1. Wizard!Accepted(r, a) \subseteq Wordings /\ r.decls \subseteq Wordings
        BY <2>2, <2>4, WizardBounds
      <4>2. a.env \in {Nothing, "plain", "vaulted"}
        BY <2>3 DEF Wizard!Answers
      <4>3. (c \in moved) \in BOOLEAN
        OBVIOUS
      <4> QED BY <2>2, <4>1, <4>2, <4>3 DEF Wizard!Manifest, m
    <3>1. manifests' \in Seq(Wizard!Manifest) /\ Len(manifests') <= MaxManifests
      BY <2>1, <3>a, WizardBounds DEF Wizard!TypeOK
    <3> QED BY <2>1, <2>3, <3>1, WizardBounds DEF Wizard!TypeOK
  <2>10. Wizard!YesWasSaid'
    BY <2>1, <2>3 DEF Wizard!YesWasSaid
  <2>11. Wizard!GateHolds'
    <3> SUFFICES ASSUME NEW d \in Clients, client'[d].at = "freeze"
                 PROVE  /\ client'[d].report.current /\ ~client'[d].report.hard
                        /\ d \in moved' \/ \A w \in client'[d].report.soft :
                            answers'.confirm[w] = "yes"
      BY Zenon DEF Wizard!GateHolds
    <3>1. d # c /\ client'[d] = client[d] /\ client[d].at = "freeze"
      BY <2>1 DEF Wizard!TypeOK
    <3>2. /\ client[d].report.current /\ ~client[d].report.hard
          /\ d \in moved \/ \A w \in client[d].report.soft : answers.confirm[w] = "yes"
      BY <3>1, Zenon DEF Wizard!GateHolds
    <3>3. d \in moved' \/ \A w \in client[d].report.soft : answers'.confirm[w] = "yes"
      BY <2>1, <3>1, <3>2
    <3> QED BY <3>1, <3>2, <3>3
  <2>12. \A i \in DOMAIN manifests' : manifests'[i] = m \/ (i \in DOMAIN manifests
             /\ manifests'[i] = manifests[i])
    BY <2>1 DEF Wizard!TypeOK
  <2>13. Wizard!AcceptedAsWorded'
    BY <2>1, <2>7, <2>12 DEF Wizard!AcceptedAsWorded
  <2>14. Wizard!FrozenIsGated'
    BY <2>5, <2>6, <2>8, <2>12 DEF Wizard!FrozenIsGated
  <2> QED BY <2>9, <2>10, <2>11, <2>13, <2>14
<1>13. CASE UNCHANGED wizardState
  BY <1>13 DEF wizardState, Wizard!TypeOK, Wizard!YesWasSaid, Wizard!GateHolds,
     Wizard!AcceptedAsWorded, Wizard!FrozenIsGated
<1> QED
  BY <1>1, <1>2, <1>3, <1>4, <1>5, <1>6, <1>7, <1>8, <1>9, <1>10, <1>11, <1>12,
     <1>13 DEF Wizard!Next

\* The gate, wherever the wizard is what moves.
WizardAll == focus = "wizard" => Wizard!TypeOK /\ Wizard!YesWasSaid /\ Wizard!GateHolds
    /\ Wizard!AcceptedAsWorded /\ Wizard!FrozenIsGated

\* The composition keeps the invariant of the wizard.
LEMMA WizardInvariant == Spec => []WizardAll
<1>1. Init => WizardAll
  <2> SUFFICES ASSUME Wizard!Init
               PROVE  /\ Wizard!TypeOK /\ Wizard!YesWasSaid /\ Wizard!GateHolds
                      /\ Wizard!AcceptedAsWorded /\ Wizard!FrozenIsGated
    BY DEF Init, WizardStarts, WizardAll
  <2>a. /\ stored = Nothing /\ source \in Reports /\ rowLock = Nothing /\ said = {}
        /\ moved = {} /\ manifests = <<>>
        /\ client = [c \in Clients |-> [at |-> "idle", report |-> Nothing]]
        /\ scan = [k \in Scans |-> [at |-> "idle", report |-> Nothing]]
        /\ answers = [domain |-> FALSE, env |-> Nothing,
            confirm |-> [w \in Wordings |-> Nothing]]
    BY Zenon DEF Wizard!Init, Wizard!Idle, Wizard!NoAnswers
  <2>b. answers \in Wizard!Answers
    BY <2>a DEF Wizard!Answers
  <2>c. manifests \in Seq(Wizard!Manifest) /\ Len(manifests) <= MaxManifests
    BY <2>a, WizardBounds
  <2>1. Wizard!TypeOK
    BY <2>a, <2>b, <2>c, WizardBounds DEF Wizard!TypeOK
  <2>2. Wizard!YesWasSaid
    BY <2>a, WizardBounds DEF Wizard!YesWasSaid
  <2>3. Wizard!GateHolds
    BY <2>a DEF Wizard!GateHolds
  <2>4. Wizard!AcceptedAsWorded
    BY <2>a DEF Wizard!AcceptedAsWorded
  <2>5. Wizard!FrozenIsGated
    BY <2>a DEF Wizard!FrozenIsGated
  <2> QED BY <2>1, <2>2, <2>3, <2>4, <2>5
<1>2. WizardAll /\ [Next]_allVars => WizardAll'
  <2> SUFFICES ASSUME WizardAll, [Next]_allVars, focus = "wizard"
               PROVE  /\ Wizard!TypeOK' /\ Wizard!YesWasSaid' /\ Wizard!GateHolds'
                      /\ Wizard!AcceptedAsWorded' /\ Wizard!FrozenIsGated'
    BY OneAtATime DEF WizardAll
  <2>1. /\ Wizard!TypeOK /\ Wizard!YesWasSaid /\ Wizard!GateHolds /\ Wizard!AcceptedAsWorded
        /\ Wizard!FrozenIsGated /\ [Wizard!Next]_wizardState
    BY OneAtATime DEF WizardAll
  <2> QED BY <2>1, WizardNext
<1> QED BY <1>1, <1>2, PTL DEF Spec

\* wizard/materialize.py, wizard/service.py: a manifest is frozen from a current report without a hard
\* block and with a yes to each declaration behind the others, unless the answers moved since
\* its gate, and it records no wording as accepted that no operator accepted, for any
\* reports, wordings, clients and scans.
THEOREM ManifestTheorem == Spec => []ManifestIsGated
<1>1. WizardAll => ManifestIsGated
  BY DEF WizardAll, ManifestIsGated
<1> QED BY <1>1, WizardInvariant, PTL

---------------------------------------------------------------------------
(* The backups and the vault *)

\* A sequence of more than one element has a rest.
LEMMA TailOfMore ==
    ASSUME NEW S, NEW s \in Seq(S), Len(s) > 1
    PROVE  Tail(s) \in Seq(S) /\ Tail(s) # <<>>
<1>1. Len(s) \in Nat
  OBVIOUS
<1>2. Tail(s) \in Seq(S) /\ Len(Tail(s)) = Len(s) - 1
  BY <1>1
<1>3. \A n \in Nat : n > 1 => n - 1 # 0
  OBVIOUS
<1>4. Len(<<>>) = 0
  OBVIOUS
<1> QED BY <1>1, <1>2, <1>3, <1>4, Zenon

\* The loop over the units goes on with the next unit or ends.
LEMMA NextUnitFacts ==
    ASSUME Backups!TypeOK, NEW p \in HubProcs, worker[p] \in Backups!Busy, Backups!NextUnit(p)
    PROVE  \E x \in Backups!Resting \cup Backups!Busy :
              /\ x \in Backups!Busy => x.todo # <<>>
              /\ x.at \in {"collect", "check", "up"}
              /\ worker' = [worker EXCEPT ![p] = x]
<1> DEFINE rest == [worker[p] EXCEPT !.at = "collect", !.todo = Tail(worker[p].todo), !.key = 0]
<1> DEFINE over == [worker[p] EXCEPT !.at = "check"]
<1>0. worker[p].todo \in Seq(Backups!Units) /\ worker[p].todo # <<>>
  BY DEF Backups!TypeOK, Backups!Busy
<1>1. CASE Len(worker[p].todo) > 1
  <2>0. Tail(worker[p].todo) \in Seq(Backups!Units) /\ Tail(worker[p].todo) # <<>>
    BY <1>0, <1>1, TailOfMore
  <2>1. rest \in Backups!Busy /\ rest.todo # <<>> /\ rest.at = "collect"
    BY <2>0 DEF Backups!Busy, Backups!VaultRow
  <2>2. worker' = [worker EXCEPT ![p] = rest]
    BY <1>1 DEF Backups!NextUnit, Backups!Goes
  <2> QED BY <2>1, <2>2, Zenon
<1>2. CASE ~(Len(worker[p].todo) > 1) /\ worker[p].nightly
  <2>1. over \in Backups!Busy /\ over.todo # <<>> /\ over.at = "check"
    BY <1>0 DEF Backups!Busy, Backups!VaultRow
  <2>2. worker' = [worker EXCEPT ![p] = over]
    BY <1>2, Zenon DEF Backups!NextUnit, Backups!Goes
  <2> QED BY <2>1, <2>2, Zenon
<1>3. CASE ~(Len(worker[p].todo) > 1) /\ ~worker[p].nightly
  <2>1. /\ [at |-> "up"] \in Backups!Resting /\ [at |-> "up"] \notin Backups!Busy
        /\ [at |-> "up"].at = "up"
    BY DEF Backups!Resting, Backups!Busy
  <2>2. worker' = [worker EXCEPT ![p] = [at |-> "up"]]
    BY <1>3, Zenon DEF Backups!NextUnit, Backups!Goes, Backups!Up
  <2> QED BY <2>1, <2>2, Zenon
<1> QED BY <1>1, <1>2, <1>3

\* Every step of the processes and of the vault keeps the invariant of the backups.
LEMMA BackupsNext ==
    /\ Backups!TypeOK /\ Backups!KeyfileInv /\ Backups!OneKey /\ Backups!BlobPending
    /\ Backups!QuietMeansRestorable /\ Backups!GetsOpen /\ [Backups!Next]_backupsState
    => /\ Backups!TypeOK' /\ Backups!KeyfileInv' /\ Backups!OneKey' /\ Backups!BlobPending'
       /\ Backups!QuietMeansRestorable' /\ Backups!GetsOpen'
<1> SUFFICES ASSUME Backups!TypeOK, Backups!KeyfileInv, Backups!OneKey, Backups!BlobPending,
        Backups!QuietMeansRestorable, Backups!GetsOpen, [Backups!Next]_backupsState
             PROVE  /\ Backups!TypeOK' /\ Backups!KeyfileInv' /\ Backups!OneKey'
                    /\ Backups!BlobPending' /\ Backups!QuietMeansRestorable'
                    /\ Backups!GetsOpen'
  OBVIOUS
<1>0. /\ Len(secrets) \in Nat /\ DOMAIN secrets = 1..Len(secrets) /\ Len(secrets) + 1 \in Nat
      /\ Len(dumps) \in Nat /\ DOMAIN dumps = 1..Len(dumps) /\ Len(dumps) + 1 \in Nat
      /\ keyfile \in Int /\ keyfile >= -1 /\ wraps \in Nat
      /\ DOMAIN worker = HubProcs
  BY DEF Backups!TypeOK
<1>1. ASSUME Backups!MoveToKms
      PROVE  /\ Backups!TypeOK' /\ Backups!KeyfileInv' /\ Backups!OneKey'
             /\ Backups!BlobPending' /\ Backups!QuietMeansRestorable' /\ Backups!GetsOpen'
  <2>1. /\ keyfile > 0
        /\ kekNow' = "kms"
        /\ worker' = [p \in HubProcs |-> [at |-> "down"]]
        /\ UNCHANGED <<keyfile, kmsUp, secrets, wraps, denied, dumps, told, quietAt, restores,
            hour, twoKeys>>
    BY <1>1, Zenon DEF Backups!MoveToKms, Backups!vault, Backups!records, Backups!bounds,
       Backups!Down
  <2>a. \A p \in HubProcs : worker'[p] = [at |-> "down"] /\ worker'[p].at = "down"
    BY <2>1
  <2>b. [at |-> "down"] \in Backups!Resting /\ [at |-> "down"] \notin Backups!Busy
    BY DEF Backups!Resting, Backups!Busy
  <2>2. Backups!TypeOK'
    BY <2>1, <2>a, <2>b DEF Backups!TypeOK
  <2>3. Backups!KeyfileInv'
    BY <2>1, <2>a, <2>b, <2>2 DEF Backups!KeyfileInv, Backups!Is
  <2>4. Backups!OneKey'
    BY <2>1, <2>a, <2>b, <2>2 DEF Backups!OneKey, Backups!Is
  <2>5. Backups!BlobPending'
    BY <2>1, <2>a, <2>b, <2>2 DEF Backups!BlobPending, Backups!Is
  <2>6. Backups!QuietMeansRestorable'
    BY <2>1, <2>a, <2>b, <2>2 DEF Backups!QuietMeansRestorable, Backups!Succeeded, Backups!Opens
  <2>7. Backups!GetsOpen'
    BY <2>1, <2>a, <2>b, <2>2 DEF Backups!GetsOpen
  <2> QED BY <2>2, <2>3, <2>4, <2>5, <2>6, <2>7
<1>2. ASSUME Backups!KmsOutage
      PROVE  /\ Backups!TypeOK' /\ Backups!KeyfileInv' /\ Backups!OneKey'
             /\ Backups!BlobPending' /\ Backups!QuietMeansRestorable' /\ Backups!GetsOpen'
  <2>1. /\ kmsUp' = ~kmsUp
        /\ UNCHANGED <<keyfile, kekNow, secrets, wraps, denied, worker, dumps, told, quietAt,
            restores, hour, twoKeys>>
    BY <1>2, Zenon DEF Backups!KmsOutage, Backups!records
  <2>2. Backups!TypeOK'
    BY <1>0, <2>1 DEF Backups!TypeOK
  <2>3. Backups!KeyfileInv'
    BY <1>0, <2>1 DEF Backups!KeyfileInv, Backups!Is
  <2>4. Backups!OneKey'
    BY <1>0, <2>1 DEF Backups!OneKey, Backups!Is
  <2>5. Backups!BlobPending'
    BY <1>0, <2>1 DEF Backups!BlobPending, Backups!Is
  <2>6. Backups!QuietMeansRestorable'
    BY <1>0, <2>1 DEF Backups!QuietMeansRestorable, Backups!Succeeded, Backups!Opens
  <2>7. Backups!GetsOpen'
    BY <1>0, <2>1 DEF Backups!GetsOpen
  <2> QED BY <2>2, <2>3, <2>4, <2>5, <2>6, <2>7
<1>3. ASSUME Backups!HourPasses
      PROVE  /\ Backups!TypeOK' /\ Backups!KeyfileInv' /\ Backups!OneKey'
             /\ Backups!BlobPending' /\ Backups!QuietMeansRestorable' /\ Backups!GetsOpen'
  <2>1. /\ hour' = hour + 1
        /\ UNCHANGED <<keyfile, kekNow, kmsUp, secrets, wraps, denied, worker, dumps, told,
            quietAt, restores, twoKeys>>
    BY <1>3, Zenon DEF Backups!HourPasses, Backups!vault, Backups!records, Backups!bounds
  <2>2. Backups!TypeOK'
    BY <1>0, <2>1 DEF Backups!TypeOK
  <2>3. Backups!KeyfileInv'
    BY <1>0, <2>1 DEF Backups!KeyfileInv, Backups!Is
  <2>4. Backups!OneKey'
    BY <1>0, <2>1 DEF Backups!OneKey, Backups!Is
  <2>5. Backups!BlobPending'
    BY <1>0, <2>1 DEF Backups!BlobPending, Backups!Is
  <2>6. Backups!QuietMeansRestorable'
    BY <1>0, <2>1 DEF Backups!QuietMeansRestorable, Backups!Succeeded, Backups!Opens
  <2>7. Backups!GetsOpen'
    BY <1>0, <2>1 DEF Backups!GetsOpen
  <2> QED BY <2>2, <2>3, <2>4, <2>5, <2>6, <2>7
<1>4. ASSUME NEW p \in HubProcs, Backups!Boot(p)
      PROVE  /\ Backups!TypeOK' /\ Backups!KeyfileInv' /\ Backups!OneKey'
             /\ Backups!BlobPending' /\ Backups!QuietMeansRestorable' /\ Backups!GetsOpen'
  <2>1. CASE keyfile = 0
    <3> DEFINE x == [at |-> "mint"]
    <3>1. /\ worker[p].at = "down"
          /\ worker' = [worker EXCEPT ![p] = x]
          /\ UNCHANGED <<keyfile, kekNow, kmsUp, secrets, wraps, denied, dumps, told, quietAt,
              restores, hour, twoKeys>>
      BY <1>4, <2>1, Zenon DEF Backups!Boot, Backups!Is, Backups!Goes, Backups!Down,
         Backups!Up, Backups!vault, Backups!records, Backups!bounds, Backups!Upset
    <3>a. x \in Backups!Resting /\ x \notin Backups!Busy /\ x.at = "mint"
      BY DEF Backups!Resting, Backups!Busy
    <3>b. worker'[p] = x /\ \A q \in HubProcs : q # p => worker'[q] = worker[q]
      BY <3>1 DEF Backups!TypeOK
    <3> HIDE DEF x
    <3>2. Backups!TypeOK'
      BY <1>0, <3>1, <3>a, <3>b DEF Backups!TypeOK
    <3>3. Backups!KeyfileInv'
      BY <1>0, <3>1, <3>a, <3>b DEF Backups!KeyfileInv, Backups!Is
    <3>4. Backups!OneKey'
      BY <1>0, <3>1, <3>a, <3>b DEF Backups!OneKey, Backups!Is
    <3>5. Backups!BlobPending'
      BY <1>0, <3>1, <3>a, <3>b DEF Backups!BlobPending, Backups!Is
    <3>6. Backups!QuietMeansRestorable'
      BY <1>0, <3>1, <3>a, <3>b DEF Backups!QuietMeansRestorable, Backups!Succeeded,
         Backups!Opens
    <3>7. Backups!GetsOpen'
      BY <1>0, <3>1, <3>a, <3>b DEF Backups!GetsOpen
    <3> QED BY <3>2, <3>3, <3>4, <3>5, <3>6, <3>7
  <2>2. CASE keyfile # 0
    <3> DEFINE x == [at |-> "up"]
    <3>1. /\ worker[p].at = "down"
          /\ keyfile # -1 /\ keyfile # 0
          /\ worker' = [worker EXCEPT ![p] = x]
          /\ UNCHANGED <<keyfile, kekNow, kmsUp, secrets, wraps, denied, dumps, told, quietAt,
              restores, hour, twoKeys>>
      BY <1>4, <2>2, Zenon DEF Backups!Boot, Backups!Is, Backups!Goes, Backups!Down,
         Backups!Up, Backups!vault, Backups!records, Backups!bounds, Backups!Upset
    <3>a. x \in Backups!Resting /\ x \notin Backups!Busy /\ x.at = "up"
      BY DEF Backups!Resting, Backups!Busy
    <3>b. worker'[p] = x /\ \A q \in HubProcs : q # p => worker'[q] = worker[q]
      BY <3>1 DEF Backups!TypeOK
    <3> HIDE DEF x
    <3>2. Backups!TypeOK'
      BY <1>0, <3>1, <3>a, <3>b DEF Backups!TypeOK
    <3>3. Backups!KeyfileInv'
      BY <1>0, <3>1, <3>a, <3>b DEF Backups!KeyfileInv, Backups!Is
    <3>4. Backups!OneKey'
      BY <1>0, <3>1, <3>a, <3>b DEF Backups!OneKey, Backups!Is
    <3>5. Backups!BlobPending'
      BY <1>0, <3>1, <3>a, <3>b DEF Backups!BlobPending, Backups!Is
    <3>6. Backups!QuietMeansRestorable'
      BY <1>0, <3>1, <3>a, <3>b DEF Backups!QuietMeansRestorable, Backups!Succeeded,
         Backups!Opens
    <3>7. Backups!GetsOpen'
      BY <1>0, <3>1, <3>a, <3>b DEF Backups!GetsOpen
    <3> QED BY <3>2, <3>3, <3>4, <3>5, <3>6, <3>7
  <2> QED BY <2>1, <2>2
<1>5. ASSUME NEW p \in HubProcs, Backups!CreateKeyfile(p)
      PROVE  /\ Backups!TypeOK' /\ Backups!KeyfileInv' /\ Backups!OneKey'
             /\ Backups!BlobPending' /\ Backups!QuietMeansRestorable' /\ Backups!GetsOpen'
  <2>1. CASE keyfile = 0
    <3> DEFINE x == [at |-> "write"]
    <3>1. /\ worker[p].at = "mint"
          /\ keyfile = 0
          /\ keyfile' = -1
          /\ worker' = [worker EXCEPT ![p] = x]
          /\ UNCHANGED <<kekNow, kmsUp, secrets, wraps, denied, dumps, told, quietAt, restores,
              hour, twoKeys>>
      BY <1>5, <2>1, Zenon DEF Backups!CreateKeyfile, Backups!Is, Backups!Goes, Backups!Down,
         Backups!Up, Backups!vault, Backups!records, Backups!bounds, Backups!Upset
    <3>a. x \in Backups!Resting /\ x \notin Backups!Busy /\ x.at = "write"
      BY DEF Backups!Resting, Backups!Busy
    <3>b. worker'[p] = x /\ \A q \in HubProcs : q # p => worker'[q] = worker[q]
      BY <3>1 DEF Backups!TypeOK
    <3> HIDE DEF x
    <3>2. Backups!TypeOK'
      BY <1>0, <3>1, <3>a, <3>b DEF Backups!TypeOK
    <3>3. Backups!KeyfileInv'
      BY <1>0, <3>1, <3>a, <3>b DEF Backups!KeyfileInv, Backups!Is
    <3>4. Backups!OneKey'
      BY <1>0, <3>1, <3>a, <3>b DEF Backups!OneKey, Backups!Is
    <3>5. Backups!BlobPending'
      BY <1>0, <3>1, <3>a, <3>b DEF Backups!BlobPending, Backups!Is
    <3>6. Backups!QuietMeansRestorable'
      BY <1>0, <3>1, <3>a, <3>b DEF Backups!QuietMeansRestorable, Backups!Succeeded,
         Backups!Opens
    <3>7. Backups!GetsOpen'
      BY <1>0, <3>1, <3>a, <3>b DEF Backups!GetsOpen
    <3> QED BY <3>2, <3>3, <3>4, <3>5, <3>6, <3>7
  <2>2. CASE keyfile # 0
    <3> DEFINE x == [at |-> "down"]
    <3>1. /\ worker[p].at = "mint"
          /\ worker' = [worker EXCEPT ![p] = x]
          /\ UNCHANGED <<keyfile, kekNow, kmsUp, secrets, wraps, denied, dumps, told, quietAt,
              restores, hour, twoKeys>>
      BY <1>5, <2>2, Zenon DEF Backups!CreateKeyfile, Backups!Is, Backups!Goes, Backups!Down,
         Backups!Up, Backups!vault, Backups!records, Backups!bounds, Backups!Upset
    <3>a. x \in Backups!Resting /\ x \notin Backups!Busy /\ x.at = "down"
      BY DEF Backups!Resting, Backups!Busy
    <3>b. worker'[p] = x /\ \A q \in HubProcs : q # p => worker'[q] = worker[q]
      BY <3>1 DEF Backups!TypeOK
    <3> HIDE DEF x
    <3>2. Backups!TypeOK'
      BY <1>0, <3>1, <3>a, <3>b DEF Backups!TypeOK
    <3>3. Backups!KeyfileInv'
      BY <1>0, <3>1, <3>a, <3>b DEF Backups!KeyfileInv, Backups!Is
    <3>4. Backups!OneKey'
      BY <1>0, <3>1, <3>a, <3>b DEF Backups!OneKey, Backups!Is
    <3>5. Backups!BlobPending'
      BY <1>0, <3>1, <3>a, <3>b DEF Backups!BlobPending, Backups!Is
    <3>6. Backups!QuietMeansRestorable'
      BY <1>0, <3>1, <3>a, <3>b DEF Backups!QuietMeansRestorable, Backups!Succeeded,
         Backups!Opens
    <3>7. Backups!GetsOpen'
      BY <1>0, <3>1, <3>a, <3>b DEF Backups!GetsOpen
    <3> QED BY <3>2, <3>3, <3>4, <3>5, <3>6, <3>7
  <2> QED BY <2>1, <2>2
<1>6. ASSUME NEW p \in HubProcs, Backups!WriteKeyfile(p)
      PROVE  /\ Backups!TypeOK' /\ Backups!KeyfileInv' /\ Backups!OneKey'
             /\ Backups!BlobPending' /\ Backups!QuietMeansRestorable' /\ Backups!GetsOpen'
  <2> DEFINE x == [at |-> "up"]
  <2>1. /\ worker[p].at = "write"
        /\ wraps' = wraps + 1
        /\ keyfile' = wraps + 1
        /\ worker' = [worker EXCEPT ![p] = x]
        /\ UNCHANGED <<kekNow, kmsUp, secrets, denied, dumps, told, quietAt, restores, hour,
            twoKeys>>
    BY <1>6, Zenon DEF Backups!WriteKeyfile, Backups!Is, Backups!Goes, Backups!Down,
       Backups!Up, Backups!vault, Backups!records, Backups!bounds, Backups!Upset
  <2>a. x \in Backups!Resting /\ x \notin Backups!Busy /\ x.at = "up"
    BY DEF Backups!Resting, Backups!Busy
  <2>b. worker'[p] = x /\ \A q \in HubProcs : q # p => worker'[q] = worker[q]
    BY <2>1 DEF Backups!TypeOK
  <2> HIDE DEF x
  <2>2. Backups!TypeOK'
    BY <1>0, <2>1, <2>a, <2>b DEF Backups!TypeOK
  <2>3. Backups!KeyfileInv'
    BY <1>0, <2>1, <2>a, <2>b DEF Backups!KeyfileInv, Backups!Is
  <2>4. Backups!OneKey'
    BY <1>0, <2>1, <2>a, <2>b DEF Backups!OneKey, Backups!Is
  <2>5. Backups!BlobPending'
    BY <1>0, <2>1, <2>a, <2>b DEF Backups!BlobPending, Backups!Is
  <2>6. Backups!QuietMeansRestorable'
    BY <1>0, <2>1, <2>a, <2>b DEF Backups!QuietMeansRestorable, Backups!Succeeded, Backups!Opens
  <2>7. Backups!GetsOpen'
    BY <1>0, <2>1, <2>a, <2>b DEF Backups!GetsOpen
  <2> QED BY <2>2, <2>3, <2>4, <2>5, <2>6, <2>7
<1>7. ASSUME NEW p \in HubProcs, Backups!RunNightly(p)
      PROVE  /\ Backups!TypeOK' /\ Backups!KeyfileInv' /\ Backups!OneKey'
             /\ Backups!BlobPending' /\ Backups!QuietMeansRestorable' /\ Backups!GetsOpen'
  <2> DEFINE x == [at |-> "collect", todo |-> UnitOrder, nightly |-> TRUE, key |-> 0,
          row |-> [kek |-> kekNow, under |-> 0, wrap |-> 0], run |-> 0]
  <2>1. /\ worker[p].at = "up"
        /\ worker' = [worker EXCEPT ![p] = x]
        /\ UNCHANGED <<keyfile, kekNow, kmsUp, secrets, wraps, denied, dumps, told, quietAt,
            restores, hour, twoKeys>>
    BY <1>7, Zenon DEF Backups!RunNightly, Backups!Is, Backups!Goes, Backups!Down, Backups!Up,
       Backups!vault, Backups!records, Backups!bounds, Backups!Upset, Backups!Begin
  <2>a. UnitOrder \in Seq(Backups!Units) /\ UnitOrder # <<>>
    BY BackupBounds DEF Backups!Units
  <2>b. x \in Backups!Busy /\ x.todo # <<>> /\ x.at = "collect"
    BY <2>a DEF Backups!TypeOK, Backups!Busy, Backups!VaultRow
  <2>c. worker'[p] = x /\ \A q \in HubProcs : q # p => worker'[q] = worker[q]
    BY <2>1 DEF Backups!TypeOK
  <2> HIDE DEF x
  <2>2. Backups!TypeOK'
    BY <1>0, <2>1, <2>a, <2>b, <2>c DEF Backups!TypeOK
  <2>3. Backups!KeyfileInv'
    BY <1>0, <2>1, <2>a, <2>b, <2>c DEF Backups!KeyfileInv, Backups!Is
  <2>4. Backups!OneKey'
    BY <1>0, <2>1, <2>a, <2>b, <2>c DEF Backups!OneKey, Backups!Is
  <2>5. Backups!BlobPending'
    BY <1>0, <2>1, <2>a, <2>b, <2>c DEF Backups!BlobPending, Backups!Is
  <2>6. Backups!QuietMeansRestorable'
    BY <1>0, <2>1, <2>a, <2>b, <2>c DEF Backups!QuietMeansRestorable, Backups!Succeeded,
       Backups!Opens
  <2>7. Backups!GetsOpen'
    BY <1>0, <2>1, <2>a, <2>b, <2>c DEF Backups!GetsOpen
  <2> QED BY <2>2, <2>3, <2>4, <2>5, <2>6, <2>7
<1>8. ASSUME NEW p \in HubProcs, NEW u \in Backups!Units, Backups!TestNow(p, u)
      PROVE  /\ Backups!TypeOK' /\ Backups!KeyfileInv' /\ Backups!OneKey'
             /\ Backups!BlobPending' /\ Backups!QuietMeansRestorable' /\ Backups!GetsOpen'
  <2> DEFINE x == [at |-> "collect", todo |-> <<u>>, nightly |-> FALSE, key |-> 0,
          row |-> [kek |-> kekNow, under |-> 0, wrap |-> 0], run |-> 0]
  <2>1. /\ worker[p].at = "up"
        /\ worker' = [worker EXCEPT ![p] = x]
        /\ UNCHANGED <<keyfile, kekNow, kmsUp, secrets, wraps, denied, dumps, told, quietAt,
            restores, hour, twoKeys>>
    BY <1>8, Zenon DEF Backups!TestNow, Backups!Is, Backups!Goes, Backups!Down, Backups!Up,
       Backups!vault, Backups!records, Backups!bounds, Backups!Upset, Backups!Begin
  <2>a. <<u>> \in Seq(Backups!Units) /\ <<u>> # <<>>
    BY DEF Backups!Units
  <2>b. x \in Backups!Busy /\ x.todo # <<>> /\ x.at = "collect"
    BY <2>a DEF Backups!TypeOK, Backups!Busy, Backups!VaultRow
  <2>c. worker'[p] = x /\ \A q \in HubProcs : q # p => worker'[q] = worker[q]
    BY <2>1 DEF Backups!TypeOK
  <2> HIDE DEF x
  <2>2. Backups!TypeOK'
    BY <1>0, <2>1, <2>a, <2>b, <2>c DEF Backups!TypeOK
  <2>3. Backups!KeyfileInv'
    BY <1>0, <2>1, <2>a, <2>b, <2>c DEF Backups!KeyfileInv, Backups!Is
  <2>4. Backups!OneKey'
    BY <1>0, <2>1, <2>a, <2>b, <2>c DEF Backups!OneKey, Backups!Is
  <2>5. Backups!BlobPending'
    BY <1>0, <2>1, <2>a, <2>b, <2>c DEF Backups!BlobPending, Backups!Is
  <2>6. Backups!QuietMeansRestorable'
    BY <1>0, <2>1, <2>a, <2>b, <2>c DEF Backups!QuietMeansRestorable, Backups!Succeeded,
       Backups!Opens
  <2>7. Backups!GetsOpen'
    BY <1>0, <2>1, <2>a, <2>b, <2>c DEF Backups!GetsOpen
  <2> QED BY <2>2, <2>3, <2>4, <2>5, <2>6, <2>7
<1>9. ASSUME NEW p \in HubProcs, Backups!Collect(p)
      PROVE  /\ Backups!TypeOK' /\ Backups!KeyfileInv' /\ Backups!OneKey'
             /\ Backups!BlobPending' /\ Backups!QuietMeansRestorable' /\ Backups!GetsOpen'
  <2>1. CASE /\ Len(secrets) = 0
             /\ worker' = [worker EXCEPT ![p] = [worker[p] EXCEPT !.at = "no_key"]]
             /\ twoKeys' = (twoKeys \/ (Len(secrets) = 0 /\ \E q \in HubProcs \ {p} :
                  worker[q].at = "no_key"))
             /\ UNCHANGED told
    <3> DEFINE x == [worker[p] EXCEPT !.at = "no_key"]
    <3>1. /\ worker[p].at = "collect"
          /\ Len(secrets) = 0
          /\ worker' = [worker EXCEPT ![p] = x]
          /\ twoKeys' = (twoKeys \/ (Len(secrets) = 0 /\ \E q \in HubProcs \ {p} :
              worker[q].at = "no_key"))
          /\ UNCHANGED <<keyfile, kekNow, kmsUp, secrets, wraps, denied, dumps, told, quietAt,
              restores, hour>>
      BY <1>9, <2>1, Zenon DEF Backups!Collect, Backups!Existing, Backups!Is, Backups!Goes,
         Backups!Down, Backups!Up, Backups!vault, Backups!records, Backups!bounds, Backups!Upset
    <3>a. worker[p] \in Backups!Busy
      BY <3>1 DEF Backups!TypeOK, Backups!Resting, Backups!Busy
    <3>b. ~twoKeys' => ~twoKeys /\ \A q \in HubProcs : worker[q].at = "no_key" => q = p
      BY <3>1
    <3>c. twoKeys' \in BOOLEAN
      BY <3>1
    <3>d. x \in Backups!Busy /\ x.todo # <<>> /\ x.at = "no_key"
      BY <1>0, <3>1, <3>a DEF Backups!TypeOK, Backups!Busy
    <3>e. worker'[p] = x /\ \A q \in HubProcs : q # p => worker'[q] = worker[q]
      BY <3>1 DEF Backups!TypeOK
    <3> HIDE DEF x
    <3>2. Backups!TypeOK'
      BY <1>0, <3>1, <3>a, <3>b, <3>c, <3>d, <3>e DEF Backups!TypeOK
    <3>3. Backups!KeyfileInv'
      BY <1>0, <3>1, <3>a, <3>b, <3>c, <3>d, <3>e DEF Backups!KeyfileInv, Backups!Is
    <3>4. Backups!OneKey'
      BY <1>0, <3>1, <3>a, <3>b, <3>c, <3>d, <3>e DEF Backups!OneKey, Backups!Is
    <3>5. Backups!BlobPending'
      BY <1>0, <3>1, <3>a, <3>b, <3>c, <3>d, <3>e DEF Backups!BlobPending, Backups!Is
    <3>6. Backups!QuietMeansRestorable'
      BY <1>0, <3>1, <3>a, <3>b, <3>c, <3>d, <3>e DEF Backups!QuietMeansRestorable,
         Backups!Succeeded, Backups!Opens
    <3>7. Backups!GetsOpen'
      BY <1>0, <3>1, <3>a, <3>b, <3>c, <3>d, <3>e DEF Backups!GetsOpen
    <3> QED BY <3>2, <3>3, <3>4, <3>5, <3>6, <3>7
  <2>2. CASE /\ Len(secrets) # 0
             /\ worker' = [worker EXCEPT ![p] = [worker[p] EXCEPT !.at = "keyed",
                  !.key = Len(secrets), !.row = secrets[Len(secrets)]]]
             /\ twoKeys' = (twoKeys \/ (Len(secrets) = 0 /\ \E q \in HubProcs \ {p} :
                  worker[q].at = "no_key"))
             /\ UNCHANGED told
    <3> DEFINE x == [worker[p] EXCEPT !.at = "keyed", !.key = Len(secrets),
            !.row = secrets[Len(secrets)]]
    <3>1. /\ worker[p].at = "collect"
          /\ Len(secrets) # 0
          /\ worker' = [worker EXCEPT ![p] = x]
          /\ twoKeys' = (twoKeys \/ (Len(secrets) = 0 /\ \E q \in HubProcs \ {p} :
              worker[q].at = "no_key"))
          /\ UNCHANGED <<keyfile, kekNow, kmsUp, secrets, wraps, denied, dumps, told, quietAt,
              restores, hour>>
      BY <1>9, <2>2, Zenon DEF Backups!Collect, Backups!Existing, Backups!Is, Backups!Goes,
         Backups!Down, Backups!Up, Backups!vault, Backups!records, Backups!bounds, Backups!Upset
    <3>a. worker[p] \in Backups!Busy
      BY <3>1 DEF Backups!TypeOK, Backups!Resting, Backups!Busy
    <3>b. Len(secrets) \in DOMAIN secrets /\ secrets[Len(secrets)] \in Backups!VaultRow
      BY <1>0, <3>1 DEF Backups!TypeOK
    <3>c. UNCHANGED twoKeys
      BY <3>1 DEF Backups!TypeOK
    <3>d. /\ x \in Backups!Busy /\ x.todo # <<>> /\ x.at = "keyed" /\ x.key = Len(secrets)
          /\ x.row = secrets[Len(secrets)]
      BY <1>0, <3>1, <3>a, <3>b DEF Backups!TypeOK, Backups!Busy
    <3>e. worker'[p] = x /\ \A q \in HubProcs : q # p => worker'[q] = worker[q]
      BY <3>1 DEF Backups!TypeOK
    <3> HIDE DEF x
    <3>2. Backups!TypeOK'
      BY <1>0, <3>1, <3>a, <3>b, <3>c, <3>d, <3>e DEF Backups!TypeOK
    <3>3. Backups!KeyfileInv'
      BY <1>0, <3>1, <3>a, <3>b, <3>c, <3>d, <3>e DEF Backups!KeyfileInv, Backups!Is
    <3>4. Backups!OneKey'
      BY <1>0, <3>1, <3>a, <3>b, <3>c, <3>d, <3>e DEF Backups!OneKey, Backups!Is
    <3>5. Backups!BlobPending'
      BY <1>0, <3>1, <3>a, <3>b, <3>c, <3>d, <3>e DEF Backups!BlobPending, Backups!Is
    <3>6. Backups!QuietMeansRestorable'
      BY <1>0, <3>1, <3>a, <3>b, <3>c, <3>d, <3>e DEF Backups!QuietMeansRestorable,
         Backups!Succeeded, Backups!Opens
    <3>7. Backups!GetsOpen'
      BY <1>0, <3>1, <3>a, <3>b, <3>c, <3>d, <3>e DEF Backups!GetsOpen
    <3> QED BY <3>2, <3>3, <3>4, <3>5, <3>6, <3>7
  <2>3. CASE Backups!Fails(p) /\ UNCHANGED twoKeys
    <3>1. /\ worker[p].at = "collect"
          /\ Backups!NextUnit(p)
          /\ told' = told \cup {Head(worker[p].todo)}
          /\ UNCHANGED <<keyfile, kekNow, kmsUp, secrets, wraps, denied, dumps, quietAt,
              restores, hour, twoKeys>>
      BY <1>9, <2>3, Zenon DEF Backups!Collect, Backups!Existing, Backups!Is, Backups!Goes,
         Backups!Down, Backups!Up, Backups!vault, Backups!records, Backups!bounds,
         Backups!Upset, Backups!Fails
    <3>a. worker[p] \in Backups!Busy
      BY <3>1 DEF Backups!TypeOK, Backups!Resting, Backups!Busy
    <3>b. PICK x \in Backups!Resting \cup Backups!Busy : /\ (x \in Backups!Busy =>
                                                              x.todo # <<>>)
                                                         /\ x.at \in {"collect", "check", "up"}
                                                         /\ worker' = [worker EXCEPT ![p] = x]
      BY <3>1, <3>a, NextUnitFacts
    <3>c. Head(worker[p].todo) \in Backups!Units
      BY <3>a DEF Backups!TypeOK, Backups!Busy
    <3>d. worker'[p] = x /\ \A q \in HubProcs : q # p => worker'[q] = worker[q]
      BY <3>1, <3>b DEF Backups!TypeOK
    <3>2. Backups!TypeOK'
      BY <1>0, <3>1, <3>a, <3>b, <3>c, <3>d DEF Backups!TypeOK
    <3>3. Backups!KeyfileInv'
      BY <1>0, <3>1, <3>a, <3>b, <3>c, <3>d DEF Backups!KeyfileInv, Backups!Is
    <3>4. Backups!OneKey'
      BY <1>0, <3>1, <3>a, <3>b, <3>c, <3>d DEF Backups!OneKey, Backups!Is
    <3>5. Backups!BlobPending'
      BY <1>0, <3>1, <3>a, <3>b, <3>c, <3>d DEF Backups!BlobPending, Backups!Is
    <3>6. Backups!QuietMeansRestorable'
      BY <1>0, <3>1, <3>a, <3>b, <3>c, <3>d DEF Backups!QuietMeansRestorable,
         Backups!Succeeded, Backups!Opens
    <3>7. Backups!GetsOpen'
      BY <1>0, <3>1, <3>a, <3>b, <3>c, <3>d DEF Backups!GetsOpen
    <3> QED BY <3>2, <3>3, <3>4, <3>5, <3>6, <3>7
  <2> QED BY <2>1, <2>2, <2>3, <1>9, Zenon DEF Backups!Collect, Backups!Existing, Backups!Goes,
         Backups!Is
<1>10. ASSUME NEW p \in HubProcs, Backups!PutKey(p)
       PROVE  /\ Backups!TypeOK' /\ Backups!KeyfileInv' /\ Backups!OneKey'
              /\ Backups!BlobPending' /\ Backups!QuietMeansRestorable' /\ Backups!GetsOpen'
  <2>1. CASE Backups!CanWrap
    <3> DEFINE x == [worker[p] EXCEPT !.at = "keyed", !.key = Len(secrets) + 1,
            !.row = Backups!Wrapped]
    <3>1. /\ worker[p].at = "no_key"
          /\ worker' = [worker EXCEPT ![p] = x]
          /\ secrets' = Append(secrets, Backups!Wrapped)
          /\ wraps' = wraps + 1
          /\ UNCHANGED <<keyfile, kekNow, kmsUp, denied, dumps, told, quietAt, restores, hour,
              twoKeys>>
      BY <1>10, <2>1, Zenon DEF Backups!PutKey, Backups!Is, Backups!Goes, Backups!Down,
         Backups!Up, Backups!vault, Backups!records, Backups!bounds, Backups!Upset
    <3>a. worker[p] \in Backups!Busy
      BY <3>1 DEF Backups!TypeOK, Backups!Resting, Backups!Busy
    <3>b. /\ Backups!Wrapped \in Backups!VaultRow
          /\ (Backups!Wrapped.kek = "local" => Backups!Wrapped.under = keyfile)
      BY DEF Backups!TypeOK, Backups!Wrapped, Backups!VaultRow
    <3>c. /\ DOMAIN secrets' = 1..Len(secrets) + 1 /\ secrets' \in Seq(Backups!VaultRow)
          /\ Len(secrets') = Len(secrets) + 1 /\ secrets'[Len(secrets) + 1] = Backups!Wrapped
          /\ \A k \in DOMAIN secrets : secrets'[k] = secrets[k]
      BY <1>0, <3>1, <3>b DEF Backups!TypeOK
    <3>d. /\ x \in Backups!Busy /\ x.todo # <<>> /\ x.at = "keyed" /\ x.key = Len(secrets) + 1
          /\ x.row = Backups!Wrapped
      BY <1>0, <3>1, <3>a, <3>b DEF Backups!TypeOK, Backups!Busy
    <3>e. worker'[p] = x /\ \A q \in HubProcs : q # p => worker'[q] = worker[q]
      BY <3>1 DEF Backups!TypeOK
    <3> HIDE DEF x
    <3>2. Backups!TypeOK'
      BY <1>0, <3>1, <3>a, <3>b, <3>c, <3>d, <3>e DEF Backups!TypeOK
    <3>3. Backups!KeyfileInv'
      BY <1>0, <3>1, <3>a, <3>b, <3>c, <3>d, <3>e DEF Backups!KeyfileInv, Backups!Is
    <3>4. Backups!OneKey'
      BY <1>0, <3>1, <3>a, <3>b, <3>c, <3>d, <3>e DEF Backups!OneKey, Backups!Is
    <3>5. Backups!BlobPending'
      BY <1>0, <3>1, <3>a, <3>b, <3>c, <3>d, <3>e DEF Backups!BlobPending, Backups!Is
    <3>6. Backups!QuietMeansRestorable'
      <4>1. ~twoKeys => DOMAIN dumps = {}
        BY <1>0, <3>1 DEF Backups!OneKey, Backups!Is
      <4> QED BY <3>1, <4>1 DEF Backups!QuietMeansRestorable, Backups!Succeeded
    <3>7. Backups!GetsOpen'
      BY <3>1 DEF Backups!GetsOpen
    <3> QED BY <3>2, <3>3, <3>4, <3>5, <3>6, <3>7
  <2>2. CASE ~Backups!CanWrap
    <3>1. /\ worker[p].at = "no_key"
          /\ Backups!NextUnit(p)
          /\ told' = told \cup {Head(worker[p].todo)}
          /\ UNCHANGED <<keyfile, kekNow, kmsUp, secrets, wraps, denied, dumps, quietAt,
              restores, hour, twoKeys>>
      BY <1>10, <2>2, Zenon DEF Backups!PutKey, Backups!Is, Backups!Goes, Backups!Down,
         Backups!Up, Backups!vault, Backups!records, Backups!bounds, Backups!Upset,
         Backups!Fails
    <3>a. worker[p] \in Backups!Busy
      BY <3>1 DEF Backups!TypeOK, Backups!Resting, Backups!Busy
    <3>b. PICK x \in Backups!Resting \cup Backups!Busy : /\ (x \in Backups!Busy =>
                                                              x.todo # <<>>)
                                                         /\ x.at \in {"collect", "check", "up"}
                                                         /\ worker' = [worker EXCEPT ![p] = x]
      BY <3>1, <3>a, NextUnitFacts
    <3>c. Head(worker[p].todo) \in Backups!Units
      BY <3>a DEF Backups!TypeOK, Backups!Busy
    <3>d. worker'[p] = x /\ \A q \in HubProcs : q # p => worker'[q] = worker[q]
      BY <3>1, <3>b DEF Backups!TypeOK
    <3>2. Backups!TypeOK'
      BY <1>0, <3>1, <3>a, <3>b, <3>c, <3>d DEF Backups!TypeOK
    <3>3. Backups!KeyfileInv'
      BY <1>0, <3>1, <3>a, <3>b, <3>c, <3>d DEF Backups!KeyfileInv, Backups!Is
    <3>4. Backups!OneKey'
      BY <1>0, <3>1, <3>a, <3>b, <3>c, <3>d DEF Backups!OneKey, Backups!Is
    <3>5. Backups!BlobPending'
      BY <1>0, <3>1, <3>a, <3>b, <3>c, <3>d DEF Backups!BlobPending, Backups!Is
    <3>6. Backups!QuietMeansRestorable'
      BY <1>0, <3>1, <3>a, <3>b, <3>c, <3>d DEF Backups!QuietMeansRestorable,
         Backups!Succeeded, Backups!Opens
    <3>7. Backups!GetsOpen'
      BY <1>0, <3>1, <3>a, <3>b, <3>c, <3>d DEF Backups!GetsOpen
    <3> QED BY <3>2, <3>3, <3>4, <3>5, <3>6, <3>7
  <2> QED BY <2>1, <2>2
<1>11. ASSUME NEW p \in HubProcs, Backups!Seal(p)
       PROVE  /\ Backups!TypeOK' /\ Backups!KeyfileInv' /\ Backups!OneKey'
              /\ Backups!BlobPending' /\ Backups!QuietMeansRestorable' /\ Backups!GetsOpen'
  <2>1. CASE Backups!Unwraps(p, worker[p].key, worker[p].row)
    <3> DEFINE x == [worker[p] EXCEPT !.at = "sealed"]
    <3>1. /\ worker[p].at = "keyed"
          /\ worker' = [worker EXCEPT ![p] = x]
          /\ UNCHANGED <<keyfile, kekNow, kmsUp, secrets, wraps, denied, dumps, told, quietAt,
              restores, hour, twoKeys>>
      BY <1>11, <2>1, Zenon DEF Backups!Seal, Backups!Is, Backups!Goes, Backups!Down,
         Backups!Up, Backups!vault, Backups!records, Backups!bounds, Backups!Upset
    <3>a. worker[p] \in Backups!Busy
      BY <3>1 DEF Backups!TypeOK, Backups!Resting, Backups!Busy
    <3>b. x \in Backups!Busy /\ x.todo # <<>> /\ x.at = "sealed" /\ x.key = worker[p].key
      BY <1>0, <3>1, <3>a DEF Backups!TypeOK, Backups!Busy
    <3>c. worker'[p] = x /\ \A q \in HubProcs : q # p => worker'[q] = worker[q]
      BY <3>1 DEF Backups!TypeOK
    <3> HIDE DEF x
    <3>2. Backups!TypeOK'
      BY <1>0, <3>1, <3>a, <3>b, <3>c DEF Backups!TypeOK
    <3>3. Backups!KeyfileInv'
      BY <1>0, <3>1, <3>a, <3>b, <3>c DEF Backups!KeyfileInv, Backups!Is
    <3>4. Backups!OneKey'
      BY <1>0, <3>1, <3>a, <3>b, <3>c DEF Backups!OneKey, Backups!Is
    <3>5. Backups!BlobPending'
      BY <1>0, <3>1, <3>a, <3>b, <3>c DEF Backups!BlobPending, Backups!Is
    <3>6. Backups!QuietMeansRestorable'
      BY <1>0, <3>1, <3>a, <3>b, <3>c DEF Backups!QuietMeansRestorable, Backups!Succeeded,
         Backups!Opens
    <3>7. Backups!GetsOpen'
      BY <1>0, <3>1, <3>a, <3>b, <3>c DEF Backups!GetsOpen
    <3> QED BY <3>2, <3>3, <3>4, <3>5, <3>6, <3>7
  <2>2. CASE ~Backups!Unwraps(p, worker[p].key, worker[p].row)
    <3>1. /\ worker[p].at = "keyed"
          /\ Backups!NextUnit(p)
          /\ told' = told \cup {Head(worker[p].todo)}
          /\ denied' = (denied \/ kmsUp)
          /\ ~Backups!Unwraps(p, worker[p].key, worker[p].row)
          /\ UNCHANGED <<keyfile, kekNow, kmsUp, secrets, wraps, dumps, quietAt, restores,
              hour, twoKeys>>
      BY <1>11, <2>2, Zenon DEF Backups!Seal, Backups!Is, Backups!Goes, Backups!Down,
         Backups!Up, Backups!vault, Backups!records, Backups!bounds, Backups!Upset,
         Backups!Fails
    <3>a. worker[p] \in Backups!Busy
      BY <3>1 DEF Backups!TypeOK, Backups!Resting, Backups!Busy
    <3>b. PICK x \in Backups!Resting \cup Backups!Busy : /\ (x \in Backups!Busy =>
                                                              x.todo # <<>>)
                                                         /\ x.at \in {"collect", "check", "up"}
                                                         /\ worker' = [worker EXCEPT ![p] = x]
      BY <3>1, <3>a, NextUnitFacts
    <3>c. Head(worker[p].todo) \in Backups!Units
      BY <3>a DEF Backups!TypeOK, Backups!Busy
    <3>d. ~kmsUp
      BY <3>1, <3>a DEF Backups!TypeOK, Backups!Busy, Backups!VaultRow, Backups!KeyfileInv,
         Backups!Is, Backups!Unwraps, Backups!Backend
    <3>e. worker'[p] = x /\ \A q \in HubProcs : q # p => worker'[q] = worker[q]
      BY <3>1, <3>b DEF Backups!TypeOK
    <3>2. Backups!TypeOK'
      BY <1>0, <3>1, <3>a, <3>b, <3>c, <3>d, <3>e DEF Backups!TypeOK
    <3>3. Backups!KeyfileInv'
      BY <1>0, <3>1, <3>a, <3>b, <3>c, <3>d, <3>e DEF Backups!KeyfileInv, Backups!Is
    <3>4. Backups!OneKey'
      BY <1>0, <3>1, <3>a, <3>b, <3>c, <3>d, <3>e DEF Backups!OneKey, Backups!Is
    <3>5. Backups!BlobPending'
      BY <1>0, <3>1, <3>a, <3>b, <3>c, <3>d, <3>e DEF Backups!BlobPending, Backups!Is
    <3>6. Backups!QuietMeansRestorable'
      BY <1>0, <3>1, <3>a, <3>b, <3>c, <3>d, <3>e DEF Backups!QuietMeansRestorable,
         Backups!Succeeded, Backups!Opens
    <3>7. Backups!GetsOpen'
      BY <1>0, <3>1, <3>a, <3>b, <3>c, <3>d, <3>e DEF Backups!GetsOpen
    <3> QED BY <3>2, <3>3, <3>4, <3>5, <3>6, <3>7
  <2> QED BY <2>1, <2>2
<1>12. ASSUME NEW p \in HubProcs, Backups!SaveRun(p)
       PROVE  /\ Backups!TypeOK' /\ Backups!KeyfileInv' /\ Backups!OneKey'
              /\ Backups!BlobPending' /\ Backups!QuietMeansRestorable' /\ Backups!GetsOpen'
  <2> DEFINE x == [worker[p] EXCEPT !.at = "saved", !.run = Len(dumps) + 1]
  <2>1. /\ worker[p].at = "sealed"
        /\ worker' = [worker EXCEPT ![p] = x]
        /\ dumps' = Append(dumps, [unit |-> Head(worker[p].todo), key |-> worker[p].key,
            hour |-> hour, ok |-> TRUE, blob |-> "none"])
        /\ UNCHANGED <<keyfile, kekNow, kmsUp, secrets, wraps, denied, told, quietAt, restores,
            hour, twoKeys>>
    BY <1>12, Zenon DEF Backups!SaveRun, Backups!Is, Backups!Goes, Backups!Down, Backups!Up,
       Backups!vault, Backups!records, Backups!bounds, Backups!Upset
  <2>a. worker[p] \in Backups!Busy
    BY <2>1 DEF Backups!TypeOK, Backups!Resting, Backups!Busy
  <2>b. /\ Head(worker[p].todo) \in Backups!Units /\ worker[p].key \in DOMAIN secrets
        /\ worker[p].key \in Nat /\ hour \in Nat
    <3>1. /\ worker[p].todo \in Seq(Backups!Units) /\ worker[p].todo # <<>>
          /\ worker[p].key \in Nat /\ hour \in Nat
      BY <2>a DEF Backups!TypeOK, Backups!Busy
    <3> QED BY <2>1, <3>1 DEF Backups!OneKey
  <2>c. [unit |-> Head(worker[p].todo), key |-> worker[p].key, hour |-> hour, ok |-> TRUE,
            blob |-> "none"] \in Backups!Dump
    BY <2>b DEF Backups!Dump
  <2>d. /\ dumps' \in Seq(Backups!Dump) /\ DOMAIN dumps' = 1..Len(dumps) + 1
        /\ dumps'[Len(dumps) + 1].key = worker[p].key /\ dumps'[Len(dumps) + 1].blob = "none"
        /\ \A i \in DOMAIN dumps : dumps'[i] = dumps[i]
    BY <1>0, <2>1, <2>c DEF Backups!TypeOK
  <2>e. x \in Backups!Busy /\ x.todo # <<>> /\ x.at = "saved" /\ x.run = Len(dumps) + 1
    BY <1>0, <2>1, <2>a DEF Backups!TypeOK, Backups!Busy
  <2>f. worker'[p] = x /\ \A q \in HubProcs : q # p => worker'[q] = worker[q]
    BY <2>1 DEF Backups!TypeOK
  <2> HIDE DEF x
  <2>2. Backups!TypeOK'
    BY <1>0, <2>1, <2>a, <2>b, <2>c, <2>d, <2>e, <2>f DEF Backups!TypeOK
  <2>3. Backups!KeyfileInv'
    BY <1>0, <2>1, <2>a, <2>b, <2>c, <2>d, <2>e, <2>f DEF Backups!KeyfileInv, Backups!Is
  <2>4. Backups!OneKey'
    BY <1>0, <2>1, <2>a, <2>b, <2>c, <2>d, <2>e, <2>f DEF Backups!OneKey, Backups!Is
  <2>5. Backups!BlobPending'
    BY <1>0, <2>1, <2>a, <2>b, <2>c, <2>d, <2>e, <2>f DEF Backups!BlobPending, Backups!Is
  <2>6. Backups!QuietMeansRestorable'
    BY <1>0, <2>1, <2>a, <2>b, <2>c, <2>d, <2>e, <2>f DEF Backups!QuietMeansRestorable,
       Backups!Succeeded, Backups!Opens
  <2>7. Backups!GetsOpen'
    BY <1>0, <2>1, <2>a, <2>b, <2>c, <2>d, <2>e, <2>f DEF Backups!GetsOpen
  <2> QED BY <2>2, <2>3, <2>4, <2>5, <2>6, <2>7
<1>13. ASSUME NEW p \in HubProcs, Backups!StoreBlob(p)
       PROVE  /\ Backups!TypeOK' /\ Backups!KeyfileInv' /\ Backups!OneKey'
              /\ Backups!BlobPending' /\ Backups!QuietMeansRestorable' /\ Backups!GetsOpen'
  <2>1. CASE /\ dumps' = [dumps EXCEPT ![worker[p].run].blob = "whole"] /\ Backups!NextUnit(p)
             /\ UNCHANGED told
    <3>1. /\ worker[p].at = "saved"
          /\ Backups!NextUnit(p)
          /\ dumps' = [dumps EXCEPT ![worker[p].run].blob = "whole"]
          /\ UNCHANGED <<keyfile, kekNow, kmsUp, secrets, wraps, denied, told, quietAt,
              restores, hour, twoKeys>>
      BY <1>13, <2>1, Zenon DEF Backups!StoreBlob, Backups!Is, Backups!Goes, Backups!Down,
         Backups!Up, Backups!vault, Backups!records, Backups!bounds, Backups!Upset,
         Backups!Fails
    <3>a. worker[p] \in Backups!Busy
      BY <3>1 DEF Backups!TypeOK, Backups!Resting, Backups!Busy
    <3>b. PICK x \in Backups!Resting \cup Backups!Busy : /\ (x \in Backups!Busy =>
                                                              x.todo # <<>>)
                                                         /\ x.at \in {"collect", "check", "up"}
                                                         /\ worker' = [worker EXCEPT ![p] = x]
      BY <3>1, <3>a, NextUnitFacts
    <3>c. Head(worker[p].todo) \in Backups!Units
      BY <3>a DEF Backups!TypeOK, Backups!Busy
    <3>d. /\ worker[p].run \in DOMAIN dumps /\ dumps[worker[p].run] \in Backups!Dump
          /\ dumps[worker[p].run].blob = "none"
      BY <3>1 DEF Backups!TypeOK, Backups!BlobPending, Backups!Is
    <3>e. [dumps[worker[p].run] EXCEPT !.blob = "whole"] \in Backups!Dump
      BY <3>d DEF Backups!Dump
    <3>f. dumps' \in Seq(Backups!Dump) /\ DOMAIN dumps' = DOMAIN dumps
      BY <3>1, <3>d, <3>e DEF Backups!TypeOK
    <3>g. \A i \in DOMAIN dumps : dumps'[i].unit = dumps[i].unit
              /\ dumps'[i].key = dumps[i].key /\ (i # worker[p].run => dumps'[i] = dumps[i])
      BY <3>1, <3>d DEF Backups!TypeOK, Backups!Dump
    <3>h. worker'[p] = x /\ \A q \in HubProcs : q # p => worker'[q] = worker[q]
      BY <3>1, <3>b DEF Backups!TypeOK
    <3>2. Backups!TypeOK'
      BY <1>0, <3>1, <3>a, <3>b, <3>c, <3>d, <3>e, <3>f, <3>g, <3>h DEF Backups!TypeOK
    <3>3. Backups!KeyfileInv'
      BY <1>0, <3>1, <3>a, <3>b, <3>c, <3>d, <3>e, <3>f, <3>g, <3>h DEF Backups!KeyfileInv,
         Backups!Is
    <3>4. Backups!OneKey'
      BY <1>0, <3>1, <3>a, <3>b, <3>c, <3>d, <3>e, <3>f, <3>g, <3>h DEF Backups!OneKey,
         Backups!Is
    <3>5. Backups!BlobPending'
      BY <1>0, <3>1, <3>a, <3>b, <3>c, <3>d, <3>e, <3>f, <3>g, <3>h DEF Backups!BlobPending,
         Backups!Is
    <3>6. Backups!QuietMeansRestorable'
      BY <1>0, <3>1, <3>a, <3>b, <3>c, <3>d, <3>e, <3>f, <3>g,
         <3>h DEF Backups!QuietMeansRestorable, Backups!Succeeded, Backups!Opens
    <3>7. Backups!GetsOpen'
      BY <1>0, <3>1, <3>a, <3>b, <3>c, <3>d, <3>e, <3>f, <3>g, <3>h DEF Backups!GetsOpen
    <3> QED BY <3>2, <3>3, <3>4, <3>5, <3>6, <3>7
  <2>2. CASE dumps' = [dumps EXCEPT ![worker[p].run].ok = FALSE] /\ Backups!Fails(p)
    <3>1. /\ worker[p].at = "saved"
          /\ Backups!NextUnit(p)
          /\ dumps' = [dumps EXCEPT ![worker[p].run].ok = FALSE]
          /\ told' = told \cup {Head(worker[p].todo)}
          /\ UNCHANGED <<keyfile, kekNow, kmsUp, secrets, wraps, denied, quietAt, restores,
              hour, twoKeys>>
      BY <1>13, <2>2, Zenon DEF Backups!StoreBlob, Backups!Is, Backups!Goes, Backups!Down,
         Backups!Up, Backups!vault, Backups!records, Backups!bounds, Backups!Upset,
         Backups!Fails
    <3>a. worker[p] \in Backups!Busy
      BY <3>1 DEF Backups!TypeOK, Backups!Resting, Backups!Busy
    <3>b. PICK x \in Backups!Resting \cup Backups!Busy : /\ (x \in Backups!Busy =>
                                                              x.todo # <<>>)
                                                         /\ x.at \in {"collect", "check", "up"}
                                                         /\ worker' = [worker EXCEPT ![p] = x]
      BY <3>1, <3>a, NextUnitFacts
    <3>c. Head(worker[p].todo) \in Backups!Units
      BY <3>a DEF Backups!TypeOK, Backups!Busy
    <3>d. /\ worker[p].run \in DOMAIN dumps /\ dumps[worker[p].run] \in Backups!Dump
          /\ dumps[worker[p].run].blob = "none"
      BY <3>1 DEF Backups!TypeOK, Backups!BlobPending, Backups!Is
    <3>e. [dumps[worker[p].run] EXCEPT !.ok = FALSE] \in Backups!Dump
      BY <3>d DEF Backups!Dump
    <3>f. dumps' \in Seq(Backups!Dump) /\ DOMAIN dumps' = DOMAIN dumps
      BY <3>1, <3>d, <3>e DEF Backups!TypeOK
    <3>g. \A i \in DOMAIN dumps : dumps'[i].unit = dumps[i].unit
              /\ dumps'[i].key = dumps[i].key /\ (i # worker[p].run => dumps'[i] = dumps[i])
      BY <3>1, <3>d DEF Backups!TypeOK, Backups!Dump
    <3>h. worker'[p] = x /\ \A q \in HubProcs : q # p => worker'[q] = worker[q]
      BY <3>1, <3>b DEF Backups!TypeOK
    <3>2. Backups!TypeOK'
      BY <1>0, <3>1, <3>a, <3>b, <3>c, <3>d, <3>e, <3>f, <3>g, <3>h DEF Backups!TypeOK
    <3>3. Backups!KeyfileInv'
      BY <1>0, <3>1, <3>a, <3>b, <3>c, <3>d, <3>e, <3>f, <3>g, <3>h DEF Backups!KeyfileInv,
         Backups!Is
    <3>4. Backups!OneKey'
      BY <1>0, <3>1, <3>a, <3>b, <3>c, <3>d, <3>e, <3>f, <3>g, <3>h DEF Backups!OneKey,
         Backups!Is
    <3>5. Backups!BlobPending'
      BY <1>0, <3>1, <3>a, <3>b, <3>c, <3>d, <3>e, <3>f, <3>g, <3>h DEF Backups!BlobPending,
         Backups!Is
    <3>6. Backups!QuietMeansRestorable'
      BY <1>0, <3>1, <3>a, <3>b, <3>c, <3>d, <3>e, <3>f, <3>g,
         <3>h DEF Backups!QuietMeansRestorable, Backups!Succeeded, Backups!Opens
    <3>7. Backups!GetsOpen'
      BY <1>0, <3>1, <3>a, <3>b, <3>c, <3>d, <3>e, <3>f, <3>g, <3>h DEF Backups!GetsOpen
    <3> QED BY <3>2, <3>3, <3>4, <3>5, <3>6, <3>7
  <2> QED BY <2>1, <2>2, <1>13, Zenon DEF Backups!StoreBlob
<1>14. ASSUME NEW p \in HubProcs, Backups!CheckMissing(p)
       PROVE  /\ Backups!TypeOK' /\ Backups!KeyfileInv' /\ Backups!OneKey'
              /\ Backups!BlobPending' /\ Backups!QuietMeansRestorable' /\ Backups!GetsOpen'
  <2> DEFINE x == [at |-> "up"]
  <2>1. /\ worker[p].at = "check"
        /\ worker' = [worker EXCEPT ![p] = x]
        /\ told' = told \cup {u \in Backups!Units : ~Backups!HasRecent(u)}
        /\ quietAt' = [u \in Backups!Units |-> IF Backups!HasRecent(u) THEN hour ELSE -1]
        /\ UNCHANGED <<keyfile, kekNow, kmsUp, secrets, wraps, denied, dumps, restores, hour,
            twoKeys>>
    BY <1>14, Zenon DEF Backups!CheckMissing, Backups!Is, Backups!Goes, Backups!Down,
       Backups!Up, Backups!vault, Backups!records, Backups!bounds, Backups!Upset
  <2>a. \A u \in Backups!Units : quietAt'[u] >= 0 => Backups!HasRecent(u) /\ quietAt'[u] = hour
    BY <2>1
  <2>b. x \in Backups!Resting /\ x \notin Backups!Busy /\ x.at = "up"
    BY DEF Backups!Resting, Backups!Busy
  <2>c. worker'[p] = x /\ \A q \in HubProcs : q # p => worker'[q] = worker[q]
    BY <2>1 DEF Backups!TypeOK
  <2> HIDE DEF x
  <2>2. Backups!TypeOK'
    BY <1>0, <2>1, <2>a, <2>b, <2>c DEF Backups!TypeOK
  <2>3. Backups!KeyfileInv'
    BY <1>0, <2>1, <2>a, <2>b, <2>c DEF Backups!KeyfileInv, Backups!Is
  <2>4. Backups!OneKey'
    BY <1>0, <2>1, <2>a, <2>b, <2>c DEF Backups!OneKey, Backups!Is
  <2>5. Backups!BlobPending'
    BY <1>0, <2>1, <2>a, <2>b, <2>c DEF Backups!BlobPending, Backups!Is
  <2>6. Backups!QuietMeansRestorable'
    <3> SUFFICES ASSUME ~twoKeys, NEW u \in Backups!Units, Backups!HasRecent(u)
                 PROVE  \E i \in Backups!Succeeded(u) :
                          dumps[i].hour >= hour - Nightly /\ Backups!Opens(i)
      BY <2>1, <2>a DEF Backups!QuietMeansRestorable, Backups!Succeeded, Backups!Opens
    <3>1. PICK i \in Backups!Succeeded(u) :
            dumps[i].hour >= hour - Nightly /\ dumps[i].blob # "none"
      BY DEF Backups!HasRecent
    <3>2. i \in DOMAIN dumps /\ dumps[i] \in Backups!Dump
      BY <3>1 DEF Backups!Succeeded, Backups!TypeOK
    <3>3. Backups!Opens(i)
      BY <1>0, <3>1, <3>2 DEF Backups!Opens, Backups!OneKey, Backups!Dump
    <3> QED BY <3>1, <3>3
  <2>7. Backups!GetsOpen'
    BY <1>0, <2>1, <2>a, <2>b, <2>c DEF Backups!GetsOpen
  <2> QED BY <2>2, <2>3, <2>4, <2>5, <2>6, <2>7
<1>15. ASSUME NEW p \in HubProcs, Backups!RestoreDrill(p)
       PROVE  /\ Backups!TypeOK' /\ Backups!KeyfileInv' /\ Backups!OneKey'
              /\ Backups!BlobPending' /\ Backups!QuietMeansRestorable' /\ Backups!GetsOpen'
  <2>1. /\ worker[p].at = "up"
        /\ restores' \in {"none", "opened", "failed"}
        /\ denied' => denied \/ (kmsUp /\ dumps # <<>> /\ ~Backups!Unwraps(p, Len(secrets),
            secrets[Len(secrets)]))
        /\ denied' \in BOOLEAN
        /\ UNCHANGED <<keyfile, kekNow, kmsUp, secrets, wraps, worker, dumps, told, quietAt,
            hour, twoKeys>>
    BY <1>15, Backups!TypeOK, SMT DEF Backups!RestoreDrill, Backups!Is, Backups!Goes,
       Backups!Down, Backups!Up, Backups!vault, Backups!records, Backups!bounds, Backups!Upset,
       Backups!Restore, Backups!TypeOK, Backups!Succeeded
  <2>a. dumps # <<>> => Len(secrets) \in DOMAIN secrets
            /\ secrets[Len(secrets)] \in Backups!VaultRow
    BY <1>0 DEF Backups!TypeOK, Backups!OneKey
  <2>b. dumps # <<>> /\ kmsUp => Backups!Unwraps(p, Len(secrets), secrets[Len(secrets)])
    BY <2>a DEF Backups!KeyfileInv, Backups!VaultRow, Backups!Unwraps, Backups!Backend
  <2>2. Backups!TypeOK'
    BY <2>1, <2>a, <2>b DEF Backups!TypeOK
  <2>3. Backups!KeyfileInv'
    BY <2>1, <2>a, <2>b, <2>2 DEF Backups!KeyfileInv, Backups!Is
  <2>4. Backups!OneKey'
    BY <2>1, <2>a, <2>b, <2>2 DEF Backups!OneKey, Backups!Is
  <2>5. Backups!BlobPending'
    BY <2>1, <2>a, <2>b, <2>2 DEF Backups!BlobPending, Backups!Is
  <2>6. Backups!QuietMeansRestorable'
    BY <2>1, <2>a, <2>b, <2>2 DEF Backups!QuietMeansRestorable, Backups!Succeeded, Backups!Opens
  <2>7. Backups!GetsOpen'
    BY <2>1, <2>a, <2>b, <2>2 DEF Backups!GetsOpen
  <2> QED BY <2>2, <2>3, <2>4, <2>5, <2>6, <2>7
<1>16. ASSUME NEW p \in HubProcs, NEW i \in DOMAIN dumps, Backups!RestoreView(p, dumps[i].unit,
              i)
       PROVE  /\ Backups!TypeOK' /\ Backups!KeyfileInv' /\ Backups!OneKey'
              /\ Backups!BlobPending' /\ Backups!QuietMeansRestorable' /\ Backups!GetsOpen'
  <2>1. /\ worker[p].at = "up"
        /\ restores' \in {"none", "opened", "failed"}
        /\ denied' => denied \/ (kmsUp /\ dumps # <<>> /\ ~Backups!Unwraps(p, Len(secrets),
            secrets[Len(secrets)]))
        /\ denied' \in BOOLEAN
        /\ UNCHANGED <<keyfile, kekNow, kmsUp, secrets, wraps, worker, dumps, told, quietAt,
            hour, twoKeys>>
    BY <1>16, Backups!TypeOK, SMT DEF Backups!RestoreView, Backups!Is, Backups!Goes,
       Backups!Down, Backups!Up, Backups!vault, Backups!records, Backups!bounds, Backups!Upset,
       Backups!Restore, Backups!TypeOK, Backups!Succeeded
  <2>a. dumps # <<>> => Len(secrets) \in DOMAIN secrets
            /\ secrets[Len(secrets)] \in Backups!VaultRow
    BY <1>0 DEF Backups!TypeOK, Backups!OneKey
  <2>b. dumps # <<>> /\ kmsUp => Backups!Unwraps(p, Len(secrets), secrets[Len(secrets)])
    BY <2>a DEF Backups!KeyfileInv, Backups!VaultRow, Backups!Unwraps, Backups!Backend
  <2>2. Backups!TypeOK'
    BY <2>1, <2>a, <2>b DEF Backups!TypeOK
  <2>3. Backups!KeyfileInv'
    BY <2>1, <2>a, <2>b, <2>2 DEF Backups!KeyfileInv, Backups!Is
  <2>4. Backups!OneKey'
    BY <2>1, <2>a, <2>b, <2>2 DEF Backups!OneKey, Backups!Is
  <2>5. Backups!BlobPending'
    BY <2>1, <2>a, <2>b, <2>2 DEF Backups!BlobPending, Backups!Is
  <2>6. Backups!QuietMeansRestorable'
    BY <2>1, <2>a, <2>b, <2>2 DEF Backups!QuietMeansRestorable, Backups!Succeeded, Backups!Opens
  <2>7. Backups!GetsOpen'
    BY <2>1, <2>a, <2>b, <2>2 DEF Backups!GetsOpen
  <2> QED BY <2>2, <2>3, <2>4, <2>5, <2>6, <2>7
<1>17. ASSUME NEW p \in HubProcs, Backups!Killed(p)
       PROVE  /\ Backups!TypeOK' /\ Backups!KeyfileInv' /\ Backups!OneKey'
              /\ Backups!BlobPending' /\ Backups!QuietMeansRestorable' /\ Backups!GetsOpen'
  <2> DEFINE x == [at |-> "down"]
  <2>1. /\ worker' = [worker EXCEPT ![p] = x]
        /\ UNCHANGED <<keyfile, kekNow, kmsUp, secrets, wraps, denied, dumps, told, quietAt,
            restores, hour, twoKeys>>
    BY <1>17, Zenon DEF Backups!Killed, Backups!Is, Backups!Goes, Backups!Down, Backups!Up,
       Backups!vault, Backups!records, Backups!bounds, Backups!Upset
  <2>a. x \in Backups!Resting /\ x \notin Backups!Busy /\ x.at = "down"
    BY DEF Backups!Resting, Backups!Busy
  <2>b. worker'[p] = x /\ \A q \in HubProcs : q # p => worker'[q] = worker[q]
    BY <2>1 DEF Backups!TypeOK
  <2> HIDE DEF x
  <2>2. Backups!TypeOK'
    BY <1>0, <2>1, <2>a, <2>b DEF Backups!TypeOK
  <2>3. Backups!KeyfileInv'
    BY <1>0, <2>1, <2>a, <2>b DEF Backups!KeyfileInv, Backups!Is
  <2>4. Backups!OneKey'
    BY <1>0, <2>1, <2>a, <2>b DEF Backups!OneKey, Backups!Is
  <2>5. Backups!BlobPending'
    BY <1>0, <2>1, <2>a, <2>b DEF Backups!BlobPending, Backups!Is
  <2>6. Backups!QuietMeansRestorable'
    BY <1>0, <2>1, <2>a, <2>b DEF Backups!QuietMeansRestorable, Backups!Succeeded, Backups!Opens
  <2>7. Backups!GetsOpen'
    BY <1>0, <2>1, <2>a, <2>b DEF Backups!GetsOpen
  <2> QED BY <2>2, <2>3, <2>4, <2>5, <2>6, <2>7
<1>18. ASSUME NEW p \in HubProcs, NEW k \in DOMAIN secrets, Backups!Rewrap(p, k)
       PROVE  /\ Backups!TypeOK' /\ Backups!KeyfileInv' /\ Backups!OneKey'
              /\ Backups!BlobPending' /\ Backups!QuietMeansRestorable' /\ Backups!GetsOpen'
  <2>1. CASE UNCHANGED secrets /\ UNCHANGED wraps
    <3>1. /\ worker[p].at = "up"
          /\ UNCHANGED <<keyfile, kekNow, kmsUp, denied, dumps, told, quietAt, restores, hour,
              twoKeys>>
          /\ UNCHANGED <<worker, secrets, wraps>>
      BY <1>18, <2>1, Zenon DEF Backups!Rewrap, Backups!Is, Backups!Goes, Backups!Down,
         Backups!Up, Backups!vault, Backups!records, Backups!bounds, Backups!Upset
    <3>2. Backups!TypeOK'
      BY <1>0, <3>1 DEF Backups!TypeOK
    <3>3. Backups!KeyfileInv'
      BY <1>0, <3>1 DEF Backups!KeyfileInv, Backups!Is
    <3>4. Backups!OneKey'
      BY <1>0, <3>1 DEF Backups!OneKey, Backups!Is
    <3>5. Backups!BlobPending'
      BY <1>0, <3>1 DEF Backups!BlobPending, Backups!Is
    <3>6. Backups!QuietMeansRestorable'
      BY <1>0, <3>1 DEF Backups!QuietMeansRestorable, Backups!Succeeded, Backups!Opens
    <3>7. Backups!GetsOpen'
      BY <1>0, <3>1 DEF Backups!GetsOpen
    <3> QED BY <3>2, <3>3, <3>4, <3>5, <3>6, <3>7
  <2>2. CASE secrets' = [secrets EXCEPT ![k] = Backups!Wrapped] /\ wraps' = wraps + 1
    <3>1. /\ worker[p].at = "up"
          /\ UNCHANGED <<keyfile, kekNow, kmsUp, denied, worker, dumps, told, quietAt,
              restores, hour, twoKeys>>
      BY <1>18, <2>2, Zenon DEF Backups!Rewrap, Backups!Is, Backups!Goes, Backups!Down,
         Backups!Up, Backups!vault, Backups!records, Backups!bounds, Backups!Upset
    <3>a. /\ Backups!Wrapped \in Backups!VaultRow
          /\ (Backups!Wrapped.kek = "local" => Backups!Wrapped.under = keyfile)
      BY DEF Backups!TypeOK, Backups!Wrapped, Backups!VaultRow
    <3>b. /\ secrets' \in Seq(Backups!VaultRow) /\ Len(secrets') = Len(secrets)
          /\ DOMAIN secrets' = DOMAIN secrets /\ secrets'[k] = Backups!Wrapped
          /\ \A j \in DOMAIN secrets : j # k => secrets'[j] = secrets[j]
      BY <2>2, <3>a DEF Backups!TypeOK
    <3>2. Backups!TypeOK'
      BY <1>0, <3>1, <3>a, <3>b, <2>2 DEF Backups!TypeOK
    <3>3. Backups!KeyfileInv'
      BY <1>0, <3>1, <3>a, <3>b DEF Backups!KeyfileInv, Backups!Is
    <3>4. Backups!OneKey'
      BY <1>0, <3>1, <3>a, <3>b DEF Backups!OneKey, Backups!Is
    <3>5. Backups!BlobPending'
      BY <1>0, <3>1, <3>a, <3>b DEF Backups!BlobPending, Backups!Is
    <3>6. Backups!QuietMeansRestorable'
      BY <1>0, <3>1, <3>a, <3>b DEF Backups!QuietMeansRestorable, Backups!Succeeded,
         Backups!Opens
    <3>7. Backups!GetsOpen'
      BY <1>0, <3>1, <3>a, <3>b DEF Backups!GetsOpen
    <3> QED BY <3>2, <3>3, <3>4, <3>5, <3>6, <3>7
  <2> QED BY <2>1, <2>2, <1>18, Zenon DEF Backups!Rewrap
<1>19. CASE UNCHANGED backupsState
  BY <1>19 DEF backupsState, Backups!TypeOK, Backups!KeyfileInv, Backups!Is, Backups!OneKey,
     Backups!BlobPending, Backups!QuietMeansRestorable, Backups!Succeeded, Backups!Opens,
     Backups!GetsOpen
<1> QED
  BY <1>1, <1>2, <1>3, <1>4, <1>5, <1>6, <1>7, <1>8, <1>9, <1>10, <1>11, <1>12, <1>13, <1>14,
     <1>15, <1>16, <1>17, <1>18, <1>19 DEF Backups!Next

\* The invariant of the backups, of the composition.
BackupsInv == focus = "backups" => Backups!TypeOK /\ Backups!KeyfileInv /\ Backups!OneKey
    /\ Backups!BlobPending /\ Backups!QuietMeansRestorable /\ Backups!GetsOpen

\* The composition keeps the invariant of the backups.
LEMMA BackupsInvariant == Spec => []BackupsInv
<1>1. Init => BackupsInv
  <2> SUFFICES ASSUME Backups!Init
               PROVE  /\ Backups!TypeOK /\ Backups!KeyfileInv /\ Backups!OneKey
                      /\ Backups!BlobPending /\ Backups!QuietMeansRestorable /\ Backups!GetsOpen
    BY DEF Init, BackupsStarts, BackupsInv
  <2>1. \A p \in HubProcs : worker[p] = Backups!Down
    BY DEF Backups!Init
  <2>2. Backups!TypeOK
    <3>1. Backups!Down \in Backups!Resting /\ Backups!Down \notin Backups!Busy
      BY DEF Backups!Down, Backups!Resting, Backups!Busy
    <3>2. /\ worker \in [HubProcs -> Backups!Resting \cup Backups!Busy]
          /\ quietAt \in [Backups!Units -> Int]
          /\ secrets \in Seq(Backups!VaultRow) /\ dumps \in Seq(Backups!Dump)
      BY <3>1 DEF Backups!Init
    <3>3. wraps \in Nat /\ keyfile \in -1..wraps /\ hour \in Nat
      BY DEF Backups!Init
    <3>4. /\ kekNow \in {"local", "kms"} /\ restores \in {"none", "opened", "failed"}
          /\ told \subseteq Backups!Units
      BY DEF Backups!Init
    <3>5. kmsUp \in BOOLEAN /\ twoKeys \in BOOLEAN /\ denied \in BOOLEAN
      BY Zenon DEF Backups!Init
    <3> QED BY <2>1, <3>1, <3>2, <3>3, <3>4, <3>5 DEF Backups!TypeOK
  <2>3. Backups!KeyfileInv /\ Backups!BlobPending
    BY <2>1 DEF Backups!Init, Backups!Down, Backups!KeyfileInv, Backups!BlobPending, Backups!Is
  <2>4. Backups!OneKey
    BY <2>1 DEF Backups!Init, Backups!Down, Backups!OneKey, Backups!Is
  <2>5. Backups!QuietMeansRestorable /\ Backups!GetsOpen
    BY DEF Backups!Init, Backups!QuietMeansRestorable, Backups!GetsOpen
  <2> QED BY <2>2, <2>3, <2>4, <2>5
<1>2. BackupsInv /\ [Next]_allVars => BackupsInv'
  <2> SUFFICES ASSUME BackupsInv, [Next]_allVars, focus = "backups"
               PROVE  /\ Backups!TypeOK' /\ Backups!KeyfileInv' /\ Backups!OneKey'
                      /\ Backups!BlobPending' /\ Backups!QuietMeansRestorable'
                      /\ Backups!GetsOpen'
    BY OneAtATime DEF BackupsInv
  <2>1. /\ Backups!TypeOK /\ Backups!KeyfileInv /\ Backups!OneKey /\ Backups!BlobPending
        /\ Backups!QuietMeansRestorable /\ Backups!GetsOpen /\ [Backups!Next]_backupsState
    BY OneAtATime DEF BackupsInv
  <2> QED BY <2>1, BackupsNext
<1> QED BY <1>1, <1>2, PTL DEF Spec

\* For any processes, units, window, outages, rewraps and kills: a get is refused only while
\* KMS cannot be reached, and unless two first backups raced every stored dump opens with the
\* key a restore takes and a unit the nightly check passed over can be restored
\* (vault/service.py get, provision/backup.py check_missing_nightly, latest_unsealed_dump).
THEOREM BackupsTheorem == Spec => []BackupsHold
<1>1. BackupsInv => BackupsHold
  <2> SUFFICES ASSUME BackupsInv, focus = "backups", ~twoKeys, NEW i \in DOMAIN dumps,
                      dumps[i].blob # "none"
               PROVE  Backups!Opens(i)
    BY DEF BackupsInv, BackupsHold, Backups!DumpsOpen
  <2>1. dumps[i] \in Backups!Dump /\ Len(secrets) \in Nat /\ DOMAIN secrets = 1..Len(secrets)
    BY DEF BackupsInv, Backups!TypeOK
  <2>2. Len(secrets) <= 1 /\ dumps[i].key \in DOMAIN secrets
    BY DEF BackupsInv, Backups!OneKey
  <2> QED BY <2>1, <2>2 DEF Backups!Opens, Backups!Dump
<1> QED BY <1>1, BackupsInvariant, PTL

---------------------------------------------------------------------------
(* Adoption *)

\* What a write to the newest run changes.
LEMMA WriteFacts ==
    ASSUME runs \in Seq(Adopt!Row), runs # <<>>, NEW r \in Adopt!Row,
        runs' = [runs EXCEPT ![Len(runs)] = r]
    PROVE  /\ runs' \in Seq(Adopt!Row) /\ runs' # <<>> /\ Len(runs') = Len(runs)
           /\ DOMAIN runs' = DOMAIN runs /\ Adopt!Run' = r
           /\ Len(runs) \in DOMAIN runs /\ runs'[Len(runs)] = r
           /\ \A i \in DOMAIN runs : i # Len(runs) => runs'[i] = runs[i]
<1>1. Len(runs) \in Nat /\ DOMAIN runs = 1..Len(runs) /\ Len(runs) \in DOMAIN runs
  OBVIOUS
<1>2. runs' \in Seq(Adopt!Row) /\ Len(runs') = Len(runs) /\ DOMAIN runs' = DOMAIN runs
  BY <1>1
<1>3. runs'[Len(runs)] = r /\ \A i \in DOMAIN runs : i # Len(runs) => runs'[i] = runs[i]
  BY <1>1
<1>4. runs' # <<>>
  BY <1>1, <1>2
<1> QED BY <1>1, <1>2, <1>3, <1>4 DEF Adopt!Run

\* What a new run changes.
LEMMA AppendFacts ==
    ASSUME runs \in Seq(Adopt!Row), NEW r \in Adopt!Row, runs' = Append(runs, r)
    PROVE  /\ runs' \in Seq(Adopt!Row) /\ runs' # <<>> /\ Len(runs') = Len(runs) + 1
           /\ DOMAIN runs' = 1..(Len(runs) + 1) /\ Adopt!Run' = r
           /\ runs'[Len(runs) + 1] = r /\ \A i \in DOMAIN runs : runs'[i] = runs[i]
<1>1. Len(runs) \in Nat /\ DOMAIN runs = 1..Len(runs)
  OBVIOUS
<1>2. runs' \in Seq(Adopt!Row) /\ Len(runs') = Len(runs) + 1
  OBVIOUS
<1>3. DOMAIN runs' = 1..(Len(runs) + 1)
  BY <1>1, <1>2
<1>4. runs'[Len(runs) + 1] = r /\ \A i \in DOMAIN runs : runs'[i] = runs[i]
  BY <1>1
<1>5. Len(<<>>) = 0 /\ Len(runs) + 1 # 0
  BY <1>1
<1>6. runs' # <<>>
  BY <1>2, <1>5, Zenon
<1> QED BY <1>2, <1>3, <1>4, <1>6 DEF Adopt!Run

\* What the place of a worker says about it.
LEMMA PlaceFacts ==
    ASSUME Adopt!TypeOK, NEW w \in Adopt!Cleaners
    PROVE  /\ doing[w].at = "idle" => doing[w] = Adopt!Free /\ doing[w].kind = ""
           /\ doing[w].at \in Adopt!Towards \cup {"decommission"} => doing[w] \in Adopt!Flow
           /\ doing[w].at \in {"clean", "delete"} => doing[w] \in Adopt!Flow \cup Adopt!Closing
           /\ doing[w] \in Adopt!Flow => doing[w].kind = "adopt"
           /\ doing[w].kind = "adopt" => doing[w] \in Adopt!Flow /\ doing[w].at # "idle"
           /\ doing[w].at # "idle" => runs # <<>>
           /\ doing[w].kind = "adopt" => w \in Adopters
           /\ doing[w].temp \in Nat
<1>1. doing[w] \in {Adopt!Free} \cup Adopt!Flow \cup Adopt!Closing
  BY DEF Adopt!TypeOK
<1>2. /\ doing[w].kind = "adopt" => w \in Adopters
      /\ doing[w].at # "idle" => runs # <<>>
  BY DEF Adopt!TypeOK
<1>3. CASE doing[w] = Adopt!Free
  <2>1. Adopt!Free.at = "idle" /\ Adopt!Free.kind = "" /\ Adopt!Free.temp = 0
    BY DEF Adopt!Free
  <2>2. doing[w].at = "idle" /\ doing[w].kind = "" /\ doing[w].temp = 0
    BY <1>3, <2>1, Zenon
  <2>3. doing[w] \notin Adopt!Flow
    BY <2>2 DEF Adopt!Flow
  <2>4. "idle" \notin Adopt!Towards \cup {"decommission"}
    BY DEF Adopt!Towards
  <2>5. 0 \in Nat
    OBVIOUS
  <2>6. doing[w].temp \in Nat
    BY <2>2, <2>5, Zenon
  <2> QED BY <1>2, <1>3, <2>2, <2>3, <2>4, <2>6
<1>4. CASE doing[w] \in Adopt!Flow
  BY <1>2, <1>4 DEF Adopt!Towards, Adopt!Flow
<1>5. CASE doing[w] \in Adopt!Closing
  BY <1>2, <1>5 DEF Adopt!Towards, Adopt!Flow, Adopt!Closing
<1> QED BY <1>1, <1>3, <1>4, <1>5

\* Every step of a request, a worker or the reaper keeps the invariant of the adoption.
LEMMA AdoptNext ==
    Adopt!TypeOK /\ Adopt!StageTells /\ Adopt!FlowKnows /\ [Adopt!Next]_adoptState =>
        /\ Adopt!TypeOK' /\ Adopt!StageTells' /\ Adopt!FlowKnows'
<1> SUFFICES ASSUME Adopt!TypeOK, Adopt!StageTells, Adopt!FlowKnows, [Adopt!Next]_adoptState
             PROVE  /\ Adopt!TypeOK' /\ Adopt!StageTells' /\ Adopt!FlowKnows'
  OBVIOUS
<1>0. /\ Len(runs) \in Nat /\ DOMAIN runs = 1..Len(runs) /\ Len(runs) + 1 \in Nat
      /\ runs \in Seq(Adopt!Row) /\ minted \in Nat /\ Adopt!NamesMinted
      /\ runs # <<>> => Len(runs) \in DOMAIN runs /\ Adopt!Run \in Adopt!Row
          /\ Adopt!Run = runs[Len(runs)]
      /\ runs # <<>> => Adopt!Run.temp <= minted
      /\ \A w \in Adopt!Cleaners : doing[w] \in {Adopt!Free} \cup Adopt!Flow \cup Adopt!Closing
      /\ DOMAIN doing = Adopt!Cleaners
  <2>1. /\ Len(runs) \in Nat /\ DOMAIN runs = 1..Len(runs) /\ Len(runs) + 1 \in Nat
        /\ runs \in Seq(Adopt!Row) /\ minted \in Nat /\ Adopt!NamesMinted
        /\ \A w \in Adopt!Cleaners :
            doing[w] \in {Adopt!Free} \cup Adopt!Flow \cup Adopt!Closing
        /\ DOMAIN doing = Adopt!Cleaners
    BY DEF Adopt!TypeOK
  <2>2. runs # <<>> => Len(runs) \in DOMAIN runs
    BY <2>1
  <2> QED BY <2>1, <2>2 DEF Adopt!Run, Adopt!NamesMinted
<1>00. /\ minted \in Nat /\ minted + 1 \in Nat /\ (runs # <<>> => Adopt!Run \in Adopt!Row)
       /\ Adopt!NamesMinted
  BY <1>0
<1>1. ASSUME Adopt!StartAdopt PROVE Adopt!TypeOK' /\ Adopt!StageTells' /\ Adopt!FlowKnows'
  <2>1. CASE runs # <<>> /\ Adopt!Run.status = "failed" /\ Adopt!Run.stage \in Adopt!Early
    <3> DEFINE y == [Adopt!Run EXCEPT !.status = "running"]
    <3>1. /\ runs' = [runs EXCEPT ![Len(runs)] = y]
          /\ tasks' = tasks \cup {[kind |-> "adopt", run |-> Len(runs')]}
          /\ again' = (again \/ prod = "new")
          /\ UNCHANGED <<mesh, doing, minted, tempNames, orphans, prod, oldUp, temp, raced>>
      BY <1>1, <2>1, Zenon DEF Adopt!StartAdopt, Adopt!Do, Adopt!Goto, Adopt!Write,
         Adopt!Raise, Adopt!Refuse, Adopt!Edge, Adopt!History
    <3>a. /\ y \in Adopt!Row /\ y.status = "running" /\ y.stage = Adopt!Run.stage
          /\ y.temp = Adopt!Run.temp
      BY <1>00, <3>1, <2>1 DEF Adopt!Row, Adopt!Stages
    <3> HIDE DEF y
    <3>b. /\ runs' \in Seq(Adopt!Row) /\ runs' # <<>> /\ Len(runs') = Len(runs)
          /\ DOMAIN runs' = DOMAIN runs /\ Adopt!Run' = y
          /\ Len(runs) \in DOMAIN runs /\ runs'[Len(runs)] = y
          /\ \A i \in DOMAIN runs : i # Len(runs) => runs'[i] = runs[i]
      BY <1>0, <3>1, <2>1, <3>a, WriteFacts
    <3>c. (again' \in BOOLEAN) /\ (~again' => ~again)
      BY <3>1 DEF Adopt!TypeOK
    <3>2. Adopt!NamesMinted'
      <4>1. \A i \in DOMAIN runs' : runs'[i].temp <= minted'
        BY <1>0, <3>1, <2>1, <3>a, <3>b, <3>c DEF Adopt!NamesMinted
      <4>2. \A u \in Adopt!Cleaners : doing'[u].temp <= minted' /\ (doing'[u].at = "upsert" =>
                doing'[u].temp > 0)
        BY <1>0, <3>1, <2>1, <3>a, <3>b, <3>c DEF Adopt!NamesMinted
      <4>3. tempNames' \subseteq 1..minted' /\ orphans' \subseteq 0..minted'
        BY <1>0, <3>1, <2>1, <3>a, <3>b, <3>c DEF Adopt!NamesMinted
      <4> QED BY <4>1, <4>2, <4>3 DEF Adopt!NamesMinted
    <3>3. Adopt!TypeOK'
      BY <1>0, <3>1, <2>1, <3>a, <3>b, <3>c, <3>2 DEF Adopt!TypeOK
    <3>4. Adopt!StageTells'
      <4> SUFFICES ASSUME Adopt!Undisturbed'
                   PROVE  /\ (\A i \in DOMAIN runs' :
                               (runs'[i].status = "succeeded" <=> runs'[i].stage = "cleanup")
                               /\ (i < Len(runs') => runs'[i].status = "succeeded"))
                          /\ (runs' # <<>> /\ Adopt!Run'.stage \in Adopt!PostFlip =>
                               prod' = "new")
                          /\ (prod' = "new" => runs' # <<>>
                               /\ Adopt!Run'.stage \notin Adopt!Early /\ temp' = "up"
                               /\ [kind |-> "adopt", run |-> Len(runs')] \notin tasks')
                          /\ (oldUp' \/ prod' = "new")
        BY DEF Adopt!StageTells
      <4>0. Adopt!Undisturbed
        BY <3>1, <3>c DEF Adopt!Undisturbed
      <4>1. \A i \in DOMAIN runs' :
                (runs'[i].status = "succeeded" <=> runs'[i].stage = "cleanup")
                /\ (i < Len(runs') => runs'[i].status = "succeeded")
        <5> SUFFICES ASSUME NEW i \in DOMAIN runs'
                     PROVE  /\ (runs'[i].status = "succeeded" <=> runs'[i].stage = "cleanup")
                            /\ (i < Len(runs') => runs'[i].status = "succeeded")
          OBVIOUS
        <5>1. CASE i = Len(runs)
          BY <4>0, <1>0, <2>1, <3>a, <3>b, <3>c, <5>1 DEF Adopt!StageTells, Adopt!Early
        <5>2. CASE i # Len(runs)
          BY <4>0, <5>2, <3>b DEF Adopt!StageTells
        <5> QED BY <5>1, <5>2
      <4>2. runs' # <<>> /\ Adopt!Run'.stage \in Adopt!PostFlip => prod' = "new"
        BY <4>0, <1>0, <3>1, <2>1, <3>a, <3>b, <3>c DEF Adopt!StageTells, Adopt!Early,
           Adopt!PostFlip
      <4>3. prod' = "new" => runs' # <<>> /\ Adopt!Run'.stage \notin Adopt!Early
                /\ temp' = "up" /\ [kind |-> "adopt", run |-> Len(runs')] \notin tasks'
        BY <4>0, <1>0, <3>1, <2>1, <3>a, <3>b, <3>c DEF Adopt!StageTells, Adopt!Early,
           Adopt!PostFlip
      <4>4. oldUp' \/ prod' = "new"
        BY <4>0, <1>0, <3>1, <2>1, <3>a, <3>b, <3>c DEF Adopt!StageTells, Adopt!Early,
           Adopt!PostFlip
      <4> QED BY <4>1, <4>2, <4>3, <4>4
    <3>5. Adopt!FlowKnows'
      <4> SUFFICES ASSUME Adopt!Undisturbed', NEW u \in Adopt!Cleaners
                   PROVE  /\ Adopt!FlowAt(u)' /\ Adopt!StopsUnused(u)'
        BY DEF Adopt!FlowKnows
      <4>1. /\ Adopt!Undisturbed
            /\ \A v \in Adopt!Cleaners : Adopt!FlowAt(v) /\ Adopt!StopsUnused(v)
        BY <3>1, <3>c DEF Adopt!FlowKnows, Adopt!Undisturbed
      <4>2. Adopt!FlowAt(u)'
        BY <3>1, <2>1, <3>a, <3>b, <3>c, <4>1 DEF Adopt!FlowAt, Adopt!StopsUnused, Adopt!Early,
           Adopt!Towards, Adopt!PostFlip
      <4>3. Adopt!StopsUnused(u)'
        BY <3>1, <2>1, <3>a, <3>b, <3>c, <4>1 DEF Adopt!FlowAt, Adopt!StopsUnused, Adopt!Early,
           Adopt!Towards, Adopt!PostFlip
      <4> QED BY <4>2, <4>3
    <3> QED BY <3>3, <3>4, <3>5
  <2>2. CASE ~(runs # <<>> /\ Adopt!Run.status = "failed" /\ Adopt!Run.stage \in Adopt!Early)
    <3> DEFINE r == [status |-> "running", stage |-> "", temp |-> 0, stale |-> FALSE]
    <3>1. /\ runs # <<>> => ~(Adopt!Run.status = "running" /\ Adopt!Run.stage # "cleanup")
          /\ runs' = Append(runs, r)
          /\ tasks' = tasks \cup {[kind |-> "adopt", run |-> Len(runs')]}
          /\ again' = (again \/ prod = "new")
          /\ UNCHANGED <<mesh, doing, minted, tempNames, orphans, prod, oldUp, temp, raced>>
      BY <1>1, <2>2, Zenon DEF Adopt!StartAdopt, Adopt!Do, Adopt!Goto, Adopt!Write,
         Adopt!Raise, Adopt!Refuse, Adopt!Edge, Adopt!History
    <3>a. r \in Adopt!Row /\ r.status = "running" /\ r.stage = "" /\ r.temp = 0
      BY DEF Adopt!Row, Adopt!Stages
    <3> HIDE DEF r
    <3>b. /\ runs' \in Seq(Adopt!Row) /\ runs' # <<>> /\ Len(runs') = Len(runs) + 1
         /\ DOMAIN runs' = 1..(Len(runs) + 1) /\ Adopt!Run' = r
         /\ runs'[Len(runs) + 1] = r /\ \A i \in DOMAIN runs : runs'[i] = runs[i]
      BY <1>0, <3>1, <3>a, AppendFacts
    <3>c. \A w \in Adopt!Cleaners : doing[w].kind = "adopt" => runs # <<>>
      BY PlaceFacts
    <3>d. tasks' \subseteq [kind : {"adopt", "cancel"}, run : 1..Len(runs')]
      BY <1>0, <3>1, <3>b DEF Adopt!TypeOK
    <3>e. (again' \in BOOLEAN) /\ (~again' => ~again)
      BY <3>1 DEF Adopt!TypeOK
    <3>f. Adopt!Undisturbed' => prod = "old" /\ Adopt!Undisturbed
      BY <3>1, <3>e DEF Adopt!TypeOK, Adopt!Undisturbed
    <3>g. Adopt!Undisturbed' /\ runs # <<>> => Adopt!Run.status = "succeeded"
      BY <1>0, <3>1, <2>2, <3>f DEF Adopt!StageTells, Adopt!Row, Adopt!Stages, Adopt!Early,
         Adopt!PostFlip
    <3>h. Adopt!Undisturbed' => \A i \in DOMAIN runs : runs[i].status = "succeeded"
              /\ runs[i].stage = "cleanup"
      BY <1>0, <3>f, <3>g DEF Adopt!StageTells
    <3>2. Adopt!NamesMinted'
      <4>1. \A i \in DOMAIN runs' : runs'[i].temp <= minted'
        <5> SUFFICES ASSUME NEW i \in DOMAIN runs' PROVE runs'[i].temp <= minted'
          OBVIOUS
        <5>1. i \in DOMAIN runs \/ i = Len(runs) + 1
          BY <1>0, <3>b
        <5>2. runs'[i] = r \/ (i \in DOMAIN runs /\ runs'[i] = runs[i])
          BY <3>b, <5>1
        <5>3. r.temp = 0 /\ minted' = minted
          BY <3>1, <3>a
        <5> QED BY <1>0, <3>1, <5>1, <5>2, <5>3 DEF Adopt!NamesMinted
      <4>2. \A u \in Adopt!Cleaners : doing'[u].temp <= minted' /\ (doing'[u].at = "upsert" =>
                doing'[u].temp > 0)
        BY <1>0, <3>1, <2>2, <3>a, <3>b, <3>c, <3>d, <3>e, <3>f, <3>g,
           <3>h DEF Adopt!NamesMinted
      <4>3. tempNames' \subseteq 1..minted' /\ orphans' \subseteq 0..minted'
        BY <1>0, <3>1, <2>2, <3>a, <3>b, <3>c, <3>d, <3>e, <3>f, <3>g,
           <3>h DEF Adopt!NamesMinted
      <4> QED BY <4>1, <4>2, <4>3 DEF Adopt!NamesMinted
    <3>3. Adopt!TypeOK'
      BY <1>0, <3>1, <2>2, <3>a, <3>b, <3>c, <3>d, <3>e, <3>f, <3>g, <3>h, <3>2 DEF Adopt!TypeOK
    <3>4. Adopt!StageTells'
      <4> SUFFICES ASSUME Adopt!Undisturbed'
                   PROVE  /\ (\A i \in DOMAIN runs' :
                               (runs'[i].status = "succeeded" <=> runs'[i].stage = "cleanup")
                               /\ (i < Len(runs') => runs'[i].status = "succeeded"))
                          /\ (runs' # <<>> /\ Adopt!Run'.stage \in Adopt!PostFlip =>
                               prod' = "new")
                          /\ (prod' = "new" => runs' # <<>>
                               /\ Adopt!Run'.stage \notin Adopt!Early /\ temp' = "up"
                               /\ [kind |-> "adopt", run |-> Len(runs')] \notin tasks')
                          /\ (oldUp' \/ prod' = "new")
        BY DEF Adopt!StageTells
      <4>0. Adopt!Undisturbed
        BY <3>1, <3>e DEF Adopt!Undisturbed
      <4>1. \A i \in DOMAIN runs' :
                (runs'[i].status = "succeeded" <=> runs'[i].stage = "cleanup")
                /\ (i < Len(runs') => runs'[i].status = "succeeded")
        <5> SUFFICES ASSUME NEW i \in DOMAIN runs'
                     PROVE  /\ (runs'[i].status = "succeeded" <=> runs'[i].stage = "cleanup")
                            /\ (i < Len(runs') => runs'[i].status = "succeeded")
          OBVIOUS
        <5>1. i \in DOMAIN runs \/ i = Len(runs) + 1
          BY <1>0, <3>b
        <5>2. i \in DOMAIN runs => runs'[i].status = "succeeded" /\ runs'[i].stage = "cleanup"
          BY <3>b, <3>h
        <5>3. i = Len(runs) + 1 => runs'[i].status = "running" /\ runs'[i].stage = ""
          BY <3>a, <3>b
        <5>4. Len(runs) \in Nat /\ Len(runs') = Len(runs) + 1
          BY <1>0, <3>b
        <5>5. i = Len(runs) + 1 => ~(i < Len(runs'))
          BY <5>4
        <5> QED BY <4>0, <5>1, <5>2, <5>3, <5>4, <5>5 DEF Adopt!StageTells
      <4>2. runs' # <<>> /\ Adopt!Run'.stage \in Adopt!PostFlip => prod' = "new"
        BY <4>0, <1>0, <3>1, <2>2, <3>a, <3>b, <3>c, <3>d, <3>e, <3>f, <3>g,
           <3>h DEF Adopt!StageTells, Adopt!Early, Adopt!PostFlip
      <4>3. prod' = "new" => runs' # <<>> /\ Adopt!Run'.stage \notin Adopt!Early
                /\ temp' = "up" /\ [kind |-> "adopt", run |-> Len(runs')] \notin tasks'
        BY <4>0, <1>0, <3>1, <2>2, <3>a, <3>b, <3>c, <3>d, <3>e, <3>f, <3>g,
           <3>h DEF Adopt!StageTells, Adopt!Early, Adopt!PostFlip
      <4>4. oldUp' \/ prod' = "new"
        BY <4>0, <1>0, <3>1, <2>2, <3>a, <3>b, <3>c, <3>d, <3>e, <3>f, <3>g,
           <3>h DEF Adopt!StageTells, Adopt!Early, Adopt!PostFlip
      <4> QED BY <4>1, <4>2, <4>3, <4>4
    <3>5. Adopt!FlowKnows'
      <4> SUFFICES ASSUME Adopt!Undisturbed', NEW u \in Adopt!Cleaners
                   PROVE  /\ Adopt!FlowAt(u)' /\ Adopt!StopsUnused(u)'
        BY DEF Adopt!FlowKnows
      <4>1. /\ Adopt!Undisturbed
            /\ \A v \in Adopt!Cleaners : Adopt!FlowAt(v) /\ Adopt!StopsUnused(v)
        BY <3>1, <3>e DEF Adopt!FlowKnows, Adopt!Undisturbed
      <4>2. Adopt!FlowAt(u)'
        BY <3>1, <2>2, <3>a, <3>b, <3>c, <3>d, <3>e, <3>f, <3>g, <3>h, <4>1 DEF Adopt!FlowAt,
           Adopt!StopsUnused, Adopt!Early, Adopt!Towards, Adopt!PostFlip
      <4>3. Adopt!StopsUnused(u)'
        BY <3>1, <2>2, <3>a, <3>b, <3>c, <3>d, <3>e, <3>f, <3>g, <3>h, <4>1 DEF Adopt!FlowAt,
           Adopt!StopsUnused, Adopt!Early, Adopt!Towards, Adopt!PostFlip
      <4> QED BY <4>2, <4>3
    <3> QED BY <3>3, <3>4, <3>5
  <2> QED BY <2>1, <2>2
<1>2. ASSUME Adopt!CancelAdopt PROVE Adopt!TypeOK' /\ Adopt!StageTells' /\ Adopt!FlowKnows'
  <2>1. /\ runs # <<>>
        /\ tasks' = tasks \cup {[kind |-> "cancel", run |-> Len(runs)]}
        /\ UNCHANGED <<mesh, runs, doing, minted, tempNames, orphans, prod, oldUp, temp, raced,
            again>>
    BY <1>2, Zenon DEF Adopt!CancelAdopt, Adopt!Do, Adopt!Goto, Adopt!Write, Adopt!Raise,
       Adopt!Refuse, Adopt!Edge, Adopt!History
  <2>a. Adopt!Run' = Adopt!Run
    BY <2>1 DEF Adopt!Run
  <2>2. Adopt!NamesMinted'
    <3>1. \A i \in DOMAIN runs' : runs'[i].temp <= minted'
      BY <1>0, <2>1, <2>a DEF Adopt!NamesMinted
    <3>2. \A u \in Adopt!Cleaners : doing'[u].temp <= minted' /\ (doing'[u].at = "upsert" =>
              doing'[u].temp > 0)
      BY <1>0, <2>1, <2>a DEF Adopt!NamesMinted
    <3>3. tempNames' \subseteq 1..minted' /\ orphans' \subseteq 0..minted'
      BY <1>0, <2>1, <2>a DEF Adopt!NamesMinted
    <3> QED BY <3>1, <3>2, <3>3 DEF Adopt!NamesMinted
  <2>3. Adopt!TypeOK'
    BY <1>0, <2>1, <2>a, <2>2 DEF Adopt!TypeOK
  <2>4. Adopt!StageTells'
    <3> SUFFICES ASSUME Adopt!Undisturbed'
                 PROVE  /\ (\A i \in DOMAIN runs' :
                             (runs'[i].status = "succeeded" <=> runs'[i].stage = "cleanup")
                             /\ (i < Len(runs') => runs'[i].status = "succeeded"))
                        /\ (runs' # <<>> /\ Adopt!Run'.stage \in Adopt!PostFlip =>
                             prod' = "new")
                        /\ (prod' = "new" => runs' # <<>>
                             /\ Adopt!Run'.stage \notin Adopt!Early /\ temp' = "up"
                             /\ [kind |-> "adopt", run |-> Len(runs')] \notin tasks')
                        /\ (oldUp' \/ prod' = "new")
      BY DEF Adopt!StageTells
    <3>0. Adopt!Undisturbed
      BY <2>1 DEF Adopt!Undisturbed
    <3>1. \A i \in DOMAIN runs' :
              (runs'[i].status = "succeeded" <=> runs'[i].stage = "cleanup")
              /\ (i < Len(runs') => runs'[i].status = "succeeded")
      BY <3>0, <1>0, <2>1, <2>a DEF Adopt!StageTells, Adopt!Early, Adopt!PostFlip
    <3>2. runs' # <<>> /\ Adopt!Run'.stage \in Adopt!PostFlip => prod' = "new"
      BY <3>0, <1>0, <2>1, <2>a DEF Adopt!StageTells, Adopt!Early, Adopt!PostFlip
    <3>3. prod' = "new" => runs' # <<>> /\ Adopt!Run'.stage \notin Adopt!Early
              /\ temp' = "up" /\ [kind |-> "adopt", run |-> Len(runs')] \notin tasks'
      BY <3>0, <1>0, <2>1, <2>a DEF Adopt!StageTells, Adopt!Early, Adopt!PostFlip
    <3>4. oldUp' \/ prod' = "new"
      BY <3>0, <1>0, <2>1, <2>a DEF Adopt!StageTells, Adopt!Early, Adopt!PostFlip
    <3> QED BY <3>1, <3>2, <3>3, <3>4
  <2>5. Adopt!FlowKnows'
    <3> SUFFICES ASSUME Adopt!Undisturbed', NEW u \in Adopt!Cleaners
                 PROVE  /\ Adopt!FlowAt(u)' /\ Adopt!StopsUnused(u)'
      BY DEF Adopt!FlowKnows
    <3>1. Adopt!Undisturbed /\ \A v \in Adopt!Cleaners : Adopt!FlowAt(v) /\ Adopt!StopsUnused(v)
      BY <2>1 DEF Adopt!FlowKnows, Adopt!Undisturbed
    <3>2. Adopt!FlowAt(u)'
      BY <2>1, <2>a, <3>1 DEF Adopt!FlowAt, Adopt!StopsUnused, Adopt!Early, Adopt!Towards,
         Adopt!PostFlip
    <3>3. Adopt!StopsUnused(u)'
      BY <2>1, <2>a, <3>1 DEF Adopt!FlowAt, Adopt!StopsUnused, Adopt!Early, Adopt!Towards,
         Adopt!PostFlip
    <3> QED BY <3>2, <3>3
  <2> QED BY <2>3, <2>4, <2>5
<1>3. ASSUME Adopt!Age PROVE Adopt!TypeOK' /\ Adopt!StageTells' /\ Adopt!FlowKnows'
  <2>1. /\ runs' = [i \in DOMAIN runs |-> [runs[i] EXCEPT !.stale = TRUE]]
        /\ UNCHANGED <<mesh, tasks, doing, minted, tempNames, orphans, prod, oldUp, temp,
            raced, again>>
    BY <1>3, Zenon DEF Adopt!Age, Adopt!Do, Adopt!Goto, Adopt!Write, Adopt!Raise, Adopt!Refuse,
       Adopt!Edge, Adopt!History
  <2>a. \A i \in DOMAIN runs : runs[i] \in Adopt!Row
    BY <1>0
  <2>b. \A i \in DOMAIN runs : [runs[i] EXCEPT !.stale = TRUE] \in Adopt!Row
    BY <2>a DEF Adopt!Row
  <2>c. runs' \in Seq(Adopt!Row) /\ Len(runs') = Len(runs) /\ DOMAIN runs' = DOMAIN runs
    BY <1>0, <2>1, <2>b
  <2>d. \A i \in DOMAIN runs : runs'[i].status = runs[i].status
            /\ runs'[i].stage = runs[i].stage /\ runs'[i].temp = runs[i].temp
    BY <2>1, <2>a DEF Adopt!Row
  <2>e. runs' # <<>> <=> runs # <<>>
    BY <1>0, <2>c
  <2>f. runs # <<>> => Adopt!Run'.status = Adopt!Run.status
            /\ Adopt!Run'.stage = Adopt!Run.stage
    BY <1>0, <2>c, <2>d DEF Adopt!Run
  <2>g. \A w \in Adopt!Cleaners : doing[w].kind = "adopt" => runs # <<>>
    BY PlaceFacts
  <2>2. Adopt!NamesMinted'
    <3>1. \A i \in DOMAIN runs' : runs'[i].temp <= minted'
      <4> SUFFICES ASSUME NEW i \in DOMAIN runs' PROVE runs'[i].temp <= minted'
        OBVIOUS
      <4>1. i \in DOMAIN runs /\ runs'[i].temp = runs[i].temp
        BY <2>c, <2>d
      <4> QED BY <1>0, <2>1, <4>1 DEF Adopt!NamesMinted
    <3>2. \A u \in Adopt!Cleaners : doing'[u].temp <= minted' /\ (doing'[u].at = "upsert" =>
              doing'[u].temp > 0)
      BY <1>0, <2>1, <2>a, <2>b, <2>c, <2>d, <2>e, <2>f, <2>g DEF Adopt!NamesMinted
    <3>3. tempNames' \subseteq 1..minted' /\ orphans' \subseteq 0..minted'
      BY <1>0, <2>1, <2>a, <2>b, <2>c, <2>d, <2>e, <2>f, <2>g DEF Adopt!NamesMinted
    <3> QED BY <3>1, <3>2, <3>3 DEF Adopt!NamesMinted
  <2>3. Adopt!TypeOK'
    BY <1>0, <2>1, <2>a, <2>b, <2>c, <2>d, <2>e, <2>f, <2>g, <2>2 DEF Adopt!TypeOK
  <2>4. Adopt!StageTells'
    <3> SUFFICES ASSUME Adopt!Undisturbed'
                 PROVE  /\ (\A i \in DOMAIN runs' :
                             (runs'[i].status = "succeeded" <=> runs'[i].stage = "cleanup")
                             /\ (i < Len(runs') => runs'[i].status = "succeeded"))
                        /\ (runs' # <<>> /\ Adopt!Run'.stage \in Adopt!PostFlip =>
                             prod' = "new")
                        /\ (prod' = "new" => runs' # <<>>
                             /\ Adopt!Run'.stage \notin Adopt!Early /\ temp' = "up"
                             /\ [kind |-> "adopt", run |-> Len(runs')] \notin tasks')
                        /\ (oldUp' \/ prod' = "new")
      BY DEF Adopt!StageTells
    <3>0. Adopt!Undisturbed
      BY <2>1 DEF Adopt!Undisturbed
    <3>1. \A i \in DOMAIN runs' :
              (runs'[i].status = "succeeded" <=> runs'[i].stage = "cleanup")
              /\ (i < Len(runs') => runs'[i].status = "succeeded")
      <4> SUFFICES ASSUME NEW i \in DOMAIN runs'
                   PROVE  /\ (runs'[i].status = "succeeded" <=> runs'[i].stage = "cleanup")
                          /\ (i < Len(runs') => runs'[i].status = "succeeded")
        OBVIOUS
      <4>1. /\ i \in DOMAIN runs /\ runs'[i].status = runs[i].status
            /\ runs'[i].stage = runs[i].stage
        BY <2>c, <2>d
      <4>2. Len(runs') = Len(runs)
        BY <2>c
      <4> QED BY <3>0, <4>1, <4>2 DEF Adopt!StageTells
    <3>2. runs' # <<>> /\ Adopt!Run'.stage \in Adopt!PostFlip => prod' = "new"
      BY <3>0, <1>0, <2>1, <2>a, <2>b, <2>c, <2>d, <2>e, <2>f, <2>g DEF Adopt!StageTells,
         Adopt!Early, Adopt!PostFlip
    <3>3. prod' = "new" => runs' # <<>> /\ Adopt!Run'.stage \notin Adopt!Early
              /\ temp' = "up" /\ [kind |-> "adopt", run |-> Len(runs')] \notin tasks'
      BY <3>0, <1>0, <2>1, <2>a, <2>b, <2>c, <2>d, <2>e, <2>f, <2>g DEF Adopt!StageTells,
         Adopt!Early, Adopt!PostFlip
    <3>4. oldUp' \/ prod' = "new"
      BY <3>0, <1>0, <2>1, <2>a, <2>b, <2>c, <2>d, <2>e, <2>f, <2>g DEF Adopt!StageTells,
         Adopt!Early, Adopt!PostFlip
    <3> QED BY <3>1, <3>2, <3>3, <3>4
  <2>5. Adopt!FlowKnows'
    <3> SUFFICES ASSUME Adopt!Undisturbed', NEW u \in Adopt!Cleaners
                 PROVE  /\ Adopt!FlowAt(u)' /\ Adopt!StopsUnused(u)'
      BY DEF Adopt!FlowKnows
    <3>1. Adopt!Undisturbed /\ \A v \in Adopt!Cleaners : Adopt!FlowAt(v) /\ Adopt!StopsUnused(v)
      BY <2>1 DEF Adopt!FlowKnows, Adopt!Undisturbed
    <3>2. Adopt!FlowAt(u)'
      BY <2>1, <2>a, <2>b, <2>c, <2>d, <2>e, <2>f, <2>g, <3>1 DEF Adopt!FlowAt,
         Adopt!StopsUnused, Adopt!Early, Adopt!Towards, Adopt!PostFlip
    <3>3. Adopt!StopsUnused(u)'
      BY <2>1, <2>a, <2>b, <2>c, <2>d, <2>e, <2>f, <2>g, <3>1 DEF Adopt!FlowAt,
         Adopt!StopsUnused, Adopt!Early, Adopt!Towards, Adopt!PostFlip
    <3> QED BY <3>2, <3>3
  <2> QED BY <2>3, <2>4, <2>5
<1>4. ASSUME NEW k \in DOMAIN runs, Adopt!Reap(k)
      PROVE  /\ Adopt!TypeOK' /\ Adopt!StageTells' /\ Adopt!FlowKnows'
  <2> DEFINE x == [Adopt!Free EXCEPT !.kind = "reaper", !.at = "clean"]
  <2>1. /\ doing["reaper"].at = "idle"
        /\ doing' = [doing EXCEPT !["reaper"] = x]
        /\ UNCHANGED <<mesh, runs, tasks, minted, tempNames, orphans, prod, oldUp, temp, raced,
            again>>
    BY <1>4, Zenon DEF Adopt!Reap, Adopt!Do, Adopt!Goto, Adopt!Write, Adopt!Raise,
       Adopt!Refuse, Adopt!Edge, Adopt!History
  <2>a. "reaper" \in Adopt!Cleaners
    BY DEF Adopt!Cleaners
  <2>b. doing["reaper"] \in {Adopt!Free} /\ doing["reaper"].kind = ""
    BY <2>1, <2>a, PlaceFacts DEF Adopt!Towards
  <2>c. runs # <<>>
    BY <1>0
  <2>d. /\ x \in {Adopt!Free} \cup Adopt!Flow \cup Adopt!Closing /\ x.at = "clean"
        /\ x.kind = "reaper" /\ x.temp = 0
    BY <1>00, <2>1, <2>a, <2>b, <2>c DEF Adopt!Free, Adopt!Flow, Adopt!Closing, Adopt!Towards,
       Adopt!Row, Adopt!Stages
  <2>e. /\ doing'["reaper"] = x
        /\ doing' \in [Adopt!Cleaners -> {Adopt!Free} \cup Adopt!Flow \cup Adopt!Closing]
        /\ \A v \in Adopt!Cleaners : v # "reaper" => doing'[v] = doing[v]
    BY <2>1, <2>a, <2>d DEF Adopt!TypeOK
  <2>f. Adopt!Run' = Adopt!Run
    BY <2>1 DEF Adopt!Run
  <2> HIDE DEF x
  <2>2. Adopt!NamesMinted'
    <3>1. \A i \in DOMAIN runs' : runs'[i].temp <= minted'
      BY <1>0, <2>1, <2>a, <2>b, <2>c, <2>d, <2>e, <2>f DEF Adopt!NamesMinted
    <3>2. \A u \in Adopt!Cleaners : doing'[u].temp <= minted' /\ (doing'[u].at = "upsert" =>
              doing'[u].temp > 0)
      <4> SUFFICES ASSUME NEW u \in Adopt!Cleaners
                   PROVE  /\ doing'[u].temp <= minted'
                          /\ (doing'[u].at = "upsert" => doing'[u].temp > 0)
        OBVIOUS
      <4>1. CASE u = "reaper"
        <5>1. doing'[u] = x
          BY <2>e, <4>1
        <5>2. 0 <= minted'
          BY <1>00, <2>1
        <5>3. doing'[u].temp = 0 /\ doing'[u].at # "upsert"
          BY <2>d, <5>1
        <5> QED BY <5>2, <5>3
      <4>2. CASE u # "reaper"
        BY <1>0, <2>1, <2>a, <2>b, <2>c, <2>d, <2>e, <2>f, <4>2 DEF Adopt!NamesMinted
      <4> QED BY <4>1, <4>2
    <3>3. tempNames' \subseteq 1..minted' /\ orphans' \subseteq 0..minted'
      BY <1>0, <2>1, <2>a, <2>b, <2>c, <2>d, <2>e, <2>f DEF Adopt!NamesMinted
    <3> QED BY <3>1, <3>2, <3>3 DEF Adopt!NamesMinted
  <2>3. Adopt!TypeOK'
    BY <1>0, <2>1, <2>a, <2>b, <2>c, <2>d, <2>e, <2>f, <2>2 DEF Adopt!TypeOK
  <2>4. Adopt!StageTells'
    <3> SUFFICES ASSUME Adopt!Undisturbed'
                 PROVE  /\ (\A i \in DOMAIN runs' :
                             (runs'[i].status = "succeeded" <=> runs'[i].stage = "cleanup")
                             /\ (i < Len(runs') => runs'[i].status = "succeeded"))
                        /\ (runs' # <<>> /\ Adopt!Run'.stage \in Adopt!PostFlip =>
                             prod' = "new")
                        /\ (prod' = "new" => runs' # <<>>
                             /\ Adopt!Run'.stage \notin Adopt!Early /\ temp' = "up"
                             /\ [kind |-> "adopt", run |-> Len(runs')] \notin tasks')
                        /\ (oldUp' \/ prod' = "new")
      BY DEF Adopt!StageTells
    <3>0. Adopt!Undisturbed
      BY <2>1 DEF Adopt!Undisturbed
    <3>1. \A i \in DOMAIN runs' :
              (runs'[i].status = "succeeded" <=> runs'[i].stage = "cleanup")
              /\ (i < Len(runs') => runs'[i].status = "succeeded")
      BY <3>0, <1>0, <2>1, <2>a, <2>b, <2>c, <2>d, <2>e, <2>f DEF Adopt!StageTells,
         Adopt!Early, Adopt!PostFlip
    <3>2. runs' # <<>> /\ Adopt!Run'.stage \in Adopt!PostFlip => prod' = "new"
      BY <3>0, <1>0, <2>1, <2>a, <2>b, <2>c, <2>d, <2>e, <2>f DEF Adopt!StageTells,
         Adopt!Early, Adopt!PostFlip
    <3>3. prod' = "new" => runs' # <<>> /\ Adopt!Run'.stage \notin Adopt!Early
              /\ temp' = "up" /\ [kind |-> "adopt", run |-> Len(runs')] \notin tasks'
      BY <3>0, <1>0, <2>1, <2>a, <2>b, <2>c, <2>d, <2>e, <2>f DEF Adopt!StageTells,
         Adopt!Early, Adopt!PostFlip
    <3>4. oldUp' \/ prod' = "new"
      BY <3>0, <1>0, <2>1, <2>a, <2>b, <2>c, <2>d, <2>e, <2>f DEF Adopt!StageTells,
         Adopt!Early, Adopt!PostFlip
    <3> QED BY <3>1, <3>2, <3>3, <3>4
  <2>5. Adopt!FlowKnows'
    <3> SUFFICES ASSUME Adopt!Undisturbed', NEW u \in Adopt!Cleaners
                 PROVE  /\ Adopt!FlowAt(u)' /\ Adopt!StopsUnused(u)'
      BY DEF Adopt!FlowKnows
    <3>1. Adopt!Undisturbed /\ \A v \in Adopt!Cleaners : Adopt!FlowAt(v) /\ Adopt!StopsUnused(v)
      BY <2>1 DEF Adopt!FlowKnows, Adopt!Undisturbed
    <3>2. CASE u = "reaper"
      <4>1. Adopt!FlowAt(u)'
        BY <2>1, <2>a, <2>b, <2>c, <2>d, <2>e, <2>f, <3>1, <3>2 DEF Adopt!FlowAt,
           Adopt!StopsUnused, Adopt!Early, Adopt!Towards, Adopt!PostFlip
      <4>2. Adopt!StopsUnused(u)'
        BY <2>1, <2>a, <2>b, <2>c, <2>d, <2>e, <2>f, <3>1, <3>2 DEF Adopt!FlowAt,
           Adopt!StopsUnused, Adopt!Early, Adopt!Towards, Adopt!PostFlip
      <4> QED BY <4>1, <4>2
    <3>3. CASE u # "reaper"
      <4>1. Adopt!FlowAt(u)'
        BY <2>1, <2>a, <2>b, <2>c, <2>d, <2>e, <2>f, <3>1, <3>3 DEF Adopt!FlowAt,
           Adopt!StopsUnused, Adopt!Early, Adopt!Towards, Adopt!PostFlip
      <4>2. Adopt!StopsUnused(u)'
        BY <2>1, <2>a, <2>b, <2>c, <2>d, <2>e, <2>f, <3>1, <3>3 DEF Adopt!FlowAt,
           Adopt!StopsUnused, Adopt!Early, Adopt!Towards, Adopt!PostFlip
      <4> QED BY <4>1, <4>2
    <3> QED BY <3>2, <3>3
  <2> QED BY <2>3, <2>4, <2>5
<1>5. ASSUME NEW w \in Adopters, NEW m \in tasks, Adopt!ExecuteAdopt(w, m)
      PROVE  /\ Adopt!TypeOK' /\ Adopt!StageTells' /\ Adopt!FlowKnows'
  <2>1. CASE runs[m.run].status = "running" /\ Adopt!Run.stage # "cleanup" /\ mesh
    <3> DEFINE x == [Adopt!Free EXCEPT !.kind = "adopt", !.at = "verify"]
    <3>1. /\ m \in tasks
          /\ m.kind = "adopt"
          /\ doing[w].at = "idle"
          /\ doing' = [doing EXCEPT ![w] = x]
          /\ tasks' = tasks \ {m}
          /\ raced' = (raced \/ \E v \in Adopt!Cleaners : doing[v].at # "idle")
          /\ UNCHANGED <<mesh, runs, minted, tempNames, orphans, prod, oldUp, temp, again>>
      BY <1>5, <2>1, Zenon DEF Adopt!ExecuteAdopt, Adopt!Do, Adopt!Goto, Adopt!Write,
         Adopt!Raise, Adopt!Refuse, Adopt!Edge, Adopt!History
    <3>a. w \in Adopt!Cleaners
      BY <1>5 DEF Adopt!Cleaners
    <3>b. doing[w] \in {Adopt!Free} /\ doing[w].kind = ""
      BY <3>1, <3>a, PlaceFacts DEF Adopt!Towards
    <3>c. runs # <<>> /\ m.run \in DOMAIN runs /\ m = [kind |-> "adopt", run |-> m.run]
      BY <1>0, <3>1 DEF Adopt!TypeOK
    <3>d. /\ x \in {Adopt!Free} \cup Adopt!Flow \cup Adopt!Closing /\ x.at = "verify"
          /\ x.kind = "adopt" /\ x.temp = 0
      BY <1>00, <3>1, <2>1, <3>a, <3>b, <3>c DEF Adopt!Free, Adopt!Flow, Adopt!Closing,
         Adopt!Towards, Adopt!Row, Adopt!Stages
    <3>e. /\ doing'[w] = x
          /\ doing' \in [Adopt!Cleaners -> {Adopt!Free} \cup Adopt!Flow \cup Adopt!Closing]
          /\ \A v \in Adopt!Cleaners : v # w => doing'[v] = doing[v]
      BY <3>1, <3>a, <3>d DEF Adopt!TypeOK
    <3>f. Adopt!Run' = Adopt!Run
      BY <3>1 DEF Adopt!Run
    <3> HIDE DEF x
    <3>g. /\ (raced' \in BOOLEAN)
          /\ (~raced' => ~raced /\ \A v \in Adopt!Cleaners : doing[v].at = "idle")
      BY <3>1 DEF Adopt!TypeOK
    <3>h. Adopt!Undisturbed' => \A v \in Adopt!Cleaners : doing[v].at = "idle"
              /\ doing[v].kind = ""
      BY <3>g, PlaceFacts DEF Adopt!Undisturbed
    <3>i. Adopt!Undisturbed' => m.run = Len(runs)
      BY <1>0, <3>1, <2>1, <3>c, <3>g DEF Adopt!StageTells, Adopt!Undisturbed
    <3>j. Adopt!Undisturbed' => prod = "old"
      BY <3>1, <3>c, <3>g, <3>i DEF Adopt!StageTells, Adopt!Undisturbed, Adopt!TypeOK
    <3>k. Adopt!Undisturbed' => Adopt!Run.status = "running" /\ Adopt!Run.stage \in Adopt!Early
      BY <1>0, <3>1, <2>1, <3>c, <3>i, <3>j, <3>g DEF Adopt!StageTells, Adopt!Undisturbed,
         Adopt!Row, Adopt!Stages, Adopt!Early, Adopt!PostFlip
    <3>l. Adopt!Undisturbed' => [kind |-> "adopt", run |-> Len(runs)] \notin tasks'
      BY <3>1, <3>c, <3>i
    <3>2. Adopt!NamesMinted'
      <4>1. \A i \in DOMAIN runs' : runs'[i].temp <= minted'
        BY <1>0, <3>1, <2>1, <3>a, <3>b, <3>c, <3>d, <3>e, <3>f, <3>g, <3>h, <3>i, <3>j, <3>k,
           <3>l DEF Adopt!NamesMinted
      <4>2. \A u \in Adopt!Cleaners : doing'[u].temp <= minted' /\ (doing'[u].at = "upsert" =>
                doing'[u].temp > 0)
        <5> SUFFICES ASSUME NEW u \in Adopt!Cleaners
                     PROVE  /\ doing'[u].temp <= minted'
                            /\ (doing'[u].at = "upsert" => doing'[u].temp > 0)
          OBVIOUS
        <5>1. CASE u = w
          <6>1. doing'[u] = x
            BY <3>e, <5>1
          <6>2. 0 <= minted'
            BY <1>00, <3>1
          <6>3. doing'[u].temp = 0 /\ doing'[u].at # "upsert"
            BY <3>d, <6>1
          <6> QED BY <6>2, <6>3
        <5>2. CASE u # w
          BY <1>0, <3>1, <2>1, <3>a, <3>b, <3>c, <3>d, <3>e, <3>f, <3>g, <3>h, <3>i, <3>j,
             <3>k, <3>l, <5>2 DEF Adopt!NamesMinted
        <5> QED BY <5>1, <5>2
      <4>3. tempNames' \subseteq 1..minted' /\ orphans' \subseteq 0..minted'
        BY <1>0, <3>1, <2>1, <3>a, <3>b, <3>c, <3>d, <3>e, <3>f, <3>g, <3>h, <3>i, <3>j, <3>k,
           <3>l DEF Adopt!NamesMinted
      <4> QED BY <4>1, <4>2, <4>3 DEF Adopt!NamesMinted
    <3>3. Adopt!TypeOK'
      BY <1>0, <3>1, <2>1, <3>a, <3>b, <3>c, <3>d, <3>e, <3>f, <3>g, <3>h, <3>i, <3>j, <3>k,
         <3>l, <3>2 DEF Adopt!TypeOK
    <3>4. Adopt!StageTells'
      <4> SUFFICES ASSUME Adopt!Undisturbed'
                   PROVE  /\ (\A i \in DOMAIN runs' :
                               (runs'[i].status = "succeeded" <=> runs'[i].stage = "cleanup")
                               /\ (i < Len(runs') => runs'[i].status = "succeeded"))
                          /\ (runs' # <<>> /\ Adopt!Run'.stage \in Adopt!PostFlip =>
                               prod' = "new")
                          /\ (prod' = "new" => runs' # <<>>
                               /\ Adopt!Run'.stage \notin Adopt!Early /\ temp' = "up"
                               /\ [kind |-> "adopt", run |-> Len(runs')] \notin tasks')
                          /\ (oldUp' \/ prod' = "new")
        BY DEF Adopt!StageTells
      <4>0. Adopt!Undisturbed
        BY <3>1, <3>g DEF Adopt!Undisturbed
      <4>1. \A i \in DOMAIN runs' :
                (runs'[i].status = "succeeded" <=> runs'[i].stage = "cleanup")
                /\ (i < Len(runs') => runs'[i].status = "succeeded")
        BY <4>0, <1>0, <3>1, <2>1, <3>a, <3>b, <3>c, <3>d, <3>e, <3>f, <3>g, <3>h, <3>i, <3>j,
           <3>k, <3>l DEF Adopt!StageTells, Adopt!Early, Adopt!PostFlip
      <4>2. runs' # <<>> /\ Adopt!Run'.stage \in Adopt!PostFlip => prod' = "new"
        BY <4>0, <1>0, <3>1, <2>1, <3>a, <3>b, <3>c, <3>d, <3>e, <3>f, <3>g, <3>h, <3>i, <3>j,
           <3>k, <3>l DEF Adopt!StageTells, Adopt!Early, Adopt!PostFlip
      <4>3. prod' = "new" => runs' # <<>> /\ Adopt!Run'.stage \notin Adopt!Early
                /\ temp' = "up" /\ [kind |-> "adopt", run |-> Len(runs')] \notin tasks'
        BY <4>0, <1>0, <3>1, <2>1, <3>a, <3>b, <3>c, <3>d, <3>e, <3>f, <3>g, <3>h, <3>i, <3>j,
           <3>k, <3>l DEF Adopt!StageTells, Adopt!Early, Adopt!PostFlip
      <4>4. oldUp' \/ prod' = "new"
        BY <4>0, <1>0, <3>1, <2>1, <3>a, <3>b, <3>c, <3>d, <3>e, <3>f, <3>g, <3>h, <3>i, <3>j,
           <3>k, <3>l DEF Adopt!StageTells, Adopt!Early, Adopt!PostFlip
      <4> QED BY <4>1, <4>2, <4>3, <4>4
    <3>5. Adopt!FlowKnows'
      <4> SUFFICES ASSUME Adopt!Undisturbed', NEW u \in Adopt!Cleaners
                   PROVE  /\ Adopt!FlowAt(u)' /\ Adopt!StopsUnused(u)'
        BY DEF Adopt!FlowKnows
      <4>1. /\ Adopt!Undisturbed
            /\ \A v \in Adopt!Cleaners : Adopt!FlowAt(v) /\ Adopt!StopsUnused(v)
        BY <3>1, <3>g DEF Adopt!FlowKnows, Adopt!Undisturbed
      <4>2. CASE u = w
        <5>1. Adopt!FlowAt(u)'
          BY <3>1, <2>1, <3>a, <3>b, <3>c, <3>d, <3>e, <3>f, <3>g, <3>h, <3>i, <3>j, <3>k,
             <3>l, <4>1, <4>2 DEF Adopt!FlowAt, Adopt!StopsUnused, Adopt!Early, Adopt!Towards,
             Adopt!PostFlip
        <5>2. Adopt!StopsUnused(u)'
          BY <3>1, <2>1, <3>a, <3>b, <3>c, <3>d, <3>e, <3>f, <3>g, <3>h, <3>i, <3>j, <3>k,
             <3>l, <4>1, <4>2 DEF Adopt!FlowAt, Adopt!StopsUnused, Adopt!Early, Adopt!Towards,
             Adopt!PostFlip
        <5> QED BY <5>1, <5>2
      <4>3. CASE u # w
        <5>1. Adopt!FlowAt(u)'
          BY <3>1, <2>1, <3>a, <3>b, <3>c, <3>d, <3>e, <3>f, <3>g, <3>h, <3>i, <3>j, <3>k,
             <3>l, <4>1, <4>3 DEF Adopt!FlowAt, Adopt!StopsUnused, Adopt!Early, Adopt!Towards,
             Adopt!PostFlip
        <5>2. Adopt!StopsUnused(u)'
          BY <3>1, <2>1, <3>a, <3>b, <3>c, <3>d, <3>e, <3>f, <3>g, <3>h, <3>i, <3>j, <3>k,
             <3>l, <4>1, <4>3 DEF Adopt!FlowAt, Adopt!StopsUnused, Adopt!Early, Adopt!Towards,
             Adopt!PostFlip
        <5> QED BY <5>1, <5>2
      <4> QED BY <4>2, <4>3
    <3> QED BY <3>3, <3>4, <3>5
  <2>2. CASE runs[m.run].status = "running" /\ Adopt!Run.stage # "cleanup" /\ ~mesh
    <3> DEFINE x == [Adopt!Free EXCEPT !.kind = "adopt", !.at = "temp"]
    <3>1. /\ m \in tasks
          /\ m.kind = "adopt"
          /\ doing[w].at = "idle"
          /\ doing' = [doing EXCEPT ![w] = x]
          /\ tasks' = tasks \ {m}
          /\ raced' = (raced \/ \E v \in Adopt!Cleaners : doing[v].at # "idle")
          /\ UNCHANGED <<mesh, runs, minted, tempNames, orphans, prod, oldUp, temp, again>>
      BY <1>5, <2>2, Zenon DEF Adopt!ExecuteAdopt, Adopt!Do, Adopt!Goto, Adopt!Write,
         Adopt!Raise, Adopt!Refuse, Adopt!Edge, Adopt!History
    <3>a. w \in Adopt!Cleaners
      BY <1>5 DEF Adopt!Cleaners
    <3>b. doing[w] \in {Adopt!Free} /\ doing[w].kind = ""
      BY <3>1, <3>a, PlaceFacts DEF Adopt!Towards
    <3>c. runs # <<>> /\ m.run \in DOMAIN runs /\ m = [kind |-> "adopt", run |-> m.run]
      BY <1>0, <3>1 DEF Adopt!TypeOK
    <3>d. /\ x \in {Adopt!Free} \cup Adopt!Flow \cup Adopt!Closing /\ x.at = "temp"
          /\ x.kind = "adopt" /\ x.temp = 0
      BY <1>00, <3>1, <2>2, <3>a, <3>b, <3>c DEF Adopt!Free, Adopt!Flow, Adopt!Closing,
         Adopt!Towards, Adopt!Row, Adopt!Stages
    <3>e. /\ doing'[w] = x
          /\ doing' \in [Adopt!Cleaners -> {Adopt!Free} \cup Adopt!Flow \cup Adopt!Closing]
          /\ \A v \in Adopt!Cleaners : v # w => doing'[v] = doing[v]
      BY <3>1, <3>a, <3>d DEF Adopt!TypeOK
    <3>f. Adopt!Run' = Adopt!Run
      BY <3>1 DEF Adopt!Run
    <3> HIDE DEF x
    <3>g. /\ (raced' \in BOOLEAN)
          /\ (~raced' => ~raced /\ \A v \in Adopt!Cleaners : doing[v].at = "idle")
      BY <3>1 DEF Adopt!TypeOK
    <3>h. Adopt!Undisturbed' => \A v \in Adopt!Cleaners : doing[v].at = "idle"
              /\ doing[v].kind = ""
      BY <3>g, PlaceFacts DEF Adopt!Undisturbed
    <3>i. Adopt!Undisturbed' => m.run = Len(runs)
      BY <1>0, <3>1, <2>2, <3>c, <3>g DEF Adopt!StageTells, Adopt!Undisturbed
    <3>j. Adopt!Undisturbed' => prod = "old"
      BY <3>1, <3>c, <3>g, <3>i DEF Adopt!StageTells, Adopt!Undisturbed, Adopt!TypeOK
    <3>k. Adopt!Undisturbed' => Adopt!Run.status = "running" /\ Adopt!Run.stage \in Adopt!Early
      BY <1>0, <3>1, <2>2, <3>c, <3>i, <3>j, <3>g DEF Adopt!StageTells, Adopt!Undisturbed,
         Adopt!Row, Adopt!Stages, Adopt!Early, Adopt!PostFlip
    <3>l. Adopt!Undisturbed' => [kind |-> "adopt", run |-> Len(runs)] \notin tasks'
      BY <3>1, <3>c, <3>i
    <3>2. Adopt!NamesMinted'
      <4>1. \A i \in DOMAIN runs' : runs'[i].temp <= minted'
        BY <1>0, <3>1, <2>2, <3>a, <3>b, <3>c, <3>d, <3>e, <3>f, <3>g, <3>h, <3>i, <3>j, <3>k,
           <3>l DEF Adopt!NamesMinted
      <4>2. \A u \in Adopt!Cleaners : doing'[u].temp <= minted' /\ (doing'[u].at = "upsert" =>
                doing'[u].temp > 0)
        <5> SUFFICES ASSUME NEW u \in Adopt!Cleaners
                     PROVE  /\ doing'[u].temp <= minted'
                            /\ (doing'[u].at = "upsert" => doing'[u].temp > 0)
          OBVIOUS
        <5>1. CASE u = w
          <6>1. doing'[u] = x
            BY <3>e, <5>1
          <6>2. 0 <= minted'
            BY <1>00, <3>1
          <6>3. doing'[u].temp = 0 /\ doing'[u].at # "upsert"
            BY <3>d, <6>1
          <6> QED BY <6>2, <6>3
        <5>2. CASE u # w
          BY <1>0, <3>1, <2>2, <3>a, <3>b, <3>c, <3>d, <3>e, <3>f, <3>g, <3>h, <3>i, <3>j,
             <3>k, <3>l, <5>2 DEF Adopt!NamesMinted
        <5> QED BY <5>1, <5>2
      <4>3. tempNames' \subseteq 1..minted' /\ orphans' \subseteq 0..minted'
        BY <1>0, <3>1, <2>2, <3>a, <3>b, <3>c, <3>d, <3>e, <3>f, <3>g, <3>h, <3>i, <3>j, <3>k,
           <3>l DEF Adopt!NamesMinted
      <4> QED BY <4>1, <4>2, <4>3 DEF Adopt!NamesMinted
    <3>3. Adopt!TypeOK'
      BY <1>0, <3>1, <2>2, <3>a, <3>b, <3>c, <3>d, <3>e, <3>f, <3>g, <3>h, <3>i, <3>j, <3>k,
         <3>l, <3>2 DEF Adopt!TypeOK
    <3>4. Adopt!StageTells'
      <4> SUFFICES ASSUME Adopt!Undisturbed'
                   PROVE  /\ (\A i \in DOMAIN runs' :
                               (runs'[i].status = "succeeded" <=> runs'[i].stage = "cleanup")
                               /\ (i < Len(runs') => runs'[i].status = "succeeded"))
                          /\ (runs' # <<>> /\ Adopt!Run'.stage \in Adopt!PostFlip =>
                               prod' = "new")
                          /\ (prod' = "new" => runs' # <<>>
                               /\ Adopt!Run'.stage \notin Adopt!Early /\ temp' = "up"
                               /\ [kind |-> "adopt", run |-> Len(runs')] \notin tasks')
                          /\ (oldUp' \/ prod' = "new")
        BY DEF Adopt!StageTells
      <4>0. Adopt!Undisturbed
        BY <3>1, <3>g DEF Adopt!Undisturbed
      <4>1. \A i \in DOMAIN runs' :
                (runs'[i].status = "succeeded" <=> runs'[i].stage = "cleanup")
                /\ (i < Len(runs') => runs'[i].status = "succeeded")
        BY <4>0, <1>0, <3>1, <2>2, <3>a, <3>b, <3>c, <3>d, <3>e, <3>f, <3>g, <3>h, <3>i, <3>j,
           <3>k, <3>l DEF Adopt!StageTells, Adopt!Early, Adopt!PostFlip
      <4>2. runs' # <<>> /\ Adopt!Run'.stage \in Adopt!PostFlip => prod' = "new"
        BY <4>0, <1>0, <3>1, <2>2, <3>a, <3>b, <3>c, <3>d, <3>e, <3>f, <3>g, <3>h, <3>i, <3>j,
           <3>k, <3>l DEF Adopt!StageTells, Adopt!Early, Adopt!PostFlip
      <4>3. prod' = "new" => runs' # <<>> /\ Adopt!Run'.stage \notin Adopt!Early
                /\ temp' = "up" /\ [kind |-> "adopt", run |-> Len(runs')] \notin tasks'
        BY <4>0, <1>0, <3>1, <2>2, <3>a, <3>b, <3>c, <3>d, <3>e, <3>f, <3>g, <3>h, <3>i, <3>j,
           <3>k, <3>l DEF Adopt!StageTells, Adopt!Early, Adopt!PostFlip
      <4>4. oldUp' \/ prod' = "new"
        BY <4>0, <1>0, <3>1, <2>2, <3>a, <3>b, <3>c, <3>d, <3>e, <3>f, <3>g, <3>h, <3>i, <3>j,
           <3>k, <3>l DEF Adopt!StageTells, Adopt!Early, Adopt!PostFlip
      <4> QED BY <4>1, <4>2, <4>3, <4>4
    <3>5. Adopt!FlowKnows'
      <4> SUFFICES ASSUME Adopt!Undisturbed', NEW u \in Adopt!Cleaners
                   PROVE  /\ Adopt!FlowAt(u)' /\ Adopt!StopsUnused(u)'
        BY DEF Adopt!FlowKnows
      <4>1. /\ Adopt!Undisturbed
            /\ \A v \in Adopt!Cleaners : Adopt!FlowAt(v) /\ Adopt!StopsUnused(v)
        BY <3>1, <3>g DEF Adopt!FlowKnows, Adopt!Undisturbed
      <4>2. CASE u = w
        <5>1. Adopt!FlowAt(u)'
          BY <3>1, <2>2, <3>a, <3>b, <3>c, <3>d, <3>e, <3>f, <3>g, <3>h, <3>i, <3>j, <3>k,
             <3>l, <4>1, <4>2 DEF Adopt!FlowAt, Adopt!StopsUnused, Adopt!Early, Adopt!Towards,
             Adopt!PostFlip
        <5>2. Adopt!StopsUnused(u)'
          BY <3>1, <2>2, <3>a, <3>b, <3>c, <3>d, <3>e, <3>f, <3>g, <3>h, <3>i, <3>j, <3>k,
             <3>l, <4>1, <4>2 DEF Adopt!FlowAt, Adopt!StopsUnused, Adopt!Early, Adopt!Towards,
             Adopt!PostFlip
        <5> QED BY <5>1, <5>2
      <4>3. CASE u # w
        <5>1. Adopt!FlowAt(u)'
          BY <3>1, <2>2, <3>a, <3>b, <3>c, <3>d, <3>e, <3>f, <3>g, <3>h, <3>i, <3>j, <3>k,
             <3>l, <4>1, <4>3 DEF Adopt!FlowAt, Adopt!StopsUnused, Adopt!Early, Adopt!Towards,
             Adopt!PostFlip
        <5>2. Adopt!StopsUnused(u)'
          BY <3>1, <2>2, <3>a, <3>b, <3>c, <3>d, <3>e, <3>f, <3>g, <3>h, <3>i, <3>j, <3>k,
             <3>l, <4>1, <4>3 DEF Adopt!FlowAt, Adopt!StopsUnused, Adopt!Early, Adopt!Towards,
             Adopt!PostFlip
        <5> QED BY <5>1, <5>2
      <4> QED BY <4>2, <4>3
    <3> QED BY <3>3, <3>4, <3>5
  <2>3. CASE ~(runs[m.run].status = "running" /\ Adopt!Run.stage # "cleanup")
    <3>1. /\ tasks' = tasks \ {m}
          /\ raced' = (raced \/ \E v \in Adopt!Cleaners : doing[v].at # "idle")
          /\ UNCHANGED <<mesh, runs, doing, minted, tempNames, orphans, prod, oldUp, temp,
              again>>
      BY <1>5, <2>3, Zenon DEF Adopt!ExecuteAdopt, Adopt!Do, Adopt!Goto, Adopt!Write,
         Adopt!Raise, Adopt!Refuse, Adopt!Edge, Adopt!History
    <3>a. Adopt!Run' = Adopt!Run
      BY <3>1 DEF Adopt!Run
    <3>b. (raced' \in BOOLEAN) /\ (~raced' => ~raced)
      BY <3>1 DEF Adopt!TypeOK
    <3>2. Adopt!NamesMinted'
      <4>1. \A i \in DOMAIN runs' : runs'[i].temp <= minted'
        BY <1>0, <3>1, <2>3, <3>a, <3>b DEF Adopt!NamesMinted
      <4>2. \A u \in Adopt!Cleaners : doing'[u].temp <= minted' /\ (doing'[u].at = "upsert" =>
                doing'[u].temp > 0)
        BY <1>0, <3>1, <2>3, <3>a, <3>b DEF Adopt!NamesMinted
      <4>3. tempNames' \subseteq 1..minted' /\ orphans' \subseteq 0..minted'
        BY <1>0, <3>1, <2>3, <3>a, <3>b DEF Adopt!NamesMinted
      <4> QED BY <4>1, <4>2, <4>3 DEF Adopt!NamesMinted
    <3>3. Adopt!TypeOK'
      BY <1>0, <3>1, <2>3, <3>a, <3>b, <3>2 DEF Adopt!TypeOK
    <3>4. Adopt!StageTells'
      <4> SUFFICES ASSUME Adopt!Undisturbed'
                   PROVE  /\ (\A i \in DOMAIN runs' :
                               (runs'[i].status = "succeeded" <=> runs'[i].stage = "cleanup")
                               /\ (i < Len(runs') => runs'[i].status = "succeeded"))
                          /\ (runs' # <<>> /\ Adopt!Run'.stage \in Adopt!PostFlip =>
                               prod' = "new")
                          /\ (prod' = "new" => runs' # <<>>
                               /\ Adopt!Run'.stage \notin Adopt!Early /\ temp' = "up"
                               /\ [kind |-> "adopt", run |-> Len(runs')] \notin tasks')
                          /\ (oldUp' \/ prod' = "new")
        BY DEF Adopt!StageTells
      <4>0. Adopt!Undisturbed
        BY <3>1, <3>b DEF Adopt!Undisturbed
      <4>1. \A i \in DOMAIN runs' :
                (runs'[i].status = "succeeded" <=> runs'[i].stage = "cleanup")
                /\ (i < Len(runs') => runs'[i].status = "succeeded")
        BY <4>0, <1>0, <3>1, <2>3, <3>a, <3>b DEF Adopt!StageTells, Adopt!Early, Adopt!PostFlip
      <4>2. runs' # <<>> /\ Adopt!Run'.stage \in Adopt!PostFlip => prod' = "new"
        BY <4>0, <1>0, <3>1, <2>3, <3>a, <3>b DEF Adopt!StageTells, Adopt!Early, Adopt!PostFlip
      <4>3. prod' = "new" => runs' # <<>> /\ Adopt!Run'.stage \notin Adopt!Early
                /\ temp' = "up" /\ [kind |-> "adopt", run |-> Len(runs')] \notin tasks'
        BY <4>0, <1>0, <3>1, <2>3, <3>a, <3>b DEF Adopt!StageTells, Adopt!Early, Adopt!PostFlip
      <4>4. oldUp' \/ prod' = "new"
        BY <4>0, <1>0, <3>1, <2>3, <3>a, <3>b DEF Adopt!StageTells, Adopt!Early, Adopt!PostFlip
      <4> QED BY <4>1, <4>2, <4>3, <4>4
    <3>5. Adopt!FlowKnows'
      <4> SUFFICES ASSUME Adopt!Undisturbed', NEW u \in Adopt!Cleaners
                   PROVE  /\ Adopt!FlowAt(u)' /\ Adopt!StopsUnused(u)'
        BY DEF Adopt!FlowKnows
      <4>1. /\ Adopt!Undisturbed
            /\ \A v \in Adopt!Cleaners : Adopt!FlowAt(v) /\ Adopt!StopsUnused(v)
        BY <3>1, <3>b DEF Adopt!FlowKnows, Adopt!Undisturbed
      <4>2. Adopt!FlowAt(u)'
        BY <3>1, <2>3, <3>a, <3>b, <4>1 DEF Adopt!FlowAt, Adopt!StopsUnused, Adopt!Early,
           Adopt!Towards, Adopt!PostFlip
      <4>3. Adopt!StopsUnused(u)'
        BY <3>1, <2>3, <3>a, <3>b, <4>1 DEF Adopt!FlowAt, Adopt!StopsUnused, Adopt!Early,
           Adopt!Towards, Adopt!PostFlip
      <4> QED BY <4>2, <4>3
    <3> QED BY <3>3, <3>4, <3>5
  <2> QED BY <2>1, <2>2, <2>3
<1>6. ASSUME NEW w \in Adopters, NEW m \in tasks, Adopt!ExecuteCancel(w, m)
      PROVE  /\ Adopt!TypeOK' /\ Adopt!StageTells' /\ Adopt!FlowKnows'
  <2>1. CASE runs[m.run].stage \notin Adopt!PostFlip
    <3> DEFINE x == [Adopt!Free EXCEPT !.kind = "cancel", !.at = "clean"]
    <3>1. /\ m \in tasks
          /\ m.kind = "cancel"
          /\ doing[w].at = "idle"
          /\ doing' = [doing EXCEPT ![w] = x]
          /\ tasks' = tasks \ {m}
          /\ UNCHANGED <<mesh, runs, minted, tempNames, orphans, prod, oldUp, temp, raced,
              again>>
      BY <1>6, <2>1, Zenon DEF Adopt!ExecuteCancel, Adopt!Do, Adopt!Goto, Adopt!Write,
         Adopt!Raise, Adopt!Refuse, Adopt!Edge, Adopt!History
    <3>a. w \in Adopt!Cleaners
      BY <1>6 DEF Adopt!Cleaners
    <3>b. doing[w] \in {Adopt!Free} /\ doing[w].kind = ""
      BY <3>1, <3>a, PlaceFacts DEF Adopt!Towards
    <3>c. runs # <<>> /\ m.run \in DOMAIN runs
      BY <1>0, <3>1 DEF Adopt!TypeOK
    <3>d. /\ x \in {Adopt!Free} \cup Adopt!Flow \cup Adopt!Closing /\ x.at = "clean"
          /\ x.kind = "cancel" /\ x.temp = 0
      BY <1>00, <3>1, <2>1, <3>a, <3>b, <3>c DEF Adopt!Free, Adopt!Flow, Adopt!Closing,
         Adopt!Towards, Adopt!Row, Adopt!Stages
    <3>e. /\ doing'[w] = x
          /\ doing' \in [Adopt!Cleaners -> {Adopt!Free} \cup Adopt!Flow \cup Adopt!Closing]
          /\ \A v \in Adopt!Cleaners : v # w => doing'[v] = doing[v]
      BY <3>1, <3>a, <3>d DEF Adopt!TypeOK
    <3>f. Adopt!Run' = Adopt!Run
      BY <3>1 DEF Adopt!Run
    <3> HIDE DEF x
    <3>2. Adopt!NamesMinted'
      <4>1. \A i \in DOMAIN runs' : runs'[i].temp <= minted'
        BY <1>0, <3>1, <2>1, <3>a, <3>b, <3>c, <3>d, <3>e, <3>f DEF Adopt!NamesMinted
      <4>2. \A u \in Adopt!Cleaners : doing'[u].temp <= minted' /\ (doing'[u].at = "upsert" =>
                doing'[u].temp > 0)
        <5> SUFFICES ASSUME NEW u \in Adopt!Cleaners
                     PROVE  /\ doing'[u].temp <= minted'
                            /\ (doing'[u].at = "upsert" => doing'[u].temp > 0)
          OBVIOUS
        <5>1. CASE u = w
          <6>1. doing'[u] = x
            BY <3>e, <5>1
          <6>2. 0 <= minted'
            BY <1>00, <3>1
          <6>3. doing'[u].temp = 0 /\ doing'[u].at # "upsert"
            BY <3>d, <6>1
          <6> QED BY <6>2, <6>3
        <5>2. CASE u # w
          BY <1>0, <3>1, <2>1, <3>a, <3>b, <3>c, <3>d, <3>e, <3>f, <5>2 DEF Adopt!NamesMinted
        <5> QED BY <5>1, <5>2
      <4>3. tempNames' \subseteq 1..minted' /\ orphans' \subseteq 0..minted'
        BY <1>0, <3>1, <2>1, <3>a, <3>b, <3>c, <3>d, <3>e, <3>f DEF Adopt!NamesMinted
      <4> QED BY <4>1, <4>2, <4>3 DEF Adopt!NamesMinted
    <3>3. Adopt!TypeOK'
      BY <1>0, <3>1, <2>1, <3>a, <3>b, <3>c, <3>d, <3>e, <3>f, <3>2 DEF Adopt!TypeOK
    <3>4. Adopt!StageTells'
      <4> SUFFICES ASSUME Adopt!Undisturbed'
                   PROVE  /\ (\A i \in DOMAIN runs' :
                               (runs'[i].status = "succeeded" <=> runs'[i].stage = "cleanup")
                               /\ (i < Len(runs') => runs'[i].status = "succeeded"))
                          /\ (runs' # <<>> /\ Adopt!Run'.stage \in Adopt!PostFlip =>
                               prod' = "new")
                          /\ (prod' = "new" => runs' # <<>>
                               /\ Adopt!Run'.stage \notin Adopt!Early /\ temp' = "up"
                               /\ [kind |-> "adopt", run |-> Len(runs')] \notin tasks')
                          /\ (oldUp' \/ prod' = "new")
        BY DEF Adopt!StageTells
      <4>0. Adopt!Undisturbed
        BY <3>1 DEF Adopt!Undisturbed
      <4>1. \A i \in DOMAIN runs' :
                (runs'[i].status = "succeeded" <=> runs'[i].stage = "cleanup")
                /\ (i < Len(runs') => runs'[i].status = "succeeded")
        BY <4>0, <1>0, <3>1, <2>1, <3>a, <3>b, <3>c, <3>d, <3>e, <3>f DEF Adopt!StageTells,
           Adopt!Early, Adopt!PostFlip
      <4>2. runs' # <<>> /\ Adopt!Run'.stage \in Adopt!PostFlip => prod' = "new"
        BY <4>0, <1>0, <3>1, <2>1, <3>a, <3>b, <3>c, <3>d, <3>e, <3>f DEF Adopt!StageTells,
           Adopt!Early, Adopt!PostFlip
      <4>3. prod' = "new" => runs' # <<>> /\ Adopt!Run'.stage \notin Adopt!Early
                /\ temp' = "up" /\ [kind |-> "adopt", run |-> Len(runs')] \notin tasks'
        BY <4>0, <1>0, <3>1, <2>1, <3>a, <3>b, <3>c, <3>d, <3>e, <3>f DEF Adopt!StageTells,
           Adopt!Early, Adopt!PostFlip
      <4>4. oldUp' \/ prod' = "new"
        BY <4>0, <1>0, <3>1, <2>1, <3>a, <3>b, <3>c, <3>d, <3>e, <3>f DEF Adopt!StageTells,
           Adopt!Early, Adopt!PostFlip
      <4> QED BY <4>1, <4>2, <4>3, <4>4
    <3>5. Adopt!FlowKnows'
      <4> SUFFICES ASSUME Adopt!Undisturbed', NEW u \in Adopt!Cleaners
                   PROVE  /\ Adopt!FlowAt(u)' /\ Adopt!StopsUnused(u)'
        BY DEF Adopt!FlowKnows
      <4>1. /\ Adopt!Undisturbed
            /\ \A v \in Adopt!Cleaners : Adopt!FlowAt(v) /\ Adopt!StopsUnused(v)
        BY <3>1 DEF Adopt!FlowKnows, Adopt!Undisturbed
      <4>2. CASE u = w
        <5>1. Adopt!FlowAt(u)'
          BY <3>1, <2>1, <3>a, <3>b, <3>c, <3>d, <3>e, <3>f, <4>1, <4>2 DEF Adopt!FlowAt,
             Adopt!StopsUnused, Adopt!Early, Adopt!Towards, Adopt!PostFlip
        <5>2. Adopt!StopsUnused(u)'
          BY <3>1, <2>1, <3>a, <3>b, <3>c, <3>d, <3>e, <3>f, <4>1, <4>2 DEF Adopt!FlowAt,
             Adopt!StopsUnused, Adopt!Early, Adopt!Towards, Adopt!PostFlip
        <5> QED BY <5>1, <5>2
      <4>3. CASE u # w
        <5>1. Adopt!FlowAt(u)'
          BY <3>1, <2>1, <3>a, <3>b, <3>c, <3>d, <3>e, <3>f, <4>1, <4>3 DEF Adopt!FlowAt,
             Adopt!StopsUnused, Adopt!Early, Adopt!Towards, Adopt!PostFlip
        <5>2. Adopt!StopsUnused(u)'
          BY <3>1, <2>1, <3>a, <3>b, <3>c, <3>d, <3>e, <3>f, <4>1, <4>3 DEF Adopt!FlowAt,
             Adopt!StopsUnused, Adopt!Early, Adopt!Towards, Adopt!PostFlip
        <5> QED BY <5>1, <5>2
      <4> QED BY <4>2, <4>3
    <3> QED BY <3>3, <3>4, <3>5
  <2>2. CASE ~(runs[m.run].stage \notin Adopt!PostFlip)
    <3>1. /\ tasks' = tasks \ {m}
          /\ UNCHANGED <<mesh, runs, doing, minted, tempNames, orphans, prod, oldUp, temp,
              raced, again>>
      BY <1>6, <2>2, Zenon DEF Adopt!ExecuteCancel, Adopt!Do, Adopt!Goto, Adopt!Write,
         Adopt!Raise, Adopt!Refuse, Adopt!Edge, Adopt!History
    <3>a. Adopt!Run' = Adopt!Run
      BY <3>1 DEF Adopt!Run
    <3>2. Adopt!NamesMinted'
      <4>1. \A i \in DOMAIN runs' : runs'[i].temp <= minted'
        BY <1>0, <3>1, <2>2, <3>a DEF Adopt!NamesMinted
      <4>2. \A u \in Adopt!Cleaners : doing'[u].temp <= minted' /\ (doing'[u].at = "upsert" =>
                doing'[u].temp > 0)
        BY <1>0, <3>1, <2>2, <3>a DEF Adopt!NamesMinted
      <4>3. tempNames' \subseteq 1..minted' /\ orphans' \subseteq 0..minted'
        BY <1>0, <3>1, <2>2, <3>a DEF Adopt!NamesMinted
      <4> QED BY <4>1, <4>2, <4>3 DEF Adopt!NamesMinted
    <3>3. Adopt!TypeOK'
      BY <1>0, <3>1, <2>2, <3>a, <3>2 DEF Adopt!TypeOK
    <3>4. Adopt!StageTells'
      <4> SUFFICES ASSUME Adopt!Undisturbed'
                   PROVE  /\ (\A i \in DOMAIN runs' :
                               (runs'[i].status = "succeeded" <=> runs'[i].stage = "cleanup")
                               /\ (i < Len(runs') => runs'[i].status = "succeeded"))
                          /\ (runs' # <<>> /\ Adopt!Run'.stage \in Adopt!PostFlip =>
                               prod' = "new")
                          /\ (prod' = "new" => runs' # <<>>
                               /\ Adopt!Run'.stage \notin Adopt!Early /\ temp' = "up"
                               /\ [kind |-> "adopt", run |-> Len(runs')] \notin tasks')
                          /\ (oldUp' \/ prod' = "new")
        BY DEF Adopt!StageTells
      <4>0. Adopt!Undisturbed
        BY <3>1 DEF Adopt!Undisturbed
      <4>1. \A i \in DOMAIN runs' :
                (runs'[i].status = "succeeded" <=> runs'[i].stage = "cleanup")
                /\ (i < Len(runs') => runs'[i].status = "succeeded")
        BY <4>0, <1>0, <3>1, <2>2, <3>a DEF Adopt!StageTells, Adopt!Early, Adopt!PostFlip
      <4>2. runs' # <<>> /\ Adopt!Run'.stage \in Adopt!PostFlip => prod' = "new"
        BY <4>0, <1>0, <3>1, <2>2, <3>a DEF Adopt!StageTells, Adopt!Early, Adopt!PostFlip
      <4>3. prod' = "new" => runs' # <<>> /\ Adopt!Run'.stage \notin Adopt!Early
                /\ temp' = "up" /\ [kind |-> "adopt", run |-> Len(runs')] \notin tasks'
        BY <4>0, <1>0, <3>1, <2>2, <3>a DEF Adopt!StageTells, Adopt!Early, Adopt!PostFlip
      <4>4. oldUp' \/ prod' = "new"
        BY <4>0, <1>0, <3>1, <2>2, <3>a DEF Adopt!StageTells, Adopt!Early, Adopt!PostFlip
      <4> QED BY <4>1, <4>2, <4>3, <4>4
    <3>5. Adopt!FlowKnows'
      <4> SUFFICES ASSUME Adopt!Undisturbed', NEW u \in Adopt!Cleaners
                   PROVE  /\ Adopt!FlowAt(u)' /\ Adopt!StopsUnused(u)'
        BY DEF Adopt!FlowKnows
      <4>1. /\ Adopt!Undisturbed
            /\ \A v \in Adopt!Cleaners : Adopt!FlowAt(v) /\ Adopt!StopsUnused(v)
        BY <3>1 DEF Adopt!FlowKnows, Adopt!Undisturbed
      <4>2. Adopt!FlowAt(u)'
        BY <3>1, <2>2, <3>a, <4>1 DEF Adopt!FlowAt, Adopt!StopsUnused, Adopt!Early,
           Adopt!Towards, Adopt!PostFlip
      <4>3. Adopt!StopsUnused(u)'
        BY <3>1, <2>2, <3>a, <4>1 DEF Adopt!FlowAt, Adopt!StopsUnused, Adopt!Early,
           Adopt!Towards, Adopt!PostFlip
      <4> QED BY <4>2, <4>3
    <3> QED BY <3>3, <3>4, <3>5
  <2> QED BY <2>1, <2>2
<1>7. ASSUME NEW w \in Adopters, Adopt!MintTemp(w)
      PROVE  /\ Adopt!TypeOK' /\ Adopt!StageTells' /\ Adopt!FlowKnows'
  <2>1. CASE Adopt!Run.stage = "cleanup"
    <3> DEFINE x == [doing[w] EXCEPT !.at = "verify"]
    <3>1. /\ doing[w].at = "temp"
          /\ doing' = [doing EXCEPT ![w] = x]
          /\ UNCHANGED <<mesh, runs, tasks, minted, tempNames, orphans, prod, oldUp, temp,
              raced, again>>
      BY <1>7, <2>1, Zenon DEF Adopt!MintTemp, Adopt!Do, Adopt!Goto, Adopt!Write, Adopt!Raise,
         Adopt!Refuse, Adopt!Edge, Adopt!History
    <3>a. w \in Adopt!Cleaners
      BY <1>7 DEF Adopt!Cleaners
    <3>b. doing[w] \in Adopt!Flow /\ doing[w].kind = "adopt" /\ runs # <<>>
      BY <3>1, <3>a, PlaceFacts DEF Adopt!Towards
    <3>c. Adopt!Undisturbed => Adopt!Run.status = "running" /\ Adopt!Run.stage # "cleanup"
              /\ [kind |-> "adopt",
              run |-> Len(runs)] \notin tasks /\ prod = "old" /\ Adopt!Run.stage \in Adopt!Early
      BY <3>1, <3>a, <3>b DEF Adopt!FlowKnows, Adopt!FlowAt, Adopt!Towards
    <3>d. /\ x \in {Adopt!Free} \cup Adopt!Flow \cup Adopt!Closing /\ x.at = "verify"
          /\ x.kind = doing[w].kind /\ x.temp = doing[w].temp
      BY <1>00, <3>1, <2>1, <3>a, <3>b, <3>c DEF Adopt!Free, Adopt!Flow, Adopt!Closing,
         Adopt!Towards, Adopt!Row, Adopt!Stages
    <3>e. /\ doing'[w] = x
          /\ doing' \in [Adopt!Cleaners -> {Adopt!Free} \cup Adopt!Flow \cup Adopt!Closing]
          /\ \A v \in Adopt!Cleaners : v # w => doing'[v] = doing[v]
      BY <3>1, <3>a, <3>d DEF Adopt!TypeOK
    <3>f. Adopt!Run' = Adopt!Run
      BY <3>1 DEF Adopt!Run
    <3> HIDE DEF x
    <3>2. Adopt!NamesMinted'
      <4>1. \A i \in DOMAIN runs' : runs'[i].temp <= minted'
        BY <1>0, <3>1, <2>1, <3>a, <3>b, <3>c, <3>d, <3>e, <3>f DEF Adopt!NamesMinted
      <4>2. \A u \in Adopt!Cleaners : doing'[u].temp <= minted' /\ (doing'[u].at = "upsert" =>
                doing'[u].temp > 0)
        <5> SUFFICES ASSUME NEW u \in Adopt!Cleaners
                     PROVE  /\ doing'[u].temp <= minted'
                            /\ (doing'[u].at = "upsert" => doing'[u].temp > 0)
          OBVIOUS
        <5>1. CASE u = w
          <6>1. doing'[u] = x
            BY <3>e, <5>1
          <6>2. x.temp <= minted' /\ (x.at = "upsert" => x.temp > 0)
            BY <1>00, <3>1, <3>d, <3>a DEF Adopt!NamesMinted
          <6> QED BY <6>1, <6>2
        <5>2. CASE u # w
          BY <1>0, <3>1, <2>1, <3>a, <3>b, <3>c, <3>d, <3>e, <3>f, <5>2 DEF Adopt!NamesMinted
        <5> QED BY <5>1, <5>2
      <4>3. tempNames' \subseteq 1..minted' /\ orphans' \subseteq 0..minted'
        BY <1>0, <3>1, <2>1, <3>a, <3>b, <3>c, <3>d, <3>e, <3>f DEF Adopt!NamesMinted
      <4> QED BY <4>1, <4>2, <4>3 DEF Adopt!NamesMinted
    <3>3. Adopt!TypeOK'
      BY <1>0, <3>1, <2>1, <3>a, <3>b, <3>c, <3>d, <3>e, <3>f, <3>2 DEF Adopt!TypeOK
    <3>4. Adopt!StageTells'
      <4> SUFFICES ASSUME Adopt!Undisturbed'
                   PROVE  /\ (\A i \in DOMAIN runs' :
                               (runs'[i].status = "succeeded" <=> runs'[i].stage = "cleanup")
                               /\ (i < Len(runs') => runs'[i].status = "succeeded"))
                          /\ (runs' # <<>> /\ Adopt!Run'.stage \in Adopt!PostFlip =>
                               prod' = "new")
                          /\ (prod' = "new" => runs' # <<>>
                               /\ Adopt!Run'.stage \notin Adopt!Early /\ temp' = "up"
                               /\ [kind |-> "adopt", run |-> Len(runs')] \notin tasks')
                          /\ (oldUp' \/ prod' = "new")
        BY DEF Adopt!StageTells
      <4>0. Adopt!Undisturbed
        BY <3>1 DEF Adopt!Undisturbed
      <4>1. \A i \in DOMAIN runs' :
                (runs'[i].status = "succeeded" <=> runs'[i].stage = "cleanup")
                /\ (i < Len(runs') => runs'[i].status = "succeeded")
        BY <4>0, <1>0, <3>1, <2>1, <3>a, <3>b, <3>c, <3>d, <3>e, <3>f DEF Adopt!StageTells,
           Adopt!Early, Adopt!PostFlip
      <4>2. runs' # <<>> /\ Adopt!Run'.stage \in Adopt!PostFlip => prod' = "new"
        BY <4>0, <1>0, <3>1, <2>1, <3>a, <3>b, <3>c, <3>d, <3>e, <3>f DEF Adopt!StageTells,
           Adopt!Early, Adopt!PostFlip
      <4>3. prod' = "new" => runs' # <<>> /\ Adopt!Run'.stage \notin Adopt!Early
                /\ temp' = "up" /\ [kind |-> "adopt", run |-> Len(runs')] \notin tasks'
        BY <4>0, <1>0, <3>1, <2>1, <3>a, <3>b, <3>c, <3>d, <3>e, <3>f DEF Adopt!StageTells,
           Adopt!Early, Adopt!PostFlip
      <4>4. oldUp' \/ prod' = "new"
        BY <4>0, <1>0, <3>1, <2>1, <3>a, <3>b, <3>c, <3>d, <3>e, <3>f DEF Adopt!StageTells,
           Adopt!Early, Adopt!PostFlip
      <4> QED BY <4>1, <4>2, <4>3, <4>4
    <3>5. Adopt!FlowKnows'
      <4> SUFFICES ASSUME Adopt!Undisturbed', NEW u \in Adopt!Cleaners
                   PROVE  /\ Adopt!FlowAt(u)' /\ Adopt!StopsUnused(u)'
        BY DEF Adopt!FlowKnows
      <4>1. /\ Adopt!Undisturbed
            /\ \A v \in Adopt!Cleaners : Adopt!FlowAt(v) /\ Adopt!StopsUnused(v)
        BY <3>1 DEF Adopt!FlowKnows, Adopt!Undisturbed
      <4>2. CASE u = w
        <5>1. Adopt!FlowAt(u)'
          BY <3>1, <2>1, <3>a, <3>b, <3>c, <3>d, <3>e, <3>f, <4>1, <4>2 DEF Adopt!FlowAt,
             Adopt!StopsUnused, Adopt!Early, Adopt!Towards, Adopt!PostFlip
        <5>2. Adopt!StopsUnused(u)'
          BY <3>1, <2>1, <3>a, <3>b, <3>c, <3>d, <3>e, <3>f, <4>1, <4>2 DEF Adopt!FlowAt,
             Adopt!StopsUnused, Adopt!Early, Adopt!Towards, Adopt!PostFlip
        <5> QED BY <5>1, <5>2
      <4>3. CASE u # w
        <5>1. Adopt!FlowAt(u)'
          BY <3>1, <2>1, <3>a, <3>b, <3>c, <3>d, <3>e, <3>f, <4>1, <4>3 DEF Adopt!FlowAt,
             Adopt!StopsUnused, Adopt!Early, Adopt!Towards, Adopt!PostFlip
        <5>2. Adopt!StopsUnused(u)'
          BY <3>1, <2>1, <3>a, <3>b, <3>c, <3>d, <3>e, <3>f, <4>1, <4>3 DEF Adopt!FlowAt,
             Adopt!StopsUnused, Adopt!Early, Adopt!Towards, Adopt!PostFlip
        <5> QED BY <5>1, <5>2
      <4> QED BY <4>2, <4>3
    <3> QED BY <3>3, <3>4, <3>5
  <2>2. CASE Adopt!Run.stage # "cleanup" /\ Adopt!Run.temp = 0
    <3> DEFINE x == [doing[w] EXCEPT !.at = "upsert", !.stage = Adopt!Run.stage,
            !.temp = minted + 1]
    <3> DEFINE y == [Adopt!Run EXCEPT !.temp = minted + 1, !.stage = "temp_dns"]
    <3>1. /\ doing[w].at = "temp"
          /\ doing' = [doing EXCEPT ![w] = x]
          /\ runs' = [runs EXCEPT ![Len(runs)] = y]
          /\ minted' = minted + 1
          /\ UNCHANGED <<mesh, tasks, tempNames, orphans, prod, oldUp, temp, raced, again>>
      BY <1>7, <2>2, Zenon DEF Adopt!MintTemp, Adopt!Do, Adopt!Goto, Adopt!Write, Adopt!Raise,
         Adopt!Refuse, Adopt!Edge, Adopt!History
    <3>a. w \in Adopt!Cleaners
      BY <1>7 DEF Adopt!Cleaners
    <3>b. doing[w] \in Adopt!Flow /\ doing[w].kind = "adopt" /\ runs # <<>>
      BY <3>1, <3>a, PlaceFacts DEF Adopt!Towards
    <3>c. Adopt!Undisturbed => Adopt!Run.status = "running" /\ Adopt!Run.stage # "cleanup"
              /\ [kind |-> "adopt",
              run |-> Len(runs)] \notin tasks /\ prod = "old" /\ Adopt!Run.stage \in Adopt!Early
      BY <3>1, <3>a, <3>b DEF Adopt!FlowKnows, Adopt!FlowAt, Adopt!Towards
    <3>d. /\ y \in Adopt!Row /\ y.status = Adopt!Run.status /\ y.stage = "temp_dns"
          /\ y.temp = minted + 1
      BY <1>00, <3>1, <2>2, <3>a, <3>b, <3>c DEF Adopt!Row, Adopt!Stages
    <3>e. /\ x \in {Adopt!Free} \cup Adopt!Flow \cup Adopt!Closing /\ x.at = "upsert"
          /\ x.kind = doing[w].kind /\ x.temp = minted + 1
      BY <1>00, <3>1, <2>2, <3>a, <3>b, <3>c, <3>d DEF Adopt!Free, Adopt!Flow, Adopt!Closing,
         Adopt!Towards, Adopt!Row, Adopt!Stages
    <3>f. /\ doing'[w] = x
          /\ doing' \in [Adopt!Cleaners -> {Adopt!Free} \cup Adopt!Flow \cup Adopt!Closing]
          /\ \A v \in Adopt!Cleaners : v # w => doing'[v] = doing[v]
      BY <3>1, <3>a, <3>e DEF Adopt!TypeOK
    <3> HIDE DEF x
    <3> HIDE DEF y
    <3>g. /\ runs' \in Seq(Adopt!Row) /\ runs' # <<>> /\ Len(runs') = Len(runs)
          /\ DOMAIN runs' = DOMAIN runs /\ Adopt!Run' = y
          /\ Len(runs) \in DOMAIN runs /\ runs'[Len(runs)] = y
          /\ \A i \in DOMAIN runs : i # Len(runs) => runs'[i] = runs[i]
      BY <1>0, <3>1, <2>2, <3>a, <3>b, <3>c, <3>d, <3>e, <3>f, WriteFacts
    <3>2. Adopt!NamesMinted'
      <4>1. \A i \in DOMAIN runs' : runs'[i].temp <= minted'
        <5> SUFFICES ASSUME NEW i \in DOMAIN runs' PROVE runs'[i].temp <= minted'
          OBVIOUS
        <5>1. CASE i = Len(runs)
          BY <1>00, <3>1, <3>d, <3>g, <5>1
        <5>2. CASE i # Len(runs)
          <6>1. runs'[i] = runs[i] /\ runs[i] \in Adopt!Row /\ runs[i].temp <= minted
            BY <1>0, <3>g, <5>2 DEF Adopt!NamesMinted
          <6> QED BY <6>1, <1>00, <3>1 DEF Adopt!Row
        <5> QED BY <5>1, <5>2
      <4>2. \A u \in Adopt!Cleaners : doing'[u].temp <= minted' /\ (doing'[u].at = "upsert" =>
                doing'[u].temp > 0)
        <5> SUFFICES ASSUME NEW u \in Adopt!Cleaners
                     PROVE  /\ doing'[u].temp <= minted'
                            /\ (doing'[u].at = "upsert" => doing'[u].temp > 0)
          OBVIOUS
        <5>1. CASE u = w
          <6>1. doing'[u] = x
            BY <3>f, <5>1
          <6>2. x.temp <= minted' /\ (x.at = "upsert" => x.temp > 0)
            BY <1>00, <3>1, <3>e, <3>1
          <6> QED BY <6>1, <6>2
        <5>2. CASE u # w
          <6>1. /\ doing'[u] = doing[u]
                /\ doing[u] \in {Adopt!Free} \cup Adopt!Flow \cup Adopt!Closing
            BY <1>0, <3>f, <5>2
          <6>2. doing[u].temp <= minted /\ (doing[u].at = "upsert" => doing[u].temp > 0)
            BY <1>00 DEF Adopt!NamesMinted
          <6>3. doing[u].temp \in Nat
            BY PlaceFacts
          <6> QED BY <1>00, <3>1, <6>1, <6>2, <6>3
        <5> QED BY <5>1, <5>2
      <4>3. tempNames' \subseteq 1..minted' /\ orphans' \subseteq 0..minted'
        BY <1>0, <3>1, <2>2, <3>a, <3>b, <3>c, <3>d, <3>e, <3>f, <3>g DEF Adopt!NamesMinted
      <4> QED BY <4>1, <4>2, <4>3 DEF Adopt!NamesMinted
    <3>3. Adopt!TypeOK'
      BY <1>0, <3>1, <2>2, <3>a, <3>b, <3>c, <3>d, <3>e, <3>f, <3>g, <3>2 DEF Adopt!TypeOK
    <3>4. Adopt!StageTells'
      <4> SUFFICES ASSUME Adopt!Undisturbed'
                   PROVE  /\ (\A i \in DOMAIN runs' :
                               (runs'[i].status = "succeeded" <=> runs'[i].stage = "cleanup")
                               /\ (i < Len(runs') => runs'[i].status = "succeeded"))
                          /\ (runs' # <<>> /\ Adopt!Run'.stage \in Adopt!PostFlip =>
                               prod' = "new")
                          /\ (prod' = "new" => runs' # <<>>
                               /\ Adopt!Run'.stage \notin Adopt!Early /\ temp' = "up"
                               /\ [kind |-> "adopt", run |-> Len(runs')] \notin tasks')
                          /\ (oldUp' \/ prod' = "new")
        BY DEF Adopt!StageTells
      <4>0. Adopt!Undisturbed
        BY <3>1 DEF Adopt!Undisturbed
      <4>1. \A i \in DOMAIN runs' :
                (runs'[i].status = "succeeded" <=> runs'[i].stage = "cleanup")
                /\ (i < Len(runs') => runs'[i].status = "succeeded")
        <5> SUFFICES ASSUME NEW i \in DOMAIN runs'
                     PROVE  /\ (runs'[i].status = "succeeded" <=> runs'[i].stage = "cleanup")
                            /\ (i < Len(runs') => runs'[i].status = "succeeded")
          OBVIOUS
        <5>1. CASE i = Len(runs)
          BY <4>0, <1>0, <2>2, <3>a, <3>b, <3>c, <3>d, <3>e, <3>f, <3>g,
             <5>1 DEF Adopt!StageTells, Adopt!Early
        <5>2. CASE i # Len(runs)
          BY <4>0, <5>2, <3>g DEF Adopt!StageTells
        <5> QED BY <5>1, <5>2
      <4>2. runs' # <<>> /\ Adopt!Run'.stage \in Adopt!PostFlip => prod' = "new"
        BY <4>0, <1>0, <3>1, <2>2, <3>a, <3>b, <3>c, <3>d, <3>e, <3>f,
           <3>g DEF Adopt!StageTells, Adopt!Early, Adopt!PostFlip
      <4>3. prod' = "new" => runs' # <<>> /\ Adopt!Run'.stage \notin Adopt!Early
                /\ temp' = "up" /\ [kind |-> "adopt", run |-> Len(runs')] \notin tasks'
        BY <4>0, <1>0, <3>1, <2>2, <3>a, <3>b, <3>c, <3>d, <3>e, <3>f,
           <3>g DEF Adopt!StageTells, Adopt!Early, Adopt!PostFlip
      <4>4. oldUp' \/ prod' = "new"
        BY <4>0, <1>0, <3>1, <2>2, <3>a, <3>b, <3>c, <3>d, <3>e, <3>f,
           <3>g DEF Adopt!StageTells, Adopt!Early, Adopt!PostFlip
      <4> QED BY <4>1, <4>2, <4>3, <4>4
    <3>5. Adopt!FlowKnows'
      <4> SUFFICES ASSUME Adopt!Undisturbed', NEW u \in Adopt!Cleaners
                   PROVE  /\ Adopt!FlowAt(u)' /\ Adopt!StopsUnused(u)'
        BY DEF Adopt!FlowKnows
      <4>1. /\ Adopt!Undisturbed
            /\ \A v \in Adopt!Cleaners : Adopt!FlowAt(v) /\ Adopt!StopsUnused(v)
        BY <3>1 DEF Adopt!FlowKnows, Adopt!Undisturbed
      <4>2. CASE u = w
        <5>1. Adopt!FlowAt(u)'
          BY <3>1, <2>2, <3>a, <3>b, <3>c, <3>d, <3>e, <3>f, <3>g, <4>1, <4>2 DEF Adopt!FlowAt,
             Adopt!StopsUnused, Adopt!Early, Adopt!Towards, Adopt!PostFlip
        <5>2. Adopt!StopsUnused(u)'
          BY <3>1, <2>2, <3>a, <3>b, <3>c, <3>d, <3>e, <3>f, <3>g, <4>1, <4>2 DEF Adopt!FlowAt,
             Adopt!StopsUnused, Adopt!Early, Adopt!Towards, Adopt!PostFlip
        <5> QED BY <5>1, <5>2
      <4>3. CASE u # w
        <5>1. Adopt!FlowAt(u)'
          BY <3>1, <2>2, <3>a, <3>b, <3>c, <3>d, <3>e, <3>f, <3>g, <4>1, <4>3 DEF Adopt!FlowAt,
             Adopt!StopsUnused, Adopt!Early, Adopt!Towards, Adopt!PostFlip
        <5>2. Adopt!StopsUnused(u)'
          BY <3>1, <2>2, <3>a, <3>b, <3>c, <3>d, <3>e, <3>f, <3>g, <4>1, <4>3 DEF Adopt!FlowAt,
             Adopt!StopsUnused, Adopt!Early, Adopt!Towards, Adopt!PostFlip
        <5> QED BY <5>1, <5>2
      <4> QED BY <4>2, <4>3
    <3> QED BY <3>3, <3>4, <3>5
  <2>3. CASE Adopt!Run.stage # "cleanup" /\ Adopt!Run.temp # 0
    <3> DEFINE x == [doing[w] EXCEPT !.at = "upsert", !.stage = Adopt!Run.stage,
            !.temp = Adopt!Run.temp]
    <3>1. /\ doing[w].at = "temp"
          /\ doing' = [doing EXCEPT ![w] = x]
          /\ UNCHANGED <<mesh, runs, tasks, minted, tempNames, orphans, prod, oldUp, temp,
              raced, again>>
      BY <1>7, <2>3, Zenon DEF Adopt!MintTemp, Adopt!Do, Adopt!Goto, Adopt!Write, Adopt!Raise,
         Adopt!Refuse, Adopt!Edge, Adopt!History
    <3>a. w \in Adopt!Cleaners
      BY <1>7 DEF Adopt!Cleaners
    <3>b. doing[w] \in Adopt!Flow /\ doing[w].kind = "adopt" /\ runs # <<>>
      BY <3>1, <3>a, PlaceFacts DEF Adopt!Towards
    <3>c. Adopt!Undisturbed => Adopt!Run.status = "running" /\ Adopt!Run.stage # "cleanup"
              /\ [kind |-> "adopt",
              run |-> Len(runs)] \notin tasks /\ prod = "old" /\ Adopt!Run.stage \in Adopt!Early
      BY <3>1, <3>a, <3>b DEF Adopt!FlowKnows, Adopt!FlowAt, Adopt!Towards
    <3>d. Adopt!Run.temp \in Nat /\ Adopt!Run.temp > 0
      BY <1>00, <3>b, <2>3 DEF Adopt!Row
    <3>e. /\ x \in {Adopt!Free} \cup Adopt!Flow \cup Adopt!Closing /\ x.at = "upsert"
          /\ x.kind = doing[w].kind /\ x.temp = Adopt!Run.temp /\ x.temp > 0
      BY <1>00, <3>1, <2>3, <3>a, <3>b, <3>c, <3>d DEF Adopt!Free, Adopt!Flow, Adopt!Closing,
         Adopt!Towards, Adopt!Row, Adopt!Stages
    <3>f. /\ doing'[w] = x
          /\ doing' \in [Adopt!Cleaners -> {Adopt!Free} \cup Adopt!Flow \cup Adopt!Closing]
          /\ \A v \in Adopt!Cleaners : v # w => doing'[v] = doing[v]
      BY <3>1, <3>a, <3>e DEF Adopt!TypeOK
    <3>g. Adopt!Run' = Adopt!Run
      BY <3>1 DEF Adopt!Run
    <3> HIDE DEF x
    <3>2. Adopt!NamesMinted'
      <4>1. \A i \in DOMAIN runs' : runs'[i].temp <= minted'
        BY <1>0, <3>1, <2>3, <3>a, <3>b, <3>c, <3>d, <3>e, <3>f, <3>g DEF Adopt!NamesMinted
      <4>2. \A u \in Adopt!Cleaners : doing'[u].temp <= minted' /\ (doing'[u].at = "upsert" =>
                doing'[u].temp > 0)
        <5> SUFFICES ASSUME NEW u \in Adopt!Cleaners
                     PROVE  /\ doing'[u].temp <= minted'
                            /\ (doing'[u].at = "upsert" => doing'[u].temp > 0)
          OBVIOUS
        <5>1. CASE u = w
          <6>1. doing'[u] = x
            BY <3>f, <5>1
          <6>2. x.temp <= minted' /\ (x.at = "upsert" => x.temp > 0)
            BY <1>00, <3>1, <3>e, <1>0, <3>b
          <6> QED BY <6>1, <6>2
        <5>2. CASE u # w
          BY <1>0, <3>1, <2>3, <3>a, <3>b, <3>c, <3>d, <3>e, <3>f, <3>g,
             <5>2 DEF Adopt!NamesMinted
        <5> QED BY <5>1, <5>2
      <4>3. tempNames' \subseteq 1..minted' /\ orphans' \subseteq 0..minted'
        BY <1>0, <3>1, <2>3, <3>a, <3>b, <3>c, <3>d, <3>e, <3>f, <3>g DEF Adopt!NamesMinted
      <4> QED BY <4>1, <4>2, <4>3 DEF Adopt!NamesMinted
    <3>3. Adopt!TypeOK'
      BY <1>0, <3>1, <2>3, <3>a, <3>b, <3>c, <3>d, <3>e, <3>f, <3>g, <3>2 DEF Adopt!TypeOK
    <3>4. Adopt!StageTells'
      <4> SUFFICES ASSUME Adopt!Undisturbed'
                   PROVE  /\ (\A i \in DOMAIN runs' :
                               (runs'[i].status = "succeeded" <=> runs'[i].stage = "cleanup")
                               /\ (i < Len(runs') => runs'[i].status = "succeeded"))
                          /\ (runs' # <<>> /\ Adopt!Run'.stage \in Adopt!PostFlip =>
                               prod' = "new")
                          /\ (prod' = "new" => runs' # <<>>
                               /\ Adopt!Run'.stage \notin Adopt!Early /\ temp' = "up"
                               /\ [kind |-> "adopt", run |-> Len(runs')] \notin tasks')
                          /\ (oldUp' \/ prod' = "new")
        BY DEF Adopt!StageTells
      <4>0. Adopt!Undisturbed
        BY <3>1 DEF Adopt!Undisturbed
      <4>1. \A i \in DOMAIN runs' :
                (runs'[i].status = "succeeded" <=> runs'[i].stage = "cleanup")
                /\ (i < Len(runs') => runs'[i].status = "succeeded")
        BY <4>0, <1>0, <3>1, <2>3, <3>a, <3>b, <3>c, <3>d, <3>e, <3>f,
           <3>g DEF Adopt!StageTells, Adopt!Early, Adopt!PostFlip
      <4>2. runs' # <<>> /\ Adopt!Run'.stage \in Adopt!PostFlip => prod' = "new"
        BY <4>0, <1>0, <3>1, <2>3, <3>a, <3>b, <3>c, <3>d, <3>e, <3>f,
           <3>g DEF Adopt!StageTells, Adopt!Early, Adopt!PostFlip
      <4>3. prod' = "new" => runs' # <<>> /\ Adopt!Run'.stage \notin Adopt!Early
                /\ temp' = "up" /\ [kind |-> "adopt", run |-> Len(runs')] \notin tasks'
        BY <4>0, <1>0, <3>1, <2>3, <3>a, <3>b, <3>c, <3>d, <3>e, <3>f,
           <3>g DEF Adopt!StageTells, Adopt!Early, Adopt!PostFlip
      <4>4. oldUp' \/ prod' = "new"
        BY <4>0, <1>0, <3>1, <2>3, <3>a, <3>b, <3>c, <3>d, <3>e, <3>f,
           <3>g DEF Adopt!StageTells, Adopt!Early, Adopt!PostFlip
      <4> QED BY <4>1, <4>2, <4>3, <4>4
    <3>5. Adopt!FlowKnows'
      <4> SUFFICES ASSUME Adopt!Undisturbed', NEW u \in Adopt!Cleaners
                   PROVE  /\ Adopt!FlowAt(u)' /\ Adopt!StopsUnused(u)'
        BY DEF Adopt!FlowKnows
      <4>1. /\ Adopt!Undisturbed
            /\ \A v \in Adopt!Cleaners : Adopt!FlowAt(v) /\ Adopt!StopsUnused(v)
        BY <3>1 DEF Adopt!FlowKnows, Adopt!Undisturbed
      <4>2. CASE u = w
        <5>1. Adopt!FlowAt(u)'
          BY <3>1, <2>3, <3>a, <3>b, <3>c, <3>d, <3>e, <3>f, <3>g, <4>1, <4>2 DEF Adopt!FlowAt,
             Adopt!StopsUnused, Adopt!Early, Adopt!Towards, Adopt!PostFlip
        <5>2. Adopt!StopsUnused(u)'
          BY <3>1, <2>3, <3>a, <3>b, <3>c, <3>d, <3>e, <3>f, <3>g, <4>1, <4>2 DEF Adopt!FlowAt,
             Adopt!StopsUnused, Adopt!Early, Adopt!Towards, Adopt!PostFlip
        <5> QED BY <5>1, <5>2
      <4>3. CASE u # w
        <5>1. Adopt!FlowAt(u)'
          BY <3>1, <2>3, <3>a, <3>b, <3>c, <3>d, <3>e, <3>f, <3>g, <4>1, <4>3 DEF Adopt!FlowAt,
             Adopt!StopsUnused, Adopt!Early, Adopt!Towards, Adopt!PostFlip
        <5>2. Adopt!StopsUnused(u)'
          BY <3>1, <2>3, <3>a, <3>b, <3>c, <3>d, <3>e, <3>f, <3>g, <4>1, <4>3 DEF Adopt!FlowAt,
             Adopt!StopsUnused, Adopt!Early, Adopt!Towards, Adopt!PostFlip
        <5> QED BY <5>1, <5>2
      <4> QED BY <4>2, <4>3
    <3> QED BY <3>3, <3>4, <3>5
  <2> QED BY <2>1, <2>2, <2>3
<1>8. ASSUME NEW w \in Adopters, Adopt!UpsertTemp(w)
      PROVE  /\ Adopt!TypeOK' /\ Adopt!StageTells' /\ Adopt!FlowKnows'
  <2>1. CASE doing[w].stage \in Adopt!PastTemp
    <3> DEFINE x == [doing[w] EXCEPT !.at = "verify"]
    <3>1. /\ doing[w].at = "upsert"
          /\ doing' = [doing EXCEPT ![w] = x]
          /\ tempNames' = tempNames \cup {doing[w].temp}
          /\ UNCHANGED <<mesh, runs, tasks, minted, orphans, prod, oldUp, temp, raced, again>>
      BY <1>8, <2>1, Zenon DEF Adopt!UpsertTemp, Adopt!Do, Adopt!Goto, Adopt!Write,
         Adopt!Raise, Adopt!Refuse, Adopt!Edge, Adopt!History
    <3>a. w \in Adopt!Cleaners
      BY <1>8 DEF Adopt!Cleaners
    <3>b. doing[w] \in Adopt!Flow /\ doing[w].kind = "adopt" /\ runs # <<>>
      BY <3>1, <3>a, PlaceFacts DEF Adopt!Towards
    <3>c. Adopt!Undisturbed => Adopt!Run.status = "running" /\ Adopt!Run.stage # "cleanup"
              /\ [kind |-> "adopt",
              run |-> Len(runs)] \notin tasks /\ prod = "old" /\ Adopt!Run.stage \in Adopt!Early
      BY <3>1, <3>a, <3>b DEF Adopt!FlowKnows, Adopt!FlowAt, Adopt!Towards
    <3>d. doing[w].temp \in 1..minted /\ doing[w].temp \in Nat
      BY <1>00, <3>1, <3>a, <3>b DEF Adopt!NamesMinted, Adopt!Flow
    <3>e. /\ x \in {Adopt!Free} \cup Adopt!Flow \cup Adopt!Closing /\ x.at = "verify"
          /\ x.kind = doing[w].kind /\ x.temp = doing[w].temp
      BY <1>00, <3>1, <2>1, <3>a, <3>b, <3>c, <3>d DEF Adopt!Free, Adopt!Flow, Adopt!Closing,
         Adopt!Towards, Adopt!Row, Adopt!Stages
    <3>f. /\ doing'[w] = x
          /\ doing' \in [Adopt!Cleaners -> {Adopt!Free} \cup Adopt!Flow \cup Adopt!Closing]
          /\ \A v \in Adopt!Cleaners : v # w => doing'[v] = doing[v]
      BY <3>1, <3>a, <3>e DEF Adopt!TypeOK
    <3>g. Adopt!Run' = Adopt!Run
      BY <3>1 DEF Adopt!Run
    <3> HIDE DEF x
    <3>2. Adopt!NamesMinted'
      <4>1. \A i \in DOMAIN runs' : runs'[i].temp <= minted'
        BY <1>0, <3>1, <2>1, <3>a, <3>b, <3>c, <3>d, <3>e, <3>f, <3>g DEF Adopt!NamesMinted
      <4>2. \A u \in Adopt!Cleaners : doing'[u].temp <= minted' /\ (doing'[u].at = "upsert" =>
                doing'[u].temp > 0)
        <5> SUFFICES ASSUME NEW u \in Adopt!Cleaners
                     PROVE  /\ doing'[u].temp <= minted'
                            /\ (doing'[u].at = "upsert" => doing'[u].temp > 0)
          OBVIOUS
        <5>1. CASE u = w
          <6>1. doing'[u] = x
            BY <3>f, <5>1
          <6>2. x.temp <= minted' /\ (x.at = "upsert" => x.temp > 0)
            BY <1>00, <3>1, <3>e, <3>a DEF Adopt!NamesMinted
          <6> QED BY <6>1, <6>2
        <5>2. CASE u # w
          BY <1>0, <3>1, <2>1, <3>a, <3>b, <3>c, <3>d, <3>e, <3>f, <3>g,
             <5>2 DEF Adopt!NamesMinted
        <5> QED BY <5>1, <5>2
      <4>3. tempNames' \subseteq 1..minted' /\ orphans' \subseteq 0..minted'
        BY <1>0, <3>1, <2>1, <3>a, <3>b, <3>c, <3>d, <3>e, <3>f, <3>g DEF Adopt!NamesMinted
      <4> QED BY <4>1, <4>2, <4>3 DEF Adopt!NamesMinted
    <3>3. Adopt!TypeOK'
      BY <1>0, <3>1, <2>1, <3>a, <3>b, <3>c, <3>d, <3>e, <3>f, <3>g, <3>2 DEF Adopt!TypeOK
    <3>4. Adopt!StageTells'
      <4> SUFFICES ASSUME Adopt!Undisturbed'
                   PROVE  /\ (\A i \in DOMAIN runs' :
                               (runs'[i].status = "succeeded" <=> runs'[i].stage = "cleanup")
                               /\ (i < Len(runs') => runs'[i].status = "succeeded"))
                          /\ (runs' # <<>> /\ Adopt!Run'.stage \in Adopt!PostFlip =>
                               prod' = "new")
                          /\ (prod' = "new" => runs' # <<>>
                               /\ Adopt!Run'.stage \notin Adopt!Early /\ temp' = "up"
                               /\ [kind |-> "adopt", run |-> Len(runs')] \notin tasks')
                          /\ (oldUp' \/ prod' = "new")
        BY DEF Adopt!StageTells
      <4>0. Adopt!Undisturbed
        BY <3>1 DEF Adopt!Undisturbed
      <4>1. \A i \in DOMAIN runs' :
                (runs'[i].status = "succeeded" <=> runs'[i].stage = "cleanup")
                /\ (i < Len(runs') => runs'[i].status = "succeeded")
        BY <4>0, <1>0, <3>1, <2>1, <3>a, <3>b, <3>c, <3>d, <3>e, <3>f,
           <3>g DEF Adopt!StageTells, Adopt!Early, Adopt!PostFlip
      <4>2. runs' # <<>> /\ Adopt!Run'.stage \in Adopt!PostFlip => prod' = "new"
        BY <4>0, <1>0, <3>1, <2>1, <3>a, <3>b, <3>c, <3>d, <3>e, <3>f,
           <3>g DEF Adopt!StageTells, Adopt!Early, Adopt!PostFlip
      <4>3. prod' = "new" => runs' # <<>> /\ Adopt!Run'.stage \notin Adopt!Early
                /\ temp' = "up" /\ [kind |-> "adopt", run |-> Len(runs')] \notin tasks'
        BY <4>0, <1>0, <3>1, <2>1, <3>a, <3>b, <3>c, <3>d, <3>e, <3>f,
           <3>g DEF Adopt!StageTells, Adopt!Early, Adopt!PostFlip
      <4>4. oldUp' \/ prod' = "new"
        BY <4>0, <1>0, <3>1, <2>1, <3>a, <3>b, <3>c, <3>d, <3>e, <3>f,
           <3>g DEF Adopt!StageTells, Adopt!Early, Adopt!PostFlip
      <4> QED BY <4>1, <4>2, <4>3, <4>4
    <3>5. Adopt!FlowKnows'
      <4> SUFFICES ASSUME Adopt!Undisturbed', NEW u \in Adopt!Cleaners
                   PROVE  /\ Adopt!FlowAt(u)' /\ Adopt!StopsUnused(u)'
        BY DEF Adopt!FlowKnows
      <4>1. /\ Adopt!Undisturbed
            /\ \A v \in Adopt!Cleaners : Adopt!FlowAt(v) /\ Adopt!StopsUnused(v)
        BY <3>1 DEF Adopt!FlowKnows, Adopt!Undisturbed
      <4>2. CASE u = w
        <5>1. Adopt!FlowAt(u)'
          BY <3>1, <2>1, <3>a, <3>b, <3>c, <3>d, <3>e, <3>f, <3>g, <4>1, <4>2 DEF Adopt!FlowAt,
             Adopt!StopsUnused, Adopt!Early, Adopt!Towards, Adopt!PostFlip
        <5>2. Adopt!StopsUnused(u)'
          BY <3>1, <2>1, <3>a, <3>b, <3>c, <3>d, <3>e, <3>f, <3>g, <4>1, <4>2 DEF Adopt!FlowAt,
             Adopt!StopsUnused, Adopt!Early, Adopt!Towards, Adopt!PostFlip
        <5> QED BY <5>1, <5>2
      <4>3. CASE u # w
        <5>1. Adopt!FlowAt(u)'
          BY <3>1, <2>1, <3>a, <3>b, <3>c, <3>d, <3>e, <3>f, <3>g, <4>1, <4>3 DEF Adopt!FlowAt,
             Adopt!StopsUnused, Adopt!Early, Adopt!Towards, Adopt!PostFlip
        <5>2. Adopt!StopsUnused(u)'
          BY <3>1, <2>1, <3>a, <3>b, <3>c, <3>d, <3>e, <3>f, <3>g, <4>1, <4>3 DEF Adopt!FlowAt,
             Adopt!StopsUnused, Adopt!Early, Adopt!Towards, Adopt!PostFlip
        <5> QED BY <5>1, <5>2
      <4> QED BY <4>2, <4>3
    <3> QED BY <3>3, <3>4, <3>5
  <2>2. CASE doing[w].stage \notin Adopt!PastTemp
    <3> DEFINE x == [doing[w] EXCEPT !.at = "verify"]
    <3> DEFINE y == [Adopt!Run EXCEPT !.temp = doing[w].temp, !.stage = "temp_dns"]
    <3>1. /\ doing[w].at = "upsert"
          /\ doing' = [doing EXCEPT ![w] = x]
          /\ runs' = [runs EXCEPT ![Len(runs)] = y]
          /\ tempNames' = tempNames \cup {doing[w].temp}
          /\ UNCHANGED <<mesh, tasks, minted, orphans, prod, oldUp, temp, raced, again>>
      BY <1>8, <2>2, Zenon DEF Adopt!UpsertTemp, Adopt!Do, Adopt!Goto, Adopt!Write,
         Adopt!Raise, Adopt!Refuse, Adopt!Edge, Adopt!History
    <3>a. w \in Adopt!Cleaners
      BY <1>8 DEF Adopt!Cleaners
    <3>b. doing[w] \in Adopt!Flow /\ doing[w].kind = "adopt" /\ runs # <<>>
      BY <3>1, <3>a, PlaceFacts DEF Adopt!Towards
    <3>c. Adopt!Undisturbed => Adopt!Run.status = "running" /\ Adopt!Run.stage # "cleanup"
              /\ [kind |-> "adopt",
              run |-> Len(runs)] \notin tasks /\ prod = "old" /\ Adopt!Run.stage \in Adopt!Early
      BY <3>1, <3>a, <3>b DEF Adopt!FlowKnows, Adopt!FlowAt, Adopt!Towards
    <3>d. doing[w].temp \in 1..minted /\ doing[w].temp \in Nat
      BY <1>00, <3>1, <3>a, <3>b DEF Adopt!NamesMinted, Adopt!Flow
    <3>e. /\ y \in Adopt!Row /\ y.status = Adopt!Run.status /\ y.stage = "temp_dns"
          /\ y.temp = doing[w].temp
      BY <1>00, <3>1, <2>2, <3>a, <3>b, <3>c, <3>d DEF Adopt!Row, Adopt!Stages, Adopt!Flow
    <3>f. /\ x \in {Adopt!Free} \cup Adopt!Flow \cup Adopt!Closing /\ x.at = "verify"
          /\ x.kind = doing[w].kind /\ x.temp = doing[w].temp
      BY <1>00, <3>1, <2>2, <3>a, <3>b, <3>c, <3>d, <3>e DEF Adopt!Free, Adopt!Flow,
         Adopt!Closing, Adopt!Towards, Adopt!Row, Adopt!Stages
    <3>g. /\ doing'[w] = x
          /\ doing' \in [Adopt!Cleaners -> {Adopt!Free} \cup Adopt!Flow \cup Adopt!Closing]
          /\ \A v \in Adopt!Cleaners : v # w => doing'[v] = doing[v]
      BY <3>1, <3>a, <3>f DEF Adopt!TypeOK
    <3> HIDE DEF x
    <3> HIDE DEF y
    <3>h. /\ runs' \in Seq(Adopt!Row) /\ runs' # <<>> /\ Len(runs') = Len(runs)
          /\ DOMAIN runs' = DOMAIN runs /\ Adopt!Run' = y
          /\ Len(runs) \in DOMAIN runs /\ runs'[Len(runs)] = y
          /\ \A i \in DOMAIN runs : i # Len(runs) => runs'[i] = runs[i]
      BY <1>0, <3>1, <2>2, <3>a, <3>b, <3>c, <3>d, <3>e, <3>f, <3>g, WriteFacts
    <3>2. Adopt!NamesMinted'
      <4>1. \A i \in DOMAIN runs' : runs'[i].temp <= minted'
        BY <1>0, <3>1, <2>2, <3>a, <3>b, <3>c, <3>d, <3>e, <3>f, <3>g,
           <3>h DEF Adopt!NamesMinted
      <4>2. \A u \in Adopt!Cleaners : doing'[u].temp <= minted' /\ (doing'[u].at = "upsert" =>
                doing'[u].temp > 0)
        <5> SUFFICES ASSUME NEW u \in Adopt!Cleaners
                     PROVE  /\ doing'[u].temp <= minted'
                            /\ (doing'[u].at = "upsert" => doing'[u].temp > 0)
          OBVIOUS
        <5>1. CASE u = w
          <6>1. doing'[u] = x
            BY <3>g, <5>1
          <6>2. x.temp <= minted' /\ (x.at = "upsert" => x.temp > 0)
            BY <1>00, <3>1, <3>f, <3>a DEF Adopt!NamesMinted
          <6> QED BY <6>1, <6>2
        <5>2. CASE u # w
          BY <1>0, <3>1, <2>2, <3>a, <3>b, <3>c, <3>d, <3>e, <3>f, <3>g, <3>h,
             <5>2 DEF Adopt!NamesMinted
        <5> QED BY <5>1, <5>2
      <4>3. tempNames' \subseteq 1..minted' /\ orphans' \subseteq 0..minted'
        BY <1>0, <3>1, <2>2, <3>a, <3>b, <3>c, <3>d, <3>e, <3>f, <3>g,
           <3>h DEF Adopt!NamesMinted
      <4> QED BY <4>1, <4>2, <4>3 DEF Adopt!NamesMinted
    <3>3. Adopt!TypeOK'
      BY <1>0, <3>1, <2>2, <3>a, <3>b, <3>c, <3>d, <3>e, <3>f, <3>g, <3>h, <3>2 DEF Adopt!TypeOK
    <3>4. Adopt!StageTells'
      <4> SUFFICES ASSUME Adopt!Undisturbed'
                   PROVE  /\ (\A i \in DOMAIN runs' :
                               (runs'[i].status = "succeeded" <=> runs'[i].stage = "cleanup")
                               /\ (i < Len(runs') => runs'[i].status = "succeeded"))
                          /\ (runs' # <<>> /\ Adopt!Run'.stage \in Adopt!PostFlip =>
                               prod' = "new")
                          /\ (prod' = "new" => runs' # <<>>
                               /\ Adopt!Run'.stage \notin Adopt!Early /\ temp' = "up"
                               /\ [kind |-> "adopt", run |-> Len(runs')] \notin tasks')
                          /\ (oldUp' \/ prod' = "new")
        BY DEF Adopt!StageTells
      <4>0. Adopt!Undisturbed
        BY <3>1 DEF Adopt!Undisturbed
      <4>1. \A i \in DOMAIN runs' :
                (runs'[i].status = "succeeded" <=> runs'[i].stage = "cleanup")
                /\ (i < Len(runs') => runs'[i].status = "succeeded")
        <5> SUFFICES ASSUME NEW i \in DOMAIN runs'
                     PROVE  /\ (runs'[i].status = "succeeded" <=> runs'[i].stage = "cleanup")
                            /\ (i < Len(runs') => runs'[i].status = "succeeded")
          OBVIOUS
        <5>1. CASE i = Len(runs)
          BY <4>0, <1>0, <2>2, <3>a, <3>b, <3>c, <3>d, <3>e, <3>f, <3>g, <3>h,
             <5>1 DEF Adopt!StageTells, Adopt!Early
        <5>2. CASE i # Len(runs)
          BY <4>0, <5>2, <3>h DEF Adopt!StageTells
        <5> QED BY <5>1, <5>2
      <4>2. runs' # <<>> /\ Adopt!Run'.stage \in Adopt!PostFlip => prod' = "new"
        BY <4>0, <1>0, <3>1, <2>2, <3>a, <3>b, <3>c, <3>d, <3>e, <3>f, <3>g,
           <3>h DEF Adopt!StageTells, Adopt!Early, Adopt!PostFlip
      <4>3. prod' = "new" => runs' # <<>> /\ Adopt!Run'.stage \notin Adopt!Early
                /\ temp' = "up" /\ [kind |-> "adopt", run |-> Len(runs')] \notin tasks'
        BY <4>0, <1>0, <3>1, <2>2, <3>a, <3>b, <3>c, <3>d, <3>e, <3>f, <3>g,
           <3>h DEF Adopt!StageTells, Adopt!Early, Adopt!PostFlip
      <4>4. oldUp' \/ prod' = "new"
        BY <4>0, <1>0, <3>1, <2>2, <3>a, <3>b, <3>c, <3>d, <3>e, <3>f, <3>g,
           <3>h DEF Adopt!StageTells, Adopt!Early, Adopt!PostFlip
      <4> QED BY <4>1, <4>2, <4>3, <4>4
    <3>5. Adopt!FlowKnows'
      <4> SUFFICES ASSUME Adopt!Undisturbed', NEW u \in Adopt!Cleaners
                   PROVE  /\ Adopt!FlowAt(u)' /\ Adopt!StopsUnused(u)'
        BY DEF Adopt!FlowKnows
      <4>1. /\ Adopt!Undisturbed
            /\ \A v \in Adopt!Cleaners : Adopt!FlowAt(v) /\ Adopt!StopsUnused(v)
        BY <3>1 DEF Adopt!FlowKnows, Adopt!Undisturbed
      <4>2. CASE u = w
        <5>1. Adopt!FlowAt(u)'
          BY <3>1, <2>2, <3>a, <3>b, <3>c, <3>d, <3>e, <3>f, <3>g, <3>h, <4>1,
             <4>2 DEF Adopt!FlowAt, Adopt!StopsUnused, Adopt!Early, Adopt!Towards,
             Adopt!PostFlip
        <5>2. Adopt!StopsUnused(u)'
          BY <3>1, <2>2, <3>a, <3>b, <3>c, <3>d, <3>e, <3>f, <3>g, <3>h, <4>1,
             <4>2 DEF Adopt!FlowAt, Adopt!StopsUnused, Adopt!Early, Adopt!Towards,
             Adopt!PostFlip
        <5> QED BY <5>1, <5>2
      <4>3. CASE u # w
        <5>1. Adopt!FlowAt(u)'
          BY <3>1, <2>2, <3>a, <3>b, <3>c, <3>d, <3>e, <3>f, <3>g, <3>h, <4>1,
             <4>3 DEF Adopt!FlowAt, Adopt!StopsUnused, Adopt!Early, Adopt!Towards,
             Adopt!PostFlip
        <5>2. Adopt!StopsUnused(u)'
          BY <3>1, <2>2, <3>a, <3>b, <3>c, <3>d, <3>e, <3>f, <3>g, <3>h, <4>1,
             <4>3 DEF Adopt!FlowAt, Adopt!StopsUnused, Adopt!Early, Adopt!Towards,
             Adopt!PostFlip
        <5> QED BY <5>1, <5>2
      <4> QED BY <4>2, <4>3
    <3> QED BY <3>3, <3>4, <3>5
  <2> QED BY <2>1, <2>2
<1>9. ASSUME NEW w \in Adopters, Adopt!EnsureVerify(w)
      PROVE  /\ Adopt!TypeOK' /\ Adopt!StageTells' /\ Adopt!FlowKnows'
  <2>1. CASE Adopt!Run.stage = "cleanup"
    <3> DEFINE x == [doing[w] EXCEPT !.at = "flip", !.verified = (temp # "none")]
    <3>1. /\ doing[w].at = "verify"
          /\ doing' = [doing EXCEPT ![w] = x]
          /\ UNCHANGED <<mesh, runs, tasks, minted, tempNames, orphans, prod, oldUp, temp,
              raced, again>>
      BY <1>9, <2>1, Zenon DEF Adopt!EnsureVerify, Adopt!Do, Adopt!Goto, Adopt!Write,
         Adopt!Raise, Adopt!Refuse, Adopt!Edge, Adopt!History
    <3>a. w \in Adopt!Cleaners
      BY <1>9 DEF Adopt!Cleaners
    <3>b. doing[w] \in Adopt!Flow /\ doing[w].kind = "adopt" /\ runs # <<>>
      BY <3>1, <3>a, PlaceFacts DEF Adopt!Towards
    <3>c. Adopt!Undisturbed => Adopt!Run.status = "running" /\ Adopt!Run.stage # "cleanup"
              /\ [kind |-> "adopt",
              run |-> Len(runs)] \notin tasks /\ prod = "old" /\ Adopt!Run.stage \in Adopt!Early
      BY <3>1, <3>a, <3>b DEF Adopt!FlowKnows, Adopt!FlowAt, Adopt!Towards
    <3>d. /\ x \in {Adopt!Free} \cup Adopt!Flow \cup Adopt!Closing /\ x.at = "flip"
          /\ x.kind = doing[w].kind /\ x.temp = doing[w].temp
      BY <1>00, <3>1, <2>1, <3>a, <3>b, <3>c DEF Adopt!Free, Adopt!Flow, Adopt!Closing,
         Adopt!Towards, Adopt!Row, Adopt!Stages
    <3>e. /\ doing'[w] = x
          /\ doing' \in [Adopt!Cleaners -> {Adopt!Free} \cup Adopt!Flow \cup Adopt!Closing]
          /\ \A v \in Adopt!Cleaners : v # w => doing'[v] = doing[v]
      BY <3>1, <3>a, <3>d DEF Adopt!TypeOK
    <3>f. Adopt!Run' = Adopt!Run
      BY <3>1 DEF Adopt!Run
    <3> HIDE DEF x
    <3>2. Adopt!NamesMinted'
      <4>1. \A i \in DOMAIN runs' : runs'[i].temp <= minted'
        BY <1>0, <3>1, <2>1, <3>a, <3>b, <3>c, <3>d, <3>e, <3>f DEF Adopt!NamesMinted
      <4>2. \A u \in Adopt!Cleaners : doing'[u].temp <= minted' /\ (doing'[u].at = "upsert" =>
                doing'[u].temp > 0)
        <5> SUFFICES ASSUME NEW u \in Adopt!Cleaners
                     PROVE  /\ doing'[u].temp <= minted'
                            /\ (doing'[u].at = "upsert" => doing'[u].temp > 0)
          OBVIOUS
        <5>1. CASE u = w
          <6>1. doing'[u] = x
            BY <3>e, <5>1
          <6>2. x.temp <= minted' /\ (x.at = "upsert" => x.temp > 0)
            BY <1>00, <3>1, <3>d, <3>a DEF Adopt!NamesMinted
          <6> QED BY <6>1, <6>2
        <5>2. CASE u # w
          BY <1>0, <3>1, <2>1, <3>a, <3>b, <3>c, <3>d, <3>e, <3>f, <5>2 DEF Adopt!NamesMinted
        <5> QED BY <5>1, <5>2
      <4>3. tempNames' \subseteq 1..minted' /\ orphans' \subseteq 0..minted'
        BY <1>0, <3>1, <2>1, <3>a, <3>b, <3>c, <3>d, <3>e, <3>f DEF Adopt!NamesMinted
      <4> QED BY <4>1, <4>2, <4>3 DEF Adopt!NamesMinted
    <3>3. Adopt!TypeOK'
      BY <1>0, <3>1, <2>1, <3>a, <3>b, <3>c, <3>d, <3>e, <3>f, <3>2 DEF Adopt!TypeOK
    <3>4. Adopt!StageTells'
      <4> SUFFICES ASSUME Adopt!Undisturbed'
                   PROVE  /\ (\A i \in DOMAIN runs' :
                               (runs'[i].status = "succeeded" <=> runs'[i].stage = "cleanup")
                               /\ (i < Len(runs') => runs'[i].status = "succeeded"))
                          /\ (runs' # <<>> /\ Adopt!Run'.stage \in Adopt!PostFlip =>
                               prod' = "new")
                          /\ (prod' = "new" => runs' # <<>>
                               /\ Adopt!Run'.stage \notin Adopt!Early /\ temp' = "up"
                               /\ [kind |-> "adopt", run |-> Len(runs')] \notin tasks')
                          /\ (oldUp' \/ prod' = "new")
        BY DEF Adopt!StageTells
      <4>0. Adopt!Undisturbed
        BY <3>1 DEF Adopt!Undisturbed
      <4>1. \A i \in DOMAIN runs' :
                (runs'[i].status = "succeeded" <=> runs'[i].stage = "cleanup")
                /\ (i < Len(runs') => runs'[i].status = "succeeded")
        BY <4>0, <1>0, <3>1, <2>1, <3>a, <3>b, <3>c, <3>d, <3>e, <3>f DEF Adopt!StageTells,
           Adopt!Early, Adopt!PostFlip
      <4>2. runs' # <<>> /\ Adopt!Run'.stage \in Adopt!PostFlip => prod' = "new"
        BY <4>0, <1>0, <3>1, <2>1, <3>a, <3>b, <3>c, <3>d, <3>e, <3>f DEF Adopt!StageTells,
           Adopt!Early, Adopt!PostFlip
      <4>3. prod' = "new" => runs' # <<>> /\ Adopt!Run'.stage \notin Adopt!Early
                /\ temp' = "up" /\ [kind |-> "adopt", run |-> Len(runs')] \notin tasks'
        BY <4>0, <1>0, <3>1, <2>1, <3>a, <3>b, <3>c, <3>d, <3>e, <3>f DEF Adopt!StageTells,
           Adopt!Early, Adopt!PostFlip
      <4>4. oldUp' \/ prod' = "new"
        BY <4>0, <1>0, <3>1, <2>1, <3>a, <3>b, <3>c, <3>d, <3>e, <3>f DEF Adopt!StageTells,
           Adopt!Early, Adopt!PostFlip
      <4> QED BY <4>1, <4>2, <4>3, <4>4
    <3>5. Adopt!FlowKnows'
      <4> SUFFICES ASSUME Adopt!Undisturbed', NEW u \in Adopt!Cleaners
                   PROVE  /\ Adopt!FlowAt(u)' /\ Adopt!StopsUnused(u)'
        BY DEF Adopt!FlowKnows
      <4>1. /\ Adopt!Undisturbed
            /\ \A v \in Adopt!Cleaners : Adopt!FlowAt(v) /\ Adopt!StopsUnused(v)
        BY <3>1 DEF Adopt!FlowKnows, Adopt!Undisturbed
      <4>2. CASE u = w
        <5>1. Adopt!FlowAt(u)'
          BY <3>1, <2>1, <3>a, <3>b, <3>c, <3>d, <3>e, <3>f, <4>1, <4>2 DEF Adopt!FlowAt,
             Adopt!StopsUnused, Adopt!Early, Adopt!Towards, Adopt!PostFlip
        <5>2. Adopt!StopsUnused(u)'
          BY <3>1, <2>1, <3>a, <3>b, <3>c, <3>d, <3>e, <3>f, <4>1, <4>2 DEF Adopt!FlowAt,
             Adopt!StopsUnused, Adopt!Early, Adopt!Towards, Adopt!PostFlip
        <5> QED BY <5>1, <5>2
      <4>3. CASE u # w
        <5>1. Adopt!FlowAt(u)'
          BY <3>1, <2>1, <3>a, <3>b, <3>c, <3>d, <3>e, <3>f, <4>1, <4>3 DEF Adopt!FlowAt,
             Adopt!StopsUnused, Adopt!Early, Adopt!Towards, Adopt!PostFlip
        <5>2. Adopt!StopsUnused(u)'
          BY <3>1, <2>1, <3>a, <3>b, <3>c, <3>d, <3>e, <3>f, <4>1, <4>3 DEF Adopt!FlowAt,
             Adopt!StopsUnused, Adopt!Early, Adopt!Towards, Adopt!PostFlip
        <5> QED BY <5>1, <5>2
      <4> QED BY <4>2, <4>3
    <3> QED BY <3>3, <3>4, <3>5
  <2>2. CASE Adopt!Run.stage # "cleanup"
    <3> DEFINE x == [doing[w] EXCEPT !.at = "probe", !.stage = Adopt!Run.stage]
    <3>1. /\ doing[w].at = "verify"
          /\ doing' = [doing EXCEPT ![w] = x]
          /\ temp' = "up"
          /\ UNCHANGED <<mesh, runs, tasks, minted, tempNames, orphans, prod, oldUp, raced,
              again>>
      BY <1>9, <2>2, Zenon DEF Adopt!EnsureVerify, Adopt!Do, Adopt!Goto, Adopt!Write,
         Adopt!Raise, Adopt!Refuse, Adopt!Edge, Adopt!History
    <3>a. w \in Adopt!Cleaners
      BY <1>9 DEF Adopt!Cleaners
    <3>b. doing[w] \in Adopt!Flow /\ doing[w].kind = "adopt" /\ runs # <<>>
      BY <3>1, <3>a, PlaceFacts DEF Adopt!Towards
    <3>c. Adopt!Undisturbed => Adopt!Run.status = "running" /\ Adopt!Run.stage # "cleanup"
              /\ [kind |-> "adopt",
              run |-> Len(runs)] \notin tasks /\ prod = "old" /\ Adopt!Run.stage \in Adopt!Early
      BY <3>1, <3>a, <3>b DEF Adopt!FlowKnows, Adopt!FlowAt, Adopt!Towards
    <3>d. /\ x \in {Adopt!Free} \cup Adopt!Flow \cup Adopt!Closing /\ x.at = "probe"
          /\ x.kind = doing[w].kind /\ x.temp = doing[w].temp
      BY <1>00, <3>1, <2>2, <3>a, <3>b, <3>c DEF Adopt!Free, Adopt!Flow, Adopt!Closing,
         Adopt!Towards, Adopt!Row, Adopt!Stages
    <3>e. /\ doing'[w] = x
          /\ doing' \in [Adopt!Cleaners -> {Adopt!Free} \cup Adopt!Flow \cup Adopt!Closing]
          /\ \A v \in Adopt!Cleaners : v # w => doing'[v] = doing[v]
      BY <3>1, <3>a, <3>d DEF Adopt!TypeOK
    <3>f. Adopt!Run' = Adopt!Run
      BY <3>1 DEF Adopt!Run
    <3> HIDE DEF x
    <3>2. Adopt!NamesMinted'
      <4>1. \A i \in DOMAIN runs' : runs'[i].temp <= minted'
        BY <1>0, <3>1, <2>2, <3>a, <3>b, <3>c, <3>d, <3>e, <3>f DEF Adopt!NamesMinted
      <4>2. \A u \in Adopt!Cleaners : doing'[u].temp <= minted' /\ (doing'[u].at = "upsert" =>
                doing'[u].temp > 0)
        <5> SUFFICES ASSUME NEW u \in Adopt!Cleaners
                     PROVE  /\ doing'[u].temp <= minted'
                            /\ (doing'[u].at = "upsert" => doing'[u].temp > 0)
          OBVIOUS
        <5>1. CASE u = w
          <6>1. doing'[u] = x
            BY <3>e, <5>1
          <6>2. x.temp <= minted' /\ (x.at = "upsert" => x.temp > 0)
            BY <1>00, <3>1, <3>d, <3>a DEF Adopt!NamesMinted
          <6> QED BY <6>1, <6>2
        <5>2. CASE u # w
          BY <1>0, <3>1, <2>2, <3>a, <3>b, <3>c, <3>d, <3>e, <3>f, <5>2 DEF Adopt!NamesMinted
        <5> QED BY <5>1, <5>2
      <4>3. tempNames' \subseteq 1..minted' /\ orphans' \subseteq 0..minted'
        BY <1>0, <3>1, <2>2, <3>a, <3>b, <3>c, <3>d, <3>e, <3>f DEF Adopt!NamesMinted
      <4> QED BY <4>1, <4>2, <4>3 DEF Adopt!NamesMinted
    <3>3. Adopt!TypeOK'
      BY <1>0, <3>1, <2>2, <3>a, <3>b, <3>c, <3>d, <3>e, <3>f, <3>2 DEF Adopt!TypeOK
    <3>4. Adopt!StageTells'
      <4> SUFFICES ASSUME Adopt!Undisturbed'
                   PROVE  /\ (\A i \in DOMAIN runs' :
                               (runs'[i].status = "succeeded" <=> runs'[i].stage = "cleanup")
                               /\ (i < Len(runs') => runs'[i].status = "succeeded"))
                          /\ (runs' # <<>> /\ Adopt!Run'.stage \in Adopt!PostFlip =>
                               prod' = "new")
                          /\ (prod' = "new" => runs' # <<>>
                               /\ Adopt!Run'.stage \notin Adopt!Early /\ temp' = "up"
                               /\ [kind |-> "adopt", run |-> Len(runs')] \notin tasks')
                          /\ (oldUp' \/ prod' = "new")
        BY DEF Adopt!StageTells
      <4>0. Adopt!Undisturbed
        BY <3>1 DEF Adopt!Undisturbed
      <4>1. \A i \in DOMAIN runs' :
                (runs'[i].status = "succeeded" <=> runs'[i].stage = "cleanup")
                /\ (i < Len(runs') => runs'[i].status = "succeeded")
        BY <4>0, <1>0, <3>1, <2>2, <3>a, <3>b, <3>c, <3>d, <3>e, <3>f DEF Adopt!StageTells,
           Adopt!Early, Adopt!PostFlip
      <4>2. runs' # <<>> /\ Adopt!Run'.stage \in Adopt!PostFlip => prod' = "new"
        BY <4>0, <1>0, <3>1, <2>2, <3>a, <3>b, <3>c, <3>d, <3>e, <3>f DEF Adopt!StageTells,
           Adopt!Early, Adopt!PostFlip
      <4>3. prod' = "new" => runs' # <<>> /\ Adopt!Run'.stage \notin Adopt!Early
                /\ temp' = "up" /\ [kind |-> "adopt", run |-> Len(runs')] \notin tasks'
        BY <4>0, <1>0, <3>1, <2>2, <3>a, <3>b, <3>c, <3>d, <3>e, <3>f DEF Adopt!StageTells,
           Adopt!Early, Adopt!PostFlip
      <4>4. oldUp' \/ prod' = "new"
        BY <4>0, <1>0, <3>1, <2>2, <3>a, <3>b, <3>c, <3>d, <3>e, <3>f DEF Adopt!StageTells,
           Adopt!Early, Adopt!PostFlip
      <4> QED BY <4>1, <4>2, <4>3, <4>4
    <3>5. Adopt!FlowKnows'
      <4> SUFFICES ASSUME Adopt!Undisturbed', NEW u \in Adopt!Cleaners
                   PROVE  /\ Adopt!FlowAt(u)' /\ Adopt!StopsUnused(u)'
        BY DEF Adopt!FlowKnows
      <4>1. /\ Adopt!Undisturbed
            /\ \A v \in Adopt!Cleaners : Adopt!FlowAt(v) /\ Adopt!StopsUnused(v)
        BY <3>1 DEF Adopt!FlowKnows, Adopt!Undisturbed
      <4>2. CASE u = w
        <5>1. Adopt!FlowAt(u)'
          BY <3>1, <2>2, <3>a, <3>b, <3>c, <3>d, <3>e, <3>f, <4>1, <4>2 DEF Adopt!FlowAt,
             Adopt!StopsUnused, Adopt!Early, Adopt!Towards, Adopt!PostFlip
        <5>2. Adopt!StopsUnused(u)'
          BY <3>1, <2>2, <3>a, <3>b, <3>c, <3>d, <3>e, <3>f, <4>1, <4>2 DEF Adopt!FlowAt,
             Adopt!StopsUnused, Adopt!Early, Adopt!Towards, Adopt!PostFlip
        <5> QED BY <5>1, <5>2
      <4>3. CASE u # w
        <5>1. Adopt!FlowAt(u)'
          BY <3>1, <2>2, <3>a, <3>b, <3>c, <3>d, <3>e, <3>f, <4>1, <4>3 DEF Adopt!FlowAt,
             Adopt!StopsUnused, Adopt!Early, Adopt!Towards, Adopt!PostFlip
        <5>2. Adopt!StopsUnused(u)'
          BY <3>1, <2>2, <3>a, <3>b, <3>c, <3>d, <3>e, <3>f, <4>1, <4>3 DEF Adopt!FlowAt,
             Adopt!StopsUnused, Adopt!Early, Adopt!Towards, Adopt!PostFlip
        <5> QED BY <5>1, <5>2
      <4> QED BY <4>2, <4>3
    <3> QED BY <3>3, <3>4, <3>5
  <2> QED BY <2>1, <2>2
<1>10. ASSUME NEW w \in Adopters, NEW b \in BOOLEAN, Adopt!Healthz(w, b)
       PROVE  /\ Adopt!TypeOK' /\ Adopt!StageTells' /\ Adopt!FlowKnows'
  <2>1. CASE b /\ doing[w].stage \in Adopt!PastVerify
    <3> DEFINE x == [doing[w] EXCEPT !.at = "flip", !.verified = TRUE]
    <3>1. /\ doing[w].at = "probe"
          /\ temp = "up"
          /\ doing' = [doing EXCEPT ![w] = x]
          /\ UNCHANGED <<mesh, runs, tasks, minted, tempNames, orphans, prod, oldUp, temp,
              raced, again>>
      BY <1>10, <2>1, Zenon DEF Adopt!Healthz, Adopt!Do, Adopt!Goto, Adopt!Write, Adopt!Raise,
         Adopt!Refuse, Adopt!Edge, Adopt!History
    <3>a. w \in Adopt!Cleaners
      BY <1>10 DEF Adopt!Cleaners
    <3>b. doing[w] \in Adopt!Flow /\ doing[w].kind = "adopt" /\ runs # <<>>
      BY <3>1, <3>a, PlaceFacts DEF Adopt!Towards
    <3>c. Adopt!Undisturbed => Adopt!Run.status = "running" /\ Adopt!Run.stage # "cleanup"
              /\ [kind |-> "adopt",
              run |-> Len(runs)] \notin tasks /\ prod = "old"
              /\ Adopt!Run.stage \in Adopt!Early /\ temp = "up"
      BY <3>1, <3>a, <3>b DEF Adopt!FlowKnows, Adopt!FlowAt, Adopt!Towards
    <3>d. /\ x \in {Adopt!Free} \cup Adopt!Flow \cup Adopt!Closing /\ x.at = "flip"
          /\ x.kind = doing[w].kind /\ x.temp = doing[w].temp
      BY <1>00, <3>1, <2>1, <3>a, <3>b, <3>c DEF Adopt!Free, Adopt!Flow, Adopt!Closing,
         Adopt!Towards, Adopt!Row, Adopt!Stages
    <3>e. /\ doing'[w] = x
          /\ doing' \in [Adopt!Cleaners -> {Adopt!Free} \cup Adopt!Flow \cup Adopt!Closing]
          /\ \A v \in Adopt!Cleaners : v # w => doing'[v] = doing[v]
      BY <3>1, <3>a, <3>d DEF Adopt!TypeOK
    <3>f. Adopt!Run' = Adopt!Run
      BY <3>1 DEF Adopt!Run
    <3> HIDE DEF x
    <3>2. Adopt!NamesMinted'
      <4>1. \A i \in DOMAIN runs' : runs'[i].temp <= minted'
        BY <1>0, <3>1, <2>1, <3>a, <3>b, <3>c, <3>d, <3>e, <3>f DEF Adopt!NamesMinted
      <4>2. \A u \in Adopt!Cleaners : doing'[u].temp <= minted' /\ (doing'[u].at = "upsert" =>
                doing'[u].temp > 0)
        <5> SUFFICES ASSUME NEW u \in Adopt!Cleaners
                     PROVE  /\ doing'[u].temp <= minted'
                            /\ (doing'[u].at = "upsert" => doing'[u].temp > 0)
          OBVIOUS
        <5>1. CASE u = w
          <6>1. doing'[u] = x
            BY <3>e, <5>1
          <6>2. x.temp <= minted' /\ (x.at = "upsert" => x.temp > 0)
            BY <1>00, <3>1, <3>d, <3>a DEF Adopt!NamesMinted
          <6> QED BY <6>1, <6>2
        <5>2. CASE u # w
          BY <1>0, <3>1, <2>1, <3>a, <3>b, <3>c, <3>d, <3>e, <3>f, <5>2 DEF Adopt!NamesMinted
        <5> QED BY <5>1, <5>2
      <4>3. tempNames' \subseteq 1..minted' /\ orphans' \subseteq 0..minted'
        BY <1>0, <3>1, <2>1, <3>a, <3>b, <3>c, <3>d, <3>e, <3>f DEF Adopt!NamesMinted
      <4> QED BY <4>1, <4>2, <4>3 DEF Adopt!NamesMinted
    <3>3. Adopt!TypeOK'
      BY <1>0, <3>1, <2>1, <3>a, <3>b, <3>c, <3>d, <3>e, <3>f, <3>2 DEF Adopt!TypeOK
    <3>4. Adopt!StageTells'
      <4> SUFFICES ASSUME Adopt!Undisturbed'
                   PROVE  /\ (\A i \in DOMAIN runs' :
                               (runs'[i].status = "succeeded" <=> runs'[i].stage = "cleanup")
                               /\ (i < Len(runs') => runs'[i].status = "succeeded"))
                          /\ (runs' # <<>> /\ Adopt!Run'.stage \in Adopt!PostFlip =>
                               prod' = "new")
                          /\ (prod' = "new" => runs' # <<>>
                               /\ Adopt!Run'.stage \notin Adopt!Early /\ temp' = "up"
                               /\ [kind |-> "adopt", run |-> Len(runs')] \notin tasks')
                          /\ (oldUp' \/ prod' = "new")
        BY DEF Adopt!StageTells
      <4>0. Adopt!Undisturbed
        BY <3>1 DEF Adopt!Undisturbed
      <4>1. \A i \in DOMAIN runs' :
                (runs'[i].status = "succeeded" <=> runs'[i].stage = "cleanup")
                /\ (i < Len(runs') => runs'[i].status = "succeeded")
        BY <4>0, <1>0, <3>1, <2>1, <3>a, <3>b, <3>c, <3>d, <3>e, <3>f DEF Adopt!StageTells,
           Adopt!Early, Adopt!PostFlip
      <4>2. runs' # <<>> /\ Adopt!Run'.stage \in Adopt!PostFlip => prod' = "new"
        BY <4>0, <1>0, <3>1, <2>1, <3>a, <3>b, <3>c, <3>d, <3>e, <3>f DEF Adopt!StageTells,
           Adopt!Early, Adopt!PostFlip
      <4>3. prod' = "new" => runs' # <<>> /\ Adopt!Run'.stage \notin Adopt!Early
                /\ temp' = "up" /\ [kind |-> "adopt", run |-> Len(runs')] \notin tasks'
        BY <4>0, <1>0, <3>1, <2>1, <3>a, <3>b, <3>c, <3>d, <3>e, <3>f DEF Adopt!StageTells,
           Adopt!Early, Adopt!PostFlip
      <4>4. oldUp' \/ prod' = "new"
        BY <4>0, <1>0, <3>1, <2>1, <3>a, <3>b, <3>c, <3>d, <3>e, <3>f DEF Adopt!StageTells,
           Adopt!Early, Adopt!PostFlip
      <4> QED BY <4>1, <4>2, <4>3, <4>4
    <3>5. Adopt!FlowKnows'
      <4> SUFFICES ASSUME Adopt!Undisturbed', NEW u \in Adopt!Cleaners
                   PROVE  /\ Adopt!FlowAt(u)' /\ Adopt!StopsUnused(u)'
        BY DEF Adopt!FlowKnows
      <4>1. /\ Adopt!Undisturbed
            /\ \A v \in Adopt!Cleaners : Adopt!FlowAt(v) /\ Adopt!StopsUnused(v)
        BY <3>1 DEF Adopt!FlowKnows, Adopt!Undisturbed
      <4>2. CASE u = w
        <5>1. Adopt!FlowAt(u)'
          BY <3>1, <2>1, <3>a, <3>b, <3>c, <3>d, <3>e, <3>f, <4>1, <4>2 DEF Adopt!FlowAt,
             Adopt!StopsUnused, Adopt!Early, Adopt!Towards, Adopt!PostFlip
        <5>2. Adopt!StopsUnused(u)'
          BY <3>1, <2>1, <3>a, <3>b, <3>c, <3>d, <3>e, <3>f, <4>1, <4>2 DEF Adopt!FlowAt,
             Adopt!StopsUnused, Adopt!Early, Adopt!Towards, Adopt!PostFlip
        <5> QED BY <5>1, <5>2
      <4>3. CASE u # w
        <5>1. Adopt!FlowAt(u)'
          BY <3>1, <2>1, <3>a, <3>b, <3>c, <3>d, <3>e, <3>f, <4>1, <4>3 DEF Adopt!FlowAt,
             Adopt!StopsUnused, Adopt!Early, Adopt!Towards, Adopt!PostFlip
        <5>2. Adopt!StopsUnused(u)'
          BY <3>1, <2>1, <3>a, <3>b, <3>c, <3>d, <3>e, <3>f, <4>1, <4>3 DEF Adopt!FlowAt,
             Adopt!StopsUnused, Adopt!Early, Adopt!Towards, Adopt!PostFlip
        <5> QED BY <5>1, <5>2
      <4> QED BY <4>2, <4>3
    <3> QED BY <3>3, <3>4, <3>5
  <2>2. CASE b /\ doing[w].stage \notin Adopt!PastVerify
    <3> DEFINE x == [doing[w] EXCEPT !.at = "flip", !.verified = TRUE]
    <3> DEFINE y == [Adopt!Run EXCEPT !.stage = "verify"]
    <3>1. /\ doing[w].at = "probe"
          /\ temp = "up"
          /\ doing' = [doing EXCEPT ![w] = x]
          /\ runs' = [runs EXCEPT ![Len(runs)] = y]
          /\ UNCHANGED <<mesh, tasks, minted, tempNames, orphans, prod, oldUp, temp, raced,
              again>>
      BY <1>10, <2>2, Zenon DEF Adopt!Healthz, Adopt!Do, Adopt!Goto, Adopt!Write, Adopt!Raise,
         Adopt!Refuse, Adopt!Edge, Adopt!History
    <3>a. w \in Adopt!Cleaners
      BY <1>10 DEF Adopt!Cleaners
    <3>b. doing[w] \in Adopt!Flow /\ doing[w].kind = "adopt" /\ runs # <<>>
      BY <3>1, <3>a, PlaceFacts DEF Adopt!Towards
    <3>c. Adopt!Undisturbed => Adopt!Run.status = "running" /\ Adopt!Run.stage # "cleanup"
              /\ [kind |-> "adopt",
              run |-> Len(runs)] \notin tasks /\ prod = "old"
              /\ Adopt!Run.stage \in Adopt!Early /\ temp = "up"
      BY <3>1, <3>a, <3>b DEF Adopt!FlowKnows, Adopt!FlowAt, Adopt!Towards
    <3>d. /\ y \in Adopt!Row /\ y.status = Adopt!Run.status /\ y.stage = "verify"
          /\ y.temp = Adopt!Run.temp
      BY <1>00, <3>1, <2>2, <3>a, <3>b, <3>c DEF Adopt!Row, Adopt!Stages
    <3>e. /\ x \in {Adopt!Free} \cup Adopt!Flow \cup Adopt!Closing /\ x.at = "flip"
          /\ x.kind = doing[w].kind /\ x.temp = doing[w].temp
      BY <1>00, <3>1, <2>2, <3>a, <3>b, <3>c, <3>d DEF Adopt!Free, Adopt!Flow, Adopt!Closing,
         Adopt!Towards, Adopt!Row, Adopt!Stages
    <3>f. /\ doing'[w] = x
          /\ doing' \in [Adopt!Cleaners -> {Adopt!Free} \cup Adopt!Flow \cup Adopt!Closing]
          /\ \A v \in Adopt!Cleaners : v # w => doing'[v] = doing[v]
      BY <3>1, <3>a, <3>e DEF Adopt!TypeOK
    <3> HIDE DEF x
    <3> HIDE DEF y
    <3>g. /\ runs' \in Seq(Adopt!Row) /\ runs' # <<>> /\ Len(runs') = Len(runs)
          /\ DOMAIN runs' = DOMAIN runs /\ Adopt!Run' = y
          /\ Len(runs) \in DOMAIN runs /\ runs'[Len(runs)] = y
          /\ \A i \in DOMAIN runs : i # Len(runs) => runs'[i] = runs[i]
      BY <1>0, <3>1, <2>2, <3>a, <3>b, <3>c, <3>d, <3>e, <3>f, WriteFacts
    <3>2. Adopt!NamesMinted'
      <4>1. \A i \in DOMAIN runs' : runs'[i].temp <= minted'
        BY <1>0, <3>1, <2>2, <3>a, <3>b, <3>c, <3>d, <3>e, <3>f, <3>g DEF Adopt!NamesMinted
      <4>2. \A u \in Adopt!Cleaners : doing'[u].temp <= minted' /\ (doing'[u].at = "upsert" =>
                doing'[u].temp > 0)
        <5> SUFFICES ASSUME NEW u \in Adopt!Cleaners
                     PROVE  /\ doing'[u].temp <= minted'
                            /\ (doing'[u].at = "upsert" => doing'[u].temp > 0)
          OBVIOUS
        <5>1. CASE u = w
          <6>1. doing'[u] = x
            BY <3>f, <5>1
          <6>2. x.temp <= minted' /\ (x.at = "upsert" => x.temp > 0)
            BY <1>00, <3>1, <3>e, <3>a DEF Adopt!NamesMinted
          <6> QED BY <6>1, <6>2
        <5>2. CASE u # w
          BY <1>0, <3>1, <2>2, <3>a, <3>b, <3>c, <3>d, <3>e, <3>f, <3>g,
             <5>2 DEF Adopt!NamesMinted
        <5> QED BY <5>1, <5>2
      <4>3. tempNames' \subseteq 1..minted' /\ orphans' \subseteq 0..minted'
        BY <1>0, <3>1, <2>2, <3>a, <3>b, <3>c, <3>d, <3>e, <3>f, <3>g DEF Adopt!NamesMinted
      <4> QED BY <4>1, <4>2, <4>3 DEF Adopt!NamesMinted
    <3>3. Adopt!TypeOK'
      BY <1>0, <3>1, <2>2, <3>a, <3>b, <3>c, <3>d, <3>e, <3>f, <3>g, <3>2 DEF Adopt!TypeOK
    <3>4. Adopt!StageTells'
      <4> SUFFICES ASSUME Adopt!Undisturbed'
                   PROVE  /\ (\A i \in DOMAIN runs' :
                               (runs'[i].status = "succeeded" <=> runs'[i].stage = "cleanup")
                               /\ (i < Len(runs') => runs'[i].status = "succeeded"))
                          /\ (runs' # <<>> /\ Adopt!Run'.stage \in Adopt!PostFlip =>
                               prod' = "new")
                          /\ (prod' = "new" => runs' # <<>>
                               /\ Adopt!Run'.stage \notin Adopt!Early /\ temp' = "up"
                               /\ [kind |-> "adopt", run |-> Len(runs')] \notin tasks')
                          /\ (oldUp' \/ prod' = "new")
        BY DEF Adopt!StageTells
      <4>0. Adopt!Undisturbed
        BY <3>1 DEF Adopt!Undisturbed
      <4>1. \A i \in DOMAIN runs' :
                (runs'[i].status = "succeeded" <=> runs'[i].stage = "cleanup")
                /\ (i < Len(runs') => runs'[i].status = "succeeded")
        <5> SUFFICES ASSUME NEW i \in DOMAIN runs'
                     PROVE  /\ (runs'[i].status = "succeeded" <=> runs'[i].stage = "cleanup")
                            /\ (i < Len(runs') => runs'[i].status = "succeeded")
          OBVIOUS
        <5>1. CASE i = Len(runs)
          BY <4>0, <1>0, <2>2, <3>a, <3>b, <3>c, <3>d, <3>e, <3>f, <3>g,
             <5>1 DEF Adopt!StageTells, Adopt!Early
        <5>2. CASE i # Len(runs)
          BY <4>0, <5>2, <3>g DEF Adopt!StageTells
        <5> QED BY <5>1, <5>2
      <4>2. runs' # <<>> /\ Adopt!Run'.stage \in Adopt!PostFlip => prod' = "new"
        BY <4>0, <1>0, <3>1, <2>2, <3>a, <3>b, <3>c, <3>d, <3>e, <3>f,
           <3>g DEF Adopt!StageTells, Adopt!Early, Adopt!PostFlip
      <4>3. prod' = "new" => runs' # <<>> /\ Adopt!Run'.stage \notin Adopt!Early
                /\ temp' = "up" /\ [kind |-> "adopt", run |-> Len(runs')] \notin tasks'
        BY <4>0, <1>0, <3>1, <2>2, <3>a, <3>b, <3>c, <3>d, <3>e, <3>f,
           <3>g DEF Adopt!StageTells, Adopt!Early, Adopt!PostFlip
      <4>4. oldUp' \/ prod' = "new"
        BY <4>0, <1>0, <3>1, <2>2, <3>a, <3>b, <3>c, <3>d, <3>e, <3>f,
           <3>g DEF Adopt!StageTells, Adopt!Early, Adopt!PostFlip
      <4> QED BY <4>1, <4>2, <4>3, <4>4
    <3>5. Adopt!FlowKnows'
      <4> SUFFICES ASSUME Adopt!Undisturbed', NEW u \in Adopt!Cleaners
                   PROVE  /\ Adopt!FlowAt(u)' /\ Adopt!StopsUnused(u)'
        BY DEF Adopt!FlowKnows
      <4>1. /\ Adopt!Undisturbed
            /\ \A v \in Adopt!Cleaners : Adopt!FlowAt(v) /\ Adopt!StopsUnused(v)
        BY <3>1 DEF Adopt!FlowKnows, Adopt!Undisturbed
      <4>2. CASE u = w
        <5>1. Adopt!FlowAt(u)'
          BY <3>1, <2>2, <3>a, <3>b, <3>c, <3>d, <3>e, <3>f, <3>g, <4>1, <4>2 DEF Adopt!FlowAt,
             Adopt!StopsUnused, Adopt!Early, Adopt!Towards, Adopt!PostFlip
        <5>2. Adopt!StopsUnused(u)'
          BY <3>1, <2>2, <3>a, <3>b, <3>c, <3>d, <3>e, <3>f, <3>g, <4>1, <4>2 DEF Adopt!FlowAt,
             Adopt!StopsUnused, Adopt!Early, Adopt!Towards, Adopt!PostFlip
        <5> QED BY <5>1, <5>2
      <4>3. CASE u # w
        <5>1. Adopt!FlowAt(u)'
          BY <3>1, <2>2, <3>a, <3>b, <3>c, <3>d, <3>e, <3>f, <3>g, <4>1, <4>3 DEF Adopt!FlowAt,
             Adopt!StopsUnused, Adopt!Early, Adopt!Towards, Adopt!PostFlip
        <5>2. Adopt!StopsUnused(u)'
          BY <3>1, <2>2, <3>a, <3>b, <3>c, <3>d, <3>e, <3>f, <3>g, <4>1, <4>3 DEF Adopt!FlowAt,
             Adopt!StopsUnused, Adopt!Early, Adopt!Towards, Adopt!PostFlip
        <5> QED BY <5>1, <5>2
      <4> QED BY <4>2, <4>3
    <3> QED BY <3>3, <3>4, <3>5
  <2>3. CASE ~b
    <3> DEFINE x == Adopt!Free
    <3> DEFINE y == [Adopt!Run EXCEPT !.status = "failed"]
    <3>1. /\ doing[w].at = "probe"
          /\ doing' = [doing EXCEPT ![w] = x]
          /\ runs' = [runs EXCEPT ![Len(runs)] = y]
          /\ UNCHANGED <<mesh, tasks, minted, tempNames, orphans, prod, oldUp, temp, raced,
              again>>
      BY <1>10, <2>3, Zenon DEF Adopt!Healthz, Adopt!Do, Adopt!Goto, Adopt!Write, Adopt!Raise,
         Adopt!Refuse, Adopt!Edge, Adopt!History
    <3>a. w \in Adopt!Cleaners
      BY <1>10 DEF Adopt!Cleaners
    <3>b. doing[w] \in Adopt!Flow /\ doing[w].kind = "adopt" /\ runs # <<>>
      BY <3>1, <3>a, PlaceFacts DEF Adopt!Towards
    <3>c. Adopt!Undisturbed => Adopt!Run.status = "running" /\ Adopt!Run.stage # "cleanup"
              /\ [kind |-> "adopt",
              run |-> Len(runs)] \notin tasks /\ prod = "old"
              /\ Adopt!Run.stage \in Adopt!Early /\ temp = "up"
      BY <3>1, <3>a, <3>b DEF Adopt!FlowKnows, Adopt!FlowAt, Adopt!Towards
    <3>d. /\ y \in Adopt!Row /\ y.status = "failed" /\ y.stage = Adopt!Run.stage
          /\ y.temp = Adopt!Run.temp
      BY <1>00, <3>1, <2>3, <3>a, <3>b, <3>c DEF Adopt!Row, Adopt!Stages
    <3>e. /\ x \in {Adopt!Free} \cup Adopt!Flow \cup Adopt!Closing /\ x.at = "idle"
          /\ x.kind = "" /\ x.temp = 0
      BY <1>00, <3>1, <2>3, <3>a, <3>b, <3>c, <3>d DEF Adopt!Free, Adopt!Flow, Adopt!Closing,
         Adopt!Towards, Adopt!Row, Adopt!Stages
    <3>f. /\ doing'[w] = x
          /\ doing' \in [Adopt!Cleaners -> {Adopt!Free} \cup Adopt!Flow \cup Adopt!Closing]
          /\ \A v \in Adopt!Cleaners : v # w => doing'[v] = doing[v]
      BY <3>1, <3>a, <3>e DEF Adopt!TypeOK
    <3> HIDE DEF x
    <3> HIDE DEF y
    <3>g. /\ runs' \in Seq(Adopt!Row) /\ runs' # <<>> /\ Len(runs') = Len(runs)
          /\ DOMAIN runs' = DOMAIN runs /\ Adopt!Run' = y
          /\ Len(runs) \in DOMAIN runs /\ runs'[Len(runs)] = y
          /\ \A i \in DOMAIN runs : i # Len(runs) => runs'[i] = runs[i]
      BY <1>0, <3>1, <2>3, <3>a, <3>b, <3>c, <3>d, <3>e, <3>f, WriteFacts
    <3>2. Adopt!NamesMinted'
      <4>1. \A i \in DOMAIN runs' : runs'[i].temp <= minted'
        BY <1>0, <3>1, <2>3, <3>a, <3>b, <3>c, <3>d, <3>e, <3>f, <3>g DEF Adopt!NamesMinted
      <4>2. \A u \in Adopt!Cleaners : doing'[u].temp <= minted' /\ (doing'[u].at = "upsert" =>
                doing'[u].temp > 0)
        <5> SUFFICES ASSUME NEW u \in Adopt!Cleaners
                     PROVE  /\ doing'[u].temp <= minted'
                            /\ (doing'[u].at = "upsert" => doing'[u].temp > 0)
          OBVIOUS
        <5>1. CASE u = w
          <6>1. doing'[u] = x
            BY <3>f, <5>1
          <6>2. 0 <= minted'
            BY <1>00, <3>1
          <6>3. doing'[u].temp = 0 /\ doing'[u].at # "upsert"
            BY <3>e, <6>1
          <6> QED BY <6>2, <6>3
        <5>2. CASE u # w
          BY <1>0, <3>1, <2>3, <3>a, <3>b, <3>c, <3>d, <3>e, <3>f, <3>g,
             <5>2 DEF Adopt!NamesMinted
        <5> QED BY <5>1, <5>2
      <4>3. tempNames' \subseteq 1..minted' /\ orphans' \subseteq 0..minted'
        BY <1>0, <3>1, <2>3, <3>a, <3>b, <3>c, <3>d, <3>e, <3>f, <3>g DEF Adopt!NamesMinted
      <4> QED BY <4>1, <4>2, <4>3 DEF Adopt!NamesMinted
    <3>3. Adopt!TypeOK'
      BY <1>0, <3>1, <2>3, <3>a, <3>b, <3>c, <3>d, <3>e, <3>f, <3>g, <3>2 DEF Adopt!TypeOK
    <3>4. Adopt!StageTells'
      <4> SUFFICES ASSUME Adopt!Undisturbed'
                   PROVE  /\ (\A i \in DOMAIN runs' :
                               (runs'[i].status = "succeeded" <=> runs'[i].stage = "cleanup")
                               /\ (i < Len(runs') => runs'[i].status = "succeeded"))
                          /\ (runs' # <<>> /\ Adopt!Run'.stage \in Adopt!PostFlip =>
                               prod' = "new")
                          /\ (prod' = "new" => runs' # <<>>
                               /\ Adopt!Run'.stage \notin Adopt!Early /\ temp' = "up"
                               /\ [kind |-> "adopt", run |-> Len(runs')] \notin tasks')
                          /\ (oldUp' \/ prod' = "new")
        BY DEF Adopt!StageTells
      <4>0. Adopt!Undisturbed
        BY <3>1 DEF Adopt!Undisturbed
      <4>1. \A i \in DOMAIN runs' :
                (runs'[i].status = "succeeded" <=> runs'[i].stage = "cleanup")
                /\ (i < Len(runs') => runs'[i].status = "succeeded")
        <5> SUFFICES ASSUME NEW i \in DOMAIN runs'
                     PROVE  /\ (runs'[i].status = "succeeded" <=> runs'[i].stage = "cleanup")
                            /\ (i < Len(runs') => runs'[i].status = "succeeded")
          OBVIOUS
        <5>1. CASE i = Len(runs)
          BY <4>0, <1>0, <2>3, <3>a, <3>b, <3>c, <3>d, <3>e, <3>f, <3>g,
             <5>1 DEF Adopt!StageTells, Adopt!Early
        <5>2. CASE i # Len(runs)
          BY <4>0, <5>2, <3>g DEF Adopt!StageTells
        <5> QED BY <5>1, <5>2
      <4>2. runs' # <<>> /\ Adopt!Run'.stage \in Adopt!PostFlip => prod' = "new"
        BY <4>0, <1>0, <3>1, <2>3, <3>a, <3>b, <3>c, <3>d, <3>e, <3>f,
           <3>g DEF Adopt!StageTells, Adopt!Early, Adopt!PostFlip
      <4>3. prod' = "new" => runs' # <<>> /\ Adopt!Run'.stage \notin Adopt!Early
                /\ temp' = "up" /\ [kind |-> "adopt", run |-> Len(runs')] \notin tasks'
        BY <4>0, <1>0, <3>1, <2>3, <3>a, <3>b, <3>c, <3>d, <3>e, <3>f,
           <3>g DEF Adopt!StageTells, Adopt!Early, Adopt!PostFlip
      <4>4. oldUp' \/ prod' = "new"
        BY <4>0, <1>0, <3>1, <2>3, <3>a, <3>b, <3>c, <3>d, <3>e, <3>f,
           <3>g DEF Adopt!StageTells, Adopt!Early, Adopt!PostFlip
      <4> QED BY <4>1, <4>2, <4>3, <4>4
    <3>5. Adopt!FlowKnows'
      <4> SUFFICES ASSUME Adopt!Undisturbed', NEW u \in Adopt!Cleaners
                   PROVE  /\ Adopt!FlowAt(u)' /\ Adopt!StopsUnused(u)'
        BY DEF Adopt!FlowKnows
      <4>1. /\ Adopt!Undisturbed
            /\ \A v \in Adopt!Cleaners : Adopt!FlowAt(v) /\ Adopt!StopsUnused(v)
        BY <3>1 DEF Adopt!FlowKnows, Adopt!Undisturbed
      <4>2. CASE u = w
        <5>1. Adopt!FlowAt(u)'
          BY <3>1, <2>3, <3>a, <3>b, <3>c, <3>d, <3>e, <3>f, <3>g, <4>1, <4>2 DEF Adopt!FlowAt,
             Adopt!StopsUnused, Adopt!Early, Adopt!Towards, Adopt!PostFlip
        <5>2. Adopt!StopsUnused(u)'
          BY <3>1, <2>3, <3>a, <3>b, <3>c, <3>d, <3>e, <3>f, <3>g, <4>1, <4>2 DEF Adopt!FlowAt,
             Adopt!StopsUnused, Adopt!Early, Adopt!Towards, Adopt!PostFlip
        <5> QED BY <5>1, <5>2
      <4>3. CASE u # w
        <5>1. Adopt!FlowAt(u)'
          BY <3>1, <2>3, <3>a, <3>b, <3>c, <3>d, <3>e, <3>f, <3>g, <4>1, <4>3 DEF Adopt!FlowAt,
             Adopt!StopsUnused, Adopt!Early, Adopt!Towards, Adopt!PostFlip
        <5>2. Adopt!StopsUnused(u)'
          BY <3>1, <2>3, <3>a, <3>b, <3>c, <3>d, <3>e, <3>f, <3>g, <4>1, <4>3 DEF Adopt!FlowAt,
             Adopt!StopsUnused, Adopt!Early, Adopt!Towards, Adopt!PostFlip
        <5> QED BY <5>1, <5>2
      <4> QED BY <4>2, <4>3
    <3> QED BY <3>3, <3>4, <3>5
  <2> QED BY <2>1, <2>2, <2>3
<1>11. ASSUME NEW w \in Adopters, NEW b \in BOOLEAN, Adopt!EnsureFlip(w, b)
       PROVE  /\ Adopt!TypeOK' /\ Adopt!StageTells' /\ Adopt!FlowKnows'
  <2>1. CASE Adopt!Refuse(w)
    <3> DEFINE x == Adopt!Free
    <3> DEFINE y == [Adopt!Run EXCEPT !.status = "failed"]
    <3>1. /\ doing[w].at = "flip"
          /\ doing' = [doing EXCEPT ![w] = x]
          /\ runs' = [runs EXCEPT ![Len(runs)] = y]
          /\ UNCHANGED <<mesh, tasks, minted, tempNames, orphans, prod, oldUp, temp, raced,
              again>>
      BY <1>11, <2>1, Zenon DEF Adopt!EnsureFlip, Adopt!Do, Adopt!Goto, Adopt!Write,
         Adopt!Raise, Adopt!Refuse, Adopt!Edge, Adopt!History
    <3>a. w \in Adopt!Cleaners
      BY <1>11 DEF Adopt!Cleaners
    <3>b. doing[w] \in Adopt!Flow /\ doing[w].kind = "adopt" /\ runs # <<>>
      BY <3>1, <3>a, PlaceFacts DEF Adopt!Towards
    <3>c. Adopt!Undisturbed => Adopt!Run.status = "running" /\ Adopt!Run.stage # "cleanup"
              /\ [kind |-> "adopt",
              run |-> Len(runs)] \notin tasks /\ prod = "old"
              /\ Adopt!Run.stage \in Adopt!Early /\ temp = "up"
      BY <3>1, <3>a, <3>b DEF Adopt!FlowKnows, Adopt!FlowAt, Adopt!Towards
    <3>d. /\ y \in Adopt!Row /\ y.status = "failed" /\ y.stage = Adopt!Run.stage
          /\ y.temp = Adopt!Run.temp
      BY <1>00, <3>1, <2>1, <3>a, <3>b, <3>c DEF Adopt!Row, Adopt!Stages
    <3>e. /\ x \in {Adopt!Free} \cup Adopt!Flow \cup Adopt!Closing /\ x.at = "idle"
          /\ x.kind = "" /\ x.temp = 0
      BY <1>00, <3>1, <2>1, <3>a, <3>b, <3>c, <3>d DEF Adopt!Free, Adopt!Flow, Adopt!Closing,
         Adopt!Towards, Adopt!Row, Adopt!Stages
    <3>f. /\ doing'[w] = x
          /\ doing' \in [Adopt!Cleaners -> {Adopt!Free} \cup Adopt!Flow \cup Adopt!Closing]
          /\ \A v \in Adopt!Cleaners : v # w => doing'[v] = doing[v]
      BY <3>1, <3>a, <3>e DEF Adopt!TypeOK
    <3> HIDE DEF x
    <3> HIDE DEF y
    <3>g. /\ runs' \in Seq(Adopt!Row) /\ runs' # <<>> /\ Len(runs') = Len(runs)
          /\ DOMAIN runs' = DOMAIN runs /\ Adopt!Run' = y
          /\ Len(runs) \in DOMAIN runs /\ runs'[Len(runs)] = y
          /\ \A i \in DOMAIN runs : i # Len(runs) => runs'[i] = runs[i]
      BY <1>0, <3>1, <2>1, <3>a, <3>b, <3>c, <3>d, <3>e, <3>f, WriteFacts
    <3>2. Adopt!NamesMinted'
      <4>1. \A i \in DOMAIN runs' : runs'[i].temp <= minted'
        BY <1>0, <3>1, <2>1, <3>a, <3>b, <3>c, <3>d, <3>e, <3>f, <3>g DEF Adopt!NamesMinted
      <4>2. \A u \in Adopt!Cleaners : doing'[u].temp <= minted' /\ (doing'[u].at = "upsert" =>
                doing'[u].temp > 0)
        <5> SUFFICES ASSUME NEW u \in Adopt!Cleaners
                     PROVE  /\ doing'[u].temp <= minted'
                            /\ (doing'[u].at = "upsert" => doing'[u].temp > 0)
          OBVIOUS
        <5>1. CASE u = w
          <6>1. doing'[u] = x
            BY <3>f, <5>1
          <6>2. 0 <= minted'
            BY <1>00, <3>1
          <6>3. doing'[u].temp = 0 /\ doing'[u].at # "upsert"
            BY <3>e, <6>1
          <6> QED BY <6>2, <6>3
        <5>2. CASE u # w
          BY <1>0, <3>1, <2>1, <3>a, <3>b, <3>c, <3>d, <3>e, <3>f, <3>g,
             <5>2 DEF Adopt!NamesMinted
        <5> QED BY <5>1, <5>2
      <4>3. tempNames' \subseteq 1..minted' /\ orphans' \subseteq 0..minted'
        BY <1>0, <3>1, <2>1, <3>a, <3>b, <3>c, <3>d, <3>e, <3>f, <3>g DEF Adopt!NamesMinted
      <4> QED BY <4>1, <4>2, <4>3 DEF Adopt!NamesMinted
    <3>3. Adopt!TypeOK'
      BY <1>0, <3>1, <2>1, <3>a, <3>b, <3>c, <3>d, <3>e, <3>f, <3>g, <3>2 DEF Adopt!TypeOK
    <3>4. Adopt!StageTells'
      <4> SUFFICES ASSUME Adopt!Undisturbed'
                   PROVE  /\ (\A i \in DOMAIN runs' :
                               (runs'[i].status = "succeeded" <=> runs'[i].stage = "cleanup")
                               /\ (i < Len(runs') => runs'[i].status = "succeeded"))
                          /\ (runs' # <<>> /\ Adopt!Run'.stage \in Adopt!PostFlip =>
                               prod' = "new")
                          /\ (prod' = "new" => runs' # <<>>
                               /\ Adopt!Run'.stage \notin Adopt!Early /\ temp' = "up"
                               /\ [kind |-> "adopt", run |-> Len(runs')] \notin tasks')
                          /\ (oldUp' \/ prod' = "new")
        BY DEF Adopt!StageTells
      <4>0. Adopt!Undisturbed
        BY <3>1 DEF Adopt!Undisturbed
      <4>1. \A i \in DOMAIN runs' :
                (runs'[i].status = "succeeded" <=> runs'[i].stage = "cleanup")
                /\ (i < Len(runs') => runs'[i].status = "succeeded")
        <5> SUFFICES ASSUME NEW i \in DOMAIN runs'
                     PROVE  /\ (runs'[i].status = "succeeded" <=> runs'[i].stage = "cleanup")
                            /\ (i < Len(runs') => runs'[i].status = "succeeded")
          OBVIOUS
        <5>1. CASE i = Len(runs)
          BY <4>0, <1>0, <2>1, <3>a, <3>b, <3>c, <3>d, <3>e, <3>f, <3>g,
             <5>1 DEF Adopt!StageTells, Adopt!Early
        <5>2. CASE i # Len(runs)
          BY <4>0, <5>2, <3>g DEF Adopt!StageTells
        <5> QED BY <5>1, <5>2
      <4>2. runs' # <<>> /\ Adopt!Run'.stage \in Adopt!PostFlip => prod' = "new"
        BY <4>0, <1>0, <3>1, <2>1, <3>a, <3>b, <3>c, <3>d, <3>e, <3>f,
           <3>g DEF Adopt!StageTells, Adopt!Early, Adopt!PostFlip
      <4>3. prod' = "new" => runs' # <<>> /\ Adopt!Run'.stage \notin Adopt!Early
                /\ temp' = "up" /\ [kind |-> "adopt", run |-> Len(runs')] \notin tasks'
        BY <4>0, <1>0, <3>1, <2>1, <3>a, <3>b, <3>c, <3>d, <3>e, <3>f,
           <3>g DEF Adopt!StageTells, Adopt!Early, Adopt!PostFlip
      <4>4. oldUp' \/ prod' = "new"
        BY <4>0, <1>0, <3>1, <2>1, <3>a, <3>b, <3>c, <3>d, <3>e, <3>f,
           <3>g DEF Adopt!StageTells, Adopt!Early, Adopt!PostFlip
      <4> QED BY <4>1, <4>2, <4>3, <4>4
    <3>5. Adopt!FlowKnows'
      <4> SUFFICES ASSUME Adopt!Undisturbed', NEW u \in Adopt!Cleaners
                   PROVE  /\ Adopt!FlowAt(u)' /\ Adopt!StopsUnused(u)'
        BY DEF Adopt!FlowKnows
      <4>1. /\ Adopt!Undisturbed
            /\ \A v \in Adopt!Cleaners : Adopt!FlowAt(v) /\ Adopt!StopsUnused(v)
        BY <3>1 DEF Adopt!FlowKnows, Adopt!Undisturbed
      <4>2. CASE u = w
        <5>1. Adopt!FlowAt(u)'
          BY <3>1, <2>1, <3>a, <3>b, <3>c, <3>d, <3>e, <3>f, <3>g, <4>1, <4>2 DEF Adopt!FlowAt,
             Adopt!StopsUnused, Adopt!Early, Adopt!Towards, Adopt!PostFlip
        <5>2. Adopt!StopsUnused(u)'
          BY <3>1, <2>1, <3>a, <3>b, <3>c, <3>d, <3>e, <3>f, <3>g, <4>1, <4>2 DEF Adopt!FlowAt,
             Adopt!StopsUnused, Adopt!Early, Adopt!Towards, Adopt!PostFlip
        <5> QED BY <5>1, <5>2
      <4>3. CASE u # w
        <5>1. Adopt!FlowAt(u)'
          BY <3>1, <2>1, <3>a, <3>b, <3>c, <3>d, <3>e, <3>f, <3>g, <4>1, <4>3 DEF Adopt!FlowAt,
             Adopt!StopsUnused, Adopt!Early, Adopt!Towards, Adopt!PostFlip
        <5>2. Adopt!StopsUnused(u)'
          BY <3>1, <2>1, <3>a, <3>b, <3>c, <3>d, <3>e, <3>f, <3>g, <4>1, <4>3 DEF Adopt!FlowAt,
             Adopt!StopsUnused, Adopt!Early, Adopt!Towards, Adopt!PostFlip
        <5> QED BY <5>1, <5>2
      <4> QED BY <4>2, <4>3
    <3> QED BY <3>3, <3>4, <3>5
  <2>2. CASE /\ Adopt!Run.stage \in Adopt!PastFlip /\ Adopt!Goto(w, "decommission")
             /\ UNCHANGED runs
    <3> DEFINE x == [doing[w] EXCEPT !.at = "decommission"]
    <3>1. /\ doing[w].at = "flip"
          /\ doing' = [doing EXCEPT ![w] = x]
          /\ UNCHANGED <<mesh, runs, tasks, minted, tempNames, orphans, prod, oldUp, temp,
              raced, again>>
      BY <1>11, <2>2, Zenon DEF Adopt!EnsureFlip, Adopt!Do, Adopt!Goto, Adopt!Write,
         Adopt!Raise, Adopt!Refuse, Adopt!Edge, Adopt!History, Adopt!PastFlip
    <3>a. w \in Adopt!Cleaners
      BY <1>11 DEF Adopt!Cleaners
    <3>b. doing[w] \in Adopt!Flow /\ doing[w].kind = "adopt" /\ runs # <<>>
      BY <3>1, <3>a, PlaceFacts DEF Adopt!Towards
    <3>c. Adopt!Undisturbed => Adopt!Run.status = "running" /\ Adopt!Run.stage # "cleanup"
              /\ [kind |-> "adopt",
              run |-> Len(runs)] \notin tasks /\ prod = "old"
              /\ Adopt!Run.stage \in Adopt!Early /\ temp = "up"
      BY <3>1, <3>a, <3>b DEF Adopt!FlowKnows, Adopt!FlowAt, Adopt!Towards
    <3>d. /\ x \in {Adopt!Free} \cup Adopt!Flow \cup Adopt!Closing /\ x.at = "decommission"
          /\ x.kind = doing[w].kind /\ x.temp = doing[w].temp
      BY <1>00, <3>1, <2>2, <3>a, <3>b, <3>c DEF Adopt!Free, Adopt!Flow, Adopt!Closing,
         Adopt!Towards, Adopt!Row, Adopt!Stages
    <3>e. /\ doing'[w] = x
          /\ doing' \in [Adopt!Cleaners -> {Adopt!Free} \cup Adopt!Flow \cup Adopt!Closing]
          /\ \A v \in Adopt!Cleaners : v # w => doing'[v] = doing[v]
      BY <3>1, <3>a, <3>d DEF Adopt!TypeOK
    <3>f. Adopt!Run' = Adopt!Run
      BY <3>1 DEF Adopt!Run
    <3> HIDE DEF x
    <3>2. Adopt!NamesMinted'
      <4>1. \A i \in DOMAIN runs' : runs'[i].temp <= minted'
        BY <1>0, <3>1, <2>2, <3>a, <3>b, <3>c, <3>d, <3>e, <3>f DEF Adopt!NamesMinted
      <4>2. \A u \in Adopt!Cleaners : doing'[u].temp <= minted' /\ (doing'[u].at = "upsert" =>
                doing'[u].temp > 0)
        <5> SUFFICES ASSUME NEW u \in Adopt!Cleaners
                     PROVE  /\ doing'[u].temp <= minted'
                            /\ (doing'[u].at = "upsert" => doing'[u].temp > 0)
          OBVIOUS
        <5>1. CASE u = w
          <6>1. doing'[u] = x
            BY <3>e, <5>1
          <6>2. x.temp <= minted' /\ (x.at = "upsert" => x.temp > 0)
            BY <1>00, <3>1, <3>d, <3>a DEF Adopt!NamesMinted
          <6> QED BY <6>1, <6>2
        <5>2. CASE u # w
          BY <1>0, <3>1, <2>2, <3>a, <3>b, <3>c, <3>d, <3>e, <3>f, <5>2 DEF Adopt!NamesMinted
        <5> QED BY <5>1, <5>2
      <4>3. tempNames' \subseteq 1..minted' /\ orphans' \subseteq 0..minted'
        BY <1>0, <3>1, <2>2, <3>a, <3>b, <3>c, <3>d, <3>e, <3>f DEF Adopt!NamesMinted
      <4> QED BY <4>1, <4>2, <4>3 DEF Adopt!NamesMinted
    <3>3. Adopt!TypeOK'
      BY <1>0, <3>1, <2>2, <3>a, <3>b, <3>c, <3>d, <3>e, <3>f, <3>2 DEF Adopt!TypeOK
    <3>4. Adopt!StageTells'
      <4> SUFFICES ASSUME Adopt!Undisturbed'
                   PROVE  /\ (\A i \in DOMAIN runs' :
                               (runs'[i].status = "succeeded" <=> runs'[i].stage = "cleanup")
                               /\ (i < Len(runs') => runs'[i].status = "succeeded"))
                          /\ (runs' # <<>> /\ Adopt!Run'.stage \in Adopt!PostFlip =>
                               prod' = "new")
                          /\ (prod' = "new" => runs' # <<>>
                               /\ Adopt!Run'.stage \notin Adopt!Early /\ temp' = "up"
                               /\ [kind |-> "adopt", run |-> Len(runs')] \notin tasks')
                          /\ (oldUp' \/ prod' = "new")
        BY DEF Adopt!StageTells
      <4>0. Adopt!Undisturbed
        BY <3>1 DEF Adopt!Undisturbed
      <4>1. \A i \in DOMAIN runs' :
                (runs'[i].status = "succeeded" <=> runs'[i].stage = "cleanup")
                /\ (i < Len(runs') => runs'[i].status = "succeeded")
        BY <4>0, <1>0, <3>1, <2>2, <3>a, <3>b, <3>c, <3>d, <3>e, <3>f DEF Adopt!StageTells,
           Adopt!Early, Adopt!PostFlip
      <4>2. runs' # <<>> /\ Adopt!Run'.stage \in Adopt!PostFlip => prod' = "new"
        BY <4>0, <1>0, <3>1, <2>2, <3>a, <3>b, <3>c, <3>d, <3>e, <3>f DEF Adopt!StageTells,
           Adopt!Early, Adopt!PostFlip
      <4>3. prod' = "new" => runs' # <<>> /\ Adopt!Run'.stage \notin Adopt!Early
                /\ temp' = "up" /\ [kind |-> "adopt", run |-> Len(runs')] \notin tasks'
        BY <4>0, <1>0, <3>1, <2>2, <3>a, <3>b, <3>c, <3>d, <3>e, <3>f DEF Adopt!StageTells,
           Adopt!Early, Adopt!PostFlip
      <4>4. oldUp' \/ prod' = "new"
        BY <4>0, <1>0, <3>1, <2>2, <3>a, <3>b, <3>c, <3>d, <3>e, <3>f DEF Adopt!StageTells,
           Adopt!Early, Adopt!PostFlip
      <4> QED BY <4>1, <4>2, <4>3, <4>4
    <3>5. Adopt!FlowKnows'
      <4> SUFFICES ASSUME Adopt!Undisturbed', NEW u \in Adopt!Cleaners
                   PROVE  /\ Adopt!FlowAt(u)' /\ Adopt!StopsUnused(u)'
        BY DEF Adopt!FlowKnows
      <4>1. /\ Adopt!Undisturbed
            /\ \A v \in Adopt!Cleaners : Adopt!FlowAt(v) /\ Adopt!StopsUnused(v)
        BY <3>1 DEF Adopt!FlowKnows, Adopt!Undisturbed
      <4>2. CASE u = w
        <5>1. Adopt!FlowAt(u)'
          BY <3>1, <2>2, <3>a, <3>b, <3>c, <3>d, <3>e, <3>f, <4>1, <4>2 DEF Adopt!FlowAt,
             Adopt!StopsUnused, Adopt!Early, Adopt!Towards, Adopt!PostFlip, Adopt!PastFlip
        <5>2. Adopt!StopsUnused(u)'
          BY <3>1, <2>2, <3>a, <3>b, <3>c, <3>d, <3>e, <3>f, <4>1, <4>2 DEF Adopt!FlowAt,
             Adopt!StopsUnused, Adopt!Early, Adopt!Towards, Adopt!PostFlip, Adopt!PastFlip
        <5> QED BY <5>1, <5>2
      <4>3. CASE u # w
        <5>1. Adopt!FlowAt(u)'
          BY <3>1, <2>2, <3>a, <3>b, <3>c, <3>d, <3>e, <3>f, <4>1, <4>3 DEF Adopt!FlowAt,
             Adopt!StopsUnused, Adopt!Early, Adopt!Towards, Adopt!PostFlip, Adopt!PastFlip
        <5>2. Adopt!StopsUnused(u)'
          BY <3>1, <2>2, <3>a, <3>b, <3>c, <3>d, <3>e, <3>f, <4>1, <4>3 DEF Adopt!FlowAt,
             Adopt!StopsUnused, Adopt!Early, Adopt!Towards, Adopt!PostFlip, Adopt!PastFlip
        <5> QED BY <5>1, <5>2
      <4> QED BY <4>2, <4>3
    <3> QED BY <3>3, <3>4, <3>5
  <2>3. CASE Adopt!Goto(w, "point") /\ UNCHANGED runs
    <3> DEFINE x == [doing[w] EXCEPT !.at = "point"]
    <3>1. /\ doing[w].at = "flip"
          /\ doing' = [doing EXCEPT ![w] = x]
          /\ UNCHANGED <<mesh, runs, tasks, minted, tempNames, orphans, prod, oldUp, temp,
              raced, again>>
      BY <1>11, <2>3, Zenon DEF Adopt!EnsureFlip, Adopt!Do, Adopt!Goto, Adopt!Write,
         Adopt!Raise, Adopt!Refuse, Adopt!Edge, Adopt!History
    <3>a. w \in Adopt!Cleaners
      BY <1>11 DEF Adopt!Cleaners
    <3>b. doing[w] \in Adopt!Flow /\ doing[w].kind = "adopt" /\ runs # <<>>
      BY <3>1, <3>a, PlaceFacts DEF Adopt!Towards
    <3>c. Adopt!Undisturbed => Adopt!Run.status = "running" /\ Adopt!Run.stage # "cleanup"
              /\ [kind |-> "adopt",
              run |-> Len(runs)] \notin tasks /\ prod = "old"
              /\ Adopt!Run.stage \in Adopt!Early /\ temp = "up"
      BY <3>1, <3>a, <3>b DEF Adopt!FlowKnows, Adopt!FlowAt, Adopt!Towards
    <3>d. /\ x \in {Adopt!Free} \cup Adopt!Flow \cup Adopt!Closing /\ x.at = "point"
          /\ x.kind = doing[w].kind /\ x.temp = doing[w].temp
      BY <1>00, <3>1, <2>3, <3>a, <3>b, <3>c DEF Adopt!Free, Adopt!Flow, Adopt!Closing,
         Adopt!Towards, Adopt!Row, Adopt!Stages
    <3>e. /\ doing'[w] = x
          /\ doing' \in [Adopt!Cleaners -> {Adopt!Free} \cup Adopt!Flow \cup Adopt!Closing]
          /\ \A v \in Adopt!Cleaners : v # w => doing'[v] = doing[v]
      BY <3>1, <3>a, <3>d DEF Adopt!TypeOK
    <3>f. Adopt!Run' = Adopt!Run
      BY <3>1 DEF Adopt!Run
    <3> HIDE DEF x
    <3>2. Adopt!NamesMinted'
      <4>1. \A i \in DOMAIN runs' : runs'[i].temp <= minted'
        BY <1>0, <3>1, <2>3, <3>a, <3>b, <3>c, <3>d, <3>e, <3>f DEF Adopt!NamesMinted
      <4>2. \A u \in Adopt!Cleaners : doing'[u].temp <= minted' /\ (doing'[u].at = "upsert" =>
                doing'[u].temp > 0)
        <5> SUFFICES ASSUME NEW u \in Adopt!Cleaners
                     PROVE  /\ doing'[u].temp <= minted'
                            /\ (doing'[u].at = "upsert" => doing'[u].temp > 0)
          OBVIOUS
        <5>1. CASE u = w
          <6>1. doing'[u] = x
            BY <3>e, <5>1
          <6>2. x.temp <= minted' /\ (x.at = "upsert" => x.temp > 0)
            BY <1>00, <3>1, <3>d, <3>a DEF Adopt!NamesMinted
          <6> QED BY <6>1, <6>2
        <5>2. CASE u # w
          BY <1>0, <3>1, <2>3, <3>a, <3>b, <3>c, <3>d, <3>e, <3>f, <5>2 DEF Adopt!NamesMinted
        <5> QED BY <5>1, <5>2
      <4>3. tempNames' \subseteq 1..minted' /\ orphans' \subseteq 0..minted'
        BY <1>0, <3>1, <2>3, <3>a, <3>b, <3>c, <3>d, <3>e, <3>f DEF Adopt!NamesMinted
      <4> QED BY <4>1, <4>2, <4>3 DEF Adopt!NamesMinted
    <3>3. Adopt!TypeOK'
      BY <1>0, <3>1, <2>3, <3>a, <3>b, <3>c, <3>d, <3>e, <3>f, <3>2 DEF Adopt!TypeOK
    <3>4. Adopt!StageTells'
      <4> SUFFICES ASSUME Adopt!Undisturbed'
                   PROVE  /\ (\A i \in DOMAIN runs' :
                               (runs'[i].status = "succeeded" <=> runs'[i].stage = "cleanup")
                               /\ (i < Len(runs') => runs'[i].status = "succeeded"))
                          /\ (runs' # <<>> /\ Adopt!Run'.stage \in Adopt!PostFlip =>
                               prod' = "new")
                          /\ (prod' = "new" => runs' # <<>>
                               /\ Adopt!Run'.stage \notin Adopt!Early /\ temp' = "up"
                               /\ [kind |-> "adopt", run |-> Len(runs')] \notin tasks')
                          /\ (oldUp' \/ prod' = "new")
        BY DEF Adopt!StageTells
      <4>0. Adopt!Undisturbed
        BY <3>1 DEF Adopt!Undisturbed
      <4>1. \A i \in DOMAIN runs' :
                (runs'[i].status = "succeeded" <=> runs'[i].stage = "cleanup")
                /\ (i < Len(runs') => runs'[i].status = "succeeded")
        BY <4>0, <1>0, <3>1, <2>3, <3>a, <3>b, <3>c, <3>d, <3>e, <3>f DEF Adopt!StageTells,
           Adopt!Early, Adopt!PostFlip
      <4>2. runs' # <<>> /\ Adopt!Run'.stage \in Adopt!PostFlip => prod' = "new"
        BY <4>0, <1>0, <3>1, <2>3, <3>a, <3>b, <3>c, <3>d, <3>e, <3>f DEF Adopt!StageTells,
           Adopt!Early, Adopt!PostFlip
      <4>3. prod' = "new" => runs' # <<>> /\ Adopt!Run'.stage \notin Adopt!Early
                /\ temp' = "up" /\ [kind |-> "adopt", run |-> Len(runs')] \notin tasks'
        BY <4>0, <1>0, <3>1, <2>3, <3>a, <3>b, <3>c, <3>d, <3>e, <3>f DEF Adopt!StageTells,
           Adopt!Early, Adopt!PostFlip
      <4>4. oldUp' \/ prod' = "new"
        BY <4>0, <1>0, <3>1, <2>3, <3>a, <3>b, <3>c, <3>d, <3>e, <3>f DEF Adopt!StageTells,
           Adopt!Early, Adopt!PostFlip
      <4> QED BY <4>1, <4>2, <4>3, <4>4
    <3>5. Adopt!FlowKnows'
      <4> SUFFICES ASSUME Adopt!Undisturbed', NEW u \in Adopt!Cleaners
                   PROVE  /\ Adopt!FlowAt(u)' /\ Adopt!StopsUnused(u)'
        BY DEF Adopt!FlowKnows
      <4>1. /\ Adopt!Undisturbed
            /\ \A v \in Adopt!Cleaners : Adopt!FlowAt(v) /\ Adopt!StopsUnused(v)
        BY <3>1 DEF Adopt!FlowKnows, Adopt!Undisturbed
      <4>2. CASE u = w
        <5>1. Adopt!FlowAt(u)'
          BY <3>1, <2>3, <3>a, <3>b, <3>c, <3>d, <3>e, <3>f, <4>1, <4>2 DEF Adopt!FlowAt,
             Adopt!StopsUnused, Adopt!Early, Adopt!Towards, Adopt!PostFlip
        <5>2. Adopt!StopsUnused(u)'
          BY <3>1, <2>3, <3>a, <3>b, <3>c, <3>d, <3>e, <3>f, <4>1, <4>2 DEF Adopt!FlowAt,
             Adopt!StopsUnused, Adopt!Early, Adopt!Towards, Adopt!PostFlip
        <5> QED BY <5>1, <5>2
      <4>3. CASE u # w
        <5>1. Adopt!FlowAt(u)'
          BY <3>1, <2>3, <3>a, <3>b, <3>c, <3>d, <3>e, <3>f, <4>1, <4>3 DEF Adopt!FlowAt,
             Adopt!StopsUnused, Adopt!Early, Adopt!Towards, Adopt!PostFlip
        <5>2. Adopt!StopsUnused(u)'
          BY <3>1, <2>3, <3>a, <3>b, <3>c, <3>d, <3>e, <3>f, <4>1, <4>3 DEF Adopt!FlowAt,
             Adopt!StopsUnused, Adopt!Early, Adopt!Towards, Adopt!PostFlip
        <5> QED BY <5>1, <5>2
      <4> QED BY <4>2, <4>3
    <3> QED BY <3>3, <3>4, <3>5
  <2> QED BY <2>1, <2>2, <2>3, <1>11, Zenon DEF Adopt!EnsureFlip
<1>12. ASSUME NEW w \in Adopters, Adopt!PointProd(w)
       PROVE  /\ Adopt!TypeOK' /\ Adopt!StageTells' /\ Adopt!FlowKnows'
  <2> DEFINE x == [doing[w] EXCEPT !.at = "decommission"]
  <2> DEFINE y == [Adopt!Run EXCEPT !.stage = "flip"]
  <2>1. /\ doing[w].at = "point"
        /\ doing' = [doing EXCEPT ![w] = x]
        /\ runs' = [runs EXCEPT ![Len(runs)] = y]
        /\ prod' = "new"
        /\ UNCHANGED <<mesh, tasks, minted, tempNames, orphans, oldUp, temp, raced, again>>
    BY <1>12, Zenon DEF Adopt!PointProd, Adopt!Do, Adopt!Goto, Adopt!Write, Adopt!Raise,
       Adopt!Refuse, Adopt!Edge, Adopt!History
  <2>a. w \in Adopt!Cleaners
    BY <1>12 DEF Adopt!Cleaners
  <2>b. doing[w] \in Adopt!Flow /\ doing[w].kind = "adopt" /\ runs # <<>>
    BY <2>1, <2>a, PlaceFacts DEF Adopt!Towards
  <2>c. Adopt!Undisturbed => Adopt!Run.status = "running" /\ Adopt!Run.stage # "cleanup"
            /\ [kind |-> "adopt",
            run |-> Len(runs)] \notin tasks /\ prod = "old"
            /\ Adopt!Run.stage \in Adopt!Early /\ temp = "up"
    BY <2>1, <2>a, <2>b DEF Adopt!FlowKnows, Adopt!FlowAt, Adopt!Towards
  <2>d. /\ y \in Adopt!Row /\ y.status = Adopt!Run.status /\ y.stage = "flip"
        /\ y.temp = Adopt!Run.temp
    BY <1>00, <2>1, <2>a, <2>b, <2>c DEF Adopt!Row, Adopt!Stages
  <2>e. /\ x \in {Adopt!Free} \cup Adopt!Flow \cup Adopt!Closing /\ x.at = "decommission"
        /\ x.kind = doing[w].kind /\ x.temp = doing[w].temp
    BY <1>00, <2>1, <2>a, <2>b, <2>c, <2>d DEF Adopt!Free, Adopt!Flow, Adopt!Closing,
       Adopt!Towards, Adopt!Row, Adopt!Stages
  <2>f. /\ doing'[w] = x
        /\ doing' \in [Adopt!Cleaners -> {Adopt!Free} \cup Adopt!Flow \cup Adopt!Closing]
        /\ \A v \in Adopt!Cleaners : v # w => doing'[v] = doing[v]
    BY <2>1, <2>a, <2>e DEF Adopt!TypeOK
  <2> HIDE DEF x
  <2> HIDE DEF y
  <2>g. /\ runs' \in Seq(Adopt!Row) /\ runs' # <<>> /\ Len(runs') = Len(runs)
        /\ DOMAIN runs' = DOMAIN runs /\ Adopt!Run' = y
        /\ Len(runs) \in DOMAIN runs /\ runs'[Len(runs)] = y
        /\ \A i \in DOMAIN runs : i # Len(runs) => runs'[i] = runs[i]
    BY <1>0, <2>1, <2>a, <2>b, <2>c, <2>d, <2>e, <2>f, WriteFacts
  <2>2. Adopt!NamesMinted'
    <3>1. \A i \in DOMAIN runs' : runs'[i].temp <= minted'
      BY <1>0, <2>1, <2>a, <2>b, <2>c, <2>d, <2>e, <2>f, <2>g DEF Adopt!NamesMinted
    <3>2. \A u \in Adopt!Cleaners : doing'[u].temp <= minted' /\ (doing'[u].at = "upsert" =>
              doing'[u].temp > 0)
      <4> SUFFICES ASSUME NEW u \in Adopt!Cleaners
                   PROVE  /\ doing'[u].temp <= minted'
                          /\ (doing'[u].at = "upsert" => doing'[u].temp > 0)
        OBVIOUS
      <4>1. CASE u = w
        <5>1. doing'[u] = x
          BY <2>f, <4>1
        <5>2. x.temp <= minted' /\ (x.at = "upsert" => x.temp > 0)
          BY <1>00, <2>1, <2>e, <2>a DEF Adopt!NamesMinted
        <5> QED BY <5>1, <5>2
      <4>2. CASE u # w
        BY <1>0, <2>1, <2>a, <2>b, <2>c, <2>d, <2>e, <2>f, <2>g, <4>2 DEF Adopt!NamesMinted
      <4> QED BY <4>1, <4>2
    <3>3. tempNames' \subseteq 1..minted' /\ orphans' \subseteq 0..minted'
      BY <1>0, <2>1, <2>a, <2>b, <2>c, <2>d, <2>e, <2>f, <2>g DEF Adopt!NamesMinted
    <3> QED BY <3>1, <3>2, <3>3 DEF Adopt!NamesMinted
  <2>3. Adopt!TypeOK'
    BY <1>0, <2>1, <2>a, <2>b, <2>c, <2>d, <2>e, <2>f, <2>g, <2>2 DEF Adopt!TypeOK
  <2>4. Adopt!StageTells'
    <3> SUFFICES ASSUME Adopt!Undisturbed'
                 PROVE  /\ (\A i \in DOMAIN runs' :
                             (runs'[i].status = "succeeded" <=> runs'[i].stage = "cleanup")
                             /\ (i < Len(runs') => runs'[i].status = "succeeded"))
                        /\ (runs' # <<>> /\ Adopt!Run'.stage \in Adopt!PostFlip =>
                             prod' = "new")
                        /\ (prod' = "new" => runs' # <<>>
                             /\ Adopt!Run'.stage \notin Adopt!Early /\ temp' = "up"
                             /\ [kind |-> "adopt", run |-> Len(runs')] \notin tasks')
                        /\ (oldUp' \/ prod' = "new")
      BY DEF Adopt!StageTells
    <3>0. Adopt!Undisturbed
      BY <2>1 DEF Adopt!Undisturbed
    <3>1. \A i \in DOMAIN runs' :
              (runs'[i].status = "succeeded" <=> runs'[i].stage = "cleanup")
              /\ (i < Len(runs') => runs'[i].status = "succeeded")
      <4> SUFFICES ASSUME NEW i \in DOMAIN runs'
                   PROVE  /\ (runs'[i].status = "succeeded" <=> runs'[i].stage = "cleanup")
                          /\ (i < Len(runs') => runs'[i].status = "succeeded")
        OBVIOUS
      <4>1. CASE i = Len(runs)
        BY <3>0, <1>0, <2>a, <2>b, <2>c, <2>d, <2>e, <2>f, <2>g, <4>1 DEF Adopt!StageTells,
           Adopt!Early
      <4>2. CASE i # Len(runs)
        BY <3>0, <4>2, <2>g DEF Adopt!StageTells
      <4> QED BY <4>1, <4>2
    <3>2. runs' # <<>> /\ Adopt!Run'.stage \in Adopt!PostFlip => prod' = "new"
      BY <3>0, <1>0, <2>1, <2>a, <2>b, <2>c, <2>d, <2>e, <2>f, <2>g DEF Adopt!StageTells,
         Adopt!Early, Adopt!PostFlip
    <3>3. prod' = "new" => runs' # <<>> /\ Adopt!Run'.stage \notin Adopt!Early
              /\ temp' = "up" /\ [kind |-> "adopt", run |-> Len(runs')] \notin tasks'
      BY <3>0, <1>0, <2>1, <2>a, <2>b, <2>c, <2>d, <2>e, <2>f, <2>g DEF Adopt!StageTells,
         Adopt!Early, Adopt!PostFlip
    <3>4. oldUp' \/ prod' = "new"
      BY <3>0, <1>0, <2>1, <2>a, <2>b, <2>c, <2>d, <2>e, <2>f, <2>g DEF Adopt!StageTells,
         Adopt!Early, Adopt!PostFlip
    <3> QED BY <3>1, <3>2, <3>3, <3>4
  <2>5. Adopt!FlowKnows'
    <3> SUFFICES ASSUME Adopt!Undisturbed', NEW u \in Adopt!Cleaners
                 PROVE  /\ Adopt!FlowAt(u)' /\ Adopt!StopsUnused(u)'
      BY DEF Adopt!FlowKnows
    <3>1. Adopt!Undisturbed /\ \A v \in Adopt!Cleaners : Adopt!FlowAt(v) /\ Adopt!StopsUnused(v)
      BY <2>1 DEF Adopt!FlowKnows, Adopt!Undisturbed
    <3>2. CASE u = w
      <4>1. Adopt!FlowAt(u)'
        BY <2>1, <2>a, <2>b, <2>c, <2>d, <2>e, <2>f, <2>g, <3>1, <3>2 DEF Adopt!FlowAt,
           Adopt!StopsUnused, Adopt!Early, Adopt!Towards, Adopt!PostFlip
      <4>2. Adopt!StopsUnused(u)'
        BY <2>1, <2>a, <2>b, <2>c, <2>d, <2>e, <2>f, <2>g, <3>1, <3>2 DEF Adopt!FlowAt,
           Adopt!StopsUnused, Adopt!Early, Adopt!Towards, Adopt!PostFlip
      <4> QED BY <4>1, <4>2
    <3>3. CASE u # w
      <4>1. Adopt!FlowAt(u)'
        BY <2>1, <2>a, <2>b, <2>c, <2>d, <2>e, <2>f, <2>g, <3>1, <3>3 DEF Adopt!FlowAt,
           Adopt!StopsUnused, Adopt!Early, Adopt!Towards, Adopt!PostFlip
      <4>2. Adopt!StopsUnused(u)'
        BY <2>1, <2>a, <2>b, <2>c, <2>d, <2>e, <2>f, <2>g, <3>1, <3>3 DEF Adopt!FlowAt,
           Adopt!StopsUnused, Adopt!Early, Adopt!Towards, Adopt!PostFlip
      <4> QED BY <4>1, <4>2
    <3> QED BY <3>2, <3>3
  <2> QED BY <2>3, <2>4, <2>5
<1>13. ASSUME NEW w \in Adopters, NEW b \in BOOLEAN, Adopt!EnsureDecommission(w, b)
       PROVE  /\ Adopt!TypeOK' /\ Adopt!StageTells' /\ Adopt!FlowKnows'
  <2>1. CASE Adopt!Run.stage = "cleanup"
    <3> DEFINE x == [doing[w] EXCEPT !.at = "clean"]
    <3>1. /\ doing[w].at = "decommission"
          /\ doing' = [doing EXCEPT ![w] = x]
          /\ UNCHANGED <<mesh, runs, tasks, minted, tempNames, orphans, prod, oldUp, temp,
              raced, again>>
      BY <1>13, <2>1, Zenon DEF Adopt!EnsureDecommission, Adopt!Do, Adopt!Goto, Adopt!Write,
         Adopt!Raise, Adopt!Refuse, Adopt!Edge, Adopt!History
    <3>a. w \in Adopt!Cleaners
      BY <1>13 DEF Adopt!Cleaners
    <3>b. doing[w] \in Adopt!Flow /\ doing[w].kind = "adopt" /\ runs # <<>>
      BY <3>1, <3>a, PlaceFacts DEF Adopt!Towards
    <3>c. Adopt!Undisturbed => Adopt!Run.status = "running" /\ Adopt!Run.stage # "cleanup"
              /\ [kind |-> "adopt", run |-> Len(runs)] \notin tasks /\ prod = "new"
      BY <3>1, <3>a, <3>b DEF Adopt!FlowKnows, Adopt!FlowAt, Adopt!Towards
    <3>d. /\ x \in {Adopt!Free} \cup Adopt!Flow \cup Adopt!Closing /\ x.at = "clean"
          /\ x.kind = doing[w].kind /\ x.temp = doing[w].temp
      BY <1>00, <3>1, <2>1, <3>a, <3>b, <3>c DEF Adopt!Free, Adopt!Flow, Adopt!Closing,
         Adopt!Towards, Adopt!Row, Adopt!Stages
    <3>e. /\ doing'[w] = x
          /\ doing' \in [Adopt!Cleaners -> {Adopt!Free} \cup Adopt!Flow \cup Adopt!Closing]
          /\ \A v \in Adopt!Cleaners : v # w => doing'[v] = doing[v]
      BY <3>1, <3>a, <3>d DEF Adopt!TypeOK
    <3>f. Adopt!Run' = Adopt!Run
      BY <3>1 DEF Adopt!Run
    <3> HIDE DEF x
    <3>2. Adopt!NamesMinted'
      <4>1. \A i \in DOMAIN runs' : runs'[i].temp <= minted'
        BY <1>0, <3>1, <2>1, <3>a, <3>b, <3>c, <3>d, <3>e, <3>f DEF Adopt!NamesMinted
      <4>2. \A u \in Adopt!Cleaners : doing'[u].temp <= minted' /\ (doing'[u].at = "upsert" =>
                doing'[u].temp > 0)
        <5> SUFFICES ASSUME NEW u \in Adopt!Cleaners
                     PROVE  /\ doing'[u].temp <= minted'
                            /\ (doing'[u].at = "upsert" => doing'[u].temp > 0)
          OBVIOUS
        <5>1. CASE u = w
          <6>1. doing'[u] = x
            BY <3>e, <5>1
          <6>2. x.temp <= minted' /\ (x.at = "upsert" => x.temp > 0)
            BY <1>00, <3>1, <3>d, <3>a DEF Adopt!NamesMinted
          <6> QED BY <6>1, <6>2
        <5>2. CASE u # w
          BY <1>0, <3>1, <2>1, <3>a, <3>b, <3>c, <3>d, <3>e, <3>f, <5>2 DEF Adopt!NamesMinted
        <5> QED BY <5>1, <5>2
      <4>3. tempNames' \subseteq 1..minted' /\ orphans' \subseteq 0..minted'
        BY <1>0, <3>1, <2>1, <3>a, <3>b, <3>c, <3>d, <3>e, <3>f DEF Adopt!NamesMinted
      <4> QED BY <4>1, <4>2, <4>3 DEF Adopt!NamesMinted
    <3>3. Adopt!TypeOK'
      BY <1>0, <3>1, <2>1, <3>a, <3>b, <3>c, <3>d, <3>e, <3>f, <3>2 DEF Adopt!TypeOK
    <3>4. Adopt!StageTells'
      <4> SUFFICES ASSUME Adopt!Undisturbed'
                   PROVE  /\ (\A i \in DOMAIN runs' :
                               (runs'[i].status = "succeeded" <=> runs'[i].stage = "cleanup")
                               /\ (i < Len(runs') => runs'[i].status = "succeeded"))
                          /\ (runs' # <<>> /\ Adopt!Run'.stage \in Adopt!PostFlip =>
                               prod' = "new")
                          /\ (prod' = "new" => runs' # <<>>
                               /\ Adopt!Run'.stage \notin Adopt!Early /\ temp' = "up"
                               /\ [kind |-> "adopt", run |-> Len(runs')] \notin tasks')
                          /\ (oldUp' \/ prod' = "new")
        BY DEF Adopt!StageTells
      <4>0. Adopt!Undisturbed
        BY <3>1 DEF Adopt!Undisturbed
      <4>1. \A i \in DOMAIN runs' :
                (runs'[i].status = "succeeded" <=> runs'[i].stage = "cleanup")
                /\ (i < Len(runs') => runs'[i].status = "succeeded")
        BY <4>0, <1>0, <3>1, <2>1, <3>a, <3>b, <3>c, <3>d, <3>e, <3>f DEF Adopt!StageTells,
           Adopt!Early, Adopt!PostFlip
      <4>2. runs' # <<>> /\ Adopt!Run'.stage \in Adopt!PostFlip => prod' = "new"
        BY <4>0, <1>0, <3>1, <2>1, <3>a, <3>b, <3>c, <3>d, <3>e, <3>f DEF Adopt!StageTells,
           Adopt!Early, Adopt!PostFlip
      <4>3. prod' = "new" => runs' # <<>> /\ Adopt!Run'.stage \notin Adopt!Early
                /\ temp' = "up" /\ [kind |-> "adopt", run |-> Len(runs')] \notin tasks'
        BY <4>0, <1>0, <3>1, <2>1, <3>a, <3>b, <3>c, <3>d, <3>e, <3>f DEF Adopt!StageTells,
           Adopt!Early, Adopt!PostFlip
      <4>4. oldUp' \/ prod' = "new"
        BY <4>0, <1>0, <3>1, <2>1, <3>a, <3>b, <3>c, <3>d, <3>e, <3>f DEF Adopt!StageTells,
           Adopt!Early, Adopt!PostFlip
      <4> QED BY <4>1, <4>2, <4>3, <4>4
    <3>5. Adopt!FlowKnows'
      <4> SUFFICES ASSUME Adopt!Undisturbed', NEW u \in Adopt!Cleaners
                   PROVE  /\ Adopt!FlowAt(u)' /\ Adopt!StopsUnused(u)'
        BY DEF Adopt!FlowKnows
      <4>1. /\ Adopt!Undisturbed
            /\ \A v \in Adopt!Cleaners : Adopt!FlowAt(v) /\ Adopt!StopsUnused(v)
        BY <3>1 DEF Adopt!FlowKnows, Adopt!Undisturbed
      <4>2. CASE u = w
        <5>1. Adopt!FlowAt(u)'
          BY <3>1, <2>1, <3>a, <3>b, <3>c, <3>d, <3>e, <3>f, <4>1, <4>2 DEF Adopt!FlowAt,
             Adopt!StopsUnused, Adopt!Early, Adopt!Towards, Adopt!PostFlip
        <5>2. Adopt!StopsUnused(u)'
          BY <3>1, <2>1, <3>a, <3>b, <3>c, <3>d, <3>e, <3>f, <4>1, <4>2 DEF Adopt!FlowAt,
             Adopt!StopsUnused, Adopt!Early, Adopt!Towards, Adopt!PostFlip
        <5> QED BY <5>1, <5>2
      <4>3. CASE u # w
        <5>1. Adopt!FlowAt(u)'
          BY <3>1, <2>1, <3>a, <3>b, <3>c, <3>d, <3>e, <3>f, <4>1, <4>3 DEF Adopt!FlowAt,
             Adopt!StopsUnused, Adopt!Early, Adopt!Towards, Adopt!PostFlip
        <5>2. Adopt!StopsUnused(u)'
          BY <3>1, <2>1, <3>a, <3>b, <3>c, <3>d, <3>e, <3>f, <4>1, <4>3 DEF Adopt!FlowAt,
             Adopt!StopsUnused, Adopt!Early, Adopt!Towards, Adopt!PostFlip
        <5> QED BY <5>1, <5>2
      <4> QED BY <4>2, <4>3
    <3> QED BY <3>3, <3>4, <3>5
  <2>2. CASE Adopt!Run.stage # "cleanup" /\ b
    <3> DEFINE x == [doing[w] EXCEPT !.at = "clean"]
    <3> DEFINE y == [Adopt!Run EXCEPT !.stage = "decommission"]
    <3>1. /\ doing[w].at = "decommission"
          /\ doing' = [doing EXCEPT ![w] = x]
          /\ runs' = [runs EXCEPT ![Len(runs)] = y]
          /\ oldUp' = FALSE
          /\ UNCHANGED <<mesh, tasks, minted, tempNames, orphans, prod, temp, raced, again>>
      BY <1>13, <2>2, Zenon DEF Adopt!EnsureDecommission, Adopt!Do, Adopt!Goto, Adopt!Write,
         Adopt!Raise, Adopt!Refuse, Adopt!Edge, Adopt!History
    <3>a. w \in Adopt!Cleaners
      BY <1>13 DEF Adopt!Cleaners
    <3>b. doing[w] \in Adopt!Flow /\ doing[w].kind = "adopt" /\ runs # <<>>
      BY <3>1, <3>a, PlaceFacts DEF Adopt!Towards
    <3>c. Adopt!Undisturbed => Adopt!Run.status = "running" /\ Adopt!Run.stage # "cleanup"
              /\ [kind |-> "adopt", run |-> Len(runs)] \notin tasks /\ prod = "new"
      BY <3>1, <3>a, <3>b DEF Adopt!FlowKnows, Adopt!FlowAt, Adopt!Towards
    <3>d. /\ y \in Adopt!Row /\ y.status = Adopt!Run.status /\ y.stage = "decommission"
          /\ y.temp = Adopt!Run.temp
      BY <1>00, <3>1, <2>2, <3>a, <3>b, <3>c DEF Adopt!Row, Adopt!Stages
    <3>e. /\ x \in {Adopt!Free} \cup Adopt!Flow \cup Adopt!Closing /\ x.at = "clean"
          /\ x.kind = doing[w].kind /\ x.temp = doing[w].temp
      BY <1>00, <3>1, <2>2, <3>a, <3>b, <3>c, <3>d DEF Adopt!Free, Adopt!Flow, Adopt!Closing,
         Adopt!Towards, Adopt!Row, Adopt!Stages
    <3>f. /\ doing'[w] = x
          /\ doing' \in [Adopt!Cleaners -> {Adopt!Free} \cup Adopt!Flow \cup Adopt!Closing]
          /\ \A v \in Adopt!Cleaners : v # w => doing'[v] = doing[v]
      BY <3>1, <3>a, <3>e DEF Adopt!TypeOK
    <3> HIDE DEF x
    <3> HIDE DEF y
    <3>g. /\ runs' \in Seq(Adopt!Row) /\ runs' # <<>> /\ Len(runs') = Len(runs)
          /\ DOMAIN runs' = DOMAIN runs /\ Adopt!Run' = y
          /\ Len(runs) \in DOMAIN runs /\ runs'[Len(runs)] = y
          /\ \A i \in DOMAIN runs : i # Len(runs) => runs'[i] = runs[i]
      BY <1>0, <3>1, <2>2, <3>a, <3>b, <3>c, <3>d, <3>e, <3>f, WriteFacts
    <3>2. Adopt!NamesMinted'
      <4>1. \A i \in DOMAIN runs' : runs'[i].temp <= minted'
        BY <1>0, <3>1, <2>2, <3>a, <3>b, <3>c, <3>d, <3>e, <3>f, <3>g DEF Adopt!NamesMinted
      <4>2. \A u \in Adopt!Cleaners : doing'[u].temp <= minted' /\ (doing'[u].at = "upsert" =>
                doing'[u].temp > 0)
        <5> SUFFICES ASSUME NEW u \in Adopt!Cleaners
                     PROVE  /\ doing'[u].temp <= minted'
                            /\ (doing'[u].at = "upsert" => doing'[u].temp > 0)
          OBVIOUS
        <5>1. CASE u = w
          <6>1. doing'[u] = x
            BY <3>f, <5>1
          <6>2. x.temp <= minted' /\ (x.at = "upsert" => x.temp > 0)
            BY <1>00, <3>1, <3>e, <3>a DEF Adopt!NamesMinted
          <6> QED BY <6>1, <6>2
        <5>2. CASE u # w
          BY <1>0, <3>1, <2>2, <3>a, <3>b, <3>c, <3>d, <3>e, <3>f, <3>g,
             <5>2 DEF Adopt!NamesMinted
        <5> QED BY <5>1, <5>2
      <4>3. tempNames' \subseteq 1..minted' /\ orphans' \subseteq 0..minted'
        BY <1>0, <3>1, <2>2, <3>a, <3>b, <3>c, <3>d, <3>e, <3>f, <3>g DEF Adopt!NamesMinted
      <4> QED BY <4>1, <4>2, <4>3 DEF Adopt!NamesMinted
    <3>3. Adopt!TypeOK'
      BY <1>0, <3>1, <2>2, <3>a, <3>b, <3>c, <3>d, <3>e, <3>f, <3>g, <3>2 DEF Adopt!TypeOK
    <3>4. Adopt!StageTells'
      <4> SUFFICES ASSUME Adopt!Undisturbed'
                   PROVE  /\ (\A i \in DOMAIN runs' :
                               (runs'[i].status = "succeeded" <=> runs'[i].stage = "cleanup")
                               /\ (i < Len(runs') => runs'[i].status = "succeeded"))
                          /\ (runs' # <<>> /\ Adopt!Run'.stage \in Adopt!PostFlip =>
                               prod' = "new")
                          /\ (prod' = "new" => runs' # <<>>
                               /\ Adopt!Run'.stage \notin Adopt!Early /\ temp' = "up"
                               /\ [kind |-> "adopt", run |-> Len(runs')] \notin tasks')
                          /\ (oldUp' \/ prod' = "new")
        BY DEF Adopt!StageTells
      <4>0. Adopt!Undisturbed
        BY <3>1 DEF Adopt!Undisturbed
      <4>1. \A i \in DOMAIN runs' :
                (runs'[i].status = "succeeded" <=> runs'[i].stage = "cleanup")
                /\ (i < Len(runs') => runs'[i].status = "succeeded")
        <5> SUFFICES ASSUME NEW i \in DOMAIN runs'
                     PROVE  /\ (runs'[i].status = "succeeded" <=> runs'[i].stage = "cleanup")
                            /\ (i < Len(runs') => runs'[i].status = "succeeded")
          OBVIOUS
        <5>1. CASE i = Len(runs)
          BY <4>0, <1>0, <2>2, <3>a, <3>b, <3>c, <3>d, <3>e, <3>f, <3>g,
             <5>1 DEF Adopt!StageTells, Adopt!Early
        <5>2. CASE i # Len(runs)
          BY <4>0, <5>2, <3>g DEF Adopt!StageTells
        <5> QED BY <5>1, <5>2
      <4>2. runs' # <<>> /\ Adopt!Run'.stage \in Adopt!PostFlip => prod' = "new"
        BY <4>0, <1>0, <3>1, <2>2, <3>a, <3>b, <3>c, <3>d, <3>e, <3>f,
           <3>g DEF Adopt!StageTells, Adopt!Early, Adopt!PostFlip
      <4>3. prod' = "new" => runs' # <<>> /\ Adopt!Run'.stage \notin Adopt!Early
                /\ temp' = "up" /\ [kind |-> "adopt", run |-> Len(runs')] \notin tasks'
        BY <4>0, <1>0, <3>1, <2>2, <3>a, <3>b, <3>c, <3>d, <3>e, <3>f,
           <3>g DEF Adopt!StageTells, Adopt!Early, Adopt!PostFlip
      <4>4. oldUp' \/ prod' = "new"
        BY <4>0, <1>0, <3>1, <2>2, <3>a, <3>b, <3>c, <3>d, <3>e, <3>f,
           <3>g DEF Adopt!StageTells, Adopt!Early, Adopt!PostFlip
      <4> QED BY <4>1, <4>2, <4>3, <4>4
    <3>5. Adopt!FlowKnows'
      <4> SUFFICES ASSUME Adopt!Undisturbed', NEW u \in Adopt!Cleaners
                   PROVE  /\ Adopt!FlowAt(u)' /\ Adopt!StopsUnused(u)'
        BY DEF Adopt!FlowKnows
      <4>1. /\ Adopt!Undisturbed
            /\ \A v \in Adopt!Cleaners : Adopt!FlowAt(v) /\ Adopt!StopsUnused(v)
        BY <3>1 DEF Adopt!FlowKnows, Adopt!Undisturbed
      <4>2. CASE u = w
        <5>1. Adopt!FlowAt(u)'
          BY <3>1, <2>2, <3>a, <3>b, <3>c, <3>d, <3>e, <3>f, <3>g, <4>1, <4>2 DEF Adopt!FlowAt,
             Adopt!StopsUnused, Adopt!Early, Adopt!Towards, Adopt!PostFlip
        <5>2. Adopt!StopsUnused(u)'
          BY <3>1, <2>2, <3>a, <3>b, <3>c, <3>d, <3>e, <3>f, <3>g, <4>1, <4>2 DEF Adopt!FlowAt,
             Adopt!StopsUnused, Adopt!Early, Adopt!Towards, Adopt!PostFlip
        <5> QED BY <5>1, <5>2
      <4>3. CASE u # w
        <5>1. Adopt!FlowAt(u)'
          BY <3>1, <2>2, <3>a, <3>b, <3>c, <3>d, <3>e, <3>f, <3>g, <4>1, <4>3 DEF Adopt!FlowAt,
             Adopt!StopsUnused, Adopt!Early, Adopt!Towards, Adopt!PostFlip
        <5>2. Adopt!StopsUnused(u)'
          BY <3>1, <2>2, <3>a, <3>b, <3>c, <3>d, <3>e, <3>f, <3>g, <4>1, <4>3 DEF Adopt!FlowAt,
             Adopt!StopsUnused, Adopt!Early, Adopt!Towards, Adopt!PostFlip
        <5> QED BY <5>1, <5>2
      <4> QED BY <4>2, <4>3
    <3> QED BY <3>3, <3>4, <3>5
  <2>3. CASE Adopt!Run.stage # "cleanup" /\ ~b
    <3> DEFINE x == Adopt!Free
    <3> DEFINE y == [Adopt!Run EXCEPT !.status = "failed"]
    <3>1. /\ doing[w].at = "decommission"
          /\ doing' = [doing EXCEPT ![w] = x]
          /\ runs' = [runs EXCEPT ![Len(runs)] = y]
          /\ UNCHANGED <<mesh, tasks, minted, tempNames, orphans, prod, oldUp, temp, raced,
              again>>
      BY <1>13, <2>3, Zenon DEF Adopt!EnsureDecommission, Adopt!Do, Adopt!Goto, Adopt!Write,
         Adopt!Raise, Adopt!Refuse, Adopt!Edge, Adopt!History
    <3>a. w \in Adopt!Cleaners
      BY <1>13 DEF Adopt!Cleaners
    <3>b. doing[w] \in Adopt!Flow /\ doing[w].kind = "adopt" /\ runs # <<>>
      BY <3>1, <3>a, PlaceFacts DEF Adopt!Towards
    <3>c. Adopt!Undisturbed => Adopt!Run.status = "running" /\ Adopt!Run.stage # "cleanup"
              /\ [kind |-> "adopt", run |-> Len(runs)] \notin tasks /\ prod = "new"
      BY <3>1, <3>a, <3>b DEF Adopt!FlowKnows, Adopt!FlowAt, Adopt!Towards
    <3>d. /\ y \in Adopt!Row /\ y.status = "failed" /\ y.stage = Adopt!Run.stage
          /\ y.temp = Adopt!Run.temp
      BY <1>00, <3>1, <2>3, <3>a, <3>b, <3>c DEF Adopt!Row, Adopt!Stages
    <3>e. /\ x \in {Adopt!Free} \cup Adopt!Flow \cup Adopt!Closing /\ x.at = "idle"
          /\ x.kind = "" /\ x.temp = 0
      BY <1>00, <3>1, <2>3, <3>a, <3>b, <3>c, <3>d DEF Adopt!Free, Adopt!Flow, Adopt!Closing,
         Adopt!Towards, Adopt!Row, Adopt!Stages
    <3>f. /\ doing'[w] = x
          /\ doing' \in [Adopt!Cleaners -> {Adopt!Free} \cup Adopt!Flow \cup Adopt!Closing]
          /\ \A v \in Adopt!Cleaners : v # w => doing'[v] = doing[v]
      BY <3>1, <3>a, <3>e DEF Adopt!TypeOK
    <3> HIDE DEF x
    <3> HIDE DEF y
    <3>g. /\ runs' \in Seq(Adopt!Row) /\ runs' # <<>> /\ Len(runs') = Len(runs)
          /\ DOMAIN runs' = DOMAIN runs /\ Adopt!Run' = y
          /\ Len(runs) \in DOMAIN runs /\ runs'[Len(runs)] = y
          /\ \A i \in DOMAIN runs : i # Len(runs) => runs'[i] = runs[i]
      BY <1>0, <3>1, <2>3, <3>a, <3>b, <3>c, <3>d, <3>e, <3>f, WriteFacts
    <3>2. Adopt!NamesMinted'
      <4>1. \A i \in DOMAIN runs' : runs'[i].temp <= minted'
        BY <1>0, <3>1, <2>3, <3>a, <3>b, <3>c, <3>d, <3>e, <3>f, <3>g DEF Adopt!NamesMinted
      <4>2. \A u \in Adopt!Cleaners : doing'[u].temp <= minted' /\ (doing'[u].at = "upsert" =>
                doing'[u].temp > 0)
        <5> SUFFICES ASSUME NEW u \in Adopt!Cleaners
                     PROVE  /\ doing'[u].temp <= minted'
                            /\ (doing'[u].at = "upsert" => doing'[u].temp > 0)
          OBVIOUS
        <5>1. CASE u = w
          <6>1. doing'[u] = x
            BY <3>f, <5>1
          <6>2. 0 <= minted'
            BY <1>00, <3>1
          <6>3. doing'[u].temp = 0 /\ doing'[u].at # "upsert"
            BY <3>e, <6>1
          <6> QED BY <6>2, <6>3
        <5>2. CASE u # w
          BY <1>0, <3>1, <2>3, <3>a, <3>b, <3>c, <3>d, <3>e, <3>f, <3>g,
             <5>2 DEF Adopt!NamesMinted
        <5> QED BY <5>1, <5>2
      <4>3. tempNames' \subseteq 1..minted' /\ orphans' \subseteq 0..minted'
        BY <1>0, <3>1, <2>3, <3>a, <3>b, <3>c, <3>d, <3>e, <3>f, <3>g DEF Adopt!NamesMinted
      <4> QED BY <4>1, <4>2, <4>3 DEF Adopt!NamesMinted
    <3>3. Adopt!TypeOK'
      BY <1>0, <3>1, <2>3, <3>a, <3>b, <3>c, <3>d, <3>e, <3>f, <3>g, <3>2 DEF Adopt!TypeOK
    <3>4. Adopt!StageTells'
      <4> SUFFICES ASSUME Adopt!Undisturbed'
                   PROVE  /\ (\A i \in DOMAIN runs' :
                               (runs'[i].status = "succeeded" <=> runs'[i].stage = "cleanup")
                               /\ (i < Len(runs') => runs'[i].status = "succeeded"))
                          /\ (runs' # <<>> /\ Adopt!Run'.stage \in Adopt!PostFlip =>
                               prod' = "new")
                          /\ (prod' = "new" => runs' # <<>>
                               /\ Adopt!Run'.stage \notin Adopt!Early /\ temp' = "up"
                               /\ [kind |-> "adopt", run |-> Len(runs')] \notin tasks')
                          /\ (oldUp' \/ prod' = "new")
        BY DEF Adopt!StageTells
      <4>0. Adopt!Undisturbed
        BY <3>1 DEF Adopt!Undisturbed
      <4>1. \A i \in DOMAIN runs' :
                (runs'[i].status = "succeeded" <=> runs'[i].stage = "cleanup")
                /\ (i < Len(runs') => runs'[i].status = "succeeded")
        <5> SUFFICES ASSUME NEW i \in DOMAIN runs'
                     PROVE  /\ (runs'[i].status = "succeeded" <=> runs'[i].stage = "cleanup")
                            /\ (i < Len(runs') => runs'[i].status = "succeeded")
          OBVIOUS
        <5>1. CASE i = Len(runs)
          BY <4>0, <1>0, <2>3, <3>a, <3>b, <3>c, <3>d, <3>e, <3>f, <3>g,
             <5>1 DEF Adopt!StageTells, Adopt!Early
        <5>2. CASE i # Len(runs)
          BY <4>0, <5>2, <3>g DEF Adopt!StageTells
        <5> QED BY <5>1, <5>2
      <4>2. runs' # <<>> /\ Adopt!Run'.stage \in Adopt!PostFlip => prod' = "new"
        BY <4>0, <1>0, <3>1, <2>3, <3>a, <3>b, <3>c, <3>d, <3>e, <3>f,
           <3>g DEF Adopt!StageTells, Adopt!Early, Adopt!PostFlip
      <4>3. prod' = "new" => runs' # <<>> /\ Adopt!Run'.stage \notin Adopt!Early
                /\ temp' = "up" /\ [kind |-> "adopt", run |-> Len(runs')] \notin tasks'
        BY <4>0, <1>0, <3>1, <2>3, <3>a, <3>b, <3>c, <3>d, <3>e, <3>f,
           <3>g DEF Adopt!StageTells, Adopt!Early, Adopt!PostFlip
      <4>4. oldUp' \/ prod' = "new"
        BY <4>0, <1>0, <3>1, <2>3, <3>a, <3>b, <3>c, <3>d, <3>e, <3>f,
           <3>g DEF Adopt!StageTells, Adopt!Early, Adopt!PostFlip
      <4> QED BY <4>1, <4>2, <4>3, <4>4
    <3>5. Adopt!FlowKnows'
      <4> SUFFICES ASSUME Adopt!Undisturbed', NEW u \in Adopt!Cleaners
                   PROVE  /\ Adopt!FlowAt(u)' /\ Adopt!StopsUnused(u)'
        BY DEF Adopt!FlowKnows
      <4>1. /\ Adopt!Undisturbed
            /\ \A v \in Adopt!Cleaners : Adopt!FlowAt(v) /\ Adopt!StopsUnused(v)
        BY <3>1 DEF Adopt!FlowKnows, Adopt!Undisturbed
      <4>2. CASE u = w
        <5>1. Adopt!FlowAt(u)'
          BY <3>1, <2>3, <3>a, <3>b, <3>c, <3>d, <3>e, <3>f, <3>g, <4>1, <4>2 DEF Adopt!FlowAt,
             Adopt!StopsUnused, Adopt!Early, Adopt!Towards, Adopt!PostFlip
        <5>2. Adopt!StopsUnused(u)'
          BY <3>1, <2>3, <3>a, <3>b, <3>c, <3>d, <3>e, <3>f, <3>g, <4>1, <4>2 DEF Adopt!FlowAt,
             Adopt!StopsUnused, Adopt!Early, Adopt!Towards, Adopt!PostFlip
        <5> QED BY <5>1, <5>2
      <4>3. CASE u # w
        <5>1. Adopt!FlowAt(u)'
          BY <3>1, <2>3, <3>a, <3>b, <3>c, <3>d, <3>e, <3>f, <3>g, <4>1, <4>3 DEF Adopt!FlowAt,
             Adopt!StopsUnused, Adopt!Early, Adopt!Towards, Adopt!PostFlip
        <5>2. Adopt!StopsUnused(u)'
          BY <3>1, <2>3, <3>a, <3>b, <3>c, <3>d, <3>e, <3>f, <3>g, <4>1, <4>3 DEF Adopt!FlowAt,
             Adopt!StopsUnused, Adopt!Early, Adopt!Towards, Adopt!PostFlip
        <5> QED BY <5>1, <5>2
      <4> QED BY <4>2, <4>3
    <3> QED BY <3>3, <3>4, <3>5
  <2> QED BY <2>1, <2>2, <2>3
<1>14. ASSUME NEW w \in Adopters, Adopt!FlowRaises(w)
       PROVE  /\ Adopt!TypeOK' /\ Adopt!StageTells' /\ Adopt!FlowKnows'
  <2> DEFINE x == Adopt!Free
  <2>1. /\ doing[w].kind = "adopt"
        /\ doing' = [doing EXCEPT ![w] = x]
        /\ UNCHANGED <<mesh, runs, tasks, minted, tempNames, orphans, prod, oldUp, temp, raced,
            again>>
    BY <1>14, Zenon DEF Adopt!FlowRaises, Adopt!Do, Adopt!Goto, Adopt!Write, Adopt!Raise,
       Adopt!Refuse, Adopt!Edge, Adopt!History
  <2>a. w \in Adopt!Cleaners
    BY <1>14 DEF Adopt!Cleaners
  <2>b. doing[w] \in Adopt!Flow /\ doing[w].kind = "adopt" /\ runs # <<>>
    BY <2>1, <2>a, PlaceFacts DEF Adopt!Towards
  <2>c. /\ x \in {Adopt!Free} \cup Adopt!Flow \cup Adopt!Closing /\ x.at = "idle" /\ x.kind = ""
        /\ x.temp = 0
    BY <1>00, <2>1, <2>a, <2>b DEF Adopt!Free, Adopt!Flow, Adopt!Closing, Adopt!Towards,
       Adopt!Row, Adopt!Stages
  <2>d. /\ doing'[w] = x
        /\ doing' \in [Adopt!Cleaners -> {Adopt!Free} \cup Adopt!Flow \cup Adopt!Closing]
        /\ \A v \in Adopt!Cleaners : v # w => doing'[v] = doing[v]
    BY <2>1, <2>a, <2>c DEF Adopt!TypeOK
  <2>e. Adopt!Run' = Adopt!Run
    BY <2>1 DEF Adopt!Run
  <2> HIDE DEF x
  <2>2. Adopt!NamesMinted'
    <3>1. \A i \in DOMAIN runs' : runs'[i].temp <= minted'
      BY <1>0, <2>1, <2>a, <2>b, <2>c, <2>d, <2>e DEF Adopt!NamesMinted
    <3>2. \A u \in Adopt!Cleaners : doing'[u].temp <= minted' /\ (doing'[u].at = "upsert" =>
              doing'[u].temp > 0)
      <4> SUFFICES ASSUME NEW u \in Adopt!Cleaners
                   PROVE  /\ doing'[u].temp <= minted'
                          /\ (doing'[u].at = "upsert" => doing'[u].temp > 0)
        OBVIOUS
      <4>1. CASE u = w
        <5>1. doing'[u] = x
          BY <2>d, <4>1
        <5>2. 0 <= minted'
          BY <1>00, <2>1
        <5>3. doing'[u].temp = 0 /\ doing'[u].at # "upsert"
          BY <2>c, <5>1
        <5> QED BY <5>2, <5>3
      <4>2. CASE u # w
        BY <1>0, <2>1, <2>a, <2>b, <2>c, <2>d, <2>e, <4>2 DEF Adopt!NamesMinted
      <4> QED BY <4>1, <4>2
    <3>3. tempNames' \subseteq 1..minted' /\ orphans' \subseteq 0..minted'
      BY <1>0, <2>1, <2>a, <2>b, <2>c, <2>d, <2>e DEF Adopt!NamesMinted
    <3> QED BY <3>1, <3>2, <3>3 DEF Adopt!NamesMinted
  <2>3. Adopt!TypeOK'
    BY <1>0, <2>1, <2>a, <2>b, <2>c, <2>d, <2>e, <2>2 DEF Adopt!TypeOK
  <2>4. Adopt!StageTells'
    <3> SUFFICES ASSUME Adopt!Undisturbed'
                 PROVE  /\ (\A i \in DOMAIN runs' :
                             (runs'[i].status = "succeeded" <=> runs'[i].stage = "cleanup")
                             /\ (i < Len(runs') => runs'[i].status = "succeeded"))
                        /\ (runs' # <<>> /\ Adopt!Run'.stage \in Adopt!PostFlip =>
                             prod' = "new")
                        /\ (prod' = "new" => runs' # <<>>
                             /\ Adopt!Run'.stage \notin Adopt!Early /\ temp' = "up"
                             /\ [kind |-> "adopt", run |-> Len(runs')] \notin tasks')
                        /\ (oldUp' \/ prod' = "new")
      BY DEF Adopt!StageTells
    <3>0. Adopt!Undisturbed
      BY <2>1 DEF Adopt!Undisturbed
    <3>1. \A i \in DOMAIN runs' :
              (runs'[i].status = "succeeded" <=> runs'[i].stage = "cleanup")
              /\ (i < Len(runs') => runs'[i].status = "succeeded")
      BY <3>0, <1>0, <2>1, <2>a, <2>b, <2>c, <2>d, <2>e DEF Adopt!StageTells, Adopt!Early,
         Adopt!PostFlip
    <3>2. runs' # <<>> /\ Adopt!Run'.stage \in Adopt!PostFlip => prod' = "new"
      BY <3>0, <1>0, <2>1, <2>a, <2>b, <2>c, <2>d, <2>e DEF Adopt!StageTells, Adopt!Early,
         Adopt!PostFlip
    <3>3. prod' = "new" => runs' # <<>> /\ Adopt!Run'.stage \notin Adopt!Early
              /\ temp' = "up" /\ [kind |-> "adopt", run |-> Len(runs')] \notin tasks'
      BY <3>0, <1>0, <2>1, <2>a, <2>b, <2>c, <2>d, <2>e DEF Adopt!StageTells, Adopt!Early,
         Adopt!PostFlip
    <3>4. oldUp' \/ prod' = "new"
      BY <3>0, <1>0, <2>1, <2>a, <2>b, <2>c, <2>d, <2>e DEF Adopt!StageTells, Adopt!Early,
         Adopt!PostFlip
    <3> QED BY <3>1, <3>2, <3>3, <3>4
  <2>5. Adopt!FlowKnows'
    <3> SUFFICES ASSUME Adopt!Undisturbed', NEW u \in Adopt!Cleaners
                 PROVE  /\ Adopt!FlowAt(u)' /\ Adopt!StopsUnused(u)'
      BY DEF Adopt!FlowKnows
    <3>1. Adopt!Undisturbed /\ \A v \in Adopt!Cleaners : Adopt!FlowAt(v) /\ Adopt!StopsUnused(v)
      BY <2>1 DEF Adopt!FlowKnows, Adopt!Undisturbed
    <3>2. CASE u = w
      <4>1. Adopt!FlowAt(u)'
        BY <2>1, <2>a, <2>b, <2>c, <2>d, <2>e, <3>1, <3>2 DEF Adopt!FlowAt, Adopt!StopsUnused,
           Adopt!Early, Adopt!Towards, Adopt!PostFlip
      <4>2. Adopt!StopsUnused(u)'
        BY <2>1, <2>a, <2>b, <2>c, <2>d, <2>e, <3>1, <3>2 DEF Adopt!FlowAt, Adopt!StopsUnused,
           Adopt!Early, Adopt!Towards, Adopt!PostFlip
      <4> QED BY <4>1, <4>2
    <3>3. CASE u # w
      <4>1. Adopt!FlowAt(u)'
        BY <2>1, <2>a, <2>b, <2>c, <2>d, <2>e, <3>1, <3>3 DEF Adopt!FlowAt, Adopt!StopsUnused,
           Adopt!Early, Adopt!Towards, Adopt!PostFlip
      <4>2. Adopt!StopsUnused(u)'
        BY <2>1, <2>a, <2>b, <2>c, <2>d, <2>e, <3>1, <3>3 DEF Adopt!FlowAt, Adopt!StopsUnused,
           Adopt!Early, Adopt!Towards, Adopt!PostFlip
      <4> QED BY <4>1, <4>2
    <3> QED BY <3>2, <3>3
  <2> QED BY <2>3, <2>4, <2>5
<1>15. ASSUME NEW w \in Adopt!Cleaners, Adopt!CleanupRead(w)
       PROVE  /\ Adopt!TypeOK' /\ Adopt!StageTells' /\ Adopt!FlowKnows'
  <2> DEFINE x == [doing[w] EXCEPT !.at = "delete", !.stage = Adopt!Run.stage,
          !.temp = Adopt!Run.temp]
  <2>1. /\ doing[w].at = "clean"
        /\ doing' = [doing EXCEPT ![w] = x]
        /\ raced' = (raced \/ (doing[w].kind # "adopt" /\ Adopt!Flowing))
        /\ UNCHANGED <<mesh, runs, tasks, minted, tempNames, orphans, prod, oldUp, temp, again>>
    BY <1>15, Zenon DEF Adopt!CleanupRead, Adopt!Do, Adopt!Goto, Adopt!Write, Adopt!Raise,
       Adopt!Refuse, Adopt!Edge, Adopt!History
  <2>a. w \in Adopt!Cleaners
    BY <1>15 DEF Adopt!Cleaners
  <2>b. doing[w] \in Adopt!Flow \cup Adopt!Closing /\ runs # <<>>
    BY <2>1, <2>a, PlaceFacts DEF Adopt!Towards
  <2>c. Adopt!Undisturbed' => Adopt!Undisturbed /\ (doing[w].kind # "adopt" =>
            \A v \in Adopt!Cleaners : doing[v].kind # "adopt")
    BY <2>1, PlaceFacts DEF Adopt!Undisturbed, Adopt!Flowing
  <2>d. Adopt!Undisturbed => (Adopt!Run.stage \in Adopt!Early => prod = "old")
            /\ (doing[w].kind = "adopt" => prod = "new")
    BY <2>1, <2>a DEF Adopt!StageTells, Adopt!FlowKnows, Adopt!FlowAt, Adopt!TypeOK,
       Adopt!Towards
  <2>e. Adopt!Undisturbed /\ doing[w].kind = "adopt" => \A v \in Adopt!Cleaners : v # w =>
            doing[v].kind # "adopt"
    BY <2>1, <2>a DEF Adopt!FlowKnows, Adopt!FlowAt
  <2>f. /\ x \in {Adopt!Free} \cup Adopt!Flow \cup Adopt!Closing /\ x.at = "delete"
        /\ x.kind = doing[w].kind /\ x.temp = Adopt!Run.temp /\ x.stage = Adopt!Run.stage
    BY <1>00, <2>1, <2>a, <2>b, <2>c, <2>d, <2>e DEF Adopt!Free, Adopt!Flow, Adopt!Closing,
       Adopt!Towards, Adopt!Row, Adopt!Stages
  <2>g. /\ doing'[w] = x
        /\ doing' \in [Adopt!Cleaners -> {Adopt!Free} \cup Adopt!Flow \cup Adopt!Closing]
        /\ \A v \in Adopt!Cleaners : v # w => doing'[v] = doing[v]
    BY <2>1, <2>a, <2>f DEF Adopt!TypeOK
  <2>h. Adopt!Run' = Adopt!Run
    BY <2>1 DEF Adopt!Run
  <2> HIDE DEF x
  <2>i. (raced' \in BOOLEAN) /\ (~raced' => ~raced)
    BY <2>1 DEF Adopt!TypeOK
  <2>2. Adopt!NamesMinted'
    <3>1. \A i \in DOMAIN runs' : runs'[i].temp <= minted'
      BY <1>0, <2>1, <2>a, <2>b, <2>c, <2>d, <2>e, <2>f, <2>g, <2>h, <2>i DEF Adopt!NamesMinted
    <3>2. \A u \in Adopt!Cleaners : doing'[u].temp <= minted' /\ (doing'[u].at = "upsert" =>
              doing'[u].temp > 0)
      <4> SUFFICES ASSUME NEW u \in Adopt!Cleaners
                   PROVE  /\ doing'[u].temp <= minted'
                          /\ (doing'[u].at = "upsert" => doing'[u].temp > 0)
        OBVIOUS
      <4>1. CASE u = w
        <5>1. doing'[u] = x
          BY <2>g, <4>1
        <5>2. x.temp <= minted' /\ (x.at = "upsert" => x.temp > 0)
          BY <1>00, <2>1, <2>f, <1>0, <2>b
        <5> QED BY <5>1, <5>2
      <4>2. CASE u # w
        BY <1>0, <2>1, <2>a, <2>b, <2>c, <2>d, <2>e, <2>f, <2>g, <2>h, <2>i,
           <4>2 DEF Adopt!NamesMinted
      <4> QED BY <4>1, <4>2
    <3>3. tempNames' \subseteq 1..minted' /\ orphans' \subseteq 0..minted'
      BY <1>0, <2>1, <2>a, <2>b, <2>c, <2>d, <2>e, <2>f, <2>g, <2>h, <2>i DEF Adopt!NamesMinted
    <3> QED BY <3>1, <3>2, <3>3 DEF Adopt!NamesMinted
  <2>3. Adopt!TypeOK'
    BY <1>0, <2>1, <2>a, <2>b, <2>c, <2>d, <2>e, <2>f, <2>g, <2>h, <2>i, <2>2 DEF Adopt!TypeOK
  <2>4. Adopt!StageTells'
    <3> SUFFICES ASSUME Adopt!Undisturbed'
                 PROVE  /\ (\A i \in DOMAIN runs' :
                             (runs'[i].status = "succeeded" <=> runs'[i].stage = "cleanup")
                             /\ (i < Len(runs') => runs'[i].status = "succeeded"))
                        /\ (runs' # <<>> /\ Adopt!Run'.stage \in Adopt!PostFlip =>
                             prod' = "new")
                        /\ (prod' = "new" => runs' # <<>>
                             /\ Adopt!Run'.stage \notin Adopt!Early /\ temp' = "up"
                             /\ [kind |-> "adopt", run |-> Len(runs')] \notin tasks')
                        /\ (oldUp' \/ prod' = "new")
      BY DEF Adopt!StageTells
    <3>0. Adopt!Undisturbed
      BY <2>1, <2>i DEF Adopt!Undisturbed
    <3>1. \A i \in DOMAIN runs' :
              (runs'[i].status = "succeeded" <=> runs'[i].stage = "cleanup")
              /\ (i < Len(runs') => runs'[i].status = "succeeded")
      BY <3>0, <1>0, <2>1, <2>a, <2>b, <2>c, <2>d, <2>e, <2>f, <2>g, <2>h,
         <2>i DEF Adopt!StageTells, Adopt!Early, Adopt!PostFlip
    <3>2. runs' # <<>> /\ Adopt!Run'.stage \in Adopt!PostFlip => prod' = "new"
      BY <3>0, <1>0, <2>1, <2>a, <2>b, <2>c, <2>d, <2>e, <2>f, <2>g, <2>h,
         <2>i DEF Adopt!StageTells, Adopt!Early, Adopt!PostFlip
    <3>3. prod' = "new" => runs' # <<>> /\ Adopt!Run'.stage \notin Adopt!Early
              /\ temp' = "up" /\ [kind |-> "adopt", run |-> Len(runs')] \notin tasks'
      BY <3>0, <1>0, <2>1, <2>a, <2>b, <2>c, <2>d, <2>e, <2>f, <2>g, <2>h,
         <2>i DEF Adopt!StageTells, Adopt!Early, Adopt!PostFlip
    <3>4. oldUp' \/ prod' = "new"
      BY <3>0, <1>0, <2>1, <2>a, <2>b, <2>c, <2>d, <2>e, <2>f, <2>g, <2>h,
         <2>i DEF Adopt!StageTells, Adopt!Early, Adopt!PostFlip
    <3> QED BY <3>1, <3>2, <3>3, <3>4
  <2>5. Adopt!FlowKnows'
    <3> SUFFICES ASSUME Adopt!Undisturbed', NEW u \in Adopt!Cleaners
                 PROVE  /\ Adopt!FlowAt(u)' /\ Adopt!StopsUnused(u)'
      BY DEF Adopt!FlowKnows
    <3>1. Adopt!Undisturbed /\ \A v \in Adopt!Cleaners : Adopt!FlowAt(v) /\ Adopt!StopsUnused(v)
      BY <2>1, <2>i DEF Adopt!FlowKnows, Adopt!Undisturbed
    <3>2. CASE u = w
      <4>1. Adopt!FlowAt(u)'
        BY <2>1, <2>a, <2>b, <2>c, <2>d, <2>e, <2>f, <2>g, <2>h, <2>i, <3>1,
           <3>2 DEF Adopt!FlowAt, Adopt!StopsUnused, Adopt!Early, Adopt!Towards, Adopt!PostFlip
      <4>2. Adopt!StopsUnused(u)'
        BY <2>1, <2>a, <2>b, <2>c, <2>d, <2>e, <2>f, <2>g, <2>h, <2>i, <3>1,
           <3>2 DEF Adopt!FlowAt, Adopt!StopsUnused, Adopt!Early, Adopt!Towards, Adopt!PostFlip
      <4> QED BY <4>1, <4>2
    <3>3. CASE u # w
      <4>1. Adopt!FlowAt(u)'
        BY <2>1, <2>a, <2>b, <2>c, <2>d, <2>e, <2>f, <2>g, <2>h, <2>i, <3>1,
           <3>3 DEF Adopt!FlowAt, Adopt!StopsUnused, Adopt!Early, Adopt!Towards, Adopt!PostFlip
      <4>2. Adopt!StopsUnused(u)'
        BY <2>1, <2>a, <2>b, <2>c, <2>d, <2>e, <2>f, <2>g, <2>h, <2>i, <3>1,
           <3>3 DEF Adopt!FlowAt, Adopt!StopsUnused, Adopt!Early, Adopt!Towards, Adopt!PostFlip
      <4> QED BY <4>1, <4>2
    <3> QED BY <3>2, <3>3
  <2> QED BY <2>3, <2>4, <2>5
<1>16. ASSUME NEW w \in Adopt!Cleaners, Adopt!Cleanup(w)
       PROVE  /\ Adopt!TypeOK' /\ Adopt!StageTells' /\ Adopt!FlowKnows'
  <2> DEFINE x == Adopt!Free
  <2> DEFINE y == [Adopt!Run EXCEPT !.stage = "cleanup", !.status = "succeeded"]
  <2>1. /\ doing[w].at = "delete"
        /\ doing' = [doing EXCEPT ![w] = x]
        /\ runs' = [runs EXCEPT ![Len(runs)] = y]
        /\ raced' = (raced \/ (doing[w].kind # "adopt" /\ Adopt!Flowing))
        /\ temp' = IF doing[w].stage \in Adopt!Early /\ temp = "up" THEN "down" ELSE temp
        /\ tempNames' = IF mesh THEN tempNames ELSE tempNames \ {doing[w].temp}
        /\ orphans' = orphans \ {doing[w].temp}
        /\ UNCHANGED <<mesh, tasks, minted, prod, oldUp, again>>
    BY <1>16, Zenon DEF Adopt!Cleanup, Adopt!Do, Adopt!Goto, Adopt!Write, Adopt!Raise,
       Adopt!Refuse, Adopt!Edge, Adopt!History, Adopt!StopsTemp
  <2>a. w \in Adopt!Cleaners
    BY <1>16 DEF Adopt!Cleaners
  <2>b. doing[w] \in Adopt!Flow \cup Adopt!Closing /\ runs # <<>>
    BY <2>1, <2>a, PlaceFacts DEF Adopt!Towards
  <2>c. Adopt!Undisturbed' => Adopt!Undisturbed /\ (doing[w].kind # "adopt" =>
            \A v \in Adopt!Cleaners : doing[v].kind # "adopt")
    BY <2>1, PlaceFacts DEF Adopt!Undisturbed, Adopt!Flowing
  <2>d. Adopt!Undisturbed => (Adopt!Run.stage \in Adopt!Early => prod = "old")
            /\ (doing[w].kind = "adopt" => prod = "new")
    BY <2>1, <2>a DEF Adopt!StageTells, Adopt!FlowKnows, Adopt!FlowAt, Adopt!TypeOK,
       Adopt!Towards
  <2>e. Adopt!Undisturbed /\ doing[w].kind = "adopt" => \A v \in Adopt!Cleaners : v # w =>
            doing[v].kind # "adopt"
    BY <2>1, <2>a DEF Adopt!FlowKnows, Adopt!FlowAt
  <2>f. /\ tempNames' \subseteq tempNames /\ orphans' \subseteq orphans
        /\ temp' \in {"none", "up", "down"}
       /\ doing[w].stage \notin Adopt!Early => temp' = temp
    BY <2>1 DEF Adopt!TypeOK
  <2>g. Adopt!Undisturbed /\ prod = "new" => temp = "up" /\ temp' = temp /\ [kind |-> "adopt",
            run |-> Len(runs)] \notin tasks
    BY <2>1, <2>a, <2>f DEF Adopt!StageTells, Adopt!FlowKnows, Adopt!StopsUnused
  <2>h. /\ y \in Adopt!Row /\ y.status = "succeeded" /\ y.stage = "cleanup"
        /\ y.temp = Adopt!Run.temp
    BY <1>00, <2>1, <2>a, <2>b, <2>c, <2>d, <2>e, <2>f, <2>g DEF Adopt!Row, Adopt!Stages
  <2>i. /\ x \in {Adopt!Free} \cup Adopt!Flow \cup Adopt!Closing /\ x.at = "idle" /\ x.kind = ""
        /\ x.temp = 0
    BY <1>00, <2>1, <2>a, <2>b, <2>c, <2>d, <2>e, <2>f, <2>g, <2>h DEF Adopt!Free, Adopt!Flow,
       Adopt!Closing, Adopt!Towards, Adopt!Row, Adopt!Stages
  <2>j. /\ doing'[w] = x
        /\ doing' \in [Adopt!Cleaners -> {Adopt!Free} \cup Adopt!Flow \cup Adopt!Closing]
        /\ \A v \in Adopt!Cleaners : v # w => doing'[v] = doing[v]
    BY <2>1, <2>a, <2>i DEF Adopt!TypeOK
  <2> HIDE DEF x
  <2> HIDE DEF y
  <2>k. /\ runs' \in Seq(Adopt!Row) /\ runs' # <<>> /\ Len(runs') = Len(runs)
        /\ DOMAIN runs' = DOMAIN runs /\ Adopt!Run' = y
        /\ Len(runs) \in DOMAIN runs /\ runs'[Len(runs)] = y
        /\ \A i \in DOMAIN runs : i # Len(runs) => runs'[i] = runs[i]
    BY <1>0, <2>1, <2>a, <2>b, <2>c, <2>d, <2>e, <2>f, <2>g, <2>h, <2>i, <2>j, WriteFacts
  <2>l. (raced' \in BOOLEAN) /\ (~raced' => ~raced)
    BY <2>1 DEF Adopt!TypeOK
  <2>2. Adopt!NamesMinted'
    <3>1. \A i \in DOMAIN runs' : runs'[i].temp <= minted'
      BY <1>0, <2>1, <2>a, <2>b, <2>c, <2>d, <2>e, <2>f, <2>g, <2>h, <2>i, <2>j, <2>k,
         <2>l DEF Adopt!NamesMinted
    <3>2. \A u \in Adopt!Cleaners : doing'[u].temp <= minted' /\ (doing'[u].at = "upsert" =>
              doing'[u].temp > 0)
      <4> SUFFICES ASSUME NEW u \in Adopt!Cleaners
                   PROVE  /\ doing'[u].temp <= minted'
                          /\ (doing'[u].at = "upsert" => doing'[u].temp > 0)
        OBVIOUS
      <4>1. CASE u = w
        <5>1. doing'[u] = x
          BY <2>j, <4>1
        <5>2. 0 <= minted'
          BY <1>00, <2>1
        <5>3. doing'[u].temp = 0 /\ doing'[u].at # "upsert"
          BY <2>i, <5>1
        <5> QED BY <5>2, <5>3
      <4>2. CASE u # w
        BY <1>0, <2>1, <2>a, <2>b, <2>c, <2>d, <2>e, <2>f, <2>g, <2>h, <2>i, <2>j, <2>k, <2>l,
           <4>2 DEF Adopt!NamesMinted
      <4> QED BY <4>1, <4>2
    <3>3. tempNames' \subseteq 1..minted' /\ orphans' \subseteq 0..minted'
      BY <1>0, <2>1, <2>a, <2>b, <2>c, <2>d, <2>e, <2>f, <2>g, <2>h, <2>i, <2>j, <2>k,
         <2>l DEF Adopt!NamesMinted
    <3> QED BY <3>1, <3>2, <3>3 DEF Adopt!NamesMinted
  <2>3. Adopt!TypeOK'
    BY <1>0, <2>1, <2>a, <2>b, <2>c, <2>d, <2>e, <2>f, <2>g, <2>h, <2>i, <2>j, <2>k, <2>l,
       <2>2 DEF Adopt!TypeOK
  <2>4. Adopt!StageTells'
    <3> SUFFICES ASSUME Adopt!Undisturbed'
                 PROVE  /\ (\A i \in DOMAIN runs' :
                             (runs'[i].status = "succeeded" <=> runs'[i].stage = "cleanup")
                             /\ (i < Len(runs') => runs'[i].status = "succeeded"))
                        /\ (runs' # <<>> /\ Adopt!Run'.stage \in Adopt!PostFlip =>
                             prod' = "new")
                        /\ (prod' = "new" => runs' # <<>>
                             /\ Adopt!Run'.stage \notin Adopt!Early /\ temp' = "up"
                             /\ [kind |-> "adopt", run |-> Len(runs')] \notin tasks')
                        /\ (oldUp' \/ prod' = "new")
      BY DEF Adopt!StageTells
    <3>0. Adopt!Undisturbed
      BY <2>1, <2>l DEF Adopt!Undisturbed
    <3>1. \A i \in DOMAIN runs' :
              (runs'[i].status = "succeeded" <=> runs'[i].stage = "cleanup")
              /\ (i < Len(runs') => runs'[i].status = "succeeded")
      <4> SUFFICES ASSUME NEW i \in DOMAIN runs'
                   PROVE  /\ (runs'[i].status = "succeeded" <=> runs'[i].stage = "cleanup")
                          /\ (i < Len(runs') => runs'[i].status = "succeeded")
        OBVIOUS
      <4>1. CASE i = Len(runs)
        BY <3>0, <1>0, <2>a, <2>b, <2>c, <2>d, <2>e, <2>f, <2>g, <2>h, <2>i, <2>j, <2>k, <2>l,
           <4>1 DEF Adopt!StageTells, Adopt!Early
      <4>2. CASE i # Len(runs)
        BY <3>0, <4>2, <2>k DEF Adopt!StageTells
      <4> QED BY <4>1, <4>2
    <3>2. runs' # <<>> /\ Adopt!Run'.stage \in Adopt!PostFlip => prod' = "new"
      BY <3>0, <1>0, <2>1, <2>a, <2>b, <2>c, <2>d, <2>e, <2>f, <2>g, <2>h, <2>i, <2>j, <2>k,
         <2>l DEF Adopt!StageTells, Adopt!Early, Adopt!PostFlip
    <3>3. prod' = "new" => runs' # <<>> /\ Adopt!Run'.stage \notin Adopt!Early
              /\ temp' = "up" /\ [kind |-> "adopt", run |-> Len(runs')] \notin tasks'
      BY <3>0, <1>0, <2>1, <2>a, <2>b, <2>c, <2>d, <2>e, <2>f, <2>g, <2>h, <2>i, <2>j, <2>k,
         <2>l DEF Adopt!StageTells, Adopt!Early, Adopt!PostFlip
    <3>4. oldUp' \/ prod' = "new"
      BY <3>0, <1>0, <2>1, <2>a, <2>b, <2>c, <2>d, <2>e, <2>f, <2>g, <2>h, <2>i, <2>j, <2>k,
         <2>l DEF Adopt!StageTells, Adopt!Early, Adopt!PostFlip
    <3> QED BY <3>1, <3>2, <3>3, <3>4
  <2>5. Adopt!FlowKnows'
    <3> SUFFICES ASSUME Adopt!Undisturbed', NEW u \in Adopt!Cleaners
                 PROVE  /\ Adopt!FlowAt(u)' /\ Adopt!StopsUnused(u)'
      BY DEF Adopt!FlowKnows
    <3>1. Adopt!Undisturbed /\ \A v \in Adopt!Cleaners : Adopt!FlowAt(v) /\ Adopt!StopsUnused(v)
      BY <2>1, <2>l DEF Adopt!FlowKnows, Adopt!Undisturbed
    <3>2. CASE u = w
      <4>1. Adopt!FlowAt(u)'
        BY <2>1, <2>a, <2>b, <2>c, <2>d, <2>e, <2>f, <2>g, <2>h, <2>i, <2>j, <2>k, <2>l, <3>1,
           <3>2 DEF Adopt!FlowAt, Adopt!StopsUnused, Adopt!Early, Adopt!Towards, Adopt!PostFlip
      <4>2. Adopt!StopsUnused(u)'
        BY <2>1, <2>a, <2>b, <2>c, <2>d, <2>e, <2>f, <2>g, <2>h, <2>i, <2>j, <2>k, <2>l, <3>1,
           <3>2 DEF Adopt!FlowAt, Adopt!StopsUnused, Adopt!Early, Adopt!Towards, Adopt!PostFlip
      <4> QED BY <4>1, <4>2
    <3>3. CASE u # w
      <4>1. Adopt!FlowAt(u)'
        BY <2>1, <2>a, <2>b, <2>c, <2>d, <2>e, <2>f, <2>g, <2>h, <2>i, <2>j, <2>k, <2>l, <3>1,
           <3>3 DEF Adopt!FlowAt, Adopt!StopsUnused, Adopt!Early, Adopt!Towards, Adopt!PostFlip
      <4>2. Adopt!StopsUnused(u)'
        BY <2>1, <2>a, <2>b, <2>c, <2>d, <2>e, <2>f, <2>g, <2>h, <2>i, <2>j, <2>k, <2>l, <3>1,
           <3>3 DEF Adopt!FlowAt, Adopt!StopsUnused, Adopt!Early, Adopt!Towards, Adopt!PostFlip
      <4> QED BY <4>1, <4>2
    <3> QED BY <3>2, <3>3
  <2> QED BY <2>3, <2>4, <2>5
<1>17. ASSUME NEW w \in Adopt!Cleaners, Adopt!CleanupFails(w)
       PROVE  /\ Adopt!TypeOK' /\ Adopt!StageTells' /\ Adopt!FlowKnows'
  <2> DEFINE x == Adopt!Free
  <2>1. /\ doing[w].at = "delete"
        /\ doing' = [doing EXCEPT ![w] = x]
        /\ orphans' = orphans \cup {Adopt!Run.temp}
        /\ UNCHANGED <<mesh, runs, tasks, minted, tempNames, prod, oldUp, temp, raced, again>>
    BY <1>17, Zenon DEF Adopt!CleanupFails, Adopt!Do, Adopt!Goto, Adopt!Write, Adopt!Raise,
       Adopt!Refuse, Adopt!Edge, Adopt!History
  <2>a. w \in Adopt!Cleaners
    BY <1>17 DEF Adopt!Cleaners
  <2>b. doing[w] \in Adopt!Flow \cup Adopt!Closing /\ runs # <<>>
    BY <2>1, <2>a, PlaceFacts DEF Adopt!Towards
  <2>c. Adopt!Run.temp \in 0..minted
    BY <1>0, <2>b DEF Adopt!Row
  <2>d. /\ x \in {Adopt!Free} \cup Adopt!Flow \cup Adopt!Closing /\ x.at = "idle" /\ x.kind = ""
        /\ x.temp = 0
    BY <1>00, <2>1, <2>a, <2>b, <2>c DEF Adopt!Free, Adopt!Flow, Adopt!Closing, Adopt!Towards,
       Adopt!Row, Adopt!Stages
  <2>e. /\ doing'[w] = x
        /\ doing' \in [Adopt!Cleaners -> {Adopt!Free} \cup Adopt!Flow \cup Adopt!Closing]
        /\ \A v \in Adopt!Cleaners : v # w => doing'[v] = doing[v]
    BY <2>1, <2>a, <2>d DEF Adopt!TypeOK
  <2>f. Adopt!Run' = Adopt!Run
    BY <2>1 DEF Adopt!Run
  <2> HIDE DEF x
  <2>2. Adopt!NamesMinted'
    <3>1. \A i \in DOMAIN runs' : runs'[i].temp <= minted'
      BY <1>0, <2>1, <2>a, <2>b, <2>c, <2>d, <2>e, <2>f DEF Adopt!NamesMinted
    <3>2. \A u \in Adopt!Cleaners : doing'[u].temp <= minted' /\ (doing'[u].at = "upsert" =>
              doing'[u].temp > 0)
      <4> SUFFICES ASSUME NEW u \in Adopt!Cleaners
                   PROVE  /\ doing'[u].temp <= minted'
                          /\ (doing'[u].at = "upsert" => doing'[u].temp > 0)
        OBVIOUS
      <4>1. CASE u = w
        <5>1. doing'[u] = x
          BY <2>e, <4>1
        <5>2. 0 <= minted'
          BY <1>00, <2>1
        <5>3. doing'[u].temp = 0 /\ doing'[u].at # "upsert"
          BY <2>d, <5>1
        <5> QED BY <5>2, <5>3
      <4>2. CASE u # w
        BY <1>0, <2>1, <2>a, <2>b, <2>c, <2>d, <2>e, <2>f, <4>2 DEF Adopt!NamesMinted
      <4> QED BY <4>1, <4>2
    <3>3. tempNames' \subseteq 1..minted' /\ orphans' \subseteq 0..minted'
      BY <1>0, <2>1, <2>a, <2>b, <2>c, <2>d, <2>e, <2>f DEF Adopt!NamesMinted
    <3> QED BY <3>1, <3>2, <3>3 DEF Adopt!NamesMinted
  <2>3. Adopt!TypeOK'
    BY <1>0, <2>1, <2>a, <2>b, <2>c, <2>d, <2>e, <2>f, <2>2 DEF Adopt!TypeOK
  <2>4. Adopt!StageTells'
    <3> SUFFICES ASSUME Adopt!Undisturbed'
                 PROVE  /\ (\A i \in DOMAIN runs' :
                             (runs'[i].status = "succeeded" <=> runs'[i].stage = "cleanup")
                             /\ (i < Len(runs') => runs'[i].status = "succeeded"))
                        /\ (runs' # <<>> /\ Adopt!Run'.stage \in Adopt!PostFlip =>
                             prod' = "new")
                        /\ (prod' = "new" => runs' # <<>>
                             /\ Adopt!Run'.stage \notin Adopt!Early /\ temp' = "up"
                             /\ [kind |-> "adopt", run |-> Len(runs')] \notin tasks')
                        /\ (oldUp' \/ prod' = "new")
      BY DEF Adopt!StageTells
    <3>0. Adopt!Undisturbed
      BY <2>1 DEF Adopt!Undisturbed
    <3>1. \A i \in DOMAIN runs' :
              (runs'[i].status = "succeeded" <=> runs'[i].stage = "cleanup")
              /\ (i < Len(runs') => runs'[i].status = "succeeded")
      BY <3>0, <1>0, <2>1, <2>a, <2>b, <2>c, <2>d, <2>e, <2>f DEF Adopt!StageTells,
         Adopt!Early, Adopt!PostFlip
    <3>2. runs' # <<>> /\ Adopt!Run'.stage \in Adopt!PostFlip => prod' = "new"
      BY <3>0, <1>0, <2>1, <2>a, <2>b, <2>c, <2>d, <2>e, <2>f DEF Adopt!StageTells,
         Adopt!Early, Adopt!PostFlip
    <3>3. prod' = "new" => runs' # <<>> /\ Adopt!Run'.stage \notin Adopt!Early
              /\ temp' = "up" /\ [kind |-> "adopt", run |-> Len(runs')] \notin tasks'
      BY <3>0, <1>0, <2>1, <2>a, <2>b, <2>c, <2>d, <2>e, <2>f DEF Adopt!StageTells,
         Adopt!Early, Adopt!PostFlip
    <3>4. oldUp' \/ prod' = "new"
      BY <3>0, <1>0, <2>1, <2>a, <2>b, <2>c, <2>d, <2>e, <2>f DEF Adopt!StageTells,
         Adopt!Early, Adopt!PostFlip
    <3> QED BY <3>1, <3>2, <3>3, <3>4
  <2>5. Adopt!FlowKnows'
    <3> SUFFICES ASSUME Adopt!Undisturbed', NEW u \in Adopt!Cleaners
                 PROVE  /\ Adopt!FlowAt(u)' /\ Adopt!StopsUnused(u)'
      BY DEF Adopt!FlowKnows
    <3>1. Adopt!Undisturbed /\ \A v \in Adopt!Cleaners : Adopt!FlowAt(v) /\ Adopt!StopsUnused(v)
      BY <2>1 DEF Adopt!FlowKnows, Adopt!Undisturbed
    <3>2. CASE u = w
      <4>1. Adopt!FlowAt(u)'
        BY <2>1, <2>a, <2>b, <2>c, <2>d, <2>e, <2>f, <3>1, <3>2 DEF Adopt!FlowAt,
           Adopt!StopsUnused, Adopt!Early, Adopt!Towards, Adopt!PostFlip
      <4>2. Adopt!StopsUnused(u)'
        BY <2>1, <2>a, <2>b, <2>c, <2>d, <2>e, <2>f, <3>1, <3>2 DEF Adopt!FlowAt,
           Adopt!StopsUnused, Adopt!Early, Adopt!Towards, Adopt!PostFlip
      <4> QED BY <4>1, <4>2
    <3>3. CASE u # w
      <4>1. Adopt!FlowAt(u)'
        BY <2>1, <2>a, <2>b, <2>c, <2>d, <2>e, <2>f, <3>1, <3>3 DEF Adopt!FlowAt,
           Adopt!StopsUnused, Adopt!Early, Adopt!Towards, Adopt!PostFlip
      <4>2. Adopt!StopsUnused(u)'
        BY <2>1, <2>a, <2>b, <2>c, <2>d, <2>e, <2>f, <3>1, <3>3 DEF Adopt!FlowAt,
           Adopt!StopsUnused, Adopt!Early, Adopt!Towards, Adopt!PostFlip
      <4> QED BY <4>1, <4>2
    <3> QED BY <3>2, <3>3
  <2> QED BY <2>3, <2>4, <2>5
<1>18. CASE UNCHANGED adoptState
  <2>0. /\ Adopt!Run' = Adopt!Run
        /\ UNCHANGED <<mesh, runs, tasks, doing, minted, tempNames, orphans, prod, oldUp, temp,
             raced, again>>
    BY <1>18 DEF adoptState, Adopt!Run
  <2>1. Adopt!TypeOK'
    BY <2>0 DEF Adopt!TypeOK, Adopt!NamesMinted
  <2>2. Adopt!StageTells'
    BY <2>0 DEF Adopt!StageTells, Adopt!Undisturbed
  <2>3. Adopt!FlowKnows'
    BY <2>0 DEF Adopt!FlowKnows, Adopt!FlowAt, Adopt!StopsUnused, Adopt!Undisturbed
  <2> QED BY <2>1, <2>2, <2>3
<1> QED
  BY <1>1, <1>2, <1>3, <1>4, <1>5, <1>6, <1>7, <1>8, <1>9, <1>10, <1>11, <1>12, <1>13, <1>14,
     <1>15, <1>16, <1>17, <1>18 DEF Adopt!Next

\* The invariant of the adoption, of the composition.
AdoptInv == focus = "adopt" => Adopt!TypeOK /\ Adopt!StageTells /\ Adopt!FlowKnows

\* It holds of every behaviour, for any workers, runs and faults (deploys/adopt_flow.py).
LEMMA AdoptInvariant == Spec => []AdoptInv
<1>1. Init => AdoptInv
  <2> SUFFICES ASSUME Adopt!Init
               PROVE  Adopt!TypeOK /\ Adopt!StageTells /\ Adopt!FlowKnows
    BY DEF Init, AdoptStarts, AdoptInv
  <2>0. /\ runs = <<>> /\ tasks = {} /\ minted = 0 /\ tempNames = {} /\ orphans = {}
        /\ prod = "old" /\ temp = "none"
        /\ doing = [w \in Adopt!Cleaners |-> Adopt!Free]
    BY DEF Adopt!Init
  <2>1. oldUp = TRUE /\ raced = FALSE /\ again = FALSE
    BY Zenon DEF Adopt!Init
  <2>2. /\ Adopt!Free.at = "idle" /\ Adopt!Free.kind = "" /\ Adopt!Free.temp = 0
        /\ \A w \in Adopt!Cleaners : doing[w] = Adopt!Free
    BY <2>0 DEF Adopt!Free
  <2>3. Adopt!NamesMinted
    <3>1. \A i \in DOMAIN runs : runs[i].temp <= minted
      BY <2>0
    <3>2. \A w \in Adopt!Cleaners : doing[w].temp = 0 /\ doing[w].at = "idle"
      BY <2>2, Zenon
    <3>3. 0 <= minted
      BY <2>0
    <3> QED BY <2>0, <3>1, <3>2, <3>3 DEF Adopt!NamesMinted
  <2>4. /\ runs \in Seq(Adopt!Row)
        /\ doing \in [Adopt!Cleaners -> {Adopt!Free} \cup Adopt!Flow \cup Adopt!Closing]
    BY <2>0
  <2>5. Adopt!TypeOK
    BY <2>0, <2>1, <2>2, <2>3, <2>4 DEF Adopt!TypeOK
  <2>6. Adopt!StageTells
    BY <2>0, <2>1 DEF Adopt!StageTells
  <2>7. Adopt!FlowKnows
    BY <2>2 DEF Adopt!FlowKnows, Adopt!FlowAt, Adopt!StopsUnused
  <2> QED BY <2>5, <2>6, <2>7
<1>2. AdoptInv /\ [Next]_allVars => AdoptInv'
  <2> SUFFICES ASSUME AdoptInv, [Next]_allVars, focus = "adopt"
               PROVE  Adopt!TypeOK' /\ Adopt!StageTells' /\ Adopt!FlowKnows'
    BY OneAtATime DEF AdoptInv
  <2>1. Adopt!TypeOK /\ Adopt!StageTells /\ Adopt!FlowKnows /\ [Adopt!Next]_adoptState
    BY OneAtATime DEF AdoptInv
  <2> QED BY <2>1, AdoptNext
<1> QED BY <1>1, <1>2, PTL DEF Spec

---------------------------------------------------------------------------
(* The adoption plan *)

\* The plan counts with the same Cardinality.
LEMMA SameCardinality == \A S : AdoptPlan!Cardinality(S) = Cardinality(S)
  BY DEF AdoptPlan!Cardinality, Cardinality

\* The first of a set of positions is one of them.
LEMMA FirstInIsIn ==
    ASSUME NEW S \in SUBSET Nat, S # {}
    PROVE  AdoptPlan!FirstIn(S) \in S
<1>1. PICK i \in S : \A j \in S : ~(<<j, i>> \in OpToRel(<, Nat))
  BY NatLessThanWellFounded, WFMin
<1>2. \A j \in S : i <= j
  <2> SUFFICES ASSUME NEW j \in S PROVE i <= j
    OBVIOUS
  <2>1. i \in Nat /\ j \in Nat /\ ~(j < i)
    BY <1>1 DEF OpToRel
  <2> QED BY <2>1
<1> QED BY <1>2 DEF AdoptPlan!FirstIn

\* A role that is taken is taken by a service its rule allows.
LEMMA RoleFacts ==
    ASSUME Len(stack) \in Nat
    PROVE  /\ \A r \in AdoptPlan!Roles : AdoptPlan!RoleOf(stack, r) # 0 =>
                 /\ AdoptPlan!RoleOf(stack, r) \in AdoptPlan!Index(stack)
                 /\ ~AdoptPlan!IsEdge(stack[AdoptPlan!RoleOf(stack, r)])
                 /\ stack[AdoptPlan!RoleOf(stack, r)].hint = r
           /\ AdoptPlan!EdgeName(stack) # 0 =>
                 /\ AdoptPlan!EdgeName(stack) \in AdoptPlan!Index(stack)
                 /\ AdoptPlan!IsEdge(stack[AdoptPlan!EdgeName(stack)])
           /\ AdoptPlan!Web(stack) # 0 =>
                 /\ AdoptPlan!Web(stack) \in AdoptPlan!Remaining(stack)
                 /\ AdoptPlan!Web(stack) \in AdoptPlan!Public(stack)
                    \/ AdoptPlan!Remaining(stack) = {AdoptPlan!Web(stack)}
<1>0. AdoptPlan!Index(stack) \subseteq Nat /\ IsFiniteSet(AdoptPlan!Index(stack))
  BY FS_Interval DEF AdoptPlan!Index
<1>1. ASSUME NEW r \in AdoptPlan!Roles, AdoptPlan!RoleOf(stack, r) # 0
      PROVE  /\ AdoptPlan!RoleOf(stack, r) \in AdoptPlan!Index(stack)
             /\ ~AdoptPlan!IsEdge(stack[AdoptPlan!RoleOf(stack, r)])
             /\ stack[AdoptPlan!RoleOf(stack, r)].hint = r
  <2> DEFINE S == {i \in AdoptPlan!Index(stack) : ~AdoptPlan!IsEdge(stack[i]) /\ stack[i].hint = r}
  <2>1. AdoptPlan!RoleOf(stack, r) = AdoptPlan!FirstIn(S)
    BY DEF AdoptPlan!RoleOf
  <2>2. S # {}
    BY <1>1, <2>1 DEF AdoptPlan!FirstIn
  <2>3. S \in SUBSET Nat
    BY <1>0
  <2>4. AdoptPlan!RoleOf(stack, r) \in S
    BY <2>1, <2>2, <2>3, FirstInIsIn
  <2> QED BY <2>4
<1>2. ASSUME AdoptPlan!EdgeName(stack) # 0
      PROVE  /\ AdoptPlan!EdgeName(stack) \in AdoptPlan!Index(stack)
             /\ AdoptPlan!IsEdge(stack[AdoptPlan!EdgeName(stack)])
  <2>1. ~AdoptPlan!Mystery(stack) /\ AdoptPlan!EdgeName(stack) = AdoptPlan!FirstIn(AdoptPlan!Publishers(stack))
    BY <1>2 DEF AdoptPlan!EdgeName
  <2>2. AdoptPlan!Publishers(stack) # {}
    BY <1>2, <2>1 DEF AdoptPlan!FirstIn
  <2>3. AdoptPlan!Publishers(stack) \in SUBSET Nat
    BY <1>0 DEF AdoptPlan!Publishers
  <2>4. AdoptPlan!EdgeName(stack) \in AdoptPlan!Publishers(stack)
    BY <2>1, <2>2, <2>3, FirstInIsIn
  <2> QED BY <2>1, <2>4 DEF AdoptPlan!Mystery, AdoptPlan!Publishers, AdoptPlan!IsEdge
<1>3. ASSUME AdoptPlan!Web(stack) # 0
      PROVE  /\ AdoptPlan!Web(stack) \in AdoptPlan!Remaining(stack)
             /\ AdoptPlan!Web(stack) \in AdoptPlan!Public(stack)
                \/ AdoptPlan!Remaining(stack) = {AdoptPlan!Web(stack)}
  <2>0. /\ AdoptPlan!Remaining(stack) \in SUBSET Nat /\ IsFiniteSet(AdoptPlan!Remaining(stack))
        /\ AdoptPlan!Public(stack) \subseteq AdoptPlan!Remaining(stack)
    <3>1. AdoptPlan!Remaining(stack) \subseteq AdoptPlan!Index(stack)
      BY DEF AdoptPlan!Remaining
    <3>2. AdoptPlan!Public(stack) \subseteq AdoptPlan!Remaining(stack)
      BY DEF AdoptPlan!Public
    <3>3. IsFiniteSet(AdoptPlan!Remaining(stack))
      BY <1>0, <3>1, FS_Subset
    <3> QED BY <1>0, <3>1, <3>2, <3>3
  <2>1. CASE Cardinality(AdoptPlan!Remaining(stack)) = 1
    <3>1. PICK x : AdoptPlan!Remaining(stack) = {x}
      BY <2>0, <2>1, FS_Singleton
    <3>2. AdoptPlan!Web(stack) = AdoptPlan!FirstIn(AdoptPlan!Remaining(stack))
      BY <2>1, SameCardinality, Zenon DEF AdoptPlan!Web
    <3>3. AdoptPlan!Web(stack) \in AdoptPlan!Remaining(stack)
      BY <2>0, <3>1, <3>2, FirstInIsIn
    <3> QED BY <3>1, <3>3
  <2>2. CASE Cardinality(AdoptPlan!Remaining(stack)) # 1
    <3>1. AdoptPlan!Web(stack) = AdoptPlan!FirstIn(AdoptPlan!Public(stack))
      BY <1>3, <2>2, SameCardinality, Zenon DEF AdoptPlan!Web
    <3>2. AdoptPlan!Public(stack) # {}
      BY <1>3, <3>1 DEF AdoptPlan!FirstIn
    <3>3. AdoptPlan!Public(stack) \in SUBSET Nat
      BY <2>0
    <3>4. AdoptPlan!Web(stack) \in AdoptPlan!Public(stack)
      BY <3>1, <3>2, <3>3, FirstInIsIn
    <3> QED BY <2>0, <3>4
  <2> QED BY <2>1, <2>2
<1> QED BY <1>1, <1>2, <1>3

\* Whatever the stack, the roles of a plan are exclusive.
LEMMA PlanIsExclusive ==
    ASSUME Len(stack) \in Nat
    PROVE  AdoptPlan!RolesAreExclusive
<1> DEFINE roles == AdoptPlan!ClassifyServices(stack)
<1>1. /\ roles["web"] = AdoptPlan!Web(stack) /\ roles["edge"] = AdoptPlan!EdgeName(stack)
      /\ \A r \in AdoptPlan!Roles \ {"web", "edge"} : roles[r] = AdoptPlan!RoleOf(stack, r)
  BY DEF AdoptPlan!ClassifyServices, AdoptPlan!Roles
<1>2. \A r \in AdoptPlan!Roles \ {"web", "edge"} : roles[r] # 0 =>
         roles[r] \in AdoptPlan!Hinted(stack)
  BY <1>1 DEF AdoptPlan!Hinted
<1>3. AdoptPlan!Web(stack) # 0 => /\ AdoptPlan!Web(stack) \notin AdoptPlan!Hinted(stack)
                                  /\ AdoptPlan!Web(stack) \in AdoptPlan!Index(stack)
                                  /\ ~AdoptPlan!IsEdge(stack[AdoptPlan!Web(stack)])
  BY RoleFacts DEF AdoptPlan!Remaining
<1> HIDE DEF roles
<1>4. ASSUME NEW r \in AdoptPlan!Roles, NEW q \in AdoptPlan!Roles, r # q, roles[r] # 0,
             roles[r] = roles[q]
      PROVE  FALSE
  <2>1. CASE r \notin {"web", "edge"} /\ q \notin {"web", "edge"}
    BY <1>1, <1>4, <2>1, RoleFacts
  <2>2. CASE r = "web" /\ q # "edge"
    BY <1>1, <1>2, <1>3, <1>4, <2>2
  <2>3. CASE q = "web" /\ r # "edge"
    BY <1>1, <1>2, <1>3, <1>4, <2>3
  <2>4. CASE r = "edge" /\ q # "web"
    BY <1>1, <1>4, <2>4, RoleFacts
  <2>5. CASE q = "edge" /\ r # "web"
    BY <1>1, <1>4, <2>5, RoleFacts
  <2>6. CASE {r, q} = {"web", "edge"}
    BY <1>1, <1>3, <1>4, <2>6, RoleFacts
  <2> QED BY <1>4, <2>1, <2>2, <2>3, <2>4, <2>5, <2>6
<1>5. ASSUME Cardinality(AdoptPlan!UnassignedPublic(stack, roles)) = 1, roles["web"] # 0
      PROVE  roles["web"] \in AdoptPlan!UnassignedPublic(stack, roles)
  <2>1. "web" \in AdoptPlan!Roles
    BY DEF AdoptPlan!Roles
  <2>2. roles["web"] \notin {roles[r] : r \in AdoptPlan!Roles \ {"web"}}
    BY <1>4, <1>5, <2>1
  <2>3. CASE roles["web"] \in AdoptPlan!Public(stack)
    BY <1>1, <1>3, <1>5, <2>2, <2>3 DEF AdoptPlan!UnassignedPublic, AdoptPlan!Public
  <2>4. CASE AdoptPlan!Remaining(stack) = {roles["web"]}
    <3>1. AdoptPlan!UnassignedPublic(stack, roles) # {}
      BY <1>5, FS_EmptySet
    <3>2. AdoptPlan!UnassignedPublic(stack, roles) \subseteq AdoptPlan!Remaining(stack)
      <4> SUFFICES ASSUME NEW i \in AdoptPlan!UnassignedPublic(stack, roles)
                   PROVE  i \in AdoptPlan!Remaining(stack)
        OBVIOUS
      <4>1. /\ i \in AdoptPlan!Index(stack) /\ ~AdoptPlan!IsEdge(stack[i])
            /\ i \notin {roles[r] : r \in AdoptPlan!Roles \ {"web"}}
        BY DEF AdoptPlan!UnassignedPublic
      <4>2. i \notin AdoptPlan!Hinted(stack)
        BY <1>1, <4>1 DEF AdoptPlan!Hinted
      <4> QED BY <4>1, <4>2 DEF AdoptPlan!Remaining
    <3> QED BY <2>4, <3>1, <3>2
  <2> QED BY <1>1, <1>5, <2>3, <2>4, RoleFacts
<1>6. roles["web"] # 0 => ~AdoptPlan!IsEdge(stack[roles["web"]])
  BY <1>1, <1>3
<1>7. \A r, q \in AdoptPlan!Roles : r # q /\ roles[r] # 0 => roles[r] # roles[q]
  BY <1>4
<1>8. Cardinality(AdoptPlan!UnassignedPublic(stack, roles)) = 1 =>
          roles["web"] = 0 \/ roles["web"] \in AdoptPlan!UnassignedPublic(stack, roles)
  BY <1>5
<1> QED BY <1>6, <1>7, <1>8, SameCardinality, Zenon DEF AdoptPlan!RolesAreExclusive, roles

\* The invariant of the plan, of the composition.
PlanInv == focus = "adoptPlan" => Len(stack) \in Nat /\ AdoptPlan!ChoiceSurvives /\ AdoptPlan!TypeOK

\* The composition keeps it.
LEMMA PlanInvariant == Spec => []PlanInv
<1>1. Init => PlanInv
  <2> SUFFICES ASSUME AdoptPlan!Init
               PROVE  Len(stack) \in Nat /\ AdoptPlan!ChoiceSurvives /\ AdoptPlan!TypeOK
    BY DEF Init, AdoptPlanStarts, PlanInv
  <2>1. PICK n \in 1..MaxServices : stack \in [1..n -> Services]
    BY DEF AdoptPlan!Init
  <2>2. stack \in Seq(Services) /\ Len(stack) = n
    BY <2>1
  <2>3. AdoptPlan!ChoiceSurvives
    BY DEF AdoptPlan!Init, AdoptPlan!ChoiceSurvives
  <2>4. dbMissing \in BOOLEAN
    BY Zenon DEF AdoptPlan!Init
  <2>5. AdoptPlan!TypeOK
    BY <2>4 DEF AdoptPlan!Init, AdoptPlan!TypeOK
  <2> QED BY <2>2, <2>3, <2>5
<1>2. PlanInv /\ [Next]_allVars => PlanInv'
  <2> SUFFICES ASSUME PlanInv, [Next]_allVars, focus = "adoptPlan"
               PROVE  Len(stack)' \in Nat /\ AdoptPlan!ChoiceSurvives' /\ AdoptPlan!TypeOK'
    BY OneAtATime DEF PlanInv
  <2>1. Len(stack) \in Nat /\ AdoptPlan!ChoiceSurvives /\ AdoptPlan!TypeOK /\ [AdoptPlan!Next]_adoptPlanState
    BY OneAtATime DEF PlanInv
  <2>2. ASSUME NEW i \in DOMAIN stack, NEW s \in Services, AdoptPlan!EditStack(i, s)
        PROVE  Len(stack)' \in Nat /\ AdoptPlan!ChoiceSurvives' /\ AdoptPlan!TypeOK'
    BY <2>1, <2>2 DEF AdoptPlan!EditStack, AdoptPlan!ChoiceSurvives, AdoptPlan!TypeOK
  <2>3. ASSUME NEW o \in {"host_caddy", "site_caddy"}, AdoptPlan!ApplyEdgeOwner(o)
        PROVE  Len(stack)' \in Nat /\ AdoptPlan!ChoiceSurvives' /\ AdoptPlan!TypeOK'
    BY <2>1, <2>3 DEF AdoptPlan!ApplyEdgeOwner, AdoptPlan!ChoiceSurvives, AdoptPlan!TypeOK
  <2>4. ASSUME AdoptPlan!AdoptionPlan
        PROVE  Len(stack)' \in Nat /\ AdoptPlan!ChoiceSurvives' /\ AdoptPlan!TypeOK'
    <3>1. UNCHANGED <<stack, chosen>>
      BY <2>4 DEF AdoptPlan!AdoptionPlan
    <3>2. AdoptPlan!Mystery(stack) => edgeOwner' = edgeOwner
      BY <2>4 DEF AdoptPlan!AdoptionPlan, AdoptPlan!PlanEdge
    <3>3. edgeOwner' = edgeOwner \/ edgeOwner' \in {"host_caddy", "site_caddy"}
      BY <2>4 DEF AdoptPlan!AdoptionPlan, AdoptPlan!PlanEdge
    <3>4. ambiguous' = ambiguous \/ ambiguous' = "open"
      BY <2>4, Zenon DEF AdoptPlan!AdoptionPlan
    <3>5. dbMissing' \in BOOLEAN
      BY <2>1, <2>4, Zenon DEF AdoptPlan!AdoptionPlan, AdoptPlan!TypeOK
    <3>6. planned' = planned \/ DOMAIN planned' = AdoptPlan!Roles
      BY <2>4, Zenon DEF AdoptPlan!AdoptionPlan, AdoptPlan!ClassifyServices
    <3>7. AdoptPlan!TypeOK'
      BY <2>1, <3>1, <3>3, <3>4, <3>5, <3>6 DEF AdoptPlan!TypeOK
    <3> QED BY <2>1, <3>1, <3>2, <3>7 DEF AdoptPlan!ChoiceSurvives
  <2>5. ASSUME AdoptPlan!PointDb
        PROVE  Len(stack)' \in Nat /\ AdoptPlan!ChoiceSurvives' /\ AdoptPlan!TypeOK'
    <3>1. UNCHANGED <<stack, edgeOwner, chosen, ambiguous, planned>>
      BY <2>5 DEF AdoptPlan!PointDb
    <3>2. dbMissing' \in BOOLEAN
      BY <2>5, Zenon DEF AdoptPlan!PointDb
    <3> QED BY <2>1, <3>1, <3>2 DEF AdoptPlan!ChoiceSurvives, AdoptPlan!TypeOK
  <2>6. CASE UNCHANGED adoptPlanState
    BY <2>1, <2>6 DEF adoptPlanState, AdoptPlan!ChoiceSurvives, AdoptPlan!TypeOK
  <2> QED BY <2>1, <2>2, <2>3, <2>4, <2>5, <2>6 DEF AdoptPlan!Next
<1> QED BY <1>1, <1>2, PTL DEF Spec

\* For any services, workers, runs, cancels and faults: as long as no cleanup overlaps a flow
\* and no adoption is started again after the flip, one of the two stacks serves the site
\* (deploys/adopt_flow.py, adopt_reaper.py); a plan gives a service at most one role and the
\* operator's answer about a mystery edge survives every later plan (provision/adopt.py).
THEOREM AdoptionTheorem == Spec => []AdoptionHolds
<1>1. AdoptInv /\ PlanInv => AdoptionHolds
  <2>1. AdoptInv => (focus = "adopt" => Adopt!OneStackServes)
    BY DEF AdoptInv, Adopt!TypeOK, Adopt!StageTells, Adopt!Undisturbed, Adopt!OneStackServes
  <2>2. PlanInv => (focus = "adoptPlan" => AdoptPlan!RolesAreExclusive /\ AdoptPlan!ChoiceSurvives)
    BY PlanIsExclusive DEF PlanInv
  <2> QED BY <2>1, <2>2 DEF AdoptionHolds
<1> QED BY <1>1, AdoptInvariant, PlanInvariant, PTL

---------------------------------------------------------------------------
(* Types *)

\* For every value of the constants, every component of the fleet keeps to its types: its
\* rows, files, locks and workers are what the code that reads them takes them for.
THEOREM FleetTyped == Spec => []TypeOK
<1>1. /\ AdoptInv /\ PlanInv /\ CloudInv /\ HostInv /\ WizardAll /\ ReportInv /\ KeysAll /\ BackupsInv
      => TypeOK
  BY DEF AdoptInv, PlanInv, CloudInv, HostInv, WizardAll, ReportInv, KeysAll, BackupsInv, TypeOK,
         Scanner!NamedInv
<1> QED BY <1>1, AdoptInvariant, PlanInvariant, CloudInvariant, HostInvariant, WizardInvariant,
           ReportInvariant, KeysInvariant, BackupsInvariant, PTL
=============================================================================
