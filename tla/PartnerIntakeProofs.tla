------------------------ MODULE PartnerIntakeProofs -------------------------
(***************************************************************************)
(* Proofs about PartnerIntake, for any requests, pollers and limits: the   *)
(* inductive invariant IntakeInv, that an outbox item is applied once, that*)
(* the quota of sites and the switch bound what a poll creates, and that a *)
(* spent nonce is refused.                                                 *)
(***************************************************************************)
EXTENDS PartnerIntake, FiniteSetTheorems, TLAPS

\* The request that stands for no item is one of the requests.
LEMMA NoItemReq == NoItem.req \in Requests
BY RequestsAssumption DEF NoItem

\* _remember_nonce(): what pruning leaves is a table of nonces.
LEMMA PrunedType ==
    ASSUME TypeOK, NEW t PROVE Pruned(t) \in [NonceSet -> Never..MaxNow]
<1>1. nonces \in [NonceSet -> Never..MaxNow] /\ Never \in Never..MaxNow
  BY LimitsAssumption DEF TypeOK, Never
<1>2. \A m \in NonceSet : (IF nonces[m] < t - NonceTTL THEN Never ELSE nonces[m]) \in Never..MaxNow
  BY <1>1, Zenon
<1> QED BY <1>2, Zenon DEF Pruned

Results == [params : {Params(r) : r \in Requests}, at : 0..MaxNow]

\* _idempotency_cached(): so is the table of keys it leaves.
LEMMA KeysType ==
    ASSUME TypeOK, NEW r \in Requests, NEW t PROVE KeysAfterLook(r, t) \in [Keys -> {NoResult} \cup Results]
<1>1. idem \in [Keys -> {NoResult} \cup Results] /\ [idem EXCEPT ![r.key] = NoResult] \in [Keys -> {NoResult} \cup Results]
  BY DEF TypeOK, Results
<1> QED BY <1>1, Zenon DEF KeysAfterLook

\* A step of the edge, a poll or the operator keeps the types.
LEMMA TypeNext ==
    TypeOK /\ [Next]_vars => TypeOK'
<1> SUFFICES ASSUME TypeOK, [Next]_vars PROVE TypeOK'
  OBVIOUS
<1> USE LimitsAssumption, RequestsAssumption
<1>1. ASSUME NEW r \in Requests, IntakePost(r) PROVE TypeOK'
  BY <1>1 DEF IntakePost, edge, hub, rows, poll, TypeOK, Pcs, Items, Working
<1>2. ASSUME PlantGitPush PROVE TypeOK'
  BY <1>2, NoItemReq DEF PlantGitPush, edge, hub, rows, poll, TypeOK, Pcs, Items, Working
<1>3. ASSUME NEW p \in Pollers, PollFetch(p) PROVE TypeOK'
  <2>1. Oldest \subseteq Items
    BY DEF Oldest, TypeOK
  <2>2. overlapped' \in BOOLEAN
    BY <1>3, Zenon DEF PollFetch
  <2>3. /\ pc' = [pc EXCEPT ![p] = "next"] /\ clk' = [clk EXCEPT ![p] = now]
        /\ on' = [on EXCEPT ![p] = flag]
        /\ batch' = [batch EXCEPT ![p] = Oldest]
        /\ UNCHANGED <<now, outbox, lastId, posts, flag, partner, dest, stopping, site, deps,
            nonces, idem, cur, events, spent, late>>
    BY <1>3, Zenon DEF PollFetch, Goto, edge, hub, rows, poll
  <2> QED BY <2>1, <2>2, <2>3 DEF TypeOK, Pcs, Items, Working
<1>4. ASSUME NEW p \in Pollers, PollEnd(p) PROVE TypeOK'
  BY <1>4 DEF PollEnd, Goto, edge, hub, rows, poll, TypeOK, Pcs, Items, Working
<1>5. ASSUME NEW p \in Pollers, NEW i \in batch[p], HandleGitPush(p, i) PROVE TypeOK'
  BY <1>5 DEF HandleGitPush, Comes, Skip, WithoutJob, edge, hub, rows, poll, TypeOK, Pcs,
     Items, Working
<1>6. ASSUME NEW p \in Pollers, NEW i \in batch[p], Refused(p, i) PROVE TypeOK'
  <2>1. nonces' \in [NonceSet -> Never..MaxNow]
    BY <1>6, PrunedType DEF Refused, TypeOK
  <2>2. idem' \in [Keys -> {NoResult} \cup Results]
    <3>1. i.req \in Requests
      BY DEF TypeOK, Items
    <3>2. idem \in [Keys -> {NoResult} \cup Results]
      BY DEF TypeOK, Results
    <3>3. idem' = idem \/ idem' = KeysAfterLook(i.req, clk[p])
      BY <1>6, Zenon DEF Refused
    <3>4. KeysAfterLook(i.req, clk[p]) \in [Keys -> {NoResult} \cup Results]
      BY <3>1, KeysType
    <3> QED BY <3>2, <3>3, <3>4
  <2>3. /\ batch' = [batch EXCEPT ![p] = @ \ {i}]
        /\ UNCHANGED <<now, outbox, lastId, posts, flag, partner, dest, stopping, site, deps,
            pc, clk, on, cur, events, spent, overlapped, late>>
    BY <1>6, Zenon DEF Refused, Skip, edge, hub, rows, poll
  <2> QED BY <2>1, <2>2, <2>3 DEF TypeOK, Pcs, Items, Working, Results
<1>7. ASSUME NEW p \in Pollers, NEW i \in batch[p], ReplayAcked(p, i) PROVE TypeOK'
  <2>1. nonces' \in [NonceSet -> Never..MaxNow]
    BY <1>7, PrunedType DEF ReplayAcked, TypeOK
  <2>3. /\ batch' = [batch EXCEPT ![p] = @ \ {i}]
        /\ outbox' = {item \in outbox : item.id # i.id}
        /\ UNCHANGED <<now, lastId, posts, flag, partner, dest, stopping, site, deps, idem, pc,
            clk, on, cur, events, spent, overlapped, late>>
    BY <1>7, Zenon DEF ReplayAcked, Skip, WithoutJob, edge, hub, rows, poll
  <2> QED BY <2>1, <2>3 DEF TypeOK, Pcs, Items, Working
<1>8. ASSUME NEW p \in Pollers, NEW i \in batch[p], Reverify(p, i) PROVE TypeOK'
  <2>1. nonces' \in [NonceSet -> Never..MaxNow]
    BY <1>8, PrunedType DEF Reverify, TypeOK
  <2>2. idem' \in [Keys -> {NoResult} \cup Results]
    <3>1. i.req \in Requests
      BY DEF TypeOK, Items
    <3> QED BY <1>8, <3>1, KeysType, Zenon DEF Reverify
  <2>3. /\ batch' = [batch EXCEPT ![p] = @ \ {i}] /\ cur' = [cur EXCEPT ![p] = i]
        /\ pc' = [pc EXCEPT ![p] = "verified"]
        /\ UNCHANGED <<now, outbox, lastId, posts, flag, partner, dest, stopping, site, deps,
            clk, on, events, spent, overlapped, late>>
    BY <1>8, Zenon DEF Reverify, Skip, edge, hub, rows, poll
  <2>4. i \in Items
    BY DEF TypeOK
  <2> QED BY <2>1, <2>2, <2>3, <2>4 DEF TypeOK, Pcs, Working, Results
<1>9. ASSUME NEW p \in Pollers, MaterializeRefused(p) PROVE TypeOK'
  BY <1>9 DEF MaterializeRefused, NextItem, edge, hub, rows, poll, TypeOK, Pcs, Items, Working
<1>10. ASSUME NEW p \in Pollers, Materialize(p) PROVE TypeOK'
  BY <1>10 DEF Materialize, Goto, Creator, edge, hub, rows, poll, TypeOK, Pcs, Items, Working
<1>11. ASSUME NEW p \in Pollers, CreateSite(p) PROVE TypeOK'
  <2>0. cur[p] \in Items /\ Req(p).tenant \in Tenants
    BY <1>11 DEF CreateSite, Req, Tenants, TypeOK, Working, Items
  <2>1. CASE site[Req(p).tenant] = "none"
    <3>1. /\ site' = [site EXCEPT ![Req(p).tenant] = "bound"]
          /\ pc' = [pc EXCEPT ![p] = "queue"]
          /\ UNCHANGED <<now, outbox, lastId, posts, flag, partner, dest, stopping, deps,
              nonces, idem, clk, on, batch, cur, events, spent, overlapped, late>>
      BY <1>11, <2>1, Zenon DEF CreateSite, Goto, edge, hub, rows, poll
    <3> QED BY <2>0, <3>1 DEF TypeOK, Pcs, Working
  <2>2. CASE site[Req(p).tenant] # "none"
    <3>1. /\ cur' = [cur EXCEPT ![p] = NoItem] /\ pc' = [pc EXCEPT ![p] = "next"]
          /\ UNCHANGED <<now, outbox, lastId, posts, flag, partner, dest, stopping, site, deps,
              nonces, idem, clk, on, batch, events, spent, overlapped, late>>
      BY <1>11, <2>2, Zenon DEF CreateSite, NextItem, edge, hub, rows, poll
    <3> QED BY <3>1 DEF TypeOK, Pcs, Working
  <2> QED BY <2>1, <2>2
<1>12. ASSUME NEW p \in Pollers, CreateQueued(p) PROVE TypeOK'
  <2>1. cur[p] \in Items /\ pc[p] = "queue"
    BY <1>12 DEF CreateQueued, TypeOK, Working
  <2>2. [job |-> cur[p].id, req |-> cur[p].req, at |-> now] \in [job : 1..MaxPosts,
            req : Requests, at : 0..MaxNow]
    BY <2>1 DEF TypeOK, Items
  <2>3. deps' \in Seq([job : 1..MaxPosts, req : Requests, at : 0..MaxNow])
    BY <1>12, <2>2 DEF CreateQueued, Req, TypeOK
  <2>4. late' \in [Pollers -> Nat]
    <3>1. late' = [late EXCEPT ![p] = IF Shut THEN late[p] + 1 ELSE 0]
      BY <1>12, Zenon DEF CreateQueued
    <3> QED BY <3>1 DEF TypeOK
  <2>5. /\ pc' = [pc EXCEPT ![p] = "ack"]
        /\ UNCHANGED <<now, outbox, lastId, posts, flag, partner, dest, stopping, site, nonces,
            idem, clk, on, batch, cur, events, spent, overlapped>>
    BY <1>12, Zenon DEF CreateQueued, Goto, edge, hub, rows, poll
  <2> QED BY <2>1, <2>3, <2>4, <2>5 DEF TypeOK, Pcs, Working
<1>13. ASSUME NEW p \in Pollers, VersionConflict(p) PROVE TypeOK'
  BY <1>13 DEF VersionConflict, NextItem, edge, hub, rows, poll, TypeOK, Pcs, Items, Working
<1>14. ASSUME NEW p \in Pollers, Ack(p) PROVE TypeOK'
  BY <1>14 DEF Ack, Goto, WithoutJob, edge, hub, rows, poll, TypeOK, Pcs, Items, Working
<1>15. ASSUME NEW p \in Pollers, Persist(p) PROVE TypeOK'
  <2>1. /\ cur[p] \in Items /\ Req(p) \in Requests /\ Req(p).nonce \in NonceSet
        /\ now \in 0..MaxNow
    BY <1>15 DEF Persist, Req, NonceSet, TypeOK, Working, Items
  <2>2. nonces' \in [NonceSet -> Never..MaxNow]
    <3>1. Pruned(clk[p]) \in [NonceSet -> Never..MaxNow]
      BY PrunedType
    <3>2. nonces' = [Pruned(clk[p]) EXCEPT ![Req(p).nonce] = IF @ = Never THEN now ELSE @]
      BY <1>15 DEF Persist
    <3>3. now \in Never..MaxNow
      BY <2>1 DEF Never
    <3> QED BY <3>1, <3>2, <3>3
  <2>3. idem' \in [Keys -> {NoResult} \cup Results]
    <3>1. idem \in [Keys -> {NoResult} \cup Results]
      BY DEF TypeOK, Results
    <3>2. [params |-> Params(Req(p)), at |-> now] \in Results
      BY <2>1 DEF Results
    <3>3. [idem EXCEPT ![Req(p).key] = [params |-> Params(Req(p)),
              at |-> now]] \in [Keys -> {NoResult} \cup Results]
      BY <3>1, <3>2
    <3>4. idem' \in {idem, [idem EXCEPT ![Req(p).key] = [params |-> Params(Req(p)),
              at |-> now]]}
      BY <1>15, Zenon DEF Persist
    <3> QED BY <3>1, <3>3, <3>4
  <2>4. /\ spent' = spent \cup {Req(p).nonce} /\ cur' = [cur EXCEPT ![p] = NoItem]
        /\ pc' = [pc EXCEPT ![p] = "next"]
        /\ UNCHANGED <<now, outbox, lastId, posts, flag, partner, dest, stopping, site, deps,
            clk, on, batch, events, overlapped, late>>
    BY <1>15, Zenon DEF Persist, NextItem, edge, hub, rows, poll
  <2> QED BY <2>1, <2>2, <2>3, <2>4 DEF TypeOK, Pcs, Working, Results
<1>16. ASSUME NEW p \in Pollers, AckFails(p) PROVE TypeOK'
  BY <1>16 DEF AckFails, NextItem, OneEvent, edge, hub, rows, poll, TypeOK, Pcs, Items, Working
<1>17. ASSUME NEW p \in Pollers, Crash(p) PROVE TypeOK'
  BY <1>17 DEF Crash, OneEvent, edge, hub, rows, poll, TypeOK, Pcs, Items, Working
<1>18. ASSUME KillSwitch PROVE TypeOK'
  BY <1>18 DEF KillSwitch, OneEvent, edge, hub, rows, poll, TypeOK, Pcs, Items, Working
<1>19. ASSUME Suspend PROVE TypeOK'
  <2>1. partner' \in [suspended : BOOLEAN, keyed : BOOLEAN] /\ stopping' \subseteq Tenants
    <3>1. CASE Bound = {}
      <4>1. partner' = [suspended |-> TRUE, keyed |-> FALSE] /\ stopping' = stopping
        BY <1>19, <3>1, Zenon DEF Suspend
      <4>2. [suspended |-> TRUE, keyed |-> FALSE] \in [suspended : BOOLEAN, keyed : BOOLEAN]
        OBVIOUS
      <4> QED BY <4>1, <4>2, Zenon DEF TypeOK
    <3>2. CASE Bound # {}
      BY <1>19, <3>2 DEF Suspend, Bound, TypeOK
    <3> QED BY <3>1, <3>2
  <2>2. /\ events < MaxEvents /\ events' = events + 1 /\ late' = [q \in Pollers |-> 0]
        /\ UNCHANGED <<now, outbox, lastId, posts, flag, dest, site, deps, nonces, idem, pc,
            clk, on, batch, cur, spent, overlapped>>
    BY <1>19, Zenon DEF Suspend, OneEvent, edge, hub, rows, poll
  <2> QED BY <2>1, <2>2 DEF TypeOK
<1>20. ASSUME SuspendFails PROVE TypeOK'
  BY <1>20 DEF SuspendFails, edge, hub, rows, poll, TypeOK, Pcs, Items, Working
<1>21. ASSUME Tick PROVE TypeOK'
  BY <1>21 DEF Tick, edge, hub, rows, poll, TypeOK, Pcs, Items, Working
<1>22. ASSUME NEW d \in Ranks, DestinationRank(d) PROVE TypeOK'
  BY <1>22 DEF DestinationRank, OneEvent, edge, hub, rows, poll, TypeOK, Pcs, Items, Working
<1>23. ASSUME NEW t \in Tenants, StopPartnerSite(t) PROVE TypeOK'
  BY <1>23 DEF StopPartnerSite, edge, hub, rows, poll, TypeOK, Pcs, Items, Working
<1>24. ASSUME NEW t \in Tenants, SiteTakedown(t) PROVE TypeOK'
  BY <1>24 DEF SiteTakedown, OneEvent, edge, hub, rows, poll, TypeOK, Pcs, Items, Working
<1>25. CASE UNCHANGED vars
  BY <1>25 DEF vars, edge, hub, rows, poll, TypeOK
<1> QED
  BY <1>1, <1>2, <1>3, <1>4, <1>5, <1>6, <1>7, <1>8, <1>9, <1>10, <1>11, <1>12, <1>13, <1>14,
     <1>15, <1>16, <1>17, <1>18, <1>19, <1>20, <1>21, <1>22, <1>23, <1>24, <1>25 DEF Next,
     PollStep

\* A poll that created after the API was shut creates nothing more: materialize() reads the
\* switch, and reverify() the partner, before the next creation.
LEMMA LateNext ==
    TypeOK /\ LateIsLast /\ [Next]_vars => LateIsLast'
<1> SUFFICES ASSUME TypeOK, LateIsLast, [Next]_vars PROVE LateIsLast'
  OBVIOUS
<1>1. ASSUME NEW r \in Requests, IntakePost(r) PROVE LateIsLast'
  BY <1>1 DEF IntakePost, edge, hub, rows, poll, TypeOK, LateIsLast, Pcs, Shut
<1>2. ASSUME PlantGitPush PROVE LateIsLast'
  BY <1>2 DEF PlantGitPush, edge, hub, rows, poll, TypeOK, LateIsLast, Pcs, Shut
<1>3. ASSUME NEW p \in Pollers, PollFetch(p) PROVE LateIsLast'
  BY <1>3 DEF PollFetch, Goto, edge, hub, rows, poll, TypeOK, LateIsLast, Pcs, Shut
<1>4. ASSUME NEW p \in Pollers, PollEnd(p) PROVE LateIsLast'
  BY <1>4 DEF PollEnd, Goto, edge, hub, rows, poll, TypeOK, LateIsLast, Pcs, Shut
<1>5. ASSUME NEW p \in Pollers, NEW i \in batch[p], HandleGitPush(p, i) PROVE LateIsLast'
  BY <1>5 DEF HandleGitPush, Comes, Skip, WithoutJob, edge, hub, rows, poll, TypeOK,
     LateIsLast, Pcs, Shut
<1>6. ASSUME NEW p \in Pollers, NEW i \in batch[p], Refused(p, i) PROVE LateIsLast'
  BY <1>6 DEF Refused, Comes, Skip, edge, hub, rows, poll, TypeOK, LateIsLast, Pcs, Shut
<1>7. ASSUME NEW p \in Pollers, NEW i \in batch[p], ReplayAcked(p, i) PROVE LateIsLast'
  BY <1>7 DEF ReplayAcked, Comes, Skip, WithoutJob, edge, hub, rows, poll, TypeOK, LateIsLast,
     Pcs, Shut
<1>8. ASSUME NEW p \in Pollers, NEW i \in batch[p], Reverify(p, i) PROVE LateIsLast'
  BY <1>8 DEF Reverify, Comes, Skip, edge, hub, rows, poll, TypeOK, LateIsLast, Pcs, Shut,
     Signed
<1>9. ASSUME NEW p \in Pollers, MaterializeRefused(p) PROVE LateIsLast'
  BY <1>9 DEF MaterializeRefused, NextItem, edge, hub, rows, poll, TypeOK, LateIsLast, Pcs, Shut
<1>10. ASSUME NEW p \in Pollers, Materialize(p) PROVE LateIsLast'
  BY <1>10 DEF Materialize, Goto, Creator, edge, hub, rows, poll, TypeOK, LateIsLast, Pcs, Shut
<1>11. ASSUME NEW p \in Pollers, CreateSite(p) PROVE LateIsLast'
  BY <1>11 DEF CreateSite, Goto, NextItem, edge, hub, rows, poll, TypeOK, LateIsLast, Pcs, Shut
<1>12. ASSUME NEW p \in Pollers, CreateQueued(p) PROVE LateIsLast'
  BY <1>12 DEF CreateQueued, Goto, edge, hub, rows, poll, TypeOK, LateIsLast, Pcs, Shut
<1>13. ASSUME NEW p \in Pollers, VersionConflict(p) PROVE LateIsLast'
  BY <1>13 DEF VersionConflict, NextItem, edge, hub, rows, poll, TypeOK, LateIsLast, Pcs, Shut
<1>14. ASSUME NEW p \in Pollers, Ack(p) PROVE LateIsLast'
  BY <1>14 DEF Ack, Goto, WithoutJob, edge, hub, rows, poll, TypeOK, LateIsLast, Pcs, Shut
<1>15. ASSUME NEW p \in Pollers, Persist(p) PROVE LateIsLast'
  BY <1>15 DEF Persist, NextItem, edge, hub, rows, poll, TypeOK, LateIsLast, Pcs, Shut
<1>16. ASSUME NEW p \in Pollers, AckFails(p) PROVE LateIsLast'
  BY <1>16 DEF AckFails, NextItem, OneEvent, edge, hub, rows, poll, TypeOK, LateIsLast, Pcs,
     Shut
<1>17. ASSUME NEW p \in Pollers, Crash(p) PROVE LateIsLast'
  BY <1>17 DEF Crash, OneEvent, edge, hub, rows, poll, TypeOK, LateIsLast, Pcs, Shut
<1>18. ASSUME KillSwitch PROVE LateIsLast'
  BY <1>18 DEF KillSwitch, OneEvent, edge, hub, rows, poll, TypeOK, LateIsLast, Pcs, Shut
<1>19. ASSUME Suspend PROVE LateIsLast'
  BY <1>19 DEF Suspend, OneEvent, edge, hub, rows, poll, TypeOK, LateIsLast, Pcs, Shut
<1>20. ASSUME SuspendFails PROVE LateIsLast'
  BY <1>20 DEF SuspendFails, edge, hub, rows, poll, TypeOK, LateIsLast, Pcs, Shut
<1>21. ASSUME Tick PROVE LateIsLast'
  BY <1>21 DEF Tick, edge, hub, rows, poll, TypeOK, LateIsLast, Pcs, Shut
<1>22. ASSUME NEW d \in Ranks, DestinationRank(d) PROVE LateIsLast'
  BY <1>22 DEF DestinationRank, OneEvent, edge, hub, rows, poll, TypeOK, LateIsLast, Pcs, Shut
<1>23. ASSUME NEW t \in Tenants, StopPartnerSite(t) PROVE LateIsLast'
  BY <1>23 DEF StopPartnerSite, edge, hub, rows, poll, TypeOK, LateIsLast, Pcs, Shut
<1>24. ASSUME NEW t \in Tenants, SiteTakedown(t) PROVE LateIsLast'
  BY <1>24 DEF SiteTakedown, OneEvent, edge, hub, rows, poll, TypeOK, LateIsLast, Pcs, Shut
<1>25. CASE UNCHANGED vars
  BY <1>25 DEF vars, edge, hub, rows, poll, LateIsLast
<1> QED
  BY <1>1, <1>2, <1>3, <1>4, <1>5, <1>6, <1>7, <1>8, <1>9, <1>10, <1>11, <1>12, <1>13, <1>14,
     <1>15, <1>16, <1>17, <1>18, <1>19, <1>20, <1>21, <1>22, <1>23, <1>24, <1>25 DEF Next,
     PollStep

\* Until a poll begins while another one runs, there is one poll at most.
LEMMA ActiveNext ==
    TypeOK /\ OneActive /\ [Next]_vars => OneActive'
<1> SUFFICES ASSUME TypeOK, OneActive, [Next]_vars PROVE OneActive'
  OBVIOUS
<1>1. ASSUME NEW r \in Requests, IntakePost(r) PROVE OneActive'
  BY <1>1 DEF IntakePost, edge, hub, rows, poll, TypeOK, OneActive, Pcs
<1>2. ASSUME PlantGitPush PROVE OneActive'
  BY <1>2 DEF PlantGitPush, edge, hub, rows, poll, TypeOK, OneActive, Pcs
<1>3. ASSUME NEW p \in Pollers, PollFetch(p) PROVE OneActive'
  BY <1>3 DEF PollFetch, Goto, edge, hub, rows, poll, TypeOK, OneActive, Pcs
<1>4. ASSUME NEW p \in Pollers, PollEnd(p) PROVE OneActive'
  BY <1>4 DEF PollEnd, Goto, edge, hub, rows, poll, TypeOK, OneActive, Pcs
<1>5. ASSUME NEW p \in Pollers, NEW i \in batch[p], HandleGitPush(p, i) PROVE OneActive'
  BY <1>5 DEF HandleGitPush, Comes, Skip, WithoutJob, edge, hub, rows, poll, TypeOK, OneActive,
     Pcs
<1>6. ASSUME NEW p \in Pollers, NEW i \in batch[p], Refused(p, i) PROVE OneActive'
  BY <1>6 DEF Refused, Comes, Skip, edge, hub, rows, poll, TypeOK, OneActive, Pcs
<1>7. ASSUME NEW p \in Pollers, NEW i \in batch[p], ReplayAcked(p, i) PROVE OneActive'
  BY <1>7 DEF ReplayAcked, Comes, Skip, WithoutJob, edge, hub, rows, poll, TypeOK, OneActive,
     Pcs
<1>8. ASSUME NEW p \in Pollers, NEW i \in batch[p], Reverify(p, i) PROVE OneActive'
  BY <1>8 DEF Reverify, Comes, Skip, edge, hub, rows, poll, TypeOK, OneActive, Pcs
<1>9. ASSUME NEW p \in Pollers, MaterializeRefused(p) PROVE OneActive'
  BY <1>9 DEF MaterializeRefused, NextItem, edge, hub, rows, poll, TypeOK, OneActive, Pcs
<1>10. ASSUME NEW p \in Pollers, Materialize(p) PROVE OneActive'
  BY <1>10 DEF Materialize, Goto, Creator, edge, hub, rows, poll, TypeOK, OneActive, Pcs
<1>11. ASSUME NEW p \in Pollers, CreateSite(p) PROVE OneActive'
  <2>1. overlapped' = overlapped /\ pc \in [Pollers -> Pcs] /\ pc[p] = "create"
    BY <1>11 DEF CreateSite, TypeOK
  <2>2. pc' = [pc EXCEPT ![p] = "queue"] \/ pc' = [pc EXCEPT ![p] = "next"]
    BY <1>11, Zenon DEF CreateSite, Goto, NextItem
  <2>3. \A q \in Pollers : pc'[q] # "idle" => pc[q] # "idle"
    BY <2>1, <2>2
  <2> QED BY <2>1, <2>3 DEF OneActive
<1>12. ASSUME NEW p \in Pollers, CreateQueued(p) PROVE OneActive'
  BY <1>12 DEF CreateQueued, Goto, edge, hub, rows, poll, TypeOK, OneActive, Pcs
<1>13. ASSUME NEW p \in Pollers, VersionConflict(p) PROVE OneActive'
  BY <1>13 DEF VersionConflict, NextItem, edge, hub, rows, poll, TypeOK, OneActive, Pcs
<1>14. ASSUME NEW p \in Pollers, Ack(p) PROVE OneActive'
  BY <1>14 DEF Ack, Goto, WithoutJob, edge, hub, rows, poll, TypeOK, OneActive, Pcs
<1>15. ASSUME NEW p \in Pollers, Persist(p) PROVE OneActive'
  BY <1>15 DEF Persist, NextItem, edge, hub, rows, poll, TypeOK, OneActive, Pcs
<1>16. ASSUME NEW p \in Pollers, AckFails(p) PROVE OneActive'
  BY <1>16 DEF AckFails, NextItem, OneEvent, edge, hub, rows, poll, TypeOK, OneActive, Pcs
<1>17. ASSUME NEW p \in Pollers, Crash(p) PROVE OneActive'
  BY <1>17 DEF Crash, OneEvent, edge, hub, rows, poll, TypeOK, OneActive, Pcs
<1>18. ASSUME KillSwitch PROVE OneActive'
  BY <1>18 DEF KillSwitch, OneEvent, edge, hub, rows, poll, TypeOK, OneActive, Pcs
<1>19. ASSUME Suspend PROVE OneActive'
  BY <1>19 DEF Suspend, OneEvent, edge, hub, rows, poll, TypeOK, OneActive, Pcs
<1>20. ASSUME SuspendFails PROVE OneActive'
  BY <1>20 DEF SuspendFails, edge, hub, rows, poll, TypeOK, OneActive, Pcs
<1>21. ASSUME Tick PROVE OneActive'
  BY <1>21 DEF Tick, edge, hub, rows, poll, TypeOK, OneActive, Pcs
<1>22. ASSUME NEW d \in Ranks, DestinationRank(d) PROVE OneActive'
  BY <1>22 DEF DestinationRank, OneEvent, edge, hub, rows, poll, TypeOK, OneActive, Pcs
<1>23. ASSUME NEW t \in Tenants, StopPartnerSite(t) PROVE OneActive'
  BY <1>23 DEF StopPartnerSite, edge, hub, rows, poll, TypeOK, OneActive, Pcs
<1>24. ASSUME NEW t \in Tenants, SiteTakedown(t) PROVE OneActive'
  BY <1>24 DEF SiteTakedown, OneEvent, edge, hub, rows, poll, TypeOK, OneActive, Pcs
<1>25. CASE UNCHANGED vars
  BY <1>25 DEF vars, edge, hub, rows, poll, OneActive
<1> QED
  BY <1>1, <1>2, <1>3, <1>4, <1>5, <1>6, <1>7, <1>8, <1>9, <1>10, <1>11, <1>12, <1>13, <1>14,
     <1>15, <1>16, <1>17, <1>18, <1>19, <1>20, <1>21, <1>22, <1>23, <1>24, <1>25 DEF Next,
     PollStep

\* What a poll applies was fresh when it was verified, and the clocks of the polls are not ahead.
LEMMA FreshNext ==
    TypeOK /\ InFlightFresh /\ [Next]_vars => InFlightFresh'
<1> SUFFICES ASSUME TypeOK, InFlightFresh, [Next]_vars PROVE InFlightFresh'
  OBVIOUS
<1> USE LimitsAssumption, RequestsAssumption
<1>1. ASSUME NEW r \in Requests, IntakePost(r) PROVE InFlightFresh'
  BY <1>1 DEF IntakePost, edge, hub, rows, poll, TypeOK, InFlightFresh, Pcs, Working, Items
<1>2. ASSUME PlantGitPush PROVE InFlightFresh'
  BY <1>2 DEF PlantGitPush, edge, hub, rows, poll, TypeOK, InFlightFresh, Pcs, Working, Items
<1>3. ASSUME NEW p \in Pollers, PollFetch(p) PROVE InFlightFresh'
  BY <1>3 DEF PollFetch, Goto, edge, hub, rows, poll, TypeOK, InFlightFresh, Pcs, Working, Items
<1>4. ASSUME NEW p \in Pollers, PollEnd(p) PROVE InFlightFresh'
  BY <1>4 DEF PollEnd, Goto, edge, hub, rows, poll, TypeOK, InFlightFresh, Pcs, Working, Items
<1>5. ASSUME NEW p \in Pollers, NEW i \in batch[p], HandleGitPush(p, i) PROVE InFlightFresh'
  BY <1>5 DEF HandleGitPush, Comes, Skip, WithoutJob, edge, hub, rows, poll, TypeOK,
     InFlightFresh, Pcs, Working, Items
<1>6. ASSUME NEW p \in Pollers, NEW i \in batch[p], Refused(p, i) PROVE InFlightFresh'
  BY <1>6 DEF Refused, Comes, Skip, edge, hub, rows, poll, TypeOK, InFlightFresh, Pcs, Working,
     Items
<1>7. ASSUME NEW p \in Pollers, NEW i \in batch[p], ReplayAcked(p, i) PROVE InFlightFresh'
  BY <1>7 DEF ReplayAcked, Comes, Skip, WithoutJob, edge, hub, rows, poll, TypeOK,
     InFlightFresh, Pcs, Working, Items
<1>8. ASSUME NEW p \in Pollers, NEW i \in batch[p], Reverify(p, i) PROVE InFlightFresh'
  BY <1>8 DEF Reverify, Comes, Skip, edge, hub, rows, poll, TypeOK, InFlightFresh, Pcs,
     Working, Items, Signed
<1>9. ASSUME NEW p \in Pollers, MaterializeRefused(p) PROVE InFlightFresh'
  BY <1>9 DEF MaterializeRefused, NextItem, edge, hub, rows, poll, TypeOK, InFlightFresh, Pcs,
     Working, Items
<1>10. ASSUME NEW p \in Pollers, Materialize(p) PROVE InFlightFresh'
  BY <1>10 DEF Materialize, Goto, Creator, edge, hub, rows, poll, TypeOK, InFlightFresh, Pcs,
     Working, Items
<1>11. ASSUME NEW p \in Pollers, CreateSite(p) PROVE InFlightFresh'
  BY <1>11 DEF CreateSite, Goto, NextItem, edge, hub, rows, poll, TypeOK, InFlightFresh, Pcs,
     Working, Items
<1>12. ASSUME NEW p \in Pollers, CreateQueued(p) PROVE InFlightFresh'
  BY <1>12 DEF CreateQueued, Goto, edge, hub, rows, poll, TypeOK, InFlightFresh, Pcs, Working,
     Items
<1>13. ASSUME NEW p \in Pollers, VersionConflict(p) PROVE InFlightFresh'
  BY <1>13 DEF VersionConflict, NextItem, edge, hub, rows, poll, TypeOK, InFlightFresh, Pcs,
     Working, Items
<1>14. ASSUME NEW p \in Pollers, Ack(p) PROVE InFlightFresh'
  BY <1>14 DEF Ack, Goto, WithoutJob, edge, hub, rows, poll, TypeOK, InFlightFresh, Pcs,
     Working, Items
<1>15. ASSUME NEW p \in Pollers, Persist(p) PROVE InFlightFresh'
  BY <1>15 DEF Persist, NextItem, edge, hub, rows, poll, TypeOK, InFlightFresh, Pcs, Working,
     Items
<1>16. ASSUME NEW p \in Pollers, AckFails(p) PROVE InFlightFresh'
  BY <1>16 DEF AckFails, NextItem, OneEvent, edge, hub, rows, poll, TypeOK, InFlightFresh, Pcs,
     Working, Items
<1>17. ASSUME NEW p \in Pollers, Crash(p) PROVE InFlightFresh'
  BY <1>17 DEF Crash, OneEvent, edge, hub, rows, poll, TypeOK, InFlightFresh, Pcs, Working,
     Items
<1>18. ASSUME KillSwitch PROVE InFlightFresh'
  BY <1>18 DEF KillSwitch, OneEvent, edge, hub, rows, poll, TypeOK, InFlightFresh, Pcs,
     Working, Items
<1>19. ASSUME Suspend PROVE InFlightFresh'
  BY <1>19 DEF Suspend, OneEvent, edge, hub, rows, poll, TypeOK, InFlightFresh, Pcs, Working,
     Items
<1>20. ASSUME SuspendFails PROVE InFlightFresh'
  BY <1>20 DEF SuspendFails, edge, hub, rows, poll, TypeOK, InFlightFresh, Pcs, Working, Items
<1>21. ASSUME Tick PROVE InFlightFresh'
  BY <1>21 DEF Tick, edge, hub, rows, poll, TypeOK, InFlightFresh, Pcs, Working, Items
<1>22. ASSUME NEW d \in Ranks, DestinationRank(d) PROVE InFlightFresh'
  BY <1>22 DEF DestinationRank, OneEvent, edge, hub, rows, poll, TypeOK, InFlightFresh, Pcs,
     Working, Items
<1>23. ASSUME NEW t \in Tenants, StopPartnerSite(t) PROVE InFlightFresh'
  BY <1>23 DEF StopPartnerSite, edge, hub, rows, poll, TypeOK, InFlightFresh, Pcs, Working,
     Items
<1>24. ASSUME NEW t \in Tenants, SiteTakedown(t) PROVE InFlightFresh'
  BY <1>24 DEF SiteTakedown, OneEvent, edge, hub, rows, poll, TypeOK, InFlightFresh, Pcs,
     Working, Items
<1>25. CASE UNCHANGED vars
  BY <1>25 DEF vars, edge, hub, rows, poll, InFlightFresh
<1> QED
  BY <1>1, <1>2, <1>3, <1>4, <1>5, <1>6, <1>7, <1>8, <1>9, <1>10, <1>11, <1>12, <1>13, <1>14,
     <1>15, <1>16, <1>17, <1>18, <1>19, <1>20, <1>21, <1>22, <1>23, <1>24, <1>25 DEF Next,
     PollStep

\* _remember_nonce(): what a poll prunes is stale by its clock, and the clock of the only poll.
LEMMA PrunedKeeps ==
    ASSUME TypeOK, OneActive, InFlightFresh, SpentIsKept, NEW p \in Pollers, pc[p] # "idle"
    PROVE  /\ \A m \in NonceSet : Pruned(clk[p])[m] # Never => m \in spent /\ Pruned(clk[p])[m] = nonces[m]
           /\ ~overlapped => \A r \in Requests : r.nonce \in spent =>
                \/ Pruned(clk[p])[r.nonce] # Never /\ r.ts - Window <= Pruned(clk[p])[r.nonce]
                \/ r.ts + Window < now /\ \A q \in Pollers : pc[q] # "idle" => r.ts + Window < clk[q]
<1> USE LimitsAssumption, RequestsAssumption
<1>1. \A m \in NonceSet : Pruned(clk[p])[m] = IF nonces[m] < clk[p] - NonceTTL THEN Never ELSE nonces[m]
  BY DEF Pruned
<1>2. /\ nonces \in [NonceSet -> Never..MaxNow] /\ clk[p] \in Int /\ now \in Int /\ clk[p] <= now
      /\ Never \in Int /\ \A m \in NonceSet : nonces[m] \in Int
  BY DEF TypeOK, InFlightFresh, Never
<1>3. \A m \in NonceSet : Pruned(clk[p])[m] # Never => m \in spent /\ Pruned(clk[p])[m] = nonces[m]
  BY <1>1, <1>2 DEF SpentIsKept
<1>4. ASSUME ~overlapped, NEW r \in Requests, r.nonce \in spent
      PROVE  \/ Pruned(clk[p])[r.nonce] # Never /\ r.ts - Window <= Pruned(clk[p])[r.nonce]
             \/ r.ts + Window < now /\ \A q \in Pollers : pc[q] # "idle" => r.ts + Window < clk[q]
  <2>1. r.nonce \in NonceSet /\ r.ts \in Int
    BY DEF NonceSet
  <2>2. CASE r.ts + Window < now /\ \A q \in Pollers : pc[q] # "idle" => r.ts + Window < clk[q]
    BY <2>2
  <2>3. CASE nonces[r.nonce] # Never /\ r.ts - Window <= nonces[r.nonce] /\ nonces[r.nonce] < clk[p] - NonceTTL
    <3>1. r.ts + Window < clk[p]
      BY <1>2, <2>1, <2>3
    <3>2. \A q \in Pollers : pc[q] # "idle" => q = p
      BY <1>4 DEF OneActive
    <3> QED BY <1>2, <2>1, <3>1, <3>2
  <2>4. CASE nonces[r.nonce] # Never /\ r.ts - Window <= nonces[r.nonce] /\ ~(nonces[r.nonce] < clk[p] - NonceTTL)
    BY <1>1, <2>1, <2>4
  <2> QED BY <1>4, <2>2, <2>3, <2>4 DEF SpentIsKept
<1> QED BY <1>3, <1>4

\* The row of a spent nonce outlives its request.
LEMMA SpentNext ==
    TypeOK /\ OneActive /\ InFlightFresh /\ SpentIsKept /\ [Next]_vars => SpentIsKept'
<1> SUFFICES ASSUME TypeOK, OneActive, InFlightFresh, SpentIsKept, [Next]_vars
             PROVE  SpentIsKept'
  OBVIOUS
<1> USE LimitsAssumption, RequestsAssumption
<1>1. ASSUME NEW r \in Requests, IntakePost(r) PROVE SpentIsKept'
  BY <1>1 DEF IntakePost, edge, hub, rows, poll, TypeOK, SpentIsKept, OneActive
<1>2. ASSUME PlantGitPush PROVE SpentIsKept'
  BY <1>2 DEF PlantGitPush, edge, hub, rows, poll, TypeOK, SpentIsKept, OneActive
<1>3. ASSUME NEW p \in Pollers, PollFetch(p) PROVE SpentIsKept'
  BY <1>3 DEF PollFetch, Goto, edge, hub, rows, poll, TypeOK, SpentIsKept, OneActive
<1>4. ASSUME NEW p \in Pollers, PollEnd(p) PROVE SpentIsKept'
  BY <1>4 DEF PollEnd, Goto, edge, hub, rows, poll, TypeOK, SpentIsKept, OneActive
<1>5. ASSUME NEW p \in Pollers, NEW i \in batch[p], HandleGitPush(p, i) PROVE SpentIsKept'
  BY <1>5 DEF HandleGitPush, Comes, Skip, WithoutJob, edge, hub, rows, poll, TypeOK,
     SpentIsKept, OneActive
<1>6. ASSUME NEW p \in Pollers, NEW i \in batch[p], Refused(p, i) PROVE SpentIsKept'
  <2>1. /\ pc[p] # "idle" /\ UNCHANGED <<now, pc, clk, spent, overlapped>>
        /\ nonces' = nonces \/ nonces' = Pruned(clk[p])
    BY <1>6, Zenon DEF Refused, Comes, edge, hub, rows, poll
  <2>2. CASE nonces' = nonces
    BY <2>1, <2>2 DEF SpentIsKept
  <2>3. CASE nonces' = Pruned(clk[p])
    BY <2>1, <2>3, PrunedKeeps DEF SpentIsKept
  <2> QED BY <2>1, <2>2, <2>3
<1>7. ASSUME NEW p \in Pollers, NEW i \in batch[p], ReplayAcked(p, i) PROVE SpentIsKept'
  <2>1. /\ pc[p] # "idle" /\ nonces' = Pruned(clk[p])
        /\ UNCHANGED <<now, pc, clk, spent, overlapped>>
    BY <1>7 DEF ReplayAcked, Comes, edge, hub, rows, poll
  <2> QED BY <2>1, PrunedKeeps DEF SpentIsKept
<1>8. ASSUME NEW p \in Pollers, NEW i \in batch[p], Reverify(p, i) PROVE SpentIsKept'
  <2>1. /\ pc[p] # "idle" /\ nonces' = Pruned(clk[p])
        /\ UNCHANGED <<now, clk, spent, overlapped>>
        /\ pc' = [pc EXCEPT ![p] = "verified"] /\ pc \in [Pollers -> Pcs]
    BY <1>8 DEF Reverify, Comes, TypeOK, edge, hub, rows, poll
  <2>2. \A q \in Pollers : pc'[q] # "idle" => pc[q] # "idle"
    BY <2>1
  <2> QED BY <2>1, <2>2, PrunedKeeps DEF SpentIsKept
<1>9. ASSUME NEW p \in Pollers, MaterializeRefused(p) PROVE SpentIsKept'
  BY <1>9 DEF MaterializeRefused, NextItem, edge, hub, rows, poll, TypeOK, SpentIsKept,
     OneActive
<1>10. ASSUME NEW p \in Pollers, Materialize(p) PROVE SpentIsKept'
  BY <1>10 DEF Materialize, Goto, Creator, edge, hub, rows, poll, TypeOK, SpentIsKept, OneActive
<1>11. ASSUME NEW p \in Pollers, CreateSite(p) PROVE SpentIsKept'
  BY <1>11 DEF CreateSite, Goto, NextItem, edge, hub, rows, poll, TypeOK, SpentIsKept, OneActive
<1>12. ASSUME NEW p \in Pollers, CreateQueued(p) PROVE SpentIsKept'
  BY <1>12 DEF CreateQueued, Goto, edge, hub, rows, poll, TypeOK, SpentIsKept, OneActive
<1>13. ASSUME NEW p \in Pollers, VersionConflict(p) PROVE SpentIsKept'
  BY <1>13 DEF VersionConflict, NextItem, edge, hub, rows, poll, TypeOK, SpentIsKept, OneActive
<1>14. ASSUME NEW p \in Pollers, Ack(p) PROVE SpentIsKept'
  BY <1>14 DEF Ack, Goto, WithoutJob, edge, hub, rows, poll, TypeOK, SpentIsKept, OneActive
<1>15. ASSUME NEW p \in Pollers, Persist(p) PROVE SpentIsKept'
  <2>1. /\ pc[p] = "persist" /\ UNCHANGED <<now, clk, overlapped>>
        /\ pc' = [pc EXCEPT ![p] = "next"] /\ pc \in [Pollers -> Pcs]
        /\ spent' = spent \cup {Req(p).nonce}
    BY <1>15 DEF Persist, NextItem, TypeOK, edge, hub, rows, poll
  <2>2. /\ Req(p) \in Requests /\ Req(p).nonce \in NonceSet /\ now \in Nat /\ clk[p] \in Nat
        /\ clk[p] <= now /\ Req(p).ts - clk[p] <= Window /\ Req(p).ts \in Int /\ Never \in Int
    BY <2>1 DEF Req, NonceSet, TypeOK, Working, Items, InFlightFresh, Fresh, Never
  <2>3. /\ Pruned(clk[p]) \in [NonceSet -> Never..MaxNow]
        /\ nonces' = [Pruned(clk[p]) EXCEPT ![Req(p).nonce] = IF @ = Never THEN now ELSE @]
    BY <1>15, PrunedType DEF Persist
  <2>4. /\ \A m \in NonceSet : m # Req(p).nonce => nonces'[m] = Pruned(clk[p])[m]
        /\ nonces'[Req(p).nonce] = IF Pruned(clk[p])[Req(p).nonce] = Never THEN now ELSE Pruned(clk[p])[Req(p).nonce]
    BY <2>2, <2>3
  <2>5. \A m \in NonceSet : nonces'[m] # Never => m \in spent'
    BY <2>1, <2>4, PrunedKeeps
  <2>6. \A q \in Pollers : pc'[q] # "idle" => pc[q] # "idle"
    BY <2>1
  <2>7. ASSUME ~overlapped, NEW r \in Requests, r.nonce \in spent'
        PROVE  \/ nonces'[r.nonce] # Never /\ r.ts - Window <= nonces'[r.nonce]
               \/ r.ts + Window < now /\ \A q \in Pollers : pc[q] # "idle" =>
                   r.ts + Window < clk[q]
    <3>1. r.nonce \in NonceSet /\ r.ts \in Int
      BY DEF NonceSet
    <3>2. CASE r.nonce # Req(p).nonce
      BY <2>1, <2>4, <2>7, <3>1, <3>2, PrunedKeeps
    <3>3. CASE r.nonce = Req(p).nonce /\ Pruned(clk[p])[r.nonce] = Never
      <4>1. r.ts = Req(p).ts
        BY <2>2, <3>3, NoncesAssumption
      <4>2. nonces'[r.nonce] = now
        BY <2>4, <3>3
      <4> QED BY <2>2, <4>1, <4>2 DEF Never
    <3>4. CASE r.nonce = Req(p).nonce /\ Pruned(clk[p])[r.nonce] # Never
      <4>1. r.nonce \in spent /\ nonces'[r.nonce] = Pruned(clk[p])[r.nonce]
        BY <2>1, <2>4, <3>1, <3>4, PrunedKeeps
      <4> QED BY <2>1, <2>7, <4>1, PrunedKeeps
    <3> QED BY <3>2, <3>3, <3>4
  <2> QED BY <2>1, <2>5, <2>6, <2>7 DEF SpentIsKept
<1>16. ASSUME NEW p \in Pollers, AckFails(p) PROVE SpentIsKept'
  BY <1>16 DEF AckFails, NextItem, OneEvent, edge, hub, rows, poll, TypeOK, SpentIsKept,
     OneActive
<1>17. ASSUME NEW p \in Pollers, Crash(p) PROVE SpentIsKept'
  BY <1>17 DEF Crash, OneEvent, edge, hub, rows, poll, TypeOK, SpentIsKept, OneActive
<1>18. ASSUME KillSwitch PROVE SpentIsKept'
  BY <1>18 DEF KillSwitch, OneEvent, edge, hub, rows, poll, TypeOK, SpentIsKept, OneActive
<1>19. ASSUME Suspend PROVE SpentIsKept'
  BY <1>19 DEF Suspend, OneEvent, edge, hub, rows, poll, TypeOK, SpentIsKept, OneActive
<1>20. ASSUME SuspendFails PROVE SpentIsKept'
  BY <1>20 DEF SuspendFails, edge, hub, rows, poll, TypeOK, SpentIsKept, OneActive
<1>21. ASSUME Tick PROVE SpentIsKept'
  BY <1>21 DEF Tick, edge, hub, rows, poll, TypeOK, SpentIsKept, OneActive
<1>22. ASSUME NEW d \in Ranks, DestinationRank(d) PROVE SpentIsKept'
  BY <1>22 DEF DestinationRank, OneEvent, edge, hub, rows, poll, TypeOK, SpentIsKept, OneActive
<1>23. ASSUME NEW t \in Tenants, StopPartnerSite(t) PROVE SpentIsKept'
  BY <1>23 DEF StopPartnerSite, edge, hub, rows, poll, TypeOK, SpentIsKept, OneActive
<1>24. ASSUME NEW t \in Tenants, SiteTakedown(t) PROVE SpentIsKept'
  BY <1>24 DEF SiteTakedown, OneEvent, edge, hub, rows, poll, TypeOK, SpentIsKept, OneActive
<1>25. CASE UNCHANGED vars
  BY <1>25 DEF vars, edge, hub, rows, poll, SpentIsKept
<1> QED
  BY <1>1, <1>2, <1>3, <1>4, <1>5, <1>6, <1>7, <1>8, <1>9, <1>10, <1>11, <1>12, <1>13, <1>14,
     <1>15, <1>16, <1>17, <1>18, <1>19, <1>20, <1>21, <1>22, <1>23, <1>24, <1>25 DEF Next,
     PollStep

\* The tenants are finitely many, and so are those that are bound.
LEMMA TenantsFinite == IsFiniteSet(Tenants)
<1> DEFINE tenantOf == [r \in Requests |-> r.tenant]
<1>1. tenantOf \in Surjection(Requests, Tenants)
  BY DEF Surjection, Tenants
<1> QED BY <1>1, FS_Surjection, RequestsAssumption

\* The sets that are counted are finite.
LEMMA CountsFinite ==
    ASSUME TypeOK
    PROVE  /\ \A id : IsFiniteSet(DeploymentsOf(id)) /\ Cardinality(DeploymentsOf(id)) \in Nat
           /\ \A S \in SUBSET Pollers : IsFiniteSet(S) /\ Cardinality(S) \in Nat /\ Cardinality(S) <= Cardinality(Pollers)
           /\ \A S \in SUBSET Tenants : IsFiniteSet(S) /\ Cardinality(S) \in Nat
           /\ Cardinality(Pollers) \in Nat
<1>1. ASSUME NEW id PROVE IsFiniteSet(DeploymentsOf(id))
  <2>1. Len(deps) \in Int /\ DOMAIN deps = 1..Len(deps)
    BY DEF TypeOK
  <2>2. IsFiniteSet(1..Len(deps))
    BY <2>1, FS_Interval
  <2>3. DeploymentsOf(id) \in SUBSET (1..Len(deps))
    BY <2>1 DEF DeploymentsOf
  <2> QED BY <2>2, <2>3, FS_Subset
<1>2. \A S \in SUBSET Pollers : IsFiniteSet(S) /\ Cardinality(S) <= Cardinality(Pollers)
  BY PollersAssumption, FS_Subset
<1>3. \A S \in SUBSET Tenants : IsFiniteSet(S)
  BY TenantsFinite, FS_Subset
<1> QED BY <1>1, <1>2, <1>3, PollersAssumption, FS_CardinalityType

\* Fewer creators and no new deployment: the count holds.
LEMMA JobsKept ==
    ASSUME TypeOK, JobsCounted, deps' = deps,
           \A id \in 1..MaxPosts : DeploymentsOf(id) # {} => Creating(id)' \subseteq Creating(id),
           overlapped' = overlapped \/ (overlapped' = TRUE /\ Pollers # {})
    PROVE  JobsCounted'
<1> SUFFICES ASSUME NEW id \in 1..MaxPosts, DeploymentsOf(id)' # {}
             PROVE  Cardinality(DeploymentsOf(id)') + Cardinality(Creating(id)')
                        <= (IF overlapped' THEN Cardinality(Pollers) ELSE 1)
  BY DEF JobsCounted
<1>1. DeploymentsOf(id)' = DeploymentsOf(id)
  BY DEF DeploymentsOf
<1>2. Creating(id) \subseteq Pollers /\ Creating(id)' \subseteq Creating(id)
  BY <1>1 DEF Creating
<1>3. IsFiniteSet(Creating(id)) /\ IsFiniteSet(Creating(id)')
  BY <1>2, CountsFinite
<1>4. /\ Cardinality(Creating(id)') <= Cardinality(Creating(id))
      /\ Cardinality(Creating(id)') \in Nat /\ Cardinality(Creating(id)) \in Nat
  BY <1>2, <1>3, FS_Subset, FS_CardinalityType
<1>5. Cardinality(DeploymentsOf(id)) + Cardinality(Creating(id))
        <= (IF overlapped THEN Cardinality(Pollers) ELSE 1)
  BY <1>1 DEF JobsCounted
<1>6. Pollers # {} => Cardinality(Pollers) >= 1
  BY PollersAssumption, FS_EmptySet, FS_CardinalityType
<1>7. Cardinality(DeploymentsOf(id)) \in Nat /\ Cardinality(Pollers) \in Nat
  BY CountsFinite
<1>8. (IF overlapped THEN Cardinality(Pollers) ELSE 1) <= (IF overlapped' THEN Cardinality(Pollers) ELSE 1)
  BY <1>6, <1>7
<1> QED BY <1>1, <1>4, <1>5, <1>7, <1>8

\* Every poller creates at most one deployment of a job, and a lone poller no second one.
LEMMA JobsNext ==
    TypeOK /\ OneActive /\ JobsCounted /\ [Next]_vars => JobsCounted'
<1> SUFFICES ASSUME TypeOK, OneActive, JobsCounted, [Next]_vars PROVE JobsCounted'
  OBVIOUS
<1>1. ASSUME NEW r \in Requests, IntakePost(r) PROVE JobsCounted'
  BY <1>1 DEF IntakePost, edge, hub, rows, poll, TypeOK, JobsCounted, OneActive, DeploymentsOf,
     Creating
<1>2. ASSUME PlantGitPush PROVE JobsCounted'
  BY <1>2 DEF PlantGitPush, edge, hub, rows, poll, TypeOK, JobsCounted, OneActive,
     DeploymentsOf, Creating
<1>3. ASSUME NEW p \in Pollers, PollFetch(p) PROVE JobsCounted'
  <2>1. /\ deps' = deps /\ pc \in [Pollers -> Pcs]
        /\ overlapped' = (overlapped \/ \E q \in Pollers : pc[q] # "idle")
        /\ pc' = [pc EXCEPT ![p] = "next"] /\ cur' = cur
    BY <1>3 DEF PollFetch, Goto, TypeOK, edge, hub, rows, poll
  <2>2. overlapped' = overlapped \/ overlapped' = TRUE
    BY <2>1, Zenon DEF TypeOK
  <2>3. \A id \in 1..MaxPosts : Creating(id)' \subseteq Creating(id)
    BY <2>1 DEF Creating
  <2> QED BY <2>1, <2>2, <2>3, JobsKept
<1>4. ASSUME NEW p \in Pollers, PollEnd(p) PROVE JobsCounted'
  BY <1>4 DEF PollEnd, Goto, edge, hub, rows, poll, TypeOK, JobsCounted, OneActive,
     DeploymentsOf, Creating
<1>5. ASSUME NEW p \in Pollers, NEW i \in batch[p], HandleGitPush(p, i) PROVE JobsCounted'
  BY <1>5 DEF HandleGitPush, Comes, Skip, WithoutJob, edge, hub, rows, poll, TypeOK,
     JobsCounted, OneActive, DeploymentsOf, Creating
<1>6. ASSUME NEW p \in Pollers, NEW i \in batch[p], Refused(p, i) PROVE JobsCounted'
  BY <1>6 DEF Refused, Comes, Skip, edge, hub, rows, poll, TypeOK, JobsCounted, OneActive,
     DeploymentsOf, Creating
<1>7. ASSUME NEW p \in Pollers, NEW i \in batch[p], ReplayAcked(p, i) PROVE JobsCounted'
  BY <1>7 DEF ReplayAcked, Comes, Skip, WithoutJob, edge, hub, rows, poll, TypeOK, JobsCounted,
     OneActive, DeploymentsOf, Creating
<1>8. ASSUME NEW p \in Pollers, NEW i \in batch[p], Reverify(p, i) PROVE JobsCounted'
  BY <1>8 DEF Reverify, Comes, Skip, edge, hub, rows, poll, TypeOK, JobsCounted, OneActive,
     DeploymentsOf, Creating
<1>9. ASSUME NEW p \in Pollers, MaterializeRefused(p) PROVE JobsCounted'
  <2>1. /\ deps' = deps /\ overlapped' = overlapped /\ pc \in [Pollers -> Pcs]
        /\ \A q \in Pollers : q # p => pc'[q] = pc[q] /\ cur'[q] = cur[q]
        /\ pc'[p] \notin {"create", "queue"}
    BY <1>9 DEF MaterializeRefused, NextItem, TypeOK, edge, hub, rows, poll
  <2>2. \A id \in 1..MaxPosts : Creating(id)' \subseteq Creating(id)
    BY <2>1 DEF Creating
  <2> QED BY <2>1, <2>2, JobsKept
<1>10. ASSUME NEW p \in Pollers, Materialize(p) PROVE JobsCounted'
  <2>1. CASE Existing(cur[p].id) /\ Goto(p, "ack")
    <3>1. /\ deps' = deps /\ overlapped' = overlapped /\ pc \in [Pollers -> Pcs] /\ cur' = cur
          /\ pc' = [pc EXCEPT ![p] = "ack"]
      BY <1>10, <2>1 DEF Materialize, Goto, TypeOK, edge, hub, rows, poll
    <3>2. \A id \in 1..MaxPosts : Creating(id)' \subseteq Creating(id)
      BY <3>1 DEF Creating
    <3> QED BY <3>1, <3>2, JobsKept
  <2>2. CASE ~Existing(cur[p].id) /\ Goto(p, Creator(p))
    <3>1. /\ deps' = deps /\ overlapped' = overlapped /\ pc \in [Pollers -> Pcs] /\ cur' = cur
          /\ pc' = [pc EXCEPT ![p] = Creator(p)]
      BY <1>10, <2>2 DEF Materialize, Goto, TypeOK, edge, hub, rows, poll
    <3>2. \A id \in 1..MaxPosts : DeploymentsOf(id) # {} => Creating(id)' \subseteq Creating(id)
      BY <2>2, <3>1 DEF Creating, Existing, DeploymentsOf
    <3> QED BY <3>1, <3>2, JobsKept
  <2> QED BY <1>10, <2>1, <2>2 DEF Materialize
<1>11. ASSUME NEW p \in Pollers, CreateSite(p) PROVE JobsCounted'
  <2>1. CASE site[Req(p).tenant] = "none"
    <3>1. /\ deps' = deps /\ overlapped' = overlapped /\ pc \in [Pollers -> Pcs] /\ cur' = cur
          /\ pc' = [pc EXCEPT ![p] = "queue"] /\ pc[p] = "create"
      BY <1>11, <2>1 DEF CreateSite, Goto, TypeOK, edge, hub, rows, poll
    <3>2. \A id \in 1..MaxPosts : Creating(id)' \subseteq Creating(id)
      BY <3>1 DEF Creating
    <3> QED BY <3>1, <3>2, JobsKept
  <2>2. CASE site[Req(p).tenant] # "none"
    <3>1. /\ deps' = deps /\ overlapped' = overlapped /\ pc \in [Pollers -> Pcs]
          /\ \A q \in Pollers : q # p => pc'[q] = pc[q] /\ cur'[q] = cur[q]
          /\ pc'[p] \notin {"create", "queue"}
      BY <1>11, <2>2 DEF CreateSite, NextItem, TypeOK, edge, hub, rows, poll
    <3>2. \A id \in 1..MaxPosts : Creating(id)' \subseteq Creating(id)
      BY <3>1 DEF Creating
    <3> QED BY <3>1, <3>2, JobsKept
  <2> QED BY <2>1, <2>2
<1>12. ASSUME NEW p \in Pollers, CreateQueued(p) PROVE JobsCounted'
  <2>1. /\ pc[p] = "queue" /\ pc' = [pc EXCEPT ![p] = "ack"] /\ pc \in [Pollers -> Pcs]
        /\ UNCHANGED <<cur, overlapped>>
        /\ deps' = Append(deps, [job |-> cur[p].id, req |-> Req(p), at |-> now])
    BY <1>12 DEF CreateQueued, Goto, TypeOK, edge, hub, rows, poll
  <2>2. deps \in Seq([job : 1..MaxPosts, req : Requests, at : 0..MaxNow]) /\ Len(deps) \in Nat
    BY DEF TypeOK
  <2>3. /\ DOMAIN deps' = DOMAIN deps \cup {Len(deps) + 1} /\ Len(deps) + 1 \notin DOMAIN deps
        /\ \A k \in DOMAIN deps : deps'[k] = deps[k]
        /\ deps'[Len(deps) + 1].job = cur[p].id
    BY <2>1, <2>2
  <2>4. SUFFICES ASSUME NEW id \in 1..MaxPosts, DeploymentsOf(id)' # {}
               PROVE  Cardinality(DeploymentsOf(id)') + Cardinality(Creating(id)')
                          <= (IF overlapped THEN Cardinality(Pollers) ELSE 1)
    BY <2>1 DEF JobsCounted
  <2>5. Creating(id) \in SUBSET Pollers /\ Creating(id)' = Creating(id) \ {p}
    BY <2>1 DEF Creating
  <2>6. /\ IsFiniteSet(Creating(id)) /\ IsFiniteSet(DeploymentsOf(id))
        /\ Cardinality(Creating(id)) \in Nat
        /\ Cardinality(DeploymentsOf(id)) \in Nat /\ Cardinality(Pollers) \in Nat
        /\ Cardinality(Creating(id)) <= Cardinality(Pollers)
    BY <2>5, CountsFinite
  <2>7. Cardinality(Creating(id)') = IF p \in Creating(id) THEN Cardinality(Creating(id)) - 1 ELSE Cardinality(Creating(id))
    BY <2>5, <2>6, FS_RemoveElement
  <2>8. CASE cur[p].id # id
    <3>1. DeploymentsOf(id)' = DeploymentsOf(id)
      BY <2>3, <2>8 DEF DeploymentsOf
    <3>2. Cardinality(DeploymentsOf(id)) + Cardinality(Creating(id)) <= (IF overlapped THEN Cardinality(Pollers) ELSE 1)
      BY <2>4, <3>1 DEF JobsCounted
    <3> QED BY <2>6, <2>7, <3>1, <3>2
  <2>9. CASE cur[p].id = id
    <3>1. /\ DeploymentsOf(id)' = DeploymentsOf(id) \cup {Len(deps) + 1}
          /\ Len(deps) + 1 \notin DeploymentsOf(id)
      BY <2>3, <2>9 DEF DeploymentsOf
    <3>2. Cardinality(DeploymentsOf(id)') = Cardinality(DeploymentsOf(id)) + 1
      BY <2>6, <3>1, FS_AddElement
    <3>3. p \in Creating(id)
      BY <2>1, <2>9 DEF Creating
    <3>4. Cardinality(Creating(id)') = Cardinality(Creating(id)) - 1
      BY <2>7, <3>3
    <3>5. CASE DeploymentsOf(id) # {}
      <4>1. Cardinality(DeploymentsOf(id)) + Cardinality(Creating(id)) <= (IF overlapped THEN Cardinality(Pollers) ELSE 1)
        BY <3>5 DEF JobsCounted
      <4> QED BY <2>6, <3>2, <3>4, <4>1
    <3>6. CASE DeploymentsOf(id) = {} /\ overlapped
      <4>1. Cardinality(DeploymentsOf(id)) = 0
        BY <3>6, FS_EmptySet
      <4> QED BY <2>6, <3>2, <3>4, <3>6, <4>1
    <3>7. CASE DeploymentsOf(id) = {} /\ ~overlapped
      <4>1. Cardinality(DeploymentsOf(id)) = 0
        BY <3>7, FS_EmptySet
      <4>2. Creating(id)' = {}
        BY <2>1, <2>5, <3>7 DEF OneActive, Creating
      <4>3. Cardinality(Creating(id)') = 0
        BY <4>2, FS_EmptySet
      <4> QED BY <3>2, <3>7, <4>1, <4>3
    <3> QED BY <3>5, <3>6, <3>7
  <2> QED BY <2>8, <2>9
<1>13. ASSUME NEW p \in Pollers, VersionConflict(p) PROVE JobsCounted'
  <2>1. /\ deps' = deps /\ overlapped' = overlapped /\ pc \in [Pollers -> Pcs]
        /\ \A q \in Pollers : q # p => pc'[q] = pc[q] /\ cur'[q] = cur[q]
        /\ pc'[p] \notin {"create", "queue"}
    BY <1>13 DEF VersionConflict, NextItem, TypeOK, edge, hub, rows, poll
  <2>2. \A id \in 1..MaxPosts : Creating(id)' \subseteq Creating(id)
    BY <2>1 DEF Creating
  <2> QED BY <2>1, <2>2, JobsKept
<1>14. ASSUME NEW p \in Pollers, Ack(p) PROVE JobsCounted'
  BY <1>14 DEF Ack, Goto, WithoutJob, edge, hub, rows, poll, TypeOK, JobsCounted, OneActive,
     DeploymentsOf, Creating
<1>15. ASSUME NEW p \in Pollers, Persist(p) PROVE JobsCounted'
  <2>1. /\ deps' = deps /\ overlapped' = overlapped /\ pc \in [Pollers -> Pcs]
        /\ \A q \in Pollers : q # p => pc'[q] = pc[q] /\ cur'[q] = cur[q]
        /\ pc'[p] \notin {"create", "queue"}
    BY <1>15 DEF Persist, NextItem, TypeOK, edge, hub, rows, poll
  <2>2. \A id \in 1..MaxPosts : Creating(id)' \subseteq Creating(id)
    BY <2>1 DEF Creating
  <2> QED BY <2>1, <2>2, JobsKept
<1>16. ASSUME NEW p \in Pollers, AckFails(p) PROVE JobsCounted'
  <2>1. /\ deps' = deps /\ overlapped' = overlapped /\ pc \in [Pollers -> Pcs]
        /\ \A q \in Pollers : q # p => pc'[q] = pc[q] /\ cur'[q] = cur[q]
        /\ pc'[p] \notin {"create", "queue"}
    BY <1>16 DEF AckFails, NextItem, OneEvent, TypeOK, edge, hub, rows, poll
  <2>2. \A id \in 1..MaxPosts : Creating(id)' \subseteq Creating(id)
    BY <2>1 DEF Creating
  <2> QED BY <2>1, <2>2, JobsKept
<1>17. ASSUME NEW p \in Pollers, Crash(p) PROVE JobsCounted'
  <2>1. /\ deps' = deps /\ overlapped' = overlapped /\ pc \in [Pollers -> Pcs]
        /\ \A q \in Pollers : q # p => pc'[q] = pc[q] /\ cur'[q] = cur[q]
        /\ pc'[p] \notin {"create", "queue"}
    BY <1>17 DEF Crash, OneEvent, TypeOK, edge, hub, rows, poll
  <2>2. \A id \in 1..MaxPosts : Creating(id)' \subseteq Creating(id)
    BY <2>1 DEF Creating
  <2> QED BY <2>1, <2>2, JobsKept
<1>18. ASSUME KillSwitch PROVE JobsCounted'
  BY <1>18 DEF KillSwitch, OneEvent, edge, hub, rows, poll, TypeOK, JobsCounted, OneActive,
     DeploymentsOf, Creating
<1>19. ASSUME Suspend PROVE JobsCounted'
  BY <1>19 DEF Suspend, OneEvent, edge, hub, rows, poll, TypeOK, JobsCounted, OneActive,
     DeploymentsOf, Creating
<1>20. ASSUME SuspendFails PROVE JobsCounted'
  BY <1>20 DEF SuspendFails, edge, hub, rows, poll, TypeOK, JobsCounted, OneActive,
     DeploymentsOf, Creating
<1>21. ASSUME Tick PROVE JobsCounted'
  BY <1>21 DEF Tick, edge, hub, rows, poll, TypeOK, JobsCounted, OneActive, DeploymentsOf,
     Creating
<1>22. ASSUME NEW d \in Ranks, DestinationRank(d) PROVE JobsCounted'
  BY <1>22 DEF DestinationRank, OneEvent, edge, hub, rows, poll, TypeOK, JobsCounted,
     OneActive, DeploymentsOf, Creating
<1>23. ASSUME NEW t \in Tenants, StopPartnerSite(t) PROVE JobsCounted'
  BY <1>23 DEF StopPartnerSite, edge, hub, rows, poll, TypeOK, JobsCounted, OneActive,
     DeploymentsOf, Creating
<1>24. ASSUME NEW t \in Tenants, SiteTakedown(t) PROVE JobsCounted'
  BY <1>24 DEF SiteTakedown, OneEvent, edge, hub, rows, poll, TypeOK, JobsCounted, OneActive,
     DeploymentsOf, Creating
<1>25. CASE UNCHANGED vars
  BY <1>25 DEF vars, edge, hub, rows, poll, JobsCounted, DeploymentsOf, Creating
<1> QED
  BY <1>1, <1>2, <1>3, <1>4, <1>5, <1>6, <1>7, <1>8, <1>9, <1>10, <1>11, <1>12, <1>13, <1>14,
     <1>15, <1>16, <1>17, <1>18, <1>19, <1>20, <1>21, <1>22, <1>23, <1>24, <1>25 DEF Next,
     PollStep

\* A set of one element.
LEMMA OneElement == \A x : Cardinality({x}) = 1
<1> TAKE x
<1>1. IsFiniteSet({}) /\ Cardinality({}) = 0 /\ x \notin {} /\ {} \cup {x} = {x}
  BY FS_EmptySet
<1> QED BY <1>1, FS_AddElement

\* No tenant is bound and no poller is about to bind another: the count holds.
LEMMA SitesKept ==
    ASSUME TypeOK, SitesCounted, Bound' = Bound, Binding' \subseteq Binding, stopping' \subseteq stopping,
           overlapped' = overlapped \/ (overlapped' = TRUE /\ Pollers # {})
    PROVE  SitesCounted'
<1>1. Binding \in SUBSET Pollers /\ Binding' \in SUBSET Pollers /\ Bound \in SUBSET Tenants
  BY DEF Binding, Bound
<1>2. /\ IsFiniteSet(Binding) /\ Cardinality(Binding) \in Nat /\ Cardinality(Binding') \in Nat
      /\ Cardinality(Bound) \in Nat /\ Cardinality(Pollers) \in Nat
  BY <1>1, CountsFinite
<1>3. Cardinality(Binding') <= Cardinality(Binding)
  BY <1>2, FS_Subset
<1>4. Pollers # {} => Cardinality(Pollers) >= 1
  BY PollersAssumption, FS_EmptySet, FS_CardinalityType
<1>5. (IF overlapped THEN Cardinality(Pollers) - 1 ELSE 0) <= (IF overlapped' THEN Cardinality(Pollers) - 1 ELSE 0)
  BY <1>2, <1>4
<1>6. Cardinality(Bound) + Cardinality(Binding) <= MaxSites + (IF overlapped THEN Cardinality(Pollers) - 1 ELSE 0)
  BY DEF SitesCounted
<1>7. Cardinality(Bound') + Cardinality(Binding')
        <= MaxSites + (IF overlapped' THEN Cardinality(Pollers) - 1 ELSE 0)
  BY <1>2, <1>3, <1>5, <1>6, LimitsAssumption
<1>8. stopping' \subseteq Bound'
  BY DEF SitesCounted
<1> QED BY <1>7, <1>8 DEF SitesCounted

\* The quota is looked at by a poll before it binds, and by each of the overlapping ones.
LEMMA SitesNext ==
    TypeOK /\ OneActive /\ SitesCounted /\ [Next]_vars => SitesCounted'
<1> SUFFICES ASSUME TypeOK, OneActive, SitesCounted, [Next]_vars PROVE SitesCounted'
  OBVIOUS
<1>1. ASSUME NEW r \in Requests, IntakePost(r) PROVE SitesCounted'
  BY <1>1 DEF IntakePost, edge, hub, rows, poll, TypeOK, SitesCounted, OneActive, Bound, Binding
<1>2. ASSUME PlantGitPush PROVE SitesCounted'
  BY <1>2 DEF PlantGitPush, edge, hub, rows, poll, TypeOK, SitesCounted, OneActive, Bound,
     Binding
<1>3. ASSUME NEW p \in Pollers, PollFetch(p) PROVE SitesCounted'
  <2>1. /\ UNCHANGED <<site, stopping>> /\ pc \in [Pollers -> Pcs]
        /\ overlapped' = (overlapped \/ \E q \in Pollers : pc[q] # "idle")
        /\ pc' = [pc EXCEPT ![p] = "next"]
    BY <1>3 DEF PollFetch, Goto, TypeOK, edge, hub, rows, poll
  <2>2. overlapped' = overlapped \/ overlapped' = TRUE
    BY <2>1, Zenon DEF TypeOK
  <2>3. Bound' = Bound
    BY <2>1 DEF Bound
  <2>4. Binding' \subseteq Binding
    BY <2>1 DEF Binding
  <2> QED BY <2>1, <2>2, <2>3, <2>4, SitesKept
<1>4. ASSUME NEW p \in Pollers, PollEnd(p) PROVE SitesCounted'
  BY <1>4 DEF PollEnd, Goto, edge, hub, rows, poll, TypeOK, SitesCounted, OneActive, Bound,
     Binding
<1>5. ASSUME NEW p \in Pollers, NEW i \in batch[p], HandleGitPush(p, i) PROVE SitesCounted'
  BY <1>5 DEF HandleGitPush, Comes, Skip, WithoutJob, edge, hub, rows, poll, TypeOK,
     SitesCounted, OneActive, Bound, Binding
<1>6. ASSUME NEW p \in Pollers, NEW i \in batch[p], Refused(p, i) PROVE SitesCounted'
  BY <1>6 DEF Refused, Comes, Skip, edge, hub, rows, poll, TypeOK, SitesCounted, OneActive,
     Bound, Binding
<1>7. ASSUME NEW p \in Pollers, NEW i \in batch[p], ReplayAcked(p, i) PROVE SitesCounted'
  BY <1>7 DEF ReplayAcked, Comes, Skip, WithoutJob, edge, hub, rows, poll, TypeOK,
     SitesCounted, OneActive, Bound, Binding
<1>8. ASSUME NEW p \in Pollers, NEW i \in batch[p], Reverify(p, i) PROVE SitesCounted'
  BY <1>8 DEF Reverify, Comes, Skip, edge, hub, rows, poll, TypeOK, SitesCounted, OneActive,
     Bound, Binding
<1>9. ASSUME NEW p \in Pollers, MaterializeRefused(p) PROVE SitesCounted'
  BY <1>9 DEF MaterializeRefused, NextItem, edge, hub, rows, poll, TypeOK, SitesCounted,
     OneActive, Bound, Binding
<1>10. ASSUME NEW p \in Pollers, Materialize(p) PROVE SitesCounted'
  <2>0. UNCHANGED <<site, stopping, overlapped>> /\ pc \in [Pollers -> Pcs]
    BY <1>10 DEF Materialize, TypeOK, edge, hub, rows, poll
  <2>1. Bound' = Bound
    BY <2>0 DEF Bound
  <2>2. CASE pc' = [pc EXCEPT ![p] = "ack"] \/ pc' = [pc EXCEPT ![p] = "queue"]
    <3>1. Binding' \subseteq Binding
      BY <2>0, <2>2 DEF Binding
    <3> QED BY <2>0, <2>1, <3>1, SitesKept
  <2>3. CASE Req(p).tenant \notin Bound /\ ~QuotasRefuse(p) /\ pc' = [pc EXCEPT ![p] = "create"]
    <3>1. ~SitesRefused(Req(p))
      BY <2>3, Zenon DEF QuotasRefuse, QuotaRefused
    <3>2. Bound \in SUBSET Tenants /\ Binding' \in SUBSET Pollers
      BY DEF Bound, Binding
    <3>3. /\ Cardinality(Bound) \in Nat /\ Cardinality(Binding') \in Nat
          /\ Cardinality(Pollers) \in Nat
          /\ Cardinality(Binding') <= Cardinality(Pollers)
      BY <3>2, CountsFinite
    <3>4. ~(Cardinality(Bound) >= MaxSites)
      BY <2>3, <3>1 DEF SitesRefused
    <3>5. ~overlapped => Cardinality(Binding') = 1
      <4>1. SUFFICES ASSUME ~overlapped PROVE Binding' = {p}
        BY FS_EmptySet, FS_AddElement, FS_CardinalityType, OneElement
      <4>2. pc[p] # "idle"
        BY <1>10 DEF Materialize
      <4> QED BY <2>0, <2>3, <4>1, <4>2 DEF Binding, OneActive
    <3>6. Cardinality(Bound') + Cardinality(Binding') <= MaxSites + (IF overlapped' THEN Cardinality(Pollers) - 1 ELSE 0)
      BY <2>0, <2>1, <3>3, <3>4, <3>5, LimitsAssumption
    <3> QED BY <2>0, <2>1, <3>6 DEF SitesCounted
  <2> QED BY <1>10, <2>2, <2>3, Zenon DEF Materialize, Goto, Creator
<1>11. ASSUME NEW p \in Pollers, CreateSite(p) PROVE SitesCounted'
  <2>0. UNCHANGED <<stopping, overlapped>> /\ pc \in [Pollers -> Pcs] /\ pc[p] = "create"
    BY <1>11 DEF CreateSite, TypeOK, edge, hub, rows, poll
  <2>1. CASE site[Req(p).tenant] = "none"
    <3>0. Req(p).tenant \in Tenants
      BY <2>0 DEF Req, Tenants, TypeOK, Working, Items
    <3>1. site' = [site EXCEPT ![Req(p).tenant] = "bound"] /\ pc' = [pc EXCEPT ![p] = "queue"]
      BY <1>11, <2>1 DEF CreateSite, Goto
    <3>2. /\ Bound' = Bound \cup {Req(p).tenant} /\ Req(p).tenant \notin Bound
          /\ Bound \in SUBSET Tenants
      BY <2>1, <3>0, <3>1 DEF Bound, TypeOK
    <3>3. Binding' = Binding \ {p} /\ p \in Binding /\ Binding \in SUBSET Pollers
      BY <2>0, <3>1 DEF Binding
    <3>4. /\ IsFiniteSet(Bound) /\ IsFiniteSet(Binding) /\ Cardinality(Bound) \in Nat
          /\ Cardinality(Binding) \in Nat
      BY <3>2, <3>3, CountsFinite
    <3>5. Cardinality(Bound') = Cardinality(Bound) + 1
      BY <3>2, <3>4, FS_AddElement
    <3>6. Cardinality(Binding') = Cardinality(Binding) - 1
      BY <3>3, <3>4, FS_RemoveElement
    <3>7. stopping' \subseteq Bound'
      BY <2>0, <3>2 DEF SitesCounted
    <3>8. Cardinality(Bound') + Cardinality(Binding') = Cardinality(Bound) + Cardinality(Binding)
      BY <3>4, <3>5, <3>6
    <3> QED BY <2>0, <3>7, <3>8 DEF SitesCounted
  <2>2. CASE site[Req(p).tenant] # "none"
    <3>1. UNCHANGED site /\ pc' = [pc EXCEPT ![p] = "next"]
      BY <1>11, <2>2 DEF CreateSite, NextItem
    <3>2. Bound' = Bound
      BY <3>1 DEF Bound
    <3>3. Binding' \subseteq Binding
      BY <2>0, <3>1 DEF Binding
    <3> QED BY <2>0, <3>2, <3>3, SitesKept
  <2> QED BY <2>1, <2>2
<1>12. ASSUME NEW p \in Pollers, CreateQueued(p) PROVE SitesCounted'
  BY <1>12 DEF CreateQueued, Goto, edge, hub, rows, poll, TypeOK, SitesCounted, OneActive,
     Bound, Binding
<1>13. ASSUME NEW p \in Pollers, VersionConflict(p) PROVE SitesCounted'
  BY <1>13 DEF VersionConflict, NextItem, edge, hub, rows, poll, TypeOK, SitesCounted,
     OneActive, Bound, Binding
<1>14. ASSUME NEW p \in Pollers, Ack(p) PROVE SitesCounted'
  BY <1>14 DEF Ack, Goto, WithoutJob, edge, hub, rows, poll, TypeOK, SitesCounted, OneActive,
     Bound, Binding
<1>15. ASSUME NEW p \in Pollers, Persist(p) PROVE SitesCounted'
  BY <1>15 DEF Persist, NextItem, edge, hub, rows, poll, TypeOK, SitesCounted, OneActive,
     Bound, Binding
<1>16. ASSUME NEW p \in Pollers, AckFails(p) PROVE SitesCounted'
  BY <1>16 DEF AckFails, NextItem, OneEvent, edge, hub, rows, poll, TypeOK, SitesCounted,
     OneActive, Bound, Binding
<1>17. ASSUME NEW p \in Pollers, Crash(p) PROVE SitesCounted'
  <2>1. /\ UNCHANGED <<stopping, overlapped>> /\ pc \in [Pollers -> Pcs]
        /\ pc' = [pc EXCEPT ![p] = "idle"]
    BY <1>17 DEF Crash, TypeOK, edge, hub, rows, poll
  <2>2. Binding' \subseteq Binding
    BY <2>1 DEF Binding
  <2>3. CASE UNCHANGED site
    <3>1. Bound' = Bound
      BY <2>3 DEF Bound
    <3> QED BY <2>1, <2>2, <3>1, SitesKept
  <2>4. CASE site[Req(p).tenant] = "none" /\ site' = [site EXCEPT ![Req(p).tenant] = "project"]
    <3>1. Bound' = Bound
      BY <2>4 DEF Bound, TypeOK
    <3> QED BY <2>1, <2>2, <3>1, SitesKept
  <2> QED BY <1>17, <2>3, <2>4, Zenon DEF Crash
<1>18. ASSUME KillSwitch PROVE SitesCounted'
  BY <1>18 DEF KillSwitch, OneEvent, edge, hub, rows, poll, TypeOK, SitesCounted, OneActive,
     Bound, Binding
<1>19. ASSUME Suspend PROVE SitesCounted'
  BY <1>19 DEF Suspend, OneEvent, edge, hub, rows, poll, TypeOK, SitesCounted, OneActive,
     Bound, Binding
<1>20. ASSUME SuspendFails PROVE SitesCounted'
  BY <1>20 DEF SuspendFails, edge, hub, rows, poll, TypeOK, SitesCounted, OneActive, Bound,
     Binding
<1>21. ASSUME Tick PROVE SitesCounted'
  BY <1>21 DEF Tick, edge, hub, rows, poll, TypeOK, SitesCounted, OneActive, Bound, Binding
<1>22. ASSUME NEW d \in Ranks, DestinationRank(d) PROVE SitesCounted'
  BY <1>22 DEF DestinationRank, OneEvent, edge, hub, rows, poll, TypeOK, SitesCounted,
     OneActive, Bound, Binding
<1>23. ASSUME NEW t \in Tenants, StopPartnerSite(t) PROVE SitesCounted'
  BY <1>23 DEF StopPartnerSite, edge, hub, rows, poll, TypeOK, SitesCounted, OneActive, Bound,
     Binding
<1>24. ASSUME NEW t \in Tenants, SiteTakedown(t) PROVE SitesCounted'
  BY <1>24 DEF SiteTakedown, OneEvent, edge, hub, rows, poll, TypeOK, SitesCounted, OneActive,
     Bound, Binding
<1>25. CASE UNCHANGED vars
  BY <1>25 DEF vars, edge, hub, rows, poll, SitesCounted, Bound, Binding
<1> QED
  BY <1>1, <1>2, <1>3, <1>4, <1>5, <1>6, <1>7, <1>8, <1>9, <1>10, <1>11, <1>12, <1>13, <1>14,
     <1>15, <1>16, <1>17, <1>18, <1>19, <1>20, <1>21, <1>22, <1>23, <1>24, <1>25 DEF Next,
     PollStep

\* What holds of the edge, the rows and the polls together.
IntakeInv ==
    /\ TypeOK /\ OneActive /\ InFlightFresh /\ SpentIsKept
    /\ JobsCounted /\ SitesCounted /\ LateIsLast

\* It holds before the first request ...
LEMMA IntakeInit == Init => IntakeInv
<1> SUFFICES ASSUME Init PROVE IntakeInv
  OBVIOUS
<1> USE LimitsAssumption, RequestsAssumption
<1>1. TypeOK
  <2>1. partner \in [suspended : BOOLEAN, keyed : BOOLEAN] /\ overlapped \in BOOLEAN /\ flag \in BOOLEAN
    BY DEF Init
  <2>2. /\ outbox \subseteq Items /\ batch \in [Pollers -> SUBSET Items]
        /\ cur \in [Pollers -> {NoItem} \cup Items] /\ stopping \subseteq Tenants /\ spent \subseteq NonceSet
        /\ site \in [Tenants -> {"none", "project", "bound", "stopped", "absent"}]
        /\ nonces \in [NonceSet -> Never..MaxNow] /\ dest \in Ranks \cup {"ok"}
        /\ idem \in [Keys -> {NoResult} \cup [params : {Params(r) : r \in Requests}, at : 0..MaxNow]]
        /\ deps \in Seq([job : 1..MaxPosts, req : Requests, at : 0..MaxNow])
    BY DEF Init, Never
  <2>3. /\ pc \in [Pollers -> Pcs] /\ clk \in [Pollers -> 0..MaxNow] /\ on \in [Pollers -> BOOLEAN]
        /\ \A p \in Pollers : pc[p] \in Working => cur[p] \in Items
    BY DEF Init, Pcs, Working
  <2>4. /\ now \in 0..MaxNow /\ lastId \in 0..MaxPosts /\ posts = lastId
        /\ events \in 0..MaxEvents /\ late \in [Pollers -> Nat]
    BY DEF Init
  <2> QED BY <2>1, <2>2, <2>3, <2>4 DEF TypeOK
<1>2. OneActive /\ InFlightFresh /\ SpentIsKept /\ LateIsLast
  BY DEF Init, OneActive, InFlightFresh, SpentIsKept, LateIsLast, Working
<1>3. JobsCounted
  BY DEF Init, JobsCounted, DeploymentsOf
<1>4. SitesCounted
  <2>1. Bound = {} /\ Binding = {} /\ stopping = {} /\ overlapped = FALSE
    BY DEF Init, Bound, Binding
  <2>2. Cardinality(Bound) = 0 /\ Cardinality(Binding) = 0
    BY <2>1, FS_EmptySet
  <2> QED BY <2>1, <2>2 DEF SitesCounted
<1> QED BY <1>1, <1>2, <1>3, <1>4 DEF IntakeInv

\* ... and every step of the edge, a poll or the operator keeps it.
LEMMA IntakeNext == IntakeInv /\ [Next]_vars => IntakeInv'
BY TypeNext, ActiveNext, FreshNext, SpentNext, JobsNext, SitesNext, LateNext DEF IntakeInv

\* IntakeInv is an invariant of the specification.
THEOREM IntakeTheorem == Spec => []IntakeInv
BY IntakeInit, IntakeNext, PTL DEF Spec

\* An outbox item becomes one Deployment, and one for each poller at most once polls have
\* overlapped (find_by_job_id in core/partner_jobs.py).
THEOREM JobTheorem == Spec => []JobAppliedOnce
<1>1. IntakeInv => JobAppliedOnce
  <2> SUFFICES ASSUME IntakeInv, NEW id \in 1..lastId
               PROVE  Cardinality(DeploymentsOf(id)) <= (IF overlapped THEN Cardinality(Pollers) ELSE 1)
    BY DEF JobAppliedOnce
  <2>1. TypeOK /\ JobsCounted /\ id \in 1..MaxPosts
    BY LimitsAssumption DEF IntakeInv, TypeOK
  <2>2. Creating(id) \in SUBSET Pollers
    BY DEF Creating
  <2>3. /\ Cardinality(DeploymentsOf(id)) \in Nat /\ Cardinality(Creating(id)) \in Nat
        /\ Cardinality(Pollers) \in Nat
    BY <2>1, <2>2, CountsFinite
  <2>4. CASE DeploymentsOf(id) = {}
    BY <2>3, <2>4, FS_EmptySet
  <2>5. CASE DeploymentsOf(id) # {}
    BY <2>1, <2>3, <2>5 DEF JobsCounted
  <2> QED BY <2>4, <2>5
<1> QED BY <1>1, IntakeTheorem, PTL

\* The sites of the partner stay within max_sites but for one per overlapping poll, and a poll
\* that was under way when the API was shut creates one deployment at most (evaluate_quotas in
\* core/partner_verify.py, materialize in core/partner_jobs.py).
THEOREM LimitsTheorem == Spec => []WithinLimits
<1>1. IntakeInv => WithinLimits
  <2> SUFFICES ASSUME IntakeInv PROVE SitesWithinQuota /\ ShutBounded
    BY DEF WithinLimits
  <2>1. Binding \in SUBSET Pollers /\ Bound \in SUBSET Tenants
    BY DEF Binding, Bound
  <2>2. Cardinality(Binding) \in Nat /\ Cardinality(Bound) \in Nat /\ Cardinality(Pollers) \in Nat
    BY <2>1, CountsFinite DEF IntakeInv
  <2>3. SitesWithinQuota
    BY <2>2, LimitsAssumption DEF IntakeInv, SitesCounted, SitesWithinQuota
  <2>4. ShutBounded
    BY DEF IntakeInv, LateIsLast, ShutBounded
  <2> QED BY <2>3, <2>4
<1> QED BY <1>1, IntakeTheorem, PTL

\* A poll verifies no request whose nonce was stored, as long as polls do not overlap: the row
\* is pruned only when the request is stale (_remember_nonce in core/partner_verify.py).
THEOREM NonceTheorem == Spec => SpentNonceRefused
<1>1. IntakeInv /\ [Next]_vars => [FreshNonce]_vars
  <2> SUFFICES ASSUME IntakeInv, Next, NEW p \in Pollers, pc[p] = "next", pc'[p] = "verified", ~overlapped
               PROVE  cur'[p].req.nonce \notin spent
    BY DEF FreshNonce
  <2>1. PICK i \in batch[p] : Reverify(p, i)
    <3>1. ASSUME NEW r \in Requests, IntakePost(r) PROVE FALSE
      BY <3>1 DEF IntakePost, IntakeInv, TypeOK, edge, hub, rows, poll
    <3>2. ASSUME PlantGitPush PROVE FALSE
      BY <3>2 DEF PlantGitPush, IntakeInv, TypeOK, edge, hub, rows, poll
    <3>3. ASSUME NEW q \in Pollers, PollFetch(q) PROVE FALSE
      BY <3>3 DEF PollFetch, Goto, IntakeInv, TypeOK, edge, hub, rows, poll
    <3>4. ASSUME NEW q \in Pollers, PollEnd(q) PROVE FALSE
      BY <3>4 DEF PollEnd, Goto, IntakeInv, TypeOK, edge, hub, rows, poll
    <3>5. ASSUME NEW q \in Pollers, NEW i \in batch[q], HandleGitPush(q, i) PROVE FALSE
      BY <3>5 DEF HandleGitPush, Comes, Skip, WithoutJob, IntakeInv, TypeOK, edge, hub, rows,
         poll
    <3>6. ASSUME NEW q \in Pollers, NEW i \in batch[q], Refused(q, i) PROVE FALSE
      BY <3>6 DEF Refused, Comes, Skip, IntakeInv, TypeOK, edge, hub, rows, poll
    <3>7. ASSUME NEW q \in Pollers, NEW i \in batch[q], ReplayAcked(q, i) PROVE FALSE
      BY <3>7 DEF ReplayAcked, Comes, Skip, WithoutJob, IntakeInv, TypeOK, edge, hub, rows, poll
    <3>8. ASSUME NEW q \in Pollers, NEW i \in batch[q], Reverify(q, i) PROVE q = p
      BY <3>8 DEF Reverify, Comes, Skip, IntakeInv, TypeOK, edge, hub, rows, poll
    <3>9. ASSUME NEW q \in Pollers, MaterializeRefused(q) PROVE FALSE
      BY <3>9 DEF MaterializeRefused, NextItem, IntakeInv, TypeOK, edge, hub, rows, poll
    <3>10. ASSUME NEW q \in Pollers, Materialize(q) PROVE FALSE
      BY <3>10 DEF Materialize, Goto, Creator, IntakeInv, TypeOK, edge, hub, rows, poll
    <3>11. ASSUME NEW q \in Pollers, CreateSite(q) PROVE FALSE
      BY <3>11 DEF CreateSite, Goto, NextItem, IntakeInv, TypeOK, edge, hub, rows, poll
    <3>12. ASSUME NEW q \in Pollers, CreateQueued(q) PROVE FALSE
      BY <3>12 DEF CreateQueued, Goto, IntakeInv, TypeOK, edge, hub, rows, poll
    <3>13. ASSUME NEW q \in Pollers, VersionConflict(q) PROVE FALSE
      BY <3>13 DEF VersionConflict, NextItem, IntakeInv, TypeOK, edge, hub, rows, poll
    <3>14. ASSUME NEW q \in Pollers, Ack(q) PROVE FALSE
      BY <3>14 DEF Ack, Goto, WithoutJob, IntakeInv, TypeOK, edge, hub, rows, poll
    <3>15. ASSUME NEW q \in Pollers, Persist(q) PROVE FALSE
      BY <3>15 DEF Persist, NextItem, IntakeInv, TypeOK, edge, hub, rows, poll
    <3>16. ASSUME NEW q \in Pollers, AckFails(q) PROVE FALSE
      BY <3>16 DEF AckFails, NextItem, OneEvent, IntakeInv, TypeOK, edge, hub, rows, poll
    <3>17. ASSUME NEW q \in Pollers, Crash(q) PROVE FALSE
      BY <3>17 DEF Crash, OneEvent, IntakeInv, TypeOK, edge, hub, rows, poll
    <3>18. ASSUME KillSwitch PROVE FALSE
      BY <3>18 DEF KillSwitch, OneEvent, IntakeInv, TypeOK, edge, hub, rows, poll
    <3>19. ASSUME Suspend PROVE FALSE
      BY <3>19 DEF Suspend, OneEvent, IntakeInv, TypeOK, edge, hub, rows, poll
    <3>20. ASSUME SuspendFails PROVE FALSE
      BY <3>20 DEF SuspendFails, IntakeInv, TypeOK, edge, hub, rows, poll
    <3>21. ASSUME Tick PROVE FALSE
      BY <3>21 DEF Tick, IntakeInv, TypeOK, edge, hub, rows, poll
    <3>22. ASSUME NEW d \in Ranks, DestinationRank(d) PROVE FALSE
      BY <3>22 DEF DestinationRank, OneEvent, IntakeInv, TypeOK, edge, hub, rows, poll
    <3>23. ASSUME NEW t \in Tenants, StopPartnerSite(t) PROVE FALSE
      BY <3>23 DEF StopPartnerSite, IntakeInv, TypeOK, edge, hub, rows, poll
    <3>24. ASSUME NEW t \in Tenants, SiteTakedown(t) PROVE FALSE
      BY <3>24 DEF SiteTakedown, OneEvent, IntakeInv, TypeOK, edge, hub, rows, poll
    <3> QED BY <3>1, <3>2, <3>3, <3>4, <3>5, <3>6, <3>7, <3>8, <3>9, <3>10, <3>11, <3>12,
           <3>13, <3>14, <3>15, <3>16, <3>17, <3>18, <3>19, <3>20, <3>21, <3>22, <3>23,
           <3>24 DEF Next, PollStep
  <2>2. /\ i.req \in Requests /\ cur'[p] = i /\ ~Replayed(i.req, clk[p])
        /\ Fresh(i.req, clk[p]) /\ pc[p] # "idle" /\ TypeOK
    BY <2>1 DEF Reverify, Comes, Signed, IntakeInv, TypeOK, Items
  <2>3. i.req.nonce \in NonceSet /\ i.req.ts \in Int /\ clk[p] \in Int
    BY <2>2, RequestsAssumption DEF NonceSet, TypeOK
  <2>4. SUFFICES ASSUME i.req.nonce \in spent PROVE FALSE
    BY <2>2
  <2>5. Pruned(clk[p])[i.req.nonce] = Never
    BY <2>2 DEF Replayed
  <2>6. i.req.ts + Window < clk[p]
    BY <2>2, <2>4, <2>5, PrunedKeeps DEF IntakeInv
  <2> QED BY <2>2, <2>3, <2>6, LimitsAssumption DEF Fresh
<1> QED BY <1>1, IntakeTheorem, PTL DEF Spec, SpentNonceRefused
=============================================================================
