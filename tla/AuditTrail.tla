----------------------------- MODULE AuditTrail -----------------------------
(***************************************************************************)
(* The hash-chained audit trail (core/audit.py) and its off-host copy       *)
(* (core/audit_ship.py, providers/audit_store.py).  audit() appends under a *)
(* row lock on the AuditChainHead of its scope; ship() puts unshipped rows   *)
(* in primary-key order.  A hash is modelled by what it hashes: the hash of  *)
(* a row is its prev_hash followed by its canonical content.                *)
(***************************************************************************)
EXTENDS Integers, Sequences

CONSTANTS
    Scopes,             \* workspaces
    Callers,            \* transactions that call audit()
    MaxAudits, MaxShipFaults, MaxPartnerDeletes     \* bounds of the exploration

VARIABLES
    heads,      \* AuditChainHead: scope -> last_hash, blank until its first event is committed
    auditRows,     \* committed AuditEvent rows, by primary key
    call,       \* per caller: place, scope, partner, last_hash under the lock
    store,      \* the bucket: the current version of every object
    shipper,    \* ship(): the primary keys listed and not yet done, the row that was put
    shipFaults, deletes,
    partnerGone \* the Partner the rows name has been deleted

auditVars == <<heads, auditRows, call, store, shipper, shipFaults, deletes, partnerGone>>

Genesis == <<>>
Done == [at |-> "idle"]

Init ==
    /\ heads = [s \in Scopes |-> Genesis] /\ auditRows = <<>> /\ call = [c \in Callers |-> Done]
    /\ store = {} /\ shipper = [todo |-> {}, put |-> 0]
    /\ shipFaults = 0 /\ deletes = 0 /\ partnerGone = FALSE

\* _canonical_row(), _row_hash(): the content names the partner the row points at now.
CanonicalRow(e) == [scope |-> e.scope, partner |-> e.partner, nonce |-> e.nonce]
RowHash(e) == Append(e.prev, CanonicalRow(e))

Locked(s) == \E c \in Callers : call[c].at = "locked" /\ call[c].scope = s

HeadUnlocked(c, s, partner) ==
    /\ call[c].at = "idle"
    /\ call' = [call EXCEPT ![c] = [at |-> "locked", scope |-> s, partner |-> partner, last |-> heads[s]]]

\* audit(): select_for_update on the head, or the insert of the first one, which waits
\* on the unique constraint for a concurrent insert of the same scope.
LockHead(c, s, partner) ==
    /\ call[c].at = "idle" /\ ~Locked(s)
    /\ call' = [call EXCEPT ![c] = [at |-> "locked", scope |-> s, partner |-> partner, last |-> heads[s]]]

BeginAudit(c, s, partner) ==
    /\ Len(auditRows) < MaxAudits
    /\ LockHead(c, s, partner)
    /\ UNCHANGED <<heads, auditRows, store, shipper, shipFaults, deletes, partnerGone>>

\* The event with the head's hash, the head with the event's: one transaction.  A row
\* that names a deleted partner cannot be inserted.
CommitAudit(c) ==
    /\ call[c].at = "locked" /\ ~(call[c].partner /\ partnerGone) /\ Len(auditRows) < MaxAudits
    /\ LET e == [scope |-> call[c].scope, prev |-> call[c].last, shipped |-> FALSE,
                 partner |-> call[c].partner, nonce |-> Len(auditRows)]
       IN auditRows' = Append(auditRows, e) /\ heads' = [heads EXCEPT ![e.scope] = RowHash(e)]
    /\ call' = [call EXCEPT ![c] = Done]
    /\ UNCHANGED <<store, shipper, shipFaults, deletes, partnerGone>>

\* The transaction around audit() rolls back: nothing stays.
RollBack(c) ==
    /\ call[c].at = "locked" /\ call' = [call EXCEPT ![c] = Done]
    /\ UNCHANGED <<heads, auditRows, store, shipper, shipFaults, deletes, partnerGone>>

\* partner.delete(): SET_NULL on the rows of the trail.
DeletePartner ==
    /\ deletes < MaxPartnerDeletes /\ deletes' = deletes + 1 /\ partnerGone' = TRUE
    /\ auditRows' = [i \in DOMAIN auditRows |-> [auditRows[i] EXCEPT !.partner = FALSE]]
    /\ UNCHANGED <<heads, call, store, shipper, shipFaults>>

\* _object_key(), _payload()
Payload(i) == [key |-> i, prev |-> auditRows[i].prev, row |-> CanonicalRow(auditRows[i]), hash |-> RowHash(auditRows[i])]

\* ship(): list what is not shipped, ...
ListPending ==
    /\ shipper.todo = {} /\ \E i \in DOMAIN auditRows : ~auditRows[i].shipped
    /\ shipper' = [todo |-> {i \in DOMAIN auditRows : ~auditRows[i].shipped}, put |-> 0]
    /\ UNCHANGED <<heads, auditRows, call, store, shipFaults, deletes, partnerGone>>

\* ... put the body of the next primary key under its object key (S3AuditStore.put: a key
\* put twice is a new version of the object), ...
PutObject ==
    /\ shipper.put = 0
    /\ \E i \in shipper.todo :
        /\ \A j \in shipper.todo : i <= j
        /\ store' = {o \in store : o.key # i} \cup {Payload(i)}
        /\ shipper' = [shipper EXCEPT !.put = i]
    /\ UNCHANGED <<heads, auditRows, call, shipFaults, deletes, partnerGone>>

\* ... and stamp the row.
StampShipped ==
    /\ shipper.put # 0
    /\ auditRows' = [auditRows EXCEPT ![shipper.put].shipped = TRUE]
    /\ shipper' = [todo |-> shipper.todo \ {shipper.put}, put |-> 0]
    /\ UNCHANGED <<heads, call, store, shipFaults, deletes, partnerGone>>

\* A failed put files audit-ship-failed:s3 and ends the pass, and so does a killed task;
\* the next beat lists again.
ShipFails ==
    /\ shipFaults < MaxShipFaults /\ shipFaults' = shipFaults + 1 /\ shipper.todo # {}
    /\ shipper' = [todo |-> {}, put |-> 0]
    /\ UNCHANGED <<heads, auditRows, call, store, deletes, partnerGone>>

Next ==
    \/ \E c \in Callers, s \in Scopes, p \in BOOLEAN : BeginAudit(c, s, p)
    \/ \E c \in Callers : CommitAudit(c) \/ RollBack(c)
    \/ DeletePartner \/ ListPending \/ PutObject \/ StampShipped \/ ShipFails

Spec == Init /\ [][Next]_auditVars

---------------------------------------------------------------------------
(* Properties *)

\* verify_chain() over the rows with these primary keys, in their order.
VerifyChain(pks) ==
    \A i \in pks :
        /\ (\A j \in pks : i <= j) => auditRows[i].prev = Genesis
        /\ \A j \in pks : j < i /\ (\A k \in pks : k <= j \/ i <= k) =>
                auditRows[i].prev = RowHash(auditRows[j])

Chain(s) == {i \in DOMAIN auditRows : auditRows[i].scope = s}

Contents == [scope : Scopes, partner : BOOLEAN, nonce : Nat]
Events == [scope : Scopes, prev : Seq(Contents), shipped : BOOLEAN, partner : BOOLEAN, nonce : Nat]
Calls == {Done} \cup [at : {"locked"}, scope : Scopes, partner : BOOLEAN, last : Seq(Contents)]

\* Places, hashes, flags and bounds of the trail.
TypeOK ==
    /\ auditRows \in Seq(Events) /\ Len(auditRows) <= MaxAudits
    /\ heads \in [Scopes -> Seq(Contents)] /\ call \in [Callers -> Calls]
    /\ shipper \in [todo : SUBSET (1..Len(auditRows)), put : 0..Len(auditRows)]
    /\ store \subseteq [key : 1..Len(auditRows), prev : Seq(Contents), row : Contents, hash : Seq(Contents)]
    /\ shipFaults \in 0..MaxShipFaults /\ deletes \in 0..MaxPartnerDeletes /\ partnerGone \in BOOLEAN

\* The head row of a scope is locked by one transaction, which has its last hash.
HeadsHeld ==
    /\ \A c, d \in Callers : call[c].at = "locked" /\ call[d].at = "locked" /\ call[c].scope = call[d].scope => c = d
    /\ \A c \in Callers : call[c].at = "locked" => call[c].last = heads[call[c].scope]

\* A scope without rows has a blank head.
BlankHeads == \A s \in Scopes : Chain(s) = {} => heads[s] = Genesis

\* The object of a row is in the bucket.
Stored(i) ==
    \E o \in store : /\ o.key = i /\ o.prev = auditRows[i].prev
                     /\ partnerGone \/ o.hash = RowHash(auditRows[i])

\* What was put and not yet stamped is in the bucket.
PutIsStored == shipper.put # 0 => Stored(shipper.put)

\* However transactions interleave, roll back or race for the first head, the rows of a
\* workspace verify as one chain and its head is the hash of its last row, as long as
\* no row of the trail is changed by the deletion of a partner.
WorkspaceChainsVerify ==
    ~partnerGone => \A s \in Scopes :
        /\ VerifyChain(Chain(s))
        /\ \A i \in Chain(s) : (\A j \in Chain(s) : j <= i) => heads[s] = RowHash(auditRows[i])

\* A row with shipped_at is in the bucket, and as long as no partner is deleted with the
\* very hash the next row of its chain carries: through failed puts and re-puts.
ShippedIsStored == \A i \in DOMAIN auditRows : auditRows[i].shipped => Stored(i)

\* "deleting a Partner keeps the chain"
DeletionKeepsChain == \A s \in Scopes : VerifyChain(Chain(s))
=============================================================================
