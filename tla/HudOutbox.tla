----------------------------- MODULE HudOutbox -----------------------------
(***************************************************************************)
(* Durable HUD commands: core/hud/operations.py (create_operation,         *)
(* pending_outbox_ids, process_outbox), core/tasks.py (process_hud_outbox, *)
(* drain_hud_outbox) and the commands of deploys/hud.py that create a      *)
(* deployment and hand it to a worker through the outbox.                  *)
(*                                                                         *)
(* A request is named by r; it creates at most one operation and one       *)
(* outbox row, which also carry the name r.  HudOperation.state moves with *)
(* HudCommandOutbox.state in the same transactions, so box stands for both.*)
(***************************************************************************)
EXTENDS Naturals, FiniteSets

CONSTANTS
    Requests,
    KeyOf,         \* the request's Idempotency-Key, NoKey if it has none
    NoKey,
    Workers,
    NoRequest,
    MaxMessages,   \* bound: process_hud_outbox messages in flight per row
    MaxExpiries,   \* bound: claims that outlive their timeout, per row
    MaxCrashes,    \* bound: processes killed in one behaviour
    MaxFaults      \* bound: broker refusals and lost messages in one behaviour

ASSUME RequestAssumption == NoRequest \notin Requests
ASSUME WorkersAssumption == IsFiniteSet(Workers)
ASSUME HudBoundsAssumption == /\ MaxMessages \in Nat \ {0}
                              /\ MaxExpiries \in Nat
                              /\ MaxCrashes \in Nat
                              /\ MaxFaults \in Nat

VARIABLES
    web,       \* where the HTTP request is
    created,   \* requests whose Deployment row was committed
    box,       \* HudCommandOutbox.state; "none" = no row
    claim,     \* claimed_at: "none", "live", or older than the timeout
    attempts,  \* HudCommandOutbox.attempts
    msgs,      \* process_hud_outbox messages in the broker
    wpc, wrow, \* a worker's place in process_outbox, and its row
    effects,   \* history: successful calls of the topic handler
    expiries,  \* history: claims that outlived their timeout
    crashes, faults

rowVars == <<box, claim, attempts>>
workerVars == <<wpc, wrow>>
countVars == <<effects, expiries, crashes, faults>>
vars == <<web, created, rowVars, msgs, workerVars, countVars>>

Final == {"succeeded", "failed"}

Init ==
    /\ web = [r \in Requests |-> "new"]
    /\ created = {}
    /\ box = [r \in Requests |-> "none"]
    /\ claim = [r \in Requests |-> "none"]
    /\ attempts = [r \in Requests |-> 0]
    /\ msgs = [r \in Requests |-> 0]
    /\ wpc = [w \in Workers |-> "idle"]
    /\ wrow = [w \in Workers |-> NoRequest]
    /\ effects = [r \in Requests |-> 0]
    /\ expiries = [r \in Requests |-> 0]
    /\ crashes = 0
    /\ faults = 0

-----------------------------------------------------------------------------
(* The HTTP handler: the Deployment row first, then create_operation. *)

WebGoto(r, from, to) == web[r] = from /\ web' = [web EXCEPT ![r] = to]

\* The operation that was stored under the request's key.
Existing(r) == {q \in Requests : KeyOf[q] = KeyOf[r] /\ KeyOf[r] # NoKey /\ box[q] # "none"}

CreateDeployment(r) ==
    /\ WebGoto(r, "new", "created")
    /\ created' = created \cup {r}
    /\ UNCHANGED <<rowVars, msgs, workerVars, countVars>>

\* create_operation's lookup found the key, or its insert met the constraint.
Replay(r) ==
    /\ \/ WebGoto(r, "created", "replayed")
       \/ WebGoto(r, "inserting", "replayed")
    /\ Existing(r) # {}
    /\ UNCHANGED <<created, rowVars, msgs, workerVars, countVars>>

\* The lookup found nothing: on to the insert.
LookupMisses(r) ==
    /\ WebGoto(r, "created", "inserting")
    /\ Existing(r) = {}
    /\ UNCHANGED <<created, rowVars, msgs, workerVars, countVars>>

Insert(r) ==
    /\ WebGoto(r, "inserting", "accepted")
    /\ box' = [box EXCEPT ![r] = "pending"]
    /\ UNCHANGED <<created, claim, attempts, msgs, workerVars, countVars>>

\* Mutation of InsertOperation: no unique constraint behind the lookup.
InsertUnchecked(r) == Insert(r)

\* Event, operation and outbox row in one transaction; the key is unique.
InsertOperation(r) == Existing(r) = {} /\ Insert(r)

\* on_commit: _nudge_worker sends the message ...
Nudge(r) ==
    /\ WebGoto(r, "accepted", "answered")
    /\ msgs[r] < MaxMessages
    /\ msgs' = [msgs EXCEPT ![r] = @ + 1]
    /\ UNCHANGED <<created, rowVars, workerVars, countVars>>

\* ... or the broker refuses it, which is swallowed.
NudgeLost(r) ==
    /\ WebGoto(r, "accepted", "answered")
    /\ faults < MaxFaults
    /\ faults' = faults + 1
    /\ UNCHANGED <<created, rowVars, msgs, workerVars, effects, expiries, crashes>>

\* The web process dies between two of its transactions.
WebDies(r) ==
    /\ web[r] \in {"created", "inserting", "accepted"}
    /\ crashes < MaxCrashes
    /\ crashes' = crashes + 1
    /\ web' = [web EXCEPT ![r] = "dead"]
    /\ UNCHANGED <<created, rowVars, msgs, workerVars, effects, expiries, faults>>

-----------------------------------------------------------------------------
(* Beat and broker *)

\* Mutation of Drain: only PENDING rows are polled, stale claims are not.
DrainPending(r) ==
    /\ box[r] = "pending"
    /\ msgs[r] < MaxMessages
    /\ msgs' = [msgs EXCEPT ![r] = @ + 1]
    /\ UNCHANGED <<web, created, rowVars, workerVars, countVars>>

\* drain_hud_outbox: a message for every row pending_outbox_ids returns.
Drain(r) ==
    /\ box[r] = "pending" \/ (box[r] = "processing" /\ claim[r] = "stale")
    /\ msgs[r] < MaxMessages
    /\ msgs' = [msgs EXCEPT ![r] = @ + 1]
    /\ UNCHANGED <<web, created, rowVars, workerVars, countVars>>

\* The envelope's 300 s ran out before a worker saw the message.
EnvelopeExpired(r) ==
    /\ msgs[r] > 0
    /\ faults < MaxFaults
    /\ faults' = faults + 1
    /\ msgs' = [msgs EXCEPT ![r] = @ - 1]
    /\ UNCHANGED <<web, created, rowVars, workerVars, effects, expiries, crashes>>

\* HUD_OUTBOX_CLAIM_TIMEOUT_SECONDS pass, whether or not the claimer is alive.
ClaimExpires(r) ==
    /\ box[r] = "processing"
    /\ claim[r] = "live"
    /\ expiries[r] < MaxExpiries
    /\ claim' = [claim EXCEPT ![r] = "stale"]
    /\ expiries' = [expiries EXCEPT ![r] = @ + 1]
    /\ UNCHANGED <<web, created, box, attempts, msgs, workerVars, effects, crashes, faults>>

-----------------------------------------------------------------------------
(* process_outbox *)

Receive(w, r) ==
    /\ wpc[w] = "idle"
    /\ msgs[r] > 0
    /\ msgs' = [msgs EXCEPT ![r] = @ - 1]

\* Mutation of ClaimRow: the operation's state is saved on the outbox row as well.
ClaimRowRunning(w, r) ==
    /\ box' = [box EXCEPT ![r] = "running"]
    /\ claim' = [claim EXCEPT ![r] = "live"]
    /\ attempts' = [attempts EXCEPT ![r] = @ + 1]
    /\ wpc' = [wpc EXCEPT ![w] = "dispatch"]
    /\ wrow' = [wrow EXCEPT ![w] = r]
    /\ UNCHANGED <<web, created, countVars>>

ClaimRow(w, r) ==
    /\ box' = [box EXCEPT ![r] = "processing"]
    /\ claim' = [claim EXCEPT ![r] = "live"]
    /\ attempts' = [attempts EXCEPT ![r] = @ + 1]
    /\ wpc' = [wpc EXCEPT ![w] = "dispatch"]
    /\ wrow' = [wrow EXCEPT ![w] = r]
    /\ UNCHANGED <<web, created, countVars>>

\* Mutation of Claim: a row that is being processed is claimed again at once.
ClaimAny(w, r) ==
    /\ Receive(w, r)
    /\ box[r] \in {"pending", "processing"}
    /\ ClaimRow(w, r)

\* The claim transaction, under the row lock.
Claim(w, r) ==
    /\ Receive(w, r)
    /\ box[r] = "pending" \/ (box[r] = "processing" /\ claim[r] = "stale")
    /\ ClaimRow(w, r)

\* The row is final, or claimed by somebody whose claim is still good.
Duplicate(w, r) ==
    /\ Receive(w, r)
    /\ box[r] \in Final \/ (box[r] = "processing" /\ claim[r] = "live")
    /\ UNCHANGED <<web, created, rowVars, workerVars, countVars>>

\* The topic handler returned: the deployment was enqueued.
Dispatch(w) ==
    /\ wpc[w] = "dispatch"
    /\ effects' = [effects EXCEPT ![wrow[w]] = @ + 1]
    /\ wpc' = [wpc EXCEPT ![w] = "finish"]
    /\ UNCHANGED <<web, created, rowVars, msgs, wrow, expiries, crashes, faults>>

\* Mutation of DispatchRaises: the handler's error is not noticed.
DispatchRaisesIgnored(w) ==
    /\ wpc[w] = "dispatch"
    /\ faults < MaxFaults
    /\ faults' = faults + 1
    /\ wpc' = [wpc EXCEPT ![w] = "finish"]
    /\ UNCHANGED <<web, created, rowVars, msgs, wrow, effects, expiries, crashes>>

\* The handler raised OperationDispatchError: the broker refused run_deploy.
DispatchRaises(w) ==
    /\ wpc[w] = "dispatch"
    /\ faults < MaxFaults
    /\ faults' = faults + 1
    /\ wpc' = [wpc EXCEPT ![w] = "fail"]
    /\ UNCHANGED <<web, created, rowVars, msgs, wrow, effects, expiries, crashes>>

\* The closing transaction saves its state over whatever the row holds.
Close(w, from, to) ==
    /\ wpc[w] = from
    /\ box' = [box EXCEPT ![wrow[w]] = to]
    /\ wpc' = [wpc EXCEPT ![w] = "idle"]
    /\ wrow' = [wrow EXCEPT ![w] = NoRequest]
    /\ UNCHANGED <<web, created, claim, attempts, msgs, countVars>>

Finish(w) == Close(w, "finish", "succeeded")
RecordFailure(w) == Close(w, "fail", "failed")

WorkerDies(w) ==
    /\ wpc[w] # "idle"
    /\ crashes < MaxCrashes
    /\ crashes' = crashes + 1
    /\ wpc' = [wpc EXCEPT ![w] = "idle"]
    /\ wrow' = [wrow EXCEPT ![w] = NoRequest]
    /\ UNCHANGED <<web, created, rowVars, msgs, effects, expiries, faults>>

-----------------------------------------------------------------------------
WebStep(r) ==
    \/ CreateDeployment(r) \/ Replay(r) \/ LookupMisses(r) \/ InsertOperation(r)
    \/ Nudge(r) \/ NudgeLost(r)

WorkerStep(w) ==
    \/ \E r \in Requests : Claim(w, r) \/ Duplicate(w, r)
    \/ Dispatch(w) \/ Finish(w) \/ RecordFailure(w)

Next ==
    \/ \E r \in Requests : \/ WebStep(r) \/ WebDies(r) \/ Drain(r)
                           \/ EnvelopeExpired(r) \/ ClaimExpires(r)
    \/ \E w \in Workers : WorkerStep(w) \/ DispatchRaises(w) \/ WorkerDies(w)

Spec == Init /\ [][Next]_vars

\* Beat drains every 5 s and time passes; the broker is first-in first-out, so no
\* row's message waits for ever behind others; a live worker goes on.
Fairness ==
    /\ \A r \in Requests : /\ WF_vars(WebStep(r))
                           /\ WF_vars(Drain(r))
                           /\ WF_vars(ClaimExpires(r))
                           /\ SF_vars(\E w \in Workers : Claim(w, r) \/ Duplicate(w, r))
    /\ \A w \in Workers : WF_vars(Dispatch(w) \/ Finish(w) \/ RecordFailure(w))

FairSpec == Spec /\ Fairness

-----------------------------------------------------------------------------
(* Properties *)

\* Every request, outbox row and worker has its type.
TypeOK ==
    /\ web \in [Requests -> {"new", "created", "inserting", "accepted", "answered",
                             "replayed", "dead"}]
    /\ created \subseteq Requests
    /\ box \in [Requests -> {"none", "pending", "processing"} \cup Final]
    /\ claim \in [Requests -> {"none", "live", "stale"}]
    /\ attempts \in [Requests -> Nat] /\ msgs \in [Requests -> Nat]
    /\ wpc \in [Workers -> {"idle", "dispatch", "finish", "fail"}]
    /\ wrow \in [Workers -> Requests \cup {NoRequest}]
    /\ effects \in [Requests -> Nat] /\ expiries \in [Requests -> Nat]
    /\ crashes \in Nat /\ faults \in Nat

\* However lookups and inserts of concurrent requests interleave, a key is the key
\* of one operation at most.
OneOperationPerKey ==
    \A q, r \in Requests :
        box[q] # "none" /\ box[r] # "none" /\ KeyOf[q] = KeyOf[r] /\ KeyOf[r] # NoKey
            => q = r

\* A command reported SUCCEEDED was handed over at least once.
SuccessMeansDispatched ==
    \A r \in Requests : box[r] = "succeeded" => effects[r] > 0

\* A command is handed over again only after a claim on it timed out: nudges,
\* drains and repeated deliveries alone never duplicate it.
AtMostOncePerClaim == \A r \in Requests : effects[r] <= 1 + expiries[r]

\* An accepted command comes to an end, whatever is lost or killed on the way.
AcceptedSettles ==
    \A r \in Requests : box[r] = "pending" ~> box[r] \in Final

\* An accepted command is handed over.
AcceptedIsDispatched ==
    \A r \in Requests : box[r] = "pending" ~> effects[r] > 0

-----------------------------------------------------------------------------
(* Inductive invariant *)

Busy(r) == {w \in Workers : wpc[w] = "dispatch" /\ wrow[w] = r}

\* Handed over, or about to be.
Load(r) == effects[r] + Cardinality(Busy(r))

WebInv ==
    \A r \in Requests : web[r] \in {"new", "created", "inserting"} => box[r] = "none"

WorkerInv ==
    \A w \in Workers : /\ wpc[w] # "idle" => wrow[w] \in Requests /\ box[wrow[w]] # "none"
                       /\ wpc[w] = "finish" => effects[wrow[w]] > 0

ClaimInv ==
    \A r \in Requests :
        /\ box[r] \in {"none", "pending"} => Load(r) = 0
        /\ box[r] = "processing" /\ claim[r] = "stale" => Load(r) <= expiries[r]
        /\ Load(r) <= 1 + expiries[r]

OutboxInv == /\ TypeOK /\ WebInv /\ WorkerInv /\ ClaimInv
             /\ OneOperationPerKey /\ SuccessMeansDispatched
=============================================================================
