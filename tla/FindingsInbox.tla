---------------------------- MODULE FindingsInbox ----------------------------
(***************************************************************************)
(* One row of the attention queue (core/findings.py, monitor/views.py): the *)
(* engines that file a fingerprint, the operators that move it, and what    *)
(* the audit trail and the realtime stream were told last.  A filing or a   *)
(* transition reads the row, saves all of it, writes the AuditEvent and     *)
(* publishes; nothing holds the row in between.                             *)
(***************************************************************************)
EXTENDS Integers

CONSTANTS
    Engines,            \* concurrent filings of the fingerprint
    Managers,           \* operators with findings.manage and findings.accept_risk
    MaxFilings, MaxMoves    \* bounds of the exploration

VARIABLES
    inbox,      \* Finding.state of the row, or "none"
    trail,      \* the state the last AuditEvent of the row tells
    stream,     \* the state the last `findings` event of the row tells
    writer,     \* per engine or operator: place, and the copy of the row it holds
    filings, moves,
    interleaved  \* history: two writers held a copy of the row at once

inboxVars == <<inbox, trail, stream, writer, filings, moves, interleaved>>

Writers == Engines \cup Managers
RowStates == {"none", "open", "acked", "accepted", "resolved"}
Places == {"idle", "create", "save", "audit", "publish"}
AtRest == [at |-> "idle", copy |-> "none", tells |-> FALSE]

Init ==
    /\ inbox = "none" /\ trail = "none" /\ stream = "none"
    /\ writer = [w \in Writers |-> AtRest]
    /\ filings = 0 /\ moves = 0 /\ interleaved = FALSE

Become(w, at, copy, tells) == writer' = [writer EXCEPT ![w] = [at |-> at, copy |-> copy, tells |-> tells]]
Overlap(w) == interleaved' = (interleaved \/ \E v \in Writers \ {w} : writer[v].at # "idle")

\* _ALLOWED
Allowed(from) ==
    CASE from = "open" -> {"acked", "resolved", "accepted"}
      [] from = "acked" -> {"resolved", "accepted"}
      [] from = "accepted" -> {"resolved"}
      [] OTHER -> {}

RereadQuietly(w) == Become(w, "save", IF inbox = "resolved" THEN "open" ELSE inbox, FALSE)
Reread(w) == IF inbox = "resolved" THEN Become(w, "save", "open", TRUE)
             ELSE Become(w, "save", inbox, FALSE)

\* finding(): look for the row.  An existing row is copied, a RESOLVED one reopened.
FileRead(w) ==
    /\ filings < MaxFilings /\ filings' = filings + 1 /\ writer[w].at = "idle"
    /\ IF inbox = "none" THEN Become(w, "create", "open", TRUE) ELSE Reread(w)
    /\ Overlap(w) /\ UNCHANGED <<inbox, trail, stream, moves>>

\* The insert; the loser of the unique constraint calls finding() again.
FileCreate(w) ==
    /\ writer[w].at = "create"
    /\ IF inbox = "none" THEN inbox' = "open" /\ Become(w, "audit", "open", TRUE)
       ELSE Reread(w) /\ UNCHANGED inbox
    /\ UNCHANGED <<trail, stream, filings, moves, interleaved>>

\* row.save(): every column, the state this writer read included.
SaveRow(w) ==
    /\ writer[w].at = "save"
    /\ inbox' = writer[w].copy
    /\ IF writer[w].tells THEN Become(w, "audit", writer[w].copy, TRUE) ELSE writer' = [writer EXCEPT ![w] = AtRest]
    /\ UNCHANGED <<trail, stream, filings, moves, interleaved>>

\* ack(), resolve(), accept_risk(): scoped_get, then _transition(); a move _ALLOWED does
\* not list is the 409 of the view, a missing capability its 403.
AskMove(w, to) ==
    /\ moves < MaxMoves /\ moves' = moves + 1 /\ writer[w].at = "idle"
    /\ to \in Allowed(inbox)
    /\ Become(w, "save", to, TRUE)
    /\ Overlap(w) /\ UNCHANGED <<inbox, trail, stream, filings>>

\* audit(), then _publish(): the state of the copy.
Audited(w) ==
    /\ writer[w].at = "audit" /\ trail' = writer[w].copy
    /\ Become(w, "publish", writer[w].copy, TRUE)
    /\ UNCHANGED <<inbox, stream, filings, moves, interleaved>>
Published(w) ==
    /\ writer[w].at = "publish" /\ stream' = writer[w].copy
    /\ writer' = [writer EXCEPT ![w] = AtRest]
    /\ UNCHANGED <<inbox, trail, filings, moves, interleaved>>

Next ==
    \/ \E w \in Engines : FileRead(w) \/ FileCreate(w)
    \/ \E w \in Managers, to \in {"acked", "resolved", "accepted"} : AskMove(w, to)
    \/ \E w \in Writers : SaveRow(w) \/ Audited(w) \/ Published(w)

Spec == Init /\ [][Next]_inboxVars

---------------------------------------------------------------------------
(* Properties *)

\* The row and what is told of it are states of the inbox.
TypeOK ==
    /\ inbox \in RowStates /\ trail \in RowStates /\ stream \in RowStates
    /\ writer \in [Writers -> [at : Places, copy : RowStates, tells : BOOLEAN]]
    /\ filings \in 0..MaxFilings /\ moves \in 0..MaxMoves /\ interleaved \in BOOLEAN

Quiet == \A w \in Writers : writer[w].at = "idle"

\* As long as no two writers hold a copy of the row at once, the row, the trail and the
\* stream agree whenever all of them are done.
AgreeInTurn == Quiet /\ ~interleaved => inbox = trail /\ trail = stream

\* Why turns are enough: one writer at a time is under way, and its place says how far the
\* row, the trail and the stream have got.
Settled == inbox = trail /\ trail = stream
InTurn(w) ==
    /\ writer[w].at = "create" => inbox = "none" /\ Settled
    /\ writer[w].at = "save" => Settled /\ (writer[w].tells \/ writer[w].copy = inbox)
    /\ writer[w].at = "audit" => inbox = writer[w].copy
    /\ writer[w].at = "publish" => inbox = writer[w].copy /\ trail = writer[w].copy
TurnInv ==
    ~interleaved =>
        /\ \A v, w \in Writers : writer[v].at # "idle" /\ writer[w].at # "idle" => v = w
        /\ \A w \in Writers : InTurn(w)
        /\ Quiet => Settled

\* "the inbox, the audit trail and the realtime stream can never disagree"
NeverDisagree == Quiet => inbox = trail /\ trail = stream
=============================================================================
