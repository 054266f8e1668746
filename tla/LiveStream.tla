----------------------------- MODULE LiveStream -----------------------------
(***************************************************************************)
(* Snapshot-then-stream of one table-backed topic: the producers            *)
(* (core/findings.py through core/events.py), publish() (realtime/          *)
(* publish.py), the socket (realtime/consumers.py, authorize.py), the       *)
(* snapshot views (monitor/views.py, realtime/views.py) and the client      *)
(* (frontend/src/useEvents.js).  A row is a version number; the producer of *)
(* a row is sequential, different rows are concurrent.                      *)
(***************************************************************************)
EXTENDS Integers, FiniteSets

CONSTANTS
    Rows,               \* rows of the user's workspace
    Syncs,              \* snapshot fetches that may be in flight at once
    StartSeq,           \* events the topic has already had
    MaxVersion, MaxDrops, MaxForeign, MaxPolls    \* bounds of the exploration

VARIABLES
    table,      \* row -> version saved
    producer,   \* row -> "idle", "saved" or the seq it has been given
    topicSeq,   \* the counter evt:seq:<topic>
    told,       \* history: the events published so far, [seq, row, ver]
    wire,       \* events on their way to this client's channel
    member,     \* the channel is in the topic's group
    frame,      \* a subscribe frame is on its way to the consumer
    status,     \* the client's ladder
    last,       \* seqs.get(topic) ?? 0
    view,       \* what the panel shows
    fetch,      \* per snapshot fetch: its place, the seq and the rows it has read
    blind,      \* history: an event was applied before any snapshot with a seq had come
    drops, foreign, polls

streamVars == <<table, producer, topicSeq, told, wire, member, frame, status, last, view,
                fetch, blind, drops, foreign, polls>>

Bottom == [r \in Rows |-> 0]
NoFetch == [at |-> "none", seq |-> 0, rows |-> Bottom]
Open == status = "live"

Init ==
    /\ table = Bottom /\ producer = [r \in Rows |-> "idle"] /\ topicSeq = StartSeq /\ told = {}
    /\ wire = {} /\ member = FALSE /\ frame = FALSE
    /\ status = "connecting" /\ last = 0 /\ view = Bottom
    /\ fetch = [f \in Syncs |-> NoFetch]
    /\ blind = FALSE /\ drops = 0 /\ foreign = 0 /\ polls = 0

---------------------------------------------------------------------------
(* Producers *)

ServerSide == <<status, last, view, fetch, frame, member, blind, drops, polls>>

\* The row is saved, ...
SaveRow(r) ==
    /\ producer[r] = "idle" /\ table[r] < MaxVersion
    /\ table' = [table EXCEPT ![r] = @ + 1] /\ producer' = [producer EXCEPT ![r] = "saved"]
    /\ UNCHANGED <<topicSeq, told, wire, foreign, ServerSide>>

\* ... publish() takes the next seq in one Redis operation (_next_seq), ...
NextSeq(r) ==
    /\ producer[r] = "saved"
    /\ topicSeq' = topicSeq + 1
    /\ told' = told \cup {[seq |-> topicSeq + 1, row |-> r, ver |-> table[r]]}
    /\ producer' = [producer EXCEPT ![r] = "numbered"]
    /\ UNCHANGED <<table, wire, foreign, ServerSide>>

\* ... and sends it to the members the group has by then.
GroupSend(r) ==
    /\ producer[r] = "numbered"
    /\ producer' = [producer EXCEPT ![r] = "idle"]
    /\ \E e \in told :
        /\ e.row = r /\ \A d \in told : d.row = r => d.seq <= e.seq
        /\ wire' = IF member THEN wire \cup {e} ELSE wire
    /\ UNCHANGED <<table, topicSeq, told, foreign, ServerSide>>

\* An event of another workspace takes a seq; topic_event() does not forward it.
ForeignEvent ==
    /\ foreign < MaxForeign /\ foreign' = foreign + 1 /\ topicSeq' = topicSeq + 1
    /\ UNCHANGED <<table, producer, told, wire, ServerSide>>

---------------------------------------------------------------------------
(* The client *)

TableSide == <<table, producer, topicSeq, told, foreign>>

\* syncTopic(): ask for a snapshot.
Ask(f) == fetch[f].at = "none" /\ fetch' = [fetch EXCEPT ![f] = [at |-> "asked", seq |-> 0, rows |-> Bottom]]

\* connect(), onopen: live, and one sync per topic; connect() of the consumer has let
\* the session in.
Connect(f) ==
    /\ status \in {"connecting", "reconnecting", "degraded"} /\ status' = "live" /\ Ask(f)
    /\ UNCHANGED <<TableSide, wire, member, frame, last, view, blind, drops, polls>>

\* onclose with 4401 or 4403: anonymous, not enrolled or not verified.  Terminal.
Rejected ==
    /\ status \in {"connecting", "reconnecting", "degraded"} /\ drops < MaxDrops /\ drops' = drops + 1
    /\ status' = "auth-required"
    /\ UNCHANGED <<TableSide, wire, member, frame, last, view, fetch, blind, polls>>

\* onclose: a live socket is reconnecting, a socket that fails again is degraded; the
\* consumer leaves its groups.
Drop ==
    /\ status # "auth-required" /\ drops < MaxDrops /\ drops' = drops + 1
    /\ status' = IF Open THEN "reconnecting" ELSE "degraded"
    /\ member' = FALSE /\ frame' = FALSE /\ wire' = {}
    /\ UNCHANGED <<TableSide, last, view, fetch, blind, polls>>

\* pollAll(), every 10 s while degraded.
Poll(f) ==
    /\ status = "degraded" /\ polls < MaxPolls /\ polls' = polls + 1 /\ Ask(f)
    /\ UNCHANGED <<TableSide, wire, member, frame, status, last, view, blind, drops>>

\* The snapshot view: findings_seq() first, ...
SnapshotSeq(f) ==
    /\ fetch[f].at = "asked" /\ fetch' = [fetch EXCEPT ![f] = [at |-> "seq", seq |-> topicSeq, rows |-> Bottom]]
    /\ UNCHANGED <<TableSide, wire, member, frame, status, last, view, blind, drops, polls>>

\* ... then the table.
SnapshotRows(f) ==
    /\ fetch[f].at = "seq" /\ fetch' = [fetch EXCEPT ![f] = [at |-> "answered", seq |-> @.seq, rows |-> table]]
    /\ UNCHANGED <<TableSide, wire, member, frame, status, last, view, blind, drops, polls>>

\* The answer repaints the panel and resets the seq; then the subscribe frame goes out.
\* A fetch that failed leaves both alone and subscribes all the same.
Synced(f, ok) ==
    /\ fetch[f].at = "answered" /\ fetch' = [fetch EXCEPT ![f] = NoFetch]
    /\ last' = (IF ok THEN fetch[f].seq ELSE last) /\ view' = (IF ok THEN fetch[f].rows ELSE view)
    /\ ok \/ drops < MaxDrops
    /\ drops' = IF ok THEN drops ELSE drops + 1
    /\ frame' = (frame \/ Open)
    /\ UNCHANGED <<TableSide, wire, member, status, blind, polls>>

\* receive(): authorize_topic(), group_add().
Subscribe ==
    /\ frame /\ frame' = FALSE /\ member' = TRUE
    /\ UNCHANGED <<TableSide, wire, status, last, view, fetch, blind, drops, polls>>

\* onmessage: not newer is dropped, a gap asks for a snapshot, otherwise it is applied.
NoGap(e) == FALSE
Gap(e) == e.seq > last + 1 /\ last # 0
OnMessage(e) ==
    /\ e \in wire /\ wire' = wire \ {e} /\ Open
    /\ \/ e.seq <= last /\ UNCHANGED <<last, view, fetch>>
       \/ e.seq > last /\ Gap(e) /\ UNCHANGED <<last, view>> /\ \E f \in Syncs : Ask(f)
       \/ e.seq > last /\ ~Gap(e) /\ last' = e.seq /\ view' = [view EXCEPT ![e.row] = e.ver] /\ UNCHANGED fetch
    /\ blind' = (blind \/ (e.seq > last /\ last = 0))
    /\ UNCHANGED <<TableSide, member, frame, status, drops, polls>>

Next ==
    \/ \E r \in Rows : SaveRow(r) \/ NextSeq(r) \/ GroupSend(r)
    \/ \E f \in Syncs : Connect(f) \/ Poll(f) \/ SnapshotSeq(f) \/ SnapshotRows(f) \/ \E ok \in BOOLEAN : Synced(f, ok)
    \/ \E e \in wire : OnMessage(e)
    \/ ForeignEvent \/ Rejected \/ Drop \/ Subscribe

Spec == Init /\ [][Next]_streamVars

---------------------------------------------------------------------------
(* Properties *)

Versions == [Rows -> 0..MaxVersion]
Places == {"none", "asked", "seq", "answered"}

\* Versions, seqs and places: no event and no fetch is ahead of the topic's counter.
TypeOK ==
    /\ table \in Versions /\ view \in Versions
    /\ topicSeq \in Nat /\ last \in 0..topicSeq
    /\ producer \in [Rows -> {"idle", "saved", "numbered"}]
    /\ status \in {"connecting", "live", "reconnecting", "degraded", "auth-required"}
    /\ told \subseteq [seq : 1..topicSeq, row : Rows, ver : 0..MaxVersion] /\ wire \subseteq told
    /\ frame \in BOOLEAN /\ member \in BOOLEAN /\ blind \in BOOLEAN
    /\ fetch \in [Syncs -> [at : Places, seq : 0..topicSeq, rows : Versions]]
    /\ drops \in 0..MaxDrops /\ foreign \in 0..MaxForeign /\ polls \in 0..MaxPolls

\* The seqs number the events, and a row's events in the order of its versions; the
\* table has everything that was told.
Numbered ==
    /\ \A d, e \in told : d.seq = e.seq => d = e
    /\ \A d, e \in told : d.row = e.row /\ d.seq <= e.seq => d.ver <= e.ver
    /\ \A e \in told : e.ver <= table[e.row]

\* A snapshot has the rows of every event its seq stands for.
SnapshotCovers ==
    \A f \in Syncs : fetch[f].at = "answered" =>
        \A e \in told : e.seq <= fetch[f].seq => e.ver <= fetch[f].rows[e.row]

\* The panel shows everything its seq stands for: whatever was published up to `last` is
\* on screen, through gaps, reordered sends, drops and late snapshots, once a snapshot
\* of a topic that has had events has come.
SeqIsHonest == ~blind => \A e \in told : e.seq <= last => view[e.row] >= e.ver

\* "an event racing the query is then delivered twice (harmless upsert client-side), never
\* lost": once nothing is on its way, a subscribed panel shows the table.
RacingEventNotLost ==
    /\ member /\ Open /\ wire = {} /\ ~frame
    /\ \A f \in Syncs : fetch[f].at = "none"
    /\ \A r \in Rows : producer[r] = "idle"
    => view = table
=============================================================================
