------------------------------ MODULE Alerting ------------------------------
(***************************************************************************)
(* The anti-noise engine between the uptime probes and the pager            *)
(* (monitor/antinoise.py, alerts.py, pager.py): hysteresis, flapping, the   *)
(* storm breaker, the hourly repeat of unacknowledged P1 alerts and the     *)
(* grouped P2 push.  The tables are one record `al`, and every function of  *)
(* the engine is an operator from tables to tables.  The unit of time is    *)
(* the beat of the repeat and group tasks, 300 s.                           *)
(***************************************************************************)
EXTENDS Integers, Sequences, FiniteSets

CONSTANTS
    SiteOrder,      \* probed sites, as a sequence by primary key
    Prod,           \* those of the prod tier; the others belong to one partner
    OpenAfter, CloseAfter,        \* OPEN_AFTER, CLOSE_AFTER
    FlapWindow, FlapCycles,       \* FLAP_WINDOW, FLAP_CYCLES
    StormWindow, StormLimit,      \* STORM_WINDOW, STORM_LIMIT
    GroupWindow,                  \* GROUP_P2_WINDOW_S
    RepeatAfter, UnackedAfter,    \* one hour, 24 hours
    MaxClock, MaxProbes, MaxHands, MaxFaults    \* bounds of the exploration

VARIABLES
    clock,
    at,         \* the site of SiteOrder the probe cycle has come to
    al,         \* the tables: see Init
    probes, hands, faults,   \* bounded choices of the environment
    byHand      \* history: rows whose last transition was the operator's

alertVars == <<clock, at, al, probes, hands, faults, byHand>>

None == -1
Sites == {SiteOrder[i] : i \in DOMAIN SiteOrder}
Down(s) == <<s, "down">>
Flap(s) == <<s, "flap">>
Storm == <<"fleet", "storm">>
Aggregate == <<"fleet", "aggregate">>
Fps == (Sites \X {"down", "flap"}) \cup {Storm, Aggregate}
Partner == Sites \ Prod

\* classify(): the severity of the rows of RULES this engine raises.
Severity(f) ==
    IF f \in {Storm, Aggregate} \/ (f[2] = "down" /\ f[1] \in Prod) THEN "p1" ELSE "p2"

Init ==
    /\ clock = 0 /\ at = 1
    /\ al = [fails |-> [s \in Sites |-> 0], oks |-> [s \in Sites |-> 0],   \* consecutive_*
             isOpen |-> [s \in Sites |-> FALSE],         \* opened_at and not closed_at
             moves |-> [s \in Sites |-> <<>>],           \* AlertState.transitions
             openedAt |-> [f \in Fps |-> None],         \* opened_at, else first_seen
             row |-> [f \in Fps |-> "none"],             \* Finding.state
             pushAt |-> [f \in Fps |-> None],            \* last_push_at
             log |-> <<>>,                               \* the row __pushes__
             storm |-> None,                             \* __storm__ open: its last summary
             okOnce |-> {},                              \* rows with a delivery that was ok
             mailed |-> {},                              \* rows with an [UNACKED] mail
             failed |-> {}]                              \* history: the latest publish failed
    /\ probes = 0 /\ hands = 0 /\ faults = 0
    /\ byHand = {}

---------------------------------------------------------------------------
(* Rows of the inbox and of the push log *)

\* finding(): create, or update in place; a RESOLVED row reopens.
Filed(a, f) == [a EXCEPT !.row[f] = IF @ \in {"none", "resolved"} THEN "open" ELSE @]

Unresolved(a, f) == a.row[f] \notin {"none", "resolved"}

\* _recent_pushes()
Recent(a, t) ==
    {i \in DOMAIN a.log : a.log[i].counts /\ t - a.log[i].at <= StormWindow}
StormingLate(a, t) == Cardinality(Recent(a, t)) > StormLimit + 1
Storming(a, t) == Cardinality(Recent(a, t)) > StormLimit

\* _record_push()
RecordPush(a, f, t, counts, recovery) ==
    [a EXCEPT !.log = Append(@, [at |-> t, fp |-> f, counts |-> counts,
                                 delivered |-> FALSE, recovery |-> recovery])]

\* deliver(): a push that went out is stamped; one that failed gives the clock back
\* only if no push of this row ever succeeded (_release_failed_push_clock).
Deliver(a, f, t, up) ==
    IF up THEN [a EXCEPT !.pushAt[f] = t, !.okOnce = @ \cup {f}, !.failed = @ \ {f}]
    ELSE [a EXCEPT !.pushAt[f] = IF f \in a.okOnce THEN @ ELSE None, !.failed = @ \cup {f}]

---------------------------------------------------------------------------
(* The storm breaker *)

\* storm_breaker(): more than StormLimit pushes in the window file one P1, then a
\* summary per window; the storm ends when the rate has dropped.  Its own row is
\* never held back, is recorded only when the breaker runs outside after_raise, and
\* the notice of its end does not count.
StormBreaker(a, t, up, nested) ==
    IF Storming(a, t) /\ (a.storm = None \/ t - a.storm >= StormWindow)
    THEN LET b == Filed([a EXCEPT !.storm = t,
                                  !.openedAt[Storm] = IF a.storm = None THEN t ELSE @], Storm)
             push == b.row[Storm] = "open"
             c == IF push /\ ~nested
                  THEN [RecordPush(b, Storm, t, TRUE, FALSE) EXCEPT !.pushAt[Storm] = t] ELSE b
         IN IF push THEN Deliver(c, Storm, t, up) ELSE c
    ELSE IF ~Storming(a, t) /\ a.storm # None
    THEN LET b == [a EXCEPT !.storm = None]
         IN IF Unresolved(b, Storm)
            THEN RecordPush([b EXCEPT !.row[Storm] = "resolved"], Storm, t, FALSE, TRUE) ELSE b
    ELSE a

\* recovery_notice()
RecoveryNotice(a, f, t, up, nested) ==
    StormBreaker(RecordPush(a, f, t, TRUE, TRUE), t, up, nested)

---------------------------------------------------------------------------
(* Flapping *)

LastMove(a, s) == a.moves[s][Len(a.moves[s])].at

\* _flap_holds()
FlapHolds(a, s, t) ==
    /\ Unresolved(a, Flap(s))
    /\ a.moves[s] = <<>> \/ t - LastMove(a, s) < FlapWindow

\* _maybe_resolve_flap(), _resolve_engine_finding()
MaybeResolveFlap(a, s, t, up, nested) ==
    IF Unresolved(a, Flap(s)) /\ a.moves[s] # <<>> /\ t - LastMove(a, s) >= FlapWindow
    THEN RecoveryNotice([a EXCEPT !.row[Flap(s)] = "resolved"], Flap(s), t, up, nested)
    ELSE a

\* _cycle_count(): closings in the window after an opening in it that no other closing
\* has used up.
CycleCount(a, s, t) ==
    LET m == a.moves[s]
        inWindow == {i \in DOMAIN m : t - m[i].at <= FlapWindow}
    IN Cardinality({i \in inWindow :
          /\ m[i].ev = "close"
          /\ \E j \in inWindow : /\ j < i /\ m[j].ev = "open"
                                 /\ \A k \in inWindow : j < k /\ k < i => m[k].ev # "close"})

---------------------------------------------------------------------------
(* Raising an alert *)

SiteOf(f) == f[1]

\* suppressed_by(): an open host-down or zone-down of the site's parents.  No caller
\* of observe() names a host or a zone, so none is ever open.
SuppressedBy(a, s) == FALSE

\* _annotate_delivery(), _storming_except()
WillPush(a, f, t) ==
    /\ a.row[f] = "open"
    /\ f[2] = "down" => ~FlapHolds(a, SiteOf(f), t) /\ ~SuppressedBy(a, SiteOf(f))
    /\ f # Storm => ~Storming(a, t)

\* after_raise() and _after_raise_body(): settle what has become stale, decide, record
\* the push, look at the rate again.  maybe_deliver(): a P1 goes out at once.
AfterRaise(a, f, t, up) ==
    LET b == IF f[1] \in Sites THEN MaybeResolveFlap(a, SiteOf(f), t, up, TRUE) ELSE a
        c == StormBreaker(b, t, up, TRUE)
        will == WillPush(c, f, t)
        d == IF will THEN [RecordPush(c, f, t, TRUE, FALSE) EXCEPT !.pushAt[f] = t] ELSE c
        e == StormBreaker(d, t, up, TRUE)
    IN IF will /\ Severity(f) = "p1" THEN Deliver(e, f, t, up) ELSE e

\* raise_alert()
RaiseAlert(a, f, t, up) ==
    AfterRaise([Filed(a, f) EXCEPT !.openedAt[f] = IF @ = None THEN t ELSE @], f, t, up)

\* flap_check()
FlapCheck(a, s, t, up) ==
    IF CycleCount(a, s, t) >= FlapCycles /\ ~Unresolved(a, Flap(s))
    THEN RaiseAlert(a, Flap(s), t, up) ELSE a

\* _maybe_file_partner_aggregate(): two sites of the partner are down.
PartnerAggregate(a, t, up) ==
    IF Cardinality({s \in Partner : a.isOpen[s]}) >= 2 /\ ~Unresolved(a, Aggregate)
    THEN RaiseAlert(a, Aggregate, t, up) ELSE a

\* _open(), _file_open()
Open(a, s, t, up) ==
    IF FlapHolds(a, s, t) \/ SuppressedBy(a, s) THEN a
    ELSE LET b == [a EXCEPT !.isOpen[s] = TRUE, !.openedAt[Down(s)] = t,
                            !.moves[s] = Append(@, [at |-> t, ev |-> "open"])]
             c == RaiseAlert(b, Down(s), t, up)
         IN IF s \in Partner THEN PartnerAggregate(c, t, up) ELSE c

\* _close(): resolve, look for flapping, and record the notice of recovery.
Close(a, s, t, up) ==
    LET b == [a EXCEPT !.isOpen[s] = FALSE, !.moves[s] = Append(@, [at |-> t, ev |-> "close"]),
                       !.row[Down(s)] = IF @ = "none" THEN "none" ELSE "resolved"]
        c == FlapCheck(b, s, t, up)
    IN RecoveryNotice(c, Down(s), t, up, FALSE)

Capped(n, m) == IF n < m THEN n + 1 ELSE m

\* observe(): the counters saturate at the threshold they are compared with.
Observe(a, s, ok, t, up) ==
    LET b == MaybeResolveFlap(a, s, t, up, FALSE)
        c == IF ok THEN [b EXCEPT !.oks[s] = Capped(@, CloseAfter), !.fails[s] = 0]
             ELSE [b EXCEPT !.fails[s] = Capped(@, OpenAfter), !.oks[s] = 0]
    IN IF ok /\ c.isOpen[s] /\ c.oks[s] >= CloseAfter THEN Close(c, s, t, up)
       ELSE IF ~ok /\ ~c.isOpen[s] /\ c.fails[s] >= OpenAfter THEN Open(c, s, t, up)
       ELSE c

---------------------------------------------------------------------------
(* The tasks *)

\* The pager answers, or one of MaxFaults publishes fails.
Pager(up) == up \/ faults < MaxFaults

\* The next site of the probe cycle: the status of a GET, handed to observe().
ProbeSite(ok, up) ==
    /\ probes < MaxProbes /\ probes' = probes + 1
    /\ at' = (at % Len(SiteOrder)) + 1
    /\ al' = Observe(al, SiteOrder[at], ok, clock, up)
    /\ Pager(up) /\ (up \/ al' # Observe(al, SiteOrder[at], ok, clock, TRUE))
    /\ faults' = IF up THEN faults ELSE faults + 1
    /\ byHand' = {f \in byHand : al'.row[f] = al.row[f]}
    /\ UNCHANGED <<clock, hands>>

OpenP1(a) == {f \in Fps : Severity(f) = "p1" /\ a.row[f] = "open"}
Due(a, f, t) == a.pushAt[f] = None \/ t - a.pushAt[f] >= RepeatAfter

\* repeat_unacked(): every open P1 whose clock has run out is pushed again, whatever
\* holds first pushes back; after a day one [UNACKED] mail per row.
RepeatUnacked(a, t, up) ==
    LET due == {f \in OpenP1(a) : Due(a, f, t)}
    IN [a EXCEPT
          !.pushAt = [f \in Fps |-> IF f \in due THEN Deliver(a, f, t, up).pushAt[f] ELSE @[f]],
          !.okOnce = IF up THEN @ \cup due ELSE @,
          !.failed = IF up THEN @ \ due ELSE @ \cup due,
          !.mailed = @ \cup {f \in OpenP1(a) : t - a.openedAt[f] >= UnackedAfter}]

\* group_p2(): the rows with an entry that is young enough and not delivered.
GroupP2(a, t) ==
    {a.log[i].fp : i \in {j \in DOMAIN a.log : /\ ~a.log[j].delivered
                                               /\ Severity(a.log[j].fp) = "p2"
                                               /\ t - a.log[j].at <= GroupWindow}}

\* mark_p2_delivered_fps()
Marked(a, fps) ==
    [a EXCEPT !.log = [i \in DOMAIN @ |->
        IF @[i].fp \in fps THEN [@[i] EXCEPT !.delivered = TRUE] ELSE @[i]]]

\* deliver_grouped(): one row is delivered by itself, several in one push
\* (_publish_group), and what was published is marked.
DeliverGrouped(a, t, up) ==
    LET fps == GroupP2(a, t)
        b == IF Cardinality(fps) = 1 THEN Deliver(a, CHOOSE f \in fps : TRUE, t, up) ELSE a
    IN IF up THEN Marked(b, fps) ELSE b

\* The entries of q from the first of keep on.
From(q, keep) ==
    LET ks == keep \cup {Len(q) + 1}
        k == CHOOSE i \in ks : \A j \in ks : i <= j
    IN [i \in 1..(Len(q) + 1 - k) |-> q[i + k - 1]]

\* Entries that no reader of the log or of the transitions looks at are forgotten: they
\* are in the order of their times, so those are the first ones.
Forget(a, t) ==
    [a EXCEPT
       !.log = From(@, {i \in DOMAIN @ : t - @[i].at <= StormWindow \/ t - @[i].at <= GroupWindow}),
       !.moves = [s \in Sites |->
          From(@[s], {i \in DOMAIN @[s] : t - @[s][i].at <= FlapWindow \/ i = Len(@[s])})]]

\* 300 s pass and both tasks of that beat run.
Beat(up) ==
    /\ clock < MaxClock /\ clock' = clock + 1
    /\ LET t == clock + 1
           Tasks(ok) == DeliverGrouped(RepeatUnacked(Forget(al, t), t, ok), t, ok)
       IN al' = Tasks(up) /\ Pager(up) /\ (up \/ al' # Tasks(TRUE))
    /\ faults' = IF up THEN faults ELSE faults + 1
    /\ UNCHANGED <<at, probes, hands, byHand>>

\* FindingTransitionView: ack, resolve or accept_risk, as _ALLOWED permits.
Allowed(from) ==
    CASE from = "open" -> {"acked", "resolved", "accepted"}
      [] from = "acked" -> {"resolved", "accepted"}
      [] from = "accepted" -> {"resolved"}
      [] OTHER -> {}
Transition(f, to) ==
    /\ hands < MaxHands /\ hands' = hands + 1
    /\ to \in Allowed(al.row[f])
    /\ al' = [al EXCEPT !.row[f] = to]
    /\ byHand' = byHand \cup {f}
    /\ UNCHANGED <<clock, at, probes, faults>>

Next ==
    \/ \E ok, up \in BOOLEAN : ProbeSite(ok, up)
    \/ \E up \in BOOLEAN : Beat(up)
    \/ \E f \in Fps, to \in {"acked", "resolved", "accepted"} : Transition(f, to)

Spec == Init /\ [][Next]_alertVars

---------------------------------------------------------------------------
(* Properties *)

States == {"none", "open", "acked", "accepted", "resolved"}

\* The tables at time t: no stamp, page or transition is later, and the counters are
\* within their thresholds.
Timed(t) ==
    [fails : [Sites -> 0..OpenAfter], oks : [Sites -> 0..CloseAfter], isOpen : [Sites -> BOOLEAN],
     moves : [Sites -> Seq([at : 0..t, ev : {"open", "close"}])],
     openedAt : [Fps -> None..t], row : [Fps -> States], pushAt : [Fps -> None..t],
     log : Seq([at : 0..t, fp : Fps, counts : BOOLEAN, delivered : BOOLEAN, recovery : BOOLEAN]),
     storm : None..t, okOnce : SUBSET Fps, mailed : SUBSET Fps, failed : SUBSET Fps]

\* The tables have the types of their models, and nothing in them is ahead of the clock.
TypeOK ==
    /\ clock \in 0..MaxClock /\ at \in DOMAIN SiteOrder /\ byHand \subseteq Fps
    /\ al \in Timed(clock)

\* However many sites fail, no more first pages than the storm limit and the one that
\* crossed it go out in a window; the recovery notices and the storm's own page are
\* not held back.
StormBounded ==
    LET first == {i \in DOMAIN al.log : ~al.log[i].recovery /\ al.log[i].fp # Storm}
    IN \A i \in first :
        Cardinality({j \in first : j <= i /\ al.log[i].at - al.log[j].at <= StormWindow})
            <= StormLimit + 1

\* A site whose probes have failed OPEN_AFTER times in a row is in the inbox, under its
\* own row or as FLAPPING, unless the operator put the row away.
NoSilentOutage ==
    \A s \in Sites : al.fails[s] >= OpenAfter =>
        \/ Unresolved(al, Down(s)) /\ al.isOpen[s]
        \/ Unresolved(al, Flap(s))
        \/ byHand \cap {Down(s), Flap(s)} # {}

\* While no operator resolves a FLAPPING row, a site opens at most FLAP_CYCLES times in
\* half an hour: then FLAPPING holds it.
OpensBounded ==
    hands = 0 => \A s \in Sites :
        Cardinality({i \in DOMAIN al.moves[s] : /\ al.moves[s][i].ev = "open"
                                                /\ clock - al.moves[s][i].at < FlapWindow}) <= FlapCycles

\* A push of an open P1 that failed does not start the hourly clock: the next repeat
\* task pushes it again (the docstring of _release_failed_push_clock).
FailedPushIsDue ==
    \A f \in OpenP1(al) \cap al.failed : Due(al, f, clock)

---------------------------------------------------------------------------
(* What the proofs need beside the properties *)

Move == [at : Nat, ev : {"open", "close"}]
Push == [at : Nat, fp : Fps, counts : BOOLEAN, delivered : BOOLEAN, recovery : BOOLEAN]

\* The tables, whatever the time.
Tables ==
    [fails : [Sites -> Nat], oks : [Sites -> Nat], isOpen : [Sites -> BOOLEAN],
     moves : [Sites -> Seq(Move)], openedAt : [Fps -> Int], row : [Fps -> States],
     pushAt : [Fps -> Int], log : Seq(Push), storm : Int, okOnce : SUBSET Fps,
     mailed : SUBSET Fps, failed : SUBSET Fps]

\* The first pages of a log, and those in the window of the i-th entry up to it.
First(q) == {i \in DOMAIN q : ~q[i].recovery /\ q[i].fp # Storm}
InWindow(q, i) == {j \in First(q) : j <= i /\ q[i].at - q[j].at <= StormWindow}

\* LogInv: what StormBounded says of a log, and that every first page counts.
LogInv(q) ==
    /\ \A i \in DOMAIN q : ~q[i].recovery => q[i].counts
    /\ \A i \in First(q) : Cardinality(InWindow(q, i)) <= StormLimit + 1

\* MovesInv: openings and closings alternate in the order of their times, and the last
\* one says whether the site is open.
MovesInv(m, open, t) ==
    /\ \A i \in DOMAIN m : m[i].at <= t
    /\ \A i, j \in DOMAIN m : i < j => m[i].at <= m[j].at
    /\ \A i \in DOMAIN m : m[i].ev = "open" /\ i < Len(m) => m[i + 1].ev = "close"
    /\ open <=> m # <<>> /\ m[Len(m)].ev = "open"

\* The openings of a site in the window of FLAPPING, and their bound: one less for a site
\* that may open again.
Opens(m, t) == {i \in DOMAIN m : m[i].ev = "open" /\ t - m[i].at < FlapWindow}
OpensAt(a, s, t) ==
    /\ Cardinality(Opens(a.moves[s], t)) <= FlapCycles
    /\ ~a.isOpen[s] /\ ~Unresolved(a, Flap(s)) => Cardinality(Opens(a.moves[s], t)) < FlapCycles

\* What NoSilentOutage says of one site, and that an open alert has its row unless the
\* operator put it away.
SilentOne(a, h, s) ==
    /\ a.isOpen[s] => Unresolved(a, Down(s)) \/ Down(s) \in h
    /\ a.fails[s] >= OpenAfter =>
        \/ Unresolved(a, Down(s)) /\ a.isOpen[s]
        \/ Unresolved(a, Flap(s))
        \/ h \cap {Down(s), Flap(s)} # {}

\* The invariant, of tables a, rows h put away by hand, time t and n steps of the operator.
AlertGood(a, h, t, n) ==
    /\ a \in Tables /\ t \in Nat /\ n \in Nat /\ LogInv(a.log)
    /\ \A s \in Sites : SilentOne(a, h, s)
    /\ \A s \in Sites : MovesInv(a.moves[s], a.isOpen[s], t)
    /\ n = 0 => \A s \in Sites : OpensAt(a, s, t)

AlertInv == AlertGood(al, byHand, clock, hands) /\ at \in DOMAIN SiteOrder
=============================================================================
