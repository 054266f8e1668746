---------------------------- MODULE AttackScaling ----------------------------
(***************************************************************************)
(* The attack playbook (monitor/attack_playbook.py, attack_detector.py) and  *)
(* the propose-mode scaler it must hold back (scaling/).  The playbook runs  *)
(* per site of a target after each collect, the evaluator per site once a   *)
(* minute, the operator moves rows of the inbox; all three meet only in the  *)
(* Finding rows of the zone and of the sites.                               *)
(***************************************************************************)
EXTENDS Integers, FiniteSets

CONSTANTS
    ZoneSites,          \* sites of one DnsZone
    Hosts,              \* targets an overflow may be proposed on, a set of records
    Consecutive,        \* CONSECUTIVE_MINUTES
    MaxGap,             \* MAX_SAMPLE_GAP_S, in minutes
    MaxEdgeFaults, MaxClicks, MaxTraffic, MaxEvals     \* bounds of the exploration

VARIABLES
    score,      \* per site, score_site(): "none", "calm", "warm" or "hot"
    edgeLevel,  \* the security level the zone has at the edge
    edgeRef,    \* edge_protection_for(zone) yields a client
    engaged,    \* state of the row attack-playbook-engaged:<zone>
    cheap,      \* per site, state of scale-cheap-remediation
    proposal,   \* per site, state of scale-out-proposal
    home,       \* per site, the destination its last proposal quotes
    evaluating, \* per site: refuse_if_attack() has passed and the rest has not run
    edgeFaults, clicks, traffic, evals,
    seen,       \* history: sites evaluated from start to end since the engagement
    torn        \* history: an edge call failed, or a row was put away by hand or with no client

attackVars == <<score, edgeLevel, edgeRef, engaged, cheap, proposal, home, evaluating,
                edgeFaults, clicks, traffic, evals, seen, torn>>

Row == {"none", "open", "acked", "accepted", "resolved"}
Live(s) == s \in {"open", "acked", "accepted"}      \* engaged_finding(): not RESOLVED
Pending(s) == s \in {"open", "acked"}
Raised(s) == IF s \in {"none", "resolved"} THEN "open" ELSE s     \* finding()

Init ==
    /\ score = [s \in ZoneSites |-> "none"] /\ edgeLevel = "medium" /\ edgeRef \in BOOLEAN
    /\ engaged = "none" /\ cheap = [s \in ZoneSites |-> "none"] /\ proposal = [s \in ZoneSites |-> "none"]
    /\ home = [s \in ZoneSites |-> "none"]
    /\ evaluating = [s \in ZoneSites |-> FALSE]
    /\ edgeFaults = 0 /\ clicks = 0 /\ traffic = 0 /\ evals = 0 /\ seen = {} /\ torn = FALSE

ScalerSide == <<cheap, proposal, home, evaluating, evals>>

---------------------------------------------------------------------------
(* The detector and the playbook *)

\* A new minute of TrafficStat: z below Z_RELAX, between, or at Z_TRIP with MIN_REQUESTS.
Traffic(s, z) ==
    /\ traffic < MaxTraffic /\ traffic' = traffic + 1 /\ z # score[s]
    /\ score' = [score EXCEPT ![s] = z]
    /\ UNCHANGED <<edgeLevel, edgeRef, engaged, ScalerSide, edgeFaults, clicks, seen, torn>>

\* detect()
Detect(s) == score[s] = "hot"

\* should_relax_zone(): some site has a score, and none is above Z_RELAX.
ShouldRelaxZone ==
    /\ \A s \in ZoneSites : score[s] \in {"none", "calm"}
    /\ \E s \in ZoneSites : score[s] = "calm"

\* engage(): the level, the bans, then the page; without a client notify-only.  A zone
\* whose row is not RESOLVED is not paged again.
Engage(s) ==
    /\ Detect(s)
    /\ edgeLevel' = IF edgeRef THEN "under_attack" ELSE edgeLevel
    /\ engaged' = Raised(engaged)
    /\ seen' = IF Live(engaged) THEN seen ELSE {}
    /\ UNCHANGED <<score, edgeRef, ScalerSide, edgeFaults, clicks, traffic, torn>>

\* A call to the edge raises: the playbook ends there, before or after the level is set,
\* and collect_all audits collector-failed.
EngageFails(s, set) ==
    /\ Detect(s) /\ edgeRef /\ edgeFaults < MaxEdgeFaults /\ edgeFaults' = edgeFaults + 1
    /\ edgeLevel' = IF set THEN "under_attack" ELSE edgeLevel
    /\ torn' = TRUE
    /\ UNCHANGED <<score, edgeRef, engaged, ScalerSide, clicks, traffic, seen>>

\* run() without a signal, relax(): drop the level, then resolve the row; without a
\* client only the row.
Relax(s) ==
    /\ ~Detect(s) /\ Live(engaged) /\ ShouldRelaxZone
    /\ edgeLevel' = IF edgeRef THEN "medium" ELSE edgeLevel
    /\ engaged' = "resolved"
    /\ torn' = (torn \/ (~edgeRef /\ edgeLevel = "under_attack"))
    /\ UNCHANGED <<score, edgeRef, ScalerSide, edgeFaults, clicks, traffic, seen>>

\* The credential of the edge is connected or lost (ScopeError).
ToggleEdge ==
    /\ edgeFaults < MaxEdgeFaults /\ edgeFaults' = edgeFaults + 1 /\ edgeRef' = ~edgeRef
    /\ UNCHANGED <<score, edgeLevel, engaged, ScalerSide, clicks, traffic, seen, torn>>

---------------------------------------------------------------------------
(* The scaler *)

\* _minute_buckets(), _consecutive(), _overflow_axis(): the newest Consecutive minutes
\* follow each other, end recently, and share an axis that is over its threshold.
OverflowAxis(samples, clock) ==
    LET minutes == DOMAIN samples
        newest == CHOOSE m \in minutes : \A n \in minutes : n <= m
        trailing == (newest - Consecutive + 1)..newest
        Over(axis) == \A m \in trailing : axis \in samples[m]
    IN IF \/ Cardinality(minutes) < Consecutive \/ clock - newest > MaxGap
          \/ ~(trailing \subseteq minutes) THEN "none"
       ELSE IF Over("ram") THEN "ram" ELSE IF Over("load") THEN "load" ELSE "none"

\* pick_overflow_home(): a READY permanent machine with headroom that is neither the
\* site's own, a partner's destination nor the Hub; otherwise the cloud quote.
OverflowHome(s) ==
    LET idle == {h \in Hosts : h.ready /\ h.permanent /\ h.headroom /\ ~h.partner /\ ~h.hub /\ h.site # s}
    IN IF idle = {} THEN "cloud" ELSE "own"

\* _retract()
Retract(s) ==
    /\ cheap' = [cheap EXCEPT ![s] = IF Pending(@) THEN "resolved" ELSE @]
    /\ proposal' = [proposal EXCEPT ![s] = IF Pending(@) THEN "resolved" ELSE @]
    /\ UNCHANGED home

NeverRefuse(s) == FALSE
\* refuse_if_attack(): the playbook is engaged on the site's zone.
RefuseIfAttack(s) == Live(engaged)

\* evaluate_site(): refuse and retract, ...
EvalRefused(s) ==
    /\ evals < MaxEvals /\ evals' = evals + 1 /\ ~evaluating[s] /\ RefuseIfAttack(s)
    /\ Retract(s) /\ seen' = seen \cup {s}
    /\ UNCHANGED <<score, edgeLevel, edgeRef, engaged, evaluating, edgeFaults, clicks, traffic, torn>>
\* ... or go on with what the check has found.
EvalStarts(s) ==
    /\ evals < MaxEvals /\ evals' = evals + 1 /\ ~evaluating[s] /\ ~RefuseIfAttack(s)
    /\ evaluating' = [evaluating EXCEPT ![s] = TRUE] /\ seen' = IF Live(engaged) THEN seen \cup {s} ELSE seen
    /\ UNCHANGED <<score, edgeLevel, edgeRef, engaged, cheap, proposal, home, edgeFaults, clicks, traffic, torn>>

EvaluateHomeless(s, axis) ==
    /\ evaluating[s] /\ evaluating' = [evaluating EXCEPT ![s] = FALSE] /\ axis # "none"
    /\ proposal' = [proposal EXCEPT ![s] = Raised(@)]
    /\ UNCHANGED <<score, edgeLevel, edgeRef, engaged, cheap, home, edgeFaults, clicks, traffic, evals, seen, torn>>
\* _evaluate_eligible(): no pressure retracts; pressure files the cheap remediation, waits
\* while it is pending, and proposes the overflow once it was accepted.
Evaluate(s, axis) ==
    /\ evaluating[s] /\ evaluating' = [evaluating EXCEPT ![s] = FALSE]
    /\ IF axis = "none" THEN Retract(s)
       ELSE IF cheap[s] \in {"none", "resolved"} THEN cheap' = [cheap EXCEPT ![s] = "open"] /\ UNCHANGED <<proposal, home>>
       ELSE IF Pending(cheap[s]) THEN UNCHANGED <<cheap, proposal, home>>
       ELSE /\ proposal' = [proposal EXCEPT ![s] = Raised(@)] /\ home' = [home EXCEPT ![s] = OverflowHome(s)]
            /\ UNCHANGED cheap
    /\ UNCHANGED <<score, edgeLevel, edgeRef, engaged, edgeFaults, clicks, traffic, evals, seen, torn>>

\* The operator moves one of the rows.
Click(row, to) == clicks < MaxClicks /\ clicks' = clicks + 1 /\ Pending(row) /\ to \in {"acked", "accepted", "resolved"} \ {row}
ClickEngaged(to) ==
    /\ Click(engaged, to) /\ engaged' = to
    /\ torn' = (torn \/ to = "resolved")
    /\ UNCHANGED <<score, edgeLevel, edgeRef, ScalerSide, edgeFaults, traffic, seen>>
ClickCheap(s, to) ==
    /\ Click(cheap[s], to) /\ cheap' = [cheap EXCEPT ![s] = to]
    /\ UNCHANGED <<score, edgeLevel, edgeRef, engaged, proposal, home, evaluating, edgeFaults, traffic, evals, seen, torn>>

SampleSets == UNION {[ms -> {{}, {"ram"}, {"load"}, {"ram", "load"}}] : ms \in {{}, {1}, {1, 3}, {2, 3}}}

Next ==
    \/ \E s \in ZoneSites :
        \/ \E z \in {"none", "calm", "warm", "hot"} : Traffic(s, z)
        \/ Engage(s) \/ Relax(s) \/ EvalRefused(s) \/ EvalStarts(s)
        \/ \E b \in BOOLEAN : EngageFails(s, b)
        \/ /\ evaluating[s]
           /\ \E axis \in {OverflowAxis(samples, clock) : samples \in SampleSets, clock \in {3, 5}} : Evaluate(s, axis)
        \/ \E to \in {"acked", "accepted", "resolved"} : ClickCheap(s, to)
    \/ \E to \in {"acked", "accepted", "resolved"} : ClickEngaged(to)
    \/ ToggleEdge

Spec == Init /\ [][Next]_attackVars

---------------------------------------------------------------------------
(* Properties *)

\* Rows, levels and scores.
TypeOK ==
    /\ score \in [ZoneSites -> {"none", "calm", "warm", "hot"}] /\ edgeLevel \in {"medium", "under_attack"}
    /\ engaged \in Row /\ cheap \in [ZoneSites -> Row] /\ proposal \in [ZoneSites -> Row]
    /\ \A t \in ZoneSites : home[t] # "none" <=> proposal[t] # "none"
    /\ evaluating \in [ZoneSites -> BOOLEAN] /\ seen \subseteq ZoneSites /\ torn \in BOOLEAN

\* Attack-shaped load never scales: once a site has been evaluated from start to end
\* after the engagement, none of its scaling rows is pending while the attack lasts.
NoScaleUnderAttack ==
    Live(engaged) => \A s \in seen : evaluating[s] \/ ~(Pending(cheap[s]) \/ Pending(proposal[s]))

\* Under-Attack at the edge has an unresolved row, the only thing that will relax it:
\* unless an edge call failed half way, or the row was resolved by hand or while the
\* client was missing.
UnderAttackIsTracked == edgeLevel = "under_attack" /\ ~torn => Live(engaged)

\* Why: a site seen since the engagement was refused, and no evaluation starts until the
\* row is resolved, which empties seen at the next engagement.
HeldBack ==
    /\ home \in [ZoneSites -> {"none", "cloud", "own"}] /\ edgeRef \in BOOLEAN
    /\ Live(engaged) =>
          \A s \in seen : ~evaluating[s] /\ ~Pending(cheap[s]) /\ ~Pending(proposal[s])

\* "never a silent no-op when the detector has tripped": a zone with a hot site on which
\* the playbook has run has an unresolved row.
TrippedIsNotified == edgeLevel = "under_attack" => Live(engaged)
=============================================================================
