------------------------------- MODULE Drills -------------------------------
(***************************************************************************)
(* The scheduled drills (monitor/drills.py, monitor/tasks.py): a task seeds  *)
(* the due time of its next run, then runs and records a CheckRun; an       *)
(* hourly task reports what is overdue.  Only the row with status SCHEDULED  *)
(* carries due_at, and there is one per kind.  The unit of time is an hour  *)
(* of the detection task.                                                   *)
(***************************************************************************)
EXTENDS Integers, FiniteSets

CONSTANTS
    Period,             \* DRILL_PERIODS: kind -> units
    MaxDrillNow, MaxLost     \* bounds of the exploration

VARIABLES
    drillNow,
    dueAt,      \* kind -> due_at of the SCHEDULED row, or Never
    finished,   \* kind -> time of the last SUCCEEDED or FAILED row, or Never
    latest,     \* kind -> status of the last CheckRun
    reported,   \* kind -> the row drill-missed:<kind> has been filed since the last start
    beatAt,     \* kind -> the next time Beat sends the task
    begun,      \* history: kind -> when a task last started
    lost        \* messages that Beat sent and no worker took

drillVars == <<drillNow, dueAt, finished, latest, reported, beatAt, begun, lost>>

Kinds == DOMAIN Period
Never == -1
Terminal == {"succeeded", "failed"}
\* What a drill may meet: a site with a READY target, a test plane, a backup unit, a real
\* pager, and whether its work succeeds.
World == [site : BOOLEAN, testPlane : BOOLEAN, unit : BOOLEAN, pager : BOOLEAN, works : BOOLEAN]

Init ==
    /\ drillNow = 0
    /\ dueAt = [k \in Kinds |-> Never] /\ finished = [k \in Kinds |-> Never]
    /\ latest = [k \in Kinds |-> "none"] /\ reported = [k \in Kinds |-> FALSE]
    /\ beatAt = [k \in Kinds |-> 0] /\ begun = [k \in Kinds |-> 0] /\ lost = 0

\* run_hub_down_drill(): no site with a READY target is SKIPPED; the stop that Beat's task
\* passes is the no-op, which is FAILED whatever the site answers.
HubDownDrill(w) == IF ~w.site THEN "skipped" ELSE "failed"

\* run_reaper_drill(): outside a test plane it is SKIPPED; otherwise the planted name is
\* reaped, or ReaperUnavailable.
ReaperDrill(w) == IF ~w.testPlane THEN "skipped" ELSE IF w.works THEN "succeeded" ELSE "skipped"

\* run_restore_clean_drill(): SKIPPED only when there is no unit to restore.
RestoreCleanDrill(w) == IF ~w.unit THEN "skipped" ELSE IF w.works THEN "succeeded" ELSE "failed"

\* run_pager_drill(): a fake backend is SKIPPED; otherwise this run's delivery decides.
PagerDrill(w) == IF ~w.pager THEN "skipped" ELSE IF w.works THEN "succeeded" ELSE "failed"

Outcome(k, w) ==
    CASE k = "hub_down" -> HubDownDrill(w)
      [] k = "reaper" -> ReaperDrill(w)
      [] k = "restore_clean" -> RestoreCleanDrill(w)
      [] k = "pager" -> PagerDrill(w)

\* seed_due_at(): create the SCHEDULED row, or move its due_at.
SeedOnce(k) == IF dueAt[k] = Never THEN drillNow + Period[k] ELSE dueAt[k]
SeedDueAt(k) == drillNow + Period[k]

\* record_run()
RecordRun(k, status) ==
    /\ latest' = [latest EXCEPT ![k] = status]
    /\ finished' = [finished EXCEPT ![k] = IF status \in Terminal THEN drillNow ELSE @]

Sent(k) == beatAt[k] <= drillNow /\ beatAt' = [beatAt EXCEPT ![k] = drillNow + Period[k]]

\* The task of tasks.py: seed, then the body in the world w; a body that raises records
\* nothing.
RunDrill(k, w, raises) ==
    /\ Sent(k)
    /\ dueAt' = [dueAt EXCEPT ![k] = SeedDueAt(k)] /\ begun' = [begun EXCEPT ![k] = drillNow]
    /\ reported' = [reported EXCEPT ![k] = FALSE]
    /\ IF raises THEN UNCHANGED <<latest, finished>> ELSE RecordRun(k, Outcome(k, w))
    /\ raises => ~w.works
    /\ UNCHANGED <<drillNow, lost>>

\* No worker takes the message.
LoseDrill(k) ==
    /\ lost < MaxLost /\ lost' = lost + 1 /\ Sent(k)
    /\ UNCHANGED <<drillNow, dueAt, finished, latest, reported, begun>>

\* find_missed(): past due, not covered by a SUCCEEDED or FAILED row.
Missed(k, t) == dueAt[k] # Never /\ dueAt[k] < t /\ finished[k] < dueAt[k]

\* An hour passes: detect_missed_drills() files alert_missed_drill() for each.  The
\* drills that Beat has sent are taken or lost first.
Hour ==
    /\ drillNow < MaxDrillNow /\ drillNow' = drillNow + 1 /\ \A k \in Kinds : beatAt[k] > drillNow
    /\ reported' = [k \in Kinds |-> reported[k] \/ Missed(k, drillNow + 1)]
    /\ UNCHANGED <<dueAt, finished, latest, beatAt, begun, lost>>

Next ==
    \/ \E k \in Kinds : LoseDrill(k) \/ \E w \in World, raises \in BOOLEAN : RunDrill(k, w, raises)
    \/ Hour

Spec == Init /\ [][Next]_drillVars

---------------------------------------------------------------------------
(* Properties *)

\* Times, statuses and flags of the CheckRun rows.
TypeOK ==
    /\ drillNow \in 0..MaxDrillNow /\ lost \in 0..MaxLost
    /\ \A k \in Kinds : /\ dueAt[k] \in Never..(MaxDrillNow + Period[k]) /\ finished[k] \in Never..MaxDrillNow
                        /\ latest[k] \in Terminal \cup {"none", "skipped"}

\* A drill is in the inbox exactly when an hour has passed since it was due: a lost
\* message is reported, and a drill that starts in time never is.
MissedExactly ==
    \A k \in Kinds : dueAt[k] # Never => (reported[k] <=> drillNow > begun[k] + Period[k])

\* Why: due_at is one period after the last start, no drill has finished since it started
\* last, so each hour past due_at files the row and a start clears it.
Overdue ==
    \A k \in Kinds :
        /\ finished[k] <= begun[k] /\ begun[k] <= drillNow
        /\ dueAt[k] # Never => dueAt[k] = begun[k] + Period[k] /\ (reported[k] <=> drillNow > dueAt[k])
DrillType ==
    /\ TypeOK /\ dueAt \in [Kinds -> Int] /\ finished \in [Kinds -> Int] /\ begun \in [Kinds -> Nat]
    /\ latest \in [Kinds -> Terminal \cup {"none", "skipped"}]
    /\ reported \in [Kinds -> BOOLEAN] /\ beatAt \in [Kinds -> Nat]

\* "A missed drill is a Finding, not a silence.": a drill that has not succeeded or failed
\* for two periods is in the inbox.
SilentDrill ==
    \A k \in Kinds : drillNow > 2 * Period[k] /\ finished[k] < drillNow - 2 * Period[k] => reported[k]
=============================================================================
