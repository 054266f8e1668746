------------------------------ MODULE AdoptFlow ------------------------------
(***************************************************************************)
(* Adopting a running site: the requests (deploys/adopt_service.py), the    *)
(* flow of a worker (deploys/adopt_flow.py: temp name, verify, flip,         *)
(* decommission, cleanup) and the hourly reaper (deploys/adopt_reaper.py).  *)
(* Every function looks up the newest CheckRun of the site again            *)
(* (_find_checkrun), whatever run its task was queued for.                  *)
(***************************************************************************)
EXTENDS Integers, Sequences, FiniteSets

CONSTANTS
    Adopters,       \* workers of the deploys queue
    MaxRuns, MaxCancels, MaxAdoptFaults     \* bounds of the exploration

VARIABLES
    mesh,       \* the site's exposure is mesh_only
    runs,       \* CheckRun(kind=adopt) rows of the site: [status, stage, temp, stale]
    tasks,      \* run_adopt and cancel_adopt messages: [kind, run]
    doing,      \* per worker and for the reaper: [at, kind, stage, temp, verified]
    minted,     \* temp names minted so far: a name is its number, 0 is ""
    tempNames,  \* temp names at the DNS provider
    orphans,    \* adopt-temp-orphan rows that are not resolved
    prod,       \* what the production name points at: "old" or "new"
    oldUp,      \* the old container runs
    temp,       \* the container site-<slug>-adopt: "none", "up" or "down"
    cancels, adoptFaults,
    raced,      \* history: a flow overlapped another one, a cancel or the reaper
    again       \* history: a run was queued after a production flip

adoptVars == <<mesh, runs, tasks, doing, minted, tempNames, orphans, prod, oldUp, temp,
               cancels, adoptFaults, raced, again>>

Cleaners == Adopters \cup {"reaper"}
Early == {"", "temp_dns", "verify"}             \* _CANCELLABLE
PostFlip == {"flip", "decommission"}            \* _POST_FLIP
PastTemp == {"verify", "flip", "decommission", "cleanup"}
PastVerify == {"flip", "decommission", "cleanup"}
PastFlip == {"decommission", "cleanup"}
Free == [at |-> "idle", kind |-> "", stage |-> "", temp |-> 0, verified |-> FALSE]

Init ==
    /\ mesh \in BOOLEAN /\ runs = <<>> /\ tasks = {} /\ doing = [w \in Cleaners |-> Free]
    /\ minted = 0 /\ tempNames = {} /\ orphans = {} /\ prod = "old" /\ oldUp = TRUE /\ temp = "none"
    /\ cancels = 0 /\ adoptFaults = 0 /\ raced = FALSE /\ again = FALSE

Run == runs[Len(runs)]                          \* _find_checkrun()
\* _write_checkrun() on whichever run is the newest by now.
Write(row) == runs' = [runs EXCEPT ![Len(runs)] = row]
Do(w, d) == doing' = [doing EXCEPT ![w] = d]
Goto(w, at) == Do(w, [doing[w] EXCEPT !.at = at])
Edge == <<tempNames, orphans, prod, oldUp, temp>>
History == <<cancels, adoptFaults, raced, again>>

---------------------------------------------------------------------------
(* The requests *)

\* start_adopt(): an active run is returned as it is; one that failed before the flip is
\* resumed; otherwise there is a new one.
StartAdopt ==
    /\ runs # <<>> => ~(Run.status = "running" /\ Run.stage # "cleanup")
    /\ IF runs # <<>> /\ Run.status = "failed" /\ Run.stage \in Early
       THEN Write([Run EXCEPT !.status = "running"])
       ELSE /\ Len(runs) < MaxRuns
            /\ runs' = Append(runs, [status |-> "running", stage |-> "", temp |-> 0, stale |-> FALSE])
    /\ tasks' = tasks \cup {[kind |-> "adopt", run |-> Len(runs')]}
    /\ again' = (again \/ prod = "new")
    /\ UNCHANGED <<mesh, doing, minted, Edge, cancels, adoptFaults, raced>>

\* cancel_adopt(): 409 after the flip, nothing for a run that has ended.
CancelAdopt ==
    /\ cancels < MaxCancels /\ cancels' = cancels + 1
    /\ runs # <<>> /\ Run.status = "running" /\ Run.stage \in Early
    /\ tasks' = tasks \cup {[kind |-> "cancel", run |-> Len(runs)]}
    /\ UNCHANGED <<mesh, runs, doing, minted, Edge, adoptFaults, raced, again>>

\* execute_adopt(): only a RUNNING run; adopt_flow() returns at once after a cleanup.
ExecuteAdopt(w, m) ==
    /\ m \in tasks /\ m.kind = "adopt" /\ tasks' = tasks \ {m} /\ doing[w].at = "idle"
    /\ IF runs[m.run].status = "running" /\ Run.stage # "cleanup"
       THEN Do(w, [Free EXCEPT !.kind = "adopt", !.at = IF mesh THEN "verify" ELSE "temp"])
       ELSE UNCHANGED doing
    /\ raced' = (raced \/ \E v \in Cleaners : doing[v].at # "idle")
    /\ UNCHANGED <<mesh, runs, minted, Edge, cancels, adoptFaults, again>>

\* execute_cancel(): the stage of the run it was queued for decides, ...
ExecuteCancel(w, m) ==
    /\ m \in tasks /\ m.kind = "cancel" /\ tasks' = tasks \ {m} /\ doing[w].at = "idle"
    /\ IF runs[m.run].stage \notin PostFlip THEN Do(w, [Free EXCEPT !.kind = "cancel", !.at = "clean"])
       ELSE UNCHANGED doing
    /\ UNCHANGED <<mesh, runs, minted, Edge, History>>

---------------------------------------------------------------------------
(* adopt_flow() *)

\* AdoptRefused: _mark_failed() on the newest run.  Any other exception ends the task and
\* leaves the run RUNNING.
Refuse(w) == Do(w, Free) /\ Write([Run EXCEPT !.status = "failed"])
Raise(w) == adoptFaults < MaxAdoptFaults /\ adoptFaults' = adoptFaults + 1 /\ Do(w, Free)

\* ensure_temp_dns(): the name is minted and written before it is used, ...
MintTemp(w) ==
    /\ doing[w].at = "temp"
    /\ IF Run.stage = "cleanup" THEN Goto(w, "verify") /\ UNCHANGED <<runs, minted>>
       ELSE LET name == IF Run.temp = 0 THEN minted + 1 ELSE Run.temp IN
            /\ minted' = IF Run.temp = 0 THEN minted + 1 ELSE minted
            /\ IF Run.temp = 0 THEN Write([Run EXCEPT !.temp = name, !.stage = "temp_dns"])
                               ELSE UNCHANGED runs
            /\ Do(w, [doing[w] EXCEPT !.at = "upsert", !.stage = Run.stage, !.temp = name])
    /\ UNCHANGED <<mesh, tasks, Edge, History>>
\* ... then upserted at the provider and recorded.
UpsertTemp(w) ==
    /\ doing[w].at = "upsert" /\ Goto(w, "verify")
    /\ tempNames' = tempNames \cup {doing[w].temp}
    /\ IF doing[w].stage \in PastTemp THEN UNCHANGED runs
       ELSE Write([Run EXCEPT !.temp = doing[w].temp, !.stage = "temp_dns"])
    /\ UNCHANGED <<mesh, tasks, minted, orphans, prod, oldUp, temp, History>>

\* ensure_verify(), _start_temp_container(): start what is not running.  After a cleanup
\* the container's image alone decides.
EnsureVerify(w) ==
    /\ doing[w].at = "verify"
    /\ IF Run.stage = "cleanup"
       THEN Do(w, [doing[w] EXCEPT !.at = "flip", !.verified = (temp # "none")]) /\ UNCHANGED temp
       ELSE Do(w, [doing[w] EXCEPT !.at = "probe", !.stage = Run.stage]) /\ temp' = "up"
    /\ UNCHANGED <<mesh, runs, tasks, minted, tempNames, orphans, prod, oldUp, History>>

\* _temp_healthz_ready(): over the temp name, or over the container's address for a mesh
\* site.
Healthz(w, ready) ==
    /\ doing[w].at = "probe"
    /\ ready => temp = "up" /\ (mesh \/ Run.temp \in tempNames)
    /\ IF ready
       THEN /\ Do(w, [doing[w] EXCEPT !.at = "flip", !.verified = TRUE])
            /\ IF doing[w].stage \in PastVerify THEN UNCHANGED runs
                                               ELSE Write([Run EXCEPT !.stage = "verify"])
       ELSE Refuse(w)
    /\ UNCHANGED <<mesh, tasks, minted, Edge, History>>

\* ensure_flip(): past it, nothing; refused when this flow has not verified the image,
\* and for unmapped volumes or drift (_refuse_unmapped(), _refuse_drift()).
EnsureFlip(w, blocked) ==
    /\ doing[w].at = "flip"
    /\ IF ~doing[w].verified THEN Refuse(w)
       ELSE IF Run.stage \in PastFlip THEN Goto(w, "decommission") /\ UNCHANGED runs
       ELSE IF blocked THEN Refuse(w)
       ELSE Goto(w, "point") /\ UNCHANGED runs
    /\ UNCHANGED <<mesh, tasks, minted, Edge, History>>
PointProd(w) ==
    /\ doing[w].at = "point" /\ Goto(w, "decommission")
    /\ prod' = "new" /\ Write([Run EXCEPT !.stage = "flip"])
    /\ UNCHANGED <<mesh, tasks, minted, tempNames, orphans, oldUp, temp, History>>

\* ensure_decommission(): stop the old container; a stop that fails is refused.
EnsureDecommission(w, stopped) ==
    /\ doing[w].at = "decommission"
    /\ IF Run.stage = "cleanup" THEN stopped /\ Goto(w, "clean") /\ UNCHANGED <<runs, oldUp>>
       ELSE IF stopped
       THEN Goto(w, "clean") /\ Write([Run EXCEPT !.stage = "decommission"]) /\ oldUp' = FALSE
       ELSE oldUp /\ Refuse(w) /\ UNCHANGED oldUp
    /\ UNCHANGED <<mesh, tasks, minted, tempNames, orphans, prod, temp, History>>

\* A DNS or SSH call raises in the middle of the flow.
FlowRaises(w) ==
    /\ doing[w].kind = "adopt" /\ doing[w].at \in {"upsert", "probe", "point", "decommission"} /\ Raise(w)
    /\ UNCHANGED <<mesh, runs, tasks, minted, Edge, cancels, raced, again>>

---------------------------------------------------------------------------
(* cleanup() *)

Flowing == \E v \in Adopters : doing[v].kind = "adopt"
CleanupRead(w) ==
    /\ doing[w].at = "clean"
    /\ Do(w, [doing[w] EXCEPT !.at = "delete", !.stage = Run.stage, !.temp = Run.temp])
    /\ raced' = (raced \/ (doing[w].kind # "adopt" /\ Flowing))
    /\ UNCHANGED <<mesh, runs, tasks, minted, Edge, cancels, adoptFaults, again>>

StopAlways(w) == temp = "up"
\* The container is stopped only when the stage says that nothing was flipped to it.
StopsTemp(w) == doing[w].stage \in Early /\ temp = "up"

\* Delete the temp name, stop the container of an unfinished adoption, close the run.
Cleanup(w) ==
    /\ doing[w].at = "delete" /\ Do(w, Free)
    /\ tempNames' = IF mesh THEN tempNames ELSE tempNames \ {doing[w].temp}
    /\ temp' = IF StopsTemp(w) THEN "down" ELSE temp
    /\ Write([Run EXCEPT !.stage = "cleanup", !.status = "succeeded"])
    /\ orphans' = orphans \ {doing[w].temp}
    /\ raced' = (raced \/ (doing[w].kind # "adopt" /\ Flowing))
    /\ UNCHANGED <<mesh, tasks, minted, prod, oldUp, cancels, adoptFaults, again>>

\* A failed delete files adopt-temp-orphan and raises.
CleanupFails(w) ==
    /\ doing[w].at = "delete" /\ ~mesh /\ doing[w].temp \in tempNames /\ Raise(w)
    /\ orphans' = orphans \cup {Run.temp}
    /\ UNCHANGED <<mesh, runs, tasks, minted, tempNames, prod, oldUp, temp, cancels, raced, again>>

\* A day passes for the runs there are.
Age ==
    /\ \E i \in DOMAIN runs : ~runs[i].stale
    /\ runs' = [i \in DOMAIN runs |-> [runs[i] EXCEPT !.stale = TRUE]]
    /\ UNCHANGED <<mesh, tasks, doing, minted, Edge, History>>

\* reap(): a stale row that is not cleaned up and has a temp name, or any of a mesh site;
\* _reap_one() hands the site to cleanup().
Reap(i) ==
    /\ doing["reaper"].at = "idle" /\ runs[i].stale /\ runs[i].stage # "cleanup"
    /\ mesh \/ runs[i].temp # 0
    /\ Do("reaper", [Free EXCEPT !.kind = "reaper", !.at = "clean"])
    /\ UNCHANGED <<mesh, runs, tasks, minted, Edge, History>>

Next ==
    \/ StartAdopt \/ CancelAdopt \/ Age
    \/ \E i \in DOMAIN runs : Reap(i)
    \/ \E w \in Adopters :
        \/ \E m \in tasks : ExecuteAdopt(w, m) \/ ExecuteCancel(w, m)
        \/ MintTemp(w) \/ UpsertTemp(w) \/ EnsureVerify(w) \/ PointProd(w) \/ FlowRaises(w)
        \/ \E b \in BOOLEAN : Healthz(w, b) \/ EnsureFlip(w, b) \/ EnsureDecommission(w, b)
    \/ \E w \in Cleaners : CleanupRead(w) \/ Cleanup(w) \/ CleanupFails(w)

Spec == Init /\ [][Next]_adoptVars

---------------------------------------------------------------------------
(* Properties *)

Stages == {"", "temp_dns", "verify", "flip", "decommission", "cleanup"}
Towards == {"temp", "upsert", "verify", "probe", "flip", "point"}    \* a flow before the flip
Row == [status : {"running", "failed", "succeeded"}, stage : Stages, temp : Nat, stale : BOOLEAN]
Flow == [at : Towards \cup {"decommission", "clean", "delete"}, kind : {"adopt"}, stage : Stages,
         temp : Nat, verified : BOOLEAN]
Closing == [at : {"clean", "delete"}, kind : {"cancel", "reaper"}, stage : Stages, temp : Nat,
            verified : BOOLEAN]
\* A temp name in a row, in a worker's hands, at the provider or orphaned has been minted.
NamesMinted ==
    /\ \A i \in DOMAIN runs : runs[i].temp <= minted
    /\ \A w \in Cleaners : doing[w].temp <= minted /\ (doing[w].at = "upsert" => doing[w].temp > 0)
    /\ tempNames \subseteq 1..minted /\ orphans \subseteq 0..minted

\* Rows, messages, names and places.
TypeOK ==
    /\ minted \in Nat /\ runs \in Seq(Row)
    /\ tasks \subseteq [kind : {"adopt", "cancel"}, run : 1..Len(runs)]
    /\ doing \in [Cleaners -> {Free} \cup Flow \cup Closing]
    /\ \A w \in Cleaners : /\ doing[w].kind = "adopt" => w \in Adopters
                           /\ doing[w].at # "idle" => runs # <<>>
    /\ prod \in {"old", "new"} /\ temp \in {"none", "up", "down"} /\ oldUp \in BOOLEAN /\ raced \in BOOLEAN /\ again \in BOOLEAN
    /\ NamesMinted

Undisturbed == ~raced /\ ~again

\* A run has succeeded when it is cleaned up, and only the newest is open; its stage tells
\* what the production name points at, and then no message is left that would adopt again.
StageTells == Undisturbed =>
    /\ \A i \in DOMAIN runs : /\ runs[i].status = "succeeded" <=> runs[i].stage = "cleanup"
                              /\ i < Len(runs) => runs[i].status = "succeeded"
    /\ runs # <<>> /\ Run.stage \in PostFlip => prod = "new"
    /\ prod = "new" => /\ runs # <<>> /\ Run.stage \notin Early /\ temp = "up"
                       /\ [kind |-> "adopt", run |-> Len(runs)] \notin tasks
    /\ oldUp \/ prod = "new"

\* A flow is alone, on the newest run, and nobody deletes beside it; how far it is, is what
\* it has done.
FlowAt(w) == doing[w].kind = "adopt" =>
    /\ Run.status = "running" /\ Run.stage # "cleanup"
    /\ [kind |-> "adopt", run |-> Len(runs)] \notin tasks
    /\ \A v \in Cleaners : v # w => doing[v].at \in {"idle", "clean"} /\ doing[v].kind # "adopt"
    /\ doing[w].at \in Towards => prod = "old" /\ Run.stage \in Early
    /\ doing[w].at \in {"probe", "flip", "point"} => temp = "up"
    /\ doing[w].at \notin Towards => prod = "new"
\* A cleanup that will stop the container has seen no flip.
StopsUnused(w) ==
    doing[w].at = "delete" /\ doing[w].stage \in Early => prod = "old" /\ doing[w].kind # "adopt"
FlowKnows == Undisturbed => \A w \in Cleaners : FlowAt(w) /\ StopsUnused(w)

\* Through refusals, failed calls, resumed runs, cancels and the reaper one of the two
\* stacks serves the site, as long as no cleanup overlaps a flow and no adoption is
\* started again after the flip.
OneStackServes == ~raced /\ ~again => oldUp \/ temp = "up"

\* "cancel refused after production flip; use rollback": so no cleanup stops what the
\* production name points at.
NeverDark == oldUp \/ temp = "up"

\* "One owner for cancel, successful flip, and the adopt-temp-reaper Beat": a temp name
\* at the provider belongs to the newest run, or to an open orphan row.
TempNamesOwned == \A n \in tempNames : n \in orphans \/ n = Run.temp
=============================================================================
