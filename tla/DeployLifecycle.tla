-------------------------- MODULE DeployLifecycle --------------------------
(***************************************************************************)
(* What the pipeline promises about a deployment, without workers, locks,  *)
(* messages or sweeps: a site, and a host, has at most one RUNNING         *)
(* deployment, and a deployment that has ended is not started again.       *)
(* A cancel is a request only: a worker that is already starting the       *)
(* deployment may still start it.                                          *)
(***************************************************************************)
CONSTANTS Deployments, SiteOf, TargetOf

VARIABLE phase

Phases == {"none", "queued", "running", "cancelled", "ended"}

\* d and e may not be RUNNING together.
Conflict(d, e) ==
    /\ d # e
    /\ \/ SiteOf[d] = SiteOf[e]
       \/ TargetOf[SiteOf[d]] = TargetOf[SiteOf[e]]

Init == phase = [d \in Deployments |-> "none"]

Move(d, from, to) == /\ phase[d] \in from
                     /\ phase' = [phase EXCEPT ![d] = to]

Submit(d) == Move(d, {"none"}, "queued")

Start(d) == /\ \A e \in Deployments : Conflict(d, e) => phase[e] # "running"
            /\ Move(d, {"queued", "cancelled"}, "running")

End(d) == Move(d, {"queued", "running", "cancelled"}, "ended")

Cancel(d) == Move(d, {"queued", "running", "ended"}, "cancelled")

Next == \E d \in Deployments : Submit(d) \/ Start(d) \/ End(d) \/ Cancel(d)

Spec == Init /\ [][Next]_phase
=============================================================================
