------------------------- MODULE MCDeployPipeline -------------------------
(* Small instances of DeployPipeline for TLC. *)
EXTENDS DeployPipeline, TLC

CONSTANTS s1, s2, t1, w1, w2, sw1, op1

OneSiteOf == [d \in Deployments |-> s1]
OneTargetOf == [s \in Sites |-> t1]
\* Odd deployments belong to s1, even ones to s2.
TwoSitesOf == [d \in Deployments |-> IF d % 2 = 1 THEN s1 ELSE s2]

WorkerSymmetry == Permutations(Workers)
===========================================================================
