---------------------------- MODULE MCReconciler ----------------------------
(* Small instances of Reconciler for TLC. *)
EXTENDS Reconciler, TLC

CONSTANTS s1, s2, h1, t1, t2

\* Every site is on one host.
OneHost == [s \in Sites |-> h1]

ReconcilerSymmetry == Permutations(Tickers)
=============================================================================
