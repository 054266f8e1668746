---------------------------- MODULE MCHudOutbox ----------------------------
(* Small instances of HudOutbox for TLC. *)
EXTENDS HudOutbox, TLC

CONSTANTS r1, r2, k1, w1, w2

\* A client repeats its request under one Idempotency-Key.
OneKey == [r \in Requests |-> k1]
\* Requests without a key.
NoKeys == [r \in Requests |-> NoKey]

OutboxSymmetry == Permutations(Workers)
=============================================================================
