-------------------------- MODULE MCPartnerIntake --------------------------
(* Small instances of PartnerIntake for TLC. *)
EXTENDS PartnerIntake, TLC

Request(m, k, t, h, ten, b) ==
    [nonce |-> m, key |-> k, ts |-> t, path |-> h, tenant |-> ten, body |-> b]

\* A request, its retry with a new signature and the same key, and one of a
\* second tenant that was signed by a clock that is a window ahead.
MCRequests == {
    Request("m1", "k1", 0, "sites", "a", "template"),
    Request("m2", "k1", 0, "sites", "a", "template"),
    Request("m3", "none", 1, "deployments", "b", "template")}

PollerSymmetry == Permutations(Pollers)


=============================================================================
