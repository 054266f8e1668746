--------------------------- MODULE WizardReports ---------------------------
(***************************************************************************)
(* The scan reports Wizard is checked on: one declared path worded in two   *)
(* ways, with and without a hard block, a warning and a secret question,    *)
(* and a report an older scanner wrote.                                     *)
(***************************************************************************)
W1 == [path |-> "p", reason |-> "r1"]
W2 == [path |-> "p", reason |-> "r2"]
MCWordings == {W1, W2}

Report(d, s, h, w, sec, cur) ==
    [decls |-> d, soft |-> s, hard |-> h, warn |-> w, secret |-> sec, current |-> cur]
MCReports == {Report({W1}, {W1}, FALSE, FALSE, FALSE, TRUE),
              Report({W2}, {W2}, FALSE, TRUE, TRUE, TRUE),
              Report({W1}, {W1}, TRUE, FALSE, FALSE, TRUE),
              Report({}, {}, FALSE, FALSE, TRUE, FALSE)}
=============================================================================
