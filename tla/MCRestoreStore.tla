----------------------------- MODULE MCRestoreStore -----------------------------
(* Bounds of the store model: a long history, a restore of two sets, and two *)
(* disturbances in a row (a death during the recovery from a death).         *)
EXTENDS RestoreStore

MCLimits == {[sets |-> <<1, 1, 0, 0>>, trouble |-> 1],
             [sets |-> <<2, 1, 0>>, trouble |-> 1],
             [sets |-> <<1, 0>>, trouble |-> 2]}
=============================================================================
