------------------------- MODULE MCValidationHarness -------------------------
(***************************************************************************)
(* A module with a required file, an optional merged file and a registry   *)
(* key, every scenario mode, two engine deviations and two failing calls.  *)
(***************************************************************************)
EXTENDS ValidationHarness

MCMinima == {<<>>, [a \in {"rebuild"} |-> 3], [a \in {"rebuild", "revert"} |-> 2]}
=============================================================================
