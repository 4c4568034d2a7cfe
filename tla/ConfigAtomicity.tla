--------------------------- MODULE ConfigAtomicity ---------------------------
(***************************************************************************)
(* The transaction protocol implements AtomicRestore when nobody else      *)
(* writes to the targets and nothing is reverted: a reader who honours the *)
(* journal (takes the recorded prior state of a set while its transaction  *)
(* is pending) never sees a set half restored, whatever dies.              *)
(***************************************************************************)
EXTENDS ConfigTransaction

PendingOn(s) == {t \in PendingTx : cfgSet[t] = s}

\* What a set counts as: the recorded prior state until its transaction ends.
ConfigOf(s) ==
  IF PendingOn(s) = {} THEN tgt[s] ELSE prior[CHOOSE t \in PendingOn(s) : TRUE]

OutcomeOf(t) ==
  IF t \notin intent THEN "none" ELSE IF marker[t] = "none" THEN "open" ELSE marker[t]

Atomic == INSTANCE AtomicRestore WITH
  config <- [s \in Sets |-> ConfigOf(s)],
  owner <- [t \in TxIds |-> IF t \in intent THEN cfgSet[t] ELSE 0],
  outcome <- [t \in TxIds |-> OutcomeOf(t)]

\* Every behaviour of the engine is one in which each transaction replaces its
\* set in a single step or not at all: commits, rollbacks, recoveries by a later
\* process and ambiguous publications included.
ImplementsAtomicRestore == Atomic!Spec

\* What the step from one specification to the other rests on besides the
\* invariants of ConfigTransaction: no session reverts, and what a transaction
\* asks for is a captured configuration.
RestoreOnly ==
  /\ pc \notin {"revertNext", "markReverted"} /\ mode # "revert"
  /\ \A t \in intent : desired[t] \in Payloads
  /\ pc = "intent" => desired[cur] \in Payloads
=============================================================================
