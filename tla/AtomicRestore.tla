---------------------------- MODULE AtomicRestore ----------------------------
(***************************************************************************)
(* What restoring configuration sets promises: a set is replaced by a      *)
(* captured configuration in one step, or it stays as it was.  There are   *)
(* no crashes here: a death only delays the step that ends a transaction.  *)
(***************************************************************************)
EXTENDS Naturals

CONSTANTS Sets, TxIds, Payloads, Initial

VARIABLES
  config,           \* config[s]: the content of set s
  owner,            \* owner[t]: the set transaction t was opened for (0: none)
  outcome           \* outcome[t]: "none", "open", "committed" or "rolled_back"

vars == <<config, owner, outcome>>

Init ==
  /\ config = [s \in Sets |-> Initial]
  /\ owner = [t \in TxIds |-> 0]
  /\ outcome = [t \in TxIds |-> "none"]

\* One transaction at a time.
Begin(t, s) ==
  /\ \A u \in TxIds : outcome[u] # "open"
  /\ outcome[t] = "none"
  /\ outcome' = [outcome EXCEPT ![t] = "open"]
  /\ owner' = [owner EXCEPT ![t] = s]
  /\ UNCHANGED config

\* The only step that changes a set: all of it, to a captured configuration.
Commit(t, p) ==
  /\ outcome[t] = "open"
  /\ outcome' = [outcome EXCEPT ![t] = "committed"]
  /\ config' = [config EXCEPT ![owner[t]] = p]
  /\ UNCHANGED owner

Abort(t) ==
  /\ outcome[t] = "open"
  /\ outcome' = [outcome EXCEPT ![t] = "rolled_back"]
  /\ UNCHANGED <<config, owner>>

Next ==
  \/ \E t \in TxIds, s \in Sets : Begin(t, s)
  \/ \E t \in TxIds, p \in Payloads : Commit(t, p)
  \/ \E t \in TxIds : Abort(t)

Spec == Init /\ [][Next]_vars
=============================================================================
