-------------------------- MODULE MCConfigAtomicity --------------------------
EXTENDS ConfigAtomicity

\* Two captured configurations, and a machine that has neither.
MCInitial == [sl \in Slots |-> "old"]
MCPayloads == {[sl \in Slots |-> "new"], [sl \in Slots |-> "none"]}
=============================================================================
