------------------------- MODULE MCConfigTransaction -------------------------
EXTENDS ConfigTransaction

\* Two versions of a captured configuration, and the content found on a machine.
MCInitial == [sl \in Slots |-> "old"]
MCPayloads == {[sl \in Slots |-> "new"], MCInitial}
=============================================================================
