--------------------------- MODULE MCTriggerSlot ---------------------------
(***************************************************************************)
(* TriggerSlot on small instances.                                         *)
(***************************************************************************)
EXTENDS TriggerSlot

\* One update to write, or findings up to the threshold.
Counts == [l \in Loops |-> IF l = "evolve" THEN 2 ELSE 1]
=============================================================================
