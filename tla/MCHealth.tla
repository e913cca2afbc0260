------------------------------ MODULE MCHealth -------------------------------
(* A lane with a short timeout, and, in MCHealthTimeout, one with a longer timeout beside it. *)
EXTENDS Health, TLC
CONSTANTS brief, long
MCTimeout == [l \in Lanes |-> IF l = brief THEN 1 ELSE 2]
=============================================================================
