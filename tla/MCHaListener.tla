--------------------------- MODULE MCHaListener ---------------------------
(* Two sensors, pressed twice and once; the trigger channel holds one       *)
(* trigger, so that it can be full.                                         *)
EXTENDS HaListener

CONSTANTS front, back

Twice == [e \in {front, back} |-> IF e = front THEN 2 ELSE 1]
=============================================================================
