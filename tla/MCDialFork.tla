---------------------------- MODULE MCDialFork ------------------------------
(* Instance of DialFork for TLC: the door telephone and two mobile targets.  *)
EXTENDS DialFork

CONSTANTS door, mobile1, mobile2

MCLegs == {door, mobile1, mobile2}
=============================================================================
