--------------------------- MODULE MCStatusStore ---------------------------
(* Two clients, three snapshots, three keys and a DTMF channel for one.     *)
EXTENDS StatusStore

CONSTANTS c1, c2
=============================================================================
