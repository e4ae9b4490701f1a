------------------------------ MODULE MCGateway -----------------------------
(* Instance of Gateway for TLC: one outgoing and one incoming call, each of  *)
(* which may come first, in every interleaving of runners and environment.   *)
EXTENDS Gateway

CONSTANTS o1, i1

MCCalls == {o1, i1}
MCIncoming == {i1}
=============================================================================
