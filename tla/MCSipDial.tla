----------------------------- MODULE MCSipDial ------------------------------
(* Instance of SipDial for TLC: ring timeouts on both sides of the           *)
(* transaction deadline and a channel that three responses fill.             *)
EXTENDS SipDial

MCRingTimeouts == {30, 60}
=============================================================================
