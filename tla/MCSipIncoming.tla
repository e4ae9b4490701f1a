--------------------------- MODULE MCSipIncoming ----------------------------
(* Instance of SipIncoming for TLC: an INVITE, a re-INVITE with its Call-ID  *)
(* and an INVITE of another call, and a queue with one place.                *)
EXTENDS SipIncoming

CONSTANTS first, again, other

MCKeys == {first, again, other}
MCCallOf == [k \in MCKeys |-> IF k = again THEN first ELSE k]
=============================================================================
