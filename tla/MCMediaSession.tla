--------------------------- MODULE MCMediaSession ---------------------------
(* One call of either kind, with queues of one message.                     *)
EXTENDS MediaSession
=============================================================================
