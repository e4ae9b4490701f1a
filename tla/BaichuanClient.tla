--------------------------- MODULE BaichuanClient ---------------------------
(***************************************************************************)
(* The Baichuan clients of one call (internal/baichuan): a connection for  *)
(* talkback and one for the camera's audio.  Each has a reader, after the  *)
(* login a keep-alive and, while a preview runs, a goroutine that parses   *)
(* it, and at most one request at a time, which is matched to its reply by *)
(* message number.                                                         *)
(*                                                                         *)
(* A reply may come at any time, also after its request was given up.  The *)
(* code counts requests, pings and audio blocks in 16 bits; all that       *)
(* matters of a number here is which unanswered request has it.            *)
(* XML and encryption are data, also the cipher that a login reply chooses *)
(* even if nobody waits for it; the two channels between the reader and    *)
(* the receiver of a preview are one queue.                                *)
(***************************************************************************)
EXTENDS Naturals, FiniteSetsExt

CONSTANT QueueCap    \* preview messages that may be waiting

ASSUME QueueAssumption == QueueCap \in Nat \ {0}

Conns == {"talk", "preview"}
\* "clear" and "retry": the TalkReset after a 422 and the second TalkConfig;
\* "reset": the TalkReset that ends a talk session.
Kinds == {"nonce", "login", "ability", "config", "clear", "retry", "reset",
          "preview", "stop"}
MaxNum == 5          \* requests unanswered on one connection

VARIABLE bc          \* per connection: the Client

Nobody == [num |-> 0, code |-> "none"]
NewClient == [link |-> "none", loops |-> {}, loggedIn |-> FALSE, nonce |-> 0,
              num |-> 0, asked |-> {}, stage |-> "idle", kind |-> "nonce",
              box |-> Nobody, stop |-> FALSE, media |-> 0]

\* link: "lost" when the peer has closed it, "closed" after shutdown.  stage:
\* where the request in progress is, num: its number.  box: its channel.
\* asked: requests that the device may still answer.  nonce: during a login, the
\* request whose reply made the key.
BcTypeOK ==
    bc \in [Conns -> [link : {"none", "open", "lost", "closed"},
                      loops : SUBSET {"read", "keep", "pump"},
                      loggedIn : BOOLEAN, nonce : 0..MaxNum, num : 0..MaxNum,
                      asked : SUBSET [num : 1..MaxNum, kind : Kinds],
                      stage : {"idle", "write", "wait", "failed"}, kind : Kinds,
                      box : [num : 0..MaxNum, code : {"none", "ok", "busy", "refused"}],
                      stop : BOOLEAN, media : 0..QueueCap]]
-----------------------------------------------------------------------------
(* What the callers of a client do, as functions of its state.             *)

\* Dial, once the TCP connection is there.
Dialed == [NewClient EXCEPT !.link = "open", !.loops = {"read"}]

\* sendRequest and roundTripRequest begin.
Asking(r, kind) == [r EXCEPT !.stage = "write", !.kind = kind]

\* Login asks for a nonce, unless the client is logged in.
LoginThen(r, kind) == Asking(r, IF r.loggedIn THEN kind ELSE "nonce")

\* roundTripRequest ends: a reply in the channel is preferred to the end of the
\* connection and to that of the context; both may come at any time, the
\* latter if there is a deadline or the context is canceled.
Outcomes(c, deadline) ==
    IF bc[c].stage = "failed" THEN {"none"}
    ELSE IF bc[c].stage # "wait" THEN {}
    ELSE IF bc[c].box # Nobody THEN {bc[c].box.code}
    ELSE IF deadline \/ bc[c].link = "closed" THEN {"none"} ELSE {}

\* What Login keeps of a reply: the key from the nonce, the keep-alive.
Returned(r, code) ==
    [r EXCEPT !.stage = "idle", !.kind = "nonce", !.box = Nobody,
              !.nonce = IF r.kind = "nonce" /\ code = "ok" THEN r.box.num ELSE 0,
              !.loggedIn = @ \/ (r.kind = "login" /\ code = "ok"),
              !.loops = IF r.kind = "login" /\ code = "ok" THEN @ \cup {"keep"} ELSE @]

\* shutdown: nothing more is read.
Shut(r) == [r EXCEPT !.link = "closed", !.asked = {}]

\* What Close waits for.
Joined(c) == bc[c].link = "closed" /\ bc[c].loops = {}
-----------------------------------------------------------------------------
(* Steps of the client's own goroutines and of the device.                 *)

\* reserveMessageNumber: a number that no unanswered request has.
FreshNum(c) == 1 + Max({m.num : m \in bc[c].asked} \cup {0})

\* writeRequest: the request gets its number and its channel, and is written
\* within two seconds.
Write(c) ==
    /\ bc[c].stage = "write" /\ bc[c].link \in {"open", "lost"}
    /\ bc' = [bc EXCEPT ![c].stage = "wait", ![c].num = FreshNum(c), ![c].box = Nobody,
                        ![c].asked = IF bc[c].link = "lost" THEN @
                                      ELSE @ \cup {[num |-> FreshNum(c), kind |-> bc[c].kind]}]

WriteFails(c) ==
    /\ bc[c].stage = "write"
    /\ bc' = [bc EXCEPT ![c].stage = "failed"]

\* Mutant of ReadReply: replies are matched by their message ID only.
ReadReplyByID(c) ==
    /\ "read" \in bc[c].loops /\ bc[c].link \in {"open", "lost"}
    /\ \E m \in bc[c].asked, code \in {"ok", "busy", "refused"} :
        bc' = [bc EXCEPT ![c].asked = @ \ {m},
                         ![c].box = IF bc[c].stage = "wait" /\ m.kind = bc[c].kind /\ @ = Nobody
                                    THEN [num |-> m.num, code |-> code] ELSE @]

\* readLoop: a reply goes to the channel of the request with its ID and number,
\* if it is still wanted.
ReadReply(c) ==
    /\ "read" \in bc[c].loops /\ bc[c].link \in {"open", "lost"}
    /\ \E m \in bc[c].asked, code \in {"ok", "busy", "refused"} :
        bc' = [bc EXCEPT ![c].asked = @ \ {m},
                         ![c].box = IF /\ bc[c].stage = "wait"
                                       /\ m = [num |-> bc[c].num, kind |-> bc[c].kind]
                                    THEN [num |-> m.num, code |-> code] ELSE @]

\* startPreview subscribes before it asks for the preview.
Subscribed(c) == "pump" \in bc[c].loops \/ bc[c].kind = "preview"

\* Mutant of ReadMedia: the queue has no limit.
ReadMediaUnbounded(c) ==
    /\ "read" \in bc[c].loops /\ Subscribed(c) /\ bc[c].link \in {"open", "lost"}
    /\ bc' = [bc EXCEPT ![c].media = @ + 1]

\* readLoop: a preview message for the subscriber; overflow ends the connection.
ReadMedia(c) ==
    /\ "read" \in bc[c].loops /\ Subscribed(c) /\ bc[c].link \in {"open", "lost"}
    /\ bc' = [bc EXCEPT ![c] = IF bc[c].media < QueueCap THEN [bc[c] EXCEPT !.media = @ + 1]
                               ELSE [Shut(bc[c]) EXCEPT !.loops = @ \ {"read"}]]

\* readLoop: the end of the stream, or nonsense in it.
ReadEnds(c) ==
    /\ "read" \in bc[c].loops /\ bc[c].link # "open"
    /\ bc' = [bc EXCEPT ![c] = [Shut(bc[c]) EXCEPT !.loops = @ \ {"read"}]]

\* The goroutine of startPreview cannot parse a message.
PumpFails(c) ==
    /\ "pump" \in bc[c].loops
    /\ bc' = [bc EXCEPT ![c] = [Shut(bc[c]) EXCEPT !.loops = @ \ {"pump"}]]

PumpEnds(c) ==
    /\ "pump" \in bc[c].loops /\ (bc[c].link = "closed" \/ bc[c].stop)
    /\ bc' = [bc EXCEPT ![c].loops = @ \ {"pump"}]

KeepAliveEnds(c) ==
    /\ "keep" \in bc[c].loops /\ bc[c].link = "closed"
    /\ bc' = [bc EXCEPT ![c].loops = @ \ {"keep"}]

\* The device or the network ends the connection.
PeerCloses(c) ==
    /\ bc[c].link = "open"
    /\ bc' = [bc EXCEPT ![c].link = "lost"]

\* The steps that a running client takes without being asked.
BcGoesOn(c) == Write(c) \/ WriteFails(c) \/ ReadEnds(c) \/ PumpEnds(c) \/ KeepAliveEnds(c)

BcStep(c) ==
    BcGoesOn(c) \/ ReadReply(c) \/ ReadMedia(c) \/ PumpFails(c) \/ PeerCloses(c)
-----------------------------------------------------------------------------
\* A login is computed from the nonce that this very login asked for: a reply
\* that comes after its nonce request was given up never reaches the request
\* that follows (the receiver's three-second hint may give up a login which
\* startPreview then begins again).
LoginUsesItsOwnNonce ==
    \A c \in Conns : bc[c].kind = "login" /\ bc[c].stage = "write" => bc[c].nonce = bc[c].num
=============================================================================
