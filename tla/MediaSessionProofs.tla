------------------------ MODULE MediaSessionProofs --------------------------
(***************************************************************************)
(* Proofs about MediaSession with its two protocol clients, for queues of  *)
(* any length and any number of retries: the types, which bound the        *)
(* requests that are unanswered on a connection; that a login is computed  *)
(* from the nonce it asked for; and that Run leaves nothing behind.        *)
(***************************************************************************)
EXTENDS MediaSession, TLAPS

\* The records of the two clients and of an RTSP request.
RequestType ==
    [stage : {"idle", "write", "wait", "failed"}, method : Methods, tries : 0..MaxAuthRetries,
     box : {"none", "ok", "auth", "refused"}]
RtType ==
    [link : {"none", "open", "lost", "closed"}, stalled : BOOLEAN,
     loops : SUBSET {"read", "keep", "report"}, failures : 0..MaxFailures,
     req : [Askers -> RequestType]]

ClientType ==
    [link : {"none", "open", "lost", "closed"}, loops : SUBSET {"read", "keep", "pump"},
     loggedIn : BOOLEAN, nonce : 0..MaxNum, num : 0..MaxNum,
     asked : SUBSET [num : 1..MaxNum, kind : Kinds],
     stage : {"idle", "write", "wait", "failed"}, kind : Kinds,
     box : [num : 0..MaxNum, code : {"none", "ok", "busy", "refused"}],
     stop : BOOLEAN, media : 0..QueueCap]

\* The request in progress, as the device knows it.
Current(r) == [num |-> r.num, kind |-> r.kind]

\* Of the requests that were given up, at most those numbered up to g are still
\* unanswered; the request in progress may be unanswered too.
NumOk(r, g) ==
    /\ r.num <= g + 1
    /\ \A m \in r.asked : m.num <= g \/ (r.stage = "wait" /\ r.box = Nobody /\ m = Current(r))

\* What is in the channel answers the request in progress.
BoxOk(r) == r.box = Nobody \/ (r.stage = "wait" /\ r.box.num = r.num)

\* A login is about to be written with its own nonce.
NonceOk(r) == r.kind = "login" /\ r.stage = "write" => r.nonce = r.num

ClientOk(r, g) == r \in ClientType /\ NumOk(r, g) /\ BoxOk(r) /\ NonceOk(r)

\* One request may be given up on a connection that stays open: one of the hint.
GivenUp(c) == IF c = "preview" /\ ~hint THEN 1 ELSE 0

\* A connection has a request in progress only where Run waits for it.
IdleInv ==
    /\ bc["talk"].stage = "idle" \/ (mode = "nvr" /\ pc \in {"talk", "stopTalk"})
    /\ bc["preview"].stage = "idle" \/ pc \in {"receive", "stopPreview"}

ClientsOk == bc \in [Conns -> ClientType] /\ \A c \in Conns : ClientOk(bc[c], GivenUp(c))

\* The client was never opened, or is closed and its goroutines have ended.
Gone(r) == r.loops = {} /\ r.link \in {"none", "closed"}

\* Which connections Run may have left open where it is.
LinkInv ==
    /\ mode = "standalone" => \A c \in Conns : Gone(bc[c])
    /\ pc \in {"start", "talk", "dropTalk", "tone", "open", "join", "stopTalk", "closeTalk",
               "over"} => Gone(bc["preview"])
    /\ pc \in {"start", "over"} => Gone(bc["talk"])
    /\ mode = "nvr" \/ pc \in {"start", "over"} => rt.link \in {"none", "closed"}

\* Which goroutines and processes may run where Run is.
PhaseInv ==
    /\ pc \in {"receive", "dropPreview", "ready", "stopPreview", "closePreview", "dropTalk",
               "closeTalk"} => mode = "nvr"
    /\ talking => mode = "nvr" /\ pc \notin {"start", "talk", "dropTalk", "closeTalk", "over"}
    /\ ff = "run" => mode = "standalone" /\ pc \in {"drain", "live"}
    /\ rcv.pc \in {"run", "emit"} =>
          mode = "nvr" /\ pc \in {"ready", "drain", "live", "stopPreview", "closePreview"}
    /\ pc \notin {"live", "stopPreview", "closePreview", "join"} =>
          \A w \in Workers : worker[w] \in {"off", "over"}

\* The types of the session's own variables.
Positions ==
    {"start", "talk", "dropTalk", "tone", "open", "receive", "dropPreview", "ready", "drain",
     "live", "stopPreview", "closePreview", "join", "stopTalk", "closeTalk", "over"}
OwnTypes ==
    /\ mode \in Modes /\ pc \in Positions
    /\ ctx \in BOOLEAN /\ run \in BOOLEAN /\ sockets \in BOOLEAN
    /\ talking \in BOOLEAN /\ hint \in BOOLEAN
    /\ rcv \in [pc : {"off", "run", "emit", "over"}, ready : BOOLEAN, canceled : BOOLEAN]
    /\ pcm \in 0..PcmCap /\ ff \in {"off", "run", "killed", "over"}
    /\ worker \in [Workers \cup {"phone"} -> {"off", "run", "write", "leave", "over"}]

\* Run returns with open sockets only if it has not connected to anything.
SocketInv == pc = "start" \/ (pc = "over" /\ sockets) => Untouched

\* The inductive invariant, but for SocketInv.
SessionInv ==
    OwnTypes /\ ClientsOk /\ rt \in RtType /\ IdleInv /\ LinkInv /\ PhaseInv

-----------------------------------------------------------------------------
Codes == {"none", "ok", "busy", "refused"}

\* A fresh client, and one that has just been connected.
LEMMA NewClientOk ==
  ASSUME NEW g \in {0, 1}
  PROVE  /\ ClientOk(NewClient, g) /\ ClientOk(Dialed, g)
         /\ NewClient.stage = "idle" /\ Dialed.stage = "idle" /\ Gone(NewClient)
         /\ ~Dialed.loggedIn
<1> USE QueueAssumption
<1>1. Nobody \in [num : 0..MaxNum, code : Codes]
  BY DEF Nobody, Codes, MaxNum
<1>2. PICK no \in BOOLEAN : no = FALSE
  OBVIOUS
<1>3. 0 \in 0..MaxNum /\ 0 \in 0..QueueCap /\ "nonce" \in Kinds
  BY DEF MaxNum, Kinds
<1>4. NewClient = [link |-> "none", loops |-> {}, loggedIn |-> no, nonce |-> 0,
                   num |-> 0, asked |-> {}, stage |-> "idle", kind |-> "nonce",
                   box |-> Nobody, stop |-> no, media |-> 0]
  BY <1>2 DEF NewClient
<1>5. NewClient \in ClientType
  BY <1>1, <1>3, <1>4 DEF ClientType, Codes
<1>6. Dialed \in ClientType
  BY <1>5 DEF ClientType, Dialed
<1>7. /\ NewClient.num = 0 /\ NewClient.asked = {} /\ NewClient.stage = "idle"
      /\ NewClient.box = Nobody /\ NewClient.loops = {} /\ NewClient.link = "none"
      /\ ~NewClient.loggedIn
  BY <1>2, <1>4
<1>8. /\ Dialed.num = 0 /\ Dialed.asked = {} /\ Dialed.stage = "idle"
      /\ Dialed.box = Nobody /\ ~Dialed.loggedIn
  BY <1>5, <1>7 DEF Dialed, ClientType
<1>9. QED
  BY <1>5, <1>6, <1>7, <1>8 DEF ClientOk, NumOk, BoxOk, NonceOk, Gone

\* A request begins when there is none in progress.
LEMMA AskingOk ==
  ASSUME NEW g \in {0, 1}, NEW r, ClientOk(r, g), r.stage = "idle", NEW kind \in Kinds,
         kind = "login" => r.nonce = r.num
  PROVE  ClientOk(Asking(r, kind), g)
<1>1. Asking(r, kind) \in ClientType
  BY DEF Asking, ClientOk, ClientType
<1>2. QED
  BY <1>1 DEF Asking, ClientOk, ClientType, NumOk, BoxOk, NonceOk, Nobody

\* The same when a login may have to come first.
LEMMA LoginThenOk ==
  ASSUME NEW g \in {0, 1}, NEW r, ClientOk(r, g), r.stage = "idle",
         NEW kind \in Kinds \ {"login"}
  PROVE  ClientOk(LoginThen(r, kind), g)
<1>1. PICK k : k = IF r.loggedIn THEN kind ELSE "nonce"
  OBVIOUS
<1>2. k \in Kinds /\ k # "login"
  BY <1>1 DEF Kinds
<1>3. QED
  BY <1>1, <1>2, AskingOk DEF LoginThen

\* How roundTripRequest can end.
LEMMA OutcomeForm ==
  ASSUME NEW c \in Conns, bc[c] \in ClientType, NEW d, NEW code \in Outcomes(c, d)
  PROVE  /\ code \in Codes
         /\ code # "none" => bc[c].stage = "wait" /\ bc[c].box # Nobody
  BY DEF Outcomes, ClientType, Codes, Nobody

\* The end of a request: types.
LEMMA ReturnedType ==
  ASSUME NEW r \in ClientType, NEW code \in Codes
  PROVE  /\ Returned(r, code) \in ClientType
         /\ Returned(r, code).stage = "idle" /\ Returned(r, code).box = Nobody
         /\ Returned(r, code).num = r.num /\ Returned(r, code).asked = r.asked
         /\ Returned(r, code).kind = "nonce"
         /\ Returned(r, code).nonce = IF r.kind = "nonce" /\ code = "ok" THEN r.box.num ELSE 0
         /\ Returned(r, code).link = r.link /\ Returned(r, code).stop = r.stop
         /\ r.loops \subseteq Returned(r, code).loops
<1>1. (r.loggedIn \/ (r.kind = "login" /\ code = "ok")) \in BOOLEAN
  OBVIOUS
<1>2. PICK b \in BOOLEAN : b = (r.loggedIn \/ (r.kind = "login" /\ code = "ok"))
  BY <1>1
<1>3. PICK n \in 0..MaxNum : n = IF r.kind = "nonce" /\ code = "ok" THEN r.box.num ELSE 0
  BY DEF ClientType, MaxNum
<1>4. PICK l \in SUBSET {"read", "keep", "pump"} :
         l = IF r.kind = "login" /\ code = "ok" THEN r.loops \cup {"keep"} ELSE r.loops
  BY DEF ClientType
<1>5. PICK x : x = Nobody /\ x \in [num : 0..MaxNum, code : Codes]
  <2>1. Nobody \in [num : 0..MaxNum, code : Codes]
    BY DEF Nobody, Codes, MaxNum
  <2>2. QED
    BY <2>1
<1>6. Returned(r, code) = [r EXCEPT !.stage = "idle", !.kind = "nonce", !.box = x,
                                    !.nonce = n, !.loggedIn = b, !.loops = l]
  BY <1>2, <1>3, <1>4, <1>5 DEF Returned
<1>7. "nonce" \in Kinds
  BY DEF Kinds
<1>8. Returned(r, code) \in ClientType
  <2>1. PICK t : t = [r EXCEPT !.stage = "idle", !.kind = "nonce", !.box = x]
    OBVIOUS
  <2>2. t \in ClientType
    BY <1>5, <1>7, <2>1 DEF ClientType, Codes
  <2>3. [t EXCEPT !.nonce = n, !.loggedIn = b, !.loops = l] \in ClientType
    BY <2>2 DEF ClientType
  <2>4. Returned(r, code) = [t EXCEPT !.nonce = n, !.loggedIn = b, !.loops = l]
    BY <1>6, <2>1 DEF ClientType
  <2>5. QED
    BY <2>3, <2>4
<1>9. r.loops \subseteq l
  BY <1>4
<1>10. /\ Returned(r, code).stage = "idle" /\ Returned(r, code).box = x
       /\ Returned(r, code).num = r.num /\ Returned(r, code).asked = r.asked
       /\ Returned(r, code).kind = "nonce" /\ Returned(r, code).nonce = n
       /\ Returned(r, code).link = r.link /\ Returned(r, code).stop = r.stop
       /\ Returned(r, code).loops = l
  BY <1>6 DEF ClientType
<1>11. QED
  BY <1>3, <1>5, <1>8, <1>9, <1>10

\* A request that was answered leaves nothing unanswered behind, one that was not
\* leaves itself; if the connection is then closed, nothing is read any more.
LEMMA ReturnedOk ==
  ASSUME NEW g \in {0, 1}, NEW r, ClientOk(r, g), NEW code \in Codes
  PROVE  /\ r.box # Nobody \/ r.stage # "wait" => ClientOk(Returned(r, code), g)
         /\ g = 0 => ClientOk(Returned(r, code), 1)
         /\ ClientOk(Shut(Returned(r, code)), g)
         /\ Shut(Returned(r, code)).stage = "idle"
         /\ Shut(Returned(r, code)).link = "closed"
<1>1. r \in ClientType
  BY DEF ClientOk
<1>2. PICK s : s = Returned(r, code)
  OBVIOUS
<1>3. /\ s \in ClientType /\ s.stage = "idle" /\ s.box = Nobody /\ s.num = r.num
      /\ s.asked = r.asked /\ s.kind = "nonce"
  BY <1>1, <1>2, ReturnedType
<1>4. r.num \in 0..MaxNum /\ \A m \in r.asked : m.num \in 1..MaxNum
  BY <1>1 DEF ClientType
<1>5. Shut(s) \in ClientType
  BY <1>3 DEF Shut, ClientType
<1>6. ClientOk(Shut(s), g) /\ Shut(s).stage = "idle" /\ Shut(s).link = "closed"
  BY <1>3, <1>5 DEF Shut, ClientOk, NumOk, BoxOk, NonceOk, ClientType
<1>7. g = 0 => ClientOk(s, 1)
  BY <1>3, <1>4 DEF Current, ClientOk, NumOk, BoxOk, NonceOk, MaxNum
<1>8. r.box # Nobody \/ r.stage # "wait" => ClientOk(s, g)
  BY <1>3, <1>4 DEF ClientOk, NumOk, BoxOk, NonceOk
<1>9. QED
  BY <1>2, <1>6, <1>7, <1>8

-----------------------------------------------------------------------------
\* A set of small numbers has a maximum.
LEMMA MaxOfSmall ==
  ASSUME NEW S \in SUBSET (0..MaxNum), 0 \in S
  PROVE  Max(S) \in S /\ \A y \in S : y <= Max(S)
<1>1. \E x \in S : \A y \in S : x >= y
  <2>1. S \subseteq {0, 1, 2, 3, 4, 5}
    BY DEF MaxNum
  <2>2. CASE 5 \in S
    BY <2>1, <2>2
  <2>3. CASE 5 \notin S /\ 4 \in S
    BY <2>1, <2>3
  <2>4. CASE 5 \notin S /\ 4 \notin S /\ 3 \in S
    BY <2>1, <2>4
  <2>5. CASE 5 \notin S /\ 4 \notin S /\ 3 \notin S /\ 2 \in S
    BY <2>1, <2>5
  <2>6. CASE 5 \notin S /\ 4 \notin S /\ 3 \notin S /\ 2 \notin S
    BY <2>1, <2>6
  <2>7. QED
    BY <2>2, <2>3, <2>4, <2>5, <2>6
<1>2. PICK z : z = Max(S)
  OBVIOUS
<1>3. z \in S /\ \A y \in S : z >= y
  BY <1>1, <1>2 DEF Max
<1>4. \A y \in S : y \in Int
  BY DEF MaxNum
<1>5. QED
  BY <1>2, <1>3, <1>4

\* reserveMessageNumber gives a number that no unanswered request has.
LEMMA FreshNumIsFresh ==
  ASSUME NEW c \in Conns, NEW g \in {0, 1}, bc[c] \in ClientType,
         \A m \in bc[c].asked : m.num <= g
  PROVE  /\ FreshNum(c) \in 1..(g + 1)
         /\ \A m \in bc[c].asked : m.num < FreshNum(c)
<1>1. PICK S : S = {m.num : m \in bc[c].asked} \cup {0}
  OBVIOUS
<1>2. \A m \in bc[c].asked : m.num \in 1..MaxNum
  BY DEF ClientType
<1>3. S \in SUBSET (0..MaxNum) /\ 0 \in S /\ \A x \in S : x <= g /\ x \in Nat
  BY <1>1, <1>2 DEF MaxNum
<1>4. PICK z : z = Max(S)
  OBVIOUS
<1>5. z \in S /\ \A y \in S : y <= z
  BY <1>3, <1>4, MaxOfSmall
<1>6. FreshNum(c) = 1 + z
  BY <1>1, <1>4 DEF FreshNum
<1>7. z \in Nat /\ z <= g /\ \A m \in bc[c].asked : m.num <= z /\ m.num \in Nat
  BY <1>1, <1>2, <1>3, <1>5
<1>8. QED
  BY <1>6, <1>7

\* A client may become r by a step of its own.
Becomes(c, g, r) ==
    /\ bc' = [bc EXCEPT ![c] = r] /\ ClientOk(r, g)
    /\ bc[c].stage = "idle" => r.stage = "idle"
    /\ Gone(bc[c]) => Gone(r)

\* writeRequest.
LEMMA WriteStep ==
  ASSUME NEW c \in Conns, NEW g \in {0, 1}, DOMAIN bc = Conns, ClientOk(bc[c], g),
         Write(c) \/ WriteFails(c)
  PROVE  \E r : Becomes(c, g, r)
<1>1. bc[c] \in ClientType
  BY DEF ClientOk
<1>2. CASE WriteFails(c)
  <2>1. PICK r : r = [bc[c] EXCEPT !.stage = "failed"]
    OBVIOUS
  <2>2. bc' = [bc EXCEPT ![c] = r] /\ bc[c].stage = "write"
    BY <1>2, <2>1 DEF WriteFails
  <2>3. r \in ClientType
    BY <1>1, <2>1 DEF ClientType
  <2>4. /\ r.stage = "failed" /\ r.num = bc[c].num /\ r.asked = bc[c].asked
        /\ r.box = bc[c].box /\ r.loops = bc[c].loops /\ r.link = bc[c].link
    BY <1>1, <2>1 DEF ClientType
  <2>5. ClientOk(r, g) /\ (Gone(bc[c]) => Gone(r))
    BY <2>2, <2>3, <2>4 DEF ClientOk, NumOk, BoxOk, NonceOk, Gone
  <2>6. QED
    BY <2>2, <2>5 DEF Becomes
<1>3. CASE Write(c)
  <2>1. PICK n : n = FreshNum(c)
    OBVIOUS
  <2>2. PICK x : x = Nobody
    OBVIOUS
  <2>3. PICK a : a = IF bc[c].link = "lost" THEN bc[c].asked
                     ELSE bc[c].asked \cup {[num |-> n, kind |-> bc[c].kind]}
    OBVIOUS
  <2>4. PICK r : r = [bc[c] EXCEPT !.stage = "wait", !.num = n, !.box = x, !.asked = a]
    OBVIOUS
  <2>5. bc' = [bc EXCEPT ![c] = r] /\ bc[c].stage = "write" /\ bc[c].link \in {"open", "lost"}
    BY <1>3, <2>1, <2>2, <2>3, <2>4 DEF Write
  <2>6. \A m \in bc[c].asked : m.num <= g
    BY <2>5 DEF ClientOk, NumOk
  <2>7. n \in 1..(g + 1) /\ \A m \in bc[c].asked : m.num < n
    BY <1>1, <2>1, <2>6, FreshNumIsFresh
  <2>8. n \in 1..MaxNum /\ n \in 0..MaxNum /\ n <= g + 1
    BY <2>7 DEF MaxNum
  <2>9. x \in [num : 0..MaxNum, code : {"none", "ok", "busy", "refused"}]
    BY <2>2 DEF Nobody, MaxNum
  <2>10. bc[c].kind \in Kinds /\ bc[c].asked \subseteq [num : 1..MaxNum, kind : Kinds]
    BY <1>1 DEF ClientType
  <2>11. a \in SUBSET [num : 1..MaxNum, kind : Kinds]
    BY <2>3, <2>8, <2>10
  <2>12. r \in ClientType
    BY <1>1, <2>4, <2>8, <2>9, <2>11 DEF ClientType
  <2>13. /\ r.stage = "wait" /\ r.num = n /\ r.box = Nobody /\ r.asked = a
         /\ r.kind = bc[c].kind
    BY <1>1, <2>2, <2>4 DEF ClientType
  <2>14. \A m \in a : m.num <= g \/ m = [num |-> n, kind |-> bc[c].kind]
    BY <2>3, <2>6
  <2>15. ClientOk(r, g)
    BY <2>8, <2>12, <2>13, <2>14 DEF Current, ClientOk, NumOk, BoxOk, NonceOk
  <2>16. QED
    BY <2>5, <2>15 DEF Becomes, Gone
<1>4. QED
  BY <1>2, <1>3

\* readLoop: a reply.
LEMMA ReadReplyStep ==
  ASSUME NEW c \in Conns, NEW g \in {0, 1}, DOMAIN bc = Conns, ClientOk(bc[c], g),
         ReadReply(c)
  PROVE  \E r : Becomes(c, g, r)
<1>1. bc[c] \in ClientType
  BY DEF ClientOk
<1>2. PICK m \in bc[c].asked, code \in {"ok", "busy", "refused"} :
        bc' = [bc EXCEPT ![c].asked = @ \ {m},
                         ![c].box = IF /\ bc[c].stage = "wait"
                                       /\ m = [num |-> bc[c].num, kind |-> bc[c].kind]
                                    THEN [num |-> m.num, code |-> code] ELSE @]
  BY DEF ReadReply
<1>3. PICK x : x = IF /\ bc[c].stage = "wait"
                      /\ m = [num |-> bc[c].num, kind |-> bc[c].kind]
                   THEN [num |-> m.num, code |-> code] ELSE bc[c].box
  OBVIOUS
<1>4. PICK a : a = bc[c].asked \ {m}
  OBVIOUS
<1>5. PICK r : r = [bc[c] EXCEPT !.asked = a, !.box = x]
  OBVIOUS
<1>6. bc' = [bc EXCEPT ![c] = r]
  BY <1>2, <1>3, <1>4, <1>5
<1>7. m \in [num : 1..MaxNum, kind : Kinds] /\ \A k \in a : k \in [num : 1..MaxNum, kind : Kinds]
  BY <1>1, <1>2, <1>4 DEF ClientType
<1>8. x \in [num : 0..MaxNum, code : {"none", "ok", "busy", "refused"}]
  BY <1>1, <1>3, <1>7 DEF ClientType
<1>9. r \in ClientType
  BY <1>1, <1>4, <1>5, <1>8 DEF ClientType
<1>10. /\ r.stage = bc[c].stage /\ r.num = bc[c].num /\ r.box = x /\ r.asked = a
       /\ r.kind = bc[c].kind /\ r.nonce = bc[c].nonce
       /\ r.loops = bc[c].loops /\ r.link = bc[c].link
  BY <1>1, <1>5 DEF ClientType
<1>11. BoxOk(r)
  BY <1>3, <1>10 DEF ClientOk, BoxOk
<1>12. NonceOk(r)
  BY <1>10 DEF ClientOk, NonceOk
<1>13. NumOk(r, g)
  <2>1. r.num <= g + 1
    BY <1>10 DEF ClientOk, NumOk
  <2>2. ASSUME NEW k \in a
        PROVE  k.num <= g \/ (r.stage = "wait" /\ r.box = Nobody /\ k = Current(r))
    <3>1. k \in bc[c].asked /\ k # m
      BY <1>4, <2>2
    <3>2. k.num <= g \/ (bc[c].stage = "wait" /\ bc[c].box = Nobody /\ k = Current(bc[c]))
      BY <3>1 DEF ClientOk, NumOk
    <3>3. CASE x = bc[c].box
      BY <1>10, <3>2, <3>3 DEF Current
    <3>4. CASE m = [num |-> bc[c].num, kind |-> bc[c].kind]
      BY <3>1, <3>2, <3>4 DEF Current
    <3>5. QED
      BY <1>3, <3>3, <3>4
  <2>3. QED
    BY <1>10, <2>1, <2>2 DEF NumOk
<1>14. QED
  BY <1>6, <1>9, <1>10, <1>11, <1>12, <1>13 DEF Becomes, ClientOk, Gone

\* A step that leaves the request in progress alone.
LEMMA AsideOk ==
  ASSUME NEW g \in {0, 1}, NEW r, NEW s \in ClientType, ClientOk(r, g),
         s.num = r.num, s.stage = r.stage, s.box = r.box, s.kind = r.kind,
         s.nonce = r.nonce, s.asked \subseteq r.asked
  PROVE  ClientOk(s, g)
  BY DEF ClientOk, NumOk, BoxOk, NonceOk, Current

\* shutdown by a goroutine that then ends.
LEMMA ShutOk ==
  ASSUME NEW g \in {0, 1}, NEW r, ClientOk(r, g), NEW l
  PROVE  LET s == [Shut(r) EXCEPT !.loops = @ \ {l}]
         IN  ClientOk(s, g) /\ s.stage = r.stage /\ s.loops = r.loops \ {l}
                /\ s.link = "closed"
<1>1. r \in ClientType
  BY DEF ClientOk
<1>2. PICK a \in SUBSET [num : 1..MaxNum, kind : Kinds] : a = {}
  OBVIOUS
<1>3. PICK p \in SUBSET {"read", "keep", "pump"} : p = r.loops \ {l}
  BY <1>1 DEF ClientType
<1>4. PICK t : t = [r EXCEPT !.link = "closed", !.asked = a]
  OBVIOUS
<1>5. PICK s : s = [t EXCEPT !.loops = p]
  OBVIOUS
<1>6. t = Shut(r) /\ t \in ClientType /\ t.loops = r.loops
  BY <1>1, <1>2, <1>4 DEF Shut, ClientType
<1>7. s = [Shut(r) EXCEPT !.loops = @ \ {l}]
  BY <1>3, <1>5, <1>6
<1>8. s \in ClientType
  BY <1>5, <1>6 DEF ClientType
<1>9. /\ s.num = r.num /\ s.stage = r.stage /\ s.box = r.box /\ s.kind = r.kind
      /\ s.nonce = r.nonce /\ s.asked = {} /\ s.loops = p /\ s.link = "closed"
  BY <1>1, <1>2, <1>4, <1>5 DEF ClientType
<1>10. ClientOk(s, g)
  BY <1>8, <1>9, AsideOk
<1>11. QED
  BY <1>3, <1>7, <1>9, <1>10

\* The other steps of the goroutines, and the end of the connection.
LEMMA GoroutineStep ==
  ASSUME NEW c \in Conns, NEW g \in {0, 1}, DOMAIN bc = Conns, ClientOk(bc[c], g),
         ReadMedia(c) \/ ReadEnds(c) \/ PumpFails(c) \/ PumpEnds(c) \/ KeepAliveEnds(c)
           \/ PeerCloses(c)
  PROVE  \E r : Becomes(c, g, r)
<1>1. bc[c] \in ClientType
  BY DEF ClientOk
<1>2. ASSUME NEW l \in {"read", "pump"}, l \in bc[c].loops,
             bc' = [bc EXCEPT ![c] = [Shut(bc[c]) EXCEPT !.loops = @ \ {l}]]
      PROVE  \E r : Becomes(c, g, r)
  <2>1. PICK s : s = [Shut(bc[c]) EXCEPT !.loops = @ \ {l}]
    OBVIOUS
  <2>2. ClientOk(s, g) /\ s.stage = bc[c].stage
    BY <2>1, ShutOk
  <2>3. bc' = [bc EXCEPT ![c] = s]
    BY <1>2, <2>1
  <2>4. QED
    BY <1>2, <2>2, <2>3 DEF Becomes, Gone
<1>3. ASSUME NEW l \in {"keep", "pump"}, l \in bc[c].loops,
             bc' = [bc EXCEPT ![c].loops = @ \ {l}]
      PROVE  \E r : Becomes(c, g, r)
  <2>1. PICK p \in SUBSET {"read", "keep", "pump"} : p = bc[c].loops \ {l}
    BY <1>1 DEF ClientType
  <2>2. PICK s : s = [bc[c] EXCEPT !.loops = p]
    OBVIOUS
  <2>3. s \in ClientType
    BY <1>1, <2>2 DEF ClientType
  <2>4. /\ s.num = bc[c].num /\ s.stage = bc[c].stage /\ s.box = bc[c].box
        /\ s.kind = bc[c].kind /\ s.nonce = bc[c].nonce /\ s.asked = bc[c].asked
    BY <1>1, <2>2 DEF ClientType
  <2>5. ClientOk(s, g)
    BY <2>3, <2>4, AsideOk
  <2>6. bc' = [bc EXCEPT ![c] = s]
    BY <1>3, <2>1, <2>2
  <2>7. QED
    BY <1>3, <2>4, <2>5, <2>6 DEF Becomes, Gone
<1>4. CASE ReadMedia(c)
  <2>1. "read" \in bc[c].loops
    BY <1>4 DEF ReadMedia
  <2>2. CASE bc[c].media < QueueCap
    <3>1. PICK n : n = bc[c].media + 1
      OBVIOUS
    <3>2. n \in 0..QueueCap
      BY <1>1, <2>2, <3>1, QueueAssumption DEF ClientType
    <3>3. PICK s : s = [bc[c] EXCEPT !.media = n]
      OBVIOUS
    <3>4. s \in ClientType
      BY <1>1, <3>2, <3>3 DEF ClientType
    <3>5. /\ s.num = bc[c].num /\ s.stage = bc[c].stage /\ s.box = bc[c].box
          /\ s.kind = bc[c].kind /\ s.nonce = bc[c].nonce /\ s.asked = bc[c].asked
      BY <1>1, <3>3 DEF ClientType
    <3>6. ClientOk(s, g)
      BY <3>4, <3>5, AsideOk
    <3>7. bc' = [bc EXCEPT ![c] = s]
      BY <1>4, <2>2, <3>1, <3>3 DEF ReadMedia
    <3>8. QED
      BY <2>1, <3>5, <3>6, <3>7 DEF Becomes, Gone
  <2>3. CASE ~(bc[c].media < QueueCap)
    <3>1. bc' = [bc EXCEPT ![c] = [Shut(bc[c]) EXCEPT !.loops = @ \ {"read"}]]
      BY <1>4, <2>3 DEF ReadMedia
    <3>2. QED
      BY <1>2, <2>1, <3>1
  <2>4. QED
    BY <2>2, <2>3
<1>5. CASE ReadEnds(c) \/ PumpFails(c)
  BY <1>2, <1>5 DEF ReadEnds, PumpFails
<1>6. CASE PumpEnds(c) \/ KeepAliveEnds(c)
  BY <1>3, <1>6 DEF PumpEnds, KeepAliveEnds
<1>7. CASE PeerCloses(c)
  <2>1. PICK s : s = [bc[c] EXCEPT !.link = "lost"]
    OBVIOUS
  <2>2. s \in ClientType
    BY <1>1, <2>1 DEF ClientType
  <2>3. /\ s.num = bc[c].num /\ s.stage = bc[c].stage /\ s.box = bc[c].box
        /\ s.kind = bc[c].kind /\ s.nonce = bc[c].nonce /\ s.asked = bc[c].asked
    BY <1>1, <2>1 DEF ClientType
  <2>4. ClientOk(s, g)
    BY <2>2, <2>3, AsideOk
  <2>5. bc' = [bc EXCEPT ![c] = s] /\ ~Gone(bc[c])
    BY <1>7, <2>1 DEF PeerCloses, Gone
  <2>6. QED
    BY <2>3, <2>4, <2>5 DEF Becomes
<1>8. QED
  BY <1>4, <1>5, <1>6, <1>7

\* Every step of a client's own, together.
LEMMA BcStepBecomes ==
  ASSUME NEW c \in Conns, NEW g \in {0, 1}, DOMAIN bc = Conns, ClientOk(bc[c], g),
         BcStep(c)
  PROVE  \E r : Becomes(c, g, r)
  BY WriteStep, ReadReplyStep, GoroutineStep DEF BcStep, BcGoesOn

-----------------------------------------------------------------------------
\* A fresh client, and one that has just been connected.
LEMMA NewRtspType == NewRtsp \in RtType /\ NewRtsp.link = "none" /\ Connected \in RtType
<1> USE RtspAssumption
<1>1. PICK no \in BOOLEAN : no = FALSE
  OBVIOUS
<1>2. NoRequest \in RequestType
  BY DEF NoRequest, RequestType, Methods
<1>3. PICK q \in [Askers -> RequestType] : q = [a \in Askers |-> NoRequest]
  BY <1>2
<1>4. NewRtsp = [link |-> "none", stalled |-> no, loops |-> {}, failures |-> 0, req |-> q]
  BY <1>1, <1>3 DEF NewRtsp
<1>5. NewRtsp \in RtType /\ NewRtsp.link = "none"
  BY <1>4 DEF RtType
<1>6. Connected \in RtType
  BY <1>5 DEF Connected, RtType
<1>7. QED
  BY <1>5, <1>6

\* A request of one of the askers may be replaced by any other.
LEMMA RequestReplaced ==
  ASSUME NEW r \in RtType, NEW a \in Askers, NEW q \in RequestType
  PROVE  /\ [r EXCEPT !.req[a] = q] \in RtType
         /\ [r EXCEPT !.req[a] = q].link = r.link
         /\ [r EXCEPT !.req[a] = q].loops = r.loops
  BY DEF RtType

\* The functions that callers of the client use.
LEMMA RtspFunctions ==
  ASSUME NEW r \in RtType, NEW a \in Askers
  PROVE  /\ \A m \in Methods : Requesting(r, a, m) \in RtType /\ Requesting(r, a, m).link = r.link
         /\ Finished(r, a) \in RtType /\ Finished(r, a).link = r.link
         /\ CloseRtsp(r) \in RtType /\ CloseRtsp(r).link = "closed"
<1>1. NoRequest \in RequestType
  BY RtspAssumption DEF NoRequest, RequestType, Methods
<1>2. ASSUME NEW m \in Methods
      PROVE  Requesting(r, a, m) \in RtType /\ Requesting(r, a, m).link = r.link
  <2>1. PICK q : q = [NoRequest EXCEPT !.stage = "write", !.method = m]
    OBVIOUS
  <2>2. q \in RequestType
    BY <1>1, <2>1 DEF RequestType
  <2>3. QED
    BY <2>1, <2>2, RequestReplaced DEF Requesting
<1>3. Finished(r, a) \in RtType /\ Finished(r, a).link = r.link
  BY <1>1, RequestReplaced DEF Finished
<1>4. CloseRtsp(r) \in RtType /\ CloseRtsp(r).link = "closed"
  BY DEF CloseRtsp, RtType
<1>5. QED
  BY <1>2, <1>3, <1>4

\* A client that was never opened or is closed stays so.
RtGone(r) == r.link \in {"none", "closed"}

\* The steps of a request.
LEMMA RequestSteps ==
  ASSUME rt \in RtType, NEW a \in Askers, RtWrite(a) \/ RtRead(a) \/ RtAuth(a)
  PROVE  rt' \in RtType /\ (RtGone(rt) => RtGone(rt'))
<1>1. rt.req[a] \in RequestType
  BY DEF RtType
<1>2. ASSUME NEW q \in RequestType, rt' = [rt EXCEPT !.req[a] = q]
      PROVE  rt' \in RtType /\ (RtGone(rt) => RtGone(rt'))
  BY <1>2, RequestReplaced DEF RtGone
<1>3. CASE RtWrite(a)
  <2>1. PICK st \in {"wait", "failed"} : rt' = [rt EXCEPT !.req[a].stage = st]
    BY <1>3 DEF RtWrite
  <2>2. PICK q : q = [rt.req[a] EXCEPT !.stage = st]
    OBVIOUS
  <2>3. q \in RequestType
    BY <1>1, <2>2 DEF RequestType
  <2>4. rt' = [rt EXCEPT !.req[a] = q]
    BY <2>1, <2>2
  <2>5. QED
    BY <1>2, <2>3, <2>4
<1>4. CASE RtRead(a)
  <2>1. PICK code \in {"ok", "auth", "refused"} : rt' = [rt EXCEPT !.req[a].box = code]
    BY <1>4 DEF RtRead
  <2>2. PICK q : q = [rt.req[a] EXCEPT !.box = code]
    OBVIOUS
  <2>3. q \in RequestType
    BY <1>1, <2>2 DEF RequestType
  <2>4. rt' = [rt EXCEPT !.req[a] = q]
    BY <2>1, <2>2
  <2>5. QED
    BY <1>2, <2>3, <2>4
<1>5. CASE RtAuth(a)
  <2>1. PICK n : n = rt.req[a].tries + 1
    OBVIOUS
  <2>2. n \in 0..MaxAuthRetries
    BY <1>1, <1>5, <2>1, RtspAssumption DEF RtAuth, RequestType
  <2>3. PICK q : q = [rt.req[a] EXCEPT !.stage = "write", !.tries = n, !.box = "none"]
    OBVIOUS
  <2>4. q \in RequestType
    BY <1>1, <2>2, <2>3 DEF RequestType
  <2>5. rt' = [rt EXCEPT !.req[a] = q]
    BY <1>1, <1>5, <2>1, <2>3 DEF RtAuth, RtType, RequestType
  <2>6. QED
    BY <1>2, <2>4, <2>5
<1>6. QED
  BY <1>3, <1>4, <1>5

\* The keep-alive's requests.
LEMMA KeepSteps ==
  ASSUME rt \in RtType, KeepTick \/ KeepResult
  PROVE  rt' \in RtType /\ (RtGone(rt) => RtGone(rt'))
<1>1. "keep" \in Askers /\ "GET_PARAMETER" \in Methods /\ "OPTIONS" \in Methods
  BY DEF Askers, Methods
<1>2. PICK f : f = Finished(rt, "keep")
  OBVIOUS
<1>3. f \in RtType /\ f.link = rt.link
  BY <1>1, <1>2, RtspFunctions
<1>4. ASSUME NEW m \in {"GET_PARAMETER", "OPTIONS"}, rt' = Requesting(rt, "keep", m)
      PROVE  rt' \in RtType /\ (RtGone(rt) => RtGone(rt'))
  BY <1>1, <1>4, RtspFunctions DEF RtGone
<1>5. ASSUME NEW n \in 0..MaxFailures, rt' = [f EXCEPT !.failures = n]
      PROVE  rt' \in RtType /\ (RtGone(rt) => RtGone(rt'))
  BY <1>3, <1>5 DEF RtType, RtGone
<1>6. ASSUME rt' = [CloseRtsp(f) EXCEPT !.failures = MaxFailures, !.loops = @ \ {"keep"}]
      PROVE  rt' \in RtType /\ (RtGone(rt) => RtGone(rt'))
  <2>1. PICK k : k = CloseRtsp(f)
    OBVIOUS
  <2>2. k \in RtType /\ k.link = "closed"
    BY <1>1, <1>3, <2>1, RtspFunctions
  <2>3. rt' = [k EXCEPT !.failures = MaxFailures, !.loops = k.loops \ {"keep"}]
    BY <1>6, <2>1
  <2>4. PICK p \in SUBSET {"read", "keep", "report"} : p = k.loops \ {"keep"}
    BY <2>2 DEF RtType
  <2>5. PICK n \in 0..MaxFailures : n = MaxFailures
    BY RtspAssumption
  <2>6. rt' = [k EXCEPT !.failures = n, !.loops = p]
    BY <2>3, <2>4, <2>5
  <2>7. QED
    BY <2>2, <2>6 DEF RtType, RtGone
<1>7. CASE KeepTick
  BY <1>4, <1>7 DEF KeepTick
<1>8. CASE KeepResult
  <2>1. PICK code \in Results("keep") :
        rt' = CASE code = "ok" -> [f EXCEPT !.failures = 0]
                [] code # "ok" /\ rt.req["keep"].method = "GET_PARAMETER" ->
                        Requesting(rt, "keep", "OPTIONS")
                [] code # "ok" /\ rt.req["keep"].method = "OPTIONS" /\ rt.failures + 1 < MaxFailures ->
                        [f EXCEPT !.failures = @ + 1]
                [] OTHER -> [CloseRtsp(f) EXCEPT !.failures = MaxFailures,
                                                 !.loops = @ \ {"keep"}]
    BY <1>2, <1>8 DEF KeepResult
  <2>2. CASE code = "ok"
    <3>1. rt' = [f EXCEPT !.failures = 0]
      BY <2>1, <2>2
    <3>2. QED
      BY <1>5, <3>1, RtspAssumption
  <2>3. CASE code # "ok" /\ rt.req["keep"].method = "GET_PARAMETER"
    <3>1. rt' = Requesting(rt, "keep", "OPTIONS")
      BY <2>1, <2>3
    <3>2. QED
      BY <1>4, <3>1
  <2>4. CASE code # "ok" /\ rt.req["keep"].method = "OPTIONS" /\ rt.failures + 1 < MaxFailures
    <3>1. PICK n : n = f.failures + 1
      OBVIOUS
    <3>2. f.failures = rt.failures
      BY <1>2 DEF Finished, RtType
    <3>3. n \in 0..MaxFailures
      BY <2>4, <3>1, <3>2, RtspAssumption DEF RtType
    <3>4. rt' = [f EXCEPT !.failures = n]
      BY <2>1, <2>4, <3>1
    <3>5. QED
      BY <1>5, <3>3, <3>4
  <2>5. CASE /\ code # "ok" /\ rt.req["keep"].method # "GET_PARAMETER"
             /\ ~(rt.req["keep"].method = "OPTIONS" /\ rt.failures + 1 < MaxFailures)
    <3>1. rt' = [CloseRtsp(f) EXCEPT !.failures = MaxFailures, !.loops = @ \ {"keep"}]
      BY <2>1, <2>5
    <3>2. QED
      BY <1>6, <3>1
  <2>6. QED
    BY <2>2, <2>3, <2>4, <2>5
<1>9. QED
  BY <1>7, <1>8

\* Every step of the RTSP client's own.
LEMMA RtStepType ==
  ASSUME rt \in RtType, NEW end, RtStep(end)
  PROVE  rt' \in RtType /\ (RtGone(rt) => RtGone(rt'))
<1>1. ASSUME NEW l, rt' = [rt EXCEPT !.loops = @ \ {l}]
      PROVE  rt' \in RtType /\ (RtGone(rt) => RtGone(rt'))
  BY <1>1 DEF RtType, RtGone
<1>2. ASSUME NEW l, rt' = [CloseRtsp(rt) EXCEPT !.loops = @ \ {l}]
      PROVE  rt' \in RtType /\ (RtGone(rt) => RtGone(rt'))
  BY <1>2 DEF CloseRtsp, RtType, RtGone
<1>3. CASE RtReadEnds \/ ReportFails
  BY <1>2, <1>3 DEF RtReadEnds, ReportFails
<1>4. CASE KeepEnds(end) \/ ReportEnds(end)
  BY <1>1, <1>4 DEF KeepEnds, ReportEnds
<1>5. CASE RtPeerCloses
  BY <1>5 DEF RtPeerCloses, RtType, RtGone
<1>6. CASE RtPeerStalls
  <2>1. PICK yes \in BOOLEAN : yes = TRUE
    OBVIOUS
  <2>2. rt' = [rt EXCEPT !.stalled = yes]
    BY <1>6, <2>1 DEF RtPeerStalls
  <2>3. QED
    BY <2>2 DEF RtType, RtGone
<1>7. QED
  BY <1>3, <1>4, <1>5, <1>6, RequestSteps, KeepSteps DEF RtStep, RtGoesOn

-----------------------------------------------------------------------------
\* The invariant implies the type invariant that TLC checks.
LEMMA TypesFromInv == SessionInv => TypeOK
<1> SUFFICES ASSUME SessionInv PROVE TypeOK
  OBVIOUS
<1>1. BcTypeOK
  BY DEF SessionInv, ClientsOk, BcTypeOK, ClientType
<1>2. RtTypeOK
  BY DEF SessionInv, RtTypeOK, RtType, RequestType
<1>3. {ctx, run, sockets, talking, hint} \subseteq BOOLEAN
  BY Zenon DEF SessionInv, OwnTypes
<1>4. QED
  BY <1>1, <1>2, <1>3 DEF SessionInv, OwnTypes, TypeOK, Positions

\* The number of requests that may be unanswered and given up.
LEMMA GivenUpValue ==
  /\ "talk" \in Conns /\ "preview" \in Conns /\ Conns = {"talk", "preview"}
  /\ GivenUp("talk") = 0 /\ GivenUp("talk")' = 0
  /\ GivenUp("preview") = IF hint THEN 0 ELSE 1
  /\ GivenUp("preview")' = IF hint' THEN 0 ELSE 1
  /\ \A c \in Conns : GivenUp(c) \in {0, 1}
  BY DEF GivenUp, Conns

\* Replacing one client by one that is in order.
LEMMA ClientReplaced ==
  ASSUME ClientsOk, NEW c \in Conns, NEW r, bc' = [bc EXCEPT ![c] = r],
         ClientOk(r, GivenUp(c)'), c = "preview" \/ UNCHANGED hint
  PROVE  ClientsOk'
<1>1. r \in ClientType
  BY DEF ClientOk
<1>2. bc' \in [Conns -> ClientType]
  BY <1>1 DEF ClientsOk
<1>3. ASSUME NEW d \in Conns PROVE ClientOk(bc'[d], GivenUp(d)')
  <2>1. CASE d = c
    BY <2>1 DEF ClientsOk
  <2>2. CASE d # c
    <3>1. GivenUp(d)' = GivenUp(d) /\ bc'[d] = bc[d]
      BY <2>2 DEF GivenUp, Conns, ClientsOk
    <3>2. QED
      BY <3>1 DEF ClientsOk
  <2>3. QED
    BY <2>1, <2>2
<1>4. QED
  BY <1>2, <1>3 DEF ClientsOk

\* Init.
LEMMA SessionInit == Init => SessionInv
<1> SUFFICES ASSUME Init PROVE SessionInv
  OBVIOUS
<1>1. ctx \in BOOLEAN /\ run \in BOOLEAN /\ sockets \in BOOLEAN /\ talking \in BOOLEAN /\ hint \in BOOLEAN
  BY DEF Init
<1>2. rcv \in [pc : {"off", "run", "emit", "over"}, ready : BOOLEAN, canceled : BOOLEAN]
  <2>1. PICK no \in BOOLEAN : no = FALSE
    OBVIOUS
  <2>2. rcv = [pc |-> "off", ready |-> no, canceled |-> no]
    BY <2>1 DEF Init
  <2>3. QED
    BY <2>2
<1>3. OwnTypes
  BY <1>1, <1>2, PcmAssumption DEF Init, OwnTypes, Positions
<1>4. \A c \in Conns : ClientOk(bc[c], GivenUp(c)) /\ bc[c].stage = "idle" /\ Gone(bc[c])
  BY NewClientOk, GivenUpValue DEF Init, Untouched
<1>5. ClientsOk
  BY <1>4 DEF ClientsOk, ClientOk, Init, Untouched
<1>6. IdleInv /\ LinkInv
  BY <1>4, NewRtspType, GivenUpValue DEF Init, Untouched, IdleInv, LinkInv
<1>7. PhaseInv
  BY DEF Init, PhaseInv, Workers
<1>8. QED
  BY <1>3, <1>5, <1>6, <1>7, NewRtspType DEF SessionInv, Init, Untouched

\* Steps of the goroutines of the clients.
LEMMA ClientSteps ==
  ASSUME SessionInv,
         \/ \E c \in Conns : BcStep(c) /\ UNCHANGED <<ownVars, rt>>
         \/ RtStep(canceled) /\ UNCHANGED <<ownVars, bc>>
  PROVE  SessionInv'
<1>1. CASE RtStep(canceled) /\ UNCHANGED <<ownVars, bc>>
  <2>1. rt' \in RtType /\ (RtGone(rt) => RtGone(rt'))
    BY <1>1, RtStepType DEF SessionInv
  <2>2. UNCHANGED <<mode, pc, ctx, run, sockets, talking, hint, rcv, pcm, ff, worker, bc>>
    BY <1>1 DEF ownVars
  <2>3. OwnTypes' /\ IdleInv' /\ PhaseInv'
    BY <2>2 DEF SessionInv, OwnTypes, IdleInv, PhaseInv
  <2>4. ClientsOk'
    BY <2>2 DEF SessionInv, ClientsOk, GivenUp
  <2>5. LinkInv'
    BY <2>1, <2>2 DEF SessionInv, LinkInv, RtGone
  <2>6. QED
    BY <2>1, <2>3, <2>4, <2>5 DEF SessionInv
<1>2. ASSUME NEW c \in Conns, BcStep(c), UNCHANGED <<ownVars, rt>> PROVE SessionInv'
  <2>1. UNCHANGED <<mode, pc, ctx, run, sockets, talking, hint, rcv, pcm, ff, worker, rt>>
    BY <1>2 DEF ownVars
  <2>2. DOMAIN bc = Conns /\ ClientOk(bc[c], GivenUp(c)) /\ ClientsOk
    BY DEF SessionInv, ClientsOk
  <2>3. PICK r : Becomes(c, GivenUp(c), r)
    BY <1>2, <2>2, BcStepBecomes, GivenUpValue
  <2>4. /\ bc' = [bc EXCEPT ![c] = r] /\ ClientOk(r, GivenUp(c))
        /\ bc[c].stage = "idle" => r.stage = "idle"
        /\ Gone(bc[c]) => Gone(r)
    BY <2>3 DEF Becomes
  <2>5. ClientOk(r, GivenUp(c)')
    BY <2>1, <2>4 DEF GivenUp
  <2>6. ClientsOk'
    BY <2>1, <2>2, <2>4, <2>5, ClientReplaced
  <2>7. OwnTypes' /\ PhaseInv'
    BY <2>1 DEF SessionInv, OwnTypes, PhaseInv
  <2>8. /\ bc'["talk"] = bc["talk"] \/ (c = "talk" /\ bc'["talk"] = r)
        /\ bc'["preview"] = bc["preview"] \/ (c = "preview" /\ bc'["preview"] = r)
    BY <2>2, <2>4, GivenUpValue
  <2>9. IdleInv'
    BY <2>1, <2>4, <2>8 DEF SessionInv, IdleInv
  <2>10. LinkInv'
    BY <2>1, <2>4, <2>8, GivenUpValue DEF SessionInv, LinkInv
  <2>11. QED
    BY <2>1, <2>6, <2>7, <2>9, <2>10 DEF SessionInv
<1>3. QED
  BY <1>1, <1>2

\* A step that changes neither the position of Run nor the clients.
LEMMA OwnStep ==
  ASSUME SessionInv, UNCHANGED <<mode, pc, hint, talking, bc, rt>>, OwnTypes',
         ff' = "run" => ff = "run",
         rcv'.pc \in {"run", "emit"} => rcv.pc \in {"run", "emit"},
         \A w \in Workers : worker[w] \in {"off", "over"} => worker'[w] \in {"off", "over"}
  PROVE  SessionInv'
<1>1. ClientsOk' /\ rt' \in RtType
  BY DEF SessionInv, ClientsOk, GivenUp
<1>2. IdleInv' /\ LinkInv'
  BY DEF SessionInv, IdleInv, LinkInv
<1>3. PhaseInv'
  BY DEF SessionInv, PhaseInv
<1>4. QED
  BY <1>1, <1>2, <1>3 DEF SessionInv

\* The end of the call, of FFmpeg, and the goroutines of the live phase.
LEMMA WorkerSteps ==
  ASSUME SessionInv,
         \/ Cancel \/ RunnerCloses \/ FfmpegExits
         \/ Camera \/ WatchEnds \/ Talk \/ PhoneEnds \/ PhoneFails
  PROVE  SessionInv'
<1>1. OwnTypes
  BY DEF SessionInv
<1>2. CASE Cancel
  <2>1. UNCHANGED <<mode, pc, run, sockets, talking, hint, rcv, pcm, ff, worker, bc, rt>>
    BY <1>2 DEF Cancel
  <2>2. ctx' \in BOOLEAN
    BY <1>2 DEF Cancel
  <2>3. OwnTypes'
    BY <1>1, <2>1, <2>2 DEF OwnTypes
  <2>4. QED
    BY <2>1, <2>3, OwnStep
<1>3. CASE FfmpegExits
  <2>1. UNCHANGED <<mode, pc, ctx, run, sockets, talking, hint, rcv, pcm, worker, bc, rt>>
        /\ ff' = "over"
    BY <1>3 DEF FfmpegExits
  <2>2. OwnTypes'
    BY <1>1, <2>1 DEF OwnTypes
  <2>3. QED
    BY <2>1, <2>2, OwnStep
<1>4. ASSUME NEW w \in Workers \cup {"phone"}, worker[w] \in {"run", "write", "leave"},
             NEW s \in {"run", "write", "leave", "over"},
             worker' = [worker EXCEPT ![w] = s], UNCHANGED pcm, OnlyWorker
      PROVE  SessionInv'
  <2>1. UNCHANGED <<mode, pc, ctx, run, sockets, talking, hint, rcv, pcm, ff, bc, rt>>
    BY <1>4 DEF OnlyWorker
  <2>2. worker' \in [Workers \cup {"phone"} -> {"off", "run", "write", "leave", "over"}]
    BY <1>1, <1>4 DEF OwnTypes
  <2>3. OwnTypes'
    BY <1>1, <2>1, <2>2 DEF OwnTypes
  <2>4. \A v \in Workers : worker[v] \in {"off", "over"} => worker'[v] \in {"off", "over"}
    BY <1>1, <1>4 DEF OwnTypes
  <2>5. QED
    BY <2>1, <2>3, <2>4, OwnStep
<1>5. CASE CameraPcm
  <2>1. UNCHANGED <<mode, pc, ctx, run, sockets, talking, hint, rcv, ff, worker, bc, rt>>
    BY <1>5 DEF CameraPcm, OnlyWorker
  <2>2. pcm' \in 0..PcmCap
    BY <1>1, <1>5, PcmAssumption DEF CameraPcm, OwnTypes
  <2>3. OwnTypes'
    BY <1>1, <2>1, <2>2 DEF OwnTypes
  <2>4. QED
    BY <2>1, <2>3, OwnStep
<1>6. {"camera", "watch", "talk", "phone"} \subseteq Workers \cup {"phone"}
  BY DEF Workers
<1>7. CASE CameraFails \/ CameraEnds
  BY <1>4, <1>6, <1>7 DEF CameraFails, CameraEnds, WorkerOver
<1>8. CASE WatchEnds
  BY <1>4, <1>6, <1>8 DEF WatchEnds, WorkerOver
<1>9. CASE TalkPacket \/ TalkEnds \/ TalkFails
  BY <1>4, <1>6, <1>9 DEF TalkPacket, TalkEnds, TalkFails, WorkerOver
<1>10. CASE TalkWritten
  <2>1. PICK s \in {"run", "over"} : worker' = [worker EXCEPT !["talk"] = s]
    BY <1>10 DEF TalkWritten
  <2>2. QED
    BY <1>4, <1>6, <1>10, <2>1 DEF TalkWritten
<1>11. CASE BridgeEnds \/ BridgeFails \/ BridgeLeaves
  BY <1>4, <1>6, <1>11 DEF BridgeEnds, BridgeFails, BridgeLeaves, WorkerOver
<1>12. CASE PhoneEnds \/ PhoneFails
  BY <1>4, <1>6, <1>12 DEF PhoneEnds, PhoneFails, WorkerOver
<1>13. CASE RunnerCloses
  <2>1. UNCHANGED <<mode, pc, ctx, run, talking, hint, rcv, pcm, ff, worker, bc, rt>>
    BY <1>13 DEF RunnerCloses
  <2>2. sockets' \in BOOLEAN
    BY <1>13 DEF RunnerCloses
  <2>3. OwnTypes'
    BY <1>1, <2>1, <2>2 DEF OwnTypes
  <2>4. QED
    BY <2>1, <2>3, OwnStep
<1>14. QED
  BY <1>2, <1>3, <1>5, <1>7, <1>8, <1>9, <1>10, <1>11, <1>12, <1>13 DEF Camera, Talk

\* The receiver's goroutine.
LEMMA ReceiverSteps ==
  ASSUME SessionInv, RcvPacket \/ RcvEmits \/ RcvEnds \/ RcvFails
  PROVE  SessionInv'
<1> DEFINE RcvType == [pc : {"off", "run", "emit", "over"}, ready : BOOLEAN,
                       canceled : BOOLEAN]
<1>1. OwnTypes /\ rcv \in RcvType
  BY DEF SessionInv, OwnTypes
<1>2. UNCHANGED <<mode, pc, ctx, run, sockets, talking, hint, ff, worker, rt>>
  BY DEF RcvPacket, RcvEmits, RcvEnds, RcvFails, RcvOnly
<1>3. CASE RcvEnds \/ RcvFails
  <2>1. rcv' = [rcv EXCEPT !.pc = "over"] /\ UNCHANGED <<pcm, bc>>
    BY <1>3 DEF RcvEnds, RcvFails
  <2>2. rcv' \in RcvType /\ rcv'.pc = "over"
    BY <1>1, <2>1
  <2>3. OwnTypes'
    BY <1>1, <1>2, <2>1, <2>2 DEF OwnTypes
  <2>4. QED
    BY <1>2, <2>1, <2>2, <2>3, OwnStep
<1>4. CASE RcvEmits
  <2>1. rcv' = [rcv EXCEPT !.pc = "run"] /\ rcv.pc = "emit" /\ UNCHANGED bc
    BY <1>4 DEF RcvEmits
  <2>2. rcv' \in RcvType /\ pcm' \in 0..PcmCap
    BY <1>1, <1>4, <2>1, PcmAssumption DEF RcvEmits, OwnTypes
  <2>3. OwnTypes'
    BY <1>1, <1>2, <2>2 DEF OwnTypes
  <2>4. QED
    BY <1>2, <2>1, <2>3, OwnStep
<1>5. CASE RcvPacket
  <2>1. PICK yes \in BOOLEAN : yes = TRUE
    OBVIOUS
  <2>2. /\ rcv' = [rcv EXCEPT !.pc = "emit", !.ready = yes] /\ rcv.pc = "run"
        /\ UNCHANGED pcm /\ bc["preview"].media > 0
        /\ bc' = [bc EXCEPT !["preview"].media = @ - 1]
    BY <1>5, <2>1 DEF RcvPacket
  <2>3. rcv' \in RcvType
    BY <1>1, <2>2
  <2>4. OwnTypes'
    BY <1>1, <1>2, <2>2, <2>3 DEF OwnTypes
  <2>5. PICK q : q = bc["preview"]
    OBVIOUS
  <2>6. q \in ClientType /\ ClientOk(q, GivenUp("preview")) /\ ClientsOk
    BY <2>5, GivenUpValue DEF SessionInv, ClientsOk
  <2>7. PICK n : n = q.media - 1
    OBVIOUS
  <2>8. n \in 0..QueueCap
    BY <2>2, <2>5, <2>6, <2>7, QueueAssumption DEF ClientType
  <2>9. PICK r : r = [q EXCEPT !.media = n]
    OBVIOUS
  <2>10. r \in ClientType
    BY <2>6, <2>8, <2>9 DEF ClientType
  <2>11. /\ r.num = q.num /\ r.stage = q.stage /\ r.box = q.box /\ r.kind = q.kind
         /\ r.nonce = q.nonce /\ r.asked = q.asked /\ r.loops = q.loops /\ r.link = q.link
    BY <2>6, <2>9 DEF ClientType
  <2>12. ClientOk(r, GivenUp("preview"))
    BY <2>6, <2>10, <2>11, AsideOk, GivenUpValue
  <2>13. ClientOk(r, GivenUp("preview")')
    BY <1>2, <2>12 DEF GivenUp
  <2>14. bc' = [bc EXCEPT !["preview"] = r]
    BY <2>2, <2>5, <2>7, <2>9
  <2>15. ClientsOk'
    BY <2>6, <2>13, <2>14, ClientReplaced, GivenUpValue
  <2>16. bc'["talk"] = bc["talk"] /\ bc'["preview"] = r
    BY <2>6, <2>14, GivenUpValue DEF ClientsOk
  <2>17. IdleInv' /\ LinkInv'
    BY <1>2, <2>5, <2>11, <2>16, GivenUpValue DEF SessionInv, IdleInv, LinkInv, Gone
  <2>18. PhaseInv'
    BY <1>2, <2>2 DEF SessionInv, PhaseInv
  <2>19. QED
    BY <1>2, <2>4, <2>15, <2>17, <2>18 DEF SessionInv
<1>6. QED
  BY <1>3, <1>4, <1>5

-----------------------------------------------------------------------------
\* Run returns with every connection closed.
LEMMA OverStep ==
  ASSUME SessionInv, pc' = "over", run' \in BOOLEAN, sockets' \in BOOLEAN, ~talking', ff # "run", rcv.pc \notin {"run", "emit"},
         \A w \in Workers : worker[w] \in {"off", "over"},
         \A c \in Conns : Gone(bc[c]), \A c \in Conns : bc[c].stage = "idle",
         rt' \in RtType, RtGone(rt'), talking' \in BOOLEAN,
         UNCHANGED <<mode, ctx, hint, rcv, pcm, ff, worker, bc>>
  PROVE  SessionInv'
<1>1. OwnTypes'
  BY DEF SessionInv, OwnTypes, Positions
<1>2. ClientsOk'
  BY DEF SessionInv, ClientsOk, GivenUp
<1>3. IdleInv' /\ LinkInv'
  BY GivenUpValue DEF IdleInv, LinkInv, RtGone
<1>4. PhaseInv'
  BY DEF PhaseInv
<1>5. QED
  BY <1>1, <1>2, <1>3, <1>4 DEF SessionInv

\* The same behind the deferred calls of Run.
LEMMA ReturnStep ==
  ASSUME SessionInv, Return, ~talking', ff # "run", rcv.pc \notin {"run", "emit"},
         \A w \in Workers : worker[w] \in {"off", "over"},
         \A c \in Conns : Gone(bc[c]), \A c \in Conns : bc[c].stage = "idle",
         rt' \in RtType, RtGone(rt'), talking' \in BOOLEAN,
         UNCHANGED <<mode, ctx, hint, rcv, pcm, ff, worker, bc>>
  PROVE  SessionInv'
<1>1. pc' = "over" /\ run' \in BOOLEAN /\ sockets' \in BOOLEAN
  BY DEF Return
<1>2. QED
  BY <1>1, OverStep

\* closeTalkback begins, with the receiving side gone.
LEMMA StopTalkStep ==
  ASSUME SessionInv, StopTalk, pc \in {"tone", "open", "dropPreview", "join"},
         Gone(bc["preview"]), \A w \in Workers : worker[w] \in {"off", "over"},
         UNCHANGED <<mode, ctx, talking, hint, rcv, pcm, ff, worker>>
  PROVE  SessionInv'
<1>1. OwnTypes /\ ClientsOk /\ rt \in RtType
  BY DEF SessionInv
<1>2. bc["talk"].stage = "idle" /\ bc["preview"].stage = "idle"
  BY DEF SessionInv, IdleInv
<1>3. ff # "run" /\ rcv.pc \notin {"run", "emit"}
  BY DEF SessionInv, PhaseInv
<1>4. CASE mode = "nvr"
  <2>1. /\ pc' = "stopTalk" /\ UNCHANGED <<rt, run, sockets>>
        /\ bc' = [bc EXCEPT !["talk"] = Asking(bc["talk"], "reset")]
    BY <1>4 DEF StopTalk
  <2>2. PICK r : r = Asking(bc["talk"], "reset")
    OBVIOUS
  <2>3. "reset" \in Kinds /\ ClientOk(bc["talk"], 0)
    BY <1>1, GivenUpValue DEF Kinds, ClientsOk
  <2>4. ClientOk(r, 0)
    BY <1>2, <2>2, <2>3, AskingOk
  <2>5. ClientsOk'
    BY <1>1, <2>1, <2>2, <2>4, ClientReplaced, GivenUpValue
  <2>6. bc'["preview"] = bc["preview"]
    BY <1>1, <2>1, GivenUpValue DEF ClientsOk
  <2>7. OwnTypes'
    BY <1>1, <2>1 DEF OwnTypes, Positions
  <2>8. IdleInv'
    BY <1>2, <1>4, <2>1, <2>6 DEF IdleInv
  <2>9. LinkInv'
    BY <1>4, <2>1, <2>6 DEF SessionInv, LinkInv
  <2>10. PhaseInv'
    BY <1>3, <1>4, <2>1 DEF SessionInv, PhaseInv
  <2>11. QED
    BY <1>1, <2>1, <2>5, <2>7, <2>8, <2>9, <2>10 DEF SessionInv
<1>5. CASE mode # "nvr"
  <2>1. mode = "standalone"
    BY <1>1, <1>5 DEF OwnTypes, Modes
  <2>2. ~talking /\ \A c \in Conns : Gone(bc[c])
    BY <2>1 DEF SessionInv, PhaseInv, LinkInv
  <2>3. CASE rt.link = "closed"
    <3>1. Return /\ UNCHANGED <<bc, rt>>
      BY <1>5, <2>3 DEF StopTalk
    <3>2. ~talking' /\ talking' \in BOOLEAN
      BY <1>1, <2>2 DEF OwnTypes
    <3>3. RtGone(rt') /\ rt' \in RtType
      BY <1>1, <2>3, <3>1 DEF RtGone
    <3>4. \A c \in Conns : bc[c].stage = "idle"
      BY <1>2, GivenUpValue
    <3>5. QED
      BY <1>3, <2>2, <3>1, <3>2, <3>3, <3>4, ReturnStep
  <2>4. CASE rt.link # "closed"
    <3>1. /\ pc' = "stopTalk" /\ rt' = Requesting(rt, "session", "TEARDOWN")
          /\ UNCHANGED <<bc, run, sockets>>
      BY <1>5, <2>4 DEF StopTalk
    <3>2. rt' \in RtType
      BY <1>1, <3>1, RtspFunctions DEF Askers, Methods
    <3>3. OwnTypes'
      BY <1>1, <3>1 DEF OwnTypes, Positions
    <3>4. ClientsOk'
      BY <1>1, <3>1 DEF ClientsOk, GivenUp
    <3>5. IdleInv' /\ LinkInv'
      BY <1>2, <1>5, <2>2, <3>1 DEF IdleInv, LinkInv
    <3>6. PhaseInv'
      BY <1>3, <2>2, <3>1 DEF PhaseInv
    <3>7. QED
      BY <3>2, <3>3, <3>4, <3>5, <3>6 DEF SessionInv
  <2>5. QED
    BY <2>3, <2>4
<1>6. QED
  BY <1>4, <1>5

\* cleanupReceive begins.
LEMMA CleanupStep ==
  ASSUME SessionInv, CleanupReceive, pc \in {"ready", "drain", "live"},
         run' \in BOOLEAN, sockets' \in BOOLEAN,
         UNCHANGED <<mode, ctx, talking, hint, pcm, worker, rt>>
  PROVE  SessionInv'
<1>1. OwnTypes /\ ClientsOk /\ rt \in RtType
  BY DEF SessionInv
<1>2. bc["talk"].stage = "idle" /\ bc["preview"].stage = "idle"
  BY DEF SessionInv, IdleInv
<1>3. CASE mode = "nvr"
  <2>1. PICK yes \in BOOLEAN : yes = TRUE
    OBVIOUS
  <2>2. PICK q : q = Asking(bc["preview"], "stop")
    OBVIOUS
  <2>3. PICK r : r = [q EXCEPT !.stop = yes]
    OBVIOUS
  <2>4. /\ pc' = "stopPreview" /\ UNCHANGED ff /\ rcv' = [rcv EXCEPT !.canceled = yes]
        /\ bc' = [bc EXCEPT !["preview"] = r]
    BY <1>3, <2>1, <2>2, <2>3 DEF CleanupReceive
  <2>5. "stop" \in Kinds \ {"login"} /\ ClientOk(bc["preview"], GivenUp("preview"))
    BY <1>1, GivenUpValue DEF Kinds, ClientsOk
  <2>6. ClientOk(q, GivenUp("preview"))
    BY <1>2, <2>2, <2>5, AskingOk, GivenUpValue
  <2>7. r \in ClientType
    BY <2>3, <2>6 DEF ClientOk, ClientType
  <2>8. /\ r.num = q.num /\ r.stage = q.stage /\ r.box = q.box /\ r.kind = q.kind
        /\ r.nonce = q.nonce /\ r.asked = q.asked
    BY <2>3, <2>6 DEF ClientOk, ClientType
  <2>9. ClientOk(r, GivenUp("preview"))
    BY <2>6, <2>7, <2>8, AsideOk, GivenUpValue
  <2>10. ClientOk(r, GivenUp("preview")')
    BY <2>9 DEF GivenUp
  <2>11. ClientsOk'
    BY <1>1, <2>4, <2>10, ClientReplaced, GivenUpValue
  <2>12. bc'["talk"] = bc["talk"]
    BY <1>1, <2>4, GivenUpValue DEF ClientsOk
  <2>13. /\ rcv' \in [pc : {"off", "run", "emit", "over"}, ready : BOOLEAN, canceled : BOOLEAN]
         /\ rcv'.pc = rcv.pc
    BY <1>1, <2>4 DEF OwnTypes
  <2>14. OwnTypes'
    BY <1>1, <2>4, <2>13 DEF OwnTypes, Positions
  <2>15. IdleInv'
    BY <1>2, <2>4, <2>12 DEF IdleInv
  <2>16. LinkInv'
    BY <1>3, <2>4 DEF SessionInv, LinkInv
  <2>17. PhaseInv'
    BY <1>3, <2>4, <2>13 DEF SessionInv, PhaseInv
  <2>18. QED
    BY <1>1, <2>11, <2>14, <2>15, <2>16, <2>17 DEF SessionInv
<1>4. CASE mode # "nvr"
  <2>1. mode = "standalone"
    BY <1>1, <1>4 DEF OwnTypes, Modes
  <2>2. /\ pc' = "join" /\ ff' = IF ff = "run" THEN "killed" ELSE ff
        /\ UNCHANGED <<rcv, bc>>
    BY <1>4 DEF CleanupReceive
  <2>3. OwnTypes'
    BY <1>1, <2>2 DEF OwnTypes, Positions
  <2>4. ClientsOk'
    BY <1>1, <2>2 DEF ClientsOk, GivenUp
  <2>5. IdleInv'
    BY <1>2, <2>2 DEF IdleInv
  <2>6. LinkInv'
    BY <2>1, <2>2, GivenUpValue DEF SessionInv, LinkInv
  <2>7. PhaseInv'
    BY <2>1, <2>2 DEF SessionInv, PhaseInv
  <2>8. QED
    BY <1>1, <2>3, <2>4, <2>5, <2>6, <2>7 DEF SessionInv
<1>5. QED
  BY <1>3, <1>4

\* Only the position of Run changes.
LEMMA PositionSteps ==
  ASSUME SessionInv, PlayTone \/ Ready \/ ClosePreview
  PROVE  SessionInv'
<1>1. UNCHANGED <<mode, ctx, run, sockets, talking, hint, rcv, pcm, ff, worker, bc, rt>>
  BY DEF PlayTone, Ready, ClosePreview
<1>2. \/ pc = "tone" /\ pc' = "open"
      \/ pc = "ready" /\ pc' = "drain"
      \/ pc = "closePreview" /\ pc' = "join" /\ Gone(bc["preview"]) /\ rcv.pc = "over"
  BY DEF PlayTone, Ready, ClosePreview, Joined, Gone
<1>3. OwnTypes' /\ ClientsOk'
  BY <1>1, <1>2 DEF SessionInv, OwnTypes, Positions, ClientsOk, GivenUp
<1>4. IdleInv' /\ LinkInv'
  BY <1>1, <1>2 DEF SessionInv, IdleInv, LinkInv
<1>5. PhaseInv'
  BY <1>1, <1>2 DEF SessionInv, PhaseInv
<1>6. QED
  BY <1>1, <1>3, <1>4, <1>5 DEF SessionInv

\* The ways to closeTalkback and to cleanupReceive.
LEMMA CleanupSteps ==
  ASSUME SessionInv,
         ToneFails \/ ReceiveFails \/ PreviewDropped \/ Join \/ NotReady \/ DrainFails \/ Live
  PROVE  SessionInv'
<1>1. CASE ToneFails \/ ReceiveFails \/ PreviewDropped \/ Join
  <2>1. /\ pc \in {"tone", "open", "dropPreview", "join"} /\ StopTalk
        /\ UNCHANGED <<mode, ctx, talking, hint, rcv, pcm, ff, worker>>
    BY <1>1 DEF ToneFails, ReceiveFails, PreviewDropped, Join
  <2>2. Gone(bc["preview"])
    BY <1>1 DEF ToneFails, ReceiveFails, PreviewDropped, Join, SessionInv, LinkInv, Joined,
                Gone
  <2>3. \A w \in Workers : worker[w] \in {"off", "over"}
    BY <1>1 DEF ToneFails, ReceiveFails, PreviewDropped, Join, SessionInv, PhaseInv
  <2>4. QED
    BY <2>1, <2>2, <2>3, StopTalkStep
<1>2. CASE NotReady \/ DrainFails
  <2>1. /\ pc \in {"ready", "drain", "live"} /\ CleanupReceive
        /\ UNCHANGED <<mode, ctx, run, sockets, talking, hint, pcm, worker, rt>>
    BY <1>2 DEF NotReady, DrainFails
  <2>2. run' \in BOOLEAN /\ sockets' \in BOOLEAN
    BY <2>1 DEF SessionInv, OwnTypes
  <2>3. QED
    BY <2>1, <2>2, CleanupStep
<1>3. CASE Live
  <2>1. /\ pc \in {"ready", "drain", "live"} /\ CleanupReceive
        /\ UNCHANGED <<mode, ctx, talking, hint, pcm, worker, rt>>
    BY <1>3 DEF Live
  <2>2. run' \in BOOLEAN /\ sockets' \in BOOLEAN
    BY <1>3 DEF Live
  <2>3. QED
    BY <2>1, <2>2, CleanupStep
<1>4. QED
  BY <1>1, <1>2, <1>3

\* The workers start.
LEMMA GoLiveStep ==
  ASSUME SessionInv, GoLive
  PROVE  SessionInv'
<1>1. /\ pc = "drain" /\ pc' = "live"
      /\ UNCHANGED <<mode, ctx, run, sockets, talking, hint, rcv, pcm, ff, bc, rt>>
  BY DEF GoLive
<1>2. worker' \in [Workers \cup {"phone"} -> {"off", "run", "write", "leave", "over"}]
  BY DEF GoLive, SessionInv, OwnTypes
<1>3. OwnTypes' /\ ClientsOk'
  BY <1>1, <1>2 DEF SessionInv, OwnTypes, Positions, ClientsOk, GivenUp
<1>4. IdleInv' /\ LinkInv' /\ PhaseInv'
  BY <1>1 DEF SessionInv, IdleInv, LinkInv, PhaseInv
<1>5. QED
  BY <1>1, <1>3, <1>4 DEF SessionInv

\* The preview's end was asked for; its connection is closed.
LEMMA StopPreviewStep ==
  ASSUME SessionInv, StopPreview
  PROVE  SessionInv'
<1>1. /\ pc = "stopPreview" /\ pc' = "closePreview"
      /\ UNCHANGED <<mode, ctx, run, sockets, talking, hint, rcv, pcm, ff, worker, rt>>
  BY DEF StopPreview
<1>2. PICK code, r :
        /\ code \in Outcomes("preview", TRUE) /\ r = Shut(Returned(bc["preview"], code))
        /\ bc' = [bc EXCEPT !["preview"] = r]
  BY DEF StopPreview
<1>3. ClientsOk /\ bc["preview"] \in ClientType /\ ClientOk(bc["preview"], GivenUp("preview"))
  BY GivenUpValue DEF SessionInv, ClientsOk
<1>4. code \in Codes
  BY <1>2, <1>3, GivenUpValue, OutcomeForm
<1>5. ClientOk(r, GivenUp("preview")) /\ r.stage = "idle"
  BY <1>2, <1>3, <1>4, ReturnedOk, GivenUpValue
<1>6. ClientOk(r, GivenUp("preview")')
  BY <1>1, <1>5 DEF GivenUp
<1>7. ClientsOk'
  BY <1>2, <1>3, <1>6, ClientReplaced, GivenUpValue
<1>8. bc'["talk"] = bc["talk"] /\ bc'["preview"] = r
  BY <1>2, <1>3, GivenUpValue DEF ClientsOk
<1>9. mode = "nvr"
  BY <1>1 DEF SessionInv, PhaseInv
<1>10. OwnTypes' /\ IdleInv'
  BY <1>1, <1>5, <1>8 DEF SessionInv, OwnTypes, Positions, IdleInv
<1>11. LinkInv' /\ PhaseInv'
  BY <1>1, <1>9 DEF SessionInv, LinkInv, PhaseInv
<1>12. QED
  BY <1>1, <1>7, <1>10, <1>11 DEF SessionInv

\* The talk session is over, and its connection closed.
LEMMA TalkOverSteps ==
  ASSUME SessionInv, TalkStopped \/ TalkClosed
  PROVE  SessionInv'
<1>1. ClientsOk /\ bc["talk"] \in ClientType /\ ClientOk(bc["talk"], 0) /\ rt \in RtType /\ OwnTypes
  BY GivenUpValue DEF SessionInv, ClientsOk
<1>2. /\ Gone(bc["preview"]) /\ bc["preview"].stage = "idle"
      /\ ff # "run" /\ rcv.pc \notin {"run", "emit"}
      /\ \A w \in Workers : worker[w] \in {"off", "over"}
  BY DEF SessionInv, LinkInv, IdleInv, PhaseInv, TalkStopped, TalkClosed
<1>3. CASE TalkClosed
  <2>1. /\ pc \in {"closeTalk", "dropTalk"} /\ Return
        /\ UNCHANGED <<mode, ctx, talking, hint, rcv, pcm, ff, worker, bc, rt>>
    BY <1>3 DEF TalkClosed
  <2>2. Gone(bc["talk"])
    BY <1>3 DEF TalkClosed, Joined, Gone
  <2>3. bc["talk"].stage = "idle" /\ ~talking /\ RtGone(rt)
    BY <2>1 DEF SessionInv, IdleInv, PhaseInv, LinkInv, RtGone
  <2>4. ~talking' /\ talking' \in BOOLEAN /\ RtGone(rt') /\ rt' \in RtType
    BY <1>1, <2>1, <2>3 DEF OwnTypes
  <2>5. \A c \in Conns : Gone(bc[c]) /\ bc[c].stage = "idle"
    BY <1>2, <2>2, <2>3, GivenUpValue
  <2>6. QED
    BY <1>2, <2>1, <2>4, <2>5, ReturnStep
<1>4. CASE TalkStopped /\ mode = "standalone"
  <2>1. /\ pc = "stopTalk" /\ Return /\ rt' = CloseRtsp(Finished(rt, "session"))
        /\ UNCHANGED <<mode, ctx, talking, hint, rcv, pcm, ff, worker, bc>>
    BY <1>4 DEF TalkStopped
  <2>2. PICK f : f = Finished(rt, "session")
    OBVIOUS
  <2>3. "session" \in Askers
    BY DEF Askers
  <2>4. f \in RtType
    BY <1>1, <2>2, <2>3, RtspFunctions
  <2>5. rt' \in RtType /\ RtGone(rt')
    BY <2>1, <2>2, <2>3, <2>4, RtspFunctions DEF RtGone
  <2>6. bc["talk"].stage = "idle" /\ ~talking /\ Gone(bc["talk"])
    BY <1>4, GivenUpValue DEF SessionInv, IdleInv, PhaseInv, LinkInv
  <2>7. ~talking' /\ talking' \in BOOLEAN
    BY <1>1, <2>1, <2>6 DEF OwnTypes
  <2>8. \A c \in Conns : Gone(bc[c]) /\ bc[c].stage = "idle"
    BY <1>2, <2>6, GivenUpValue
  <2>9. QED
    BY <1>2, <2>1, <2>5, <2>7, <2>8, ReturnStep
<1>5. CASE TalkStopped /\ mode = "nvr"
  <2>1. /\ pc = "stopTalk" /\ pc' = "closeTalk"
        /\ UNCHANGED <<mode, ctx, run, sockets, hint, rcv, pcm, ff, worker, rt>>
    BY <1>5 DEF TalkStopped
  <2>2. ~talking' /\ talking' \in BOOLEAN
    BY <1>5 DEF TalkStopped
  <2>3. PICK code, r :
          /\ code \in Outcomes("talk", TRUE) /\ r = Shut(Returned(bc["talk"], code))
          /\ bc' = [bc EXCEPT !["talk"] = r]
    BY <1>5 DEF TalkStopped
  <2>4. code \in Codes
    BY <1>1, <2>3, GivenUpValue, OutcomeForm
  <2>5. ClientOk(r, 0) /\ r.stage = "idle"
    BY <1>1, <2>3, <2>4, ReturnedOk
  <2>6. ClientsOk'
    BY <1>1, <2>1, <2>3, <2>5, ClientReplaced, GivenUpValue
  <2>7. bc'["preview"] = bc["preview"] /\ bc'["talk"] = r
    BY <1>1, <2>3, GivenUpValue DEF ClientsOk
  <2>8. OwnTypes' /\ IdleInv'
    BY <1>1, <1>2, <2>1, <2>2, <2>5, <2>7 DEF OwnTypes, Positions, IdleInv
  <2>9. LinkInv'
    BY <1>2, <1>5, <2>1, <2>7 DEF SessionInv, LinkInv
  <2>10. PhaseInv'
    BY <1>2, <1>5, <2>1, <2>2 DEF SessionInv, PhaseInv
  <2>11. QED
    BY <1>1, <2>1, <2>6, <2>8, <2>9, <2>10 DEF SessionInv
<1>6. QED
  BY <1>1, <1>3, <1>4, <1>5 DEF OwnTypes, Modes

\* Run begins.
LEMMA StartStep ==
  ASSUME SessionInv, Start
  PROVE  SessionInv'
<1>1. /\ pc = "start" /\ UNCHANGED <<mode, ctx, talking, hint, rcv, pcm, ff, worker>>
  BY DEF Start
<1>2. ClientsOk /\ rt \in RtType /\ OwnTypes
  BY DEF SessionInv
<1>3. /\ \A c \in Conns : Gone(bc[c]) /\ bc[c].stage = "idle"
      /\ RtGone(rt) /\ ff # "run" /\ rcv.pc \notin {"run", "emit"} /\ ~talking
      /\ \A w \in Workers : worker[w] \in {"off", "over"}
  BY <1>1, GivenUpValue DEF SessionInv, LinkInv, IdleInv, PhaseInv, RtGone
<1>4. ~talking' /\ talking' \in BOOLEAN
  BY <1>1, <1>2, <1>3 DEF OwnTypes
<1>5. CASE Return /\ UNCHANGED <<bc, rt>>
  BY <1>1, <1>2, <1>3, <1>4, <1>5, ReturnStep
<1>6. CASE /\ pc' = "talk" /\ mode = "nvr" /\ UNCHANGED <<rt, run, sockets>>
           /\ bc' = [bc EXCEPT !["talk"] = LoginThen(Dialed, "ability")]
  <2>1. PICK r : r = LoginThen(Dialed, "ability")
    OBVIOUS
  <2>2. "ability" \in Kinds \ {"login"}
    BY DEF Kinds
  <2>3. ClientOk(r, 0)
    BY <2>1, <2>2, NewClientOk, LoginThenOk
  <2>4. ClientsOk'
    BY <1>1, <1>2, <1>6, <2>1, <2>3, ClientReplaced, GivenUpValue
  <2>5. bc'["preview"] = bc["preview"]
    BY <1>2, <1>6, GivenUpValue DEF ClientsOk
  <2>6. OwnTypes'
    BY <1>1, <1>2, <1>6 DEF OwnTypes, Positions
  <2>7. IdleInv' /\ LinkInv'
    BY <1>1, <1>3, <1>6, <2>5, GivenUpValue DEF IdleInv, LinkInv, RtGone
  <2>8. PhaseInv'
    BY <1>1, <1>3, <1>6 DEF PhaseInv
  <2>9. QED
    BY <1>2, <1>6, <2>4, <2>6, <2>7, <2>8 DEF SessionInv
<1>7. CASE /\ pc' = "talk" /\ mode = "standalone" /\ UNCHANGED <<bc, run, sockets>>
           /\ rt' = Requesting(Connected, "session", "DESCRIBE")
  <2>1. rt' \in RtType
    BY <1>7, NewRtspType, RtspFunctions DEF Askers, Methods
  <2>2. OwnTypes' /\ ClientsOk'
    BY <1>1, <1>2, <1>7 DEF OwnTypes, Positions, ClientsOk, GivenUp
  <2>3. IdleInv' /\ LinkInv'
    BY <1>1, <1>3, <1>7, GivenUpValue DEF IdleInv, LinkInv
  <2>4. PhaseInv'
    BY <1>1, <1>3, <1>7 DEF PhaseInv
  <2>5. QED
    BY <2>1, <2>2, <2>3, <2>4 DEF SessionInv
<1>8. CASE pc' = "over" /\ run' \in {run, TRUE} /\ UNCHANGED <<sockets, bc, rt>>
  <2>1. run' \in BOOLEAN /\ sockets' \in BOOLEAN
    BY <1>2, <1>8 DEF OwnTypes
  <2>2. QED
    BY <1>1, <1>2, <1>3, <1>4, <1>8, <2>1, OverStep
<1>9. QED
  BY <1>5, <1>6, <1>7, <1>8 DEF Start

\* StartTalk goes on after a reply only when there is one, and logs in only with
\* the nonce that it was given.
LEMMA StartTalkNextForm ==
  ASSUME NEW kind, NEW code
  PROVE  LET next == StartTalkNext(kind, code)
         IN  /\ next \in Kinds \cup {"failed", "started"}
             /\ next # "failed" => code # "none"
             /\ next = "login" => kind = "nonce" /\ code = "ok"
  BY DEF StartTalkNext, Kinds

\* A reply to StartTalk.
LEMMA TalkReplyStep ==
  ASSUME SessionInv, TalkReply
  PROVE  SessionInv'
<1>1. /\ pc = "talk" /\ mode = "nvr"
      /\ UNCHANGED <<mode, ctx, run, sockets, hint, rcv, pcm, ff, worker, rt>>
  BY DEF TalkReply
<1>2. ClientsOk /\ bc["talk"] \in ClientType /\ ClientOk(bc["talk"], 0) /\ rt \in RtType /\ OwnTypes
  BY GivenUpValue DEF SessionInv, ClientsOk
<1>3. PICK code, next, r :
        /\ code \in Outcomes("talk", TRUE)
        /\ next = StartTalkNext(bc["talk"].kind, code) /\ r = Returned(bc["talk"], code)
        /\ \/ /\ next \in Kinds
              /\ bc' = [bc EXCEPT !["talk"] = Asking(r, next)]
              /\ UNCHANGED <<pc, talking>>
           \/ /\ next = "failed"
              /\ bc' = [bc EXCEPT !["talk"] = Shut(r)]
              /\ pc' = "dropTalk" /\ UNCHANGED talking
           \/ /\ next = "started" /\ talking' = TRUE
              /\ \/ pc' = "tone" /\ bc' = [bc EXCEPT !["talk"] = r]
                 \/ pc' = "stopTalk" /\ bc' = [bc EXCEPT !["talk"] = Asking(r, "reset")]
  BY DEF TalkReply
<1>4. /\ code \in Codes
      /\ code # "none" => bc["talk"].stage = "wait" /\ bc["talk"].box # Nobody
  BY <1>2, <1>3, GivenUpValue, OutcomeForm
<1>5. /\ next # "failed" => code # "none"
      /\ next = "login" => bc["talk"].kind = "nonce" /\ code = "ok"
  BY <1>3, StartTalkNextForm
<1>6. /\ r.stage = "idle" /\ r.num = bc["talk"].num
      /\ r.nonce = IF bc["talk"].kind = "nonce" /\ code = "ok" THEN bc["talk"].box.num ELSE 0
  BY <1>2, <1>3, <1>4, ReturnedType
<1>7. /\ next # "failed" => ClientOk(r, 0)
      /\ ClientOk(Shut(r), 0) /\ Shut(r).stage = "idle"
  BY <1>2, <1>3, <1>4, <1>5, ReturnedOk
<1>8. next = "login" => r.nonce = r.num
  BY <1>2, <1>4, <1>5, <1>6 DEF ClientOk, BoxOk
<1>9. PICK s :
        /\ bc' = [bc EXCEPT !["talk"] = s] /\ ClientOk(s, 0)
        /\ \/ UNCHANGED <<pc, talking>>
           \/ pc' = "dropTalk" /\ UNCHANGED talking /\ s.stage = "idle"
           \/ pc' = "tone" /\ talking' = TRUE /\ s.stage = "idle"
           \/ pc' = "stopTalk" /\ talking' = TRUE
  <2>1. CASE next \in Kinds /\ bc' = [bc EXCEPT !["talk"] = Asking(r, next)]
                /\ UNCHANGED <<pc, talking>>
    <3>1. next # "failed"
      BY <2>1 DEF Kinds
    <3>2. ClientOk(Asking(r, next), 0)
      BY <1>6, <1>7, <1>8, <2>1, <3>1, AskingOk
    <3>3. QED
      BY <2>1, <3>2
  <2>2. CASE bc' = [bc EXCEPT !["talk"] = Shut(r)] /\ pc' = "dropTalk" /\ UNCHANGED talking
    BY <1>7, <2>2
  <2>3. CASE next = "started" /\ talking' = TRUE /\ pc' = "tone" /\ bc' = [bc EXCEPT !["talk"] = r]
    BY <1>6, <1>7, <2>3
  <2>4. CASE next = "started" /\ talking' = TRUE /\ pc' = "stopTalk"
               /\ bc' = [bc EXCEPT !["talk"] = Asking(r, "reset")]
    <3>1. "reset" \in Kinds
      BY DEF Kinds
    <3>2. ClientOk(Asking(r, "reset"), 0)
      BY <1>6, <1>7, <2>4, <3>1, AskingOk
    <3>3. QED
      BY <2>4, <3>2
  <2>5. QED
    BY <1>3, <2>1, <2>2, <2>3, <2>4
<1>10. ClientsOk'
  BY <1>1, <1>2, <1>9, ClientReplaced, GivenUpValue
<1>11. bc'["preview"] = bc["preview"] /\ bc'["talk"] = s
  BY <1>2, <1>9, GivenUpValue DEF ClientsOk
<1>12. talking \in BOOLEAN /\ talking' \in BOOLEAN
  BY <1>2, <1>9 DEF OwnTypes
<1>13. OwnTypes'
  BY <1>1, <1>2, <1>9, <1>12 DEF OwnTypes, Positions
<1>14. IdleInv' /\ LinkInv'
  BY <1>1, <1>9, <1>11 DEF SessionInv, IdleInv, LinkInv
<1>15. PhaseInv'
  BY <1>1, <1>9, <1>12 DEF SessionInv, PhaseInv
<1>16. QED
  BY <1>1, <1>2, <1>10, <1>13, <1>14, <1>15 DEF SessionInv

\* A reply to Open of the RTSP client.
LEMMA OpenReplyStep ==
  ASSUME SessionInv, OpenReply
  PROVE  SessionInv'
<1>1. /\ pc = "talk" /\ mode = "standalone"
      /\ UNCHANGED <<mode, ctx, talking, hint, rcv, pcm, ff, worker, bc>>
  BY DEF OpenReply
<1>2. ClientsOk /\ rt \in RtType /\ OwnTypes
  BY DEF SessionInv
<1>3. /\ \A c \in Conns : Gone(bc[c]) /\ bc[c].stage = "idle"
      /\ ff # "run" /\ rcv.pc \notin {"run", "emit"} /\ ~talking
      /\ \A w \in Workers : worker[w] \in {"off", "over"}
  BY <1>1, GivenUpValue DEF SessionInv, LinkInv, IdleInv, PhaseInv
<1>4. "session" \in Askers /\ "SETUP" \in Methods /\ "PLAY" \in Methods
  BY DEF Askers, Methods
<1>5. PICK f : f = Finished(rt, "session")
  OBVIOUS
<1>6. f \in RtType
  BY <1>2, <1>4, <1>5, RtspFunctions
<1>7. CASE Return /\ rt' = CloseRtsp(f)
  <2>1. rt' \in RtType /\ RtGone(rt')
    BY <1>4, <1>6, <1>7, RtspFunctions DEF RtGone
  <2>2. ~talking' /\ talking' \in BOOLEAN
    BY <1>1, <1>2, <1>3 DEF OwnTypes
  <2>3. QED
    BY <1>1, <1>3, <1>7, <2>1, <2>2, ReturnStep
<1>8. CASE /\ UNCHANGED <<run, sockets>> /\ (UNCHANGED pc \/ pc' = "tone")
           /\ rt' \in RtType
  <2>1. OwnTypes' /\ ClientsOk'
    BY <1>1, <1>2, <1>8 DEF OwnTypes, Positions, ClientsOk, GivenUp
  <2>2. IdleInv' /\ LinkInv'
    BY <1>1, <1>3, <1>8, GivenUpValue DEF IdleInv, LinkInv
  <2>3. PhaseInv'
    BY <1>1, <1>3, <1>8 DEF PhaseInv
  <2>4. QED
    BY <1>8, <2>1, <2>2, <2>3 DEF SessionInv
<1>9. Requesting(rt, "session", "SETUP") \in RtType /\ Requesting(rt, "session", "PLAY") \in RtType
  BY <1>2, <1>4, RtspFunctions
<1>10. [f EXCEPT !.loops = @ \cup {"keep", "report"}] \in RtType
  BY <1>6 DEF RtType
<1>11. QED
  BY <1>5, <1>7, <1>8, <1>9, <1>10 DEF OpenReply

\* The receiving side is started.
LEMMA StartReceiveStep ==
  ASSUME SessionInv, StartReceive
  PROVE  SessionInv'
<1>1. /\ pc = "open"
      /\ UNCHANGED <<mode, ctx, run, sockets, talking, rcv, pcm, worker, rt>>
  BY DEF StartReceive
<1>2. ClientsOk /\ rt \in RtType /\ OwnTypes
  BY DEF SessionInv
<1>3. /\ \A c \in Conns : bc[c].stage = "idle"
      /\ ff # "run" /\ rcv.pc \notin {"run", "emit"}
      /\ \A w \in Workers : worker[w] \in {"off", "over"}
  BY <1>1, GivenUpValue DEF SessionInv, IdleInv, PhaseInv
<1>4. CASE mode = "nvr"
  <2>1. /\ pc' = "receive" /\ hint' = TRUE /\ UNCHANGED ff
        /\ bc' = [bc EXCEPT !["preview"] = LoginThen(Dialed, "ability")]
    BY <1>4 DEF StartReceive
  <2>2. PICK r : r = LoginThen(Dialed, "ability")
    OBVIOUS
  <2>3. "ability" \in Kinds \ {"login"}
    BY DEF Kinds
  <2>4. ClientOk(r, 0)
    BY <2>2, <2>3, NewClientOk, LoginThenOk
  <2>5. GivenUp("preview")' = 0
    BY <2>1, GivenUpValue
  <2>6. ClientsOk'
    BY <1>2, <2>1, <2>2, <2>4, <2>5, ClientReplaced, GivenUpValue
  <2>7. bc'["talk"] = bc["talk"]
    BY <1>2, <2>1, GivenUpValue DEF ClientsOk
  <2>8. hint' \in BOOLEAN
    BY <2>1
  <2>9. OwnTypes'
    BY <1>1, <1>2, <2>1, <2>8 DEF OwnTypes, Positions
  <2>10. IdleInv' /\ LinkInv'
    BY <1>1, <1>3, <1>4, <2>1, <2>7, GivenUpValue DEF SessionInv, IdleInv, LinkInv
  <2>11. PhaseInv'
    BY <1>1, <1>3, <1>4, <2>1 DEF SessionInv, PhaseInv
  <2>12. QED
    BY <1>1, <1>2, <2>6, <2>9, <2>10, <2>11 DEF SessionInv
<1>5. CASE mode # "nvr"
  <2>1. mode = "standalone" /\ pc' = "drain" /\ ff' = "run" /\ UNCHANGED <<bc, hint>>
    BY <1>2, <1>5 DEF StartReceive, OwnTypes, Modes
  <2>2. OwnTypes' /\ ClientsOk'
    BY <1>1, <1>2, <2>1 DEF OwnTypes, Positions, ClientsOk, GivenUp
  <2>3. IdleInv' /\ LinkInv'
    BY <1>1, <1>3, <2>1, GivenUpValue DEF SessionInv, IdleInv, LinkInv
  <2>4. PhaseInv'
    BY <1>1, <1>3, <2>1 DEF SessionInv, PhaseInv
  <2>5. QED
    BY <1>1, <1>2, <2>2, <2>3, <2>4 DEF SessionInv
<1>6. QED
  BY <1>4, <1>5

\* Open of the receiver goes on without an answer only from the hint, and then
\* with the preview.
LEMMA OpenNextForm ==
  ASSUME NEW r, NEW code
  PROVE  LET next == OpenNext(r, code)
         IN  /\ next \in {"login", "ability", "preview", "started", "failed"}
             /\ next \in {"login", "ability", "started"} => code # "none"
             /\ next = "preview" => hint \/ code # "none"
             /\ next = "login" => r.kind = "nonce" /\ code = "ok"
  BY DEF OpenNext

\* A reply to Open of the receiver, or its end.
LEMMA ReceiveReplyStep ==
  ASSUME SessionInv, ReceiveReply
  PROVE  SessionInv'
<1>1. /\ pc = "receive"
      /\ UNCHANGED <<mode, ctx, run, sockets, talking, pcm, ff, worker, rt>>
  BY DEF ReceiveReply
<1>2. /\ ClientsOk /\ bc["preview"] \in ClientType /\ rt \in RtType /\ OwnTypes
      /\ ClientOk(bc["preview"], GivenUp("preview"))
  BY GivenUpValue DEF SessionInv, ClientsOk
<1>3. /\ mode = "nvr" /\ bc["talk"].stage = "idle" /\ ff # "run"
      /\ rcv.pc \notin {"run", "emit"} /\ \A w \in Workers : worker[w] \in {"off", "over"}
  BY <1>1 DEF SessionInv, IdleInv, PhaseInv
<1>4. PICK code, next, r :
        /\ code \in Outcomes("preview", hint \/ canceled)
        /\ next = OpenNext(bc["preview"], code) /\ r = Returned(bc["preview"], code)
        /\ \/ /\ next \in Kinds
              /\ bc' = [bc EXCEPT !["preview"] = IF next = "preview" THEN LoginThen(r, next)
                                                 ELSE Asking(r, next)]
              /\ hint' = (next # "preview" /\ hint) /\ UNCHANGED <<pc, rcv>>
           \/ /\ next = "started"
              /\ bc' = [bc EXCEPT !["preview"] = [r EXCEPT !.loops = @ \cup {"pump"}]]
              /\ rcv' = [rcv EXCEPT !.pc = "run"]
              /\ pc' = "ready" /\ UNCHANGED hint
           \/ /\ next = "failed"
              /\ bc' = [bc EXCEPT !["preview"] = Shut(r)]
              /\ pc' = "dropPreview" /\ UNCHANGED <<hint, rcv>>
  BY DEF ReceiveReply
<1>5. /\ code \in Codes
      /\ code # "none" => bc["preview"].stage = "wait" /\ bc["preview"].box # Nobody
  BY <1>2, <1>4, GivenUpValue, OutcomeForm
<1>6. /\ next \in {"login", "ability", "preview", "started", "failed"}
      /\ next \in {"login", "ability", "started"} => code # "none"
      /\ next = "preview" => hint \/ code # "none"
      /\ next = "login" => bc["preview"].kind = "nonce" /\ code = "ok"
  BY <1>4, OpenNextForm
<1>7. /\ r \in ClientType /\ r.stage = "idle" /\ r.num = bc["preview"].num
      /\ r.nonce = IF bc["preview"].kind = "nonce" /\ code = "ok" THEN bc["preview"].box.num
                   ELSE 0
  BY <1>2, <1>4, <1>5, ReturnedType
<1>8. /\ code # "none" => ClientOk(r, GivenUp("preview"))
      /\ GivenUp("preview") = 0 => ClientOk(r, 1)
      /\ ClientOk(Shut(r), GivenUp("preview")) /\ Shut(r).stage = "idle"
  BY <1>2, <1>4, <1>5, ReturnedOk, GivenUpValue
<1>9. next = "login" => r.nonce = r.num
  BY <1>2, <1>5, <1>6, <1>7 DEF ClientOk, BoxOk
<1>10. hint \in BOOLEAN
  BY <1>2 DEF OwnTypes
<1>11. PICK s :
        /\ bc' = [bc EXCEPT !["preview"] = s] /\ ClientOk(s, GivenUp("preview")')
        /\ hint' \in BOOLEAN
        /\ \/ UNCHANGED <<pc, rcv>>
           \/ pc' = "ready" /\ rcv' = [rcv EXCEPT !.pc = "run"] /\ s.stage = "idle"
           \/ pc' = "dropPreview" /\ UNCHANGED rcv /\ s.stage = "idle"
  <2>1. CASE /\ next \in {"login", "ability"} /\ bc' = [bc EXCEPT !["preview"] = Asking(r, next)]
             /\ UNCHANGED <<hint, pc, rcv>>
    <3>1. next \in Kinds
      BY <2>1 DEF Kinds
    <3>2. ClientOk(Asking(r, next), GivenUp("preview"))
      BY <1>6, <1>7, <1>8, <1>9, <2>1, <3>1, AskingOk, GivenUpValue
    <3>3. GivenUp("preview")' = GivenUp("preview")
      BY <2>1, GivenUpValue
    <3>4. QED
      BY <1>10, <2>1, <3>2, <3>3
  <2>2. CASE /\ next = "preview" /\ bc' = [bc EXCEPT !["preview"] = LoginThen(r, "preview")]
             /\ hint' = FALSE /\ UNCHANGED <<pc, rcv>>
    <3>1. "preview" \in Kinds \ {"login"} /\ 1 \in {0, 1}
      BY DEF Kinds
    <3>2. ClientOk(r, 1)
      BY <1>6, <1>8, <1>10, <2>2, GivenUpValue
    <3>3. ClientOk(LoginThen(r, "preview"), 1)
      BY <1>7, <3>1, <3>2, LoginThenOk
    <3>4. GivenUp("preview")' = 1 /\ hint' \in BOOLEAN
      BY <2>2, GivenUpValue
    <3>5. QED
      BY <2>2, <3>3, <3>4
  <2>3. CASE /\ next = "started" /\ pc' = "ready" /\ UNCHANGED hint
             /\ bc' = [bc EXCEPT !["preview"] = [r EXCEPT !.loops = @ \cup {"pump"}]]
             /\ rcv' = [rcv EXCEPT !.pc = "run"]
    <3>1. PICK s : s = [r EXCEPT !.loops = @ \cup {"pump"}]
      OBVIOUS
    <3>2. s \in ClientType
      BY <1>7, <3>1 DEF ClientType
    <3>3. /\ s.num = r.num /\ s.stage = r.stage /\ s.box = r.box /\ s.kind = r.kind
          /\ s.nonce = r.nonce /\ s.asked = r.asked
      BY <1>7, <3>1 DEF ClientType
    <3>4. ClientOk(s, GivenUp("preview"))
      BY <1>6, <1>8, <2>3, <3>2, <3>3, AsideOk, GivenUpValue
    <3>5. GivenUp("preview")' = GivenUp("preview")
      BY <2>3, GivenUpValue
    <3>6. QED
      BY <1>7, <1>10, <2>3, <3>1, <3>3, <3>4, <3>5
  <2>4. CASE /\ bc' = [bc EXCEPT !["preview"] = Shut(r)]
             /\ pc' = "dropPreview" /\ UNCHANGED <<hint, rcv>>
    <3>1. GivenUp("preview")' = GivenUp("preview")
      BY <2>4, GivenUpValue
    <3>2. QED
      BY <1>8, <1>10, <2>4, <3>1
  <2>5. QED
    <3>1. CASE next = "preview"
      BY <1>4, <2>2, <3>1
    <3>2. CASE next \in {"login", "ability"}
      <4>1. /\ bc' = [bc EXCEPT !["preview"] = Asking(r, next)] /\ UNCHANGED <<pc, rcv>>
            /\ hint' = (next # "preview" /\ hint)
        BY <1>4, <3>2
      <4>2. UNCHANGED hint
        BY <1>10, <3>2, <4>1
      <4>3. QED
        BY <2>1, <3>2, <4>1, <4>2
    <3>3. CASE next \in {"started", "failed"}
      BY <1>4, <2>3, <2>4, <3>3 DEF Kinds
    <3>4. QED
      BY <1>6, <3>1, <3>2, <3>3
<1>12. ClientsOk'
  BY <1>2, <1>11, ClientReplaced, GivenUpValue
<1>13. bc'["talk"] = bc["talk"] /\ bc'["preview"] = s
  BY <1>2, <1>11, GivenUpValue DEF ClientsOk
<1>14. OwnTypes'
  BY <1>1, <1>2, <1>11 DEF OwnTypes, Positions
<1>15. IdleInv' /\ LinkInv'
  BY <1>1, <1>3, <1>11, <1>13 DEF SessionInv, IdleInv, LinkInv
<1>16. PhaseInv'
  BY <1>1, <1>3, <1>11 DEF SessionInv, PhaseInv
<1>17. QED
  BY <1>1, <1>2, <1>12, <1>14, <1>15, <1>16 DEF SessionInv
-----------------------------------------------------------------------------
\* Every step keeps the invariant.
LEMMA SessionStep == SessionInv /\ [Next]_vars => SessionInv'
<1> SUFFICES ASSUME SessionInv, [Next]_vars PROVE SessionInv'
  OBVIOUS
<1>1. CASE Main
  BY <1>1, StartStep, TalkReplyStep, OpenReplyStep, PositionSteps, StartReceiveStep,
     ReceiveReplyStep, CleanupSteps, GoLiveStep, StopPreviewStep, TalkOverSteps DEF Main
<1>2. CASE \/ Cancel \/ RunnerCloses \/ FfmpegExits
           \/ Camera \/ WatchEnds \/ Talk \/ PhoneEnds \/ PhoneFails
  BY <1>2, WorkerSteps
<1>3. CASE RcvPacket \/ RcvEmits \/ RcvEnds \/ RcvFails
  BY <1>3, ReceiverSteps
<1>4. CASE \/ \E c \in Conns : BcStep(c) /\ UNCHANGED <<ownVars, rt>>
           \/ RtStep(canceled) /\ UNCHANGED <<ownVars, bc>>
  BY <1>4, ClientSteps
<1>5. CASE UNCHANGED vars
  BY <1>5 DEF vars, ownVars, SessionInv, OwnTypes, ClientsOk, GivenUp, IdleInv, LinkInv, PhaseInv
<1>6. QED
  BY <1>1, <1>2, <1>3, <1>4, <1>5 DEF Next

\* The inductive invariant holds of every behaviour of the session.
THEOREM SessionCorrect == Spec => []SessionInv
  BY SessionInit, SessionStep, PTL DEF Spec

\* The types of the session and of its clients, for a call of any length: the
\* numbers of the requests unanswered on a connection stay within MaxNum (by
\* NumOk at most one given up besides the one in progress), the preview messages
\* waiting within QueueCap, and the decoded chunks within PcmCap.
THEOREM SessionTypeOK == Spec => []TypeOK
  BY SessionCorrect, TypesFromInv, PTL

\* A login is computed from the nonce that this very login asked for, also when
\* the hint of the receiver has given up a nonce request that is answered later.
THEOREM LoginNonceIsItsOwn == Spec => []LoginUsesItsOwnNonce
<1>1. SessionInv => LoginUsesItsOwnNonce
  BY DEF SessionInv, ClientsOk, ClientOk, NonceOk, LoginUsesItsOwnNonce
<1>2. QED
  BY <1>1, SessionCorrect, PTL

\* A client that was never opened takes no step of its own.
LEMMA UntouchedIsIdle ==
  ASSUME Untouched
  PROVE  (\A c \in Conns : ~BcStep(c)) /\ ~RtStep(canceled)
<1>1. \A c \in Conns : /\ bc[c].link = "none" /\ bc[c].loops = {} /\ bc[c].stage = "idle"
                       /\ bc[c].asked = {}
  BY DEF Untouched, NewClient
<1>2. \A c \in Conns : ~BcStep(c)
  BY <1>1 DEF BcStep, BcGoesOn, Write, WriteFails, ReadEnds, PumpEnds, KeepAliveEnds,
              ReadReply, ReadMedia, PumpFails, PeerCloses
<1>3. /\ rt.link = "none" /\ rt.loops = {}
      /\ \A a \in Askers : rt.req[a].stage = "idle"
  BY DEF Untouched, NewRtsp, NoRequest
<1>4. \A a \in Askers : ~RtWrite(a) /\ ~RtRead(a) /\ ~RtAuth(a) /\ Results(a) = {}
  BY <1>3 DEF RtWrite, RtRead, RtAuth, Results
<1>5. ~RtStep(canceled)
  BY <1>3, <1>4 DEF RtStep, RtGoesOn, RtReadEnds, KeepResult, ReportEnds, KeepEnds, KeepTick,
                    ReportFails, RtPeerCloses, RtPeerStalls, Askers
<1>6. QED
  BY <1>2, <1>5

\* Run returns behind its deferred calls, or from its first checks.
LEMMA SocketStep == SocketInv /\ [Next]_vars => SocketInv'
<1> SUFFICES ASSUME SocketInv, [Next]_vars,
                    pc' = "start" \/ (pc' = "over" /\ sockets')
             PROVE  Untouched'
  BY DEF SocketInv
<1>1. CASE \/ Cancel \/ RunnerCloses \/ FfmpegExits \/ UNCHANGED vars
           \/ Camera \/ WatchEnds \/ Talk \/ PhoneEnds \/ PhoneFails
           \/ RcvEmits \/ RcvEnds \/ RcvFails
  <2>1. UNCHANGED <<pc, bc, rt>> /\ (sockets' => sockets)
    BY <1>1 DEF Cancel, RunnerCloses, FfmpegExits, vars, ownVars, Camera, CameraFails,
                CameraEnds, CameraPcm, WatchEnds, Talk, TalkPacket, TalkWritten, TalkEnds,
                TalkFails, BridgeEnds, BridgeFails, BridgeLeaves, PhoneEnds, PhoneFails,
                OnlyWorker, RcvEmits, RcvEnds, RcvFails, RcvOnly
  <2>2. QED
    BY <2>1 DEF SocketInv, Untouched
<1>2. CASE RcvPacket
  <2>1. UNCHANGED <<pc, sockets>> /\ bc["preview"].media > 0
    BY <1>2 DEF RcvPacket, RcvOnly
  <2>2. Untouched => bc["preview"].media = 0
    BY DEF Untouched, NewClient, Conns
  <2>3. QED
    BY <2>1, <2>2 DEF SocketInv
<1>3. CASE \/ \E c \in Conns : BcStep(c) /\ UNCHANGED <<ownVars, rt>>
           \/ RtStep(canceled) /\ UNCHANGED <<ownVars, bc>>
  BY <1>3, UntouchedIsIdle DEF SocketInv, ownVars
<1>4. CASE Start
  BY <1>4 DEF Start, Return, SocketInv, Untouched
<1>5. CASE Main /\ ~Start
  <2>1. Return => ~sockets'
    BY DEF Return
  <2>2. pc' \notin {"start", "over"} \/ Return
    BY <1>5 DEF Main, TalkReply, OpenReply, PlayTone, ToneFails, StartReceive, ReceiveFails,
                ReceiveReply, PreviewDropped, Ready, NotReady, GoLive, DrainFails, Live,
                StopPreview, ClosePreview, Join, TalkStopped, TalkClosed, StopTalk,
                CleanupReceive
  <2>3. QED
    BY <2>1, <2>2 DEF Return
<1>6. QED
  BY <1>1, <1>2, <1>3, <1>4, <1>5 DEF Next

\* It holds of every behaviour of the session.
LEMMA SocketsCorrect == Spec => []SocketInv
<1>1. Init => SocketInv
  BY DEF Init, SocketInv
<1>2. QED
  BY <1>1, SocketStep, PTL DEF Spec

\* Run returns, on each of its paths, only when the talk session has had its
\* TalkReset, the connections are closed, and what it started is over; and if it
\* got as far as connecting, it has closed the sockets.
THEOREM ReturnIsClean == Spec => []ReturnLeavesNothing
<1>1. SessionInv /\ SocketInv => ReturnLeavesNothing
  <2> SUFFICES ASSUME SessionInv, SocketInv, pc = "over" PROVE ReturnLeavesNothing
    BY DEF ReturnLeavesNothing
  <2>1. ~talking /\ ff # "run" /\ rcv.pc \notin {"run", "emit"}
    BY DEF SessionInv, PhaseInv
  <2>2. rcv.pc \in {"off", "run", "emit", "over"}
    BY DEF SessionInv, OwnTypes
  <2>3. \A c \in Conns : bc[c].link = "none" \/ Joined(c)
    BY GivenUpValue DEF SessionInv, LinkInv, Gone, Joined
  <2>4. rt.link \in {"none", "closed"}
    BY DEF SessionInv, LinkInv
  <2>5. \A w \in Workers : worker[w] \in {"off", "over"}
    BY DEF SessionInv, PhaseInv
  <2>6. QED
    BY <2>1, <2>2, <2>3, <2>4, <2>5 DEF ReturnLeavesNothing, SocketInv
<1>2. QED
  BY <1>1, SessionCorrect, SocketsCorrect, PTL
=============================================================================
