---------------------------- MODULE SipIncoming -----------------------------
(***************************************************************************)
(* The server side of sip.Client: INVITE server transactions, the call     *)
(* table shared with outgoing calls, and the queue to the application.     *)
(*                                                                         *)
(* A key is one INVITE request (Call-ID, CSeq and branch, serverInviteKey).*)
(* Two keys with one Call-ID are an INVITE and a re-INVITE of its dialog.  *)
(* Requests that fail the source, header and caller checks are answered    *)
(* without any change of state and do not occur here.  The reader handles  *)
(* one datagram at a time; the application (module Gateway) answers or     *)
(* rejects each INVITE it is given.  Datagrams may be lost, repeated and   *)
(* reordered, but are not delayed by the 32 seconds that an entry lives.   *)
(***************************************************************************)
EXTENDS Naturals, Sequences, FiniteSets

CONSTANTS Keys, NoKey,
          CallOf,           \* CallOf[k]: the Call-ID of k, named by its first INVITE
          MaxCalls,         \* maxConcurrentCalls
          QueueCap          \* capacity of Client.incoming (4 in the code)

ASSUME KeysAssumption ==
    IsFiniteSet(Keys) /\ NoKey \notin Keys /\ CallOf \in [Keys -> Keys]
ASSUME BoundsAssumption == MaxCalls \in Nat \ {0} /\ QueueCap \in Nat \ {0}

VARIABLES
    handling,  \* the INVITE between the two busy checks, or NoKey
    invite,    \* per key: IncomingInvite.state, "none" before there is one
    server,    \* the keys in c.serverInvites
    active,    \* c.active for incoming calls: Call-ID -> key
    done,      \* per key: call.finish has run
    finals,    \* per key: final responses sent by the transaction
    queue,     \* Client.incoming
    app,       \* per key: the application
    resending, \* keys with a running retransmitAnswer
    out,       \* how many outgoing calls of this account are dialing or up
    late,      \* a late answer to a canceled INVITE is being hung up, one at a time
    closed

vars == <<handling, invite, server, active, done, finals, queue, app, resending,
          out, late, closed>>

InviteStates == {"none", "pending", "answered", "acknowledged", "rejected",
                 "canceled"}

TypeOK ==
    /\ handling \in Keys \cup {NoKey}
    /\ invite \in [Keys -> InviteStates]
    /\ server \subseteq Keys
    /\ active \in [Keys -> Keys \cup {NoKey}]
    /\ done \in [Keys -> BOOLEAN]
    /\ finals \in [Keys -> SUBSET {"200", "487", "reject"}]
    /\ queue \in Seq(Keys) /\ Len(queue) <= QueueCap
    /\ app \in [Keys -> {"none", "preparing", "talking", "over"}]
    /\ resending \subseteq Keys
    /\ out \in 0..MaxCalls
    /\ late \in BOOLEAN /\ closed \in BOOLEAN

Init ==
    /\ handling = NoKey
    /\ invite = [k \in Keys |-> "none"]
    /\ server = {}
    /\ active = [i \in Keys |-> NoKey]
    /\ done = [k \in Keys |-> FALSE]
    /\ finals = [k \in Keys |-> {}]
    /\ queue = <<>>
    /\ app = [k \in Keys |-> "none"]
    /\ resending = {}
    /\ out = 0
    /\ late = FALSE
    /\ closed = FALSE

Inbound == {i \in Keys : active[i] # NoKey}

\* Mutant of HasCapacity: one call too many.
HasCapacityOneMore ==
    Cardinality(Inbound) + out + (IF late THEN 1 ELSE 0) <= MaxCalls

\* hasCallCapacityLocked
HasCapacity ==
    Cardinality(Inbound) + out + (IF late THEN 1 ELSE 0) < MaxCalls

\* call.finish: drop the call from the table if the entry is still its own, and
\* stop the retransmission.
Finish(k) ==
    /\ done' = [done EXCEPT ![k] = TRUE]
    /\ active' = [active EXCEPT ![CallOf[k]] = IF @ = k THEN NoKey ELSE @]
    /\ resending' = resending \ {k}

\* The state changes of an invite happen under its mutex, with the response.
Respond(k, state, code) ==
    /\ invite' = [invite EXCEPT ![k] = state]
    /\ finals' = [finals EXCEPT ![k] = @ \cup {code}]

Reading == ~closed /\ handling = NoKey

-----------------------------------------------------------------------------
\* handleIncomingInvite

\* A new INVITE passes the first busy check, or is refused with 486, which leaves
\* no trace.  A retransmission has the last response repeated, which changes
\* nothing, as long as its transaction is known; LiveInviteIsKnown says that it is
\* whenever it could be taken for a new call.
InviteArrives(k) ==
    /\ Reading
    /\ invite[k] = "none"
    /\ k # CallOf[k] => "200" \in finals[CallOf[k]]   \* a re-INVITE needs a dialog
    /\ HasCapacity
    /\ handling' = k
    /\ UNCHANGED <<invite, server, active, done, finals, queue, app, resending, out,
                   late, closed>>

\* After the SDP: 488, or 486 from the second check, or the reservation.  The
\* application gets the call, or it is rejected with 503 if the queue is full; a
\* client that was closed meanwhile just finishes it.
Refuse ==
    /\ handling # NoKey
    /\ handling' = NoKey
    /\ UNCHANGED <<invite, server, active, done, finals, queue, app, resending, out,
                   late, closed>>

\* Mutants of Reserve: without the second busy check; without the queue's limit;
\* with a call the application never hears of.
ReserveUnchecked ==
    /\ handling # NoKey
    /\ handling' = NoKey
    /\ server' = server \cup {handling}
    /\ Len(queue) < QueueCap
    /\ active' = [active EXCEPT ![CallOf[handling]] = handling]
    /\ invite' = [invite EXCEPT ![handling] = "pending"]
    /\ queue' = Append(queue, handling)
    /\ UNCHANGED <<done, finals, app, resending, out, late, closed>>

ReserveUnbounded ==
    /\ handling # NoKey
    /\ HasCapacity
    /\ handling' = NoKey
    /\ server' = server \cup {handling}
    /\ active' = [active EXCEPT ![CallOf[handling]] = handling]
    /\ invite' = [invite EXCEPT ![handling] = "pending"]
    /\ queue' = Append(queue, handling)
    /\ UNCHANGED <<done, finals, app, resending, out, late, closed>>

ReserveUnheard ==
    /\ handling # NoKey
    /\ HasCapacity
    /\ handling' = NoKey
    /\ server' = server \cup {handling}
    /\ active' = [active EXCEPT ![CallOf[handling]] = handling]
    /\ invite' = [invite EXCEPT ![handling] = "pending"]
    /\ queue' = IF Len(queue) < QueueCap THEN Append(queue, handling) ELSE queue
    /\ UNCHANGED <<done, finals, app, resending, out, late, closed>>

Reserve ==
    /\ handling # NoKey
    /\ HasCapacity
    /\ handling' = NoKey
    /\ server' = server \cup {handling}
    /\ \/ /\ Len(queue) < QueueCap
          /\ active' = [active EXCEPT ![CallOf[handling]] = handling]
          /\ invite' = [invite EXCEPT ![handling] = "pending"]
          /\ queue' = Append(queue, handling)
          /\ UNCHANGED <<done, finals>>
       \/ /\ closed \/ Len(queue) = QueueCap
          /\ IF closed THEN invite' = [invite EXCEPT ![handling] = "pending"]
                            /\ UNCHANGED finals
                       ELSE Respond(handling, "rejected", "reject")
          /\ done' = [done EXCEPT ![handling] = TRUE]
          /\ active' = [active EXCEPT ![CallOf[handling]] = NoKey]
          /\ UNCHANGED queue
    /\ UNCHANGED <<app, resending, out, late, closed>>

-----------------------------------------------------------------------------
\* ACK, CANCEL and BYE

\* handleIncomingACK looks in the call table, by Call-ID, and acknowledge compares
\* the CSeq; handleIncomingCancel looks in the transactions, by their key.
FoundByAck(k) == active[CallOf[k]] = k
FoundByCancel(k) == k \in server

\* acknowledge needs an answered invite.
Ack(k) ==
    /\ Reading
    /\ "200" \in finals[k]
    /\ FoundByAck(k)
    /\ invite[k] = "answered"
    /\ invite' = [invite EXCEPT ![k] = "acknowledged"]
    /\ resending' = resending \ {k}
    /\ UNCHANGED <<handling, server, active, done, finals, queue, app, out, late,
                   closed>>

\* Mutant of Cancel: the state is not looked at.
CancelAnyTime(k) ==
    /\ Reading
    /\ k \in server
    /\ Respond(k, "canceled", "487")
    /\ Finish(k)
    /\ UNCHANGED <<handling, server, queue, app, out, late, closed>>

\* IncomingInvite.cancel of a pending invite: 200 for the CANCEL, 487 for the
\* INVITE, end of the call.  Otherwise the CANCEL gets 481 and nothing changes.
Cancel(k) ==
    /\ Reading
    /\ FoundByCancel(k)
    /\ invite[k] = "pending"
    /\ Respond(k, "canceled", "487")
    /\ Finish(k)
    /\ UNCHANGED <<handling, server, queue, app, out, late, closed>>

\* The peer's BYE, by Call-ID: 200 and the end of the call in the table, else 481.
PeerBye(k) ==
    /\ Reading
    /\ "200" \in finals[k]
    /\ active[CallOf[k]] # NoKey
    /\ Finish(active[CallOf[k]])
    /\ UNCHANGED <<handling, invite, server, finals, queue, app, out, late, closed>>

-----------------------------------------------------------------------------
\* The application

Dequeue ==
    /\ queue # <<>>
    /\ queue' = Tail(queue)
    /\ app' = [app EXCEPT ![Head(queue)] = "preparing"]
    /\ UNCHANGED <<handling, invite, server, active, done, finals, resending, out,
                   late, closed>>

\* Answer: 200 and its retransmission, or the end of the call if the write fails;
\* an error if the invite is not pending any more.
Answer(k) ==
    /\ app[k] = "preparing"
    /\ \/ /\ invite[k] = "pending"
          /\ ~closed
          /\ Respond(k, "answered", "200")
          /\ resending' = IF done[k] THEN resending ELSE resending \cup {k}
          /\ app' = [app EXCEPT ![k] = "talking"]
          /\ UNCHANGED <<active, done>>
       \/ /\ invite[k] = "pending"
          /\ invite' = [invite EXCEPT ![k] = "answered"]
          /\ Finish(k)
          /\ app' = [app EXCEPT ![k] = "over"]
          /\ UNCHANGED finals
       \/ /\ invite[k] # "pending"
          /\ app' = [app EXCEPT ![k] = "over"]
          /\ UNCHANGED <<invite, finals, active, done, resending>>
    /\ UNCHANGED <<handling, server, queue, out, late, closed>>

\* Reject (486, 480): the same guard, the end of the call.
Reject(k) ==
    /\ app[k] = "preparing"
    /\ IF invite[k] = "pending"
         THEN Respond(k, "rejected", "reject") /\ Finish(k)
         ELSE UNCHANGED <<invite, finals, active, done, resending>>
    /\ app' = [app EXCEPT ![k] = "over"]
    /\ UNCHANGED <<handling, server, queue, out, late, closed>>

\* The runner hangs up (call.Hangup), or learns that the call is finished.
AppEnds(k) ==
    /\ app[k] = "talking"
    /\ app' = [app EXCEPT ![k] = "over"]
    /\ Finish(k)
    /\ UNCHANGED <<handling, invite, server, finals, queue, out, late, closed>>

-----------------------------------------------------------------------------
\* Timers, outgoing calls of the same account, shutdown

\* Mutant of AckTimeout: the retransmission ends, the call does not.
AckTimeoutSilent(k) ==
    /\ k \in resending
    /\ resending' = resending \ {k}
    /\ UNCHANGED <<handling, invite, server, active, done, finals, queue, app, out,
                   late, closed>>

\* retransmitAnswer gives up: no ACK for 32 seconds ends the call.
AckTimeout(k) ==
    /\ k \in resending
    /\ Finish(k)
    /\ UNCHANGED <<handling, invite, server, finals, queue, app, out, late, closed>>

\* Mutant of Expire: armed when the INVITE arrives.
ExpireAnyTime(k) ==
    /\ k \in server
    /\ server' = server \ {k}
    /\ UNCHANGED <<handling, invite, active, done, finals, queue, app, resending, out,
                   late, closed>>

\* expireAfter is armed when the invite is acknowledged or its call finished.
Expire(k) ==
    /\ k \in server
    /\ done[k] \/ invite[k] = "acknowledged"
    /\ server' = server \ {k}
    /\ UNCHANGED <<handling, invite, active, done, finals, queue, app, resending, out,
                   late, closed>>

\* Dial claims a place in one critical section; handleUnmatchedInviteResponse
\* enters a late answer in the table without asking.
DialStarts ==
    /\ HasCapacity
    /\ out' = out + 1
    /\ UNCHANGED <<handling, invite, server, active, done, finals, queue, app,
                   resending, late, closed>>

\* A dial fails or an outgoing call ends; an answer moves it to c.active in one
\* critical section, which changes no count.
OutgoingEnds ==
    /\ out > 0
    /\ out' = out - 1
    /\ UNCHANGED <<handling, invite, server, active, done, finals, queue, app,
                   resending, late, closed>>

LateAnswer ==
    /\ Reading
    /\ late' = TRUE
    /\ UNCHANGED <<handling, invite, server, active, done, finals, queue, app,
                   resending, out, closed>>

LateAnswerHungUp ==
    /\ late
    /\ late' = FALSE
    /\ UNCHANGED <<handling, invite, server, active, done, finals, queue, app,
                   resending, out, closed>>

\* Close finishes every call in the table.
Close ==
    /\ ~closed
    /\ closed' = TRUE
    /\ done' = [k \in Keys |-> done[k] \/ active[CallOf[k]] = k]
    /\ active' = [i \in Keys |-> NoKey]
    /\ resending' = {k \in resending : active[CallOf[k]] # k}
    /\ out' = 0
    /\ late' = FALSE
    /\ UNCHANGED <<handling, invite, server, finals, queue, app>>

App(k) == Answer(k) \/ Reject(k)

Next ==
    \/ \E k \in Keys :
          \/ InviteArrives(k) \/ Ack(k) \/ Cancel(k) \/ PeerBye(k)
          \/ App(k) \/ AppEnds(k) \/ AckTimeout(k) \/ Expire(k)
    \/ Refuse \/ Reserve \/ Dequeue
    \/ DialStarts \/ OutgoingEnds \/ LateAnswer \/ LateAnswerHungUp
    \/ Close

\* The application takes what is queued and decides on it (Gateway shows that its
\* runners end); the retransmission timer fires.
Fairness ==
    /\ WF_vars(Dequeue)
    /\ \A k \in Keys : WF_vars(App(k)) /\ WF_vars(AckTimeout(k))

Spec == Init /\ [][Next]_vars /\ Fairness

-----------------------------------------------------------------------------
\* The calls this client has admitted, in either direction, never exceed the
\* account's limit, although the busy check is made before the SDP is read and an
\* outgoing call may claim the place meanwhile.
CapacityRespected == Cardinality(Inbound) + out <= MaxCalls

\* Answer, Reject and CANCEL race for the same INVITE: it gets one final response.
OneFinalResponse == \A k \in Keys : Cardinality(finals[k]) <= 1

\* BYE and ACK find the call of an established dialog through the Call-ID, so the
\* peer can always end it (TESTING.md: BYE gets 200 OK and ends the call).
EstablishedCallIsReachable ==
    \A k \in Keys : invite[k] \in {"answered", "acknowledged"} /\ ~done[k]
                        => active[CallOf[k]] = k

\* Until an INVITE has its final response, and until a 200 is ACKed or the call
\* over, the transaction is known: a retransmission is never taken for a new call.
LiveInviteIsKnown ==
    \A k \in Keys : invite[k] \in {"pending", "answered"} /\ ~done[k] => k \in server

\* No caller is left without an answer.
EveryInviteIsAnswered ==
    \A k \in Keys : invite[k] = "pending" ~> invite[k] # "pending" \/ closed

\* An answered call does not stay half-open: ACK, hang-up or the ACK timeout.
NoHalfOpenCall ==
    \A k \in Keys : invite[k] = "answered" ~> invite[k] = "acknowledged" \/ done[k]
=============================================================================
