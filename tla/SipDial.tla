------------------------------ MODULE SipDial -------------------------------
(***************************************************************************)
(* sip.Client.Dial for one Call-ID: the INVITE client transaction with     *)
(* digest authentication, CANCEL on a done context, the hand-off of an     *)
(* abandoned INVITE to a tombstone, and the reader that answers responses  *)
(* nobody waits for any more.                                              *)
(*                                                                         *)
(* UDP: everything sent stays in a set and may be read any number of       *)
(* times, in any order, or never, so a retransmission that succeeds needs  *)
(* no action.  Timers are steps that may be taken while they run.          *)
(***************************************************************************)
EXTENDS Naturals, Sequences

CONSTANTS RingTimeouts,  \* configured ring timeouts, in seconds
          ChanCap        \* capacity of a transaction's channel (8 in the code)

ASSUME RingTimeoutsAssumption == RingTimeouts \subseteq 5..180 /\ RingTimeouts # {}
ASSUME ChanCapAssumption == ChanCap \in Nat \ {0}

TransactionDeadline == 32

VARIABLES
    ringTimeout, \* cfg.RingTimeout
    ctx,         \* the dial context is done
    closed,      \* Client.closed
    pc,          \* where Dial is
    cseq,        \* CSeq of the current INVITE
    waiting,     \* the transaction is in c.transactions
    chan,        \* its channel
    cancelRequested, cancelSent, receivedResponse,  \* locals of transact
    active,      \* c.active[callID]: no call, Dial's call or a late call
    completed,   \* c.completedDialogs[callID] is set
    tomb,        \* c.canceledInvites[callID]: its cseq and cancelSent, 0 for none
    late,        \* the goroutine that hangs up a late call
    sent,        \* requests this side has sent
    resp,        \* responses the peer has sent
    peer,        \* per INVITE: the peer's server transaction
    read,        \* history: responses the reader has taken from the socket
    failed       \* history: some write failed, or a tombstone expired

vars == <<ringTimeout, ctx, closed, pc, cseq, waiting, chan, cancelRequested,
          cancelSent, receivedResponse, active, completed, tomb, late, sent,
          resp, peer, read, failed>>
local == <<waiting, chan, cancelRequested, cancelSent, receivedResponse>>
table == <<active, completed, tomb, late>>
world == <<resp, peer, read>>

CSeqs == {1, 2}
Codes == {"1xx", "2xx", "401", "4xx", "487"}
Resps == Codes \X CSeqs
Requests == {"INVITE", "CANCEL", "ACK"} \X CSeqs
Bye == <<"BYE", 0>>
NoTomb == [cseq |-> 0, cancelSent |-> FALSE]

TypeOK ==
    /\ ringTimeout \in RingTimeouts
    /\ ctx \in BOOLEAN /\ closed \in BOOLEAN
    /\ pc \in {"idle", "transact", "auth", "reinvite", "reject", "answered", "ack",
               "check", "hangup", "ok", "userbye", "err", "over"}
    /\ cseq \in CSeqs
    /\ waiting \in BOOLEAN
    /\ chan \in Seq(Resps) /\ Len(chan) <= ChanCap
    /\ cancelRequested \in BOOLEAN /\ cancelSent \in BOOLEAN
    /\ receivedResponse \in BOOLEAN
    /\ active \in {"none", "dial", "late"}
    /\ completed \in BOOLEAN
    /\ tomb \in [cseq : CSeqs \cup {0}, cancelSent : BOOLEAN]
    /\ late \in {"none", "bye", "byed", "over"}
    /\ sent \subseteq Requests \cup {Bye}
    /\ resp \subseteq Resps
    /\ peer \in [CSeqs -> {"idle", "ringing", "final"}]
    /\ read \subseteq Resps
    /\ failed \in BOOLEAN

Init ==
    /\ ringTimeout \in RingTimeouts
    /\ ctx = FALSE /\ closed = FALSE
    /\ pc = "idle"
    /\ cseq = 1
    /\ waiting = FALSE
    /\ chan = <<>>
    /\ cancelRequested = FALSE /\ cancelSent = FALSE /\ receivedResponse = FALSE
    /\ active = "none"
    /\ completed = FALSE
    /\ tomb = NoTomb
    /\ late = "none"
    /\ sent = {}
    /\ resp = {}
    /\ peer = [n \in CSeqs |-> "idle"]
    /\ read = {}
    /\ failed = FALSE

Provisional(r) == r[1] = "1xx"

\* One datagram: sent, or the write fails (always once the socket is closed).
Written(m) == ~closed /\ sent' = sent \cup {m} /\ UNCHANGED failed
WriteFails == failed' = TRUE /\ UNCHANGED sent

-----------------------------------------------------------------------------
\* transact, for an INVITE

\* Register the transaction and send the first copy of the INVITE.
Transact(n) ==
    /\ cseq' = n
    /\ chan' = <<>>
    /\ cancelRequested' = FALSE /\ cancelSent' = FALSE /\ receivedResponse' = FALSE
    /\ \/ Written(<<"INVITE", n>>) /\ pc' = "transact" /\ waiting' = TRUE
       \/ WriteFails /\ pc' = "err" /\ waiting' = FALSE
    /\ UNCHANGED <<ringTimeout, ctx, closed, table, world>>

DialStart == pc = "idle" /\ Transact(1)

\* Mutant of ReceiveProvisional: the postponed CANCEL is forgotten.
ReceiveProvisionalNoCancel ==
    /\ pc = "transact"
    /\ chan # <<>>
    /\ Provisional(Head(chan))
    /\ chan' = Tail(chan)
    /\ receivedResponse' = TRUE
    /\ UNCHANGED <<ringTimeout, ctx, closed, pc, cseq, waiting, cancelRequested,
                   cancelSent, table, sent, world, failed>>

\* case res := <-ch with a provisional response: a CANCEL that was requested
\* before any response is sent now; if its write fails, transact gives up.
ReceiveProvisional ==
    /\ pc = "transact"
    /\ chan # <<>>
    /\ Provisional(Head(chan))
    /\ chan' = Tail(chan)
    /\ receivedResponse' = TRUE
    /\ IF cancelRequested /\ ~cancelSent
         THEN \/ /\ Written(<<"CANCEL", cseq>>)
                 /\ cancelSent' = TRUE
                 /\ UNCHANGED <<pc, waiting>>
              \/ /\ WriteFails
                 /\ pc' = "err"
                 /\ waiting' = FALSE
                 /\ UNCHANGED cancelSent
         ELSE UNCHANGED <<pc, waiting, cancelSent, sent, failed>>
    /\ UNCHANGED <<ringTimeout, ctx, closed, cseq, cancelRequested, table, world>>

\* What Dial does with a final response to the INVITE.
AfterFinal(r) ==
    pc' = CASE r[1] = "2xx" -> "answered"
            [] r[1] = "401" /\ cseq = 1 -> "auth"
            [] OTHER -> "reject"

ReceiveFinal ==
    /\ pc = "transact"
    /\ chan # <<>>
    /\ ~Provisional(Head(chan))
    /\ AfterFinal(Head(chan))
    /\ waiting' = FALSE
    /\ chan' = <<>>
    /\ receivedResponse' = TRUE
    /\ UNCHANGED <<ringTimeout, ctx, closed, cseq, cancelRequested, cancelSent,
                   table, sent, world, failed>>

\* Mutant of CtxDone: CANCEL at once.
CtxDoneCancelsAtOnce ==
    /\ pc = "transact"
    /\ ctx
    /\ ~cancelRequested
    /\ cancelRequested' = TRUE
    /\ Written(<<"CANCEL", cseq>>)
    /\ cancelSent' = TRUE
    /\ UNCHANGED <<ringTimeout, ctx, closed, pc, cseq, waiting, chan,
                   receivedResponse, table, world>>

\* case <-ctxDone: CANCEL now if the INVITE has been responded to, else later.
CtxDone ==
    /\ pc = "transact"
    /\ ctx
    /\ ~cancelRequested
    /\ cancelRequested' = TRUE
    /\ IF receivedResponse
         THEN \/ /\ Written(<<"CANCEL", cseq>>)
                 /\ cancelSent' = TRUE
                 /\ UNCHANGED <<pc, waiting>>
              \/ /\ WriteFails
                 /\ pc' = "err"
                 /\ waiting' = FALSE
                 /\ UNCHANGED cancelSent
         ELSE UNCHANGED <<pc, waiting, cancelSent, sent, failed>>
    /\ UNCHANGED <<ringTimeout, ctx, closed, cseq, chan, receivedResponse, table,
                   world>>

\* The i-th response waiting in the channel is the first final one.
FirstFinal(i) ==
    ~Provisional(chan[i]) /\ \A j \in 1..(i - 1) : Provisional(chan[j])

\* Mutants of TransitionCanceledInvite: a final response that is already there is
\* thrown away; it is taken but the tombstone is left as well.
TransitionDropsFinal ==
    /\ waiting' = FALSE
    /\ chan' = <<>>
    /\ pc' = "err"
    /\ tomb' = [cseq |-> cseq, cancelSent |-> cancelSent]
    /\ UNCHANGED <<sent, failed>>

TransitionKeepsBoth ==
    /\ waiting' = FALSE
    /\ chan' = <<>>
    /\ tomb' = [cseq |-> cseq, cancelSent |-> cancelSent]
    /\ IF \A i \in DOMAIN chan : Provisional(chan[i])
         THEN pc' = "err"
         ELSE \E i \in DOMAIN chan : FirstFinal(i) /\ AfterFinal(chan[i])
    /\ UNCHANGED <<sent, failed>>

\* In one critical section, take a final response that is already there or leave
\* a tombstone in place of the transaction; a provisional response that is there
\* makes the CANCEL due.
TransitionCanceledInvite ==
    /\ waiting' = FALSE
    /\ chan' = <<>>
    /\ LET now == chan # <<>> /\ ~cancelSent
       IN  \/ /\ \E i \in DOMAIN chan : FirstFinal(i) /\ AfterFinal(chan[i])
              /\ UNCHANGED <<tomb, sent, failed>>
           \/ /\ \A i \in DOMAIN chan : Provisional(chan[i])
              /\ pc' = "err"
              /\ tomb' = [cseq |-> cseq, cancelSent |-> cancelSent \/ now]
              /\ IF now THEN Written(<<"CANCEL", cseq>>) \/ WriteFails
                        ELSE UNCHANGED <<sent, failed>>

\* Mutant of CancelDeadline: the timer is only armed once the CANCEL is out.
CancelDeadlineAfterCancel ==
    /\ pc = "transact"
    /\ cancelSent
    /\ TransitionCanceledInvite
    /\ UNCHANGED <<ringTimeout, ctx, closed, cseq, cancelRequested, cancelSent,
                   receivedResponse, active, completed, late, world>>

\* case <-deadline.C, five seconds after the cancellation.
CancelDeadline ==
    /\ pc = "transact"
    /\ cancelRequested
    /\ TransitionCanceledInvite
    /\ UNCHANGED <<ringTimeout, ctx, closed, cseq, cancelRequested, cancelSent,
                   receivedResponse, active, completed, late, world>>

\* case <-deadline.C before any cancellation, which takes a ring timeout at least
\* as long as the transaction's own deadline.
Deadline ==
    /\ pc = "transact"
    /\ ~cancelRequested
    /\ ringTimeout >= TransactionDeadline
    /\ pc' = "err"
    /\ waiting' = FALSE
    /\ chan' = <<>>
    /\ UNCHANGED <<ringTimeout, ctx, closed, cseq, cancelRequested, cancelSent,
                   receivedResponse, table, sent, world, failed>>

\* case <-timerC: the INVITE is repeated until a response comes; a write that
\* fails ends the transaction.
ResendFails ==
    /\ pc = "transact"
    /\ ~receivedResponse
    /\ WriteFails
    /\ pc' = "err"
    /\ waiting' = FALSE
    /\ chan' = <<>>
    /\ UNCHANGED <<ringTimeout, ctx, closed, cseq, cancelRequested, cancelSent,
                   receivedResponse, table, world>>

\* case <-c.closed
ClosedWhileDialing ==
    /\ pc = "transact"
    /\ closed
    /\ pc' = "err"
    /\ waiting' = FALSE
    /\ chan' = <<>>
    /\ UNCHANGED <<ringTimeout, ctx, closed, cseq, cancelRequested, cancelSent,
                   receivedResponse, table, sent, world, failed>>

-----------------------------------------------------------------------------
\* Dial after a final response

\* ACK a non-2xx final response; a failed write is ignored.
FinalAck ==
    /\ pc \in {"auth", "reject"}
    /\ Written(<<"ACK", cseq>>) \/ WriteFails
    /\ pc' = IF pc = "auth" THEN "reinvite" ELSE "err"
    /\ UNCHANGED <<ringTimeout, ctx, closed, cseq, local, table, world>>

\* 401/407: the INVITE again with credentials, whether or not the context is
\* done by now; an unusable challenge ends the call.
Authenticate ==
    /\ pc = "reinvite"
    /\ \/ Transact(2)
       \/ /\ pc' = "err"
          /\ UNCHANGED <<ringTimeout, ctx, closed, cseq, local, table, sent, world,
                         failed>>

\* 2xx: from here the reader answers retransmissions of it.
Establish ==
    /\ pc = "answered"
    /\ active' = "dial"
    /\ pc' = "ack"
    /\ UNCHANGED <<ringTimeout, ctx, closed, cseq, local, completed, tomb, late, sent,
                   world, failed>>

\* sendACK; if it fails the call is forgotten.
SendACK ==
    /\ pc = "ack"
    /\ \/ Written(<<"ACK", cseq>>) /\ pc' = "check" /\ UNCHANGED active
       \/ /\ WriteFails
          /\ pc' = "err"
          /\ active' = IF active = "dial" THEN "none" ELSE active
    /\ UNCHANGED <<ringTimeout, ctx, closed, cseq, local, completed, tomb, late, world>>

\* Mutant of CheckAnswer: an answer after the cancellation is just reported.
CheckAnswerNoHangup ==
    /\ pc = "check"
    /\ pc' = IF ctx THEN "err" ELSE "ok"
    /\ UNCHANGED <<ringTimeout, ctx, closed, cseq, local, table, sent, world, failed>>

\* The context is done, or the SDP answer is unusable: hang up.  Else success.
CheckAnswer ==
    /\ pc = "check"
    /\ \/ pc' = "hangup"
       \/ ~ctx /\ pc' = "ok"
    /\ UNCHANGED <<ringTimeout, ctx, closed, cseq, local, table, sent, world, failed>>

\* The owner of the established call hangs up.
UserHangup ==
    /\ pc = "ok"
    /\ pc' = "userbye"
    /\ UNCHANGED <<ringTimeout, ctx, closed, cseq, local, table, sent, world, failed>>

\* call.finish of Dial's call: a second time without effect.
Finish(who) ==
    IF active = who /\ who # "none" THEN active' = "none" /\ completed' = TRUE
    ELSE UNCHANGED <<active, completed>>

\* call.Hangup: BYE, then, after any response, its timeout or a failed write,
\* finish.
SendBye ==
    /\ pc \in {"hangup", "userbye"}
    /\ Bye \notin sent
    /\ Written(Bye)
    /\ UNCHANGED <<ringTimeout, ctx, closed, pc, cseq, local, table, world>>

HangupEnds ==
    /\ pc \in {"hangup", "userbye"}
    /\ \/ Bye \in sent /\ UNCHANGED <<sent, failed>>
       \/ Bye \notin sent /\ WriteFails
    /\ pc' = IF pc = "hangup" THEN "err" ELSE "over"
    /\ Finish("dial")
    /\ UNCHANGED <<ringTimeout, ctx, closed, cseq, local, tomb, late, world>>

-----------------------------------------------------------------------------
\* readLoop

\* Mutant of ReadMatched: the channel has no limit.
ReadMatchedUnbounded(r) ==
    /\ ~closed
    /\ r \in resp
    /\ waiting /\ r[2] = cseq
    /\ Len(chan) <= ChanCap
    /\ chan' = Append(chan, r)
    /\ read' = read \cup {r}
    /\ UNCHANGED <<ringTimeout, ctx, closed, pc, cseq, waiting, cancelRequested,
                   cancelSent, receivedResponse, table, sent, resp, peer, failed>>

\* A response for the pending transaction.  A full channel drops it, which is as
\* good as losing the datagram.
ReadMatched(r) ==
    /\ ~closed
    /\ r \in resp
    /\ waiting /\ r[2] = cseq
    /\ Len(chan) < ChanCap
    /\ chan' = Append(chan, r)
    /\ read' = read \cup {r}
    /\ UNCHANGED <<ringTimeout, ctx, closed, pc, cseq, waiting, cancelRequested,
                   cancelSent, receivedResponse, table, sent, resp, peer, failed>>

\* A response nobody waits for: the first that applies of the established call,
\* the completed dialog and the tombstone.
Unmatched(r) ==
    /\ ~closed
    /\ r \in resp
    /\ ~(waiting /\ r[2] = cseq)
    /\ read' = read \cup {r}
    /\ UNCHANGED <<ringTimeout, ctx, closed, pc, cseq, local, resp, peer>>

\* Repeat the ACK of a 2xx to the INVITE of this dialog; ignore the rest.
ReAck(r) ==
    /\ Unmatched(r)
    /\ active # "none" \/ completed
    /\ IF r[1] = "2xx" /\ r[2] = cseq
         THEN Written(<<"ACK", cseq>>) \/ WriteFails
         ELSE UNCHANGED <<sent, failed>>
    /\ UNCHANGED table

Entombed(r) == active = "none" /\ ~completed /\ tomb.cseq = r[2]

ReadForgotten(r) ==
    /\ Unmatched(r)
    /\ active = "none" /\ ~completed /\ tomb.cseq # r[2]
    /\ UNCHANGED <<table, sent, failed>>

\* A provisional response to an abandoned INVITE: now CANCEL may be sent.
LateProvisional(r) ==
    /\ Unmatched(r)
    /\ Entombed(r)
    /\ Provisional(r)
    /\ tomb' = [tomb EXCEPT !.cancelSent = TRUE]
    /\ IF tomb.cancelSent THEN UNCHANGED <<sent, failed>>
                          ELSE Written(<<"CANCEL", r[2]>>) \/ WriteFails
    /\ UNCHANGED <<active, completed, late>>

\* A 2xx to an abandoned INVITE: a call that lives only to be hung up.
LateAnswer(r) ==
    /\ Unmatched(r)
    /\ Entombed(r)
    /\ r[1] = "2xx"
    /\ tomb' = NoTomb
    /\ \/ /\ Written(<<"ACK", r[2]>>)
          /\ active' = "late"
          /\ late' = "bye"
          /\ UNCHANGED completed
       \/ WriteFails /\ completed' = TRUE /\ late' = "over" /\ UNCHANGED active

LateReject(r) ==
    /\ Unmatched(r)
    /\ Entombed(r)
    /\ ~Provisional(r) /\ r[1] # "2xx"
    /\ tomb' = NoTomb
    /\ Written(<<"ACK", r[2]>>) \/ WriteFails
    /\ UNCHANGED <<active, completed, late>>

\* The goroutine of a late call: BYE, then finish.
LateBye ==
    /\ late = "bye"
    /\ Written(Bye) \/ WriteFails
    /\ late' = "byed"
    /\ UNCHANGED <<ringTimeout, ctx, closed, pc, cseq, local, active, completed, tomb,
                   world>>

LateFinish ==
    /\ late = "byed"
    /\ late' = "over"
    /\ Finish("late")
    /\ UNCHANGED <<ringTimeout, ctx, closed, pc, cseq, local, tomb, sent, world, failed>>

\* The peer's BYE, once it has our ACK: finishes whatever call is active.
ReadBye ==
    /\ ~closed
    /\ active # "none"
    /\ \E n \in CSeqs : <<"2xx", n>> \in resp /\ <<"ACK", n>> \in sent
    /\ Finish(active)
    /\ UNCHANGED <<ringTimeout, ctx, closed, pc, cseq, local, tomb, late, sent, world,
                   failed>>

-----------------------------------------------------------------------------
\* Timers, shutdown and the peer

ExpireTomb ==
    /\ tomb # NoTomb
    /\ tomb' = NoTomb
    /\ failed' = TRUE
    /\ UNCHANGED <<ringTimeout, ctx, closed, pc, cseq, local, active, completed, late,
                   sent, world>>

ExpireCompleted ==
    /\ completed
    /\ completed' = FALSE
    /\ UNCHANGED <<ringTimeout, ctx, closed, pc, cseq, local, active, tomb, late, sent,
                   world, failed>>

\* Ring timeout, hang-up, shutdown, or another leg won.
CancelDial ==
    /\ ~ctx
    /\ ctx' = TRUE
    /\ UNCHANGED <<ringTimeout, closed, pc, cseq, local, table, sent, world, failed>>

Close ==
    /\ ~closed
    /\ closed' = TRUE
    /\ Finish(active)
    /\ UNCHANGED <<ringTimeout, ctx, pc, cseq, local, tomb, late, sent, world, failed>>

PeerRings(n) ==
    /\ <<"INVITE", n>> \in sent
    /\ peer[n] = "idle"
    /\ peer' = [peer EXCEPT ![n] = "ringing"]
    /\ resp' = resp \cup {<<"1xx", n>>}
    /\ UNCHANGED <<ringTimeout, ctx, closed, pc, cseq, local, table, sent, read, failed>>

\* One final response per INVITE; a CANCEL makes it 487.
PeerFinal(n, code) ==
    /\ <<"INVITE", n>> \in sent
    /\ peer[n] # "final"
    /\ code = "487" => <<"CANCEL", n>> \in sent /\ peer[n] = "ringing"
    /\ code \in Codes \ {"1xx"}
    /\ peer' = [peer EXCEPT ![n] = "final"]
    /\ resp' = resp \cup {<<code, n>>}
    /\ UNCHANGED <<ringTimeout, ctx, closed, pc, cseq, local, table, sent, read, failed>>

Dial ==
    \/ DialStart \/ ReceiveProvisional \/ ReceiveFinal \/ CtxDone
    \/ ClosedWhileDialing \/ Authenticate \/ FinalAck \/ Establish \/ SendACK
    \/ CheckAnswer \/ SendBye \/ HangupEnds

Reader(r) ==
    \/ ReadMatched(r) \/ ReAck(r) \/ ReadForgotten(r) \/ LateProvisional(r)
    \/ LateAnswer(r) \/ LateReject(r)

Next ==
    \/ Dial \/ CancelDeadline \/ Deadline \/ ResendFails \/ UserHangup
    \/ \E r \in resp : Reader(r)
    \/ LateBye \/ LateFinish \/ ReadBye
    \/ ExpireTomb \/ ExpireCompleted \/ CancelDial \/ Close
    \/ \E n \in CSeqs : PeerRings(n) \/ \E code \in Codes : PeerFinal(n, code)

\* Goroutines are scheduled and timers fire; nothing is assumed of the peer, of
\* the network or of the user.
Fairness ==
    /\ WF_vars(Dial) /\ WF_vars(CancelDeadline) /\ WF_vars(CtxDone)
    /\ WF_vars(LateBye \/ LateFinish)

Spec == Init /\ [][Next]_vars /\ Fairness

-----------------------------------------------------------------------------
\* Everything below is about the responses the reader took; what the network or
\* a failed write (failed) loses is the peer's to repeat.
Sound == ~failed /\ ~closed
Elements(q) == {q[i] : i \in DOMAIN q}
InHand(r) == r \in Elements(chan) \/ (pc \in {"answered", "ack"} /\ cseq = r[2])

\* Every 200 OK the client reads is ACKed or about to be, by Dial, by the reader
\* or through the tombstone: none falls between them, also when it crosses the
\* CANCEL or the end of the transaction.  For ring timeouts below the deadline of
\* a transaction; above it see RingingAlwaysCanceled.
AnswerIsAcked ==
    Sound /\ ringTimeout < TransactionDeadline =>
        \A n \in CSeqs : <<"2xx", n>> \in read =>
            <<"ACK", n>> \in sent \/ InHand(<<"2xx", n>>)

\* A call that was answered although Dial reports failure gets its BYE.
UnwantedCallIsHungUp ==
    Sound /\ pc = "err" =>
        \A n \in CSeqs : <<"2xx", n>> \in resp /\ <<"ACK", n>> \in sent =>
            Bye \in sent \/ late = "bye"

\* A phone known to ring: a 1xx was read for this INVITE and no final response.
Ringing(n) == <<"1xx", n>> \in read /\ ~\E r \in read : r[2] = n /\ ~Provisional(r)

\* A phone whose 1xx Dial itself has received is not left ringing: if Dial gives
\* up on the INVITE without a final response, the CANCEL has been sent.  This is
\* what the configuration promises of every ring timeout (translations/en.yaml).
RingingAlwaysCanceled ==
    Sound /\ pc = "err" /\ receivedResponse /\ Ringing(cseq) => <<"CANCEL", cseq>> \in sent

\* For ring timeouts below the deadline of a transaction this holds of both
\* INVITEs, and also if the 1xx is only read after Dial gave up.
RingingIsCanceled ==
    Sound /\ ringTimeout < TransactionDeadline /\ pc = "err" =>
        \A n \in CSeqs : Ringing(n) => <<"CANCEL", n>> \in sent

\* CANCEL waits for the first response to its INVITE (RFC 3261, section 9.1).
CancelFollowsResponse ==
    \A n \in CSeqs : <<"CANCEL", n>> \in sent => \E r \in read : r[2] = n

\* An INVITE belongs to its transaction or to its tombstone, never to both: no
\* 200 OK is answered by Dial and by the reader.
HandOffIsExclusive ==
    tomb # NoTomb \/ late # "none" => ~waiting /\ pc = "err" /\ active # "dial"

\* Dial returns once its context is done, whatever peer and network do.
CanceledDialReturns ==
    ctx /\ pc # "idle" ~> pc \in {"ok", "userbye", "over", "err"}
=============================================================================
