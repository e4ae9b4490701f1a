---------------------------- MODULE SipDialProofs ---------------------------
(***************************************************************************)
(* Proofs about SipDial, for every ring timeout and channel capacity: no   *)
(* answer is left without ACK, no unwanted call without BYE, no ringing    *)
(* phone without CANCEL, and no INVITE with two owners.                    *)
(***************************************************************************)
EXTENDS SipDial, TLAPS

\* A final response to INVITE n has been read.
FinalRead(n) == \E r \in read : ~Provisional(r) /\ r[2] = n

\* The peer and the network: responses follow their INVITE, one final response
\* each, and the second INVITE follows the challenge of the first.
WorldInv ==
    /\ read \subseteq resp
    /\ \A r \in resp : <<"INVITE", r[2]>> \in sent
    /\ \A r \in resp : ~Provisional(r) => peer[r[2]] = "final"
    /\ \A r, s \in resp : ~Provisional(r) /\ ~Provisional(s) /\ r[2] = s[2] => r = s
    /\ <<"INVITE", 2>> \in sent => cseq = 2
    /\ cseq = 2 => <<"401", 1>> \in read
    /\ pc = "idle" => cseq = 1 /\ sent = {}
    /\ \A n \in CSeqs : <<"ACK", n>> \in sent => FinalRead(n)

\* Where Dial is, what it has read, and what is registered under the Call-ID.
DialInv ==
    /\ waiting <=> pc = "transact"
    /\ pc \in {"auth", "reinvite"} => cseq = 1 /\ <<"401", 1>> \in read
    /\ pc = "reject" => \E r \in read : ~Provisional(r) /\ r[1] # "2xx" /\ r[2] = cseq
    /\ pc \in {"answered", "ack", "check", "hangup", "ok", "userbye", "over"} =>
          <<"2xx", cseq>> \in read
    /\ pc \in {"idle", "transact", "auth", "reject", "answered"} =>
          <<"ACK", cseq>> \notin sent
    /\ pc \in {"check", "hangup", "ok", "userbye", "over"} => <<"ACK", cseq>> \in sent
    /\ ~failed /\ pc = "reinvite" => <<"ACK", cseq>> \in sent
    /\ active = "dial" => pc \in {"ack", "check", "hangup", "ok", "userbye"}
    /\ completed => pc \in {"ack", "check", "hangup", "ok", "userbye", "over", "err"}
    /\ \A i \in 1..Len(chan) : chan[i] \in read /\ chan[i][2] = cseq
    /\ ~failed /\ chan # <<>> => pc = "transact"

\* The tombstone and the late call come one after the other, and only once Dial
\* has given up.
TombInv ==
    /\ tomb.cseq = 0 => ~tomb.cancelSent
    /\ tomb.cseq # 0 =>
          pc = "err" /\ tomb.cseq = cseq /\ active = "none" /\ ~completed /\ late = "none"
    /\ late # "none" => pc = "err"
    /\ active = "late" => late \in {"bye", "byed"}

\* The CANCEL of the running transaction: due once it is requested and a response
\* was seen.
TransactInv ==
    /\ receivedResponse => \E r \in read : r[2] = cseq
    /\ pc = "transact" /\ cancelSent => <<"CANCEL", cseq>> \in sent
    /\ pc = "transact" /\ cancelRequested /\ receivedResponse => cancelSent
    /\ pc = "transact" /\ <<"1xx", cseq>> \in read => receivedResponse \/ chan # <<>>

\* The same after the hand-off to the tombstone.
CancelInv ==
    /\ TransactInv
    /\ ~failed /\ tomb.cancelSent => <<"CANCEL", tomb.cseq>> \in sent
    /\ CancelFollowsResponse

\* What Dial still owes when it has failed.
OwedInv ==
    /\ Sound /\ ringTimeout < TransactionDeadline /\ pc = "err" =>
          tomb.cseq = cseq \/ <<"ACK", cseq>> \in sent
    /\ Sound /\ pc = "err" /\ (active # "none" \/ completed) => Bye \in sent \/ late = "bye"
    /\ ~failed /\ late \in {"byed", "over"} => Bye \in sent

ErrInv ==
    /\ OwedInv
    /\ AnswerIsAcked
    /\ UnwantedCallIsHungUp
    /\ RingingIsCanceled

DialogInv == TypeOK /\ WorldInv /\ DialInv /\ TombInv /\ CancelInv /\ ErrInv

-----------------------------------------------------------------------------
\* Responses and requests are pairs.
LEMMA PairForm ==
  ASSUME NEW r \in Resps
  PROVE  r = <<r[1], r[2]>> /\ r[1] \in Codes /\ r[2] \in CSeqs
  BY DEF Resps

\* Two requests are equal if method and CSeq are, and none of them is the
\* BYE.
LEMMA Pairs ==
  /\ \A m, k \in {"INVITE", "CANCEL", "ACK"}, i, j \in CSeqs :
        <<m, i>> = <<k, j>> <=> m = k /\ i = j
  /\ \A m \in {"INVITE", "CANCEL", "ACK"}, i \in CSeqs :
        <<m, i>> # Bye /\ <<m, i>> \in Requests
  BY DEF Bye, CSeqs, Requests

\* The initial state has the types of TypeOK.
LEMMA TypeInit == Init => TypeOK
<1> SUFFICES ASSUME Init PROVE TypeOK
  OBVIOUS
<1>1. chan \in Seq(Resps) /\ Len(chan) <= ChanCap
  BY ChanCapAssumption DEF Init
<1>2. QED
  BY <1>1 DEF Init, TypeOK, CSeqs, NoTomb

\* A datagram, sent or not, leaves the types of sent and failed.
LEMMA WriteTypes ==
  ASSUME TypeOK, NEW m \in Requests \cup {Bye}, Written(m) \/ WriteFails
  PROVE  sent' \subseteq Requests \cup {Bye} /\ failed' \in BOOLEAN
<1>1. sent' \subseteq Requests \cup {Bye}
  BY DEF TypeOK, Written, WriteFails
<1>2. failed' \in BOOLEAN
  BY DEF TypeOK, Written, WriteFails
<1>3. QED
  BY <1>1, <1>2

\* Every step of Dial, the reader and the timers keeps the types.
LEMMA TypeStep == TypeOK /\ [Next]_vars => TypeOK'
<1> SUFFICES ASSUME TypeOK, [Next]_vars PROVE TypeOK'
  OBVIOUS
<1> USE DEF local, table, world
<1>0. <<"INVITE", cseq>> \in Requests /\ <<"CANCEL", cseq>> \in Requests
      /\ <<"ACK", cseq>> \in Requests
  BY Pairs DEF TypeOK
<1>1. ASSUME NEW n \in CSeqs, Transact(n) PROVE TypeOK'
  <2>1. <<"INVITE", n>> \in Requests
    BY Pairs
  <2>2. sent' \subseteq Requests \cup {Bye} /\ failed' \in BOOLEAN
    BY <1>1, <2>1, WriteTypes DEF Transact
  <2>3. chan' \in Seq(Resps) /\ Len(chan') <= ChanCap
    BY <1>1, ChanCapAssumption DEF Transact
  <2>4. QED
    BY <1>1, <2>2, <2>3 DEF TypeOK, Transact
<1>2. ASSUME ReceiveProvisional PROVE TypeOK'
  <2>1. sent' \subseteq Requests \cup {Bye} /\ failed' \in BOOLEAN
    BY <1>0, <1>2, WriteTypes DEF ReceiveProvisional, TypeOK
  <2>2. chan' \in Seq(Resps) /\ Len(chan') <= ChanCap
    BY <1>2, ChanCapAssumption DEF ReceiveProvisional, TypeOK
  <2>3. cancelSent' \in BOOLEAN /\ waiting' \in BOOLEAN
    BY <1>2 DEF ReceiveProvisional, TypeOK
  <2>4. QED
    BY <1>2, <2>1, <2>2, <2>3 DEF ReceiveProvisional, TypeOK
<1>3. ASSUME ReceiveFinal PROVE TypeOK'
  <2>1. chan' \in Seq(Resps) /\ Len(chan') <= ChanCap
    BY <1>3, ChanCapAssumption DEF ReceiveFinal
  <2>2. pc' \in {"answered", "auth", "reject"}
    BY <1>3 DEF ReceiveFinal, AfterFinal
  <2>3. waiting' \in BOOLEAN /\ receivedResponse' \in BOOLEAN
    BY <1>3 DEF ReceiveFinal
  <2>4. UNCHANGED <<ringTimeout, ctx, closed, cseq, cancelRequested, cancelSent, table,
                    sent, world, failed>>
    BY <1>3 DEF ReceiveFinal
  <2>5. QED
    BY <2>1, <2>2, <2>3, <2>4 DEF TypeOK
<1>4. ASSUME CtxDone PROVE TypeOK'
  <2>1. sent' \subseteq Requests \cup {Bye} /\ failed' \in BOOLEAN
    BY <1>0, <1>4, WriteTypes DEF CtxDone, TypeOK
  <2>2. cancelSent' \in BOOLEAN /\ waiting' \in BOOLEAN
    BY <1>4 DEF CtxDone, TypeOK
  <2>3. QED
    BY <1>4, <2>1, <2>2 DEF CtxDone, TypeOK
<1>5. ASSUME CancelDeadline PROVE TypeOK'
  <2>1. sent' \subseteq Requests \cup {Bye} /\ failed' \in BOOLEAN
    BY <1>0, <1>5, WriteTypes DEF CancelDeadline, TransitionCanceledInvite, TypeOK
  <2>2. chan' \in Seq(Resps) /\ Len(chan') <= ChanCap
    BY <1>5, ChanCapAssumption DEF CancelDeadline, TransitionCanceledInvite
  <2>3. tomb' \in [cseq : CSeqs \cup {0}, cancelSent : BOOLEAN]
    <3>1. \/ tomb' = tomb
          \/ \E b \in BOOLEAN : tomb' = [cseq |-> cseq, cancelSent |-> b]
      BY <1>5 DEF CancelDeadline, TransitionCanceledInvite
    <3>2. ASSUME NEW b \in BOOLEAN, tomb' = [cseq |-> cseq, cancelSent |-> b]
          PROVE  tomb' \in [cseq : CSeqs \cup {0}, cancelSent : BOOLEAN]
      BY <3>2 DEF TypeOK
    <3>3. QED
      BY <3>1, <3>2 DEF TypeOK
  <2>4. pc' \in {"err", "answered", "auth", "reject"} /\ waiting' = FALSE
    BY <1>5 DEF CancelDeadline, TransitionCanceledInvite, AfterFinal
  <2>5. QED
    BY <1>5, <2>1, <2>2, <2>3, <2>4 DEF CancelDeadline, TypeOK
<1>6. ASSUME Deadline \/ ResendFails \/ ClosedWhileDialing PROVE TypeOK'
  <2>1. chan' = <<>>
    BY <1>6 DEF Deadline, ResendFails, ClosedWhileDialing
  <2>2. sent' = sent /\ failed' \in BOOLEAN
    BY <1>6 DEF Deadline, ResendFails, ClosedWhileDialing, WriteFails, TypeOK
  <2>3. /\ pc' = "err" /\ waiting' \in BOOLEAN
        /\ UNCHANGED <<ringTimeout, ctx, closed, cseq, cancelRequested, cancelSent,
                       receivedResponse, table, world>>
    BY <1>6 DEF Deadline, ResendFails, ClosedWhileDialing
  <2>4. QED
    BY <2>1, <2>2, <2>3, ChanCapAssumption DEF TypeOK
<1>7. ASSUME FinalAck PROVE TypeOK'
  <2>1. sent' \subseteq Requests \cup {Bye} /\ failed' \in BOOLEAN
    BY <1>0, <1>7, WriteTypes DEF FinalAck
  <2>2. QED
    BY <1>7, <2>1 DEF FinalAck, TypeOK
<1>8. ASSUME Authenticate PROVE TypeOK'
  BY <1>8, <1>1 DEF Authenticate, CSeqs, TypeOK
<1>9. ASSUME Establish \/ SendACK PROVE TypeOK'
  <2>1. sent' \subseteq Requests \cup {Bye} /\ failed' \in BOOLEAN
    BY <1>0, <1>9, WriteTypes DEF Establish, SendACK, TypeOK
  <2>2. QED
    BY <1>9, <2>1 DEF Establish, SendACK, TypeOK
<1>10. ASSUME CheckAnswer \/ UserHangup PROVE TypeOK'
  BY <1>10 DEF CheckAnswer, UserHangup, TypeOK
<1>11. ASSUME SendBye \/ HangupEnds PROVE TypeOK'
  <2>1. sent' \subseteq Requests \cup {Bye} /\ failed' \in BOOLEAN
    BY <1>11, WriteTypes DEF SendBye, HangupEnds, TypeOK
  <2>2. active' \in {"none", "dial", "late"} /\ completed' \in BOOLEAN
    BY <1>11 DEF SendBye, HangupEnds, Finish, TypeOK
  <2>3. QED
    BY <1>11, <2>1, <2>2 DEF SendBye, HangupEnds, TypeOK
<1>12. ASSUME NEW r \in resp, ReadMatched(r) PROVE TypeOK'
  <2>1. chan' \in Seq(Resps) /\ Len(chan') <= ChanCap
    BY <1>12, ChanCapAssumption DEF ReadMatched, TypeOK
  <2>2. QED
    BY <1>12, <2>1 DEF ReadMatched, TypeOK
<1>13. ASSUME NEW r \in resp,
              ReAck(r) \/ ReadForgotten(r) \/ LateProvisional(r) \/ LateAnswer(r)
              \/ LateReject(r)
       PROVE  TypeOK'
  <2>1. <<"CANCEL", r[2]>> \in Requests /\ <<"ACK", r[2]>> \in Requests
    BY PairForm, Pairs DEF TypeOK
  <2>2. sent' \subseteq Requests \cup {Bye} /\ failed' \in BOOLEAN
    BY <1>0, <1>13, <2>1, WriteTypes
       DEF ReAck, ReadForgotten, LateProvisional, LateAnswer, LateReject, TypeOK
  <2>3. /\ tomb' \in [cseq : CSeqs \cup {0}, cancelSent : BOOLEAN]
        /\ active' \in {"none", "dial", "late"}
        /\ late' \in {"none", "bye", "byed", "over"}
    <3>1. NoTomb \in [cseq : CSeqs \cup {0}, cancelSent : BOOLEAN]
      BY DEF NoTomb
    <3>2. [tomb EXCEPT !.cancelSent = TRUE] \in [cseq : CSeqs \cup {0}, cancelSent : BOOLEAN]
      BY DEF TypeOK
    <3>3. tomb' \in {tomb, NoTomb, [tomb EXCEPT !.cancelSent = TRUE]}
      BY <1>13 DEF ReAck, ReadForgotten, LateProvisional, LateAnswer, LateReject
    <3>4. active' \in {active, "late"} /\ late' \in {late, "bye", "over"}
      BY <1>13 DEF ReAck, ReadForgotten, LateProvisional, LateAnswer, LateReject
    <3>5. QED
      BY <3>1, <3>2, <3>3, <3>4 DEF TypeOK
  <2>4. completed' \in BOOLEAN
    BY <1>13 DEF ReAck, ReadForgotten, LateProvisional, LateAnswer, LateReject, TypeOK
  <2>5. Unmatched(r)
    BY <1>13 DEF ReAck, ReadForgotten, LateProvisional, LateAnswer, LateReject
  <2>6. QED
    BY <2>2, <2>3, <2>4, <2>5 DEF Unmatched, TypeOK
<1>14. ASSUME LateBye \/ LateFinish \/ ReadBye \/ Close PROVE TypeOK'
  <2>1. sent' \subseteq Requests \cup {Bye} /\ failed' \in BOOLEAN
    BY <1>14, WriteTypes DEF LateBye, LateFinish, ReadBye, Close, TypeOK
  <2>2. active' \in {"none", "dial", "late"} /\ completed' \in BOOLEAN
    BY <1>14 DEF LateBye, LateFinish, ReadBye, Close, Finish, TypeOK
  <2>3. QED
    <3>1. closed' \in BOOLEAN /\ late' \in {"none", "bye", "byed", "over"}
      BY <1>14 DEF LateBye, LateFinish, ReadBye, Close, TypeOK
    <3>2. UNCHANGED <<ringTimeout, ctx, pc, cseq, local, tomb, world>>
      BY <1>14 DEF LateBye, LateFinish, ReadBye, Close
    <3>3. QED
      BY <2>1, <2>2, <3>1, <3>2 DEF TypeOK
<1>15. ASSUME ExpireTomb \/ ExpireCompleted \/ CancelDial PROVE TypeOK'
  <2>1. tomb' \in [cseq : CSeqs \cup {0}, cancelSent : BOOLEAN]
    <3>1. NoTomb \in [cseq : CSeqs \cup {0}, cancelSent : BOOLEAN]
      BY DEF NoTomb
    <3>2. tomb' \in {tomb, NoTomb}
      BY <1>15 DEF ExpireTomb, ExpireCompleted, CancelDial
    <3>3. QED
      BY <3>1, <3>2 DEF TypeOK
  <2>2. CASE ExpireTomb
    BY <2>1, <2>2 DEF ExpireTomb, TypeOK
  <2>3. CASE ExpireCompleted
    <3>1. /\ completed' \in BOOLEAN
          /\ UNCHANGED <<ringTimeout, ctx, closed, pc, cseq, local, active, tomb, late,
                         sent, world, failed>>
      BY <2>3 DEF ExpireCompleted
    <3>2. QED
      BY <3>1 DEF TypeOK
  <2>4. CASE CancelDial
    BY <2>1, <2>4 DEF CancelDial, TypeOK
  <2>5. QED
    BY <1>15, <2>2, <2>3, <2>4
<1>16. ASSUME NEW n \in CSeqs, PeerRings(n) \/ \E code \in Codes : PeerFinal(n, code)
       PROVE  TypeOK'
  BY <1>16 DEF PeerRings, PeerFinal, Resps, Codes, TypeOK
<1>17. ASSUME UNCHANGED vars PROVE TypeOK'
  BY <1>17 DEF vars, TypeOK
<1>18. QED
  BY <1>1, <1>2, <1>3, <1>4, <1>5, <1>6, <1>7, <1>8, <1>9, <1>10, <1>11, <1>12,
     <1>13, <1>14, <1>15, <1>16, <1>17 DEF Next, Dial, DialStart, Reader, CSeqs

-----------------------------------------------------------------------------
\* A step that sends no INVITE and leaves the peer and the current CSeq alone
\* keeps WorldInv, if every new ACK is for an INVITE with a final response.
LEMMA WorldQuiet ==
  ASSUME TypeOK, WorldInv, UNCHANGED <<resp, peer, cseq>>,
         read \subseteq read', read' \subseteq resp,
         pc' # "idle" \/ (pc' = pc /\ sent' = sent),
         sent \subseteq sent',
         \A n \in CSeqs : <<"INVITE", n>> \in sent' => <<"INVITE", n>> \in sent,
         \A n \in CSeqs : <<"ACK", n>> \in sent' /\ <<"ACK", n>> \notin sent => FinalRead(n)'
  PROVE  WorldInv'
<1>1. \A n \in CSeqs : FinalRead(n) => FinalRead(n)'
  BY DEF FinalRead, Provisional
<1>2. \A n \in CSeqs : <<"ACK", n>> \in sent' => FinalRead(n)'
  BY <1>1 DEF WorldInv
<1>3. \A r \in resp : r[2] \in CSeqs
  BY PairForm DEF TypeOK
<1>4. \A r \in resp' : <<"INVITE", r[2]>> \in sent'
  BY <1>3 DEF WorldInv
<1>5. <<"INVITE", 2>> \in sent' => cseq' = 2
  BY DEF WorldInv, CSeqs
<1>6. QED
  BY <1>2, <1>4, <1>5 DEF WorldInv, Provisional

\* Every step preserves WorldInv, which relates what the phone did to what is
\* on the wire.
LEMMA WorldStep == DialogInv /\ [Next]_vars => WorldInv'
<1> SUFFICES ASSUME DialogInv, [Next]_vars PROVE WorldInv'
  OBVIOUS
<1> USE DEF DialogInv, local, table, world
<1>0. cseq \in CSeqs /\ resp \subseteq Resps /\ sent \subseteq Requests \cup {Bye}
  BY DEF TypeOK
<1>1. ASSUME pc = "idle", Transact(1) PROVE WorldInv'
  <2>1. resp = {} /\ read = {} /\ sent = {}
    BY <1>1 DEF WorldInv
  <2>2. sent' \subseteq {<<"INVITE", 1>>} /\ resp' = {} /\ read' = {} /\ cseq' = 1 /\ pc' # "idle"
    BY <1>1, <2>1 DEF Transact, Written, WriteFails
  <2>3. <<"INVITE", 2>> \notin sent' /\ \A n \in CSeqs : <<"ACK", n>> \notin sent'
    BY <2>2, Pairs DEF CSeqs
  <2>4. QED
    BY <2>2, <2>3 DEF WorldInv
<1>2. ASSUME pc = "reinvite", Transact(2) PROVE WorldInv'
  <2>1. /\ sent \subseteq sent' /\ sent' \subseteq sent \cup {<<"INVITE", 2>>}
        /\ UNCHANGED <<resp, read, peer>> /\ cseq' = 2 /\ pc' # "idle"
    BY <1>2 DEF Transact, Written, WriteFails
  <2>2. <<"401", 1>> \in read
    BY <1>2 DEF DialInv
  <2>3. \A n \in CSeqs : <<"ACK", n>> \in sent' => FinalRead(n)'
    BY <2>1, Pairs DEF WorldInv, FinalRead, CSeqs, Provisional
  <2>4. QED
    BY <2>1, <2>2, <2>3 DEF WorldInv, Provisional
<1>3. ASSUME ReceiveProvisional \/ CtxDone \/ CancelDeadline PROVE WorldInv'
  <2>1. sent \subseteq sent' /\ sent' \subseteq sent \cup {<<"CANCEL", cseq>>}
    BY <1>3 DEF ReceiveProvisional, CtxDone, CancelDeadline, TransitionCanceledInvite,
                Written, WriteFails
  <2>2. pc' # "idle" /\ UNCHANGED <<resp, peer, read, cseq>>
    BY <1>3 DEF ReceiveProvisional, CtxDone, CancelDeadline, TransitionCanceledInvite,
                AfterFinal
  <2>3. \A n \in CSeqs : <<"INVITE", n>> \in sent' => <<"INVITE", n>> \in sent
    BY <1>0, <2>1, Pairs
  <2>4. \A n \in CSeqs : <<"ACK", n>> \in sent' => <<"ACK", n>> \in sent
    BY <1>0, <2>1, Pairs
  <2>5. read \subseteq resp
    BY DEF WorldInv
  <2>6. QED
    BY <2>1, <2>2, <2>3, <2>4, <2>5, WorldQuiet
<1>4. ASSUME ReceiveFinal \/ Deadline \/ ResendFails \/ ClosedWhileDialing PROVE WorldInv'
  <2>1. pc' # "idle" /\ UNCHANGED <<resp, peer, read, cseq, sent>>
    BY <1>4 DEF ReceiveFinal, Deadline, ResendFails, ClosedWhileDialing, WriteFails,
                AfterFinal
  <2>2. QED
    BY <2>1, WorldQuiet DEF WorldInv
<1>5. ASSUME FinalAck \/ SendACK PROVE WorldInv'
  <2>1. sent \subseteq sent' /\ sent' \subseteq sent \cup {<<"ACK", cseq>>}
    BY <1>5 DEF FinalAck, SendACK, Written, WriteFails
  <2>2. pc' # "idle" /\ UNCHANGED <<resp, peer, read, cseq>>
    BY <1>5 DEF FinalAck, SendACK
  <2>3. FinalRead(cseq)'
    <3>1. <<"401", cseq>> \in read \/ <<"2xx", cseq>> \in read \/ FinalRead(cseq)
      BY <1>5 DEF FinalAck, SendACK, DialInv, FinalRead
    <3>2. QED
      BY <2>2, <3>1 DEF FinalRead, Provisional
  <2>4. \A n \in CSeqs : <<"INVITE", n>> \in sent' => <<"INVITE", n>> \in sent
    BY <1>0, <2>1, Pairs
  <2>5. \A n \in CSeqs : <<"ACK", n>> \in sent' /\ <<"ACK", n>> \notin sent => n = cseq
    BY <1>0, <2>1, Pairs
  <2>6. read \subseteq resp
    BY DEF WorldInv
  <2>7. QED
    BY <2>1, <2>2, <2>3, <2>4, <2>5, <2>6, WorldQuiet
<1>6. ASSUME \/ Establish \/ CheckAnswer \/ UserHangup \/ LateFinish \/ ReadBye
             \/ ExpireTomb \/ ExpireCompleted \/ CancelDial \/ Close
      PROVE  WorldInv'
  <2>1. (pc' # "idle" \/ pc' = pc) /\ UNCHANGED <<resp, peer, read, cseq, sent>>
    BY <1>6 DEF Establish, CheckAnswer, UserHangup, LateFinish, ReadBye, ExpireTomb,
                ExpireCompleted, CancelDial, Close
  <2>2. QED
    BY <2>1, WorldQuiet DEF WorldInv
<1>7. ASSUME SendBye \/ HangupEnds \/ LateBye PROVE WorldInv'
  <2>1. sent \subseteq sent' /\ sent' \subseteq sent \cup {Bye}
    BY <1>7 DEF SendBye, HangupEnds, LateBye, Written, WriteFails
  <2>2. pc' # "idle" /\ UNCHANGED <<resp, peer, read, cseq>>
    BY <1>7 DEF SendBye, HangupEnds, LateBye, TombInv
  <2>3. \A n \in CSeqs : <<"INVITE", n>> \in sent' => <<"INVITE", n>> \in sent
    BY <1>0, <2>1, Pairs
  <2>4. \A n \in CSeqs : <<"ACK", n>> \in sent' => <<"ACK", n>> \in sent
    BY <1>0, <2>1, Pairs
  <2>5. read \subseteq resp
    BY DEF WorldInv
  <2>6. QED
    BY <2>1, <2>2, <2>3, <2>4, <2>5, WorldQuiet
<1>8. ASSUME NEW r \in resp, Reader(r) PROVE WorldInv'
  <2>1. r = <<r[1], r[2]>> /\ r[1] \in Codes /\ r[2] \in CSeqs
    BY <1>0, PairForm
  <2>2. read' = read \cup {r} /\ UNCHANGED <<resp, peer, cseq, pc>> /\ pc # "idle"
    BY <1>8 DEF Reader, ReadMatched, ReAck, ReadForgotten, LateProvisional, LateAnswer,
                LateReject, Unmatched, WorldInv
  <2>3. /\ sent \subseteq sent'
        /\ \/ sent' \subseteq sent \cup {<<"CANCEL", r[2]>>}
           \/ sent' \subseteq sent \cup {<<"ACK", r[2]>>} /\ ~Provisional(r)
    BY <1>8 DEF Reader, ReadMatched, ReAck, ReadForgotten, LateProvisional, LateAnswer,
                LateReject, Written, WriteFails, Provisional
  <2>4. ~Provisional(r) => FinalRead(r[2])'
    BY <2>2 DEF FinalRead, Provisional
  <2>5. \A n \in CSeqs : <<"INVITE", n>> \in sent' => <<"INVITE", n>> \in sent
    BY <2>1, <2>3, Pairs
  <2>6. \A n \in CSeqs : <<"ACK", n>> \in sent' /\ <<"ACK", n>> \notin sent => FinalRead(n)'
    BY <2>1, <2>3, <2>4, Pairs
  <2>7. read' \subseteq resp
    BY <2>2 DEF WorldInv
  <2>8. QED
    BY <2>2, <2>3, <2>5, <2>6, <2>7, WorldQuiet
<1>9. ASSUME NEW n \in CSeqs, PeerRings(n) \/ \E code \in Codes : PeerFinal(n, code)
      PROVE  WorldInv'
  <2>1. /\ <<"INVITE", n>> \in sent /\ peer[n] # "final"
        /\ UNCHANGED <<sent, read, cseq, pc>>
    BY <1>9 DEF PeerRings, PeerFinal
  <2>2. \A r \in resp : r[2] = n => Provisional(r)
    BY <2>1 DEF WorldInv
  <2>3. PICK new \in Resps :
           /\ new[2] = n /\ resp' = resp \cup {new}
           /\ ~Provisional(new) => peer'[n] = "final"
    <3>1. CASE PeerRings(n)
      <4>1. <<"1xx", n>> \in Resps /\ <<"1xx", n>>[2] = n /\ Provisional(<<"1xx", n>>)
        BY DEF Resps, Codes, Provisional
      <4>2. QED
        BY <3>1, <4>1 DEF PeerRings
    <3>2. ASSUME NEW code \in Codes, PeerFinal(n, code)
          PROVE  \E new \in Resps :
                    /\ new[2] = n /\ resp' = resp \cup {new}
                    /\ ~Provisional(new) => peer'[n] = "final"
      <4>1. <<code, n>> \in Resps /\ <<code, n>>[2] = n
        BY DEF Resps
      <4>2. peer'[n] = "final"
        BY <3>2 DEF PeerFinal, TypeOK
      <4>3. QED
        BY <3>2, <4>1, <4>2 DEF PeerFinal
    <3>3. QED
      BY <1>9, <3>1, <3>2
  <2>4. \A k \in CSeqs : peer[k] = "final" => peer'[k] = "final"
    BY <1>9 DEF PeerRings, PeerFinal, TypeOK
  <2>5. \A r \in resp' : ~Provisional(r) => peer'[r[2]] = "final"
    BY <1>0, <2>3, <2>4, PairForm DEF WorldInv
  <2>6. \A r, t \in resp' : ~Provisional(r) /\ ~Provisional(t) /\ r[2] = t[2] => r = t
    BY <2>2, <2>3 DEF WorldInv
  <2>7. \A k \in CSeqs : FinalRead(k)' <=> FinalRead(k)
    BY <2>1 DEF FinalRead, Provisional
  <2>8. QED
    BY <2>1, <2>3, <2>5, <2>6, <2>7 DEF WorldInv, Provisional
<1>10. ASSUME UNCHANGED vars PROVE WorldInv'
  BY <1>10, WorldQuiet DEF vars, WorldInv
<1>11. ASSUME Authenticate PROVE WorldInv'
  <2>1. CASE pc' = "err" /\ UNCHANGED <<cseq, world, sent>>
    BY <2>1, WorldQuiet DEF WorldInv
  <2>2. QED
    BY <1>2, <1>11, <2>1 DEF Authenticate
<1>12. QED
  BY <1>1, <1>3, <1>4, <1>5, <1>6, <1>7, <1>8, <1>9, <1>10, <1>11
     DEF Next, Dial, DialStart

-----------------------------------------------------------------------------
\* Nothing sent, read or failed is ever taken back.
LEMMA Monotone ==
  TypeOK /\ [Next]_vars => /\ sent \subseteq sent' /\ read \subseteq read'
                           /\ resp \subseteq resp' /\ (failed => failed')
                           /\ (closed => closed') /\ ringTimeout' = ringTimeout
<1> SUFFICES ASSUME TypeOK, [Next]_vars
             PROVE  /\ sent \subseteq sent' /\ read \subseteq read'
                    /\ resp \subseteq resp' /\ (failed => failed')
                    /\ (closed => closed') /\ ringTimeout' = ringTimeout
  OBVIOUS
<1> USE DEF world, table, local, Written, WriteFails
<1>1. ASSUME Dial PROVE sent \subseteq sent' /\ (failed => failed')
                        /\ UNCHANGED <<read, resp, closed, ringTimeout>>
  BY <1>1 DEF Dial, DialStart, Transact, ReceiveProvisional, ReceiveFinal, CtxDone,
              ClosedWhileDialing, Authenticate, FinalAck, Establish, SendACK,
              CheckAnswer, SendBye, HangupEnds
<1>2. ASSUME CancelDeadline \/ Deadline \/ ResendFails \/ UserHangup
      PROVE  sent \subseteq sent' /\ (failed => failed')
             /\ UNCHANGED <<read, resp, closed, ringTimeout>>
  BY <1>2 DEF CancelDeadline, TransitionCanceledInvite, Deadline, ResendFails, UserHangup
<1>3. ASSUME NEW r \in resp, Reader(r)
      PROVE  sent \subseteq sent' /\ (failed => failed') /\ read \subseteq read'
             /\ UNCHANGED <<resp, closed, ringTimeout>>
  BY <1>3 DEF Reader, ReadMatched, ReAck, ReadForgotten, LateProvisional, LateAnswer,
              LateReject, Unmatched
<1>4. ASSUME LateBye \/ LateFinish \/ ReadBye \/ ExpireTomb \/ ExpireCompleted
             \/ CancelDial \/ Close
      PROVE  sent \subseteq sent' /\ (failed => failed') /\ (closed => closed')
             /\ UNCHANGED <<read, resp, ringTimeout>>
  BY <1>4 DEF LateBye, LateFinish, ReadBye, ExpireTomb, ExpireCompleted, CancelDial, Close
<1>5. ASSUME NEW n \in CSeqs, PeerRings(n) \/ \E code \in Codes : PeerFinal(n, code)
      PROVE  resp \subseteq resp' /\ UNCHANGED <<sent, read, closed, ringTimeout, failed>>
  BY <1>5 DEF PeerRings, PeerFinal
<1>6. ASSUME UNCHANGED vars
      PROVE  UNCHANGED <<sent, read, resp, closed, ringTimeout, failed>>
  BY <1>6 DEF vars
<1>7. QED
  BY <1>1, <1>2, <1>3, <1>4, <1>5, <1>6 DEF Next

\* The states of Dial in which no ACK for the current INVITE may be sent yet, and
\* those in which its call may be registered.
Unacked == {"idle", "transact", "auth", "reject", "answered"}
InCall == {"ack", "check", "hangup", "ok", "userbye"}

\* A step that leaves Dial where it is and sends no premature ACK.
LEMMA DialQuiet ==
  ASSUME TypeOK, DialInv, TombInv, UNCHANGED <<pc, cseq, waiting, chan>>,
         read \subseteq read', sent \subseteq sent', failed => failed',
         pc \in Unacked => (<<"ACK", cseq>> \in sent' => <<"ACK", cseq>> \in sent),
         active' = "dial" => active = "dial",
         completed' => completed \/ active # "none"
  PROVE  DialInv'
<1>1. completed' => pc' \in InCall \cup {"over", "err"}
  BY DEF DialInv, TombInv, TypeOK, InCall
<1>2. active' = "dial" => pc' \in InCall
  BY DEF DialInv, InCall
<1>3. pc' \in Unacked => <<"ACK", cseq'>> \notin sent'
  BY DEF DialInv, Unacked
<1>4. pc' = "reject" => \E r \in read' : ~Provisional(r) /\ r[1] # "2xx" /\ r[2] = cseq'
  BY DEF DialInv
<1>5. QED
  BY <1>1, <1>2, <1>3, <1>4 DEF DialInv, InCall, Unacked, Provisional

\* What Dial knows after a final response to its INVITE.
LEMMA AfterFinalFacts ==
  ASSUME TypeOK, NEW r \in read, ~Provisional(r), r[2] = cseq, AfterFinal(r)
  PROVE  /\ pc' \in {"answered", "auth", "reject"}
         /\ pc' = "answered" => <<"2xx", cseq>> \in read
         /\ pc' = "auth" => cseq = 1 /\ <<"401", 1>> \in read
         /\ pc' = "reject" =>
               \E t \in read : ~Provisional(t) /\ t[1] # "2xx" /\ t[2] = cseq
<1>1. r = <<r[1], r[2]>>
  BY PairForm DEF TypeOK
<1>2. QED
  BY <1>1 DEF AfterFinal

\* Every step preserves DialInv, the facts about the position of Dial.
LEMMA DialStepInv == DialogInv /\ [Next]_vars => DialInv'
<1> SUFFICES ASSUME DialogInv, [Next]_vars PROVE DialInv'
  OBVIOUS
<1> USE DEF DialogInv, local, table, world
<1>0. /\ cseq \in CSeqs /\ sent \subseteq sent' /\ read \subseteq read'
      /\ (failed => failed') /\ chan \in Seq(Resps)
  BY Monotone DEF TypeOK
<1>1. ASSUME NEW n \in CSeqs, Transact(n), pc \in {"idle", "reinvite"},
             <<"ACK", n>> \notin sent
      PROVE  DialInv'
  <2>1. active # "dial" /\ ~completed
    BY <1>1 DEF DialInv
  <2>2. <<"ACK", n>> \notin sent'
    BY <1>1, Pairs DEF Transact, Written, WriteFails
  <2>3. /\ pc' \in {"transact", "err"} /\ (waiting' <=> pc' = "transact")
        /\ cseq' = n /\ chan' = <<>> /\ active' # "dial" /\ ~completed'
    BY <1>1, <2>1 DEF Transact
  <2>4. QED
    BY <2>2, <2>3 DEF DialInv
<1>2. ASSUME ReceiveProvisional \/ CtxDone PROVE DialInv'
  <2>1. /\ pc = "transact" /\ pc' \in {"transact", "err"}
        /\ (waiting' <=> pc' = "transact") /\ (pc' = "err" => failed')
        /\ UNCHANGED <<cseq, read, active, completed>>
    BY <1>2 DEF ReceiveProvisional, CtxDone, WriteFails, DialInv
  <2>2. sent' \subseteq sent \cup {<<"CANCEL", cseq>>}
    BY <1>2 DEF ReceiveProvisional, CtxDone, Written, WriteFails
  <2>3. <<"ACK", cseq>> \notin sent'
    BY <1>0, <2>1, <2>2, Pairs DEF DialInv
  <2>4. \A i \in 1..Len(chan') : \E j \in 1..Len(chan) : chan'[i] = chan[j]
    <3>1. CASE chan' = chan
      BY <3>1
    <3>2. CASE chan # <<>> /\ chan' = Tail(chan)
      <4>1. \A i \in 1..Len(chan') : i + 1 \in 1..Len(chan) /\ chan'[i] = chan[i + 1]
        BY <1>0, <3>2
      <4>2. QED
        BY <4>1
    <3>3. QED
      BY <1>2, <3>1, <3>2 DEF ReceiveProvisional, CtxDone
  <2>5. active # "dial" /\ ~completed
    BY <2>1 DEF DialInv
  <2>6. \A i \in 1..Len(chan') : chan'[i] \in read' /\ chan'[i][2] = cseq'
    BY <2>1, <2>4 DEF DialInv
  <2>7. QED
    BY <2>1, <2>3, <2>5, <2>6 DEF DialInv
<1>3. ASSUME ReceiveFinal \/ CancelDeadline PROVE DialInv'
  <2>1. /\ pc = "transact" /\ ~waiting' /\ chan' = <<>>
        /\ UNCHANGED <<cseq, read, active, completed>>
    BY <1>3 DEF ReceiveFinal, CancelDeadline, TransitionCanceledInvite
  <2>2. <<"ACK", cseq>> \notin sent'
    <3>1. sent' \subseteq sent \cup {<<"CANCEL", cseq>>}
      BY <1>3 DEF ReceiveFinal, CancelDeadline, TransitionCanceledInvite, Written, WriteFails
    <3>2. QED
      BY <1>0, <2>1, <3>1, Pairs DEF DialInv
  <2>3. \/ pc' = "err"
        \/ \E i \in 1..Len(chan) : ~Provisional(chan[i]) /\ AfterFinal(chan[i])
    <3>1. chan # <<>> => Head(chan) = chan[1] /\ 1 \in 1..Len(chan)
      BY <1>0
    <3>2. DOMAIN chan = 1..Len(chan)
      BY <1>0
    <3>3. QED
      BY <1>3, <3>1, <3>2 DEF ReceiveFinal, CancelDeadline, TransitionCanceledInvite, FirstFinal
  <2>4. active # "dial" /\ ~completed
    BY <2>1 DEF DialInv
  <2>5. CASE pc' = "err"
    BY <2>1, <2>4, <2>5 DEF DialInv
  <2>6. ASSUME NEW i \in 1..Len(chan), ~Provisional(chan[i]), AfterFinal(chan[i])
        PROVE  DialInv'
    <3>1. chan[i] \in read /\ chan[i][2] = cseq
      BY DEF DialInv
    <3>2. /\ pc' \in {"answered", "auth", "reject"}
          /\ pc' = "answered" => <<"2xx", cseq>> \in read
          /\ pc' = "auth" => cseq = 1 /\ <<"401", 1>> \in read
          /\ pc' = "reject" =>
               \E t \in read : ~Provisional(t) /\ t[1] # "2xx" /\ t[2] = cseq
      BY <2>6, <3>1, AfterFinalFacts
    <3>3. QED
      BY <2>1, <2>2, <2>4, <3>2 DEF DialInv
  <2>7. QED
    BY <2>3, <2>5, <2>6
<1>4. ASSUME Deadline \/ ResendFails \/ ClosedWhileDialing PROVE DialInv'
  <2>1. /\ pc = "transact" /\ ~waiting' /\ chan' = <<>> /\ pc' = "err"
        /\ UNCHANGED <<cseq, read, active, completed>>
    BY <1>4 DEF Deadline, ResendFails, ClosedWhileDialing
  <2>2. active # "dial" /\ ~completed
    BY <2>1 DEF DialInv
  <2>3. QED
    BY <2>1, <2>2 DEF DialInv
<1>5. ASSUME FinalAck PROVE DialInv'
  <2>1. /\ pc \in {"auth", "reject"} /\ UNCHANGED <<cseq, read, active, completed, waiting, chan>>
        /\ pc' = IF pc = "auth" THEN "reinvite" ELSE "err"
    BY <1>5 DEF FinalAck
  <2>2. ~failed' => <<"ACK", cseq>> \in sent'
    BY <1>5 DEF FinalAck, Written, WriteFails
  <2>3. QED
    BY <1>0, <2>1, <2>2 DEF DialInv
<1>6. ASSUME Authenticate PROVE DialInv'
  <2>1. pc = "reinvite" /\ cseq = 1
    BY <1>6 DEF Authenticate, DialInv
  <2>2. CASE Transact(2)
    <3>1. <<"ACK", 2>> \notin sent
      <4>1. <<"INVITE", 2>> \notin sent
        BY <2>1 DEF WorldInv
      <4>2. ~FinalRead(2)
        BY <4>1 DEF WorldInv, FinalRead
      <4>3. QED
        BY <4>2 DEF WorldInv, CSeqs
    <3>2. QED
      BY <1>1, <2>1, <2>2, <3>1 DEF CSeqs
  <2>3. CASE pc' = "err" /\ UNCHANGED <<cseq, local, table, sent, world, failed>>
    BY <2>1, <2>3 DEF DialInv
  <2>4. QED
    BY <1>6, <2>2, <2>3 DEF Authenticate
<1>7. ASSUME Establish PROVE DialInv'
  BY <1>7 DEF Establish, DialInv
<1>8. ASSUME SendACK PROVE DialInv'
  <2>1. /\ pc = "ack" /\ UNCHANGED <<cseq, read, completed, waiting, chan>>
        /\ \/ pc' = "check" /\ <<"ACK", cseq>> \in sent' /\ active' = active
           \/ pc' = "err" /\ active' # "dial"
    BY <1>8 DEF SendACK, Written
  <2>2. QED
    BY <1>0, <2>1 DEF DialInv
<1>9. ASSUME CheckAnswer \/ UserHangup \/ HangupEnds PROVE DialInv'
  <2>1. /\ pc \in {"check", "ok", "hangup", "userbye"}
        /\ pc' \in {"hangup", "ok", "userbye", "err", "over"}
        /\ UNCHANGED <<cseq, read, waiting, chan>>
    BY <1>9 DEF CheckAnswer, UserHangup, HangupEnds
  <2>2. active' = "dial" => pc' \in InCall
    BY <1>9 DEF CheckAnswer, UserHangup, HangupEnds, Finish, InCall
  <2>3. QED
    BY <1>0, <2>1, <2>2 DEF DialInv, InCall
<1>10. ASSUME NEW r \in resp, ReadMatched(r) PROVE DialInv'
  <2>1. /\ UNCHANGED <<pc, cseq, waiting, sent, active, completed, failed>>
        /\ r[2] = cseq /\ pc = "transact" /\ r \in read' /\ r \in Resps
    BY <1>10 DEF ReadMatched, DialInv, TypeOK
  <2>2. /\ Len(chan') = Len(chan) + 1 /\ chan'[Len(chan) + 1] = r
        /\ \A i \in 1..Len(chan) : chan'[i] = chan[i]
    BY <1>0, <1>10, <2>1 DEF ReadMatched
  <2>3. \A i \in 1..Len(chan') : chan'[i] \in read' /\ chan'[i][2] = cseq'
    BY <1>0, <2>1, <2>2 DEF DialInv
  <2>4. QED
    BY <1>0, <2>1, <2>3 DEF DialInv
<1>11. ASSUME NEW r \in resp,
              ReAck(r) \/ ReadForgotten(r) \/ LateProvisional(r) \/ LateAnswer(r)
              \/ LateReject(r)
       PROVE  DialInv'
  <2>1. UNCHANGED <<pc, cseq, waiting, chan>>
    BY <1>11 DEF ReAck, ReadForgotten, LateProvisional, LateAnswer, LateReject, Unmatched
  <2>2. active' = "dial" => active = "dial"
    BY <1>11 DEF ReAck, ReadForgotten, LateProvisional, LateAnswer, LateReject
  <2>3. (completed' => completed) \/ pc = "err"
    BY <1>11, PairForm DEF ReAck, ReadForgotten, LateProvisional, LateAnswer, LateReject,
                           Entombed, TombInv, TypeOK, CSeqs
  <2>4. pc \in Unacked => sent' = sent
    BY <1>11, PairForm DEF ReAck, ReadForgotten, LateProvisional, LateAnswer, LateReject,
                           Entombed, TombInv, TypeOK, CSeqs, Unacked, DialInv
  <2>5. QED
    BY <1>0, <2>1, <2>2, <2>3, <2>4 DEF DialInv, Unacked
<1>12. ASSUME SendBye \/ LateBye PROVE DialInv'
  <2>1. sent' \subseteq sent \cup {Bye} /\ UNCHANGED <<pc, cseq, waiting, chan, active, completed>>
    BY <1>12 DEF SendBye, LateBye, Written, WriteFails
  <2>2. <<"ACK", cseq>> \in sent' => <<"ACK", cseq>> \in sent
    BY <1>0, <2>1, Pairs
  <2>3. QED
    BY <1>0, <2>1, <2>2, DialQuiet
<1>13. ASSUME LateFinish \/ ReadBye \/ Close \/ ExpireTomb \/ ExpireCompleted \/ CancelDial
       PROVE  DialInv'
  <2>1. UNCHANGED <<pc, cseq, waiting, chan, sent>>
    BY <1>13 DEF LateFinish, ReadBye, Close, ExpireTomb, ExpireCompleted, CancelDial
  <2>2. /\ active' = "dial" => active = "dial"
        /\ completed' => completed \/ active # "none"
    BY <1>13 DEF LateFinish, ReadBye, Close, ExpireTomb, ExpireCompleted, CancelDial, Finish
  <2>3. QED
    BY <1>0, <2>1, <2>2, DialQuiet
<1>14. ASSUME NEW n \in CSeqs, PeerRings(n) \/ \E code \in Codes : PeerFinal(n, code)
       PROVE  DialInv'
  BY <1>0, <1>14, DialQuiet DEF PeerRings, PeerFinal
<1>15. ASSUME UNCHANGED vars PROVE DialInv'
  BY <1>0, <1>15, DialQuiet DEF vars
<1>16. ASSUME DialStart PROVE DialInv'
  BY <1>1, <1>16 DEF DialStart, WorldInv, CSeqs
<1>17. QED
  BY <1>2, <1>3, <1>4, <1>5, <1>6, <1>7, <1>8, <1>9, <1>10, <1>11, <1>12, <1>13,
     <1>14, <1>15, <1>16 DEF Next, Dial, Reader

-----------------------------------------------------------------------------
\* Every step preserves TombInv: an entry in canceledInvites belongs to a
\* dial that was given up.
LEMMA TombStep == DialogInv /\ [Next]_vars => TombInv'
<1> SUFFICES ASSUME DialogInv, [Next]_vars PROVE TombInv'
  OBVIOUS
<1> USE DEF DialogInv, local, table, world
<1>1. ASSUME CancelDeadline PROVE TombInv'
  <2>1. /\ active = "none" /\ ~completed /\ late = "none" /\ tomb.cseq = 0
        /\ UNCHANGED <<active, completed, late, cseq>>
    BY <1>1 DEF CancelDeadline, DialInv, TombInv, TypeOK
  <2>2. CASE tomb' = tomb
    BY <2>1, <2>2 DEF TombInv
  <2>3. CASE tomb'.cseq = cseq /\ pc' = "err"
    BY <2>1, <2>3 DEF TombInv, TypeOK, CSeqs
  <2>4. QED
    BY <1>1, <2>2, <2>3 DEF CancelDeadline, TransitionCanceledInvite
<1>2. ASSUME ReceiveProvisional \/ ReceiveFinal \/ CtxDone \/ ClosedWhileDialing
             \/ Deadline \/ ResendFails
      PROVE  TombInv'
  <2>1. pc = "transact" /\ UNCHANGED <<active, completed, late, tomb>>
    BY <1>2 DEF ReceiveProvisional, ReceiveFinal, CtxDone, ClosedWhileDialing, Deadline,
                ResendFails
  <2>2. QED
    BY <2>1 DEF TombInv
<1>3. ASSUME DialStart \/ Authenticate \/ FinalAck \/ CheckAnswer \/ UserHangup \/ SendBye
      PROVE  TombInv'
  <2>1. pc # "err" /\ UNCHANGED <<active, completed, late, tomb>>
    BY <1>3 DEF DialStart, Transact, Authenticate, FinalAck, CheckAnswer, UserHangup, SendBye
  <2>2. QED
    BY <2>1 DEF TombInv
<1>4. ASSUME Establish \/ SendACK \/ HangupEnds PROVE TombInv'
  <2>1. pc # "err" /\ UNCHANGED <<late, tomb>> /\ active' \in {active, "none", "dial"}
    BY <1>4 DEF Establish, SendACK, HangupEnds, Finish
  <2>2. QED
    BY <2>1 DEF TombInv
<1>5. ASSUME NEW r \in resp, ReadMatched(r) \/ ReAck(r) \/ ReadForgotten(r) PROVE TombInv'
  <2>1. UNCHANGED <<pc, cseq, active, completed, late, tomb>>
    BY <1>5 DEF ReadMatched, ReAck, ReadForgotten, Unmatched
  <2>2. QED
    BY <2>1 DEF TombInv
<1>6. ASSUME NEW r \in resp, LateProvisional(r) PROVE TombInv'
  <2>1. UNCHANGED <<pc, cseq, active, completed, late>> /\ tomb'.cseq = tomb.cseq
    BY <1>6 DEF LateProvisional, Unmatched, TypeOK
  <2>2. tomb.cseq # 0
    BY <1>6, PairForm DEF LateProvisional, Entombed, TypeOK, CSeqs
  <2>3. QED
    BY <2>1, <2>2 DEF TombInv
<1>7. ASSUME NEW r \in resp, LateAnswer(r) \/ LateReject(r) PROVE TombInv'
  <2>1. /\ UNCHANGED <<pc, cseq>> /\ tomb'.cseq = 0 /\ tomb'.cancelSent = FALSE
        /\ active' = "late" => late' = "bye" \/ active = "late"
    BY <1>7 DEF LateAnswer, LateReject, Unmatched, NoTomb
  <2>2. pc = "err" /\ active = "none"
    BY <1>7, PairForm DEF LateAnswer, LateReject, Entombed, TombInv, TypeOK, CSeqs
  <2>3. QED
    BY <2>1, <2>2 DEF TombInv
<1>8. ASSUME LateBye \/ LateFinish \/ ReadBye \/ Close PROVE TombInv'
  <2>1. /\ UNCHANGED <<pc, cseq, tomb>>
        /\ active' \in {active, "none"}
        /\ late' = late \/ late # "none"
        /\ active' = "late" => late' \in {late, "byed"}
        /\ active # "none" \/ late # "none"
           \/ UNCHANGED <<active, completed, late>>
    BY <1>8 DEF LateBye, LateFinish, ReadBye, Close, Finish, TombInv
  <2>2. QED
    BY <2>1 DEF TombInv
<1>9. ASSUME ExpireTomb \/ ExpireCompleted \/ CancelDial PROVE TombInv'
  BY <1>9 DEF ExpireTomb, ExpireCompleted, CancelDial, NoTomb, TombInv
<1>10. ASSUME NEW n \in CSeqs, PeerRings(n) \/ \E code \in Codes : PeerFinal(n, code)
       PROVE  TombInv'
  BY <1>10 DEF PeerRings, PeerFinal, TombInv
<1>11. ASSUME UNCHANGED vars PROVE TombInv'
  BY <1>11 DEF vars, TombInv
<1>12. QED
  BY <1>1, <1>2, <1>3, <1>4, <1>5, <1>6, <1>7, <1>8, <1>9, <1>10, <1>11
     DEF Next, Dial, Reader

-----------------------------------------------------------------------------

\* Every step preserves TransactInv, the facts about the entry in
\* transactions and its channel.
LEMMA TransactStep == DialogInv /\ [Next]_vars => TransactInv'
<1> SUFFICES ASSUME DialogInv, [Next]_vars PROVE TransactInv'
  OBVIOUS
<1> USE DEF DialogInv, local, table, world
<1>0. /\ cseq \in CSeqs /\ sent \subseteq sent' /\ read \subseteq read'
      /\ chan \in Seq(Resps) /\ TransactInv
  BY Monotone DEF TypeOK, CancelInv, TransactInv
<1>1. ASSUME DialStart \/ Authenticate PROVE TransactInv'
  <2>1. CASE Transact(1) /\ pc = "idle"
    <3>1. read = {}
      BY <2>1 DEF WorldInv
    <3>2. QED
      BY <2>1, <3>1 DEF Transact, TransactInv
  <2>2. CASE Transact(2) /\ pc = "reinvite"
    <3>1. cseq = 1 /\ <<"1xx", 2>> \notin read
      BY <2>2 DEF DialInv, WorldInv
    <3>2. QED
      BY <2>2, <3>1 DEF Transact, TransactInv
  <2>3. CASE pc' = "err" /\ UNCHANGED <<cseq, local, world>>
    BY <1>0, <2>3 DEF TransactInv
  <2>4. QED
    BY <1>1, <2>1, <2>2, <2>3 DEF DialStart, Authenticate
<1>2. ASSUME ReceiveProvisional PROVE TransactInv'
  <2>1. /\ pc = "transact" /\ UNCHANGED <<cseq, read, cancelRequested>>
        /\ chan # <<>> /\ receivedResponse' = TRUE
    BY <1>2 DEF ReceiveProvisional
  <2>2. chan[1] \in read /\ chan[1][2] = cseq
    BY <1>0, <2>1 DEF DialInv
  <2>3. pc' = "transact" => /\ cancelSent' => cancelSent \/ <<"CANCEL", cseq>> \in sent'
                            /\ cancelRequested => cancelSent'
    BY <1>2 DEF ReceiveProvisional, Written
  <2>4. QED
    BY <1>0, <2>1, <2>2, <2>3 DEF TransactInv
<1>3. ASSUME CtxDone PROVE TransactInv'
  <2>1. pc = "transact" /\ UNCHANGED <<cseq, read, receivedResponse, chan>>
    BY <1>3 DEF CtxDone
  <2>2. pc' = "transact" => /\ cancelSent' => cancelSent \/ <<"CANCEL", cseq>> \in sent'
                            /\ receivedResponse => cancelSent'
    BY <1>3 DEF CtxDone, Written
  <2>3. QED
    BY <1>0, <2>1, <2>2 DEF TransactInv
<1>4. ASSUME ReceiveFinal PROVE TransactInv'
  <2>1. chan[1] \in read /\ chan[1][2] = cseq
    BY <1>0, <1>4 DEF DialInv, ReceiveFinal
  <2>2. pc' # "transact" /\ UNCHANGED <<cseq, read>>
    BY <1>4 DEF ReceiveFinal, AfterFinal
  <2>3. QED
    BY <2>1, <2>2 DEF TransactInv
<1>5. ASSUME CancelDeadline \/ Deadline \/ ResendFails \/ ClosedWhileDialing
      PROVE  TransactInv'
  <2>1. pc' # "transact" /\ UNCHANGED <<cseq, read, receivedResponse>>
    BY <1>5 DEF CancelDeadline, TransitionCanceledInvite, AfterFinal, Deadline, ResendFails,
                ClosedWhileDialing
  <2>2. QED
    BY <1>0, <2>1 DEF TransactInv
<1>6. ASSUME FinalAck \/ Establish \/ SendACK \/ CheckAnswer \/ UserHangup \/ SendBye
             \/ HangupEnds
      PROVE  TransactInv'
  <2>1. pc' # "transact" /\ UNCHANGED <<cseq, read, receivedResponse>>
    BY <1>6 DEF FinalAck, Establish, SendACK, CheckAnswer, UserHangup, SendBye, HangupEnds
  <2>2. QED
    BY <1>0, <2>1 DEF TransactInv
<1>7. ASSUME NEW r \in resp, ReadMatched(r) PROVE TransactInv'
  <2>1. r \in Resps
    BY DEF TypeOK
  <2>2. chan' # <<>> /\ UNCHANGED <<pc, cseq, receivedResponse, cancelSent, cancelRequested>>
    BY <1>0, <1>7, <2>1 DEF ReadMatched
  <2>3. QED
    BY <1>0, <2>2 DEF TransactInv
<1>8. ASSUME NEW r \in resp,
             ReAck(r) \/ ReadForgotten(r) \/ LateProvisional(r) \/ LateAnswer(r)
             \/ LateReject(r)
      PROVE  TransactInv'
  <2>1. /\ UNCHANGED <<pc, cseq, local>> /\ read' = read \cup {r}
        /\ ~(waiting /\ r[2] = cseq)
    BY <1>8 DEF ReAck, ReadForgotten, LateProvisional, LateAnswer, LateReject, Unmatched
  <2>2. pc = "transact" => (<<"1xx", cseq>> \in read' => <<"1xx", cseq>> \in read)
    BY <2>1 DEF DialInv
  <2>3. QED
    BY <1>0, <2>1, <2>2 DEF TransactInv
<1>9. ASSUME \/ LateBye \/ LateFinish \/ ReadBye \/ Close \/ ExpireTomb \/ ExpireCompleted
             \/ CancelDial \/ UNCHANGED vars
             \/ \E n \in CSeqs : PeerRings(n) \/ \E code \in Codes : PeerFinal(n, code)
      PROVE  TransactInv'
  <2>1. UNCHANGED <<pc, cseq, local, read>>
    BY <1>9 DEF LateBye, LateFinish, ReadBye, Close, ExpireTomb, ExpireCompleted,
                CancelDial, PeerRings, PeerFinal, vars
  <2>2. QED
    BY <1>0, <2>1 DEF TransactInv
<1>10. QED
  BY <1>1, <1>2, <1>3, <1>4, <1>5, <1>6, <1>7, <1>8, <1>9 DEF Next, Dial, Reader

\* Every step preserves CancelInv: CANCEL was sent only after a response, and
\* the ringing INVITE that was given up was canceled.
LEMMA CancelStep == DialogInv /\ [Next]_vars => CancelInv'
<1> SUFFICES ASSUME DialogInv, [Next]_vars PROVE CancelInv'
  OBVIOUS
<1> USE DEF DialogInv, local, table, world
<1>0. /\ cseq \in CSeqs /\ sent \subseteq sent' /\ read \subseteq read'
      /\ (failed => failed') /\ chan \in Seq(Resps) /\ TransactInv
  BY Monotone DEF TypeOK, CancelInv
<1>1. TransactInv'
  BY TransactStep
<1>2. ASSUME \A n \in CSeqs : <<"CANCEL", n>> \in sent' => <<"CANCEL", n>> \in sent
      PROVE  CancelFollowsResponse'
  BY <1>0, <1>2 DEF CancelInv, CancelFollowsResponse
<1>3. ASSUME NEW k \in CSeqs, sent' \subseteq sent \cup {<<"CANCEL", k>>},
             \E r \in read' : r[2] = k
      PROVE  CancelFollowsResponse'
  <2>1. \A n \in CSeqs : <<"CANCEL", n>> \in sent' => <<"CANCEL", n>> \in sent \/ n = k
    BY <1>3, Pairs
  <2>2. QED
    BY <1>0, <1>3, <2>1 DEF CancelInv, CancelFollowsResponse
<1>5. ASSUME ReceiveProvisional \/ CtxDone PROVE CancelInv'
  <2>1. /\ sent' \subseteq sent \cup {<<"CANCEL", cseq>>} /\ tomb' = tomb /\ read' = read
        /\ sent' = sent \/ receivedResponse \/ chan # <<>>
    BY <1>5 DEF ReceiveProvisional, CtxDone, Written, WriteFails
  <2>2. chan # <<>> => chan[1] \in read /\ chan[1][2] = cseq
    BY <1>0 DEF DialInv
  <2>3. CancelFollowsResponse'
    BY <1>0, <1>2, <1>3, <2>1, <2>2 DEF TransactInv
  <2>4. QED
    BY <1>0, <1>1, <2>1, <2>3 DEF CancelInv
<1>6. ASSUME CancelDeadline PROVE CancelInv'
  <2>1. /\ pc = "transact" /\ read' = read
        /\ sent' = sent \/ (sent' \subseteq sent \cup {<<"CANCEL", cseq>>} /\ chan # <<>>)
    BY <1>6 DEF CancelDeadline, TransitionCanceledInvite, Written, WriteFails
  <2>2. chan # <<>> => chan[1] \in read /\ chan[1][2] = cseq
    BY <1>0 DEF DialInv
  <2>3. CancelFollowsResponse'
    BY <1>0, <1>2, <1>3, <2>1, <2>2
  <2>4. ~failed' /\ tomb'.cancelSent => <<"CANCEL", tomb'.cseq>> \in sent'
    <3>1. CASE tomb' = tomb
      BY <1>0, <3>1 DEF CancelInv
    <3>2. CASE /\ tomb' = [cseq |-> cseq, cancelSent |-> cancelSent \/ (chan # <<>> /\ ~cancelSent)]
               /\ IF chan # <<>> /\ ~cancelSent
                    THEN Written(<<"CANCEL", cseq>>) \/ WriteFails
                    ELSE UNCHANGED <<sent, failed>>
      BY <1>0, <2>1, <3>2 DEF TransactInv, Written, WriteFails
    <3>3. QED
      BY <1>6, <3>1, <3>2 DEF CancelDeadline, TransitionCanceledInvite
  <2>5. QED
    BY <1>1, <2>3, <2>4 DEF CancelInv
<1>7. ASSUME NEW r \in resp, LateProvisional(r) PROVE CancelInv'
  <2>1. /\ r[2] \in CSeqs /\ r \in read' /\ tomb.cseq = r[2] /\ tomb'.cseq = r[2]
        /\ sent' \subseteq sent \cup {<<"CANCEL", r[2]>>}
    BY <1>7, PairForm DEF LateProvisional, Unmatched, Entombed, Written, WriteFails, TypeOK
  <2>2. CancelFollowsResponse'
    BY <1>3, <2>1
  <2>3. ~failed' => <<"CANCEL", r[2]>> \in sent'
    BY <1>0, <1>7, <2>1 DEF LateProvisional, Written, WriteFails, CancelInv
  <2>4. QED
    BY <1>1, <2>1, <2>2, <2>3 DEF CancelInv
<1>8. ASSUME NEW r \in resp, LateAnswer(r) \/ LateReject(r) PROVE CancelInv'
  <2>1. /\ r[2] \in CSeqs /\ tomb' = NoTomb
        /\ sent' \subseteq sent \cup {<<"ACK", r[2]>>}
    BY <1>8, PairForm DEF LateAnswer, LateReject, Unmatched, Written, WriteFails, TypeOK
  <2>2. CancelFollowsResponse'
    BY <1>2, <2>1, Pairs
  <2>3. QED
    BY <1>1, <2>1, <2>2 DEF CancelInv, NoTomb
<1>9. ASSUME NEW r \in resp, ReadMatched(r) \/ ReAck(r) \/ ReadForgotten(r) PROVE CancelInv'
  <2>1. tomb' = tomb /\ sent' \subseteq sent \cup {<<"ACK", cseq>>}
    BY <1>9 DEF ReadMatched, ReAck, ReadForgotten, Written, WriteFails
  <2>2. CancelFollowsResponse'
    BY <1>0, <1>2, <2>1, Pairs
  <2>3. QED
    BY <1>0, <1>1, <2>1, <2>2 DEF CancelInv
<1>10. ASSUME FinalAck \/ SendACK PROVE CancelInv'
  <2>1. tomb' = tomb /\ sent' \subseteq sent \cup {<<"ACK", cseq>>}
    BY <1>10 DEF FinalAck, SendACK, Written, WriteFails
  <2>2. CancelFollowsResponse'
    BY <1>0, <1>2, <2>1, Pairs
  <2>3. QED
    BY <1>0, <1>1, <2>1, <2>2 DEF CancelInv
<1>11. ASSUME SendBye \/ HangupEnds \/ LateBye PROVE CancelInv'
  <2>1. tomb' = tomb /\ sent' \subseteq sent \cup {Bye}
    BY <1>11 DEF SendBye, HangupEnds, LateBye, Written, WriteFails
  <2>2. CancelFollowsResponse'
    BY <1>2, <2>1, Pairs
  <2>3. QED
    BY <1>0, <1>1, <2>1, <2>2 DEF CancelInv
<1>12. ASSUME DialStart \/ Authenticate PROVE CancelInv'
  <2>1. tomb' = tomb /\ sent' \subseteq sent \cup {<<"INVITE", 1>>, <<"INVITE", 2>>}
    BY <1>12 DEF DialStart, Authenticate, Transact, Written, WriteFails
  <2>2. CancelFollowsResponse'
    BY <1>2, <2>1, Pairs DEF CSeqs
  <2>3. QED
    BY <1>0, <1>1, <2>1, <2>2 DEF CancelInv
<1>13. ASSUME \/ ReceiveFinal \/ ClosedWhileDialing \/ Deadline \/ ResendFails \/ Establish
              \/ CheckAnswer \/ UserHangup \/ LateFinish \/ ReadBye \/ ExpireTomb
              \/ ExpireCompleted \/ CancelDial \/ Close \/ UNCHANGED vars
              \/ \E n \in CSeqs : PeerRings(n) \/ \E code \in Codes : PeerFinal(n, code)
       PROVE  CancelInv'
  <2>1. sent' = sent /\ tomb' \in {tomb, NoTomb}
    BY <1>13 DEF ReceiveFinal, ClosedWhileDialing, Deadline, ResendFails, WriteFails,
                 Establish, CheckAnswer, UserHangup, LateFinish, ReadBye, ExpireTomb,
                 ExpireCompleted, CancelDial, Close, PeerRings, PeerFinal, vars
  <2>2. CancelFollowsResponse'
    BY <1>2, <2>1
  <2>3. QED
    BY <1>0, <1>1, <2>1, <2>2 DEF CancelInv, NoTomb
<1>14. QED
  BY <1>5, <1>6, <1>7, <1>8, <1>9, <1>10, <1>11, <1>12, <1>13 DEF Next, Dial, Reader

-----------------------------------------------------------------------------
\* Only the current INVITE can have been answered: the first one, if there is a
\* second, was challenged.
LEMMA OneAnswer ==
  TypeOK /\ WorldInv => \A n \in CSeqs : <<"2xx", n>> \in resp => n = cseq
<1> SUFFICES ASSUME TypeOK, WorldInv, NEW n \in CSeqs, <<"2xx", n>> \in resp
             PROVE  n = cseq
  OBVIOUS
<1>1. CASE n = 2
  BY <1>1 DEF WorldInv
<1>2. CASE n = 1 /\ cseq = 2
  <2>1. <<"401", 1>> \in resp /\ <<"2xx", 1>> \in resp
    BY <1>2 DEF WorldInv
  <2>2. <<"401", 1>> = <<"2xx", 1>>
    BY <2>1 DEF WorldInv, Provisional
  <2>3. QED
    BY <2>2
<1>3. QED
  BY <1>1, <1>2 DEF TypeOK, CSeqs

\* A final response other than 2xx rules out an answer to the same INVITE.
LEMMA RejectedIsNotAnswered ==
  ASSUME WorldInv, NEW n \in CSeqs, NEW r \in resp, ~Provisional(r), r[1] # "2xx", r[2] = n
  PROVE  <<"2xx", n>> \notin resp
<1>1. ~Provisional(<<"2xx", n>>) /\ <<"2xx", n>>[2] = n /\ <<"2xx", n>>[1] = "2xx"
  BY DEF Provisional
<1>2. QED
  BY <1>1 DEF WorldInv

\* Every step preserves OwedInv: an ACK or BYE that is due has someone left
\* to send it.
LEMMA OwedStep == DialogInv /\ [Next]_vars => OwedInv'
<1> SUFFICES ASSUME DialogInv, [Next]_vars PROVE OwedInv'
  OBVIOUS
<1> USE DEF DialogInv, local, table, world
<1>0. /\ cseq \in CSeqs /\ sent \subseteq sent' /\ read \subseteq read'
      /\ (failed => failed') /\ (closed => closed') /\ OwedInv
      /\ ringTimeout' = ringTimeout /\ ringTimeout \in Nat
  BY Monotone, RingTimeoutsAssumption DEF TypeOK, ErrInv, OwedInv
<1>1. ASSUME DialStart \/ Authenticate PROVE OwedInv'
  <2>1. /\ UNCHANGED <<active, completed, late>> /\ active # "dial" /\ ~completed
        /\ late = "none" /\ active # "late"
    BY <1>1 DEF DialStart, Authenticate, Transact, DialInv, TombInv
  <2>2. ~failed' /\ pc' = "err" => pc = "reinvite" /\ UNCHANGED <<cseq, sent, failed>>
    BY <1>1 DEF DialStart, Authenticate, Transact, Written, WriteFails
  <2>3. QED
    BY <2>1, <2>2 DEF OwedInv, Sound, DialInv, TypeOK
<1>2. ASSUME ReceiveProvisional \/ CtxDone \/ ReceiveFinal \/ ClosedWhileDialing \/ Deadline
             \/ ResendFails
      PROVE  OwedInv'
  <2>1. /\ UNCHANGED <<active, completed, late>> /\ active = "none" /\ ~completed
        /\ late = "none"
    BY <1>2 DEF ReceiveProvisional, CtxDone, ReceiveFinal, ClosedWhileDialing, Deadline,
                ResendFails, DialInv, TombInv, TypeOK
  <2>2. pc' # "err" \/ failed' \/ closed' \/ ~(ringTimeout < TransactionDeadline)
    BY <1>0, <1>2 DEF ReceiveProvisional, CtxDone, ReceiveFinal, ClosedWhileDialing, Deadline,
                ResendFails, AfterFinal, WriteFails, TransactionDeadline
  <2>3. QED
    BY <1>0, <2>1, <2>2 DEF OwedInv, Sound
<1>3. ASSUME CancelDeadline PROVE OwedInv'
  <2>1. /\ UNCHANGED <<active, completed, late, cseq>> /\ active = "none" /\ ~completed
        /\ late = "none"
    BY <1>3 DEF CancelDeadline, DialInv, TombInv, TypeOK
  <2>2. pc' # "err" \/ tomb'.cseq = cseq
    BY <1>3 DEF CancelDeadline, TransitionCanceledInvite, AfterFinal
  <2>3. QED
    BY <2>1, <2>2 DEF OwedInv
<1>4. ASSUME FinalAck PROVE OwedInv'
  <2>1. /\ UNCHANGED <<active, completed, late, cseq>> /\ active = "none" /\ ~completed
        /\ late = "none"
    BY <1>4 DEF FinalAck, DialInv, TombInv, TypeOK
  <2>2. ~failed' => <<"ACK", cseq>> \in sent'
    BY <1>4 DEF FinalAck, Written, WriteFails
  <2>3. QED
    BY <2>1, <2>2 DEF OwedInv, Sound
<1>5. ASSUME Establish \/ SendACK \/ CheckAnswer \/ UserHangup \/ SendBye PROVE OwedInv'
  <2>1. UNCHANGED <<late, cseq>> /\ late = "none" /\ (pc' # "err" \/ failed')
    BY <1>5 DEF Establish, SendACK, CheckAnswer, UserHangup, SendBye, WriteFails, TombInv
  <2>2. QED
    BY <2>1 DEF OwedInv, Sound
<1>6. ASSUME HangupEnds PROVE OwedInv'
  <2>1. UNCHANGED <<late, cseq>> /\ <<"ACK", cseq>> \in sent'
    BY <1>0, <1>6 DEF HangupEnds, DialInv
  <2>2. failed' \/ Bye \in sent'
    BY <1>6 DEF HangupEnds, WriteFails
  <2>3. QED
    BY <2>1, <2>2 DEF OwedInv, Sound
<1>7. ASSUME NEW r \in resp,
             ReadMatched(r) \/ ReAck(r) \/ ReadForgotten(r) \/ LateProvisional(r)
      PROVE  OwedInv'
  <2>1. UNCHANGED <<pc, cseq, active, completed, late, closed>> /\ tomb'.cseq = tomb.cseq
    BY <1>7 DEF ReadMatched, ReAck, ReadForgotten, LateProvisional, Unmatched, TypeOK
  <2>2. QED
    BY <1>0, <2>1 DEF OwedInv, Sound
<1>8. ASSUME NEW r \in resp, LateAnswer(r) \/ LateReject(r) PROVE OwedInv'
  <2>1. /\ tomb.cseq = cseq /\ r[2] = cseq /\ active = "none" /\ ~completed /\ late = "none"
    BY <1>8, PairForm DEF LateAnswer, LateReject, Entombed, TombInv, TypeOK, CSeqs
  <2>2. /\ UNCHANGED <<pc, cseq, closed>>
        /\ ~failed' => <<"ACK", cseq>> \in sent'
    BY <1>8, <2>1 DEF LateAnswer, LateReject, Unmatched, Written, WriteFails
  <2>3. failed' \/ late' = "bye" \/ UNCHANGED <<active, completed, late>>
    BY <1>8 DEF LateAnswer, LateReject, WriteFails
  <2>4. QED
    BY <1>0, <2>1, <2>2, <2>3 DEF OwedInv, Sound
<1>9. ASSUME LateBye PROVE OwedInv'
  <2>1. /\ UNCHANGED <<pc, cseq, closed, tomb, active, completed>> /\ late' = "byed"
        /\ failed' \/ Bye \in sent'
    BY <1>9 DEF LateBye, Written, WriteFails
  <2>2. QED
    BY <1>0, <2>1 DEF OwedInv, Sound
<1>10. ASSUME LateFinish PROVE OwedInv'
  <2>1. /\ UNCHANGED <<pc, cseq, closed, tomb, sent, failed>> /\ late = "byed"
    BY <1>10 DEF LateFinish
  <2>2. QED
    BY <1>0, <2>1 DEF OwedInv, Sound
<1>11. ASSUME ReadBye \/ Close PROVE OwedInv'
  <2>1. /\ UNCHANGED <<pc, cseq, tomb, sent, failed, late>>
        /\ active' # "none" \/ completed' => active # "none" \/ completed
    BY <1>11 DEF ReadBye, Close, Finish
  <2>2. QED
    BY <1>0, <2>1 DEF OwedInv, Sound
<1>12. ASSUME ExpireTomb \/ ExpireCompleted \/ CancelDial PROVE OwedInv'
  BY <1>0, <1>12 DEF ExpireTomb, ExpireCompleted, CancelDial, OwedInv, Sound
<1>13. ASSUME NEW n \in CSeqs, PeerRings(n) \/ \E code \in Codes : PeerFinal(n, code)
       PROVE  OwedInv'
  BY <1>0, <1>13 DEF PeerRings, PeerFinal, OwedInv, Sound
<1>14. ASSUME UNCHANGED vars PROVE OwedInv'
  BY <1>0, <1>14 DEF vars, OwedInv, Sound
<1>15. QED
  BY <1>1, <1>2, <1>3, <1>4, <1>5, <1>6, <1>7, <1>8, <1>9, <1>10, <1>11, <1>12,
     <1>13, <1>14 DEF Next, Dial, Reader

-----------------------------------------------------------------------------
\* An answer that is acknowledged or in hand stays so, and one that is read now
\* becomes so.
LEMMA AckedStep == DialogInv /\ [Next]_vars => AnswerIsAcked'
<1> SUFFICES ASSUME DialogInv, [Next]_vars, Sound', ringTimeout' < TransactionDeadline,
                    NEW n \in CSeqs, <<"2xx", n>> \in read', <<"ACK", n>> \notin sent'
             PROVE  InHand(<<"2xx", n>>)'
  BY DEF AnswerIsAcked
<1> DEFINE a == <<"2xx", n>>
<1> USE DEF DialogInv, local, table, world
<1>0. /\ cseq \in CSeqs /\ sent \subseteq sent' /\ ~failed /\ ~failed' /\ ~closed'
      /\ ringTimeout < TransactionDeadline /\ Sound /\ ringTimeout \in Nat
      /\ chan \in Seq(Resps) /\ <<"ACK", n>> \notin sent
  BY Monotone, RingTimeoutsAssumption DEF TypeOK, Sound
<1>1. a[1] = "2xx" /\ a[2] = n /\ ~Provisional(a)
  BY DEF Provisional
<1>2. a \in read => InHand(a) /\ n = cseq /\ a \in resp
  BY <1>0, OneAnswer DEF ErrInv, AnswerIsAcked, WorldInv
<1>3. InHand(a) /\ pc \notin {"answered", "ack"} =>
         pc = "transact" /\ \E i \in 1..Len(chan) : chan[i] = a
  <2> SUFFICES ASSUME InHand(a), pc \notin {"answered", "ack"}
               PROVE  pc = "transact" /\ \E i \in 1..Len(chan) : chan[i] = a
    OBVIOUS
  <2>1. PICK i \in DOMAIN chan : chan[i] = a
    BY DEF InHand, Elements
  <2>2. i \in 1..Len(chan) /\ chan # <<>>
    BY <1>0
  <2>3. QED
    BY <1>0, <2>1, <2>2 DEF DialInv
<1>4. \A i \in 1..Len(chan) : chan[i] \in read /\ chan[i] \in resp /\ chan[i][2] = cseq
  BY DEF DialInv, WorldInv
<1>5. ASSUME NEW i \in 1..Len(chan), ~Provisional(chan[i]), AfterFinal(chan[i]),
             cseq' = cseq, a \in read
      PROVE  InHand(a)'
  <2>1. chan[i] = a
    BY <1>1, <1>2, <1>4, <1>5 DEF WorldInv
  <2>2. pc' = "answered"
    BY <1>1, <1>5, <2>1 DEF AfterFinal
  <2>3. QED
    BY <1>1, <1>2, <1>5, <2>2 DEF InHand
<1>6. ASSUME DialStart \/ Authenticate \/ FinalAck PROVE InHand(a)'
  <2>1. pc \notin {"answered", "ack", "transact"} /\ read' = read
    BY <1>6 DEF DialStart, Authenticate, Transact, FinalAck
  <2>2. QED
    BY <1>2, <1>3, <2>1
<1>7. ASSUME ReceiveProvisional PROVE InHand(a)'
  <2>1. /\ chan # <<>> /\ chan' = Tail(chan) /\ Provisional(Head(chan)) /\ read' = read
        /\ pc = "transact"
    BY <1>7 DEF ReceiveProvisional
  <2>2. PICK i \in 1..Len(chan) : chan[i] = a
    BY <1>2, <1>3, <2>1
  <2>3. Head(chan) = chan[1]
    BY <1>0, <2>1
  <2>4. i # 1
    BY <1>1, <2>1, <2>2, <2>3
  <2>5. i - 1 \in DOMAIN chan' /\ chan'[i - 1] = a
    BY <1>0, <2>1, <2>2, <2>4
  <2>6. QED
    BY <2>5 DEF InHand, Elements
<1>8. ASSUME CtxDone PROVE InHand(a)'
  <2>1. UNCHANGED <<chan, read>> /\ pc = "transact"
    BY <1>8 DEF CtxDone
  <2>2. QED
    BY <1>2, <2>1 DEF InHand, Elements
<1>9. ASSUME ReceiveFinal PROVE InHand(a)'
  <2>1. 1 \in 1..Len(chan) /\ Head(chan) = chan[1]
    BY <1>0, <1>9 DEF ReceiveFinal
  <2>2. QED
    BY <1>5, <1>9, <2>1 DEF ReceiveFinal
<1>10. ASSUME CancelDeadline PROVE InHand(a)'
  <2>1. /\ DOMAIN chan = 1..Len(chan) /\ pc = "transact" /\ cseq' = cseq /\ read' = read
    BY <1>0, <1>10 DEF CancelDeadline
  <2>2. PICK i \in 1..Len(chan) : chan[i] = a
    BY <1>2, <1>3, <2>1
  <2>3. QED
    BY <1>1, <1>5, <1>10, <2>1, <2>2 DEF CancelDeadline, TransitionCanceledInvite, FirstFinal
<1>11. ASSUME Deadline \/ ResendFails \/ ClosedWhileDialing PROVE FALSE
  BY <1>0, <1>11 DEF Deadline, ResendFails, ClosedWhileDialing, WriteFails, TransactionDeadline
<1>12. ASSUME Establish PROVE InHand(a)'
  BY <1>1, <1>2, <1>12 DEF Establish, InHand
<1>13. ASSUME SendACK PROVE FALSE
  <2>1. <<"ACK", cseq>> \in sent' /\ read' = read
    BY <1>0, <1>13 DEF SendACK, Written, WriteFails
  <2>2. QED
    BY <1>2, <2>1
<1>14. ASSUME CheckAnswer \/ UserHangup \/ SendBye \/ HangupEnds PROVE FALSE
  <2>1. pc \in {"check", "ok", "hangup", "userbye"} /\ read' = read
    BY <1>14 DEF CheckAnswer, UserHangup, SendBye, HangupEnds
  <2>2. QED
    BY <1>0, <1>2, <2>1 DEF DialInv
<1>15. ASSUME NEW r \in resp, ReadMatched(r) PROVE InHand(a)'
  <2>1. r \in Resps /\ chan' = Append(chan, r) /\ read' = read \cup {r} /\ pc = "transact"
    BY <1>15 DEF ReadMatched, TypeOK, DialInv
  <2>2. /\ Len(chan) + 1 \in DOMAIN chan' /\ chan'[Len(chan) + 1] = r
        /\ \A i \in 1..Len(chan) : i \in DOMAIN chan' /\ chan'[i] = chan[i]
    BY <1>0, <2>1
  <2>3. CASE a = r
    BY <2>2, <2>3 DEF InHand, Elements
  <2>4. CASE a \in read
    <3>1. PICK i \in 1..Len(chan) : chan[i] = a
      BY <1>2, <1>3, <2>1, <2>4
    <3>2. QED
      BY <2>2, <3>1 DEF InHand, Elements
  <2>5. QED
    BY <2>1, <2>3, <2>4
<1>16. ASSUME NEW r \in resp,
              ReAck(r) \/ ReadForgotten(r) \/ LateProvisional(r) \/ LateAnswer(r)
              \/ LateReject(r)
       PROVE  InHand(a)'
  <2>1. UNCHANGED <<pc, cseq, chan>> /\ read' = read \cup {r} /\ ~(waiting /\ r[2] = cseq)
    BY <1>16 DEF ReAck, ReadForgotten, LateProvisional, LateAnswer, LateReject, Unmatched
  <2>2. CASE a \in read
    BY <1>2, <2>1, <2>2 DEF InHand, Elements
  <2>3. CASE a = r
    <3>1. n = cseq /\ pc # "transact"
      BY <1>1, <2>1, <2>3, OneAnswer DEF DialInv
    <3>2. CASE ReAck(r) \/ LateAnswer(r)
      BY <1>0, <1>1, <2>3, <3>1, <3>2 DEF ReAck, LateAnswer, Written, WriteFails
    <3>3. CASE LateProvisional(r) \/ LateReject(r)
      BY <1>1, <2>3, <3>3 DEF LateProvisional, LateReject
    <3>4. CASE ReadForgotten(r)
      <4>1. tomb.cseq # cseq
        BY <1>1, <2>3, <3>1, <3>4 DEF ReadForgotten
      <4>2. pc # "err"
        BY <1>0, <3>1, <4>1 DEF ErrInv, OwedInv
      <4>3. pc \notin {"auth", "reinvite", "reject"}
        <5>1. ASSUME NEW t \in read, ~Provisional(t), t[1] # "2xx", t[2] = cseq
              PROVE  FALSE
          BY <1>0, <2>3, <3>1, <5>1, RejectedIsNotAnswered DEF WorldInv
        <5>2. QED
          BY <5>1 DEF DialInv, Provisional
      <4>4. pc # "idle"
        BY DEF WorldInv
      <4>5. pc \notin {"check", "hangup", "ok", "userbye", "over"}
        BY <1>0, <3>1 DEF DialInv
      <4>6. pc \in {"answered", "ack"}
        BY <3>1, <4>2, <4>3, <4>4, <4>5 DEF TypeOK
      <4>7. QED
        BY <1>1, <2>1, <3>1, <4>6 DEF InHand
    <3>5. QED
      BY <1>16, <3>2, <3>3, <3>4
  <2>4. QED
    BY <2>1, <2>2, <2>3
<1>17. ASSUME \/ LateBye \/ LateFinish \/ ReadBye \/ Close \/ ExpireTomb \/ ExpireCompleted
              \/ CancelDial \/ UNCHANGED vars
              \/ \E k \in CSeqs : PeerRings(k) \/ \E code \in Codes : PeerFinal(k, code)
       PROVE  InHand(a)'
  <2>1. UNCHANGED <<pc, cseq, chan, read>>
    BY <1>17 DEF LateBye, LateFinish, ReadBye, Close, ExpireTomb, ExpireCompleted,
                 CancelDial, PeerRings, PeerFinal, vars
  <2>2. QED
    BY <1>2, <2>1 DEF InHand, Elements
<1>18. QED
  BY <1>6, <1>7, <1>8, <1>9, <1>10, <1>11, <1>12, <1>13, <1>14, <1>15, <1>16, <1>17
     DEF Next, Dial, Reader

\* A failed Dial leaves no acknowledged call without its BYE.
LEMMA HungUpStep == DialogInv /\ [Next]_vars => UnwantedCallIsHungUp'
<1> SUFFICES ASSUME DialogInv, [Next]_vars, Sound', pc' = "err",
                    NEW n \in CSeqs, <<"2xx", n>> \in resp', <<"ACK", n>> \in sent'
             PROVE  Bye \in sent' \/ late' = "bye"
  BY DEF UnwantedCallIsHungUp
<1> DEFINE Goal == Bye \in sent' \/ late' = "bye"
<1> USE DEF DialogInv, local, table, world
<1>0. /\ cseq \in CSeqs /\ sent \subseteq sent' /\ ~failed /\ ~failed' /\ ~closed' /\ Sound
  BY Monotone DEF TypeOK, Sound
<1>1. <<"2xx", n>> \in resp => n = cseq
  BY OneAnswer
<1>2. pc = "err" /\ <<"2xx", n>> \in resp /\ <<"ACK", n>> \in sent =>
         Bye \in sent \/ late = "bye"
  BY <1>0 DEF ErrInv, UnwantedCallIsHungUp
<1>3. ASSUME DialStart \/ ReceiveProvisional \/ CtxDone \/ ReceiveFinal \/ ResendFails
             \/ ClosedWhileDialing \/ Establish \/ SendACK \/ CheckAnswer \/ UserHangup
             \/ SendBye
      PROVE  FALSE
  BY <1>0, <1>3 DEF DialStart, Transact, ReceiveProvisional, CtxDone, ReceiveFinal,
       ResendFails, ClosedWhileDialing, Establish, SendACK, CheckAnswer, UserHangup, SendBye,
       WriteFails, Written, AfterFinal
<1>4. ASSUME CancelDeadline \/ Deadline PROVE FALSE
  <2>1. /\ pc = "transact" /\ resp' = resp
        /\ sent' \subseteq sent \cup {<<"CANCEL", cseq>>}
    BY <1>4 DEF CancelDeadline, TransitionCanceledInvite, Deadline, Written, WriteFails
  <2>2. QED
    BY <1>0, <1>1, <2>1, Pairs DEF DialInv
<1>5. ASSUME FinalAck \/ Authenticate PROVE FALSE
  <2>1. pc \in {"auth", "reject", "reinvite"} /\ resp' = resp
    BY <1>5 DEF FinalAck, Authenticate, Transact
  <2>2. PICK t \in read : ~Provisional(t) /\ t[1] # "2xx" /\ t[2] = cseq
    BY <2>1 DEF DialInv, Provisional
  <2>3. QED
    BY <1>0, <1>1, <2>1, <2>2, RejectedIsNotAnswered DEF WorldInv
<1>6. ASSUME HangupEnds PROVE Goal
  BY <1>0, <1>6 DEF HangupEnds, WriteFails
<1>7. ASSUME NEW r \in resp, ReadMatched(r) PROVE FALSE
  BY <1>7 DEF ReadMatched, DialInv
<1>8. ASSUME NEW r \in resp, ReAck(r) PROVE Goal
  <2>1. UNCHANGED <<pc, late>> /\ (active # "none" \/ completed)
    BY <1>8 DEF ReAck, Unmatched
  <2>2. QED
    BY <1>0, <2>1 DEF ErrInv, OwedInv
<1>9. ASSUME NEW r \in resp, ReadForgotten(r) \/ LateProvisional(r) PROVE Goal
  <2>1. /\ UNCHANGED <<pc, late, resp>> /\ r[2] \in CSeqs
        /\ sent' \subseteq sent \cup {<<"CANCEL", r[2]>>}
    BY <1>9, PairForm DEF ReadForgotten, LateProvisional, Unmatched, Written, WriteFails,
                          TypeOK
  <2>2. <<"ACK", n>> \in sent
    BY <2>1, Pairs
  <2>3. QED
    BY <1>0, <1>2, <2>1, <2>2
<1>10. ASSUME NEW r \in resp, LateAnswer(r) PROVE Goal
  BY <1>0, <1>10 DEF LateAnswer, WriteFails
<1>11. ASSUME NEW r \in resp, LateReject(r) PROVE Goal
  <2>1. /\ UNCHANGED <<pc, late, resp>> /\ r[2] \in CSeqs
        /\ sent' \subseteq sent \cup {<<"ACK", r[2]>>} /\ ~Provisional(r) /\ r[1] # "2xx"
    BY <1>11, PairForm DEF LateReject, Unmatched, Written, WriteFails, TypeOK
  <2>2. n # r[2]
    BY <2>1, RejectedIsNotAnswered
  <2>3. <<"ACK", n>> \in sent
    BY <2>1, <2>2, Pairs
  <2>4. QED
    BY <1>0, <1>2, <2>1, <2>3
<1>12. ASSUME LateBye PROVE Goal
  BY <1>0, <1>12 DEF LateBye, Written, WriteFails
<1>13. ASSUME \/ LateFinish \/ ReadBye \/ Close \/ ExpireTomb \/ ExpireCompleted
              \/ CancelDial \/ UNCHANGED vars
       PROVE  Goal
  <2>1. /\ UNCHANGED <<pc, sent, resp>>
        /\ late' = late \/ late = "byed"
    BY <1>13 DEF LateFinish, ReadBye, Close, ExpireTomb, ExpireCompleted, CancelDial, vars
  <2>2. QED
    BY <1>0, <1>2, <2>1
<1>14. ASSUME NEW k \in CSeqs, PeerRings(k) \/ \E code \in Codes : PeerFinal(k, code)
       PROVE  Goal
  <2>1. UNCHANGED <<pc, sent, late>> /\ peer[k] # "final"
    BY <1>14 DEF PeerRings, PeerFinal
  <2>2. k # n
    <3>1. PICK t \in read : ~Provisional(t) /\ t[2] = n
      BY <2>1 DEF WorldInv, FinalRead
    <3>2. QED
      BY <2>1, <3>1 DEF WorldInv
  <2>3. \E code \in Codes : resp' = resp \cup {<<code, k>>}
    BY <1>14 DEF PeerRings, PeerFinal, Codes
  <2>4. <<"2xx", n>> \in resp
    BY <2>2, <2>3
  <2>5. QED
    BY <1>2, <2>1, <2>4
<1>15. QED
  BY <1>3, <1>4, <1>5, <1>6, <1>7, <1>8, <1>9, <1>10, <1>11, <1>12, <1>13, <1>14
     DEF Next, Dial, Reader

\* A phone that is known to ring and that Dial gave up on has got its CANCEL.
LEMMA RingingStep == DialogInv /\ [Next]_vars => RingingIsCanceled'
<1> SUFFICES ASSUME DialogInv, [Next]_vars, ringTimeout' < TransactionDeadline, Sound',
                    pc' = "err", NEW n \in CSeqs, <<"1xx", n>> \in read', ~FinalRead(n)'
             PROVE  <<"CANCEL", n>> \in sent'
  BY DEF RingingIsCanceled, Ringing, FinalRead, Provisional
<1> DEFINE Goal == <<"CANCEL", n>> \in sent'
<1> USE DEF DialogInv, local, table, world
<1>0. /\ cseq \in CSeqs /\ sent \subseteq sent' /\ ~failed /\ ~failed' /\ ~closed' /\ Sound
      /\ ringTimeout < TransactionDeadline /\ read \subseteq read' /\ ringTimeout \in Nat
      /\ chan \in Seq(Resps)
  BY Monotone, RingTimeoutsAssumption DEF TypeOK, Sound
<1>1. ~FinalRead(n)
  BY <1>0 DEF FinalRead, Provisional
<1>2. <<"1xx", n>> \in resp => n = cseq
  <2>1. n # 1 \/ cseq # 2
    BY <1>1 DEF WorldInv, FinalRead, Provisional
  <2>2. <<"1xx", n>> \in resp /\ n = 2 => cseq = 2
    BY DEF WorldInv
  <2>3. QED
    BY <1>0, <2>1, <2>2 DEF CSeqs
<1>3. pc = "err" /\ <<"1xx", n>> \in read => <<"CANCEL", n>> \in sent
  BY <1>0, <1>1 DEF ErrInv, RingingIsCanceled, Ringing, FinalRead, Provisional
<1>4. ASSUME DialStart \/ ReceiveProvisional \/ CtxDone \/ ReceiveFinal \/ ResendFails
             \/ ClosedWhileDialing \/ Establish \/ SendACK \/ CheckAnswer \/ UserHangup
             \/ SendBye \/ Deadline
      PROVE  FALSE
  BY <1>0, <1>4 DEF DialStart, Transact, ReceiveProvisional, CtxDone, ReceiveFinal,
       ResendFails, ClosedWhileDialing, Establish, SendACK, CheckAnswer, UserHangup, SendBye,
       WriteFails, Written, AfterFinal, Deadline, TransactionDeadline
<1>5. ASSUME CancelDeadline PROVE Goal
  <2>1. pc = "transact" /\ cancelRequested /\ read' = read /\ n = cseq
    BY <1>2, <1>5 DEF CancelDeadline, WorldInv
  <2>2. cancelSent \/ chan # <<>>
    BY <2>1 DEF CancelInv, TransactInv
  <2>3. cancelSent => <<"CANCEL", cseq>> \in sent
    BY <2>1 DEF CancelInv, TransactInv
  <2>4. ~cancelSent => Written(<<"CANCEL", cseq>>)
    BY <1>0, <1>5, <2>2 DEF CancelDeadline, TransitionCanceledInvite, AfterFinal, WriteFails
  <2>5. QED
    BY <1>0, <2>1, <2>3, <2>4 DEF Written
<1>6. ASSUME FinalAck \/ Authenticate \/ HangupEnds PROVE FALSE
  <2>1. pc \in {"auth", "reject", "reinvite", "hangup"} /\ read' = read
    BY <1>6 DEF FinalAck, Authenticate, Transact, HangupEnds
  <2>2. FinalRead(cseq)
    BY <2>1 DEF DialInv, FinalRead, Provisional
  <2>3. QED
    BY <1>1, <1>2, <2>1, <2>2 DEF WorldInv
<1>7. ASSUME NEW r \in resp, Reader(r) PROVE Goal
  <2>1. read' = read \cup {r} /\ pc = "err"
    BY <1>7 DEF Reader, ReadMatched, ReAck, ReadForgotten, LateProvisional, LateAnswer,
                LateReject, Unmatched
  <2>2. CASE <<"1xx", n>> \in read
    BY <1>0, <1>3, <2>1, <2>2
  <2>3. CASE r = <<"1xx", n>>
    <3>1. n = cseq /\ r[1] = "1xx" /\ r[2] = cseq /\ Provisional(r)
      BY <1>2, <2>3 DEF Provisional
    <3>2. <<"ACK", cseq>> \notin sent
      BY <1>1, <3>1 DEF WorldInv
    <3>3. tomb.cseq = cseq /\ tomb.cseq # 0
      BY <1>0, <2>1, <3>2 DEF ErrInv, OwedInv, CSeqs
    <3>4. active = "none" /\ ~completed /\ ~waiting
      BY <2>1, <3>3 DEF TombInv, DialInv
    <3>5. LateProvisional(r)
      BY <1>7, <3>1, <3>3, <3>4 DEF Reader, ReadMatched, ReAck, ReadForgotten, LateAnswer,
                                    LateReject
    <3>6. tomb.cancelSent => <<"CANCEL", cseq>> \in sent
      BY <1>0, <3>3 DEF CancelInv
    <3>7. ~tomb.cancelSent => Written(<<"CANCEL", cseq>>)
      BY <1>0, <3>1, <3>5 DEF LateProvisional, WriteFails
    <3>8. QED
      BY <1>0, <3>1, <3>6, <3>7 DEF Written
  <2>4. QED
    BY <2>1, <2>2, <2>3
<1>8. ASSUME \/ LateBye \/ LateFinish \/ ReadBye \/ Close \/ ExpireTomb \/ ExpireCompleted
             \/ CancelDial \/ UNCHANGED vars
             \/ \E k \in CSeqs : PeerRings(k) \/ \E code \in Codes : PeerFinal(k, code)
      PROVE  Goal
  <2>1. UNCHANGED <<pc, read>>
    BY <1>8 DEF LateBye, LateFinish, ReadBye, Close, ExpireTomb, ExpireCompleted,
                CancelDial, PeerRings, PeerFinal, vars
  <2>2. QED
    BY <1>0, <1>3, <2>1
<1>9. QED
  BY <1>4, <1>5, <1>6, <1>7, <1>8 DEF Next, Dial

-----------------------------------------------------------------------------
\* DialogInv holds before the INVITE is sent.
LEMMA DialogInit == Init => DialogInv
<1> SUFFICES ASSUME Init PROVE DialogInv
  OBVIOUS
<1>1. TypeOK
  BY TypeInit
<1>2. WorldInv /\ DialInv
  BY DEF Init, WorldInv, DialInv, FinalRead
<1>3. TombInv
  BY DEF Init, TombInv, NoTomb
<1>4. CancelInv
  BY DEF Init, CancelInv, TransactInv, NoTomb, CancelFollowsResponse
<1>5. ErrInv
  BY DEF Init, ErrInv, OwedInv, AnswerIsAcked, UnwantedCallIsHungUp, RingingIsCanceled,
         Ringing
<1>6. QED
  BY <1>1, <1>2, <1>3, <1>4, <1>5 DEF DialogInv

\* Every step preserves DialogInv, by the lemmas on its parts.
LEMMA DialogStep == DialogInv /\ [Next]_vars => DialogInv'
<1> SUFFICES ASSUME DialogInv, [Next]_vars PROVE DialogInv'
  OBVIOUS
<1>1. TypeOK'
  BY TypeStep DEF DialogInv
<1>2. WorldInv' /\ DialInv' /\ TombInv' /\ CancelInv'
  BY WorldStep, DialStepInv, TombStep, CancelStep
<1>3. ErrInv'
  BY OwedStep, AckedStep, HungUpStep, RingingStep DEF ErrInv
<1>4. QED
  BY <1>1, <1>2, <1>3 DEF DialogInv

\* The state of Dial keeps its types: the channel never holds more responses than
\* its capacity, whatever the peer sends.
THEOREM DialTypeOK == Spec => []TypeOK
<1>1. DialogInv => TypeOK
  BY DEF DialogInv
<1>2. QED
  BY <1>1, DialogInit, DialogStep, PTL DEF Spec

\* No 200 OK falls between Dial, the reader and the tombstone, for every ring
\* timeout below the deadline of a transaction.
THEOREM EveryAnswerIsAcked == Spec => []AnswerIsAcked
<1>1. DialogInv => AnswerIsAcked
  BY DEF DialogInv, ErrInv
<1>2. QED
  BY <1>1, DialogInit, DialogStep, PTL DEF Spec

\* A call that was answered although Dial failed is hung up.
THEOREM EveryUnwantedCallIsHungUp == Spec => []UnwantedCallIsHungUp
<1>1. DialogInv => UnwantedCallIsHungUp
  BY DEF DialogInv, ErrInv
<1>2. QED
  BY <1>1, DialogInit, DialogStep, PTL DEF Spec

\* No phone that is known to ring is left without CANCEL, for every ring timeout
\* below the deadline of a transaction.
THEOREM EveryRingingIsCanceled == Spec => []RingingIsCanceled
<1>1. DialogInv => RingingIsCanceled
  BY DEF DialogInv, ErrInv
<1>2. QED
  BY <1>1, DialogInit, DialogStep, PTL DEF Spec

\* No CANCEL is sent before a response to its INVITE.
THEOREM CancelWaitsForResponse == Spec => []CancelFollowsResponse
<1>1. DialogInv => CancelFollowsResponse
  BY DEF DialogInv, CancelInv
<1>2. QED
  BY <1>1, DialogInit, DialogStep, PTL DEF Spec

\* An INVITE is owned by its transaction or by its tombstone, never by both.
THEOREM HandOffHasOneOwner == Spec => []HandOffIsExclusive
<1>1. DialogInv => HandOffIsExclusive
  <2> SUFFICES ASSUME DialogInv, tomb # NoTomb \/ late # "none"
               PROVE  ~waiting /\ pc = "err" /\ active # "dial"
    BY DEF HandOffIsExclusive
  <2>1. tomb # NoTomb => tomb.cseq # 0
    BY DEF DialogInv, TypeOK, TombInv, NoTomb
  <2>2. QED
    BY <2>1 DEF DialogInv, TombInv, DialInv
<1>2. QED
  BY <1>1, DialogInit, DialogStep, PTL DEF Spec
=============================================================================
