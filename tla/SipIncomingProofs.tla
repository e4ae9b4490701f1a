------------------------- MODULE SipIncomingProofs --------------------------
(***************************************************************************)
(* Proofs about SipIncoming, for any set of INVITEs, any sharing of        *)
(* Call-IDs among them and any limits.                                     *)
(***************************************************************************)
EXTENDS SipIncoming, FiniteSetTheorems, TLAPS

\* An INVITE between the two busy checks has no server transaction yet.
HandlingIsNew == handling # NoKey => invite[handling] = "none"

\* Undecided INVITEs have had no final response: what makes the one response
\* of the deciding step the only one.
UndecidedIsUnanswered ==
    \A k \in Keys : invite[k] \in {"none", "pending"} => finals[k] = {}

AtMostOne(S) == \A x, y \in S : x = y

SingleFinal == \A k \in Keys : AtMostOne(finals[k])

IncInv == TypeOK /\ HandlingIsNew /\ UndecidedIsUnanswered /\ SingleFinal

-----------------------------------------------------------------------------
\* Any subset of the Call-IDs can be counted, and counting is monotonic.
LEMMA InboundFinite ==
    /\ IsFiniteSet(Inbound) /\ Cardinality(Inbound) \in Nat
    /\ IsFiniteSet(Inbound') /\ Cardinality(Inbound') \in Nat
    /\ Inbound' \subseteq Inbound => Cardinality(Inbound') <= Cardinality(Inbound)
<1>1. Inbound \subseteq Keys /\ Inbound' \subseteq Keys
  BY DEF Inbound
<1>2. IsFiniteSet(Inbound) /\ IsFiniteSet(Inbound')
  BY <1>1, KeysAssumption, FS_Subset
<1>3. QED
  BY <1>2, FS_Subset, FS_CardinalityType

\* The invariant holds when the client starts: no INVITE has arrived.
LEMMA IncInitInv == Init => IncInv
<1> SUFFICES ASSUME Init PROVE IncInv
  OBVIOUS
<1>1. queue \in Seq(Keys) /\ Len(queue) <= QueueCap
  BY BoundsAssumption DEF Init
<1>2. late \in BOOLEAN /\ closed \in BOOLEAN /\ done \in [Keys -> BOOLEAN]
  BY Zenon DEF Init
<1>3. TypeOK
  BY <1>1, <1>2, BoundsAssumption DEF Init, TypeOK, InviteStates
<1>4. HandlingIsNew /\ UndecidedIsUnanswered /\ SingleFinal
  BY DEF Init, HandlingIsNew, UndecidedIsUnanswered, SingleFinal, AtMostOne
<1>5. QED
  BY <1>3, <1>4 DEF IncInv

\* One response to an undecided INVITE.
LEMMA RespondStep ==
    ASSUME IncInv, NEW k \in Keys, invite[k] \in {"none", "pending"},
           NEW s \in InviteStates \ {"none", "pending"},
           NEW code \in {"200", "487", "reject"},
           Respond(k, s, code)
    PROVE  /\ invite' \in [Keys -> InviteStates]
           /\ finals' \in [Keys -> SUBSET {"200", "487", "reject"}]
           /\ UndecidedIsUnanswered'
           /\ SingleFinal'
           /\ \A j \in Keys : j # k => invite'[j] = invite[j]
<1>1. finals[k] = {}
  BY DEF IncInv, UndecidedIsUnanswered
<1>2. /\ invite' = [invite EXCEPT ![k] = s]
      /\ finals' = [finals EXCEPT ![k] = {code}]
  BY <1>1 DEF Respond
<1>3. QED
  BY <1>1, <1>2 DEF IncInv, TypeOK, UndecidedIsUnanswered, SingleFinal, AtMostOne

\* What removing a call from the table (finish) leaves well typed.
LEMMA FinishTypes ==
    ASSUME TypeOK, NEW k \in Keys, Finish(k)
    PROVE  /\ done' \in [Keys -> BOOLEAN]
           /\ active' \in [Keys -> Keys \cup {NoKey}]
           /\ resending' \subseteq Keys
BY DEF Finish, TypeOK

\* Every step keeps the invariant.
LEMMA IncStepInv == IncInv /\ [Next]_vars => IncInv'
<1> SUFFICES ASSUME IncInv, [Next]_vars PROVE IncInv'
  OBVIOUS
<1> USE DEF IncInv
<1>1. ASSUME NEW k \in Keys, InviteArrives(k) PROVE IncInv'
  BY <1>1, KeysAssumption DEF InviteArrives, Reading, TypeOK, HandlingIsNew,
     UndecidedIsUnanswered, SingleFinal
<1>2. CASE Refuse
  BY <1>2 DEF Refuse, TypeOK, HandlingIsNew, UndecidedIsUnanswered, SingleFinal
<1>3. CASE Reserve
  <2> DEFINE k == handling
  <2>1. k \in Keys /\ invite[k] = "none" /\ CallOf[k] \in Keys
    BY <1>3, KeysAssumption DEF Reserve, TypeOK, HandlingIsNew
  <2>2. /\ HandlingIsNew'
        /\ handling' \in Keys \cup {NoKey}
        /\ server' \subseteq Keys
        /\ UNCHANGED <<app, resending, out, late, closed>>
    BY <1>3, <2>1 DEF Reserve, HandlingIsNew, TypeOK
  <2>3. CASE /\ Len(queue) < QueueCap
             /\ active' = [active EXCEPT ![CallOf[k]] = k]
             /\ invite' = [invite EXCEPT ![k] = "pending"]
             /\ queue' = Append(queue, k)
             /\ UNCHANGED <<done, finals>>
    <3>1. queue' \in Seq(Keys) /\ Len(queue') <= QueueCap
      BY <2>1, <2>3, BoundsAssumption DEF TypeOK
    <3>2. UndecidedIsUnanswered' /\ SingleFinal'
      BY <2>1, <2>3 DEF UndecidedIsUnanswered, SingleFinal, TypeOK
    <3>3. QED
      BY <2>1, <2>2, <2>3, <3>1, <3>2 DEF TypeOK, InviteStates
  <2>4. CASE /\ closed
             /\ invite' = [invite EXCEPT ![k] = "pending"]
             /\ done' = [done EXCEPT ![k] = TRUE]
             /\ active' = [active EXCEPT ![CallOf[k]] = NoKey]
             /\ UNCHANGED <<finals, queue>>
    <3>1. UndecidedIsUnanswered' /\ SingleFinal'
      BY <2>1, <2>4 DEF UndecidedIsUnanswered, SingleFinal, TypeOK
    <3>2. QED
      BY <2>1, <2>2, <2>4, <3>1 DEF TypeOK, InviteStates
  <2>5. CASE /\ Respond(k, "rejected", "reject")
             /\ done' = [done EXCEPT ![k] = TRUE]
             /\ active' = [active EXCEPT ![CallOf[k]] = NoKey]
             /\ UNCHANGED queue
    <3>1. /\ invite' \in [Keys -> InviteStates]
          /\ finals' \in [Keys -> SUBSET {"200", "487", "reject"}]
          /\ UndecidedIsUnanswered' /\ SingleFinal'
      BY <2>1, <2>5, RespondStep DEF InviteStates
    <3>2. QED
      BY <2>1, <2>2, <2>5, <3>1 DEF TypeOK
  <2>6. QED
    BY <1>3, <2>3, <2>4, <2>5 DEF Reserve
<1>4. ASSUME NEW k \in Keys, Ack(k) PROVE IncInv'
  BY <1>4, KeysAssumption DEF Ack, TypeOK, InviteStates, HandlingIsNew,
     UndecidedIsUnanswered, SingleFinal
<1>5. ASSUME NEW k \in Keys, Cancel(k) PROVE IncInv'
  <2>1. /\ invite' \in [Keys -> InviteStates]
        /\ finals' \in [Keys -> SUBSET {"200", "487", "reject"}]
        /\ UndecidedIsUnanswered' /\ SingleFinal'
    BY <1>5, RespondStep DEF Cancel, InviteStates
  <2>2. QED
    BY <1>5, <2>1, FinishTypes DEF Cancel, Reading, TypeOK, HandlingIsNew
<1>6. ASSUME NEW k \in Keys, PeerBye(k) PROVE IncInv'
  <2>1. CallOf[k] \in Keys /\ active[CallOf[k]] \in Keys
    BY <1>6, KeysAssumption DEF PeerBye, TypeOK
  <2>2. QED
    BY <1>6, <2>1, FinishTypes DEF PeerBye, TypeOK, HandlingIsNew,
       UndecidedIsUnanswered, SingleFinal
<1>7. CASE Dequeue
  <2>1. Head(queue) \in Keys /\ queue' \in Seq(Keys) /\ Len(queue') <= QueueCap
    BY <1>7, BoundsAssumption DEF Dequeue, TypeOK
  <2>2. QED
    BY <1>7, <2>1 DEF Dequeue, TypeOK, HandlingIsNew, UndecidedIsUnanswered,
       SingleFinal
<1>8. ASSUME NEW k \in Keys, Answer(k) PROVE IncInv'
  <2>1. CASE invite[k] = "pending" /\ Respond(k, "answered", "200")
    <3>1. /\ invite' \in [Keys -> InviteStates]
          /\ finals' \in [Keys -> SUBSET {"200", "487", "reject"}]
          /\ UndecidedIsUnanswered' /\ SingleFinal'
          /\ \A j \in Keys : j # k => invite'[j] = invite[j]
      BY <2>1, RespondStep DEF InviteStates
    <3>2. /\ active' \in [Keys -> Keys \cup {NoKey}]
          /\ done' \in [Keys -> BOOLEAN]
          /\ resending' \subseteq Keys
      BY <1>8, FinishTypes DEF Answer, TypeOK
    <3>3. app' \in [Keys -> {"none", "preparing", "talking", "over"}]
      BY <1>8 DEF Answer, TypeOK
    <3>4. QED
      BY <1>8, <2>1, <3>1, <3>2, <3>3 DEF Answer, TypeOK, HandlingIsNew
  <2>2. CASE /\ invite[k] = "pending"
             /\ invite' = [invite EXCEPT ![k] = "answered"]
             /\ Finish(k)
             /\ app' = [app EXCEPT ![k] = "over"]
             /\ UNCHANGED finals
    BY <1>8, <2>2, FinishTypes DEF Answer, TypeOK, InviteStates, HandlingIsNew,
       UndecidedIsUnanswered, SingleFinal
  <2>3. CASE /\ app' = [app EXCEPT ![k] = "over"]
             /\ UNCHANGED <<invite, finals, active, done, resending>>
    BY <1>8, <2>3 DEF Answer, TypeOK, HandlingIsNew, UndecidedIsUnanswered,
       SingleFinal
  <2>4. QED
    BY <1>8, <2>1, <2>2, <2>3 DEF Answer
<1>9. ASSUME NEW k \in Keys, Reject(k) PROVE IncInv'
  <2>1. CASE invite[k] = "pending"
    <3>1. /\ invite' \in [Keys -> InviteStates]
          /\ finals' \in [Keys -> SUBSET {"200", "487", "reject"}]
          /\ UndecidedIsUnanswered' /\ SingleFinal'
          /\ \A j \in Keys : j # k => invite'[j] = invite[j]
      BY <1>9, <2>1, RespondStep DEF Reject, InviteStates
    <3>2. QED
      BY <1>9, <2>1, <3>1, FinishTypes DEF Reject, TypeOK, HandlingIsNew
  <2>2. CASE invite[k] # "pending"
    BY <1>9, <2>2 DEF Reject, TypeOK, HandlingIsNew, UndecidedIsUnanswered,
       SingleFinal
  <2>3. QED
    BY <2>1, <2>2
<1>10. ASSUME NEW k \in Keys, AppEnds(k) \/ AckTimeout(k) PROVE IncInv'
  BY <1>10, FinishTypes DEF AppEnds, AckTimeout, TypeOK, HandlingIsNew,
     UndecidedIsUnanswered, SingleFinal
<1>11. ASSUME NEW k \in Keys, Expire(k) PROVE IncInv'
  BY <1>11 DEF Expire, TypeOK, HandlingIsNew, UndecidedIsUnanswered, SingleFinal
<1>12. CASE DialStarts \/ OutgoingEnds \/ LateAnswer \/ LateAnswerHungUp
  <2>1. out' \in 0..MaxCalls
    <3>1. CASE DialStarts
      BY <3>1, InboundFinite, BoundsAssumption DEF DialStarts, HasCapacity, TypeOK
    <3>2. CASE OutgoingEnds \/ LateAnswer \/ LateAnswerHungUp
      BY <3>2, BoundsAssumption DEF OutgoingEnds, LateAnswer, LateAnswerHungUp, TypeOK
    <3>3. QED
      BY <1>12, <3>1, <3>2
  <2>2. QED
    BY <1>12, <2>1 DEF DialStarts, OutgoingEnds, LateAnswer, LateAnswerHungUp, TypeOK,
       HandlingIsNew, UndecidedIsUnanswered, SingleFinal
<1>13. CASE Close
  <2>1. done' \in [Keys -> BOOLEAN] /\ late' \in BOOLEAN /\ closed' \in BOOLEAN
    BY <1>13, Zenon DEF Close
  <2>2. QED
    BY <1>13, <2>1, BoundsAssumption DEF Close, TypeOK, HandlingIsNew, UndecidedIsUnanswered,
       SingleFinal
<1>14. CASE UNCHANGED vars
  BY <1>14 DEF vars, TypeOK, HandlingIsNew, UndecidedIsUnanswered, SingleFinal
<1>15. QED
  BY <1>1, <1>2, <1>3, <1>4, <1>5, <1>6, <1>7, <1>8, <1>9, <1>10, <1>11, <1>12,
     <1>13, <1>14 DEF Next, App

\* The invariant implies the property that the runs check.
LEMMA SingleFinalIsOne == IncInv => OneFinalResponse
<1> SUFFICES ASSUME IncInv, NEW k \in Keys PROVE Cardinality(finals[k]) <= 1
  BY DEF OneFinalResponse
<1>1. CASE finals[k] = {}
  BY <1>1, FS_EmptySet
<1>2. CASE finals[k] # {}
  <2>1. PICK x : finals[k] = {x}
    BY <1>2 DEF IncInv, SingleFinal, AtMostOne
  <2>2. QED
    BY <2>1, FS_Singleton
<1>3. QED
  BY <1>1, <1>2

\* Type correctness of the server side.
THEOREM IncomingTypeCorrect == Spec => []TypeOK
<1>1. IncInv => TypeOK
  BY DEF IncInv
<1>2. QED
  BY IncInitInv, IncStepInv, <1>1, PTL DEF Spec

\* Answer, Reject and CANCEL race for an INVITE: it gets one final response.
THEOREM OneResponse == Spec => []OneFinalResponse
BY IncInitInv, IncStepInv, SingleFinalIsOne, PTL DEF Spec

-----------------------------------------------------------------------------
\* What LiveInviteIsKnown depends on: no step revives a call, and a transaction
\* is forgotten only when acknowledged or over.
LEMMA KnownStep == IncInv /\ LiveInviteIsKnown /\ [Next]_vars => LiveInviteIsKnown'
<1> SUFFICES ASSUME IncInv, LiveInviteIsKnown, [Next]_vars
             PROVE  LiveInviteIsKnown'
  OBVIOUS
<1> USE DEF LiveInviteIsKnown
<1>1. ASSUME NEW k \in Keys, Ack(k) \/ Cancel(k) \/ Answer(k) \/ Reject(k)
      PROVE  LiveInviteIsKnown'
  BY <1>1 DEF IncInv, TypeOK, Ack, Cancel, Answer, Reject, Respond, Finish
<1>2. ASSUME NEW k \in Keys, AppEnds(k) \/ AckTimeout(k) \/ Expire(k)
      PROVE  LiveInviteIsKnown'
  BY <1>2 DEF IncInv, TypeOK, AppEnds, AckTimeout, Expire, Finish
<1>3. ASSUME NEW k \in Keys, PeerBye(k) PROVE LiveInviteIsKnown'
  BY <1>3 DEF IncInv, TypeOK, PeerBye, Finish
<1>4. CASE Reserve
  BY <1>4 DEF IncInv, TypeOK, Reserve, Respond
<1>5. CASE Close
  BY <1>5 DEF IncInv, TypeOK, Close
<1>6. ASSUME UNCHANGED <<invite, done, server>> PROVE LiveInviteIsKnown'
  BY <1>6
<1>7. QED
  BY <1>1, <1>2, <1>3, <1>4, <1>5, <1>6
     DEF Next, App, InviteArrives, Refuse, Dequeue, DialStarts, OutgoingEnds,
         LateAnswer, LateAnswerHungUp, vars

\* A repeated INVITE is never taken for a new call while the first is undecided
\* or its answer not acknowledged.
THEOREM RepeatedInviteIsKnown == Spec => []LiveInviteIsKnown
<1>1. Init => LiveInviteIsKnown
  BY DEF Init, LiveInviteIsKnown
<1>2. QED
  BY <1>1, IncInitInv, IncStepInv, KnownStep, PTL DEF Spec

-----------------------------------------------------------------------------
\* Adding a Call-ID to the table adds at most one to the number of calls.
LEMMA OneMore ==
    ASSUME NEW S, IsFiniteSet(S), NEW x
    PROVE  /\ IsFiniteSet(S \cup {x})
           /\ Cardinality(S \cup {x}) \in Nat
           /\ Cardinality(S \cup {x}) <= Cardinality(S) + 1
<1>1. IsFiniteSet(S \cup {x}) /\ Cardinality(S) \in Nat
  BY FS_AddElement, FS_CardinalityType
<1>2. CASE x \in S
  <2>1. S \cup {x} = S
    BY <1>2
  <2>2. QED
    BY <1>1, <2>1
<1>3. CASE x \notin S
  <2>1. Cardinality(S \cup {x}) = Cardinality(S) + 1
    BY <1>3, FS_AddElement
  <2>2. QED
    BY <1>1, <2>1
<1>4. QED
  BY <1>2, <1>3

\* A step that adds no call to the table and starts none keeps the limit.
LEMMA CapacityKept ==
    ASSUME CapacityRespected, Inbound' \subseteq Inbound, out \in Nat, out' \in 0..out
    PROVE  CapacityRespected'
BY InboundFinite, BoundsAssumption DEF CapacityRespected

\* finish only takes calls out of the table.
LEMMA FinishShrinks ==
    ASSUME TypeOK, NEW k \in Keys, Finish(k) PROVE Inbound' \subseteq Inbound
BY KeysAssumption DEF Finish, Inbound, TypeOK

\* Every step keeps the limit: the two that claim a place check it first.
LEMMA CapacityStep == IncInv /\ CapacityRespected /\ [Next]_vars => CapacityRespected'
<1> SUFFICES ASSUME IncInv, CapacityRespected, [Next]_vars PROVE CapacityRespected'
  OBVIOUS
<1>0. TypeOK /\ out \in Nat
  BY BoundsAssumption DEF IncInv, TypeOK
<1>1. CASE Reserve
  <2> DEFINE i == CallOf[handling]
  <2>1. handling \in Keys /\ i \in Keys /\ UNCHANGED out
    BY <1>0, <1>1, KeysAssumption DEF Reserve, TypeOK
  <2>2. Inbound' \subseteq Inbound \cup {i}
    BY <1>0, <1>1, <2>1 DEF Reserve, Inbound, TypeOK
  <2>3. /\ IsFiniteSet(Inbound \cup {i})
        /\ Cardinality(Inbound \cup {i}) <= Cardinality(Inbound) + 1
        /\ Cardinality(Inbound \cup {i}) \in Nat
    BY InboundFinite, OneMore
  <2>4. Cardinality(Inbound') <= Cardinality(Inbound) + 1
    BY <2>2, <2>3, InboundFinite, FS_Subset
  <2>5. Cardinality(Inbound) + out < MaxCalls
    BY <1>0, <1>1, InboundFinite, BoundsAssumption DEF Reserve, HasCapacity
  <2>6. QED
    BY <1>0, <2>1, <2>4, <2>5, InboundFinite, BoundsAssumption DEF CapacityRespected
<1>2. CASE DialStarts
  <2>1. Inbound' = Inbound
    BY <1>2 DEF DialStarts, Inbound
  <2>2. Cardinality(Inbound) + out + 1 <= MaxCalls
    BY <1>0, <1>2, InboundFinite, BoundsAssumption DEF DialStarts, HasCapacity
  <2>3. QED
    BY <1>0, <1>2, <2>1, <2>2, InboundFinite DEF DialStarts, CapacityRespected
<1>3. ASSUME NEW k \in Keys, Cancel(k) \/ AppEnds(k) \/ AckTimeout(k)
      PROVE  CapacityRespected'
  <2>1. Finish(k) /\ UNCHANGED out
    BY <1>3 DEF Cancel, AppEnds, AckTimeout
  <2>2. QED
    BY <1>0, <2>1, FinishShrinks, CapacityKept
<1>4. ASSUME NEW k \in Keys, Answer(k) \/ Reject(k) PROVE CapacityRespected'
  <2>1. (Finish(k) \/ UNCHANGED active) /\ UNCHANGED out
    BY <1>4 DEF Answer, Reject
  <2>2. Inbound' \subseteq Inbound
    BY <1>0, <2>1, FinishShrinks DEF Inbound
  <2>3. QED
    BY <1>0, <2>1, <2>2, CapacityKept
<1>5. ASSUME NEW k \in Keys, PeerBye(k) PROVE CapacityRespected'
  <2>1. active[CallOf[k]] \in Keys
    BY <1>0, <1>5, KeysAssumption DEF PeerBye, TypeOK
  <2>2. Inbound' \subseteq Inbound /\ UNCHANGED out
    BY <1>0, <1>5, <2>1, FinishShrinks DEF PeerBye
  <2>3. QED
    BY <1>0, <2>2, CapacityKept
<1>6. CASE Close
  <2>1. Inbound' \subseteq Inbound /\ out' \in 0..out
    BY <1>0, <1>6 DEF Close, Inbound
  <2>2. QED
    BY <1>0, <2>1, CapacityKept
<1>7. ASSUME UNCHANGED active, out' \in 0..out PROVE CapacityRespected'
  BY <1>0, <1>7, CapacityKept DEF Inbound
<1>8. CASE OutgoingEnds
  BY <1>0, <1>7, <1>8 DEF OutgoingEnds
<1>9. ASSUME UNCHANGED <<active, out>> PROVE CapacityRespected'
  BY <1>0, <1>7, <1>9
<1>10. QED
  BY <1>1, <1>2, <1>3, <1>4, <1>5, <1>6, <1>8, <1>9
     DEF Next, App, InviteArrives, Refuse, Ack, Expire, Dequeue, LateAnswer,
         LateAnswerHungUp, vars

\* The account's limit holds for admitted calls of both directions, although
\* Dial and the reader check and claim at different times.
THEOREM LimitRespected == Spec => []CapacityRespected
<1>1. Init => CapacityRespected
  <2> SUFFICES ASSUME Init PROVE CapacityRespected
    OBVIOUS
  <2>1. Inbound = {}
    BY DEF Init, Inbound
  <2>2. QED
    BY <2>1, FS_EmptySet, BoundsAssumption DEF Init, CapacityRespected
<1>2. QED
  BY <1>1, IncInitInv, IncStepInv, CapacityStep, PTL DEF Spec

-----------------------------------------------------------------------------
\* No INVITE can be admitted while a call with its Call-ID is in the table: the
\* account takes one call at a time, or no dialog ever gets a re-INVITE.
NoReplacement ==
    MaxCalls = 1 \/ \A j, k \in Keys : CallOf[j] = CallOf[k] => j = k

\* EstablishedCallIsReachable from the reservation on, which is what Answer needs.
LiveCallInTable ==
    \A k \in Keys : invite[k] \in {"pending", "answered", "acknowledged"} /\ ~done[k]
                        => active[CallOf[k]] = k

\* With a limit of one call, a place is free only if the table is empty.
LEMMA OneCallMeansEmpty ==
    ASSUME MaxCalls = 1, out \in Nat, HasCapacity PROVE \A i \in Keys : active[i] = NoKey
<1>1. Cardinality(Inbound) = 0
  BY InboundFinite DEF HasCapacity
<1>2. Inbound = {}
  BY <1>1, InboundFinite, FS_EmptySet
<1>3. QED
  BY <1>2 DEF Inbound

\* Every step keeps live calls in the table; the step that may break it is the
\* reservation, which overwrites the entry of its Call-ID.
LEMMA ReachableStep ==
    ASSUME NoReplacement
    PROVE  IncInv /\ LiveCallInTable /\ [Next]_vars => LiveCallInTable'
<1> SUFFICES ASSUME IncInv, LiveCallInTable, [Next]_vars PROVE LiveCallInTable'
  OBVIOUS
<1> USE DEF LiveCallInTable
<1>0. TypeOK
  BY DEF IncInv
<1>1. CASE Reserve
  <2>1. handling \in Keys /\ CallOf[handling] \in Keys
    BY <1>0, <1>1, KeysAssumption DEF Reserve, TypeOK
  <2>2. \A k \in Keys : CallOf[k] \in Keys /\ k # NoKey
    BY KeysAssumption
  <2>3. ASSUME NEW k \in Keys, k # handling, ~done[k],
               invite[k] \in {"pending", "answered", "acknowledged"}
        PROVE  active[CallOf[k]] = k /\ CallOf[k] # CallOf[handling]
    <3>1. active[CallOf[k]] = k
      BY <2>3
    <3>2. HasCapacity /\ out \in Nat
      BY <1>0, <1>1, BoundsAssumption DEF Reserve, TypeOK
    <3>3. CASE MaxCalls = 1
      BY <2>2, <3>1, <3>2, <3>3, OneCallMeansEmpty
    <3>4. CASE \A i, j \in Keys : CallOf[i] = CallOf[j] => i = j
      BY <2>1, <2>3, <3>1, <3>4
    <3>5. QED
      BY <3>3, <3>4 DEF NoReplacement
  <2>4. /\ active' \in [Keys -> Keys \cup {NoKey}]
        /\ \A i \in Keys : i # CallOf[handling] => active'[i] = active[i]
    BY <1>0, <1>1, <2>1 DEF Reserve, TypeOK
  <2>5. \A k \in Keys : k # handling => invite'[k] = invite[k] /\ done'[k] = done[k]
    BY <1>0, <1>1, <2>1 DEF Reserve, Respond, TypeOK
  <2>6. done'[handling] \/ active'[CallOf[handling]] = handling
    BY <1>0, <1>1, <2>1 DEF Reserve, TypeOK
  <2>7. QED
    BY <2>2, <2>3, <2>4, <2>5, <2>6
<1>2. ASSUME NEW j \in Keys, Finish(j),
             \A k \in Keys \ {j} : invite'[k] = invite[k]
      PROVE  LiveCallInTable'
  BY <1>0, <1>2, KeysAssumption DEF Finish, TypeOK
<1>3. ASSUME NEW k \in Keys, Cancel(k) PROVE LiveCallInTable'
  BY <1>0, <1>2, <1>3 DEF Cancel, Respond, TypeOK
<1>4. ASSUME NEW k \in Keys, AppEnds(k) \/ AckTimeout(k) PROVE LiveCallInTable'
  BY <1>2, <1>4 DEF AppEnds, AckTimeout
<1>5. ASSUME NEW k \in Keys, PeerBye(k) PROVE LiveCallInTable'
  <2>1. active[CallOf[k]] \in Keys
    BY <1>0, <1>5, KeysAssumption DEF PeerBye, TypeOK
  <2>2. QED
    BY <1>2, <1>5, <2>1 DEF PeerBye
<1>6. ASSUME NEW k \in Keys, invite[k] = "pending" \/ UNCHANGED invite,
             \A j \in Keys \ {k} : invite'[j] = invite[j], UNCHANGED <<active, done>>
      PROVE  LiveCallInTable'
  BY <1>6
<1>7. ASSUME NEW k \in Keys, Answer(k) \/ Reject(k) PROVE LiveCallInTable'
  BY <1>0, <1>2, <1>6, <1>7 DEF Answer, Reject, Respond, TypeOK
<1>8. ASSUME NEW k \in Keys, Ack(k) PROVE LiveCallInTable'
  BY <1>0, <1>8 DEF Ack, TypeOK
<1>9. CASE Close
  BY <1>0, <1>9, KeysAssumption DEF Close, TypeOK
<1>10. ASSUME UNCHANGED <<invite, active, done>> PROVE LiveCallInTable'
  BY <1>10
<1>11. QED
  BY <1>1, <1>3, <1>4, <1>5, <1>7, <1>8, <1>9, <1>10
     DEF Next, App, InviteArrives, Refuse, Expire, Dequeue, DialStarts, OutgoingEnds,
         LateAnswer, LateAnswerHungUp, vars

\* ACK and BYE find every established call through its Call-ID, whatever else
\* arrives, on an account that takes one call at a time, and on any account as
\* long as no dialog gets a re-INVITE.  Without the hypothesis it is false.
THEOREM CallStaysReachable ==
    ASSUME NoReplacement PROVE Spec => []EstablishedCallIsReachable
<1>1. Init => LiveCallInTable
  BY DEF Init, LiveCallInTable
<1>2. LiveCallInTable => EstablishedCallIsReachable
  BY DEF LiveCallInTable, EstablishedCallIsReachable
<1>3. IncInv /\ LiveCallInTable /\ [Next]_vars => LiveCallInTable'
  BY ReachableStep
<1>4. QED
  BY <1>1, <1>2, <1>3, IncInitInv, IncStepInv, PTL DEF Spec
=============================================================================
