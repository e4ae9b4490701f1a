--------------------------- MODULE DialForkProofs ---------------------------
(***************************************************************************)
(* Proofs about DialFork, for any finite set of legs: once LosersDone is   *)
(* closed no leg but the winner is left, the drain never takes the winner, *)
(* and DialFirst with its drain implements LegRace.                        *)
(***************************************************************************)
EXTENDS DialFork, FiniteSetTheorems, TLAPS

\* The leg's result waits in the channel.
Queued(l) == \E i \in 1..Len(results) : results[i] = l

\* The legs whose result neither DialFirst nor the drain has taken yet.
Pending == {l \in Legs : dial[l] # "sent" \/ Queued(l)}

\* Every leg sends one result, and remaining counts the results still to come:
\* why the drain may stop at zero.
CountInv ==
    /\ \A i, j \in 1..Len(results) : results[i] = results[j] => i = j
    /\ \A i \in 1..Len(results) : dial[results[i]] = "sent"
    /\ remaining = Cardinality(Pending)

\* A leg holds a socket from the reservation to its failure or hang-up, and a
\* dialog only once Dial has returned it.
LegInv ==
    \A l \in Legs :
        /\ dial[l] \in {"idle", "spawned", "dialing"} => dialog[l] = "none"
        /\ dial[l] = "dialing" => socket[l]
        /\ dial[l] # "dialing" /\ dialog[l] = "none" => ~socket[l]
        /\ dialog[l] # "none" /\ l # winner /\ hangup[l] # "done" => socket[l]

\* A result that was taken belongs to a leg that failed, to the winner, or to a
\* leg that the drain hangs up.
TakenInv ==
    \A l \in Legs :
        /\ hangup[l] # "none" => dialog[l] # "none" /\ l \notin Pending /\ l # winner
        /\ hangup[l] \in {"close", "done"} => dialog[l] = "ended"
        /\ hangup[l] = "done" => ~socket[l]
        /\ l \notin Pending /\ dialog[l] # "none" /\ l # winner => hangup[l] # "none"

\* How DialFirst, the drain and the runner move together.
PhaseInv ==
    /\ main = "start" => \A l \in Legs : dial[l] = "idle"
    /\ ~Returned => winner = NoLeg /\ drain = "none" /\ runner = "dial"
    /\ drain = "none" => ~Returned /\ \A l \in Legs : hangup[l] = "none"
    /\ winner # NoLeg => winner \notin Pending /\ dialog[winner] # "none" /\ main = "won"
    /\ main = "won" => winner # NoLeg
    /\ runner \in {"call", "ending"} => main = "won"
    /\ runner = "call" => socket[winner]
    /\ drain = "done" =>
          /\ (\A l \in Legs : dial[l] = "idle") \/ Pending = {}
          /\ \A l \in Legs : hangup[l] \in {"none", "done"}

ForkInv == TypeOK /\ CountInv /\ LegInv /\ TakenInv /\ PhaseInv

-----------------------------------------------------------------------------
\* The channel holds no leg twice, so it never holds more than its capacity.
LEMMA ChannelHasRoom ==
  ASSUME NEW q \in Seq(Legs), \A i, j \in 1..Len(q) : q[i] = q[j] => i = j
  PROVE  Len(q) <= Cardinality(Legs)
<1>1. Len(q) \in Nat /\ q \in [1..Len(q) -> Legs]
  OBVIOUS
<1>2. q \in Injection(1..Len(q), Legs)
  BY <1>1 DEF Injection, IsInjective
<1>3. Cardinality(1..Len(q)) <= Cardinality(Legs)
  BY <1>2, LegsAssumption, FS_Injection
<1>4. Cardinality(1..Len(q)) = Len(q)
  BY <1>1, FS_Interval
<1>5. QED
  BY <1>3, <1>4

\* Taking the head of the channel takes one leg out of Pending.
LEMMA TakeResult ==
  ASSUME TypeOK, CountInv, results # <<>>, results' = Tail(results), dial' = dial,
         remaining' = remaining - 1
  PROVE  /\ Head(results) \in Pending /\ Head(results) \in Legs
         /\ Pending' = Pending \ {Head(results)}
         /\ CountInv'
         /\ remaining' \in 0..Cardinality(Legs) /\ results' \in Seq(Legs)
         /\ Len(results') <= Cardinality(Legs)
<1> DEFINE h == Head(results)
<1>1. /\ Len(results) \in Nat /\ Len(results) > 0 /\ h = results[1] /\ h \in Legs
      /\ results' \in Seq(Legs) /\ Len(results') = Len(results) - 1
      /\ \A i \in 1..Len(results') : results'[i] = results[i + 1]
  BY DEF TypeOK
<1>2. \A l \in Legs : Queued(l)' <=> Queued(l) /\ l # h
  <2> TAKE l \in Legs
  <2>1. ASSUME Queued(l)' PROVE Queued(l) /\ l # h
    <3>1. PICK i \in 1..Len(results') : results'[i] = l
      BY <2>1 DEF Queued
    <3>2. i + 1 \in 1..Len(results) /\ results[i + 1] = l /\ i + 1 # 1
      BY <1>1, <3>1
    <3>3. l # results[1]
      BY <1>1, <3>2 DEF CountInv
    <3>4. QED
      BY <1>1, <3>2, <3>3 DEF Queued
  <2>2. ASSUME Queued(l), l # h PROVE Queued(l)'
    <3>1. PICK i \in 1..Len(results) : results[i] = l
      BY <2>2 DEF Queued
    <3>2. i # 1
      BY <1>1, <2>2, <3>1
    <3>3. i - 1 \in 1..Len(results') /\ results'[i - 1] = l
      BY <1>1, <3>1, <3>2
    <3>4. QED
      BY <3>3 DEF Queued
  <2>3. QED
    BY <2>1, <2>2
<1>3. dial[h] = "sent" /\ Queued(h)
  BY <1>1 DEF CountInv, Queued
<1>4. h \in Pending /\ Pending' = Pending \ {h}
  BY <1>1, <1>2, <1>3 DEF Pending
<1>5. IsFiniteSet(Pending)
  BY LegsAssumption, FS_Subset DEF Pending
<1>6. Cardinality(Pending') = Cardinality(Pending) - 1
  BY <1>4, <1>5, FS_RemoveElement
<1>7. Cardinality(Pending) \in Nat /\ Cardinality(Pending) # 0
  BY <1>4, <1>5, FS_CardinalityType, FS_EmptySet
<1>8. \A i, j \in 1..Len(results') : results'[i] = results'[j] => i = j
  BY <1>1 DEF CountInv
<1>9. \A i \in 1..Len(results') : dial'[results'[i]] = "sent"
  BY <1>1 DEF CountInv
<1>10. remaining' \in 0..Cardinality(Legs) /\ Len(results') <= Cardinality(Legs)
  BY <1>1, <1>7, FS_CardinalityType, LegsAssumption DEF TypeOK, CountInv
<1>11. QED
  BY <1>1, <1>4, <1>6, <1>8, <1>9, <1>10 DEF CountInv

\* A leg that sends its result stays in Pending: only where it waits changes.
LEMMA SendResult ==
  ASSUME TypeOK, CountInv, NEW l \in Legs, LegSends(l)
  PROVE  /\ CountInv' /\ Pending' = Pending
         /\ results' \in Seq(Legs) /\ Len(results') <= Cardinality(Legs)
<1>1. /\ Len(results) \in Nat /\ results' \in Seq(Legs)
      /\ Len(results') = Len(results) + 1
      /\ \A i \in 1..Len(results) : results'[i] = results[i] /\ results[i] \in Legs
      /\ results'[Len(results) + 1] = l
  BY DEF TypeOK, LegSends
<1>2. dial'[l] = "sent" /\ \A m \in Legs \ {l} : dial'[m] = dial[m]
  BY DEF TypeOK, LegSends
<1>3. \A i \in 1..Len(results) : results[i] # l
  BY DEF CountInv, LegSends
<1>4. \A m \in Legs : Queued(m)' <=> Queued(m) \/ m = l
  BY <1>1 DEF Queued
<1>5. Pending' = Pending
  BY <1>2, <1>4 DEF Pending, LegSends
<1>6. \A i, j \in 1..Len(results') : results'[i] = results'[j] => i = j
  BY <1>1, <1>3 DEF CountInv
<1>7. \A i \in 1..Len(results') : dial'[results'[i]] = "sent"
  BY <1>1, <1>2, <1>3 DEF CountInv
<1>8. Len(results') <= Cardinality(Legs)
  BY <1>1, <1>6, ChannelHasRoom
<1>9. QED
  BY <1>1, <1>5, <1>6, <1>7, <1>8 DEF CountInv, LegSends

\* A step that leaves the channel alone and no sent leg unsent, as long as
\* no leg sends.
LEMMA ChannelAlone ==
  ASSUME TypeOK, CountInv, UNCHANGED <<results, remaining>>,
         \A l \in Legs : dial'[l] = "sent" <=> dial[l] = "sent"
  PROVE  CountInv' /\ Pending' = Pending
<1>1. \A l \in Legs : Queued(l)' <=> Queued(l)
  BY DEF Queued
<1>2. Pending' = Pending
  BY <1>1 DEF Pending
<1>3. \A i \in 1..Len(results) : results[i] \in Legs
  BY DEF TypeOK
<1>4. QED
  BY <1>2, <1>3 DEF CountInv

-----------------------------------------------------------------------------
\* ForkInv holds when DialFirst starts its goroutines: every result is still
\* to come.
LEMMA ForkInit == Init => ForkInv
<1> SUFFICES ASSUME Init PROVE ForkInv
  OBVIOUS
<1>1. Pending = Legs
  BY DEF Init, Pending
<1>2. Cardinality(Legs) \in Nat
  BY LegsAssumption, FS_CardinalityType
<1>3. TypeOK
  <2>1. /\ remaining \in 0..Cardinality(Legs) /\ results \in Seq(Legs)
        /\ Len(results) <= Cardinality(Legs)
    BY <1>2 DEF Init
  <2>2. QED
    BY <2>1 DEF Init, TypeOK
<1>4. CountInv
  BY <1>1 DEF Init, CountInv
<1>5. LegInv /\ TakenInv
  BY DEF Init, LegInv, TakenInv
<1>6. PhaseInv
  BY DEF Init, PhaseInv, Returned
<1>7. QED
  BY <1>3, <1>4, <1>5, <1>6 DEF ForkInv

\* Every action of DialFirst, the drain and the legs preserves ForkInv.
LEMMA ForkStep == ForkInv /\ [Next]_vars => ForkInv'
<1> SUFFICES ASSUME ForkInv, [Next]_vars PROVE ForkInv'
  OBVIOUS
<1> USE DEF ForkInv
<1>1. ASSUME StartDone PROVE ForkInv'
  <2>1. CountInv' /\ Pending' = Pending
    BY <1>1, ChannelAlone DEF StartDone
  <2>2. QED
    BY <1>1, <2>1 DEF StartDone, TypeOK, LegInv, TakenInv, PhaseInv, Returned
<1>2. ASSUME Spawn PROVE ForkInv'
  <2>1. CountInv' /\ Pending' = Pending
    BY <1>2, ChannelAlone DEF Spawn, PhaseInv
  <2>2. QED
    BY <1>2, <2>1 DEF Spawn, TypeOK, LegInv, TakenInv, PhaseInv, Returned
<1>3. ASSUME ReceiveFailure PROVE ForkInv'
  <2>1. /\ Head(results) \in Pending
        /\ Pending' = Pending \ {Head(results)}
        /\ CountInv'
        /\ remaining' \in 0..Cardinality(Legs) /\ results' \in Seq(Legs)
        /\ Len(results') <= Cardinality(Legs)
    BY <1>3, TakeResult DEF ReceiveFailure
  <2>2. remaining = 1 => Pending' = {}
    <3>1. IsFiniteSet(Pending')
      BY LegsAssumption, FS_Subset DEF Pending
    <3>2. remaining = 1 => Cardinality(Pending') = 0
      BY <1>3, <2>1 DEF ReceiveFailure, CountInv
    <3>3. QED
      BY <3>1, <3>2, FS_EmptySet
  <2>3. LegInv' /\ TakenInv'
    BY <1>3, <2>1 DEF ReceiveFailure, LegInv, TakenInv
  <2>4. PhaseInv'
    BY <1>3, <2>1, <2>2 DEF ReceiveFailure, PhaseInv, Returned
  <2>5. TypeOK'
    BY <1>3, <2>1 DEF ReceiveFailure, TypeOK
  <2>6. QED
    BY <2>1, <2>3, <2>4, <2>5
<1>4. ASSUME ReceiveWinner PROVE ForkInv'
  <2>1. /\ Head(results) \in Pending /\ Head(results) \in Legs
        /\ Pending' = Pending \ {Head(results)}
        /\ CountInv'
        /\ remaining' \in 0..Cardinality(Legs) /\ results' \in Seq(Legs)
        /\ Len(results') <= Cardinality(Legs)
    BY <1>4, TakeResult DEF ReceiveWinner
  <2>2. winner = NoLeg /\ drain = "none" /\ NoLeg \notin Legs
    BY <1>4, LegsAssumption DEF ReceiveWinner, PhaseInv, Returned
  <2>3. \A l \in Legs : hangup[l] = "none"
    BY <2>2 DEF PhaseInv
  <2>4. LegInv' /\ TakenInv'
    BY <1>4, <2>1, <2>2, <2>3 DEF ReceiveWinner, LegInv, TakenInv
  <2>5. PhaseInv'
    BY <1>4, <2>1, <2>2, <2>3 DEF ReceiveWinner, PhaseInv, Returned, LegInv
  <2>6. TypeOK'
    BY <1>4, <2>1 DEF ReceiveWinner, TypeOK
  <2>7. QED
    BY <2>1, <2>4, <2>5, <2>6
<1>5. ASSUME SelectDone PROVE ForkInv'
  <2>1. CountInv' /\ Pending' = Pending
    BY <1>5, ChannelAlone DEF SelectDone
  <2>2. QED
    BY <1>5, <2>1 DEF SelectDone, TypeOK, LegInv, TakenInv, PhaseInv, Returned
<1>6. ASSUME DrainPull PROVE ForkInv'
  <2> DEFINE h == Head(results)
  <2>1. /\ h \in Pending /\ h \in Legs
        /\ Pending' = Pending \ {h}
        /\ CountInv'
        /\ remaining' \in 0..Cardinality(Legs) /\ results' \in Seq(Legs)
        /\ Len(results') <= Cardinality(Legs)
    BY <1>6, TakeResult DEF DrainPull
  <2>2. TypeOK'
    BY <1>6, <2>1 DEF DrainPull, TypeOK
  <2>3. h # winner /\ hangup[h] = "none"
    BY <2>1, LegsAssumption DEF PhaseInv, TakenInv
  <2>4. LegInv'
    BY <1>6, <2>1, <2>3 DEF DrainPull, LegInv, TypeOK
  <2>5. TakenInv'
    BY <1>6, <2>1, <2>3 DEF DrainPull, TakenInv, TypeOK
  <2>6. PhaseInv'
    BY <1>6, <2>1, <2>3 DEF DrainPull, PhaseInv, Returned, TypeOK
  <2>7. QED
    BY <2>1, <2>2, <2>4, <2>5, <2>6
<1>7. ASSUME DrainEnds PROVE ForkInv'
  <2>1. CountInv' /\ Pending' = Pending
    BY <1>7, ChannelAlone DEF DrainEnds
  <2>2. Pending = {}
    <3>1. IsFiniteSet(Pending)
      BY LegsAssumption, FS_Subset DEF Pending
    <3>2. QED
      BY <1>7, <3>1, FS_EmptySet DEF DrainEnds, CountInv
  <2>3. QED
    BY <1>7, <2>1, <2>2 DEF DrainEnds, TypeOK, LegInv, TakenInv, PhaseInv, Returned
<1>8. ASSUME NEW l \in Legs, LoserBye(l) \/ LoserClose(l) PROVE ForkInv'
  <2>1. CountInv' /\ Pending' = Pending
    BY <1>8, ChannelAlone DEF LoserBye, LoserClose
  <2>2. TypeOK'
    BY <1>8 DEF LoserBye, LoserClose, TypeOK
  <2>3. hangup[l] # "none" /\ l # winner
    BY <1>8 DEF LoserBye, LoserClose, TakenInv
  <2>4. LegInv'
    BY <1>8, <2>3 DEF LoserBye, LoserClose, LegInv, TakenInv, TypeOK
  <2>5. TakenInv'
    BY <1>8, <2>1, <2>3 DEF LoserBye, LoserClose, TakenInv, TypeOK
  <2>6. PhaseInv'
    BY <1>8, <2>1, <2>3, LegsAssumption
       DEF LoserBye, LoserClose, PhaseInv, Returned, TypeOK
  <2>7. QED
    BY <2>1, <2>2, <2>4, <2>5, <2>6
<1>9. ASSUME NEW l \in Legs, LegReserve(l) \/ LegFails(l) \/ LegAnswered(l)
      PROVE  ForkInv'
  <2>1. CountInv' /\ Pending' = Pending
    BY <1>9, ChannelAlone DEF LegReserve, LegFails, LegAnswered, TypeOK
  <2>2. TypeOK'
    BY <1>9 DEF LegReserve, LegFails, LegAnswered, TypeOK
  <2>3. /\ l \in Pending /\ dial[l] # "idle" /\ dialog[l] = "none"
        /\ l # winner /\ hangup[l] = "none"
    BY <1>9, LegsAssumption
       DEF LegReserve, LegFails, LegAnswered, Pending, PhaseInv, TakenInv, LegInv
  <2>4. LegInv'
    <3>1. CASE LegReserve(l)
      BY <3>1, <2>3 DEF LegReserve, LegInv, TypeOK
    <3>2. CASE LegFails(l)
      BY <3>2, <2>3 DEF LegFails, LegInv, TypeOK
    <3>3. CASE LegAnswered(l)
      BY <3>3, <2>3 DEF LegAnswered, LegInv, TypeOK
    <3>4. QED
      BY <1>9, <3>1, <3>2, <3>3
  <2>5. TakenInv'
    BY <1>9, <2>1, <2>3 DEF LegReserve, LegFails, LegAnswered, TakenInv, TypeOK
  <2>6. PhaseInv'
    BY <1>9, <2>1, <2>3, LegsAssumption
       DEF LegReserve, LegFails, LegAnswered, PhaseInv, Returned, TypeOK
  <2>7. QED
    BY <2>1, <2>2, <2>4, <2>5, <2>6
<1>10. ASSUME NEW l \in Legs, LegSends(l) PROVE ForkInv'
  <2>1. /\ CountInv' /\ Pending' = Pending
        /\ results' \in Seq(Legs) /\ Len(results') <= Cardinality(Legs)
    BY <1>10, SendResult
  <2>2. QED
    BY <1>10, <2>1 DEF LegSends, TypeOK, LegInv, TakenInv, PhaseInv, Returned
<1>11. ASSUME MediaOver \/ WinnerEnds \/ RunnerReturns PROVE ForkInv'
  <2>1. CountInv' /\ Pending' = Pending
    BY <1>11, ChannelAlone DEF MediaOver, WinnerEnds, RunnerReturns
  <2>2. TypeOK'
    BY <1>11 DEF MediaOver, WinnerEnds, RunnerReturns, TypeOK
  <2>3. LegInv' /\ TakenInv'
    <3>1. \A l \in Legs : l = winner => dial[l] = "sent" /\ dialog[l] # "none"
      BY LegsAssumption DEF PhaseInv, Pending
    <3>2. CASE MediaOver
      BY <3>1, <3>2, <2>1 DEF MediaOver, LegInv, TakenInv, TypeOK
    <3>3. CASE WinnerEnds
      BY <3>1, <3>3, <2>1 DEF WinnerEnds, LegInv, TakenInv, TypeOK
    <3>4. CASE RunnerReturns
      BY <3>1, <3>4, <2>1 DEF RunnerReturns, LegInv, TakenInv, TypeOK
    <3>5. QED
      BY <1>11, <3>2, <3>3, <3>4
  <2>4. PhaseInv'
    BY <1>11, <2>1 DEF MediaOver, WinnerEnds, RunnerReturns, PhaseInv, Returned, TypeOK
  <2>5. QED
    BY <2>1, <2>2, <2>3, <2>4
<1>12. ASSUME NEW l \in Legs, PeerBye(l) PROVE ForkInv'
  <2>1. CountInv' /\ Pending' = Pending
    BY <1>12, ChannelAlone DEF PeerBye
  <2>2. QED
    BY <1>12, <2>1 DEF PeerBye, TypeOK, LegInv, TakenInv, PhaseInv, Returned
<1>13. ASSUME RingOver \/ UNCHANGED vars PROVE ForkInv'
  <2>1. CountInv' /\ Pending' = Pending
    BY <1>13, ChannelAlone DEF RingOver, vars
  <2>2. TypeOK'
    BY <1>13 DEF RingOver, vars, TypeOK
  <2>3. QED
    BY <1>13, <2>1, <2>2 DEF RingOver, vars, LegInv, TakenInv, PhaseInv, Returned
<1>14. QED
  BY <1>1, <1>2, <1>3, <1>4, <1>5, <1>6, <1>7, <1>8, <1>9, <1>10, <1>11, <1>12,
     <1>13 DEF Next, DialFirst, Drain, LegStep, DialReturns

\* The state of the fork keeps its types: what DialFirst counts never goes below
\* zero, and the channel, made for one result of every leg, is never asked to
\* hold more, so that no leg blocks on its send whoever has stopped receiving.
THEOREM ForkTypeOK == Spec => []TypeOK
<1>1. ForkInv => TypeOK
  BY DEF ForkInv
<1>2. QED
  BY <1>1, ForkInit, ForkStep, PTL DEF Spec

\* The property follows from ForkInv: once no result is to come, every leg
\* was taken by DialFirst or by the drain.
LEMMA NoOrphanFromInv == ForkInv => NoOrphanLeg
<1> SUFFICES ASSUME ForkInv, drain = "done", NEW l \in Legs, l # winner
             PROVE  dialog[l] # "up" /\ ~socket[l]
  BY DEF NoOrphanLeg
<1>1. CASE dial[l] = "idle"
  BY <1>1 DEF ForkInv, LegInv
<1>2. CASE Pending = {}
  <2>1. dial[l] = "sent" /\ l \notin Pending /\ hangup[l] \in {"none", "done"}
    BY <1>2 DEF Pending, ForkInv, PhaseInv
  <2>2. QED
    BY <2>1 DEF ForkInv, LegInv, TakenInv
<1>3. QED
  BY <1>1, <1>2 DEF ForkInv, PhaseInv

\* When LosersDone is closed every leg but the winner is gone, also one whose
\* 200 OK crossed the decision of DialFirst.
THEOREM NoLegIsOrphaned == Spec => []NoOrphanLeg
  BY ForkInit, ForkStep, NoOrphanFromInv, PTL DEF Spec

\* The drain never hangs up the winner, and its socket is open while the media
\* session runs.
THEOREM WinnerStaysWithCaller == Spec => []WinnerIsKept
<1>1. ForkInv => WinnerIsKept
  BY LegsAssumption DEF ForkInv, WinnerIsKept, TakenInv, PhaseInv, TypeOK
<1>2. QED
  BY <1>1, ForkInit, ForkStep, PTL DEF Spec

\* The same for the state after a step.
LEMMA NoOrphanNext == ForkInv /\ [Next]_vars => NoOrphanLeg'
<1>1. ForkInv' => NoOrphanLeg'
  BY NoOrphanFromInv, PTL
<1>2. QED
  BY <1>1, ForkStep

-----------------------------------------------------------------------------
\* The refinement mapping of Race, by name.
racePhase == IF Returned THEN "decided" ELSE "racing"
raceAnswered == {l \in Legs : dialog[l] # "none"}
raceLive == {l \in Legs : dialog[l] = "up"}
raceByed == {l \in Legs : hangup[l] \in {"close", "done"}}
              \cup (IF runner \in {"wait", "over"} THEN {winner} \ {NoLeg} ELSE {})
raceClean == drain = "done"

\* What a step of the fork has to do to be one of LegRace.
LEMMA RaceAnswered ==
  ASSUME NEW l \in Legs, ~raceClean, l \notin raceAnswered,
         raceAnswered' = raceAnswered \cup {l}, raceLive' = raceLive \cup {l},
         UNCHANGED <<racePhase, winner, raceByed, raceClean>>
  PROVE  Race!RaceNext
  BY DEF Race!RaceNext, Race!Answered, racePhase, raceAnswered, raceLive, raceByed,
         raceClean

\* The outcome of DialFirst and the choice of the winner are the step Decide
\* of LegRace.
LEMMA RaceDecide ==
  ASSUME NEW w \in Legs \cup {NoLeg}, racePhase = "racing",
         w \in raceAnswered \cup {NoLeg}, racePhase' = "decided", winner' = w,
         raceClean' => w = NoLeg /\ raceLive = {},
         UNCHANGED <<raceAnswered, raceLive, raceByed>>
  PROVE  Race!RaceNext
<1>1. raceClean' \in BOOLEAN
  BY DEF raceClean
<1>2. QED
  BY <1>1 DEF Race!RaceNext, Race!Decide, racePhase, raceAnswered, raceLive,
              raceByed, raceClean

\* Hanging up a losing dialog is the step Bye of LegRace.
LEMMA RaceBye ==
  ASSUME NEW l \in Legs, racePhase = "decided", raceLive' = raceLive \ {l},
         raceByed' = raceByed \cup {l},
         UNCHANGED <<racePhase, winner, raceAnswered, raceClean>>
  PROVE  Race!RaceNext
  BY DEF Race!RaceNext, Race!Bye, racePhase, raceAnswered, raceLive, raceByed,
         raceClean

\* A phone that hangs up first is a step of LegRace.
LEMMA RacePeerBye ==
  ASSUME NEW l \in Legs, l \in raceLive, raceLive' = raceLive \ {l},
         UNCHANGED <<racePhase, winner, raceAnswered, raceByed, raceClean>>
  PROVE  Race!RaceNext
  BY DEF Race!RaceNext, Race!PeerBye, racePhase, raceAnswered, raceLive, raceByed,
         raceClean

\* Closing the losers' channel, after the last result was collected, is a
\* step of LegRace.
LEMMA RaceLosersDone ==
  ASSUME racePhase = "decided", ~raceClean, raceLive \subseteq {winner},
         raceClean' = TRUE, UNCHANGED <<racePhase, winner, raceAnswered, raceLive, raceByed>>
  PROVE  Race!RaceNext
  BY DEF Race!RaceNext, Race!LosersDone, racePhase, raceAnswered, raceLive,
         raceByed, raceClean

raceMapped == <<racePhase, winner, raceAnswered, raceLive, raceByed, raceClean>>

\* Every step of the fork is a step of LegRace or invisible to it.
LEMMA RaceStep ==
  ForkInv /\ [Next]_vars => Race!RaceNext \/ UNCHANGED raceMapped
<1> SUFFICES ASSUME ForkInv, [Next]_vars
             PROVE  Race!RaceNext \/ UNCHANGED raceMapped
  OBVIOUS
<1> USE DEF ForkInv
<1>1. ASSUME StartDone \/ SelectDone PROVE Race!RaceNext
  <2>1. /\ racePhase = "racing" /\ racePhase' = "decided" /\ winner' = NoLeg
        /\ UNCHANGED <<raceAnswered, raceLive>>
    BY <1>1 DEF StartDone, SelectDone, racePhase, Returned, PhaseInv, raceAnswered,
                raceLive
  <2>2. raceByed' = raceByed
    BY <1>1 DEF StartDone, SelectDone, PhaseInv, Returned, raceByed
  <2>3. raceClean' => raceLive = {}
    BY <1>1 DEF StartDone, SelectDone, raceClean, raceLive, PhaseInv, LegInv
  <2>4. QED
    BY <2>1, <2>2, <2>3, RaceDecide
<1>2. ASSUME ReceiveWinner PROVE Race!RaceNext
  <2>1. Head(results) \in Legs
    BY <1>2 DEF ReceiveWinner, TypeOK
  <2>2. Head(results) \in raceAnswered
    BY <1>2, <2>1 DEF ReceiveWinner, raceAnswered
  <2>3. /\ racePhase = "racing" /\ racePhase' = "decided"
        /\ winner' = Head(results) /\ ~raceClean'
        /\ UNCHANGED <<raceAnswered, raceLive, raceByed>>
    BY <1>2 DEF ReceiveWinner, racePhase, Returned, PhaseInv, raceAnswered, raceLive,
                raceByed, raceClean
  <2>4. QED
    BY <2>1, <2>2, <2>3, RaceDecide
<1>3. ASSUME ReceiveFailure PROVE Race!RaceNext \/ UNCHANGED raceMapped
  <2>1. UNCHANGED <<raceAnswered, raceLive, raceByed, winner>> /\ winner = NoLeg
    BY <1>3 DEF ReceiveFailure, raceAnswered, raceLive, raceByed, PhaseInv, Returned
  <2>2. CASE remaining = 1
    <3>1. racePhase = "racing" /\ racePhase' = "decided" /\ raceClean'
      BY <1>3, <2>2 DEF ReceiveFailure, racePhase, Returned, raceClean
    <3>2. \A l \in Legs : l # winner
      BY <2>1, LegsAssumption
    <3>3. NoOrphanLeg'
      BY NoOrphanNext
    <3>4. raceLive = {}
      BY <1>3, <2>1, <3>1, <3>2, <3>3 DEF ReceiveFailure, NoOrphanLeg, raceLive, raceClean
    <3>5. QED
      BY <2>1, <3>1, <3>4, RaceDecide
  <2>3. CASE remaining # 1
    BY <1>3, <2>1, <2>3 DEF ReceiveFailure, racePhase, Returned, raceClean, raceMapped
  <2>4. QED
    BY <2>2, <2>3
<1>4. ASSUME DrainEnds PROVE Race!RaceNext
  <2>1. NoOrphanLeg'
    BY NoOrphanNext
  <2>2. /\ racePhase = "decided" /\ ~raceClean /\ raceClean' = TRUE
        /\ UNCHANGED <<racePhase, winner, raceAnswered, raceLive, raceByed>>
    BY <1>4 DEF DrainEnds, racePhase, Returned, PhaseInv, raceAnswered, raceLive,
                raceByed, raceClean
  <2>3. raceLive \subseteq {winner}
    BY <1>4, <2>1 DEF DrainEnds, NoOrphanLeg, raceLive
  <2>4. QED
    BY <2>2, <2>3, RaceLosersDone
<1>5. ASSUME NEW l \in Legs, LegAnswered(l) PROVE Race!RaceNext
  <2>1. dialog[l] = "none" /\ l \in Pending /\ ~raceClean
    BY <1>5 DEF LegAnswered, LegInv, Pending, PhaseInv, raceClean
  <2>2. /\ l \notin raceAnswered /\ raceAnswered' = raceAnswered \cup {l}
        /\ raceLive' = raceLive \cup {l}
    BY <1>5, <2>1 DEF LegAnswered, TypeOK, raceAnswered, raceLive
  <2>3. UNCHANGED <<racePhase, winner, raceByed, raceClean>>
    BY <1>5 DEF LegAnswered, racePhase, Returned, raceByed, raceClean
  <2>4. QED
    BY <2>1, <2>2, <2>3, RaceAnswered
<1>6. ASSUME NEW l \in Legs, LoserBye(l) PROVE Race!RaceNext
  <2>1. dialog[l] # "none" /\ drain # "none"
    BY <1>6 DEF LoserBye, TakenInv, PhaseInv
  <2>2. raceAnswered' = raceAnswered /\ raceLive' = raceLive \ {l}
    BY <1>6, <2>1 DEF LoserBye, TypeOK, raceAnswered, raceLive
  <2>3. raceByed' = raceByed \cup {l}
    BY <1>6 DEF LoserBye, TypeOK, raceByed
  <2>4. racePhase = "decided" /\ UNCHANGED <<racePhase, winner, raceClean>>
    BY <1>6, <2>1 DEF LoserBye, racePhase, Returned, PhaseInv, raceClean
  <2>5. QED
    BY <2>2, <2>3, <2>4, RaceBye
<1>7. ASSUME WinnerEnds PROVE Race!RaceNext
  <2>1. winner \in Legs /\ dialog[winner] # "none" /\ racePhase = "decided"
    BY <1>7 DEF WinnerEnds, PhaseInv, TypeOK, racePhase, Returned
  <2>2. raceAnswered' = raceAnswered /\ raceLive' = raceLive \ {winner}
    BY <1>7, <2>1 DEF WinnerEnds, TypeOK, raceAnswered, raceLive
  <2>3. raceByed' = raceByed \cup {winner}
    BY <1>7, <2>1, LegsAssumption DEF WinnerEnds, TypeOK, raceByed
  <2>4. UNCHANGED <<racePhase, winner, raceClean>>
    BY <1>7 DEF WinnerEnds, racePhase, Returned, raceClean
  <2>5. QED
    BY <2>1, <2>2, <2>3, <2>4, RaceBye
<1>8. ASSUME NEW l \in Legs, PeerBye(l) PROVE Race!RaceNext
  <2>1. /\ l \in raceLive /\ raceLive' = raceLive \ {l}
        /\ raceAnswered' = raceAnswered
    BY <1>8 DEF PeerBye, TypeOK, raceAnswered, raceLive
  <2>2. UNCHANGED <<racePhase, winner, raceByed, raceClean>>
    BY <1>8 DEF PeerBye, racePhase, Returned, raceByed, raceClean
  <2>3. QED
    BY <2>1, <2>2, RacePeerBye
<1>9. ASSUME NEW l \in Legs, LoserClose(l) PROVE UNCHANGED raceMapped
  <2>1. raceByed' = raceByed
    BY <1>9 DEF LoserClose, TypeOK, raceByed
  <2>2. QED
    BY <1>9, <2>1 DEF LoserClose, racePhase, Returned, raceAnswered, raceLive, raceClean,
                      raceMapped
<1>10. ASSUME NEW l \in Legs, LegReserve(l) \/ LegSends(l) \/ LegFails(l)
       PROVE  UNCHANGED raceMapped
  BY <1>10 DEF LegReserve, LegSends, LegFails, racePhase, Returned, raceAnswered,
               raceLive, raceByed, raceClean, raceMapped
<1>11. ASSUME DrainPull PROVE UNCHANGED raceMapped
  <2>1. Head(results) \in Legs /\ Head(results) \in Pending
    BY <1>11, TakeResult DEF DrainPull
  <2>2. hangup[Head(results)] = "none"
    BY <2>1 DEF TakenInv
  <2>3. raceByed' = raceByed
    BY <1>11, <2>1, <2>2 DEF DrainPull, TypeOK, raceByed
  <2>4. QED
    BY <1>11, <2>3 DEF DrainPull, racePhase, Returned, raceAnswered, raceLive, raceClean,
                       raceMapped
<1>12. ASSUME Spawn \/ MediaOver \/ RunnerReturns \/ RingOver \/ UNCHANGED vars
       PROVE  UNCHANGED raceMapped
  BY <1>12 DEF Spawn, MediaOver, RunnerReturns, RingOver, vars, racePhase, Returned,
               raceAnswered, raceLive, raceByed, raceClean, raceMapped
<1>13. QED
  BY <1>1, <1>2, <1>3, <1>4, <1>5, <1>6, <1>7, <1>8, <1>9, <1>10, <1>11, <1>12
     DEF Next, DialFirst, Drain, LegStep, DialReturns

\* DialFirst with its drain keeps the promise of LegRace: one answered leg or none
\* is chosen once, nothing is hung up before, and nobody answers after LosersDone.
THEOREM ForkImplementsRace == Spec => RaceSpec
<1>1. Init => Race!RaceInit
  BY DEF Init, Race!RaceInit, Returned
<1>2. ForkInv /\ [Next]_vars => [Race!RaceNext]_(Race!raceVars)
  BY RaceStep DEF Race!raceVars, raceMapped, racePhase, raceAnswered, raceLive, raceByed,
                  raceClean
<1>3. QED
  BY <1>1, <1>2, ForkInit, ForkStep, PTL DEF Spec, RaceSpec, Race!RaceSpec
=============================================================================
