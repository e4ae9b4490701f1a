-------------------------- MODULE HaListenerProofs --------------------------
(***************************************************************************)
(* RingsAtMostOnce and the types for any number of sensors and presses.    *)
(*                                                                         *)
(* A press can ring from two places: an unread event, and the edge         *)
(* detector of the fallback.  The invariant says that an unread event's    *)
(* press has not rung, and that a press that has rung while the sensor is  *)
(* still on is remembered as "on".  An answer may be stale when it is      *)
(* used, so the same is said of the press an answer shows.                 *)
(***************************************************************************)
EXTENDS HaListener, TLAPS

Started == {"pending", "on", "other", "failed"}

\* The part of TypeOK that the argument needs.
RingTypes ==
    /\ sensor \in [Entities -> States]
    /\ press \in [Entities -> Nat]
    /\ phase \in {"connect", "seed", "read", "poll", "wait"}
    /\ events \in Seq(Press)
    /\ answer \in [Entities -> {"pending", "on", "other", "failed", "used", "skipped"}]
    /\ seen \in [Entities -> Nat]
    /\ previous \in [Entities -> {"on", "other", "unset"}]

\* Presses that have not happened have not rung.
FutureIsSilent == \A e \in Entities : \A k \in Nat : k > press[e] => <<e, k>> \notin rung

\* Events belong to the subscription.
EventsAreSubscribed == phase \notin {"seed", "read"} => events = <<>>

\* Events are about presses that have happened and not rung.
EventsAreFresh ==
    \A i \in 1..Len(events) :
        events[i] \notin rung /\ events[i][2] <= press[events[i][1]]

\* Events differ from each other.
EventsDiffer == \A i, j \in 1..Len(events) : events[i] = events[j] => i = j

\* Requests are under way only while seeding or polling.
AnswersAreLocal ==
    phase \notin {"seed", "poll"} => \A e \in Entities : answer[e] \notin Started

\* The edge detector remembers the current press once it has rung.
CurrentIsRemembered ==
    \A e \in Entities : sensor[e] = "on" /\ <<e, press[e]>> \in rung => previous[e] = "on"

\* What an answer shows, however old, is consistent with the edge detector.
AnswersAreSafe ==
    \A e \in Entities :
        /\ answer[e] = "on" => seen[e] <= press[e]
        /\ answer[e] = "on" /\ phase = "poll" /\ <<e, seen[e]>> \in rung
             => previous[e] = "on"
        /\ answer[e] = "other" /\ sensor[e] = "on" => <<e, press[e]>> \notin rung

RingInv ==
    /\ RingTypes /\ RingsAtMostOnce /\ FutureIsSilent
    /\ EventsAreSubscribed /\ EventsAreFresh /\ EventsDiffer
    /\ AnswersAreLocal /\ CurrentIsRemembered /\ AnswersAreSafe

-----------------------------------------------------------------------------
\* No press has happened when the listener starts.
LEMMA RingInitInv == Init => RingInv
<1> SUFFICES ASSUME Init PROVE RingInv
  OBVIOUS
<1>1. RingTypes
  BY DEF Init, RingTypes, States
<1>2. RingsAtMostOnce /\ FutureIsSilent /\ CurrentIsRemembered /\ AnswersAreSafe
  BY DEF Init, RingsAtMostOnce, FutureIsSilent, CurrentIsRemembered, AnswersAreSafe
<1>3. EventsAreSubscribed /\ EventsAreFresh /\ EventsDiffer /\ AnswersAreLocal
  BY DEF Init, EventsAreSubscribed, EventsAreFresh, EventsDiffer, AnswersAreLocal, Started
<1>4. QED
  BY <1>1, <1>2, <1>3 DEF RingInv

\* The sensor of e changes: its new press is new to everything.
LEMMA SensorStep ==
    ASSUME RingInv, NEW e \in Entities, NEW s \in States, SensorChanges(e, s)
    PROVE  RingInv'
<1>1. /\ rung' = rung /\ again' = again /\ phase' = phase /\ answer' = answer
      /\ seen' = seen /\ previous' = previous
      /\ sensor' = [sensor EXCEPT ![e] = s]
      /\ \/ s = "on" /\ press' = [press EXCEPT ![e] = press[e] + 1]
         \/ s # "on" /\ press' = press
      /\ \/ events' = events
         \/ Subscribed /\ s = "on" /\ events' = Append(events, <<e, press[e] + 1>>)
  BY DEF SensorChanges, ringVars, RingInv, RingTypes
<1>2. RingTypes'
  <2>1. <<e, press[e] + 1>> \in Press
    BY DEF RingInv, RingTypes, Press
  <2>2. events \in Seq(Press) /\ Append(events, <<e, press[e] + 1>>) \in Seq(Press)
    <3>1. events \in Seq(Press)
      BY DEF RingInv, RingTypes
    <3>2. QED
      BY <2>1, <3>1
  <2>3. events' \in Seq(Press)
    BY <1>1, <2>2
  <2>4. sensor' \in [Entities -> States]
    BY <1>1 DEF RingInv, RingTypes
  <2>5. press' \in [Entities -> Nat]
    BY <1>1 DEF RingInv, RingTypes
  <2>6. QED
    BY <1>1, <2>3, <2>4, <2>5 DEF RingInv, RingTypes
<1>3. (RingsAtMostOnce /\ AnswersAreLocal)'
  BY <1>1 DEF RingInv, RingsAtMostOnce, AnswersAreLocal
<1>4. (FutureIsSilent /\ CurrentIsRemembered /\ AnswersAreSafe)'
  <2>1. \A x \in Entities : press[x] \in Nat /\ press'[x] \in Nat /\ press'[x] >= press[x]
    BY <1>1 DEF RingInv, RingTypes
  <2>2. \A x \in Entities : sensor'[x] = "on" =>
            \/ sensor[x] = "on" /\ press'[x] = press[x]
            \/ press'[x] > press[x]
    BY <1>1, <2>1 DEF RingInv, RingTypes
  <2>3. FutureIsSilent'
    BY <1>1, <2>1 DEF RingInv, FutureIsSilent
  <2>4. \A x \in Entities : press'[x] > press[x] => <<x, press'[x]>> \notin rung
    BY <2>1 DEF RingInv, FutureIsSilent
  <2>5. CurrentIsRemembered'
    BY <1>1, <2>2, <2>4 DEF RingInv, CurrentIsRemembered
  <2>6. AnswersAreSafe'
    <3> SUFFICES ASSUME NEW x \in Entities
                 PROVE  /\ answer[x] = "on" => seen[x] <= press'[x]
                        /\ answer[x] = "on" /\ phase = "poll" /\ <<x, seen[x]>> \in rung
                             => previous[x] = "on"
                        /\ answer[x] = "other" /\ sensor'[x] = "on"
                             => <<x, press'[x]>> \notin rung
      BY <1>1 DEF AnswersAreSafe
    <3>1. seen[x] \in Nat /\ press[x] \in Nat /\ press'[x] \in Nat /\ press'[x] >= press[x]
      BY <2>1 DEF RingInv, RingTypes
    <3>2. /\ answer[x] = "on" => seen[x] <= press[x]
          /\ answer[x] = "on" /\ phase = "poll" /\ <<x, seen[x]>> \in rung
               => previous[x] = "on"
          /\ answer[x] = "other" /\ sensor[x] = "on" => <<x, press[x]>> \notin rung
      BY DEF RingInv, AnswersAreSafe
    <3>3. sensor'[x] = "on" =>
            (sensor[x] = "on" /\ press'[x] = press[x]) \/ <<x, press'[x]>> \notin rung
      BY <2>2, <2>4
    <3>4. seen[x] <= press[x] => seen[x] <= press'[x]
      BY <3>1
    <3>5. QED
      BY <3>2, <3>3, <3>4
  <2>7. QED
    BY <2>3, <2>5, <2>6
<1>5. (EventsAreSubscribed /\ EventsAreFresh /\ EventsDiffer)'
  <2>1. \A i \in 1..Len(events) : events[i] \in Press
    BY DEF RingInv, RingTypes
  <2>2. \A i \in 1..Len(events) : events[i][2] <= press'[events[i][1]]
    <3> SUFFICES ASSUME NEW i \in 1..Len(events) PROVE events[i][2] <= press'[events[i][1]]
      OBVIOUS
    <3>1. PICK x \in Entities, k \in Nat : events[i] = <<x, k>>
      BY <2>1 DEF Press
    <3>2. k <= press[x]
      BY <3>1 DEF RingInv, EventsAreFresh
    <3>3. press[x] \in Nat /\ press'[x] \in Nat /\ press'[x] >= press[x]
      BY <1>1 DEF RingInv, RingTypes
    <3>4. QED
      BY <3>1, <3>2, <3>3
  <2>3. CASE events' = events
    BY <1>1, <2>3, <2>2 DEF RingInv, EventsAreSubscribed, EventsAreFresh, EventsDiffer
  <2>4. CASE Subscribed /\ s = "on" /\ events' = Append(events, <<e, press[e] + 1>>)
    <3>1. /\ Len(events') = Len(events) + 1 /\ Len(events) \in Nat
          /\ \A i \in 1..Len(events) : events'[i] = events[i]
          /\ events'[Len(events) + 1] = <<e, press[e] + 1>>
      BY <2>4 DEF RingInv, RingTypes
    <3>2. <<e, press[e] + 1>> \notin rung
      BY DEF RingInv, RingTypes, FutureIsSilent
    <3>3. \A i \in 1..Len(events) : events[i] # <<e, press[e] + 1>>
      BY <2>1 DEF RingInv, RingTypes, EventsAreFresh, Press
    <3>4. EventsAreSubscribed'
      BY <1>1, <2>4 DEF Subscribed, EventsAreSubscribed
    <3>5. EventsDiffer'
      BY <3>1, <3>3 DEF RingInv, EventsDiffer
    <3>6. press'[e] = press[e] + 1
      BY <1>1, <2>4 DEF RingInv, RingTypes
    <3>7. EventsAreFresh'
      <4> SUFFICES ASSUME NEW i \in 1..Len(events')
                   PROVE  events'[i] \notin rung' /\ events'[i][2] <= press'[events'[i][1]]
        BY DEF EventsAreFresh
      <4>1. CASE i = Len(events) + 1
        <5>1. events'[i] = <<e, press[e] + 1>> /\ press'[e] = press[e] + 1
          BY <3>1, <3>6, <4>1
        <5>2. press[e] + 1 <= press[e] + 1
          BY DEF RingInv, RingTypes
        <5>3. QED
          BY <1>1, <3>2, <5>1, <5>2
      <4>2. CASE i \in 1..Len(events)
        BY <1>1, <2>2, <3>1, <4>2 DEF RingInv, EventsAreFresh
      <4>3. QED
        BY <3>1, <4>1, <4>2
    <3>8. QED
      BY <3>4, <3>5, <3>7
  <2>5. QED
    BY <1>1, <2>3, <2>4
<1>6. QED
  BY <1>2, <1>3, <1>4, <1>5 DEF RingInv

\* An event is reported: its press has not rung, and is remembered.
LEMMA ReadStep == RingInv /\ ReadEvent => RingInv'
<1> SUFFICES ASSUME RingInv, ReadEvent PROVE RingInv'
  OBVIOUS
<1>1. events \in Seq(Press) /\ events # <<>>
  BY DEF RingInv, RingTypes, ReadEvent
<1>2. PICK x \in Entities, k \in Nat : Head(events) = <<x, k>>
  BY <1>1 DEF Press
<1>3. /\ events' = Tail(events)
      /\ previous' = [previous EXCEPT ![x] = "on"]
      /\ rung' = rung \cup {<<x, k>>}
      /\ again' = again \cup ({<<x, k>>} \cap rung)
      /\ phase = "read" /\ phase' = "read"
      /\ sensor' = sensor /\ press' = press /\ answer' = answer /\ seen' = seen
  <2>1. Head(events)[1] = x /\ Head(events)[2] = k
    BY <1>2
  <2>2. /\ rung' = rung \cup {<<x, k>>}
        /\ again' = again \cup ({<<x, k>>} \cap rung)
    BY <2>1, Zenon DEF ReadEvent, EmitTrigger
  <2>3. previous' = [previous EXCEPT ![x] = "on"]
    BY <2>1 DEF ReadEvent
  <2>4. QED
    BY <2>2, <2>3 DEF ReadEvent, sensorVars
<1>4. events' \in Seq(Press) /\ Len(events) \in Nat \ {0} /\ Len(events') = Len(events) - 1
  BY <1>1, <1>3
<1>5. \A i \in 1..Len(events') : events'[i] = events[i + 1] /\ i + 1 \in 1..Len(events)
  BY <1>1, <1>3, <1>4
<1>6. <<x, k>> = events[1] /\ 1 \in 1..Len(events)
  BY <1>1, <1>2, <1>4
<1>7. <<x, k>> \notin rung /\ k <= press[x]
  BY <1>6 DEF RingInv, EventsAreFresh
<1>8. RingTypes'
  <2>1. previous' \in [Entities -> {"on", "other", "unset"}]
    BY <1>3 DEF RingInv, RingTypes
  <2>2. QED
    BY <1>3, <1>4, <2>1 DEF RingInv, RingTypes
<1>9. RingsAtMostOnce'
  BY <1>3, <1>7 DEF RingInv, RingsAtMostOnce
<1>10. FutureIsSilent'
  BY <1>3, <1>7 DEF RingInv, RingTypes, FutureIsSilent
<1>11. EventsAreSubscribed'
  BY <1>3 DEF EventsAreSubscribed
<1>12. EventsDiffer'
  BY <1>4, <1>5 DEF RingInv, EventsDiffer
<1>13. EventsAreFresh'
  <2> SUFFICES ASSUME NEW i \in 1..Len(events')
               PROVE  events'[i] \notin rung' /\ events'[i][2] <= press'[events'[i][1]]
    BY DEF EventsAreFresh
  <2>1. events'[i] = events[i + 1] /\ i + 1 \in 1..Len(events) /\ i + 1 # 1
    BY <1>4, <1>5
  <2>2. events'[i] # <<x, k>>
    BY <1>6, <2>1 DEF RingInv, EventsDiffer
  <2>3. QED
    BY <1>3, <2>1, <2>2 DEF RingInv, EventsAreFresh
<1>14. AnswersAreLocal' /\ \A y \in Entities : answer[y] \notin Started
  BY <1>3 DEF RingInv, AnswersAreLocal
<1>15. AnswersAreSafe'
  BY <1>3, <1>14 DEF AnswersAreSafe, Started
<1>16. CurrentIsRemembered'
  <2> SUFFICES ASSUME NEW y \in Entities, sensor[y] = "on", <<y, press[y]>> \in rung'
               PROVE  previous'[y] = "on"
    BY <1>3 DEF CurrentIsRemembered
  <2>1. previous \in [Entities -> {"on", "other", "unset"}]
    BY DEF RingInv, RingTypes
  <2>2. CASE y = x
    BY <1>3, <2>1, <2>2
  <2>3. CASE y # x
    BY <1>3, <2>1, <2>3 DEF RingInv, CurrentIsRemembered
  <2>4. QED
    BY <2>2, <2>3
<1>17. QED
  BY <1>8, <1>9, <1>10, <1>11, <1>12, <1>13, <1>14, <1>15, <1>16 DEF RingInv

\* A REST answer is used, by the seed or by the edge detector.
LEMMA AnswerStep ==
    ASSUME RingInv, NEW e \in Entities, Seed(e) \/ AcceptState(e)
    PROVE  RingInv'
<1>1. /\ phase' = phase /\ phase \in {"seed", "poll"} /\ events' = events
      /\ sensor' = sensor /\ press' = press
      /\ answer[e] \in {"on", "other", "failed"}
      /\ answer' = [answer EXCEPT ![e] = IF answer[e] = "failed" THEN "skipped" ELSE "used"]
      /\ seen' = [seen EXCEPT ![e] = 0]
      /\ previous' = [previous EXCEPT ![e] = IF answer[e] = "failed" THEN previous[e]
                                             ELSE answer[e]]
  BY DEF Seed, AcceptState, Use, Fetched, sensorVars, RingInv, RingTypes
<1>2. \/ rung' = rung /\ again' = again
      \/ /\ phase = "poll" /\ answer[e] = "on" /\ previous[e] = "other"
         /\ rung' = rung \cup {<<e, seen[e]>>}
         /\ again' = again \cup ({<<e, seen[e]>>} \cap rung)
  BY DEF Seed, AcceptState, NoTrigger, EmitTrigger, ringVars
<1>3. seen[e] \in Nat /\ press[e] \in Nat /\ previous \in [Entities -> {"on", "other", "unset"}]
  BY DEF RingInv, RingTypes
<1>4. answer[e] = "on" => seen[e] <= press[e]
  BY DEF RingInv, AnswersAreSafe
<1>5. rung' # rung => <<e, seen[e]>> \notin rung /\ phase = "poll" /\ answer[e] = "on"
  BY <1>2 DEF RingInv, AnswersAreSafe
<1>6. /\ again' = again
      /\ \/ rung' = rung
         \/ answer[e] = "on" /\ phase = "poll" /\ rung' = rung \cup {<<e, seen[e]>>}
  BY <1>2, <1>5 DEF RingInv, AnswersAreSafe
<1>7. \A y \in Entities : y # e => /\ answer'[y] = answer[y] /\ seen'[y] = seen[y]
                                  /\ previous'[y] = previous[y]
  BY <1>1 DEF RingInv, RingTypes
<1>8. /\ answer'[e] \in {"used", "skipped"}
      /\ answer[e] # "failed" => previous'[e] = answer[e]
      /\ answer[e] = "failed" => previous'[e] = previous[e]
  BY <1>1 DEF RingInv, RingTypes
<1>9. RingTypes'
  BY <1>1 DEF RingInv, RingTypes
<1>10. RingsAtMostOnce' /\ EventsAreSubscribed' /\ EventsDiffer' /\ AnswersAreLocal'
  BY <1>1, <1>6 DEF RingInv, RingsAtMostOnce, EventsAreSubscribed, EventsDiffer,
      AnswersAreLocal
<1>11. FutureIsSilent'
  BY <1>1, <1>3, <1>4, <1>6 DEF RingInv, FutureIsSilent
<1>12. EventsAreFresh'
  <2>1. CASE rung' = rung
    BY <1>1, <2>1 DEF RingInv, EventsAreFresh
  <2>2. CASE phase = "poll"
    BY <1>1, <2>2 DEF RingInv, EventsAreSubscribed, EventsAreFresh
  <2>3. QED
    BY <1>6, <2>1, <2>2
<1>13. CurrentIsRemembered'
  <2> SUFFICES ASSUME NEW y \in Entities, sensor[y] = "on", <<y, press[y]>> \in rung'
               PROVE  previous'[y] = "on"
    BY <1>1 DEF CurrentIsRemembered
  <2>1. CASE y # e
    BY <1>6, <1>7, <2>1 DEF RingInv, CurrentIsRemembered
  <2>2. CASE y = e
    BY <1>1, <1>6, <1>8, <2>2 DEF RingInv, CurrentIsRemembered, AnswersAreSafe
  <2>3. QED
    BY <2>1, <2>2
<1>14. AnswersAreSafe'
  <2> SUFFICES ASSUME NEW y \in Entities
               PROVE  /\ answer'[y] = "on" => seen'[y] <= press[y]
                      /\ answer'[y] = "on" /\ phase = "poll" /\ <<y, seen'[y]>> \in rung'
                           => previous'[y] = "on"
                      /\ answer'[y] = "other" /\ sensor[y] = "on"
                           => <<y, press[y]>> \notin rung'
    BY <1>1 DEF AnswersAreSafe
  <2>1. CASE y # e
    BY <1>6, <1>7, <2>1 DEF RingInv, AnswersAreSafe
  <2>2. CASE y = e
    BY <1>8, <2>2
  <2>3. QED
    BY <2>1, <2>2
<1>15. QED
  BY <1>9, <1>10, <1>11, <1>12, <1>13, <1>14 DEF RingInv

\* A request is answered or fails: what it shows is current at that moment.
LEMMA FetchStep ==
    ASSUME RingInv, NEW e \in Entities, FetchState(e)
    PROVE  RingInv'
<1>1. /\ phase' = phase /\ events' = events /\ sensor' = sensor /\ press' = press
      /\ previous' = previous /\ rung' = rung /\ again' = again
      /\ answer[e] = "pending"
  BY DEF FetchState, sensorVars, ringVars
<1>2. \/ /\ sensor[e] = "on" /\ answer' = [answer EXCEPT ![e] = "on"]
         /\ seen' = [seen EXCEPT ![e] = press[e]]
      \/ /\ sensor[e] # "on" /\ answer' = [answer EXCEPT ![e] = "other"] /\ seen' = seen
      \/ answer' = [answer EXCEPT ![e] = "failed"] /\ seen' = seen
  BY DEF FetchState
<1>3. RingTypes'
  BY <1>1, <1>2 DEF RingInv, RingTypes
<1>4. /\ RingsAtMostOnce' /\ FutureIsSilent' /\ EventsAreSubscribed' /\ EventsAreFresh'
      /\ EventsDiffer' /\ CurrentIsRemembered'
  BY <1>1 DEF RingInv, RingsAtMostOnce, FutureIsSilent, EventsAreSubscribed,
      EventsAreFresh, EventsDiffer, CurrentIsRemembered
<1>5. AnswersAreLocal'
  BY <1>1 DEF RingInv, AnswersAreLocal, Started
<1>6. AnswersAreSafe'
  <2> SUFFICES ASSUME NEW y \in Entities
               PROVE  /\ answer'[y] = "on" => seen'[y] <= press[y]
                      /\ answer'[y] = "on" /\ phase = "poll" /\ <<y, seen'[y]>> \in rung
                           => previous[y] = "on"
                      /\ answer'[y] = "other" /\ sensor[y] = "on"
                           => <<y, press[y]>> \notin rung
    BY <1>1 DEF AnswersAreSafe
  <2>1. CASE y # e
    <3>1. answer'[y] = answer[y] /\ seen'[y] = seen[y]
      BY <1>2, <2>1 DEF RingInv, RingTypes
    <3>2. QED
      BY <3>1 DEF RingInv, AnswersAreSafe
  <2>2. CASE y = e
    <3>1. \/ sensor[e] = "on" /\ answer'[e] = "on" /\ seen'[e] = press[e]
          \/ sensor[e] # "on" /\ answer'[e] = "other"
          \/ answer'[e] = "failed"
      BY <1>2 DEF RingInv, RingTypes
    <3>2. press[e] \in Nat
      BY DEF RingInv, RingTypes
    <3>3. QED
      BY <2>2, <3>1, <3>2 DEF RingInv, CurrentIsRemembered
  <2>3. QED
    BY <2>1, <2>2
<1>7. QED
  BY <1>3, <1>4, <1>5, <1>6 DEF RingInv

\* The steps of Run itself: the phase changes, answers are asked for or
\* forgotten, and events can only be lost.
LEMMA PhaseStep ==
    RingInv /\ (Connect \/ FallBack \/ SeedDone \/ PollDone \/ PollAgain \/ PollDeadline)
        => RingInv'
<1> SUFFICES ASSUME RingInv,
                    Connect \/ FallBack \/ SeedDone \/ PollDone \/ PollAgain \/ PollDeadline
             PROVE  RingInv'
  OBVIOUS
<1>1. /\ sensor' = sensor /\ press' = press /\ previous' = previous
      /\ rung' = rung /\ again' = again /\ seen' = seen
      /\ phase' \in {"connect", "seed", "read", "poll", "wait"}
  BY DEF Connect, FallBack, SeedDone, PollDone, PollAgain, PollDeadline, StartFetch,
      ForgetAnswers, sensorVars, ringVars
<1>2. \/ answer' = [y \in Entities |-> "pending"] /\ phase' \in {"seed", "poll"}
      \/ answer' = [y \in Entities |-> "used"]
      \/ answer' = answer /\ phase = "wait"
  BY DEF Connect, FallBack, SeedDone, PollDone, PollAgain, PollDeadline, StartFetch,
      ForgetAnswers
<1>3. \/ events' = <<>>
      \/ events' = events /\ phase = "seed" /\ phase' = "read"
      \/ events' = events /\ phase \in {"poll", "wait"}
  BY DEF Connect, FallBack, SeedDone, PollDone, PollAgain, PollDeadline
<1>4. RingTypes'
  <2>1. events' \in Seq(Press)
    <3>1. <<>> \in Seq(Press) /\ events \in Seq(Press)
      BY DEF RingInv, RingTypes
    <3>2. QED
      BY <1>3, <3>1, Zenon
  <2>2. answer' \in [Entities -> {"pending", "on", "other", "failed", "used", "skipped"}]
    BY <1>2 DEF RingInv, RingTypes
  <2>3. QED
    BY <1>1, <2>1, <2>2 DEF RingInv, RingTypes
<1>5. RingsAtMostOnce' /\ FutureIsSilent' /\ CurrentIsRemembered'
  BY <1>1 DEF RingInv, RingsAtMostOnce, FutureIsSilent, CurrentIsRemembered
<1>6. EventsAreSubscribed'
  BY <1>3 DEF RingInv, EventsAreSubscribed
<1>7. EventsAreFresh' /\ EventsDiffer'
  <2>1. CASE events' = <<>>
    BY <2>1 DEF EventsAreFresh, EventsDiffer
  <2>2. CASE events' = events
    BY <1>1, <2>2 DEF RingInv, EventsAreFresh, EventsDiffer
  <2>3. QED
    BY <1>3, <2>1, <2>2
<1>8. AnswersAreLocal'
  BY <1>2 DEF RingInv, AnswersAreLocal, Started
<1>9. AnswersAreSafe'
  <2>1. \A y \in Entities : answer'[y] \notin {"on", "other"}
    BY <1>2 DEF RingInv, AnswersAreLocal, Started
  <2>2. QED
    BY <2>1 DEF AnswersAreSafe
<1>10. QED
  BY <1>4, <1>5, <1>6, <1>7, <1>8, <1>9 DEF RingInv

\* Every step keeps the invariant.
LEMMA RingStepInv == RingInv /\ [Next]_vars => RingInv'
<1> SUFFICES ASSUME RingInv, [Next]_vars PROVE RingInv'
  OBVIOUS
<1>1. CASE TakeTrigger \/ LinkBreaks \/ UNCHANGED vars
  <2>1. /\ sensor' = sensor /\ press' = press /\ previous' = previous /\ phase' = phase
        /\ rung' = rung /\ again' = again /\ seen' = seen /\ answer' = answer
        /\ events' = events
    BY <1>1 DEF TakeTrigger, LinkBreaks, vars, sensorVars, ringVars
  <2>2. QED
    BY <2>1 DEF RingInv, RingTypes, RingsAtMostOnce, FutureIsSilent, EventsAreSubscribed,
        EventsAreFresh, EventsDiffer, AnswersAreLocal, CurrentIsRemembered, AnswersAreSafe
<1>2. ASSUME NEW e \in Entities, NEW s \in States, SensorChanges(e, s) PROVE RingInv'
  BY <1>2, SensorStep
<1>3. ASSUME NEW e \in Entities, FetchState(e) \/ Seed(e) \/ AcceptState(e) PROVE RingInv'
  BY <1>3, FetchStep, AnswerStep
<1>4. CASE ReadEvent
  BY <1>4, ReadStep
<1>5. CASE Connect \/ FallBack \/ SeedDone \/ PollDone \/ PollAgain \/ PollDeadline
  BY <1>5, PhaseStep
<1>6. QED
  BY <1>1, <1>2, <1>3, <1>4, <1>5 DEF Next, Listen

\* No press rings twice, for any number of sensors, presses and hand-overs
\* between the subscription and the polling.
THEOREM EachPressRingsOnce == Spec => []RingsAtMostOnce
<1>1. RingInv => RingsAtMostOnce
  BY DEF RingInv
<1>2. QED
  BY RingInitInv, RingStepInv, <1>1, PTL DEF Spec
-----------------------------------------------------------------------------
\* The part of TypeOK that RingInv leaves out.
OtherTypes ==
    /\ \A e \in Entities : press[e] <= MaxPresses[e]
    /\ connected \in BOOLEAN
    /\ link \in BOOLEAN
    /\ queued \in 0..QueueCap
    /\ rung \subseteq Press

\* emitTrigger keeps the channel within its capacity.
LEMMA TriggerType ==
  ASSUME OtherTypes, NEW e \in Entities, NEW n \in Nat, EmitTrigger(e, n)
  PROVE  queued' \in 0..QueueCap /\ rung' \subseteq Press
  BY ListenerAssumption DEF OtherTypes, EmitTrigger, Press

\* Every step of the listener keeps the types of its variables.
LEMMA OtherTypesStep == RingInv /\ OtherTypes /\ [Next]_vars => OtherTypes'
<1> SUFFICES ASSUME RingInv, OtherTypes, [Next]_vars PROVE OtherTypes'
  OBVIOUS
<1> USE ListenerAssumption
<1>1. ASSUME NEW e \in Entities, FetchState(e) \/ Seed(e)
      PROVE  OtherTypes'
  BY <1>1 DEF FetchState, Seed, Use, NoTrigger, sensorVars, ringVars, OtherTypes
<1>2. ASSUME NEW e \in Entities, AcceptState(e) PROVE OtherTypes'
  <2>1. seen[e] \in Nat /\ UNCHANGED <<press, connected, link>>
    BY <1>2 DEF AcceptState, Use, sensorVars, RingInv, RingTypes
  <2>2. queued' \in 0..QueueCap /\ rung' \subseteq Press
    <3>1. EmitTrigger(e, seen[e]) \/ UNCHANGED <<queued, rung>>
      BY <1>2 DEF AcceptState, NoTrigger, ringVars
    <3>2. QED
      BY <2>1, <3>1, TriggerType DEF OtherTypes
  <2>3. QED
    BY <2>1, <2>2 DEF OtherTypes
<1>3. CASE ReadEvent
  <2>1. /\ Head(events)[1] \in Entities /\ Head(events)[2] \in Nat
        /\ UNCHANGED <<press, connected, link>>
    <3>1. events \in Seq(Press) /\ events # <<>>
      BY <1>3 DEF ReadEvent, RingInv, RingTypes
    <3>2. Head(events) \in Press
      BY <3>1
    <3>3. QED
      BY <1>3, <3>2 DEF ReadEvent, sensorVars, Press
  <2>2. queued' \in 0..QueueCap /\ rung' \subseteq Press
    BY <1>3, <2>1, TriggerType DEF ReadEvent
  <2>3. QED
    BY <2>1, <2>2 DEF OtherTypes
<1>4. CASE SeedDone \/ PollAgain \/ PollDeadline
  BY <1>4 DEF SeedDone, PollAgain, PollDeadline, sensorVars, ringVars, OtherTypes
<1>5. CASE Connect \/ FallBack \/ PollDone \/ LinkBreaks
  <2>1. UNCHANGED <<press, queued, rung>>
    BY <1>5 DEF Connect, FallBack, PollDone, LinkBreaks, sensorVars, ringVars
  <2>2. connected' \in BOOLEAN
    BY <1>5 DEF Connect, FallBack, PollDone, LinkBreaks, OtherTypes
  <2>3. link' \in BOOLEAN
    BY <1>5 DEF Connect, FallBack, PollDone, LinkBreaks, OtherTypes
  <2>4. QED
    BY <2>1, <2>2, <2>3 DEF OtherTypes
<1>6. CASE TakeTrigger
  BY <1>6 DEF TakeTrigger, sensorVars, ringVars, OtherTypes
<1>7. ASSUME NEW e \in Entities, NEW s \in States, SensorChanges(e, s)
      PROVE  OtherTypes'
  <2>1. UNCHANGED <<connected, link, queued, rung>>
    BY <1>7 DEF SensorChanges, ringVars
  <2>2. \A x \in Entities : press'[x] <= MaxPresses[x]
    BY <1>7 DEF SensorChanges, OtherTypes, RingInv, RingTypes
  <2>3. QED
    BY <2>1, <2>2 DEF OtherTypes
<1>8. CASE UNCHANGED vars
  BY <1>8 DEF vars, sensorVars, ringVars, OtherTypes
<1>9. QED
  BY <1>1, <1>2, <1>3, <1>4, <1>5, <1>6, <1>7, <1>8 DEF Next, Listen

\* The queue to the main loop never holds more than its capacity, and only
\* presses that a sensor can have are reported.
THEOREM ListenerTypeOK == Spec => []TypeOK
<1>1. Init => OtherTypes
  <2> SUFFICES ASSUME Init PROVE OtherTypes
    OBVIOUS
  <2>1. connected \in BOOLEAN /\ link \in BOOLEAN
    BY DEF Init
  <2>2. QED
    BY <2>1, ListenerAssumption DEF Init, OtherTypes
<1>2. RingInv /\ OtherTypes => TypeOK
  BY DEF RingInv, RingTypes, RingsAtMostOnce, OtherTypes, TypeOK
<1>3. QED
  BY <1>1, <1>2, RingInitInv, RingStepInv, OtherTypesStep, PTL DEF Spec
=============================================================================
