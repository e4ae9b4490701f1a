---------------------------- MODULE HaListener ----------------------------
(***************************************************************************)
(* The Home Assistant listener (internal/ha/listener.go).  One goroutine   *)
(* alternates between two ways of noticing that a visitor sensor turns on: *)
(* the trigger subscription of a WebSocket, and, while the socket is down, *)
(* REST polling with an edge detector.  The detector's memory is handed    *)
(* from one to the other: the subscription seeds it, an event updates it.  *)
(*                                                                         *)
(* The n-th time a sensor turns on is press n.  Events and REST answers    *)
(* carry the press they saw, which the code does not know: the history     *)
(* variables rung and again hold the presses reported once and repeatedly. *)
(*                                                                         *)
(* The process context is left out: main ends without waiting for the      *)
(* listener.  So are the lengths of the back-off and of the poll interval. *)
(***************************************************************************)
EXTENDS Naturals, Sequences

CONSTANTS Entities,      \* the sensors of all routes
          MaxPresses,    \* bound: MaxPresses[e] is how often sensor e turns on
          QueueCap       \* capacity of the triggers channel, max(1, routes)

ASSUME ListenerAssumption ==
    MaxPresses \in [Entities -> Nat \ {0}] /\ QueueCap \in Nat \ {0}

VARIABLES
    sensor,    \* per entity: its state in Home Assistant
    press,     \* per entity: how often it has turned on
    phase,     \* what Run is doing
    connected, \* what OnConnection reported last
    link,      \* the TCP connection of the WebSocket is intact
    events,    \* trigger events sent and not yet read, oldest first
    answer,    \* per entity: the REST answer of fetchRouteStates
    seen,      \* per entity: the press that an answer "on" shows, until it is used
    previous,  \* per entity: l.previous, "unset" while l.initialized is false
    queued,    \* how many triggers wait in the channel to the main loop
    rung,      \* the presses that emitTrigger has reported
    again      \* those it has reported more than once

sensorVars == <<sensor, press>>
ringVars == <<rung, again>>
vars == <<sensorVars, phase, connected, link, events, answer, seen, previous, queued,
          ringVars>>

\* "gone" stands for "unavailable" and "unknown".  The edge detector tells
\* only "on" from everything else.
States == {"off", "on", "gone"}
Press == Entities \X Nat

\* The type invariant.
TypeOK ==
    /\ sensor \in [Entities -> States]
    /\ press \in [Entities -> Nat] /\ \A e \in Entities : press[e] <= MaxPresses[e]
    /\ phase \in {"connect", "seed", "read", "poll", "wait"}
    /\ connected \in BOOLEAN
    /\ link \in BOOLEAN
    /\ events \in Seq(Press)
    /\ answer \in [Entities -> {"pending", "on", "other", "failed", "used", "skipped"}]
    /\ seen \in [Entities -> Nat]
    /\ previous \in [Entities -> {"on", "other", "unset"}]
    /\ queued \in 0..QueueCap
    /\ rung \subseteq Press /\ again \subseteq rung

Init ==
    /\ sensor = [e \in Entities |-> "off"]
    /\ press = [e \in Entities |-> 0]
    /\ phase = "connect"
    /\ connected = FALSE
    /\ link = FALSE
    /\ events = <<>>
    /\ answer = [e \in Entities |-> "used"]
    /\ seen = [e \in Entities |-> 0]
    /\ previous = [e \in Entities |-> "unset"]
    /\ queued = 0
    /\ rung = {} /\ again = {}

-----------------------------------------------------------------------------
(* Home Assistant.                                                         *)

\* The subscription is confirmed before its result is read, and ends with
\* the connection.
Subscribed == phase \in {"seed", "read"} /\ link

\* A sensor changes.  The trigger fires on "off" -> "on" only.
SensorChanges(e, s) ==
    /\ s # sensor[e]
    /\ s = "on" => press[e] < MaxPresses[e]
    /\ sensor' = [sensor EXCEPT ![e] = s]
    /\ press' = [press EXCEPT ![e] = IF s = "on" THEN @ + 1 ELSE @]
    /\ events' = IF Subscribed /\ sensor[e] = "off" /\ s = "on"
                 THEN Append(events, <<e, press[e] + 1>>)
                 ELSE events
    /\ UNCHANGED <<phase, connected, link, answer, seen, previous, queued, ringVars>>

\* The connection breaks; what was received before may still be read.
LinkBreaks ==
    /\ link
    /\ link' = FALSE
    /\ UNCHANGED <<sensorVars, phase, connected, events, answer, seen, previous, queued,
                   ringVars>>

-----------------------------------------------------------------------------
(* emitTrigger: a full channel drops the trigger.  Such a press counts as   *)
(* rung, i.e. reported by the detector: the triggers before it still ring. *)

\* Mutant of EmitTrigger: the channel has no limit.
EmitTriggerUnbounded(e, n) ==
    /\ queued' = queued + 1
    /\ rung' = rung \cup {<<e, n>>}
    /\ again' = again \cup ({<<e, n>>} \cap rung)

EmitTrigger(e, n) ==
    /\ queued' = IF queued < QueueCap THEN queued + 1 ELSE queued
    /\ rung' = rung \cup {<<e, n>>}
    /\ again' = again \cup ({<<e, n>>} \cap rung)

NoTrigger == UNCHANGED <<queued, ringVars>>

\* The main loop takes a trigger.
TakeTrigger ==
    /\ queued > 0
    /\ queued' = queued - 1
    /\ UNCHANGED <<sensorVars, phase, connected, link, events, answer, seen, previous,
                   ringVars>>

-----------------------------------------------------------------------------
(* fetchRouteStates: one request per route at once, the results used when  *)
(* all have arrived.                                                       *)
StartFetch == answer' = [e \in Entities |-> "pending"] /\ UNCHANGED seen

Fetched == \A e \in Entities : answer[e] # "pending"
ForgetAnswers == answer' = [e \in Entities |-> "used"] /\ UNCHANGED seen
AllUsed == \A e \in Entities : answer[e] \in {"used", "skipped"}

\* A request is answered, at a time of its own, or fails.
FetchState(e) ==
    /\ answer[e] = "pending"
    /\ \/ /\ sensor[e] = "on"
          /\ answer' = [answer EXCEPT ![e] = "on"]
          /\ seen' = [seen EXCEPT ![e] = press[e]]
       \/ /\ sensor[e] # "on"
          /\ answer' = [answer EXCEPT ![e] = "other"]
          /\ UNCHANGED seen
       \/ answer' = [answer EXCEPT ![e] = "failed"] /\ UNCHANGED seen
    /\ UNCHANGED <<sensorVars, phase, connected, link, events, previous, queued, ringVars>>

Use(e) ==
    /\ Fetched
    /\ answer[e] \notin {"used", "skipped"}
    /\ answer' = [answer EXCEPT ![e] = IF @ = "failed" THEN "skipped" ELSE "used"]
    /\ seen' = [seen EXCEPT ![e] = 0]
    /\ UNCHANGED <<sensorVars, phase, connected, link, events>>

-----------------------------------------------------------------------------
(* runWebSocket.                                                           *)

\* Authentication and subscription succeed.
Connect ==
    /\ phase = "connect"
    /\ phase' = "seed"
    /\ connected' = TRUE
    /\ link' = TRUE
    /\ events' = <<>>
    /\ StartFetch
    /\ UNCHANGED <<sensorVars, previous, queued, ringVars>>

\* Seeding the edge detector reports nothing; a failed request is skipped.
Seed(e) ==
    /\ phase = "seed"
    /\ Use(e)
    /\ previous' = [previous EXCEPT ![e] = IF answer[e] = "failed" THEN @ ELSE answer[e]]
    /\ NoTrigger

SeedDone ==
    /\ phase = "seed"
    /\ AllUsed
    /\ phase' = "read"
    /\ ForgetAnswers
    /\ UNCHANGED <<sensorVars, connected, link, events, previous, queued, ringVars>>

\* Mutant of ReadEvent: the edge detector learns nothing from an event.
ReadEventUnrecorded ==
    /\ phase = "read"
    /\ events # <<>>
    /\ events' = Tail(events)
    /\ EmitTrigger(Head(events)[1], Head(events)[2])
    /\ UNCHANGED <<sensorVars, phase, connected, link, answer, seen, previous>>

\* Mutant of ReadEvent: events pass through the edge detector as well.
ReadEventFiltered ==
    /\ phase = "read"
    /\ events # <<>>
    /\ events' = Tail(events)
    /\ IF previous[Head(events)[1]] # "on"
       THEN EmitTrigger(Head(events)[1], Head(events)[2]) ELSE NoTrigger
    /\ previous' = [previous EXCEPT ![Head(events)[1]] = "on"]
    /\ UNCHANGED <<sensorVars, phase, connected, link, answer, seen>>

\* An event is reported whatever the edge detector holds, and recorded there.
ReadEvent ==
    /\ phase = "read"
    /\ events # <<>>
    /\ events' = Tail(events)
    /\ previous' = [previous EXCEPT ![Head(events)[1]] = "on"]
    /\ EmitTrigger(Head(events)[1], Head(events)[2])
    /\ UNCHANGED <<sensorVars, phase, connected, link, answer, seen>>

-----------------------------------------------------------------------------
(* pollFallback.                                                           *)

\* The connection cannot be made, or reading fails: the first poll is
\* immediate.  Events that were not read are lost with the connection.
FallBack ==
    /\ \/ phase = "connect"
       \/ phase = "read" /\ ~link
    /\ phase' = "poll"
    /\ connected' = FALSE
    /\ link' = FALSE
    /\ events' = <<>>
    /\ StartFetch
    /\ UNCHANGED <<sensorVars, previous, queued, ringVars>>

\* acceptState: the first state is only remembered, a change to "on" reported.
AcceptState(e) ==
    /\ phase = "poll"
    /\ Use(e)
    /\ previous' = [previous EXCEPT ![e] = IF answer[e] = "failed" THEN @ ELSE answer[e]]
    /\ IF answer[e] = "on" /\ previous[e] = "other"
       THEN EmitTrigger(e, seen[e]) ELSE NoTrigger

PollDone ==
    /\ phase = "poll"
    /\ AllUsed
    /\ phase' = "wait"
    /\ connected' = (\A e \in Entities : answer[e] = "used")
    /\ ForgetAnswers
    /\ UNCHANGED <<sensorVars, link, events, previous, queued, ringVars>>

\* The ticker fires: poll again.
PollAgain ==
    /\ phase = "wait"
    /\ phase' = "poll"
    /\ StartFetch
    /\ UNCHANGED <<sensorVars, connected, link, events, previous, queued, ringVars>>

\* The back-off is over: try the WebSocket again.
PollDeadline ==
    /\ phase = "wait"
    /\ phase' = "connect"
    /\ UNCHANGED <<sensorVars, connected, link, events, answer, seen, previous, queued,
                   ringVars>>

-----------------------------------------------------------------------------
Listen ==
    \/ \E e \in Entities : FetchState(e) \/ Seed(e) \/ AcceptState(e)
    \/ SeedDone \/ ReadEvent \/ PollDone

Next ==
    \/ Listen
    \/ Connect \/ FallBack \/ PollAgain \/ PollDeadline
    \/ TakeTrigger
    \/ LinkBreaks
    \/ \E e \in Entities, s \in States : SensorChanges(e, s)

\* Requests end, at the latest with the client's timeout, and the goroutine
\* runs while it has something to do.
Spec == Init /\ [][Next]_vars /\ WF_vars(Listen)

-----------------------------------------------------------------------------
(***************************************************************************)
(* A press rings at most once, whichever of the two sources sees it, in    *)
(* every hand-over between them: an event also updates the edge detector   *)
(* of the fallback (listener.go:265), and seeding that detector does not   *)
(* report what the subscription is about to (listener.go:199-212).         *)
(***************************************************************************)
RingsAtMostOnce == again = {}

(***************************************************************************)
(* A press whose event was sent rings unless the connection breaks, also   *)
(* when the REST answer that seeds the edge detector already shows it      *)
(* (the comment at listener.go:199-201).                                   *)
(***************************************************************************)
SubscribedPressRings ==
    \A e \in Entities : \A n \in 1..MaxPresses[e] :
        (\E i \in 1..Len(events) : events[i] = <<e, n>>) ~> (<<e, n>> \in rung \/ ~link)
=============================================================================
