------------------------------ MODULE DialFork ------------------------------
(***************************************************************************)
(* callcontrol.DialFirst and its drain, with the leg goroutines of         *)
(* newOutboundDialLeg and the part of handleCall that lives with the       *)
(* result: the winner's hang-up and waitForkCleanup.                       *)
(*                                                                         *)
(* sip.Client.Dial is one step with outcome answered or failed; module     *)
(* SipDial is about what happens inside.  A leg's result is its name: it   *)
(* is a success exactly if its dialog exists.                              *)
(***************************************************************************)
EXTENDS Naturals, Sequences, FiniteSets

CONSTANTS Legs,   \* the dial legs of one call, at least one
          NoLeg   \* a ForkWinner without a leg

ASSUME LegsAssumption == IsFiniteSet(Legs) /\ Legs # {} /\ NoLeg \notin Legs

VARIABLES
    ctxDone,   \* ringCtx is done: ring timeout, hang-up or shutdown
    dialDone,  \* dialCtx is canceled
    dial,      \* per leg: its goroutine
    dialog,    \* per leg: its SIP dialog
    socket,    \* per leg: its RTP socket is open
    results,   \* the buffered channel
    remaining, \* results still to come
    main,      \* DialFirst
    winner,    \* ForkWinner.Leg
    drain,     \* drainLosingDialogs; "done" means LosersDone is closed
    hangup,    \* per leg: the hang-up goroutine of the drain
    runner     \* handleCall after DialFirst

vars == <<ctxDone, dialDone, dial, dialog, socket, results, remaining, main,
          winner, drain, hangup, runner>>

\* The type invariant.  results has room for one result of every leg, and LegSends
\* does not look at it: that the bound holds is why no leg blocks on its send.
TypeOK ==
    /\ ctxDone \in BOOLEAN
    /\ dialDone \in BOOLEAN
    /\ dial \in [Legs -> {"idle", "spawned", "dialing", "returned", "sent"}]
    /\ dialog \in [Legs -> {"none", "up", "ended"}]
    /\ socket \in [Legs -> BOOLEAN]
    /\ results \in Seq(Legs) /\ Len(results) <= Cardinality(Legs)
    /\ remaining \in 0..Cardinality(Legs)
    /\ main \in {"start", "select", "won", "failed", "canceled"}
    /\ winner \in Legs \cup {NoLeg}
    /\ drain \in {"none", "pull", "done"}
    /\ hangup \in [Legs -> {"none", "bye", "close", "done"}]
    /\ runner \in {"dial", "call", "ending", "wait", "over"}

Init ==
    /\ ctxDone = FALSE
    /\ dialDone = FALSE
    /\ dial = [l \in Legs |-> "idle"]
    /\ dialog = [l \in Legs |-> "none"]
    /\ socket = [l \in Legs |-> FALSE]
    /\ results = <<>>
    /\ remaining = Cardinality(Legs)
    /\ main = "start"
    /\ winner = NoLeg
    /\ drain = "none"
    /\ hangup = [l \in Legs |-> "none"]
    /\ runner = "dial"

Returned == main \in {"won", "failed", "canceled"}

-----------------------------------------------------------------------------
\* DialFirst

\* ctx.Err() at the start: nothing is dialled and LosersDone is born closed.
StartDone ==
    /\ main = "start"
    /\ ctxDone
    /\ main' = "canceled"
    /\ drain' = "done"
    /\ runner' = "wait"
    /\ UNCHANGED <<ctxDone, dialDone, dial, dialog, socket, results, remaining,
                   winner, hangup>>

Spawn ==
    /\ main = "start"
    /\ ~ctxDone
    /\ main' = "select"
    /\ dial' = [l \in Legs |-> "spawned"]
    /\ UNCHANGED <<ctxDone, dialDone, dialog, socket, results, remaining, winner,
                   drain, hangup, runner>>

\* Mutant of ReceiveFailure: the result is counted twice.
ReceiveFailureTwice ==
    /\ main = "select"
    /\ results # <<>>
    /\ dialog[Head(results)] = "none"
    /\ results' = Tail(results)
    /\ remaining' = remaining - 2
    /\ IF remaining <= 1
         THEN main' = "failed" /\ drain' = "done" /\ dialDone' = TRUE /\ runner' = "wait"
         ELSE UNCHANGED <<main, drain, dialDone, runner>>
    /\ UNCHANGED <<ctxDone, dial, dialog, socket, winner, hangup>>

\* case result := <-results, a failure: go on, or give up after the last one.
ReceiveFailure ==
    /\ main = "select"
    /\ results # <<>>
    /\ dialog[Head(results)] = "none"
    /\ results' = Tail(results)
    /\ remaining' = remaining - 1
    /\ IF remaining = 1
         THEN main' = "failed" /\ drain' = "done" /\ dialDone' = TRUE /\ runner' = "wait"
         ELSE UNCHANGED <<main, drain, dialDone, runner>>
    /\ UNCHANGED <<ctxDone, dial, dialog, socket, winner, hangup>>

\* Mutant of ReceiveWinner: the result of the winner is left in the channel.
ReceiveWinnerPeeks ==
    /\ main = "select"
    /\ results # <<>>
    /\ dialog[Head(results)] # "none"
    /\ winner' = Head(results)
    /\ main' = "won"
    /\ dialDone' = TRUE
    /\ drain' = "pull"
    /\ runner' = "call"
    /\ UNCHANGED <<ctxDone, dial, dialog, socket, results, remaining, hangup>>

\* case result := <-results, a success: cancel the others and drain them.
ReceiveWinner ==
    /\ main = "select"
    /\ results # <<>>
    /\ dialog[Head(results)] # "none"
    /\ winner' = Head(results)
    /\ results' = Tail(results)
    /\ remaining' = remaining - 1
    /\ main' = "won"
    /\ dialDone' = TRUE
    /\ drain' = "pull"
    /\ runner' = "call"
    /\ UNCHANGED <<ctxDone, dial, dialog, socket, hangup>>

\* Mutant of SelectDone: LosersDone is closed at once.
SelectDoneNoDrain ==
    /\ main = "select"
    /\ ctxDone
    /\ main' = "canceled"
    /\ dialDone' = TRUE
    /\ drain' = "done"
    /\ runner' = "wait"
    /\ UNCHANGED <<ctxDone, dial, dialog, socket, results, remaining, winner, hangup>>

\* case <-ctx.Done(): select may prefer it to a result that is already there.
SelectDone ==
    /\ main = "select"
    /\ ctxDone
    /\ main' = "canceled"
    /\ dialDone' = TRUE
    /\ drain' = "pull"
    /\ runner' = "wait"
    /\ UNCHANGED <<ctxDone, dial, dialog, socket, results, remaining, winner, hangup>>

-----------------------------------------------------------------------------
\* drainLosingDialogs

DrainPull ==
    /\ drain = "pull"
    /\ remaining > 0
    /\ results # <<>>
    /\ results' = Tail(results)
    /\ remaining' = remaining - 1
    /\ hangup' = IF dialog[Head(results)] = "none" THEN hangup
                   ELSE [hangup EXCEPT ![Head(results)] = "bye"]
    /\ UNCHANGED <<ctxDone, dialDone, dial, dialog, socket, main, winner, drain,
                   runner>>

\* Mutant of DrainEnds: no hangups.Wait().
DrainEndsEarly ==
    /\ drain = "pull"
    /\ remaining = 0
    /\ drain' = "done"
    /\ UNCHANGED <<ctxDone, dialDone, dial, dialog, socket, results, remaining,
                   main, winner, hangup, runner>>

\* hangups.Wait(), then close(done).
DrainEnds ==
    /\ drain = "pull"
    /\ remaining = 0
    /\ \A l \in Legs : hangup[l] \in {"none", "done"}
    /\ drain' = "done"
    /\ UNCHANGED <<ctxDone, dialDone, dial, dialog, socket, results, remaining,
                   main, winner, hangup, runner>>

\* outboundCandidate.Hangup in its own goroutine: call.Hangup, bounded by
\* loserHangupTimeout and finishing the call in any case, then the socket.
LoserBye(l) ==
    /\ hangup[l] = "bye"
    /\ dialog' = [dialog EXCEPT ![l] = "ended"]
    /\ hangup' = [hangup EXCEPT ![l] = "close"]
    /\ UNCHANGED <<ctxDone, dialDone, dial, socket, results, remaining, main,
                   winner, drain, runner>>

\* Mutant of LoserClose: the hang-up goroutine forgets the socket.
LoserKeepsSocket(l) ==
    /\ hangup[l] = "close"
    /\ hangup' = [hangup EXCEPT ![l] = "done"]
    /\ UNCHANGED <<ctxDone, dialDone, dial, dialog, socket, results, remaining,
                   main, winner, drain, runner>>

LoserClose(l) ==
    /\ hangup[l] = "close"
    /\ socket' = [socket EXCEPT ![l] = FALSE]
    /\ hangup' = [hangup EXCEPT ![l] = "done"]
    /\ UNCHANGED <<ctxDone, dialDone, dial, dialog, results, remaining, main,
                   winner, drain, runner>>

-----------------------------------------------------------------------------
\* The leg goroutine: reserve the RTP socket, Dial, send the result.

LegReserve(l) ==
    /\ dial[l] = "spawned"
    /\ \/ dial' = [dial EXCEPT ![l] = "dialing"] /\ socket' = [socket EXCEPT ![l] = TRUE]
       \/ dial' = [dial EXCEPT ![l] = "returned"] /\ UNCHANGED socket
    /\ UNCHANGED <<ctxDone, dialDone, dialog, results, remaining, main, winner,
                   drain, hangup, runner>>

LegFails(l) ==
    /\ dial[l] = "dialing"
    /\ dial' = [dial EXCEPT ![l] = "returned"]
    /\ socket' = [socket EXCEPT ![l] = FALSE]
    /\ UNCHANGED <<ctxDone, dialDone, dialog, results, remaining, main, winner,
                   drain, hangup, runner>>

\* Dial may still succeed after dialCtx is canceled.
LegAnswered(l) ==
    /\ dial[l] = "dialing"
    /\ dial' = [dial EXCEPT ![l] = "returned"]
    /\ dialog' = [dialog EXCEPT ![l] = "up"]
    /\ UNCHANGED <<ctxDone, dialDone, socket, results, remaining, main, winner,
                   drain, hangup, runner>>

\* The send; there is always room for it in the channel (TypeOK).
LegSends(l) ==
    /\ dial[l] = "returned"
    /\ dial' = [dial EXCEPT ![l] = "sent"]
    /\ results' = Append(results, l)
    /\ UNCHANGED <<ctxDone, dialDone, dialog, socket, remaining, main, winner,
                   drain, hangup, runner>>

-----------------------------------------------------------------------------
\* handleCall after DialFirst, and the environment

\* The media session ends and closes the winner's socket.
MediaOver ==
    /\ runner = "call"
    /\ runner' = "ending"
    /\ socket' = [socket EXCEPT ![winner] = FALSE]
    /\ UNCHANGED <<ctxDone, dialDone, dial, dialog, results, remaining, main,
                   winner, drain, hangup>>

\* The call is over and the winner's dialog with it (call.Hangup or the peer).
WinnerEnds ==
    /\ runner \in {"call", "ending"}
    /\ dialog' = [dialog EXCEPT ![winner] = "ended"]
    /\ runner' = "wait"
    /\ UNCHANGED <<ctxDone, dialDone, dial, socket, results, remaining, main,
                   winner, drain, hangup>>

\* waitForkCleanup returns when LosersDone closes or after seven seconds; the
\* runner returns and its deferred candidate.Close closes the winner's socket.
RunnerReturns ==
    /\ runner = "wait"
    /\ runner' = "over"
    /\ socket' = [l \in Legs |-> socket[l] /\ l # winner]
    /\ UNCHANGED <<ctxDone, dialDone, dial, dialog, results, remaining, main,
                   winner, drain, hangup>>

\* Ring timeout, hang-up or shutdown; cancelRing once DialFirst has returned.
RingOver ==
    /\ ~ctxDone
    /\ ctxDone' = TRUE
    /\ dialDone' = TRUE
    /\ UNCHANGED <<dial, dialog, socket, results, remaining, main, winner, drain,
                   hangup, runner>>

PeerBye(l) ==
    /\ dialog[l] = "up"
    /\ dialog' = [dialog EXCEPT ![l] = "ended"]
    /\ UNCHANGED <<ctxDone, dialDone, dial, socket, results, remaining, main,
                   winner, drain, hangup, runner>>

DialFirst == StartDone \/ Spawn \/ ReceiveFailure \/ ReceiveWinner \/ SelectDone
Drain == DrainPull \/ DrainEnds
LegStep(l) == LegReserve(l) \/ LegSends(l) \/ LoserBye(l) \/ LoserClose(l)
DialReturns(l) == LegFails(l) \/ LegAnswered(l)

Next ==
    \/ DialFirst \/ Drain \/ MediaOver \/ WinnerEnds \/ RunnerReturns \/ RingOver
    \/ \E l \in Legs : LegStep(l) \/ DialReturns(l) \/ PeerBye(l)

\* Goroutines are scheduled and the ring timer fires.  Dial is only assumed to
\* return once its context is canceled (SipDial shows that it does), the call
\* of the winner to end because MaxCallDuration ends it.
Fairness ==
    /\ WF_vars(DialFirst) /\ WF_vars(Drain) /\ WF_vars(RingOver)
    /\ WF_vars(WinnerEnds) /\ WF_vars(RunnerReturns)
    /\ \A l \in Legs : WF_vars(LegStep(l)) /\ WF_vars(dialDone /\ DialReturns(l))

Spec == Init /\ [][Next]_vars /\ Fairness

-----------------------------------------------------------------------------
\* Once LosersDone is closed no leg but the winner has a dialog or a socket,
\* in particular none whose 200 OK crossed the decision (fork.go's comment on
\* ForkWinner).
NoOrphanLeg ==
    drain = "done" => \A l \in Legs \ {winner} : dialog[l] # "up" /\ ~socket[l]

\* The winner's dialog and socket are the caller's: the drain never takes them,
\* and the socket stays open as long as the media session lives.
WinnerIsKept ==
    winner # NoLeg => hangup[winner] = "none" /\ (runner = "call" => socket[winner])

\* Whatever happens, in the end every socket is closed and every dialog over:
\* no leg outlives the call, also when waitForkCleanup gave up on it.
NothingLeaks == <>[](\A l \in Legs : ~socket[l] /\ dialog[l] # "up")

\* The refinement: DialFirst with its drain keeps the promise of LegRace.
Race == INSTANCE LegRace WITH
    phase  <- IF Returned THEN "decided" ELSE "racing",
    answered <- {l \in Legs : dialog[l] # "none"},
    live   <- {l \in Legs : dialog[l] = "up"},
    byed   <- {l \in Legs : hangup[l] \in {"close", "done"}}
                \cup (IF runner \in {"wait", "over"} THEN {winner} \ {NoLeg} ELSE {}),
    clean  <- drain = "done"
RaceSpec == Race!RaceSpec
=============================================================================
