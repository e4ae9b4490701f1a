------------------------------- MODULE Gateway ------------------------------
(***************************************************************************)
(* cmd/gateway: the runners handleCall and handleIncomingCall inside the   *)
(* call slot of CallController, with the goroutines they start (the media  *)
(* session, the Ready watcher, the loser cleanup of the fork) and the part *)
(* of the status snapshot the API shows.                                   *)
(*                                                                         *)
(* Abstracted: the SIP dialog of a call is none, pending (unanswered       *)
(* incoming INVITE), up or done (call.finish has run); the media session   *)
(* is none, setup, live or over; every timer is a step that may be taken   *)
(* whenever its wait is in progress.  DialFirst is one step with the       *)
(* outcomes module DialFork shows it to have.                              *)
(***************************************************************************)
EXTENDS CallController, Sequences

CONSTANT Incoming   \* the calls that come from an incoming INVITE

ASSUME IncomingAssumption == Incoming \subseteq Calls

VARIABLES
    state,    \* status.Snapshot.State
    dir,      \* status.Snapshot.CurrentCallDirection
    dryRun,   \* cfg.DryRun
    pc,       \* per call: position of the runner
    todo,     \* per call: clean-up the runner still has to do, in order
    failed,   \* per call: finalErr # nil
    dialog,   \* per call: its SIP dialog
    media,    \* per call: media.Session.Run
    ready,    \* per call: Session.Ready() has been signalled
    mctx,     \* per call: the context with MaxCallDuration under its own call's
    watcher,  \* per call: the goroutine waiting for Ready (outgoing only)
    mediaTimedOut,  \* history: waitMedia gave up on this call's session
    exited    \* main has returned, the process is gone

gwVars == <<state, dir, dryRun, pc, todo, failed, dialog, media, ready, mctx,
            watcher, mediaTimedOut, exited>>
vars == <<ctlVars, gwVars>>
shown == <<state, dir>>
runner == <<pc, todo, failed>>
aux == <<dryRun, mediaTimedOut, exited>>

Outgoing == Calls \ Incoming

Done(c) == canceled[c] \/ mctx[c] # "live"      \* <-callCtx.Done()
MediaRuns(c) == media[c] \in {"setup", "live"}

CallStates == {"dialing", "connecting_media", "active", "ending"}

TypeOK ==
    /\ CtlTypeOK
    /\ state \in CallStates \cup {"starting", "idle", "error", "stopping"}
    /\ dir \in {"", "incoming", "outgoing"}
    /\ dryRun \in BOOLEAN
    /\ pc \in [Calls -> {"start", "dial", "won", "ports", "prepare", "answered",
                         "talk", "closing", "end"}]
    /\ todo \in [Calls -> Seq({"hangup", "reject", "media", "quietMedia", "fork"})]
    /\ failed \in [Calls -> BOOLEAN]
    /\ dialog \in [Calls -> {"none", "pending", "up", "done"}]
    /\ media \in [Calls -> {"none", "setup", "live", "over"}]
    /\ ready \in [Calls -> BOOLEAN]
    /\ mctx \in [Calls -> {"live", "deadline", "canceled"}]
    /\ watcher \in [Calls -> {"none", "waiting", "passed", "over"}]
    /\ mediaTimedOut \in [Calls -> BOOLEAN]
    /\ exited \in BOOLEAN

Init ==
    /\ CtlInit
    /\ state = "starting"
    /\ dir = ""
    /\ dryRun \in BOOLEAN
    /\ pc = [c \in Calls |-> "start"]
    /\ todo = [c \in Calls |-> <<>>]
    /\ failed = [c \in Calls |-> FALSE]
    /\ dialog = [c \in Calls |-> IF c \in Incoming THEN "pending" ELSE "none"]
    /\ media = [c \in Calls |-> "none"]
    /\ ready = [c \in Calls |-> FALSE]
    /\ mctx = [c \in Calls |-> "live"]
    /\ watcher = [c \in Calls |-> "none"]
    /\ mediaTimedOut = [c \in Calls |-> FALSE]
    /\ exited = FALSE

-----------------------------------------------------------------------------
\* Runner c of the call function goes from one position to another.
At(c, p) == thread[c] = "running" /\ pc[c] = p /\ ~exited
Goto(c, p) == pc' = [pc EXCEPT ![c] = p]

\* The runner stops its media context and has the clean-up ts ahead of it.
Close(c, ts, bad) ==
    /\ Goto(c, "closing")
    /\ todo' = [todo EXCEPT ![c] = ts]
    /\ failed' = [failed EXCEPT ![c] = bad]

\* cancelCall(): a context that is already done keeps its error.
CancelCall(c) ==
    mctx' = [mctx EXCEPT ![c] = IF @ = "live" THEN "canceled" ELSE @]

\* The status ticker and OnConnection leave "starting" once.
Registered ==
    /\ ~exited
    /\ state = "starting"
    /\ state' = "idle"
    /\ UNCHANGED <<ctlVars, dir, aux, runner, dialog, media, ready, mctx,
                   watcher>>

\* A dry run has no SIP client, hence no incoming call.
Possible(c) == ~exited /\ (c \in Incoming => ~dryRun)

\* Main loop and API handler: enter the slot, or refuse.  A refused incoming
\* call is rejected with 486, which finishes its dialog.
Accept(c) ==
    /\ Possible(c)
    /\ StartCheck(c) \/ StartReserve(c)
    /\ UNCHANGED gwVars

Refuse(c) ==
    /\ Possible(c)
    /\ StartBusy(c) \/ StartLate(c)
    /\ dialog' = [dialog EXCEPT ![c] = IF @ = "pending" THEN "done" ELSE @]
    /\ UNCHANGED <<shown, aux, runner, media, ready, mctx, watcher>>

\* Mutants of Hangup: "ending" published whether or not a call is shown, and
\* written to the wrong field.
HangupAlwaysEnding ==
    /\ ~exited
    /\ CancelActive
    /\ state' = "ending"
    /\ UNCHANGED <<dir, aux, runner, dialog, media, ready, mctx, watcher>>

HangupWrongField ==
    /\ ~exited
    /\ CancelActive
    /\ dir' = IF dir # "" THEN "ending" ELSE dir
    /\ UNCHANGED <<state, aux, runner, dialog, media, ready, mctx, watcher>>

\* API hang-up: CancelActive with the beforeCancel callback of main.
Hangup ==
    /\ ~exited
    /\ CancelActive
    /\ state' = IF dir # "" THEN "ending" ELSE state
    /\ UNCHANGED <<dir, aux, runner, dialog, media, ready, mctx, watcher>>

\* A signal ends the process context; the main loop publishes "stopping" and
\* main returns without waiting for the runner.
Signal == ~exited /\ ParentDone /\ UNCHANGED gwVars

Exit ==
    /\ ~exited
    /\ parentDone
    /\ state' = "stopping"
    /\ exited' = TRUE
    /\ UNCHANGED <<ctlVars, dir, dryRun, runner, dialog, media, ready, mctx,
                   watcher, mediaTimedOut>>

-----------------------------------------------------------------------------
\* handleCall

OutBegin(c) ==
    /\ c \in Outgoing
    /\ At(c, "start")
    /\ state' = "dialing"
    /\ dir' = "outgoing"
    /\ Goto(c, "dial")
    /\ UNCHANGED <<ctlVars, aux, todo, failed, dialog, media, ready, mctx,
                   watcher>>

\* Dry run, or no account of the route is registered: no leg is dialled.
NoLegs(c) ==
    /\ At(c, "dial")
    /\ Close(c, <<>>, ~dryRun)
    /\ UNCHANGED <<ctlVars, shown, aux, dialog, media, ready, mctx, watcher>>

\* DialFirst fails (every leg failed, ring timeout, hang-up).  The outcome is
\* not an error only if the call's own context was canceled.
DialFails(c) ==
    /\ At(c, "dial")
    /\ ~dryRun
    /\ \E bad \in BOOLEAN : (~bad => canceled[c]) /\ Close(c, <<"fork">>, bad)
    /\ UNCHANGED <<ctlVars, shown, aux, dialog, media, ready, mctx, watcher>>

DialWins(c) ==
    /\ At(c, "dial")
    /\ ~dryRun
    /\ dialog' = [dialog EXCEPT ![c] = "up"]
    /\ Goto(c, "won")
    /\ UNCHANGED <<ctlVars, shown, aux, todo, failed, media, ready, mctx,
                   watcher>>

\* No local port for FFmpeg.
WonFails(c) ==
    /\ At(c, "won")
    /\ Close(c, <<"hangup", "fork">>, TRUE)
    /\ UNCHANGED <<ctlVars, shown, aux, dialog, media, ready, mctx, watcher>>

\* Publish "connecting_media", start media.Session.Run and the Ready watcher.
StartMedia(c) ==
    /\ At(c, "won")
    /\ state' = "connecting_media"
    /\ media' = [media EXCEPT ![c] = "setup"]
    /\ watcher' = [watcher EXCEPT ![c] = "waiting"]
    /\ Goto(c, "talk")
    /\ UNCHANGED <<ctlVars, dir, aux, todo, failed, dialog, ready, mctx>>

\* The watcher receives Ready and reads callCtx.Err() ...
WatcherChecks(c) ==
    /\ ~exited
    /\ watcher[c] = "waiting"
    /\ \/ Done(c) /\ watcher' = [watcher EXCEPT ![c] = "over"]
       \/ ready[c] /\ ~Done(c) /\ watcher' = [watcher EXCEPT ![c] = "passed"]
    /\ UNCHANGED <<ctlVars, shown, aux, runner, dialog, media, ready, mctx>>

\* ... and only then takes the store's lock.  The detail fields that the same
\* update writes whatever the state (codec, two-way audio, ...) are left out.
WatcherPublishes(c) ==
    /\ ~exited
    /\ watcher[c] = "passed"
    /\ watcher' = [watcher EXCEPT ![c] = "over"]
    /\ state' = IF state = "connecting_media" THEN "active" ELSE state
    /\ UNCHANGED <<ctlVars, dir, aux, runner, dialog, media, ready, mctx>>

-----------------------------------------------------------------------------
\* handleIncomingCall

InBegin(c) ==
    /\ c \in Incoming
    /\ At(c, "start")
    /\ state' = "connecting_media"
    /\ dir' = "incoming"
    /\ Goto(c, "ports")
    /\ UNCHANGED <<ctlVars, aux, todo, failed, dialog, media, ready, mctx,
                   watcher>>

\* Reserve the RTP ports (480 if that fails) and start the media session.
Ports(c) ==
    /\ At(c, "ports")
    /\ \/ Close(c, <<"reject">>, TRUE) /\ UNCHANGED media
       \/ /\ media' = [media EXCEPT ![c] = "setup"]
          /\ Goto(c, "prepare")
          /\ UNCHANGED <<todo, failed>>
    /\ UNCHANGED <<ctlVars, shown, aux, dialog, ready, mctx, watcher>>

\* Ready: Answer succeeds while the INVITE is pending; if it was canceled (no
\* error) or is over otherwise, or the 200 cannot be sent (which finishes the
\* call), the media is stopped.
Answer(c) ==
    /\ At(c, "prepare")
    /\ ready[c]
    /\ \/ /\ dialog[c] = "pending"
          /\ dialog' = [dialog EXCEPT ![c] = "up"]
          /\ Goto(c, "answered")
          /\ UNCHANGED <<todo, failed, mctx>>
       \/ /\ dialog' = [dialog EXCEPT ![c] = "done"]
          /\ CancelCall(c)
          /\ \E bad \in BOOLEAN : /\ dialog[c] = "pending" => bad
                                 /\ Close(c, <<"quietMedia">>, bad)
    /\ UNCHANGED <<ctlVars, shown, aux, media, ready, watcher>>

Answered(c) ==
    /\ At(c, "answered")
    /\ state' = "active"
    /\ Goto(c, "talk")
    /\ UNCHANGED <<ctlVars, dir, aux, todo, failed, dialog, media, ready, mctx,
                   watcher>>

\* The other cases of the select that waits for Ready: setup failed, the call
\* was finished by the peer, or the call context is done.
PrepareEnds(c) ==
    /\ At(c, "prepare")
    /\ CancelCall(c)
    /\ \/ media[c] = "over" /\ Close(c, <<"reject">>, TRUE)
       \/ /\ dialog[c] = "done"
          /\ \E bad \in BOOLEAN : Close(c, <<"quietMedia">>, bad)
       \/ Done(c) /\ Close(c, <<"quietMedia", "reject">>, mctx[c] = "deadline")
    /\ UNCHANGED <<ctlVars, shown, aux, dialog, media, ready, watcher>>

-----------------------------------------------------------------------------
\* The conversation and the clean-up, common to both runners

\* Only an outgoing call has losing legs to wait for.
ForkWait(c) == IF c \in Outgoing THEN <<"fork">> ELSE <<>>

\* Mutants of TalkEnds: no wait for the media after the peer's BYE, and no BYE
\* after a hang-up.
TalkEndsNoMediaWait(c) ==
    /\ At(c, "talk")
    /\ \/ /\ dialog[c] = "done"
          /\ CancelCall(c)
          /\ \E bad \in BOOLEAN : Close(c, ForkWait(c), bad)
       \/ /\ media[c] = "over"
          /\ CancelCall(c)
          /\ \E bad \in BOOLEAN : Close(c, <<"hangup">> \o ForkWait(c), bad)
       \/ /\ Done(c)
          /\ Close(c, <<"hangup", "media">> \o ForkWait(c), mctx[c] = "deadline")
          /\ UNCHANGED mctx
    /\ UNCHANGED <<ctlVars, shown, aux, dialog, media, ready, watcher>>

TalkEndsNoBye(c) ==
    /\ At(c, "talk")
    /\ \/ /\ dialog[c] = "done"
          /\ CancelCall(c)
          /\ \E bad \in BOOLEAN : Close(c, <<"media">> \o ForkWait(c), bad)
       \/ /\ media[c] = "over"
          /\ CancelCall(c)
          /\ \E bad \in BOOLEAN : Close(c, <<"hangup">> \o ForkWait(c), bad)
       \/ /\ Done(c)
          /\ Close(c, <<"media">> \o ForkWait(c), mctx[c] = "deadline")
          /\ UNCHANGED mctx
    /\ UNCHANGED <<ctlVars, shown, aux, dialog, media, ready, watcher>>

\* The final select: call.Done(), the media result, or the call context.
TalkEnds(c) ==
    /\ At(c, "talk")
    /\ \/ /\ dialog[c] = "done"
          /\ CancelCall(c)
          /\ \E bad \in BOOLEAN : Close(c, <<"media">> \o ForkWait(c), bad)
       \/ /\ media[c] = "over"
          /\ CancelCall(c)
          /\ \E bad \in BOOLEAN : Close(c, <<"hangup">> \o ForkWait(c), bad)
       \/ /\ Done(c)
          /\ Close(c, <<"hangup", "media">> \o ForkWait(c), mctx[c] = "deadline")
          /\ UNCHANGED mctx
    /\ UNCHANGED <<ctlVars, shown, aux, dialog, media, ready, watcher>>

Next1(c, t) == At(c, "closing") /\ todo[c] # <<>> /\ Head(todo[c]) = t
Pop(c) == todo' = [todo EXCEPT ![c] = Tail(@)]

\* call.Hangup (BYE, bounded by its 5 s context) and Reject both finish the call.
EndDialog(c) ==
    /\ Next1(c, "hangup") \/ Next1(c, "reject")
    /\ dialog' = [dialog EXCEPT ![c] = "done"]
    /\ Pop(c)
    /\ UNCHANGED <<ctlVars, shown, aux, pc, failed, media, ready, mctx, watcher>>

\* Mutant of WaitMedia: no five-second limit.
WaitMediaForever(c) ==
    /\ Next1(c, "media") \/ Next1(c, "quietMedia")
    /\ media[c] = "over"
    /\ Pop(c)
    /\ UNCHANGED <<ctlVars, shown, aux, pc, failed, dialog, media, ready, mctx,
                   watcher>>

\* waitMedia: the session's result, or an error after 5 seconds.  Before the
\* answer the runner ignores both.
WaitMedia(c) ==
    /\ Next1(c, "media") \/ Next1(c, "quietMedia")
    /\ Pop(c)
    /\ mediaTimedOut' = [mediaTimedOut EXCEPT ![c] = media[c] # "over"]
    /\ \E bad \in BOOLEAN :
          /\ media[c] # "over" => bad
          /\ failed' = [failed EXCEPT ![c] = @ \/ (bad /\ Head(todo[c]) = "media")]
    /\ UNCHANGED <<ctlVars, shown, dryRun, pc, dialog, media, ready, mctx,
                   watcher, exited>>

\* waitForkCleanup returns when LosersDone closes or after 7 seconds.
WaitFork(c) ==
    /\ Next1(c, "fork")
    /\ Pop(c)
    /\ UNCHANGED <<ctlVars, shown, aux, pc, failed, dialog, media, ready, mctx,
                   watcher>>

\* finishCall, finishCanceledIncomingCall, recordCallError and
\* recordIncomingCallError, with clearActiveCall: the last write of the runner.
FinishCall(c) ==
    /\ At(c, "closing")
    /\ todo[c] = <<>>
    /\ state' = IF failed[c] THEN "error" ELSE "idle"
    /\ dir' = ""
    /\ Goto(c, "end")
    /\ UNCHANGED <<ctlVars, aux, todo, failed, dialog, media, ready, mctx,
                   watcher>>

\* The runner returns (its deferred cancelCall with it); the goroutine of
\* Start frees the slot and cancels the call context.
Return(c) ==
    /\ At(c, "end")
    /\ FnReturns(c)
    /\ CancelCall(c)
    /\ UNCHANGED <<shown, aux, runner, dialog, media, ready, watcher>>

FreeSlot(c) ==
    /\ ~exited
    /\ Release(c) \/ DeferredCancel(c)
    /\ UNCHANGED gwVars

-----------------------------------------------------------------------------
\* The runner's environment

\* media.Session.Run: setup, signalReady, and the end of the session, which
\* comes by itself (error) or, some time after its context is done, by force.
MediaReady(c) ==
    /\ ~exited
    /\ media[c] = "setup"
    /\ media' = [media EXCEPT ![c] = "live"]
    /\ ready' = [ready EXCEPT ![c] = TRUE]
    /\ UNCHANGED <<ctlVars, shown, aux, runner, dialog, mctx, watcher>>

MediaOver(c) ==
    /\ ~exited
    /\ MediaRuns(c)
    /\ media' = [media EXCEPT ![c] = "over"]
    /\ UNCHANGED <<ctlVars, shown, aux, runner, dialog, ready, mctx, watcher>>

\* The peer's BYE or CANCEL, or a missing ACK: call.finish.
RemoteEnds(c) ==
    /\ Possible(c)
    /\ dialog[c] \in {"pending", "up"}
    /\ dialog' = [dialog EXCEPT ![c] = "done"]
    /\ UNCHANGED <<ctlVars, shown, aux, runner, media, ready, mctx, watcher>>

\* The deadline of the context with MaxCallDuration.
MaxDuration(c) ==
    /\ ~exited
    /\ pc[c] \in {"prepare", "answered", "talk"}
    /\ ~Done(c)
    /\ mctx' = [mctx EXCEPT ![c] = "deadline"]
    /\ UNCHANGED <<ctlVars, shown, aux, runner, dialog, media, ready, watcher>>

Runner(c) ==
    \/ OutBegin(c) \/ NoLegs(c) \/ DialFails(c) \/ DialWins(c) \/ WonFails(c)
    \/ StartMedia(c) \/ InBegin(c) \/ Ports(c) \/ Answer(c) \/ Answered(c)
    \/ PrepareEnds(c) \/ TalkEnds(c) \/ EndDialog(c) \/ WaitMedia(c)
    \/ WaitFork(c) \/ FinishCall(c) \/ Return(c) \/ FreeSlot(c)

Next ==
    \/ \E c \in Calls :
          \/ Accept(c) \/ Refuse(c) \/ Runner(c)
          \/ WatcherChecks(c) \/ WatcherPublishes(c)
          \/ MediaReady(c) \/ MediaOver(c)
          \/ RemoteEnds(c) \/ MaxDuration(c)
    \/ Registered \/ Hangup \/ Signal \/ Exit

\* The Go scheduler runs every ready goroutine and timers fire: the runner and
\* the call-duration timer are fair.  Nothing is assumed of the camera, the
\* peer, the API or the cleanup of losing legs.
Fairness == \A c \in Calls : WF_vars(Runner(c)) /\ WF_vars(MaxDuration(c))

Spec == Init /\ [][Next]_vars /\ Fairness

-----------------------------------------------------------------------------
\* While the slot is free the API shows no call: no direction, and no call
\* state, in particular no "ending" left by a hang-up that was accepted between
\* the runner's last update and the release of the slot.
FreeSlotShowsNoCall ==
    ~active => dir = "" /\ state \notin CallStates

\* A runner gives the slot back only with its SIP dialog finished (BYE, Reject
\* or the peer): the next call never finds the dialog of an earlier one.
DialogEndsBeforeSlot ==
    \A c \in Calls : thread[c] \in {"returned", "released", "done"}
                        => dialog[c] \notin {"pending", "up"}

\* A media session is still running after its runner returned only if waitMedia
\* gave up on it after five seconds.
MediaOutlivesRunnerOnlyByTimeout ==
    \A c \in Calls : thread[c] \in {"returned", "released", "done"} /\ MediaRuns(c)
                        => mediaTimedOut[c]

\* Every call ends and frees the slot, whatever the camera, the peer and the
\* API do: each wait of the runners is bounded by a timer.
EveryCallEnds ==
    \A c \in Calls :
        thread[c] = "running" ~> (thread[c] \in {"released", "done"} \/ exited)

\* ARCHITECTURE.md, on the slot: a second call cannot overlap the delayed
\* SIP/RTSP/Baichuan cleanup of an earlier one.
NoMediaOverlap == Cardinality({c \in Calls : MediaRuns(c)}) <= 1
=============================================================================
