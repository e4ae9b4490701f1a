---------------------------- MODULE MediaSession ----------------------------
(***************************************************************************)
(* Session.Run of internal/media with all it starts.  An NVR is spoken to  *)
(* over two Baichuan connections (BaichuanClient), with the receiver of    *)
(* internal/baichuanaudio behind the second; a standalone camera over an   *)
(* RTSP backchannel (RtspClient), with an FFmpeg process for its audio.    *)
(*                                                                         *)
(* main is the goroutine of Run; the workers are the goroutines it waits   *)
(* for, and phone the RTP receiver that the Baichuan talk worker starts.   *)
(* Audio is left out, but for the PCM queue on which the receiver can      *)
(* block.  The sockets belong to the runner that calls Run: both close     *)
(* them.                                                                   *)
(***************************************************************************)
EXTENDS BaichuanClient, RtspClient

CONSTANT PcmCap      \* maxPCMQueueChunks

ASSUME PcmAssumption == PcmCap \in Nat \ {0}

VARIABLES
    mode,        \* "nvr" or "standalone"
    pc,          \* where Run is
    ctx,         \* Run's context is canceled
    run,         \* runCtx is canceled by cancelRun
    sockets,     \* the RTP sockets are open
    talking,     \* a session that StartTalk returned has not had its TalkReset
    hint,        \* the receiver is being opened: PreferredTalkAudioProfile runs
    rcv,         \* the Receiver: its goroutine, channels and context
    pcm,         \* chunks in its PCM channel
    ff,          \* the FFmpeg process
    worker       \* the goroutines of the live phase

ownVars == <<mode, pc, ctx, run, sockets, talking, hint, rcv, pcm, ff, worker>>
vars == <<ownVars, bc, rt>>

\* ReceiveMode and the talkback both follow from the mode of the device.
Modes == {"nvr", "standalone"}
Workers == {"camera", "watch", "talk"}
canceled == ctx \/ run

\* Nothing has been connected to.
Untouched == bc = [c \in Conns |-> NewClient] /\ rt = NewRtsp

\* The type invariant.
TypeOK ==
    /\ BcTypeOK /\ RtTypeOK
    /\ mode \in Modes
    /\ pc \in {"start", "talk", "dropTalk", "tone", "open", "receive", "dropPreview", "ready",
               "drain", "live", "stopPreview", "closePreview", "join", "stopTalk",
               "closeTalk", "over"}
    /\ {ctx, run, sockets, talking, hint} \subseteq BOOLEAN
    /\ rcv \in [pc : {"off", "run", "emit", "over"}, ready : BOOLEAN, canceled : BOOLEAN]
    /\ pcm \in 0..PcmCap /\ ff \in {"off", "run", "killed", "over"}
    /\ worker \in [Workers \cup {"phone"} -> {"off", "run", "write", "leave", "over"}]

Init ==
    /\ mode \in Modes /\ pc = "start"
    /\ ctx = FALSE /\ run = FALSE /\ sockets = TRUE /\ talking = FALSE /\ hint = FALSE
    /\ rcv = [pc |-> "off", ready |-> FALSE, canceled |-> FALSE] /\ pcm = 0 /\ ff = "off"
    /\ worker = [w \in Workers \cup {"phone"} |-> "off"]
    /\ Untouched

\* The call ends: hang-up, BYE, the maximum duration or the process.
Cancel ==
    /\ ~ctx /\ ctx' = TRUE
    /\ UNCHANGED <<mode, pc, run, sockets, talking, hint, rcv, pcm, ff, worker, bc, rt>>

\* The runner returns, once Run has or five seconds after the call has ended, and
\* its deferred calls close the sockets, perhaps for the second time.
RunnerCloses ==
    /\ sockets /\ (pc = "over" \/ ctx)
    /\ sockets' = FALSE
    /\ UNCHANGED <<mode, pc, ctx, run, talking, hint, rcv, pcm, ff, worker, bc, rt>>
-----------------------------------------------------------------------------
(* Ways out of Run. *)

\* Run returns from behind its deferred calls, which cancel runCtx and close the
\* sockets.
Return == pc' = "over" /\ run' = TRUE /\ sockets' = FALSE

\* closeTalkback begins: TalkSession.Close, or Shutdown unless the connection
\* is closed.
StopTalk ==
    IF mode = "nvr"
    THEN /\ pc' = "stopTalk" /\ bc' = [bc EXCEPT !["talk"] = Asking(@, "reset")]
         /\ UNCHANGED <<rt, run, sockets>>
    ELSE IF rt.link = "closed"
    THEN Return /\ UNCHANGED <<bc, rt>>
    ELSE /\ pc' = "stopTalk" /\ rt' = Requesting(rt, "session", "TEARDOWN")
         /\ UNCHANGED <<bc, run, sockets>>

\* cleanupReceive begins: Receiver.Close, or the end of FFmpeg.
CleanupReceive ==
    IF mode = "nvr"
    THEN /\ pc' = "stopPreview" /\ rcv' = [rcv EXCEPT !.canceled = TRUE]
         /\ bc' = [bc EXCEPT !["preview"] = [Asking(@, "stop") EXCEPT !.stop = TRUE]]
         /\ UNCHANGED ff
    ELSE /\ pc' = "join" /\ ff' = IF ff = "run" THEN "killed" ELSE ff
         /\ UNCHANGED <<rcv, bc>>

\* MediaReader.Close has asked for the end of the preview, whatever came of it;
\* the connection is closed.
StopPreview ==
    /\ pc = "stopPreview"
    /\ \E code \in Outcomes("preview", TRUE) :
        bc' = [bc EXCEPT !["preview"] = Shut(Returned(@, code))]
    /\ pc' = "closePreview"
    /\ UNCHANGED <<mode, ctx, run, sockets, talking, hint, rcv, pcm, ff, worker, rt>>

ClosePreview ==
    /\ pc = "closePreview" /\ Joined("preview") /\ rcv.pc = "over"
    /\ pc' = "join"
    /\ UNCHANGED <<mode, ctx, run, sockets, talking, hint, rcv, pcm, ff, worker, bc, rt>>

\* wg.Wait, then closeTalkback; before the workers have started there is
\* nothing to wait for.
Join ==
    /\ pc = "join" /\ \A w \in Workers : worker[w] \in {"off", "over"}
    /\ StopTalk
    /\ UNCHANGED <<mode, ctx, talking, hint, rcv, pcm, ff, worker>>

\* The TalkReset or TEARDOWN has an outcome; the connection is closed.
TalkStopped ==
    /\ pc = "stopTalk"
    /\ \/ /\ mode = "nvr"
          /\ \E code \in Outcomes("talk", TRUE) :
                bc' = [bc EXCEPT !["talk"] = Shut(Returned(@, code))]
          /\ talking' = FALSE /\ pc' = "closeTalk"
          /\ UNCHANGED <<rt, run, sockets>>
       \/ /\ mode = "standalone" /\ Results("session") # {}
          /\ rt' = CloseRtsp(Finished(rt, "session"))
          /\ Return /\ UNCHANGED <<bc, talking>>
    /\ UNCHANGED <<mode, ctx, hint, rcv, pcm, ff, worker>>

\* Client.Close has waited for its goroutines.
TalkClosed ==
    /\ pc \in {"closeTalk", "dropTalk"} /\ Joined("talk")
    /\ Return
    /\ UNCHANGED <<mode, ctx, talking, hint, rcv, pcm, ff, worker, bc, rt>>
-----------------------------------------------------------------------------
(* openConfiguredTalkback. *)

\* Run's first checks and the echo canceller, which may fail before Run has
\* deferred to close the sockets, the checks before cancelRun too; then the
\* connection of the talkback.
Start ==
    /\ pc = "start"
    /\ \/ pc' = "talk"
          /\ \/ mode = "nvr" /\ bc' = [bc EXCEPT !["talk"] = LoginThen(Dialed, "ability")] /\ UNCHANGED rt
             \/ mode = "standalone" /\ rt' = Requesting(Connected, "session", "DESCRIBE") /\ UNCHANGED bc
          /\ UNCHANGED <<run, sockets>>
       \/ pc' = "over" /\ run' \in {run, TRUE} /\ UNCHANGED <<sockets, bc, rt>>
       \/ Return /\ UNCHANGED <<bc, rt>>
    /\ UNCHANGED <<mode, ctx, talking, hint, rcv, pcm, ff, worker>>

\* StartTalk: what follows each of its replies.  A TalkConfig that is refused
\* with 422 is tried again after a TalkReset.
StartTalkNext(kind, code) ==
    CASE kind = "nonce" /\ code = "ok" -> "login"
      [] kind = "login" /\ code = "ok" -> "ability"
      [] kind = "ability" /\ code = "ok" -> "config"
      [] kind = "config" /\ code = "busy" -> "clear"
      [] kind = "clear" /\ code \in {"ok", "busy"} -> "retry"
      [] kind \in {"config", "retry"} /\ code = "ok" -> "started"
      [] OTHER -> "failed"

\* openBaichuanTalkback: a profile that cannot be used ends the session again.  A
\* TalkConfig whose reply is lost is a failure: the connection is closed, without
\* a TalkReset.
TalkReply ==
    /\ pc = "talk" /\ mode = "nvr"
    /\ \E code \in Outcomes("talk", TRUE) :
        LET next == StartTalkNext(bc["talk"].kind, code)
            r == Returned(bc["talk"], code)
        IN \/ /\ next \in Kinds
              /\ bc' = [bc EXCEPT !["talk"] = Asking(r, next)]
              /\ UNCHANGED <<pc, talking>>
           \/ /\ next = "failed"
              /\ bc' = [bc EXCEPT !["talk"] = Shut(r)]
              /\ pc' = "dropTalk" /\ UNCHANGED talking
           \/ /\ next = "started" /\ talking' = TRUE
              /\ \/ pc' = "tone" /\ bc' = [bc EXCEPT !["talk"] = r]
                 \/ pc' = "stopTalk" /\ bc' = [bc EXCEPT !["talk"] = Asking(r, "reset")]
    /\ UNCHANGED <<mode, ctx, run, sockets, hint, rcv, pcm, ff, worker, rt>>

\* Client.Open of RTSP; an answer that cannot be used counts as refused.
OpenReply ==
    /\ pc = "talk" /\ mode = "standalone"
    /\ \E code \in Results("session") :
        \/ /\ code = "ok" /\ rt.req["session"].method # "PLAY"
           /\ rt' = Requesting(rt, "session",
                        IF rt.req["session"].method = "DESCRIBE" THEN "SETUP" ELSE "PLAY")
           /\ UNCHANGED <<pc, run, sockets>>
        \/ /\ code = "ok" /\ rt.req["session"].method = "PLAY"
           /\ rt' = [Finished(rt, "session") EXCEPT !.loops = @ \cup {"keep", "report"}]
           /\ pc' = "tone" /\ UNCHANGED <<run, sockets>>
        \/ /\ code # "ok" /\ rt' = CloseRtsp(Finished(rt, "session"))
           /\ Return
    /\ UNCHANGED <<mode, ctx, talking, hint, rcv, pcm, ff, worker, bc>>
-----------------------------------------------------------------------------
(* The connection tone and the receiving side. *)

\* PlayPCM writes the blocks of the tone in real time, up to the last one, or
\* none is wanted.
PlayTone ==
    /\ pc = "tone" /\ pc' = "open"
    /\ UNCHANGED <<mode, ctx, run, sockets, talking, hint, rcv, pcm, ff, worker, bc, rt>>

\* The context or the connection ends, or a block cannot be written.
ToneFails ==
    /\ pc = "tone"
    /\ StopTalk
    /\ UNCHANGED <<mode, ctx, talking, hint, rcv, pcm, ff, worker>>

\* startFFmpeg, or Open of the receiver up to its first request.
StartReceive ==
    /\ pc = "open"
    /\ \/ /\ mode = "nvr" /\ pc' = "receive" /\ hint' = TRUE
          /\ bc' = [bc EXCEPT !["preview"] = LoginThen(Dialed, "ability")] /\ UNCHANGED ff
       \/ mode = "standalone" /\ pc' = "drain" /\ ff' = "run" /\ UNCHANGED <<bc, hint>>
    /\ UNCHANGED <<mode, ctx, run, sockets, talking, rcv, pcm, worker, rt>>

\* Mutant of ReceiveFails: the talkback is forgotten.
ReceiveFailsOpen ==
    /\ pc = "open"
    /\ Return
    /\ UNCHANGED <<mode, ctx, talking, hint, rcv, pcm, ff, worker, bc, rt>>

\* There is no connection for the receiver, or FFmpeg does not start.
ReceiveFails ==
    /\ pc = "open"
    /\ StopTalk
    /\ UNCHANGED <<mode, ctx, talking, hint, rcv, pcm, ff, worker>>

\* Open of the receiver: the hint may fail, or give up after three seconds, and
\* the preview is asked for without it, under runCtx alone.
OpenNext(r, code) ==
    CASE r.kind = "nonce" /\ code = "ok" -> "login"
      [] r.kind = "login" /\ code = "ok" -> IF hint THEN "ability" ELSE "preview"
      [] r.kind = "preview" /\ code = "ok" -> "started"
      [] hint -> "preview"
      [] OTHER -> "failed"

ReceiveReply ==
    /\ pc = "receive"
    /\ \E code \in Outcomes("preview", hint \/ canceled) :
        LET r == Returned(bc["preview"], code)
            next == OpenNext(bc["preview"], code)
        IN \/ /\ next \in Kinds
              /\ bc' = [bc EXCEPT !["preview"] = IF next = "preview" THEN LoginThen(r, next)
                                                 ELSE Asking(r, next)]
              /\ hint' = (next # "preview" /\ hint) /\ UNCHANGED <<pc, rcv>>
           \/ /\ next = "started"
              /\ bc' = [bc EXCEPT !["preview"] = [r EXCEPT !.loops = @ \cup {"pump"}]]
              /\ rcv' = [rcv EXCEPT !.pc = "run"]
              /\ pc' = "ready" /\ UNCHANGED hint
           \/ /\ next = "failed"
              /\ bc' = [bc EXCEPT !["preview"] = Shut(r)]
              /\ pc' = "dropPreview" /\ UNCHANGED <<hint, rcv>>
    /\ UNCHANGED <<mode, ctx, run, sockets, talking, pcm, ff, worker, rt>>

PreviewDropped ==
    /\ pc = "dropPreview" /\ Joined("preview")
    /\ StopTalk
    /\ UNCHANGED <<mode, ctx, talking, hint, rcv, pcm, ff, worker>>

\* The receiver has seen audio.
Ready ==
    /\ pc = "ready" /\ rcv.ready
    /\ pc' = "drain"
    /\ UNCHANGED <<mode, ctx, run, sockets, talking, hint, rcv, pcm, ff, worker, bc, rt>>

\* It has ended, ten seconds have passed, or the call is over.
NotReady ==
    /\ pc = "ready"
    /\ CleanupReceive
    /\ UNCHANGED <<mode, ctx, run, sockets, talking, hint, pcm, worker, rt>>
-----------------------------------------------------------------------------
(* The live phase. *)

\* discardQueuedSIPRTP, which fails on a closed socket; then the workers are
\* started.
GoLive ==
    /\ pc = "drain" /\ sockets
    /\ pc' = "live"
    /\ worker' = IF mode = "nvr"
                 THEN [w \in DOMAIN worker |-> IF w = "watch" THEN "off" ELSE "run"]
                 ELSE [w \in DOMAIN worker |-> IF w = "phone" THEN "off" ELSE "run"]
    /\ UNCHANGED <<mode, ctx, run, sockets, talking, hint, rcv, pcm, ff, bc, rt>>

DrainFails ==
    /\ pc = "drain"
    /\ CleanupReceive
    /\ UNCHANGED <<mode, ctx, run, sockets, talking, hint, pcm, worker, rt>>

\* The context is canceled or a worker has returned.
Live ==
    /\ pc = "live" /\ (ctx \/ \E w \in Workers : worker[w] = "over")
    /\ run' = TRUE /\ sockets' = FALSE
    /\ CleanupReceive
    /\ UNCHANGED <<mode, ctx, talking, hint, pcm, worker, rt>>

WorkerOver(w) == worker' = [worker EXCEPT ![w] = "over"]
OnlyWorker == UNCHANGED <<mode, pc, ctx, run, sockets, talking, hint, rcv, ff, bc, rt>>

\* forwardCameraToPhone and forwardBaichuanToPhone fail: no audio, a write
\* error, the echo canceller.
CameraFails == worker["camera"] = "run" /\ WorkerOver("camera") /\ UNCHANGED pcm /\ OnlyWorker
CameraEnds ==
    /\ worker["camera"] = "run"
    /\ canceled \/ ~sockets \/ (mode = "nvr" /\ rcv.pc = "over")
    /\ WorkerOver("camera") /\ UNCHANGED pcm /\ OnlyWorker
\* forwardBaichuanToPhone takes a chunk.
CameraPcm ==
    /\ worker["camera"] = "run" /\ pcm > 0
    /\ pcm' = pcm - 1 /\ UNCHANGED worker /\ OnlyWorker

\* The goroutine that waits for FFmpeg's error.
WatchEnds ==
    /\ worker["watch"] = "run" /\ (canceled \/ ff = "over")
    /\ WorkerOver("watch") /\ UNCHANGED pcm /\ OnlyWorker

\* The talk worker of a standalone camera: rtspTalkback.Run reads a packet and
\* writes it; it looks at its context only when no packet comes.
TalkPacket ==
    /\ mode = "standalone" /\ worker["talk"] = "run" /\ sockets
    /\ worker' = [worker EXCEPT !["talk"] = "write"] /\ UNCHANGED pcm /\ OnlyWorker
TalkWritten ==
    /\ worker["talk"] = "write" /\ (Writable \/ WriteError)
    /\ worker' = [worker EXCEPT !["talk"] = IF WriteError THEN "over" ELSE "run"]
    /\ UNCHANGED pcm /\ OnlyWorker
TalkEnds ==
    /\ mode = "standalone" /\ worker["talk"] = "run"
    /\ canceled \/ ~sockets \/ rt.link = "closed"
    /\ WorkerOver("talk") /\ UNCHANGED pcm /\ OnlyWorker
\* The RTP watchdog expires, or the socket fails.
TalkFails ==
    /\ mode = "standalone" /\ worker["talk"] = "run"
    /\ WorkerOver("talk") /\ UNCHANGED pcm /\ OnlyWorker

\* The talk worker of an NVR, runBaichuanAudioBridge, leaves its loop when the
\* context, the RTP receiver or the connection ends, or a block cannot be
\* written (BridgeFails); it then waits 300 ms for the RTP receiver.
BridgeEnds ==
    /\ mode = "nvr" /\ worker["talk"] = "run"
    /\ canceled \/ worker["phone"] = "over" \/ bc["talk"].link = "closed"
    /\ worker' = [worker EXCEPT !["talk"] = "leave"] /\ UNCHANGED pcm /\ OnlyWorker
BridgeFails ==
    /\ mode = "nvr" /\ worker["talk"] = "run"
    /\ worker' = [worker EXCEPT !["talk"] = "leave"] /\ UNCHANGED pcm /\ OnlyWorker
BridgeLeaves ==
    /\ worker["talk"] = "leave"
    /\ WorkerOver("talk") /\ UNCHANGED pcm /\ OnlyWorker

\* receivePhoneRTP returns: its context or socket has ended; watchdog, failure.
PhoneEnds ==
    /\ worker["phone"] = "run" /\ (~sockets \/ canceled \/ worker["talk"] # "run")
    /\ WorkerOver("phone") /\ UNCHANGED pcm /\ OnlyWorker
PhoneFails == worker["phone"] = "run" /\ WorkerOver("phone") /\ UNCHANGED pcm /\ OnlyWorker
-----------------------------------------------------------------------------
(* Receiver.run and FFmpeg. *)

RcvOnly == UNCHANGED <<mode, pc, ctx, run, sockets, talking, hint, ff, worker, rt>>

\* A packet: the first one makes the receiver ready; its PCM is emitted.
RcvPacket ==
    /\ rcv.pc = "run" /\ bc["preview"].media > 0
    /\ bc' = [bc EXCEPT !["preview"].media = @ - 1]
    /\ rcv' = [rcv EXCEPT !.pc = "emit", !.ready = TRUE]
    /\ UNCHANGED pcm /\ RcvOnly

\* emitPCM.
RcvEmits ==
    /\ rcv.pc = "emit" /\ pcm < PcmCap
    /\ pcm' = pcm + 1 /\ rcv' = [rcv EXCEPT !.pc = "run"]
    /\ UNCHANGED bc /\ RcvOnly

\* Mutant of RcvEnds: emitPCM does not look at the context.
RcvEndsUnlessBlocked ==
    /\ rcv.pc = "run"
    /\ canceled \/ rcv.canceled \/ bc["preview"].link = "closed" \/ "pump" \notin bc["preview"].loops
    /\ rcv' = [rcv EXCEPT !.pc = "over"]
    /\ UNCHANGED <<pcm, bc>> /\ RcvOnly

\* The context ends, or the connection while the receiver waits for packets.
RcvEnds ==
    /\ \/ rcv.pc \in {"run", "emit"} /\ (canceled \/ rcv.canceled)
       \/ rcv.pc = "run" /\ (bc["preview"].link = "closed" \/ "pump" \notin bc["preview"].loops)
    /\ rcv' = [rcv EXCEPT !.pc = "over"]
    /\ UNCHANGED <<pcm, bc>> /\ RcvOnly

\* The codec changes or its decoder fails.
RcvFails ==
    /\ rcv.pc = "run"
    /\ rcv' = [rcv EXCEPT !.pc = "over"]
    /\ UNCHANGED <<pcm, bc>> /\ RcvOnly

FfmpegExits ==
    /\ ff \in {"run", "killed"}
    /\ ff' = "over"
    /\ UNCHANGED <<mode, pc, ctx, run, sockets, talking, hint, rcv, pcm, worker, bc, rt>>
-----------------------------------------------------------------------------
Main ==
    \/ Start \/ TalkReply \/ OpenReply \/ PlayTone \/ ToneFails \/ StartReceive \/ ReceiveFails
    \/ ReceiveReply \/ PreviewDropped \/ Ready \/ NotReady \/ GoLive \/ DrainFails \/ Live
    \/ StopPreview \/ ClosePreview \/ Join \/ TalkStopped \/ TalkClosed

Camera == CameraFails \/ CameraEnds \/ CameraPcm
Talk ==
    \/ TalkPacket \/ TalkWritten \/ TalkEnds \/ TalkFails
    \/ BridgeEnds \/ BridgeFails \/ BridgeLeaves

Next ==
    \/ Cancel \/ RunnerCloses \/ Main \/ Camera \/ WatchEnds \/ Talk \/ PhoneEnds \/ PhoneFails
    \/ RcvPacket \/ RcvEmits \/ RcvEnds \/ RcvFails \/ FfmpegExits
    \/ \E c \in Conns : BcStep(c) /\ UNCHANGED <<ownVars, rt>>
    \/ RtStep(canceled) /\ UNCHANGED <<ownVars, bc>>

\* Every goroutine goes on, and every deadline passes; a select does not ignore
\* the end of its context for ever.  Nothing is assumed of the device, of the
\* phone or of failures.
Leave ==
    \/ (CameraEnds \/ TalkEnds \/ PhoneEnds) /\ ~sockets
    \/ WatchEnds \/ BridgeEnds \/ BridgeLeaves \/ RcvEnds
    \/ (FfmpegExits /\ (canceled \/ ff = "killed")) \/ RunnerCloses

Fairness ==
    /\ WF_vars(Main) /\ WF_vars(Leave) /\ WF_vars(TalkWritten)
    /\ \A c \in Conns : WF_vars(BcGoesOn(c) /\ UNCHANGED <<ownVars, rt>>)
    /\ WF_vars(RtGoesOn(canceled) /\ UNCHANGED <<ownVars, bc>>)
    /\ SF_vars(KeepEnds(canceled) /\ UNCHANGED <<ownVars, bc>>)

Spec == Init /\ [][Next]_vars
FairSpec == Spec /\ Fairness
-----------------------------------------------------------------------------
(* Properties. *)

\* When Run has returned, on any of its paths, the talk session has been given
\* its TalkReset, the connections are closed and the goroutines that are waited
\* for are over, FFmpeg is killed and the sockets are closed.  Only if Run failed
\* before it tried to connect may they still be open, for the runner to close.
ReturnLeavesNothing ==
    pc = "over" =>
        /\ sockets => Untouched
        /\ ~talking /\ ff # "run" /\ rcv.pc \in {"off", "over"}
        /\ \A c \in Conns : bc[c].link = "none" \/ Joined(c)
        /\ rt.link \in {"none", "closed"}
        /\ \A w \in Workers : worker[w] \in {"off", "over"}

\* Nothing is left running or open, not even what Run does not wait for or leaves
\* to the runner.
Quiet ==
    /\ pc = "over" /\ ~sockets /\ ff \in {"off", "over"} /\ rt.loops = {}
    /\ \A w \in DOMAIN worker : worker[w] \in {"off", "over"}

\* A canceled session returns and all its goroutines end, wherever it was, but
\* for one case: a standalone camera that keeps the connection and no longer
\* reads it, since RTSP writes have no deadline (Baichuan writes have).
CanceledSessionEnds == ctx ~> (Quiet \/ rt.stalled)
=============================================================================
