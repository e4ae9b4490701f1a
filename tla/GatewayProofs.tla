---------------------------- MODULE GatewayProofs ---------------------------
(***************************************************************************)
(* Proofs about CallController and about Gateway, which extends it, for    *)
(* any number of calls: the slot has one owner and a hang-up reaches the   *)
(* owner only; the gateway's steps are steps of the call controller, a     *)
(* free slot never shows a call, and a runner that gives up the slot has   *)
(* ended its dialog and waited for its media session.                      *)
(***************************************************************************)
EXTENDS Gateway, TLAPS

\* The inductive invariant of the call slot.  SlotHasOneOwner alone is not
\* inductive: Release compares generations, so the owner must be known to hold
\* the current one.
CtlInv == CtlTypeOK /\ SlotHasOneOwner /\ OwnerHasGeneration

USE DEF Holders, ThreadStates

\* The fresh controller has no owner.
LEMMA CtlInitInv == CtlInit => CtlInv
<1> SUFFICES ASSUME CtlInit PROVE CtlInv
  OBVIOUS
<1>1. CtlTypeOK
  BY DEF CtlInit, CtlTypeOK
<1>2. Holders = {}
  BY DEF CtlInit
<1>3. QED
  BY <1>1, <1>2 DEF CtlInit, CtlInv, SlotHasOneOwner, OwnerHasGeneration

\* Every step of Start, of a call goroutine, of CancelActive and of the
\* process context keeps the slot's owner unique and its generation current.
LEMMA CtlStepInv == CtlInv /\ [CtlNext]_ctlVars => CtlInv'
<1> SUFFICES ASSUME CtlInv, [CtlNext]_ctlVars PROVE CtlInv'
  OBVIOUS
<1> USE NoCallAssumption DEF CtlInv, CtlTypeOK
<1>1. ASSUME NEW c \in Calls, StartCheck(c) PROVE CtlInv'
  BY <1>1 DEF StartCheck, SlotHasOneOwner, OwnerHasGeneration
<1>2. ASSUME NEW c \in Calls, StartLate(c) PROVE CtlInv'
  BY <1>2 DEF StartLate, SlotHasOneOwner, OwnerHasGeneration
<1>3. ASSUME NEW c \in Calls, StartBusy(c) PROVE CtlInv'
  BY <1>3 DEF StartBusy, SlotHasOneOwner, OwnerHasGeneration
<1>4. ASSUME NEW c \in Calls, StartReserve(c) PROVE CtlInv'
  <2>1. CtlTypeOK'
    BY <1>4 DEF StartReserve
  <2>2. Holders' = {c}
    BY <1>4 DEF StartReserve, SlotHasOneOwner
  <2>3. QED
    BY <1>4, <2>1, <2>2 DEF StartReserve, SlotHasOneOwner, OwnerHasGeneration
<1>5. ASSUME NEW c \in Calls, FnReturns(c) PROVE CtlInv'
  BY <1>5 DEF FnReturns, SlotHasOneOwner, OwnerHasGeneration
<1>6. ASSUME NEW c \in Calls, Release(c) PROVE CtlInv'
  <2>1. c \in Holders /\ active /\ Holders = {c} /\ gen[c] = generation
    BY <1>6 DEF Release, SlotHasOneOwner, OwnerHasGeneration
  <2>2. ~active' /\ cancel' = NoCall /\ Holders' = {}
    BY <1>6, <2>1 DEF Release
  <2>3. CtlTypeOK'
    BY <1>6, <2>2 DEF Release
  <2>4. QED
    BY <2>2, <2>3 DEF SlotHasOneOwner, OwnerHasGeneration
<1>7. ASSUME NEW c \in Calls, DeferredCancel(c) PROVE CtlInv'
  BY <1>7 DEF DeferredCancel, SlotHasOneOwner, OwnerHasGeneration
<1>8. ASSUME CancelActive PROVE CtlInv'
  BY <1>8 DEF CancelActive, SlotHasOneOwner, OwnerHasGeneration
<1>9. ASSUME ParentDone PROVE CtlInv'
  BY <1>9 DEF ParentDone, SlotHasOneOwner, OwnerHasGeneration
<1>10. ASSUME UNCHANGED ctlVars PROVE CtlInv'
  BY <1>10 DEF ctlVars, SlotHasOneOwner, OwnerHasGeneration
<1>11. QED
  BY <1>1, <1>2, <1>3, <1>4, <1>5, <1>6, <1>7, <1>8, <1>9, <1>10 DEF CtlNext

\* The controller's state is well typed in every behaviour.
THEOREM ControllerTypeCorrect == CtlSpec => []CtlTypeOK
<1>1. CtlInv => CtlTypeOK
  BY DEF CtlInv
<1>2. QED
  BY CtlInitInv, CtlStepInv, <1>1, PTL DEF CtlSpec

\* However many sources call Start concurrently, the slot has one owner and
\* Controller.cancel is that owner's.
THEOREM OneOwner == CtlSpec => []SlotHasOneOwner
<1>1. CtlInv => SlotHasOneOwner
  BY DEF CtlInv
<1>2. QED
  BY CtlInitInv, CtlStepInv, <1>1, PTL DEF CtlSpec

\* A hang-up reaches only the call that owns the slot at that moment.
THEOREM HangupReachesOwnerOnly == CtlSpec => OnlyOwnerIsCanceled
<1> DEFINE Step == \A c \in Calls : (~canceled[c] /\ canceled'[c]) =>
                      \/ parentDone'
                      \/ active /\ cancel = c
                      \/ thread[c] = "released"
<1>1. CtlInv /\ [CtlNext]_ctlVars => [Step]_ctlVars
  <2> SUFFICES ASSUME CtlInv, CtlNext PROVE Step
    BY DEF Step
  <2> USE DEF CtlInv, CtlTypeOK, SlotHasOneOwner
  <2>1. ASSUME NEW c \in Calls, StartReserve(c) PROVE Step
    BY <2>1 DEF StartReserve
  <2>2. ASSUME NEW c \in Calls, DeferredCancel(c) PROVE Step
    BY <2>2 DEF DeferredCancel
  <2>3. ASSUME CancelActive PROVE Step
    BY <2>3 DEF CancelActive
  <2>4. ASSUME ParentDone PROVE Step
    BY <2>4 DEF ParentDone
  <2>5. ASSUME NEW c \in Calls,
               StartCheck(c) \/ StartLate(c) \/ StartBusy(c) \/ FnReturns(c)
                 \/ Release(c)
        PROVE Step
    BY <2>5 DEF StartCheck, StartLate, StartBusy, FnReturns, Release
  <2>6. QED
    BY <2>1, <2>2, <2>3, <2>4, <2>5 DEF CtlNext
<1>2. QED
  BY CtlInitInv, CtlStepInv, <1>1, PTL DEF CtlSpec, OnlyOwnerIsCanceled

-----------------------------------------------------------------------------
\* No call is visible in the status snapshot.
NoCallShown == dir = "" /\ state \notin CallStates

\* A call shows itself only between its first and its last snapshot update.
BetweenUpdates == \A c \in Holders : pc[c] \in {"start", "end"}

\* What makes FreeSlotShowsNoCall inductive: the runner has made its last
\* update before it gives up the slot, none before it owns it.
ShownInv ==
    /\ DOMAIN pc = Calls
    /\ \A c \in Calls : thread[c] \in {"idle", "checked", "refused"} => pc[c] = "start"
    /\ \A c \in Calls : thread[c] = "returned" => pc[c] = "end"
    /\ BetweenUpdates => NoCallShown

-----------------------------------------------------------------------------
\* Every step of the gateway is a step of the controller or leaves it alone.
LEMMA StepsAreControllerSteps == [Next]_vars => [CtlNext]_ctlVars
<1> SUFFICES ASSUME [Next]_vars PROVE [CtlNext]_ctlVars
  OBVIOUS
<1>1. ASSUME NEW c \in Calls, Accept(c) \/ Refuse(c) \/ Return(c) \/ FreeSlot(c)
      PROVE  CtlNext
  BY <1>1 DEF Accept, Refuse, Return, FreeSlot, CtlNext
<1>2. ASSUME Hangup \/ Signal PROVE CtlNext
  BY <1>2 DEF Hangup, Signal, CtlNext
<1>3. ASSUME NEW c \in Calls,
             \/ OutBegin(c) \/ NoLegs(c) \/ DialFails(c) \/ DialWins(c)
             \/ WonFails(c) \/ StartMedia(c) \/ InBegin(c) \/ Ports(c)
             \/ Answer(c) \/ Answered(c) \/ PrepareEnds(c) \/ TalkEnds(c)
             \/ EndDialog(c) \/ WaitMedia(c) \/ WaitFork(c) \/ FinishCall(c)
             \/ WatcherChecks(c) \/ WatcherPublishes(c) \/ MediaReady(c)
             \/ MediaOver(c) \/ RemoteEnds(c) \/ MaxDuration(c)
      PROVE  UNCHANGED ctlVars
  BY <1>3 DEF OutBegin, NoLegs, DialFails, DialWins, WonFails, StartMedia,
              InBegin, Ports, Answer, Answered, PrepareEnds, TalkEnds, EndDialog,
              WaitMedia, WaitFork, FinishCall, WatcherChecks, WatcherPublishes,
              MediaReady, MediaOver, RemoteEnds, MaxDuration
<1>4. ASSUME Registered \/ Exit PROVE UNCHANGED ctlVars
  BY <1>4 DEF Registered, Exit
<1>5. ASSUME UNCHANGED vars PROVE UNCHANGED ctlVars
  BY <1>5 DEF vars
<1>6. QED
  BY <1>1, <1>2, <1>3, <1>4, <1>5 DEF Next, Runner

\* The runners use the slot only as Controller offers it: the gateway
\* implements the specification of the controller.
THEOREM GatewayImplementsController == Spec => CtlSpec
<1>1. Init => CtlInit
  BY DEF Init
<1>2. QED
  BY <1>1, StepsAreControllerSteps, PTL DEF Spec, CtlSpec

\* One call at a time owns the slot, in the gateway as a whole.
THEOREM GatewayOneOwner == Spec => []SlotHasOneOwner
  BY GatewayImplementsController, OneOwner, PTL

\* No hang-up of the gateway's API reaches another call than the current one.
THEOREM GatewayHangupReachesOwnerOnly == Spec => OnlyOwnerIsCanceled
  BY GatewayImplementsController, HangupReachesOwnerOnly, PTL

-----------------------------------------------------------------------------
\* The snapshot shows no call before the first call is accepted.
LEMMA ShownInit == Init => ShownInv
  BY DEF Init, CtlInit, ShownInv, BetweenUpdates, NoCallShown, CallStates, Holders

\* Runner c is in the middle of its call after the step: the conclusion of
\* BetweenUpdates => NoCallShown is not asked for.
LEMMA MidCallStep ==
  ASSUME CtlInv, ShownInv, NEW c \in Calls, UNCHANGED ctlVars,
         thread[c] = "running", DOMAIN pc' = Calls,
         \A d \in Calls \ {c} : pc'[d] = pc[d],
         pc'[c] \notin {"start", "end"}
  PROVE  ShownInv'
<1>1. c \in Holders'
  BY DEF Holders, ctlVars
<1>2. ~BetweenUpdates'
  BY <1>1 DEF BetweenUpdates
<1>3. QED
  BY <1>2 DEF ShownInv, ctlVars

\* No step of a runner, of its environment or of the API shows a call outside
\* the span between the owner's first and last update.
LEMMA ShownStep == CtlInv /\ ShownInv /\ [Next]_vars => ShownInv'
<1> SUFFICES ASSUME CtlInv, ShownInv, [Next]_vars PROVE ShownInv'
  OBVIOUS
<1> USE DEF ShownInv, Holders, shown, runner
<1>1. ASSUME NEW c \in Calls, Accept(c) PROVE ShownInv'
  <2>1. CASE StartCheck(c)
    BY <1>1, <2>1 DEF Accept, StartCheck, gwVars, BetweenUpdates, NoCallShown,
                      CtlInv, CtlTypeOK
  <2>2. CASE StartReserve(c)
    BY <1>1, <2>2 DEF Accept, StartReserve, gwVars, BetweenUpdates, NoCallShown,
                      CtlInv, CtlTypeOK, SlotHasOneOwner
  <2>3. QED
    BY <1>1, <2>1, <2>2 DEF Accept
<1>2. ASSUME NEW c \in Calls, Refuse(c) PROVE ShownInv'
  BY <1>2 DEF Refuse, StartBusy, StartLate, BetweenUpdates, NoCallShown, CtlInv,
              CtlTypeOK
<1>3. ASSUME NEW c \in Calls,
             \/ NoLegs(c) \/ DialFails(c) \/ DialWins(c) \/ WonFails(c)
             \/ Ports(c) \/ Answer(c) \/ PrepareEnds(c) \/ TalkEnds(c)
      PROVE  ShownInv'
  BY <1>3, MidCallStep DEF NoLegs, DialFails, DialWins, WonFails, Ports, Answer,
              PrepareEnds, TalkEnds, At, Goto, Close
<1>4. ASSUME NEW c \in Calls, OutBegin(c) \/ InBegin(c) PROVE ShownInv'
  BY <1>4, MidCallStep DEF OutBegin, InBegin, At, Goto
<1>5. ASSUME NEW c \in Calls, StartMedia(c) \/ Answered(c) PROVE ShownInv'
  BY <1>5, MidCallStep DEF StartMedia, Answered, At, Goto
<1>6. ASSUME NEW c \in Calls, EndDialog(c) \/ WaitMedia(c) \/ WaitFork(c)
      PROVE  ShownInv'
  BY <1>6 DEF EndDialog, WaitMedia, WaitFork, ctlVars, BetweenUpdates, NoCallShown
<1>7. ASSUME NEW c \in Calls, FinishCall(c) PROVE ShownInv'
  BY <1>7 DEF FinishCall, At, Goto, ctlVars, BetweenUpdates, NoCallShown,
              CallStates
<1>8. ASSUME NEW c \in Calls, Return(c) PROVE ShownInv'
  BY <1>8 DEF Return, FnReturns, At, BetweenUpdates, NoCallShown, CtlInv, CtlTypeOK
<1>9. ASSUME NEW c \in Calls, FreeSlot(c) PROVE ShownInv'
  <2>1. CASE Release(c)
    <3>1. Holders = {c} /\ pc[c] = "end"
      BY <2>1 DEF Release, CtlInv, SlotHasOneOwner
    <3>2. NoCallShown
      BY <3>1 DEF BetweenUpdates
    <3>3. QED
      BY <1>9, <2>1, <3>2 DEF FreeSlot, Release, gwVars, NoCallShown, CtlInv,
                              CtlTypeOK
  <2>2. CASE DeferredCancel(c)
    BY <1>9, <2>2 DEF FreeSlot, DeferredCancel, gwVars, BetweenUpdates, NoCallShown,
                      CtlInv, CtlTypeOK
  <2>3. QED
    BY <1>9, <2>1, <2>2 DEF FreeSlot
<1>10. ASSUME NEW c \in Calls,
              \/ WatcherChecks(c) \/ MediaReady(c) \/ MediaOver(c)
              \/ RemoteEnds(c) \/ MaxDuration(c)
       PROVE  ShownInv'
  BY <1>10 DEF WatcherChecks, MediaReady, MediaOver, RemoteEnds, MaxDuration,
               ctlVars, BetweenUpdates, NoCallShown
<1>11. ASSUME NEW c \in Calls, WatcherPublishes(c) PROVE ShownInv'
  BY <1>11 DEF WatcherPublishes, ctlVars, BetweenUpdates, NoCallShown, CallStates
<1>12. ASSUME Hangup PROVE ShownInv'
  BY <1>12 DEF Hangup, CancelActive, BetweenUpdates, NoCallShown
<1>13. ASSUME Registered \/ Exit PROVE ShownInv'
  BY <1>13 DEF Registered, Exit, ctlVars, BetweenUpdates, NoCallShown, CallStates
<1>14. ASSUME Signal PROVE ShownInv'
  BY <1>14 DEF Signal, ParentDone, gwVars, BetweenUpdates, NoCallShown
<1>15. ASSUME UNCHANGED vars PROVE ShownInv'
  BY <1>15 DEF vars, ctlVars, gwVars, BetweenUpdates, NoCallShown
<1>16. QED
  BY <1>1, <1>2, <1>3, <1>4, <1>5, <1>6, <1>7, <1>8, <1>9, <1>10, <1>11, <1>12,
     <1>13, <1>14, <1>15 DEF Next, Runner

\* While no call owns the slot the API shows no call, however hang-ups, the
\* Ready watcher and the runners' updates interleave.
THEOREM FreeSlotShowsNothing == Spec => []FreeSlotShowsNoCall
<1>1. Init => CtlInv /\ ShownInv
  BY CtlInitInv, ShownInit DEF Init
<1>2. CtlInv /\ ShownInv /\ [Next]_vars => (CtlInv /\ ShownInv)'
  BY CtlStepInv, StepsAreControllerSteps, ShownStep
<1>3. CtlInv /\ ShownInv => FreeSlotShowsNoCall
  BY DEF CtlInv, SlotHasOneOwner, ShownInv, BetweenUpdates, NoCallShown,
         FreeSlotShowsNoCall
<1>4. QED
  BY <1>1, <1>2, <1>3, PTL DEF Spec
-----------------------------------------------------------------------------
\* The clean-up steps of a runner, and the ends of a dialog and of a session.
Tasks == {"hangup", "reject", "media", "quietMedia", "fork"}

\* The list contains one of the clean-up steps kinds.
Lists(list, kinds) == \E i \in 1..Len(list) : list[i] \in kinds

\* The steps that finish a dialog, and those that wait for the session.
Byes == {"hangup", "reject"}
Waits == {"media", "quietMedia"}

\* The call function of c has returned.
Over(c) == thread[c] \in {"returned", "released", "done"}

\* Where a runner can be: only a call function that is at its end returns, and
\* only handleCall dials.
PositionInv ==
    \A c \in Calls :
        /\ Over(c) => pc[c] = "end"
        /\ pc[c] = "dial" => c \in Outgoing

\* What makes DialogEndsBeforeSlot inductive: handleCall has no dialog before
\* DialFirst returns one, and a runner that is closing with its dialog open
\* still has the BYE or the rejection ahead of it.
DialogDebt ==
    \A c \in Calls :
        /\ c \in Outgoing /\ pc[c] \in {"start", "dial"} => dialog[c] = "none"
        /\ pc[c] = "closing" /\ dialog[c] \in {"pending", "up"}
              => Lists(todo[c], Byes)
        /\ pc[c] = "end" => dialog[c] \notin {"pending", "up"}

\* What makes MediaOutlivesRunnerOnlyByTimeout inductive: no session runs
\* before it is started, and a runner that is closing with its session running
\* either still has to wait for it or has waited in vain.
MediaDebt ==
    \A c \in Calls :
        /\ pc[c] \in {"start", "dial", "won", "ports"} => media[c] = "none"
        /\ pc[c] = "closing" /\ MediaRuns(c)
              => mediaTimedOut[c] \/ Lists(todo[c], Waits)
        /\ pc[c] = "end" /\ MediaRuns(c) => mediaTimedOut[c]

RunnerInv == TypeOK /\ PositionInv /\ DialogDebt /\ MediaDebt

\* Taking the first step off the clean-up leaves the others.
LEMMA TailKeepsDebt ==
  ASSUME NEW T, NEW s \in Seq(T), s # <<>>, NEW kinds, Lists(s, kinds),
         Head(s) \notin kinds
  PROVE  Lists(Tail(s), kinds)
<1>1. PICK i \in 1..Len(s) : s[i] \in kinds
  BY DEF Lists
<1>2. i # 1
  BY <1>1
<1>3. i - 1 \in 1..Len(Tail(s)) /\ Tail(s)[i - 1] = s[i]
  BY <1>2
<1>4. QED
  BY <1>1, <1>3 DEF Lists

\* The clean-up lists of the runners, and what they contain.
LEMMA TodoLists ==
  ASSUME NEW c \in Calls
  PROVE  /\ ForkWait(c) \in Seq(Tasks)
         /\ <<"media">> \o ForkWait(c) \in Seq(Tasks)
         /\ <<"hangup">> \o ForkWait(c) \in Seq(Tasks)
         /\ <<"hangup", "media">> \o ForkWait(c) \in Seq(Tasks)
         /\ Lists(<<"media">> \o ForkWait(c), Waits)
         /\ Lists(<<"hangup">> \o ForkWait(c), Byes)
         /\ Lists(<<"hangup", "media">> \o ForkWait(c), Byes)
         /\ Lists(<<"hangup", "media">> \o ForkWait(c), Waits)
<1>0. <<>> \in Seq(Tasks)
  OBVIOUS
<1>1. ForkWait(c) \in Seq(Tasks)
  <2>1. <<"fork">> \in Seq(Tasks)
    BY DEF Tasks
  <2>2. QED
    BY <1>0, <2>1 DEF ForkWait
<1>2. <<"media">> \in Seq(Tasks) /\ <<"hangup">> \in Seq(Tasks)
      /\ <<"hangup", "media">> \in Seq(Tasks)
  BY DEF Tasks
<1>3. /\ <<"media">> \o ForkWait(c) \in Seq(Tasks)
      /\ <<"hangup">> \o ForkWait(c) \in Seq(Tasks)
      /\ <<"hangup", "media">> \o ForkWait(c) \in Seq(Tasks)
  BY <1>1, <1>2
<1>4. /\ (<<"media">> \o ForkWait(c))[1] = "media"
      /\ 1 \in 1..Len(<<"media">> \o ForkWait(c))
  BY <1>1
<1>5. /\ (<<"hangup">> \o ForkWait(c))[1] = "hangup"
      /\ 1 \in 1..Len(<<"hangup">> \o ForkWait(c))
  BY <1>1
<1>6. /\ (<<"hangup", "media">> \o ForkWait(c))[1] = "hangup"
      /\ (<<"hangup", "media">> \o ForkWait(c))[2] = "media"
      /\ 1 \in 1..Len(<<"hangup", "media">> \o ForkWait(c))
      /\ 2 \in 1..Len(<<"hangup", "media">> \o ForkWait(c))
  BY <1>1
<1>7. QED
  BY <1>1, <1>3, <1>4, <1>5, <1>6 DEF Lists, Byes, Waits

\* The type of everything the runners and their environment write.
LEMMA RunnerTypeInit == Init => TypeOK
<1> SUFFICES ASSUME Init PROVE TypeOK
  OBVIOUS
<1>1. CtlTypeOK
  BY CtlInitInv DEF Init, CtlInv
<1>2. todo \in [Calls -> Seq(Tasks)]
  <2>1. <<>> \in Seq(Tasks)
    OBVIOUS
  <2>2. QED
    BY <2>1 DEF Init
<1>3. QED
  BY <1>1, <1>2 DEF Init, TypeOK, Tasks, CallStates

Positions == {"start", "dial", "won", "ports", "prepare", "answered", "talk",
              "closing", "end"}

\* A runner that closes its call keeps the invariant if the clean-up it plans
\* covers the dialog and the session it leaves open.
LEMMA CloseCovered ==
  ASSUME RunnerInv, NEW c \in Calls, NEW ts \in Seq(Tasks), NEW bad \in BOOLEAN,
         thread[c] = "running", Close(c, ts, bad),
         UNCHANGED <<ctlVars, shown, aux, media, ready, watcher>>,
         mctx' \in [Calls -> {"live", "deadline", "canceled"}],
         NEW x \in {"none", "pending", "up", "done"},
         dialog' = [dialog EXCEPT ![c] = x],
         x \in {"pending", "up"} => Lists(ts, Byes),
         MediaRuns(c) => Lists(ts, Waits)
  PROVE  RunnerInv'
<1> USE DEF RunnerInv
<1>1. todo' \in [Calls -> Seq(Tasks)] /\ todo'[c] = ts
      /\ \A d \in Calls \ {c} : todo'[d] = todo[d]
  BY DEF TypeOK, Tasks, Close
<1>2. failed' \in [Calls -> BOOLEAN]
  BY DEF TypeOK, Close
<1>3. pc' \in [Calls -> Positions] /\ pc'[c] = "closing"
      /\ \A d \in Calls \ {c} : pc'[d] = pc[d]
  BY DEF TypeOK, Close, Goto, Positions
<1>4. dialog' \in [Calls -> {"none", "pending", "up", "done"}] /\ dialog'[c] = x
      /\ \A d \in Calls \ {c} : dialog'[d] = dialog[d]
  BY DEF TypeOK
<1>5. TypeOK'
  BY <1>1, <1>2, <1>3, <1>4 DEF TypeOK, Tasks, Positions, aux, shown, ctlVars, CtlTypeOK
<1>6. PositionInv'
  BY <1>3 DEF PositionInv, Over, ctlVars
<1>7. DialogDebt'
  BY <1>1, <1>3, <1>4 DEF DialogDebt
<1>8. MediaDebt'
  BY <1>1, <1>3 DEF MediaDebt, MediaRuns, aux
<1>9. QED
  BY <1>5, <1>6, <1>7, <1>8

\* The lists of the runners that close before a conversation.
LEMMA EarlyLists ==
  /\ <<>> \in Seq(Tasks) /\ <<"fork">> \in Seq(Tasks)
  /\ <<"hangup", "fork">> \in Seq(Tasks) /\ Lists(<<"hangup", "fork">>, Byes)
  /\ <<"reject">> \in Seq(Tasks) /\ Lists(<<"reject">>, Byes)
  /\ <<"quietMedia">> \in Seq(Tasks) /\ Lists(<<"quietMedia">>, Waits)
  /\ <<"quietMedia", "reject">> \in Seq(Tasks)
  /\ Lists(<<"quietMedia", "reject">>, Waits)
  /\ Lists(<<"quietMedia", "reject">>, Byes)
<1>1. <<>> \in Seq(Tasks)
  OBVIOUS
<1>2. /\ <<"fork">> \in Seq(Tasks) /\ <<"hangup", "fork">> \in Seq(Tasks)
      /\ <<"reject">> \in Seq(Tasks) /\ <<"quietMedia">> \in Seq(Tasks)
      /\ <<"quietMedia", "reject">> \in Seq(Tasks)
  BY DEF Tasks
<1>3. \A a, b : /\ Lists(<<a>>, {a}) /\ Lists(<<a, b>>, {a}) /\ Lists(<<a, b>>, {b})
  <2> SUFFICES ASSUME NEW a, NEW b
               PROVE  Lists(<<a>>, {a}) /\ Lists(<<a, b>>, {a}) /\ Lists(<<a, b>>, {b})
    OBVIOUS
  <2>1. <<a>>[1] = a /\ 1 \in 1..Len(<<a>>)
    OBVIOUS
  <2>2. <<a, b>>[1] = a /\ <<a, b>>[2] = b /\ 1 \in 1..Len(<<a, b>>)
        /\ 2 \in 1..Len(<<a, b>>)
    OBVIOUS
  <2>3. QED
    BY <2>1, <2>2 DEF Lists
<1>4. QED
  BY <1>1, <1>2, <1>3 DEF Lists, Byes, Waits

\* cancelCall() leaves a context of one of the three kinds.
LEMMA CancelCallType ==
  ASSUME TypeOK, NEW c \in Calls, CancelCall(c) \/ UNCHANGED mctx
  PROVE  mctx' \in [Calls -> {"live", "deadline", "canceled"}]
<1>1. mctx \in [Calls -> {"live", "deadline", "canceled"}]
  BY DEF TypeOK
<1>2. QED
  BY <1>1 DEF CancelCall

\* handleCall gives up before the conversation: no dialog is left, or its BYE
\* is planned, and no session was started.
LEMMA OutgoingCloses ==
  ASSUME RunnerInv, NEW c \in Calls, NoLegs(c) \/ DialFails(c) \/ WonFails(c)
  PROVE  RunnerInv'
<1>1. /\ UNCHANGED <<ctlVars, shown, aux, media, ready, watcher>>
      /\ UNCHANGED dialog /\ UNCHANGED mctx /\ thread[c] = "running"
  BY DEF NoLegs, DialFails, WonFails, At
<1>2. dialog[c] \in {"none", "pending", "up", "done"}
      /\ dialog' = [dialog EXCEPT ![c] = dialog[c]]
  BY <1>1 DEF RunnerInv, TypeOK
<1>3. mctx' \in [Calls -> {"live", "deadline", "canceled"}]
  BY <1>1 DEF RunnerInv, TypeOK
<1>4. ~MediaRuns(c)
  BY DEF NoLegs, DialFails, WonFails, At, RunnerInv, MediaDebt, MediaRuns
<1>5. CASE NoLegs(c) \/ DialFails(c)
  <2>1. dialog[c] = "none"
    BY <1>5 DEF NoLegs, DialFails, At, RunnerInv, PositionInv, DialogDebt
  <2>2. \E ts \in Seq(Tasks), bad \in BOOLEAN : Close(c, ts, bad)
    <3>1. CASE NoLegs(c)
      <4>1. (~dryRun) \in BOOLEAN
        OBVIOUS
      <4>2. QED
        BY <3>1, <4>1, EarlyLists DEF NoLegs
    <3>2. CASE DialFails(c)
      BY <3>2, EarlyLists DEF DialFails
    <3>3. QED
      BY <1>5, <3>1, <3>2
  <2>3. QED
    BY <1>1, <1>2, <1>3, <1>4, <2>1, <2>2, CloseCovered
<1>6. CASE WonFails(c)
  <2>1. Close(c, <<"hangup", "fork">>, TRUE)
    BY <1>6 DEF WonFails
  <2>2. QED
    BY <1>1, <1>2, <1>3, <1>4, <2>1, CloseCovered, EarlyLists
<1>7. QED
  BY <1>5, <1>6

\* handleIncomingCall gives up before the conversation.
LEMMA PrepareCloses ==
  ASSUME RunnerInv, NEW c \in Calls, PrepareEnds(c)
  PROVE  RunnerInv'
<1>1. /\ UNCHANGED <<ctlVars, shown, aux, media, ready, watcher>>
      /\ UNCHANGED dialog /\ CancelCall(c) /\ thread[c] = "running"
  BY DEF PrepareEnds, At
<1>2. dialog[c] \in {"none", "pending", "up", "done"}
      /\ dialog' = [dialog EXCEPT ![c] = dialog[c]]
  BY <1>1 DEF RunnerInv, TypeOK
<1>3. mctx' \in [Calls -> {"live", "deadline", "canceled"}]
  BY <1>1, CancelCallType DEF RunnerInv
<1>4. CASE media[c] = "over" /\ Close(c, <<"reject">>, TRUE)
  <2>1. ~MediaRuns(c)
    BY <1>4 DEF MediaRuns
  <2>2. QED
    BY <1>1, <1>2, <1>3, <1>4, <2>1, CloseCovered, EarlyLists
<1>5. CASE dialog[c] = "done" /\ \E bad \in BOOLEAN : Close(c, <<"quietMedia">>, bad)
  <2>1. dialog[c] \notin {"pending", "up"}
    BY <1>5
  <2>2. QED
    BY <1>1, <1>2, <1>3, <1>5, <2>1, CloseCovered, EarlyLists
<1>6. CASE Close(c, <<"quietMedia", "reject">>, mctx[c] = "deadline")
  <2>1. (mctx[c] = "deadline") \in BOOLEAN
    OBVIOUS
  <2>2. PICK bad \in BOOLEAN : Close(c, <<"quietMedia", "reject">>, bad)
    BY <1>6, <2>1
  <2>3. QED
    BY <1>1, <1>2, <1>3, <2>2, CloseCovered, EarlyLists
<1>7. QED
  BY <1>4, <1>5, <1>6 DEF PrepareEnds

\* The conversation ends: whoever ends it, the clean-up covers the rest.
LEMMA TalkCloses ==
  ASSUME RunnerInv, NEW c \in Calls, TalkEnds(c)
  PROVE  RunnerInv'
<1>1. /\ UNCHANGED <<ctlVars, shown, aux, media, ready, watcher>>
      /\ UNCHANGED dialog /\ thread[c] = "running"
      /\ CancelCall(c) \/ UNCHANGED mctx
  BY DEF TalkEnds, At
<1>2. dialog[c] \in {"none", "pending", "up", "done"}
      /\ dialog' = [dialog EXCEPT ![c] = dialog[c]]
  BY <1>1 DEF RunnerInv, TypeOK
<1>3. mctx' \in [Calls -> {"live", "deadline", "canceled"}]
  BY <1>1, CancelCallType DEF RunnerInv
<1>4. CASE /\ dialog[c] = "done"
           /\ \E bad \in BOOLEAN : Close(c, <<"media">> \o ForkWait(c), bad)
  <2>1. dialog[c] \notin {"pending", "up"}
    BY <1>4
  <2>2. QED
    BY <1>1, <1>2, <1>3, <1>4, <2>1, CloseCovered, TodoLists
<1>5. CASE /\ media[c] = "over"
           /\ \E bad \in BOOLEAN : Close(c, <<"hangup">> \o ForkWait(c), bad)
  <2>1. ~MediaRuns(c)
    BY <1>5 DEF MediaRuns
  <2>2. QED
    BY <1>1, <1>2, <1>3, <1>5, <2>1, CloseCovered, TodoLists
<1>6. CASE Close(c, <<"hangup", "media">> \o ForkWait(c), mctx[c] = "deadline")
  <2>1. (mctx[c] = "deadline") \in BOOLEAN
    OBVIOUS
  <2>2. PICK bad \in BOOLEAN : Close(c, <<"hangup", "media">> \o ForkWait(c), bad)
    BY <1>6, <2>1
  <2>3. QED
    BY <1>1, <1>2, <1>3, <2>2, CloseCovered, TodoLists
<1>7. QED
  BY <1>4, <1>5, <1>6 DEF TalkEnds

\* Reserving the ports and answering: either the runner closes, or it goes on
\* with the session started or the dialog up.
LEMMA IncomingGoesOn ==
  ASSUME RunnerInv, NEW c \in Calls, Ports(c) \/ Answer(c)
  PROVE  RunnerInv'
<1>1. /\ UNCHANGED <<ctlVars, shown, aux, ready, watcher>> /\ thread[c] = "running"
  BY DEF Ports, Answer, At
<1>2. dialog[c] \in {"none", "pending", "up", "done"}
      /\ (UNCHANGED dialog => dialog' = [dialog EXCEPT ![c] = dialog[c]])
  BY <1>1 DEF RunnerInv, TypeOK
<1>3. CASE Ports(c) /\ Close(c, <<"reject">>, TRUE) /\ UNCHANGED media
  <2>1. UNCHANGED dialog /\ UNCHANGED mctx
    BY <1>3 DEF Ports
  <2>2. mctx' \in [Calls -> {"live", "deadline", "canceled"}]
    BY <2>1 DEF RunnerInv, TypeOK
  <2>3. ~MediaRuns(c)
    BY <1>3 DEF Ports, At, RunnerInv, MediaDebt, MediaRuns
  <2>4. QED
    BY <1>1, <1>2, <1>3, <2>1, <2>2, <2>3, CloseCovered, EarlyLists
<1>4. CASE Answer(c) /\ CancelCall(c) /\ dialog' = [dialog EXCEPT ![c] = "done"]
           /\ \E bad \in BOOLEAN : Close(c, <<"quietMedia">>, bad)
  <2>1. UNCHANGED media
    BY <1>4 DEF Answer
  <2>2. mctx' \in [Calls -> {"live", "deadline", "canceled"}]
    BY <1>4, CancelCallType DEF RunnerInv
  <2>3. QED
    BY <1>1, <1>4, <2>1, <2>2, CloseCovered, EarlyLists
<1>5. CASE Ports(c) /\ media' = [media EXCEPT ![c] = "setup"] /\ Goto(c, "prepare")
           /\ UNCHANGED <<todo, failed>>
  <2>1. pc[c] = "ports" /\ UNCHANGED <<dialog, mctx, todo, failed>>
    BY <1>5 DEF Ports, At
  <2>2. TypeOK'
    BY <1>1, <1>5, <2>1 DEF RunnerInv, TypeOK, CtlTypeOK, ctlVars, shown, aux, Goto
  <2>3. PositionInv' /\ DialogDebt' /\ MediaDebt'
    BY <1>1, <1>5, <2>1 DEF RunnerInv, TypeOK, PositionInv, DialogDebt, MediaDebt,
                            Over, MediaRuns, ctlVars, aux, Goto
  <2>4. QED
    BY <2>2, <2>3 DEF RunnerInv
<1>6. CASE Answer(c) /\ dialog' = [dialog EXCEPT ![c] = "up"] /\ Goto(c, "answered")
           /\ UNCHANGED <<todo, failed, mctx>>
  <2>1. pc[c] = "prepare" /\ UNCHANGED media
    BY <1>6 DEF Answer, At
  <2>2. TypeOK'
    BY <1>1, <1>6, <2>1 DEF RunnerInv, TypeOK, CtlTypeOK, ctlVars, shown, aux, Goto
  <2>3. PositionInv' /\ DialogDebt' /\ MediaDebt'
    BY <1>1, <1>6, <2>1 DEF RunnerInv, TypeOK, PositionInv, DialogDebt, MediaDebt,
                            Over, MediaRuns, ctlVars, aux, Goto
  <2>4. QED
    BY <2>2, <2>3 DEF RunnerInv
<1>7. QED
  BY <1>3, <1>4, <1>5, <1>6 DEF Ports, Answer

\* The other steps that take a runner from one position to the next.
LEMMA RunnerGoesOn ==
  ASSUME RunnerInv, NEW c \in Calls,
         OutBegin(c) \/ InBegin(c) \/ DialWins(c) \/ StartMedia(c) \/ Answered(c)
  PROVE  RunnerInv'
<1> USE DEF RunnerInv
<1>1. /\ UNCHANGED <<ctlVars, aux, todo, failed, ready, mctx>>
      /\ thread[c] = "running"
  BY DEF OutBegin, InBegin, DialWins, StartMedia, Answered, At
<1>2. CASE OutBegin(c) \/ InBegin(c)
  <2>1. TypeOK'
    BY <1>1, <1>2 DEF TypeOK, CtlTypeOK, ctlVars, aux, OutBegin, InBegin, Goto,
                      CallStates
  <2>2. /\ UNCHANGED <<dialog, media, watcher>> /\ pc[c] = "start"
        /\ \A d \in Calls \ {c} : pc'[d] = pc[d]
        /\ pc'[c] = IF c \in Outgoing THEN "dial" ELSE "ports"
    BY <1>2 DEF TypeOK, OutBegin, InBegin, At, Goto, Outgoing
  <2>3. PositionInv' /\ DialogDebt' /\ MediaDebt'
    BY <1>1, <2>2 DEF PositionInv, DialogDebt, MediaDebt, Over, MediaRuns, ctlVars, aux
  <2>4. QED
    BY <2>1, <2>3
<1>3. CASE DialWins(c)
  <2>1. TypeOK'
    BY <1>1, <1>3 DEF TypeOK, CtlTypeOK, ctlVars, aux, shown, DialWins, Goto
  <2>2. PositionInv' /\ DialogDebt' /\ MediaDebt'
    BY <1>1, <1>3 DEF TypeOK, PositionInv, DialogDebt, MediaDebt, Over, MediaRuns,
                      ctlVars, aux, Goto, At, DialWins
  <2>3. QED
    BY <2>1, <2>2
<1>4. CASE StartMedia(c) \/ Answered(c)
  <2>1. TypeOK'
    BY <1>1, <1>4 DEF TypeOK, CtlTypeOK, ctlVars, aux, StartMedia, Answered, Goto,
                      CallStates
  <2>2. /\ UNCHANGED dialog /\ pc'[c] = "talk"
        /\ \A d \in Calls \ {c} : pc'[d] = pc[d] /\ media'[d] = media[d]
    BY <1>4 DEF TypeOK, StartMedia, Answered, Goto
  <2>3. PositionInv' /\ DialogDebt' /\ MediaDebt'
    BY <1>1, <2>2 DEF PositionInv, DialogDebt, MediaDebt, Over, MediaRuns, ctlVars, aux
  <2>4. QED
    BY <2>1, <2>3
<1>5. QED
  BY <1>2, <1>3, <1>4

\* One step of the clean-up, and the last update of the snapshot: what is
\* taken off the list is done.
LEMMA CleanupGoesOn ==
  ASSUME RunnerInv, NEW c \in Calls,
         EndDialog(c) \/ WaitMedia(c) \/ WaitFork(c) \/ FinishCall(c)
  PROVE  RunnerInv'
<1> USE DEF RunnerInv
<1>1. UNCHANGED <<ctlVars, media, ready, mctx, watcher, dryRun, exited>>
      /\ thread[c] = "running" /\ pc[c] = "closing"
  BY DEF EndDialog, WaitMedia, WaitFork, FinishCall, Next1, At, aux
<1>2. todo[c] \in Seq(Tasks) /\ todo \in [Calls -> Seq(Tasks)]
  BY DEF TypeOK, Tasks
<1>3. ASSUME Pop(c), todo[c] # <<>>
      PROVE  /\ todo' \in [Calls -> Seq(Tasks)] /\ todo'[c] = Tail(todo[c])
             /\ \A d \in Calls \ {c} : todo'[d] = todo[d]
             /\ \A kinds : Lists(todo[c], kinds) /\ Head(todo[c]) \notin kinds
                              => Lists(todo'[c], kinds)
  <2>1. Tail(todo[c]) \in Seq(Tasks)
    BY <1>2, <1>3
  <2>2. /\ todo' \in [Calls -> Seq(Tasks)] /\ todo'[c] = Tail(todo[c])
        /\ \A d \in Calls \ {c} : todo'[d] = todo[d]
    BY <1>2, <1>3, <2>1 DEF Pop
  <2>3. QED
    BY <1>2, <1>3, <2>2, TailKeepsDebt
<1>4. CASE EndDialog(c)
  <2>1. /\ Pop(c) /\ todo[c] # <<>> /\ Head(todo[c]) \in Byes
        /\ UNCHANGED <<shown, aux, pc, failed>>
        /\ dialog' = [dialog EXCEPT ![c] = "done"]
    BY <1>4 DEF EndDialog, Next1, Byes
  <2>2. Head(todo[c]) \notin Waits
    BY <2>1 DEF Byes, Waits
  <2>3. TypeOK'
    BY <1>1, <1>3, <2>1 DEF TypeOK, Tasks, CtlTypeOK, ctlVars, shown, aux
  <2>4. PositionInv' /\ DialogDebt' /\ MediaDebt'
    BY <1>1, <1>3, <2>1, <2>2 DEF TypeOK, PositionInv, DialogDebt, MediaDebt, Over,
                                  MediaRuns, ctlVars, aux
  <2>5. QED
    BY <2>3, <2>4
<1>5. CASE WaitMedia(c)
  <2>1. /\ Pop(c) /\ todo[c] # <<>> /\ Head(todo[c]) \in Waits
        /\ UNCHANGED <<shown, pc, dialog>>
        /\ mediaTimedOut' = [mediaTimedOut EXCEPT ![c] = media[c] # "over"]
    BY <1>5 DEF WaitMedia, Next1, Waits
  <2>2. Head(todo[c]) \notin Byes
    BY <2>1 DEF Byes, Waits
  <2>3. failed' \in [Calls -> BOOLEAN]
    BY <1>5 DEF WaitMedia, TypeOK
  <2>4. mediaTimedOut' \in [Calls -> BOOLEAN] /\ (media[c] # "over" => mediaTimedOut'[c])
        /\ \A d \in Calls \ {c} : mediaTimedOut'[d] = mediaTimedOut[d]
    BY <2>1 DEF TypeOK
  <2>5. TypeOK'
    BY <1>1, <1>3, <2>1, <2>3, <2>4 DEF TypeOK, Tasks, CtlTypeOK, ctlVars, shown
  <2>6. PositionInv' /\ DialogDebt' /\ MediaDebt'
    BY <1>1, <1>3, <2>1, <2>2, <2>4 DEF PositionInv, DialogDebt, MediaDebt, Over,
                                        MediaRuns, ctlVars
  <2>7. QED
    BY <2>5, <2>6
<1>6. CASE WaitFork(c)
  <2>1. /\ Pop(c) /\ todo[c] # <<>> /\ Head(todo[c]) \notin Byes \cup Waits
        /\ UNCHANGED <<shown, aux, pc, failed, dialog>>
    BY <1>6 DEF WaitFork, Next1, Byes, Waits
  <2>2. TypeOK'
    BY <1>1, <1>3, <2>1 DEF TypeOK, Tasks, CtlTypeOK, ctlVars, shown, aux
  <2>3. PositionInv' /\ DialogDebt' /\ MediaDebt'
    BY <1>1, <1>3, <2>1 DEF PositionInv, DialogDebt, MediaDebt, Over, MediaRuns,
                            ctlVars, aux
  <2>4. QED
    BY <2>2, <2>3
<1>7. CASE FinishCall(c)
  <2>1. ~Lists(todo[c], Byes) /\ ~Lists(todo[c], Waits)
    <3>1. todo[c] = <<>> /\ Len(<<>>) = 0
      BY <1>7 DEF FinishCall
    <3>2. QED
      BY <3>1 DEF Lists
  <2>2. TypeOK'
    BY <1>1, <1>7 DEF TypeOK, CtlTypeOK, ctlVars, aux, FinishCall, Goto
  <2>3. PositionInv' /\ DialogDebt' /\ MediaDebt'
    BY <1>1, <1>7, <2>1 DEF TypeOK, PositionInv, DialogDebt, MediaDebt, Over,
                            MediaRuns, ctlVars, aux, FinishCall, Goto
  <2>4. QED
    BY <2>2, <2>3
<1>8. QED
  BY <1>4, <1>5, <1>6, <1>7

\* The main loop, the API, the slot and the environment of the runners move no
\* runner and open no dialog: what they end, nobody has to end any more.
LEMMA OthersGoOn ==
  ASSUME RunnerInv, CtlTypeOK', NEW c \in Calls,
         \/ Accept(c) \/ Refuse(c) \/ Return(c) \/ FreeSlot(c)
         \/ WatcherChecks(c) \/ WatcherPublishes(c) \/ MediaReady(c) \/ MediaOver(c)
         \/ RemoteEnds(c) \/ MaxDuration(c)
  PROVE  RunnerInv'
<1> USE DEF RunnerInv
<1>1. UNCHANGED <<pc, todo, failed, dryRun, mediaTimedOut, exited, dir>>
  BY DEF Accept, Refuse, Return, FreeSlot, WatcherChecks, WatcherPublishes,
         MediaReady, MediaOver, RemoteEnds, MaxDuration, gwVars, shown, runner, aux
<1>2. \A d \in Calls : Over(d)' => Over(d) \/ pc[d] = "end"
  <2>1. CASE Accept(c) \/ Refuse(c) \/ Return(c) \/ FreeSlot(c)
    <3>1. thread \in [Calls -> ThreadStates]
      BY DEF TypeOK, CtlTypeOK
    <3>2. CASE Accept(c) \/ Refuse(c)
      BY <3>1, <3>2 DEF Over, Accept, Refuse, StartCheck, StartReserve, StartBusy,
                        StartLate
    <3>3. CASE Return(c) \/ FreeSlot(c)
      BY <3>1, <3>3 DEF Over, Return, FreeSlot, At, FnReturns, Release, DeferredCancel
    <3>4. QED
      BY <2>1, <3>2, <3>3
  <2>2. CASE \/ WatcherChecks(c) \/ WatcherPublishes(c) \/ MediaReady(c)
             \/ MediaOver(c) \/ RemoteEnds(c) \/ MaxDuration(c)
    BY <2>2 DEF Over, WatcherChecks, WatcherPublishes, MediaReady, MediaOver,
                RemoteEnds, MaxDuration, ctlVars
  <2>3. QED
    BY <2>1, <2>2
<1>3. /\ dialog' \in [Calls -> {"none", "pending", "up", "done"}]
      /\ \A d \in Calls : dialog'[d] = dialog[d] \/ (dialog[d] # "none" /\ dialog'[d] = "done")
  BY DEF Accept, Refuse, Return, FreeSlot, WatcherChecks, WatcherPublishes,
         MediaReady, MediaOver, RemoteEnds, MaxDuration, gwVars, TypeOK
<1>4. /\ media' \in [Calls -> {"none", "setup", "live", "over"}]
      /\ \A d \in Calls : /\ MediaRuns(d)' => MediaRuns(d)
                          /\ media[d] = "none" => media'[d] = "none"
  BY DEF Accept, Refuse, Return, FreeSlot, WatcherChecks, WatcherPublishes,
         MediaReady, MediaOver, RemoteEnds, MaxDuration, gwVars, TypeOK, MediaRuns
<1>5. ready' \in [Calls -> BOOLEAN]
  BY DEF Accept, Refuse, Return, FreeSlot, WatcherChecks, WatcherPublishes,
         MediaReady, MediaOver, RemoteEnds, MaxDuration, gwVars, TypeOK
<1>6. mctx' \in [Calls -> {"live", "deadline", "canceled"}]
  <2>1. CASE MaxDuration(c)
    BY <2>1 DEF MaxDuration, TypeOK
  <2>2. CASE ~MaxDuration(c)
    <3>1. CancelCall(c) \/ UNCHANGED mctx
      BY <2>2 DEF Accept, Refuse, Return, FreeSlot, WatcherChecks, WatcherPublishes,
                  MediaReady, MediaOver, RemoteEnds, gwVars
    <3>2. QED
      BY <3>1, CancelCallType
  <2>3. QED
    BY <2>1, <2>2
<1>7. watcher' \in [Calls -> {"none", "waiting", "passed", "over"}]
  <2>1. \/ UNCHANGED watcher
        \/ \E w \in {"passed", "over"} : watcher' = [watcher EXCEPT ![c] = w]
    BY DEF Accept, Refuse, Return, FreeSlot, WatcherChecks, WatcherPublishes,
           MediaReady, MediaOver, RemoteEnds, MaxDuration, gwVars
  <2>2. QED
    BY <2>1 DEF TypeOK
<1>8. state' \in CallStates \cup {"starting", "idle", "error", "stopping"}
  BY DEF Accept, Refuse, Return, FreeSlot, WatcherChecks, WatcherPublishes,
         MediaReady, MediaOver, RemoteEnds, MaxDuration, gwVars, shown, TypeOK,
         CallStates
<1>9. TypeOK'
  BY <1>1, <1>3, <1>4, <1>5, <1>6, <1>7, <1>8 DEF TypeOK
<1>10. PositionInv'
  BY <1>1, <1>2 DEF PositionInv
<1>11. DialogDebt'
  BY <1>1, <1>3 DEF DialogDebt, TypeOK
<1>12. MediaDebt'
  BY <1>1, <1>4 DEF MediaDebt
<1>13. QED
  BY <1>9, <1>10, <1>11, <1>12

\* The invariant of the runners holds initially and is kept by every step.
LEMMA RunnerInit == Init => RunnerInv
<1> SUFFICES ASSUME Init PROVE RunnerInv
  OBVIOUS
<1>1. PositionInv /\ DialogDebt /\ MediaDebt
  BY DEF Init, CtlInit, PositionInv, DialogDebt, MediaDebt, Over, MediaRuns, Outgoing
<1>2. QED
  BY <1>1, RunnerTypeInit DEF RunnerInv

\* Every step of the gateway preserves RunnerInv: each early return and each
\* exit of a select puts what it still owes on the clean-up list.
LEMMA RunnerStep == CtlInv /\ RunnerInv /\ [Next]_vars => RunnerInv'
<1> SUFFICES ASSUME CtlInv, RunnerInv, [Next]_vars PROVE RunnerInv'
  OBVIOUS
<1>1. CtlTypeOK'
  BY CtlStepInv, StepsAreControllerSteps DEF CtlInv
<1>2. ASSUME NEW c \in Calls, Runner(c) PROVE RunnerInv'
  BY <1>1, <1>2, OutgoingCloses, PrepareCloses, TalkCloses, IncomingGoesOn,
     RunnerGoesOn, CleanupGoesOn, OthersGoOn DEF Runner
<1>3. ASSUME NEW c \in Calls,
             \/ Accept(c) \/ Refuse(c) \/ WatcherChecks(c) \/ WatcherPublishes(c)
             \/ MediaReady(c) \/ MediaOver(c) \/ RemoteEnds(c) \/ MaxDuration(c)
      PROVE  RunnerInv'
  BY <1>1, <1>3, OthersGoOn
<1>4. ASSUME Registered \/ Hangup \/ Signal \/ Exit \/ UNCHANGED vars
      PROVE  RunnerInv'
  <2>1. UNCHANGED <<dir, dryRun, pc, todo, failed, dialog, media, ready, mctx,
                    watcher, mediaTimedOut, thread>>
    BY <1>4 DEF Registered, Hangup, Signal, Exit, CancelActive, ParentDone, vars,
                ctlVars, gwVars, runner, aux
  <2>2. /\ state' \in CallStates \cup {"starting", "idle", "error", "stopping"}
        /\ exited' \in BOOLEAN
    BY <1>4 DEF Registered, Hangup, Signal, Exit, vars, gwVars, aux, RunnerInv,
                TypeOK, CallStates
  <2>3. TypeOK'
    BY <1>1, <2>1, <2>2 DEF RunnerInv, TypeOK
  <2>4. PositionInv' /\ DialogDebt' /\ MediaDebt'
    BY <2>1 DEF RunnerInv, PositionInv, DialogDebt, MediaDebt, Over, MediaRuns
  <2>5. QED
    BY <2>3, <2>4 DEF RunnerInv
<1>5. QED
  BY <1>2, <1>3, <1>4 DEF Next

\* The invariant holds of every behaviour of the gateway.
LEMMA RunnersKeepInv == Spec => []RunnerInv
<1>1. Init => CtlInv /\ RunnerInv
  BY CtlInitInv, RunnerInit DEF Init
<1>2. CtlInv /\ RunnerInv /\ [Next]_vars => (CtlInv /\ RunnerInv)'
  BY CtlStepInv, StepsAreControllerSteps, RunnerStep
<1>3. QED
  BY <1>1, <1>2, PTL DEF Spec

\* The variables of the gateway keep their types.
THEOREM GatewayTypeOK == Spec => []TypeOK
  BY RunnersKeepInv, PTL DEF RunnerInv

\* Whatever ends a call, and in whatever order, its SIP dialog is finished
\* before its runner gives the slot back.
THEOREM DialogsEndBeforeSlot == Spec => []DialogEndsBeforeSlot
<1>1. RunnerInv => DialogEndsBeforeSlot
  BY DEF RunnerInv, PositionInv, DialogDebt, DialogEndsBeforeSlot, Over
<1>2. QED
  BY <1>1, RunnersKeepInv, PTL

\* No runner leaves a media session behind that it has not waited five seconds
\* for.
THEOREM MediaIsWaitedFor == Spec => []MediaOutlivesRunnerOnlyByTimeout
<1>1. RunnerInv => MediaOutlivesRunnerOnlyByTimeout
  BY DEF RunnerInv, PositionInv, MediaDebt, MediaOutlivesRunnerOnlyByTimeout, Over
<1>2. QED
  BY <1>1, RunnersKeepInv, PTL
=============================================================================
