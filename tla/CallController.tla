--------------------------- MODULE CallController ---------------------------
(***************************************************************************)
(* callcontrol.Controller: the single call slot every call source (visitor *)
(* trigger, API test call, incoming INVITE) goes through.                  *)
(*                                                                         *)
(* A member of Calls is one invocation of Start.  Its goroutine runs the   *)
(* call function, then frees the slot under the mutex, then runs the       *)
(* deferred cancel(): three separate steps, as in the code.  What the call *)
(* function does in between belongs to the module that extends this one.   *)
(***************************************************************************)
EXTENDS Naturals, FiniteSets

CONSTANTS Calls,   \* identities of the invocations of Start
          NoCall   \* a nil cancel function

ASSUME NoCallAssumption == NoCall \notin Calls

VARIABLES
    active,      \* Controller.active
    generation,  \* Controller.generation
    cancel,      \* Controller.cancel: the call whose context it cancels
    gen,         \* per call: the generation its goroutine captured
    thread,      \* per call: where Start and the goroutine are
    canceled,    \* per call: its context is done
    parentDone   \* the process context is done

ctlVars == <<active, generation, cancel, gen, thread, canceled, parentDone>>

\* "checked": Start has seen parent.Err() = nil and has not taken the lock;
\* "refused": Start returned an error; "returned": fn is over, the slot is still held;
\* "released": slot freed, deferred cancel() outstanding.
ThreadStates == {"idle", "checked", "refused", "running", "returned",
                 "released", "done"}

\* The calls whose goroutine has not yet freed the slot.
Holders == {c \in Calls : thread[c] \in {"running", "returned"}}

CtlTypeOK ==
    /\ active \in BOOLEAN
    /\ generation \in Nat
    /\ cancel \in Calls \cup {NoCall}
    /\ gen \in [Calls -> Nat]
    /\ thread \in [Calls -> ThreadStates]
    /\ canceled \in [Calls -> BOOLEAN]
    /\ parentDone \in BOOLEAN

CtlInit ==
    /\ active = FALSE
    /\ generation = 0
    /\ cancel = NoCall
    /\ gen = [c \in Calls |-> 0]
    /\ thread = [c \in Calls |-> "idle"]
    /\ canceled = [c \in Calls |-> FALSE]
    /\ parentDone = FALSE

-----------------------------------------------------------------------------
\* Start, before the lock: parent.Err() is read without the mutex.
StartCheck(c) ==
    /\ thread[c] = "idle"
    /\ ~parentDone
    /\ thread' = [thread EXCEPT ![c] = "checked"]
    /\ UNCHANGED <<active, generation, cancel, gen, canceled, parentDone>>

\* Start refuses a parent context that is done.
StartLate(c) ==
    /\ thread[c] = "idle"
    /\ parentDone
    /\ thread' = [thread EXCEPT ![c] = "refused"]
    /\ UNCHANGED <<active, generation, cancel, gen, canceled, parentDone>>

\* Start, under the lock, slot taken: ErrBusy.
StartBusy(c) ==
    /\ thread[c] = "checked"
    /\ active
    /\ thread' = [thread EXCEPT ![c] = "refused"]
    /\ UNCHANGED <<active, generation, cancel, gen, canceled, parentDone>>

\* Mutant of StartReserve: the slot is taken without looking at active.
StartReserveUnchecked(c) ==
    /\ thread[c] = "checked"
    /\ active' = TRUE
    /\ generation' = generation + 1
    /\ gen' = [gen EXCEPT ![c] = generation + 1]
    /\ cancel' = c
    /\ canceled' = [canceled EXCEPT ![c] = parentDone]
    /\ thread' = [thread EXCEPT ![c] = "running"]
    /\ UNCHANGED parentDone

\* Start, under the lock, slot free.  A context derived from a parent that is
\* already done is born done.
StartReserve(c) ==
    /\ thread[c] = "checked"
    /\ ~active
    /\ active' = TRUE
    /\ generation' = generation + 1
    /\ gen' = [gen EXCEPT ![c] = generation + 1]
    /\ cancel' = c
    /\ canceled' = [canceled EXCEPT ![c] = parentDone]
    /\ thread' = [thread EXCEPT ![c] = "running"]
    /\ UNCHANGED parentDone

\* fn(callCtx) returns.
FnReturns(c) ==
    /\ thread[c] = "running"
    /\ thread' = [thread EXCEPT ![c] = "returned"]
    /\ UNCHANGED <<active, generation, cancel, gen, canceled, parentDone>>

\* The deferred function: free the slot if it is still this generation's.
Release(c) ==
    /\ thread[c] = "returned"
    /\ thread' = [thread EXCEPT ![c] = "released"]
    /\ IF generation = gen[c]
         THEN active' = FALSE /\ cancel' = NoCall
         ELSE UNCHANGED <<active, cancel>>
    /\ UNCHANGED <<generation, gen, canceled, parentDone>>

\* The outer deferred cancel(), outside the mutex.
DeferredCancel(c) ==
    /\ thread[c] = "released"
    /\ thread' = [thread EXCEPT ![c] = "done"]
    /\ canceled' = [canceled EXCEPT ![c] = TRUE]
    /\ UNCHANGED <<active, generation, cancel, gen, parentDone>>

\* Mutant of CancelActive: it ends a context shared by all calls.
CancelAll ==
    /\ active
    /\ cancel # NoCall
    /\ canceled' = [c \in Calls |-> TRUE]
    /\ UNCHANGED <<active, generation, cancel, gen, thread, parentDone>>

\* CancelActive: beforeCancel is the extending module's conjunct of this step,
\* which the mutex makes one with the cancellation.
CancelActive ==
    /\ active
    /\ cancel # NoCall
    /\ canceled' = [canceled EXCEPT ![cancel] = TRUE]
    /\ UNCHANGED <<active, generation, cancel, gen, thread, parentDone>>

\* The process context is done (signal): so is every context derived from it.
ParentDone ==
    /\ ~parentDone
    /\ parentDone' = TRUE
    /\ canceled' = [c \in Calls |-> canceled[c] \/ thread[c] \in
                       {"running", "returned", "released", "done"}]
    /\ UNCHANGED <<active, generation, cancel, gen, thread>>

CtlNext ==
    \/ \E c \in Calls :
          \/ StartCheck(c) \/ StartLate(c) \/ StartBusy(c) \/ StartReserve(c)
          \/ FnReturns(c) \/ Release(c) \/ DeferredCancel(c)
    \/ CancelActive
    \/ ParentDone

CtlSpec == CtlInit /\ [][CtlNext]_ctlVars

-----------------------------------------------------------------------------
\* The slot belongs to exactly one call from Start until its goroutine frees
\* it, and Controller.cancel is that call's cancel function: a second call
\* never runs beside a first, a call that ends never frees its successor's
\* slot, and a hang-up never reaches a call that is over.
SlotHasOneOwner ==
    /\ Holders = IF active THEN {cancel} ELSE {}
    /\ ~active => cancel = NoCall

\* What makes SlotHasOneOwner inductive: the owner holds the current
\* generation, so Release's comparison succeeds for it.
OwnerHasGeneration == \A c \in Holders : gen[c] = generation

\* A call context ends only by a hang-up of the call that owns the slot, by
\* the process context, or after its own call function returned.
OnlyOwnerIsCanceled ==
    [][\A c \in Calls : (~canceled[c] /\ canceled'[c]) =>
          \/ parentDone'
          \/ active /\ cancel = c
          \/ thread[c] = "released"]_ctlVars
=============================================================================
