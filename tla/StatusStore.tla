---------------------------- MODULE StatusStore ----------------------------
(***************************************************************************)
(* The status store and its event streams (internal/status/server.go and   *)
(* api.go).  Update and PublishDTMF run on the goroutines of calls, of the *)
(* RTP receiver and of the API; they hold the store's mutex and must never *)
(* wait for a client.  A client is one GET /api/v1/events request: it      *)
(* subscribes, writes the snapshot queued for it, and then whatever comes, *)
(* as fast or as slowly as the peer reads.  Receiving from a channel needs *)
(* no mutex, so a client may receive between any two channel operations of *)
(* Update and of PublishDTMF.                                              *)
(*                                                                         *)
(* A snapshot is represented by its revision.  Updates that change nothing *)
(* return early and leave everything as it is.                             *)
(***************************************************************************)
EXTENDS Naturals, Sequences

CONSTANTS Clients, NoClient,
          MaxRevision,   \* bound: how many snapshots there are
          MaxKeys,       \* bound: how many keys are pressed
          DtmfCap        \* capacity of a client's dtmf channel (64 in the code)

ASSUME StoreAssumption ==
    /\ NoClient \notin Clients
    /\ MaxRevision \in Nat \ {0} /\ MaxKeys \in Nat /\ DtmfCap \in Nat \ {0}

VARIABLES
    revision,  \* value.Revision, and with it the current snapshot
    todo,      \* the subscribers that the running Update has not yet served
    serving,   \* the one whose channel was full, or NoClient
    select,    \* which of the three selects of Update comes next
    stream,    \* per client: the position of serveEvents
    status,    \* per client: its status channel (capacity 1), 0 if empty
    dtmf,      \* per client: its DTMF channel, the numbers of the keys
    newest,    \* per client: the newest revision it has received
    keys,      \* how many keys have been published
    sending    \* the subscribers that the running PublishDTMF has not yet served

storeVars == <<revision, todo, serving, select>>
keyVars == <<dtmf, keys, sending>>
vars == <<storeVars, stream, status, newest, keyVars>>

\* serveEvents writes "first" before it enters its select loop; the deferred
\* unsubscribe is still to come in "leave".
Registered == {c \in Clients : stream[c] \in {"first", "loop", "leave"}}

\* The type invariant.
TypeOK ==
    /\ revision \in 1..MaxRevision
    /\ todo \subseteq Registered
    /\ serving \in todo \cup {NoClient}
    /\ select \in {"offer", "drain", "resend"}
    /\ stream \in [Clients -> {"none", "first", "loop", "leave", "gone"}]
    /\ status \in [Clients -> 0..MaxRevision]
    /\ newest \in [Clients -> 0..MaxRevision]
    /\ keys \in 0..MaxKeys
    /\ sending \subseteq Registered
    /\ dtmf \in [Clients -> Seq(1..MaxKeys)]
    /\ \A c \in Clients : Len(dtmf[c]) <= DtmfCap

Init ==
    /\ revision = 1
    /\ todo = {}
    /\ serving = NoClient
    /\ select = "offer"
    /\ stream = [c \in Clients |-> "none"]
    /\ status = [c \in Clients |-> 0]
    /\ newest = [c \in Clients |-> 0]
    /\ keys = 0
    /\ sending = {}
    /\ dtmf = [c \in Clients |-> <<>>]

\* Neither Update nor PublishDTMF holds the mutex.
Unlocked == todo = {} /\ sending = {}

-----------------------------------------------------------------------------
(* Update: the mutex is held from here until todo is empty.                *)
Update ==
    /\ Unlocked
    /\ revision < MaxRevision
    /\ revision' = revision + 1
    /\ todo' = Registered
    /\ UNCHANGED <<serving, select, stream, status, newest, keyVars>>

Served(c) ==
    /\ todo' = todo \ {c}
    /\ serving' = NoClient
    /\ select' = "offer"

\* Mutant of Offer: the send waits until there is room.
OfferBlocks(c) ==
    /\ select = "offer"
    /\ c \in todo
    /\ status[c] = 0
    /\ status' = [status EXCEPT ![c] = revision]
    /\ Served(c)
    /\ UNCHANGED <<revision, stream, newest, keyVars>>

\* Mutant of Offer: a full channel keeps what it has.
OfferOnce(c) ==
    /\ select = "offer"
    /\ c \in todo
    /\ status' = [status EXCEPT ![c] = IF @ = 0 THEN revision ELSE @]
    /\ Served(c)
    /\ UNCHANGED <<revision, stream, newest, keyVars>>

\* The first select: send, or find the channel full.
Offer(c) ==
    /\ select = "offer"
    /\ c \in todo
    /\ \/ /\ status[c] = 0
          /\ status' = [status EXCEPT ![c] = revision]
          /\ Served(c)
       \/ /\ status[c] # 0
          /\ serving' = c
          /\ select' = "drain"
          /\ UNCHANGED <<todo, status>>
    /\ UNCHANGED <<revision, stream, newest, keyVars>>

\* The second select: take the stale snapshot, unless the client just did.
Drain ==
    /\ select = "drain"
    /\ select' = "resend"
    /\ status' = [status EXCEPT ![serving] = 0]
    /\ UNCHANGED <<revision, todo, serving, stream, newest, keyVars>>

\* The third select.
Resend ==
    /\ select = "resend"
    /\ status' = [status EXCEPT ![serving] = IF @ = 0 THEN revision ELSE @]
    /\ Served(serving)
    /\ UNCHANGED <<revision, stream, newest, keyVars>>

-----------------------------------------------------------------------------
(* PublishDTMF: the mutex is held from here until sending is empty.        *)
PublishDTMF ==
    /\ Unlocked
    /\ keys < MaxKeys
    /\ keys' = keys + 1
    /\ sending' = Registered
    /\ UNCHANGED <<storeVars, stream, status, newest, dtmf>>

\* Mutant of SendKey: the channel has no limit.
SendKeyUnbounded(c) ==
    /\ c \in sending
    /\ sending' = sending \ {c}
    /\ dtmf' = [dtmf EXCEPT ![c] = Append(@, keys)]
    /\ UNCHANGED <<storeVars, stream, status, newest, keys>>

\* One send to every subscriber, which a full channel refuses.
SendKey(c) ==
    /\ c \in sending
    /\ sending' = sending \ {c}
    /\ dtmf' = [dtmf EXCEPT ![c] = IF Len(@) < DtmfCap THEN Append(@, keys) ELSE @]
    /\ UNCHANGED <<storeVars, stream, status, newest, keys>>

Publish == Drain \/ Resend \/ \E c \in Clients : Offer(c) \/ SendKey(c)

-----------------------------------------------------------------------------
(* subscribeEvents and serveEvents.                                        *)

\* Both channels are registered in one critical section, the status channel
\* with the current snapshot in it.
Subscribe(c) ==
    /\ Unlocked
    /\ stream[c] = "none"
    /\ stream' = [stream EXCEPT ![c] = "first"]
    /\ status' = [status EXCEPT ![c] = revision]
    /\ UNCHANGED <<storeVars, newest, keyVars>>

\* Write a snapshot: the first one before anything else.
WriteStatus(c) ==
    /\ stream[c] \in {"first", "loop"}
    /\ status[c] # 0
    /\ newest' = [newest EXCEPT ![c] = status[c]]
    /\ status' = [status EXCEPT ![c] = 0]
    /\ stream' = [stream EXCEPT ![c] = "loop"]
    /\ UNCHANGED <<storeVars, keyVars>>

WriteDTMF(c) ==
    /\ stream[c] = "loop"
    /\ dtmf[c] # <<>>
    /\ dtmf' = [dtmf EXCEPT ![c] = Tail(@)]
    /\ UNCHANGED <<storeVars, stream, status, newest, keys, sending>>

\* A write fails or the request ends.
Leave(c) ==
    /\ stream[c] \in {"first", "loop"}
    /\ stream' = [stream EXCEPT ![c] = "leave"]
    /\ UNCHANGED <<storeVars, status, newest, keyVars>>

\* The deferred unsubscribe; the channels are not closed.
Unsubscribe(c) ==
    /\ Unlocked
    /\ stream[c] = "leave"
    /\ stream' = [stream EXCEPT ![c] = "gone"]
    /\ UNCHANGED <<storeVars, status, newest, keyVars>>

-----------------------------------------------------------------------------
Next ==
    \/ Update \/ Publish \/ PublishDTMF
    \/ \E c \in Clients : \/ Subscribe(c) \/ WriteStatus(c) \/ WriteDTMF(c)
                          \/ Leave(c) \/ Unsubscribe(c)

\* The goroutine inside Update or PublishDTMF is scheduled.  Nothing is assumed of clients.
Spec == Init /\ [][Next]_vars /\ WF_vars(Publish)

-----------------------------------------------------------------------------
(***************************************************************************)
(* No client is left with an old status: once Update has served it, the    *)
(* current snapshot is in its channel or was the last it received.  The    *)
(* replacement of a stale snapshot (server.go:123-131) never loses the     *)
(* newest one to a client that receives at the same time.                  *)
(***************************************************************************)
NewestIsNeverLost ==
    \A c \in Registered \ todo :
        IF status[c] = 0 THEN newest[c] = revision ELSE status[c] = revision

(***************************************************************************)
(* A client that does not read never holds up the goroutine that updates   *)
(* the status or publishes a key: "Bounded subscriber queues prevent a     *)
(* slow client from back-pressuring real-time call work"                   *)
(* (docs/ARCHITECTURE.md:112).                                             *)
(***************************************************************************)
PublisherNeverBlocks == ~Unlocked ~> Unlocked
=============================================================================
