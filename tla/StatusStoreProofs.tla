------------------------- MODULE StatusStoreProofs -------------------------
(***************************************************************************)
(* NewestIsNeverLost and the types for any number of clients, updates and  *)
(* keys.                                                                   *)
(*                                                                         *)
(* The first is not inductive: the third select of Update sends only if    *)
(* there is room.  There always is, because after the second one the       *)
(* channel is empty and nobody else sends to it while the mutex is held.   *)
(***************************************************************************)
EXTENDS StatusStore, TLAPS

\* The part of TypeOK that concerns the status channels.
StatusTypes ==
    /\ revision \in Nat \ {0}
    /\ todo \subseteq Registered
    /\ serving \in todo \cup {NoClient}
    /\ select \in {"offer", "drain", "resend"}
    /\ stream \in [Clients -> {"none", "first", "loop", "leave", "gone"}]
    /\ status \in [Clients -> Nat]
    /\ newest \in [Clients -> Nat]
    /\ sending \subseteq Registered

\* After the second select the channel of the client being served is empty.
DrainedIsEmpty ==
    /\ select # "offer" => serving # NoClient
    /\ select = "resend" => status[serving] = 0

StoreInv == StatusTypes /\ DrainedIsEmpty /\ NewestIsNeverLost

-----------------------------------------------------------------------------
\* Nobody has subscribed when the store is created.
LEMMA StoreInitInv == Init => StoreInv
<1> SUFFICES ASSUME Init PROVE StoreInv
  OBVIOUS
<1>1. Registered = {} /\ todo = {}
  BY DEF Init, Registered
<1>2. DrainedIsEmpty
  BY DEF Init, DrainedIsEmpty
<1>3. NewestIsNeverLost
  BY <1>1 DEF NewestIsNeverLost
<1>4. StatusTypes
  BY <1>1 DEF Init, StatusTypes
<1>5. QED
  BY <1>2, <1>3, <1>4 DEF StoreInv

\* Every step keeps the invariant.
LEMMA StoreStepInv == StoreInv /\ [Next]_vars => StoreInv'
<1> SUFFICES ASSUME StoreInv, [Next]_vars PROVE StoreInv'
  OBVIOUS
<1> USE StoreAssumption
<1>1. CASE Update
  BY <1>1 DEF StoreInv, StatusTypes, DrainedIsEmpty, NewestIsNeverLost,
      Registered, Update, Unlocked, keyVars
<1>2. ASSUME NEW c \in Clients, Offer(c) PROVE StoreInv'
  <2>1. CASE status[c] = 0
    BY <1>2, <2>1 DEF StoreInv, StatusTypes, DrainedIsEmpty, NewestIsNeverLost,
        Registered, Offer, Served, keyVars
  <2>2. CASE status[c] # 0
    BY <1>2, <2>2 DEF StoreInv, StatusTypes, DrainedIsEmpty, NewestIsNeverLost,
        Registered, Offer, keyVars
  <2>3. QED
    BY <2>1, <2>2
<1>3. CASE Drain
  <2>1. serving \in todo /\ serving \in Clients
    BY <1>3 DEF Drain, StoreInv, StatusTypes, DrainedIsEmpty, Registered
  <2>2. QED
    BY <1>3, <2>1 DEF StoreInv, StatusTypes, DrainedIsEmpty, NewestIsNeverLost,
        Registered, Drain, keyVars
<1>4. CASE Resend
  <2>1. serving \in Clients /\ status[serving] = 0
    BY <1>4 DEF Resend, StoreInv, StatusTypes, DrainedIsEmpty, Registered
  <2>2. QED
    BY <1>4, <2>1 DEF StoreInv, StatusTypes, DrainedIsEmpty, NewestIsNeverLost,
        Registered, Resend, Served, keyVars
<1>5. ASSUME NEW c \in Clients, Subscribe(c) PROVE StoreInv'
  BY <1>5 DEF StoreInv, StatusTypes, DrainedIsEmpty, NewestIsNeverLost,
      Registered, Subscribe, Unlocked, storeVars, keyVars
<1>6. ASSUME NEW c \in Clients, WriteStatus(c) PROVE StoreInv'
  BY <1>6 DEF StoreInv, StatusTypes, DrainedIsEmpty, NewestIsNeverLost,
      Registered, WriteStatus, storeVars, keyVars
<1>7. ASSUME NEW c \in Clients, Leave(c) PROVE StoreInv'
  BY <1>7 DEF StoreInv, StatusTypes, DrainedIsEmpty, NewestIsNeverLost,
      Registered, Leave, storeVars, keyVars
<1>8. ASSUME NEW c \in Clients, Unsubscribe(c) PROVE StoreInv'
  BY <1>8 DEF StoreInv, StatusTypes, DrainedIsEmpty, NewestIsNeverLost,
      Registered, Unsubscribe, Unlocked, storeVars, keyVars
<1>9. CASE \/ PublishDTMF \/ UNCHANGED vars
           \/ \E c \in Clients : SendKey(c) \/ WriteDTMF(c)
  BY <1>9 DEF StoreInv, StatusTypes, DrainedIsEmpty, NewestIsNeverLost,
      Registered, PublishDTMF, SendKey, WriteDTMF, storeVars, keyVars, vars
<1>10. QED
  BY <1>1, <1>2, <1>3, <1>4, <1>5, <1>6, <1>7, <1>8, <1>9 DEF Next, Publish

\* The newest snapshot is never lost to a slow or a fast client.
THEOREM NewestReachesClients == Spec => []NewestIsNeverLost
<1>1. StoreInv => NewestIsNeverLost
  BY DEF StoreInv
<1>2. QED
  BY StoreInitInv, StoreStepInv, <1>1, PTL DEF Spec
-----------------------------------------------------------------------------
\* The bounds of TypeOK that StatusTypes leaves out.
RevisionBounds ==
    /\ revision <= MaxRevision
    /\ \A c \in Clients : status[c] <= MaxRevision /\ newest[c] <= MaxRevision

KeySeqs == Seq(1..MaxKeys)

KeyBounds ==
    /\ keys \in 0..MaxKeys /\ (sending # {} => keys # 0)
    /\ dtmf \in [Clients -> KeySeqs]
    /\ \A c \in Clients : Len(dtmf[c]) <= DtmfCap

\* A channel with room takes one more key.
LEMMA KeyAppended ==
  ASSUME NEW q \in KeySeqs, Len(q) < DtmfCap, NEW k \in 1..MaxKeys
  PROVE  Append(q, k) \in KeySeqs /\ Len(Append(q, k)) <= DtmfCap
<1>1. Append(q, k) \in KeySeqs
  BY DEF KeySeqs
<1>2. Len(Append(q, k)) = Len(q) + 1 /\ Len(q) \in Nat
  BY DEF KeySeqs
<1>3. QED
  BY <1>1, <1>2, StoreAssumption

\* The snapshots in the channels and at the clients are of revisions there are.
LEMMA RevisionStep == StoreInv /\ RevisionBounds /\ [Next]_vars => RevisionBounds'
<1> SUFFICES ASSUME StoreInv, RevisionBounds, [Next]_vars PROVE RevisionBounds'
  OBVIOUS
<1>1. CASE Update
  BY <1>1, StoreAssumption DEF Update, StoreInv, StatusTypes, RevisionBounds
<1>2. CASE ~Update
  <2>1. /\ revision' = revision
        /\ \A d \in Clients : /\ status'[d] \in {status[d], 0, revision}
                              /\ newest'[d] \in {newest[d], status[d]}
    BY <1>2 DEF Next, Publish, Offer, Drain, Resend, PublishDTMF, SendKey, Subscribe,
                WriteStatus, WriteDTMF, Leave, Unsubscribe, storeVars, vars, StoreInv, StatusTypes
  <2>2. QED
    BY <2>1, StoreAssumption DEF RevisionBounds
<1>3. QED
  BY <1>1, <1>2

\* A client's key channel never exceeds its capacity.
LEMMA KeyStep == KeyBounds /\ [Next]_vars => KeyBounds'
<1> SUFFICES ASSUME KeyBounds, [Next]_vars PROVE KeyBounds'
  OBVIOUS
<1>1. CASE PublishDTMF
  BY <1>1, StoreAssumption DEF PublishDTMF, KeyBounds
<1>2. ASSUME NEW c \in Clients, SendKey(c) PROVE KeyBounds'
  <2>1. keys \in 1..MaxKeys /\ UNCHANGED keys
    BY <1>2, StoreAssumption DEF SendKey, KeyBounds
  <2>2. dtmf[c] \in KeySeqs /\ Len(dtmf[c]) <= DtmfCap
    BY DEF KeyBounds
  <2>3. PICK q : q = IF Len(dtmf[c]) < DtmfCap THEN Append(dtmf[c], keys) ELSE dtmf[c]
    OBVIOUS
  <2>4. q \in KeySeqs /\ Len(q) <= DtmfCap
    BY <2>1, <2>2, <2>3, KeyAppended
  <2>5. dtmf' = [dtmf EXCEPT ![c] = q]
    BY <1>2, <2>3 DEF SendKey
  <2>6. QED
    BY <2>1, <2>4, <2>5 DEF KeyBounds
<1>3. ASSUME NEW c \in Clients, WriteDTMF(c) PROVE KeyBounds'
  <2>1. dtmf[c] \in KeySeqs /\ Len(dtmf[c]) <= DtmfCap /\ dtmf[c] # <<>>
    BY <1>3 DEF WriteDTMF, KeyBounds
  <2>2. /\ Tail(dtmf[c]) \in KeySeqs
        /\ Len(Tail(dtmf[c])) = Len(dtmf[c]) - 1 /\ Len(dtmf[c]) \in Nat
    <3>1. \A K : \A q \in Seq(K) : q # <<>> =>
             Tail(q) \in Seq(K) /\ Len(Tail(q)) = Len(q) - 1 /\ Len(q) \in Nat
      OBVIOUS
    <3>2. QED
      BY <2>1, <3>1 DEF KeySeqs
  <2>3. Len(Tail(dtmf[c])) <= DtmfCap
    BY <2>1, <2>2, StoreAssumption
  <2>4. QED
    BY <1>3, <2>2, <2>3 DEF WriteDTMF, KeyBounds
<1>4. CASE UNCHANGED keyVars
  BY <1>4 DEF KeyBounds, keyVars
<1>5. QED
  BY <1>1, <1>2, <1>3, <1>4 DEF Next, Publish, Update, Offer, Drain, Resend, Subscribe,
                          WriteStatus, Leave, Unsubscribe, keyVars, vars

\* No client has more keys queued than its channel holds, and nothing in a
\* channel is newer than the store.
THEOREM StoreTypeOK == Spec => []TypeOK
<1>1. Init => RevisionBounds /\ KeyBounds
  <2> SUFFICES ASSUME Init PROVE RevisionBounds /\ KeyBounds
    OBVIOUS
  <2>1. <<>> \in KeySeqs /\ Len(<<>>) = 0
    BY DEF KeySeqs
  <2>2. KeyBounds
    BY <2>1, StoreAssumption DEF Init, KeyBounds
  <2>3. RevisionBounds
    BY StoreAssumption DEF Init, RevisionBounds
  <2>4. QED
    BY <2>2, <2>3
<1>2. StoreInv /\ RevisionBounds /\ KeyBounds => TypeOK
  BY StoreAssumption DEF StoreInv, StatusTypes, RevisionBounds, KeyBounds, KeySeqs, TypeOK
<1>3. QED
  BY <1>1, <1>2, StoreInitInv, StoreStepInv, RevisionStep, KeyStep, PTL DEF Spec
=============================================================================
