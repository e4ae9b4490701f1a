--------------------------- MODULE LiveImageProofs ---------------------------
(***************************************************************************)
(* LiveImage for any number of channels, cameras, requests, ring events,   *)
(* moves and restarts.                                                     *)
(*                                                                         *)
(* The catalog survives restarts.  What is saved is the table itself, so   *)
(* loading it again gives the same table only if the primary channel,      *)
(* which loadState adds when it is missing, is never missing.              *)
(*                                                                         *)
(* A picture is of the right camera, and only ring events extend a frame.  *)
(* Both rest on the frames in the caches rather than on those that were    *)
(* sent (SourceOk), on the lock that keeps a prewarm out of a capture      *)
(* (CaptureHoldsLock), on the agreement of the table with the NVR          *)
(* (Agreement), and the types on a count of ring events and of Sources.    *)
(***************************************************************************)
EXTENDS LiveImage, FiniteSetTheorems, TLAPS

\* The table is a function that has the primary channel in its domain.
TableHasPrimary ==
    /\ table = [n \in DOMAIN table |-> table[n]]
    /\ Primary \in DOMAIN table

CatalogInv == TableHasPrimary /\ RestartRestoresCatalog

\* loadState of a table that has the primary channel is that table.
LEMMA LoadOfSaved ==
    ASSUME TableHasPrimary
    PROVE  LoadState(table) = table
<1>1. DOMAIN table \cup {Primary} = DOMAIN table
    BY DEF TableHasPrimary
<1>2. LoadState(table) = [n \in DOMAIN table |-> table[n]]
    BY <1>1 DEF LoadState
<1> QED BY <1>2 DEF TableHasPrimary

\* A table that loadState or Discover has made has the primary channel.
LEMMA LoadHasPrimary ==
    ASSUME NEW d, table' = LoadState(d)
    PROVE  TableHasPrimary'
BY DEF LoadState, TableHasPrimary

\* Discover keeps an entry for the primary channel whatever the NVR reports.
LEMMA ReplacementHasPrimary ==
    ASSUME NEW a, table' = Replacement(a)
    PROVE  TableHasPrimary'
BY DEF Replacement, TableHasPrimary

\* Every start of the process sets up what loadState restores.
LEMMA CatalogInit == Init => CatalogInv
BY DEF Init, CatalogInv, TableHasPrimary, RestartRestoresCatalog, LoadState, NoFile

\* Only a restart, Discover and saveState touch the table or the file.
LEMMA CatalogStep == CatalogInv /\ [Next]_vars => CatalogInv'
<1> SUFFICES ASSUME CatalogInv, [Next]_vars PROVE CatalogInv'
    OBVIOUS
<1> USE DEF CatalogInv, RestartRestoresCatalog
<1>1. CASE Restart
  <2>1. table' = LoadState(disk) /\ disk' = disk
      BY <1>1 DEF Restart, NewCatalog
  <2>2. LoadState(disk)' = table'
      BY <2>1 DEF LoadState
  <2> QED BY <2>1, <2>2, LoadHasPrimary
<1>2. CASE Discover
  <2>1. table' = Replacement(answer) /\ unsaved'
      BY <1>2 DEF Discover
  <2> QED BY <2>1, ReplacementHasPrimary
<1>3. CASE SaveState
  <2>1. table' = table /\ (disk' = table \/ (disk' = disk /\ unsaved' = unsaved))
      BY <1>3 DEF SaveState
  <2>2. TableHasPrimary'
      BY <2>1 DEF TableHasPrimary
  <2>3. CASE disk' = table
    <3>1. LoadState(disk)' = LoadState(table)
        BY <2>3 DEF LoadState
    <3> QED BY <3>1, <2>1, <2>2, LoadOfSaved
  <2>4. CASE disk' = disk /\ unsaved' = unsaved
    <3>1. LoadState(disk)' = LoadState(disk)
        BY <2>4 DEF LoadState
    <3> QED BY <3>1, <2>1, <2>2, <2>4
  <2> QED BY <2>1, <2>3, <2>4
<1>4. ASSUME UNCHANGED <<table, disk, unsaved>> PROVE CatalogInv'
  <2>1. LoadState(disk)' = LoadState(disk)
      BY <1>4 DEF LoadState
  <2> QED BY <1>4, <2>1 DEF TableHasPrimary
<1>5. CASE NvrChanges
    BY <1>4, <1>5 DEF NvrChanges
<1>6. CASE \E s \in Sources : Expire(s)
    BY <1>4, <1>6 DEF Expire, catalogVars
<1>7. CASE Answered
    BY <1>4, <1>7 DEF Answered
<1>8. CASE \E t \in Handlers : Request(t) \/ Lookup(t) \/ Done(t)
    BY <1>4, <1>8 DEF Request, Lookup, Done, catalogVars
<1>9. CASE \E t \in Prewarmers : Ring(t)
    BY <1>4, <1>9 DEF Ring, catalogVars
<1>10. CASE \E t \in Threads, s \in Sources : Fetch(t, s)
    BY <1>4, <1>10
    DEF Fetch, ServeCached, ExtendCached, StartCapture, Captured, CaptureFails, catalogVars
<1>11. CASE UNCHANGED vars
    BY <1>4, <1>11 DEF vars, catalogVars
<1> QED BY <1>1, <1>2, <1>3, <1>5, <1>6, <1>7, <1>8, <1>9, <1>10, <1>11
        DEF Next, RunDiscovery

\* A restart at any moment restores the published catalog, unless its table has
\* not been saved.
THEOREM CatalogSurvivesRestart == Spec => []RestartRestoresCatalog
<1>1. CatalogInv => RestartRestoresCatalog
    BY DEF CatalogInv
<1> QED BY CatalogInit, CatalogStep, <1>1, PTL DEF Spec
-----------------------------------------------------------------------------
(* The catalog: types, the number of Sources, agreement with the NVR.      *)

CatalogTypes ==
    /\ nvr \in Layouts /\ moves \in 0..MaxMoves
    /\ table \in Tables /\ disk \in Tables /\ answer \in Tables
    /\ current \in [answer : BOOLEAN, table : BOOLEAN]
    /\ disc \in {"idle", "answered", "saving"} /\ unsaved \in BOOLEAN

\* Why a channel has at most MaxMoves + 1 Sources after its first: it gets a
\* new one only when a discovery lists it and the one before did not, and
\* between two such discoveries the NVR has changed.  An answer may be older
\* than the last change.
SourceCount ==
    /\ gen \in [Channels -> Nat]
    /\ gen[Primary] = 0
    /\ \A n \in Channels :
        /\ gen[n] <= moves + 1
        /\ n \notin DOMAIN table \/ n \notin Kept(nvr) => gen[n] <= moves
        /\ disc = "answered" /\ n \notin Kept(answer) => gen[n] <= moves
        /\ /\ disc = "answered" /\ n \notin DOMAIN table
           /\ n \in Kept(answer) /\ n \notin Kept(nvr)
           => gen[n] + 1 <= moves

\* The table agrees with the NVR after a discovery, until the next change.
Agreement ==
    /\ disc = "answered" /\ current.answer => answer = nvr
    /\ current.table => \A n \in Kept(nvr) : n \in DOMAIN table /\ table[n] = nvr[n]

CatalogParts == CatalogTypes /\ TableHasPrimary /\ SourceCount /\ Agreement

\* A table is a function from some of the channels to camera IDs.
LEMMA TableType ==
    /\ \A f \in Tables : /\ DOMAIN f \subseteq Channels /\ f = [n \in DOMAIN f |-> f[n]]
                         /\ \A n \in DOMAIN f : f[n] \in Pictures
    /\ \A f : /\ f = [n \in DOMAIN f |-> f[n]] /\ DOMAIN f \subseteq Channels
              /\ \A n \in DOMAIN f : f[n] \in Pictures
              => f \in Tables
<1>1. ASSUME NEW f \in Tables
      PROVE  /\ DOMAIN f \subseteq Channels /\ f = [n \in DOMAIN f |-> f[n]]
             /\ \A n \in DOMAIN f : f[n] \in Pictures
  <2>1. PICK S \in SUBSET Channels : f \in [S -> Cameras \cup {NoUID}]
    BY DEF Tables
  <2>2. QED
    BY <2>1 DEF Pictures
<1>2. ASSUME NEW f, f = [n \in DOMAIN f |-> f[n]], DOMAIN f \subseteq Channels,
             \A n \in DOMAIN f : f[n] \in Pictures
      PROVE  f \in Tables
  <2>1. f \in [DOMAIN f -> Cameras \cup {NoUID}]
    BY <1>2 DEF Pictures
  <2>2. QED
    BY <1>2, <2>1 DEF Tables
<1>3. QED
  BY <1>1, <1>2

\* What loadState and Discover make is a table.
LEMMA TablesMade ==
    /\ Empty \in Tables
    /\ \A d \in Tables : LoadState(d) \in Tables
    /\ \A a \in Tables : table \in Tables /\ TableHasPrimary => Replacement(a) \in Tables
<1> USE ImageAssumption
<1>1. Empty \in Tables
  <2>1. Empty = [n \in DOMAIN Empty |-> Empty[n]] /\ DOMAIN Empty = {}
    BY DEF Empty
  <2>2. QED
    BY <2>1, TableType
<1>2. ASSUME NEW d \in Tables PROVE LoadState(d) \in Tables
  <2>1. /\ DOMAIN LoadState(d) = DOMAIN d \cup {Primary}
        /\ LoadState(d) = [n \in DOMAIN LoadState(d) |-> LoadState(d)[n]]
        /\ \A n \in DOMAIN LoadState(d) : LoadState(d)[n] \in Pictures
    BY TableType DEF LoadState, Pictures
  <2>2. QED
    BY <2>1, TableType
<1>3. ASSUME NEW a \in Tables, table \in Tables, TableHasPrimary
      PROVE  Replacement(a) \in Tables
  <2>1. Kept(a) \subseteq DOMAIN a
    BY DEF Kept
  <2>2. /\ DOMAIN Replacement(a) = Kept(a) \cup {Primary}
        /\ Replacement(a) = [n \in DOMAIN Replacement(a) |-> Replacement(a)[n]]
        /\ \A n \in DOMAIN Replacement(a) : Replacement(a)[n] \in Pictures
    BY <1>3, <2>1, TableType DEF Replacement, TableHasPrimary
  <2>3. QED
    BY <2>1, <2>2, TableType
<1>4. QED
  BY <1>1, <1>2, <1>3

\* CatalogParts holds in every initial state.
LEMMA CatalogPartsInit == Init => CatalogParts
<1> SUFFICES ASSUME Init PROVE CatalogParts
  OBVIOUS
<1> USE ImageAssumption
<1>1. CatalogTypes
  <2>1. table \in Tables /\ disk \in Tables /\ answer \in Tables
    <3>1. disk = Empty /\ answer = Empty /\ table = LoadState(Empty)
      BY DEF Init, NoFile
    <3>2. QED
      BY <3>1, TablesMade
  <2>2. current \in [answer : BOOLEAN, table : BOOLEAN] /\ unsaved \in BOOLEAN
    BY DEF Init
  <2>3. QED
    BY <2>1, <2>2 DEF Init, CatalogTypes
<1>2. TableHasPrimary
  BY CatalogInit DEF CatalogInv
<1>3. SourceCount
  BY DEF Init, SourceCount
<1>4. Agreement
  BY DEF Init, Agreement
<1>5. QED
  BY <1>1, <1>2, <1>3, <1>4 DEF CatalogParts

\* Discover: the new table, and who gets a new Source.
LEMMA DiscoverParts ==
  ASSUME CatalogParts, Discover, TableHasPrimary'
  PROVE  CatalogParts'
<1> USE ImageAssumption DEF CatalogParts
<1>1. /\ disc = "answered" /\ disc' = "saving" /\ UNCHANGED <<nvr, moves, disk, answer>>
      /\ table' = Replacement(answer) /\ gen' = NewSources(answer) /\ unsaved'
      /\ current' = [current EXCEPT !.table = current.answer]
  BY DEF Discover, nvrVars
<1>2. CatalogTypes'
  <2>1. Replacement(answer) \in Tables
    BY TablesMade DEF CatalogTypes
  <2>2. current' \in [answer : BOOLEAN, table : BOOLEAN]
    BY <1>1 DEF CatalogTypes
  <2>3. unsaved' \in BOOLEAN
    BY DEF Discover
  <2>4. QED
    BY <1>1, <2>1, <2>2, <2>3 DEF CatalogTypes
<1>3. DOMAIN table' = Kept(answer) \cup {Primary} /\ Kept(answer) \subseteq DOMAIN answer
      /\ \A n \in Kept(answer) : table'[n] = answer[n]
  BY <1>1 DEF Replacement, Kept
<1>4. SourceCount'
  <2>1. moves \in Nat /\ Kept(nvr)' = Kept(nvr)
    BY <1>1 DEF CatalogTypes, Kept
  <2>2. ASSUME NEW n \in Channels
        PROVE  /\ gen'[n] \in Nat /\ gen'[n] <= moves + 1
               /\ n \notin DOMAIN table' \/ n \notin Kept(nvr) => gen'[n] <= moves
    <3>1. CASE n \in Kept(answer) \ (DOMAIN table \cup {Primary})
      <4>1. gen'[n] = gen[n] + 1
        BY <1>1, <3>1 DEF NewSources
      <4>2. QED
        BY <1>1, <1>3, <2>1, <3>1, <4>1 DEF SourceCount
    <3>2. CASE n \notin Kept(answer) \ (DOMAIN table \cup {Primary})
      <4>1. gen'[n] = gen[n]
        BY <1>1, <3>2 DEF NewSources
      <4>2. QED
        BY <1>1, <1>3, <2>1, <3>2, <4>1 DEF SourceCount, TableHasPrimary
    <3>3. QED
      BY <3>1, <3>2
  <2>3. gen'[Primary] = 0
    BY <1>1 DEF NewSources, SourceCount
  <2>4. gen' \in [Channels -> Nat]
    BY <1>1, <2>2 DEF NewSources
  <2>5. QED
    BY <1>1, <2>1, <2>2, <2>3, <2>4 DEF SourceCount
<1>5. Agreement'
  <2>1. current'.table = current.answer
    BY <1>1 DEF CatalogTypes
  <2>2. Kept(nvr)' = Kept(nvr)
    BY <1>1 DEF Kept
  <2>3. QED
    BY <1>1, <1>3, <2>1, <2>2 DEF Agreement
<1>6. QED
  BY <1>2, <1>4, <1>5

\* A change of the NVR raises the bound by one and ends every agreement.
LEMMA NvrChangesParts ==
  ASSUME CatalogParts, NvrChanges, TableHasPrimary'
  PROVE  CatalogParts'
<1> USE ImageAssumption DEF CatalogParts
<1>1. /\ moves < MaxMoves /\ moves' = moves + 1 /\ nvr' \in Layouts
      /\ current' = [answer |-> FALSE, table |-> FALSE]
      /\ UNCHANGED <<table, gen, disk, disc, answer, unsaved>>
  BY DEF NvrChanges
<1>2. CatalogTypes'
  BY <1>1 DEF CatalogTypes
<1>3. SourceCount'
  <2>1. moves \in Nat /\ Kept(answer)' = Kept(answer)
    BY <1>1 DEF CatalogTypes, Kept
  <2>2. QED
    BY <1>1, <2>1 DEF SourceCount
<1>4. Agreement'
  BY <1>1 DEF Agreement
<1>5. QED
  BY <1>2, <1>3, <1>4

\* Every step keeps the parts.
LEMMA CatalogPartsStep == CatalogParts /\ CatalogInv /\ [Next]_vars => CatalogParts'
<1> SUFFICES ASSUME CatalogParts, CatalogInv, [Next]_vars PROVE CatalogParts'
  OBVIOUS
<1> USE ImageAssumption
<1>1. TableHasPrimary'
  BY CatalogStep DEF CatalogInv
<1>2. CASE Restart
  <2>1. /\ UNCHANGED <<nvr, moves, disk>> /\ table' = LoadState(disk)
        /\ gen' = [n \in Channels |-> 0] /\ disc' = "idle" /\ answer' = Empty
        /\ current' = [answer |-> FALSE, table |-> FALSE] /\ unsaved' = FALSE
    BY <1>2 DEF Restart, NewCatalog, nvrVars
  <2>2. CatalogTypes'
    BY <2>1, TablesMade DEF CatalogParts, CatalogTypes
  <2>3. SourceCount' /\ Agreement'
    BY <2>1 DEF SourceCount, Agreement, CatalogParts, CatalogTypes
  <2>4. QED
    BY <1>1, <2>2, <2>3 DEF CatalogParts
<1>3. CASE NvrChanges
  BY <1>1, <1>3, NvrChangesParts
<1>4. CASE Answered
  <2>1. /\ disc' = "answered" /\ answer' = nvr /\ UNCHANGED <<nvr, moves, table, gen, disk, unsaved>>
        /\ current' = [current EXCEPT !.answer = TRUE]
    BY <1>4 DEF Answered, nvrVars
  <2>2. CatalogTypes'
    BY <2>1 DEF CatalogParts, CatalogTypes
  <2>3. Kept(nvr)' = Kept(nvr) /\ Kept(answer)' = Kept(nvr)
    BY <2>1 DEF Kept
  <2>4. SourceCount'
    BY <2>1, <2>3 DEF SourceCount, CatalogParts
  <2>5. current'.table = current.table
    BY <2>1 DEF CatalogParts, CatalogTypes
  <2>6. Agreement'
    BY <2>1, <2>3, <2>5 DEF Agreement, CatalogParts
  <2>7. QED
    BY <1>1, <2>2, <2>4, <2>6 DEF CatalogParts
<1>5. CASE Discover
  BY <1>1, <1>5, DiscoverParts
<1>6. CASE SaveState
  <2>1. /\ disc' = "idle" /\ answer' = Empty /\ UNCHANGED <<nvr, moves, table, gen>>
        /\ disk' \in {disk, table}
        /\ current' = [current EXCEPT !.answer = FALSE]
    BY <1>6 DEF SaveState, nvrVars
  <2>2. unsaved' \in BOOLEAN
    BY <1>6 DEF SaveState, CatalogParts, CatalogTypes
  <2>3. CatalogTypes'
    BY <2>1, <2>2, TablesMade DEF CatalogParts, CatalogTypes
  <2>4. Kept(nvr)' = Kept(nvr) /\ current'.table = current.table
    BY <2>1 DEF Kept, CatalogParts, CatalogTypes
  <2>5. SourceCount' /\ Agreement'
    BY <2>1, <2>4 DEF SourceCount, Agreement, CatalogParts
  <2>6. QED
    BY <1>1, <2>3, <2>5 DEF CatalogParts
<1>7. CASE UNCHANGED <<nvrVars, catalogVars>>
  <2>1. Kept(nvr)' = Kept(nvr) /\ Kept(answer)' = Kept(answer)
    BY <1>7 DEF nvrVars, catalogVars, Kept
  <2>2. CatalogTypes' /\ SourceCount' /\ Agreement'
    BY <1>7, <2>1 DEF nvrVars, catalogVars, CatalogParts, CatalogTypes, SourceCount,
                      Agreement
  <2>3. QED
    BY <1>1, <2>2 DEF CatalogParts
<1>8. CASE \/ \E s \in Sources : Expire(s)
           \/ \E t \in Handlers : Request(t) \/ Lookup(t) \/ Done(t)
           \/ \E t \in Prewarmers : Ring(t)
           \/ \E t \in Threads, s \in Sources : Fetch(t, s)
           \/ UNCHANGED vars
  <2>1. UNCHANGED <<nvrVars, catalogVars>>
    BY <1>8 DEF Expire, Request, Lookup, Done, Ring, Fetch, ServeCached, ExtendCached,
                StartCapture, Captured, CaptureFails, vars
  <2>2. QED
    BY <1>7, <2>1
<1>9. QED
  BY <1>2, <1>3, <1>4, <1>5, <1>6, <1>8 DEF Next, RunDiscovery

-----------------------------------------------------------------------------
(* The Sources and the requests.                                           *)

SourceType == [frame : Frames, recent : BOOLEAN, warm : BOOLEAN,
               lock : Threads \cup {NoThread}]
JobType == [pc : {"idle", "lookup", "lock", "capture", "done"}, want : Wants,
            from : Sources, informed : BOOLEAN, got : Frames \cup {Nothing}]

\* The job is a prewarm under way; the threads that have one.
Prewarms(x) == x.pc \in {"lock", "capture"} /\ x.want.kind = "prewarm"
Pending == {t \in Threads : Prewarms(job[t])}

\* Every ring event counts once: in a frame, or in a prewarm under way.
RingCount ==
    /\ rings \in 0..MaxRings
    /\ IsFiniteSet(Pending)
    /\ \A s \in Sources : src[s].frame.rung + Cardinality(Pending) <= rings

\* A Source s may be in state y.  A frame that is warm has a restart of its
\* cacheLifetime left, paid for by a ring event; a frame that can still be sent
\* shows the camera of its channel, or is older than the last change of the NVR.
SourceOk(s, y) ==
    /\ y.frame.renewed <= y.frame.rung
    /\ y.warm => y.frame.renewed + 1 <= y.frame.rung
    /\ y.recent \/ y.warm
          => y.frame.old \/ (s[1] \in DOMAIN nvr /\ y.frame.cam = nvr[s[1]])

\* A job may be x.  An informed request for a camera goes to a channel that has
\* this camera, and has got, if anything, a frame of it or an old one.
JobOk(x) ==
    /\ x.pc = "idle" => x = Idle
    /\ x.pc = "lookup" => x.want.kind # "prewarm"
    /\ x.pc # "done" => x.got = Nothing
    /\ x.informed /\ x.want.kind = "camera"
          => x.from[1] \in DOMAIN nvr /\ nvr[x.from[1]] = x.want.key
    /\ x.got # Nothing =>
          /\ x.got.renewed <= x.got.rung
          /\ x.informed /\ x.want.kind = "camera"
                => x.got.cam = x.want.key \/ x.got.old

\* Who captures holds the lock, and a request captures only when no prewarmed
\* frame is left, which no prewarm can change while the lock is held.
CaptureHoldsLock ==
    \A t \in Threads : job[t].pc = "capture" =>
        /\ src[job[t].from].lock = t
        /\ job[t].want.kind # "prewarm" => ~src[job[t].from].warm

FrameParts ==
    /\ src \in [Sources -> SourceType] /\ job \in [Threads -> JobType]
    /\ RingCount /\ CaptureHoldsLock
    /\ \A s \in Sources : SourceOk(s, src[s])
    /\ \A t \in Threads : JobOk(job[t])

\* The records the model starts from have the types of frames, Sources and
\* jobs.
LEMMA FrameTypes ==
    /\ NoFrame \in Frames
    /\ NewSource \in SourceType
    /\ Idle \in JobType
    /\ PrimarySource \in Sources
<1> USE ImageAssumption
<1>1. NoFrame \in Frames
  BY DEF NoFrame, Frames, Pictures
<1>2. NewSource \in SourceType
  BY <1>1 DEF NewSource, SourceType
<1>3. PrimarySource \in Sources
  BY DEF PrimarySource, Sources
<1>4. [kind |-> "door", key |-> Primary] \in Wants
  BY DEF Wants
<1>5. Idle \in JobType
  BY <1>3, <1>4 DEF Idle, JobType
<1>6. QED
  BY <1>1, <1>2, <1>3, <1>5

\* FrameParts holds in every initial state: no frame is cached and no request
\* runs.
LEMMA FramePartsInit == Init => FrameParts
<1> SUFFICES ASSUME Init PROVE FrameParts
  OBVIOUS
<1> USE ImageAssumption
<1>1. src = [s \in Sources |-> NewSource] /\ job = [t \in Threads |-> Idle] /\ rings = 0
  BY DEF Init
<1>2. src \in [Sources -> SourceType] /\ job \in [Threads -> JobType]
  BY <1>1, FrameTypes
<1>3. Pending = {}
  BY <1>1 DEF Pending, Prewarms, Idle
<1>4. RingCount
  BY <1>1, <1>3, FS_EmptySet DEF RingCount, NewSource, NoFrame
<1>5. \A s \in Sources : SourceOk(s, src[s])
  BY <1>1 DEF SourceOk, NewSource, NoFrame
<1>6. CaptureHoldsLock /\ \A t \in Threads : JobOk(job[t])
  BY <1>1 DEF CaptureHoldsLock, JobOk, Idle
<1>7. QED
  BY <1>2, <1>4, <1>5, <1>6 DEF FrameParts

\* A change of one job changes the number of prewarms under way by at most one.
LEMMA PendingChange ==
  ASSUME job \in [Threads -> JobType], IsFiniteSet(Pending), NEW t \in Threads, NEW x,
         job' = [job EXCEPT ![t] = x]
  PROVE  /\ IsFiniteSet(Pending')
         /\ Cardinality(Pending') \in Nat /\ Cardinality(Pending) \in Nat
         /\ (Prewarms(x) <=> Prewarms(job[t])) => Cardinality(Pending') = Cardinality(Pending)
         /\ Prewarms(x) /\ ~Prewarms(job[t])
               => Cardinality(Pending') = Cardinality(Pending) + 1
         /\ ~Prewarms(x) /\ Prewarms(job[t])
               => Cardinality(Pending') = Cardinality(Pending) - 1
<1>1. \A u \in Threads \ {t} : job'[u] = job[u]
  OBVIOUS
<1>2. job'[t] = x
  OBVIOUS
<1>3. /\ \A u \in Threads \ {t} : u \in Pending' <=> u \in Pending
      /\ t \in Pending' <=> Prewarms(x)
      /\ t \in Pending <=> Prewarms(job[t])
  BY <1>1, <1>2 DEF Pending
<1>4. Pending' \subseteq Threads /\ Pending \subseteq Threads
  BY DEF Pending
<1>5. CASE Prewarms(x) <=> Prewarms(job[t])
  <2>1. Pending' = Pending
    BY <1>3, <1>4, <1>5
  <2>2. QED
    BY <1>5, <2>1, FS_CardinalityType
<1>6. CASE Prewarms(x) /\ ~Prewarms(job[t])
  <2>1. Pending' = Pending \cup {t} /\ t \notin Pending
    BY <1>3, <1>4, <1>6
  <2>2. QED
    BY <1>6, <2>1, FS_AddElement, FS_CardinalityType
<1>7. CASE ~Prewarms(x) /\ Prewarms(job[t])
  <2>1. Pending' = Pending \ {t} /\ t \in Pending
    BY <1>3, <1>4, <1>7
  <2>2. QED
    BY <1>7, <2>1, FS_RemoveElement, FS_CardinalityType
<1>8. QED
  BY <1>5, <1>6, <1>7

\* A step of thread t that makes its job x and the Source s it may use y.
LEMMA ThreadStep ==
  ASSUME FrameParts, NEW t \in Threads, NEW s \in Sources,
         NEW x \in JobType, NEW y \in SourceType,
         job' = [job EXCEPT ![t] = x], src' = [src EXCEPT ![s] = y], UNCHANGED nvr,
         JobOk(x), SourceOk(s, y), rings' \in 0..MaxRings,
         y = src[s] \/ src[s].lock \in {t, NoThread},
         x.pc = "capture" => /\ x.from = s /\ y.lock = t
                             /\ x.want.kind # "prewarm" => ~y.warm,
         \A u \in Sources : src[u].frame.rung + Cardinality(Pending') <= rings',
         y.frame.rung + Cardinality(Pending') <= rings'
  PROVE  FrameParts'
<1> USE ImageAssumption DEF FrameParts
<1>1. src' \in [Sources -> SourceType] /\ job' \in [Threads -> JobType]
  OBVIOUS
<1>2. /\ job'[t] = x /\ \A u \in Threads \ {t} : job'[u] = job[u]
      /\ src'[s] = y /\ \A r \in Sources \ {s} : src'[r] = src[r]
  OBVIOUS
<1>3. RingCount'
  <2>1. IsFiniteSet(Pending')
    BY PendingChange DEF RingCount
  <2>2. QED
    BY <1>2, <2>1 DEF RingCount
<1>4. ASSUME NEW u \in Threads, job'[u].pc = "capture"
      PROVE  /\ src'[job'[u].from].lock = u
             /\ job'[u].want.kind # "prewarm" => ~src'[job'[u].from].warm
  <2>1. CASE u = t
    BY <1>2, <1>4, <2>1
  <2>2. CASE u # t
    <3>1. job[u].from \in Sources /\ job'[u] = job[u]
      BY <1>2, <2>2 DEF JobType
    <3>2. /\ src[job[u].from].lock = u
          /\ job[u].want.kind # "prewarm" => ~src[job[u].from].warm
      BY <1>4, <3>1 DEF CaptureHoldsLock
    <3>3. src'[job[u].from] = src[job[u].from]
      BY <1>2, <2>2, <3>1, <3>2
    <3>4. QED
      BY <3>1, <3>2, <3>3
  <2>3. QED
    BY <2>1, <2>2
<1>5. \A r \in Sources : SourceOk(r, src[r])'
  BY <1>2 DEF SourceOk
<1>6. \A u \in Threads : JobOk(job[u])'
  BY <1>2 DEF JobOk
<1>7. QED
  BY <1>1, <1>3, <1>4, <1>5, <1>6 DEF CaptureHoldsLock

\* A step of thread t that makes its job x, touches no Source and ends or
\* starts no prewarm.
LEMMA JobOnlyStep ==
  ASSUME FrameParts, NEW t \in Threads, NEW x \in JobType,
         job' = [job EXCEPT ![t] = x], UNCHANGED <<src, nvr, rings>>,
         JobOk(x), x.pc # "capture", ~Prewarms(x)
  PROVE  FrameParts'
<1>1. PrimarySource \in Sources /\ src[PrimarySource] \in SourceType
      /\ src' = [src EXCEPT ![PrimarySource] = src[PrimarySource]]
  BY FrameTypes DEF FrameParts
<1>2. /\ Cardinality(Pending') \in Nat /\ Cardinality(Pending) \in Nat
      /\ Cardinality(Pending') <= Cardinality(Pending)
  <2>1. job \in [Threads -> JobType] /\ IsFiniteSet(Pending)
    BY DEF FrameParts, RingCount
  <2>2. /\ Cardinality(Pending') \in Nat /\ Cardinality(Pending) \in Nat
        /\ \/ Cardinality(Pending') = Cardinality(Pending)
           \/ Cardinality(Pending') = Cardinality(Pending) - 1
    BY <2>1, PendingChange
  <2>3. QED
    BY <2>2
<1>3. \A u \in Sources : src[u].frame.rung + Cardinality(Pending') <= rings'
  <2> SUFFICES ASSUME NEW u \in Sources
               PROVE  src[u].frame.rung + Cardinality(Pending') <= rings
    OBVIOUS
  <2>1. src[u].frame.rung \in Nat /\ rings \in Nat
    BY ImageAssumption DEF FrameParts, SourceType, Frames, RingCount
  <2>2. src[u].frame.rung + Cardinality(Pending) <= rings
    BY DEF FrameParts, RingCount
  <2>3. QED
    BY <1>2, <2>1, <2>2
<1>4. rings' \in 0..MaxRings
  BY DEF FrameParts, RingCount
<1>5. SourceOk(PrimarySource, src[PrimarySource])
  BY <1>1 DEF FrameParts
<1>6. QED
  BY <1>1, <1>3, <1>4, <1>5, ThreadStep

\* A new request leaves tables and frames alone.
LEMMA RequestStep ==
  ASSUME FrameParts, NEW t \in Handlers, Request(t)
  PROVE  FrameParts'
<1>1. t \in Threads /\ UNCHANGED <<src, nvr, rings>>
  BY DEF Threads, Request, nvrVars
<1>2. PICK w \in Wants : /\ w.kind # "prewarm"
                         /\ job' = [job EXCEPT ![t].want = w,
                                      ![t].pc = IF w.kind = "door" THEN "lock" ELSE "lookup"]
  BY DEF Request
<1>3. job[t] = Idle /\ job \in [Threads -> JobType]
  BY <1>1 DEF Request, FrameParts, JobOk
<1> DEFINE x == [Idle EXCEPT !.want = w, !.pc = IF w.kind = "door" THEN "lock" ELSE "lookup"]
<1>4. job' = [job EXCEPT ![t] = x]
  BY <1>1, <1>2, <1>3
<1>5. x \in JobType
  BY FrameTypes DEF JobType
<1>6. x.pc \in {"lock", "lookup"} /\ x.want = w /\ x.got = Nothing /\ x.informed = FALSE
  BY DEF Idle
<1>7. JobOk(x)
  BY <1>2, <1>6 DEF JobOk
<1>8. QED
  <2> HIDE DEF x
  <2>1. ~Prewarms(x) /\ x.pc # "capture"
    BY <1>2, <1>6 DEF Prewarms
  <2>2. QED
    BY <1>1, <1>4, <1>5, <1>7, <2>1, JobOnlyStep

\* The end of a request leaves tables and frames alone.
LEMMA DoneStep ==
  ASSUME FrameParts, NEW t \in Handlers, Done(t)
  PROVE  FrameParts'
<1>1. t \in Threads /\ UNCHANGED <<src, nvr, rings>> /\ job' = [job EXCEPT ![t] = Idle]
  BY DEF Threads, Done, nvrVars
<1>2. JobOk(Idle) /\ Idle.pc # "capture" /\ ~Prewarms(Idle)
  BY DEF JobOk, Idle, Prewarms
<1>3. QED
  BY <1>1, <1>2, FrameTypes, JobOnlyStep

\* The lookup: a channel found by the camera's ID in a table that agrees with
\* the NVR has that camera.
LEMMA LookupStep ==
  ASSUME FrameParts, CatalogParts, gen \in [Channels -> 0..MaxMoves + 1],
         NEW t \in Handlers, Lookup(t)
  PROVE  FrameParts'
<1>1. t \in Threads /\ UNCHANGED <<src, nvr, rings>>
  BY DEF Threads, Lookup, nvrVars
<1>2. CASE job' = [job EXCEPT ![t] = Idle]
  <2>1. JobOk(Idle) /\ Idle.pc # "capture" /\ ~Prewarms(Idle)
    BY DEF JobOk, Idle, Prewarms
  <2>2. QED
    BY <1>1, <1>2, <2>1, FrameTypes, JobOnlyStep
<1>3. ASSUME NEW n \in Found(job[t].want),
             job' = [job EXCEPT ![t].pc = "lock", ![t].from = SourceOf(n),
                                ![t].informed = current.table /\ n \in Kept(nvr)]
      PROVE  FrameParts'
  <2>1. job[t] \in JobType /\ JobOk(job[t]) /\ job[t].pc = "lookup"
        /\ job \in [Threads -> JobType]
    BY <1>1 DEF FrameParts, Lookup
  <2>2. n \in DOMAIN table /\ n \in Channels
    BY TableType DEF Found, Candidates, CatalogParts, CatalogTypes
  <2>3. SourceOf(n) \in Sources /\ SourceOf(n)[1] = n
    BY <2>2 DEF SourceOf, Sources
  <2>4. PICK b \in BOOLEAN : b = (current.table /\ n \in Kept(nvr))
    OBVIOUS
  <2> DEFINE x == [job[t] EXCEPT !.pc = "lock", !.from = SourceOf(n), !.informed = b]
  <2>5. job' = [job EXCEPT ![t] = x]
    BY <1>1, <1>3, <2>1, <2>4
  <2>6. x \in JobType
    BY <2>1, <2>3 DEF JobType
  <2>7. x.pc = "lock" /\ x.want = job[t].want /\ x.got = job[t].got /\ x.from[1] = n
        /\ x.informed = b
    BY <2>1, <2>3 DEF JobType
  <2>8. x.informed /\ x.want.kind = "camera" => n \in DOMAIN nvr /\ nvr[n] = x.want.key
    BY <2>4, <2>7 DEF Found, Candidates, CatalogParts, Agreement, Kept
  <2>9. JobOk(x)
    BY <2>1, <2>7, <2>8 DEF JobOk
  <2>10. QED
    <3> HIDE DEF x
    <3>1. ~Prewarms(x) /\ x.pc # "capture"
      BY <2>1, <2>7 DEF Prewarms, JobOk
    <3>2. QED
      BY <1>1, <2>5, <2>6, <2>9, <3>1, JobOnlyStep
<1>4. QED
  BY <1>2, <1>3 DEF Lookup

\* A ring event starts a prewarm.
LEMMA RingStep ==
  ASSUME FrameParts, NEW t \in Prewarmers, Ring(t)
  PROVE  FrameParts'
<1>1. t \in Threads /\ UNCHANGED <<src, nvr>> /\ rings' = rings + 1 /\ rings < MaxRings
  BY DEF Threads, Ring, nvrVars
<1>2. job[t] = Idle /\ job \in [Threads -> JobType] /\ IsFiniteSet(Pending)
      /\ rings \in 0..MaxRings
  BY <1>1 DEF Ring, FrameParts, JobOk, RingCount
<1> DEFINE w == [kind |-> "prewarm", key |-> Primary]
           x == [Idle EXCEPT !.want = w, !.pc = "lock"]
<1>3. job' = [job EXCEPT ![t] = x]
  BY <1>1, <1>2 DEF Ring
<1>4. w \in Wants
  BY DEF Wants
<1>5. x \in JobType
  BY <1>4, FrameTypes DEF JobType
<1>6. x.pc = "lock" /\ x.got = Nothing /\ x.informed = FALSE
  BY DEF Idle
<1>7. JobOk(x)
  BY <1>6 DEF JobOk
<1>8. PrimarySource \in Sources /\ src[PrimarySource] \in SourceType
      /\ src' = [src EXCEPT ![PrimarySource] = src[PrimarySource]]
      /\ SourceOk(PrimarySource, src[PrimarySource])
  BY <1>1, FrameTypes DEF FrameParts
<1>9. \A u \in Sources : src[u].frame.rung + Cardinality(Pending') <= rings'
  <2> SUFFICES ASSUME NEW u \in Sources
               PROVE  src[u].frame.rung + Cardinality(Pending') <= rings + 1
    BY <1>1
  <2> HIDE DEF x
  <2>1. /\ Cardinality(Pending') \in Nat /\ Cardinality(Pending) \in Nat
        /\ Cardinality(Pending') <= Cardinality(Pending) + 1
    <3>1. /\ Cardinality(Pending') \in Nat /\ Cardinality(Pending) \in Nat
          /\ \/ Cardinality(Pending') = Cardinality(Pending)
             \/ Cardinality(Pending') = Cardinality(Pending) - 1
             \/ Cardinality(Pending') = Cardinality(Pending) + 1
      BY <1>1, <1>2, <1>3, PendingChange
    <3>2. QED
      BY <3>1
  <2>2. src[u].frame.rung \in Nat /\ rings \in Nat
    BY ImageAssumption DEF FrameParts, SourceType, Frames, RingCount
  <2>3. src[u].frame.rung + Cardinality(Pending) <= rings
    BY DEF FrameParts, RingCount
  <2>4. QED
    BY <2>1, <2>2, <2>3
<1>10. rings' \in 0..MaxRings
  BY <1>1, <1>2, ImageAssumption
<1>11. x.pc # "capture"
  BY <1>6
<1>12. QED
  <2> HIDE DEF x
  <2>1. QED
    BY <1>1, <1>3, <1>5, <1>7, <1>8, <1>9, <1>10, <1>11, ThreadStep

\* A step of thread t that has its Source s to itself and starts no prewarm:
\* the ring events of the new frame are those of the old one, and at most the
\* one of the prewarm that ends.
LEMMA SourceStep ==
  ASSUME FrameParts, NEW t \in Threads, NEW s \in Sources,
         NEW x \in JobType, NEW y \in SourceType,
         job' = [job EXCEPT ![t] = x], src' = [src EXCEPT ![s] = y],
         UNCHANGED <<nvr, rings>>, JobOk(x), SourceOk(s, y),
         src[s].lock \in {t, NoThread},
         Prewarms(x) => Prewarms(job[t]),
         x.pc = "capture" => /\ x.from = s /\ y.lock = t
                             /\ x.want.kind # "prewarm" => ~y.warm,
         y.frame.rung <= src[s].frame.rung \/
            (~Prewarms(x) /\ Prewarms(job[t]) /\ y.frame.rung <= src[s].frame.rung + 1)
  PROVE  FrameParts'
<1>1. job \in [Threads -> JobType] /\ IsFiniteSet(Pending) /\ rings' \in 0..MaxRings
  BY DEF FrameParts, RingCount
<1>2. /\ Cardinality(Pending') \in Nat /\ Cardinality(Pending) \in Nat
      /\ \/ Cardinality(Pending') = Cardinality(Pending)
         \/ Cardinality(Pending') = Cardinality(Pending) - 1
      /\ ~Prewarms(x) /\ Prewarms(job[t])
            => Cardinality(Pending') = Cardinality(Pending) - 1
  BY <1>1, PendingChange
<1>3. rings \in Nat /\ y.frame.rung \in Nat /\ \A u \in Sources : src[u].frame.rung \in Nat
  BY ImageAssumption DEF FrameParts, SourceType, Frames, RingCount
<1>4. \A u \in Sources : src[u].frame.rung + Cardinality(Pending) <= rings
  BY DEF FrameParts, RingCount
<1>5. \A u \in Sources : src[u].frame.rung + Cardinality(Pending') <= rings'
  BY <1>2, <1>3, <1>4
<1>6. y.frame.rung + Cardinality(Pending') <= rings'
  <2>1. src[s].frame.rung + Cardinality(Pending) <= rings /\ src[s].frame.rung \in Nat
    BY <1>3, <1>4
  <2>2. QED
    BY <1>2, <1>3, <2>1
<1>7. QED
  BY <1>1, <1>5, <1>6, ThreadStep

\* Types of the Source and of the job of a thread that works on it.
LEMMA WorkTypes ==
  ASSUME FrameParts, NEW t \in Threads, NEW s \in Sources
  PROVE  /\ src[s] \in SourceType /\ src[s].frame \in Frames
         /\ src[s].frame.rung \in Nat /\ src[s].frame.renewed \in Nat
         /\ src[s].warm \in BOOLEAN /\ src[s].recent \in BOOLEAN
         /\ job[t] \in JobType /\ JobOk(job[t]) /\ SourceOk(s, src[s])
  BY ImageAssumption DEF FrameParts, SourceType, Frames

\* FetchJPEG restarts the cacheLifetime of a prewarmed frame, once.
LEMMA RenewedSource ==
  ASSUME FrameParts, NEW s \in Sources, NEW y, src[s].warm,
         y = Renewed([src[s] EXCEPT !.warm = FALSE])
  PROVE  /\ y \in SourceType /\ SourceOk(s, y) /\ y.frame.rung = src[s].frame.rung
<1> DEFINE r == src[s]
           k == IF r.frame.renewed > MaxRings THEN r.frame.renewed ELSE r.frame.renewed + 1
<1>1. r \in SourceType /\ r.frame \in Frames /\ SourceOk(s, r)
  BY DEF FrameParts, SourceType
<1>2. k \in 0..MaxRings + 1 /\ k <= r.frame.renewed + 1 /\ r.frame.renewed \in Nat
      /\ r.frame.rung \in Nat
  BY <1>1, ImageAssumption DEF Frames
<1> HIDE DEF k
<1>3. PICK f : f = [r.frame EXCEPT !.renewed = k]
  OBVIOUS
<1>4. /\ f \in Frames /\ f.renewed = k /\ f.rung = r.frame.rung
      /\ f.cam = r.frame.cam /\ f.old = r.frame.old
  BY <1>1, <1>2, <1>3 DEF Frames
<1>5. y = [frame |-> f, recent |-> TRUE, warm |-> FALSE, lock |-> r.lock]
  BY <1>1, <1>3 DEF Renewed, SourceType, k
<1>6. y \in SourceType /\ y.frame = f /\ ~y.warm
  <2>1. PICK l \in Threads \cup {NoThread} : l = r.lock
    BY <1>1 DEF SourceType
  <2>2. PICK yes \in BOOLEAN, no \in BOOLEAN : yes = TRUE /\ no = FALSE
    OBVIOUS
  <2>3. y = [frame |-> f, recent |-> yes, warm |-> no, lock |-> l]
    BY <1>5, <2>1, <2>2
  <2>4. y \in SourceType /\ y.frame = f /\ y.warm = no
    BY <1>4, <2>3 DEF SourceType
  <2>5. QED
    BY <2>2, <2>4
<1>7. SourceOk(s, y)
  <2>1. k <= r.frame.rung
    BY <1>1, <1>2 DEF SourceOk
  <2>2. r.frame.old \/ (s[1] \in DOMAIN nvr /\ r.frame.cam = nvr[s[1]])
    BY <1>1 DEF SourceOk
  <2>3. QED
    BY <1>4, <1>6, <2>1, <2>2 DEF SourceOk
<1>8. QED
  BY <1>4, <1>6, <1>7

\* Sending a cached frame preserves FrameParts: it shortens the frame's life
\* and shows the camera the Source shows.
LEMMA ServeCachedStep ==
  ASSUME FrameParts, NEW t \in Threads, NEW s \in Sources, ServeCached(t, s)
  PROVE  FrameParts'
<1>1. /\ job[t].pc = "lock" /\ s = job[t].from /\ src[s].lock = NoThread
      /\ job[t].want.kind # "prewarm" /\ Cached(s) /\ UNCHANGED <<nvr, rings>>
  BY DEF ServeCached, Locks, nvrVars
<1>2. PICK y : y = IF src[s].warm THEN Renewed([src[s] EXCEPT !.warm = FALSE]) ELSE src[s]
  OBVIOUS
<1>3. src' = [src EXCEPT ![s] = y]
  BY <1>2 DEF ServeCached, FrameParts
<1>4. y \in SourceType /\ SourceOk(s, y) /\ y.frame.rung <= src[s].frame.rung
  BY <1>2, WorkTypes, RenewedSource
<1> DEFINE x == [job[t] EXCEPT !.pc = "done", !.got = src[s].frame]
<1>5. job' = [job EXCEPT ![t] = x]
  BY DEF ServeCached, FrameParts
<1>6. x \in JobType
  BY WorkTypes DEF JobType
<1>7. /\ x.pc = "done" /\ x.got = src[s].frame /\ x.want = job[t].want
      /\ x.from = s /\ x.informed = job[t].informed
  BY <1>1, WorkTypes DEF JobType
<1>8. JobOk(x)
  <2>1. src[s].frame.renewed <= src[s].frame.rung
        /\ (src[s].frame.old \/ (s[1] \in DOMAIN nvr /\ src[s].frame.cam = nvr[s[1]]))
    BY <1>1, WorkTypes DEF SourceOk, Cached
  <2>2. x.informed /\ x.want.kind = "camera"
           => s[1] \in DOMAIN nvr /\ nvr[s[1]] = x.want.key
    BY <1>1, <1>7, WorkTypes DEF JobOk
  <2>3. QED
    BY <1>7, <2>1, <2>2 DEF JobOk
<1>9. QED
  <2> HIDE DEF x
  <2>1. ~Prewarms(x) /\ x.pc # "capture"
    BY <1>7 DEF Prewarms
  <2>2. QED
    BY <1>1, <1>3, <1>4, <1>5, <1>6, <1>8, <2>1, SourceStep

\* A Source whose lock alone changes stays what it is.
LEMMA LockedSource ==
  ASSUME FrameParts, NEW s \in Sources, NEW u \in Threads \cup {NoThread}, NEW y,
         y = [src[s] EXCEPT !.lock = u]
  PROVE  /\ y \in SourceType /\ SourceOk(s, y) /\ y.lock = u /\ y.warm = src[s].warm
         /\ y.frame = src[s].frame /\ y.frame.rung <= src[s].frame.rung
<1>1. src[s] \in SourceType /\ src[s].frame.rung \in Nat /\ SourceOk(s, src[s])
  BY ImageAssumption DEF FrameParts, SourceType, Frames
<1>2. /\ y \in SourceType /\ y.lock = u /\ y.warm = src[s].warm /\ y.frame = src[s].frame
      /\ y.recent = src[s].recent
  BY <1>1 DEF SourceType
<1>3. QED
  BY <1>1, <1>2 DEF SourceOk

\* Starting a capture preserves FrameParts: it happens with the Source
\* locked.
LEMMA StartCaptureStep ==
  ASSUME FrameParts, NEW t \in Threads, NEW s \in Sources, StartCapture(t, s)
  PROVE  FrameParts'
<1>1. /\ job[t].pc = "lock" /\ s = job[t].from /\ src[s].lock = NoThread
      /\ src[s].warm => job[t].want.kind = "prewarm"
      /\ UNCHANGED <<nvr, rings>>
  BY DEF StartCapture, Locks, nvrVars
<1>2. PICK y : y = [src[s] EXCEPT !.lock = t]
  OBVIOUS
<1>3. src' = [src EXCEPT ![s] = y]
  BY <1>2 DEF StartCapture, FrameParts
<1>4. /\ y \in SourceType /\ SourceOk(s, y) /\ y.lock = t /\ y.warm = src[s].warm
      /\ y.frame.rung <= src[s].frame.rung
  BY <1>2, LockedSource
<1> DEFINE x == [job[t] EXCEPT !.pc = "capture"]
<1>5. job' = [job EXCEPT ![t] = x]
  BY DEF StartCapture, FrameParts
<1>6. x \in JobType
  BY WorkTypes DEF JobType
<1>7. /\ x.pc = "capture" /\ x.got = job[t].got /\ x.want = job[t].want
      /\ x.from = s /\ x.informed = job[t].informed
  BY <1>1, WorkTypes DEF JobType
<1>8. JobOk(x)
  BY <1>1, <1>7, WorkTypes DEF JobOk
<1>9. QED
  <2> HIDE DEF x
  <2>1. Prewarms(x) => Prewarms(job[t])
    BY <1>1, <1>7 DEF Prewarms
  <2>2. x.want.kind # "prewarm" => ~y.warm
    BY <1>1, <1>4, <1>7
  <2>3. QED
    BY <1>1, <1>3, <1>4, <1>5, <1>6, <1>7, <1>8, <2>1, <2>2, SourceStep

\* A capture that fails releases the lock and keeps the cached frame.
LEMMA CaptureFailsStep ==
  ASSUME FrameParts, NEW t \in Threads, NEW s \in Sources, CaptureFails(t, s)
  PROVE  FrameParts'
<1>1. /\ job[t].pc = "capture" /\ s = job[t].from /\ UNCHANGED <<nvr, rings>>
      /\ job' = [job EXCEPT ![t] = Idle]
  BY DEF CaptureFails, nvrVars
<1>2. src[s].lock = t
  BY <1>1 DEF FrameParts, CaptureHoldsLock
<1>3. PICK y : y = [src[s] EXCEPT !.lock = NoThread]
  OBVIOUS
<1>4. src' = [src EXCEPT ![s] = y]
  BY <1>3 DEF CaptureFails, FrameParts
<1>5. y \in SourceType /\ SourceOk(s, y) /\ y.frame.rung <= src[s].frame.rung
  BY <1>3, LockedSource
<1>6. JobOk(Idle) /\ Idle.pc # "capture" /\ ~Prewarms(Idle) /\ Idle \in JobType
  BY FrameTypes DEF JobOk, Idle, Prewarms
<1>7. QED
  BY <1>1, <1>2, <1>4, <1>5, <1>6, SourceStep

\* A prewarm that finds a recent frame extends it, which takes a ring.
LEMMA ExtendCachedStep ==
  ASSUME FrameParts, NEW t \in Threads, NEW s \in Sources, ExtendCached(t, s)
  PROVE  FrameParts'
<1>1. /\ job[t].pc = "lock" /\ s = job[t].from /\ src[s].lock = NoThread
      /\ job[t].want.kind = "prewarm" /\ src[s].recent /\ UNCHANGED <<nvr, rings>>
      /\ job' = [job EXCEPT ![t] = Idle]
  BY DEF ExtendCached, Locks, nvrVars
<1>2. Prewarms(job[t])
  BY <1>1 DEF Prewarms
<1>3. src[s].frame.rung + 1 <= MaxRings
  <2>1. job \in [Threads -> JobType] /\ IsFiniteSet(Pending) /\ t \in Pending
    BY <1>2 DEF FrameParts, RingCount, Pending
  <2>2. Cardinality(Pending) \in Nat /\ Cardinality(Pending) # 0
    BY <2>1, FS_CardinalityType, FS_EmptySet
  <2>3. src[s].frame.rung + Cardinality(Pending) <= rings /\ rings \in 0..MaxRings
    BY DEF FrameParts, RingCount
  <2>4. QED
    BY <2>2, <2>3, WorkTypes, ImageAssumption
<1>4. PICK f : f = [src[s].frame EXCEPT !.rung = @ + 1]
  OBVIOUS
<1>5. /\ f \in Frames /\ f.rung = src[s].frame.rung + 1 /\ f.renewed = src[s].frame.renewed
      /\ f.cam = src[s].frame.cam /\ f.old = src[s].frame.old
  <2>1. src[s].frame \in Frames /\ src[s].frame.rung + 1 \in 0..MaxRings
    BY <1>3, WorkTypes, ImageAssumption
  <2>2. QED
    BY <1>4, <2>1 DEF Frames
<1>6. PICK y : y = [src[s] EXCEPT !.warm = TRUE, !.frame = f]
  OBVIOUS
<1>7. src' = [src EXCEPT ![s] = y]
  <2>1. src' = [src EXCEPT ![s] = [src[s] EXCEPT !.warm = TRUE,
                                     !.frame = [src[s].frame EXCEPT !.rung = @ + 1]]]
    BY WorkTypes DEF ExtendCached, FrameParts, SourceType
  <2>2. QED
    BY <1>4, <1>6, <2>1
<1>8. y \in SourceType /\ y.frame = f /\ y.warm
  BY <1>5, <1>6, WorkTypes DEF SourceType
<1>9. SourceOk(s, y)
  <2>1. src[s].frame.renewed + 1 <= src[s].frame.rung + 1
        /\ src[s].frame.renewed <= src[s].frame.rung + 1
        /\ (src[s].frame.old \/ (s[1] \in DOMAIN nvr /\ src[s].frame.cam = nvr[s[1]]))
    BY <1>1, WorkTypes DEF SourceOk
  <2>2. QED
    BY <1>5, <1>8, <2>1 DEF SourceOk
<1>10. JobOk(Idle) /\ Idle.pc # "capture" /\ ~Prewarms(Idle) /\ Idle \in JobType
  BY FrameTypes DEF JobOk, Idle, Prewarms
<1>11. y.frame.rung <= src[s].frame.rung + 1
  BY <1>5, <1>8, WorkTypes
<1>12. QED
  BY <1>1, <1>2, <1>7, <1>8, <1>9, <1>10, <1>11, SourceStep

\* A picture that a capture brings is of the camera on the Source's channel.
LEMMA PictureOfChannel ==
  ASSUME CatalogParts, NEW n, NEW p \in FetchFresh(n) \ {<<>>}
  PROVE  n \in DOMAIN nvr /\ p[1] = nvr[n] /\ p[1] \in Pictures
<1>1. p \in FetchCGI(n) \cup FetchRTSP(n)
  BY DEF FetchFresh
<1>2. n \in DOMAIN nvr /\ p = <<nvr[n]>>
  BY <1>1 DEF FetchCGI, FetchRTSP
<1>3. nvr \in Tables
  BY ImageAssumption DEF CatalogParts, CatalogTypes
<1>4. QED
  BY <1>2, <1>3, TableType

\* A capture that succeeds caches what is connected to the channel now.
LEMMA CapturedStep ==
  ASSUME FrameParts, CatalogParts, NEW t \in Threads, NEW s \in Sources, Captured(t, s)
  PROVE  FrameParts'
<1>1. job[t].pc = "capture" /\ s = job[t].from /\ UNCHANGED <<nvr, rings>>
  BY DEF Captured, nvrVars
<1>2. src[s].lock = t /\ (job[t].want.kind # "prewarm" => ~src[s].warm)
  BY <1>1 DEF FrameParts, CaptureHoldsLock
<1> DEFINE prewarm == job[t].want.kind = "prewarm"
<1>3. PICK p, f :
        /\ p \in FetchFresh(s[1]) \ {<<>>}
        /\ f = [NoFrame EXCEPT !.cam = p[1], !.rung = IF prewarm THEN 1 ELSE 0]
        /\ src' = [src EXCEPT ![s] = [frame |-> f, recent |-> TRUE, lock |-> NoThread,
                                      warm |-> prewarm \/ src[s].warm]]
        /\ job' = IF prewarm THEN [job EXCEPT ![t] = Idle]
                  ELSE [job EXCEPT ![t].pc = "done", ![t].got = f]
  BY DEF Captured
<1>4. s[1] \in DOMAIN nvr /\ p[1] = nvr[s[1]] /\ p[1] \in Pictures
  BY <1>3, PictureOfChannel
<1>5. PICK k : k = IF prewarm THEN 1 ELSE 0
  OBVIOUS
<1>6. k \in 0..MaxRings
  <2>1. CASE prewarm
    <3>1. IsFiniteSet(Pending) /\ t \in Pending
      BY <1>1, <2>1 DEF FrameParts, RingCount, Pending, Prewarms
    <3>2. Cardinality(Pending) \in Nat /\ Cardinality(Pending) # 0
      BY <3>1, FS_CardinalityType, FS_EmptySet
    <3>3. src[s].frame.rung + Cardinality(Pending) <= rings /\ rings \in 0..MaxRings
      BY DEF FrameParts, RingCount
    <3>4. QED
      BY <1>5, <2>1, <3>2, <3>3, WorkTypes, ImageAssumption
  <2>2. CASE ~prewarm
    BY <1>5, <2>2, ImageAssumption
  <2>3. QED
    BY <2>1, <2>2
<1>7. /\ f \in Frames /\ f.cam = nvr[s[1]] /\ f.rung = k /\ f.renewed = 0
  <2>1. f = [NoFrame EXCEPT !.cam = p[1], !.rung = k]
    BY <1>3, <1>5
  <2>2. NoFrame \in Frames /\ NoFrame.renewed = 0
    BY FrameTypes DEF NoFrame
  <2>3. QED
    BY <1>4, <1>6, <2>1, <2>2 DEF Frames
<1>8. PICK b \in BOOLEAN : b = (prewarm \/ src[s].warm)
  OBVIOUS
<1>9. PICK y : y = [frame |-> f, recent |-> TRUE, lock |-> NoThread, warm |-> b]
  OBVIOUS
<1>10. src' = [src EXCEPT ![s] = y]
  BY <1>3, <1>8, <1>9
<1>11. y \in SourceType /\ y.frame = f /\ y.warm = b
  BY <1>7, <1>9 DEF SourceType
<1>12. SourceOk(s, y)
  <2>1. b => k = 1
    BY <1>2, <1>5, <1>8
  <2>2. QED
    BY <1>4, <1>6, <1>7, <1>11, <2>1 DEF SourceOk
<1>13. CASE prewarm
  <2>1. job' = [job EXCEPT ![t] = Idle] /\ Prewarms(job[t])
    BY <1>1, <1>3, <1>13 DEF Prewarms
  <2>2. JobOk(Idle) /\ Idle.pc # "capture" /\ ~Prewarms(Idle) /\ Idle \in JobType
    BY FrameTypes DEF JobOk, Idle, Prewarms
  <2>3. y.frame.rung <= src[s].frame.rung + 1
    BY <1>5, <1>7, <1>11, <1>13, WorkTypes
  <2>4. QED
    BY <1>1, <1>2, <1>10, <1>11, <1>12, <2>1, <2>2, <2>3, SourceStep
<1>14. CASE ~prewarm
  <2> DEFINE x == [job[t] EXCEPT !.pc = "done", !.got = f]
  <2>1. job' = [job EXCEPT ![t] = x]
    BY <1>3, <1>14 DEF FrameParts
  <2>2. x \in JobType
    BY <1>7, WorkTypes DEF JobType
  <2>3. /\ x.pc = "done" /\ x.got = f /\ x.want = job[t].want
        /\ x.from = s /\ x.informed = job[t].informed
    BY <1>1, WorkTypes DEF JobType
  <2>4. x.informed /\ x.want.kind = "camera"
           => s[1] \in DOMAIN nvr /\ nvr[s[1]] = x.want.key
    BY <1>1, <2>3, WorkTypes DEF JobOk
  <2>5. JobOk(x)
    BY <1>6, <1>7, <2>3, <2>4 DEF JobOk
  <2>6. y.frame.rung <= src[s].frame.rung
    BY <1>5, <1>7, <1>11, <1>14, WorkTypes
  <2>7. QED
    <3> HIDE DEF x
    <3>1. ~Prewarms(x) /\ x.pc # "capture"
      BY <2>3 DEF Prewarms
    <3>2. QED
      BY <1>1, <1>2, <1>10, <1>11, <1>12, <2>1, <2>2, <2>5, <2>6, <3>1, SourceStep
<1>15. QED
  BY <1>13, <1>14

\* A job is its fields.
LEMMA SameJob ==
  ASSUME NEW x \in JobType, NEW z \in JobType, x.pc = z.pc, x.want = z.want,
         x.from = z.from, x.informed = z.informed, x.got = z.got
  PROVE  x = z
  BY DEF JobType

\* The NVR changes: every cached frame is old, and no request is informed.
LEMMA NvrChangesStep ==
  ASSUME FrameParts, NvrChanges
  PROVE  FrameParts'
<1>1. /\ rings' = rings
      /\ job' = [t \in Threads |-> [job[t] EXCEPT !.informed = FALSE]]
      /\ src' = [s \in Sources |-> IF Cached(s) THEN [src[s] EXCEPT !.frame.old = TRUE]
                                                ELSE src[s]]
  BY DEF NvrChanges
<1>2. ASSUME NEW t \in Threads
      PROVE  /\ job'[t] \in JobType
             /\ job'[t].pc = job[t].pc /\ job'[t].want = job[t].want
             /\ job'[t].from = job[t].from /\ job'[t].got = job[t].got
             /\ ~job'[t].informed
             /\ job[t] = Idle => job'[t] = Idle
  <2>1. job[t] \in JobType /\ job'[t] = [job[t] EXCEPT !.informed = FALSE]
    BY <1>1 DEF FrameParts
  <2>2. PICK no \in BOOLEAN : no = FALSE
    OBVIOUS
  <2>3. job'[t] = [job[t] EXCEPT !.informed = no]
    BY <2>1, <2>2
  <2>4. /\ job'[t] \in JobType
        /\ job'[t].pc = job[t].pc /\ job'[t].want = job[t].want
        /\ job'[t].from = job[t].from /\ job'[t].got = job[t].got
        /\ job'[t].informed = no
    BY <2>1, <2>3 DEF JobType
  <2>5. job[t] = Idle => job'[t] = Idle
    BY <2>2, <2>4, FrameTypes, SameJob DEF Idle
  <2>6. QED
    BY <2>2, <2>4, <2>5
<1>3. ASSUME NEW s \in Sources
      PROVE  /\ src'[s] \in SourceType
             /\ src'[s].lock = src[s].lock /\ src'[s].warm = src[s].warm
             /\ src'[s].recent = src[s].recent
             /\ src'[s].frame.rung = src[s].frame.rung
             /\ src'[s].frame.renewed = src[s].frame.renewed
             /\ src[s].recent \/ src[s].warm => src'[s].frame.old
  <2>1. src[s] \in SourceType /\ src[s].frame \in Frames
    BY DEF FrameParts, SourceType
  <2>2. CASE ~Cached(s)
    <3>1. src'[s] = src[s]
      BY <1>1, <2>2
    <3>2. QED
      BY <2>1, <2>2, <3>1 DEF Cached
  <2>3. CASE Cached(s)
    <3>1. PICK yes \in BOOLEAN : yes = TRUE
      OBVIOUS
    <3>2. PICK f : f = [src[s].frame EXCEPT !.old = yes]
      OBVIOUS
    <3>3. src'[s] = [src[s] EXCEPT !.frame = f]
      BY <1>1, <2>1, <2>3, <3>1, <3>2 DEF SourceType
    <3>4. /\ f \in Frames /\ f.rung = src[s].frame.rung
          /\ f.renewed = src[s].frame.renewed /\ f.old = yes
      BY <2>1, <3>2 DEF Frames
    <3>5. QED
      BY <2>1, <3>1, <3>3, <3>4 DEF SourceType
  <2>4. QED
    BY <2>2, <2>3
<1>4. src' \in [Sources -> SourceType] /\ job' \in [Threads -> JobType]
  BY <1>1, <1>2, <1>3
<1>5. Pending' = Pending
  BY <1>2 DEF Pending, Prewarms
<1>6. RingCount'
  BY <1>1, <1>3, <1>5 DEF FrameParts, RingCount
<1>7. CaptureHoldsLock'
  <2> SUFFICES ASSUME NEW t \in Threads, job'[t].pc = "capture"
               PROVE  /\ src'[job'[t].from].lock = t
                      /\ job'[t].want.kind # "prewarm" => ~src'[job'[t].from].warm
    BY DEF CaptureHoldsLock
  <2>1. job[t].from \in Sources
    BY DEF FrameParts, JobType
  <2>2. QED
    BY <1>2, <1>3, <2>1 DEF FrameParts, CaptureHoldsLock
<1>8. \A s \in Sources : SourceOk(s, src[s])'
  BY <1>3 DEF FrameParts, SourceOk
<1>9. \A t \in Threads : JobOk(job[t])'
  BY <1>2 DEF FrameParts, JobOk
<1>10. QED
  BY <1>4, <1>6, <1>7, <1>8, <1>9 DEF FrameParts

\* A deadline passes.
LEMMA ExpireStep ==
  ASSUME FrameParts, NEW s \in Sources, Expire(s)
  PROVE  FrameParts'
<1>1. UNCHANGED <<nvr, job, rings>>
  BY DEF Expire, nvrVars
<1>2. PICK recent \in {FALSE, src[s].recent}, warm \in {FALSE, src[s].warm} :
        src' = [src EXCEPT ![s] = [src[s] EXCEPT !.recent = recent, !.warm = warm,
                                   !.frame = IF recent \/ warm THEN @ ELSE NoFrame]]
  BY DEF Expire
<1>3. src[s] \in SourceType /\ src[s].recent \in BOOLEAN /\ src[s].warm \in BOOLEAN
      /\ src[s].frame \in Frames /\ SourceOk(s, src[s]) /\ src \in [Sources -> SourceType]
      /\ src[s].frame.rung \in Nat
  BY ImageAssumption DEF FrameParts, SourceType, Frames
<1>4. recent \in BOOLEAN /\ warm \in BOOLEAN /\ (recent => src[s].recent)
      /\ (warm => src[s].warm)
  BY <1>2, <1>3
<1>5. PICK f : f = IF recent \/ warm THEN src[s].frame ELSE NoFrame
  OBVIOUS
<1>6. PICK y : y = [src[s] EXCEPT !.recent = recent, !.warm = warm, !.frame = f]
  OBVIOUS
<1>7. src' = [src EXCEPT ![s] = y]
  <2>1. PICK r \in SourceType : r = src[s]
    BY <1>3
  <2>2. [r EXCEPT !.recent = recent, !.warm = warm,
                  !.frame = IF recent \/ warm THEN @ ELSE NoFrame]
        = [r EXCEPT !.recent = recent, !.warm = warm, !.frame = f]
    BY <1>5, <2>1 DEF SourceType
  <2>3. src' = [src EXCEPT ![s] = [src[s] EXCEPT !.recent = recent, !.warm = warm,
                                   !.frame = IF recent \/ warm THEN @ ELSE NoFrame]]
    BY <1>2
  <2>4. QED
    BY <1>6, <2>1, <2>2, <2>3, Zenon
<1>8. f \in Frames
  BY <1>3, <1>5, FrameTypes
<1>9. /\ y \in SourceType /\ y.recent = recent /\ y.warm = warm /\ y.frame = f
      /\ y.lock = src[s].lock
  BY <1>3, <1>4, <1>6, <1>8 DEF SourceType
<1>10. SourceOk(s, y) /\ y.frame.rung <= src[s].frame.rung /\ y.frame.rung \in Nat
  <2>1. CASE recent \/ warm
    BY <1>3, <1>4, <1>5, <1>9, <2>1 DEF SourceOk
  <2>2. CASE ~(recent \/ warm)
    <3>1. y.frame = NoFrame /\ ~y.recent /\ ~y.warm
      BY <1>5, <1>9, <2>2
    <3>2. QED
      BY <1>3, <3>1 DEF SourceOk, NoFrame
  <2>3. QED
    BY <2>1, <2>2
<1>11. src' \in [Sources -> SourceType] /\ src'[s] = y
       /\ \A r \in Sources \ {s} : src'[r] = src[r]
  BY <1>3, <1>7, <1>9
<1>12. RingCount'
  <2>1. Pending' = Pending /\ IsFiniteSet(Pending) /\ Cardinality(Pending) \in Nat
        /\ rings \in Nat
    BY <1>1, FS_CardinalityType, ImageAssumption DEF Pending, FrameParts, RingCount
  <2>2. y.frame.rung + Cardinality(Pending) <= rings
    <3>1. src[s].frame.rung + Cardinality(Pending) <= rings
      BY DEF FrameParts, RingCount
    <3>2. QED
      BY <1>3, <1>10, <2>1, <3>1
  <2>3. QED
    BY <1>1, <1>11, <2>1, <2>2 DEF FrameParts, RingCount
<1>13. CaptureHoldsLock'
  <2> SUFFICES ASSUME NEW t \in Threads, job[t].pc = "capture"
               PROVE  /\ src'[job[t].from].lock = t
                      /\ job[t].want.kind # "prewarm" => ~src'[job[t].from].warm
    BY <1>1 DEF CaptureHoldsLock
  <2>1. job[t].from \in Sources
    BY DEF FrameParts, JobType
  <2>2. QED
    BY <1>4, <1>9, <1>11, <2>1 DEF FrameParts, CaptureHoldsLock
<1>14. \A r \in Sources : SourceOk(r, src[r])'
  BY <1>1, <1>10, <1>11 DEF FrameParts, SourceOk
<1>15. \A t \in Threads : JobOk(job[t])'
  BY <1>1 DEF FrameParts, JobOk
<1>16. QED
  BY <1>1, <1>11, <1>12, <1>13, <1>14, <1>15 DEF FrameParts

\* The process starts again: no frame, no request, the rings are history.
LEMMA RestartStep ==
  ASSUME FrameParts, Restart
  PROVE  FrameParts'
<1>1. src' = [s \in Sources |-> NewSource] /\ job' = [t \in Threads |-> Idle]
      /\ rings' = rings
  BY DEF Restart, NewCatalog
<1>2. src' \in [Sources -> SourceType] /\ job' \in [Threads -> JobType]
  BY <1>1, FrameTypes
<1>3. Pending' = {}
  BY <1>1 DEF Pending, Prewarms, Idle
<1>4. RingCount'
  <2>1. rings \in 0..MaxRings
    BY DEF FrameParts, RingCount
  <2>2. QED
    BY <1>1, <1>3, <2>1, FS_EmptySet, ImageAssumption DEF RingCount, NewSource, NoFrame
<1>5. \A s \in Sources : SourceOk(s, src[s])'
  BY <1>1 DEF SourceOk, NewSource, NoFrame
<1>6. CaptureHoldsLock' /\ \A t \in Threads : JobOk(job[t])'
  BY <1>1 DEF CaptureHoldsLock, JobOk, Idle
<1>7. QED
  BY <1>2, <1>4, <1>5, <1>6 DEF FrameParts

\* A channel's Sources are numbered within the bound.
LEMMA SourceNumbers == CatalogParts => gen \in [Channels -> 0..MaxMoves + 1]
<1> SUFFICES ASSUME CatalogParts PROVE gen \in [Channels -> 0..MaxMoves + 1]
  OBVIOUS
<1>1. \A n \in Channels : gen[n] \in Nat /\ gen[n] <= moves + 1
  BY DEF CatalogParts, SourceCount
<1>2. moves \in 0..MaxMoves /\ MaxMoves \in Nat
  BY ImageAssumption DEF CatalogParts, CatalogTypes
<1>3. \A n \in Channels : gen[n] \in 0..MaxMoves + 1
  BY <1>1, <1>2
<1>4. QED
  BY <1>3 DEF CatalogParts, SourceCount

\* Every step keeps the frames and the requests in order.
LEMMA FramePartsStep == FrameParts /\ CatalogParts /\ [Next]_vars => FrameParts'
<1> SUFFICES ASSUME FrameParts, CatalogParts, [Next]_vars PROVE FrameParts'
  OBVIOUS
<1>1. ASSUME UNCHANGED <<nvr, src, job, rings>> PROVE FrameParts'
  <2>1. Pending' = Pending
    BY <1>1 DEF Pending
  <2>2. RingCount'
    BY <1>1, <2>1 DEF FrameParts, RingCount
  <2>3. CaptureHoldsLock'
    BY <1>1 DEF FrameParts, CaptureHoldsLock
  <2>4. /\ \A s \in Sources : SourceOk(s, src[s])'
        /\ \A t \in Threads : JobOk(job[t])'
    BY <1>1 DEF FrameParts, SourceOk, JobOk
  <2>5. QED
    BY <1>1, <2>2, <2>3, <2>4 DEF FrameParts
<1>2. CASE RunDiscovery \/ UNCHANGED vars
  BY <1>1, <1>2 DEF RunDiscovery, Answered, Discover, SaveState, vars, nvrVars
<1>3. CASE Restart
  BY <1>3, RestartStep
<1>4. CASE NvrChanges
  BY <1>4, NvrChangesStep
<1>5. CASE \E s \in Sources : Expire(s)
  BY <1>5, ExpireStep
<1>6. CASE \E t \in Handlers : Request(t) \/ Lookup(t) \/ Done(t)
  BY <1>6, RequestStep, LookupStep, DoneStep, SourceNumbers
<1>7. CASE \E t \in Prewarmers : Ring(t)
  BY <1>7, RingStep
<1>8. CASE \E t \in Threads, s \in Sources : Fetch(t, s)
  BY <1>8, ServeCachedStep, ExtendCachedStep, StartCaptureStep, CapturedStep,
     CaptureFailsStep DEF Fetch
<1>9. QED
  BY <1>2, <1>3, <1>4, <1>5, <1>6, <1>7, <1>8 DEF Next

-----------------------------------------------------------------------------
ImageInv == CatalogInv /\ CatalogParts /\ FrameParts

\* ImageInv is an invariant of the specification.
LEMMA ImageInvariant == Spec => []ImageInv
<1>1. Init => ImageInv
  BY CatalogInit, CatalogPartsInit, FramePartsInit DEF ImageInv
<1>2. ImageInv /\ [Next]_vars => ImageInv'
  BY CatalogStep, CatalogPartsStep, FramePartsStep DEF ImageInv
<1>3. QED
  BY <1>1, <1>2, PTL DEF Spec

\* The types, with the bounds on the Sources of a channel and on the counters of
\* a frame, which are not assumed by any guard.
THEOREM ImageTypeOK == Spec => []TypeOK
<1>1. ImageInv => TypeOK
  BY SourceNumbers DEF ImageInv, CatalogParts, CatalogTypes, FrameParts, RingCount,
                       SourceType, JobType, TypeOK
<1>2. QED
  BY <1>1, ImageInvariant, PTL

\* An informed request for a camera never gets a fresh picture of another one,
\* however moves, discoveries, restarts and captures interleave with it.
THEOREM CameraPictureIsRight == Spec => []RightCamera
<1>1. ImageInv => RightCamera
  BY DEF ImageInv, FrameParts, JobOk, RightCamera
<1>2. QED
  BY <1>1, ImageInvariant, PTL

\* Polling phones never extend the life of a frame; only ring events do.
THEOREM OnlyRingsExtend == Spec => []OnlyRingsExtendFrames
<1>1. ImageInv => OnlyRingsExtendFrames
  BY DEF ImageInv, FrameParts, JobOk, OnlyRingsExtendFrames
<1>2. QED
  BY <1>1, ImageInvariant, PTL
==============================================================================
