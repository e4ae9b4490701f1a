----------------------------- MODULE LiveImage -----------------------------
(***************************************************************************)
(* The FRITZ!Fon live images (internal/liveimage, status/live_image.go and *)
(* cmd/gateway/live_image.go): a catalog of NVR channels, refreshed by a   *)
(* discovery goroutine and kept on disk, one frame cache per channel, and  *)
(* the HTTP requests and ring-event prewarms that share them.              *)
(*                                                                         *)
(* A camera is its UID-derived ID; the number, name and online flag of an  *)
(* entry are display data.  A Source object is named by its channel and    *)
(* how many sources that channel had before.  A deadline may pass at any   *)
(* moment; a frame that can no longer be sent is forgotten.                *)
(***************************************************************************)
EXTENDS Naturals, FiniteSets

CONSTANTS Channels,      \* public channel numbers
          Primary,       \* the configured door channel
          Cameras,       \* camera IDs
          NoUID,         \* the CameraID "" of a camera without UID
          Layouts,       \* the ways cameras may be connected: channel -> camera
          Handlers,      \* goroutines of HTTP requests
          Prewarmers,    \* goroutines of ring events
          NoThread,
          MaxMoves,      \* bound: changes of the NVR's channels
          MaxRings       \* bound: prewarms

Threads == Handlers \cup Prewarmers
Tables == UNION {[S -> Cameras \cup {NoUID}] : S \in SUBSET Channels}

ASSUME ImageAssumption ==
    /\ Channels \subseteq Nat /\ IsFiniteSet(Channels) /\ Primary \in Channels
    /\ NoUID \notin Cameras /\ Layouts \subseteq Tables /\ NoThread \notin Threads
    /\ MaxMoves \in Nat /\ MaxRings \in Nat

VARIABLES
    nvr,       \* what is connected: channel -> camera, a partial function
    moves,     \* how often that has changed
    table,     \* Catalog.channels: channel -> camera, a partial function
    gen,       \* per channel: the index of its present Source
    disk,      \* the state file: a table, or NoFile
    disc,      \* the discovery goroutine: "idle", "answered", "saving"
    answer,    \* the channels it has been told of
    current,   \* the answer, the table: no camera has moved since the NVR gave it
    unsaved,   \* the present table has not reached the disk
    src,       \* per Source: its cached frame, lock and deadlines
    job,       \* per thread: its position, request, Source and result
    rings      \* how often a ring event has started a prewarm

nvrVars == <<nvr, moves>>
catalogVars == <<table, gen, disk, disc, answer, current, unsaved>>
vars == <<nvrVars, catalogVars, src, job, rings>>

Empty == [n \in {} |-> NoUID]
NoFile == Empty     \* a saved table has at least the primary channel
Sources == Channels \X (0..MaxMoves + 1)
SourceOf(n) == <<n, gen[n]>>
PrimarySource == <<Primary, 0>>

Wants == [kind : {"door", "prewarm"}, key : {Primary}]
         \cup [kind : {"channel"}, key : Channels] \cup [kind : {"camera"}, key : Cameras]
Pictures == Cameras \cup {NoUID}
\* Which camera a frame shows, whether it was taken before the last move, how
\* many ring events prewarmed it and how often its cacheLifetime was restarted.
Frames == [cam : Pictures, old : BOOLEAN, rung : 0..MaxRings, renewed : 0..MaxRings + 1]
NoFrame == [cam |-> NoUID, old |-> FALSE, rung |-> 0, renewed |-> 0]
\* A Source as newChannelSource makes it.  recent: cachedAt is at most
\* cacheLifetime ago; warm: prewarmedUntil has not passed.
NewSource == [frame |-> NoFrame, recent |-> FALSE, warm |-> FALSE, lock |-> NoThread]

Nothing == [cam |-> NoUID]
\* informed: the lookup found an entry that agreed with what the NVR reports.
Idle == [pc |-> "idle", want |-> [kind |-> "door", key |-> Primary],
         from |-> PrimarySource, informed |-> FALSE, got |-> Nothing]

\* The type invariant.
TypeOK ==
    /\ nvr \in Layouts /\ moves \in 0..MaxMoves
    /\ table \in Tables /\ disk \in Tables /\ answer \in Tables
    /\ current \in [answer : BOOLEAN, table : BOOLEAN]
    /\ gen \in [Channels -> 0..MaxMoves + 1]
    /\ disc \in {"idle", "answered", "saving"} /\ unsaved \in BOOLEAN
    /\ src \in [Sources -> [frame : Frames, recent : BOOLEAN, warm : BOOLEAN,
                            lock : Threads \cup {NoThread}]]
    /\ job \in [Threads -> [pc : {"idle", "lookup", "lock", "capture", "done"},
                            want : Wants, from : Sources, informed : BOOLEAN,
                            got : Frames \cup {Nothing}]]
    /\ rings \in 0..MaxRings
-----------------------------------------------------------------------------
\* Mutant of LoadState: the primary entry is set up afresh.
LoadStateForgetsPrimary(d) ==
    [n \in DOMAIN d \cup {Primary} |-> IF n = Primary THEN NoUID ELSE d[n]]

\* loadState: every saved entry, and the primary channel whatever was saved.
LoadState(d) == [n \in DOMAIN d \cup {Primary} |-> IF n \in DOMAIN d THEN d[n] ELSE NoUID]

\* newCatalog, at the start of the process.
NewCatalog(d) ==
    /\ table' = LoadState(d)
    /\ gen' = [n \in Channels |-> 0]
    /\ disc' = "idle" /\ answer' = Empty /\ current' = [answer |-> FALSE, table |-> FALSE] /\ unsaved' = FALSE
    /\ src' = [s \in Sources |-> NewSource]

Init ==
    /\ nvr \in Layouts /\ moves = 0
    /\ table = LoadState(NoFile) /\ gen = [n \in Channels |-> 0]
    /\ disk = NoFile /\ disc = "idle" /\ answer = Empty /\ current = [answer |-> FALSE, table |-> FALSE]
    /\ unsaved = FALSE
    /\ src = [s \in Sources |-> NewSource]
    /\ job = [t \in Threads |-> Idle]
    /\ rings = 0

\* The process ends, between any two steps, and the supervisor starts it again.
Restart ==
    /\ NewCatalog(disk)
    /\ job' = [t \in Threads |-> Idle]
    /\ UNCHANGED <<nvrVars, disk, rings>>
-----------------------------------------------------------------------------
(* The NVR and the clock. *)

\* FetchJPEG may send the cached frame of Source s.
Cached(s) == src[s].recent \/ src[s].warm
\* cachedAt is now.
Renewed(s) == [s EXCEPT !.recent = TRUE, !.frame.renewed = IF @ > MaxRings THEN @ ELSE @ + 1]

NvrChanges ==
    /\ moves < MaxMoves
    /\ nvr' \in Layouts \ {nvr}
    /\ moves' = moves + 1
    /\ job' = [t \in Threads |-> [job[t] EXCEPT !.informed = FALSE]]
    /\ src' = [s \in Sources |-> IF Cached(s) THEN [src[s] EXCEPT !.frame.old = TRUE] ELSE src[s]]
    /\ current' = [answer |-> FALSE, table |-> FALSE]
    /\ UNCHANGED <<table, gen, disk, disc, answer, unsaved, rings>>

\* A deadline of Source s passes.
Expire(s) ==
    /\ \E recent \in {FALSE, src[s].recent}, warm \in {FALSE, src[s].warm} :
        /\ <<recent, warm>> # <<src[s].recent, src[s].warm>>
        /\ src' = [src EXCEPT ![s] = [src[s] EXCEPT !.recent = recent, !.warm = warm,
                                      !.frame = IF recent \/ warm THEN @ ELSE NoFrame]]
    /\ UNCHANGED <<nvrVars, catalogVars, job, rings>>
-----------------------------------------------------------------------------
(* Discovery: one goroutine, so one discovery at a time. *)

\* fetchChannels got a valid answer that names a camera.  A failed one, or one
\* without cameras, changes nothing but the diagnostics.
Answered ==
    /\ disc = "idle" /\ nvr # Empty
    /\ disc' = "answered" /\ answer' = nvr
    /\ current' = [current EXCEPT !.answer = TRUE]
    /\ UNCHANGED <<nvrVars, table, gen, disk, unsaved, src, job,
                   rings>>

\* The entries of an answer that Discover keeps: of several channels with the
\* same camera ID only the first.
Kept(a) == {n \in DOMAIN a : a[n] = NoUID \/ \A m \in DOMAIN a : m < n => a[m] # a[n]}

\* Mutant of Replacement: an entry that exists keeps its camera.
ReplacementKeepsEntry(a) ==
    [n \in Kept(a) \cup {Primary} |-> IF n \in DOMAIN table /\ table[n] # NoUID
                                      THEN table[n] ELSE IF n \in Kept(a) THEN a[n] ELSE NoUID]

\* The table that replaces the old one: a primary channel that is not reported
\* stays, with its old camera ID.
Replacement(a) ==
    [n \in Kept(a) \cup {Primary} |-> IF n \in Kept(a) THEN a[n] ELSE table[n]]

\* Mutant of NewSources: every discovery makes new Sources.
NewSourcesAlways(a) ==
    [n \in Channels |-> IF n \in Kept(a) \ {Primary} THEN gen[n] + 1 ELSE gen[n]]

\* A channel that was in the table keeps its Source, the primary one always.
NewSources(a) ==
    [n \in Channels |-> IF n \in Kept(a) \ (DOMAIN table \cup {Primary})
                        THEN gen[n] + 1 ELSE gen[n]]

Discover ==
    /\ disc = "answered"
    /\ table' = Replacement(answer) /\ gen' = NewSources(answer)
    /\ current' = [current EXCEPT !.table = current.answer] /\ unsaved' = TRUE
    /\ disc' = "saving"
    /\ UNCHANGED <<nvrVars, disk, answer, src, job, rings>>

\* saveState: the rename replaces the file, or a step before it failed and the
\* old file stays.
SaveState ==
    /\ disc = "saving" /\ disc' = "idle" /\ answer' = Empty
    /\ current' = [current EXCEPT !.answer = FALSE]
    /\ \/ disk' = table /\ unsaved' = FALSE
       \/ UNCHANGED <<disk, unsaved>>
    /\ UNCHANGED <<nvrVars, table, gen, src, job, rings>>

\* runLiveImageDiscovery: a discovery at the start, then one at every tick.
RunDiscovery == Answered \/ Discover \/ SaveState
-----------------------------------------------------------------------------
(* Requests and prewarms. *)

Candidates(c) == {n \in DOMAIN table : table[n] = c}

\* liveImageHandler and liveImageChannelHandler: a path that is not in the
\* catalog gets 404.  The door path needs no catalog.
Request(t) ==
    /\ job[t].pc = "idle"
    /\ \E w \in {w \in Wants : w.kind # "prewarm"} :
        /\ w.kind = "channel" => w.key \in DOMAIN table
        /\ w.kind = "camera" => Candidates(w.key) # {}
        /\ job' = [job EXCEPT ![t].want = w,
                              ![t].pc = IF w.kind = "door" THEN "lock" ELSE "lookup"]
    /\ UNCHANGED <<nvrVars, catalogVars, src, rings>>

\* startLiveImagePrewarm, for an accepted ring.
Ring(t) ==
    /\ job[t].pc = "idle" /\ rings < MaxRings
    /\ rings' = rings + 1
    /\ job' = [job EXCEPT ![t].want = [kind |-> "prewarm", key |-> Primary], ![t].pc = "lock"]
    /\ UNCHANGED <<nvrVars, catalogVars, src>>

\* FetchChannelJPEG and FetchCameraJPEG: the table is read again, and the map
\* is searched in no particular order.
Found(w) == IF w.kind = "camera" THEN Candidates(w.key) ELSE {w.key} \cap DOMAIN table

Lookup(t) ==
    /\ job[t].pc = "lookup"
    /\ \/ /\ Found(job[t].want) = {}
          /\ job' = [job EXCEPT ![t] = Idle]
       \/ \E n \in Found(job[t].want) :
            job' = [job EXCEPT ![t].pc = "lock", ![t].from = SourceOf(n),
                               ![t].informed = current.table /\ n \in Kept(nvr)]
    /\ UNCHANGED <<nvrVars, catalogVars, src, rings>>

\* Thread t can lock its Source s.
Locks(t, s) == job[t].pc = "lock" /\ s = job[t].from /\ src[s].lock = NoThread

\* Mutant of ServeCached: a hit always restarts the cacheLifetime.
ServeCachedRenews(t, s) ==
    /\ Locks(t, s) /\ job[t].want.kind # "prewarm"
    /\ Cached(s)
    /\ src' = [src EXCEPT ![s] = Renewed([@ EXCEPT !.warm = FALSE])]
    /\ job' = [job EXCEPT ![t].pc = "done", ![t].got = src[s].frame]
    /\ UNCHANGED <<nvrVars, catalogVars, rings>>

\* FetchJPEG: a cached frame is sent; a prewarmed one is consumed.
ServeCached(t, s) ==
    /\ Locks(t, s) /\ job[t].want.kind # "prewarm"
    /\ Cached(s)
    /\ src' = IF src[s].warm THEN [src EXCEPT ![s] = Renewed([@ EXCEPT !.warm = FALSE])] ELSE src
    /\ job' = [job EXCEPT ![t].pc = "done", ![t].got = src[s].frame]
    /\ UNCHANGED <<nvrVars, catalogVars, rings>>

\* Prewarm: a recent frame is kept for longer.
ExtendCached(t, s) ==
    /\ Locks(t, s) /\ job[t].want.kind = "prewarm"
    /\ src[s].recent
    /\ src' = [src EXCEPT ![s].warm = TRUE, ![s].frame.rung = @ + 1]
    /\ job' = [job EXCEPT ![t] = Idle]
    /\ UNCHANGED <<nvrVars, catalogVars, rings>>

\* Otherwise fetchAndCacheLocked starts a capture, with the Source locked.
StartCapture(t, s) ==
    /\ Locks(t, s)
    /\ ~src[s].recent /\ (src[s].warm => job[t].want.kind = "prewarm")
    /\ src' = [src EXCEPT ![s].lock = t]
    /\ job' = [job EXCEPT ![t].pc = "capture"]
    /\ UNCHANGED <<nvrVars, catalogVars, rings>>

\* fetchCGI and fetchRTSP name the channel, so they get the picture of the
\* camera that is connected there, or none; normalizeJPEG may still refuse it.
FetchCGI(n) == {<<>>} \cup (IF n \in DOMAIN nvr THEN {<<nvr[n]>>} ELSE {})
FetchRTSP(n) == {<<>>} \cup (IF n \in DOMAIN nvr THEN {<<nvr[n]>>} ELSE {})
\* fetchFresh: HTTPS, HTTP and RTSP in turn, until one has a picture.
FetchFresh(n) ==
    {IF https # <<>> THEN https ELSE IF http # <<>> THEN http ELSE rtsp :
        https \in FetchCGI(n), http \in FetchCGI(n), rtsp \in FetchRTSP(n)}

\* A fetch spans time; the picture is the one of the fetch's end.  One taken just
\* before a camera moves and received after counts as one from before the move,
\* like the cached frames that RightCamera leaves aside.
Captured(t, s) ==
    /\ job[t].pc = "capture" /\ s = job[t].from
    /\ \E picture \in FetchFresh(s[1]) \ {<<>>} :
        LET prewarm == job[t].want.kind = "prewarm"
            f == [NoFrame EXCEPT !.cam = picture[1], !.rung = IF prewarm THEN 1 ELSE 0]
        IN /\ src' = [src EXCEPT ![s] = [frame |-> f, recent |-> TRUE, lock |-> NoThread,
                                         warm |-> prewarm \/ src[s].warm]]
           /\ job' = IF prewarm THEN [job EXCEPT ![t] = Idle]
                     ELSE [job EXCEPT ![t].pc = "done", ![t].got = f]
    /\ UNCHANGED <<nvrVars, catalogVars, rings>>

\* All three failed, or the request's context ended: the cache stays, and the
\* request gets an error.
CaptureFails(t, s) ==
    /\ job[t].pc = "capture" /\ s = job[t].from
    /\ <<>> \in FetchFresh(s[1])
    /\ src' = [src EXCEPT ![s].lock = NoThread]
    /\ job' = [job EXCEPT ![t] = Idle]
    /\ UNCHANGED <<nvrVars, catalogVars, rings>>

\* The answer is written and the handler returns.
Done(t) ==
    /\ job[t].pc = "done"
    /\ job' = [job EXCEPT ![t] = Idle]
    /\ UNCHANGED <<nvrVars, catalogVars, src, rings>>
-----------------------------------------------------------------------------
\* A step of FetchJPEG or Prewarm.
Fetch(t, s) ==
    \/ ServeCached(t, s) \/ ExtendCached(t, s) \/ StartCapture(t, s)
    \/ Captured(t, s) \/ CaptureFails(t, s)

Next ==
    \/ Restart \/ NvrChanges \/ \E s \in Sources : Expire(s)
    \/ RunDiscovery
    \/ \E t \in Handlers : Request(t) \/ Lookup(t) \/ Done(t)
    \/ \E t \in Prewarmers : Ring(t)
    \/ \E t \in Threads, s \in Sources : Fetch(t, s)

Spec == Init /\ [][Next]_vars
-----------------------------------------------------------------------------
(* Properties. *)

\* A restart at any moment would restore the present catalog, or there is a
\* discovery whose table could not (yet) be saved: neither a failed discovery
\* nor an earlier restart has dropped or changed a published channel.
RestartRestoresCatalog == unsaved \/ LoadState(disk) = table

\* A request by camera ID that found an entry of the last discovery, with no
\* move since, is answered with a picture of that camera, unless the picture is
\* a cached one from before the last move; the channel's cache outlives a
\* discovery that gives the channel to another camera.  (The entry of a primary
\* channel that was not reported, or was dropped because another channel has
\* the same camera ID, keeps its old ID and is not of the last discovery.)
RightCamera ==
    \A t \in Threads :
        /\ job[t].pc = "done" /\ job[t].want.kind = "camera" /\ job[t].informed
        /\ job[t].got # Nothing
        => job[t].got.cam = job[t].want.key \/ job[t].got.old

\* A frame's cacheLifetime starts again at most once for every ring event that
\* prewarmed it, however many phones poll the picture and however their
\* requests, the prewarms and the deadlines interleave: no frame is sent later
\* than (1 + r) * cacheLifetime + r * prewarmLifetime after its capture, when
\* r ring events prewarmed it.
OnlyRingsExtendFrames ==
    \A t \in Threads : job[t].got # Nothing => job[t].got.renewed <= job[t].got.rung

\* What DOCS.md:270 and catalog.go:160 say of the stable camera paths: once a
\* discovery has seen where the cameras are, a request for a camera is sent to
\* a channel that has this camera.
CameraIsFollowed ==
    current.table => \A c \in Cameras : \A n \in Candidates(c) : n \in DOMAIN nvr /\ nvr[n] = c
=============================================================================
