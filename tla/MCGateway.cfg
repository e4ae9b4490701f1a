SPECIFICATION Spec
CONSTANTS
    o1 = o1
    i1 = i1
    Calls <- MCCalls
    Incoming <- MCIncoming
    NoCall = NoCall
INVARIANTS
    TypeOK
    SlotHasOneOwner
    FreeSlotShowsNoCall
    DialogEndsBeforeSlot
    MediaOutlivesRunnerOnlyByTimeout
PROPERTIES
    OnlyOwnerIsCanceled
    EveryCallEnds
CHECK_DEADLOCK FALSE
