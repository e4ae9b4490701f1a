SPECIFICATION Spec
CONSTANTS
    RingTimeouts <- MCRingTimeouts
    ChanCap = 3
INVARIANTS
    TypeOK
    AnswerIsAcked
    UnwantedCallIsHungUp
    RingingIsCanceled
    CancelFollowsResponse
    HandOffIsExclusive
PROPERTIES
    CanceledDialReturns
CHECK_DEADLOCK FALSE
