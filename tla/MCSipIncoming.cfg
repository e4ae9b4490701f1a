SPECIFICATION Spec
CONSTANTS
    first = first
    again = again
    other = other
    Keys <- MCKeys
    CallOf <- MCCallOf
    NoKey = NoKey
    MaxCalls = 1
    QueueCap = 1
INVARIANTS
    TypeOK
    CapacityRespected
    OneFinalResponse
    EstablishedCallIsReachable
    LiveInviteIsKnown
PROPERTIES
    EveryInviteIsAnswered
    NoHalfOpenCall
CHECK_DEADLOCK FALSE
