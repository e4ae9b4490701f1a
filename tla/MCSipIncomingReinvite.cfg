SPECIFICATION Spec
CONSTANTS
    first = first
    again = again
    other = other
    Keys <- MCKeys
    CallOf <- MCCallOf
    NoKey = NoKey
    MaxCalls = 2
    QueueCap = 1
INVARIANT EstablishedCallIsReachable
CHECK_DEADLOCK FALSE
