SPECIFICATION Spec
CONSTANTS
    o1 = o1
    i1 = i1
    Calls <- MCCalls
    Incoming <- MCIncoming
    NoCall = NoCall
INVARIANT NoMediaOverlap
CHECK_DEADLOCK FALSE
