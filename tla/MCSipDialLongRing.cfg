SPECIFICATION Spec
CONSTANTS
    RingTimeouts <- MCRingTimeouts
    ChanCap = 3
INVARIANT RingingAlwaysCanceled
CHECK_DEADLOCK FALSE
