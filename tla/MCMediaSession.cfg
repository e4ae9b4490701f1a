CONSTANTS
    QueueCap = 1
    PcmCap = 1
    MaxAuthRetries = 1
    MaxFailures = 2
SPECIFICATION FairSpec
INVARIANTS
    TypeOK
    LoginUsesItsOwnNonce
    ReturnLeavesNothing
PROPERTY CanceledSessionEnds
CHECK_DEADLOCK FALSE
