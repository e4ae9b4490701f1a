CONSTANTS
    c1 = c1
    c2 = c2
    NoClient = NoClient
    Clients = {c1, c2}
    MaxRevision = 3
    MaxKeys = 3
    DtmfCap = 1
SPECIFICATION Spec
INVARIANTS
    TypeOK
    NewestIsNeverLost
PROPERTIES
    PublisherNeverBlocks
CHECK_DEADLOCK FALSE
