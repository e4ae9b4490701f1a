CONSTANTS
    front = front
    back = back
    Entities = {front, back}
    MaxPresses <- Twice
    QueueCap = 1
SPECIFICATION Spec
INVARIANTS
    TypeOK
    RingsAtMostOnce
PROPERTIES
    SubscribedPressRings
CHECK_DEADLOCK FALSE
