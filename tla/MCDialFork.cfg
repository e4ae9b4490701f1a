SPECIFICATION Spec
CONSTANTS
    door = door
    mobile1 = mobile1
    mobile2 = mobile2
    Legs <- MCLegs
    NoLeg = NoLeg
INVARIANTS
    TypeOK
    NoOrphanLeg
    WinnerIsKept
PROPERTIES
    RaceSpec
    NothingLeaks
CHECK_DEADLOCK FALSE
