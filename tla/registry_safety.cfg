SPECIFICATION Spec
CONSTANTS
    VSMacs = {v1, v2}
    CZMacs = {c1}
    IdleLimit = 1
    MaxId = 4
CONSTRAINT BeforeRace
INVARIANTS
    TypeOK
    OneHome
    OneIdPerMac
    DriverAgrees
    PadsKnow
    DroppedOnTime
CHECK_DEADLOCK FALSE
