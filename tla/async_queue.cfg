SPECIFICATION FairSpec
CONSTANTS
    Producers = {p1, p2}
    Contexts = {c1, c2}
    MaxActs = 3
INVARIANTS
    TypeOK
    OnlyEarlyActsLost
PROPERTIES
    ImplementsActQueue
    LineMoves
CHECK_DEADLOCK FALSE
