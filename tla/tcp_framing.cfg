SPECIFICATION FairSpec
CONSTANTS
    Packets <- MCPackets
    Strays = {0, 2, 4}
    BufSize = 20
    MaxStatus = 2
    WordSize = 64
    MaxPackets = 2
    MaxNotes = 1
INVARIANTS
    TypeOK
    WholePacketsServed
    NothingMadeUp
    OwnStatusFirst
PROPERTY
    DealEnds
CHECK_DEADLOCK FALSE
