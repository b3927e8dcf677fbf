SPECIFICATION FairSpec
CONSTANTS
    Devs = {d1, d2}
    Targets = {d1}
    Addrs = {a1, a2}
    SelectSecs = 2
    IdleLimit = 0
    InboxCap = 1
    MaxMove = 2
INVARIANTS
    TypeOK
    OkMeansDone
    EventsAttributed
PROPERTIES
    Recovers
CHECK_DEADLOCK FALSE
