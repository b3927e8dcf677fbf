SPECIFICATION FairSpec
CONSTANTS
    d1 = d1
    d2 = d2
    Devs = {d1, d2}
    Modes = {"home", "outside"}
    HOME = "home"
    NSlot = 2
    Rules <- SomeRules
    Handlers = {h1, h2}
    MaxSet = 2
    MaxCause = 1
    MaxOff = 1
    MaxActs = 2
    MsgCap = 2
INVARIANTS
    TypeOK
    ActsHaveCause
    LinkageKept
    EveryMatchActs
PROPERTIES
    CascadesEnd
CHECK_DEADLOCK FALSE
