SPECIFICATION FairSpec
CONSTANTS
    NCtx = 2
    late = k3
    Conns = {k1, k2, k3}
    Askers = {k1}
    SockCap = 1
    MaxReq = 2
    MaxEvt = 1
CONSTRAINTS
    BeforeOverlap
    LateRefused
    OneLeaves
INVARIANTS
    TypeOK
    AnswersGoHome
    AnswersInOrder
    EventsReachAll
    NoMessageUnannounced
PROPERTIES
    ContextComesFree
    NotifyReturns
CHECK_DEADLOCK FALSE
