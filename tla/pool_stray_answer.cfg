SPECIFICATION Spec
CONSTANTS
    late = k1
    NCtx = 1
    Conns = {k1, k2}
    Askers = {k1, k2}
    SockCap = 1
    MaxReq = 1
    MaxEvt = 0
CONSTRAINT BeforeOverlap
INVARIANTS
    OnlyOwnAnswers
CHECK_DEADLOCK FALSE
