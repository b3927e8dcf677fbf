SPECIFICATION FairSpec
CONSTANTS
    Devs = {d1}
    Cmds = {"SET_STATUS"}
    TransMod = 3
    SockCap = 2
    MaxReq = 3
    MaxProbe = 1
INVARIANTS
    TypeOK
    AnswersOwnRequest
    TransmittedOnce
    IdZeroUnanswered
PROPERTIES
    CallReturns
CONSTRAINT FewHazards
CHECK_DEADLOCK FALSE
