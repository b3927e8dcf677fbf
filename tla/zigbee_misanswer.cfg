SPECIFICATION Spec
CONSTANTS
    Devs = {d1}
    Cmds = {"SET_STATUS"}
    TransMod = 65536
    SockCap = 2
    MaxReq = 2
    MaxProbe = 0
CONSTRAINT OnlyRaced
INVARIANTS
    ResultOfThisCall
CHECK_DEADLOCK FALSE
