SPECIFICATION Spec
CONSTANTS
    VSMacs = {v1}
    CZMacs = {c1}
    IdleLimit = 1
    MaxId = 4
INVARIANTS
    DeviceHasOneId
CHECK_DEADLOCK FALSE
