SPECIFICATION Spec
CONSTANTS
    Devs = {d1, d2}
    Modes = {"home"}
    Settings <- MCDaily
    DaySecs = 4
    MidnightWindow = 2
    FireWindow = 1
    FirstWday = 6
    MaxLag = 1
    MaxTime = 9
    MaxSet = 2
ACTION_CONSTRAINT PlainDays
PROPERTIES
    DueTimersFire
CHECK_DEADLOCK FALSE
