SPECIFICATION Spec
CONSTANTS
    Devs = {d1, d2}
    Modes = {"home", "away"}
    Settings <- MCSettings
    DaySecs = 4
    MidnightWindow = 2
    FireWindow = 1
    FirstWday = 6
    MaxLag = 3
    MaxTime = 6
    MaxSet = 2
SYMMETRY DevSymmetry
INVARIANTS
    TypeOK
    OncePerDay
    TimerKept
PROPERTIES
    ArmedTimersFire
CHECK_DEADLOCK FALSE
