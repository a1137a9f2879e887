SPECIFICATION Spec
CONSTANTS
    p1 = p1
    p2 = p2
    Procs = {p1, p2}
    Targets <- MCTargets
    Probe = "probe"
    Loggable <- MCLoggable
    Observable = {"match", "mismatch"}
    MaxAge = 1
    SwitchAfterFailures = 3
    MaxClock = 3
    MaxLines = 2
    MaxFiles = 2
    MaxCommands = 2
CHECK_DEADLOCK FALSE
SYMMETRY MCSymmetry
INVARIANTS
    TypeOK
    LevelDetermined
    ActivityIsMerged
PROPERTIES
    LeaksJudged
    GreenIsBacked
