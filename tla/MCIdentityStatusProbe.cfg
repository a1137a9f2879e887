SPECIFICATION Spec
CONSTANTS
    p1 = p1
    p2 = p2
    Procs = {p1}
    Targets <- MCTargets
    Probe = "probe"
    Loggable <- MCProbeOnly
    Observable = {"match", "mismatch"}
    MaxAge = 1
    SwitchAfterFailures = 3
    MaxClock = 3
    MaxLines = 1
    MaxFiles = 1
    MaxCommands = 2
CHECK_DEADLOCK FALSE
PROPERTY
    GreenNeedsAIHit
