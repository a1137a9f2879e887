SPECIFICATION Spec
CONSTANTS
    p1 = p1
    p2 = p2
    Procs = {p1, p2}
    Credentials = {secret}
    Nodes <- MCNodes
    Given <- MCGiven
    Bootstraps <- MCBootstraps
    Editable = {"groups"}
    Leftover = {"proxies", "groups"}
    MaxClock = 1
    MaxCommands = 2
CHECK_DEADLOCK FALSE
SYMMETRY MCSymmetry
INVARIANTS
    TypeOK
    NothingLost
    AppliedIsOnDisk
    SwitchOnlyReorders
    TextIsList
    ClashReadsWhatApplyWasGiven
PROPERTIES
    ArchiveKept
