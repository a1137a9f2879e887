SPECIFICATION Spec
CONSTANTS
    p1 = p1
    p2 = p2
    Procs = {p1}
    Credentials = {secret}
    Nodes <- MCNodes
    Given <- MCGiven
    Bootstraps <- MCBootstraps
    Editable = {}
    Leftover = {"proxies", "groups"}
    MaxClock = 1
    MaxCommands = 2
CHECK_DEADLOCK FALSE
INVARIANTS
    BackedUp
