SPECIFICATION Spec
CONSTANTS
    s = s
    k = k
    o = o
    ip1 = ip1
    ip2 = ip2
    NoIP = NoIP
    Conns = {s, k, o}
    Kind <- MCKind
    Identities <- MCIdentities
    Lines = {line}
    Interval = 1
    IPInterval = 2
    Duration = 4
    MaxTime = 5
INVARIANTS
    ZeroMeansVerified
