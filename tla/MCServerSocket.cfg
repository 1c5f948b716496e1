SPECIFICATION FairSpec
CONSTANTS
    i1 = i1
    u1 = u1
    Servers = {s1, s2}
    Inet = {i1}
    Unix = {u1}
    NoAddr = NoAddr
    MaxFd = 5
    MaxConns = 2
    MaxExecs = 1
    Applications <- FiveApplications
CHECK_DEADLOCK FALSE
INVARIANTS OwnersValid NoOrphan FileStays LoopNeverHangs
PROPERTIES FileGoesWithListener Served
