SPECIFICATION PodFairSpec
CONSTANTS
    a = a  b = b  x = x  y = y
    NoPod = NoPod  NoIP = NoIP
    Pod = {a, b}
    IP = {x, y}
    ReuseFinished = FALSE
    MaxPodOps = 6
INVARIANT EntriesAreReachable
PROPERTY AttributionSettles
CHECK_DEADLOCK FALSE
