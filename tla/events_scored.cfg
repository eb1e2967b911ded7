SPECIFICATION PathSpec
CONSTANTS
    s1 = s1
    t1 = t1
    r1 = r1
    r2 = r2
    Source = {s1}
    TEID = {t1}
    NoTEID = NoTEID
    PacketsPerSecond = 0
    Cooldown = 1
    Capacity = 1
    SourcePPS = 0
    DistinctTunnels = 0
    Window = 1
    SourceCooldown = 1
    MaxTrackedSources = 1
    MaxTunnelsPerSource = 1
    MaxTime = 0
    Packet <- MCPacket
    Flow <- MCFlow
    MaxBackoff = 3
    BatchSize = 2
    MaxArrivals = 3
    Loads <- MCLoads
    Replica = {r1, r2}
    MaxDeliver = 3
INVARIANTS EveryEventIsInOnePlace AckedIsScored OneScorePerDelivery
PROPERTIES EveryEventIsScored AnsweredAlertIsScored ObserverStreamsAgain
CHECK_DEADLOCK FALSE
