SPECIFICATION PublisherSpec
CONSTANTS
    s1 = s1
    NoSource = NoSource
    s2 = s2
    t1 = t1
    t2 = t2
    t3 = t3
    Source = {s1, s2}
    TEID = {t1, t2, t3}
    NoTEID = NoTEID
    PacketsPerSecond = 2
    Cooldown = 2
    Capacity = 2
    SourcePPS = 3
    DistinctTunnels = 2
    Window = 2
    SourceCooldown = 2
    MaxTrackedSources = 1
    MaxTunnelsPerSource = 2
    MaxTime = 4
    Packet <- MCPacket
    BatchSize = 2
    MaxArrivals = 5
    Loads <- MCLoads
INVARIANTS ReportsAreRemembered SustainedFloodIsReported
PROPERTY SourceReportIsReal
SYMMETRY MCSymmetry
CHECK_DEADLOCK FALSE
