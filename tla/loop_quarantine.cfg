SPECIFICATION Spec
CONSTANTS
    p1 = p1  p2 = p2  ip1 = ip1  teid1 = teid1  w1 = w1
    NoIP = NoIP  NoTEID = NoTEID
    Policy = {p1}
    Source = {ip1}
    TEID = {teid1}
    Workload = {w1}
    BaseThreshold = 75
    SpecChoices <- MCIsolate
    Scores <- MCHigh
    Burst = 0
    Interval = 1
    Dwell = 1
    BlocklistCap = 1
    TunnelCap = 1
    Budgets <- QuarantineBudget
    TrackScoring = FALSE
    UseKillSwitch = FALSE
    RunSync = FALSE
    Pinned = TRUE
INVARIANT RemovedPolicyIsReleased
CHECK_DEADLOCK FALSE
