SPECIFICATION PromptSpec
CONSTANTS
    p1 = p1  p2 = p2  ip1 = ip1  teid1 = teid1  w1 = w1
    NoIP = NoIP  NoTEID = NoTEID
    Policy = {p1}
    Source = {ip1}
    TEID = {teid1}
    Workload = {w1}
    BaseThreshold = 75
    SpecChoices <- MCTunnel
    Scores <- MCHigh
    Burst = 1
    Interval = 1
    Dwell = 1
    BlocklistCap = 0
    TunnelCap = 1
    Budgets <- DisturbedBudget
    TrackScoring = FALSE
    UseKillSwitch = FALSE
    RunSync = TRUE
    Pinned = TRUE
INVARIANT EveryDropWasRecorded
PROPERTIES QuietBeforeRelease DeletingStatusIsFrozen TimeLiftsEverything ClaimIsEnforced
