SPECIFICATION GatesSpec
CONSTANTS
    Policy = {p1}
    TTL = 2
    MaxLatency = 1
    MaxFlips = 2
    MaxOutages = 1
    MaxClock = 8
    Burst = 2
    Interval = 2
    Dwell = 3
    MaxFailures = 1
INVARIANTS CachedAnswerIsCurrent RefreshIsRecent
PROPERTIES ArmedSwitchStops QuietBeforeDeEscalation
CHECK_DEADLOCK FALSE
