SPECIFICATION Spec
CONSTANTS
    U64Max = 20
    OverflowChecks = TRUE
    Wallets = {w1, w2}
    DeploymentIds = {d1, d2}
    HEARTBEAT_GAP = 1
    UPTIME_FULL = 1
    Metrics <- MCMetrics
    RegionLengths = {32, 33}
    NewStatuses = {"Live", "Stopped"}
    Ticks = {1}
    MaxTime = 3
    MaxHeartbeats = 2
SYMMETRY Symmetry
INVARIANTS TypeOK UptimeWithinLifetime ScoreFollowsHeartbeats CountersMatchAccounts
PROPERTIES DeactivationIsFinal
