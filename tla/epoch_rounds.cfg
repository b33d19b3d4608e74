SPECIFICATION RoundsSpec
CONSTANTS
    U64Max = 2000000000
    OverflowChecks = TRUE
    Mints = {m1}
    Wallets = {w1, w2, w3}
    Pdas = {"reward-state"}
    InitialAuthorities = {"reward-state"}
    TokenAmounts = {}
    HEARTBEATS_PER_TOKEN = 30
    DECIMALS = 1000000
    HeartbeatCounts = {30}
    Pools = {1, 3}
    TopNs = {3}
    BonusBps = {500}
    MaxHeartbeats = 30
    MaxEpoch = 3
    MaxRounds = 2
SYMMETRY Symmetry
INVARIANTS RoundWithinPool
