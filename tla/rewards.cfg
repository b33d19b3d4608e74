SPECIFICATION LiveSpec
CONSTANTS
    U64Max = 10
    OverflowChecks = FALSE
    Mints = {m1}
    Wallets = {w1, w2}
    Pdas = {"reward-state"}
    InitialAuthorities = {"reward-state", w1}
    TokenAmounts = {2}
    HEARTBEATS_PER_TOKEN = 3
    DECIMALS = 2
    HeartbeatCounts = {2, 3}
    Pools = {1, 2}
    TopNs = {2}
    BonusBps = {0}
    MaxHeartbeats = 7
    MaxEpoch = 2
INVARIANTS TypeOK HeartbeatsConserved LedgerBalanced
PROPERTIES PaymentsAreMinted BatchesArePaid
