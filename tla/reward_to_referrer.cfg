SPECIFICATION Spec
CONSTANTS
    U64Max = 700
    OverflowChecks = TRUE
    Mints = {m1}
    Wallets = {w1, w2, w3}
    Pdas = {"referral-state"}
    InitialAuthorities = {"referral-state"}
    TokenAmounts = {1}
    U32Max = 7
    U16Max = 65535
    MAX_BONUS_BPS = 500
    BPS_PER_REFERRAL = 100
    SILVER = 1
    GOLD = 2
    PLATINUM = 3
    BaseRewards = {1}
    MaxCount = 3
SYMMETRY Symmetry

PROPERTIES RewardGoesToReferrer
CHECK_DEADLOCK FALSE
