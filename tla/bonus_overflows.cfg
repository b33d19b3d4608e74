SPECIFICATION CountsSpec
CONSTANTS
    U64Max = 2000000
    OverflowChecks = FALSE
    Users = {u1}
    U32Max = 1000000
    U16Max = 65535
    MAX_BONUS_BPS = 500
    BPS_PER_REFERRAL = 100
    SILVER = 5
    GOLD = 15
    PLATINUM = 50
    BaseRewards = {1, 3, 100}
    MaxCount = 660
INVARIANTS BonusIsCapped
CHECK_DEADLOCK FALSE
