------------------------------ MODULE ReferralTiers ------------------------------
(***************************************************************************)
(* The functions of the referral program that depend on a referral count   *)
(* alone: the tier, the reward of a tier, and the bonus basis points.      *)
(***************************************************************************)
EXTENDS U64

CONSTANTS
    U32Max,             \* 2^32 - 1, the width of referral_count
    U16Max,             \* 2^16 - 1, the width of the basis points
    MAX_BONUS_BPS,      \* 500
    BPS_PER_REFERRAL,   \* 100
    SILVER,             \* 5, the count from which the tier is Silver
    GOLD,               \* 15
    PLATINUM,           \* 50
    BaseRewards,        \* arguments of initialize
    MaxCount            \* bound: referrals credited to one user

ASSUME TiersAssumption ==
    /\ U32Max \in Nat \ {0} /\ U16Max \in Nat
    /\ MAX_BONUS_BPS \in 0..U16Max /\ BPS_PER_REFERRAL \in 0..U16Max
    /\ SILVER \in Nat /\ GOLD \in Nat /\ PLATINUM \in Nat
    /\ 0 < SILVER /\ SILVER <= GOLD /\ GOLD <= PLATINUM
    /\ BaseRewards \subseteq U64
    /\ MaxCount \in Nat

\* referral_count is a u32.
U32 == 0..U32Max
FitsU32(x) == OverflowChecks => x <= U32Max
WrapU32(x) == x % (U32Max + 1)

Tier == {"Bronze", "Silver", "Gold", "Platinum"}

\* Mutant: a tier is reached one referral late.
TierOfLate(n) ==
    IF n > PLATINUM THEN "Platinum"
    ELSE IF n > GOLD THEN "Gold"
    ELSE IF n > SILVER THEN "Silver"
    ELSE "Bronze"

TierOf(n) ==
    IF n >= PLATINUM THEN "Platinum"
    ELSE IF n >= GOLD THEN "Gold"
    ELSE IF n >= SILVER THEN "Silver"
    ELSE "Bronze"

\* In percent of the base reward.
Multiplier == [Bronze |-> 100, Silver |-> 125, Gold |-> 150, Platinum |-> 200]

RewardFits(base_reward, tier) == Fits(base_reward * Multiplier[tier])

Reward(base_reward, tier) == Wrap(base_reward * Multiplier[tier]) \div 100

\* `referral_count as u16 * BPS_PER_REFERRAL`: the cast drops the high bits in
\* every build, the product is that of two u16.
BonusProduct(n) == (n % (U16Max + 1)) * BPS_PER_REFERRAL

\* min(.., MAX_BONUS_BPS).  In a checked build a product past 16 bits panics, and
\* no bonus is reported.
BonusBps(n) ==
    LET bps == BonusProduct(n) % (U16Max + 1)
    IN  IF bps < MAX_BONUS_BPS THEN bps ELSE MAX_BONUS_BPS
==================================================================================
