----------------------------- MODULE ReferralCounts -----------------------------
(***************************************************************************)
(* What the referral program promises: once the base reward is set, users  *)
(* are credited with referrals one at a time, and each credit earns the    *)
(* reward of the tier it reaches.  No links, no accounts, no token:        *)
(* Referral implements this specification.                                 *)
(***************************************************************************)
EXTENDS ReferralTiers

CONSTANT Users

VARIABLES
    base_reward,    \* set when the program is initialized
    count,          \* referrals credited, per user
    earned          \* rewards earned, per user

counts_vars == <<base_reward, count, earned>>

\* Not set yet.
NoReward == -1

CountsTypeOK ==
    /\ base_reward = NoReward \/ base_reward \in U64
    /\ count \in [Users -> U32]
    /\ earned \in [Users -> U64]

CountsInit ==
    /\ base_reward = NoReward
    /\ count = [u \in Users |-> 0]
    /\ earned = [u \in Users |-> 0]

SetBaseReward(b) ==
    /\ base_reward = NoReward
    /\ base_reward' = b
    /\ UNCHANGED <<count, earned>>

Credit(u) ==
    LET reached == WrapU32(count[u] + 1)
    IN  /\ base_reward # NoReward
        /\ count[u] < MaxCount
        /\ count' = [count EXCEPT ![u] = reached]
        /\ earned' = [earned EXCEPT ![u] = Wrap(@ + Reward(base_reward, TierOf(reached)))]
        /\ UNCHANGED base_reward

CountsNext ==
    \/ \E b \in BaseRewards : SetBaseReward(b)
    \/ \E u \in Users : Credit(u)

CountsSpec == CountsInit /\ [][CountsNext]_counts_vars
--------------------------------------------------------------------------------
\* x, but no less than lo and no more than hi.
Clamp(x, lo, hi) == IF x < lo THEN lo ELSE IF x > hi THEN hi ELSE x

\* What n referrals are worth by the table of docs/architecture.md: those up to
\* the 4th at 1x, the 5th to the 14th at 1.25x, and so on.
Worth(b, n) ==
      Clamp(n, 0, SILVER - 1) * Reward(b, "Bronze")
    + Clamp(n - (SILVER - 1), 0, GOLD - SILVER) * Reward(b, "Silver")
    + Clamp(n - (GOLD - 1), 0, PLATINUM - GOLD) * Reward(b, "Gold")
    + Clamp(n - (PLATINUM - 1), 0, n) * Reward(b, "Platinum")

\* "Bronze (0-4 referrals): 1x base reward, Silver (5-14): 1.25x, ..."
\* (docs/architecture.md): what a user has earned over all its credits is what
\* the table says its count is worth, also across the promotions (up to the
\* 2^32 - 1 referrals a count can hold).
EarnedByTable ==
    base_reward # NoReward /\ MaxCount <= U32Max =>
      \A u \in Users : earned[u] = Wrap(Worth(base_reward, count[u]))

\* "Each referral adds +1% bonus to epoch token distribution (capped at 5%)"
\* (README), Math.min(referralCount * 100, 500) (tests/referral.ts): the bonus
\* reported for a user is the capped product of its count, whatever that is.
BonusIsCapped ==
    \A u \in Users :
      LET uncapped == count[u] * BPS_PER_REFERRAL
      IN  BonusBps(count[u]) = IF uncapped < MAX_BONUS_BPS THEN uncapped ELSE MAX_BONUS_BPS
================================================================================
