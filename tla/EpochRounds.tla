------------------------------- MODULE EpochRounds -------------------------------
(***************************************************************************)
(* The epoch bonus as a whole: quiks-rewards together with the authority   *)
(* that, at the end of an epoch, reads the leaderboard and calls           *)
(* distribute_epoch_bonus for one rank after the other (comments on        *)
(* distribute_epoch_bonus, docs/architecture.md).  The authority's program *)
(* is not in the repository: here it is a client that pays the ranks in    *)
(* order, may fail to pay one (the instruction returns an error, or the    *)
(* node has no tracker) and goes on, and may do anything else in between,  *)
(* as the operators may.                                                   *)
(***************************************************************************)
EXTENDS QuiksRewards, SequencesExt

CONSTANT MaxRounds      \* bound: rounds begun

ASSUME RoundsAssumption == MaxRounds \in Nat

VARIABLES
    rounds,         \* rounds completed
    leaderboard,    \* the ranking of the round in progress, << >> when none is
    next_rank,      \* the rank to pay next
    round_paid,     \* what the round in progress has minted
    round_pool      \* the largest pool in force at one of its payments

round_vars == <<rounds, leaderboard, next_rank, round_paid, round_pool>>
all_vars == <<vars, round_vars>>

RoundsInit ==
    /\ Init
    /\ rounds = 0
    /\ leaderboard = << >>
    /\ next_rank = 1
    /\ round_paid = 0
    /\ round_pool = 0

\* "Authority reads leaderboard": a ranking of at most top_n of the operators.
StartRound(ranking) ==
    /\ reward_state.initialized
    /\ rounds < MaxRounds
    /\ leaderboard = << >>
    /\ ranking # << >> /\ Len(ranking) <= reward_state.top_n
    /\ leaderboard' = ranking
    /\ next_rank' = 1
    /\ round_paid' = 0
    /\ round_pool' = 0
    /\ UNCHANGED <<vars, rounds>>

PayRank(bps) ==
    /\ next_rank <= Len(leaderboard)
    /\ DistributeEpochBonus(reward_state.authority, leaderboard[next_rank],
                            reward_state.mint, next_rank, bps)
    /\ next_rank' = next_rank + 1
    /\ round_paid' = round_paid + BonusAmount(reward_state.epoch_reward_pool,
                                              reward_state.top_n, next_rank, bps)
    /\ round_pool' = Max({round_pool, reward_state.epoch_reward_pool})
    /\ UNCHANGED <<rounds, leaderboard>>

SkipRank ==
    /\ next_rank <= Len(leaderboard)
    /\ next_rank' = next_rank + 1
    /\ UNCHANGED <<vars, rounds, leaderboard, round_paid, round_pool>>

EndRound ==
    /\ leaderboard # << >>
    /\ next_rank > Len(leaderboard)
    /\ rounds' = rounds + 1
    /\ leaderboard' = << >>
    /\ next_rank' = 1
    /\ UNCHANGED <<vars, round_paid, round_pool>>

\* What else goes on meanwhile: everything but the bonus payments.
OtherInstruction ==
    /\ \/ \E signer \in Wallets, m \in Mints, pool \in Pools, n \in TopNs :
            Initialize(signer, m, pool, n)
       \/ \E signer, op \in Wallets : InitRewardTracker(signer, op)
       \/ \E signer, op \in Wallets, count \in HeartbeatCounts :
            RecordHeartbeats(signer, op, count)
       \/ \E op \in Wallets, m \in Mints : ClaimHeartbeatRewards(op, m)
       \/ \E signer \in Wallets, pool \in Pools : UpdateEpochPool(signer, pool)
    /\ UNCHANGED round_vars

RoundsNext ==
    \/ \E ranking \in SetToAllKPermutations(trackers) : StartRound(ranking)
    \/ \E bps \in BonusBps : PayRank(bps)
    \/ SkipRank
    \/ EndRound
    \/ OtherInstruction

RoundsSpec == RoundsInit /\ [][RoundsNext]_all_vars
--------------------------------------------------------------------------------
\* "A configurable reward pool is distributed to the top N nodes each epoch ...
\* Referral bonus adds up to 5% on top" (docs/architecture.md): however the
\* ranks of a round are filled, skipped and boosted, and also when the pool is
\* changed between two of its payments, the round mints at most the largest pool
\* it saw, plus 5%.
RoundWithinPool ==
    OverflowChecks => 20 * round_paid <= 21 * round_pool * DECIMALS
================================================================================
