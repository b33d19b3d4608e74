------------------------------ MODULE QuiksRewards ------------------------------
(***************************************************************************)
(* The quiks-rewards program: heartbeats recorded by the authority are     *)
(* turned into QUIKS tokens by the operators, and the authority pays the   *)
(* epoch bonus.  Each instruction is one action: a Solana transaction has  *)
(* its accounts locked and leaves nothing behind when it fails, so what    *)
(* interleaves is whole instructions of the authority and the operators.   *)
(* An action's guard is the account constraints, the require!s and, with   *)
(* overflow checks, the arithmetic; an action that is not enabled is an    *)
(* instruction that returns an error.                                      *)
(*                                                                         *)
(* Timestamps (last_claimed_at) and events are written and never read      *)
(* back; they are left out, as are the bumps.                              *)
(***************************************************************************)
EXTENDS SplToken, Functions

CONSTANTS
    HEARTBEATS_PER_TOKEN,   \* 30
    DECIMALS,               \* 1_000_000
    HeartbeatCounts,        \* arguments of record_heartbeats
    Pools,                  \* arguments epoch_reward_pool and new_pool
    TopNs,                  \* argument top_n
    BonusBps,               \* arguments referral_bonus_bps
    MaxHeartbeats,          \* bound: heartbeats recorded for an operator
    MaxEpoch                \* bound: bonuses paid

RewardPda == "reward-state"
NoKey == "no-key"

ASSUME RewardsAssumption ==
    /\ HEARTBEATS_PER_TOKEN \in 1..U64Max
    /\ DECIMALS \in 1..U64Max
    /\ HeartbeatCounts \subseteq U64
    /\ Pools \subseteq U64
    /\ BonusBps \subseteq Nat
    \* top_n is a u16, so that n * (n + 1) fits in a u64
    /\ TopNs \subseteq Nat
    /\ \A n \in TopNs : n * (n + 1) <= U64Max
    /\ MaxHeartbeats \in Nat
    /\ MaxEpoch \in Nat
    /\ RewardPda \in Pdas
    /\ NoKey \notin Wallets \cup Mints

VARIABLES
    reward_state,   \* the RewardState account
    trackers,       \* the operators whose tracker account exists
    reward_tracker  \* their RewardTracker accounts

vars == <<token_vars, reward_state, trackers, reward_tracker>>

RewardState ==
    [initialized: BOOLEAN,
     authority: Wallets \cup {NoKey},
     mint: Mints \cup {NoKey},
     epoch_reward_pool: U64,
     top_n: Nat,
     current_epoch: U64,
     total_minted: U64]

RewardTracker ==
    [total_heartbeats: U64,
     heartbeats_since_last_claim: U64,
     total_claimed: U64,
     epoch_bonus_claimed: U64]

NewTracker ==
    [total_heartbeats |-> 0,
     heartbeats_since_last_claim |-> 0,
     total_claimed |-> 0,
     epoch_bonus_claimed |-> 0]

TypeOK ==
    /\ TokenTypeOK
    /\ reward_state \in RewardState
    /\ trackers \subseteq Wallets
    /\ reward_tracker \in [Wallets -> RewardTracker]

Init ==
    /\ TokenInit
    /\ reward_state =
         [initialized |-> FALSE, authority |-> NoKey, mint |-> NoKey,
          epoch_reward_pool |-> 0, top_n |-> 0,
          current_epoch |-> 0, total_minted |-> 0]
    /\ trackers = {}
    /\ reward_tracker = [w \in Wallets |-> NewTracker]

--------------------------------------------------------------------------------
(***************************************************************************)
(* initialize, init_reward_tracker, update_epoch_pool, record_heartbeats   *)
(***************************************************************************)

\* has_one = authority, on an initialized RewardState.
IsAuthority(signer) ==
    /\ reward_state.initialized
    /\ reward_state.authority = signer

\* Anybody may run it, once: init fails when the account exists.
Initialize(signer, m, pool, n) ==
    /\ ~reward_state.initialized
    /\ reward_state' =
         [initialized |-> TRUE, authority |-> signer, mint |-> m,
          epoch_reward_pool |-> pool, top_n |-> n,
          current_epoch |-> 0, total_minted |-> 0]
    /\ UNCHANGED <<token_vars, trackers, reward_tracker>>

InitRewardTracker(signer, op) ==
    /\ IsAuthority(signer)
    /\ op \notin trackers
    /\ trackers' = trackers \cup {op}
    /\ reward_tracker' = [reward_tracker EXCEPT ![op] = NewTracker]
    /\ UNCHANGED <<token_vars, reward_state>>

UpdateEpochPool(signer, new_pool) ==
    /\ IsAuthority(signer)
    /\ reward_state' = [reward_state EXCEPT !.epoch_reward_pool = new_pool]
    /\ UNCHANGED <<token_vars, trackers, reward_tracker>>

\* Mutant: a batch counts towards the next claim, not towards the total.
AfterHeartbeatsHalf(t, count) ==
    [t EXCEPT !.heartbeats_since_last_claim = Wrap(@ + count)]

AfterHeartbeats(t, count) ==
    [t EXCEPT !.heartbeats_since_last_claim = Wrap(@ + count),
              !.total_heartbeats = Wrap(@ + count)]

RecordHeartbeats(signer, op, count) ==
    LET t == reward_tracker[op]
    IN  /\ IsAuthority(signer)
        /\ op \in trackers
        /\ t.total_heartbeats + count <= MaxHeartbeats
        /\ Fits(t.heartbeats_since_last_claim + count)
        /\ Fits(t.total_heartbeats + count)
        /\ reward_tracker' = [reward_tracker EXCEPT ![op] = AfterHeartbeats(t, count)]
        /\ UNCHANGED <<token_vars, reward_state, trackers>>

--------------------------------------------------------------------------------
(***************************************************************************)
(* claim_heartbeat_rewards: one token per HEARTBEATS_PER_TOKEN heartbeats, *)
(* the remainder is kept for the next claim.                               *)
(***************************************************************************)

TokensEarned(t) == t.heartbeats_since_last_claim \div HEARTBEATS_PER_TOKEN

\* Mutant: what is minted is not scaled to the decimals of the token.
MintAmountUnscaled(t) == TokensEarned(t)

MintAmount(t) == Wrap(TokensEarned(t) * DECIMALS)

\* Mutant: the heartbeats of the unfinished batch are dropped.
AfterClaimNoRemainder(t) ==
    [t EXCEPT !.heartbeats_since_last_claim = 0,
              !.total_claimed = Wrap(@ + TokensEarned(t))]

\* Mutant: the batch that was only begun is taken off as well.
AfterClaimRoundedUp(t) ==
    [t EXCEPT !.heartbeats_since_last_claim =
                 @ - HEARTBEATS_PER_TOKEN * (TokensEarned(t) + 1),
              !.total_claimed = Wrap(@ + TokensEarned(t))]

AfterClaim(t) ==
    [t EXCEPT !.heartbeats_since_last_claim = @ % HEARTBEATS_PER_TOKEN,
              !.total_claimed = Wrap(@ + TokensEarned(t))]

\* total_minted += amount, the last write of both minting instructions.
AfterMint(state, amount) == [state EXCEPT !.total_minted = Wrap(@ + amount)]

ClaimHeartbeatRewards(op, m) ==
    LET t == reward_tracker[op]
        mint_amount == MintAmount(t)
    IN  /\ reward_state.initialized
        /\ op \in trackers
        /\ m = reward_state.mint
        /\ TokensEarned(t) > 0
        /\ Fits(t.total_claimed + TokensEarned(t))
        /\ Fits(TokensEarned(t) * DECIMALS)
        /\ Fits(reward_state.total_minted + mint_amount)
        /\ reward_tracker' = [reward_tracker EXCEPT ![op] = AfterClaim(t)]
        /\ MintTo(m, RewardPda, op, mint_amount)
        /\ reward_state' = AfterMint(reward_state, mint_amount)
        /\ UNCHANGED trackers

--------------------------------------------------------------------------------
(***************************************************************************)
(* distribute_epoch_bonus: the share of one rank, linear in the rank, and  *)
(* the referral bonus on top.                                              *)
(***************************************************************************)

\* Mutant: every rank gets the share of the first.
WeightFlat(n, rank) == n

Weight(n, rank) == n - rank + 1

TotalWeight(n) == (n * (n + 1)) \div 2

BaseAmount(pool, n, rank) ==
    Wrap(Wrap(pool * Weight(n, rank)) * DECIMALS) \div TotalWeight(n)

ReferralBonus(base, bps) == Wrap(base * bps) \div 10000

BonusFits(pool, n, rank, bps) ==
    LET base == BaseAmount(pool, n, rank)
    IN  /\ Fits(pool * Weight(n, rank))
        /\ Fits(Wrap(pool * Weight(n, rank)) * DECIMALS)
        /\ Fits(base * bps)
        /\ Fits(base + ReferralBonus(base, bps))

BonusAmount(pool, n, rank, bps) ==
    LET base == BaseAmount(pool, n, rank)
    IN  Wrap(base + ReferralBonus(base, bps))

ValidBonus(n, rank, bps) ==
    /\ rank > 0 /\ rank <= n
    /\ bps <= 500

\* Mutant: the bonus is not added to what was minted.
AfterDistributionUncounted(state, amount) ==
    [state EXCEPT !.current_epoch = Wrap(@ + 1)]

\* total_minted += total_amount; current_epoch += 1, at every payment.
AfterDistribution(state, amount) ==
    [AfterMint(state, amount) EXCEPT !.current_epoch = Wrap(@ + 1)]

DistributeEpochBonus(signer, op, m, rank, bps) ==
    LET pool == reward_state.epoch_reward_pool
        n    == reward_state.top_n
        amount == BonusAmount(pool, n, rank, bps)
    IN  /\ IsAuthority(signer)
        /\ op \in trackers
        /\ m = reward_state.mint
        /\ ValidBonus(n, rank, bps)
        /\ reward_state.current_epoch < MaxEpoch
        /\ BonusFits(pool, n, rank, bps)
        /\ Fits(reward_tracker[op].epoch_bonus_claimed + amount)
        /\ Fits(reward_state.total_minted + amount)
        /\ Fits(reward_state.current_epoch + 1)
        /\ MintTo(m, RewardPda, op, amount)
        /\ reward_tracker' =
             [reward_tracker EXCEPT ![op].epoch_bonus_claimed = Wrap(@ + amount)]
        /\ reward_state' = AfterDistribution(reward_state, amount)
        /\ UNCHANGED trackers
--------------------------------------------------------------------------------
\* What holders and the mint authority do to the token outside the program.
TokenStep ==
    /\ \E m \in Mints, w \in Wallets :
         \/ \E amount \in TokenAmounts : Burn(m, w, amount)
         \/ \E amount \in TokenAmounts, to \in Wallets : WalletMint(m, w, to, amount)
         \/ Authorize(m, w, RewardPda)
    /\ UNCHANGED <<reward_state, trackers, reward_tracker>>

Next ==
    \/ \E signer \in Wallets, m \in Mints, pool \in Pools, n \in TopNs :
         Initialize(signer, m, pool, n)
    \/ \E signer, op \in Wallets : InitRewardTracker(signer, op)
    \/ \E signer, op \in Wallets, count \in HeartbeatCounts :
         RecordHeartbeats(signer, op, count)
    \/ \E op \in Wallets, m \in Mints : ClaimHeartbeatRewards(op, m)
    \/ \E signer, op \in Wallets, m \in Mints, rank \in 0..reward_state.top_n + 1,
          bps \in BonusBps :
         DistributeEpochBonus(signer, op, m, rank, bps)
    \/ \E signer \in Wallets, pool \in Pools : UpdateEpochPool(signer, pool)
    \/ TokenStep

Spec == Init /\ [][Next]_vars
--------------------------------------------------------------------------------
(***************************************************************************)
(* Properties.                                                             *)
(***************************************************************************)

\* Heartbeats an operator's tracker accounts for: paid for, or still pending.
Accounted(t) ==
    HEARTBEATS_PER_TOKEN * t.total_claimed + t.heartbeats_since_last_claim

\* No heartbeat is lost or paid twice, however recording and claiming
\* interleave: a tracker's heartbeats are those its tokens were paid for plus
\* the remainder carried over.  Exact with overflow checks; modulo the width
\* without them.
HeartbeatsConserved ==
    \A op \in trackers :
      LET t == reward_tracker[op]
      IN  /\ Wrap(Accounted(t)) = t.total_heartbeats
          /\ OverflowChecks => Accounted(t) = t.total_heartbeats

\* What the program has paid the owner of a tracker.
Paid(t) == t.total_claimed * DECIMALS + t.epoch_bonus_claimed

\* total_minted, the program's own total, is the sum of what the trackers say
\* was paid.
LedgerBalanced ==
    reward_state.initialized =>
      LET paid == SumFunctionOnSet([op \in Wallets |-> Paid(reward_tracker[op])], trackers)
      IN  /\ reward_state.total_minted = Wrap(paid)
          /\ OverflowChecks => reward_state.total_minted = paid

\* Whatever a step adds to what the tracker says was paid is in the same step
\* minted to that operator's account of the program's mint, and counted in
\* total_minted: the books of one instruction never disagree with the token.
PaymentsAreMinted ==
    [][\A op \in trackers :
         LET paid == Wrap(Paid(reward_tracker'[op]) - Paid(reward_tracker[op]))
             m == reward_state.mint
         IN  paid # 0 =>
               /\ balance'[m][op] = balance[m][op] + paid
               /\ supply'[m] = supply[m] + paid
               /\ reward_state'.total_minted = Wrap(reward_state.total_minted + paid)]_vars

\* Operators do claim: the only fairness the promise to them rests on.
LiveSpec ==
    /\ Spec
    /\ \A op \in Wallets : WF_vars(\E m \in Mints : ClaimHeartbeatRewards(op, m))

\* The mint is not the program's, or it or the program's own total has no room left
\* for what op would claim.
NoRoomFor(op) ==
    LET amount == MintAmount(reward_tracker[op])
    IN  /\ reward_state.initialized
        /\ \/ mint_authority[reward_state.mint] # RewardPda
           \/ supply[reward_state.mint] + amount > U64Max
           \/ ~Fits(reward_state.total_minted + amount)

\* "1 QUIKS per 30 heartbeats": every full batch of heartbeats recorded for an
\* operator is eventually paid for, whatever is recorded, distributed, burnt or
\* claimed by others in between, as long as the mint is the program's and its supply
\* does not reach 2^64.
BatchesArePaid ==
    \A op \in Wallets : \A k \in 1..(MaxHeartbeats \div HEARTBEATS_PER_TOKEN) :
      (op \in trackers /\ reward_tracker[op].total_heartbeats >= k * HEARTBEATS_PER_TOKEN)
        ~> (reward_tracker[op].total_claimed >= k \/ NoRoomFor(op))
================================================================================
