--------------------------- MODULE QuiksRewardsProofs ---------------------------
(***************************************************************************)
(* Proofs about the quiks-rewards program and about the rounds in which    *)
(* the authority pays the epoch bonus, for every width, every pool, every  *)
(* set of operators, and both builds (OverflowChecks is arbitrary).        *)
(***************************************************************************)
EXTENDS EpochRounds, ArithmeticProofs

\* The assumptions on the constants, in the form the steps use them.
LEMMA ConstantFacts ==
    /\ HEARTBEATS_PER_TOKEN \in Nat \ {0} /\ HEARTBEATS_PER_TOKEN \in U64
    /\ DECIMALS \in Nat \ {0}
    /\ U64Max \in Nat
    /\ 0 \in U64
    /\ RewardPda \in Pdas
  BY RewardsAssumption, U64Assumption DEF U64

\* One claim splits the pending heartbeats into whole batches and a remainder.
LEMMA ClaimSplits ==
    ASSUME NEW t \in RewardTracker
    PROVE  /\ TokensEarned(t) \in Nat
           /\ t.heartbeats_since_last_claim % HEARTBEATS_PER_TOKEN \in U64
           /\ t.heartbeats_since_last_claim =
                HEARTBEATS_PER_TOKEN * TokensEarned(t)
                + (t.heartbeats_since_last_claim % HEARTBEATS_PER_TOKEN)
<1> DEFINE h == HEARTBEATS_PER_TOKEN
           s == t.heartbeats_since_last_claim
<1>1. h \in Nat \ {0} /\ h <= U64Max /\ s \in Nat /\ s \in Int
  BY ConstantFacts DEF RewardTracker, U64
<1> HIDE DEF h, s
<1>2. PICK e \in Int, r \in 0..h-1 : s \div h = e /\ s % h = r /\ s = h * e + r
  BY <1>1, DivMod, ZenonT(30)
<1>3. e >= 0
  BY <1>1, <1>2
<1>4. r \in U64
  BY <1>1, <1>2, U64Assumption DEF U64
<1>. QED
  BY <1>2, <1>3, <1>4 DEF TokensEarned, h, s

\* What one claim mints is a u64.
LEMMA MintAmountType ==
    ASSUME NEW t \in RewardTracker
    PROVE  MintAmount(t) \in U64
<1>1. TokensEarned(t) * DECIMALS \in Int
  BY ClaimSplits, ConstantFacts
<1>. QED
  BY <1>1, WrapType DEF MintAmount

\* The divisor of the bonus shares is positive when there is a rank to pay.
LEMMA TotalWeightPositive ==
    ASSUME NEW n \in Nat \ {0}
    PROVE  TotalWeight(n) \in Nat \ {0}
<1>1. n * (n + 1) \in Nat /\ n * (n + 1) >= 2
  OBVIOUS
<1>. QED
  BY <1>1 DEF TotalWeight

\* What one bonus payment mints is a u64.
LEMMA BonusAmountType ==
    ASSUME NEW pool \in U64, NEW n \in Nat, NEW rank \in Nat, NEW bps \in Nat,
           ValidBonus(n, rank, bps)
    PROVE  BonusAmount(pool, n, rank, bps) \in U64
<1>1. n \in Nat \ {0} /\ Weight(n, rank) \in Int /\ pool \in Int
  BY DEF ValidBonus, Weight, U64
<1>2. pool * Weight(n, rank) \in Int
  BY <1>1
<1>3. Wrap(pool * Weight(n, rank)) \in Int
  BY <1>2, WrapType DEF U64
<1>4. Wrap(pool * Weight(n, rank)) * DECIMALS \in Int
  BY <1>3, ConstantFacts
<1>5. Wrap(Wrap(pool * Weight(n, rank)) * DECIMALS) \in Int
  BY <1>4, WrapType DEF U64
<1>6. BaseAmount(pool, n, rank) \in Int
  BY <1>1, <1>5, TotalWeightPositive DEF BaseAmount
<1> DEFINE base == BaseAmount(pool, n, rank)
<1> HIDE DEF base
<1>7. base \in Int /\ base * bps \in Int
  BY <1>6 DEF base
<1>8. ReferralBonus(base, bps) \in Int
  BY <1>7, WrapType DEF ReferralBonus, U64
<1>9. Wrap(base + ReferralBonus(base, bps)) \in U64
  BY <1>7, <1>8, WrapType
<1>. QED
  BY <1>9 DEF BonusAmount, base
--------------------------------------------------------------------------------
(***************************************************************************)
(* Type correctness.                                                       *)
(***************************************************************************)

\* mint_to keeps the token program's state well typed.
LEMMA MintToType ==
    ASSUME TokenTypeOK, NEW m \in Mints, NEW signer, NEW owner \in Wallets,
           NEW amount \in Nat, MintTo(m, signer, owner, amount)
    PROVE  TokenTypeOK'
<1>1. supply[m] + amount \in U64
  BY U64Assumption DEF TokenTypeOK, MintTo, U64
<1>2. balance[m][owner] + amount \in Nat
  BY DEF TokenTypeOK
<1>. QED
  BY <1>1, <1>2 DEF TokenTypeOK, MintTo

LEMMA TypeInit == Init => TypeOK
  BY ConstantFacts, SplTokenAssumption
     DEF Init, TokenInit, TypeOK, TokenTypeOK, RewardState, RewardTracker, NewTracker, U64

LEMMA TypeStep == TypeOK /\ [Next]_vars => TypeOK'
<1> SUFFICES ASSUME TypeOK, [Next]_vars
             PROVE  TypeOK'
  OBVIOUS
<1>1. ASSUME NEW signer \in Wallets, NEW m \in Mints, NEW pool \in Pools,
             NEW n \in TopNs, Initialize(signer, m, pool, n)
      PROVE  TypeOK'
  BY <1>1, RewardsAssumption, ConstantFacts
     DEF Initialize, TypeOK, TokenTypeOK, token_vars, RewardState
<1>2. ASSUME NEW signer \in Wallets, NEW op \in Wallets, InitRewardTracker(signer, op)
      PROVE  TypeOK'
  BY <1>2, ConstantFacts
     DEF InitRewardTracker, TypeOK, TokenTypeOK, token_vars, NewTracker, RewardTracker
<1>3. ASSUME NEW signer \in Wallets, NEW op \in Wallets, NEW count \in HeartbeatCounts,
             RecordHeartbeats(signer, op, count)
      PROVE  TypeOK'
  <2> DEFINE t == reward_tracker[op]
  <2>1. t \in RewardTracker
    BY DEF TypeOK
  <2>2. count \in Int
    BY RewardsAssumption DEF U64
  <2>3. /\ Wrap(t.heartbeats_since_last_claim + count) \in U64
        /\ Wrap(t.total_heartbeats + count) \in U64
    BY <2>1, <2>2, WrapType DEF RewardTracker, U64
  <2>4. AfterHeartbeats(t, count) \in RewardTracker
    BY <2>1, <2>3 DEF AfterHeartbeats, RewardTracker
  <2>. QED
    BY <1>3, <2>4 DEF RecordHeartbeats, TypeOK, TokenTypeOK, token_vars
<1>4. ASSUME NEW op \in Wallets, NEW m \in Mints, ClaimHeartbeatRewards(op, m)
      PROVE  TypeOK'
  <2> DEFINE t == reward_tracker[op]
  <2>1. t \in RewardTracker
    BY DEF TypeOK
  <2>2. Wrap(t.total_claimed + TokensEarned(t)) \in U64
    BY <2>1, ClaimSplits, WrapType DEF RewardTracker, U64
  <2>3. AfterClaim(t) \in RewardTracker
    BY <2>1, <2>2, ClaimSplits DEF AfterClaim, RewardTracker
  <2>4. MintAmount(t) \in Nat
    BY <2>1, MintAmountType DEF U64
  <2>5. MintTo(m, RewardPda, op, MintAmount(t)) /\ reward_state' = AfterMint(reward_state, MintAmount(t))
    BY <1>4 DEF ClaimHeartbeatRewards
  <2>6. Wrap(reward_state.total_minted + MintAmount(t)) \in U64
    BY <2>4, WrapType DEF TypeOK, RewardState, U64
  <2>7. reward_state' \in RewardState
    BY <2>5, <2>6 DEF AfterMint, TypeOK, RewardState
  <2>8. TokenTypeOK'
    BY <2>4, <2>5, MintToType DEF TypeOK
  <2>. QED
    BY <1>4, <2>3, <2>7, <2>8 DEF ClaimHeartbeatRewards, TypeOK
<1>5. ASSUME NEW signer \in Wallets, NEW op \in Wallets, NEW m \in Mints,
             NEW rank \in 0..reward_state.top_n + 1, NEW bps \in BonusBps,
             DistributeEpochBonus(signer, op, m, rank, bps)
      PROVE  TypeOK'
  <2> DEFINE amount == BonusAmount(reward_state.epoch_reward_pool,
                                   reward_state.top_n, rank, bps)
             t == reward_tracker[op]
  <2>1. /\ reward_state.epoch_reward_pool \in U64
        /\ reward_state.top_n \in Nat
        /\ rank \in Nat
        /\ bps \in Nat
        /\ t \in RewardTracker
    BY RewardsAssumption DEF TypeOK, RewardState
  <2>2. amount \in U64
    BY <1>5, <2>1, BonusAmountType DEF DistributeEpochBonus
  <2>3. /\ MintTo(m, RewardPda, op, amount)
        /\ reward_state' = AfterDistribution(reward_state, amount)
        /\ reward_tracker' = [reward_tracker EXCEPT ![op].epoch_bonus_claimed = Wrap(@ + amount)]
        /\ UNCHANGED trackers
    BY <1>5 DEF DistributeEpochBonus
  <2> HIDE DEF amount
  <2>4. /\ Wrap(reward_state.total_minted + amount) \in U64
        /\ Wrap(reward_state.current_epoch + 1) \in U64
        /\ Wrap(t.epoch_bonus_claimed + amount) \in U64
    BY <2>1, <2>2, WrapType DEF TypeOK, RewardState, RewardTracker, U64
  <2>5. reward_state' \in RewardState
    BY <2>3, <2>4 DEF AfterDistribution, AfterMint, TypeOK, RewardState
  <2>6. reward_tracker' \in [Wallets -> RewardTracker]
    BY <2>3, <2>4 DEF TypeOK, RewardTracker
  <2>7. TokenTypeOK'
    BY <2>2, <2>3, MintToType DEF TypeOK, U64
  <2>. QED
    BY <2>3, <2>5, <2>6, <2>7 DEF TypeOK
<1>6. ASSUME NEW signer \in Wallets, NEW pool \in Pools, UpdateEpochPool(signer, pool)
      PROVE  TypeOK'
  BY <1>6, RewardsAssumption DEF UpdateEpochPool, TypeOK, TokenTypeOK, token_vars, RewardState
<1>7. CASE TokenStep
  <2>1. PICK m \in Mints, w \in Wallets :
           \/ \E amount \in TokenAmounts : Burn(m, w, amount)
           \/ \E amount \in TokenAmounts, to \in Wallets : WalletMint(m, w, to, amount)
           \/ Authorize(m, w, RewardPda)
    BY <1>7 DEF TokenStep
  <2>2. ASSUME NEW amount \in TokenAmounts, Burn(m, w, amount)
        PROVE  TokenTypeOK'
    <3>1. amount \in Nat
      BY SplTokenAssumption
    <3>2. supply[m] - amount \in U64 /\ balance[m][w] - amount \in Nat
      BY <2>2, <3>1, U64Assumption DEF Burn, TypeOK, TokenTypeOK, U64
    <3>. QED
      BY <2>2, <3>2 DEF Burn, TypeOK, TokenTypeOK
  <2>3. ASSUME NEW amount \in TokenAmounts, NEW to \in Wallets, WalletMint(m, w, to, amount)
        PROVE  TokenTypeOK'
    BY <2>3, MintToType, SplTokenAssumption DEF WalletMint, TypeOK
  <2>4. ASSUME Authorize(m, w, RewardPda)
        PROVE  TokenTypeOK'
    BY <2>4, ConstantFacts DEF Authorize, TypeOK, TokenTypeOK
  <2>5. TokenTypeOK'
    BY <2>1, <2>2, <2>3, <2>4
  <2>. QED
    BY <1>7, <2>5 DEF TokenStep, TypeOK
<1>8. CASE UNCHANGED vars
  BY <1>8 DEF vars, token_vars, TypeOK, TokenTypeOK
<1>. QED
  BY <1>1, <1>2, <1>3, <1>4, <1>5, <1>6, <1>7, <1>8 DEF Next

\* Every account always holds values of its types: in particular no counter
\* leaves the u64 range, in either build.
THEOREM TypeCorrect == Spec => []TypeOK
  BY TypeInit, TypeStep, PTL DEF Spec
--------------------------------------------------------------------------------
(***************************************************************************)
(* No heartbeat is lost or paid twice.                                     *)
(***************************************************************************)

\* What HeartbeatsConserved says of one tracker.
Conserved(t) ==
    /\ Wrap(Accounted(t)) = t.total_heartbeats
    /\ OverflowChecks => Accounted(t) = t.total_heartbeats

LEMMA NewTrackerConserved == Conserved(NewTracker)
<1>1. Accounted(NewTracker) = 0 /\ NewTracker.total_heartbeats = 0
  BY ConstantFacts DEF Accounted, NewTracker
<1>. QED
  BY <1>1, ConstantFacts, WrapFits DEF Conserved

\* Recording a batch adds it to both sides.
LEMMA HeartbeatsAdd ==
    ASSUME NEW t \in RewardTracker, NEW count \in U64, Conserved(t),
           Fits(t.heartbeats_since_last_claim + count),
           Fits(t.total_heartbeats + count)
    PROVE  Conserved(AfterHeartbeats(t, count))
<1> DEFINE c == HEARTBEATS_PER_TOKEN * t.total_claimed
           s == t.heartbeats_since_last_claim
           n == t.total_heartbeats
           u == AfterHeartbeats(t, count)
<1>1. c \in Int /\ s \in Nat /\ n \in Nat /\ count \in Nat
  BY ConstantFacts DEF RewardTracker, U64
<1>2. /\ u.heartbeats_since_last_claim = Wrap(s + count)
      /\ u.total_heartbeats = Wrap(n + count)
      /\ HEARTBEATS_PER_TOKEN * u.total_claimed = c
  BY DEF AfterHeartbeats, RewardTracker
<1>3. /\ Wrap(c + s) = n
      /\ OverflowChecks => c + s = n
  BY DEF Conserved, Accounted
<1>4. Accounted(u) = c + Wrap(s + count)
  BY <1>2 DEF Accounted
<1> HIDE DEF c, s, n, u
<1>5. Wrap(c + Wrap(s + count)) = Wrap(n + count)
  <2>1. Wrap(c + Wrap(s + count)) = Wrap(c + (s + count))
    BY <1>1, WrapSum
  <2>2. Wrap(count + Wrap(c + s)) = Wrap(count + (c + s))
    BY <1>1, WrapSum
  <2>3. c + (s + count) = count + (c + s) /\ count + n = n + count
    BY <1>1
  <2>. QED
    BY <2>1, <2>2, <2>3, <1>3
<1>6. ASSUME OverflowChecks
      PROVE  c + Wrap(s + count) = Wrap(n + count)
  <2>1. s + count \in U64 /\ n + count \in U64
    BY <1>1, <1>6, U64Assumption DEF Fits, U64, s, n
  <2>2. Wrap(s + count) = s + count /\ Wrap(n + count) = n + count
    BY <2>1, WrapFits
  <2>. QED
    BY <2>2, <1>1, <1>3, <1>6
<1>. QED
  BY <1>2, <1>4, <1>5, <1>6 DEF Conserved, u

\* Claiming moves whole batches from what is pending to what is paid for.
LEMMA ClaimConserves ==
    ASSUME NEW t \in RewardTracker, Conserved(t),
           Fits(t.total_claimed + TokensEarned(t))
    PROVE  Conserved(AfterClaim(t))
<1> DEFINE h == HEARTBEATS_PER_TOKEN
           c == t.total_claimed
           e == TokensEarned(t)
           r == t.heartbeats_since_last_claim % HEARTBEATS_PER_TOKEN
           u == AfterClaim(t)
<1>1. h \in Nat /\ c \in Nat /\ e \in Nat /\ r \in Nat
  BY ConstantFacts, ClaimSplits DEF RewardTracker, U64
<1>2. Accounted(t) = h * c + (h * e + r)
  BY ClaimSplits DEF Accounted
<1>3. /\ u.total_heartbeats = t.total_heartbeats
      /\ Accounted(u) = h * Wrap(c + e) + r
  BY DEF AfterClaim, Accounted, RewardTracker
<1>4. OverflowChecks => Wrap(c + e) = c + e
  <2>1. OverflowChecks => c + e \in U64
    BY <1>1, U64Assumption DEF Fits, U64
  <2>. QED
    BY <2>1, WrapFits
<1>5. Wrap(c + e) \in Int
  BY <1>1, WrapType DEF U64
<1> HIDE DEF h, c, e, r, u
<1>6. h * (c + e) = h * c + h * e /\ h * c \in Int /\ h * e \in Int /\ h * Wrap(c + e) \in Int
  BY <1>1, <1>5
<1>7. r + h * (c + e) = h * c + (h * e + r)
  BY <1>1, <1>6
<1>8. Wrap(r + h * Wrap(c + e)) = Wrap(r + h * (c + e))
  BY <1>1, WrapAbsorbs
<1>9. h * Wrap(c + e) + r = r + h * Wrap(c + e)
  BY <1>1, <1>6
<1>10. Wrap(Accounted(u)) = Wrap(Accounted(t))
  BY <1>2, <1>3, <1>7, <1>8, <1>9
<1>11. OverflowChecks => Accounted(u) = Accounted(t)
  BY <1>2, <1>3, <1>4, <1>7, <1>9
<1>. QED
  BY <1>3, <1>10, <1>11 DEF Conserved, u

\* The two halves of an inductive proof; the invariant is HeartbeatsConserved
\* with TypeOK.
LEMMA ConservedInit == Init => HeartbeatsConserved
  BY DEF Init, HeartbeatsConserved

LEMMA ConservedStep ==
    TypeOK /\ HeartbeatsConserved /\ [Next]_vars => HeartbeatsConserved'
<1> SUFFICES ASSUME TypeOK, HeartbeatsConserved, [Next]_vars,
                    NEW w \in trackers'
             PROVE  Conserved(reward_tracker'[w])
  BY DEF HeartbeatsConserved, Conserved, Accounted
<1>1. \A op \in trackers : op \in Wallets /\ Conserved(reward_tracker[op])
  BY DEF HeartbeatsConserved, Conserved, Accounted, TypeOK
<1>2. reward_tracker \in [Wallets -> RewardTracker]
  BY DEF TypeOK
<1>3. ASSUME trackers' = trackers, reward_tracker' = reward_tracker
      PROVE  Conserved(reward_tracker'[w])
  BY <1>1, <1>3
<1>4. ASSUME NEW signer \in Wallets, NEW op \in Wallets, InitRewardTracker(signer, op)
      PROVE  Conserved(reward_tracker'[w])
  <2>1. /\ trackers' = trackers \cup {op}
        /\ reward_tracker' = [reward_tracker EXCEPT ![op] = NewTracker]
    BY <1>4 DEF InitRewardTracker
  <2>2. CASE w = op
    BY <2>1, <2>2, <1>2, NewTrackerConserved
  <2>3. CASE w # op
    BY <2>1, <2>3, <1>1, <1>2
  <2>. QED
    BY <2>2, <2>3
<1>5. ASSUME NEW signer \in Wallets, NEW op \in Wallets, NEW count \in HeartbeatCounts,
             RecordHeartbeats(signer, op, count)
      PROVE  Conserved(reward_tracker'[w])
  <2>1. /\ op \in trackers
        /\ trackers' = trackers
        /\ reward_tracker' = [reward_tracker EXCEPT ![op] = AfterHeartbeats(@, count)]
        /\ Fits(reward_tracker[op].heartbeats_since_last_claim + count)
        /\ Fits(reward_tracker[op].total_heartbeats + count)
    BY <1>5 DEF RecordHeartbeats
  <2>2. Conserved(AfterHeartbeats(reward_tracker[op], count))
    BY <2>1, <1>1, <1>2, RewardsAssumption, HeartbeatsAdd
  <2>. QED
    BY <2>1, <2>2, <1>1, <1>2
<1>6. ASSUME NEW op \in Wallets, NEW m \in Mints, ClaimHeartbeatRewards(op, m)
      PROVE  Conserved(reward_tracker'[w])
  <2>1. /\ op \in trackers
        /\ trackers' = trackers
        /\ reward_tracker' = [reward_tracker EXCEPT ![op] = AfterClaim(@)]
        /\ Fits(reward_tracker[op].total_claimed + TokensEarned(reward_tracker[op]))
    BY <1>6 DEF ClaimHeartbeatRewards
  <2>2. Conserved(AfterClaim(reward_tracker[op]))
    BY <2>1, <1>1, <1>2, ClaimConserves
  <2>. QED
    BY <2>1, <2>2, <1>1, <1>2
<1>7. ASSUME NEW signer \in Wallets, NEW op \in Wallets, NEW m \in Mints,
             NEW rank, NEW bps, DistributeEpochBonus(signer, op, m, rank, bps)
      PROVE  Conserved(reward_tracker'[w])
  <2>1. PICK bonus : reward_tracker' = [reward_tracker EXCEPT ![op].epoch_bonus_claimed = bonus]
    BY <1>7 DEF DistributeEpochBonus
  <2>2. trackers' = trackers
    BY <1>7 DEF DistributeEpochBonus
  <2>3. w \in Wallets /\ Conserved(reward_tracker[w])
    BY <2>2, <1>1
  <2>4. /\ reward_tracker'[w].total_heartbeats = reward_tracker[w].total_heartbeats
        /\ reward_tracker'[w].total_claimed = reward_tracker[w].total_claimed
        /\ reward_tracker'[w].heartbeats_since_last_claim
             = reward_tracker[w].heartbeats_since_last_claim
    BY <2>1, <2>3, <1>2 DEF RewardTracker
  <2>. QED
    BY <2>3, <2>4 DEF Conserved, Accounted
<1>. QED
  BY <1>3, <1>4, <1>5, <1>6, <1>7
     DEF Next, Initialize, UpdateEpochPool, TokenStep, vars

\* For every width and both builds: a tracker's heartbeats are those its tokens
\* were paid for plus the remainder it carries, whatever the order in which the
\* authority records and the operators claim.
THEOREM HeartbeatsAreConserved == Spec => []HeartbeatsConserved
<1>1. Init => TypeOK /\ HeartbeatsConserved
  BY TypeInit, ConservedInit
<1>2. (TypeOK /\ HeartbeatsConserved) /\ [Next]_vars => (TypeOK /\ HeartbeatsConserved)'
  BY TypeStep, ConservedStep
<1>. QED
  BY <1>1, <1>2, PTL DEF Spec
--------------------------------------------------------------------------------
(***************************************************************************)
(* What a tracker says was paid is minted in the same step.                *)
(***************************************************************************)

\* What PaymentsAreMinted says of one operator and one step.
PaymentMinted(op) ==
    LET paid == Wrap(Paid(reward_tracker'[op]) - Paid(reward_tracker[op]))
        m == reward_state.mint
    IN  paid # 0 =>
          /\ balance'[m][op] = balance[m][op] + paid
          /\ supply'[m] = supply[m] + paid
          /\ reward_state'.total_minted = Wrap(reward_state.total_minted + paid)

\* A payment to one operator changes what is paid to it by the amount, modulo
\* the width, and what is paid to the others not at all: with mint_to of the
\* same amount to the same operator, every payment is minted.
LEMMA PaymentOfAmount ==
    ASSUME TypeOK, NEW op \in Wallets, NEW m \in Mints, NEW amount \in U64,
           NEW w \in Wallets,
           m = reward_state.mint,
           MintTo(m, RewardPda, op, amount),
           reward_state'.total_minted = Wrap(reward_state.total_minted + amount),
           \A v \in Wallets \ {op} : reward_tracker'[v] = reward_tracker[v],
           Wrap(Paid(reward_tracker'[op]) - Paid(reward_tracker[op])) = amount
    PROVE  PaymentMinted(w)
<1>1. Wrap(0) = 0
  BY ConstantFacts, WrapFits
<1>2. CASE w = op
  BY <1>2 DEF MintTo, TypeOK, TokenTypeOK, PaymentMinted
<1>3. CASE w # op
  <2>1. Paid(reward_tracker[w]) \in Int
    BY ConstantFacts DEF Paid, TypeOK, RewardTracker, U64
  <2>2. Paid(reward_tracker'[w]) - Paid(reward_tracker[w]) = 0
    BY <1>3, <2>1
  <2>. QED
    BY <1>1, <2>2 DEF PaymentMinted
<1>. QED
  BY <1>2, <1>3

\* A step that leaves an operator's tracker alone pays it nothing.
LEMMA NothingPaid ==
    ASSUME TypeOK, NEW w \in Wallets,
           Paid(reward_tracker'[w]) = Paid(reward_tracker[w])
    PROVE  PaymentMinted(w)
<1>1. Paid(reward_tracker[w]) \in Int
  BY ConstantFacts DEF Paid, TypeOK, RewardTracker, U64
<1>2. Paid(reward_tracker'[w]) - Paid(reward_tracker[w]) = 0
  BY <1>1
<1>. QED
  BY <1>2, ConstantFacts, WrapFits DEF PaymentMinted

\* What a claim adds to what was paid is what it mints.
LEMMA ClaimPays ==
    ASSUME NEW t \in RewardTracker
    PROVE  Wrap(Paid(AfterClaim(t)) - Paid(t)) = MintAmount(t)
<1> DEFINE c == t.total_claimed
           e == TokensEarned(t)
           b == t.epoch_bonus_claimed
           u == AfterClaim(t)
<1>1. c \in Nat /\ e \in Nat /\ b \in Nat /\ DECIMALS \in Nat
  BY ConstantFacts, ClaimSplits DEF RewardTracker, U64
<1>2. Paid(u) = Wrap(c + e) * DECIMALS + b /\ Paid(t) = c * DECIMALS + b
  BY DEF AfterClaim, Paid, RewardTracker
<1>3. Wrap(c + e) \in Int
  BY <1>1, WrapType DEF U64
<1>4. MintAmount(t) = Wrap(e * DECIMALS)
  BY DEF MintAmount
<1> HIDE DEF c, e, b, u
<1> DEFINE a == -(c * DECIMALS)
<1>5. a \in Int /\ Paid(u) - Paid(t) = a + DECIMALS * Wrap(c + e)
  BY <1>1, <1>2, <1>3
<1>6. a + DECIMALS * (c + e) = e * DECIMALS
  BY <1>1
<1> HIDE DEF a
<1>7. Wrap(a + DECIMALS * Wrap(c + e)) = Wrap(a + DECIMALS * (c + e))
  BY <1>1, <1>5, WrapAbsorbs
<1>. QED
  BY <1>4, <1>5, <1>6, <1>7 DEF u

LEMMA PaymentsStep ==
    ASSUME TypeOK, [Next]_vars, NEW w \in trackers
    PROVE  PaymentMinted(w)
<1>1. w \in Wallets /\ reward_tracker \in [Wallets -> RewardTracker]
  BY DEF TypeOK
<1>2. ASSUME reward_tracker' = reward_tracker
      PROVE  PaymentMinted(w)
  BY <1>1, <1>2, NothingPaid
<1>3. ASSUME NEW signer \in Wallets, NEW op \in Wallets, InitRewardTracker(signer, op)
      PROVE  PaymentMinted(w)
  <2>1. reward_tracker'[w] = reward_tracker[w]
    BY <1>1, <1>3 DEF InitRewardTracker
  <2>. QED
    BY <1>1, <2>1, NothingPaid
<1>4. ASSUME NEW signer \in Wallets, NEW op \in Wallets, NEW count \in HeartbeatCounts,
             RecordHeartbeats(signer, op, count)
      PROVE  PaymentMinted(w)
  <2>1. Paid(reward_tracker'[w]) = Paid(reward_tracker[w])
    BY <1>1, <1>4 DEF RecordHeartbeats, AfterHeartbeats, Paid, RewardTracker
  <2>. QED
    BY <1>1, <2>1, NothingPaid
<1>5. ASSUME NEW op \in Wallets, NEW m \in Mints, ClaimHeartbeatRewards(op, m)
      PROVE  PaymentMinted(w)
  <2> DEFINE t == reward_tracker[op]
             amount == MintAmount(t)
  <2>1. /\ m = reward_state.mint
        /\ MintTo(m, RewardPda, op, amount)
        /\ reward_state' = AfterMint(reward_state, amount)
        /\ reward_tracker' = [reward_tracker EXCEPT ![op] = AfterClaim(t)]
    BY <1>5 DEF ClaimHeartbeatRewards
  <2>2. amount \in U64 /\ Wrap(Paid(AfterClaim(t)) - Paid(t)) = amount
    BY <1>1, MintAmountType, ClaimPays
  <2>3. reward_state'.total_minted = Wrap(reward_state.total_minted + amount)
    BY <2>1 DEF AfterMint, TypeOK, RewardState
  <2>4. /\ reward_tracker'[op] = AfterClaim(t)
        /\ \A v \in Wallets \ {op} : reward_tracker'[v] = reward_tracker[v]
    BY <1>1, <2>1
  <2> HIDE DEF amount, t
  <2>5. Wrap(Paid(reward_tracker'[op]) - Paid(reward_tracker[op])) = amount
    BY <2>2, <2>4 DEF t
  <2>. QED
    BY <1>1, <2>1, <2>2, <2>3, <2>4, <2>5, PaymentOfAmount
<1>6. ASSUME NEW signer \in Wallets, NEW op \in Wallets, NEW m \in Mints,
             NEW rank \in 0..reward_state.top_n + 1, NEW bps \in BonusBps,
             DistributeEpochBonus(signer, op, m, rank, bps)
      PROVE  PaymentMinted(w)
  <2> DEFINE amount == BonusAmount(reward_state.epoch_reward_pool,
                                   reward_state.top_n, rank, bps)
             b == reward_tracker[op].epoch_bonus_claimed
             c == reward_tracker[op].total_claimed
  <2>1. amount \in U64
    BY <1>6, RewardsAssumption, BonusAmountType DEF DistributeEpochBonus, TypeOK, RewardState
  <2>2. /\ m = reward_state.mint
        /\ MintTo(m, RewardPda, op, amount)
        /\ reward_state' = AfterDistribution(reward_state, amount)
        /\ reward_tracker' = [reward_tracker EXCEPT ![op].epoch_bonus_claimed = Wrap(@ + amount)]
    BY <1>6 DEF DistributeEpochBonus
  <2> HIDE DEF amount
  <2>3. reward_state'.total_minted = Wrap(reward_state.total_minted + amount)
    BY <2>2 DEF AfterDistribution, AfterMint, TypeOK, RewardState
  <2>4. /\ reward_tracker'[op].epoch_bonus_claimed = Wrap(b + amount)
        /\ reward_tracker'[op].total_claimed = c
        /\ \A v \in Wallets \ {op} : reward_tracker'[v] = reward_tracker[v]
    BY <1>1, <2>2 DEF RewardTracker
  <2>5. b \in Nat /\ c \in Nat /\ DECIMALS \in Nat /\ amount \in Nat
    BY <1>1, <2>1, ConstantFacts DEF RewardTracker, U64
  <2>6. Wrap(b + amount) \in Int
    BY <2>5, WrapType DEF U64
  <2>7. Paid(reward_tracker'[op]) - Paid(reward_tracker[op]) = (-b) + Wrap(b + amount)
    BY <2>4, <2>5, <2>6 DEF Paid
  <2> HIDE DEF b, c
  <2>8. Wrap((-b) + Wrap(b + amount)) = Wrap((-b) + (b + amount))
    BY <2>5, WrapSum
  <2>9. Wrap((-b) + (b + amount)) = amount
    BY <2>1, <2>5, WrapFits
  <2>. QED
    BY <1>1, <2>1, <2>2, <2>3, <2>4, <2>7, <2>8, <2>9, PaymentOfAmount
<1>. QED
  BY <1>2, <1>3, <1>4, <1>5, <1>6
     DEF Next, Initialize, UpdateEpochPool, TokenStep, vars

\* For every width and both builds: what a step adds to what an operator was
\* paid is minted to that operator, and counted in total_minted, in that step.
THEOREM PaymentsAreAlwaysMinted == Spec => PaymentsAreMinted
<1>1. TypeOK /\ [Next]_vars => [\A op \in trackers : PaymentMinted(op)]_vars
  BY PaymentsStep
<1>2. Spec => [][\A op \in trackers : PaymentMinted(op)]_vars
  BY <1>1, TypeCorrect, PTL DEF Spec
<1>3. (\A op \in trackers : PaymentMinted(op)) <=>
        \A op \in trackers :
          LET paid == Wrap(Paid(reward_tracker'[op]) - Paid(reward_tracker[op]))
              m == reward_state.mint
          IN  paid # 0 =>
                /\ balance'[m][op] = balance[m][op] + paid
                /\ supply'[m] = supply[m] + paid
                /\ reward_state'.total_minted = Wrap(reward_state.total_minted + paid)
  BY DEF PaymentMinted
<1>. QED
  BY <1>2, <1>3, PTL DEF PaymentsAreMinted
--------------------------------------------------------------------------------
(***************************************************************************)
(* The program's total is the sum of what the trackers say was paid.       *)
(***************************************************************************)

\* What every operator was paid, as LedgerBalanced sums it.
PaidTo == [op \in Wallets |-> Paid(reward_tracker[op])]

\* The inductive invariant: trackers are created one at a time, by the authority
\* of an initialized program.
LedgerInv ==
    /\ TypeOK
    /\ IsFiniteSet(trackers)
    /\ trackers # {} => reward_state.initialized
    /\ LedgerBalanced

LEMMA PaidType ==
    ASSUME NEW t \in RewardTracker
    PROVE  Paid(t) \in Nat
  BY ConstantFacts DEF Paid, RewardTracker, U64

\* A checked claim adds exactly what it mints, not only modulo the width.
LEMMA ClaimPaysExactly ==
    ASSUME NEW t \in RewardTracker, OverflowChecks,
           Fits(t.total_claimed + TokensEarned(t)), Fits(TokensEarned(t) * DECIMALS)
    PROVE  Paid(AfterClaim(t)) - Paid(t) = MintAmount(t)
<1> DEFINE c == t.total_claimed
           e == TokensEarned(t)
           b == t.epoch_bonus_claimed
           u == AfterClaim(t)
<1>1. c \in Nat /\ e \in Nat /\ b \in Nat /\ DECIMALS \in Nat
  BY ConstantFacts, ClaimSplits DEF RewardTracker, U64
<1>2. c + e \in U64 /\ e * DECIMALS \in U64
  BY <1>1, U64Assumption DEF Fits, U64
<1>3. Paid(u) = Wrap(c + e) * DECIMALS + b /\ Paid(t) = c * DECIMALS + b
  BY DEF AfterClaim, Paid, RewardTracker
<1>4. MintAmount(t) = Wrap(e * DECIMALS)
  BY DEF MintAmount
<1>5. Wrap(c + e) = c + e /\ Wrap(e * DECIMALS) = e * DECIMALS
  BY <1>2, WrapFits
<1> HIDE DEF c, e, b, u
<1>. QED
  BY <1>1, <1>3, <1>4, <1>5 DEF u

\* A step that changes what nobody was paid, nor the total, keeps the balance.
LEMMA LedgerUnmoved ==
    ASSUME LedgerInv, trackers' = trackers,
           \A v \in Wallets : Paid(reward_tracker'[v]) = Paid(reward_tracker[v]),
           reward_state'.initialized = reward_state.initialized,
           reward_state'.total_minted = reward_state.total_minted
    PROVE  LedgerBalanced'
<1>1. PaidTo' = PaidTo
  BY DEF PaidTo
<1>. QED
  BY <1>1 DEF LedgerInv, LedgerBalanced, PaidTo

\* A payment to one operator moves both sides by its amount.
LEMMA LedgerMoves ==
    ASSUME LedgerInv, TypeOK', trackers' = trackers, NEW op \in trackers,
           \A v \in Wallets \ {op} : reward_tracker'[v] = reward_tracker[v],
           NEW amount \in U64,
           Wrap(Paid(reward_tracker'[op]) - Paid(reward_tracker[op])) = amount,
           OverflowChecks => Paid(reward_tracker'[op]) - Paid(reward_tracker[op]) = amount,
           Fits(reward_state.total_minted + amount),
           reward_state'.initialized = reward_state.initialized,
           reward_state'.total_minted = Wrap(reward_state.total_minted + amount)
    PROVE  LedgerBalanced'
<1> DEFINE sum == SumFunctionOnSet(PaidTo, trackers)
           after == SumFunctionOnSet(PaidTo', trackers)
           d == Paid(reward_tracker'[op]) - Paid(reward_tracker[op])
           total == reward_state.total_minted
<1>1. /\ trackers \subseteq Wallets /\ IsFiniteSet(trackers)
      /\ reward_tracker \in [Wallets -> RewardTracker]
      /\ reward_tracker' \in [Wallets -> RewardTracker]
      /\ total \in U64
      /\ reward_state.initialized
  BY DEF LedgerInv, TypeOK, RewardState
<1>2. /\ \A v \in trackers : PaidTo[v] \in Int
      /\ PaidTo'[op] \in Int
      /\ \A v \in trackers \ {op} : PaidTo'[v] = PaidTo[v]
      /\ PaidTo'[op] - PaidTo[op] = d
  BY <1>1, PaidType DEF PaidTo
<1>3. sum \in Int /\ after = sum + d /\ d \in Int
  <2>1. after = sum + (PaidTo'[op] - PaidTo[op])
    BY <1>1, <1>2, SumOneChanged
  <2>2. sum \in Int
    BY <1>1, <1>2, SumSame
  <2>. QED
    BY <1>2, <2>1, <2>2
<1>4. /\ total = Wrap(sum)
      /\ OverflowChecks => total = sum
  BY <1>1 DEF LedgerInv, LedgerBalanced, PaidTo
<1> HIDE DEF sum, after, d, total
<1>5. Wrap(after) = Wrap(total + amount)
  <2>1. Wrap(sum + Wrap(d)) = Wrap(sum + d)
    BY <1>3, WrapSum
  <2>2. amount = Wrap(d) /\ amount \in Int
    BY DEF d, U64
  <2>3. Wrap(amount + Wrap(sum)) = Wrap(amount + sum)
    BY <1>3, <2>2, WrapSum
  <2>4. amount + Wrap(sum) = total + amount /\ amount + sum = sum + Wrap(d)
    BY <1>1, <1>3, <1>4, <2>2 DEF U64
  <2>. QED
    BY <1>3, <2>1, <2>3, <2>4
<1>6. ASSUME OverflowChecks
      PROVE  Wrap(total + amount) = after
  <2>1. total + amount \in U64
    BY <1>1, <1>6, U64Assumption DEF Fits, U64, total
  <2>2. Wrap(total + amount) = total + amount
    BY <2>1, WrapFits
  <2>3. d = amount
    BY <1>6 DEF d
  <2>. QED
    BY <1>3, <1>4, <1>6, <2>2, <2>3
<1>7. /\ reward_state'.total_minted = Wrap(total + amount)
      /\ trackers' = trackers
  BY DEF total
<1>8. /\ reward_state'.total_minted = Wrap(after)
      /\ OverflowChecks => reward_state'.total_minted = after
  BY <1>5, <1>6, <1>7
<1>. QED
  BY <1>7, <1>8 DEF LedgerBalanced, PaidTo, after

LEMMA LedgerInit == Init => LedgerInv
  BY TypeInit, FS_EmptySet DEF Init, LedgerInv, LedgerBalanced

LEMMA LedgerStep == LedgerInv /\ [Next]_vars => LedgerInv'
<1> SUFFICES ASSUME LedgerInv, [Next]_vars
             PROVE  LedgerInv'
  OBVIOUS
<1>1. /\ TypeOK /\ TypeOK'
      /\ reward_tracker \in [Wallets -> RewardTracker]
      /\ trackers \subseteq Wallets /\ IsFiniteSet(trackers)
      /\ trackers # {} => reward_state.initialized
      /\ reward_state \in RewardState
  BY TypeStep DEF LedgerInv, TypeOK
<1>2. ASSUME NEW signer \in Wallets, NEW m \in Mints, NEW pool \in Pools,
             NEW n \in TopNs, Initialize(signer, m, pool, n)
      PROVE  LedgerInv'
  <2>1. trackers = {} /\ trackers' = {} /\ reward_state'.total_minted = 0
    BY <1>1, <1>2 DEF Initialize
  <2>2. SumFunctionOnSet(PaidTo', {}) = 0 /\ Wrap(0) = 0
    BY SumOfNone, ConstantFacts, WrapFits
  <2>3. LedgerBalanced'
    BY <2>1, <2>2 DEF LedgerBalanced, PaidTo
  <2>. QED
    BY <1>1, <2>1, <2>3 DEF LedgerInv
<1>3. ASSUME NEW signer \in Wallets, NEW op \in Wallets, InitRewardTracker(signer, op)
      PROVE  LedgerInv'
  <2>1. /\ reward_state.initialized /\ reward_state' = reward_state
        /\ op \notin trackers /\ trackers' = trackers \cup {op}
        /\ reward_tracker' = [reward_tracker EXCEPT ![op] = NewTracker]
    BY <1>3 DEF InitRewardTracker, IsAuthority
  <2>2. Paid(NewTracker) = 0
    BY ConstantFacts DEF Paid, NewTracker
  <2>3. /\ \A v \in trackers : /\ PaidTo[v] \in Int
                                /\ PaidTo'[v] \in Int
                                /\ PaidTo'[v] = PaidTo[v]
        /\ PaidTo'[op] = 0 /\ PaidTo'[op] \in Int
    BY <1>1, <2>1, <2>2, PaidType DEF PaidTo
  <2>4. /\ SumFunctionOnSet(PaidTo, trackers) \in Int
        /\ SumFunctionOnSet(PaidTo', trackers) = SumFunctionOnSet(PaidTo, trackers)
    BY <1>1, <2>3, SumSame
  <2>5. SumFunctionOnSet(PaidTo', trackers \cup {op})
          = SumFunctionOnSet(PaidTo', trackers) + PaidTo'[op]
    BY <1>1, <2>1, <2>3, SumOneMore
  <2>6. SumFunctionOnSet(PaidTo', trackers') = SumFunctionOnSet(PaidTo, trackers)
    BY <2>1, <2>3, <2>4, <2>5
  <2>7. LedgerBalanced'
    BY <2>1, <2>6 DEF LedgerInv, LedgerBalanced, PaidTo
  <2>8. IsFiniteSet(trackers')
    BY <1>1, <2>1, FS_AddElement
  <2>. QED
    BY <1>1, <2>1, <2>7, <2>8 DEF LedgerInv
<1>4. ASSUME trackers' = trackers,
             reward_state'.initialized = reward_state.initialized, LedgerBalanced'
      PROVE  LedgerInv'
  BY <1>1, <1>4 DEF LedgerInv
<1>5. ASSUME NEW signer \in Wallets, NEW op \in Wallets, NEW count \in HeartbeatCounts,
             RecordHeartbeats(signer, op, count)
      PROVE  LedgerInv'
  <2>1. trackers' = trackers /\ reward_state' = reward_state
    BY <1>5 DEF RecordHeartbeats
  <2>2. \A v \in Wallets : Paid(reward_tracker'[v]) = Paid(reward_tracker[v])
    BY <1>1, <1>5 DEF RecordHeartbeats, AfterHeartbeats, Paid, RewardTracker
  <2>. QED
    BY <1>4, <2>1, <2>2, LedgerUnmoved
<1>6. ASSUME NEW op \in Wallets, NEW m \in Mints, ClaimHeartbeatRewards(op, m)
      PROVE  LedgerInv'
  <2> DEFINE t == reward_tracker[op]
             amount == MintAmount(t)
  <2>1. /\ op \in trackers /\ trackers' = trackers
        /\ Fits(t.total_claimed + TokensEarned(t))
        /\ Fits(TokensEarned(t) * DECIMALS)
        /\ Fits(reward_state.total_minted + amount)
        /\ reward_tracker' = [reward_tracker EXCEPT ![op] = AfterClaim(t)]
        /\ reward_state' = AfterMint(reward_state, amount)
    BY <1>6 DEF ClaimHeartbeatRewards
  <2>2. /\ reward_tracker'[op] = AfterClaim(t)
        /\ \A v \in Wallets \ {op} : reward_tracker'[v] = reward_tracker[v]
        /\ t \in RewardTracker
    BY <1>1, <2>1
  <2>3. /\ amount \in U64
        /\ Wrap(Paid(AfterClaim(t)) - Paid(t)) = amount
        /\ OverflowChecks => Paid(AfterClaim(t)) - Paid(t) = amount
    BY <2>1, <2>2, MintAmountType, ClaimPays, ClaimPaysExactly
  <2>4. /\ reward_state'.initialized = reward_state.initialized
        /\ reward_state'.total_minted = Wrap(reward_state.total_minted + amount)
    BY <1>1, <2>1 DEF AfterMint, RewardState
  <2> HIDE DEF amount
  <2>5. LedgerBalanced'
    BY <1>1, <2>1, <2>2, <2>3, <2>4, LedgerMoves
  <2>. QED
    BY <1>4, <2>1, <2>4, <2>5
<1>7. ASSUME NEW signer \in Wallets, NEW op \in Wallets, NEW m \in Mints,
             NEW rank \in 0..reward_state.top_n + 1, NEW bps \in BonusBps,
             DistributeEpochBonus(signer, op, m, rank, bps)
      PROVE  LedgerInv'
  <2> DEFINE amount == BonusAmount(reward_state.epoch_reward_pool,
                                   reward_state.top_n, rank, bps)
  <2>1. amount \in U64
    BY <1>1, <1>7, RewardsAssumption, BonusAmountType DEF DistributeEpochBonus, TypeOK, RewardState
  <2>2. /\ op \in trackers /\ trackers' = trackers
        /\ Fits(reward_tracker[op].epoch_bonus_claimed + amount)
        /\ Fits(reward_state.total_minted + amount)
        /\ reward_state' = AfterDistribution(reward_state, amount)
        /\ reward_tracker' = [reward_tracker EXCEPT ![op].epoch_bonus_claimed = Wrap(@ + amount)]
    BY <1>7 DEF DistributeEpochBonus
  <2> HIDE DEF amount
  <2> DEFINE b == reward_tracker[op].epoch_bonus_claimed
             c == reward_tracker[op].total_claimed
             d == Paid(reward_tracker'[op]) - Paid(reward_tracker[op])
  <2>3. /\ reward_state'.initialized = reward_state.initialized
        /\ reward_state'.total_minted = Wrap(reward_state.total_minted + amount)
    BY <1>1, <2>2 DEF AfterDistribution, AfterMint, RewardState
  <2>4. /\ reward_tracker'[op].epoch_bonus_claimed = Wrap(b + amount)
        /\ reward_tracker'[op].total_claimed = c
        /\ \A v \in Wallets \ {op} : reward_tracker'[v] = reward_tracker[v]
    BY <1>1, <2>2 DEF RewardTracker
  <2>5. b \in Nat /\ c \in Nat /\ DECIMALS \in Nat /\ amount \in Nat
    BY <1>1, <2>1, ConstantFacts DEF RewardTracker, U64
  <2>6. Wrap(b + amount) \in Int
    BY <2>5, WrapType DEF U64
  <2>7. d = (-b) + Wrap(b + amount)
    BY <2>4, <2>5, <2>6 DEF Paid
  <2>8. OverflowChecks => b + amount \in U64
    BY <2>2, <2>5, U64Assumption DEF Fits, U64
  <2> HIDE DEF b, c, d
  <2>9. Wrap(d) = amount
    <3>1. Wrap((-b) + Wrap(b + amount)) = Wrap((-b) + (b + amount))
      BY <2>5, WrapSum
    <3>2. Wrap((-b) + (b + amount)) = amount
      BY <2>1, <2>5, WrapFits
    <3>. QED
      BY <2>7, <3>1, <3>2
  <2>10. OverflowChecks => d = amount
    <3>1. OverflowChecks => Wrap(b + amount) = b + amount
      BY <2>8, WrapFits
    <3>. QED
      BY <2>5, <2>7, <3>1
  <2>11. LedgerBalanced'
    BY <1>1, <2>1, <2>2, <2>3, <2>4, <2>9, <2>10, LedgerMoves DEF d
  <2>. QED
    BY <1>4, <2>2, <2>3, <2>11
<1>8. ASSUME NEW signer \in Wallets, NEW pool \in Pools, UpdateEpochPool(signer, pool)
      PROVE  LedgerInv'
  <2>1. /\ trackers' = trackers /\ reward_tracker' = reward_tracker
        /\ reward_state'.initialized = reward_state.initialized
        /\ reward_state'.total_minted = reward_state.total_minted
    BY <1>1, <1>8 DEF UpdateEpochPool, RewardState
  <2>. QED
    BY <1>4, <2>1, LedgerUnmoved
<1>9. ASSUME UNCHANGED <<reward_state, trackers, reward_tracker>>
      PROVE  LedgerInv'
  BY <1>4, <1>9, LedgerUnmoved
<1>. QED
  BY <1>2, <1>3, <1>5, <1>6, <1>7, <1>8, <1>9 DEF Next, TokenStep, vars

\* For any number of operators, any width and both builds: the program's total is
\* the sum over the trackers of what they say was paid, exactly in a checked build
\* and modulo the width in one that wraps.
THEOREM LedgerAlwaysBalanced == Spec => []LedgerBalanced
<1>1. LedgerInv => LedgerBalanced
  BY DEF LedgerInv
<1>. QED
  BY LedgerInit, LedgerStep, <1>1, PTL DEF Spec
--------------------------------------------------------------------------------
(***************************************************************************)
(* The accounts the program keeps of mint and authority.                   *)
(***************************************************************************)

\* The mint and the authority recorded by initialize stay.
KeysKnown ==
    reward_state.initialized =>
      reward_state.mint \in Mints /\ reward_state.authority \in Wallets

MintInv == TypeOK /\ KeysKnown

LEMMA MintInvInit == Init => MintInv
  BY TypeInit DEF Init, MintInv, KeysKnown

LEMMA MintInvStep ==
    ASSUME MintInv, [Next]_vars
    PROVE  MintInv'
<1>1. TypeOK' /\ TypeOK /\ KeysKnown
  BY TypeStep DEF MintInv
<1>2. ASSUME NEW signer \in Wallets, NEW m \in Mints, NEW pool \in Pools,
             NEW n \in TopNs, Initialize(signer, m, pool, n)
      PROVE  KeysKnown'
  BY <1>2 DEF Initialize, KeysKnown
<1>3. ASSUME reward_state'.initialized = reward_state.initialized,
             reward_state'.mint = reward_state.mint,
             reward_state'.authority = reward_state.authority
      PROVE  KeysKnown'
  BY <1>1, <1>3 DEF KeysKnown
<1>4. ASSUME NEW op \in Wallets, NEW m \in Mints, ClaimHeartbeatRewards(op, m)
      PROVE  KeysKnown'
  BY <1>1, <1>3, <1>4 DEF ClaimHeartbeatRewards, AfterMint, TypeOK, RewardState
<1>5. ASSUME NEW signer \in Wallets, NEW op \in Wallets, NEW m \in Mints,
             NEW rank \in 0..reward_state.top_n + 1, NEW bps \in BonusBps,
             DistributeEpochBonus(signer, op, m, rank, bps)
      PROVE  KeysKnown'
  <2>1. PICK amount : reward_state' = AfterDistribution(reward_state, amount)
    BY <1>5 DEF DistributeEpochBonus
  <2>. QED
    BY <1>1, <1>3, <2>1 DEF AfterDistribution, AfterMint, TypeOK, RewardState
<1>6. ASSUME NEW signer \in Wallets, NEW pool \in Pools, UpdateEpochPool(signer, pool)
      PROVE  KeysKnown'
  BY <1>1, <1>3, <1>6 DEF UpdateEpochPool, TypeOK, RewardState
<1>7. ASSUME reward_state' = reward_state
      PROVE  KeysKnown'
  BY <1>3, <1>7
<1>. QED
  BY <1>1, <1>2, <1>4, <1>5, <1>6, <1>7
     DEF MintInv, Next, InitRewardTracker, RecordHeartbeats, TokenStep, vars

--------------------------------------------------------------------------------
(***************************************************************************)
(* What BatchesArePaid rests on besides the fairness of the operators: an  *)
(* operator that is due a batch can claim, and a claim pays all of them.   *)
(***************************************************************************)

\* The batches recorded for an operator so far.
FullBatches(t) == t.total_heartbeats \div HEARTBEATS_PER_TOKEN

\* The guard of ClaimHeartbeatRewards, for the program's mint.
ClaimReady(op) ==
    LET t == reward_tracker[op]
        mint_amount == MintAmount(t)
    IN  /\ reward_state.initialized
        /\ TokensEarned(t) > 0
        /\ Fits(t.total_claimed + TokensEarned(t))
        /\ Fits(TokensEarned(t) * DECIMALS)
        /\ Fits(reward_state.total_minted + mint_amount)
        /\ mint_authority[reward_state.mint] = RewardPda
        /\ supply[reward_state.mint] + mint_amount <= U64Max

\* Nobody claimed for so long that the amount is no u64 any more.
BacklogTooLarge(op) == ~Fits(TokensEarned(reward_tracker[op]) * DECIMALS)

\* An operator with a batch that was not paid can claim it.
DueIsClaimable ==
    \A op \in trackers :
      reward_tracker[op].total_claimed < FullBatches(reward_tracker[op])
        => ClaimReady(op) \/ NoRoomFor(op) \/ BacklogTooLarge(op)

\* What is paid moves to the number of full batches, and nowhere else.
ClaimsPayInFull ==
    [][\A op \in trackers :
         reward_tracker'[op].total_claimed # reward_tracker[op].total_claimed
           => reward_tracker'[op].total_claimed = FullBatches(reward_tracker[op])]_vars

\* The full batches of a tracker: those paid, and those that are pending.
LEMMA BatchesSplit ==
    ASSUME NEW t \in RewardTracker, Conserved(t), OverflowChecks
    PROVE  FullBatches(t) = t.total_claimed + TokensEarned(t)
<1> DEFINE h == HEARTBEATS_PER_TOKEN
           c == t.total_claimed
           e == TokensEarned(t)
           s == t.heartbeats_since_last_claim
           r == t.heartbeats_since_last_claim % HEARTBEATS_PER_TOKEN
           n == t.total_heartbeats
<1>1. h \in Nat \ {0} /\ c \in Nat /\ e \in Nat /\ n \in Nat /\ s \in Int
  BY ConstantFacts, ClaimSplits DEF RewardTracker, U64
<1>2. r \in 0..h-1
  <2>1. r = s % h
    OBVIOUS
  <2> HIDE DEF h, s, r
  <2>. QED
    BY <1>1, <2>1, DivMod
<1>3. n = h * c + (h * e + r)
  BY ClaimSplits DEF Conserved, Accounted
<1> HIDE DEF h, c, e, r, n
<1>4. n = h * (c + e) + r
  BY <1>1, <1>2, <1>3
<1>5. n \div h = c + e
  BY <1>1, <1>2, <1>4, QuotientUnique
<1>. QED
  BY <1>5 DEF FullBatches, n, h, c, e

\* For every build with overflow checks: whoever is due a batch can claim it, unless
\* the token has no room for it, or the backlog itself is no u64 any more, in which
\* case claim_heartbeat_rewards fails from then on.
THEOREM DueBatchesAreClaimable ==
    ASSUME OverflowChecks
    PROVE  Spec => []DueIsClaimable
<1> DEFINE Inv == LedgerInv /\ MintInv /\ HeartbeatsConserved
<1>1. Init => Inv
  BY LedgerInit, MintInvInit, ConservedInit
<1>2. Inv /\ [Next]_vars => Inv'
  BY LedgerStep, MintInvStep, ConservedStep DEF LedgerInv
<1>3. ASSUME Inv, NEW op \in trackers,
             reward_tracker[op].total_claimed < FullBatches(reward_tracker[op])
      PROVE  ClaimReady(op) \/ NoRoomFor(op) \/ BacklogTooLarge(op)
  <2> DEFINE t == reward_tracker[op]
  <2>1. t \in RewardTracker /\ Conserved(t) /\ reward_state.initialized
    BY <1>3 DEF LedgerInv, TypeOK, HeartbeatsConserved, Conserved, Accounted
  <2>2. t.total_claimed < FullBatches(t)
    BY <1>3
  <2> HIDE DEF t
  <2>3. /\ t.total_claimed \in Nat /\ TokensEarned(t) \in Nat /\ t.total_heartbeats \in U64
        /\ FullBatches(t) = t.total_claimed + TokensEarned(t)
    BY <2>1, ClaimSplits, BatchesSplit DEF RewardTracker, U64
  <2>4. TokensEarned(t) > 0
    BY <2>2, <2>3
  <2>5. FullBatches(t) <= U64Max
    <3> DEFINE h == HEARTBEATS_PER_TOKEN
               n == t.total_heartbeats
               b == FullBatches(t)
    <3>1. /\ h \in Nat \ {0} /\ n \in Nat /\ n <= U64Max /\ b \in Nat /\ b = n \div h
      BY <2>3, ConstantFacts DEF U64, FullBatches
    <3> HIDE DEF h, n, b
    <3>2. PICK r \in 0..h-1 : n = h * b + r
      <4>1. n % h \in 0..h-1 /\ n = h * (n \div h) + (n % h)
        BY <3>1, DivMod
      <4>. QED
        BY <3>1, <4>1
    <3>3. b <= h * b
      BY <3>1
    <3>. QED
      BY <3>1, <3>2, <3>3, ConstantFacts DEF b
  <2>6. Fits(t.total_claimed + TokensEarned(t))
    BY <2>3, <2>5 DEF Fits
  <2>7. supply[reward_state.mint] + MintAmount(t) \in Nat
    BY <1>3, <2>1, MintAmountType DEF MintInv, KeysKnown, TypeOK, TokenTypeOK, U64
  <2>. QED
    BY <2>1, <2>4, <2>6, <2>7, ConstantFacts DEF ClaimReady, NoRoomFor, BacklogTooLarge, t
<1>4. Inv => DueIsClaimable
  BY <1>3 DEF DueIsClaimable
<1> HIDE DEF Inv
<1>. QED
  BY <1>1, <1>2, <1>4, PTL DEF Spec

\* For every build with overflow checks: a claim pays every full batch there is, and
\* no other instruction moves what an operator was paid for heartbeats.
THEOREM ClaimsArePaidInFull ==
    ASSUME OverflowChecks
    PROVE  Spec => ClaimsPayInFull
<1> DEFINE Inv == TypeOK /\ HeartbeatsConserved
           PaidInFull == \A op \in trackers :
             reward_tracker'[op].total_claimed # reward_tracker[op].total_claimed
               => reward_tracker'[op].total_claimed = FullBatches(reward_tracker[op])
<1>1. Init => Inv
  BY TypeInit, ConservedInit
<1>2. Inv /\ [Next]_vars => Inv'
  BY TypeStep, ConservedStep
<1>3. ASSUME Inv, Next, NEW w \in trackers,
             reward_tracker'[w].total_claimed # reward_tracker[w].total_claimed
      PROVE  reward_tracker'[w].total_claimed = FullBatches(reward_tracker[w])
  <2>1. /\ w \in Wallets /\ reward_tracker \in [Wallets -> RewardTracker]
        /\ Conserved(reward_tracker[w])
    BY <1>3 DEF TypeOK, HeartbeatsConserved, Conserved, Accounted
  <2>2. ASSUME NEW signer \in Wallets, NEW op \in Wallets, InitRewardTracker(signer, op)
        PROVE  FALSE
    BY <1>3, <2>1, <2>2 DEF InitRewardTracker
  <2>3. ASSUME NEW signer \in Wallets, NEW op \in Wallets, NEW count \in HeartbeatCounts,
               RecordHeartbeats(signer, op, count)
        PROVE  FALSE
    BY <1>3, <2>1, <2>3 DEF RecordHeartbeats, AfterHeartbeats, RewardTracker
  <2>4. ASSUME NEW op \in Wallets, NEW m \in Mints, ClaimHeartbeatRewards(op, m)
        PROVE  reward_tracker'[w].total_claimed = FullBatches(reward_tracker[w])
    <3> DEFINE t == reward_tracker[w]
    <3>1. reward_tracker' = [reward_tracker EXCEPT ![op] = AfterClaim(reward_tracker[op])]
          /\ Fits(reward_tracker[op].total_claimed + TokensEarned(reward_tracker[op]))
      BY <2>4 DEF ClaimHeartbeatRewards
    <3>2. w = op
      BY <1>3, <2>1, <3>1
    <3>3. reward_tracker'[w] = AfterClaim(t) /\ Fits(t.total_claimed + TokensEarned(t))
          /\ t \in RewardTracker /\ Conserved(t)
      BY <2>1, <3>1, <3>2
    <3> HIDE DEF t
    <3>4. /\ FullBatches(t) = t.total_claimed + TokensEarned(t)
          /\ t.total_claimed + TokensEarned(t) \in Nat
      BY <3>3, BatchesSplit, ClaimSplits DEF RewardTracker, U64
    <3>5. Wrap(t.total_claimed + TokensEarned(t)) = t.total_claimed + TokensEarned(t)
      BY <3>3, <3>4, WrapFits DEF Fits, U64
    <3>6. AfterClaim(t).total_claimed = Wrap(t.total_claimed + TokensEarned(t))
      BY <3>3 DEF AfterClaim, RewardTracker
    <3>. QED
      BY <3>3, <3>4, <3>5, <3>6 DEF t
  <2>5. ASSUME NEW signer \in Wallets, NEW op \in Wallets, NEW m \in Mints, NEW rank, NEW bps,
               DistributeEpochBonus(signer, op, m, rank, bps)
        PROVE  FALSE
    <3>1. PICK bonus : reward_tracker' = [reward_tracker EXCEPT ![op].epoch_bonus_claimed = bonus]
      BY <2>5 DEF DistributeEpochBonus
    <3>. QED
      BY <1>3, <2>1, <3>1 DEF RewardTracker
  <2>6. ASSUME UNCHANGED reward_tracker
        PROVE  FALSE
    BY <1>3, <2>6
  <2>. QED
    BY <1>3, <2>2, <2>3, <2>4, <2>5, <2>6
       DEF Next, Initialize, UpdateEpochPool, TokenStep
<1>4. Inv /\ [Next]_vars => [PaidInFull]_vars
  BY <1>3
<1> HIDE DEF Inv
<1>. QED
  BY <1>1, <1>2, <1>4, PTL DEF Spec, ClaimsPayInFull
--------------------------------------------------------------------------------
(***************************************************************************)
(* The rounds of the authority: what the shares of a round add up to.      *)
(***************************************************************************)

\* Products of naturals grow with their factors.
LEMMA ProductMonotonic ==
    ASSUME NEW a \in Int, NEW b \in Int, NEW c \in Nat, a <= b
    PROVE  a * c <= b * c /\ a * c \in Int /\ b * c \in Int
<1>1. (b - a) * c >= 0
  OBVIOUS
<1>2. (b - a) * c = b * c - a * c
  OBVIOUS
<1>. QED
  BY <1>1, <1>2

\* The division by two that makes the divisor of the shares loses nothing.
LEMMA TotalWeightExact ==
    ASSUME NEW n \in Nat
    PROVE  TotalWeight(n) \in Nat /\ 2 * TotalWeight(n) = n * (n + 1)
<1>1. PICK q \in Int, r \in 0..1 : n = 2 * q + r
  <2>1. n \div 2 \in Int /\ n % 2 \in 0..2-1 /\ n = 2 * (n \div 2) + (n % 2)
    BY DivMod
  <2>. QED
    BY <2>1
<1>2. PICK j \in Int : n * (n + 1) = 2 * j
  <2>1. CASE r = 0
    <3>1. n * (n + 1) = 2 * (q * (2 * q + 1)) /\ q * (2 * q + 1) \in Int
      BY <1>1, <2>1
    <3>. QED
      BY <3>1
  <2>2. CASE r = 1
    <3>1. n * (n + 1) = 2 * ((2 * q + 1) * (q + 1)) /\ (2 * q + 1) * (q + 1) \in Int
      BY <1>1, <2>2
    <3>. QED
      BY <3>1
  <2>. QED
    BY <1>1, <2>1, <2>2
<1>3. n * (n + 1) >= 0
  OBVIOUS
<1>4. (2 * j) \div 2 = j
  OBVIOUS
<1>. QED
  BY <1>2, <1>3, <1>4 DEF TotalWeight

\* Rounding down: what a quotient is multiplied back to.
LEMMA QuotientBelow ==
    ASSUME NEW x \in Nat, NEW d \in Nat \ {0}
    PROVE  x \div d \in Nat /\ d * (x \div d) <= x
<1>1. PICK q \in Int, r \in 0..d-1 : x \div d = q /\ x = d * q + r
  BY DivMod
<1>2. q >= 0
  BY <1>1
<1>. QED
  BY <1>1, <1>2

\* A checked payment is at most its rank's share of the pool, plus 5%.
LEMMA PaymentWithinShare ==
    ASSUME OverflowChecks, NEW pool \in U64, NEW n \in Nat, NEW rank \in Nat,
           NEW bps \in Nat, ValidBonus(n, rank, bps), BonusFits(pool, n, rank, bps)
    PROVE  /\ BonusAmount(pool, n, rank, bps) \in Nat
           /\ 20 * (TotalWeight(n) * BonusAmount(pool, n, rank, bps))
                <= 21 * ((pool * DECIMALS) * Weight(n, rank))
<1> DEFINE w == Weight(n, rank)
           total == TotalWeight(n)
           base == BaseAmount(pool, n, rank)
           bonus == ReferralBonus(base, bps)
<1>1. /\ pool \in Nat /\ w \in Nat /\ total \in Nat \ {0} /\ DECIMALS \in Nat
      /\ bps <= 500
  <2>1. n \in Nat \ {0} /\ rank <= n /\ bps <= 500
    BY DEF ValidBonus
  <2>. QED
    BY <2>1, TotalWeightPositive, ConstantFacts DEF Weight, U64
<1>2. /\ Fits(pool * w) /\ Fits(Wrap(pool * w) * DECIMALS)
      /\ Fits(base * bps) /\ Fits(base + bonus)
  BY DEF BonusFits
<1>3. pool * w \in U64 /\ Wrap(pool * w) = pool * w
  <2>1. pool * w \in Nat
    BY <1>1
  <2>2. pool * w \in U64
    BY <1>2, <2>1, U64Assumption DEF Fits, U64
  <2>. QED
    BY <2>2, WrapFits
<1>4. (pool * w) * DECIMALS \in U64 /\ Wrap((pool * w) * DECIMALS) = (pool * w) * DECIMALS
  <2>1. (pool * w) * DECIMALS \in Nat
    BY <1>1
  <2>2. (pool * w) * DECIMALS \in U64
    BY <1>2, <1>3, <2>1, U64Assumption DEF Fits, U64
  <2>. QED
    BY <2>2, WrapFits
<1>5. base = ((pool * w) * DECIMALS) \div total
  BY <1>3, <1>4 DEF BaseAmount
<1>6. base \in Nat /\ total * base <= (pool * w) * DECIMALS
  <2>1. (pool * w) * DECIMALS \in Nat
    BY <1>4 DEF U64
  <2> HIDE DEF w, total, base
  <2>. QED
    BY <1>1, <1>5, <2>1, QuotientBelow
<1>7. (pool * w) * DECIMALS = (pool * DECIMALS) * w
  <2> HIDE DEF w
  <2>. QED
    BY <1>1
<1>8. bonus \in Nat /\ 20 * bonus <= base
  <2>1. base * bps \in Nat /\ base * bps <= base * 500
    <3> HIDE DEF base
    <3>1. bps * base <= 500 * base
      BY <1>1, <1>6, ProductMonotonic
    <3>. QED
      BY <1>6, <3>1
  <2>2. Wrap(base * bps) = base * bps
    <3>1. base * bps \in U64
      BY <1>2, <2>1, U64Assumption DEF Fits, U64
    <3>. QED
      BY <3>1, WrapFits
  <2>3. bonus = (base * bps) \div 10000
    BY <2>2 DEF ReferralBonus
  <2> HIDE DEF base, bonus
  <2>4. bonus \in Nat /\ 10000 * bonus <= base * bps
    BY <2>1, <2>3, QuotientBelow
  <2>. QED
    BY <2>1, <2>4, <1>6
<1>9. BonusAmount(pool, n, rank, bps) = base + bonus
  <2>1. base + bonus \in U64
    BY <1>2, <1>6, <1>8, U64Assumption DEF Fits, U64
  <2>2. Wrap(base + bonus) = base + bonus
    BY <2>1, WrapFits
  <2>. QED
    BY <2>2 DEF BonusAmount
<1> HIDE DEF w, total, base, bonus
<1>10. 20 * (total * (base + bonus)) <= 21 * (total * base)
  <2>1. (20 * (base + bonus)) * total <= (21 * base) * total
    BY <1>1, <1>6, <1>8, ProductMonotonic
  <2>. QED
    BY <1>1, <1>6, <1>8, <2>1
<1>11. total * base \in Nat /\ (pool * DECIMALS) * w \in Nat /\ base + bonus \in Nat
  BY <1>1, <1>6, <1>8
<1>12. 20 * (total * (base + bonus)) \in Nat
  BY <1>1, <1>11
<1>13. 20 * (total * (base + bonus)) <= 21 * ((pool * DECIMALS) * w)
  BY <1>6, <1>7, <1>10, <1>11, <1>12
<1>. QED
  BY <1>9, <1>11, <1>13 DEF w, total

\* Twice the weights of the ranks before k.
WeightBefore(n, k) == n * (n + 1) - (n - k + 1) * (n - k + 2)

LEMMA WeightBeforeFacts ==
    ASSUME NEW n \in Nat, NEW k \in Nat \ {0}, k <= n + 1
    PROVE  /\ WeightBefore(n, k) \in Nat
           /\ WeightBefore(n, 1) = 0
           /\ WeightBefore(n, k) <= n * (n + 1)
           /\ WeightBefore(n, k + 1) = WeightBefore(n, k) + 2 * Weight(n, k)
<1> DEFINE c == n - k + 1
<1>1. c \in Nat /\ c <= n /\ n * (n + 1) \in Nat
  OBVIOUS
<1>2. (n - k + 1) * (n - k + 2) = c * (c + 1)
  OBVIOUS
<1>3. (n - (k + 1) + 1) * (n - (k + 1) + 2) = (c - 1) * c
  OBVIOUS
<1>4. (n - 1 + 1) * (n - 1 + 2) = n * (n + 1)
  OBVIOUS
<1>5. Weight(n, k) = c
  BY DEF Weight
<1> HIDE DEF c
<1>6. c * (c + 1) \in Nat /\ c * (c + 1) <= n * (n + 1)
  <2>1. c * (c + 1) <= n * (c + 1)
    BY <1>1, ProductMonotonic
  <2>2. (c + 1) * n <= (n + 1) * n
    BY <1>1, ProductMonotonic
  <2>3. n * (c + 1) = (c + 1) * n /\ n * (n + 1) = (n + 1) * n /\ n * (c + 1) \in Int
        /\ c * (c + 1) \in Nat
    BY <1>1
  <2>. QED
    BY <1>1, <2>1, <2>2, <2>3
<1>7. (c - 1) * c = c * (c + 1) - 2 * c
  BY <1>1
<1>. QED
  BY <1>1, <1>2, <1>3, <1>4, <1>5, <1>6, <1>7 DEF WeightBefore

\* The shares paid so far, and one more, of a pool that may have changed.
LEMMA SharesAdd ==
    ASSUME NEW t \in Nat, NEW paid \in Nat, NEW amount \in Nat, NEW before \in Nat,
           NEW w \in Nat, NEW q \in Nat, NEW x \in Nat, NEW r \in Nat,
           40 * (t * paid) <= 21 * (q * before),
           20 * (t * amount) <= 21 * (x * w),
           q <= r, x <= r
    PROVE  40 * (t * (paid + amount)) <= 21 * (r * (before + 2 * w))
<1>1. q * before <= r * before /\ x * w <= r * w
  BY ProductMonotonic
<1>2. t * (paid + amount) = t * paid + t * amount /\ t * paid \in Nat /\ t * amount \in Nat
  OBVIOUS
<1>3. /\ r * (before + 2 * w) = r * before + 2 * (r * w)
      /\ r * before \in Nat /\ r * w \in Nat /\ q * before \in Nat /\ x * w \in Nat
  OBVIOUS
<1>. QED
  BY <1>1, <1>2, <1>3
--------------------------------------------------------------------------------
(***************************************************************************)
(* A round mints at most the pool plus 5%.                                 *)
(***************************************************************************)

\* What the ranks before next_rank were paid is within their shares of the
\* largest pool, plus 5% (times 40 and the total weight, which the shares are
\* divided by).
WithinShares ==
    40 * (TotalWeight(reward_state.top_n) * round_paid)
      <= 21 * ((round_pool * DECIMALS) * WeightBefore(reward_state.top_n, next_rank))

\* What the authority's program maintains of its own state.
RoundsInv ==
    /\ leaderboard \in Seq(Wallets)
    /\ next_rank \in Nat \ {0}
    /\ round_paid \in Nat
    /\ round_pool \in Nat
    /\ leaderboard # << >> =>
         /\ reward_state.initialized
         /\ Len(leaderboard) <= reward_state.top_n
         /\ next_rank <= Len(leaderboard) + 1
         /\ OverflowChecks => WithinShares
    /\ RoundWithinPool

\* What the instructions maintain, whoever sends them.
ProgramInv == MintInv /\ LedgerInv

LEMMA RoundsInvInit == RoundsInit => ProgramInv /\ RoundsInv
<1> SUFFICES ASSUME RoundsInit
             PROVE  ProgramInv /\ RoundsInv
  OBVIOUS
<1>1. ProgramInv
  BY MintInvInit, LedgerInit DEF RoundsInit, ProgramInv
<1>2. leaderboard \in Seq(Wallets) /\ leaderboard = << >>
  BY DEF RoundsInit
<1>3. RoundWithinPool
  BY ConstantFacts DEF RoundsInit, RoundWithinPool
<1>. QED
  BY <1>1, <1>2, <1>3 DEF RoundsInit, RoundsInv

\* Whatever the authority's program does is an instruction of quiks-rewards, or
\* none: the ranks it pays are ranks, the operators it pays have trackers.
LEMMA RoundsStepIsInstruction ==
    ASSUME ProgramInv, RoundsInv, [RoundsNext]_all_vars
    PROVE  [Next]_vars
<1>1. TypeOK /\ KeysKnown /\ next_rank \in Int
  BY DEF ProgramInv, MintInv, RoundsInv
<1>2. ASSUME NEW bps \in BonusBps, PayRank(bps)
      PROVE  Next
  <2> DEFINE signer == reward_state.authority
             op == leaderboard[next_rank]
             m == reward_state.mint
             rank == next_rank
  <2>1. DistributeEpochBonus(signer, op, m, rank, bps)
    BY <1>2 DEF PayRank
  <2>2. /\ reward_state.initialized
        /\ op \in trackers
        /\ ValidBonus(reward_state.top_n, rank, bps)
    BY <2>1 DEF DistributeEpochBonus, IsAuthority
  <2>3. signer \in Wallets /\ op \in Wallets /\ m \in Mints
    BY <1>1, <2>2 DEF KeysKnown, TypeOK
  <2>4. rank \in 0..reward_state.top_n + 1
    BY <1>1, <2>2 DEF ValidBonus, TypeOK, RewardState
  <2> HIDE DEF signer, op, m, rank
  <2>. QED
    BY <2>1, <2>3, <2>4 DEF Next
<1>3. ASSUME OtherInstruction
      PROVE  Next
  BY <1>3 DEF OtherInstruction, Next
<1>4. ASSUME UNCHANGED vars
      PROVE  [Next]_vars
  BY <1>4
<1>. QED
  BY <1>2, <1>3, <1>4 DEF RoundsNext, StartRound, SkipRank, EndRound, all_vars

\* A ranking of the trackers is a sequence of wallets.
LEMMA RankingType ==
    ASSUME ProgramInv, NEW ranking \in SetToAllKPermutations(trackers)
    PROVE  ranking \in Seq(Wallets)
<1>1. IsFiniteSet(trackers) /\ trackers \subseteq Wallets
  BY DEF ProgramInv, LedgerInv, TypeOK
<1>2. PICK s \in SUBSET trackers : ranking \in [1..Cardinality(s) -> s]
  BY DEF SetToAllKPermutations, SetToSeqs
<1>3. Cardinality(s) \in Nat
  BY <1>1, FS_Subset, FS_CardinalityType
<1>. QED
  BY <1>1, <1>2, <1>3

LEMMA MaxOfTwo ==
    ASSUME NEW a \in Nat, NEW b \in Nat
    PROVE  Max({a, b}) \in Nat /\ a <= Max({a, b}) /\ b <= Max({a, b})
<1>1. \E x \in {a, b} : \A y \in {a, b} : x >= y
  OBVIOUS
<1>2. Max({a, b}) \in {a, b} /\ \A y \in {a, b} : Max({a, b}) >= y
  BY <1>1 DEF Max
<1>. QED
  BY <1>2

\* The shares of all ranks are the whole pool.
LEMMA SharesAreThePool ==
    ASSUME NEW n \in Nat \ {0}, NEW k \in Nat \ {0}, k <= n + 1,
           NEW paid \in Nat, NEW q \in Nat,
           40 * (TotalWeight(n) * paid) <= 21 * (q * WeightBefore(n, k))
    PROVE  20 * paid <= 21 * q
<1> DEFINE t == TotalWeight(n)
           before == WeightBefore(n, k)
<1>1. t \in Nat \ {0} /\ before \in Nat /\ before <= 2 * t
  BY TotalWeightPositive, TotalWeightExact, WeightBeforeFacts
<1>2. 40 * (t * paid) <= 21 * (q * before)
  OBVIOUS
<1> HIDE DEF t, before
<1>3. before * q <= (2 * t) * q
  BY <1>1, ProductMonotonic
<1>4. (20 * paid) * t <= (21 * q) * t
  BY <1>1, <1>2, <1>3
<1>5. CASE 20 * paid > 21 * q
  <2>1. (21 * q + 1) * t <= (20 * paid) * t
    BY <1>1, <1>5, ProductMonotonic
  <2>. QED
    BY <1>1, <1>4, <2>1
<1>. QED
  BY <1>5

\* Paying a rank keeps the payments within the shares.
LEMMA RankPaidWithinShares ==
    ASSUME ProgramInv, RoundsInv, OverflowChecks, NEW bps \in BonusBps, PayRank(bps)
    PROVE  /\ WithinShares'
           /\ RoundWithinPool'
<1> DEFINE n == reward_state.top_n
           k == next_rank
           pool == reward_state.epoch_reward_pool
           amount == BonusAmount(pool, n, k, bps)
           largest == Max({round_pool, pool})
<1>1. /\ n \in Nat /\ pool \in U64 /\ pool \in Nat /\ k \in Nat \ {0} /\ bps \in Nat
      /\ round_paid \in Nat /\ round_pool \in Nat
      /\ reward_state \in RewardState
  BY RewardsAssumption DEF ProgramInv, LedgerInv, TypeOK, RewardState, RoundsInv, U64
<1>2. /\ ValidBonus(n, k, bps) /\ BonusFits(pool, n, k, bps)
      /\ reward_state' = AfterDistribution(reward_state, amount)
      /\ next_rank' = k + 1
      /\ round_paid' = round_paid + amount
      /\ round_pool' = largest
      /\ next_rank <= Len(leaderboard)
  BY DEF PayRank, DistributeEpochBonus
<1>3. WithinShares
  <2>1. leaderboard # << >>
    BY <1>1, <1>2
  <2>. QED
    BY <2>1 DEF RoundsInv
<1>4. reward_state'.top_n = n
  BY <1>1, <1>2 DEF AfterDistribution, AfterMint, RewardState
<1>5. n \in Nat \ {0} /\ k <= n
  BY <1>1, <1>2 DEF ValidBonus
<1>6. /\ amount \in Nat
      /\ 20 * (TotalWeight(n) * amount) <= 21 * ((pool * DECIMALS) * Weight(n, k))
  BY <1>1, <1>2, PaymentWithinShare
<1>7. largest \in Nat /\ round_pool <= largest /\ pool <= largest
  BY <1>1, MaxOfTwo
<1> HIDE DEF n, k, pool, amount, largest
<1>8. /\ TotalWeight(n) \in Nat /\ Weight(n, k) \in Nat
      /\ WeightBefore(n, k) \in Nat
      /\ WeightBefore(n, k + 1) = WeightBefore(n, k) + 2 * Weight(n, k)
  <2>1. Weight(n, k) \in Nat
    BY <1>1, <1>5 DEF Weight
  <2>. QED
    BY <1>1, <1>5, <2>1, TotalWeightExact, WeightBeforeFacts
<1>9. /\ round_pool * DECIMALS \in Nat /\ pool * DECIMALS \in Nat /\ largest * DECIMALS \in Nat
      /\ round_pool * DECIMALS <= largest * DECIMALS
      /\ pool * DECIMALS <= largest * DECIMALS
  BY <1>1, <1>7, ConstantFacts, ProductMonotonic
<1>10. 40 * (TotalWeight(n) * round_paid) <= 21 * ((round_pool * DECIMALS) * WeightBefore(n, k))
  BY <1>3 DEF WithinShares, n, k
<1>11. 40 * (TotalWeight(n) * (round_paid + amount))
         <= 21 * ((largest * DECIMALS) * WeightBefore(n, k + 1))
  BY <1>1, <1>6, <1>8, <1>9, <1>10, SharesAdd
<1>12. WithinShares'
  BY <1>2, <1>4, <1>11 DEF WithinShares
<1>13. 20 * (round_paid + amount) <= 21 * (largest * DECIMALS)
  BY <1>1, <1>5, <1>6, <1>9, <1>11, SharesAreThePool
<1>14. 21 * (largest * DECIMALS) = 21 * largest * DECIMALS
  BY <1>7, ConstantFacts
<1>15. RoundWithinPool'
  BY <1>2, <1>13, <1>14 DEF RoundWithinPool
<1>. QED
  BY <1>12, <1>15

\* Skipping a rank leaves its share unpaid.
LEMMA RankSkippedWithinShares ==
    ASSUME RoundsInv, WithinShares, NEW n \in Nat, n = reward_state.top_n,
           reward_state' = reward_state, next_rank <= n, next_rank' = next_rank + 1,
           round_paid' = round_paid, round_pool' = round_pool
    PROVE  WithinShares'
<1>1. /\ next_rank \in Nat \ {0} /\ round_pool \in Nat /\ round_paid \in Nat
      /\ round_pool * DECIMALS \in Nat
  BY ConstantFacts DEF RoundsInv
<1>2. /\ WeightBefore(n, next_rank) \in Nat /\ Weight(n, next_rank) \in Nat
      /\ WeightBefore(n, next_rank + 1) = WeightBefore(n, next_rank) + 2 * Weight(n, next_rank)
      /\ TotalWeight(n) \in Nat
  <2>1. Weight(n, next_rank) \in Nat
    BY <1>1 DEF Weight
  <2>2. next_rank <= n + 1
    BY <1>1
  <2>3. TotalWeight(n) \in Nat
    BY TotalWeightExact
  <2>. QED
    BY <1>1, <2>1, <2>2, <2>3, WeightBeforeFacts
<1>3. WeightBefore(n, next_rank) * (round_pool * DECIMALS)
        <= WeightBefore(n, next_rank + 1) * (round_pool * DECIMALS)
  BY <1>1, <1>2, ProductMonotonic
<1>4. 40 * (TotalWeight(n) * round_paid)
        <= 21 * ((round_pool * DECIMALS) * WeightBefore(n, next_rank))
  BY DEF WithinShares
<1> DEFINE q == round_pool * DECIMALS
           a == WeightBefore(n, next_rank)
           b == WeightBefore(n, next_rank + 1)
           p == 40 * (TotalWeight(n) * round_paid)
<1>5. q \in Nat /\ a \in Nat /\ b \in Nat /\ p \in Nat
  BY <1>1, <1>2
<1>6. a * q <= b * q /\ p <= 21 * (q * a)
  BY <1>3, <1>4
<1> HIDE DEF q, a, b, p
<1>7. p <= 21 * (q * b)
  BY <1>5, <1>6
<1>. QED
  BY <1>7 DEF WithinShares, p, q, b

LEMMA RoundsInvStep ==
    ASSUME ProgramInv, RoundsInv, [RoundsNext]_all_vars
    PROVE  ProgramInv' /\ RoundsInv'
<1>1. ProgramInv'
  BY RoundsStepIsInstruction, MintInvStep, LedgerStep DEF ProgramInv
<1>2. reward_state \in RewardState /\ reward_state.top_n \in Nat
  BY DEF ProgramInv, LedgerInv, TypeOK, RewardState
<1>3. ASSUME NEW ranking \in SetToAllKPermutations(trackers), StartRound(ranking)
      PROVE  RoundsInv'
  <2>1. ranking \in Seq(Wallets)
    BY RankingType
  <2>2. /\ leaderboard' = ranking /\ next_rank' = 1 /\ round_paid' = 0 /\ round_pool' = 0
        /\ reward_state' = reward_state /\ reward_state.initialized
        /\ Len(ranking) <= reward_state.top_n
    BY <1>3 DEF StartRound, vars
  <2>3. Len(ranking) \in Nat
    BY <2>1
  <2>4. WithinShares'
    <3>1. /\ WeightBefore(reward_state.top_n, 1) = 0
          /\ TotalWeight(reward_state.top_n) \in Nat
      <4> DEFINE n == reward_state.top_n
      <4>1. n \in Nat /\ 1 \in Nat \ {0} /\ 1 <= n + 1
        BY <1>2
      <4> HIDE DEF n
      <4>2. TotalWeight(n) \in Nat /\ WeightBefore(n, 1) = 0
        BY <4>1, TotalWeightExact, WeightBeforeFacts
      <4>. QED
        BY <4>2 DEF n
    <3>. QED
      BY <2>2, <3>1, ConstantFacts DEF WithinShares
  <2>5. RoundWithinPool'
    BY <2>2, ConstantFacts DEF RoundWithinPool
  <2>. QED
    BY <2>1, <2>2, <2>3, <2>4, <2>5 DEF RoundsInv
<1>4. ASSUME NEW bps \in BonusBps, PayRank(bps)
      PROVE  RoundsInv'
  <2> DEFINE amount == BonusAmount(reward_state.epoch_reward_pool,
                                   reward_state.top_n, next_rank, bps)
             largest == Max({round_pool, reward_state.epoch_reward_pool})
  <2>1. /\ ValidBonus(reward_state.top_n, next_rank, bps)
        /\ reward_state' = AfterDistribution(reward_state, amount)
        /\ next_rank' = next_rank + 1
        /\ round_paid' = round_paid + amount
        /\ round_pool' = largest
        /\ next_rank <= Len(leaderboard) /\ leaderboard' = leaderboard
    BY <1>4 DEF PayRank, DistributeEpochBonus
  <2>2. amount \in Nat /\ largest \in Nat
    <3>1. /\ reward_state.epoch_reward_pool \in U64 /\ reward_state.epoch_reward_pool \in Nat
          /\ next_rank \in Nat /\ bps \in Nat /\ round_pool \in Nat
      BY <1>2, RewardsAssumption DEF RewardState, RoundsInv, U64
    <3>2. amount \in U64
      BY <1>2, <2>1, <3>1, BonusAmountType
    <3>. QED
      BY <3>1, <3>2, MaxOfTwo DEF U64
  <2> HIDE DEF amount, largest
  <2>3. /\ reward_state'.top_n = reward_state.top_n
        /\ reward_state'.initialized = reward_state.initialized
    BY <1>2, <2>1 DEF AfterDistribution, AfterMint, RewardState
  <2>4. /\ OverflowChecks => WithinShares'
        /\ RoundWithinPool'
    BY <1>4, RankPaidWithinShares DEF RoundWithinPool
  <2>5. leaderboard # << >> /\ Len(leaderboard) \in Nat
    BY <2>1 DEF RoundsInv
  <2>. QED
    BY <2>1, <2>2, <2>3, <2>4, <2>5 DEF RoundsInv
<1>5. ASSUME SkipRank
      PROVE  RoundsInv'
  <2>1. /\ next_rank <= Len(leaderboard) /\ next_rank' = next_rank + 1
        /\ reward_state' = reward_state /\ leaderboard' = leaderboard
        /\ round_paid' = round_paid /\ round_pool' = round_pool
    BY <1>5 DEF SkipRank, vars
  <2>2. leaderboard # << >> /\ Len(leaderboard) \in Nat
    BY <2>1 DEF RoundsInv
  <2>3. next_rank <= reward_state.top_n
    BY <1>2, <2>1, <2>2 DEF RoundsInv
  <2>4. OverflowChecks => WithinShares'
    BY <1>2, <2>1, <2>2, <2>3, RankSkippedWithinShares DEF RoundsInv
  <2>5. RoundWithinPool'
    BY <2>1 DEF RoundsInv, RoundWithinPool
  <2>. QED
    BY <2>1, <2>2, <2>4, <2>5 DEF RoundsInv
<1>6. ASSUME EndRound
      PROVE  RoundsInv'
  <2>1. /\ leaderboard' = << >> /\ next_rank' = 1
        /\ round_paid' = round_paid /\ round_pool' = round_pool
    BY <1>6 DEF EndRound
  <2>2. RoundWithinPool'
    BY <2>1 DEF RoundsInv, RoundWithinPool
  <2>3. leaderboard' \in Seq(Wallets)
    BY <2>1
  <2>. QED
    BY <2>1, <2>2, <2>3 DEF RoundsInv
<1>7. ASSUME UNCHANGED round_vars,
             \/ ~reward_state.initialized
             \/ reward_state'.top_n = reward_state.top_n /\ reward_state'.initialized
      PROVE  RoundsInv'
  BY <1>7 DEF round_vars, RoundsInv, RoundWithinPool, WithinShares
<1>8. ASSUME OtherInstruction
      PROVE  RoundsInv'
  <2>1. UNCHANGED round_vars
    BY <1>8 DEF OtherInstruction
  <2>2. ASSUME NEW op \in Wallets, NEW m \in Mints, ClaimHeartbeatRewards(op, m)
        PROVE  reward_state'.top_n = reward_state.top_n /\ reward_state'.initialized
    BY <1>2, <2>2 DEF ClaimHeartbeatRewards, AfterMint, RewardState
  <2>3. ASSUME NEW signer \in Wallets, NEW pool \in Pools, UpdateEpochPool(signer, pool)
        PROVE  reward_state'.top_n = reward_state.top_n /\ reward_state'.initialized
    BY <1>2, <2>3 DEF UpdateEpochPool, IsAuthority, RewardState
  <2>4. \/ ~reward_state.initialized
        \/ reward_state'.top_n = reward_state.top_n /\ reward_state'.initialized
    BY <1>8, <2>2, <2>3
       DEF OtherInstruction, Initialize, InitRewardTracker, RecordHeartbeats, IsAuthority
  <2>. QED
    BY <1>7, <2>1, <2>4
<1>9. ASSUME UNCHANGED all_vars
      PROVE  RoundsInv'
  BY <1>9 DEF all_vars, vars, round_vars, RoundsInv, RoundWithinPool, WithinShares
<1>. QED
  BY <1>1, <1>3, <1>4, <1>5, <1>6, <1>8, <1>9 DEF RoundsNext

\* The authority's program drives quiks-rewards and nothing else: whatever is
\* proved of the instructions holds of the rounds.
THEOREM RoundsAreInstructions == RoundsSpec => Spec
<1>1. RoundsInit => Init
  BY DEF RoundsInit
<1>. QED
  BY <1>1, RoundsInvInit, RoundsInvStep, RoundsStepIsInstruction, PTL DEF RoundsSpec, Spec

\* For every pool, every number of ranks, every set of operators: in a checked
\* build a round mints at most the largest pool in force at one of its payments,
\* plus 5%, whichever ranks are paid, skipped or boosted.
THEOREM RoundsStayWithinPool == RoundsSpec => []RoundWithinPool
<1>1. RoundsInv => RoundWithinPool
  BY DEF RoundsInv
<1>. QED
  BY <1>1, RoundsInvInit, RoundsInvStep, PTL DEF RoundsSpec
================================================================================
