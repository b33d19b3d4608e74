----------------------------- MODULE ReferralProofs -----------------------------
(***************************************************************************)
(* Proofs about the referral program and about the counting specification  *)
(* it implements, for every set of wallets, every width, all tier          *)
(* thresholds and both builds.                                             *)
(***************************************************************************)
EXTENDS Referral, ReferralCounts, ArithmeticProofs

\* The assumptions on the constants, in the form the steps use them.
LEMMA ConstantFacts ==
    /\ U64Max \in Nat /\ U32Max \in Nat /\ U16Max \in Nat
    /\ SILVER \in Nat /\ GOLD \in Nat /\ PLATINUM \in Nat
    /\ 0 < SILVER /\ SILVER <= GOLD /\ GOLD <= PLATINUM
    /\ MAX_BONUS_BPS \in Nat /\ MAX_BONUS_BPS <= U16Max /\ BPS_PER_REFERRAL \in Nat
    /\ MaxCount \in Nat
    /\ 0 \in U64 /\ 0 \in U32
    /\ ReferralPda \in Pdas
    /\ BaseRewards \subseteq U64
    /\ -1 \notin U64
  BY TiersAssumption, ReferralAssumption, U64Assumption DEF U64, U32

LEMMA TierOfType == \A n : TierOf(n) \in Tier
  BY DEF TierOf, Tier

LEMMA WrapU32Type == \A x \in Int : WrapU32(x) \in U32
<1> SUFFICES ASSUME NEW x \in Int
             PROVE  WrapU32(x) \in U32
  OBVIOUS
<1>1. U32Max + 1 \in Nat \ {0}
  BY ConstantFacts
<1>2. x % (U32Max + 1) \in 0..(U32Max + 1) - 1
  BY <1>1, DivMod
<1>. QED
  BY <1>2, ConstantFacts DEF WrapU32, U32

\* A reward is a u64, whatever the base reward and the tier.
LEMMA RewardType ==
    \A b \in U64 : \A tier \in Tier : Reward(b, tier) \in U64
<1> SUFFICES ASSUME NEW b \in U64, NEW tier \in Tier
             PROVE  Reward(b, tier) \in U64
  OBVIOUS
<1>1. Multiplier[tier] \in Nat
  BY DEF Multiplier, Tier
<1>2. Wrap(b * Multiplier[tier]) \in U64
  BY <1>1, WrapType DEF U64
<1>. QED
  BY <1>2, ConstantFacts DEF Reward, U64
\* Below the width the count is not wrapped.
LEMMA WrapU32Fits == \A x \in U32 : WrapU32(x) = x
<1> SUFFICES ASSUME NEW x \in U32
             PROVE  WrapU32(x) = x
  OBVIOUS
<1>1. U32Max + 1 \in Nat \ {0} /\ x \in 0..(U32Max + 1) - 1 /\ x \in Int
  BY ConstantFacts DEF U32
<1>2. x = (U32Max + 1) * 0 + x
  BY <1>1
<1>3. x % (U32Max + 1) = x
  BY <1>1, <1>2, RemainderUnique
<1>. QED
  BY <1>3 DEF WrapU32
--------------------------------------------------------------------------------
(***************************************************************************)
(* ReferralCounts: what the tiers add up to.                               *)
(***************************************************************************)

\* What a tier of c referrals is worth with one more or none, each worth r.
LEMMA OneMoreShare ==
    ASSUME NEW c \in Nat, NEW m \in Nat, NEW r \in Nat, NEW share,
           \/ m = c + 1 /\ share = r
           \/ m = c /\ share = 0
    PROVE  c * r \in Nat /\ m * r = c * r + share
  OBVIOUS

\* One more referral is worth the reward of the tier it reaches: the table of
\* the documentation, increment by increment.
LEMMA WorthOfOneMore ==
    ASSUME NEW b \in U64, NEW n \in Nat
    PROVE  /\ Worth(b, n) \in Nat
           /\ Worth(b, n + 1) = Worth(b, n) + Reward(b, TierOf(n + 1))
<1> DEFINE R(t) == Reward(b, t)
<1>1. /\ R("Bronze") \in Nat /\ R("Silver") \in Nat
      /\ R("Gold") \in Nat /\ R("Platinum") \in Nat
  BY RewardType DEF Tier, U64
<1> DEFINE C1(k) == Clamp(k, 0, SILVER - 1)
           C2(k) == Clamp(k - (SILVER - 1), 0, GOLD - SILVER)
           C3(k) == Clamp(k - (GOLD - 1), 0, PLATINUM - GOLD)
           C4(k) == Clamp(k - (PLATINUM - 1), 0, k)
           Step(tier) == IF TierOf(n + 1) = tier THEN 1 ELSE 0
<1>2. \A k \in Nat : C1(k) \in Nat /\ C2(k) \in Nat /\ C3(k) \in Nat /\ C4(k) \in Nat
  BY ConstantFacts DEF Clamp
<1>3. C1(n + 1) = C1(n) + Step("Bronze")
  BY ConstantFacts DEF Clamp, TierOf
<1>4. C2(n + 1) = C2(n) + Step("Silver")
  BY ConstantFacts DEF Clamp, TierOf
<1>5. C3(n + 1) = C3(n) + Step("Gold")
  BY ConstantFacts DEF Clamp, TierOf
<1>6. C4(n + 1) = C4(n) + Step("Platinum")
  BY ConstantFacts DEF Clamp, TierOf
<1>7. \A k : Worth(b, k) = C1(k) * R("Bronze") + C2(k) * R("Silver")
                         + C3(k) * R("Gold") + C4(k) * R("Platinum")
  BY DEF Worth
<1>8. \/ TierOf(n + 1) = "Bronze" \/ TierOf(n + 1) = "Silver"
      \/ TierOf(n + 1) = "Gold" \/ TierOf(n + 1) = "Platinum"
  BY DEF TierOf
<1>9. n + 1 \in Nat /\ R(TierOf(n + 1)) \in Nat
  BY RewardType, TierOfType DEF U64
<1> HIDE DEF C1, C2, C3, C4, R
<1> DEFINE P1(k) == C1(k) * R("Bronze")
           P2(k) == C2(k) * R("Silver")
           P3(k) == C3(k) * R("Gold")
           P4(k) == C4(k) * R("Platinum")
           Share(tier) == IF TierOf(n + 1) = tier THEN R(tier) ELSE 0
<1>10. /\ P1(n) \in Nat /\ P2(n) \in Nat /\ P3(n) \in Nat /\ P4(n) \in Nat
       /\ P1(n + 1) = P1(n) + Share("Bronze")
       /\ P2(n + 1) = P2(n) + Share("Silver")
       /\ P3(n + 1) = P3(n) + Share("Gold")
       /\ P4(n + 1) = P4(n) + Share("Platinum")
  <2>1. P1(n) \in Nat /\ P1(n + 1) = P1(n) + Share("Bronze")
    <3>1. \/ C1(n + 1) = C1(n) + 1 /\ Share("Bronze") = R("Bronze")
          \/ C1(n + 1) = C1(n) /\ Share("Bronze") = 0
      BY <1>2, <1>3
    <3>. QED
      BY <1>1, <1>2, <1>9, <3>1, OneMoreShare
  <2>2. P2(n) \in Nat /\ P2(n + 1) = P2(n) + Share("Silver")
    <3>1. \/ C2(n + 1) = C2(n) + 1 /\ Share("Silver") = R("Silver")
          \/ C2(n + 1) = C2(n) /\ Share("Silver") = 0
      BY <1>2, <1>4
    <3>. QED
      BY <1>1, <1>2, <1>9, <3>1, OneMoreShare
  <2>3. P3(n) \in Nat /\ P3(n + 1) = P3(n) + Share("Gold")
    <3>1. \/ C3(n + 1) = C3(n) + 1 /\ Share("Gold") = R("Gold")
          \/ C3(n + 1) = C3(n) /\ Share("Gold") = 0
      BY <1>2, <1>5
    <3>. QED
      BY <1>1, <1>2, <1>9, <3>1, OneMoreShare
  <2>4. P4(n) \in Nat /\ P4(n + 1) = P4(n) + Share("Platinum")
    <3>1. \/ C4(n + 1) = C4(n) + 1 /\ Share("Platinum") = R("Platinum")
          \/ C4(n + 1) = C4(n) /\ Share("Platinum") = 0
      BY <1>2, <1>6
    <3>. QED
      BY <1>1, <1>2, <1>9, <3>1, OneMoreShare
  <2>. QED
    BY <2>1, <2>2, <2>3, <2>4
<1>11. \A k : Worth(b, k) = P1(k) + P2(k) + P3(k) + P4(k)
  BY <1>7
<1> HIDE DEF P1, P2, P3, P4
<1>12. Worth(b, n) \in Nat /\ Worth(b, n + 1) = Worth(b, n) + R(TierOf(n + 1))
  BY <1>1, <1>8, <1>10, <1>11
<1>. QED
  BY <1>12 DEF R

\* Nobody is owed anything for no referrals.
LEMMA WorthOfNone ==
    ASSUME NEW b \in U64
    PROVE  Worth(b, 0) = 0
<1>1. /\ Clamp(0, 0, SILVER - 1) = 0
      /\ Clamp(0 - (SILVER - 1), 0, GOLD - SILVER) = 0
      /\ Clamp(0 - (GOLD - 1), 0, PLATINUM - GOLD) = 0
      /\ Clamp(0 - (PLATINUM - 1), 0, 0) = 0
  BY ConstantFacts DEF Clamp
<1>2. \A tier \in Tier : 0 * Reward(b, tier) = 0
  BY RewardType DEF U64
<1>. QED
  BY <1>1, <1>2 DEF Worth, Tier
\* A credit keeps what was earned at the worth of the count: a chain of wrapping
\* additions loses nothing but multiples of the width.
LEMMA CreditByTable ==
    ASSUME MaxCount <= U32Max, NEW b \in U64, NEW n \in Nat, n < MaxCount
    PROVE  /\ WrapU32(n + 1) = n + 1
           /\ Wrap(Worth(b, n + 1)) \in U64
           /\ Wrap(Wrap(Worth(b, n)) + Reward(b, TierOf(n + 1))) = Wrap(Worth(b, n + 1))
<1> DEFINE r == Reward(b, TierOf(n + 1))
           w == Worth(b, n)
<1>1. WrapU32(n + 1) = n + 1
  BY ConstantFacts, WrapU32Fits DEF U32
<1>2. r \in Int /\ w \in Int /\ Worth(b, n + 1) = r + w
  <2>1. Worth(b, n) \in Nat /\ Worth(b, n + 1) = Worth(b, n) + r
    BY WorthOfOneMore
  <2>2. r \in U64
    BY RewardType, TierOfType
  <2> HIDE DEF r
  <2>. QED
    BY <2>1, <2>2 DEF U64
<1> HIDE DEF r, w
<1>3. r + w \in Int
  BY <1>2
<1>4. Wrap(r + Wrap(w)) = Wrap(r + w) /\ Wrap(w) \in Int /\ Wrap(r + w) \in U64
  <2>1. Wrap(r + Wrap(w)) = Wrap(r + w)
    BY <1>2, WrapSum
  <2>2. Wrap(w) \in U64 /\ Wrap(r + w) \in U64
    BY <1>2, <1>3, WrapType
  <2>. QED
    BY <2>1, <2>2 DEF U64
<1>5. Wrap(w) + r = r + Wrap(w)
  BY <1>2, <1>4
<1>. QED
  BY <1>1, <1>2, <1>4, <1>5 DEF r, w

\* The inductive invariant: counts stay within the bound that no wrap-around is
\* reached below, and what was earned is the worth of the count; before the base
\* reward is set nothing is counted or earned.
EarnedInv ==
    /\ base_reward = NoReward \/ base_reward \in U64
    /\ count \in [Users -> 0..MaxCount]
    /\ earned \in [Users -> U64]
    /\ base_reward = NoReward => \A u \in Users : count[u] = 0 /\ earned[u] = 0
    /\ EarnedByTable

LEMMA EarnedInit == CountsInit => EarnedInv
  BY ConstantFacts DEF CountsInit, EarnedInv, EarnedByTable

LEMMA EarnedStep ==
    ASSUME MaxCount <= U32Max, EarnedInv, [CountsNext]_counts_vars
    PROVE  EarnedInv'
<1>1. ASSUME NEW b \in BaseRewards, SetBaseReward(b)
      PROVE  EarnedInv'
  <2>1. b \in U64 /\ Wrap(Worth(b, 0)) = 0
    BY ConstantFacts, WorthOfNone, WrapFits
  <2>. QED
    BY <1>1, <2>1 DEF SetBaseReward, EarnedInv, EarnedByTable
<1>2. ASSUME NEW u \in Users, Credit(u)
      PROVE  EarnedInv'
  <2> DEFINE n == count[u]
             r == Reward(base_reward, TierOf(n + 1))
  <2>1. /\ n \in Nat /\ n < MaxCount
        /\ base_reward \in U64 /\ base_reward # NoReward
        /\ earned[u] = Wrap(Worth(base_reward, n))
    <3>1. count[u] < MaxCount /\ base_reward # NoReward
      BY <1>2 DEF Credit
    <3>. QED
      BY <3>1, ConstantFacts DEF EarnedInv, EarnedByTable
  <2>2. /\ WrapU32(n + 1) = n + 1
        /\ Wrap(Worth(base_reward, n + 1)) \in U64
        /\ Wrap(earned[u] + r) = Wrap(Worth(base_reward, n + 1))
    BY <2>1, CreditByTable
  <2>3. /\ count' = [count EXCEPT ![u] = n + 1]
        /\ earned' = [earned EXCEPT ![u] = Wrap(@ + r)]
        /\ base_reward' = base_reward
    BY <1>2, <2>2 DEF Credit
  <2> HIDE DEF r
  <2>4. earned' = [earned EXCEPT ![u] = Wrap(Worth(base_reward, n + 1))]
    BY <2>2, <2>3 DEF EarnedInv
  <2>5. count' \in [Users -> 0..MaxCount] /\ earned' \in [Users -> U64]
    BY <2>1, <2>2, <2>3, <2>4, ConstantFacts DEF EarnedInv
  <2>6. \A v \in Users : earned'[v] = Wrap(Worth(base_reward', count'[v]))
    <3> SUFFICES ASSUME NEW v \in Users
                 PROVE  earned'[v] = Wrap(Worth(base_reward', count'[v]))
      OBVIOUS
    <3>1. CASE v = u
      BY <3>1, <2>3, <2>4 DEF EarnedInv
    <3>2. CASE v # u
      BY <3>2, <2>1, <2>3, <2>4 DEF EarnedInv, EarnedByTable
    <3>. QED
      BY <3>1, <3>2
  <2>. QED
    BY <2>1, <2>3, <2>5, <2>6 DEF EarnedInv, EarnedByTable
<1>3. CASE UNCHANGED counts_vars
  BY <1>3 DEF counts_vars, EarnedInv, EarnedByTable
<1>. QED
  BY <1>1, <1>2, <1>3 DEF CountsNext

\* For every table and every width: what a user has earned is what the table of
\* the documentation says its referrals are worth.
THEOREM EarnedAsInTable ==
    ASSUME MaxCount <= U32Max
    PROVE  CountsSpec => []EarnedByTable
<1>1. EarnedInv => EarnedByTable
  BY DEF EarnedInv
<1>. QED
  BY EarnedInit, EarnedStep, <1>1, PTL DEF CountsSpec
--------------------------------------------------------------------------------
(***************************************************************************)
(* Type correctness.                                                       *)
(***************************************************************************)

\* mint_to keeps the token program's state well typed.
LEMMA MintToType ==
    ASSUME TokenTypeOK, NEW m \in Mints, NEW signer, NEW owner \in Wallets,
           NEW amount \in Nat, MintTo(m, signer, owner, amount)
    PROVE  TokenTypeOK'
<1>1. supply[m] + amount \in U64
  BY U64Assumption DEF TokenTypeOK, MintTo, U64
<1>2. balance[m][owner] + amount \in Nat
  BY DEF TokenTypeOK
<1>. QED
  BY <1>1, <1>2 DEF TokenTypeOK, MintTo

\* What verify_and_reward computes before it writes.
LEMMA VerifyFacts ==
    ASSUME TypeOK, NEW signer, NEW user \in Wallets, NEW referee \in Wallets,
           NEW m \in Mints, VerifyAndReward(signer, user, referee, m)
    PROVE  LET n == WrapU32(referral_account[user].referral_count + 1)
               reward == Reward(referral_state.base_reward, TierOf(n))
           IN  /\ n \in U32
               /\ reward \in U64
               /\ AfterCredit(referral_account[user], reward) \in ReferralAccount
               /\ AfterPayment(referral_state, reward) \in ReferralState
<1> DEFINE n == WrapU32(referral_account[user].referral_count + 1)
           reward == Reward(referral_state.base_reward, TierOf(n))
<1>1. n \in U32
  BY WrapU32Type DEF TypeOK, ReferralAccount, U32
<1>2. reward \in U64
  BY TierOfType, RewardType DEF TypeOK, ReferralState
<1> HIDE DEF reward
<1>3. Wrap(referral_account[user].total_earned + reward) \in U64
  BY <1>2, WrapType DEF TypeOK, ReferralAccount, U64
<1>4. AfterCredit(referral_account[user], reward) \in ReferralAccount
  BY <1>1, <1>3, TierOfType DEF AfterCredit, ReferralAccount
<1>5. /\ Wrap(referral_state.total_referrals + 1) \in U64
      /\ Wrap(referral_state.total_rewards_paid + reward) \in U64
  BY <1>2, WrapType DEF TypeOK, ReferralState, U64
<1>6. AfterPayment(referral_state, reward) \in ReferralState
  BY <1>5 DEF AfterPayment, TypeOK, ReferralState
<1>. QED
  BY <1>1, <1>2, <1>4, <1>6 DEF reward

LEMMA TypeInit == Init => TypeOK
  BY ConstantFacts, SplTokenAssumption
     DEF Init, TokenInit, TypeOK, TokenTypeOK, ReferralState, ReferralAccount,
         ReferralLink, NewAccount, NoLink, Tier, U64

LEMMA TypeStep == TypeOK /\ [Next]_vars => TypeOK'
<1> SUFFICES ASSUME TypeOK, [Next]_vars
             PROVE  TypeOK'
  OBVIOUS
<1>1. ASSUME NEW signer \in Wallets, NEW m \in Mints, NEW b \in BaseRewards,
             Initialize(signer, m, b)
      PROVE  TypeOK'
  BY <1>1, ConstantFacts DEF Initialize, TypeOK, TokenTypeOK, token_vars, ReferralState
<1>2. ASSUME NEW user \in Wallets, GenerateCode(user)
      PROVE  TypeOK'
  BY <1>2, ConstantFacts
     DEF GenerateCode, TypeOK, TokenTypeOK, token_vars, NewAccount, ReferralAccount, Tier
<1>3. ASSUME NEW referee \in Wallets, NEW user \in Wallets, ApplyReferral(referee, user)
      PROVE  TypeOK'
  BY <1>3 DEF ApplyReferral, TypeOK, TokenTypeOK, token_vars, ReferralLink
<1>4. ASSUME NEW signer \in Wallets, NEW user \in Wallets, NEW referee \in Wallets,
             NEW m \in Mints, VerifyAndReward(signer, user, referee, m)
      PROVE  TypeOK'
  <2> DEFINE reward == Reward(referral_state.base_reward,
                              TierOf(WrapU32(referral_account[user].referral_count + 1)))
  <2>1. /\ reward \in Nat
        /\ AfterCredit(referral_account[user], reward) \in ReferralAccount
        /\ AfterPayment(referral_state, reward) \in ReferralState
    BY <1>4, VerifyFacts DEF U64
  <2>2. /\ referral_link' = [referral_link EXCEPT ![referee].is_verified = TRUE]
        /\ referral_account' = [referral_account EXCEPT ![user] = AfterCredit(@, reward)]
        /\ MintTo(m, ReferralPda, user, reward)
        /\ referral_state' = AfterPayment(referral_state, reward)
        /\ UNCHANGED <<accounts, links>>
    BY <1>4 DEF VerifyAndReward
  <2> HIDE DEF reward
  <2>3. TokenTypeOK'
    BY <2>1, <2>2, MintToType DEF TypeOK
  <2>4. referral_link' \in [Wallets -> ReferralLink]
    BY <2>2 DEF TypeOK, ReferralLink
  <2>. QED
    BY <2>1, <2>2, <2>3, <2>4 DEF TypeOK
<1>5. CASE TokenStep
  <2>1. PICK m \in Mints, w \in Wallets, amount \in TokenAmounts : Burn(m, w, amount)
    BY <1>5 DEF TokenStep
  <2>2. amount \in Nat
    BY SplTokenAssumption
  <2>3. supply[m] - amount \in U64 /\ balance[m][w] - amount \in Nat
    BY <2>1, <2>2, U64Assumption DEF Burn, TypeOK, TokenTypeOK, U64
  <2>4. TokenTypeOK'
    BY <2>1, <2>3 DEF Burn, TypeOK, TokenTypeOK
  <2>. QED
    BY <1>5, <2>4 DEF TokenStep, TypeOK
<1>6. CASE UNCHANGED vars
  BY <1>6 DEF vars, token_vars, TypeOK, TokenTypeOK
<1>. QED
  BY <1>1, <1>2, <1>3, <1>4, <1>5, <1>6 DEF Next

\* Every account always holds values of its types, in either build.
THEOREM TypeCorrect == Spec => []TypeOK
  BY TypeInit, TypeStep, PTL DEF Spec
--------------------------------------------------------------------------------
(***************************************************************************)
(* Counting the verified links.                                            *)
(***************************************************************************)

\* The inductive invariant: what no instruction has touched yet is still as it
\* was created, and the properties themselves.
CountInv ==
    /\ TypeOK
    /\ IsFiniteSet(links)
    /\ ~referral_state.initialized => referral_state.total_referrals = 0
    /\ \A u \in Wallets \ accounts : referral_account[u] = NewAccount
    /\ VerifiedLinksCounted

LEMMA CountInit == Init => CountInv
<1> SUFFICES ASSUME Init
             PROVE  CountInv
  OBVIOUS
<1>1. TypeOK
  BY TypeInit
<1>2. IsFiniteSet(links) /\ VerifiedLinks = {} /\ Cardinality(VerifiedLinks) = 0
  BY FS_EmptySet DEF Init, VerifiedLinks
<1>3. VerifiedLinksCounted
  BY <1>2, ConstantFacts, WrapFits DEF Init, VerifiedLinksCounted
<1>. QED
  BY <1>1, <1>2, <1>3 DEF Init, CountInv

LEMMA CountStep == CountInv /\ [Next]_vars => CountInv'
<1> SUFFICES ASSUME CountInv, [Next]_vars
             PROVE  CountInv'
  OBVIOUS
<1> USE DEF CountInv
<1>1. TypeOK'
  BY TypeStep
<1>2. ASSUME NEW signer \in Wallets, NEW m \in Mints, NEW b \in BaseRewards,
             Initialize(signer, m, b)
      PROVE  CountInv'
  <2>1. VerifiedLinks' = VerifiedLinks
    BY <1>2 DEF Initialize, VerifiedLinks
  <2>2. referral_state'.total_referrals = referral_state.total_referrals
    BY <1>2 DEF Initialize
  <2>3. referral_state'.initialized
    BY <1>2 DEF Initialize
  <2>. QED
    BY <1>1, <1>2, <2>1, <2>2, <2>3 DEF Initialize, VerifiedLinksCounted
<1>3. ASSUME NEW user \in Wallets, GenerateCode(user)
      PROVE  CountInv'
  <2>1. VerifiedLinks' = VerifiedLinks
    BY <1>3 DEF GenerateCode, VerifiedLinks
  <2>2. referral_account' = referral_account
    BY <1>3 DEF GenerateCode, TypeOK
  <2>. QED
    BY <1>1, <1>3, <2>1, <2>2 DEF GenerateCode, VerifiedLinksCounted
<1>4. ASSUME NEW referee \in Wallets, NEW user \in Wallets, ApplyReferral(referee, user)
      PROVE  CountInv'
  <2>1. VerifiedLinks' = VerifiedLinks
    BY <1>4 DEF ApplyReferral, VerifiedLinks, TypeOK
  <2>2. IsFiniteSet(links')
    BY <1>4, FS_AddElement DEF ApplyReferral
  <2>. QED
    BY <1>1, <1>4, <2>1, <2>2 DEF ApplyReferral, VerifiedLinksCounted
<1>5. ASSUME NEW signer \in Wallets, NEW user \in Wallets, NEW referee \in Wallets,
             NEW m \in Mints, VerifyAndReward(signer, user, referee, m)
      PROVE  CountInv'
  <2>1. PICK reward :
           /\ referral_account' = [referral_account EXCEPT ![user] = AfterCredit(@, reward)]
           /\ referral_state' = AfterPayment(referral_state, reward)
    BY <1>5 DEF VerifyAndReward
  <2>2. /\ user \in accounts
        /\ referee \in links /\ ~referral_link[referee].is_verified
        /\ referral_link' = [referral_link EXCEPT ![referee].is_verified = TRUE]
        /\ accounts' = accounts /\ links' = links
        /\ referral_state.initialized
    BY <1>5 DEF VerifyAndReward, CanVerify
  <2>3. VerifiedLinks' = VerifiedLinks \cup {referee} /\ referee \notin VerifiedLinks
    BY <2>2 DEF VerifiedLinks, TypeOK, ReferralLink
  <2>4. IsFiniteSet(VerifiedLinks)
    BY FS_Subset DEF VerifiedLinks
  <2> DEFINE k == Cardinality(VerifiedLinks)
  <2>5. k \in Int /\ Cardinality(VerifiedLinks') = 1 + k
    <3>1. Cardinality(VerifiedLinks) \in Nat
      BY <2>4, FS_CardinalityType
    <3>2. Cardinality(VerifiedLinks \cup {referee}) = Cardinality(VerifiedLinks) + 1
      BY <2>3, <2>4, FS_AddElement
    <3>. QED
      BY <2>3, <3>1, <3>2
  <2>6. referral_state'.total_referrals = Wrap(1 + Wrap(k))
    <3>1. referral_state.total_referrals = Wrap(k) /\ Wrap(k) \in Int
      BY <2>5, WrapType DEF VerifiedLinksCounted, U64
    <3>2. referral_state.total_referrals + 1 = 1 + Wrap(k)
      BY <3>1
    <3>. QED
      BY <2>1, <3>2 DEF AfterPayment, TypeOK, ReferralState
  <2>7. VerifiedLinksCounted'
    <3> HIDE DEF k
    <3>1. Wrap(1 + Wrap(k)) = Wrap(1 + k)
      BY <2>5, WrapSum
    <3>. QED
      BY <2>5, <2>6, <3>1 DEF VerifiedLinksCounted
  <2>8. referral_state'.initialized
    BY <2>1, <2>2 DEF AfterPayment, TypeOK, ReferralState
  <2>. QED
    BY <1>1, <2>1, <2>2, <2>7, <2>8 DEF TypeOK
<1>6. ASSUME UNCHANGED <<referral_state, accounts, referral_account, links, referral_link>>
      PROVE  CountInv'
  BY <1>1, <1>6 DEF VerifiedLinksCounted, VerifiedLinks
<1>. QED
  BY <1>2, <1>3, <1>4, <1>5, <1>6 DEF Next, TokenStep, vars

\* The program's total of referrals is the number of verified links, for any
\* number of users and referees.
THEOREM ReferralsAreCounted == Spec => []VerifiedLinksCounted
<1>1. CountInv => VerifiedLinksCounted
  BY DEF CountInv
<1>. QED
  BY CountInit, CountStep, <1>1, PTL DEF Spec
--------------------------------------------------------------------------------
(***************************************************************************)
(* The program implements ReferralCounts.                                  *)
(***************************************************************************)

\* The functions of the two specifications are the same functions.
LEMMA SameFunctions ==
    /\ \A x : Counts!Wrap(x) = Wrap(x) /\ Counts!WrapU32(x) = WrapU32(x)
    /\ \A n : Counts!TierOf(n) = TierOf(n)
    /\ \A b, tier : Counts!Reward(b, tier) = Reward(b, tier)
  BY DEF Counts!Wrap, Wrap, Counts!WrapU32, WrapU32, Counts!TierOf, TierOf,
         Counts!Reward, Reward, Counts!Multiplier, Multiplier

LEMMA CountsInitImplemented == Init => Counts!CountsInit
  BY DEF Init, NewAccount, Counts!CountsInit, Counts!NoReward

LEMMA CountsStepImplemented ==
    ASSUME CountInv, [Next]_vars
    PROVE  [Counts!CountsNext]_(Counts!counts_vars)
<1> USE DEF CountInv
<1>1. ASSUME NEW signer \in Wallets, NEW m \in Mints, NEW b \in BaseRewards,
             Initialize(signer, m, b)
      PROVE  Counts!SetBaseReward(b)
  BY <1>1 DEF Initialize, Counts!SetBaseReward, Counts!NoReward
<1>2. ASSUME NEW user \in Wallets, GenerateCode(user)
      PROVE  UNCHANGED Counts!counts_vars
  <2>1. referral_account' = referral_account /\ referral_state' = referral_state
    BY <1>2 DEF GenerateCode, TypeOK
  <2>. QED
    BY <2>1 DEF Counts!counts_vars
<1>3. ASSUME NEW signer \in Wallets, NEW user \in Wallets, NEW referee \in Wallets,
             NEW m \in Mints, VerifyAndReward(signer, user, referee, m)
      PROVE  Counts!Credit(user)
  <2> DEFINE account == referral_account[user]
             n == WrapU32(account.referral_count + 1)
             reward == Reward(referral_state.base_reward, TierOf(n))
  <2>1. /\ referral_state.initialized
        /\ account.referral_count < MaxCount
        /\ referral_account' = [referral_account EXCEPT ![user] = AfterCredit(account, reward)]
        /\ referral_state' = AfterPayment(referral_state, reward)
    BY <1>3 DEF VerifyAndReward
  <2>2. /\ AfterCredit(account, reward).referral_count = n
        /\ AfterCredit(account, reward).total_earned = Wrap(account.total_earned + reward)
    BY DEF AfterCredit
  <2>3. /\ referral_state'.initialized
        /\ referral_state'.base_reward = referral_state.base_reward
        /\ referral_state.base_reward # -1
    BY <2>1, ConstantFacts DEF AfterPayment, TypeOK, ReferralState
  <2> HIDE DEF n, reward
  <2>4. \A u \in Wallets :
          /\ u = user => /\ referral_account'[u].referral_count = n
                         /\ referral_account'[u].total_earned = Wrap(account.total_earned + reward)
          /\ u # user => referral_account'[u] = referral_account[u]
    BY <2>1, <2>2 DEF TypeOK
  <2>5. [u \in Wallets |-> referral_account'[u].referral_count]
          = [[u \in Wallets |-> referral_account[u].referral_count] EXCEPT ![user] = n]
    BY <2>4
  <2>6. [u \in Wallets |-> referral_account'[u].total_earned]
          = [[u \in Wallets |-> referral_account[u].total_earned]
               EXCEPT ![user] = Wrap(@ + reward)]
    BY <2>4
  <2>7. /\ Counts!WrapU32(account.referral_count + 1) = n
        /\ Counts!Reward(referral_state.base_reward, Counts!TierOf(n)) = reward
        /\ Counts!Wrap(account.total_earned + reward) = Wrap(account.total_earned + reward)
    BY SameFunctions DEF n, reward
  <2>. QED
    BY <2>1, <2>3, <2>5, <2>6, <2>7 DEF Counts!Credit, Counts!NoReward
<1>4. ASSUME UNCHANGED <<referral_state, referral_account>>
      PROVE  UNCHANGED Counts!counts_vars
  BY <1>4 DEF Counts!counts_vars
<1>. QED
  BY <1>1, <1>2, <1>3, <1>4 DEF Next, ApplyReferral, TokenStep, vars, Counts!CountsNext

\* Whatever referees, users and the authority do, seen through its counts the
\* program is ReferralCounts: credits of one referral, at the tier reached.
THEOREM ReferralImplementsCounts == Spec => ImplementsCounts
  BY CountInit, CountStep, CountsInitImplemented, CountsStepImplemented, PTL
     DEF Spec, ImplementsCounts, Counts!CountsSpec
--------------------------------------------------------------------------------
(***************************************************************************)
(* The accounts, the links and the program's totals agree.                 *)
(***************************************************************************)

\* What ReferralsBalanced sums: the counts of the users, and what they earned.
CountOf == [u \in Wallets |-> referral_account[u].referral_count]
EarnedBy == [u \in Wallets |-> referral_account[u].total_earned]

\* The inductive invariant: accounts are made one at a time and begin empty, and
\* nothing is paid before the program is initialized.
BalanceInv ==
    /\ CountInv
    /\ IsFiniteSet(accounts)
    /\ ~referral_state.initialized => referral_state.total_rewards_paid = 0
    /\ ReferralsBalanced

LEMMA BalanceInit == Init => BalanceInv
<1> SUFFICES ASSUME Init
             PROVE  BalanceInv
  OBVIOUS
<1>1. VerifiedLinks = {} /\ Cardinality(VerifiedLinks) = 0 /\ IsFiniteSet(accounts)
  BY FS_EmptySet DEF Init, VerifiedLinks
<1>2. Wrap(0) = 0
  BY ConstantFacts, WrapFits
<1>3. SumFunctionOnSet(CountOf, accounts) = 0 /\ SumFunctionOnSet(EarnedBy, accounts) = 0
  BY SumOfNone DEF Init
<1>4. ReferralsBalanced
  BY <1>1, <1>2, <1>3 DEF Init, ReferralsBalanced, CountOf, EarnedBy
<1>. QED
  BY <1>1, <1>4, CountInit DEF Init, BalanceInv

\* An account, as the two sums see it.
LEMMA SummandTypes ==
    ASSUME TypeOK
    PROVE  \A u \in Wallets : CountOf[u] \in Int /\ EarnedBy[u] \in Int
  BY ConstantFacts DEF TypeOK, ReferralAccount, U32, U64, CountOf, EarnedBy

\* Where no account changes, and no link is verified, the sums stay.
LEMMA BalanceUnmoved ==
    ASSUME BalanceInv, VerifiedLinks' = VerifiedLinks,
           accounts' = accounts, referral_account' = referral_account,
           referral_state'.total_rewards_paid = referral_state.total_rewards_paid
    PROVE  ReferralsBalanced'
  BY DEF BalanceInv, ReferralsBalanced

\* A new account begins with neither referrals nor earnings.
LEMMA BalanceNewAccount ==
    ASSUME BalanceInv, NEW user \in Wallets, GenerateCode(user)
    PROVE  ReferralsBalanced' /\ IsFiniteSet(accounts')
<1>1. /\ TypeOK /\ IsFiniteSet(accounts) /\ ReferralsBalanced
      /\ \A u \in Wallets \ accounts : referral_account[u] = NewAccount
  BY DEF BalanceInv, CountInv
<1>2. /\ user \notin accounts /\ accounts' = accounts \cup {user}
      /\ referral_account' = referral_account
      /\ referral_state' = referral_state
      /\ VerifiedLinks' = VerifiedLinks
  BY <1>1 DEF GenerateCode, TypeOK, VerifiedLinks
<1>3. CountOf' = CountOf /\ EarnedBy' = EarnedBy /\ CountOf[user] = 0 /\ EarnedBy[user] = 0
  BY <1>1, <1>2 DEF CountOf, EarnedBy, NewAccount
<1>4. /\ \A u \in accounts : CountOf[u] \in Int
      /\ \A u \in accounts : EarnedBy[u] \in Int
      /\ CountOf[user] \in Int /\ EarnedBy[user] \in Int
  BY <1>1, SummandTypes DEF TypeOK
<1>5. /\ SumFunctionOnSet(CountOf, accounts \cup {user})
           = SumFunctionOnSet(CountOf, accounts) + CountOf[user]
      /\ SumFunctionOnSet(CountOf, accounts) \in Int
  BY <1>1, <1>2, <1>3, <1>4, SumOneMore
<1>6. /\ SumFunctionOnSet(EarnedBy, accounts \cup {user})
           = SumFunctionOnSet(EarnedBy, accounts) + EarnedBy[user]
      /\ SumFunctionOnSet(EarnedBy, accounts) \in Int
  BY <1>1, <1>2, <1>3, <1>4, SumOneMore
<1>7. /\ SumFunctionOnSet(CountOf', accounts') = SumFunctionOnSet(CountOf, accounts)
      /\ SumFunctionOnSet(EarnedBy', accounts') = SumFunctionOnSet(EarnedBy, accounts)
  BY <1>2, <1>3, <1>5, <1>6
<1>. QED
  BY <1>1, <1>2, <1>7, FS_AddElement DEF ReferralsBalanced, CountOf, EarnedBy

\* Verifying a link adds one to the links and to the counts, and the reward to
\* what was earned and to what was paid.
LEMMA BalanceCredited ==
    ASSUME OverflowChecks \/ MaxCount <= U32Max,
           BalanceInv, TypeOK', NEW signer \in Wallets, NEW user \in Wallets,
           NEW referee \in Wallets, NEW m \in Mints,
           VerifyAndReward(signer, user, referee, m)
    PROVE  ReferralsBalanced'
<1>1. /\ TypeOK /\ IsFiniteSet(accounts) /\ IsFiniteSet(links) /\ ReferralsBalanced
      /\ referral_account \in [Wallets -> ReferralAccount]
      /\ accounts \subseteq Wallets
  BY DEF BalanceInv, CountInv, TypeOK
<1>2. PICK reward \in U64 :
        /\ referral_account' = [referral_account EXCEPT ![user] = AfterCredit(@, reward)]
        /\ referral_state' = AfterPayment(referral_state, reward)
  BY <1>1, VerifyFacts DEF VerifyAndReward
<1>3. /\ user \in accounts /\ accounts' = accounts /\ links' = links
      /\ referee \in links /\ ~referral_link[referee].is_verified
      /\ referral_link' = [referral_link EXCEPT ![referee].is_verified = TRUE]
      /\ referral_account[user].referral_count < MaxCount
      /\ FitsU32(referral_account[user].referral_count + 1)
  BY DEF VerifyAndReward, CanVerify
<1> DEFINE n == referral_account[user].referral_count
           e == referral_account[user].total_earned
<1>4. n \in Nat /\ n + 1 \in U32 /\ e \in Int /\ reward \in Int
  BY <1>1, <1>3, ConstantFacts DEF ReferralAccount, U32, U64, FitsU32
<1>5. Cardinality(VerifiedLinks') = Cardinality(VerifiedLinks) + 1
  <2>1. VerifiedLinks' = VerifiedLinks \cup {referee} /\ referee \notin VerifiedLinks
    BY <1>1, <1>3 DEF VerifiedLinks, TypeOK, ReferralLink
  <2>2. IsFiniteSet(VerifiedLinks)
    BY <1>1, FS_Subset DEF VerifiedLinks
  <2>. QED
    BY <2>1, <2>2, FS_AddElement
<1>6. /\ CountOf'[user] = n + 1 /\ CountOf[user] = n
      /\ EarnedBy'[user] = Wrap(e + reward) /\ EarnedBy[user] = e
      /\ \A u \in accounts \ {user} : CountOf'[u] = CountOf[u]
      /\ \A u \in accounts \ {user} : EarnedBy'[u] = EarnedBy[u]
  BY <1>1, <1>2, <1>4, WrapU32Fits DEF AfterCredit, CountOf, EarnedBy
<1>7. /\ \A u \in accounts : CountOf[u] \in Int
      /\ \A u \in accounts : EarnedBy[u] \in Int
      /\ CountOf'[user] \in Int /\ EarnedBy'[user] \in Int
  <2>1. Wrap(e + reward) \in Int
    BY <1>4, WrapType DEF U64
  <2>. QED
    BY <1>1, <1>4, <1>6, <2>1, SummandTypes
<1> HIDE DEF n, e
<1>8. SumFunctionOnSet(CountOf', accounts) = SumFunctionOnSet(CountOf, accounts) + 1
  <2>1. SumFunctionOnSet(CountOf', accounts)
          = SumFunctionOnSet(CountOf, accounts) + (CountOf'[user] - CountOf[user])
    <3>1. /\ IsFiniteSet(accounts) /\ user \in accounts
          /\ \A u \in accounts : CountOf[u] \in Int
          /\ CountOf'[user] \in Int
          /\ \A u \in accounts \ {user} : CountOf'[u] = CountOf[u]
      BY <1>1, <1>3, <1>6, <1>7
    <3>. QED
      BY <3>1, SumOneChanged
  <2>. QED
    BY <1>4, <1>6, <2>1
<1> DEFINE sum == SumFunctionOnSet(EarnedBy, accounts)
           after == SumFunctionOnSet(EarnedBy', accounts)
<1>9. sum \in Int /\ after = sum + (Wrap(e + reward) - e)
  <2>1. after = sum + (EarnedBy'[user] - EarnedBy[user])
    <3>1. /\ IsFiniteSet(accounts) /\ user \in accounts
          /\ \A u \in accounts : EarnedBy[u] \in Int
          /\ EarnedBy'[user] \in Int
          /\ \A u \in accounts \ {user} : EarnedBy'[u] = EarnedBy[u]
      BY <1>1, <1>3, <1>6, <1>7
    <3>. QED
      BY <3>1, SumOneChanged DEF sum, after
  <2>2. sum \in Int
    BY <1>1, <1>7, SumSame
  <2>. QED
    BY <1>6, <2>1, <2>2
<1> HIDE DEF sum, after
<1>10. Wrap(after) = Wrap(reward + sum)
  <2>1. sum - e \in Int /\ e + reward \in Int /\ Wrap(e + reward) \in Int
    BY <1>4, <1>9, WrapType DEF U64
  <2>2. Wrap((sum - e) + Wrap(e + reward)) = Wrap((sum - e) + (e + reward))
    BY <2>1, WrapSum
  <2>3. /\ (sum - e) + (e + reward) = reward + sum
        /\ after = (sum - e) + Wrap(e + reward)
    BY <1>4, <1>9, <2>1
  <2>. QED
    BY <2>2, <2>3
<1>11. referral_state'.total_rewards_paid = Wrap(after)
  <2>1. referral_state.total_rewards_paid = Wrap(sum) /\ Wrap(sum) \in Int
    BY <1>1, <1>9, WrapType DEF ReferralsBalanced, EarnedBy, sum, U64
  <2>2. referral_state'.total_rewards_paid = Wrap(referral_state.total_rewards_paid + reward)
    BY <1>1, <1>2 DEF AfterPayment, TypeOK, ReferralState
  <2>3. Wrap(reward + Wrap(sum)) = Wrap(reward + sum)
    BY <1>4, <1>9, WrapSum
  <2>4. referral_state.total_rewards_paid + reward = reward + Wrap(sum)
    BY <1>4, <2>1
  <2>. QED
    BY <1>10, <2>2, <2>3, <2>4
<1>12. Cardinality(VerifiedLinks') = SumFunctionOnSet(CountOf', accounts')
  BY <1>1, <1>3, <1>5, <1>8 DEF ReferralsBalanced, CountOf
<1>. QED
  BY <1>3, <1>11, <1>12 DEF ReferralsBalanced, CountOf, EarnedBy, after

LEMMA BalanceStep ==
    ASSUME OverflowChecks \/ MaxCount <= U32Max, BalanceInv, [Next]_vars
    PROVE  BalanceInv'
<1>1. /\ TypeOK /\ TypeOK' /\ CountInv /\ CountInv' /\ IsFiniteSet(accounts)
      /\ ~referral_state.initialized => referral_state.total_rewards_paid = 0
  BY CountStep DEF BalanceInv, CountInv
<1>2. ASSUME NEW signer \in Wallets, NEW m \in Mints, NEW b \in BaseRewards,
             Initialize(signer, m, b)
      PROVE  BalanceInv'
  <2>1. /\ VerifiedLinks' = VerifiedLinks
        /\ accounts' = accounts /\ referral_account' = referral_account
        /\ referral_state'.total_rewards_paid = referral_state.total_rewards_paid
        /\ referral_state'.initialized
    BY <1>1, <1>2 DEF Initialize, VerifiedLinks
  <2>. QED
    BY <1>1, <2>1, BalanceUnmoved DEF BalanceInv
<1>3. ASSUME NEW user \in Wallets, GenerateCode(user)
      PROVE  BalanceInv'
  <2>1. referral_state' = referral_state
    BY <1>3 DEF GenerateCode
  <2>. QED
    BY <1>1, <1>3, <2>1, BalanceNewAccount DEF BalanceInv
<1>4. ASSUME NEW referee \in Wallets, NEW user \in Wallets, ApplyReferral(referee, user)
      PROVE  BalanceInv'
  <2>1. /\ VerifiedLinks' = VerifiedLinks
        /\ accounts' = accounts /\ referral_account' = referral_account
        /\ referral_state' = referral_state
    BY <1>1, <1>4 DEF ApplyReferral, VerifiedLinks, TypeOK
  <2>. QED
    BY <1>1, <2>1, BalanceUnmoved DEF BalanceInv
<1>5. ASSUME NEW signer \in Wallets, NEW user \in Wallets, NEW referee \in Wallets,
             NEW m \in Mints, VerifyAndReward(signer, user, referee, m)
      PROVE  BalanceInv'
  <2>1. accounts' = accounts /\ referral_state.initialized
    BY <1>5 DEF VerifyAndReward
  <2>2. PICK reward : referral_state' = AfterPayment(referral_state, reward)
    BY <1>5 DEF VerifyAndReward
  <2>3. referral_state'.initialized
    BY <1>1, <2>1, <2>2 DEF AfterPayment, TypeOK, ReferralState
  <2>4. ReferralsBalanced'
    BY <1>1, <1>5, BalanceCredited
  <2>. QED
    BY <1>1, <2>1, <2>3, <2>4 DEF BalanceInv
<1>6. ASSUME UNCHANGED <<referral_state, accounts, referral_account, links, referral_link>>
      PROVE  BalanceInv'
  BY <1>1, <1>6, BalanceUnmoved DEF BalanceInv, VerifiedLinks
<1>. QED
  BY <1>2, <1>3, <1>4, <1>5, <1>6 DEF Next, TokenStep, vars

\* For any number of users and referees, and as long as no count of 32 bits wraps
\* (never in a checked build): the users' counts add up to the verified links, and
\* what was paid is the sum of what they earned.
THEOREM ReferralsStayBalanced ==
    ASSUME OverflowChecks \/ MaxCount <= U32Max
    PROVE  Spec => []ReferralsBalanced
<1>1. BalanceInv => ReferralsBalanced
  BY DEF BalanceInv
<1>2. BalanceInv /\ [Next]_vars => BalanceInv'
  BY BalanceStep
<1>. QED
  BY BalanceInit, <1>1, <1>2, PTL DEF Spec
--------------------------------------------------------------------------------
(***************************************************************************)
(* The program pays by the table of the documentation.                     *)
(***************************************************************************)

LEMMA SameWorth == \A b, n : Counts!Worth(b, n) = Worth(b, n)
  BY SameFunctions DEF Counts!Worth, Worth, Counts!Clamp, Clamp

\* The inductive invariant: what EarnedInv says of the counting specification,
\* said of the accounts.
TableInv ==
    /\ CountInv
    /\ \A u \in Wallets : referral_account[u].referral_count <= MaxCount
    /\ \A u \in Wallets :
         IF referral_state.initialized
           THEN referral_account[u].total_earned
                  = Wrap(Worth(referral_state.base_reward, referral_account[u].referral_count))
           ELSE /\ referral_account[u].referral_count = 0
                /\ referral_account[u].total_earned = 0

LEMMA TableInit == Init => TableInv
  BY CountInit, ConstantFacts DEF Init, TableInv, NewAccount

LEMMA TableStep ==
    ASSUME MaxCount <= U32Max, TableInv, [Next]_vars
    PROVE  TableInv'
<1>1. CountInv /\ CountInv' /\ TypeOK
  BY CountStep DEF TableInv, CountInv
<1>2. ASSUME NEW signer \in Wallets, NEW m \in Mints, NEW b \in BaseRewards,
             Initialize(signer, m, b)
      PROVE  TableInv'
  <2>1. b \in U64 /\ Wrap(Worth(b, 0)) = 0
    BY ConstantFacts, WorthOfNone, WrapFits
  <2>2. /\ ~referral_state.initialized /\ referral_state'.initialized
        /\ referral_state'.base_reward = b /\ referral_account' = referral_account
    BY <1>2 DEF Initialize
  <2>. QED
    BY <1>1, <2>1, <2>2 DEF TableInv
<1>3. ASSUME UNCHANGED <<referral_state, referral_account>>
      PROVE  TableInv'
  BY <1>1, <1>3 DEF TableInv
<1>4. ASSUME NEW user \in Wallets, GenerateCode(user)
      PROVE  TableInv'
  BY <1>1, <1>3, <1>4 DEF GenerateCode, CountInv, TypeOK
<1>5. ASSUME NEW signer \in Wallets, NEW user \in Wallets, NEW referee \in Wallets,
             NEW m \in Mints, VerifyAndReward(signer, user, referee, m)
      PROVE  TableInv'
  <2> DEFINE account == referral_account[user]
             n == account.referral_count
             b == referral_state.base_reward
             r == Reward(b, TierOf(WrapU32(n + 1)))
  <2>1. /\ referral_state.initialized /\ n < MaxCount
        /\ referral_account' = [referral_account EXCEPT ![user] = AfterCredit(account, r)]
        /\ referral_state' = AfterPayment(referral_state, r)
    BY <1>5 DEF VerifyAndReward
  <2>2. n \in Nat /\ b \in U64 /\ account.total_earned = Wrap(Worth(b, n))
    BY <1>1, <2>1 DEF TypeOK, ReferralAccount, ReferralState, TableInv, U32
  <2>3. /\ WrapU32(n + 1) = n + 1
        /\ Wrap(Wrap(Worth(b, n)) + Reward(b, TierOf(n + 1))) = Wrap(Worth(b, n + 1))
    BY <2>1, <2>2, CreditByTable
  <2>4. referral_state'.initialized /\ referral_state'.base_reward = b
    BY <1>1, <2>1 DEF AfterPayment, TypeOK, ReferralState
  <2>5. /\ AfterCredit(account, r).referral_count = n + 1
        /\ AfterCredit(account, r).total_earned = Wrap(Worth(b, n + 1))
    BY <2>2, <2>3 DEF AfterCredit
  <2> HIDE DEF r
  <2>6. /\ referral_account'[user].referral_count = n + 1
        /\ referral_account'[user].total_earned = Wrap(Worth(b, n + 1))
        /\ \A u \in Wallets \ {user} : referral_account'[u] = referral_account[u]
    BY <1>1, <2>1, <2>5 DEF TypeOK
  <2> HIDE DEF n, b, account
  <2>7. n + 1 <= MaxCount
    BY <2>1, <2>2, ConstantFacts
  <2>8. \A u \in Wallets :
          /\ referral_account'[u].referral_count <= MaxCount
          /\ referral_account'[u].total_earned
               = Wrap(Worth(b, referral_account'[u].referral_count))
    <3> SUFFICES ASSUME NEW u \in Wallets
                 PROVE  /\ referral_account'[u].referral_count <= MaxCount
                        /\ referral_account'[u].total_earned
                             = Wrap(Worth(b, referral_account'[u].referral_count))
      OBVIOUS
    <3>1. CASE u = user
      BY <3>1, <2>6, <2>7
    <3>2. CASE u # user
      BY <3>2, <2>1, <2>6 DEF TableInv, b
    <3>. QED
      BY <3>1, <3>2
  <2>. QED
    BY <1>1, <2>4, <2>8 DEF TableInv
<1>. QED
  BY <1>2, <1>3, <1>4, <1>5 DEF Next, ApplyReferral, TokenStep, vars

\* What a user of the program itself has earned is what the table says its
\* referrals are worth, whatever referees, users and the authority do: the
\* property of the counting specification, of the program that implements it.
THEOREM ProgramPaysByTable ==
    ASSUME MaxCount <= U32Max
    PROVE  Spec => []EarnsByTable
<1>1. ASSUME TableInv
      PROVE  EarnsByTable
  BY <1>1, SameWorth, SameFunctions DEF TableInv, EarnsByTable, Counts!EarnedByTable, Counts!NoReward
<1>. QED
  BY TableInit, TableStep, <1>1, PTL DEF Spec
--------------------------------------------------------------------------------
(***************************************************************************)
(* What a step may do to links and accounts.                               *)
(***************************************************************************)

\* What LinksAreFinal says of one step: of the links that are there,
LinksStay ==
    /\ links \subseteq links'
    /\ \A r \in links :
         /\ referral_link'[r].referrer = referral_link[r].referrer
         /\ referral_link[r].is_verified => referral_link'[r].is_verified

\* of a step that credits nobody,
NothingCredited ==
    /\ VerifiedLinks' = VerifiedLinks
    /\ referral_state'.total_referrals = referral_state.total_referrals
    /\ referral_account' = referral_account

\* and of one that spends a link on a user.
LinkCredited(r, u) ==
    /\ VerifiedLinks' = VerifiedLinks \cup {r}
    /\ referral_state'.total_referrals = Wrap(referral_state.total_referrals + 1)
    /\ referral_account'[u].referral_count # referral_account[u].referral_count
    /\ \A v \in Wallets \ {u} : referral_account'[v] = referral_account[v]

LinksKept ==
    /\ LinksStay
    /\ \/ NothingCredited
       \/ \E r \in links \ VerifiedLinks, u \in accounts : LinkCredited(r, u)

\* Counting one more referral changes the count, also where 32 bits wrap.
LEMMA CountMoves ==
    ASSUME NEW n \in U32
    PROVE  WrapU32(n + 1) # n
<1>1. n \in Nat /\ n <= U32Max /\ U32Max \in Nat \ {0}
  BY TiersAssumption DEF U32
<1>2. CASE n < U32Max
  <2>1. WrapU32(n + 1) = n + 1
    <3>1. n + 1 \in 0..(U32Max + 1)-1 /\ n + 1 = (U32Max + 1) * 0 + (n + 1)
      BY <1>1, <1>2
    <3>. QED
      BY <1>1, <3>1, RemainderUnique DEF WrapU32
  <2>. QED
    BY <1>1, <2>1
<1>3. CASE n = U32Max
  <2>1. WrapU32(n + 1) = 0
    <3>1. 0 \in 0..(U32Max + 1)-1 /\ n + 1 = (U32Max + 1) * 1 + 0
      BY <1>1, <1>3
    <3>. QED
      BY <1>1, <3>1, RemainderUnique DEF WrapU32
  <2>. QED
    BY <1>1, <1>3, <2>1
<1>. QED
  BY <1>1, <1>2, <1>3

LEMMA LinksStep ==
    ASSUME CountInv, [Next]_vars
    PROVE  LinksKept
<1> USE DEF CountInv
<1>1. ASSUME UNCHANGED <<referral_account, links, referral_link>>,
             referral_state'.total_referrals = referral_state.total_referrals
      PROVE  LinksKept
  BY <1>1 DEF LinksKept, LinksStay, NothingCredited, VerifiedLinks
<1>2. ASSUME NEW signer \in Wallets, NEW m \in Mints, NEW b \in BaseRewards,
             Initialize(signer, m, b)
      PROVE  LinksKept
  BY <1>1, <1>2 DEF Initialize
<1>3. ASSUME NEW user \in Wallets, GenerateCode(user)
      PROVE  LinksKept
  <2>1. referral_account' = referral_account
    BY <1>3 DEF GenerateCode, TypeOK
  <2>. QED
    BY <1>1, <1>3, <2>1 DEF GenerateCode
<1>4. ASSUME NEW referee \in Wallets, NEW user \in Wallets, ApplyReferral(referee, user)
      PROVE  LinksKept
  <2>1. VerifiedLinks' = VerifiedLinks
    BY <1>4 DEF ApplyReferral, VerifiedLinks, TypeOK
  <2>. QED
    BY <1>4, <2>1 DEF ApplyReferral, TypeOK, LinksKept, LinksStay, NothingCredited
<1>5. ASSUME NEW signer \in Wallets, NEW user \in Wallets, NEW referee \in Wallets,
             NEW m \in Mints, VerifyAndReward(signer, user, referee, m)
      PROVE  LinksKept
  <2>1. PICK reward :
          /\ referral_account' = [referral_account EXCEPT ![user] = AfterCredit(@, reward)]
          /\ referral_state' = AfterPayment(referral_state, reward)
    BY <1>5 DEF VerifyAndReward
  <2>2. /\ referee \in links /\ ~referral_link[referee].is_verified
        /\ referral_link' = [referral_link EXCEPT ![referee].is_verified = TRUE]
        /\ links' = links
        /\ user \in accounts
    BY <1>5 DEF VerifyAndReward, CanVerify
  <2>3. VerifiedLinks' = VerifiedLinks \cup {referee} /\ referee \notin VerifiedLinks
    BY <2>2 DEF VerifiedLinks, TypeOK, ReferralLink
  <2>4. referral_account'[user].referral_count # referral_account[user].referral_count
    <3>1. referral_account[user].referral_count \in U32
      BY DEF TypeOK, ReferralAccount
    <3>. QED
      BY <2>1, <3>1, CountMoves DEF AfterCredit, TypeOK
  <2>5. \A v \in Wallets \ {user} : referral_account'[v] = referral_account[v]
    BY <2>1 DEF TypeOK
  <2>6. referral_state'.total_referrals = Wrap(referral_state.total_referrals + 1)
    BY <2>1 DEF AfterPayment, TypeOK, ReferralState
  <2>7. LinksStay
    BY <2>2 DEF LinksStay, TypeOK, ReferralLink
  <2>. QED
    BY <2>2, <2>3, <2>4, <2>5, <2>6, <2>7 DEF LinksKept, LinkCredited
<1>. QED
  BY <1>1, <1>2, <1>3, <1>4, <1>5 DEF Next, TokenStep, vars

\* For any number of users and referees: a link stays, with its referrer; it is
\* verified once, for one referral of one user and of the program's total, and
\* nothing else moves either.
THEOREM LinksStayFinal == Spec => LinksAreFinal
<1>1. Spec => []CountInv
  BY CountInit, CountStep, PTL DEF Spec
<1>2. CountInv /\ [Next]_vars => [LinksKept]_vars
  BY LinksStep
<1>3. Spec => [][LinksKept]_vars
  BY <1>1, <1>2, PTL DEF Spec
<1>4. LinksKept <=>
        (/\ links \subseteq links'
         /\ \A r \in links :
              /\ referral_link'[r].referrer = referral_link[r].referrer
              /\ referral_link[r].is_verified => referral_link'[r].is_verified
         /\ \/ /\ VerifiedLinks' = VerifiedLinks
               /\ referral_state'.total_referrals = referral_state.total_referrals
               /\ referral_account' = referral_account
            \/ \E r \in links \ VerifiedLinks, u \in accounts :
                 /\ VerifiedLinks' = VerifiedLinks \cup {r}
                 /\ referral_state'.total_referrals = Wrap(referral_state.total_referrals + 1)
                 /\ referral_account'[u].referral_count # referral_account[u].referral_count
                 /\ \A v \in Wallets \ {u} : referral_account'[v] = referral_account[v])
  BY DEF LinksKept, LinksStay, NothingCredited, LinkCredited
<1>. QED
  BY <1>3, <1>4, PTL DEF LinksAreFinal

\* What RewardsAreMinted says of one account and one step.
RewardMinted(u) ==
    LET reward == Wrap(referral_account'[u].total_earned - referral_account[u].total_earned)
        m == referral_state.mint
    IN  reward # 0 =>
          /\ balance'[m][u] = balance[m][u] + reward
          /\ referral_state'.total_rewards_paid
               = Wrap(referral_state.total_rewards_paid + reward)

LEMMA NothingEarned ==
    ASSUME TypeOK, NEW u \in Wallets,
           referral_account'[u].total_earned = referral_account[u].total_earned
    PROVE  RewardMinted(u)
<1>1. referral_account[u].total_earned \in Int
  BY ConstantFacts DEF TypeOK, ReferralAccount, U64
<1>2. referral_account'[u].total_earned - referral_account[u].total_earned = 0
  BY <1>1
<1>. QED
  BY <1>2, ConstantFacts, WrapFits DEF RewardMinted

LEMMA RewardsStep ==
    ASSUME TypeOK, [Next]_vars, NEW u \in accounts
    PROVE  RewardMinted(u)
<1>0. u \in Wallets /\ referral_account \in [Wallets -> ReferralAccount]
  BY DEF TypeOK
<1>1. ASSUME UNCHANGED referral_account
      PROVE  RewardMinted(u)
  BY <1>0, <1>1, NothingEarned
<1>2. ASSUME NEW user \in Wallets, GenerateCode(user)
      PROVE  RewardMinted(u)
  <2>1. referral_account'[u] = referral_account[u]
    BY <1>0, <1>2 DEF GenerateCode
  <2>. QED
    BY <1>0, <2>1, NothingEarned
<1>3. ASSUME NEW signer \in Wallets, NEW user \in Wallets, NEW referee \in Wallets,
             NEW m \in Mints, VerifyAndReward(signer, user, referee, m)
      PROVE  RewardMinted(u)
  <2>1. PICK reward \in U64 :
          /\ m = referral_state.mint
          /\ MintTo(m, ReferralPda, user, reward)
          /\ referral_account' = [referral_account EXCEPT ![user] = AfterCredit(@, reward)]
          /\ referral_state' = AfterPayment(referral_state, reward)
    BY <1>3, VerifyFacts DEF VerifyAndReward
  <2>2. CASE u # user
    <3>1. referral_account'[u] = referral_account[u]
      BY <1>0, <2>1, <2>2
    <3>. QED
      BY <1>0, <3>1, NothingEarned
  <2>3. CASE u = user
    <3> DEFINE e == referral_account[u].total_earned
    <3>1. e \in Int /\ reward \in Int /\ -e \in Int
      BY <1>0, ConstantFacts DEF ReferralAccount, U64
    <3>2. referral_account'[u].total_earned = Wrap(e + reward)
      BY <1>0, <2>1, <2>3 DEF AfterCredit
    <3> HIDE DEF e
    <3>3. Wrap((-e) + Wrap(e + reward)) = Wrap((-e) + (e + reward))
      BY <3>1, WrapSum
    <3>4. (-e) + (e + reward) = reward /\ Wrap(reward) = reward
      BY <2>1, <3>1, WrapFits
    <3>5. Wrap(e + reward) - e = (-e) + Wrap(e + reward)
      BY <3>1, WrapType DEF U64
    <3>6. Wrap(referral_account'[u].total_earned - referral_account[u].total_earned) = reward
      BY <3>2, <3>3, <3>4, <3>5 DEF e
    <3>7. balance'[m][u] = balance[m][u] + reward
      BY <1>0, <2>1, <2>3 DEF MintTo, TypeOK, TokenTypeOK
    <3>8. referral_state'.total_rewards_paid = Wrap(referral_state.total_rewards_paid + reward)
      BY <2>1 DEF AfterPayment, TypeOK, ReferralState
    <3>. QED
      BY <2>1, <3>6, <3>7, <3>8 DEF RewardMinted
  <2>. QED
    BY <2>2, <2>3
<1>. QED
  BY <1>1, <1>2, <1>3 DEF Next, Initialize, ApplyReferral, TokenStep, vars

\* For every width and both builds: what a step adds to what a user earned is
\* minted to that user, and counted by the program, in that step.
THEOREM RewardsAreAlwaysMinted == Spec => RewardsAreMinted
<1>1. TypeOK /\ [Next]_vars => [\A u \in accounts : RewardMinted(u)]_vars
  BY RewardsStep
<1>2. Spec => [][\A u \in accounts : RewardMinted(u)]_vars
  BY <1>1, TypeCorrect, PTL DEF Spec
<1>3. (\A u \in accounts : RewardMinted(u)) <=>
        \A u \in accounts :
          LET reward == Wrap(referral_account'[u].total_earned - referral_account[u].total_earned)
              m == referral_state.mint
          IN  reward # 0 =>
                /\ balance'[m][u] = balance[m][u] + reward
                /\ referral_state'.total_rewards_paid
                     = Wrap(referral_state.total_rewards_paid + reward)
  BY DEF RewardMinted
<1>. QED
  BY <1>2, <1>3, PTL DEF RewardsAreMinted
================================================================================
