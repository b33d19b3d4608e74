-------------------------------- MODULE Referral --------------------------------
(***************************************************************************)
(* The referral program: users generate a code (their ReferralAccount), a  *)
(* referee applies one (its ReferralLink), and the authority verifies the  *)
(* link, which credits an account and mints the reward.                    *)
(*                                                                         *)
(* As in QuiksRewards an instruction is one action; referees, users and    *)
(* the authority interleave.  The code is a hash that no instruction looks *)
(* up, the timestamps are written and never read: they are left out, as    *)
(* are the bumps.  get_bonus_bps changes no account: it is BonusBps.       *)
(***************************************************************************)
EXTENDS SplToken, ReferralTiers, FiniteSets, Functions

ReferralPda == "referral-state"
NoKey == "no-key"

ASSUME ReferralAssumption ==
    /\ ReferralPda \in Pdas
    /\ NoKey \notin Wallets \cup Mints

VARIABLES
    referral_state,     \* the ReferralState account
    accounts,           \* the users whose ReferralAccount exists
    referral_account,   \* their ReferralAccounts
    links,              \* the referees whose ReferralLink exists
    referral_link       \* their ReferralLinks

vars == <<token_vars, referral_state, accounts, referral_account, links, referral_link>>

ReferralState ==
    [initialized: BOOLEAN,
     authority: Wallets \cup {NoKey},
     mint: Mints \cup {NoKey},
     base_reward: U64,
     total_referrals: U64,
     total_rewards_paid: U64]

ReferralAccount == [referral_count: U32, tier: Tier, total_earned: U64]

ReferralLink == [referrer: Wallets \cup {NoKey}, is_verified: BOOLEAN]

NewAccount == [referral_count |-> 0, tier |-> "Bronze", total_earned |-> 0]
NoLink == [referrer |-> NoKey, is_verified |-> FALSE]

TypeOK ==
    /\ TokenTypeOK
    /\ referral_state \in ReferralState
    /\ accounts \subseteq Wallets
    /\ referral_account \in [Wallets -> ReferralAccount]
    /\ links \subseteq Wallets
    /\ referral_link \in [Wallets -> ReferralLink]

Init ==
    /\ TokenInit
    /\ referral_state = [initialized |-> FALSE, authority |-> NoKey, mint |-> NoKey,
                         base_reward |-> 0, total_referrals |-> 0, total_rewards_paid |-> 0]
    /\ accounts = {}
    /\ referral_account = [u \in Wallets |-> NewAccount]
    /\ links = {}
    /\ referral_link = [r \in Wallets |-> NoLink]
--------------------------------------------------------------------------------
\* Anybody may run it, once: init fails when the account exists.
Initialize(signer, m, base) ==
    /\ ~referral_state.initialized
    /\ referral_state' = [initialized |-> TRUE, authority |-> signer, mint |-> m,
                          base_reward |-> base, total_referrals |-> 0, total_rewards_paid |-> 0]
    /\ UNCHANGED <<token_vars, accounts, referral_account, links, referral_link>>

GenerateCode(user) ==
    /\ user \notin accounts
    /\ accounts' = accounts \cup {user}
    /\ referral_account' = [referral_account EXCEPT ![user] = NewAccount]
    /\ UNCHANGED <<token_vars, referral_state, links, referral_link>>

\* Mutant: the link of a referee may be applied again.
ApplyReferralAgain(referee, user) ==
    /\ user \in accounts
    /\ links' = links \cup {referee}
    /\ referral_link' = [referral_link EXCEPT ![referee] = [referrer |-> user, is_verified |-> FALSE]]
    /\ UNCHANGED <<token_vars, referral_state, accounts, referral_account>>

\* One link for each referee; neither the state nor the authority is needed.
ApplyReferral(referee, user) ==
    /\ user \in accounts
    /\ referee \notin links
    /\ links' = links \cup {referee}
    /\ referral_link' = [referral_link EXCEPT ![referee] = [referrer |-> user, is_verified |-> FALSE]]
    /\ UNCHANGED <<token_vars, referral_state, accounts, referral_account>>

\* Mutant: a verified link is accepted again.
CanVerifyAgain(referee) == referee \in links

CanVerify(referee) == referee \in links /\ ~referral_link[referee].is_verified

\* Mutant: the reward is not added to what the user earned.
AfterCreditUnearned(account, reward) ==
    [account EXCEPT !.referral_count = WrapU32(@ + 1),
                    !.tier = TierOf(WrapU32(account.referral_count + 1))]

\* referral_count += 1, the tier of that count, total_earned += reward.
AfterCredit(account, reward) ==
    LET n == WrapU32(account.referral_count + 1)
    IN  [referral_count |-> n,
         tier |-> TierOf(n),
         total_earned |-> Wrap(account.total_earned + reward)]

\* Mutant: the program's totals are left as they were.
AfterPaymentUncounted(state, reward) == [state EXCEPT !.total_referrals = Wrap(@ + 1)]

\* Mutant: the referrals are counted down.
AfterPaymentDown(state, reward) ==
    [state EXCEPT !.total_referrals = @ - 1,
                  !.total_rewards_paid = Wrap(@ + reward)]

\* Mutant: the referral is not counted.
AfterPaymentNoReferral(state, reward) ==
    [state EXCEPT !.total_rewards_paid = Wrap(@ + reward)]

AfterPayment(state, reward) ==
    [state EXCEPT !.total_referrals = Wrap(@ + 1),
                  !.total_rewards_paid = Wrap(@ + reward)]

\* The credited account is the one passed: nothing relates it to the link.
VerifyAndReward(signer, user, referee, m) ==
    LET account == referral_account[user]
        n == WrapU32(account.referral_count + 1)
        reward == Reward(referral_state.base_reward, TierOf(n))
    IN  /\ referral_state.initialized
        /\ referral_state.authority = signer
        /\ m = referral_state.mint
        /\ user \in accounts
        /\ CanVerify(referee)
        /\ account.referral_count < MaxCount
        /\ FitsU32(account.referral_count + 1)
        /\ RewardFits(referral_state.base_reward, TierOf(n))
        /\ Fits(account.total_earned + reward)
        /\ Fits(referral_state.total_referrals + 1)
        /\ Fits(referral_state.total_rewards_paid + reward)
        /\ referral_link' = [referral_link EXCEPT ![referee].is_verified = TRUE]
        /\ referral_account' = [referral_account EXCEPT ![user] = AfterCredit(account, reward)]
        /\ MintTo(m, ReferralPda, user, reward)
        /\ referral_state' = AfterPayment(referral_state, reward)
        /\ UNCHANGED <<accounts, links>>

\* What holders do to the token outside the program.
TokenStep ==
    /\ \E m \in Mints, w \in Wallets, amount \in TokenAmounts : Burn(m, w, amount)
    /\ UNCHANGED <<referral_state, accounts, referral_account, links, referral_link>>

Next ==
    \/ \E signer \in Wallets, m \in Mints, base \in BaseRewards : Initialize(signer, m, base)
    \/ \E user \in Wallets : GenerateCode(user)
    \/ \E referee, user \in Wallets : ApplyReferral(referee, user)
    \/ \E signer, user, referee \in Wallets, m \in Mints :
         VerifyAndReward(signer, user, referee, m)
    \/ TokenStep

Spec == Init /\ [][Next]_vars
--------------------------------------------------------------------------------
VerifiedLinks == {r \in links : referral_link[r].is_verified}

\* The program's total of referrals is the number of verified links, however
\* referees, users and the authority interleave: each link is counted once.
VerifiedLinksCounted ==
    referral_state.total_referrals = Wrap(Cardinality(VerifiedLinks))

\* The counts of the users add up to the number of verified links, and what was
\* paid is the sum of what the users earned: no referral is credited twice, or
\* to nobody.
ReferralsBalanced ==
    LET count  == [u \in Wallets |-> referral_account[u].referral_count]
        earned == [u \in Wallets |-> referral_account[u].total_earned]
    IN  /\ Cardinality(VerifiedLinks) = SumFunctionOnSet(count, accounts)
        /\ referral_state.total_rewards_paid = Wrap(SumFunctionOnSet(earned, accounts))

\* A link is for good: what referee and referrer agreed is never replaced, and
\* a link is verified at most once (tests: "rejects double verification"), for
\* exactly one referral in the program's total and one user's count.  Nothing
\* else moves that total or any account.
LinksAreFinal ==
    [][/\ links \subseteq links'
       /\ \A r \in links :
            /\ referral_link'[r].referrer = referral_link[r].referrer
            /\ referral_link[r].is_verified => referral_link'[r].is_verified
       /\ \/ /\ VerifiedLinks' = VerifiedLinks
             /\ referral_state'.total_referrals = referral_state.total_referrals
             /\ referral_account' = referral_account
          \/ \E r \in links \ VerifiedLinks, u \in accounts :
               /\ VerifiedLinks' = VerifiedLinks \cup {r}
               /\ referral_state'.total_referrals = Wrap(referral_state.total_referrals + 1)
               /\ referral_account'[u].referral_count # referral_account[u].referral_count
               /\ \A v \in Wallets \ {u} : referral_account'[v] = referral_account[v]]_vars

\* The reward a step adds to an account is minted to its user in that step and
\* counted in total_rewards_paid.
RewardsAreMinted ==
    [][\A u \in accounts :
         LET reward == Wrap(referral_account'[u].total_earned - referral_account[u].total_earned)
             m == referral_state.mint
         IN  reward # 0 =>
               /\ balance'[m][u] = balance[m][u] + reward
               /\ referral_state'.total_rewards_paid
                    = Wrap(referral_state.total_rewards_paid + reward)]_vars

\* "Verify a referral and distribute reward to referrer" (comment on
\* verify_and_reward): when a link is verified, the account credited is the one
\* of the referrer the link names.
RewardGoesToReferrer ==
    [][\A r \in VerifiedLinks' \ VerifiedLinks :
         LET u == referral_link[r].referrer
         IN  referral_account'[u].referral_count # referral_account[u].referral_count]_vars

\* The program implements ReferralCounts.
Counts == INSTANCE ReferralCounts WITH
    Users <- Wallets,
    base_reward <- IF referral_state.initialized THEN referral_state.base_reward ELSE -1,
    count <- [u \in Wallets |-> referral_account[u].referral_count],
    earned <- [u \in Wallets |-> referral_account[u].total_earned]

\* Verified links aside, the program is the counting specification: every
\* instruction credits one user with one referral, or nobody.
ImplementsCounts == Counts!CountsSpec

\* What a user has earned is what the table of tiers says its count is worth,
\* whichever links it was credited for, over all its promotions.
EarnsByTable == Counts!EarnedByTable
================================================================================
