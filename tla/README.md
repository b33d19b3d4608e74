# QuikDB protocol: TLA+ models, checks and proofs

This directory holds a verification development for the QuikDB protocol: models of
the three Solana programs, of the authority that distributes the epoch bonus, of the
deployment handlers that run on a community node, of the edge router, and of the
compute dashboard. TLC checks them on small
instances; TLAPS proves all the safety properties that hold, for every value of the constants.
`PROJECT.json` relates every definition to the lines it models, lists the runs, and
lists the hazards the properties are for. Paths below are relative to the root of the
sources (`src/` in `PROJECT.json`).

## 1. The system

| Part | Source | State | Operations |
|---|---|---|---|
| node-registry | `programs/node-registry/src/lib.rs` | `RegistryState`; a `NodeAccount` per operator; a `DeploymentRecord` per deployment | initialize, register_node, record_heartbeat, record_deployment, update_deployment_status, deactivate_node |
| quiks-rewards | `programs/quiks-rewards/src/lib.rs` | `RewardState`; a `RewardTracker` per operator | initialize, init_reward_tracker, record_heartbeats, claim_heartbeat_rewards, distribute_epoch_bonus, update_epoch_pool |
| referral | `programs/referral/src/lib.rs` | `ReferralState`; a `ReferralAccount` per user; a `ReferralLink` per referee | initialize, generate_code, apply_referral, verify_and_reward, get_bonus_bps |
| QUIKS token | SPL token program (dependency), `scripts/create-quiks-token.sh` | mint authority, supply, balances | mint_to (by the programs), mint (by the script's wallet), burn, authorize |
| authority / orchestrator | not in the repository; described in `docs/architecture.md` | leaderboard of an epoch | verifies heartbeats, records them, pays ranks, verifies referrals |
| CLI runner | `platform/cli/server/deployment_handler.go` | map of deployments, ports, containers | HandleDeploy and its goroutine, HandleStatus, HandleStop |
| edge router | `platform/edge-router/src/index.ts` | routing cache, a round-robin counter per deployment | routing of requests, wake of sleeping deployments |
| compute dashboard | `platform/compute/` | React state and query cache | deploy wizard, deployment queries and mutations, log stream |

**How they interact.** Operators, users and the authority send transactions; a
transaction runs one instruction with its accounts locked and is rolled back when it
fails, so the programs' concurrency is an arbitrary interleaving of whole
instructions of different signers. The programs do not call each other: heartbeats
reach quiks-rewards as an argument of `record_heartbeats`, and the referral bonus as
an argument of `distribute_epoch_bonus`. quiks-rewards and referral call `mint_to`
with a program derived address as the authority of the mint. Off chain, the
orchestrator posts deploy and stop requests to the runner on a node, whose HTTP
handlers and goroutines share a map under a lock and the machine's ports and
containers; the edge router asks the orchestrator where a host is served and caches
the answer; the dashboard polls.

**What is hard, and what would make each part correct.**

- *node-registry*: two formulas with boundaries (gap of 300 s, 1000 heartbeats),
  counters kept beside the accounts they count. Correct: uptime is time that
  passed; the score follows the heartbeats; counters agree with accounts;
  deactivation is final.
- *quiks-rewards*: claims interleave with batches of heartbeats; unchecked 64-bit
  arithmetic; three ledgers (tracker, `total_minted`, token). Correct: no heartbeat is
  lost or paid twice, the ledgers agree, full batches are paid for.
- *epoch bonus*: one epoch is many transactions, some fail, the pool may change
  between them. Correct: a round stays within the pool plus 5 %.
- *referral*: one-shot links, tiers with promotions, 16-bit basis points. Correct: a
  link is credited once, rewards follow the table, the bonus is capped.
- *CLI runner*: goroutines, a lock released before its data is used, ports that are
  probed and released, containers that end by themselves or outlive the process.
  Correct: no status is left behind, what is reported live was not taken down, deploys
  settle.
- *edge router*: a routing answer that is cached after the deployment went to sleep or
  moved, a counter that outlives the list it indexes, wakes that are repeated, lost, or
  not sent because an answer leaves the deployment out, pages that refresh themselves. Correct: backends are selected evenly, and nobody is
  left on a page that says the app is waking up.
- *deploy wizard*: `detectConfig` is awaited while the user goes on choosing, editing and
  reviewing; a click comes before the rendering it should have waited for; a POST goes on
  when the page is left, and may be carried out and its answer lost. Correct: what is
  deployed is what was reviewed, for the repository that is named, and no click but a
  hasty one sends a second POST beside the one the wizard watches.
- *dashboard pages*: polls, commands and the invalidation of queries race; the log
  socket is refused, lost, ended by the server, or replaced when the token changes or is
  gone. Correct: a page that
  stays open catches up, an acknowledged restart is not overwritten by an older answer,
  the viewer says "Live" when it is.

## 2. Modules

| Module | Models | Notes |
|---|---|---|
| `U64` | integer arithmetic of the programs | `Fits` is the panic of a build with overflow checks, `Wrap` what is stored |
| `SplToken` | the token, as far as the programs and the script use it | external, except `WalletMint` |
| `QuiksRewards` | quiks-rewards | extends `SplToken`; one action per instruction |
| `EpochRounds` | quiks-rewards with the authority's client | extends `QuiksRewards`; the client pays rank by rank, may skip one that fails |
| `ReferralTiers` | pure functions of a referral count | tier, reward, basis points |
| `ReferralCounts` | **abstract**: what the referral program promises | users, counts, earnings; no links, accounts or token |
| `Referral` | the referral program | extends `SplToken`, `ReferralTiers`; implements `ReferralCounts` (`ImplementsCounts`) |
| `NodeRegistry` | node-registry and its clock | one action per instruction, and `Tick` |
| `DeploymentHandler` | the HTTP handlers of a node | one action per stretch of code between two points where another goroutine can run |
| `EdgeRouter` | the worker, with its cache, the visitors' tabs and an orchestrator that wakes, moves and scales deployments | one action per stretch between two `await`s |
| `DeployWizard` | the wizard and the API calls it awaits | one action per handler, up to its `await` and after it |
| `Session` | the cookie with the access token | external but for where it is read |
| `DeploymentQueries` | list and deployment queries, restart and stop, and what the pages show of them | extends `Session`; TanStack Query is external |
| `DeploymentLogs` | the log socket's hook and the viewer | extends `Session`; socket.io is external |
| `ComputePages` | one tab of the dashboard | composes the two above under one session |
| `MC...` | the same for TLC | symmetry, and values that a cfg cannot write |
| `ArithmeticProofs` | lemmas on division, wrapping and finite sums | used by the proofs of the programs |
| `QuiksRewardsProofs` | theorems about `QuiksRewards` and `EpochRounds` | |
| `ReferralProofs` | theorems about `ReferralCounts`, `Referral` and the refinement | |
| `NodeRegistryProofs`, `DeploymentHandlerProofs`, `EdgeRouterProofs`, `DeployWizardProofs`, `ComputePagesProofs` | theorems about the module each is named after | |

### Correspondence with the code

*Programs.* An account that `init` creates is a member of a set of existing accounts
(`trackers`, `accounts`, `links`, `nodes`, `records`) and a record in a function. The
guard of an action is the account constraints of the instruction's `Accounts` struct
(`init`: not there yet; `has_one = authority`: the signer is the recorded authority;
seeds: the account belongs to the key), its `require!`s and, through `Fits`, its
arithmetic. An instruction that fails changes nothing and is not a step. What the
instruction assigns is the primed variables: `AfterClaim`, `AfterMint`, `AfterCredit`
and so on are those assignments, each of one account. In node-registry
`update_deployment_status` relates its signer to nothing, and the action has no
signer. Hashes, timestamps that are only stored, events and bumps are left out.

*Overflow.* Counters are u64 and the workspace's `Cargo.toml` sets no
`overflow-checks`: a release build wraps, a debug build (and one with the key set)
panics and rolls back. `OverflowChecks` says which build is modelled; both are
modelled and proved about. `mint_to` checks its own additions in every build. The width is a
constant because TLC counts in 32 bits, and because a small width lets it reach the
limit. `rewards` runs the build the sources configure; the checking build is run by
`epoch_rounds`, and both are covered by the proofs.

*Deployment handlers.* `deployments` maps an id to an object, as in the code; each
deploy request makes one object and at most one container, so the three share their
names. `AllocatePort` is lines 63-68, `Register` 70-82, then the goroutine: `Begin`,
`FetchAndBuild`, `RunContainer`, and its last critical section in the two writes a
reader without the lock can tell apart (`PublishStatus`, `PublishContainer`).
`HandleStop` looks the object up under the read lock (`FindDeployment`) and reads
`ContainerID` three times without it (`CheckContainer`, `DockerStop`,
`DockerRemove`). Those reads race with the goroutine's write: `ContainerRead` is the
set of values such a read may return, and a torn read of the string may panic, which
net/http turns into the end of the request. git, R2 and docker are stubs in the
repository; here each call may fail, and docker starts no container on a port that is
bound. `ContainerCrashes` is a container that ends by itself, which the server does not
notice; its port is free again. `Restart` ends the process: the map and the goroutines
are gone, the containers are not. Ports that other processes hold are left out:
`allocatePort` would pass over them.

*Edge router.* A request is a visitor's tab: `Visit` is the handler up to its lookup,
`LookupInCache`, `LookupAtOrchestrator` and `LookupFails` are the `await`ed fetch, and
`Proxy`, `HandleUnavailable` and `NotServed` are what follows it, which runs without
another `await` before the answer is decided. `selectBackend` reads and writes a
counter kept in the memory of the isolate, modulo the length of the list it was just
given; `spread` is a history of what was selected from that list. The POST to `/wake`
is left to `waitUntil`, so it is an element of `wakes` that arrives or is lost.
`ColdStart` empties the memory. `deploymentId` is optional in a `RoutingResponse`, and
`UnnamedHosts` are those whose 503 comes without it: no wake is sent for them. The rewriting of a proxied request and what a backend
answers are left out.

*Deploy wizard.* `SelectRepo` is `handleRepoSelect` up to `await detectConfig`;
`Detected` and `DetectionFails` are what runs after it, on whatever page the user is by
then. `config` is the state that is sent: the repository and, as one value, the
settings, of which only their origin matters. What the user clicks in is `shown`, the
last rendering, and a handler uses the configuration of that rendering (`SentConfig`,
`Edit`). React renders a click before the next event, so most actions end with
`Rendered`; what an answer changes, and the state of the mutation, is shown by a `Render`
of its own. `handleDeploy` checks nothing, and `disabled={deploy.isPending}` is the
`MayDeploy` of the last rendering, so a second click may come before it. `posts` follows
each POST of `createDeployment` through being sent, carried out and answered; `watched` is
the one `useMutation` reports. `Leave` unmounts the wizard and mounts it again: its state is
new, nothing is watched, and the POSTs go on.

*Dashboard pages.* A query key has its data, and a fetch that is sent, answered by the
orchestrator with a reading of that moment, and put into the cache. `Poll` is
`refetchInterval`, `Acknowledge` is `onSuccess` of a mutation and what it invalidates.
`logs` is the hook's effect: its dependencies as of the last rendering, its socket and
the state the viewer shows. The cookie may be absent (`Logout`), and then the effect opens
no socket (`use-logs.ts:17`). The server may turn a socket away or end it whatever its token
(`SocketRefused`), after which socket.io does not reconnect. `ComputePages` says when the
page is rendered, which is when a new token reaches the effect. That the browser pauses
polling in a hidden tab is left out.

*Bounds.* `MaxHeartbeats`, `MaxEpoch`, `MaxCount`, `MaxTime`, `MaxRounds`,
`MaxRestarts`, `MaxTurns`, `MaxChanges`, `MaxDetections`, `MaxPosts`, `MaxCommands`
and `MaxLogins` are guards on counters that only grow, so that TLC's state spaces are
finite; the proofs hold for every value of them. The sets of arguments
(`HeartbeatCounts`, `Pools`, `TopNs`, `BonusBps`, `BaseRewards`, `Metrics`,
`RegionLengths`, `NewStatuses`, `Ticks`, `TokenAmounts`) are constants too.

## 3. Runs

| Run | Question | Instance, and why it is enough |
|---|---|---|
| `rewards` | Do trackers, program and token agree, and are full batches paid for? | The build the sources configure, at a width of 10, so that `total_minted` wraps and the supply reaches the limit (no single product wraps at these constants; the proofs cover those). Two operators; three heartbeats a token, batches of 2 and 3 up to 7, so that claims leave every remainder and batches straddle a token; two bonus payments; the mint belongs to the program from the start or to a wallet, which mints, burns and hands it over. |
| `epoch_rounds` | Does a round of payments stay within the pool? | Constants of the source (30 heartbeats, 6 decimals, 5 %); three operators, two rounds, pool changed at any moment, payments skipped at any rank; pools whose shares round. |
| `referral_checked` | Are links credited once, is what is earned what the table says, do accounts, totals and token agree, and does the program implement `ReferralCounts`? | Three wallets, each of them referrer, referee or authority; tiers one referral apart, so that all four are reached; base rewards that round and that do not. |
| `registry` | Uptime, score, counters, deactivation. | Two wallets, two deployments; a gap of one second and three instants, so that heartbeats fall inside and outside the gap; the full uptime score from one heartbeat on, so that both formulas are used; machines above the caps and near zero. |
| `handler` | Is any status left behind, is what is reported live taken down, can a container be found, does every deploy settle? | Two ids, two deploys (of the same id or not), two stops, two ports, docker failures, containers that end by themselves, one restart. |
| `edge_router` | Are backends selected evenly, and is everybody served or told? | Two visitors, so that one is between lookup and selection while another selects; one deployment, live, sleeping, waking and stopped, behind a subdomain and a custom domain whose 503 does not name it; lists of no, two and three backends, so that the list changes under the counter; an infrastructure host; a cache that keeps an answer for one tick or not at all. A host that nobody serves and the status "building" are not in the instance, for its size; the proofs cover them. |
| `wizard` | Is what is deployed what was reviewed, what can send a second POST, and does choosing, or deploying, lead on? | Two repositories and two detections awaited for each, so that each can be chosen again before it was answered; two POSTs, of one visit or of two. |
| `pages` | Do pages catch up, is a restart seen, does the stream come back? | The dashboard and one deployment's page; one command, one change nobody asked for, two logins, with the token expiring and the cookie going; statuses that are polled fast and slowly. |
| `reward_to_referrer`, `bonus_overflows`, `ports_collide`, `stop_races_publish` | A sentence of the sources that the code does not live up to. | The smallest instance that shows it; `bonus_overflows` has the constants of the source and 660 referrals of one user, past 655 where the product leaves 16 bits. See below. |

The properties, by the hazard they are aimed at:

- `HeartbeatsConserved`: heartbeats = 30 x tokens claimed + remainder, under any
  interleaving; modulo the width when counters wrap.
- `PaymentsAreMinted` and `LedgerBalanced`: what a tracker says was paid is minted to
  that operator in that very step, and `total_minted` is the sum over the trackers.
- `BatchesArePaid` (liveness): every full batch is eventually paid for.
- `RoundWithinPool`: what a round mints is at most the largest pool in force at one of
  its payments, plus 5 %.
- `VerifiedLinksCounted`, `ReferralsBalanced`, `RewardsAreMinted`, `ImplementsCounts`: a
  link is credited once and to somebody, and all books agree. `LinksAreFinal`: a link is
  verified once, if the program's total of referrals and one user's count move by one
  with it, and neither moves otherwise.
- `EarnsByTable`: what a user of the program has earned over all verifications is what
  the table of `docs/architecture.md` says the count is worth, across the promotions.
  `BonusIsCapped` is what README.md and the tests say of the bonus; it is violated.
- `UptimeWithinLifetime`, `ScoreFollowsHeartbeats`, `CountersMatchAccounts`,
  `DeactivationIsFinal`: node-registry, as in section 1.
- `InProgressHasWorker`: an entry that says pending or building has a goroutine at
  work, redeployments included. `DeploysSettle` (liveness): it ends in a final status.
- `LiveIsNotTakenDown`: the container of a live entry was started and, unless a stop is
  on its way, not taken down by the server. Whether it still runs nobody looks at: a container
  that ended by itself is reported live. `ContainersAreKnown`: a container that runs after
  its goroutine has ended is the one its entry records, unless a restart lost the entry
  (`deployment_handler.go:49`), which the property has to except. Both speak of ids deployed
  once. With a second deploy of an id they fail: the older goroutine writes its container
  into the newer object, whose port is another one (`deployment_handler.go:118-121`), and
  the container that is overwritten can no longer be stopped.
- `EvenSpread`: of the backends of the list in use none is selected two times more often
  than another, whatever lists were in use before and however requests interleave.
- `VisitorIsServed` (liveness): a tab that shows a loading page gets something else in
  the end, with wakes lost, answers from the cache and several visitors asking; for hosts
  whose 503 names the deployment. For the others (`UnnamedHosts`) it fails: no wake is
  sent, and the page that says the app is waking up refreshes for ever.
- `DeployIsReviewed`: what is sent is the configuration as it was when Review was
  clicked, at every click on Deploy, hasty ones included. It holds because every answer of `detectConfig`, a failure included, takes
  the user back to the configuration page, from the review too.
- `RepositoryIsSelected`: a late answer changes settings, never the repository.
- `OnlyHastyClicksDouble`: a POST is sent beside the one the wizard watches only by a click
  that comes before the first click was rendered. Going back and forth, editing and
  late answers never bring an enabled button back. It speaks of one visit: a wizard that
  was left and opened again watches nothing. A retry after an answer was lost may still
  make a second deployment: the request has no key.
- `DeployingEnds` (liveness): a disabled Deploy button does not stay, whatever its POST
  comes to.
- `SelectionLeadsToConfig` (liveness): choosing a repository leads to its configuration.
- `RestartIsSeen`: on the page that was told of a restart, no reading from before it
  appears. A fetch under way is cancelled by the invalidation; the property fails when
  the restart invalidates the list instead, as stopping does.
- `PagesCatchUp` (liveness): a page that stays open shows what the orchestrator has,
  also after a stop, which refreshes the list only: the page is polled. Until then it
  shows the cached status; the poll is what the property rests on.
- `LogsResume` (liveness) and `PagesInvariant` (`TypeOK` and `LiveMeansConnected`): the
  stream comes back on a page rendered with a valid token, and the viewer says "Live"
  exactly while the socket of this page is open. A token that expires without another
  rendering leaves the viewer disconnected, and so does a server that ends a socket with
  a valid token; `LogsResume` excludes both, since the hook does nothing about them.

Each property of a passing run has a mutant in `PROJECT.json`: a definition of the
model changed the way a bug would, which TLC finds to violate the property. The
mutants are the operators commented "Mutant" in the modules.

### Fairness

`QuiksRewards!LiveSpec` assumes of each operator that it claims when it can: nothing in
the program claims for it, and the promise "1 QUIKS per 30 heartbeats" rests on that
alone. Recording, distribution and burning are under no fairness. The property
excludes the case that supply or `total_minted` has no room left.
`DeploymentHandler!LiveSpec` assumes weak fairness of each goroutine: Go schedules
every goroutine that can run, and a call to git or docker returns, with success or an
error. Stops and restarts are under no fairness.
`EdgeRouter!LiveSpec` assumes that handlers run, that the loading pages refresh
(`http-equiv="refresh"` in the page), that time passes and that the orchestrator brings
up what it wakes (weak), and that of the wakes posted again and again one arrives
(strong: a single one may be lost). Deployments change of themselves finitely often.
`DeployWizard!LiveSpec` assumes that a call of `detectConfig` and a POST are answered or fail,
and that React renders what has changed (all weak). The client sets no timeout
(`platform/compute/lib/api.ts`), so the first rests on the browser and the API.
`ComputePages!LiveSpec` assumes that the open page is polled (weak), that of the fetches
sent again and again some are served and arrive (strong, since each may fail), and that
a socket that keeps trying opens when the server may accept it (weak). Commands, sessions
and the user's steps are under no fairness. All safety properties are checked
without regard to it.

The programs, the router and the dashboard never stop, and their runs check for
deadlock, save for the referral runs, where all links are verified in the end, and
those of the handlers, whose requests are finitely many.

## 4. Disagreements

Four sentences of the sources are checked and violated, each by a run of its own:

- `reward_to_referrer`: `verify_and_reward` credits the account it is passed; nothing
  relates it to the referrer of the link (`referral lib.rs:72, 209-244`).
- `bonus_overflows`: `referral_count as u16 * 100` is computed before the cap is applied
  (`referral lib.rs:141-144`), and a release build wraps it: from 656 referrals on the bonus
  is not the 5 % of README.md:45 and of `tests/referral.ts:186`, but anything below it,
  first 0.64 %. A checked build fails instead, and reports nothing.
- `ports_collide`: the port that is probed "to detect collisions" is released at once
  (`deployment_handler.go:176-179`), and two deploys may register it. What is left of
  the sentence is proved (`PortsOfUpDiffer`): of two deployments that are both up, each
  has a port of its own, since docker starts no container on a port that is bound. The
  collision costs one of them its deploy.
- `stop_races_publish`: a stop reads the entry before the goroutine has published the
  container, finds no id and stops nothing; the goroutine publishes and ends; then the stop
  sets the status (`deployment_handler.go:163-168`). The property asks for the container
  only when nothing of the id is at work any more, so the goroutine cannot put the entry right.
  It is proved that this is the only way to it (`StopsThatFindTakeDown`): where docker
  stops what it is told to stop and no stop came before the container was recorded, a
  stopped status means a stopped container, redeployed ids aside.

Others were met while modelling and are in the models as the code has them:

- `current_epoch` advances with every payment (`quiks-rewards lib.rs:144`), while the
  comment on the instruction (`lib.rs:102`) says it is called "once per epoch".
- `README.md:36` says "no centralized minting". `initialize` never verifies whose the
  mint is, and the setup script creates it under, and mints a million tokens with, a
  wallet (`scripts/create-quiks-token.sh:17,31`): `WalletMint` of the model, in `rewards`. It
  is one step that does what the script says, and has no run of its own.
- A second deploy of an id lets the older goroutine write its container into the newer
  object (`deployment_handler.go:118-121`), where the comment at line 37 calls it "the current
  state of a deployment": the port is of one request and the container of another, and the
  container that is overwritten can no longer be stopped. The properties of an entry speak
  of ids deployed once for that reason.
- Leaving the wizard does not cancel `createDeployment` (`lib/api.ts:41`), and a wizard that is
  opened again knows nothing of it; nor does `handleDeploy` look whether a POST is under way
  (`deploy-wizard.tsx:75-77, 218`). Two deployments may be made of one intention.
- A 503 for a sleeping deployment without `deploymentId` shows the page that says the app is
  waking up, and wakes nothing (`edge-router/src/index.ts:121-129`).
- An answer of `detectConfig` for a repository chosen before overwrites the settings of
  the one chosen last, and a failed one leaves the settings of another in place
  (`deploy-wizard.tsx`), where `platform/compute/README.md:8` says "configure
  (auto-detected)". What is deployed has still been reviewed.
- `use-logs.ts:9` says "Falls back to REST polling"; there is no such code.
- A custom domain whose first label is one of the infrastructure's (`www.`, `api.`) is
  passed through and never routed (`edge-router/src/index.ts`).
- The cards of the dashboard offer Restart, Stop and Redeploy and are given handlers
  that do nothing (`app/dashboard/page.tsx`).

## 5. Proofs

Every invariant and action property that a passing run checks is proved by TLAPS, for
every value of the constants that the named assumptions allow (`U64Assumption`,
`SplTokenAssumption`, `RewardsAssumption`, `RoundsAssumption`, `TiersAssumption`,
`ReferralAssumption`, `RegistryAssumption`, `HandlerAssumption`, `EdgeAssumption`,
`WizardAssumption`, `SessionAssumption`, `QueriesAssumption`; TLC evaluates each of them in the runs). A
theorem that holds of some builds or bounds only says so in an `ASSUME` of its own,
given in the table:

| Theorem | Says | Argument |
|---|---|---|
| `QuiksRewardsProofs!TypeCorrect` | types of accounts and token | inductive as it stands; the claim needs `ClaimSplits` (quotient and remainder), the bonus `TotalWeightPositive` |
| `...!HeartbeatsAreConserved` | `HeartbeatsConserved` | inductive with `TypeOK`; per instruction, `HeartbeatsAdd` and `ClaimConserves`. For a build that wraps both rest on `ArithmeticProofs`: a sum may be reduced before or after a term is added |
| `...!PaymentsAreAlwaysMinted` | `PaymentsAreMinted` | action property under `TypeOK`: the difference of the tracker, reduced, is the amount (`PaymentOfAmount`) |
| `...!LedgerAlwaysBalanced` | `LedgerBalanced` | `LedgerInv`: trackers are finitely many and there are none before the program is initialized. What is paid to one operator moves one summand (`LedgerMoves`, `SumOneChanged`); in a build that wraps, the sum is reduced modulo the width, and `WrapAbsorbs` lets the claim's product be reduced first |
| `...!DueBatchesAreClaimable`, `...!ClaimsArePaidInFull` | `BatchesArePaid` without its liveness, for builds with overflow checks: a due batch can be claimed, unless the token has no room or the backlog is no u64 any more; a claim pays all that is due | `HeartbeatsConserved` with `BatchesSplit`: the full batches of a tracker are those paid and those pending, since the remainder of a claim is below a batch |
| `...!RoundsAreInstructions` | a behaviour of `EpochRounds` is one of `QuiksRewards` | each step of the authority is an instruction or a stutter |
| `...!RoundsStayWithinPool` | `RoundWithinPool`, which speaks of checked builds | `RoundsInv`: multiplied out, what the round has minted is at most the shares, of the largest pool in force, of the ranks passed so far, plus 5 %. The weights of the ranks add up to the total weight (`SharesAdd`, `SharesAreThePool`), each payment is at most its share (`PaymentWithinShare`), and a larger pool only adds to the bound |
| `ReferralProofs!EarnedAsInTable` | `EarnedByTable` of the counting specification | `EarnedInv`; the worth of one more referral is the reward of the tier it reaches (`WorthOfOneMore`), across the promotions; no count of 32 bits wraps (`MaxCount <= U32Max`) |
| `ReferralProofs!TypeCorrect` | types | one step per action |
| `...!ReferralsAreCounted` | `VerifiedLinksCounted` | `CountInv`: with it, that links are finitely many, that nothing is counted before the program is initialized and that accounts not created yet are as new; a verification adds exactly one element to the verified links |
| `...!LinksStayFinal`, `...!RewardsAreAlwaysMinted` | `LinksAreFinal`, `RewardsAreMinted` | action properties under the type invariant and `CountInv`; a credit changes the account it is for and no other, since the count moves (`CountMoves`), for a width of at least one |
| `...!ReferralImplementsCounts` | `ImplementsCounts` | each initial state maps to one, each step to a `Credit`, a `SetBaseReward` or a stutter |
| `...!ReferralsStayBalanced` | `ReferralsBalanced` | `BalanceInv`: the users are finitely many, a new account adds nothing (`BalanceNewAccount`), and nothing is paid before the program is initialized; a verification moves one summand of each sum (`BalanceCredited`). As long as no count of 32 bits wraps: in a checked build, or for `MaxCount <= U32Max` |
| `...!ProgramPaysByTable` | `EarnsByTable`: `EarnedByTable` of the program | `TableInv`: what `EarnedInv` says of the counting specification, said of the accounts and invariant under the program's own steps; for `MaxCount <= U32Max` |
| `NodeRegistryProofs!TypeCorrect` | types; a score is at most 100 | `MachineScoreCapped`, `UptimeScoreCapped` |
| `...!AccountsAreCounted` | `CountersMatchAccounts` | `CountInv`: accounts are finitely many, none before the registry, and every record names a node; otherwise registering a node could give it deployments it was not credited with |
| `...!UptimeIsReal`, `...!ScoreIsCurrent` | `UptimeWithinLifetime`, `ScoreFollowsHeartbeats` | `LifeInv`, per node and instant; time only grows |
| `...!InactiveStaysInactive` | `DeactivationIsFinal` | action property under `TypeOK` (`InactiveStep`): only a heartbeat moves a score, and it needs an active node |
| `DeploymentHandlerProofs!TypeCorrect` | types | one step per action |
| `...!NoStatusIsLeftBehind` | `InProgressHasWorker` | `WorkInv`: an entry is the object of a request for its id, a goroutine at work has an entry, and the one that holds the lock between its two writes has made it live. Without the latter its end could leave a building entry of a redeployment behind |
| `...!LiveIsNeverTakenDown`, `...!RunningIsKnown` | `LiveIsNotTakenDown`, `ContainersAreKnown` | `LifeInv`: with `WorkInv`, that a lock held across two steps is held by one that publishes, that a stop goes on with an object of its id, that a recorded container is of a request for the object's id that has ended, and that a container is started by its own goroutine and stopped by nobody before it is published. `RequestsGoOn` (a request keeps its id and never goes back) carries each of these over a step. For an id deployed once, entry and container are then of the same request |
| `...!PortsOfUpDiffer` | of `PortsDoNotCollide`, what the code guarantees | `RunningPortsDiffer` with `LifeInv`: docker refuses a port that a running container has, and a live entry shows the port of its own container; containers that ended by themselves aside, whose port may be given away |
| `...!StopsThatFindTakeDown` | of `StoppedIsNotRunning`, what the code guarantees, assuming `~DockerStopFails` and that no stop finds no container | `RecordedRan` (a recorded container was started) and `StopsTakeDown` (past docker stop the container is down) with `LifeInv` |
| `EdgeRouterProofs!TypeCorrect` | types; a host an answer is for is known | `Shape` |
| `...!SpreadIsEven` | `EvenSpread` | `SpreadInv`: the backends selected once more than the others are an arc of the list that ends where the counter points, modulo its length. With a new list the arc is empty, wherever the counter is |
| `...!WorkerActsForVisitors`, `...!LoadingTabsGoOn`, `...!SleepersAreAlwaysWoken` | a deployment is selected from, or woken, for its own visitors only; of `VisitorIsServed`, what is not liveness: a tab on a loading page goes on, and a sleeping app it waits for was sent a wake, if its 503 names it | `VisitInv`: an answer that names a deployment, as every 503 does but those of `UnnamedHosts`, names the one behind the host it is kept or used for, in the cache and in every tab (`AnswersKnow`) |
| `DeployWizardProofs!TypeCorrect`, `...!RepositoryIsTheSelected`, `...!OnlyReviewedIsDeployed`, `...!OnlyHastyClicksSendTwice` | `TypeOK`, `RepositoryIsSelected`, `DeployIsReviewed`, `OnlyHastyClicksDouble` | `WizardInv`: the two state properties with `ReviewedIsShown`, that a review page that is rendered shows the configuration that was reviewed (an answer changes `config`, and leaves the page in the same step, but not the closure of the button), and `PendingIsShown`, that while the watched POST is under way the button is disabled or nothing was rendered since the click that sent it |
| `ComputePagesProofs!PagesInvariantHolds` | `PagesInvariant` | `PagesInv`. The type bounds a deployment's restarts by the clicks, so `ClicksAccount` counts them: a restart, and a command that may still become one, used up a click of its own. For the viewer, `RenderKeepsLive`: a token that replaces the socket takes the old one's Live away |
| `...!RestartsAreSeen` | `RestartIsSeen` | action property under `PagesInv`: an answer on its way to the open page is no older than what was acknowledged there (`AnswersKnow`), because the acknowledgement sent the query again; a command knows of no restart that was not carried out (`PostsKnow`) |
| `...!OnlyStaleAnswersUndo`, `...!CurrentAnswersAreShown` | `PagesCatchUp` without its liveness: while the statuses and the page rest, what a page truly shows is undone by the arrival of an answer from before them alone, after which none such is left, and the arrival of an answer read under them makes it true | action properties under `PagesInv`; `OpenQueryStep` says what a step can do to the query of the open page |

The sums over trackers and users are folds (`SumFunctionOnSet` of the community
modules), whose value is defined by recursion over a set. The library's induction over
finite sets takes the statement as a parameter of its theorem, which the installed
provers cannot instantiate. `ArithmeticProofs` goes around it: a function on the
subsets that adds up exists (`AdditiveExists`, by a smallest set without one,
`SmallestSubset`), the fold is that function (`SumIsAdditive`), in whatever order it
takes the elements, and so a sum over one more element is the sum plus that element's
summand (`SumOneMore`).

**Only model-checked.** Liveness: `BatchesArePaid`, `DeploysSettle`, `VisitorIsServed`,
`SelectionLeadsToConfig`, `DeployingEnds`, `PagesCatchUp` and `LogsResume`. They need fairness and
`ENABLED`, which the prover does not handle. Of `BatchesArePaid`, `VisitorIsServed` and
`PagesCatchUp` steps that are not about fairness are proved, as the table says: that
no batch is lost or becomes impossible to claim, that no tab is left without a wake or
a refresh, and that no page loses what it showed but once.

## 6. Not modelled, and the plan

Not modelled for good:

- the table of subscription limits (no code enforces it) and the devnet scripts;
- HandleStatus, which reads;
- calls of `lib/api.ts` and the hook `useRedeployDeployment`, which no page uses;
- what the edge router changes in a request it passes on, and the texts of its pages;
- the collection of query data that no page reads for a while: data is kept, so a page
  may show at first what it showed at an earlier visit;
- in the wizard, fields that a user clears (an empty port is sent as null): the settings
  are one value;
- the text and order of log lines, which are only appended.

Done: `QuiksRewards` with `SplToken`, `EpochRounds`, `Referral` refining
`ReferralCounts`, `NodeRegistry`, `DeploymentHandler`, `EdgeRouter`, `DeployWizard`,
`ComputePages`. What could follow:

1. A composition of node-registry and quiks-rewards under an orchestrator that batches
   and retries: does what is paid follow the heartbeats that were sent? The
   orchestrator is not in the repository, so it would be an assumption throughout.
2. An abstract lifecycle of a deployment that `DeploymentHandler` implements and
   `EdgeRouter` reads. The statuses of the two are not the same type in the code: a node
   never says "sleeping", and the orchestrator between them is not in the repository.
3. The steps of `DeploysSettle`, `SelectionLeadsToConfig`, `DeployingEnds` and `LogsResume` that are not
   about fairness, as theorems like those for `BatchesArePaid`, `VisitorIsServed` and
   `PagesCatchUp`.
