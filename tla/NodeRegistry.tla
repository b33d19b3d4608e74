------------------------------ MODULE NodeRegistry ------------------------------
(***************************************************************************)
(* The node-registry program: nodes registered by the authority, the       *)
(* heartbeats their operators send, and the deployments recorded for them. *)
(* An instruction is one action (see QuiksRewards); the operators, the     *)
(* authority and whoever updates a deployment interleave, and time passes  *)
(* between any two instructions.                                           *)
(*                                                                         *)
(* metadata_hash, provider_type, deployer, app_hash are stored and never   *)
(* read: they are left out, as are events and bumps.                       *)
(***************************************************************************)
EXTENDS U64, FiniteSets

CONSTANTS
    Wallets,            \* keys: authorities and operators
    DeploymentIds,
    HEARTBEAT_GAP,      \* 300: seconds between heartbeats that count as uptime
    UPTIME_FULL,        \* 1000: heartbeats for the full uptime score
    Metrics,            \* what heartbeats report: records of the four arguments
    RegionLengths,      \* lengths of the argument region
    NewStatuses,        \* arguments of update_deployment_status
    Ticks,              \* by how much the clock moves on
    MaxTime,            \* bound: the clock
    MaxHeartbeats       \* bound: heartbeats of one node

NoKey == "no-key"
MAX_REGION_LEN == 32

Metric == [cpu_idle: Nat, memory_available_mb: Nat,
           disk_available_gb: Nat, download_speed_mbps: Nat]

DeploymentStatus == {"Pending", "Building", "Live", "Failed", "Stopped"}

ASSUME RegistryAssumption ==
    /\ HEARTBEAT_GAP \in Nat /\ UPTIME_FULL \in Nat \ {0}
    \* total_heartbeats * 10 is computed up to UPTIME_FULL only
    /\ UPTIME_FULL * 10 <= U64Max
    /\ Ticks \subseteq Nat \ {0} /\ MaxTime \in Nat /\ MaxTime <= U64Max
    /\ MaxHeartbeats \in Nat
    /\ Metrics \subseteq Metric
    /\ RegionLengths \subseteq Nat
    /\ NewStatuses \subseteq DeploymentStatus
    /\ NoKey \notin Wallets

VARIABLES
    clock,              \* Clock::get()?.unix_timestamp: positive, never goes back
    registry_state,     \* the RegistryState account
    nodes,              \* the operators whose NodeAccount exists
    node_account,       \* their NodeAccounts
    records,            \* the ids whose DeploymentRecord exists
    deployment_record   \* their DeploymentRecords

vars == <<clock, registry_state, nodes, node_account, records, deployment_record>>

RegistryState ==
    [initialized: BOOLEAN, authority: Wallets \cup {NoKey},
     total_nodes: U64, total_deployments: U64]

NodeAccount ==
    [total_heartbeats: U64, uptime_seconds: U64, score: 0..100, is_active: BOOLEAN,
     registered_at: Nat, last_heartbeat_at: Nat, deployments_served: U64]

DeploymentRecord ==
    [node: Wallets \cup {NoKey}, status: DeploymentStatus, created_at: Nat, updated_at: Nat]

NoNode ==
    [total_heartbeats |-> 0, uptime_seconds |-> 0, score |-> 0, is_active |-> FALSE,
     registered_at |-> 0, last_heartbeat_at |-> 0, deployments_served |-> 0]

NoRecord == [node |-> NoKey, status |-> "Pending", created_at |-> 0, updated_at |-> 0]

TypeOK ==
    /\ clock \in Nat \ {0}
    /\ registry_state \in RegistryState
    /\ nodes \subseteq Wallets
    /\ node_account \in [Wallets -> NodeAccount]
    /\ records \subseteq DeploymentIds
    /\ deployment_record \in [DeploymentIds -> DeploymentRecord]

Init ==
    /\ clock = 1
    /\ registry_state = [initialized |-> FALSE, authority |-> NoKey,
                         total_nodes |-> 0, total_deployments |-> 0]
    /\ nodes = {}
    /\ node_account = [w \in Wallets |-> NoNode]
    /\ records = {}
    /\ deployment_record = [d \in DeploymentIds |-> NoRecord]
--------------------------------------------------------------------------------
(***************************************************************************)
(* initialize, register_node, deactivate_node                              *)
(***************************************************************************)

IsAuthority(signer) ==
    /\ registry_state.initialized
    /\ registry_state.authority = signer

\* Anybody may run it, once: init fails when the account exists.
Initialize(signer) ==
    /\ ~registry_state.initialized
    /\ registry_state' = [initialized |-> TRUE, authority |-> signer,
                          total_nodes |-> 0, total_deployments |-> 0]
    /\ UNCHANGED <<clock, nodes, node_account, records, deployment_record>>

NewNode(now) == [NoNode EXCEPT !.is_active = TRUE, !.registered_at = now]

\* Mutant: an operator may be registered again, and starts afresh.
CanRegisterAgain(op) == TRUE

\* init: no account at the node address of this operator.
CanRegister(op) == op \notin nodes

RegisterNode(signer, op, region_len) ==
    /\ IsAuthority(signer)
    /\ CanRegister(op)
    /\ region_len <= MAX_REGION_LEN
    /\ Fits(registry_state.total_nodes + 1)
    /\ nodes' = nodes \cup {op}
    /\ node_account' = [node_account EXCEPT ![op] = NewNode(clock)]
    /\ registry_state' = [registry_state EXCEPT !.total_nodes = Wrap(@ + 1)]
    /\ UNCHANGED <<clock, records, deployment_record>>

\* Signed by the operator; there is no instruction to activate a node again.
DeactivateNode(op) ==
    /\ op \in nodes
    /\ node_account' = [node_account EXCEPT ![op].is_active = FALSE]
    /\ UNCHANGED <<clock, registry_state, nodes, records, deployment_record>>
--------------------------------------------------------------------------------
(***************************************************************************)
(* record_heartbeat                                                        *)
(***************************************************************************)

Least(a, b) == IF a < b THEN a ELSE b

UptimeScore(heartbeats) ==
    IF heartbeats > UPTIME_FULL THEN 10 ELSE (heartbeats * 10) \div UPTIME_FULL

\* Mutant: the idle share of the CPU, an eight-bit number, is not capped.
MachineScoreUncapped(metric) ==
      Least((metric.memory_available_mb * 30) \div 4096, 30)
    + (metric.cpu_idle * 30) \div 100
    + Least((metric.disk_available_gb * 20) \div 100, 20)
    + Least((metric.download_speed_mbps * 10) \div 100, 10)

\* What the machine reports: RAM(30) + CPU(30) + disk(20) + speed(10).
MachineScore(metric) ==
      Least((metric.memory_available_mb * 30) \div 4096, 30)
    + Least((metric.cpu_idle * 30) \div 100, 30)
    + Least((metric.disk_available_gb * 20) \div 100, 20)
    + Least((metric.download_speed_mbps * 10) \div 100, 10)

\* Mutant: the interval before the first heartbeat is counted from the epoch.
ElapsedFromEpoch(node, now) ==
    IF now - node.last_heartbeat_at <= HEARTBEAT_GAP
      THEN now - node.last_heartbeat_at ELSE 0

\* The seconds a heartbeat adds: those since the one before, unless there was
\* none or it was too long ago.
Elapsed(node, now) ==
    IF node.last_heartbeat_at > 0 /\ now - node.last_heartbeat_at <= HEARTBEAT_GAP
      THEN now - node.last_heartbeat_at ELSE 0

\* Mutant: the score is computed before the heartbeat is counted.
AfterHeartbeatOldScore(node, metric, now) ==
    [node EXCEPT !.total_heartbeats = Wrap(@ + 1),
                 !.uptime_seconds = Wrap(@ + Elapsed(node, now)),
                 !.last_heartbeat_at = now,
                 !.score = MachineScore(metric) + UptimeScore(node.total_heartbeats)]

AfterHeartbeat(node, metric, now) ==
    LET heartbeats == Wrap(node.total_heartbeats + 1)
    IN  [node EXCEPT !.total_heartbeats = heartbeats,
                     !.uptime_seconds = Wrap(@ + Elapsed(node, now)),
                     !.last_heartbeat_at = now,
                     !.score = MachineScore(metric) + UptimeScore(heartbeats)]

\* Mutant: a node that was deactivated may go on.
MayHeartbeatInactive(op) == op \in nodes

MayHeartbeat(op) == op \in nodes /\ node_account[op].is_active

\* Signed by the operator.
RecordHeartbeat(op, metric) ==
    LET node == node_account[op]
    IN  /\ MayHeartbeat(op)
        /\ node.total_heartbeats < MaxHeartbeats
        /\ Fits(node.total_heartbeats + 1)
        /\ Fits(node.uptime_seconds + Elapsed(node, clock))
        /\ node_account' = [node_account EXCEPT ![op] = AfterHeartbeat(node, metric, clock)]
        /\ UNCHANGED <<clock, registry_state, nodes, records, deployment_record>>
--------------------------------------------------------------------------------
(***************************************************************************)
(* record_deployment, update_deployment_status                             *)
(***************************************************************************)

\* The node need not be active.
RecordDeployment(signer, op, d) ==
    /\ IsAuthority(signer)
    /\ op \in nodes
    /\ d \notin records
    /\ Fits(node_account[op].deployments_served + 1)
    /\ Fits(registry_state.total_deployments + 1)
    /\ records' = records \cup {d}
    /\ deployment_record' =
         [deployment_record EXCEPT ![d] = [node |-> op, status |-> "Pending",
                                           created_at |-> clock, updated_at |-> clock]]
    /\ node_account' = [node_account EXCEPT ![op].deployments_served = Wrap(@ + 1)]
    /\ registry_state' = [registry_state EXCEPT !.total_deployments = Wrap(@ + 1)]
    /\ UNCHANGED <<clock, nodes>>

AfterUpdate(record, status, now) ==
    [record EXCEPT !.status = status, !.updated_at = now]

\* Signed by anybody: the account named authority is compared with nothing.
\* Any status may follow any other.
UpdateDeploymentStatus(d, status) ==
    /\ d \in records
    /\ deployment_record' =
         [deployment_record EXCEPT ![d] = AfterUpdate(@, status, clock)]
    /\ UNCHANGED <<clock, registry_state, nodes, node_account, records>>

\* Time passes.
Tick(seconds) ==
    /\ clock + seconds <= MaxTime
    /\ clock' = clock + seconds
    /\ UNCHANGED <<registry_state, nodes, node_account, records, deployment_record>>

Next ==
    \/ \E signer \in Wallets : Initialize(signer)
    \/ \E signer, op \in Wallets, region_len \in RegionLengths :
         RegisterNode(signer, op, region_len)
    \/ \E op \in Wallets : DeactivateNode(op)
    \/ \E op \in Wallets, metric \in Metrics : RecordHeartbeat(op, metric)
    \/ \E signer, op \in Wallets, d \in DeploymentIds : RecordDeployment(signer, op, d)
    \/ \E d \in DeploymentIds, status \in NewStatuses : UpdateDeploymentStatus(d, status)
    \/ \E seconds \in Ticks : Tick(seconds)

Spec == Init /\ [][Next]_vars
--------------------------------------------------------------------------------
ServedBy(op) == {d \in records : deployment_record[d].node = op}

\* The counters of the registry agree with the accounts: as many nodes and
\* deployments as there are accounts of them, and each node has served as many
\* deployments as name it ("link apps to the community nodes that serve them").
CountersMatchAccounts ==
    /\ registry_state.total_nodes = Wrap(Cardinality(nodes))
    /\ registry_state.total_deployments = Wrap(Cardinality(records))
    /\ \A op \in nodes :
         node_account[op].deployments_served = Wrap(Cardinality(ServedBy(op)))

\* The uptime credited to a node is time that really passed: never more than
\* between its registration and its last heartbeat, and never more than a gap
\* for each heartbeat after the first.
UptimeWithinLifetime ==
    \A op \in nodes :
      LET node == node_account[op]
      IN  /\ node.registered_at <= clock
          /\ node.last_heartbeat_at = 0 =>
               node.total_heartbeats = 0 /\ node.uptime_seconds = 0 /\ node.score = 0
          /\ node.last_heartbeat_at # 0 =>
               /\ node.registered_at <= node.last_heartbeat_at
               /\ node.last_heartbeat_at <= clock
               /\ node.uptime_seconds <= node.last_heartbeat_at - node.registered_at
               /\ OverflowChecks =>
                    node.uptime_seconds <= HEARTBEAT_GAP * (node.total_heartbeats - 1)

\* "Uptime history: min(heartbeats * 10 / 1000, 10)" (docs/architecture.md): a
\* node's score always contains the uptime points of the heartbeats it has now,
\* and at most 90 for the machine.
ScoreFollowsHeartbeats ==
    \A op \in nodes :
      LET node == node_account[op]
          uptime_points == Least((node.total_heartbeats * 10) \div UPTIME_FULL, 10)
      IN  node.last_heartbeat_at # 0 => node.score - uptime_points \in 0..90

\* A node that was deactivated stays so, and neither its score nor its uptime
\* moves again; it can still be given deployments.
DeactivationIsFinal ==
    [][\A op \in nodes :
         LET node == node_account[op]
         IN  ~node.is_active =>
               node_account'[op] =
                 [node EXCEPT !.deployments_served = node_account'[op].deployments_served]]_vars
================================================================================
