--------------------------- MODULE NodeRegistryProofs ---------------------------
(***************************************************************************)
(* Proofs about the node-registry program, for every set of wallets and    *)
(* deployments, every gap, every width and both builds.                    *)
(***************************************************************************)
EXTENDS NodeRegistry, ArithmeticProofs, FiniteSetTheorems

\* What the score counts for uptime: the points of the docs, capped, whatever
\* the number of heartbeats.
LEMMA UptimeScoreCapped ==
    ASSUME NEW h \in Nat
    PROVE  /\ UptimeScore(h) \in 0..10
           /\ UptimeScore(h) = Least((h * 10) \div UPTIME_FULL, 10)
<1> DEFINE m == UPTIME_FULL
           x == h * 10
<1>1. m \in Nat \ {0} /\ x \in Int /\ h \in Int
  BY RegistryAssumption
<1> HIDE DEF m, x
<1>2. PICK e \in Int, r \in 0..m-1 : x \div m = e /\ x = m * e + r
  BY <1>1, DivMod, ZenonT(30)
<1>3. x = h * 10
  BY DEF x
<1>4. e >= 0
  BY <1>1, <1>2, <1>3
<1>5. CASE h > m
  <2>1. e >= 10
    <3> SUFFICES ASSUME e <= 9
                 PROVE  FALSE
      BY <1>4
    <3>1. m * e <= m * 9
      BY <1>1, <1>4
    <3>. QED
      BY <1>1, <1>2, <1>3, <1>5, <3>1
  <2>. QED
    BY <1>2, <1>5, <2>1 DEF UptimeScore, Least, m, x
<1>6. CASE ~(h > m)
  <2>1. e <= 10
    <3> SUFFICES ASSUME e >= 11
                 PROVE  FALSE
      BY <1>4
    <3>1. m * e >= m * 11
      BY <1>1, <1>4
    <3>. QED
      BY <1>1, <1>2, <1>3, <1>6, <3>1
  <2>. QED
    BY <1>2, <1>4, <1>6, <2>1 DEF UptimeScore, Least, m, x
<1>. QED
  BY <1>5, <1>6

\* What the machine reports is worth at most 30 + 30 + 20 + 10 points.
LEMMA MachineScoreCapped ==
    ASSUME NEW metric \in Metrics
    PROVE  MachineScore(metric) \in 0..90
<1>1. /\ metric.memory_available_mb \in Nat /\ metric.cpu_idle \in Nat
      /\ metric.disk_available_gb \in Nat /\ metric.download_speed_mbps \in Nat
  BY RegistryAssumption DEF Metric
<1> DEFINE ram == (metric.memory_available_mb * 30) \div 4096
           cpu == (metric.cpu_idle * 30) \div 100
           disk == (metric.disk_available_gb * 20) \div 100
           speed == (metric.download_speed_mbps * 10) \div 100
<1>2. ram \in Nat /\ cpu \in Nat /\ disk \in Nat /\ speed \in Nat
  BY <1>1
<1>3. MachineScore(metric) = Least(ram, 30) + Least(cpu, 30) + Least(disk, 20) + Least(speed, 10)
  BY DEF MachineScore
<1> HIDE DEF ram, cpu, disk, speed
<1>. QED
  BY <1>2, <1>3 DEF Least

\* A stored sum is never more than the sum.
LEMMA WrapAtMost ==
    ASSUME NEW x \in Nat
    PROVE  Wrap(x) \in U64 /\ Wrap(x) <= x
<1> DEFINE m == U64Max + 1
<1>1. m \in Nat \ {0} /\ x \in Int
  BY U64Assumption
<1> HIDE DEF m
<1>2. PICK e \in Int, r \in 0..m-1 : x % m = r /\ x = m * e + r
  BY <1>1, DivMod, ZenonT(30)
<1>3. e >= 0
  BY <1>1, <1>2
<1>4. m * e >= 0
  BY <1>1, <1>3
<1>. QED
  BY <1>1, <1>2, <1>4, WrapType DEF Wrap, m

\* With overflow checks, what is stored of a result that did not panic is it.
LEMMA StoredExactly ==
    ASSUME NEW x \in Nat, Fits(x), OverflowChecks
    PROVE  Wrap(x) = x
  BY WrapFits DEF Fits, U64
--------------------------------------------------------------------------------
(***************************************************************************)
(* Type correctness.                                                       *)
(***************************************************************************)

LEMMA HeartbeatType ==
    ASSUME NEW node \in NodeAccount, NEW metric \in Metrics, NEW now \in Nat
    PROVE  AfterHeartbeat(node, metric, now) \in NodeAccount
<1> DEFINE h == Wrap(node.total_heartbeats + 1)
           u == Wrap(node.uptime_seconds + Elapsed(node, now))
           s == MachineScore(metric) + UptimeScore(h)
<1>1. h \in U64 /\ h \in Nat
  BY WrapType DEF NodeAccount, U64
<1>2. Elapsed(node, now) \in Int
  BY DEF Elapsed, NodeAccount
<1>3. u \in U64
  BY <1>2, WrapType DEF NodeAccount, U64
<1>4. s \in 0..100
  BY <1>1, UptimeScoreCapped, MachineScoreCapped
<1>5. AfterHeartbeat(node, metric, now)
        = [node EXCEPT !.total_heartbeats = h, !.uptime_seconds = u,
                       !.last_heartbeat_at = now, !.score = s]
  BY DEF AfterHeartbeat
<1> HIDE DEF h, u, s
<1>. QED
  BY <1>1, <1>3, <1>4, <1>5 DEF NodeAccount

\* What a heartbeat writes, field by field.
LEMMA HeartbeatFields ==
    ASSUME NEW node \in NodeAccount, NEW metric, NEW now
    PROVE  LET after == AfterHeartbeat(node, metric, now)
               h == Wrap(node.total_heartbeats + 1)
           IN  /\ after.total_heartbeats = h
               /\ after.uptime_seconds = Wrap(node.uptime_seconds + Elapsed(node, now))
               /\ after.score = MachineScore(metric) + UptimeScore(h)
               /\ after.last_heartbeat_at = now
               /\ after.registered_at = node.registered_at
               /\ after.deployments_served = node.deployments_served
               /\ after.is_active = node.is_active
  BY DEF AfterHeartbeat, NodeAccount

LEMMA NewNodeType ==
    ASSUME NEW now \in Nat
    PROVE  NewNode(now) \in NodeAccount
<1>1. NoNode \in NodeAccount
  BY U64Assumption DEF NoNode, NodeAccount, U64
<1>2. [NoNode EXCEPT !.is_active = TRUE] \in NodeAccount
  BY <1>1 DEF NodeAccount
<1>. QED
  BY <1>2 DEF NewNode, NodeAccount

LEMMA TypeInit == Init => TypeOK
  BY U64Assumption
     DEF Init, TypeOK, RegistryState, NodeAccount, NoNode, DeploymentRecord, NoRecord,
         DeploymentStatus, U64

LEMMA TypeStep == TypeOK /\ [Next]_vars => TypeOK'
<1> SUFFICES ASSUME TypeOK, [Next]_vars
             PROVE  TypeOK'
  OBVIOUS
<1>1. ASSUME NEW signer \in Wallets, Initialize(signer)
      PROVE  TypeOK'
  BY <1>1, U64Assumption DEF Initialize, TypeOK, RegistryState, U64
<1>2. ASSUME NEW signer \in Wallets, NEW op \in Wallets, NEW region_len \in RegionLengths,
             RegisterNode(signer, op, region_len)
      PROVE  TypeOK'
  <2>1. Wrap(registry_state.total_nodes + 1) \in U64
    BY WrapType DEF TypeOK, RegistryState, U64
  <2>2. registry_state' \in RegistryState
    BY <1>2, <2>1 DEF RegisterNode, TypeOK, RegistryState
  <2>3. NewNode(clock) \in NodeAccount
    BY NewNodeType DEF TypeOK
  <2>. QED
    BY <1>2, <2>2, <2>3 DEF RegisterNode, TypeOK
<1>3. ASSUME NEW op \in Wallets, DeactivateNode(op)
      PROVE  TypeOK'
  <2>1. \A node \in NodeAccount : [node EXCEPT !.is_active = FALSE] \in NodeAccount
    BY DEF NodeAccount
  <2>2. node_account[op] \in NodeAccount
    BY DEF TypeOK
  <2>. QED
    BY <1>3, <2>1, <2>2 DEF DeactivateNode, TypeOK
<1>4. ASSUME NEW op \in Wallets, NEW metric \in Metrics, RecordHeartbeat(op, metric)
      PROVE  TypeOK'
  <2>1. AfterHeartbeat(node_account[op], metric, clock) \in NodeAccount
    BY HeartbeatType DEF TypeOK
  <2>. QED
    BY <1>4, <2>1 DEF RecordHeartbeat, TypeOK
<1>5. ASSUME NEW signer \in Wallets, NEW op \in Wallets, NEW d \in DeploymentIds,
             RecordDeployment(signer, op, d)
      PROVE  TypeOK'
  <2>1. /\ Wrap(registry_state.total_deployments + 1) \in U64
        /\ Wrap(node_account[op].deployments_served + 1) \in U64
    BY WrapType DEF TypeOK, RegistryState, NodeAccount, U64
  <2>2. registry_state' \in RegistryState
    BY <1>5, <2>1 DEF RecordDeployment, TypeOK, RegistryState
  <2>3. [node_account[op] EXCEPT !.deployments_served
           = Wrap(node_account[op].deployments_served + 1)] \in NodeAccount
    <3>1. \A node \in NodeAccount, n \in U64 : [node EXCEPT !.deployments_served = n] \in NodeAccount
      BY DEF NodeAccount
    <3>2. node_account[op] \in NodeAccount
      BY DEF TypeOK
    <3>. QED
      BY <2>1, <3>1, <3>2
  <2>4. node_account' \in [Wallets -> NodeAccount]
    BY <1>5, <2>3 DEF RecordDeployment, TypeOK
  <2>5. deployment_record' \in [DeploymentIds -> DeploymentRecord]
    BY <1>5 DEF RecordDeployment, TypeOK, DeploymentRecord, DeploymentStatus
  <2>. QED
    BY <1>5, <2>2, <2>4, <2>5 DEF RecordDeployment, TypeOK
<1>6. ASSUME NEW d \in DeploymentIds, NEW status \in NewStatuses,
             UpdateDeploymentStatus(d, status)
      PROVE  TypeOK'
  <2>1. AfterUpdate(deployment_record[d], status, clock) \in DeploymentRecord
    BY RegistryAssumption DEF TypeOK, AfterUpdate, DeploymentRecord
  <2>. QED
    BY <1>6, <2>1 DEF UpdateDeploymentStatus, TypeOK
<1>7. ASSUME NEW seconds \in Ticks, Tick(seconds)
      PROVE  TypeOK'
  BY <1>7, RegistryAssumption DEF Tick, TypeOK
<1>8. CASE UNCHANGED vars
  BY <1>8 DEF vars, TypeOK
<1>. QED
  BY <1>1, <1>2, <1>3, <1>4, <1>5, <1>6, <1>7, <1>8 DEF Next

\* Every account holds values of its types, the score among them never over 100,
\* in either build.
THEOREM TypeCorrect == Spec => []TypeOK
  BY TypeInit, TypeStep, PTL DEF Spec
--------------------------------------------------------------------------------
(***************************************************************************)
(* Counting nodes and deployments.                                         *)
(***************************************************************************)

\* The inductive invariant: only finitely many accounts were created, none
\* before the registry, every record names a registered node, and the counters.
CountInv ==
    /\ TypeOK
    /\ IsFiniteSet(nodes) /\ IsFiniteSet(records)
    /\ ~registry_state.initialized => nodes = {} /\ records = {}
    /\ \A d \in records : deployment_record[d].node \in nodes
    /\ CountersMatchAccounts

\* One more account, one more in the counter: also when the counter wraps.
LEMMA CountOneMore ==
    ASSUME NEW S, IsFiniteSet(S), NEW x, x \notin S
    PROVE  Wrap(Wrap(Cardinality(S)) + 1) = Wrap(Cardinality(S \cup {x}))
<1> DEFINE k == Cardinality(S)
<1>1. k \in Nat /\ k \in Int /\ Cardinality(S \cup {x}) = k + 1
  BY FS_CardinalityType, FS_AddElement
<1> HIDE DEF k
<1>2. Wrap(k) \in Int
  BY <1>1, WrapType DEF U64
<1>3. Wrap(1 + Wrap(k)) = Wrap(1 + k)
  BY <1>1, WrapSum
<1>4. Wrap(k) + 1 = 1 + Wrap(k) /\ k + 1 = 1 + k
  BY <1>1, <1>2
<1>5. Wrap(Wrap(k) + 1) = Wrap(k + 1)
  BY <1>3, <1>4
<1>. QED
  BY <1>1, <1>5 DEF k

LEMMA CountInit == Init => CountInv
<1> SUFFICES ASSUME Init
             PROVE  CountInv
  OBVIOUS
<1>1. TypeOK
  BY TypeInit
<1>2. Cardinality(nodes) = 0 /\ Cardinality(records) = 0 /\ IsFiniteSet(nodes) /\ IsFiniteSet(records)
  BY FS_EmptySet DEF Init
<1>3. Wrap(0) = 0
  BY WrapFits, U64Assumption DEF U64
<1>. QED
  BY <1>1, <1>2, <1>3 DEF Init, CountInv, CountersMatchAccounts

LEMMA CountStep == CountInv /\ [Next]_vars => CountInv'
<1> SUFFICES ASSUME CountInv, [Next]_vars
             PROVE  CountInv'
  OBVIOUS
<1> USE DEF CountInv
<1>1. TypeOK'
  BY TypeStep
<1>2. ASSUME NEW signer \in Wallets, Initialize(signer)
      PROVE  CountInv'
  <2>1. nodes = {} /\ records = {} /\ Cardinality(nodes) = 0 /\ Cardinality(records) = 0
    BY <1>2, FS_EmptySet DEF Initialize
  <2>2. Wrap(0) = 0
    BY WrapFits, U64Assumption DEF U64
  <2>. QED
    BY <1>1, <1>2, <2>1, <2>2 DEF Initialize, CountersMatchAccounts
<1>3. ASSUME NEW signer \in Wallets, NEW op \in Wallets, NEW region_len \in RegionLengths,
             RegisterNode(signer, op, region_len)
      PROVE  CountInv'
  <2>1. /\ op \notin nodes /\ registry_state.initialized
        /\ nodes' = nodes \cup {op}
        /\ node_account' = [node_account EXCEPT ![op] = NewNode(clock)]
        /\ registry_state' = [registry_state EXCEPT !.total_nodes = Wrap(@ + 1)]
        /\ records' = records /\ deployment_record' = deployment_record
    BY <1>3 DEF RegisterNode, CanRegister, IsAuthority
  <2>2. registry_state'.total_nodes = Wrap(Cardinality(nodes'))
    BY <2>1, CountOneMore DEF CountersMatchAccounts, TypeOK, RegistryState
  <2>3. /\ registry_state'.initialized
        /\ registry_state'.total_deployments = registry_state.total_deployments
    BY <2>1 DEF TypeOK, RegistryState
  <2>4. ServedBy(op) = {} /\ Cardinality(ServedBy(op)) = 0
    <3>1. ServedBy(op) = {}
      BY <2>1 DEF ServedBy
    <3>. QED
      BY <3>1, FS_EmptySet
  <2>5. node_account'[op].deployments_served = Wrap(Cardinality(ServedBy(op)))
    <3>1. Wrap(0) = 0
      BY WrapFits, U64Assumption DEF U64
    <3>. QED
      BY <2>1, <2>4, <3>1 DEF NewNode, NoNode, TypeOK
  <2>6. \A w \in Wallets : ServedBy(w)' = ServedBy(w)
    BY <2>1 DEF ServedBy
  <2>7. \A w \in nodes' :
          node_account'[w].deployments_served = Wrap(Cardinality(ServedBy(w)'))
    BY <2>1, <2>5, <2>6 DEF CountersMatchAccounts, TypeOK
  <2>8. IsFiniteSet(nodes')
    BY <2>1, FS_AddElement
  <2>. QED
    BY <1>1, <2>1, <2>2, <2>3, <2>7, <2>8 DEF CountersMatchAccounts
<1>4. ASSUME NEW op \in Wallets,
             DeactivateNode(op) \/ (\E metric \in Metrics : RecordHeartbeat(op, metric))
      PROVE  CountInv'
  <2>1. \A w \in Wallets :
          node_account'[w].deployments_served = node_account[w].deployments_served
    <3>1. \A metric : AfterHeartbeat(node_account[op], metric, clock).deployments_served
                        = node_account[op].deployments_served
      BY HeartbeatFields DEF TypeOK
    <3>. QED
      BY <1>4, <3>1 DEF DeactivateNode, RecordHeartbeat, TypeOK, NodeAccount
  <2>2. UNCHANGED <<registry_state, nodes, records, deployment_record>>
    BY <1>4 DEF DeactivateNode, RecordHeartbeat
  <2>3. \A w \in Wallets : ServedBy(w)' = ServedBy(w)
    BY <2>2 DEF ServedBy
  <2>. QED
    BY <1>1, <2>1, <2>2, <2>3 DEF CountersMatchAccounts, TypeOK
<1>5. ASSUME NEW signer \in Wallets, NEW op \in Wallets, NEW d \in DeploymentIds,
             RecordDeployment(signer, op, d)
      PROVE  CountInv'
  <2>1. /\ op \in nodes /\ d \notin records /\ registry_state.initialized
        /\ records' = records \cup {d}
        /\ deployment_record' =
             [deployment_record EXCEPT ![d] = [node |-> op, status |-> "Pending",
                                               created_at |-> clock, updated_at |-> clock]]
        /\ node_account' = [node_account EXCEPT ![op].deployments_served = Wrap(@ + 1)]
        /\ registry_state' = [registry_state EXCEPT !.total_deployments = Wrap(@ + 1)]
        /\ nodes' = nodes
    BY <1>5 DEF RecordDeployment, IsAuthority
  <2>2. registry_state'.total_deployments = Wrap(Cardinality(records'))
    BY <2>1, CountOneMore DEF CountersMatchAccounts, TypeOK, RegistryState
  <2>3. /\ registry_state'.initialized
        /\ registry_state'.total_nodes = registry_state.total_nodes
    BY <2>1 DEF TypeOK, RegistryState
  <2>4. /\ deployment_record'[d].node = op
        /\ \A e \in records : deployment_record'[e] = deployment_record[e]
    BY <2>1 DEF TypeOK
  <2>5. /\ ServedBy(op)' = ServedBy(op) \cup {d} /\ d \notin ServedBy(op)
        /\ \A w \in Wallets \ {op} : ServedBy(w)' = ServedBy(w)
    BY <2>1, <2>4 DEF ServedBy
  <2>6. IsFiniteSet(ServedBy(op))
    BY FS_Subset DEF ServedBy
  <2>7. Wrap(Wrap(Cardinality(ServedBy(op))) + 1) = Wrap(Cardinality(ServedBy(op)'))
    BY <2>5, <2>6, CountOneMore
  <2>8. /\ node_account'[op].deployments_served = Wrap(node_account[op].deployments_served + 1)
        /\ \A w \in Wallets \ {op} : node_account'[w] = node_account[w]
    BY <2>1 DEF TypeOK, NodeAccount
  <2>9. \A w \in nodes' :
          node_account'[w].deployments_served = Wrap(Cardinality(ServedBy(w)'))
    BY <2>1, <2>5, <2>7, <2>8 DEF CountersMatchAccounts, TypeOK
  <2>10. IsFiniteSet(records')
    BY <2>1, FS_AddElement
  <2>. QED
    BY <1>1, <2>1, <2>2, <2>3, <2>4, <2>9, <2>10 DEF CountersMatchAccounts
<1>6. ASSUME NEW d \in DeploymentIds, NEW status \in NewStatuses,
             UpdateDeploymentStatus(d, status)
      PROVE  CountInv'
  <2>1. \A e \in DeploymentIds : deployment_record'[e].node = deployment_record[e].node
    BY <1>6 DEF UpdateDeploymentStatus, AfterUpdate, TypeOK, DeploymentRecord
  <2>2. UNCHANGED <<registry_state, nodes, node_account, records>>
    BY <1>6 DEF UpdateDeploymentStatus
  <2>3. \A w \in Wallets : ServedBy(w)' = ServedBy(w)
    BY <2>1, <2>2 DEF ServedBy, TypeOK
  <2>. QED
    BY <1>1, <2>1, <2>2, <2>3 DEF CountersMatchAccounts, TypeOK
<1>7. ASSUME UNCHANGED <<registry_state, nodes, node_account, records, deployment_record>>
      PROVE  CountInv'
  BY <1>1, <1>7 DEF CountersMatchAccounts, ServedBy
<1>. QED
  BY <1>2, <1>3, <1>4, <1>5, <1>6, <1>7 DEF Next, Tick, vars

\* The registry's totals and every node's count of deployments are the numbers
\* of accounts there are, for any number of nodes and deployments.
THEOREM AccountsAreCounted == Spec => []CountersMatchAccounts
<1>1. CountInv => CountersMatchAccounts
  BY DEF CountInv
<1>. QED
  BY CountInit, CountStep, <1>1, PTL DEF Spec
--------------------------------------------------------------------------------
(***************************************************************************)
(* Uptime and score.                                                       *)
(***************************************************************************)

\* The two properties, of one node at one time.
LifetimeOf(node, now) ==
    /\ node.registered_at <= now
    /\ node.last_heartbeat_at = 0 =>
         node.total_heartbeats = 0 /\ node.uptime_seconds = 0 /\ node.score = 0
    /\ node.last_heartbeat_at # 0 =>
         /\ node.registered_at <= node.last_heartbeat_at
         /\ node.last_heartbeat_at <= now
         /\ node.uptime_seconds <= node.last_heartbeat_at - node.registered_at
         /\ OverflowChecks =>
              node.uptime_seconds <= HEARTBEAT_GAP * (node.total_heartbeats - 1)

ScoreOf(node) ==
    node.last_heartbeat_at # 0 =>
      node.score - Least((node.total_heartbeats * 10) \div UPTIME_FULL, 10) \in 0..90

LifeInv == /\ TypeOK
           /\ \A op \in nodes : LifetimeOf(node_account[op], clock) /\ ScoreOf(node_account[op])

LEMMA LifeInvImplies == LifeInv => UptimeWithinLifetime /\ ScoreFollowsHeartbeats
  BY DEF LifeInv, LifetimeOf, ScoreOf, UptimeWithinLifetime, ScoreFollowsHeartbeats

\* A heartbeat keeps both.
LEMMA HeartbeatKeeps ==
    ASSUME NEW node \in NodeAccount, NEW metric \in Metrics, NEW now \in Nat \ {0},
           LifetimeOf(node, now),
           Fits(node.total_heartbeats + 1), Fits(node.uptime_seconds + Elapsed(node, now))
    PROVE  /\ LifetimeOf(AfterHeartbeat(node, metric, now), now)
           /\ ScoreOf(AfterHeartbeat(node, metric, now))
<1> DEFINE after == AfterHeartbeat(node, metric, now)
           h == Wrap(node.total_heartbeats + 1)
           e == Elapsed(node, now)
           u == Wrap(node.uptime_seconds + e)
           last == node.last_heartbeat_at
<1>1. /\ node.registered_at \in Nat /\ last \in Nat
      /\ node.uptime_seconds \in Nat /\ node.total_heartbeats \in Nat
      /\ HEARTBEAT_GAP \in Nat
  BY RegistryAssumption DEF NodeAccount, U64
<1>2. /\ after.total_heartbeats = h /\ after.uptime_seconds = u
      /\ after.score = MachineScore(metric) + UptimeScore(h)
      /\ after.last_heartbeat_at = now /\ after.registered_at = node.registered_at
  BY HeartbeatFields
<1>3. /\ e \in Nat /\ e <= HEARTBEAT_GAP
      /\ last = 0 => e = 0
      /\ last # 0 => e <= now - last
  BY <1>1 DEF Elapsed, LifetimeOf
<1>4. h \in Nat /\ u \in Nat /\ u <= node.uptime_seconds + e
  BY <1>1, <1>3, WrapAtMost DEF U64
<1>5. OverflowChecks => h = node.total_heartbeats + 1
  BY <1>1, StoredExactly
<1> HIDE DEF after, h, e, u, last
<1>6. u <= now - node.registered_at
  BY <1>1, <1>3, <1>4 DEF LifetimeOf, last
<1>7. OverflowChecks => u <= HEARTBEAT_GAP * (h - 1)
  <2> SUFFICES ASSUME OverflowChecks
               PROVE  u <= HEARTBEAT_GAP * (h - 1)
    OBVIOUS
  <2>1. h - 1 = node.total_heartbeats /\ h - 1 >= 0
    BY <1>1, <1>5
  <2>2. CASE last = 0
    <3>1. u <= 0
      BY <1>1, <1>3, <1>4, <2>2 DEF LifetimeOf, last
    <3>2. HEARTBEAT_GAP * (h - 1) >= 0
      BY <1>1, <1>4, <2>1
    <3>. QED
      BY <1>1, <1>4, <3>1, <3>2
  <2>3. CASE last # 0
    <3>1. node.uptime_seconds <= HEARTBEAT_GAP * (node.total_heartbeats - 1)
      BY <2>3 DEF LifetimeOf, last
    <3>2. HEARTBEAT_GAP * (node.total_heartbeats - 1) + HEARTBEAT_GAP
            = HEARTBEAT_GAP * node.total_heartbeats
      BY <1>1
    <3>. QED
      BY <1>1, <1>3, <1>4, <2>1, <3>1, <3>2
  <2>. QED
    BY <2>2, <2>3
<1>8. LifetimeOf(after, now)
  BY <1>1, <1>2, <1>6, <1>7 DEF LifetimeOf
<1>9. ScoreOf(after)
  <2>1. after.score - UptimeScore(h) = MachineScore(metric)
    BY <1>2, <1>4, MachineScoreCapped, UptimeScoreCapped
  <2>2. UptimeScore(h) = Least((h * 10) \div UPTIME_FULL, 10)
    BY <1>4, UptimeScoreCapped
  <2>. QED
    BY <1>2, <2>1, <2>2, MachineScoreCapped DEF ScoreOf
<1>. QED
  BY <1>8, <1>9 DEF after

LEMMA LifeInit == Init => LifeInv
  BY TypeInit DEF Init, LifeInv

LEMMA LifeStep == LifeInv /\ [Next]_vars => LifeInv'
<1> SUFFICES ASSUME LifeInv, [Next]_vars
             PROVE  LifeInv'
  OBVIOUS
<1> USE DEF LifeInv
<1>1. TypeOK'
  BY TypeStep
<1>2. ASSUME NEW signer \in Wallets, NEW op \in Wallets, NEW region_len \in RegionLengths,
             RegisterNode(signer, op, region_len)
      PROVE  LifeInv'
  <2>1. /\ nodes' = nodes \cup {op} /\ clock' = clock
        /\ node_account'[op] = NewNode(clock)
        /\ \A w \in Wallets \ {op} : node_account'[w] = node_account[w]
    BY <1>2 DEF RegisterNode, TypeOK
  <2>2. LifetimeOf(NewNode(clock), clock) /\ ScoreOf(NewNode(clock))
    BY DEF NewNode, NoNode, LifetimeOf, ScoreOf, TypeOK
  <2>. QED
    BY <1>1, <2>1, <2>2 DEF TypeOK
<1>3. ASSUME NEW op \in Wallets, NEW metric \in Metrics, RecordHeartbeat(op, metric)
      PROVE  LifeInv'
  <2> DEFINE node == node_account[op]
  <2>1. /\ op \in nodes /\ nodes' = nodes /\ clock' = clock
        /\ Fits(node.total_heartbeats + 1)
        /\ Fits(node.uptime_seconds + Elapsed(node, clock))
        /\ node_account' = [node_account EXCEPT ![op] = AfterHeartbeat(node, metric, clock)]
    BY <1>3 DEF RecordHeartbeat, MayHeartbeat
  <2>2. /\ LifetimeOf(AfterHeartbeat(node, metric, clock), clock)
        /\ ScoreOf(AfterHeartbeat(node, metric, clock))
    BY <2>1, HeartbeatKeeps DEF TypeOK
  <2>. QED
    BY <1>1, <2>1, <2>2 DEF TypeOK
<1>4. ASSUME nodes' = nodes, clock' \in Nat, clock <= clock',
             \A w \in Wallets :
               /\ node_account'[w].registered_at = node_account[w].registered_at
               /\ node_account'[w].last_heartbeat_at = node_account[w].last_heartbeat_at
               /\ node_account'[w].total_heartbeats = node_account[w].total_heartbeats
               /\ node_account'[w].uptime_seconds = node_account[w].uptime_seconds
               /\ node_account'[w].score = node_account[w].score
      PROVE  LifeInv'
  <2> SUFFICES ASSUME NEW w \in nodes
               PROVE  LifetimeOf(node_account'[w], clock') /\ ScoreOf(node_account'[w])
    BY <1>1, <1>4
  <2>1. w \in Wallets /\ clock \in Nat /\ node_account[w] \in NodeAccount
    BY DEF TypeOK
  <2>2. LifetimeOf(node_account[w], clock) /\ ScoreOf(node_account[w])
    OBVIOUS
  <2>. QED
    BY <1>4, <2>1, <2>2 DEF LifetimeOf, ScoreOf, NodeAccount
<1>5. ASSUME NEW op \in Wallets, DeactivateNode(op)
      PROVE  LifeInv'
  <2>1. /\ nodes' = nodes /\ clock' = clock /\ clock \in Nat
        /\ node_account' = [node_account EXCEPT ![op].is_active = FALSE]
        /\ node_account \in [Wallets -> NodeAccount]
    BY <1>5 DEF DeactivateNode, TypeOK
  <2>2. \A w \in Wallets :
          /\ node_account'[w].registered_at = node_account[w].registered_at
          /\ node_account'[w].last_heartbeat_at = node_account[w].last_heartbeat_at
          /\ node_account'[w].total_heartbeats = node_account[w].total_heartbeats
          /\ node_account'[w].uptime_seconds = node_account[w].uptime_seconds
          /\ node_account'[w].score = node_account[w].score
    <3>1. node_account[op] \in NodeAccount /\ op \in Wallets
      BY <2>1
    <3>2. /\ node_account'[op] = [node_account[op] EXCEPT !.is_active = FALSE]
          /\ \A w \in Wallets \ {op} : node_account'[w] = node_account[w]
      BY <2>1
    <3>. QED
      BY <3>1, <3>2 DEF NodeAccount
  <2>3. nodes' = nodes /\ clock' \in Nat /\ clock <= clock'
    BY <2>1
  <2>. QED
    BY <1>4, <2>2, <2>3
<1>6. ASSUME NEW signer \in Wallets, NEW op \in Wallets, NEW d \in DeploymentIds,
             RecordDeployment(signer, op, d)
      PROVE  LifeInv'
  BY <1>4, <1>6 DEF RecordDeployment, TypeOK, NodeAccount
<1>7. ASSUME NEW seconds \in Ticks, Tick(seconds)
      PROVE  LifeInv'
  BY <1>4, <1>7, RegistryAssumption DEF Tick, TypeOK
<1>8. ASSUME UNCHANGED <<clock, nodes, node_account>>
      PROVE  LifeInv'
  BY <1>1, <1>8
<1>. QED
  BY <1>2, <1>3, <1>5, <1>6, <1>7, <1>8
     DEF Next, Initialize, UpdateDeploymentStatus, vars

\* No node is ever credited with uptime that did not pass: for every gap, clock
\* and width.
THEOREM UptimeIsReal == Spec => []UptimeWithinLifetime
  BY LifeInit, LifeStep, LifeInvImplies, PTL DEF Spec

\* A node's score always holds the uptime points of the heartbeats it has.
THEOREM ScoreIsCurrent == Spec => []ScoreFollowsHeartbeats
  BY LifeInit, LifeStep, LifeInvImplies, PTL DEF Spec
--------------------------------------------------------------------------------
(***************************************************************************)
(* What a step may never do.                                               *)
(***************************************************************************)

\* A step may change what a node served; of an inactive one it changes no more.
LEMMA InactiveStep ==
    ASSUME TypeOK, [Next]_vars, NEW w \in nodes, ~node_account[w].is_active
    PROVE  node_account'[w] =
             [node_account[w] EXCEPT !.deployments_served = node_account'[w].deployments_served]
<1>1. w \in Wallets /\ node_account[w] \in NodeAccount
  BY DEF TypeOK
<1>2. \A node \in NodeAccount : [node EXCEPT !.deployments_served = node.deployments_served] = node
  BY DEF NodeAccount
<1>3. ASSUME node_account'[w] = node_account[w]
      PROVE  node_account'[w] =
               [node_account[w] EXCEPT !.deployments_served = node_account'[w].deployments_served]
  BY <1>1, <1>2, <1>3
<1>4. ASSUME NEW op \in Wallets, NEW signer \in Wallets, NEW region_len \in RegionLengths,
             RegisterNode(signer, op, region_len)
      PROVE  node_account'[w] = node_account[w]
  BY <1>1, <1>4 DEF RegisterNode, CanRegister, TypeOK
<1>5. ASSUME NEW op \in Wallets, DeactivateNode(op)
      PROVE  node_account'[w] = node_account[w]
  <2>1. \A node \in NodeAccount : ~node.is_active => [node EXCEPT !.is_active = FALSE] = node
    BY DEF NodeAccount
  <2>2. node_account' = [node_account EXCEPT ![op] = [node_account[op] EXCEPT !.is_active = FALSE]]
    BY <1>5 DEF DeactivateNode
  <2>. QED
    BY <1>1, <2>1, <2>2 DEF TypeOK
<1>6. ASSUME NEW op \in Wallets, NEW metric \in Metrics, RecordHeartbeat(op, metric)
      PROVE  node_account'[w] = node_account[w]
  BY <1>1, <1>6 DEF RecordHeartbeat, MayHeartbeat, TypeOK
<1>7. ASSUME NEW signer \in Wallets, NEW op \in Wallets, NEW d \in DeploymentIds,
             RecordDeployment(signer, op, d)
      PROVE  node_account'[w] =
               [node_account[w] EXCEPT !.deployments_served = node_account'[w].deployments_served]
  <2>1. node_account' = [node_account EXCEPT ![op] =
            [node_account[op] EXCEPT !.deployments_served = Wrap(node_account[op].deployments_served + 1)]]
    BY <1>7 DEF RecordDeployment
  <2>2. CASE w # op
    BY <1>1, <1>3, <2>1, <2>2 DEF TypeOK
  <2>3. CASE w = op
    <3>1. node_account'[w] = [node_account[w] EXCEPT !.deployments_served =
                                Wrap(node_account[w].deployments_served + 1)]
      BY <1>1, <2>1, <2>3 DEF TypeOK
    <3>. QED
      BY <1>1, <3>1 DEF NodeAccount
  <2>. QED
    BY <2>2, <2>3
<1>8. ASSUME UNCHANGED node_account
      PROVE  node_account'[w] = node_account[w]
  BY <1>8
<1>. QED
  BY <1>3, <1>4, <1>5, <1>6, <1>7, <1>8
     DEF Next, Initialize, UpdateDeploymentStatus, Tick, vars

\* No sequence of instructions brings a deactivated node back, or moves its score
\* or its uptime.
THEOREM InactiveStaysInactive == Spec => DeactivationIsFinal
<1>1. TypeOK /\ [Next]_vars =>
        [\A op \in nodes :
           LET node == node_account[op]
           IN  ~node.is_active =>
                 node_account'[op] =
                   [node EXCEPT !.deployments_served = node_account'[op].deployments_served]]_vars
  BY InactiveStep
<1>. QED
  BY <1>1, TypeCorrect, PTL DEF Spec, DeactivationIsFinal
================================================================================
