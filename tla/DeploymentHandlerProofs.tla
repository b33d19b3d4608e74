------------------------- MODULE DeploymentHandlerProofs -------------------------
(***************************************************************************)
(* Proofs about the handlers of a node, for any number of ids, requests    *)
(* and ports, with redeployments, failures of docker and restarts.         *)
(***************************************************************************)
EXTENDS DeploymentHandler, TLAPS

LEMMA TypeInit == Init => TypeOK
  BY HandlerAssumption DEF Init, TypeOK, NoState, DeploymentState, Status

\* setState stores a status of the type, and nothing else.
LEMMA SetStateType ==
    ASSUME TypeOK, NEW id, NEW status \in Status, SetState(id, status)
    PROVE  object' \in [Deploys -> DeploymentState]
<1>1. \A o \in DeploymentState : [o EXCEPT !.status = status] \in DeploymentState
  BY DEF DeploymentState
<1>. QED
  BY <1>1 DEF SetState, TypeOK

\* Moving a handler on keeps its record well typed.
LEMMA MovesType ==
    ASSUME TypeOK
    PROVE  /\ \A r \in Deploys, pc \in {"done"} \cup Working :
                DeployMovesTo(r, pc) =>
                  deploy' \in [Deploys -> [pc: {"idle", "allocated", "done", "dead"} \cup Working,
                                          id: Ids \cup {None}, port: 0..portMax]]
           /\ \A s \in Stops, pc \in {"done", "dead"} \cup Stopping :
                StopMovesTo(s, pc) =>
                  stop' \in [Stops -> [pc: {"idle", "done", "dead"} \cup Stopping,
                                      id: Ids \cup {None}, found: Deploys \cup {None}]]
<1> DEFINE D == [pc: {"idle", "allocated", "done", "dead"} \cup Working,
                 id: Ids \cup {None}, port: 0..portMax]
           S == [pc: {"idle", "done", "dead"} \cup Stopping,
                 id: Ids \cup {None}, found: Deploys \cup {None}]
<1>1. /\ \A o \in D, pc \in {"done"} \cup Working : [o EXCEPT !.pc = pc] \in D
      /\ \A o \in S, pc \in {"done", "dead"} \cup Stopping : [o EXCEPT !.pc = pc] \in S
  OBVIOUS
<1>2. deploy \in [Deploys -> D] /\ stop \in [Stops -> S]
  BY DEF TypeOK
<1> HIDE DEF D, S
<1>3. /\ \A r \in Deploys, pc \in {"done"} \cup Working :
           DeployMovesTo(r, pc) => deploy' \in [Deploys -> D]
      /\ \A s \in Stops, pc \in {"done", "dead"} \cup Stopping :
           StopMovesTo(s, pc) => stop' \in [Stops -> S]
  <2>1. ASSUME NEW r \in Deploys, NEW pc \in {"done"} \cup Working, DeployMovesTo(r, pc)
        PROVE  deploy' \in [Deploys -> D]
    BY <1>1, <1>2, <2>1 DEF DeployMovesTo
  <2>2. ASSUME NEW s \in Stops, NEW pc \in {"done", "dead"} \cup Stopping, StopMovesTo(s, pc)
        PROVE  stop' \in [Stops -> S]
    BY <1>1, <1>2, <2>2 DEF StopMovesTo
  <2>. QED
    BY <2>1, <2>2
<1>. QED
  BY <1>3 DEF D, S

LEMMA TypeStep == TypeOK /\ [Next]_vars => TypeOK'
<1> SUFFICES ASSUME TypeOK, [Next]_vars
             PROVE  TypeOK'
  OBVIOUS
<1>1. ASSUME NEW r \in Deploys, NEW id \in Ids, NEW p \in 1..portMax, AllocatePort(r, id, p)
      PROVE  TypeOK'
  BY <1>1, HandlerAssumption DEF AllocatePort, TypeOK
<1>2. ASSUME NEW r \in Deploys, Register(r)
      PROVE  TypeOK'
  <2>1. NewState(deploy[r].port) \in DeploymentState
    BY DEF TypeOK, NewState, DeploymentState, Status
  <2>2. object' \in [Deploys -> DeploymentState]
    BY <1>2, <2>1 DEF Register, TypeOK
  <2>3. deployments' \in [Ids -> Deploys \cup {None}]
    BY <1>2 DEF Register, TypeOK
  <2>. QED
    BY <1>2, <2>2, <2>3, MovesType DEF Register, TypeOK, Working
<1>3. ASSUME NEW r \in Deploys, Goroutine(r)
      PROVE  TypeOK'
  <2>1. CASE DeployFails(r)
    BY <2>1, SetStateType DEF DeployFails, DeployMovesTo, TypeOK, Status
  <2>2. CASE Begin(r)
    BY <2>2, SetStateType DEF Begin, DeployMovesTo, TypeOK, Status, Working
  <2>3. CASE FetchAndBuild(r)
    <3>1. ASSUME DeployMovesTo(r, "built"),
                 UNCHANGED <<deployments, object, mu, stop, container, restarts>>
          PROVE  TypeOK'
      BY <3>1, MovesType DEF TypeOK, Working
    <3>. QED
      BY <2>1, <2>3, <3>1 DEF FetchAndBuild
  <2>4. CASE RunContainer(r)
    <3>1. ASSUME container' = [container EXCEPT ![r] = "running"], DeployMovesTo(r, "started"),
                 UNCHANGED <<deployments, object, mu, stop, restarts>>
          PROVE  TypeOK'
      <4>1. container' \in [Deploys -> {"none", "running", "crashed", "exited", "removed"}]
        BY <3>1 DEF TypeOK
      <4>. QED
        BY <3>1, <4>1, MovesType DEF TypeOK, Working
    <3>. QED
      BY <2>1, <2>4, <3>1 DEF RunContainer
  <2>5. CASE PublishStatus(r)
    BY <2>5, SetStateType DEF PublishStatus, DeployMovesTo, TypeOK, Status, Working
  <2>6. CASE PublishContainer(r)
    <3>1. \A o \in DeploymentState : [o EXCEPT !.container = r] \in DeploymentState
      BY DEF DeploymentState
    <3>2. object' \in [Deploys -> DeploymentState]
      BY <2>6, <3>1 DEF PublishContainer, TypeOK
    <3>. QED
      BY <2>6, <3>2, MovesType DEF PublishContainer, TypeOK
  <2>. QED
    BY <1>3, <2>2, <2>3, <2>4, <2>5, <2>6 DEF Goroutine
<1>4. ASSUME NEW s \in Stops, HandleStop(s)
      PROVE  TypeOK'
  <2>1. ASSUME NEW id \in Ids, FindDeployment(s, id)
        PROVE  TypeOK'
    BY <2>1 DEF FindDeployment, TypeOK, Stopping
  <2>2. CASE CheckContainer(s)
    <3>1. \E pc \in {"dead"} \cup Stopping : StopMovesTo(s, pc)
      BY <2>2 DEF CheckContainer, Stopping
    <3>. QED
      BY <2>2, <3>1, MovesType DEF CheckContainer, TypeOK
  <2>3. CASE DockerStop(s)
    <3>1. container' \in [Deploys -> {"none", "running", "crashed", "exited", "removed"}]
      BY <2>3 DEF DockerStop, TypeOK
    <3>. QED
      BY <2>3, <3>1, MovesType DEF DockerStop, TypeOK, Stopping
  <2>4. CASE DockerRemove(s)
    <3>1. container' \in [Deploys -> {"none", "running", "crashed", "exited", "removed"}]
      BY <2>4 DEF DockerRemove, TypeOK
    <3>. QED
      BY <2>4, <3>1, MovesType DEF DockerRemove, TypeOK, Stopping
  <2>5. CASE SetStopped(s)
    BY <2>5, SetStateType DEF SetStopped, StopMovesTo, TypeOK, Status
  <2>. QED
    BY <1>4, <2>1, <2>2, <2>3, <2>4, <2>5 DEF HandleStop
<1>5. CASE Restart
  <2>1. deploy' \in [Deploys -> [pc: {"idle", "allocated", "done", "dead"} \cup Working,
                                 id: Ids \cup {None}, port: 0..portMax]]
    <3> DEFINE D == [pc: {"idle", "allocated", "done", "dead"} \cup Working,
                     id: Ids \cup {None}, port: 0..portMax]
    <3>1. \A o \in D : [o EXCEPT !.pc = "dead"] \in D
      OBVIOUS
    <3>2. deploy \in [Deploys -> D]
      BY DEF TypeOK
    <3> HIDE DEF D
    <3>3. deploy' \in [Deploys -> D]
      BY <1>5, <3>1, <3>2 DEF Restart
    <3>. QED
      BY <3>3 DEF D
  <2>2. stop' \in [Stops -> [pc: {"idle", "done", "dead"} \cup Stopping,
                             id: Ids \cup {None}, found: Deploys \cup {None}]]
    <3> DEFINE S == [pc: {"idle", "done", "dead"} \cup Stopping,
                     id: Ids \cup {None}, found: Deploys \cup {None}]
    <3>1. \A o \in S : [o EXCEPT !.pc = "dead"] \in S
      OBVIOUS
    <3>2. stop \in [Stops -> S]
      BY DEF TypeOK
    <3> HIDE DEF S
    <3>3. stop' \in [Stops -> S]
      BY <1>5, <3>1, <3>2 DEF Restart
    <3>. QED
      BY <3>3 DEF S
  <2>3. restarts' \in 0..MaxRestarts /\ mu' \in Deploys \cup {None}
        /\ deployments' \in [Ids -> Deploys \cup {None}]
    BY <1>5, HandlerAssumption DEF Restart, TypeOK
  <2>. QED
    BY <1>5, <2>1, <2>2, <2>3 DEF Restart, TypeOK
<1>6. CASE UNCHANGED vars
  BY <1>6 DEF vars, TypeOK
<1>7. ASSUME NEW r \in Deploys, ContainerCrashes(r)
      PROVE  TypeOK'
  BY <1>7 DEF ContainerCrashes, TypeOK
<1>. QED
  BY <1>1, <1>2, <1>3, <1>4, <1>5, <1>6, <1>7 DEF Next

\* The map, the objects and the handlers always hold values of their types.
THEOREM TypeCorrect == Spec => []TypeOK
  BY TypeInit, TypeStep, PTL DEF Spec
--------------------------------------------------------------------------------
(***************************************************************************)
(* A status that promises more has a goroutine at work.                    *)
(***************************************************************************)

\* The inductive invariant: an entry of an id is the object of a request for
\* that id, a goroutine has an id whose entry is there, and the one that holds mu
\* between its two writes has made the entry live.
WorkInv ==
    /\ TypeOK
    /\ \A id \in Ids : HasEntry(id) =>
         /\ deploy[deployments[id]].id = id
         /\ deploy[deployments[id]].pc \notin {"idle", "allocated"}
    /\ \A r \in Deploys : deploy[r].pc \in {"allocated"} \cup Working => deploy[r].id \in Ids
    /\ \A s \in Stops : stop[s].pc \in Stopping => stop[s].id \in Ids
    /\ \A r \in Deploys : deploy[r].pc \in Working => HasEntry(deploy[r].id)
    /\ \A r \in Deploys : deploy[r].pc = "publishing" =>
         mu = r /\ Entry(deploy[r].id).status = "live"
    /\ InProgressHasWorker

LEMMA WorkInit == Init => WorkInv
<1> SUFFICES ASSUME Init
             PROVE  WorkInv
  OBVIOUS
<1>1. \A id \in Ids : ~HasEntry(id)
  BY DEF Init, HasEntry
<1>2. \A r \in Deploys : deploy[r].pc = "idle"
  BY DEF Init
<1>3. \A s \in Stops : stop[s].pc = "idle"
  BY DEF Init
<1>. QED
  BY <1>1, <1>2, <1>3, TypeInit DEF WorkInv, InProgressHasWorker, Working, Stopping

\* What setState does when mu is free: the entry of the id, and no other, has
\* the status; no other field of an object is touched.
LEMMA SetStateEntry ==
    ASSUME WorkInv, NEW id \in Ids, NEW status \in Status, SetState(id, status), HasEntry(id)
    PROVE  /\ object'[deployments[id]].status = status
           /\ \A i \in Ids \ {id} : HasEntry(i) => object'[deployments[i]] = Entry(i)
<1>1. deployments[id] \in Deploys /\ object[deployments[id]] \in DeploymentState
  BY DEF WorkInv, TypeOK, HasEntry
<1>2. object' = [object EXCEPT ![deployments[id]].status = status]
  BY DEF SetState, HasEntry
<1>3. object'[deployments[id]].status = status
  BY <1>1, <1>2 DEF WorkInv, TypeOK, DeploymentState
<1>4. \A i \in Ids \ {id} : HasEntry(i) => deployments[i] # deployments[id] /\ deployments[i] \in Deploys
  BY DEF WorkInv, TypeOK, HasEntry
<1>. QED
  BY <1>2, <1>3, <1>4 DEF WorkInv, TypeOK, Entry

\* A step that writes one status and moves one handler keeps the invariant, if
\* that leaves the id either settled or with a goroutine at work.
LEMMA StatusStep ==
    ASSUME WorkInv, TypeOK', NEW id \in Ids, NEW status \in Status, HasEntry(id),
           SetState(id, status), deployments' = deployments,
           \A s \in Stops : stop'[s].pc \in Stopping => stop'[s].id \in Ids,
           \A r \in Deploys :
             /\ deploy'[r].id = deploy[r].id
             /\ deploy[r].pc \notin {"idle", "allocated"} =>
                  deploy'[r].pc \notin {"idle", "allocated"}
             /\ deploy'[r].pc \in {"allocated"} \cup Working =>
                  deploy[r].pc \in {"allocated"} \cup Working
             /\ deploy'[r].pc \in Working => deploy[r].pc \in Working
             /\ deploy'[r].pc = "publishing" =>
                  mu' = r /\ deploy[r].id = id /\ status = "live"
             /\ deploy[r].id # id => deploy'[r].pc = deploy[r].pc,
           status \in {"pending", "building"} =>
             \E r \in Deploys : deploy'[r].id = id /\ deploy'[r].pc \in Working
    PROVE  WorkInv'
<1> USE DEF WorkInv
<1>1. /\ object'[deployments[id]].status = status
      /\ \A i \in Ids \ {id} : HasEntry(i) => object'[deployments[i]] = Entry(i)
  BY SetStateEntry
<1>2. \A i \in Ids : HasEntry(i)' <=> HasEntry(i)
  BY DEF HasEntry
<1>3. \A i \in Ids : HasEntry(i)' =>
        /\ deploy'[deployments'[i]].id = i
        /\ deploy'[deployments'[i]].pc \notin {"idle", "allocated"}
  BY <1>2 DEF HasEntry, TypeOK
<1>4. /\ \A r \in Deploys : deploy'[r].pc \in Working => deployments'[deploy'[r].id] # None
      /\ \A r \in Deploys : deploy'[r].pc \in {"allocated"} \cup Working => deploy'[r].id \in Ids
  BY DEF HasEntry
<1>5. \A r \in Deploys : deploy'[r].pc = "publishing" =>
        mu' = r /\ object'[deployments'[deploy'[r].id]].status = "live"
  BY <1>1
<1>6. InProgressHasWorker'
  <2> SUFFICES ASSUME NEW i \in Ids, HasEntry(i)',
                      object'[deployments'[i]].status \in {"pending", "building"}
               PROVE  \E r \in Deploys : deploy'[r].id = i /\ deploy'[r].pc \in Working
    BY DEF InProgressHasWorker, Entry, IsWorking, HasEntry
  <2>1. CASE i = id
    BY <1>1, <2>1
  <2>2. CASE i # id
    <3>1. Entry(i).status \in {"pending", "building"} /\ HasEntry(i)
      BY <1>1, <1>2, <2>2
    <3>. QED
      BY <2>2, <3>1 DEF InProgressHasWorker, IsWorking
  <2>. QED
    BY <2>1, <2>2
<1>. QED
  BY <1>3, <1>4, <1>5, <1>6 DEF Entry, HasEntry

\* A step of HandleStop has an id of Ids to go on with.
LEMMA StopHasId ==
    ASSUME WorkInv, NEW s \in Stops, HandleStop(s)
    PROVE  \A t \in Stops : stop'[t].pc \in Stopping => stop'[t].id \in Ids
<1> USE DEF WorkInv
<1>1. stop \in [Stops -> [pc: {"idle", "done", "dead"} \cup Stopping,
                         id: Ids \cup {None}, found: Deploys \cup {None}]]
  BY DEF TypeOK
<1>2. ASSUME NEW id \in Ids, FindDeployment(s, id)
      PROVE  \A t \in Stops : stop'[t].pc \in Stopping => stop'[t].id \in Ids
  BY <1>1, <1>2 DEF FindDeployment
<1>3. ASSUME NEW pc, StopMovesTo(s, pc), stop[s].pc \in Stopping
      PROVE  \A t \in Stops : stop'[t].pc \in Stopping => stop'[t].id \in Ids
  <2>1. /\ stop'[s].id = stop[s].id
        /\ \A t \in Stops \ {s} : stop'[t] = stop[t]
    BY <1>1, <1>3 DEF StopMovesTo
  <2>. QED
    BY <1>3, <2>1
<1>4. CASE \E id \in Ids : FindDeployment(s, id)
  BY <1>2, <1>4
<1>5. CASE CheckContainer(s)
  BY <1>3, <1>5 DEF CheckContainer, Stopping
<1>6. CASE DockerStop(s) \/ DockerRemove(s) \/ SetStopped(s)
  BY <1>3, <1>6 DEF DockerStop, DockerRemove, SetStopped, Stopping
<1>. QED
  BY <1>4, <1>5, <1>6 DEF HandleStop

\* A step that leaves the map, the statuses and mu alone, and takes no goroutine
\* from its work, keeps the invariant.
LEMMA QuietStep ==
    ASSUME WorkInv, TypeOK', deployments' = deployments, mu' = mu,
           \A r \in Deploys : object'[r].status = object[r].status,
           \A s \in Stops : stop'[s].pc \in Stopping => stop'[s].id \in Ids,
           \A r \in Deploys :
             \/ deploy'[r] = deploy[r]
             \/ deploy[r].pc = "idle" /\ deploy'[r].pc = "allocated" /\ deploy'[r].id \in Ids
             \/ /\ deploy'[r].id = deploy[r].id
                /\ deploy[r].pc \in Working /\ deploy'[r].pc \in Working \ {"publishing"}
    PROVE  WorkInv'
<1> USE DEF WorkInv
<1>1. \A id \in Ids : HasEntry(id) =>
        /\ deploy'[deployments[id]].id = id
        /\ deploy'[deployments[id]].pc \notin {"idle", "allocated"}
        /\ deployments[id] \in Deploys
  <2>1. \A id \in Ids : HasEntry(id) => deployments[id] \in Deploys
    BY DEF HasEntry, TypeOK
  <2>. QED
    BY <2>1 DEF Working
<1>2. \A r \in Deploys : deploy[r].pc \in Working =>
        deploy'[r].pc \in Working /\ deploy'[r].id = deploy[r].id
  BY DEF Working
<1>3. \A r \in Deploys : deploy'[r].pc \in Working =>
        deploy[r].pc \in Working /\ deploy'[r].id = deploy[r].id
  BY DEF Working
<1>4. /\ \A r \in Deploys : deploy'[r].pc \in {"allocated"} \cup Working => deploy'[r].id \in Ids
      /\ \A r \in Deploys : deploy'[r].pc \in Working => deployments'[deploy'[r].id] # None
  BY <1>3 DEF HasEntry
<1>5. \A r \in Deploys : deploy'[r].pc = "publishing" =>
        mu' = r /\ object'[deployments'[deploy'[r].id]].status = "live"
  <2> SUFFICES ASSUME NEW r \in Deploys, deploy'[r].pc = "publishing"
               PROVE  mu' = r /\ object'[deployments'[deploy'[r].id]].status = "live"
    OBVIOUS
  <2>1. deploy'[r] = deploy[r] /\ deploy[r].pc \in Working
    BY <1>3 DEF Working
  <2>. QED
    BY <1>1, <2>1 DEF Entry, HasEntry
<1>6. InProgressHasWorker'
  <2> SUFFICES ASSUME NEW i \in Ids, HasEntry(i)',
                      object'[deployments'[i]].status \in {"pending", "building"}
               PROVE  \E r \in Deploys : deploy'[r].id = i /\ deploy'[r].pc \in Working
    BY DEF InProgressHasWorker, Entry, IsWorking, HasEntry
  <2>1. HasEntry(i) /\ Entry(i).status \in {"pending", "building"}
    BY <1>1 DEF HasEntry, Entry
  <2>. QED
    BY <1>2, <2>1 DEF InProgressHasWorker, IsWorking
<1>. QED
  BY <1>1, <1>4, <1>5, <1>6 DEF Entry, HasEntry

LEMMA WorkStep == WorkInv /\ [Next]_vars => WorkInv'
<1> SUFFICES ASSUME WorkInv, [Next]_vars
             PROVE  WorkInv'
  OBVIOUS
<1> USE DEF WorkInv
<1>1. TypeOK'
  BY TypeStep
<1>2. \A s \in Stops : UNCHANGED stop =>
        (stop'[s].pc \in Stopping => stop'[s].id \in Ids)
  OBVIOUS
<1>3. ASSUME NEW r \in Deploys, NEW id \in Ids, NEW p \in 1..portMax, AllocatePort(r, id, p)
      PROVE  WorkInv'
  <2>1. /\ UNCHANGED <<deployments, object, mu, stop>> /\ deploy[r].pc = "idle"
        /\ deploy'[r].pc = "allocated" /\ deploy'[r].id = id
        /\ \A q \in Deploys \ {r} : deploy'[q] = deploy[q]
    BY <1>3 DEF AllocatePort, TypeOK
  <2>. QED
    BY <1>1, <1>2, <2>1, QuietStep
<1>4. ASSUME NEW r \in Deploys, Register(r)
      PROVE  WorkInv'
  <2> DEFINE id == deploy[r].id
  <2>1. /\ deploy[r].pc = "allocated" /\ id \in Ids /\ mu = None /\ mu' = mu /\ stop' = stop
        /\ deployments'[id] = r
        /\ \A i \in Ids \ {id} : deployments'[i] = deployments[i]
        /\ object'[r].status = "pending"
        /\ \A q \in Deploys \ {r} : object'[q] = object[q] /\ deploy'[q] = deploy[q]
        /\ deploy'[r].pc = "spawned" /\ deploy'[r].id = id
    BY <1>4 DEF Register, NewState, DeployMovesTo, TypeOK
  <2> HIDE DEF id
  <2>2. \A i \in Ids \ {id} : HasEntry(i) => deployments[i] \in Deploys \ {r}
    BY <2>1 DEF HasEntry, TypeOK
  <2>3. r # None
    BY HandlerAssumption
  <2>4. \A i \in Ids : HasEntry(i)' =>
          /\ deploy'[deployments'[i]].id = i
          /\ deploy'[deployments'[i]].pc \notin {"idle", "allocated"}
    BY <2>1, <2>2 DEF HasEntry
  <2>5. /\ \A q \in Deploys : deploy'[q].pc \in {"allocated"} \cup Working => deploy'[q].id \in Ids
        /\ \A q \in Deploys : deploy'[q].pc \in Working => deployments'[deploy'[q].id] # None
    BY <2>1, <2>3 DEF HasEntry
  <2>6. \A q \in Deploys : deploy'[q].pc # "publishing"
    BY <2>1, HandlerAssumption
  <2>7. InProgressHasWorker'
    <3> SUFFICES ASSUME NEW i \in Ids, HasEntry(i)',
                        object'[deployments'[i]].status \in {"pending", "building"}
                 PROVE  \E q \in Deploys : deploy'[q].id = i /\ deploy'[q].pc \in Working
      BY DEF InProgressHasWorker, Entry, IsWorking, HasEntry
    <3>1. CASE i = id
      BY <2>1, <3>1 DEF Working
    <3>2. CASE i # id
      <4>1. HasEntry(i) /\ Entry(i).status \in {"pending", "building"}
        BY <2>1, <2>2, <3>2 DEF HasEntry, Entry
      <4>2. PICK q \in Deploys : deploy[q].id = i /\ deploy[q].pc \in Working
        BY <4>1 DEF InProgressHasWorker, IsWorking
      <4>. QED
        BY <2>1, <4>2 DEF Working
    <3>. QED
      BY <3>1, <3>2
  <2>. QED
    BY <1>1, <1>2, <2>1, <2>4, <2>5, <2>6, <2>7 DEF HasEntry
<1>5. ASSUME NEW r \in Deploys, deploy[r].pc \in Working, DeployFails(r)
      PROVE  WorkInv'
  <2>1. /\ deploy[r].id \in Ids /\ HasEntry(deploy[r].id) /\ "failed" \in Status
        /\ SetState(deploy[r].id, "failed") /\ UNCHANGED <<deployments, mu, stop>> /\ mu = None
        /\ deploy'[r].pc = "done" /\ deploy'[r].id = deploy[r].id
        /\ \A q \in Deploys \ {r} : deploy'[q] = deploy[q]
    BY <1>5 DEF DeployFails, DeployMovesTo, SetState, TypeOK, Status
  <2>2. \A q \in Deploys : deploy[q].pc # "publishing"
    BY <2>1, HandlerAssumption
  <2>. QED
    BY <1>1, <1>2, <1>5, <2>1, <2>2, StatusStep DEF Working
<1>6. ASSUME NEW r \in Deploys, Begin(r)
      PROVE  WorkInv'
  <2>1. /\ deploy[r].id \in Ids /\ HasEntry(deploy[r].id) /\ "building" \in Status
        /\ SetState(deploy[r].id, "building") /\ UNCHANGED <<deployments, mu, stop>> /\ mu = None
        /\ deploy[r].pc = "spawned"
        /\ deploy'[r].pc = "building" /\ deploy'[r].id = deploy[r].id
        /\ \A q \in Deploys \ {r} : deploy'[q] = deploy[q]
    BY <1>6 DEF Begin, DeployMovesTo, SetState, TypeOK, Status, Working
  <2>2. \A q \in Deploys : deploy[q].pc # "publishing"
    BY <2>1, HandlerAssumption
  <2>. QED
    BY <1>1, <1>2, <2>1, <2>2, StatusStep DEF Working
<1>7. ASSUME NEW r \in Deploys, FetchAndBuild(r) \/ RunContainer(r)
      PROVE  WorkInv'
  <2>1. CASE DeployFails(r)
    BY <1>5, <1>7, <2>1 DEF FetchAndBuild, RunContainer, Working
  <2>2. CASE ~DeployFails(r)
    <3>1. /\ UNCHANGED <<deployments, object, mu, stop>>
          /\ deploy[r].pc \in Working
          /\ deploy'[r].pc \in Working \ {"publishing"} /\ deploy'[r].id = deploy[r].id
          /\ \A q \in Deploys \ {r} : deploy'[q] = deploy[q]
      BY <1>7, <2>2 DEF FetchAndBuild, RunContainer, DeployMovesTo, TypeOK, Working
    <3>. QED
      BY <1>1, <1>2, <3>1, QuietStep
  <2>. QED
    BY <2>1, <2>2
<1>8. ASSUME NEW r \in Deploys, PublishStatus(r)
      PROVE  WorkInv'
  <2>1. /\ deploy[r].id \in Ids /\ HasEntry(deploy[r].id) /\ "live" \in Status
        /\ SetState(deploy[r].id, "live") /\ UNCHANGED <<deployments, stop>>
        /\ mu = None /\ mu' = r
        /\ deploy[r].pc = "started"
        /\ deploy'[r].pc = "publishing" /\ deploy'[r].id = deploy[r].id
        /\ \A q \in Deploys \ {r} : deploy'[q] = deploy[q]
    BY <1>8 DEF PublishStatus, DeployMovesTo, SetState, TypeOK, Status, Working
  <2>2. \A q \in Deploys : deploy[q].pc # "publishing"
    BY <2>1, HandlerAssumption
  <2>. QED
    BY <1>1, <1>2, <2>1, <2>2, StatusStep DEF Working
<1>9. ASSUME NEW r \in Deploys, PublishContainer(r)
      PROVE  WorkInv'
  <2> DEFINE id == deploy[r].id
  <2>1. /\ UNCHANGED <<deployments, stop>> /\ deploy[r].pc = "publishing"
        /\ deploy'[r].pc = "done" /\ deploy'[r].id = id
        /\ \A q \in Deploys \ {r} : deploy'[q] = deploy[q]
    BY <1>9 DEF PublishContainer, DeployMovesTo, TypeOK
  <2>2. \A q \in Deploys : object'[q].status = object[q].status
    BY <1>9 DEF PublishContainer, TypeOK, DeploymentState
  <2>3. id \in Ids /\ HasEntry(id) /\ Entry(id).status = "live" /\ mu = r
    BY <2>1 DEF Working
  <2>4. \A q \in Deploys : deploy'[q].pc # "publishing"
    BY <2>1, <2>3
  <2>5. \A i \in Ids : HasEntry(i) => /\ deployments[i] \in Deploys
                                      /\ deploy'[deployments[i]].id = i
                                      /\ deploy'[deployments[i]].pc \notin {"idle", "allocated"}
    BY <2>1 DEF HasEntry, TypeOK
  <2>6. /\ \A q \in Deploys : deploy'[q].pc \in {"allocated"} \cup Working => deploy'[q].id \in Ids
        /\ \A q \in Deploys : deploy'[q].pc \in Working => deployments'[deploy'[q].id] # None
    BY <2>1 DEF HasEntry, Working
  <2>7. InProgressHasWorker'
    <3> SUFFICES ASSUME NEW i \in Ids, HasEntry(i)',
                        object'[deployments'[i]].status \in {"pending", "building"}
                 PROVE  \E q \in Deploys : deploy'[q].id = i /\ deploy'[q].pc \in Working
      BY DEF InProgressHasWorker, Entry, IsWorking, HasEntry
    <3>1. HasEntry(i) /\ Entry(i).status \in {"pending", "building"} /\ i # id
      BY <2>1, <2>2, <2>3, <2>5 DEF HasEntry, Entry
    <3>2. PICK q \in Deploys : deploy[q].id = i /\ deploy[q].pc \in Working
      BY <3>1 DEF InProgressHasWorker, IsWorking
    <3>. QED
      BY <2>1, <3>1, <3>2
  <2>. QED
    BY <1>1, <1>2, <2>1, <2>4, <2>5, <2>6, <2>7 DEF HasEntry
<1>10. ASSUME NEW s \in Stops, HandleStop(s)
       PROVE  WorkInv'
  <2>1. ASSUME ~SetStopped(s)
        PROVE  WorkInv'
    <3>1. UNCHANGED <<deployments, object, mu, deploy>>
      BY <1>10, <2>1 DEF HandleStop, FindDeployment, CheckContainer, DockerStop, DockerRemove
    <3>2. \A t \in Stops : stop'[t].pc \in Stopping => stop'[t].id \in Ids
      BY <1>10, StopHasId
    <3>. QED
      BY <1>1, <3>1, <3>2, QuietStep
  <2>2. ASSUME SetStopped(s)
        PROVE  WorkInv'
    <3>1. /\ stop[s].id \in Ids /\ SetState(stop[s].id, "stopped") /\ mu = None
          /\ UNCHANGED <<deployments, mu, deploy>> /\ "stopped" \in Status
      BY <2>2 DEF SetStopped, SetState, Stopping, Status
    <3>2. \A t \in Stops : stop'[t].pc \in Stopping => stop'[t].id \in Ids
      BY <1>10, StopHasId
    <3>3. \A q \in Deploys : deploy[q].pc # "publishing"
      BY <3>1, HandlerAssumption
    <3>4. CASE HasEntry(stop[s].id)
      BY <1>1, <3>1, <3>2, <3>3, <3>4, StatusStep
    <3>5. CASE ~HasEntry(stop[s].id)
      <4>1. UNCHANGED object
        BY <3>1, <3>5 DEF SetState, HasEntry
      <4>. QED
        BY <1>1, <3>1, <3>2, <4>1, QuietStep
    <3>. QED
      BY <3>4, <3>5
  <2>. QED
    BY <2>1, <2>2
<1>11. CASE Restart
  <2>1. \A id \in Ids : deployments'[id] = None
    BY <1>11 DEF Restart
  <2>2. \A r \in Deploys : deploy'[r].pc \notin {"allocated"} \cup Working
    BY <1>11 DEF Restart, Working, TypeOK
  <2>3. \A s \in Stops : stop'[s].pc \notin Stopping
    <3>1. \A s \in Stops : stop[s] \in [pc: {"idle", "done", "dead"} \cup Stopping,
                                        id: Ids \cup {None}, found: Deploys \cup {None}]
      BY DEF TypeOK
    <3>2. \A s \in Stops : stop'[s].pc = "dead" \/ stop'[s].pc \notin Stopping
      BY <1>11, <3>1 DEF Restart
    <3>. QED
      BY <3>2 DEF Stopping
  <2>. QED
    BY <1>1, <2>1, <2>2, <2>3 DEF HasEntry, InProgressHasWorker, Working
<1>12. ASSUME UNCHANGED <<deployments, object, mu, deploy, stop>>
       PROVE  WorkInv'
  BY <1>1, <1>2, <1>12, QuietStep
<1>. QED
  BY <1>3, <1>4, <1>6, <1>7, <1>8, <1>9, <1>10, <1>11, <1>12
     DEF Next, Goroutine, ContainerCrashes, vars

\* A status that promises more has a goroutine at work on it, for any number of
\* ids and requests, with redeployments, stops, failures and restarts.
THEOREM NoStatusIsLeftBehind == Spec => []InProgressHasWorker
<1>1. WorkInv => InProgressHasWorker
  BY DEF WorkInv
<1>. QED
  BY WorkInit, WorkStep, <1>1, PTL DEF Spec
--------------------------------------------------------------------------------
(***************************************************************************)
(* The status of an entry and the containers of the machine.               *)
(***************************************************************************)

\* A request has an id when it has a port, and mu is held by one that publishes.
HandlersKnown ==
    /\ \A r \in Deploys : IF deploy[r].pc = "idle" THEN deploy[r].id = None
                                                 ELSE deploy[r].id \in Ids
    /\ mu # None => mu \in Deploys /\ deploy[mu].pc = "publishing"
    /\ \A s \in Stops : stop[s].pc \in Stopping =>
         /\ stop[s].found \in Deploys
         /\ deploy[stop[s].found].id = stop[s].id
         /\ deploy[stop[s].found].pc \notin {"idle", "allocated"}

\* The container an object records is of a request for the same id, whose
\* goroutine has ended.
ObjectsKnown ==
    /\ \A o \in Deploys : deploy[o].pc \in {"idle", "allocated"} => object[o].container = None
    /\ \A o \in Deploys : object[o].container # None =>
         /\ deploy[object[o].container].id = deploy[o].id
         /\ deploy[object[o].container].pc \in {"done", "dead"}
    /\ \A id \in Ids : HasEntry(id) => Entry(id).port = deploy[deployments[id]].port

\* A container is started by its own goroutine, and not taken down before that has
\* made it known.
Started ==
    \A r \in Deploys :
      /\ deploy[r].pc \in {"idle", "allocated", "spawned", "building", "built"}
           => container[r] = "none"
      /\ deploy[r].pc = "started" => container[r] \in {"running", "crashed"}

LifeInv ==
    /\ WorkInv /\ HandlersKnown /\ ObjectsKnown /\ Started
    /\ LiveIsNotTakenDown /\ ContainersAreKnown

LEMMA LifeInit == Init => LifeInv
<1> SUFFICES ASSUME Init
             PROVE  LifeInv
  OBVIOUS
<1>1. /\ \A id \in Ids : ~HasEntry(id)
      /\ \A r \in Deploys : /\ deploy[r].pc = "idle" /\ deploy[r].id = None
                            /\ object[r].container = None /\ container[r] = "none"
      /\ \A s \in Stops : stop[s].pc = "idle"
      /\ mu = None
  BY DEF Init, HasEntry, NoState
<1>. QED
  BY <1>1, WorkInit
     DEF LifeInv, HandlersKnown, ObjectsKnown, Started, LiveIsNotTakenDown, ContainersAreKnown, Stopping

\* The types and the shape of the map, as the steps use them.
LEMMA MapFacts ==
    ASSUME WorkInv
    PROVE  /\ deployments \in [Ids -> Deploys \cup {None}]
           /\ object \in [Deploys -> DeploymentState]
           /\ deploy \in [Deploys -> [pc: {"idle", "allocated", "done", "dead"} \cup Working,
                                      id: Ids \cup {None}, port: 0..portMax]]
           /\ stop \in [Stops -> [pc: {"idle", "done", "dead"} \cup Stopping,
                                  id: Ids \cup {None}, found: Deploys \cup {None}]]
           /\ container \in [Deploys -> {"none", "running", "crashed", "exited", "removed"}]
           /\ \A id \in Ids : HasEntry(id) =>
                /\ deployments[id] \in Deploys /\ deploy[deployments[id]].id = id
                /\ deploy[deployments[id]].pc \notin {"idle", "allocated"}
           /\ \A r \in Deploys : deploy[r].pc \in Working =>
                deploy[r].id \in Ids /\ HasEntry(deploy[r].id)
           /\ \A r \in Deploys : deploy[r].pc = "publishing" => mu = r
           /\ \A r \in Deploys : deploy[r].pc = "allocated" => deploy[r].id \in Ids
           /\ None \notin Deploys /\ None \notin Ids
  BY HandlerAssumption DEF WorkInv, TypeOK, HasEntry

\* What a step may do to a request: once it has an id it keeps it, with its port;
\* it never goes back, and where it ended it stays.
RequestsGoOn ==
    \A q \in Deploys :
      /\ deploy[q].pc # "idle" =>
           /\ deploy'[q].id = deploy[q].id /\ deploy'[q].port = deploy[q].port
           /\ deploy'[q].pc # "idle"
      /\ deploy'[q].pc = "idle" => deploy'[q] = deploy[q]
      /\ deploy[q].pc = "idle" => deploy'[q].pc \in {"idle", "allocated"}
      /\ deploy[q].pc \in {"done", "dead"} => deploy'[q] = deploy[q]
      /\ deploy'[q].pc \in {"idle", "allocated"} => deploy[q].pc \in {"idle", "allocated"}

\* A goroutine that moves on.
LEMMA GoesOn ==
    ASSUME WorkInv, NEW r \in Deploys, NEW pc \in {"done"} \cup Working, DeployMovesTo(r, pc),
           deploy[r].pc \in {"allocated"} \cup Working
    PROVE  /\ RequestsGoOn
           /\ deploy'[r].pc = pc /\ deploy'[r].id = deploy[r].id /\ deploy'[r].port = deploy[r].port
           /\ \A q \in Deploys \ {r} : deploy'[q] = deploy[q]
<1>1. deploy \in [Deploys -> [pc: {"idle", "allocated", "done", "dead"} \cup Working,
                              id: Ids \cup {None}, port: 0..portMax]]
  BY MapFacts
<1>2. /\ deploy'[r].pc = pc /\ deploy'[r].id = deploy[r].id /\ deploy'[r].port = deploy[r].port
      /\ \A q \in Deploys \ {r} : deploy'[q] = deploy[q]
  BY <1>1 DEF DeployMovesTo
<1>. QED
  BY <1>2 DEF RequestsGoOn, Working

\* What setState leaves alone.
LEMMA SetStateKeeps ==
    ASSUME WorkInv, NEW id \in Ids, NEW status \in Status, SetState(id, status)
    PROVE  /\ mu = None
           /\ \A o \in Deploys : /\ object'[o].container = object[o].container
                                 /\ object'[o].port = object[o].port
           /\ \A o \in Deploys : o # deployments[id] => object'[o] = object[o]
           /\ HasEntry(id) => object'[deployments[id]].status = status
<1>1. object \in [Deploys -> DeploymentState] /\ (HasEntry(id) => deployments[id] \in Deploys)
  BY MapFacts
<1>. QED
  BY <1>1 DEF SetState, HasEntry, DeploymentState

LEMMA RequestsStep ==
    ASSUME WorkInv, [Next]_vars
    PROVE  RequestsGoOn
<1>1. deploy \in [Deploys -> [pc: {"idle", "allocated", "done", "dead"} \cup Working,
                              id: Ids \cup {None}, port: 0..portMax]]
  BY MapFacts
<1>2. ASSUME NEW r \in Deploys, NEW id \in Ids, NEW p \in 1..portMax, AllocatePort(r, id, p)
      PROVE  RequestsGoOn
  BY <1>1, <1>2 DEF AllocatePort, RequestsGoOn
<1>3. ASSUME NEW r \in Deploys, Register(r) \/ Goroutine(r)
      PROVE  RequestsGoOn
  <2>1. CASE Register(r)
    BY <2>1, GoesOn DEF Register, Working
  <2>2. CASE Begin(r)
    BY <2>2, GoesOn DEF Begin, Working
  <2>3. CASE FetchAndBuild(r)
    BY <2>3, GoesOn DEF FetchAndBuild, DeployFails, Working
  <2>4. CASE RunContainer(r)
    BY <2>4, GoesOn DEF RunContainer, DeployFails, Working
  <2>5. CASE PublishStatus(r)
    BY <2>5, GoesOn DEF PublishStatus, Working
  <2>6. CASE PublishContainer(r)
    BY <2>6, GoesOn DEF PublishContainer, Working
  <2>. QED
    BY <1>3, <2>1, <2>2, <2>3, <2>4, <2>5, <2>6 DEF Goroutine
<1>4. CASE Restart
  BY <1>1, <1>4 DEF Restart, RequestsGoOn, Working
<1>5. ASSUME UNCHANGED deploy
      PROVE  RequestsGoOn
  BY <1>5 DEF RequestsGoOn
<1>. QED
  BY <1>2, <1>3, <1>4, <1>5
     DEF Next, HandleStop, FindDeployment, CheckContainer, DockerStop, DockerRemove,
         SetStopped, ContainerCrashes, vars

\* mu is taken for the two writes only, and a stop goes on with what it found.
LEMMA HandlersStep ==
    ASSUME WorkInv, HandlersKnown, [Next]_vars
    PROVE  HandlersKnown'
<1>1. RequestsGoOn
  BY RequestsStep
<1>2. ASSUME NEW r \in Deploys
      PROVE  IF deploy'[r].pc = "idle" THEN deploy'[r].id = None ELSE deploy'[r].id \in Ids
  <2>1. CASE deploy'[r].pc = "idle"
    BY <1>1, <2>1 DEF RequestsGoOn, HandlersKnown
  <2>2. CASE deploy'[r].pc = "allocated"
    BY <2>2, WorkStep DEF WorkInv
  <2>3. CASE deploy'[r].pc \notin {"idle", "allocated"}
    BY <1>1, <2>3 DEF RequestsGoOn, HandlersKnown
  <2>. QED
    BY <2>1, <2>2, <2>3
<1>3. mu' # None => mu' \in Deploys /\ deploy'[mu'].pc = "publishing"
  <2>1. deploy \in [Deploys -> [pc: {"idle", "allocated", "done", "dead"} \cup Working,
                                id: Ids \cup {None}, port: 0..portMax]]
    BY MapFacts
  <2>2. ASSUME UNCHANGED mu, NEW r \in Deploys, deploy[r].pc # "publishing",
               \A q \in Deploys \ {r} : deploy'[q] = deploy[q]
        PROVE  mu' # None => mu' \in Deploys /\ deploy'[mu'].pc = "publishing"
    BY <2>2 DEF HandlersKnown
  <2>3. ASSUME NEW r \in Deploys, NEW id \in Ids, NEW p \in 1..portMax, AllocatePort(r, id, p)
        PROVE  mu' # None => mu' \in Deploys /\ deploy'[mu'].pc = "publishing"
    BY <2>1, <2>2, <2>3 DEF AllocatePort
  <2>4. ASSUME NEW r \in Deploys, FetchAndBuild(r) \/ RunContainer(r)
        PROVE  mu' # None => mu' \in Deploys /\ deploy'[mu'].pc = "publishing"
    BY <2>1, <2>2, <2>4 DEF FetchAndBuild, RunContainer, DeployFails, DeployMovesTo
  <2>5. ASSUME NEW r \in Deploys, PublishStatus(r)
        PROVE  mu' # None => mu' \in Deploys /\ deploy'[mu'].pc = "publishing"
    BY <2>1, <2>5 DEF PublishStatus, DeployMovesTo
  <2>6. ASSUME mu' = None
        PROVE  mu' # None => mu' \in Deploys /\ deploy'[mu'].pc = "publishing"
    BY <2>6
  <2>7. ASSUME UNCHANGED <<mu, deploy>>
        PROVE  mu' # None => mu' \in Deploys /\ deploy'[mu'].pc = "publishing"
    BY <2>7 DEF HandlersKnown
  <2>. QED
    BY <2>3, <2>4, <2>5, <2>6, <2>7
       DEF Next, Goroutine, Register, Begin, SetState, PublishContainer, Restart, HandleStop,
           FindDeployment, CheckContainer, DockerStop, DockerRemove, SetStopped,
           ContainerCrashes, vars
<1>4. \A s \in Stops : stop'[s].pc \in Stopping =>
        /\ stop'[s].found \in Deploys
        /\ deploy'[stop'[s].found].id = stop'[s].id
        /\ deploy'[stop'[s].found].pc \notin {"idle", "allocated"}
  <2> DEFINE Knows(s) == /\ stop'[s].found \in Deploys
                         /\ deploy'[stop'[s].found].id = stop'[s].id
                         /\ deploy'[stop'[s].found].pc \notin {"idle", "allocated"}
  <2> SUFFICES ASSUME NEW s \in Stops, stop'[s].pc \in Stopping
               PROVE  Knows(s)
    OBVIOUS
  <2>1. stop \in [Stops -> [pc: {"idle", "done", "dead"} \cup Stopping,
                            id: Ids \cup {None}, found: Deploys \cup {None}]]
    BY MapFacts
  <2>2. ASSUME stop[s].pc \in Stopping, stop'[s].found = stop[s].found, stop'[s].id = stop[s].id
        PROVE  Knows(s)
    BY <1>1, <2>2 DEF HandlersKnown, RequestsGoOn
  <2>3. ASSUME NEW t \in Stops, NEW id \in Ids, FindDeployment(t, id)
        PROVE  Knows(s)
    <3>1. CASE s = t
      BY <2>1, <2>3, <3>1, MapFacts DEF FindDeployment, HasEntry
    <3>2. CASE s # t
      BY <2>1, <2>2, <2>3, <3>2 DEF FindDeployment
    <3>. QED
      BY <3>1, <3>2
  <2>4. ASSUME NEW t \in Stops, NEW pc, StopMovesTo(t, pc), stop[t].pc \in Stopping
        PROVE  Knows(s)
    BY <2>1, <2>2, <2>4 DEF StopMovesTo
  <2>5. ASSUME NEW t \in Stops, CheckContainer(t) \/ DockerStop(t) \/ DockerRemove(t) \/ SetStopped(t)
        PROVE  Knows(s)
    BY <2>4, <2>5 DEF CheckContainer, DockerStop, DockerRemove, SetStopped, Stopping
  <2>6. CASE Restart
    <3>1. CASE stop[s].pc \in Stopping
      <4>1. stop'[s].pc = "dead"
        BY <2>1, <2>6, <3>1 DEF Restart
      <4>. QED
        BY <4>1 DEF Stopping
    <3>2. CASE stop[s].pc \notin Stopping
      BY <2>6, <3>2 DEF Restart
    <3>. QED
      BY <3>1, <3>2
  <2>7. ASSUME UNCHANGED stop
        PROVE  Knows(s)
    BY <2>2, <2>7
  <2> HIDE DEF Knows
  <2>. QED
    BY <2>3, <2>5, <2>6, <2>7
       DEF Next, AllocatePort, Register, Goroutine, Begin, FetchAndBuild, RunContainer,
           DeployFails, PublishStatus, PublishContainer, HandleStop, ContainerCrashes, vars
<1>. QED
  BY <1>2, <1>3, <1>4 DEF HandlersKnown

\* A step that writes no container and no port keeps what the objects record.
LEMMA ObjectsQuiet ==
    ASSUME WorkInv, ObjectsKnown, RequestsGoOn,
           \A o \in Deploys : /\ object'[o].container = object[o].container
                              /\ object'[o].port = object[o].port,
           \A id \in Ids : deployments'[id] \in {deployments[id], None}
    PROVE  ObjectsKnown'
<1>1. \A o \in Deploys : object[o].container \in Deploys \cup {None}
  BY MapFacts DEF DeploymentState
<1>2. \A o \in Deploys : deploy'[o].pc \in {"idle", "allocated"} => object'[o].container = None
  BY DEF ObjectsKnown, RequestsGoOn
<1>3. ASSUME NEW o \in Deploys, object'[o].container # None
      PROVE  /\ deploy'[object'[o].container].id = deploy'[o].id
             /\ deploy'[object'[o].container].pc \in {"done", "dead"}
  <2>1. object'[o].container = object[o].container /\ object[o].container \in Deploys
    BY <1>1, <1>3
  <2>2. deploy'[object[o].container] = deploy[object[o].container]
    BY <2>1, <1>3 DEF ObjectsKnown, RequestsGoOn
  <2>3. deploy'[o].id = deploy[o].id
    BY <2>1, <1>3 DEF ObjectsKnown, RequestsGoOn
  <2>. QED
    BY <2>1, <2>2, <2>3, <1>3 DEF ObjectsKnown
<1>4. ASSUME NEW id \in Ids, HasEntry(id)'
      PROVE  object'[deployments'[id]].port = deploy'[deployments'[id]].port
  <2>1. deployments'[id] = deployments[id] /\ HasEntry(id)
    BY <1>4 DEF HasEntry
  <2>. QED
    BY <2>1, MapFacts DEF ObjectsKnown, RequestsGoOn, Entry
<1>. QED
  BY <1>2, <1>3, <1>4 DEF ObjectsKnown, Entry

LEMMA ObjectsStep ==
    ASSUME WorkInv, HandlersKnown, ObjectsKnown, [Next]_vars
    PROVE  ObjectsKnown'
<1>1. RequestsGoOn
  BY RequestsStep
<1>2. ASSUME UNCHANGED <<deployments, object>>
      PROVE  ObjectsKnown'
  BY <1>1, <1>2, ObjectsQuiet
<1>3. ASSUME NEW id \in Ids, NEW status \in Status, SetState(id, status), UNCHANGED deployments
      PROVE  ObjectsKnown'
  BY <1>1, <1>3, SetStateKeeps, ObjectsQuiet
<1>4. ASSUME NEW r \in Deploys, Register(r)
      PROVE  ObjectsKnown'
  <2>1. /\ deploy[r].pc = "allocated" /\ deploy[r].id \in Ids
        /\ deployments'[deploy[r].id] = r
        /\ \A i \in Ids \ {deploy[r].id} : deployments'[i] = deployments[i]
        /\ object'[r].container = None /\ object'[r].port = deploy[r].port
        /\ \A o \in Deploys \ {r} : object'[o] = object[o]
        /\ deploy'[r].id = deploy[r].id /\ deploy'[r].port = deploy[r].port
        /\ \A q \in Deploys \ {r} : deploy'[q] = deploy[q]
        /\ deploy'[r].pc = "spawned"
    BY <1>4, MapFacts, GoesOn DEF Register, NewState, Working
  <2>2. \A o \in Deploys : object[o].container \in Deploys \cup {None}
    BY MapFacts DEF DeploymentState
  <2>3. \A o \in Deploys : deploy'[o].pc \in {"idle", "allocated"} => object'[o].container = None
    BY <2>1 DEF ObjectsKnown
  <2>4. ASSUME NEW o \in Deploys, object'[o].container # None
        PROVE  /\ deploy'[object'[o].container].id = deploy'[o].id
               /\ deploy'[object'[o].container].pc \in {"done", "dead"}
    <3>1. o # r /\ object'[o] = object[o] /\ object[o].container \in Deploys
      BY <2>1, <2>2, <2>4
    <3>2. object[o].container # r
      BY <2>1, <2>4, <3>1 DEF ObjectsKnown
    <3>. QED
      BY <2>1, <2>4, <3>1, <3>2 DEF ObjectsKnown
  <2>5. ASSUME NEW id \in Ids, HasEntry(id)'
        PROVE  object'[deployments'[id]].port = deploy'[deployments'[id]].port
    <3>1. CASE id = deploy[r].id
      BY <2>1, <3>1
    <3>2. CASE id # deploy[r].id
      <4>1. deployments'[id] = deployments[id] /\ HasEntry(id) /\ deployments[id] # r
        BY <2>1, <2>5, <3>2, MapFacts DEF HasEntry
      <4>. QED
        BY <2>1, <4>1, MapFacts DEF ObjectsKnown, Entry
    <3>. QED
      BY <3>1, <3>2
  <2>. QED
    BY <2>3, <2>4, <2>5 DEF ObjectsKnown, Entry
<1>5. ASSUME NEW r \in Deploys, PublishContainer(r)
      PROVE  ObjectsKnown'
  <2> DEFINE e == deployments[deploy[r].id]
  <2>1. /\ deploy[r].id \in Ids /\ e \in Deploys /\ deploy[e].id = deploy[r].id
        /\ deploy[e].pc \notin {"idle", "allocated"} /\ deploy[r].pc = "publishing"
    BY <1>5, MapFacts DEF PublishContainer, Working
  <2>2. /\ deploy'[r].pc = "done" /\ \A q \in Deploys : deploy'[q].id = deploy[q].id
                                                     /\ deploy'[q].port = deploy[q].port
        /\ \A q \in Deploys \ {r} : deploy'[q] = deploy[q]
    BY <1>5, GoesOn DEF PublishContainer, Working
  <2>3. /\ object'[e].container = r /\ \A o \in Deploys \ {e} : object'[o] = object[o]
        /\ \A o \in Deploys : object'[o].port = object[o].port
    BY <1>5, <2>1, MapFacts DEF PublishContainer, DeploymentState
  <2>4. \A o \in Deploys : deploy'[o].pc \in {"idle", "allocated"} => object'[o].container = None
    BY <2>1, <2>2, <2>3 DEF ObjectsKnown
  <2>5. \A o \in Deploys : object[o].container \in Deploys \cup {None}
    BY MapFacts DEF DeploymentState
  <2>6. ASSUME NEW o \in Deploys, object'[o].container # None
        PROVE  /\ deploy'[object'[o].container].id = deploy'[o].id
               /\ deploy'[object'[o].container].pc \in {"done", "dead"}
    <3>1. CASE o = e
      BY <2>1, <2>2, <2>3, <3>1
    <3>2. CASE o # e
      <4>1. object[o].container \in Deploys /\ object'[o] = object[o]
        BY <2>3, <2>5, <2>6, <3>2
      <4>2. object[o].container # r
        BY <2>1, <2>6, <4>1 DEF ObjectsKnown
      <4>. QED
        BY <2>2, <2>6, <4>1, <4>2 DEF ObjectsKnown
    <3>. QED
      BY <3>1, <3>2
  <2>7. \A id \in Ids : HasEntry(id)' =>
          object'[deployments'[id]].port = deploy'[deployments'[id]].port
    <3>1. deployments' = deployments
      BY <1>5 DEF PublishContainer
    <3>. QED
      BY <2>2, <2>3, <3>1, MapFacts DEF HasEntry, ObjectsKnown, Entry
  <2>. QED
    BY <2>4, <2>6, <2>7 DEF ObjectsKnown, Entry
<1>6. ASSUME NEW r \in Deploys, DeployFails(r), deploy[r].pc \in Working
      PROVE  ObjectsKnown'
  BY <1>3, <1>6, MapFacts DEF DeployFails, Status
<1>7. ASSUME NEW r \in Deploys, Goroutine(r), ~PublishContainer(r)
      PROVE  ObjectsKnown'
  <2>1. CASE Begin(r)
    BY <1>3, <2>1, MapFacts DEF Begin, Status, Working
  <2>2. CASE FetchAndBuild(r)
    BY <1>2, <1>6, <2>2 DEF FetchAndBuild, Working
  <2>3. CASE RunContainer(r)
    BY <1>2, <1>6, <2>3 DEF RunContainer, Working
  <2>4. CASE PublishStatus(r)
    BY <1>3, <2>4, MapFacts DEF PublishStatus, Status, Working
  <2>. QED
    BY <1>7, <2>1, <2>2, <2>3, <2>4 DEF Goroutine
<1>8. ASSUME NEW s \in Stops, HandleStop(s)
      PROVE  ObjectsKnown'
  <2>1. CASE SetStopped(s)
    <3>1. stop[s].id \in Ids
      BY <2>1 DEF SetStopped, WorkInv, Stopping
    <3>. QED
      BY <1>3, <2>1, <3>1 DEF SetStopped, Status
  <2>. QED
    BY <1>2, <1>8, <2>1
       DEF HandleStop, FindDeployment, CheckContainer, DockerStop, DockerRemove
<1>9. CASE Restart
  BY <1>1, <1>9, ObjectsQuiet DEF Restart
<1>10. ASSUME UNCHANGED vars \/ \E r \in Deploys : ContainerCrashes(r)
       PROVE  ObjectsKnown'
  BY <1>2, <1>10 DEF ContainerCrashes, vars
<1>11. ASSUME NEW r \in Deploys, NEW id \in Ids, NEW p \in 1..portMax, AllocatePort(r, id, p)
       PROVE  ObjectsKnown'
  BY <1>2, <1>11 DEF AllocatePort
<1>. QED
  BY <1>4, <1>5, <1>7, <1>8, <1>9, <1>10, <1>11 DEF Next

\* The container a stop reads is of a request for its id, and runs or has run.
LEMMA ReadKnown ==
    ASSUME WorkInv, HandlersKnown, ObjectsKnown, NEW s \in Stops, stop[s].pc \in Stopping,
           NEW c \in ContainerRead(stop[s].found) \ {None}
    PROVE  /\ c \in Deploys /\ deploy[c].id = stop[s].id
           /\ deploy[c].pc \in {"publishing", "done", "dead"}
<1>1. stop[s].found \in Deploys /\ deploy[stop[s].found].id = stop[s].id
  BY DEF HandlersKnown
<1>2. object[stop[s].found].container \in Deploys \cup {None}
  BY <1>1, MapFacts DEF DeploymentState
<1>3. CASE c = object[stop[s].found].container
  BY <1>1, <1>2, <1>3 DEF ObjectsKnown
<1>4. CASE c \in Deploys /\ mu = c /\ deployments[deploy[c].id] = stop[s].found
  <2>1. deploy[c].pc = "publishing"
    BY <1>4, MapFacts DEF HandlersKnown
  <2>2. deploy[c].id \in Ids /\ HasEntry(deploy[c].id)
    BY <1>4, <2>1, MapFacts DEF Working
  <2>. QED
    BY <1>1, <1>4, <2>1, <2>2, MapFacts
<1>. QED
  BY <1>3, <1>4 DEF ContainerRead

\* No step takes a container down that its goroutine has not made known.
LEMMA StartedStep ==
    ASSUME WorkInv, HandlersKnown, ObjectsKnown, Started, [Next]_vars
    PROVE  Started'
<1> DEFINE Early == {"idle", "allocated", "spawned", "building", "built"}
<1>1. RequestsGoOn
  BY RequestsStep
<1>2. container \in [Deploys -> {"none", "running", "crashed", "exited", "removed"}]
  BY MapFacts
<1>3. ASSUME NEW q \in Deploys, container'[q] = container[q],
             deploy'[q].pc \in Early => deploy[q].pc \in Early,
             deploy'[q].pc = "started" => deploy[q].pc = "started"
      PROVE  /\ deploy'[q].pc \in Early => container'[q] = "none"
             /\ deploy'[q].pc = "started" => container'[q] \in {"running", "crashed"}
  BY <1>3 DEF Started
<1>4. ASSUME UNCHANGED container, NEW r \in Deploys, NEW pc \in {"done"} \cup Working,
             DeployMovesTo(r, pc), deploy[r].pc \in {"allocated"} \cup Working,
             pc \in Early => deploy[r].pc \in Early, pc # "started"
      PROVE  Started'
  <2>1. /\ deploy'[r].pc = pc
        /\ \A q \in Deploys \ {r} : deploy'[q] = deploy[q]
    BY <1>4, GoesOn
  <2>. QED
    BY <1>3, <1>4, <2>1 DEF Started
<1>5. ASSUME NEW r \in Deploys, NEW id \in Ids, NEW p \in 1..portMax, AllocatePort(r, id, p)
      PROVE  Started'
  <2>1. /\ deploy[r].pc = "idle" /\ deploy'[r].pc = "allocated" /\ container' = container
        /\ \A q \in Deploys \ {r} : deploy'[q] = deploy[q]
    BY <1>5, MapFacts DEF AllocatePort
  <2>. QED
    BY <1>3, <2>1 DEF Started
<1>6. ASSUME NEW r \in Deploys, DeployFails(r), deploy[r].pc \in Working
      PROVE  Started'
  BY <1>4, <1>6 DEF DeployFails
<1>7. ASSUME NEW r \in Deploys, Register(r) \/ Goroutine(r)
      PROVE  Started'
  <2>1. CASE Register(r)
    BY <1>4, <2>1 DEF Register, Working
  <2>2. CASE Begin(r)
    BY <1>4, <2>2 DEF Begin, Working
  <2>3. CASE FetchAndBuild(r)
    BY <1>4, <1>6, <2>3 DEF FetchAndBuild, Working
  <2>4. CASE RunContainer(r)
    <3>1. ASSUME deploy[r].pc = "built", container' = [container EXCEPT ![r] = "running"],
                 DeployMovesTo(r, "started")
          PROVE  Started'
      <4>1. /\ deploy'[r].pc = "started" /\ container'[r] = "running"
            /\ \A q \in Deploys \ {r} : deploy'[q] = deploy[q] /\ container'[q] = container[q]
        BY <1>2, <3>1, GoesOn DEF Working
      <4>. QED
        BY <4>1 DEF Started
    <3>. QED
      BY <1>6, <2>4, <3>1 DEF RunContainer, Working
  <2>5. CASE PublishStatus(r)
    BY <1>4, <2>5 DEF PublishStatus, Working
  <2>6. CASE PublishContainer(r)
    BY <1>4, <2>6 DEF PublishContainer, Working
  <2>. QED
    BY <1>7, <2>1, <2>2, <2>3, <2>4, <2>5, <2>6 DEF Goroutine
<1>8. ASSUME NEW s \in Stops, HandleStop(s)
      PROVE  Started'
  <2>1. ASSUME DockerStop(s) \/ DockerRemove(s)
        PROVE  Started'
    <3>1. stop[s].pc \in Stopping /\ deploy' = deploy
      BY <2>1 DEF DockerStop, DockerRemove, Stopping
    <3>2. PICK c \in ContainerRead(stop[s].found) \ {None} :
            \A q \in Deploys \ {c} : container'[q] = container[q]
      BY <1>2, <2>1 DEF DockerStop, DockerRemove
    <3>3. deploy[c].pc \in {"publishing", "done", "dead"} /\ c \in Deploys
      BY <3>1, <3>2, ReadKnown
    <3>. QED
      BY <3>1, <3>2, <3>3 DEF Started
  <2>. QED
    BY <1>8, <2>1 DEF HandleStop, FindDeployment, CheckContainer, SetStopped, Started
<1>9. CASE Restart
  <2>1. \A q \in Deploys : deploy'[q].pc \in Early \cup {"started"} => deploy'[q] = deploy[q]
    BY <1>9, MapFacts DEF Restart
  <2>. QED
    BY <1>9, <2>1 DEF Restart, Started
<1>10. ASSUME NEW r \in Deploys, ContainerCrashes(r)
       PROVE  Started'
  <2>1. /\ container[r] = "running" /\ container'[r] = "crashed" /\ deploy' = deploy
        /\ \A q \in Deploys \ {r} : container'[q] = container[q]
    BY <1>2, <1>10 DEF ContainerCrashes
  <2>. QED
    BY <2>1 DEF Started
<1>11. CASE UNCHANGED vars
  BY <1>11 DEF vars, Started
<1>. QED
  BY <1>5, <1>7, <1>8, <1>9, <1>10, <1>11 DEF Next

\* An id that was deployed once has one request, and had it before the step.
LEMMA OnceSame ==
    ASSUME NEW id, DeployedOnce(id), NEW q \in Deploys, NEW r \in Deploys,
           deploy[q].id = id, deploy[r].id = id
    PROVE  q = r
  BY DEF DeployedOnce

LEMMA OnceBefore ==
    ASSUME WorkInv, HandlersKnown, RequestsGoOn, NEW id \in Ids, DeployedOnce(id)',
           NEW r \in Deploys, deploy[r].id = id
    PROVE  DeployedOnce(id)
<1>1. \A q \in Deploys : deploy[q].id = id => deploy'[q].id = id
  BY MapFacts DEF HandlersKnown, RequestsGoOn
<1>2. \A q \in Deploys : deploy[q].id = id => q = r
  BY <1>1 DEF DeployedOnce
<1>. QED
  BY <1>2 DEF DeployedOnce

\* A stop of the id that has reached docker stop, and has not yet set the status.
IsStopping(s, id) == stop[s].id = id /\ stop[s].pc \in {"docker rm", "removed"}

\* A container that was started and that no stop has taken down.
Stands(r) == container[r] \in {"running", "crashed"}

LEMMA LiveStep ==
    ASSUME WorkInv, HandlersKnown, ObjectsKnown, Started, LiveIsNotTakenDown, [Next]_vars
    PROVE  LiveIsNotTakenDown'
<1> SUFFICES ASSUME NEW id \in Ids, DeployedOnce(id)', HasEntry(id)', Entry(id)'.status = "live"
             PROVE  \/ container'[deployments'[id]] \in {"running", "crashed"}
                    \/ \E s \in Stops : IsStopping(s, id)'
  BY DEF LiveIsNotTakenDown, IsStopping
<1> DEFINE Goal == \/ container'[deployments'[id]] \in {"running", "crashed"}
                   \/ \E s \in Stops : IsStopping(s, id)'
<1>1. RequestsGoOn
  BY RequestsStep
<1>2. container \in [Deploys -> {"none", "running", "crashed", "exited", "removed"}]
  BY MapFacts
\* The entry was there before and live, and what speaks for it still does.
<1>3. ASSUME HasEntry(id), deployments'[id] = deployments[id], Entry(id).status = "live",
             Stands(deployments[id]) => Stands(deployments[id])',
             \A s \in Stops : IsStopping(s, id) => IsStopping(s, id)'
      PROVE  Goal
  <2>1. DeployedOnce(id)
    BY <1>1, <1>3, MapFacts, OnceBefore
  <2>. QED
    BY <1>3, <2>1 DEF LiveIsNotTakenDown, IsStopping, Stands
<1>4. ASSUME UNCHANGED <<deployments, object, container, stop>>
      PROVE  Goal
  BY <1>3, <1>4 DEF HasEntry, Entry, IsStopping, Stands
<1>5. ASSUME NEW i \in Ids, NEW status \in Status \ {"live"}, SetState(i, status),
             UNCHANGED <<deployments, container>>,
             \A s \in Stops : stop[s].id # i => stop'[s] = stop[s]
      PROVE  Goal
  <2>1. HasEntry(id) /\ Entry(id)' = object'[deployments[id]]
    BY <1>5 DEF HasEntry, Entry
  <2>2. id # i
    BY <1>5, <2>1, SetStateKeeps
  <2>3. Entry(id)' = Entry(id)
    BY <1>5, <2>1, <2>2, SetStateKeeps, MapFacts DEF Entry, HasEntry
  <2>4. \A s \in Stops : IsStopping(s, id) => IsStopping(s, id)'
    BY <1>5, <2>2 DEF IsStopping
  <2>. QED
    BY <1>3, <1>5, <2>1, <2>3, <2>4 DEF Stands
<1> HIDE DEF Goal
<1>6. ASSUME NEW r \in Deploys, Register(r)
      PROVE  Goal
  <2>1. /\ deploy[r].pc = "allocated" /\ deploy[r].id \in Ids
        /\ deployments'[deploy[r].id] = r
        /\ \A i \in Ids \ {deploy[r].id} : deployments'[i] = deployments[i]
        /\ object'[r].status = "pending"
        /\ \A o \in Deploys \ {r} : object'[o] = object[o]
    BY <1>6, MapFacts DEF Register, NewState
  <2>2. id # deploy[r].id
    BY <2>1 DEF Entry
  <2>3. deployments'[id] = deployments[id] /\ HasEntry(id) /\ deployments[id] # r
    BY <2>1, <2>2, MapFacts DEF HasEntry
  <2>4. Entry(id).status = "live"
    BY <2>1, <2>3, MapFacts DEF Entry, HasEntry
  <2>. QED
    BY <1>3, <1>6, <2>3, <2>4 DEF Register, IsStopping, Stands
<1>7. ASSUME NEW r \in Deploys, DeployFails(r), deploy[r].pc \in Working
      PROVE  Goal
  BY <1>5, <1>7, MapFacts DEF DeployFails, Status
<1>8. ASSUME NEW r \in Deploys, Goroutine(r)
      PROVE  Goal
  <2>1. CASE Begin(r)
    BY <1>5, <2>1, MapFacts DEF Begin, Status, Working
  <2>2. CASE FetchAndBuild(r)
    BY <1>4, <1>7, <2>2 DEF FetchAndBuild, Working
  <2>3. CASE RunContainer(r)
    <3>1. ASSUME container' = [container EXCEPT ![r] = "running"],
                 UNCHANGED <<deployments, object, mu, stop, restarts>>
          PROVE  Goal
      <4>1. \A q \in Deploys : Stands(q) => Stands(q)'
        BY <1>2, <3>1 DEF Stands
      <4>. QED
        BY <1>3, <3>1, <4>1, MapFacts DEF HasEntry, Entry, IsStopping
    <3>. QED
      BY <1>7, <2>3, <3>1 DEF RunContainer, Working
  <2>4. CASE PublishStatus(r)
    <3>1. /\ deploy[r].id \in Ids /\ SetState(deploy[r].id, "live") /\ "live" \in Status
          /\ Stands(r) /\ UNCHANGED <<deployments, container, stop>>
      BY <2>4, MapFacts DEF PublishStatus, Working, Status, Started, Stands
    <3>2. HasEntry(id) /\ deployments[id] \in Deploys
      BY <3>1, MapFacts DEF HasEntry
    <3>3. CASE id = deploy[r].id
      <4>1. deployments[id] = r
        BY <1>1, <3>2, <3>3, MapFacts, OnceBefore, OnceSame
      <4>. QED
        BY <3>1, <4>1 DEF Goal, Stands
    <3>4. CASE id # deploy[r].id
      <4>1. deployments[id] # deployments[deploy[r].id]
        BY <3>1, <3>2, <3>4, MapFacts DEF HasEntry
      <4>2. Entry(id)' = Entry(id)
        BY <3>1, <3>2, <4>1, SetStateKeeps DEF Entry
      <4>. QED
        BY <1>3, <3>1, <3>2, <4>2 DEF IsStopping, Stands
    <3>. QED
      BY <3>3, <3>4
  <2>5. CASE PublishContainer(r)
    <3>1. \A o \in Deploys : object'[o].status = object[o].status
      BY <2>5, MapFacts DEF PublishContainer, DeploymentState
    <3>2. HasEntry(id) /\ deployments'[id] = deployments[id] /\ deployments[id] \in Deploys
      BY <2>5, MapFacts DEF PublishContainer, HasEntry
    <3>. QED
      BY <1>3, <2>5, <3>1, <3>2 DEF PublishContainer, IsStopping, Entry, Stands
  <2>. QED
    BY <1>8, <2>1, <2>2, <2>3, <2>4, <2>5 DEF Goroutine
<1>9. ASSUME NEW t \in Stops, HandleStop(t)
      PROVE  Goal
  <2>1. stop \in [Stops -> [pc: {"idle", "done", "dead"} \cup Stopping,
                            id: Ids \cup {None}, found: Deploys \cup {None}]]
    BY MapFacts
  \* A step that leaves the containers alone, of a stop that was not a witness.
  <2>2. ASSUME UNCHANGED <<deployments, object, container>>,
               stop[t].pc \notin {"docker rm", "removed"},
               \A s \in Stops \ {t} : stop'[s] = stop[s]
        PROVE  Goal
    BY <1>3, <2>2 DEF HasEntry, Entry, IsStopping, Stands
  <2>3. ASSUME NEW i \in Ids, FindDeployment(t, i)
        PROVE  Goal
    BY <2>1, <2>2, <2>3 DEF FindDeployment
  <2>4. CASE CheckContainer(t)
    BY <2>1, <2>2, <2>4 DEF CheckContainer, StopMovesTo
  <2>5. CASE DockerStop(t) \/ DockerRemove(t)
    <3>1. /\ stop[t].pc \in Stopping /\ stop'[t].pc \in {"docker rm", "removed"}
          /\ stop'[t].id = stop[t].id
          /\ \A s \in Stops \ {t} : stop'[s] = stop[s]
          /\ UNCHANGED <<deployments, object>>
      BY <2>1, <2>5 DEF DockerStop, DockerRemove, StopMovesTo, Stopping
    <3>2. CASE stop[t].id = id
      BY <3>1, <3>2 DEF Goal, IsStopping
    <3>3. CASE stop[t].id # id
      <4>1. PICK c \in ContainerRead(stop[t].found) \ {None} :
              \A q \in Deploys \ {c} : container'[q] = container[q]
        BY <1>2, <2>5 DEF DockerStop, DockerRemove
      <4>2. deploy[c].id = stop[t].id
        BY <3>1, <4>1, ReadKnown
      <4>3. HasEntry(id) /\ deployments[id] \in Deploys \ {c}
        BY <3>1, <3>3, <4>2, MapFacts DEF HasEntry
      <4>4. \A s \in Stops : IsStopping(s, id) => IsStopping(s, id)'
        BY <3>1, <3>3 DEF IsStopping
      <4>. QED
        BY <1>3, <3>1, <4>1, <4>3, <4>4 DEF Entry, Stands
    <3>. QED
      BY <3>2, <3>3
  <2>6. CASE SetStopped(t)
    <3>1. stop[t].id \in Ids
      BY <2>6 DEF SetStopped, WorkInv, Stopping
    <3>2. \A s \in Stops : stop[s].id # stop[t].id => stop'[s] = stop[s]
      BY <2>1, <2>6 DEF SetStopped, StopMovesTo
    <3>. QED
      BY <1>5, <2>6, <3>1, <3>2 DEF SetStopped, Status
  <2>. QED
    BY <1>9, <2>3, <2>4, <2>5, <2>6 DEF HandleStop
<1>10. CASE Restart
  BY <1>10 DEF Restart, HasEntry
<1>11. ASSUME NEW r \in Deploys, NEW i \in Ids, NEW p \in 1..portMax, AllocatePort(r, i, p)
       PROVE  Goal
  BY <1>4, <1>11 DEF AllocatePort
<1>12. CASE UNCHANGED vars
  BY <1>4, <1>12 DEF vars, Goal
<1>13. ASSUME NEW r \in Deploys, ContainerCrashes(r)
       PROVE  Goal
  <2>1. /\ \A q \in Deploys : Stands(q) => Stands(q)'
        /\ UNCHANGED <<deployments, object, stop>>
    BY <1>2, <1>13 DEF ContainerCrashes, Stands
  <2>. QED
    BY <1>3, <2>1, MapFacts DEF HasEntry, Entry, IsStopping
<1>. QED
  BY <1>6, <1>8, <1>9, <1>10, <1>11, <1>12, <1>13 DEF Next, Goal

LEMMA KnownStep ==
    ASSUME WorkInv, HandlersKnown, ObjectsKnown, Started, ContainersAreKnown, [Next]_vars
    PROVE  ContainersAreKnown'
<1> SUFFICES ASSUME NEW r \in Deploys, NEW id, id = deploy'[r].id,
                    container'[r] = "running", deploy'[r].pc = "done", DeployedOnce(id)'
             PROVE  \/ HasEntry(id)' /\ Entry(id)'.container = r
                    \/ ~HasEntry(id)' /\ restarts' > 0
  BY DEF ContainersAreKnown, HasEntry, Entry, DeployedOnce
<1> DEFINE Goal == \/ HasEntry(id)' /\ Entry(id)'.container = r
                   \/ ~HasEntry(id)' /\ restarts' > 0
<1>1. RequestsGoOn
  BY RequestsStep
<1>2. /\ deploy[r].pc # "idle" /\ deploy[r].id = id /\ id \in Ids
      /\ DeployedOnce(id)
  <2>1. deploy[r].pc # "idle" /\ deploy[r].id = id /\ id \in Ids
    BY <1>1 DEF RequestsGoOn, HandlersKnown
  <2>. QED
    BY <1>1, <2>1, OnceBefore
<1>3. \A q \in Deploys : deploy[q].id = id => q = r
  BY <1>2, OnceSame
<1>4. HasEntry(id) => deployments[id] = r
  BY <1>2, <1>3, MapFacts
<1>5. container \in [Deploys -> {"none", "running", "crashed", "exited", "removed"}] /\ restarts \in Nat
  BY MapFacts, HandlerAssumption DEF WorkInv, TypeOK
\* The goroutine had ended before, and nothing that counts has changed.
<1>6. ASSUME deploy[r].pc = "done", container[r] = "running",
             deployments'[id] = deployments[id], restarts' = restarts,
             \A o \in Deploys : object'[o].container = object[o].container
      PROVE  Goal
  <2>1. \/ HasEntry(id) /\ Entry(id).container = r
        \/ ~HasEntry(id) /\ restarts > 0
    BY <1>2, <1>6 DEF ContainersAreKnown
  <2>. QED
    BY <1>2, <1>4, <1>6, <2>1 DEF HasEntry, Entry
<1>7. ASSUME UNCHANGED <<deployments, object, container, deploy, restarts>>
      PROVE  Goal
  BY <1>6, <1>7
<1>8. ASSUME NEW q \in Deploys, deploy[q].pc \in {"allocated"} \cup Working,
             \A o \in Deploys \ {q} : deploy'[o] = deploy[o],
             q = r => container[r] = "none" \/ deploy'[q].pc # "done",
             container' = container, restarts' = restarts,
             \A i \in Ids \ {deploy[q].id} : deployments'[i] = deployments[i],
             \A o \in Deploys : o # deployments[deploy[q].id] /\ o # q =>
               object'[o].container = object[o].container
      PROVE  Goal
  <2>1. q # r
    BY <1>8
  <2>2. deploy[r].pc = "done" /\ container[r] = "running" /\ deploy[q].id # id
    BY <1>3, <1>8, <2>1
  <2>3. deployments'[id] = deployments[id]
    BY <1>2, <1>8, <2>2
  <2>4. CASE HasEntry(id)
    <3>1. Entry(id).container = r /\ deployments[id] = r
      BY <1>2, <1>4, <2>2, <2>4 DEF ContainersAreKnown
    <3>2. r # deployments[deploy[q].id]
      <4>1. deploy[q].id \in Ids
        BY <1>8, MapFacts DEF Working
      <4>. QED
        BY <1>2, <2>2, <4>1, MapFacts DEF HasEntry
    <3>. QED
      BY <1>8, <2>1, <2>3, <2>4, <3>1, <3>2 DEF HasEntry, Entry
  <2>5. CASE ~HasEntry(id)
    BY <1>2, <1>8, <2>2, <2>3, <2>5 DEF ContainersAreKnown, HasEntry
  <2>. QED
    BY <2>4, <2>5
<1>9. ASSUME NEW q \in Deploys, Register(q) \/ Goroutine(q)
      PROVE  Goal
  <2>1. ASSUME NEW pc \in {"done"} \cup Working, DeployMovesTo(q, pc),
               deploy[q].pc \in {"allocated"} \cup Working
        PROVE  deploy'[q].pc = pc /\ \A o \in Deploys \ {q} : deploy'[o] = deploy[o]
    BY <2>1, GoesOn
  <2>2. ASSUME DeployFails(q), deploy[q].pc \in {"building", "built"}
        PROVE  Goal
    <3>1. deploy[q].id \in Ids /\ deploy[q].pc \in Working /\ container[q] = "none"
      BY <2>2, MapFacts DEF Working, Started
    <3>2. \A o \in Deploys : object'[o].container = object[o].container
      BY <2>2, <3>1, SetStateKeeps DEF DeployFails, Status
    <3>. QED
      BY <1>8, <2>1, <2>2, <3>1, <3>2 DEF DeployFails
  <2>3. CASE Register(q)
    <3>1. /\ \A o \in Deploys \ {q} : object'[o] = object[o]
          /\ \A i \in Ids \ {deploy[q].id} : deployments'[i] = deployments[i]
      BY <2>3, MapFacts DEF Register
    <3>2. deploy'[q].pc = "spawned" /\ \A o \in Deploys \ {q} : deploy'[o] = deploy[o]
      BY <2>1, <2>3 DEF Register, Working
    <3>. QED
      BY <1>8, <2>3, <3>1, <3>2 DEF Register, Working
  <2>4. CASE Begin(q)
    <3>1. deploy[q].id \in Ids
      BY <2>4, MapFacts DEF Begin, Working
    <3>2. \A o \in Deploys : object'[o].container = object[o].container
      BY <2>4, <3>1, SetStateKeeps DEF Begin, Status
    <3>3. deploy'[q].pc = "building" /\ \A o \in Deploys \ {q} : deploy'[o] = deploy[o]
      BY <2>1, <2>4 DEF Begin, Working
    <3>. QED
      BY <1>8, <2>4, <3>2, <3>3 DEF Begin, Working
  <2>5. CASE FetchAndBuild(q)
    <3>1. ASSUME deploy[q].pc = "building", DeployMovesTo(q, "built"),
                 UNCHANGED <<deployments, object, mu, stop, container, restarts>>
          PROVE  Goal
      <4>1. deploy'[q].pc = "built" /\ \A o \in Deploys \ {q} : deploy'[o] = deploy[o]
        BY <2>1, <3>1 DEF Working
      <4>. QED
        BY <1>8, <3>1, <4>1 DEF Working
    <3>. QED
      BY <2>2, <2>5, <3>1 DEF FetchAndBuild
  <2>6. CASE RunContainer(q)
    <3>1. ASSUME deploy[q].pc = "built", container' = [container EXCEPT ![q] = "running"],
                 DeployMovesTo(q, "started"), UNCHANGED <<deployments, object, restarts>>
          PROVE  Goal
      <4>1. deploy'[q].pc = "started" /\ \A o \in Deploys \ {q} : deploy'[o] = deploy[o]
        BY <2>1, <3>1 DEF Working
      <4>2. r # q /\ deploy[r].pc = "done" /\ container[r] = "running"
        BY <1>5, <3>1, <4>1
      <4>. QED
        BY <1>6, <3>1, <4>2
    <3>. QED
      BY <2>2, <2>6, <3>1 DEF RunContainer
  <2>7. CASE PublishStatus(q)
    <3>1. deploy[q].id \in Ids
      BY <2>7, MapFacts DEF PublishStatus, Working
    <3>2. \A o \in Deploys : object'[o].container = object[o].container
      BY <2>7, <3>1, SetStateKeeps DEF PublishStatus, Status
    <3>3. deploy'[q].pc = "publishing" /\ \A o \in Deploys \ {q} : deploy'[o] = deploy[o]
      BY <2>1, <2>7 DEF PublishStatus, Working
    <3>. QED
      BY <1>8, <2>7, <3>2, <3>3 DEF PublishStatus, Working
  <2>8. CASE PublishContainer(q)
    <3> DEFINE e == deployments[deploy[q].id]
    <3>1. deploy[q].id \in Ids /\ HasEntry(deploy[q].id) /\ e \in Deploys
      BY <2>8, MapFacts DEF PublishContainer, Working
    <3>2. object'[e].container = q /\ \A o \in Deploys \ {e} : object'[o] = object[o]
      BY <2>8, <3>1, MapFacts DEF PublishContainer, DeploymentState
    <3>3. CASE q = r
      BY <1>2, <2>8, <3>1, <3>2, <3>3 DEF PublishContainer, HasEntry, Entry
    <3>4. CASE q # r
      <4>1. \A o \in Deploys \ {q} : deploy'[o] = deploy[o]
        BY <2>1, <2>8 DEF PublishContainer, Working
      <4>. QED
        BY <1>8, <2>8, <3>2, <3>4, <4>1 DEF PublishContainer, Working
    <3>. QED
      BY <3>3, <3>4
  <2>. QED
    BY <1>9, <2>3, <2>4, <2>5, <2>6, <2>7, <2>8 DEF Goroutine
<1>10. ASSUME NEW s \in Stops, HandleStop(s)
       PROVE  Goal
  <2>1. deploy' = deploy /\ deployments' = deployments /\ restarts' = restarts
    BY <1>10 DEF HandleStop, FindDeployment, CheckContainer, DockerStop, DockerRemove, SetStopped
  <2>2. container[r] = "running"
    BY <1>5, <1>10
       DEF HandleStop, FindDeployment, CheckContainer, DockerStop, DockerRemove, SetStopped
  <2>3. \A o \in Deploys : object'[o].container = object[o].container
    <3>1. CASE SetStopped(s)
      <4>1. stop[s].id \in Ids
        BY <3>1 DEF SetStopped, WorkInv, Stopping
      <4>. QED
        BY <3>1, <4>1, SetStateKeeps DEF SetStopped, Status
    <3>. QED
      BY <1>10, <3>1
         DEF HandleStop, FindDeployment, CheckContainer, DockerStop, DockerRemove
  <2>. QED
    BY <1>6, <2>1, <2>2, <2>3
<1>11. CASE Restart
  <2>1. deployments'[id] = None /\ restarts' = restarts + 1
    BY <1>2, <1>11 DEF Restart
  <2>. QED
    BY <1>5, <2>1 DEF HasEntry
<1>12. ASSUME NEW q \in Deploys, NEW i \in Ids, NEW p \in 1..portMax, AllocatePort(q, i, p)
       PROVE  Goal
  <2>1. deploy'[q].pc = "allocated" /\ \A o \in Deploys \ {q} : deploy'[o] = deploy[o]
    BY <1>12, MapFacts DEF AllocatePort
  <2>2. UNCHANGED <<deployments, object, container, restarts>> /\ r # q
    BY <1>12, <2>1 DEF AllocatePort
  <2>. QED
    BY <1>6, <2>1, <2>2
<1>13. ASSUME NEW q \in Deploys, ContainerCrashes(q)
       PROVE  Goal
  <2>1. container[r] = "running"
    BY <1>5, <1>13 DEF ContainerCrashes
  <2>. QED
    BY <1>6, <1>13, <2>1 DEF ContainerCrashes
<1>14. CASE UNCHANGED vars
  BY <1>7, <1>14 DEF vars
<1>15. Goal
  BY <1>9, <1>10, <1>11, <1>12, <1>13, <1>14 DEF Next
<1>. QED
  BY <1>2, <1>15

LEMMA LifeStep == LifeInv /\ [Next]_vars => LifeInv'
  BY WorkStep, HandlersStep, ObjectsStep, StartedStep, LiveStep, KnownStep DEF LifeInv

\* A deployment reported live was not taken down or a stop of it is on its way,
\* whatever the order in which its goroutine publishes and its stops take it down
\* (ids deployed once).
THEOREM LiveIsNeverTakenDown == Spec => []LiveIsNotTakenDown
<1>1. LifeInv => LiveIsNotTakenDown
  BY DEF LifeInv
<1>. QED
  BY LifeInit, LifeStep, <1>1, PTL DEF Spec

\* A container that runs on after its goroutine can be stopped through its entry,
\* or a restart has made the server forget it (ids deployed once).
THEOREM RunningIsKnown == Spec => []ContainersAreKnown
<1>1. LifeInv => ContainersAreKnown
  BY DEF LifeInv
<1>. QED
  BY LifeInit, LifeStep, <1>1, PTL DEF Spec

--------------------------------------------------------------------------------
(***************************************************************************)
(* What holds of PortsDoNotCollide: docker starts no container on a port   *)
(* that is taken, so the collision is gone once both deployments are up.   *)
(***************************************************************************)

\* No two containers that run have the same port.
RunningPortsDiffer ==
    \A q, r \in Deploys :
      q # r /\ container[q] = "running" /\ container[r] = "running"
        => deploy[q].port # deploy[r].port

\* An id deployed once that is reported live, whose container has not ended by itself
\* and that no stop is taking down.
IsUp(id) ==
    /\ DeployedOnce(id) /\ HasEntry(id) /\ Entry(id).status = "live"
    /\ container[deployments[id]] # "crashed"
    /\ \A s \in Stops : ~IsStopping(s, id)

UpPortsDiffer ==
    \A i, j \in Ids : i # j /\ IsUp(i) /\ IsUp(j) => Entry(i).port # Entry(j).port

\* A step that starts no container keeps the ports apart.
LEMMA PortsQuiet ==
    ASSUME RunningPortsDiffer, RequestsGoOn, Started, WorkInv,
           \A q \in Deploys : container'[q] = "running" => container[q] = "running"
    PROVE  RunningPortsDiffer'
<1>1. \A q \in Deploys : container[q] = "running" => deploy[q].pc # "idle"
  BY DEF Started
<1>. QED
  BY <1>1 DEF RunningPortsDiffer, RequestsGoOn

LEMMA PortsStep ==
    ASSUME LifeInv, RunningPortsDiffer, [Next]_vars
    PROVE  RunningPortsDiffer'
<1>1. RequestsGoOn /\ Started /\ WorkInv
  BY RequestsStep DEF LifeInv
<1>2. container \in [Deploys -> {"none", "running", "crashed", "exited", "removed"}]
  BY <1>1, MapFacts
<1>3. ASSUME NEW r \in Deploys, RunContainer(r)
      PROVE  RunningPortsDiffer'
  <2>1. CASE DeployFails(r)
    BY <1>1, <2>1, PortsQuiet DEF DeployFails
  <2>2. ASSUME deploy[r].port \notin BoundPorts, deploy[r].pc = "built",
               container' = [container EXCEPT ![r] = "running"], DeployMovesTo(r, "started")
        PROVE  RunningPortsDiffer'
    <3>1. \A q \in Deploys : deploy'[q].port = deploy[q].port
      BY <1>1, <2>2, GoesOn DEF Working
    <3>2. \A q \in Deploys : container[q] = "running" => deploy[q].port # deploy[r].port
      BY <2>2 DEF BoundPorts
    <3>3. \A q \in Deploys \ {r} : container'[q] = container[q]
      BY <1>2, <2>2
    <3>. QED
      BY <3>1, <3>2, <3>3 DEF RunningPortsDiffer
  <2>. QED
    BY <1>3, <2>1, <2>2 DEF RunContainer
<1>4. ASSUME NEW s \in Stops, HandleStop(s)
      PROVE  RunningPortsDiffer'
  <2>1. \A q \in Deploys : container'[q] = "running" => container[q] = "running"
    BY <1>2, <1>4
       DEF HandleStop, FindDeployment, CheckContainer, DockerStop, DockerRemove, SetStopped
  <2>. QED
    BY <1>1, <2>1, PortsQuiet
<1>5. ASSUME UNCHANGED container
      PROVE  RunningPortsDiffer'
  BY <1>1, <1>5, PortsQuiet
<1>6. ASSUME NEW r \in Deploys, ContainerCrashes(r)
      PROVE  RunningPortsDiffer'
  BY <1>1, <1>2, <1>6, PortsQuiet DEF ContainerCrashes
<1>. QED
  BY <1>3, <1>4, <1>5, <1>6
     DEF Next, AllocatePort, Register, Goroutine, Begin, FetchAndBuild, DeployFails,
         PublishStatus, PublishContainer, Restart, vars

\* Two deployments that are both up are never behind the same port, although
\* allocatePort may give two requests the same one: the loser fails in dockerRun
\* (ids deployed once).
THEOREM PortsOfUpDiffer == Spec => []UpPortsDiffer
<1>1. Init => RunningPortsDiffer
  BY DEF Init, RunningPortsDiffer
<1>2. ASSUME LifeInv, RunningPortsDiffer, NEW i \in Ids, NEW j \in Ids, i # j, IsUp(i), IsUp(j)
      PROVE  Entry(i).port # Entry(j).port
  <2>1. \A id \in {i, j} : container[deployments[id]] = "running"
    BY <1>2 DEF IsUp, IsStopping, LifeInv, LiveIsNotTakenDown
  <2>2. \A id \in {i, j} : /\ deployments[id] \in Deploys
                           /\ deploy[deployments[id]].id = id
                           /\ Entry(id).port = deploy[deployments[id]].port
    BY <1>2, MapFacts DEF IsUp, LifeInv, ObjectsKnown
  <2>. QED
    BY <1>2, <2>1, <2>2 DEF RunningPortsDiffer
<1>3. LifeInv /\ RunningPortsDiffer => UpPortsDiffer
  BY <1>2 DEF UpPortsDiffer
<1>4. LifeInv /\ RunningPortsDiffer /\ [Next]_vars => RunningPortsDiffer'
  BY PortsStep
<1>. QED
  BY LifeInit, LifeStep, <1>1, <1>3, <1>4, PTL DEF Spec

--------------------------------------------------------------------------------
(***************************************************************************)
(* What holds of StoppedIsNotRunning: it takes a stop that came before the *)
(* container was recorded to leave it running.                             *)
(***************************************************************************)

\* A stop that finds no container, and goes on to report the deployment stopped.
StopFindsNone(s) == stop[s].pc = "found" /\ stop'[s].pc = "removed"

StoppedOnceIsDown ==
    \A id \in Ids :
      (DeployedOnce(id) /\ HasEntry(id) /\ Entry(id).status = "stopped") =>
        \A r \in Deploys : deploy[r].id = id => container[r] # "running"

\* A container is recorded, and about to be, only after it was started.
RecordedRan ==
    /\ \A r \in Deploys : deploy[r].pc = "publishing" => container[r] # "none"
    /\ \A o \in Deploys : object[o].container # None => container[object[o].container] # "none"

IsDown(r) == container[r] \in {"crashed", "exited", "removed"}

\* Where a stop has come past docker stop, and where it has reported, the container
\* is down.
StopsTakeDown ==
    \A id \in Ids : DeployedOnce(id) => \A r \in Deploys : deploy[r].id = id =>
      /\ HasEntry(id) /\ Entry(id).status = "stopped" => IsDown(r)
      /\ \A s \in Stops : IsStopping(s, id) => IsDown(r)

LEMMA RecordedStep ==
    ASSUME LifeInv, RecordedRan, [Next]_vars
    PROVE  RecordedRan'
<1>1. RequestsGoOn /\ Started /\ WorkInv
  BY RequestsStep DEF LifeInv
<1>2. /\ container \in [Deploys -> {"none", "running", "crashed", "exited", "removed"}]
      /\ object \in [Deploys -> DeploymentState]
  BY <1>1, MapFacts
<1>3. \A q \in Deploys : container[q] # "none" => container'[q] # "none"
  BY <1>2 DEF Next, AllocatePort, Register, Goroutine, Begin, FetchAndBuild, RunContainer,
         DeployFails, PublishStatus, PublishContainer, HandleStop, FindDeployment,
         CheckContainer, DockerStop, DockerRemove, SetStopped, Restart,
         ContainerCrashes, vars
\* What was recorded and what is being published had run before.
<1>4. ASSUME \A r \in Deploys : deploy'[r].pc = "publishing" => container[r] # "none",
             \A o \in Deploys : object'[o].container # None =>
               /\ object'[o].container \in Deploys
               /\ container[object'[o].container] # "none"
      PROVE  RecordedRan'
  BY <1>3, <1>4 DEF RecordedRan
<1>5. \A o \in Deploys : object[o].container # None =>
        object[o].container \in Deploys /\ container[object[o].container] # "none"
  BY <1>2 DEF RecordedRan, DeploymentState
<1>6. ASSUME NEW r \in Deploys
      PROVE  deploy'[r].pc = "publishing" => container[r] # "none"
  <2>1. ASSUME NEW q \in Deploys, PublishStatus(q)
        PROVE  deploy'[r].pc = "publishing" => container[r] # "none"
    <3>1. container[q] # "none" /\ \A o \in Deploys \ {q} : deploy'[o] = deploy[o]
      BY <1>1, <2>1, GoesOn DEF PublishStatus, Started, Working
    <3>. QED
      BY <3>1 DEF RecordedRan
  <2>2. ASSUME NEW q \in Deploys, Register(q) \/ Begin(q) \/ FetchAndBuild(q)
                                    \/ RunContainer(q) \/ PublishContainer(q)
        PROVE  deploy'[r].pc = "publishing" => container[r] # "none"
    <3>1. deploy'[q].pc # "publishing" /\ \A o \in Deploys \ {q} : deploy'[o] = deploy[o]
      BY <1>1, <2>2, GoesOn
         DEF Register, Begin, FetchAndBuild, RunContainer, PublishContainer, DeployFails, Working
    <3>. QED
      BY <3>1 DEF RecordedRan
  <2>3. ASSUME NEW q \in Deploys, NEW i \in Ids, NEW p \in 1..portMax, AllocatePort(q, i, p)
        PROVE  deploy'[r].pc = "publishing" => container[r] # "none"
    BY <1>1, <2>3, MapFacts DEF AllocatePort, RecordedRan
  <2>4. CASE Restart
    BY <1>1, <2>4, MapFacts DEF Restart, RecordedRan, Working
  <2>5. CASE UNCHANGED deploy
    BY <2>5 DEF RecordedRan
  <2>. QED
    BY <2>1, <2>2, <2>3, <2>4, <2>5
       DEF Next, Goroutine, HandleStop, FindDeployment, CheckContainer, DockerStop,
           DockerRemove, SetStopped, ContainerCrashes, vars
<1>7. ASSUME NEW o \in Deploys, object'[o].container # None
      PROVE  object'[o].container \in Deploys /\ container[object'[o].container] # "none"
  <2> DEFINE Goal == object'[o].container \in Deploys /\ container[object'[o].container] # "none"
  <2>1. ASSUME object'[o].container = object[o].container
        PROVE  Goal
    BY <1>5, <1>7, <2>1
  <2>2. ASSUME NEW id \in Ids, NEW status \in Status, SetState(id, status)
        PROVE  Goal
    BY <1>1, <2>1, <2>2, SetStateKeeps
  <2> HIDE DEF Goal
  <2>3. ASSUME NEW r \in Deploys, Register(r)
        PROVE  Goal
    <3>1. object'[r].container = None /\ \A q \in Deploys \ {r} : object'[q] = object[q]
      BY <1>2, <2>3 DEF Register, NewState
    <3>. QED
      BY <1>7, <2>1, <3>1
  <2>4. ASSUME NEW r \in Deploys, Begin(r) \/ PublishStatus(r)
        PROVE  Goal
    <3>1. deploy[r].id \in Ids
      BY <1>1, <2>4, MapFacts DEF Begin, PublishStatus, Working
    <3>. QED
      BY <2>2, <2>4, <3>1 DEF Begin, PublishStatus, Status
  <2>5. ASSUME NEW r \in Deploys, FetchAndBuild(r) \/ RunContainer(r)
        PROVE  Goal
    <3>1. deploy[r].id \in Ids
      BY <1>1, <2>5, MapFacts DEF FetchAndBuild, RunContainer, Working
    <3>. QED
      BY <2>1, <2>2, <2>5, <3>1 DEF FetchAndBuild, RunContainer, DeployFails, Status
  <2>6. ASSUME NEW r \in Deploys, PublishContainer(r)
        PROVE  Goal
    <3>1. container[r] # "none" /\ r # None
      BY <1>1, <2>6, MapFacts DEF PublishContainer, RecordedRan
    <3>2. object'[o].container \in {object[o].container, r}
      BY <1>2, <2>6 DEF PublishContainer, DeploymentState
    <3>. QED
      BY <2>1, <3>1, <3>2 DEF Goal
  <2>7. ASSUME NEW s \in Stops, SetStopped(s)
        PROVE  Goal
    <3>1. stop[s].id \in Ids
      BY <1>1, <2>7 DEF SetStopped, WorkInv, Stopping
    <3>. QED
      BY <2>2, <2>7, <3>1 DEF SetStopped, Status
  <2>8. ASSUME UNCHANGED object
        PROVE  Goal
    BY <2>1, <2>8 DEF Goal
  <2>9. ASSUME NEW r \in Deploys, Goroutine(r)
        PROVE  Goal
    BY <2>4, <2>5, <2>6, <2>9 DEF Goroutine
  <2>10. ASSUME NEW s \in Stops, HandleStop(s)
         PROVE  Goal
    BY <2>7, <2>8, <2>10 DEF HandleStop, FindDeployment, CheckContainer, DockerStop, DockerRemove
  <2>11. Goal
    BY <2>3, <2>8, <2>9, <2>10 DEF Next, AllocatePort, Restart, ContainerCrashes, vars
  <2>. QED
    BY <2>11 DEF Goal
<1>. QED
  BY <1>4, <1>6, <1>7

LEMMA TakeDownStep ==
    ASSUME LifeInv, RecordedRan, StopsTakeDown, ~DockerStopFails, [Next]_vars,
           \A s \in Stops : ~StopFindsNone(s)
    PROVE  StopsTakeDown'
<1> SUFFICES ASSUME NEW id \in Ids, DeployedOnce(id)', NEW r \in Deploys, deploy'[r].id = id
             PROVE  /\ HasEntry(id)' /\ Entry(id)'.status = "stopped" => IsDown(r)'
                    /\ \A s \in Stops : IsStopping(s, id)' => IsDown(r)'
  BY DEF StopsTakeDown
<1> DEFINE Goal == /\ HasEntry(id)' /\ Entry(id)'.status = "stopped" => IsDown(r)'
                   /\ \A s \in Stops : IsStopping(s, id)' => IsDown(r)'
<1>1. RequestsGoOn /\ Started /\ WorkInv /\ HandlersKnown /\ ObjectsKnown
  BY RequestsStep DEF LifeInv
<1>2. /\ container \in [Deploys -> {"none", "running", "crashed", "exited", "removed"}]
      /\ object \in [Deploys -> DeploymentState]
      /\ stop \in [Stops -> [pc: {"idle", "done", "dead"} \cup Stopping,
                             id: Ids \cup {None}, found: Deploys \cup {None}]]
  BY <1>1, MapFacts
<1>3. deploy[r].id = id => DeployedOnce(id)
  BY <1>1, OnceBefore
\* What is reported, and who is stopping, was so before, and what is down stays down.
<1>4. ASSUME deploy[r].id = id,
             HasEntry(id)' /\ Entry(id)'.status = "stopped"
               => HasEntry(id) /\ Entry(id).status = "stopped",
             \A s \in Stops : IsStopping(s, id)' => IsStopping(s, id),
             IsDown(r) => IsDown(r)'
      PROVE  Goal
  BY <1>3, <1>4 DEF StopsTakeDown
\* The statuses of other ids are not touched by setState.
<1>5. ASSUME NEW i \in Ids, NEW status \in Status \ {"stopped"}, SetState(i, status),
             deployments' = deployments, HasEntry(id)', Entry(id)'.status = "stopped"
      PROVE  HasEntry(id) /\ Entry(id).status = "stopped"
  <2>1. HasEntry(id) /\ Entry(id)' = object'[deployments[id]] /\ deployments[id] \in Deploys
    BY <1>1, <1>5, MapFacts DEF HasEntry, Entry
  <2>2. id # i
    BY <1>1, <1>5, <2>1, SetStateKeeps
  <2>3. Entry(id)' = Entry(id)
    BY <1>1, <1>5, <2>1, <2>2, SetStateKeeps, MapFacts DEF Entry, HasEntry
  <2>. QED
    BY <1>5, <2>1, <2>3
<1>6. ASSUME UNCHANGED <<deployments, object, container, stop>>, deploy[r].id = id
      PROVE  Goal
  BY <1>4, <1>6 DEF HasEntry, Entry, IsStopping, IsDown
<1>7. ASSUME NEW i \in Ids, NEW status \in Status \ {"stopped"}, SetState(i, status),
             UNCHANGED <<deployments, container, stop>>, deploy[r].id = id
      PROVE  Goal
  BY <1>4, <1>5, <1>7 DEF IsStopping, IsDown
<1> HIDE DEF Goal
\* A request that is new: an id deployed once has no entry and no stop yet.
<1>8. ASSUME NEW q \in Deploys, NEW i \in Ids, NEW p \in 1..portMax, AllocatePort(q, i, p)
      PROVE  Goal
  <2>1. /\ deploy[q].pc = "idle" /\ deploy[q].id = None
        /\ UNCHANGED <<deployments, object, container, stop>>
        /\ \A o \in Deploys \ {q} : deploy'[o] = deploy[o]
    BY <1>1, <1>8, MapFacts DEF AllocatePort, HandlersKnown
  <2>2. CASE deploy[r].id = id
    BY <1>6, <2>1, <2>2
  <2>3. CASE deploy[r].id # id
    <3>1. r = q
      BY <2>1, <2>3
    <3>2. \A o \in Deploys : deploy[o].id # id
      BY <1>1, <2>1, <3>1, OnceSame, MapFacts DEF DeployedOnce
    <3>3. ~HasEntry(id)
      BY <1>1, <3>2, MapFacts
    <3>4. \A s \in Stops : ~IsStopping(s, id)
      BY <1>1, <3>2 DEF HandlersKnown, IsStopping, Stopping
    <3>. QED
      BY <2>1, <3>3, <3>4 DEF Goal, HasEntry, IsStopping
  <2>. QED
    BY <2>2, <2>3
<1>9. ASSUME ~ \E q \in Deploys, i \in Ids, p \in 1..portMax : AllocatePort(q, i, p)
      PROVE  deploy[r].id = id
  <2> DEFINE Stays == \A q \in Deploys : deploy[q].pc = "idle" => deploy'[q].pc = "idle"
  <2>1. ASSUME NEW q \in Deploys, NEW pc \in {"done"} \cup Working, DeployMovesTo(q, pc),
               deploy[q].pc \in {"allocated"} \cup Working
        PROVE  Stays
    BY <1>1, <2>1, GoesOn DEF Working
  <2> HIDE DEF Stays
  <2>2. ASSUME NEW q \in Deploys, Register(q) \/ Goroutine(q)
        PROVE  Stays
    <3>1. /\ deploy[q].pc \in {"allocated"} \cup Working
          /\ \E pc \in {"done"} \cup Working : DeployMovesTo(q, pc)
      BY <2>2 DEF Register, Goroutine, Begin, FetchAndBuild, RunContainer, PublishStatus,
                  PublishContainer, DeployFails, Working
    <3>. QED
      BY <2>1, <3>1
  <2>3. ASSUME Restart
        PROVE  Stays
    BY <1>1, <2>3, MapFacts DEF Restart, Working, Stays
  <2>4. ASSUME UNCHANGED deploy
        PROVE  Stays
    BY <2>4 DEF Stays
  <2>5. Stays
    BY <1>9, <2>2, <2>3, <2>4
       DEF Next, HandleStop, FindDeployment, CheckContainer, DockerStop, DockerRemove,
           SetStopped, ContainerCrashes, vars
  <2>. QED
    BY <1>1, <2>5 DEF RequestsGoOn, Stays
<1>10. ASSUME deploy[r].id = id, NEW q \in Deploys, Register(q) \/ Goroutine(q)
       PROVE  Goal
  <2>1. deploy[q].id \in Ids
    BY <1>1, <1>10, MapFacts
       DEF Register, Goroutine, Begin, FetchAndBuild, RunContainer, PublishStatus,
           PublishContainer, Working
  <2>2. CASE Register(q)
    <3>1. HasEntry(id)' /\ Entry(id)'.status = "stopped"
            => HasEntry(id) /\ Entry(id).status = "stopped"
      <4>1. /\ deployments'[deploy[q].id] = q
            /\ \A i \in Ids \ {deploy[q].id} : deployments'[i] = deployments[i]
            /\ object'[q].status = "pending"
            /\ \A o \in Deploys \ {q} : object'[o] = object[o]
        BY <1>1, <1>2, <2>1, <2>2, MapFacts DEF Register, NewState
      <4>2. CASE id = deploy[q].id
        BY <4>1, <4>2 DEF Entry
      <4>3. CASE id # deploy[q].id
        <5>1. deployments'[id] = deployments[id] /\ (HasEntry(id) => deployments[id] # q)
          BY <1>1, <4>1, <4>3, MapFacts
        <5>. QED
          BY <1>1, <4>1, <5>1, MapFacts DEF HasEntry, Entry
      <4>. QED
        BY <4>2, <4>3
    <3>. QED
      BY <1>4, <1>10, <2>2, <3>1 DEF Register, IsStopping, IsDown
  <2>3. CASE Begin(q)
    BY <1>7, <1>10, <2>1, <2>3 DEF Begin, Status
  <2>4. CASE FetchAndBuild(q)
    BY <1>6, <1>7, <1>10, <2>1, <2>4 DEF FetchAndBuild, DeployFails, Status
  <2>5. CASE RunContainer(q)
    <3>1. CASE DeployFails(q)
      BY <1>7, <1>10, <2>1, <3>1 DEF DeployFails, Status
    <3>2. ASSUME deploy[q].pc = "built", container' = [container EXCEPT ![q] = "running"],
                 UNCHANGED <<deployments, object, mu, stop, restarts>>
          PROVE  Goal
      <4>1. container[q] = "none"
        BY <1>1, <3>2 DEF Started
      <4>2. IsDown(r) => IsDown(r)'
        BY <1>2, <3>2, <4>1 DEF IsDown
      <4>. QED
        BY <1>4, <1>10, <3>2, <4>2 DEF HasEntry, Entry, IsStopping
    <3>. QED
      BY <2>5, <3>1, <3>2 DEF RunContainer
  <2>6. CASE PublishStatus(q)
    BY <1>7, <1>10, <2>1, <2>6 DEF PublishStatus, Status
  <2>7. CASE PublishContainer(q)
    <3>1. \A o \in Deploys : object'[o].status = object[o].status
      BY <1>2, <2>7 DEF PublishContainer, DeploymentState
    <3>2. HasEntry(id) => deployments[id] \in Deploys
      BY <1>1, MapFacts
    <3>. QED
      BY <1>4, <1>10, <2>7, <3>1, <3>2
         DEF PublishContainer, HasEntry, Entry, IsStopping, IsDown
  <2>. QED
    BY <1>10, <2>2, <2>3, <2>4, <2>5, <2>6, <2>7 DEF Goroutine
<1>11. ASSUME deploy[r].id = id, NEW t \in Stops, HandleStop(t)
       PROVE  Goal
  <2>1. IsDown(r) => IsDown(r)'
    BY <1>2, <1>11
       DEF HandleStop, FindDeployment, CheckContainer, DockerStop, DockerRemove, SetStopped,
           IsDown
  <2>2. ASSUME UNCHANGED <<deployments, object>>, \A s \in Stops \ {t} : stop'[s] = stop[s],
               IsStopping(t, id)' => IsStopping(t, id)
        PROVE  Goal
    BY <1>4, <1>11, <2>1, <2>2 DEF HasEntry, Entry, IsStopping
  <2>3. ASSUME NEW i \in Ids, FindDeployment(t, i)
        PROVE  Goal
    BY <1>2, <2>2, <2>3 DEF FindDeployment, IsStopping
  <2>4. CASE CheckContainer(t)
    <3>1. stop'[t].pc # "removed"
      BY <2>4 DEF CheckContainer, StopFindsNone
    <3>2. stop'[t].pc # "docker rm" /\ \A s \in Stops \ {t} : stop'[s] = stop[s]
      BY <1>2, <2>4 DEF CheckContainer, StopMovesTo
    <3>. QED
      BY <2>2, <2>4, <3>1, <3>2 DEF CheckContainer, IsStopping
  <2>5. CASE DockerStop(t)
    <3>1. /\ stop[t].pc = "docker stop" /\ stop'[t].id = stop[t].id
          /\ \A s \in Stops \ {t} : stop'[s] = stop[s]
          /\ UNCHANGED <<deployments, object>>
      BY <1>2, <2>5 DEF DockerStop, StopMovesTo
    <3>2. CASE stop[t].id # id
      BY <2>2, <3>1, <3>2 DEF IsStopping
    <3>3. CASE stop[t].id = id
      <4>1. PICK c \in ContainerRead(stop[t].found) \ {None} :
              container' = [container EXCEPT ![c] = IF container[c] = "running"
                                                      THEN "exited" ELSE container[c]]
        BY <2>5 DEF DockerStop
      <4>2. c \in Deploys /\ deploy[c].id = id
        BY <1>1, <3>1, <3>3, <4>1, ReadKnown DEF Stopping
      <4>3. c = r
        BY <1>3, <1>11, <4>2, OnceSame
      <4>4. container[c] # "none"
        <5>1. CASE c = object[stop[t].found].container
          BY <1>1, <3>1, <4>1, <5>1 DEF RecordedRan, HandlersKnown, Stopping
        <5>2. CASE c # object[stop[t].found].container
          <6>1. mu = c /\ deploy[c].pc = "publishing"
            BY <1>1, <4>1, <4>2, <5>2, MapFacts DEF ContainerRead, HandlersKnown
          <6>. QED
            BY <4>2, <6>1 DEF RecordedRan
        <5>. QED
          BY <5>1, <5>2
      <4>5. IsDown(r)'
        BY <1>2, <4>1, <4>2, <4>3, <4>4 DEF IsDown
      <4>. QED
        BY <4>5 DEF Goal
    <3>. QED
      BY <3>2, <3>3
  <2>6. CASE DockerRemove(t)
    <3>1. /\ stop[t].pc = "docker rm" /\ stop'[t].id = stop[t].id
          /\ \A s \in Stops \ {t} : stop'[s] = stop[s]
          /\ UNCHANGED <<deployments, object>>
      BY <1>2, <2>6 DEF DockerRemove, StopMovesTo
    <3>. QED
      BY <2>2, <3>1 DEF IsStopping
  <2>7. CASE SetStopped(t)
    <3>1. /\ stop[t].pc = "removed" /\ stop[t].id \in Ids /\ SetState(stop[t].id, "stopped")
          /\ stop'[t].pc = "done" /\ \A s \in Stops \ {t} : stop'[s] = stop[s]
          /\ deployments' = deployments
      BY <1>1, <1>2, <2>7 DEF SetStopped, StopMovesTo, WorkInv, Stopping
    <3>2. CASE stop[t].id = id
      <4>1. IsDown(r)
        BY <1>3, <1>11, <3>1, <3>2 DEF StopsTakeDown, IsStopping
      <4>. QED
        BY <2>1, <4>1 DEF Goal
    <3>3. CASE stop[t].id # id
      <4>1. HasEntry(id)' /\ Entry(id)'.status = "stopped"
              => HasEntry(id) /\ Entry(id).status = "stopped"
        BY <1>1, <3>1, <3>3, SetStateKeeps, MapFacts DEF HasEntry, Entry, Status
      <4>2. \A s \in Stops : IsStopping(s, id)' => IsStopping(s, id)
        BY <3>1 DEF IsStopping
      <4>. QED
        BY <1>4, <1>11, <2>1, <4>1, <4>2
    <3>. QED
      BY <3>2, <3>3
  <2>. QED
    BY <1>11, <2>3, <2>4, <2>5, <2>6, <2>7 DEF HandleStop
<1>12. ASSUME deploy[r].id = id, Restart
       PROVE  Goal
  <2>1. ~HasEntry(id)' /\ container' = container
    BY <1>12 DEF Restart, HasEntry
  <2>2. \A s \in Stops : ~IsStopping(s, id)'
    <3>1. \A s \in Stops : stop'[s].pc \notin Stopping
      BY <1>2, <1>12 DEF Restart, Stopping
    <3>. QED
      BY <3>1 DEF IsStopping, Stopping
  <2>. QED
    BY <2>1, <2>2 DEF Goal
<1>13. ASSUME deploy[r].id = id, UNCHANGED vars
       PROVE  Goal
  BY <1>6, <1>13 DEF vars
<1>14. ASSUME deploy[r].id = id, NEW q \in Deploys, ContainerCrashes(q)
       PROVE  Goal
  <2>1. IsDown(r) => IsDown(r)'
    BY <1>2, <1>14 DEF ContainerCrashes, IsDown
  <2>. QED
    BY <1>4, <1>14, <2>1 DEF ContainerCrashes, HasEntry, Entry, IsStopping
<1>15. Goal
  BY <1>8, <1>9, <1>10, <1>11, <1>12, <1>13, <1>14 DEF Next
<1>. QED
  BY <1>15 DEF Goal

\* A deployment that is reported stopped has no running container, if docker does as
\* it is told and no stop came before the container was recorded: that is the one
\* way to the counterexample of StoppedIsNotRunning (ids deployed once).
THEOREM StopsThatFindTakeDown ==
    ASSUME ~DockerStopFails
    PROVE  Spec /\ [][\A s \in Stops : ~StopFindsNone(s)]_vars => []StoppedOnceIsDown
<1>1. Init => RecordedRan /\ StopsTakeDown
  <2>1. Init => /\ \A r \in Deploys : deploy[r].pc = "idle" /\ object[r].container = None
                /\ \A id \in Ids : ~HasEntry(id)
                /\ \A s \in Stops : stop[s].pc = "idle"
    BY DEF Init, NoState, HasEntry
  <2>. QED
    BY <2>1 DEF RecordedRan, StopsTakeDown, IsStopping
<1>2. StopsTakeDown => StoppedOnceIsDown
  BY DEF StopsTakeDown, StoppedOnceIsDown, IsDown
<1>3. LifeInv /\ RecordedRan /\ [Next]_vars => RecordedRan'
  BY RecordedStep
<1>4. /\ LifeInv /\ RecordedRan /\ StopsTakeDown /\ [Next]_vars
      /\ [\A s \in Stops : ~StopFindsNone(s)]_vars
      => StopsTakeDown'
  <2>1. ASSUME UNCHANGED vars, StopsTakeDown
        PROVE  StopsTakeDown'
    BY <2>1 DEF vars, StopsTakeDown, DeployedOnce, HasEntry, Entry, IsDown, IsStopping
  <2>. QED
    BY <2>1, TakeDownStep
<1>. QED
  BY LifeInit, LifeStep, <1>1, <1>2, <1>3, <1>4, PTL DEF Spec
================================================================================
