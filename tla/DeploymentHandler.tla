---------------------------- MODULE DeploymentHandler ----------------------------
(***************************************************************************)
(* The HTTP API of a community node (platform/cli/server): HandleDeploy    *)
(* answers at once and leaves the work to a goroutine, HandleStop runs in  *)
(* the goroutine of its own request.  They share the map deployments, under *)
(* mu, the DeploymentState objects the map points to, which HandleStop      *)
(* reads without mu, and the machine: its containers and its ports.         *)
(*                                                                         *)
(* A step is what the code does between two points where another goroutine *)
(* can come in.  A redeployment is a HandleDeploy of the same id: it puts a *)
(* new object in the map, and what the older goroutine writes from then on  *)
(* goes to that one.  git, R2 and docker are outside of the repository      *)
(* (stubs there): each call may fail, and docker starts no container on a   *)
(* port that is taken; a container may end by itself.  HandleStatus writes  *)
(* nothing and is left out, as are the commit hash, the start time and the  *)
(* text of the errors.                                                      *)
(***************************************************************************)
EXTENDS Integers

CONSTANTS
    Ids,                \* deployment ids
    Deploys,            \* requests to HandleDeploy, and so objects and containers
    Stops,              \* requests to HandleStop
    portMax,            \* ports are 1..portMax; 3000..9999 in the code
    DockerStopFails,    \* docker stop and docker rm may fail
    MaxRestarts         \* bound: restarts of the server

None == "none"

ASSUME HandlerAssumption ==
    /\ portMax \in Nat
    /\ DockerStopFails \in BOOLEAN
    /\ MaxRestarts \in Nat
    /\ None \notin Ids \cup Deploys

VARIABLES
    deployments,    \* id -> the DeploymentState object of the map, or None
    object,         \* the DeploymentStates, one made by each deploy request
    mu,             \* the deploy that writes under mu across two steps, or None
    deploy,         \* where each HandleDeploy and its goroutine are, its id and port
    stop,           \* where each HandleStop is, its id and the object it found
    container,      \* the machine: the container each deploy started
    restarts

vars == <<deployments, object, mu, deploy, stop, container, restarts>>

\* "sleeping" is never assigned by this code.
Status == {"pending", "building", "live", "failed", "stopped"}

DeploymentState == [status: Status, port: 0..portMax, container: Deploys \cup {None}]

NoState == [status |-> "pending", port |-> 0, container |-> None]

Working == {"spawned", "building", "built", "started", "publishing"}
Stopping == {"found", "docker stop", "docker rm", "removed"}

TypeOK ==
    /\ deployments \in [Ids -> Deploys \cup {None}]
    /\ object \in [Deploys -> DeploymentState]
    /\ mu \in Deploys \cup {None}
    /\ deploy \in [Deploys -> [pc: {"idle", "allocated", "done", "dead"} \cup Working,
                               id: Ids \cup {None}, port: 0..portMax]]
    /\ stop \in [Stops -> [pc: {"idle", "done", "dead"} \cup Stopping,
                           id: Ids \cup {None}, found: Deploys \cup {None}]]
    /\ container \in [Deploys -> {"none", "running", "crashed", "exited", "removed"}]
    /\ restarts \in 0..MaxRestarts

Init ==
    /\ deployments = [id \in Ids |-> None]
    /\ object = [r \in Deploys |-> NoState]
    /\ mu = None
    /\ deploy = [r \in Deploys |-> [pc |-> "idle", id |-> None, port |-> 0]]
    /\ stop = [s \in Stops |-> [pc |-> "idle", id |-> None, found |-> None]]
    /\ container = [r \in Deploys |-> "none"]
    /\ restarts = 0
--------------------------------------------------------------------------------
BoundPorts == {deploy[r].port : r \in {r \in Deploys : container[r] = "running"}}

\* A port on which Listen succeeds: it is closed again at once, and bound only by
\* the container.  It is the first such port of the range, of which other
\* processes of the machine may hold any at that time.
IsAllocated(p) == p \notin BoundPorts

\* setState: under mu, and to whatever object the map has for the id now.
SetState(id, status) ==
    /\ mu = None
    /\ IF deployments[id] = None
         THEN UNCHANGED object
         ELSE object' = [object EXCEPT ![deployments[id]].status = status]

DeployMovesTo(r, pc) == deploy' = [deploy EXCEPT ![r].pc = pc]
StopMovesTo(s, pc) == stop' = [stop EXCEPT ![s].pc = pc]

\* Mutant: the goroutine returns on an error without saying so.
DeployFailsSilently(r) ==
    /\ DeployMovesTo(r, "done")
    /\ UNCHANGED <<deployments, object, mu, stop, container, restarts>>

\* An error of a step of the goroutine: the status, and it is over.
DeployFails(r) ==
    /\ SetState(deploy[r].id, "failed")
    /\ DeployMovesTo(r, "done")
    /\ UNCHANGED <<deployments, mu, stop, container, restarts>>
--------------------------------------------------------------------------------
(***************************************************************************)
(* HandleDeploy and its goroutine.                                         *)
(***************************************************************************)

\* allocatePort; without a free port the request fails and nothing changes.
AllocatePort(r, id, p) ==
    /\ deploy[r].pc = "idle"
    /\ IsAllocated(p)
    /\ deploy' = [deploy EXCEPT ![r] = [pc |-> "allocated", id |-> id, port |-> p]]
    /\ UNCHANGED <<deployments, object, mu, stop, container, restarts>>

\* Mutant: a status the type does not have.
NewStateQueued(port) == [status |-> "queued", port |-> port, container |-> None]

NewState(port) == [status |-> "pending", port |-> port, container |-> None]

\* The entry of the map, under mu, and the goroutine.
Register(r) ==
    /\ deploy[r].pc = "allocated"
    /\ mu = None
    /\ deployments' = [deployments EXCEPT ![deploy[r].id] = r]
    /\ object' = [object EXCEPT ![r] = NewState(deploy[r].port)]
    /\ DeployMovesTo(r, "spawned")
    /\ UNCHANGED <<mu, stop, container, restarts>>

Begin(r) ==
    /\ deploy[r].pc = "spawned"
    /\ SetState(deploy[r].id, "building")
    /\ DeployMovesTo(r, "building")
    /\ UNCHANGED <<deployments, mu, stop, container, restarts>>

\* downloadAndExtract or gitClone, and dockerBuild.
FetchAndBuild(r) ==
    /\ deploy[r].pc = "building"
    /\ \/ /\ DeployMovesTo(r, "built")
          /\ UNCHANGED <<deployments, object, mu, stop, container, restarts>>
       \/ DeployFails(r)

\* dockerRun.
RunContainer(r) ==
    /\ deploy[r].pc = "built"
    /\ \/ /\ deploy[r].port \notin BoundPorts
          /\ container' = [container EXCEPT ![r] = "running"]
          /\ DeployMovesTo(r, "started")
          /\ UNCHANGED <<deployments, object, mu, stop, restarts>>
       \/ DeployFails(r)

\* The last critical section, in the two steps a reader without mu can tell
\* apart: the status first ...
PublishStatus(r) ==
    /\ deploy[r].pc = "started"
    /\ SetState(deploy[r].id, "live")
    /\ mu' = r
    /\ DeployMovesTo(r, "publishing")
    /\ UNCHANGED <<deployments, stop, container, restarts>>

\* Mutant: the container is not recorded.
PublishNoContainer(r) ==
    /\ deploy[r].pc = "publishing"
    /\ mu' = None
    /\ DeployMovesTo(r, "done")
    /\ UNCHANGED <<deployments, object, stop, container, restarts>>

\* ... and the container, and mu is released.
PublishContainer(r) ==
    /\ deploy[r].pc = "publishing"
    /\ object' = [object EXCEPT ![deployments[deploy[r].id]].container = r]
    /\ mu' = None
    /\ DeployMovesTo(r, "done")
    /\ UNCHANGED <<deployments, stop, container, restarts>>

Goroutine(r) ==
    \/ Begin(r)
    \/ FetchAndBuild(r)
    \/ RunContainer(r)
    \/ PublishStatus(r)
    \/ PublishContainer(r)
--------------------------------------------------------------------------------
(***************************************************************************)
(* HandleStop.                                                             *)
(***************************************************************************)

\* What a read of state.ContainerID without mu returns: what is there, or what
\* the goroutine that holds mu is about to have written there.
ContainerRead(o) ==
    {object[o].container}
      \cup {r \in Deploys : mu = r /\ deployments[deploy[r].id] = o}

\* The lookup, under a read lock; 404 without an entry.
FindDeployment(s, id) ==
    /\ stop[s].pc = "idle"
    /\ mu = None
    /\ deployments[id] # None
    /\ stop' = [stop EXCEPT ![s] = [pc |-> "found", id |-> id, found |-> deployments[id]]]
    /\ UNCHANGED <<deployments, object, mu, deploy, container, restarts>>

\* Is there a container?  A read in the middle of the write of the string can
\* have its length without its bytes: the handler panics and net/http ends it.
CheckContainer(s) ==
    LET o == stop[s].found
    IN  /\ stop[s].pc = "found"
        /\ \/ None \in ContainerRead(o) /\ StopMovesTo(s, "removed")
           \/ ContainerRead(o) # {None} /\ StopMovesTo(s, "docker stop")
           \/ None \in ContainerRead(o) /\ ContainerRead(o) # {None} /\ StopMovesTo(s, "dead")
        /\ UNCHANGED <<deployments, object, mu, deploy, container, restarts>>

\* docker stop, of the container read again; its error is ignored.
DockerStop(s) ==
    /\ stop[s].pc = "docker stop"
    /\ \E c \in ContainerRead(stop[s].found) \ {None} :
         \/ container' = [container EXCEPT ![c] = IF @ = "running" THEN "exited" ELSE @]
         \/ DockerStopFails /\ UNCHANGED container
    /\ StopMovesTo(s, "docker rm")
    /\ UNCHANGED <<deployments, object, mu, deploy, restarts>>

\* docker rm, of the container read once more: it fails when that is running.
DockerRemove(s) ==
    /\ stop[s].pc = "docker rm"
    /\ \E c \in ContainerRead(stop[s].found) \ {None} :
         \/ container' = [container EXCEPT ![c] = IF @ = "running" THEN @ ELSE "removed"]
         \/ DockerStopFails /\ UNCHANGED container
    /\ StopMovesTo(s, "removed")
    /\ UNCHANGED <<deployments, object, mu, deploy, restarts>>

\* Mutant: the container is taken down and the status left as it was.
SetStoppedSilently(s) ==
    /\ stop[s].pc = "removed"
    /\ StopMovesTo(s, "done")
    /\ UNCHANGED <<deployments, object, mu, deploy, container, restarts>>

SetStopped(s) ==
    /\ stop[s].pc = "removed"
    /\ SetState(stop[s].id, "stopped")
    /\ StopMovesTo(s, "done")
    /\ UNCHANGED <<deployments, mu, deploy, container, restarts>>

HandleStop(s) ==
    \/ \E id \in Ids : FindDeployment(s, id)
    \/ CheckContainer(s)
    \/ DockerStop(s)
    \/ DockerRemove(s)
    \/ SetStopped(s)
--------------------------------------------------------------------------------
\* A container ends by itself: nothing in the server looks at it.
ContainerCrashes(r) ==
    /\ container[r] = "running"
    /\ container' = [container EXCEPT ![r] = "crashed"]
    /\ UNCHANGED <<deployments, object, mu, deploy, stop, restarts>>

\* The server process ends and is started again: the map and the goroutines are
\* gone, the containers, which run beside it, are not.
Restart ==
    /\ restarts < MaxRestarts
    /\ restarts' = restarts + 1
    /\ deployments' = [id \in Ids |-> None]
    /\ mu' = None
    /\ deploy' = [r \in Deploys |->
                    IF deploy[r].pc \in {"allocated"} \cup Working
                      THEN [deploy[r] EXCEPT !.pc = "dead"] ELSE deploy[r]]
    /\ stop' = [s \in Stops |->
                  IF stop[s].pc \in Stopping
                    THEN [stop[s] EXCEPT !.pc = "dead"] ELSE stop[s]]
    /\ UNCHANGED <<object, container>>

Next ==
    \/ \E r \in Deploys, id \in Ids, p \in 1..portMax : AllocatePort(r, id, p)
    \/ \E r \in Deploys : Register(r) \/ Goroutine(r) \/ ContainerCrashes(r)
    \/ \E s \in Stops : HandleStop(s)
    \/ Restart

Spec == Init /\ [][Next]_vars

\* Go runs every goroutine that can run, and the calls to git and docker return.
LiveSpec == Spec /\ \A r \in Deploys : WF_vars(Goroutine(r))
--------------------------------------------------------------------------------
(***************************************************************************)
(* Properties.                                                             *)
(***************************************************************************)

Entry(id) == object[deployments[id]]
HasEntry(id) == deployments[id] # None
IsWorking(id) == \E r \in Deploys : deploy[r].id = id /\ deploy[r].pc \in Working

\* LiveIsNotTakenDown and ContainersAreKnown speak of ids that were deployed once:
\* a redeployment puts a new object in the map while the older goroutine and
\* container go on, and from then on an entry and a container may belong to
\* different requests.
DeployedOnce(id) == \E r \in Deploys : {q \in Deploys : deploy[q].id = id} = {r}

\* A status that promises more to come is never left behind: as long as the
\* entry says pending or building, a goroutine of that id is still at work,
\* whatever was stopped, redeployed or failed in between.
InProgressHasWorker ==
    \A id \in Ids :
      (HasEntry(id) /\ Entry(id).status \in {"pending", "building"}) => IsWorking(id)

\* A deployment reported live was not taken down, unless a stop of it is on its
\* way: no order of publishing and stopping leaves a container that the server
\* stopped behind a live status (one that ended by itself is reported live).
LiveIsNotTakenDown ==
    \A id \in Ids :
      (DeployedOnce(id) /\ HasEntry(id) /\ Entry(id).status = "live") =>
        \/ container[deployments[id]] \in {"running", "crashed"}
        \/ \E s \in Stops : stop[s].id = id /\ stop[s].pc \in {"docker rm", "removed"}

\* A container that runs after its goroutine has ended can be stopped: the entry
\* of its id records it, unless a restart made the server forget the entry.
ContainersAreKnown ==
    \A r \in Deploys :
      (container[r] = "running" /\ deploy[r].pc = "done" /\ DeployedOnce(deploy[r].id)) =>
        LET id == deploy[r].id
        IN  \/ HasEntry(id) /\ Entry(id).container = r
            \/ ~HasEntry(id) /\ restarts > 0

\* "Allocate port using actual net.Listen to detect collisions" (comment in
\* HandleDeploy): no two deployments under way or live have the same port.
PortsDoNotCollide ==
    \A id1, id2 \in Ids :
      (/\ id1 # id2 /\ HasEntry(id1) /\ HasEntry(id2)
       /\ {Entry(id1).status, Entry(id2).status} \subseteq {"pending", "building", "live"})
        => Entry(id1).port # Entry(id2).port

\* "HandleStop stops a running deployment container and cleans up" (comment on
\* HandleStop): once its goroutine is through, a deployment reported stopped has
\* no running container.
StoppedIsNotRunning ==
    \A id \in Ids :
      (HasEntry(id) /\ Entry(id).status = "stopped" /\ ~IsWorking(id)) =>
        \A r \in Deploys : deploy[r].id = id => container[r] # "running"

\* Every deploy that was answered "pending" settles: its id gets a status that is
\* final, or the server was restarted.
DeploysSettle ==
    \A r \in Deploys :
      deploy[r].pc \in Working ~>
        \/ deploy[r].pc = "dead"
        \/ \E id \in Ids : /\ deploy[r].id = id /\ HasEntry(id)
                          /\ Entry(id).status \in {"live", "failed", "stopped"}
================================================================================
