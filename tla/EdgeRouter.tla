------------------------------ MODULE EdgeRouter ------------------------------
(***************************************************************************)
(* The Cloudflare Worker in front of *.quikdb.net: it asks the             *)
(* orchestrator where a host is served, through a cache, and proxies to    *)
(* one of the backends or answers with a page.  One isolate of the worker  *)
(* is modelled, with the cache it reads through: requests interleave       *)
(* wherever the handler awaits.                                            *)
(*                                                                         *)
(* The orchestrator, the cache and the visitors' browsers are external.    *)
(* The URL, port and headers of a proxied request are those of the backend *)
(* selected, and are left out; so is what the backend answers.             *)
(***************************************************************************)
EXTENDS Integers, Sequences

CONSTANTS
    Requests,       \* visitors: a browser tab each
    Hosts,          \* hostnames that reach the worker
    InfraHosts,     \* those whose first label is in INFRA_SUBDOMAINS
    Deployments,
    DeploymentOf,   \* the deployment behind a host, custom domains included
    UnnamedHosts,   \* those whose 503 comes without the optional deploymentId
    Statuses,       \* the statuses of deployments that occur
    BackendLists,   \* the backends of a deployment that is served
    CACHE_TTL,      \* CACHE_TTL_SECONDS, in ticks
    MaxTurns,       \* bound: selections for a deployment at a new visit
    MaxChanges      \* bound: changes of deployments other than waking up

NoDeployment == "no-deployment"
NoHost == "no-host"

ServedStatuses == {"live", "partial"}

\* The first two tests of handleUnavailable.
WakePageStatuses == {"sleeping", "waking"}
InProgressStatuses == {"pending", "building", "deploying"}

Status == ServedStatuses \cup WakePageStatuses \cup InProgressStatuses
            \cup {"reserving_nodes", "failed", "stopped", "restarting", "queued"}

ASSUME EdgeAssumption ==
    /\ InfraHosts \subseteq Hosts /\ UnnamedHosts \subseteq Hosts /\ NoHost \notin Hosts
    /\ NoDeployment \notin Deployments
    /\ DeploymentOf \in [Hosts -> Deployments \cup {NoDeployment}]
    /\ Statuses \subseteq Status
    /\ "sleeping" \in Statuses => "waking" \in Statuses
    /\ BackendLists \subseteq Seq(Nat) /\ BackendLists # {}
    /\ CACHE_TTL \in Nat /\ MaxTurns \in Nat /\ MaxChanges \in Nat

VARIABLES
    view,           \* what the orchestrator knows of each deployment
    changes,        \* how often that changed
    cache,          \* answers to lookups by host, with their age
    wakes,          \* POSTs to /wake on their way, by deployment
    rrCounters,     \* the worker's round-robin counters; absent is 0
    request,        \* what each visitor's tab is doing, and the page it shows
    spread          \* history: how a deployment's selections were spread

vars == <<view, changes, cache, wakes, rrCounters, request, spread>>

\* A deployment has backends when it is served.
View == {[status |-> s, backends |-> list] :
           s \in Statuses \cap ServedStatuses, list \in BackendLists}
        \cup {[status |-> s, backends |-> <<>>] : s \in Statuses \ ServedStatuses}

NoView == [status |-> "none", backends |-> <<>>]

\* RoutingResponse, or the body that comes with another code.
Answer == [code: {200, 404, 500, 503}, deploymentId: Deployments \cup {NoDeployment},
           view: View \cup {NoView}]

NoBody(code) == [code |-> code, deploymentId |-> NoDeployment, view |-> NoView]

\* A tab that waits for a response, or shows a loadingPage, which will ask again;
\* of all other responses nothing follows, and the tab is at rest.  loading: what
\* the tab shows until there is a response is a loadingPage.
Request == [pc: {"rest", "lookup", "answered", "loading"}, host: Hosts \cup {NoHost},
            answer: Answer, loading: BOOLEAN]

NoRequest ==
    [pc |-> "rest", host |-> NoHost, answer |-> NoBody(404), loading |-> FALSE]

\* An answer never asked for, or too old to be used.
Expired == [answer |-> NoBody(404), age |-> CACHE_TTL]

\* No selection was made yet.
NoSpread == [list |-> <<>>, turns |-> <<>>]

TypeOK ==
    /\ view \in [Deployments -> View]
    /\ changes \in 0..MaxChanges
    /\ cache \in [Hosts -> [answer: Answer, age: 0..CACHE_TTL]]
    /\ wakes \subseteq Deployments
    /\ rrCounters \in [Deployments -> Nat]
    /\ request \in [Requests -> Request]
    /\ spread \in [Deployments -> [list: BackendLists \cup {<<>>}, turns: Seq(Nat)]]
    /\ \A d \in Deployments : Len(spread[d].turns) = Len(spread[d].list)

Init ==
    /\ view \in [Deployments -> View]
    /\ changes = 0
    /\ cache = [h \in Hosts |-> Expired]
    /\ wakes = {}
    /\ rrCounters = [d \in Deployments |-> 0]
    /\ request = [r \in Requests |-> NoRequest]
    /\ spread = [d \in Deployments |-> NoSpread]
--------------------------------------------------------------------------------
(***************************************************************************)
(* fetch, up to the lookup                                                 *)
(***************************************************************************)

\* A response that nothing follows, and one that will be asked for again.
Ends(r) == request' = [request EXCEPT ![r] = NoRequest]

ShowsLoadingPage(r) ==
    request' = [request EXCEPT ![r] =
                  [@ EXCEPT !.pc = "loading", !.loading = TRUE, !.answer = NoBody(404)]]

Turns(h) == IF DeploymentOf[h] = NoDeployment THEN 0 ELSE rrCounters[DeploymentOf[h]]

\* Somebody opens a host in a tab.  Infrastructure hosts pass through to the
\* origin and /__edge/health is answered at once; for any other request a lookup
\* is sent, and awaited.
Visit(r, h) ==
    /\ request[r].pc \in {"rest", "loading"}
    /\ h \notin InfraHosts
    /\ Turns(h) < MaxTurns
    /\ request' = [request EXCEPT ![r] = [NoRequest EXCEPT !.pc = "lookup", !.host = h]]
    /\ UNCHANGED <<view, changes, cache, wakes, rrCounters, spread>>

\* The loading pages refresh themselves (meta http-equiv="refresh"): the same
\* request again, the page staying until there is an answer.
Refresh(r) ==
    /\ request[r].pc = "loading"
    /\ request' = [request EXCEPT ![r].pc = "lookup"]
    /\ UNCHANGED <<view, changes, cache, wakes, rrCounters, spread>>
--------------------------------------------------------------------------------
(***************************************************************************)
(* The lookup: from the cache, or from the orchestrator                    *)
(***************************************************************************)

\* The deployment a 503 for h names.
Named(h) == IF h \in UnnamedHosts THEN NoDeployment ELSE DeploymentOf[h]

\* What the orchestrator may answer now, a failure of its own included.
Answers(h) ==
    LET d == DeploymentOf[h]
    IN  {NoBody(500)} \cup
        IF d = NoDeployment THEN {NoBody(404)}
        ELSE IF view[d].status \in ServedStatuses
          THEN {[code |-> 200, deploymentId |-> d, view |-> view[d]]}
          ELSE {[code |-> 503, deploymentId |-> Named(h), view |-> view[d]]}

\* An answer young enough is used again.
LookupInCache(r) ==
    LET h == request[r].host
    IN  /\ request[r].pc = "lookup"
        /\ cache[h].age < CACHE_TTL
        /\ request' = [request EXCEPT ![r].pc = "answered", ![r].answer = cache[h].answer]
        /\ UNCHANGED <<view, changes, cache, wakes, rrCounters, spread>>

\* cacheEverything: an answer may be kept whatever its code is.
LookupAtOrchestrator(r) ==
    LET h == request[r].host
    IN  /\ request[r].pc = "lookup"
        /\ cache[h].age >= CACHE_TTL
        /\ \E answer \in Answers(h) :
             /\ request' = [request EXCEPT ![r].pc = "answered", ![r].answer = answer]
             /\ \/ cache' = [cache EXCEPT ![h] = IF CACHE_TTL > 0
                                                   THEN [answer |-> answer, age |-> 0] ELSE @]
                \/ UNCHANGED cache
        /\ UNCHANGED <<view, changes, wakes, rrCounters, spread>>

\* The fetch is rejected, which the handler does not catch.
LookupFails(r) ==
    /\ request[r].pc = "lookup"
    /\ cache[request[r].host].age >= CACHE_TTL
    /\ Ends(r)
    /\ UNCHANGED <<view, changes, cache, wakes, rrCounters, spread>>
--------------------------------------------------------------------------------
(***************************************************************************)
(* fetch, after the lookup: one stretch without an await                   *)
(***************************************************************************)

\* Mutant: the counter starts over when the list was passed through once, one
\* backend early.
IndexEarly(current, n) == IF n > 1 THEN current % (n - 1) ELSE 0

Index(current, n) == current % n

\* Mutant: the counter runs backwards.
CounterBackwards(current) == current - 1

\* What the counter is set to.
Counter(current) == current + 1

\* The history of the selection of the backend at index i of list.
AfterSelection(s, list, i) ==
    LET turns == IF s.list = list THEN s.turns ELSE [k \in DOMAIN list |-> 0]
    IN  [list |-> list, turns |-> [turns EXCEPT ![i + 1] = @ + 1]]

\* selectBackend: the counter is of the deployment, the list is the answer's.
SelectBackend(d, list) ==
    /\ rrCounters' = [rrCounters EXCEPT ![d] = Counter(@)]
    /\ spread' = [spread EXCEPT ![d] =
                    AfterSelection(@, list, Index(rrCounters[d], Len(list)))]

Proxy(r) ==
    LET answer == request[r].answer
    IN  /\ request[r].pc = "answered" /\ answer.code = 200
        /\ answer.view.backends # <<>>
        /\ SelectBackend(answer.deploymentId, answer.view.backends)
        /\ Ends(r)
        /\ UNCHANGED <<view, changes, cache, wakes>>

\* Mutant: only the statuses of a deployment in progress ask for a wake.
AsksForWakeInProgress(answer) == answer.view.status \in InProgressStatuses

AsksForWake(answer) ==
    answer.view.status = "sleeping" /\ answer.deploymentId # NoDeployment

\* handleUnavailable: the POST is left to ctx.waitUntil, the page is at once.
HandleUnavailable(r) ==
    LET answer == request[r].answer
    IN  /\ request[r].pc = "answered" /\ answer.code = 503
        /\ wakes' = IF AsksForWake(answer) THEN wakes \cup {answer.deploymentId} ELSE wakes
        /\ \/ /\ answer.view.status \in WakePageStatuses \cup InProgressStatuses
              /\ ShowsLoadingPage(r)
           \/ /\ answer.view.status \notin WakePageStatuses \cup InProgressStatuses
              /\ Ends(r)
        /\ UNCHANGED <<view, changes, cache, rrCounters, spread>>

\* 404, another error of the orchestrator, and an empty list: a last page each.
NotServed(r) ==
    LET answer == request[r].answer
    IN  /\ request[r].pc = "answered"
        /\ \/ answer.code \in {404, 500}
           \/ answer.code = 200 /\ answer.view.backends = <<>>
        /\ Ends(r)
        /\ UNCHANGED <<view, changes, cache, wakes, rrCounters, spread>>

\* The isolate is started anew, between requests; the counters are in memory.
ColdStart ==
    /\ \A r \in Requests : request[r].pc \in {"rest", "loading"}
    /\ \E d \in Deployments : rrCounters[d] > 0
    /\ rrCounters' = [d \in Deployments |-> 0]
    /\ spread' = [d \in Deployments |-> NoSpread]
    /\ UNCHANGED <<view, changes, cache, wakes, request>>
--------------------------------------------------------------------------------
(***************************************************************************)
(* The orchestrator, the network, and time                                 *)
(***************************************************************************)

Becomes(d, v) == view' = [view EXCEPT ![d] = v]

\* A deployment is put to sleep, stopped, deployed again, moved, scaled, ...
Change(d) ==
    /\ changes < MaxChanges
    /\ changes' = changes + 1
    /\ \E v \in View \ {view[d]} : v.status # "waking" /\ Becomes(d, v)
    /\ UNCHANGED <<cache, wakes, rrCounters, request, spread>>

\* A POST to /wake arrives: it is about sleeping deployments only.
WakeArrives(d) ==
    /\ d \in wakes
    /\ wakes' = wakes \ {d}
    /\ IF view[d].status = "sleeping"
         THEN Becomes(d, [status |-> "waking", backends |-> <<>>])
         ELSE UNCHANGED view
    /\ UNCHANGED <<changes, cache, rrCounters, request, spread>>

\* Nothing waits for its answer, and nothing repeats it but another visit.
WakeLost(d) ==
    /\ d \in wakes
    /\ wakes' = wakes \ {d}
    /\ UNCHANGED <<view, changes, cache, rrCounters, request, spread>>

\* What is waking or being deployed is served in the end.
ComesUp(d) ==
    /\ view[d].status \in {"waking"} \cup InProgressStatuses
    /\ \E v \in View : v.status \in ServedStatuses /\ Becomes(d, v)
    /\ UNCHANGED <<changes, cache, wakes, rrCounters, request, spread>>

\* The entries of the cache grow older, until they are not used any more.
Tick ==
    /\ cache' = [h \in Hosts |-> IF cache[h].age + 1 >= CACHE_TTL THEN Expired
                                 ELSE [cache[h] EXCEPT !.age = @ + 1]]
    /\ UNCHANGED <<view, changes, wakes, rrCounters, request, spread>>

Handler(r) ==
    \/ LookupInCache(r) \/ LookupAtOrchestrator(r) \/ LookupFails(r)
    \/ Proxy(r) \/ HandleUnavailable(r) \/ NotServed(r)

Next ==
    \/ \E r \in Requests, h \in Hosts : Visit(r, h)
    \/ \E r \in Requests : Refresh(r) \/ Handler(r)
    \/ \E d \in Deployments : Change(d) \/ WakeArrives(d) \/ WakeLost(d) \/ ComesUp(d)
    \/ ColdStart
    \/ Tick

Spec == Init /\ [][Next]_vars

\* Handlers run, pages refresh, time passes; of the wakes that are posted again
\* and again one arrives, and the orchestrator brings up what it is waking.
LiveSpec ==
    /\ Spec
    /\ \A r \in Requests : WF_vars(Handler(r)) /\ WF_vars(Refresh(r))
    /\ \A d \in Deployments : SF_vars(WakeArrives(d)) /\ WF_vars(ComesUp(d))
    /\ WF_vars(Tick)
--------------------------------------------------------------------------------
\* The round robin spreads the requests of a deployment evenly: as long as they
\* are routed by the same list, no backend of it is selected two times more often
\* than another, whatever lists were in use before (the counter is not reset) and
\* however the requests of several hosts interleave.
EvenSpread ==
    \A d \in Deployments :
      LET turns == spread[d].turns
      IN  \A i, j \in DOMAIN turns : turns[i] <= turns[j] + 1

\* Nobody is left on a page that says the app is waking up, or being deployed: its
\* refreshes end in something else, also when wakes get lost, several visitors ask
\* for the same wake, and answers come from the cache.  A host whose answers leave
\* out the deployment is excepted: no wake is posted for its visitors.
VisitorIsServed ==
    \A r \in Requests :
      request[r].loading /\ request[r].host \notin UnnamedHosts ~> ~request[r].loading
===============================================================================
