-------------------------- MODULE DeploymentQueries --------------------------
(***************************************************************************)
(* The pages of the compute dashboard that show deployments, and the       *)
(* TanStack Query hooks they read and command them through, in one browser *)
(* tab.  Its steps interleave where a request is sent, served by the       *)
(* orchestrator, and answered.                                             *)
(*                                                                         *)
(* Of TanStack Query (external) the model keeps what the hooks rely on:    *)
(* one fetch per key at a time; a query is fetched when a page that reads  *)
(* it is opened, joining a fetch under way; refetchInterval fetches the    *)
(* queries of the open page; invalidateQueries fetches those anew, a fetch *)
(* under way being cancelled; data survives the page and a failed fetch.   *)
(* The retries of a fetch are part of it, and data is not collected.       *)
(***************************************************************************)
EXTENDS Session, Sequences, FiniteSets

CONSTANTS
    Deployments,
    Statuses,       \* the values of DeploymentStatus that occur
    MaxChanges,     \* bound: changes of deployments nobody here asked for
    MaxCommands     \* bound: clicks on Restart and Stop

VARIABLES
    status,         \* the orchestrator's, by deployment
    restarts,       \* history: restarts it carried out
    changes,        \* history: changes nobody here asked for
    page,           \* what the tab shows
    query,          \* the query cache, by key
    posts,          \* commands on their way
    clicks,         \* history: commands given
    acknowledged    \* history: restarts acknowledged since the page was opened

query_vars == <<status, restarts, changes, page, query, posts,
               clicks, acknowledged>>

DeploymentStatus ==
    {"pending", "reserving_nodes", "building", "deploying", "live", "partial",
     "failed", "stopped", "sleeping", "waking", "restarting", "queued"}

ACTIVE_STATUSES ==
    {"pending", "reserving_nodes", "building", "deploying", "restarting", "waking"}

\* Query keys: the list, and one deployment.
List == "deployments"
Keys == {List} \cup Deployments

\* Pages: the dashboard, a deployment's, and any that shows neither.
Elsewhere == "elsewhere"
Pages == {List, Elsewhere} \cup Deployments

ASSUME QueriesAssumption ==
    /\ Deployments # {} /\ {List, Elsewhere} \cap Deployments = {}
    /\ Statuses \subseteq DeploymentStatus
    /\ {"live", "restarting", "stopped"} \subseteq Statuses
    /\ MaxChanges \in Nat /\ MaxCommands \in Nat

\* A deployment as it was read; the list is not asked how often it was restarted.
Reading == [status: Statuses, restarts: 0..MaxCommands]

Of(k) == IF k = List THEN Deployments ELSE {k}

Read(k) == [d \in Of(k) |->
              [status |-> status[d], restarts |-> IF k = List THEN 0 ELSE restarts[d]]]

\* Before the first answer (isLoading): a reading of nothing.
NoData == <<>>

Query(k) == [data: [Of(k) -> Reading] \cup {NoData},
             fetch: {"idle", "sent", "answered"},
             answer: [Of(k) -> Reading] \cup {NoData}]

Command == [click: 1..MaxCommands, kind: {"restart", "stop"}, id: Deployments, at: {"sent", "done"},
            restarts: 0..MaxCommands]

QueriesTypeOK ==
    /\ status \in [Deployments -> Statuses]
    /\ restarts \in [Deployments -> 0..MaxCommands]
    /\ changes \in 0..MaxChanges
    /\ page \in Pages
    /\ DOMAIN query = Keys /\ \A k \in Keys : query[k] \in Query(k)
    /\ posts \subseteq Command /\ clicks \in 0..MaxCommands
    /\ acknowledged \in 0..MaxCommands

QueriesInit ==
    /\ status \in [Deployments -> Statuses]
    /\ restarts = [d \in Deployments |-> 0]
    /\ changes = 0
    /\ page = Elsewhere
    /\ query = [k \in Keys |-> [data |-> NoData, fetch |-> "idle", answer |-> NoData]]
    /\ posts = {} /\ clicks = 0
    /\ acknowledged = 0
--------------------------------------------------------------------------------
(***************************************************************************)
(* useDeployments, useDeployment                                           *)
(***************************************************************************)

Sent(q) == [q EXCEPT !.fetch = "sent", !.answer = NoData]

\* A page is opened: its query is fetched, unless that is under way.
Open(p) ==
    /\ p # page
    /\ page' = p
    /\ query' = [k \in Keys |-> IF k = p /\ query[k].fetch = "idle"
                                  THEN Sent(query[k]) ELSE query[k]]
    /\ acknowledged' = 0
    /\ UNCHANGED <<status, restarts, changes, posts, clicks>>

\* Mutant: a deployment that is not active is not polled.
RefetchIntervalActive(k) ==
    IF k # List /\ query[k].data # NoData /\ query[k].data[k].status \in ACTIVE_STATUSES
      THEN 5 ELSE 0

\* refetchInterval, in seconds.
RefetchInterval(k) ==
    IF k # List /\ query[k].data # NoData /\ query[k].data[k].status \in ACTIVE_STATUSES
      THEN 5 ELSE 30

Poll(k) ==
    /\ k = page
    /\ query[k].fetch = "idle"
    /\ RefetchInterval(k) > 0
    /\ query' = [query EXCEPT ![k] = Sent(@)]
    /\ UNCHANGED <<status, restarts, changes, page, posts, clicks, acknowledged>>

\* listDeployments, getDeployment: the orchestrator answers a token it accepts.
Served(k) ==
    /\ query[k].fetch = "sent"
    /\ Authorized
    /\ query' = [query EXCEPT ![k].fetch = "answered", ![k].answer = Read(k)]
    /\ UNCHANGED <<status, restarts, changes, page, posts, clicks, acknowledged>>

Arrives(k) ==
    /\ query[k].fetch = "answered"
    /\ query' = [query EXCEPT ![k] = [data |-> @.answer, fetch |-> "idle", answer |-> NoData]]
    /\ UNCHANGED <<status, restarts, changes, page, posts, clicks, acknowledged>>

FetchFails(k) ==
    /\ query[k].fetch # "idle"
    /\ query' = [query EXCEPT ![k].fetch = "idle", ![k].answer = NoData]
    /\ UNCHANGED <<status, restarts, changes, page, posts, clicks, acknowledged>>

\* The dashboard: a card for each deployment, and the number of those live.
CardShows(d) == query[List].data[d].status

LiveCount ==
    IF query[List].data = NoData THEN 0
      ELSE Cardinality({d \in Deployments : query[List].data[d].status = "live"})

\* The page of a deployment.
PageShows(d) == query[d].data[d].status
--------------------------------------------------------------------------------
(***************************************************************************)
(* useRestartDeployment, useStopDeployment                                 *)
(***************************************************************************)

\* isLive: the page of a deployment offers Restart and Stop; the buttons are not
\* disabled while a command is under way.  The cards of the dashboard offer the
\* same, and Redeploy, but are given handlers that do nothing.
IsLive(d) == query[d].data # NoData /\ query[d].data[d].status \in {"live", "partial"}

Click(kind, d) ==
    /\ page = d /\ IsLive(d)
    /\ clicks < MaxCommands
    /\ clicks' = clicks + 1
    /\ posts' = posts \cup
         {[click |-> clicks + 1, kind |-> kind, id |-> d, at |-> "sent", restarts |-> 0]}
    /\ UNCHANGED <<status, restarts, changes, page, query, acknowledged>>

\* The orchestrator carries a command out: a restart of what is live, a stop of
\* what is not stopped.
Execute(post) ==
    LET d == post.id
        restarted == restarts[d] + 1
    IN  /\ post.at = "sent" /\ Authorized
        /\ \/ /\ post.kind = "restart" /\ status[d] \in {"live", "partial"}
              /\ status' = [status EXCEPT ![d] = "restarting"]
              /\ restarts' = [restarts EXCEPT ![d] = restarted]
              /\ posts' = (posts \ {post}) \cup
                            {[post EXCEPT !.at = "done", !.restarts = restarted]}
           \/ /\ post.kind = "stop" /\ status[d] # "stopped"
              /\ status' = [status EXCEPT ![d] = "stopped"]
              /\ posts' = (posts \ {post}) \cup {[post EXCEPT !.at = "done"]}
              /\ UNCHANGED restarts
        /\ UNCHANGED <<changes, page, query, clicks, acknowledged>>

\* The POST is refused or lost, or its answer is: nothing on the page says so.
PostFails(post) ==
    /\ posts' = posts \ {post}
    /\ UNCHANGED <<status, restarts, changes, page, query, clicks, acknowledged>>

\* Mutant: restarting invalidates what stopping does.
InvalidatedByList(post) == List

\* The key that onSuccess invalidates.
InvalidatedBy(post) == IF post.kind = "restart" THEN post.id ELSE List

\* onSuccess, which runs whatever page is open by now.
Acknowledge(post) ==
    LET k == InvalidatedBy(post)
    IN  /\ post.at = "done"
        /\ posts' = posts \ {post}
        /\ query' = IF k = page THEN [query EXCEPT ![k] = Sent(@)] ELSE query
        /\ acknowledged' = IF page = post.id /\ post.restarts > acknowledged
                             THEN post.restarts ELSE acknowledged
        /\ UNCHANGED <<status, restarts, changes, page, clicks>>
--------------------------------------------------------------------------------
(***************************************************************************)
(* The orchestrator                                                        *)
(***************************************************************************)

\* A restart is over.
Restarted(d) ==
    /\ status[d] = "restarting"
    /\ status' = [status EXCEPT ![d] = "live"]
    /\ UNCHANGED <<restarts, changes, page, query, posts, clicks, acknowledged>>

\* Put to sleep, woken by a visitor, failed, deployed again by a push, ...
Change(d) ==
    /\ changes < MaxChanges
    /\ changes' = changes + 1
    /\ \E s \in Statuses \ {status[d], "restarting"} : status' = [status EXCEPT ![d] = s]
    /\ UNCHANGED <<restarts, page, query, posts, clicks, acknowledged>>

--------------------------------------------------------------------------------
\* Once a restart was acknowledged on the open page, no answer that was read before
\* it is put on that page: a poll that was under way is overtaken, and the status
\* from before the restart does not come back.
RestartIsSeen ==
    [][\A d \in Deployments :
         page = d /\ page' = d /\ query'[d].data # query[d].data
           => query'[d].data[d].restarts >= acknowledged]_query_vars

\* The open page shows what the orchestrator has: the card of each deployment and
\* the number of those live, or the status of one.
ShowsStatus ==
    /\ page # Elsewhere => query[page].data # NoData
    /\ page = List => /\ \A d \in Deployments : CardShows(d) = status[d]
                      /\ LiveCount = Cardinality({d \in Deployments : status[d] = "live"})
    /\ page \in Deployments => PageShows(page) = status[page]

\* A page that stays open catches up: when the deployments come to rest and the
\* session is valid, it ends up showing their statuses, whatever was stopped,
\* restarted or lost before, and although stopping refreshes the list only.
PagesCatchUp ==
    (<>[][status' = status /\ page' = page]_query_vars /\ <>[]Authorized)
      => <>[]ShowsStatus
================================================================================
