----------------------------- MODULE ComputePages -----------------------------
(***************************************************************************)
(* One tab of the compute dashboard: the pages and their queries, the log  *)
(* stream of a deployment's page, and the session both use.  They meet     *)
(* where a page is opened and left, and where it is rendered: the effect   *)
(* of the log stream sees a new token at the next rendering only, which a  *)
(* change of the deployment's data or a command brings about.              *)
(***************************************************************************)
EXTENDS DeploymentQueries, DeploymentLogs

vars == <<query_vars, logs, session_vars>>

TypeOK == QueriesTypeOK /\ LogsTypeOK /\ SessionTypeOK

Init == QueriesInit /\ LogsInit /\ SessionInit

OnDeploymentPage == page \in Deployments

\* A page is opened and the one before it is left, with its socket.
Navigate ==
    /\ \E p \in Pages : Open(p)
    /\ logs' = IF page' \in Deployments THEN Mounted(cookie) ELSE Unmounted
    /\ UNCHANGED session_vars

Background(step) == step /\ UNCHANGED <<logs, session_vars>>

\* New data renders the page that shows it; the same data again does not.
FetchArrives(k) ==
    /\ Arrives(k)
    /\ logs' = IF OnDeploymentPage /\ k = page /\ query'[k].data # query[k].data
                 THEN AfterRender(logs) ELSE logs
    /\ UNCHANGED session_vars

\* A click renders the page, by the state of its mutation.
CommandGiven(kind, d) ==
    /\ Click(kind, d)
    /\ logs' = AfterRender(logs)
    /\ UNCHANGED session_vars

\* So does the answer, unless the page was left since, and opened again.
CommandEnds(post) ==
    /\ PostFails(post) \/ Acknowledge(post)
    /\ logs' \in IF page = post.id THEN {logs, AfterRender(logs)} ELSE {logs}
    /\ UNCHANGED session_vars

Next ==
    \/ Navigate
    \/ \E k \in Keys : \/ Background(Poll(k)) \/ Background(Served(k))
                       \/ Background(FetchFails(k)) \/ FetchArrives(k)
    \/ \E kind \in {"restart", "stop"}, d \in Deployments : CommandGiven(kind, d)
    \/ \E post \in posts : Background(Execute(post)) \/ CommandEnds(post)
    \/ \E d \in Deployments : Background(Restarted(d)) \/ Background(Change(d))
    \/ SocketStep /\ UNCHANGED <<query_vars, session_vars>>
    \/ SessionStep /\ UNCHANGED <<query_vars, logs>>

Spec == Init /\ [][Next]_vars

\* Polling goes on while its page is open; of the requests that are sent again and
\* again some are answered, and a socket that keeps trying gets through.
LiveSpec ==
    /\ Spec
    /\ \A k \in Keys : /\ WF_vars(Background(Poll(k))) /\ SF_vars(Background(Served(k)))
                       /\ SF_vars(FetchArrives(k))
    /\ WF_vars(SocketOpens /\ UNCHANGED <<query_vars, session_vars>>)
--------------------------------------------------------------------------------
\* The state has its type, and the viewer says Live exactly while the socket of the
\* open page is open, also when another socket takes its place.
PagesInvariant == TypeOK /\ LiveMeansConnected

\* The server has ended a socket that was opened with the token of now.
TurnedAway == logs.socket = [token |-> cookie, state |-> "refused"]

\* The log stream comes back: on a page that stays open and was rendered with a
\* valid token the stream is live again and again, also when there was no token, or
\* one that was refused, before; unless the server ends a socket with this one.
LogsResume ==
    (<>[](OnDeploymentPage /\ logs.token = cookie /\ Authorized /\ ~TurnedAway))
      => []<>logs.connected
===============================================================================
