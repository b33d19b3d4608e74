---------------------------- MODULE DeploymentLogs ----------------------------
(***************************************************************************)
(* The log stream of a deployment's page: the hook useDeploymentLogs, with *)
(* its socket, and what the log viewer says of it.  Socket.io (external)   *)
(* reconnects by itself after a loss of the connection, but not after the  *)
(* server refused or ended it.  The lines are only ever appended, and are  *)
(* left out; receiving one renders the page.                               *)
(***************************************************************************)
EXTENDS Session

VARIABLE logs   \* the hook of the open page, if it has one

\* token: the dependency of the effect, as of the last rendering.
\* socket: what the effect opened, and the token it is open with.
\* connected: the state the viewer shows.
LogState ==
    [token: 0..MaxLogins,
     socket: [token: 0..MaxLogins, state: {"none", "connecting", "open", "refused"}],
     connected: BOOLEAN]

LogsTypeOK == logs \in LogState

NoSocket == [token |-> 0, state |-> "none"]

\* No page that shows logs is open.
Unmounted == [token |-> 0, socket |-> NoSocket, connected |-> FALSE]

\* io(...), unless there is no token.
Connecting(token) ==
    IF token = 0 THEN NoSocket ELSE [token |-> token, state |-> "connecting"]

Mounted(token) == [token |-> token, socket |-> Connecting(token), connected |-> FALSE]

LogsInit == logs = Unmounted
--------------------------------------------------------------------------------
\* Mutant: the token is missing from the dependencies of the effect.
AfterRenderIdOnly(h) == [h EXCEPT !.token = cookie]

\* Mutant: the handlers are taken off the old socket before it is disconnected.
AfterRenderSilent(h) ==
    IF h.token = cookie THEN h
      ELSE [h EXCEPT !.token = cookie, !.socket = Connecting(cookie)]

\* The page is rendered: with a new token the effect is cleaned up, where
\* disconnect() calls the handler of 'disconnect', and run again.
AfterRender(h) == IF h.token = cookie THEN h ELSE Mounted(cookie)

\* Whether the server may accept the token of the socket.
MayAccept(token) == token = logins => session # "expired"

\* 'connect', after which the page is rendered.
SocketOpens ==
    /\ logs.socket.state = "connecting" /\ MayAccept(logs.socket.token)
    /\ logs' = AfterRender([logs EXCEPT !.socket.state = "open", !.connected = TRUE])

\* The connection is lost: 'disconnect', and the socket tries again.
SocketDrops ==
    /\ logs.socket.state = "open"
    /\ logs' = AfterRender([logs EXCEPT !.socket.state = "connecting", !.connected = FALSE])

\* The server turns the socket away, or ends it, for its token or for reasons of its
\* own: it does not try again, and nothing takes its place.
SocketRefused ==
    \/ /\ logs.socket.state = "connecting"
       /\ logs' = [logs EXCEPT !.socket.state = "refused"]
    \/ /\ logs.socket.state = "open"
       /\ logs' = AfterRender([logs EXCEPT !.socket.state = "refused", !.connected = FALSE])

\* 'log', 'log:batch'
LogArrives ==
    /\ logs.socket.state = "open"
    /\ logs' = AfterRender(logs)

SocketStep == SocketOpens \/ SocketDrops \/ SocketRefused \/ LogArrives

\* What the viewer says.
Indicator == IF logs.connected THEN "Live" ELSE "Disconnected"
--------------------------------------------------------------------------------
\* The viewer says Live exactly while the socket of this page is open, also when
\* the token changes and another socket takes the place of the one that was open.
LiveMeansConnected == Indicator = "Live" <=> logs.socket.state = "open"
===============================================================================
