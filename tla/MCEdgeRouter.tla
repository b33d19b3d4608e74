----------------------------- MODULE MCEdgeRouter -----------------------------
(***************************************************************************)
(* EdgeRouter for TLC: the values a cfg cannot write.                      *)
(***************************************************************************)
EXTENDS EdgeRouter

\* A subdomain and a custom domain of one deployment, and an infrastructure host.
MCDeploymentOf == [h \in Hosts |-> IF h \in {"app", "custom"} THEN "d1" ELSE NoDeployment]

MCBackendLists == {<<>>, <<1, 2>>, <<1, 2, 3>>}
===============================================================================
