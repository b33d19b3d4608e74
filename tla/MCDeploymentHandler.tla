--------------------------- MODULE MCDeploymentHandler ---------------------------
(***************************************************************************)
(* DeploymentHandler for TLC: the symmetry of ids and requests, used by    *)
(* the runs that check no liveness.                                        *)
(***************************************************************************)
EXTENDS DeploymentHandler, TLC

Symmetry == Permutations(Ids) \cup Permutations(Deploys) \cup Permutations(Stops)
================================================================================
