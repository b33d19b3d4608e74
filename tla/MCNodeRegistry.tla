----------------------------- MODULE MCNodeRegistry -----------------------------
(***************************************************************************)
(* NodeRegistry for TLC: the reports of an idle and of a busy machine, and *)
(* the symmetry of wallets and deployments.                                *)
(***************************************************************************)
EXTENDS NodeRegistry, TLC

\* More of everything than the score counts, and next to nothing.
IdleMachine == [cpu_idle |-> 110, memory_available_mb |-> 8192,
                disk_available_gb |-> 200, download_speed_mbps |-> 300]
BusyMachine == [cpu_idle |-> 3, memory_available_mb |-> 136,
                disk_available_gb |-> 4, download_speed_mbps |-> 9]

MCMetrics == {IdleMachine, BusyMachine}

Symmetry == Permutations(Wallets) \cup Permutations(DeploymentIds)
=================================================================================
