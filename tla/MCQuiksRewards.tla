---------------------------- MODULE MCQuiksRewards ----------------------------
(***************************************************************************)
(* QuiksRewards for TLC: the symmetry of the wallets.                      *)
(***************************************************************************)
EXTENDS QuiksRewards, TLC

Symmetry == Permutations(Wallets)
===============================================================================
