------------------------------- MODULE MCReferral -------------------------------
(***************************************************************************)
(* Referral for TLC: the symmetry of the wallets.                          *)
(***************************************************************************)
EXTENDS Referral, TLC

Symmetry == Permutations(Wallets)
=================================================================================
