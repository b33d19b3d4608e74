------------------------------ MODULE MCEpochRounds ------------------------------
(***************************************************************************)
(* EpochRounds for TLC.  The wallets are interchangeable.                  *)
(***************************************************************************)
EXTENDS EpochRounds, TLC

Symmetry == Permutations(Wallets)
=================================================================================
