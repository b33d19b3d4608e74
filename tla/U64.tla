---------------------------------- MODULE U64 ----------------------------------
(***************************************************************************)
(* Arithmetic of the on-chain programs.  Their counters and amounts are    *)
(* u64, and what an operation that does not fit does is a property of the  *)
(* build: the workspace Cargo.toml has no [profile.release] section, so a  *)
(* release build wraps around; with overflow-checks set (a debug build, or *)
(* the key Anchor asks for) the operation panics and the transaction is    *)
(* rolled back, which leaves every account as it was.  Both builds are     *)
(* modelled: OverflowChecks says which, and an instruction is guarded by   *)
(* Fits and assigns through Wrap.                                          *)
(*                                                                         *)
(* U64Max is 2^64 - 1 in the programs.  It is a parameter because TLC      *)
(* counts in 32 bits, and because a small width makes it reach the limit.  *)
(***************************************************************************)
EXTENDS Integers

CONSTANTS U64Max, OverflowChecks

ASSUME U64Assumption == /\ U64Max \in Nat \ {0}
                        /\ OverflowChecks \in BOOLEAN

U64 == 0..U64Max

\* The operation with mathematical result x does not panic.
Fits(x) == OverflowChecks => x <= U64Max

\* What is stored of the mathematical result x.
Wrap(x) == x % (U64Max + 1)
================================================================================
