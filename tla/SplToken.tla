-------------------------------- MODULE SplToken --------------------------------
(***************************************************************************)
(* The SPL token program, as far as the programs of this repository and    *)
(* its scripts use it (it is a dependency, not part of the sources).  The  *)
(* programs call mint_to; the deployment script calls create-token, which  *)
(* makes its own wallet the mint authority, and mint.  A holder may burn.  *)
(* Transfers between holders change neither supply nor what was minted,    *)
(* and no instruction of the programs reads a balance: they are left out.  *)
(* The token program always checks its additions (checked_add).            *)
(***************************************************************************)
EXTENDS U64

CONSTANTS
    Mints,              \* mint accounts
    Wallets,            \* keys that sign: authorities, operators, users
    Pdas,               \* program derived addresses, which sign in a CPI only
    InitialAuthorities, \* who the mints may have been created under
    TokenAmounts        \* what a holder burns, or a wallet mints, at once

ASSUME SplTokenAssumption == /\ Wallets \cap Pdas = {}
                             /\ InitialAuthorities \subseteq Wallets \cup Pdas
                             /\ TokenAmounts \subseteq Nat \ {0}

VARIABLES
    mint_authority,     \* who may mint, per mint
    supply,             \* per mint
    balance             \* tokens in the accounts of an owner, per mint

token_vars == <<mint_authority, supply, balance>>

TokenTypeOK ==
    /\ mint_authority \in [Mints -> Wallets \cup Pdas]
    /\ supply \in [Mints -> U64]
    /\ balance \in [Mints -> [Wallets -> Nat]]

TokenInit ==
    /\ mint_authority \in [Mints -> InitialAuthorities]
    /\ supply = [m \in Mints |-> 0]
    /\ balance = [m \in Mints |-> [w \in Wallets |-> 0]]

\* mint_to of amount to an account of owner, signed by signer.
MintTo(m, signer, owner, amount) ==
    /\ mint_authority[m] = signer
    /\ supply[m] + amount <= U64Max
    /\ supply' = [supply EXCEPT ![m] = @ + amount]
    /\ balance' = [balance EXCEPT ![m][owner] = @ + amount]
    /\ UNCHANGED mint_authority

\* A holder burns tokens of its own.
Burn(m, owner, amount) ==
    /\ amount <= balance[m][owner]
    /\ amount <= supply[m]
    /\ supply' = [supply EXCEPT ![m] = @ - amount]
    /\ balance' = [balance EXCEPT ![m][owner] = @ - amount]
    /\ UNCHANGED mint_authority

\* spl-token authorize: the present authority hands the mint over.  A PDA
\* never signs one, since no program of the repository calls set_authority.
Authorize(m, signer, next) ==
    /\ signer \in Wallets
    /\ mint_authority[m] = signer
    /\ mint_authority' = [mint_authority EXCEPT ![m] = next]
    /\ UNCHANGED <<supply, balance>>

\* spl-token mint, run by a wallet that is the mint authority.
WalletMint(m, signer, owner, amount) ==
    /\ signer \in Wallets
    /\ MintTo(m, signer, owner, amount)
================================================================================
