----------------------------- MODULE MCAccounts -----------------------------
(***************************************************************************)
(* Instances of sign-in and registration.                                   *)
(***************************************************************************)
EXTENDS Accounts, TLC

Symmetry == Permutations(Worker)
=============================================================================
