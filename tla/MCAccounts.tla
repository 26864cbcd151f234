----------------------------- MODULE MCAccounts -----------------------------
(* Accounts on a small instance: the values are in the cfg file.           *)
EXTENDS Accounts, TLC

\* Sessions and request slots are interchangeable.
Symmetry == Permutations(Sessions) \union Permutations(Calls)
=============================================================================
