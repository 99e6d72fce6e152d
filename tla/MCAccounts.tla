----------------------------- MODULE MCAccounts -----------------------------
(* Instances of Accounts for TLC.  Handlers run the same code, and nothing *)
(* orders usernames: both sets are symmetric.                              *)
EXTENDS Accounts, TLC

Symmetry == Permutations(Procs) \cup Permutations(Names)
=============================================================================
