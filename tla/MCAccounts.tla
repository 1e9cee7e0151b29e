----------------------------- MODULE MCAccounts -----------------------------
(* Instances of Accounts for TLC. *)
EXTENDS Accounts, TLC

\* Addresses, tokens, roles and slots are interchangeable.
Symmetry == Permutations(Users) \cup Permutations(Links) \cup Permutations(Roles)
                \cup Permutations(Slots)
=============================================================================
