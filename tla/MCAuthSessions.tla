--------------------------- MODULE MCAuthSessions ---------------------------
(* Instances of AuthSessions for TLC. *)
EXTENDS AuthSessions, TLC

\* Generated ids, tokens and slots are interchangeable.
Symmetry == Permutations(Users) \cup Permutations(Tokens) \cup Permutations(Slots)
=============================================================================
