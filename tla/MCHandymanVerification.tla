----------------------- MODULE MCHandymanVerification -----------------------
(* Instances of HandymanVerification for TLC. *)
EXTENDS HandymanVerification, TLC

\* Admins, generated ids and slots are interchangeable.
Symmetry == Permutations(Admins) \cup Permutations(Docs) \cup Permutations(Slots)
=============================================================================
