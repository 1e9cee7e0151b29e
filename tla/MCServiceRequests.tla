------------------------- MODULE MCServiceRequests -------------------------
(* Instances of ServiceRequests for TLC. *)
EXTENDS ServiceRequests, TLC

\* Handymen, customers, slots and the contents of a request are interchangeable.
Symmetry == Permutations(Handymen) \cup Permutations(Slots)
              \cup Permutations(Customers) \cup Permutations(Requests)
              \cup Permutations(Details)
=============================================================================
