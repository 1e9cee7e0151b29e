----------------------------- MODULE MCCatalogue -----------------------------
(* Instances of Catalogue for TLC. *)
EXTENDS Catalogue, TLC

CONSTANTS plumbing, Plumbing, tiling

\* Two spellings of one slug, and another.
MCNames == {plumbing, Plumbing, tiling}
MCSlugOf == [n \in MCNames |-> IF n = Plumbing THEN plumbing ELSE n]

\* Neither the code nor the property tells categories, or requests in the server, apart.
Symmetry == Permutations(Categories) \cup Permutations(Handlers)
=============================================================================
