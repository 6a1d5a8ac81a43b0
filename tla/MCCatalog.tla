---------------------------- MODULE MCCatalog ----------------------------
(***************************************************************************)
(* One plugin to begin with, and room for a second one.                    *)
(***************************************************************************)
EXTENDS Catalog, TLC

CONSTANTS p1, p2, n1

MCFirstPlugins ==
  p1 :> [slug |-> n1, status |-> "active"] @@ p2 :> [slug |-> Nothing, status |-> "absent"]

Symmetry == Permutations(Pod) \cup Permutations(Call) \cup Permutations(Version)
=============================================================================
