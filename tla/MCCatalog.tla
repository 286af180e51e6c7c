----------------------------- MODULE MCCatalog ------------------------------
(***************************************************************************)
(* Calls that create hubs and assets and change assets' states, next to a  *)
(* client that walks through the list.  Calls are interchangeable.         *)
(***************************************************************************)
EXTENDS Catalog, TLC

CONSTANTS c1, c2, c3, c4

CallSymmetry == Permutations(Calls)

\* Page sizes: one, two, and one out of range.
Limits == {1, 2, 0}

=============================================================================
