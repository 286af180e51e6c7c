--------------------------- MODULE MCReservations ---------------------------
(***************************************************************************)
(* Three calls, each a reserve, a release or an expiry, on one resource.   *)
(* Calls are interchangeable.                                              *)
(***************************************************************************)
EXTENDS Reservations, TLC

CONSTANTS c1, c2, c3, c4

CallSymmetry == Permutations(Calls)

\* Windows: two that touch, some that cross or nest, some too long, empty or reversed.
Clock == 0 .. 3

=============================================================================
