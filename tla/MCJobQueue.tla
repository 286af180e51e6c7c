---------------------------- MODULE MCJobQueue ----------------------------
(***************************************************************************)
(* Runners of two processes that hold leases under names of their own, and *)
(* one runner with more jobs than slots.                                   *)
(***************************************************************************)
EXTENDS JobQueue

CONSTANTS r1, r2, j1, j2

OwnName == [r \in Runners |-> IF r = r1 THEN "a" ELSE "b"]

=============================================================================
