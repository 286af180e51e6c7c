--------------------------- MODULE MCOutboxWorker ---------------------------
(***************************************************************************)
(* The events of one or two objects.                                       *)
(***************************************************************************)
EXTENDS OutboxWorker, TLC

CONSTANTS o1, o2

\* A reservation for the object between two steps of its life cycle.
OneReservation == <<"lifecycle", "other", "lifecycle">>

OneStep == <<"lifecycle">>

=============================================================================
