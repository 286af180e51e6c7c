-------------------------- MODULE ReservationBook ---------------------------
(***************************************************************************)
(* What the reservation service promises: a book in which no instant of a  *)
(* resource is ever held twice, and in which a reservation, once made, can *)
(* only be given up by its holder or lapse after its window.  There are no *)
(* transactions here; Reservations implements this module.                 *)
(***************************************************************************)
EXTENDS Integers

CONSTANTS Ids, Resources, Instants

VARIABLES clock, book   \* book \in [Ids -> entry]

bookVars == <<clock, book>>

\* The instants of the half-open window of an entry.
Covered(e) == e.from .. e.to - 1

Holders(resource) ==
  {i \in Ids : book[i].status = "active" /\ book[i].resource = resource}

Blank(i) == book[i].status = "none"

-----------------------------------------------------------------------------
Init ==
  /\ clock = 0
  /\ \A i \in Ids : Blank(i)

Reserve(i, resource, from, to) ==
  /\ Blank(i)
  /\ from < to
  /\ \A j \in Holders(resource) : Covered(book[j]) \cap (from .. to - 1) = {}
  /\ book' = [book EXCEPT
       ![i] = [resource |-> resource, from |-> from, to |-> to,
               status |-> "active"]]
  /\ UNCHANGED clock

Release(i) ==
  /\ book[i].status = "active"
  /\ book' = [book EXCEPT ![i].status = "released"]
  /\ UNCHANGED clock

\* The lapse of some reservations whose windows are over.
Lapse(lapsed) ==
  /\ \A i \in lapsed : book[i].status = "active" /\ book[i].to <= clock
  /\ book' = [i \in Ids |->
       IF i \in lapsed THEN [book[i] EXCEPT !.status = "expired"]
                       ELSE book[i]]
  /\ UNCHANGED clock

Pass ==
  /\ clock' = clock + 1
  /\ UNCHANGED book

Next ==
  \/ \E i \in Ids, resource \in Resources, from, to \in Instants :
       Reserve(i, resource, from, to)
  \/ \E i \in Ids : Release(i)
  \/ \E lapsed \in SUBSET Ids : Lapse(lapsed)
  \/ Pass

Spec == Init /\ [][Next]_bookVars

=============================================================================
