\* Windows over four instants: equal, crossing, nested, touching, too long,
\* empty and reversed ones.
CONSTANTS
  c1 = c1
  c2 = c2
  c3 = c3
  c4 = c4
  None = None
  Calls = {c1, c2, c3}
  Resources = {"van"}
  Instants <- Clock
  Versions = {1, 2}
  Limits = {1, 2}
  MaxWindow = 2
  MaxTime = 2
SPECIFICATION Spec
SYMMETRY CallSymmetry
INVARIANTS
  TypeOK
  NoDoubleBooking
  TrailTellsTheBook
PROPERTIES
  ConflictsAreReal
  ImplementsBook
CHECK_DEADLOCK FALSE
