\* Three calls on one seeded hub, and a walk with pages of one or two assets.
CONSTANTS
  c1 = c1
  c2 = c2
  c3 = c3
  c4 = c4
  None = None
  Calls = {c1, c2, c3}
  SeededHubs = {"WUH"}
  HubCodes = {"NKG"}
  Numbers = {1, 2}
  Targets = {"maintenance", "retired"}
  Versions = {1, 2}
  PageSizes <- Limits
  MaxLimit = 2
  UsualLimit = 2
SPECIFICATION Spec
SYMMETRY CallSymmetry
INVARIANTS
  TypeOK
  RepliesTellTheTruth
  WalkMissesNothing
PROPERTIES
  ImplementsLedger
CHECK_DEADLOCK FALSE
