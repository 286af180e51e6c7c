\* Three calls on one service, all in flight at once: creates that share keys
\* and numbers, transitions that race for one row, crashes and faults.
CONSTANTS
  c1 = c1
  c2 = c2
  c3 = c3
  c4 = c4
  c5 = c5
  k1 = k1
  k2 = k2
  none = none
  None = none
  Calls = {c1, c2, c3}
  Kinds <- OneKind
  Users <- Planners
  RoleOf <- PlannersRole
  Keys = {k1, k2}
  Payloads <- TwoNumbers
  Targets <- RaceTargets
  Versions = {1, 2}
  Hubs <- HubIds
  Assets <- AssetIds
  ForeignKeys <- OnEveryConnection
  Uncalled <- NothingUncalled
  Retention = 1
  MaxInFlight = 3
  MaxTime = 1
SPECIFICATION Spec
SYMMETRY Symmetry
INVARIANTS
  TypeOK
  OneRowPerKey
  AcknowledgedCreateExists
  RepliesTellTheTruth
  OneWriterPerVersion
PROPERTY ImplementsLedger
CHECK_DEADLOCK FALSE
