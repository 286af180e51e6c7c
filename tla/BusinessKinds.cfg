\* Two calls on any of the six services, with what nothing in production calls:
\* Prune, Cancel and DeleteDraft.  The key expires after one tick.
CONSTANTS
  c1 = c1
  c2 = c2
  c3 = c3
  c4 = c4
  c5 = c5
  k1 = k1
  k2 = k2
  none = none
  None = none
  Calls = {c1, c2}
  Kinds <- EveryKind
  Users <- Planner
  RoleOf <- PlannerRole
  Keys = {k1}
  Payloads <- EveryResource
  Targets <- CancelOnly
  Versions = {1}
  Hubs <- HubIds
  Assets <- AssetIds
  ForeignKeys <- OnSomeConnections
  Uncalled <- EverythingUncalled
  Retention = 1
  MaxInFlight = 2
  MaxTime = 1
SPECIFICATION Spec
SYMMETRY CallSymmetry
INVARIANTS
  AcknowledgedCreateExists
PROPERTIES
  EndedStaysEnded
  ImplementsLedger
CHECK_DEADLOCK FALSE
