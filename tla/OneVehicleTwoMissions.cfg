\* One call at a time: two missions that name one vehicle.
CONSTANTS
  c1 = c1
  c2 = c2
  c3 = c3
  c4 = c4
  c5 = c5
  k1 = k1
  k2 = k2
  none = none
  None = none
  Calls = {c1, c2, c3, c4}
  Kinds <- OneKind
  Users <- Planner
  RoleOf <- PlannerRole
  Keys = {k1, k2}
  Payloads <- TwoBodies
  Targets <- WorkTargets
  Versions = {1, 2, 3}
  Hubs <- HubIds
  Assets <- AssetIds
  ForeignKeys <- OnEveryConnection
  Uncalled <- NothingUncalled
  Retention = 1
  MaxInFlight = 1
  MaxTime = 0
SPECIFICATION Spec
SYMMETRY CallSymmetry
INVARIANT OneMissionPerVehicle
CHECK_DEADLOCK FALSE
