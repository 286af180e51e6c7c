\* Four calls, two at a time: an object goes from its plan to its completion,
\* with a dispatcher, a field operator and an auditor.
CONSTANTS
  c1 = c1
  c2 = c2
  c3 = c3
  c4 = c4
  c5 = c5
  k1 = k1
  k2 = k2
  none = none
  None = none
  Calls = {c1, c2, c3, c4}
  Kinds <- OneKind
  Users <- Crew
  RoleOf <- CrewRole
  Keys = {k1}
  Payloads <- OneBody
  Targets <- WorkTargets
  Versions = {1, 2, 3}
  Hubs <- HubIds
  Assets <- AssetIds
  ForeignKeys <- OnEveryConnection
  Uncalled <- NothingUncalled
  Retention = 1
  MaxInFlight = 2
  MaxTime = 0
SPECIFICATION Spec
SYMMETRY CallSymmetry
INVARIANTS
  CompletionTakesTwoRoles
  EventsRebuildRows
PROPERTIES
  EndedStaysEnded
CHECK_DEADLOCK FALSE
