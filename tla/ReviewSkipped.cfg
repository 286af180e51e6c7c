\* One call at a time: an inspection, from plan to completion.
CONSTANTS
  c1 = c1
  c2 = c2
  c3 = c3
  c4 = c4
  c5 = c5
  k1 = k1
  k2 = k2
  none = none
  None = none
  Calls = {c1, c2, c3, c4}
  Kinds <- InspectionOnly
  Users <- Crew
  RoleOf <- CrewRole
  Keys = {k1}
  Payloads <- OneBody
  Targets <- WorkTargets
  Versions = {1, 2, 3}
  Hubs <- HubIds
  Assets <- AssetIds
  ForeignKeys <- OnEveryConnection
  Uncalled <- NothingUncalled
  Retention = 1
  MaxInFlight = 1
  MaxTime = 0
SPECIFICATION Spec
SYMMETRY CallSymmetry
INVARIANT InspectionReviewedBeforeCompletion
CHECK_DEADLOCK FALSE
