\* One process, two jobs and one slot; every job ends.
CONSTANTS
  r1 = r1
  r2 = r2
  j1 = j1
  j2 = j2
  None = None
  Owner <- OwnName
  Runners = {r1}
  Jobs = {j1, j2}
  Tasks = {1, 2}
  Limits = {1}
  Delays = {0}
  Lease = 2
  Concurrency = 1
  MaxAge = 1
SPECIFICATION FairSpec
INVARIANTS
  OneHandlerPerJob
PROPERTY
  EveryJobEnds
CHECK_DEADLOCK FALSE
