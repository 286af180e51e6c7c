\* Two processes compete for one job; leases lapse under running handlers.
CONSTANTS
  r1 = r1
  r2 = r2
  j1 = j1
  j2 = j2
  None = None
  Owner <- OwnName
  Runners = {r1, r2}
  Jobs = {j1}
  Tasks = {1, 2, 3}
  Limits = {1, 2}
  Delays = {0, 1}
  Lease = 2
  Concurrency = 1
  MaxAge = 1
SPECIFICATION Spec
INVARIANTS
  TypeOK
  HandledOncePerAttempt
  CompletedWasHandled
PROPERTIES
  LeaseRespected
  ImplementsBoard
CHECK_DEADLOCK FALSE
