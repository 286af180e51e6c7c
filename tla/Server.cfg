\* Two boots with a crash at any statement, a login and two requests.
CONSTANTS
  None = None
  Calls = {1, 2, 3}
  Users = {"dispatcher"}
  UserNames <- OneUser
  TTL = 1
  MaxTime = 1
  Slots = 1
  Batch = 1
  MaxBoots = 2
SPECIFICATION Spec
INVARIANTS
  TypeOK
  EndedSessionAdmitsNobody
  RefusedOnlyIfEnded
  OneLogoutWins
  CloseIsOrderly
  StartupIsRestartable
PROPERTIES
  ShutdownCompletes
CHECK_DEADLOCK FALSE
