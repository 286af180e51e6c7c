\* An event whose attempts are used up is tried again a day later.
CONSTANTS
  o1 = o1
  o2 = o2
  Objects = {o1}
  MaxAttempts = 2
  Day = 3
  Limit = 2
  MaxEvents = 1
  Topics <- OneStep
  MaxAge = 1
SPECIFICATION Spec
INVARIANT FailureIsPermanent
CHECK_DEADLOCK FALSE
