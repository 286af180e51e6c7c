\* Three events of one object, more than a batch; a refusal parks an event for
\* a day, and every event is published in the end.
CONSTANTS
  o1 = o1
  o2 = o2
  Objects = {o1}
  MaxAttempts = 1
  Day = 3
  Limit = 2
  MaxEvents = 3
  Topics <- OneReservation
  MaxAge = 1
SPECIFICATION FairSpec
INVARIANTS
  TypeOK
  MarksAreTrue
  DeliveredOnceUnlessMarkLost
  OvertakesHaveReasons
PROPERTY
  EveryEventPublished
CHECK_DEADLOCK FALSE
