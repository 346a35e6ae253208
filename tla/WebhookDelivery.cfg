SPECIFICATION FairSpec
CONSTANTS
  e1 = e1
  e2 = e2
  d1 = d1
  d2 = d2
  d3 = d3
  w1 = w1
  w2 = w2
  r1 = r1
  r2 = r2
  NoEvent = NoEvent
  NoDelivery = NoDelivery
  Event <- MCEvent
  Unpostable <- MCUnpostable
  Delivery <- MCDelivery
  Worker <- MCWorker
  Request <- MCRequest
  MaxAttempts = 2
  BatchSize = 2
  MaxReplays = 2
  MaxAborts = 1
INVARIANTS
  DeliveredWasAccepted
  AttemptsTellTheStatus
  ResolvedWasDelivered
  NothingLost
PROPERTIES
  EverythingSettles
  ImplementsQueue
CHECK_DEADLOCK FALSE
