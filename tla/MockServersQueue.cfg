SPECIFICATION FairSpec
CONSTANTS
  None = None
  A = A
  B = B
  x = x
  y = y
  q1 = q1
  q2 = q2
  m1 = m1
  m2 = m2
  Servers <- One
  Endpoints <- OneEndpoint
  Queues <- OneQueue
  Configs <- Plain
  Listeners <- TwoListeners
  Messages <- TwoMessages
  MaxBatch = 2
  MaxEdits = 1
  MaxExpiries = 1
  MaxFailures = 1
  MaxCrashes = 0
INVARIANTS
  HandledBeforeAck
PROPERTIES
  OldListenersEnd
  Consumed
CHECK_DEADLOCK FALSE
