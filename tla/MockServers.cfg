SPECIFICATION Spec
CONSTANTS
  None = None
  A = A
  B = B
  x = x
  y = y
  q1 = q1
  q2 = q2
  m1 = m1
  m2 = m2
  Servers <- Both
  Endpoints <- TwoEndpoints
  Queues <- OneQueue
  Configs <- Moving
  Listeners <- TwoListeners
  Messages <- NoMessages
  MaxBatch = 1
  MaxEdits = 3
  MaxExpiries = 0
  MaxFailures = 2
  MaxCrashes = 1
INVARIANTS
  SettledIsServed
CHECK_DEADLOCK FALSE
