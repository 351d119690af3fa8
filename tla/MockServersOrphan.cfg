SPECIFICATION Spec
CONSTANTS
  None = None
  A = A
  B = B
  x = x
  y = y
  q1 = q1
  q2 = q2
  m1 = m1
  m2 = m2
  Servers <- One
  Endpoints <- OneEndpoint
  Queues <- TwoQueues
  Configs <- Twofold
  Listeners <- ThreeListeners
  Messages <- NoMessages
  MaxBatch = 1
  MaxEdits = 1
  MaxExpiries = 0
  MaxFailures = 1
  MaxCrashes = 0
INVARIANTS
  ListenersOnlyWhenActive
CHECK_DEADLOCK FALSE
