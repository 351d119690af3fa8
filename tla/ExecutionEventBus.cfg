SPECIFICATION FairSpec
CONSTANTS
  c1 = c1
  c2 = c2
  Clients <- MCClients
  HistorySize = 2
  QueueSize = 2
  MaxFrames = 5
INVARIANTS
  FaithfulStream
  OpenIsRegistered
CHECK_DEADLOCK FALSE
PROPERTIES
  StreamsEnd
  ListenerLearns
