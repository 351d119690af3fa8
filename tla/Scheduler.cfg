SPECIFICATION MCSpec
CONSTANTS
  Schedules <- TwoSchedules
  Plans <- OneWindow
  MaxTime = 3
  MaxRuns = 3
  MaxManual = 2
  MaxFailures = 2
INVARIANTS
  NoBurst
PROPERTIES
  NoSelfActivation
  DueIsServed
