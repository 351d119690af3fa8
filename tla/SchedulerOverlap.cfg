SPECIFICATION MCSpec
CONSTANTS
  Schedules <- OneSchedule
  Plans <- OnePlan
  MaxTime = 2
  MaxRuns = 2
  MaxManual = 0
  MaxFailures = 0
INVARIANTS
  NoOverlap
