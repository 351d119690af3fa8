SPECIFICATION Spec
CONSTANTS
  Suites <- MCSuites
  MaxVersion = 2
INVARIANTS
  TypeOK
  VerdictSound
  AbortIsFinal
  TornDown
  NoVacuousSuccess
  LocalIsolation
  SettledWhenVisible
PROPERTIES
  GlobalsFrozenInTests
  LifecycleRefined
CHECK_DEADLOCK FALSE
