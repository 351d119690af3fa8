SPECIFICATION ConsoleSpec
CONSTANTS
  BodyEquals <- PyEqual
  BodyContains <- JsonContains
  Null = Null
  Invalid = Invalid
  Ref = Ref
  Tables = {"t1", "t2"}
  Schema <- MCSchema
  ApiPerimeters <- MCApiPerimeters
  TypedConditions <- MCConditions
  TypedColumns <- MCColumns
  TypedGroups <- MCGroups
  TypedRows <- MCRows
  TypedSorts <- MCSorts
  MaxClicks = 4
  MaxOthers = 1
  MaxFailures = 1
  ApiDtos <- MCApiDtos
  ApiRequests <- MCApiRequests
  MaxSaves = 2
  MaxRequests = 2
  MaxRestarts = 1
  MaxFaults = 1
  Suites <- MCSuites
  Forms <- MCForms
  JsonEdits <- MCJsonEdits
  MaxEdits = 2
  MaxTests = 2
  MaxLosses = 1
  QueueMessages = {1, 2, 3}
  Unreadable = {3}
  QueueId = QueueId
  BrokerId = BrokerId
  MaxReaders = 2
  MaxEmpty = 2
  MaxRows = 1
  MaxMishaps = 1
INVARIANTS
  StoredIsNormal AcceptedCompiles PageIsSaved OpeningShowsStored
  ServedAsSaved ContextIsOwn RunsAsSaved
  OpeningKeepsRefs OffersAccepted SavedIsShown
  HiddenIsSaved ExportedOnce LatestIsStoppable
PROPERTIES
  StopReturns
CHECK_DEADLOCK FALSE
