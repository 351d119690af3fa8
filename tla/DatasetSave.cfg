SPECIFICATION DatasetSpec
CONSTANTS
  Null = Null
  Invalid = Invalid
  Tables = {"t1", "t2"}
  Schema <- MCSchema
  ApiPerimeters <- MCApiPerimeters
  TypedConditions <- MCConditions
  TypedColumns <- MCColumns
  TypedGroups <- MCGroups
  TypedRows <- MCRows
  TypedSorts <- MCSorts
  MaxClicks = 4
  MaxOthers = 0
  MaxFailures = 0
PROPERTIES SaveStores
CHECK_DEADLOCK FALSE
