SPECIFICATION MCSpec
CONSTANTS
  MaximumNumberOfSuffix = 4
  Exhausted = Exhausted
  Classes <- MCClasses
  Types <- MCTypes
  Operations <- MCOperations
  ReservedWords <- MCReserved
  JsKeywords <- MCKeywords
  SkipValidation = TRUE
  MaxNames = 5
  Lists <- MCLists
  Format <- MCFormat
  OpenApiReservedWords <- MCOpenApiReserved
INVARIANTS AllTypes NamesDiffer ResultIsUnique ProperNamesStay
PROPERTIES ConflictOnlyWhenTaken
CHECK_DEADLOCK FALSE
