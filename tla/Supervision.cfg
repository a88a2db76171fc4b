SPECIFICATION SupSpec
CONSTANTS
  EntryRange = 1
  Whitelist = {}
  Timeout = 2
  Axes = 2
INVARIANTS
  TypeOK
  SafeServedThisPeriod
  SupTypeOK
PROPERTIES
  NominalOnlyWhenSafe
  SafeRequestHonoured
  StandbyEnds
  NominalSampleForgotten
  SafeEntryCounted
  RecordInOrder
