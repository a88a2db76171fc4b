SPECIFICATION Spec
CONSTANTS
  Capacity = 3
  IdRange = 5
  MaxTime = 1
  MaxInserts = 5
  MaxActions = 1
  None = None
INVARIANTS
  TypeOK
  UniqueIds
  NothingOverdue
PROPERTIES
  RefinesTimeTagged
  TiesInOrderUntilWrap
  DueIsReleased
