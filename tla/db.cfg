SPECIFICATION Spec
CONSTANTS
  Bucket = 2
  Hour = 2
  Day = 3
  Retention = 4
  MaxTime = 5
  RecentLimit = 1
  MaxRows = 2
  MaxChannel = 2
  Readers = {d1}
INVARIANTS
  TypeOK
  CleanedStaysClean
  RowsInSendOrder
  SummaryAddsUp
PROPERTY
  KeptForRetention
