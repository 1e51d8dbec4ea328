SPECIFICATION FairSpec
CONSTANTS
  a1 = a1
  a2 = a2
  l1 = l1
  NUM_OF_ACCESSES = 2
  HEADER = 1
  Accesses = {a1, a2}
  hash_value <- MCHash
  Locks = {l1}
  MaxLog = 5
  MaxRecords = 3
INVARIANTS
  DumpsExclusive
  IntervalsOnFile
  DamageBounded
  AccessLoggedInInterval
PROPERTIES
  HandlersReturn
  ImplementsIntervalLog
CHECK_DEADLOCK FALSE
