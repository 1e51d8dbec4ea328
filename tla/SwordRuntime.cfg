SPECIFICATION Spec
CONSTANTS
  Threads = {0, 1, 2}
  Programs <- MCPrograms
INVARIANTS
  ComparedIffConcurrent
  ObjectsExact
  StatusIsLevel
PROPERTIES
  ThreadLogs
CHECK_DEADLOCK FALSE
