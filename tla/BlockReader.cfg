SPECIFICATION Spec
CONSTANTS
  HEADER = 2
  WORD = 32
  MAX_LEN = 3
  Locks = {l1}
  Garbage = {0, 3, 29, 30, 31}
  MaxItems = 4
  MaxBlocks = 3
INVARIANTS
  NoFalseError
  ReadsExactly
  MutexesAttached
