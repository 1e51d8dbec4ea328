SPECIFICATION CopySpec
CONSTANTS
  Keys = {2, 3, 7, 10}
  SET_SIZE = 2
  Capacity = 3
  CopyKeys = {10}
  Reserves = {3}
INVARIANTS
  LookupExact
  LoopsEnd
  CopyExact
  WalksExact
PROPERTY
  ImplementsKeySet
