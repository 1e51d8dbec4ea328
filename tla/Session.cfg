SPECIFICATION Spec
CONSTANTS
  Default = "sword_data"
  Paths = {"sword_data", "data/", "far/data"}
  Slashed = {"data/"}
  NoParent = {"far/data"}
  Regions = {1}
  MaxRuns = 3
  MaxWork = 3
  PRINT = FALSE
  Lines <- MCLines
INVARIANTS
  TracesOfOneRun
  LastTraceKept
PROPERTY
  PrintsCurrent
CHECK_DEADLOCK FALSE
