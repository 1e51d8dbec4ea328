SPECIFICATION Spec
CONSTANTS
  Nodes = {1, 2, 3, 4, 5}
  Accesses <- MCAccesses
  STRIDE = 4
  MaxLoad <- MCMaxLoad
INVARIANTS
  SummariesExact
  ReportsAreConflicts
  PointConflictsReported
CHECK_DEADLOCK FALSE
