SPECIFICATION FairSpec
CONSTANTS
  Intervals <- MCIntervals
  Races <- MCRaces
  Modes = {"local", "cluster"}
  MaxRaces <- MCMaxRaces
INVARIANTS
  RacyRegionsShow
  PrintedExactly
  IntervalsAnalyzed
PROPERTY
  Ends
