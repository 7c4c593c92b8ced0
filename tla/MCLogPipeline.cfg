SPECIFICATION LogFairSpec
CONSTANTS
  MaxRuns = 2
  MaxLines = 2
  PipeSize = 1
INVARIANTS LogTypeOK NoHoles RecordsWhole
PROPERTY LinesShown
CHECK_DEADLOCK FALSE
