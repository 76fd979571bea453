SPECIFICATION Spec
CONSTANTS
  PipeSize = 1
  MaxLines = 3
  MaxRuns = 2
INVARIANTS TypeOK NothingRunsOn LogIsWhole
PROPERTIES AcceptedSrtStays RunEnds
CHECK_DEADLOCK FALSE
