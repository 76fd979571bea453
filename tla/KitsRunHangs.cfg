SPECIFICATION Spec
CONSTANTS
  PipeSize = 1
  MaxLines = 1
  MaxRuns = 1
PROPERTY TimeoutBoundsRun
CHECK_DEADLOCK FALSE
