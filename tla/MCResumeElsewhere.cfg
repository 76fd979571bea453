SPECIFICATION Spec
CONSTANTS
  Workers = {w1, w2}
  NoWorker = NoWorker
  MaxAttempts = 2
INVARIANT ResumeIsExact
CHECK_DEADLOCK FALSE
