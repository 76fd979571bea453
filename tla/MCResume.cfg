SPECIFICATION Spec
CONSTANTS
  Workers = {w1, w2}
  NoWorker = NoWorker
  MaxAttempts = 2
SYMMETRY Symmetry
INVARIANTS TypeOK LocalResumeIsExact TranscriptIsTheStoredSrt ServedFramesExist
  SingingIsSeparated
CHECK_DEADLOCK FALSE
