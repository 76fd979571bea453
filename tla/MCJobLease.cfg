SPECIFICATION Spec
CONSTANTS
  NumJobs = 1
  Workers = {w1, w2}
  NumStages = 2
  MaxAttempts = 2
  MaxEpoch = 3
  MaxNet = 2
SYMMETRY WorkerSymmetry
INVARIANTS TypeOK OneHolder AdmittedPushHoldsRow StagesInOrder
  CompleteHasAllStages AttemptsBounded NothingForgotten StageRecordedOnce
PROPERTY ImplementsLedger
