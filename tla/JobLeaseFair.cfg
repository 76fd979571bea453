SPECIFICATION FairSpec
CONSTANTS
  NumJobs = 1
  Workers = {w1, w2}
  NumStages = 2
  MaxAttempts = 2
  MaxEpoch = 6
  MaxNet = 8
  MaxFaults = 1
PROPERTY EveryJobSettles
