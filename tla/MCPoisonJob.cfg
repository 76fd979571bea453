SPECIFICATION Spec
CONSTANTS
  NumJobs = 4
  Workers = {w1, w2}
  MaxAttempts = 3
  Fate <- MixedFates
PROPERTY OlderJobsSettle
