SPECIFICATION Spec
CONSTANTS
  NumJobs = 1
  Workers = {w1}
  MaxAttempts = 3
  Fate <- KillerFate
PROPERTY BrokenJobsAreDropped
