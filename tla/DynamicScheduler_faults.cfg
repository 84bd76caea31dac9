SPECIFICATION FairSpec
CONSTANTS
  j1 = j1
  j2 = j2
  w1 = w1
  w2 = w2
  NoJob = NoJob
  Jobs <- TwoJobs
  Workers <- TwoWorkers
  MaxAttempts = 2
  FailureLimit = 1
  Managed = TRUE
  MayInterrupt = FALSE
  PrintsFail = TRUE
INVARIANTS NoOrphans
PROPERTIES Terminates
CHECK_DEADLOCK FALSE
