SPECIFICATION FairSpec
CONSTANTS
  j1 = j1
  j2 = j2
  w1 = w1
  w2 = w2
  NoJob = NoJob
  Jobs <- TwoJobs
  Workers <- TwoWorkers
  MaxAttempts = 2
  FailureLimit = 2
  Managed = FALSE
  MayInterrupt = TRUE
  PrintsFail = FALSE
INVARIANTS Accounting NothingForgotten ExclusiveRun HonestExit
PROPERTIES NoRework PromptStop
CHECK_DEADLOCK FALSE
