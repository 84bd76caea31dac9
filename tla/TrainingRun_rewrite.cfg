SPECIFICATION Spec
CONSTANTS
  Ranks = {r0, r1}
  BatchesPerEpoch = 5
  NumEpochs = 2
  MaxSteps = 9
  GradAccum = 2
  SaveSteps = 3
  KeepLastK = 1
  FullStates = TRUE
  CrashInFinish = FALSE
  MaxCrashes = 2
INVARIANTS LatestComplete
CHECK_DEADLOCK FALSE
