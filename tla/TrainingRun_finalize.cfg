SPECIFICATION Spec
CONSTANTS
  Ranks = {r0, r1}
  BatchesPerEpoch = 4
  NumEpochs = 2
  MaxSteps = 0
  GradAccum = 1
  SaveSteps = 2
  KeepLastK = 2
  FullStates = TRUE
  CrashInFinish = TRUE
  MaxCrashes = 1
INVARIANTS LatestComplete
CHECK_DEADLOCK FALSE
