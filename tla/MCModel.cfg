SPECIFICATION Spec
CONSTANTS
  None = None
  TrainingRanks = {r0, r1}
  NumEpochs = 2
  GradAccum = 2
  MaxCrashes = 2
  AlignedBatches = 4
  AlignedMaxSteps = 0
  AlignedSaveSteps = 2
  AlignedKeepLastK = 2
  CyclesBatches = 5
  CyclesMaxSteps = 9
  CyclesSaveSteps = 3
  CyclesKeepLastK = 1
  Mixtures <- ManyMixtures
  PlanMinLength = 2
  PlanScale = 6
  PlanMaxCrashes = 1
  Datasets <- ManyDisks
  WindowFrames = 3
  WindowStrides <- ManyStrides
  MaxTries = 3
  Jobs = {j1, j2}
  LastRank = 1
  Roots = 2
  Unreadable = {1}
  StatsSources = {"robotwin", "ebench", "gr1", "pooled"}
  MaxVersion = 2
  MaxLaunches = 3
  Together = {"ebench", "gr1"}
  FlowFrames = 3
  FlowLayers = 3
  DenoisingSteps = 5
  MaxSkips = 2
  MaxRuns = 2
INVARIANTS Artifacts ExactTraining FairBudget EpochExact Aligning Exhaustive PooledStats OneTransform TrainDeployAligned ClosedWays OnSchedule FreshPredictions
PROPERTIES Durable Lockstep BuildReturns
CHECK_DEADLOCK FALSE
