SPECIFICATION Spec
CONSTANTS
  None = None
  Models = {m1, m2}
  Procs = {1, 2, 3}
  MaxKills = 1
  Foreign = TRUE
  Keys = {k1, k2}
  RoboTwin = {k1}
  MaxTotal = 2
  Commands <- ShortCommands
  Generations = {g1, g2}
  Builders = {b1, b2}
  PageSize = 1
  MaxBuilds = 2
  MaxSubmits = 2
  Total = 2
  MaxSteps = 2
  MaxAttempts = 2
  MaxNoise = 2
INVARIANTS RightModel OneOfEach Replayable AcceptedCoverage EpisodeReplays
CHECK_DEADLOCK FALSE
