SPECIFICATION Spec
CONSTANTS
  ActionHorizon = 3
  ChunkLengths = {3}
  InferenceHorizon = 3
  Unset = Unset
  MayFail = TRUE
  MaxSteps = 4
  MaxEpisodes = 2
  MaxClients = 2
PROPERTIES ResendsAfterDrop
CHECK_DEADLOCK FALSE
