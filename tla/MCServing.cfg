SPECIFICATION ServingSpec
CONSTANTS
  ActionHorizon = 4
  ChunkLengths = {4}
  InferenceHorizon = 4
  DelaySteps = 3
  Unset = Unset
  MayFail = TRUE
  MaxSteps = 9
  MaxEpisodes = 3
  m1 = m1
  m2 = m2
  None = None
  LengthsActions = 5
  LengthsChunks = {0, 1, 2, 5}
  LengthsSteps = 7
  LengthsEpisodes = 3
  SyncActions = 4
  SyncChunks = {0, 2, 3, 4}
  SyncHorizon = 3
  SyncSteps = 7
  SyncEpisodes = 4
  RemoteActions = 3
  RemoteChunks = {3}
  RemoteHorizon = 3
  RemoteSteps = 4
  RemoteEpisodes = 2
  MaxClients = 2
INVARIANTS IInv EngineExclusive PoolQuiet NeverStale NoStall AnswersMatch
PROPERTIES StreamSpec EveryCallReturns OtherStreams EndToEnd NothingLeft GivesUp
CHECK_DEADLOCK FALSE
