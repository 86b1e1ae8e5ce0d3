\* Four starts of programs that overlap as they like and can fail anywhere.
SPECIFICATION Spec
CONSTANTS
  Programs <- MCPrograms
  Files <- MCFiles
  NumOpenCLDevices = 1
  GangExps <- MCGangExps
  WorkerExps <- MCNoExps
  VectorExps <- MCNoExps
  ParamExps <- MCParamExps
  MaxAllocExp = 3
  num_devices = 1
  Threads = {t1, t2}
  NumVersionIds = 2
  AnalysedParams <- MCAnalysedParams
  TooFast = 1000
  UserVersions <- MCVersions
  Earlier <- MCEarlier
  Durations = {1, 4}
  MaxStarts = 4
  MaxRunning = 2
SYMMETRY Symmetric
INVARIANTS
  AloneNothingIsLost
  RunsAreTheFittingLaunches
  ExecutedRunsHaveEvents
  EveryExecutedRunOnce
  SummariesReferToPerformances
PROPERTY OnlyStaleCopiesLose
CHECK_DEADLOCK FALSE
