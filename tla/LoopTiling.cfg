\* Loops the versions divide evenly.
SPECIFICATION EvenSpec
CONSTANTS
  Lowers = {0, 3}
  Lengths = {1, 2, 4, 6, 8, 12, 16}
  Strides = {1, 2}
  Gangs = {1, 2, 3}
  Workers = {1, 2}
  Vectors = {1, 2}
  VersionLists <- Lists
INVARIANTS
  EveryIterationOnce
  MatchingVersionIsFound
  BestVersionIsRun
PROPERTY ImplementsParallelLoop
CHECK_DEADLOCK FALSE
