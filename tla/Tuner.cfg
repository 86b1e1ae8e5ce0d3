\* Executors that fail and a script that is interrupted once.
SPECIFICATION FairSpec
CONSTANTS
  r1 = r1
  r2 = r2
  r3 = r3
  r4 = r4
  Runs = {r1, r2, r3, r4}
  Groups <- UnevenGroups
  NoRun = NoRun
  NumInputs = 2
  MaxInterrupts = 1
INVARIANTS
  ExecutedRunsAreProfiled
  NoRunIsProfiledTwice
  NoMarkIsLeft
PROPERTIES
  DecisionsAreFinal
  RunsToExecuteAreDecided
CHECK_DEADLOCK FALSE
