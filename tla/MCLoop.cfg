SPECIFICATION FairSpec
CONSTANTS
  N = 3
  MaxIterations = 2
  MaxRuns = 4
INVARIANTS StateFitsCheckpoint InOrder AnswerReachesAsker
PROPERTIES RunsEnd
CHECK_DEADLOCK FALSE
