SPECIFICATION FairSpec
CONSTANTS
  Subs = {a, b}
  Extended = {b}
  MaxRuns = 3
  MaxEvents = 1
INVARIANTS StateNotOlder CheckpointIsWhole OnlyPendingRan
PROPERTIES CompletedGrows NothingLeaks
CHECK_DEADLOCK FALSE
