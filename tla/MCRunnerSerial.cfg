SPECIFICATION Spec
CONSTANTS
  Agents = {root, sub}
  Root = root
  Unknown = unknown
  None = none
  Runs = {r1, r2, r3}
  Calls = {g, k, h}
  Guarded = {g, k}
  Raw = {}
  Handoff = {h}
  MaxActive = 1
  MaxBatch = 2
INVARIANTS NoUnapprovedExecution ResultsFollowCalls CheckpointFindsItsCalls NoDanglingCall ApprovalUsedOnce
PROPERTIES ClearedWhenAnswered
CHECK_DEADLOCK FALSE
SYMMETRY RunSymmetry
VIEW LiveView
