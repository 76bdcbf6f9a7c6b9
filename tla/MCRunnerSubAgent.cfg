SPECIFICATION Spec
CONSTANTS
  Agents = {root, sub}
  Root = root
  Unknown = unknown
  None = none
  Runs = {r1, r2}
  Calls = {g, h}
  Guarded = {g}
  Raw = {}
  Handoff = {h}
  MaxActive = 1
  MaxBatch = 2
INVARIANTS AnswersReachTheirAgent
CHECK_DEADLOCK FALSE
