SPECIFICATION Spec
CONSTANTS
  Agents = {root, sub}
  Root = root
  Unknown = unknown
  None = none
  Runs = {r1, r2}
  Calls = {g, w}
  Guarded = {g}
  Raw = {w}
  Handoff = {}
  MaxActive = 1
  MaxBatch = 2
PROPERTIES PausedCallIsPending
CHECK_DEADLOCK FALSE
