SPECIFICATION FairSpec
CONSTANTS
  Agents = {root, sub}
  Root = root
  Unknown = unknown
  None = none
  Runs = {r1, r2}
  Calls = {g, h}
  Guarded = {g}
  Raw = {}
  Handoff = {h}
  MaxActive = 2
  MaxBatch = 2
INVARIANTS StreamIsLog
PROPERTIES KeepsApproval RunsEnd
CHECK_DEADLOCK FALSE
