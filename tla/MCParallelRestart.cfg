SPECIFICATION Spec
CONSTANTS
  Subs = {a, b}
  Extended = {}
  MaxRuns = 3
  MaxEvents = 1
PROPERTIES CompletedAreSkipped
CHECK_DEADLOCK FALSE
