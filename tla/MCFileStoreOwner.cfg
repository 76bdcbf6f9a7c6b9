SPECIFICATION Spec
CONSTANTS
  Services = {s1, s2}
  Closers = {}
  MaxEntries = 2
  MaxRevision = 2
  MaxDeletes = 1
  MaxLocks = 2
PROPERTIES SingleOwner
CHECK_DEADLOCK FALSE
