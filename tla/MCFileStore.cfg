SPECIFICATION Spec
CONSTANTS
  Services = {s1, s2}
  Closers = {s1, s2}
  MaxEntries = 2
  MaxRevision = 2
  MaxDeletes = 1
  MaxLocks = 2
SYMMETRY ServiceSymmetry
INVARIANTS MemoryNotAhead OwnerSeesLog
PROPERTIES LoadIsComplete NoLostUpdate
CHECK_DEADLOCK FALSE
