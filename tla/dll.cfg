SPECIFICATION CallSpec
CONSTANTS
  Thread = {t1, t2, t3}
  Caller = "serializes"
  MaxLoads = 3
  MaxAdapters = 2
SYMMETRY ThreadSymmetry
INVARIANTS
  CodeIsLoaded
  RefsAreHeld
  SameHandle
  LastOneUnloads
  NothingIsLeaked
\* A provider that is gone does nothing more.
CHECK_DEADLOCK FALSE
