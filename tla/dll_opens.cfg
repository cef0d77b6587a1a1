SPECIFICATION CallSpec
CONSTANTS
  Thread = {t1, t2}
  Caller = "opens"
  MaxLoads = 2
  MaxAdapters = 1
SYMMETRY ThreadSymmetry
INVARIANTS
  CodeIsLoaded
\* A provider that is gone does nothing more.
CHECK_DEADLOCK FALSE
