SPECIFICATION Spec
CONSTANTS
  Thread = {t1, t2}
  NoThread = none
  Provider = {p1, p2}
  MaxChanges = 0
  MaxAdapters = 0
  Faults = {}
INVARIANTS
  SyncedLookup
