SPECIFICATION Spec
CONSTANTS
  Thread = {t1}
  NoThread = none
  Provider = {p1}
  MaxChanges = 1
  MaxAdapters = 0
  Faults = {}
INVARIANTS
  AddressRequestIsImmediate
