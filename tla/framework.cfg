SPECIFICATION FairSpec
CONSTANTS
  Thread = {t1, t2}
  NoThread = none
  Provider = {p1, p2}
  MaxChanges = 2
  MaxAdapters = 1
  Faults <- AllFaults
INVARIANTS
  NoLostChange
  StaleLookupHasCause
  OneRequestPerKind
  AddressesHaveProviders
  AdapterKeepsProvider
PROPERTIES
  CallReturns
\* A call through a deleted provider ends the process.
CHECK_DEADLOCK FALSE
