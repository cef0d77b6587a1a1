SPECIFICATION FairSpec
CONSTANTS
  User = {u1, u2, u3}
  Stray <- AllOfThem
  MaxInstances = 2
  NewFailures = {"null", "throws"}
INVARIANTS
  RefsAreHolders
  BracketKeepsFramework
  ThrowLocksOut
  OneFramework
  HeapWithFramework
  ReleaseHasReference
PROPERTIES
  SectionIsLeft
\* Once a throw has left the lock taken, everybody spins.
CHECK_DEADLOCK FALSE
