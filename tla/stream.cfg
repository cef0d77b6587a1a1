SPECIFICATION FairSpec
CONSTANTS
  Client = {c1, c2}
  NoClient = none
  Bytes = 2
  MaxCaptures = 3
  QueueDepth = 2
  SyncFailure = TRUE
INVARIANTS
  OneReadInFlight
  FreshView
  OnlySessionStreams
PROPERTIES
  WaitIsAnswered
  MirrorsBytes
  FrameIsShown
  DeadSessionEndsServer
\* Clients stop at MaxCaptures, may all have exited, and the server may hang.
CHECK_DEADLOCK FALSE
