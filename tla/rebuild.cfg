SPECIFICATION Spec
CONSTANTS
  N = 3
  V1 <- SecondIsV1
  V4 = {a4}
  V6 = {a6}
  Other = {ax}
  Dword = 29
  Faults = TRUE
INVARIANTS
  RoomIsReal
  RebuildIsComplete
  AnswerIsWhole
  LookupsMissNobody
  SizeToldIsWhole
