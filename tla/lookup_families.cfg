SPECIFICATION Spec
CONSTANTS
  N = 2
  V1 <- SecondIsV1
  V4 = {a4}
  V6 = {a6}
  Other = {}
  Dword = 64
  Faults = FALSE
INVARIANTS
  FoundIsThere
