SPECIFICATION Spec
CONSTANTS
  Half = 128
  Windows <- SmallWindows
  Desktops <- SmallDesktops
  Sections = {0, 12, 60}
INVARIANTS
  WritesStayInside
  ReadStaysInside
  NothingHeld
  FrameKeepsShape
