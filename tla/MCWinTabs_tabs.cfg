\* Three sessions, two windows, one frame and one change of geometry.
SPECIFICATION Spec
CONSTANTS
  RatioStep = 25
  BarW = 1
  EdgeGutter = 2
  MaxSession = 3
  MaxWin = 2
  MaxDraws = 1
  Sizes <- MCSizes
  NewSize <- MCNewSize
  Cells = {1, 2}
  BaseCell = 1
  Bar = 1
  BottomPad = 1
  SidebarW = 3
INVARIANTS TabsTypeOK RegistryIsPanes PanesFit PanesTile
\* The process ends with its last window.
CHECK_DEADLOCK FALSE
