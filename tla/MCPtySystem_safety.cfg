\* Two sessions over one slot: a slot is freed and taken again within a pass.
SPECIFICATION Spec
CONSTANTS
  MaxId = 2
  WireCap = 2
  ChanBound = 1
  MaxIn = 1
  MaxSess = 1
  InCap = 1
  OutCap = 1
  MaxOut = 1
  Named = FALSE
  Filter = FALSE
  Stubborn = TRUE
INVARIANTS TypeOK ExitOnce CompleteOutput LiveIsBacked NoDeadPane NoLeakedShell ProcessHasSlot SystemInv
PROPERTIES DataBeforeExit ServiceSpec
\* The process exits and the daemon child with it: the system stops.
CHECK_DEADLOCK FALSE
