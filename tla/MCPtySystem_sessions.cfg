\* Two sessions over one slot, in turn and overlapping; the distro name is known.
SPECIFICATION FairSpec
CONSTANTS
  MaxId = 2
  WireCap = 1
  ChanBound = 1
  MaxIn = 0
  MaxSess = 1
  InCap = 1
  OutCap = 1
  MaxOut = 1
  Named = TRUE
  Filter = FALSE
  Stubborn = FALSE
PROPERTIES CloseReaps ExitClosesPane QuitEnds LossEnds
\* The process exits and the daemon child with it: the system stops.
CHECK_DEADLOCK FALSE
