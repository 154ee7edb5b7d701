\* Output that overtakes the registration of its session.
SPECIFICATION Spec
CONSTANTS
  MaxId = 1
  WireCap = 1
  ChanBound = 1
  MaxIn = 0
  MaxSess = 1
  InCap = 1
  OutCap = 1
  MaxOut = 1
  Named = FALSE
  Filter = FALSE
  Stubborn = FALSE
INVARIANTS FedComplete
\* The process exits and the daemon child with it: the system stops.
CHECK_DEADLOCK FALSE
