\* A connection comes while the last one before it ends.
SPECIFICATION Spec
CONSTANTS
  Conns = {c1, c2, c3}
  Backlog = 2
  Persist = FALSE
  ForkMayFail = FALSE
PROPERTIES KeepsAccepted
\* The listener exits, and no host has to connect: the system may stop.
CHECK_DEADLOCK FALSE
