\* Four connections, any of which the listener may fail to fork for.
SPECIFICATION FairSpec
CONSTANTS
  Conns = {c1, c2, c3, c4}
  Backlog = 2
  Persist = FALSE
  ForkMayFail = TRUE
INVARIANTS ListenerTypeOK CountCovers
PROPERTIES ExitsIdle Answered
\* The listener exits, and no host has to connect: the system may stop.
CHECK_DEADLOCK FALSE
