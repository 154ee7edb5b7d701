\* Two hosts, together or one after the other, everything may time out.
SPECIFICATION FairSpec
CONSTANTS
  Hosts = {h1, h2}
  Distros = {ubuntu, mint}
  Default = ubuntu
  Named = {ubuntu, mint}
  Span = 1
  Pins = {0}
  Resident <- NoUnits
  Slow = TRUE
  Nobody = Nobody
INVARIANTS BringUpTypeOK CalmRoutes
PROPERTIES ComesUp OwnerUndisturbed
\* Every host may be up or gone: the system may stop.
CHECK_DEADLOCK FALSE
