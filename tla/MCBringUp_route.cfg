\* Two named distros brought up together.
SPECIFICATION Spec
CONSTANTS
  Hosts = {h1, h2}
  Distros = {ubuntu, mint, arch}
  Default = ubuntu
  Named = {mint, arch}
  Span = 2
  Pins = {}
  Resident <- NoUnits
  Slow = FALSE
  Nobody = Nobody
INVARIANTS RightDistro
\* Every host may be up or gone: the system may stop.
CHECK_DEADLOCK FALSE
