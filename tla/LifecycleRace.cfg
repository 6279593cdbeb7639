SPECIFICATION Spec
CONSTANTS
  eth0 = eth0
  eth1 = eth1
  NONE = NONE
  Procs = {p1, p2, p3}
  Ifaces = {eth0}
  Versions = {1, 2}
  Configs <- MCOneInterface
  SERIAL = FALSE
  STOPS = FALSE
  UNPLUGS = TRUE
SYMMETRY Symmetry
VIEW GuardState
INVARIANTS
  TypeOK
  AttachedIsHeld
CHECK_DEADLOCK FALSE
