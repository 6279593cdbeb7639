SPECIFICATION Spec
CONSTANTS
  eth0 = eth0
  eth1 = eth1
  NONE = NONE
  Procs = {p1, p2, p3}
  Ifaces = {eth0, eth1}
  Versions = {1, 2}
  Configs <- MCConfigs
  SERIAL = TRUE
  STOPS = TRUE
  UNPLUGS = TRUE
SYMMETRY Symmetry
INVARIANTS
  ShowIsLoaded
  AppliedIsKept
  EventsOnlyForMonitors
  PurgeLeavesNothing
  ApplyTakesEffect
PROPERTY
  OneInterfaceAtATime
CHECK_DEADLOCK FALSE
