SPECIFICATION Spec
CONSTANTS
  CPUs = {cpu1, cpu2}
  Rings = {udp4, tcp4}
  CAPACITY = 2
  BootTimes = {0, 9}
  NONE = NONE
  MAX_EVENTS = 3
  MAX_SESSIONS = 2
INVARIANTS
  TypeOK
  NothingLostWhileOn
  AtMostOneLate
  DatesInOrder
PROPERTIES
  ImplementsStream
  EveryEventIsShown
CHECK_DEADLOCK FALSE
