CONSTANTS
  CPUs = {cpu1, cpu2}
  Connections = {conn1, conn2}
  KeyOf <- OwnKeys
  Isns = {5}
  SEGMENTS = 4
  SEND_WINDOW = 1
  LIFETIME = 1
  SEQ_MOD = 7
  ACK_WINDOW = 2
  MAX_TCP_ACK_SEQ_ENTRIES = 2
  UNTRACKED = UNTRACKED
  NONE = NONE
SPECIFICATION Spec
INVARIANT TypeOK
INVARIANT MissingSegmentsPass
PROPERTY AllDelivered
