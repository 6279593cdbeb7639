CONSTANTS
  CPUs = {cpu1}
  Connections = {conn1}
  KeyOf <- OwnKeys
  Isns = {6}
  SEGMENTS = 4
  SEND_WINDOW = 2
  LIFETIME = 1
  SEQ_MOD = 8
  ACK_WINDOW = 2
  MAX_TCP_ACK_SEQ_ENTRIES = 1
  UNTRACKED = UNTRACKED
  NONE = NONE
SPECIFICATION Spec
PROPERTY AllDelivered
