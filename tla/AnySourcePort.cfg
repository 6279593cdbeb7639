CONSTANTS
  eth0 = eth0
  eth1 = eth1
  NONE = NONE
  UNTRACKED = UNTRACKED
  Ifaces <- MCIfaces
  AddrBits = 2
  MaxPort = 2
  MAX_IFACES = 2
  MAX_PREFIXES = 2
  MAX_PREFIX_PORT_ENTRIES = 6
  MAX_PORT_ALLOW_LIST_ENTRIES = 6
  SEQ_MOD = 4
  ACK_WINDOW = 1
  MAX_TCP_ACK_SEQ_ENTRIES = 1
  RING_CAPACITY = 1
  Configs <- UdpOnly
  Packets <- FewPackets
SPECIFICATION Spec
INVARIANT AnySourcePortPasses
