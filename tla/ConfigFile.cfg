CONSTANTS
  eth0 = eth0
  eth1 = eth1
  NONE = NONE
  MALFORMED = MALFORMED
  Ifaces = {eth0, eth1}
  AddrBits = 4
  OCTETS = 2
  OCTET_BITS = 2
  MaxPort = 2
  MAX_IFACES = 2
  MAX_PREFIXES = 2
  MAX_PREFIX_PORT_ENTRIES = 4
  MAX_PORT_ALLOW_LIST_ENTRIES = 4
  CFG_BLOB_LEN = 6
  Files <- MCFiles
SPECIFICATION Spec
INVARIANT TypeOK
INVARIANT ShownRangesMatch
INVARIANT BadTextIsTheFilesOwn
INVARIANT MergeIsPerSection
INVARIANT MergeKeepsOrder
INVARIANT ReapplyChangesNothing
INVARIANT RetryIsAccepted
INVARIANT ShownCanBeApplied
