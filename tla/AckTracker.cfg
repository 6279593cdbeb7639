CONSTANTS
  CPUs = {cpu1, cpu2}
  Sources = {peer1, peer2}
  AllowOutgoing = TRUE
  NONE = NONE
  UNTRACKED = UNTRACKED
  SEQ_MOD = 6
  ACK_WINDOW = 2
  MAX_TCP_ACK_SEQ_ENTRIES = 1
SPECIFICATION Spec
SYMMETRY Symmetry
INVARIANT TypeOK
INVARIANT LockedOutOnlyWhenFull
INVARIANT OnlyOpenedSourcesPass
INVARIANT StoredWhereLookedUp
