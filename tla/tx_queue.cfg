SPECIFICATION Spec
CONSTANTS
  Mtu = 63
  DlcLengths <- CanFd
  CanIds <- TwoIds
  Sizes <- SomeSizes
  MaxPushes = 3
INVARIANTS
  TransfersNotMixed
  MemoryBalanced
  ConformingTransfers
PROPERTIES
  SmallestFirst
CHECK_DEADLOCK FALSE
