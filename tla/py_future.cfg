SPECIFICATION FairSpec
CONSTANTS
  Futures <- TwoFutures
  Functions <- Wrappers

  
PROPERTIES
  AwaitEnds
CHECK_DEADLOCK FALSE
