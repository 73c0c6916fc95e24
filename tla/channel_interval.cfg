SPECIFICATION Spec
CONSTANTS
  Calls <- OneCall
  Functions <- Interval
  Nodes <- OneNode
  Channels <- OneChannel
  Samples <- TwoSamples
  Shapes <- AllShapes
INVARIANTS
  IntervalConfirmed
CHECK_DEADLOCK FALSE
