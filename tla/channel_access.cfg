SPECIFICATION Spec
CONSTANTS
  Calls = {c1, c2}
  Functions <- Various
  Nodes <- LastNodes
  Channels <- LastChannels
  Samples <- TwoSamples
  Shapes <- AllShapes
SYMMETRY Interchangeable
INVARIANTS
  ReadWhole
  ErrorsWriteNothing
  RecordPerCall
CHECK_DEADLOCK FALSE
