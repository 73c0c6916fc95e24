SPECIFICATION FairSpec
CONSTANTS
  Ops <- TwoOps
  Cells <- TwoCells
  MayFail = TRUE
INVARIANTS
  RecordOutlivesWrites
  ToldOnceOfFirstError
PROPERTIES
  EveryConfigureCompletes
CHECK_DEADLOCK FALSE
