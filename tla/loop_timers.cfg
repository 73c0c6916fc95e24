SPECIFICATION FairSpec
CONSTANTS
  Nodes <- TwoNodes
  MaxFds = 3
  MaxEntries = 4
INVARIANTS
  OneOwner
  TasksHaveEntries
  OnlineIsWatched
PROPERTIES
  TimeoutNamesOwner
  NoFalseTimeout
  SilentNodeReported
