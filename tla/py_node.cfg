SPECIFICATION NodeFairSpec
CONSTANTS
  Getters <- TwoGetters
  MaxBoots = 2
  MaxUptime = 2
  MinUptime = 2
  MaxLost = 1
  Batch = 2
  MaxEvents = 1
INVARIANTS
  InfoIsCurrent
PROPERTIES
  EveryGetterReturns
