SPECIFICATION Spec
CONSTANTS
  Nodes <- LastNode
  MaxFds = 2
  MaxEntries = 2
PROPERTIES
  TimeoutNamesOwner
