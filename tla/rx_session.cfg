SPECIFICATION Spec
CONSTANTS
  TidMod = 4
  Transfers = 5
  Sizes <- EmptyToThree
  Gap = 3
  Extent = 3
INVARIANTS
  WholeTransfers
  InOrderOnce
  UndisturbedIsDelivered
  NoOtherLeak
CHECK_DEADLOCK FALSE
