CONSTANTS
  Depths <- MCDepths
  MaxModes = 6
  ListCapacity = 4
SPECIFICATION FormatsSpec
CHECK_DEADLOCK FALSE
INVARIANTS
  OffersEachOnce
  DefaultIsBestBehindFirst
