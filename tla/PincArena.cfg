CONSTANTS
  Header = 2
  Align = 2
  BlockSize = 6
  Buckets = 3
  Tries = 2
  Keep = 18
  Sizes = {0, 1, 4, 6, 18}
  MaxAllocs = 3
  MaxUsed = 20
  MaxBlocks = 4
SPECIFICATION ArenaSpec
INVARIANTS
  AllocationsDisjoint
  BlocksAccounted
  ReserveBounded
PROPERTY OverrunsOnlyBy
