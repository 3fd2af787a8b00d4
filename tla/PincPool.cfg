CONSTANTS
  FirstCapacity = 2
  ElementSize = 8
  IndexSize = 4
  MaxLive = 6
SPECIFICATION Spec
INVARIANTS
  TypeOK
  SlotsPartitioned
  WritesInBounds
  BoundedFootprint
  ReallocSizesExact
PROPERTY
  ImplementsIndexAllocator
