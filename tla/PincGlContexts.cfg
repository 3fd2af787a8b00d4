CONSTANTS
  Handles = {c1, c2, c3}
  NoHandle = NoHandle
  Addresses = {a1, a2, a3}
  Null = Null
  FirstCapacity = 1
SPECIFICATION GlSpec
INVARIANT
  CurrentContextFound
