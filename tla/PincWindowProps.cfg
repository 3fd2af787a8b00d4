CONSTANTS
  Handles = {h1, h2}
  Nobody = Nobody
  MaxWindows = 2
  MaxEvents = 2
  MaxLost = 1
  Lengths = {0, 1}
  DefaultLength = 2
SPECIFICATION Spec
SYMMETRY HandleSymmetry
INVARIANTS
  SizesAgree
  TitlesAccounted
