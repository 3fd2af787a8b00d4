CONSTANTS
  Chosen = {65, 128512}
  MaxCodepoints = 2
  Texts <- MCTexts
  Capacity = 13
  SizeMax = 16
SPECIFICATION Spec
PROPERTY
  EveryTextEnds
