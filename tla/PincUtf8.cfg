CONSTANTS
  Chosen = {65, 126, 127, 128, 1983, 1984, 2047, 2048, 4096, 20013, 61439, 61440, 262143, 262144, 1114111}
  MaxCodepoints = 3
  Texts <- MCTexts
  Capacity = 13
  SizeMax = 16
SPECIFICATION Spec
INVARIANTS
  CursorInText
  EventsMatchText
PROPERTY
  DecodableTextEnds
