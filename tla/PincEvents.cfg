CONSTANTS
  FirstCapacity = 1
  MaxHandles = 2
  MaxWindows = 2
  MaxEvents = 3
  PlainTypes = {"close"}
  TextLengths = {3}
  Buttons = {5, 6}
SPECIFICATION Spec
INVARIANTS
  TypeOK
  BuffersInBounds
  FocusConsistent
  MouseConsistent
  ClipboardTextLives
PROPERTIES
  ImplementsEventStream
  EveryEventLeaves
