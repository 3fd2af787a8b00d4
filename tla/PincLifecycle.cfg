CONSTANT MaxInits = 3
SPECIFICATION Spec
CHECK_DEADLOCK FALSE
INVARIANTS
  TypeOK
  StateIsLive
  NoOtherLeaks
  
PROPERTIES
  
  InitErrorsUndone
