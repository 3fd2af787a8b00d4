CONSTANTS
  FirstCapacity = 1
  MaxHandles = 3
  Windows = {w1, w2, w3}
  NoWindow = null
  Contexts = {c1}
  NoContext = none
  Creations = {TRUE, FALSE}
SPECIFICATION Spec
CHECK_DEADLOCK FALSE
INVARIANT WindowsNotShared
