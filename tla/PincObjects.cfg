CONSTANTS
  FirstCapacity = 4
  Creatable = {"incompleteWindow", "framebufferFormat"}
  MaxObjects = 3
  Data = {d1, d2}
  Stale = stale
  NoUserData = null
  UserData = {null, u1}
SPECIFICATION Spec
INVARIANTS
  TypeOK
  HandlesOwnSlots
PROPERTY
  ImplementsHandleMap
