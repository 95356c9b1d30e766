\* Flows: the flow table holds them by shared pointers.
SPECIFICATION Spec
CONSTANTS
  Holders = {h1, h2, h3}
  Strong = TRUE
  GrowInUse = FALSE
  MaxObjects = 4
  MaxCalls = 6
INVARIANTS TypeOK FreeStack NothingLost
PROPERTY ImplementsPool
