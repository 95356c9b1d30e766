\* Infos: a Flow holds them by weak pointers.
SPECIFICATION Spec
CONSTANTS
  Holders = {h1, h2, h3}
  Strong = FALSE
  GrowInUse = FALSE
  MaxObjects = 4
  MaxCalls = 6
INVARIANT NoSharing
