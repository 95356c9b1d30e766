SPECIFICATION TableSpec
CONSTANTS
  Ids = {f1, f2, f3, f4}
  Timeout = 1
  MaxTime = 3
INVARIANTS InOrder TimersComplete
