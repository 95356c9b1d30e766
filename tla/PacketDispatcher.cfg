SPECIFICATION FairSpec
CONSTANTS
  MaxUserReads = 1
  MaxPackets = 1
INVARIANTS LoopLives
PROPERTIES ExitConfirmed EventuallyServed
CHECK_DEADLOCK FALSE
