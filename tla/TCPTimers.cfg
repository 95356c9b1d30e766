SPECIFICATION Spec
CONSTANTS
  Ids = {c1, c2, c3}
  FlowSize = 2
  TcpSize = 2
  L7Size = 1
  Timeout = 2
  MaxTime = 6
  SegmentsUsed <- OpenAndReset
SYMMETRY IdSymmetry
PROPERTY TimersComplete
