SPECIFICATION MCSpec
CONSTANTS
  Flows = {f1, f2}
  Switches = 4
  SetupCalls = 3
  FlowsAtOnce = 2
  Sampling = 2
  Tuples = {p, q}
SYMMETRY Symmetry
INVARIANTS OneProtocolServes OwnProtocolServes RowsOfFlows SettingsReach
CHECK_DEADLOCK FALSE
