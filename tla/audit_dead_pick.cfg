CONSTANTS
  Scenarios <- HalfHidden
  Losable = {4}
SPECIFICATION Spec
INVARIANT ProtocolBurnPicksTheChange
