CONSTANTS
  Scenarios <- NothingLeft
  Losable = {4}
SPECIFICATION Spec
INVARIANT OnlyFaultsAbort
