CONSTANTS
  Scenarios <- OrdinaryAndOversized
  Losable = {4}
SPECIFICATION Spec
INVARIANTS
  TypeOK
  PassingRowsAreTrue
  CirculationIsAsStated
  OnlyFaultsAbort
  ProtocolBurnNeverAborts
  CleanRunPasses
  StrictExitIsEarned
PROPERTIES
  AlwaysExits
