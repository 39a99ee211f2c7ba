CONSTANTS
  Scenarios <- Ordinary
  Losable = {4}
SPECIFICATION Spec
INVARIANT ExpectationFollowsCapture
