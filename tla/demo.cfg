CONSTANTS
  Tries = 2
SPECIFICATION FairSpec
INVARIANTS
  TypeOK
  StackIsTornDown
  ExitZeroIsEarned
  ProgramFindsTheStackReady
PROPERTIES
  WalletStopsFirst
  EndsOrWatchesInVain
CHECK_DEADLOCK FALSE
