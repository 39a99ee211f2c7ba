CONSTANTS
  alice = alice
  bob = bob
  Self = Self
  ZeroKey = ZeroKey
  ZeroAddress = ZeroAddress
  ZeroColor = ZeroColor
  TokenColor = TokenColor
  Clients <- MCClients
  OtherColors <- MCOtherColors
  InitNonce <- MCInitNonce
  InitialCoins <- ZeroColorCoin
  Recipients <- MCRecipients
  Amounts = {0, 1, 2}
  MaxUint64 = 2
  MaxUint128 = 4
  MaxMints = 2
  MaxPending = 2
  MaxSpent = 4
SPECIFICATION SpecUncounted
INVARIANTS
  AmountStaysHidden
  NothingLandsTwice
PROPERTIES
  BurnsDoNotConflict
  BurnsLookHidden
  ForeignCoinsAreSafeOnceMinted
CHECK_DEADLOCK FALSE
