CONSTANTS
  alice = alice
  bob = bob
  Self = Self
  ZeroKey = ZeroKey
  ZeroAddress = ZeroAddress
  ZeroColor = ZeroColor
  TokenColor = TokenColor
  Clients <- MCClients
  OtherColors <- MCOtherColors
  InitNonce <- MCInitNonce
  InitialCoins <- ZeroColorCoin
  Recipients <- CanonicalRecipients
  Amounts = {0, 1, 2, 3}
  MaxUint64 = 2
  MaxUint128 = 2
  MaxMints = 2
  MaxPending = 2
  MaxSpent = 3
SPECIFICATION Spec
INVARIANTS
  OnlyTheTokenIsDestroyed
  Conservation
  NothingLandsTwice
PROPERTIES
  KeepsSupplyViews
CHECK_DEADLOCK FALSE
