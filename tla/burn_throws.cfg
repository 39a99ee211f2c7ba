CONSTANTS
  alice = alice
  bob = bob
  Self = Self
  ZeroKey = ZeroKey
  ZeroAddress = ZeroAddress
  ZeroColor = ZeroColor
  TokenColor = TokenColor
  Clients <- MCClients
  OtherColors <- MCOtherColors
  InitNonce <- MCInitNonce
  InitialCoins <- NoCoins
  Recipients <- AliceOnly
  Amounts = {1, 2}
  MaxUint64 = 2
  MaxUint128 = 4
  MaxMints = 1
  MaxPending = 2
  MaxSpent = 3
SPECIFICATION Spec
INVARIANT BurnThrowsBelowCoinValue
CHECK_DEADLOCK FALSE
