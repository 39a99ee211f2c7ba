CONSTANTS
  alice = alice
  bob = bob
  Self = Self
  ZeroKey = ZeroKey
  ZeroAddress = ZeroAddress
  ZeroColor = ZeroColor
  TokenColor = TokenColor
  Clients <- MCClients
  OtherColors <- MCOtherColors
  InitNonce <- MCInitNonce
  InitialCoins <- NoCoins
  Recipients <- CanonicalRecipients
  Amounts = {1, 2}
  MaxUint64 = 2
  MaxUint128 = 4
  MaxMints = 3
  MaxPending = 2
  MaxSpent = 3
SPECIFICATION Spec
INVARIANTS
  TypeOK
  SupplyAccounting
  PublishedAccounting
  TransactionsSound
  CoinsStayApart
  NothingLandsTwice
  ChangeIsPassedOn
  MintReachesAnOwner
  Conservation
  BothViewsBoundCirculation
PROPERTIES
  KeepsSupplyViews
CHECK_DEADLOCK FALSE
