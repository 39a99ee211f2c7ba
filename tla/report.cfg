CONSTANTS
  NotANumber = NotANumber
  NoType = NoType
  Token = Token
  MintType = MintType
  OtherToken = OtherToken
  OtherMintType = OtherMintType
  M = 3
  P = 1
  MaxMintFlaws = 2
SPECIFICATION Spec
INVARIANTS
  FoldIsExact
  MintsAreNeverOvercounted
  LossesShow
  MatrixAgreesWithTable
  OfflineFoldAgrees
CHECK_DEADLOCK FALSE
