SPECIFICATION SetupSpec
CONSTANTS
  f1 = f1
  f2 = f2
  Proc = {p1}
  Flow = {f1, f2}
  Account = {mine}
  Subject = {mine}
  Legacy = v1
  LegacyAccount = mine
  Upgrade = FALSE
  None = None
  MintTs <- TiedMintTs
  HashRank <- TiedHashRank
  NoticeLimit = 1
INVARIANTS
  SetupInv
  OneLiveLinkPerServer
PROPERTIES
  NoNeedlessLink
  StageNeverOverwritten
  AckDestroysNothing
  ImplementsAuthorization
