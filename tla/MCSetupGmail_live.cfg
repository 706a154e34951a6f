SPECIFICATION SetupFairSpec
CONSTANTS
  f1 = f1
  f2 = f2
  Proc = {p1}
  Flow = {f1}
  Account = {mine}
  Subject = {mine}
  Legacy = v1
  LegacyAccount = mine
  Upgrade = TRUE
  None = None
  MintTs <- OneMintTs
  HashRank <- OneHashRank
  NoticeLimit = 1
PROPERTY
  PendingAnswerEnds
