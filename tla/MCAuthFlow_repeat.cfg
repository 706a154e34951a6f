SPECIFICATION Spec
CONSTANTS
  f1 = f1
  Proc = {p1}
  Flow = {f1}
  Account = {mine, other}
  Subject = {mine}
  Legacy = v1
  LegacyAccount = mine
  Upgrade = FALSE
  None = None
  MintTs <- OneMintTs
  HashRank <- OneHashRank
  NoticeLimit = 3
INVARIANT NoticeOfferedAtMostLimit
