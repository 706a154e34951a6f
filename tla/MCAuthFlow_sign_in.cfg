SPECIFICATION FairSpec
CONSTANTS
  f1 = f1
  Proc = {p1, p2}
  Flow = {f1}
  Account = {mine, other}
  Subject = {mine}
  Legacy = v1
  LegacyAccount = mine
  Upgrade = TRUE
  None = None
  MintTs <- OneMintTs
  HashRank <- OneHashRank
  NoticeLimit = 1
INVARIANTS
  IndInv
  RecordInv
  ConnectedIsDurableAndServing
  QuietOutcomeIsNoticed
  ServingMatchesSubject
  OnlyHolderInside
  StoredFlowIsNotExchanged
PROPERTIES
  StageDroppedOnlyWhenResolved
  StageEventuallyResolved
  ResultEventuallySettled
