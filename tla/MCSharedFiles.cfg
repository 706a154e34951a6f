SPECIFICATION SharedSpec
CONSTANTS
  Server = {s1, s2}
  Request = {r1, r2}
  Mail = {m1, m2}
  None = None
  Producer = {s1, s2}
  Consumer = {c1}
  Id = {i1, i2, i3}
  NoId = NoId
  MAX_FILE_BYTES = 1
  MAX_TOTAL_BYTES = 1
CONSTRAINT Bounded
SYMMETRY AllAlike
INVARIANTS
  TypeOK
  AlreadySentIsTrue
  NoSecondSendAlone
  ErasedStaysErasedAlone
  HandoffTypeOK
  CapturedIsWhole
  OverrunIsBounded
  PublishedIsDurable
