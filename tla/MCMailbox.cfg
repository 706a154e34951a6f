SPECIFICATION MailboxSpec
CONSTANTS
  Messages <- AllMessages
  Multipart = {"multipart/alternative", "multipart/mixed", "multipart/related"}
  MaxFetches = 3
  Sender = {ann}
  Me = Me
  MAX_MESSAGES = 3
  Asked <- AskedNumbers
  MaxWritten = 4
  Server = {s1, s2}
  File = {f1, f2}
  Dest = {d1}
  Outside = Outside
  None = None
  Broken = Broken
SYMMETRY Alike
INVARIANTS
  BestVersionTaken
  NothingUnsaid
  ListedIsFound
  AnswersWhatWasRead
  AttachTypeOK
  SavedIsKept
CHECK_DEADLOCK FALSE
