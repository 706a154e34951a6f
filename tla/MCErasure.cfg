SPECIFICATION EraseLiveSpec
CONSTANTS
  Token = {t1, t2}
  None = None
  Cut = Cut
  Kind = {"everything", "data"}
  MaxFaults = 2
INVARIANTS
  EraseTypeOK
  SlotsNeverTorn
  PromisedSurvives
PROPERTIES
  NoLiveTokenErased
  CompleteIsTrue
  ImplementsAtomicStore
  EraseCompletes
CHECK_DEADLOCK FALSE
