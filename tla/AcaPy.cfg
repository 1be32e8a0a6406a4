\* Two requests, two runs of init_all_self.
SPECIFICATION FairSpec
CONSTANTS
  Call = {c1, c2}
  Row = {r1}
  Unknown = unknown
  MaxRun = 2
  Startup = startup
  FileCredDef = filecreddef
  None = none
INVARIANTS
  TypeOK
  LogAgrees
  MixedPairNeedsFailure
PROPERTIES
  EveryRequestAnswered
CHECK_DEADLOCK FALSE
