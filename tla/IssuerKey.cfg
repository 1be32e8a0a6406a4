\* Three requests, a key for each and one for the initial file.
SPECIFICATION FairSpec
CONSTANTS
  Call = {c1, c2, c3}
  Key = {k1, k2, k3, k4}
  Absent = absent
  Torn = torn
  NoCall = nocall
  NoKey = nokey
INVARIANTS
  TypeOK
  IssuerIsStable
PROPERTIES
  KeyFileIsNotReplaced
  EveryRequestAnswered
CHECK_DEADLOCK FALSE
