\* Two streams, two webhooks and two processes.
SPECIFICATION FairEventsSpec
CONSTANTS
  Hook = {w1, w2}
  Stream = {s1, s2}
  MaxStarts = 2
  Torn = torn
INVARIANTS
  EachEventOnce
  LogKeepsAnswered
PROPERTIES
  EventReachesReader
CHECK_DEADLOCK FALSE
