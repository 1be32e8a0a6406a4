\* Three requests at the whitelist, in a database or in memory: it is an atomic
\* registry, and every request is settled.
SPECIFICATION FairSpec
CONSTANTS
  Call = {c1, c2, c3}
  c1 = c1
  d1 = d1
  bad = bad
  Did = {d1, bad}
  ValidDid = {d1}
  Asked <- MCAsked
  Forged = forged
  Malformed = malformed
  Unreadable = unreadable
  NoId = noid
  Prior = prior
INVARIANTS
  TypeOK
  AdditionsAgree
PROPERTIES
  RefinesRegistry
  EveryRequestSettled
CHECK_DEADLOCK FALSE
