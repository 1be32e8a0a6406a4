\* Two first requests for pools of one connection.
SPECIFICATION FairSpec
CONSTANTS
  Call = {c1, c2}
  Prior = prior
  MaxConnections = 1
  NoRepo = norepo
INVARIANTS
  NoStatementBeforeTables
  PoolsNeedOverlap
  CreatedVlaIsKept
PROPERTIES
  EveryRequestAnswered
CHECK_DEADLOCK FALSE
