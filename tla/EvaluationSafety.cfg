\* Every shape of document, beside an expectation: the results of a request.
SPECIFICATION Spec
CONSTANTS
  c1 = c1
  c2 = c2
  Call = {c1, c2}
  Asked <- MCAsked
  Requirement <- MCRequirement
  Document <- MCDocument
INVARIANTS
  OneResultPerRequirement
  FailureNeedsOverlap
  PositiveVerdictIsBacked
CHECK_DEADLOCK FALSE
