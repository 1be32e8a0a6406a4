\* The claim of processing.py that every requirement is evaluated.
SPECIFICATION Spec
CONSTANTS
  c1 = c1
  c2 = c2
  Call = {c1}
  Asked <- MCAsked
  Requirement <- MCRequirement
  Document <- MCDocument
INVARIANTS
  EveryRequirementEvaluated
CHECK_DEADLOCK FALSE
