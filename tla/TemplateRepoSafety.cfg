\* Three requests: invariants of the stored rows, and the
\* agreement with the dictionary while requests do not get into each other's way.
SPECIFICATION Spec
CONSTANTS
  Call = {c1, c2, c3}
  Prior = prior
  TemplateColumns = {1}
  MethodColumns = {5, 6}
  NoRow = norow
SYMMETRY Symmetry
INVARIANTS
  TypeOK
  TemplateHasMethod
  OrphanNeedsFailure
  MixedMethodNeedsOverlap
  UpdateIsNotLost
PROPERTIES
  ImplementsStore
CHECK_DEADLOCK FALSE
