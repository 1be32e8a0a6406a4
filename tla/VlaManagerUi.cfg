\* Two views, up to four calls to the backend.
SPECIFICATION Spec
CONSTANTS
  Element = {e1, e2}
  Template = {t1}
  Vla = {v1, v2}
  MaxFragments = 2
  MaxCalls = 4
  None = None
SYMMETRY Symmetry
INVARIANT CreationMatchesPage
INVARIANT MismatchNeedsEscape
INVARIANT WrongResultNeedsTrouble
INVARIANT LostVlaNeedsOverlap
