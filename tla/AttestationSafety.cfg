\* Two calls, three VLAs, object and array payloads.
SPECIFICATION Spec
CONSTANTS
  r1 = r1
  r2 = r2
  va = va
  vb = vb
  vn = vn
  q1 = q1
  q2 = q2
  good = good
  empty = empty
  array = array
  Request = {r1, r2}
  VLA = {va, vb, vn}
  Requirement = {q1, q2}
  Payload = {good, empty, array}
  ObjectPayload = {good, empty}
  EmptyObject = empty
  Content <- MCContent
  Meets <- MCMeets
SYMMETRY Symmetry
INVARIANTS
  TypeOK
  
  AuditIsBacked
  AnswerIsBacked
  UnauditedCredentialFailed
CHECK_DEADLOCK FALSE
