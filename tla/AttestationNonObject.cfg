\* The claim of docs/spec/dva-api.yaml about data that is not an object.
SPECIFICATION Spec
CONSTANTS
  r1 = r1
  r2 = r2
  va = va
  vb = vb
  vn = vn
  q1 = q1
  q2 = q2
  good = good
  empty = empty
  array = array
  Request = {r1, r2}
  VLA = {va}
  Requirement = {q1}
  Payload = {good, empty, array}
  ObjectPayload = {good, empty}
  EmptyObject = empty
  Content <- OneVLA
  Meets <- OneMeets
INVARIANTS
  AttestedDataMeetsVLA
CHECK_DEADLOCK FALSE
