SPECIFICATION Spec
CONSTANTS
  Workers = {w1, w2}
  Uids <- ThreeUids
  OutCap = 5
  InCap = 3
CHECK_DEADLOCK FALSE
INVARIANTS
  TypeOK
  RepliesMeetTheirRequest
PROPERTIES
  RequestsAreAnswered
