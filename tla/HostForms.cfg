SPECIFICATION Spec
CONSTANTS
  Nil = Nil
  Absent = Absent
  Bad = Bad
  na = na
  nb = nb
  v1 = v1
  v2 = v2
  i1 = i1
  i2 = i2
  Requests = {1, 2, 3}
  Names = {na, nb}
  Vendors = {v1, v2}
  Ips = {i1, i2}
  MaxId = 3
  Demands <- FormDemands
CHECK_DEADLOCK FALSE
INVARIANTS
  HostTypeOK
  AnswerTellsTruth
PROPERTIES
  TakesOnlyNamed
