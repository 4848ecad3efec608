SPECIFICATION Spec
CONSTANTS
  Nil = Nil
  root = root
  ann = ann
  bob = bob
  p1 = p1
  p2 = p2
  tr = tr
  ta = ta
  tb = tb
  w1 = w1
  w2 = w2
  Requests = {1, 2, 3}
  Workers = {w1, w2}
  Names = {root, ann, bob}
  Passwords = {p1, p2}
  Tokens = {tr, ta, tb, 1, 2, 3}
  Admin = root
  AdminPassword = p1
  MaxId = 3
  Demands <- ReuseDemands
CHECK_DEADLOCK FALSE
INVARIANTS
  SessionOfOwner
