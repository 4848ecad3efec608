SPECIFICATION Spec
CONSTANTS
  Nil = Nil
  Absent = Absent
  Blank = Blank
  Bad = Bad
  Malformed = Malformed
  Missing = Missing
  i1 = i1
  i2 = i2
  na = na
  nb = nb
  pa = pa
  n1 = n1
  n2 = n2
  c0 = c0
  c1 = c1
  dash = dash
  Ips = {i1, i2}
  Types <- MCTypes
  Lower <- MCLower
  Strip <- MCStrip
  Names = {na, nb}
  Notes = {n1, n2}
  Colors = {c0, c1}
  TagNames = {1, 2}
  DefaultColor = c0
  Discovered = dash
  MaxId = 4
  Runs = {1}
  Demands <- HostDemands
CHECK_DEADLOCK FALSE
PROPERTIES
  LinkedByName
