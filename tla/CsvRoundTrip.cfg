SPECIFICATION ExportSpec
CONSTANTS
  Nil = Nil
  Absent = Absent
  Blank = Blank
  Bad = Bad
  Malformed = Malformed
  Missing = Missing
  i1 = i1
  i2 = i2
  i3 = i3
  na = na
  nb = nb
  nc = nc
  pc = pc
  n1 = n1
  pn = pn
  c0 = c0
  c1 = c1
  dash = dash
  Ips = {i1, i2, i3}
  Types <- MCTypes
  Lower <- MCLower
  Strip <- MCStrip
  Names = {"", na, nb, nc, pc}
  Notes = {"", n1, pn}
  Colors = {c0, c1}
  TagNames = {1, 2}
  DefaultColor = c0
  Discovered = dash
  MaxId = 3
  Runs = {1}
  Demands <- QuietDemands
  NameRank <- MCNameRank
  IpRank <- MCIpRank
  Formats = {"hosts.csv"}
  Filters <- FullFilter
CHECK_DEADLOCK FALSE
INVARIANTS
  CsvSkips
