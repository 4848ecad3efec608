\* A BMC is created while its server_{ip} host is renamed or replaced.
SPECIFICATION Spec
CONSTANTS
  Nil = Nil
  a = a
  b = b
  Workers = {w1}
  Forms = {}
  Ips = {a}
  Types = {"BMC"}
  Notes = {}
  TagNames = {}
  HostLabels = {spare}
  HighRiskTags = {}
  MaxAssetId = 1
  MaxHostId = 1
  MaxProjectId = 0
  MaxRequests = 1
  Ops = {"create", "hosts"}
  Editable = {}
  SeedRows <- SeedEmpty
  AutoHostEnabled = TRUE
CHECK_DEADLOCK FALSE
PROPERTIES
  AutoHostIsNamed
