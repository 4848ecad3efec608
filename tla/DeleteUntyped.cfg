\* An asset becomes high-risk while its delete form is on the way.
SPECIFICATION Spec
CONSTANTS
  Nil = Nil
  a = a
  b = b
  Workers = {w1}
  Forms = {f1}
  Ips = {a}
  Types = {"BMC", "VM"}
  Notes = {}
  TagNames = {}
  HostLabels = {}
  HighRiskTags = {}
  MaxAssetId = 1
  MaxHostId = 0
  MaxProjectId = 1
  MaxRequests = 2
  Ops = {"update", "delete", "projects"}
  Editable = {"project"}
  SeedRows <- SeedActive
  AutoHostEnabled = FALSE
CHECK_DEADLOCK FALSE
PROPERTIES
  HighRiskDeletesTyped
