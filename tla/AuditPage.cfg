\* An id is used again after its asset is deleted.
SPECIFICATION Spec
CONSTANTS
  Nil = Nil
  a = a
  b = b
  Workers = {w1}
  Forms = {}
  Ips = {a, b}
  Types = {"BMC"}
  Notes = {}
  TagNames = {}
  HostLabels = {}
  HighRiskTags = {}
  MaxAssetId = 2
  MaxHostId = 0
  MaxProjectId = 0
  MaxRequests = 3
  Ops = {"create", "delete"}
  Editable = {}
  SeedRows <- SeedEmpty
  AutoHostEnabled = FALSE
CHECK_DEADLOCK FALSE
INVARIANTS
  AuditPageIsAboutAsset
