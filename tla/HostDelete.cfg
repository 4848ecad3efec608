\* A host that assets are linked to is deleted.
SPECIFICATION Spec
CONSTANTS
  Nil = Nil
  a = a
  b = b
  Workers = {w1}
  Forms = {}
  Ips = {a}
  Types = {"BMC", "VM"}
  Notes = {}
  TagNames = {}
  HostLabels = {spare}
  HighRiskTags = {}
  MaxAssetId = 1
  MaxHostId = 1
  MaxProjectId = 0
  MaxRequests = 1
  Ops = {"create", "hosts"}
  Editable = {"host"}
  SeedRows <- SeedEmpty
  AutoHostEnabled = FALSE
CHECK_DEADLOCK FALSE
PROPERTIES
  HostDeletedUnlinked
