\* A bulk edit sets a value the asset already has.
SPECIFICATION Spec
CONSTANTS
  Nil = Nil
  a = a
  b = b
  Workers = {}
  Forms = {f1}
  Ips = {a}
  Types = {"BMC"}
  Notes = {}
  TagNames = {}
  HostLabels = {}
  HighRiskTags = {}
  MaxAssetId = 1
  MaxHostId = 0
  MaxProjectId = 0
  MaxRequests = 1
  Ops = {"bulk"}
  Editable = {"type"}
  SeedRows <- SeedBmc
  AutoHostEnabled = FALSE
CHECK_DEADLOCK FALSE
INVARIANTS
  BulkAuditsChange
