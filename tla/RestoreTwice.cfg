\* Two creates meet the same archived address.
SPECIFICATION Spec
CONSTANTS
  Nil = Nil
  a = a
  b = b
  Workers = {w1, w2}
  Forms = {}
  Ips = {a}
  Types = {"BMC"}
  Notes = {}
  TagNames = {}
  HostLabels = {}
  HighRiskTags = {}
  MaxAssetId = 1
  MaxHostId = 0
  MaxProjectId = 0
  MaxRequests = 2
  Ops = {"create"}
  Editable = {}
  SeedRows <- SeedArchived
  AutoHostEnabled = FALSE
CHECK_DEADLOCK FALSE
PROPERTIES
  RestoresOnlyArchived
