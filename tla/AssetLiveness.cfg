\* Every accepted request is answered, under fair scheduling.
SPECIFICATION FairSpec
CONSTANTS
  Nil = Nil
  a = a
  b = b
  Workers = {w1}
  Forms = {f1, f2}
  Ips = {a}
  Types = {"BMC"}
  Notes = {}
  TagNames = {}
  HostLabels = {}
  HighRiskTags = {}
  MaxAssetId = 2
  MaxHostId = 1
  MaxProjectId = 0
  MaxRequests = 3
  Ops = {"create", "update", "bulk", "delete", "archive", "autohost"}
  Editable = {"type"}
  SeedRows <- SeedBmc
  AutoHostEnabled = TRUE
CHECK_DEADLOCK FALSE
PROPERTIES
  RequestsFinish
