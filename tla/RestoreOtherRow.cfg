\* A create restores by the id it read while the id changes hands.
SPECIFICATION Spec
CONSTANTS
  Nil = Nil
  a = a
  b = b
  Workers = {w1, w2}
  Forms = {}
  Ips = {a, b}
  Types = {"BMC", "VM"}
  Notes = {}
  TagNames = {}
  HostLabels = {}
  HighRiskTags = {}
  MaxAssetId = 2
  MaxHostId = 0
  MaxProjectId = 0
  MaxRequests = 4
  Ops = {"create", "delete"}
  Editable = {}
  SeedRows <- SeedArchived
  AutoHostEnabled = FALSE
CHECK_DEADLOCK FALSE
PROPERTIES
  CreateWritesOwnRow
