\* Two API requests race on two addresses while projects come and go.
SPECIFICATION Spec
CONSTANTS
  Nil = Nil
  a = a
  b = b
  Workers = {w1, w2}
  Forms = {}
  Ips = {a, b}
  Types = {"BMC", "VM"}
  Notes = {n}
  TagNames = {}
  HostLabels = {}
  HighRiskTags = {}
  MaxAssetId = 3
  MaxHostId = 0
  MaxProjectId = 1
  MaxRequests = 3
  Ops = {"create", "update", "delete", "archive", "projects"}
  Editable = {"project", "type"}
  SeedRows <- SeedRaces
  AutoHostEnabled = FALSE
SYMMETRY Slots
CHECK_DEADLOCK FALSE
INVARIANTS
  TypeOK
  AddressesUnique
  UpdatesAuditedChange
PROPERTIES
  OnlyNamedRowChanges
  UngivenColumnsKept
