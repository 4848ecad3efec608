\* API requests and forms of every kind race on two addresses, creates and
\* the auto-host button for server_{ip} while hosts come, are renamed and go.
SPECIFICATION Spec
CONSTANTS
  Nil = Nil
  a = a
  b = b
  Workers = {w1, w2}
  Forms = {f1}
  Ips = {a, b}
  Types = {"BMC", "VM"}
  Notes = {}
  TagNames = {}
  HostLabels = {spare}
  HighRiskTags = {}
  MaxAssetId = 3
  MaxHostId = 2
  MaxProjectId = 0
  MaxRequests = 2
  Ops = {"create", "update", "bulk", "archive", "delete", "autohost", "hosts"}
  Editable = {"host"}
  SeedRows <- SeedRaces
  AutoHostEnabled = TRUE
SYMMETRY Slots
CHECK_DEADLOCK FALSE
INVARIANTS
  ReferencesExist
PROPERTIES
  ImplementsInventory
  NoOrphanAutoHost
