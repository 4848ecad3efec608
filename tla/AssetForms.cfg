\* Two form handlers share the event loop with one API request; tags are
\* created, renamed and deleted.
SPECIFICATION Spec
CONSTANTS
  Nil = Nil
  a = a
  b = b
  Workers = {w1}
  Forms = {f1, f2}
  Ips = {a}
  Types = {"BMC"}
  Notes = {n}
  TagNames = {prod, lab}
  HostLabels = {}
  HighRiskTags = {prod}
  MaxAssetId = 2
  MaxHostId = 0
  MaxProjectId = 0
  MaxRequests = 3
  Ops = {"create", "update", "bulk", "delete", "tags"}
  Editable = {"tags"}
  SeedRows <- SeedBmc
  AutoHostEnabled = FALSE
SYMMETRY FormSlots
CHECK_DEADLOCK FALSE
INVARIANTS
  LinksSound
  AuditTracksTable
PROPERTIES
  FormsCreateNoTags
