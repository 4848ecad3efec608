-------------------------------- MODULE Exports --------------------------------
(***************************************************************************)
(* Exports and what becomes of them when they are imported again, into the *)
(* tables they were taken from or into an empty database.                  *)
(*                                                                         *)
(* An export reads the four tables one after the other, each in a session  *)
(* of its own, on a thread: other requests commit in between.              *)
(***************************************************************************)
EXTENDS ImportApply

CONSTANTS
  NameRank, IpRank,     \* the order of names and of addresses
  Formats,              \* "bundle", "csv", "hosts.csv"
  Filters               \* [archived, type, project, host]; Nil: no filter

ASSUME ExportAssumption ==
  /\ NameRank \in [Names -> Nat] /\ IpRank \in [Ips -> Nat]
  /\ \A m, n \in Names : NameRank[m] = NameRank[n] => m = n
  /\ \A i, k \in Ips : IpRank[i] = IpRank[k] => i = k

VARIABLES
  export,     \* the export: how far it has got, what it has read
  saved,      \* for the properties: the tables when it began
  fresh       \* whether the tables were replaced by an empty database

exportVars == <<export, saved, fresh>>

NewExport == [phase |-> "new", format |-> "bundle", filter |-> Nil, alone |-> TRUE,
              base |-> 0, vendors |-> <<>>, projects |-> <<>>, hosts |-> <<>>, assets |-> <<>>]

Now == [vendors |-> vendors, projects |-> projects, hosts |-> hosts, assets |-> assets]

(* A text goes into the file as it is stored, spaces and all; only None is *)
(* an empty cell, or null.  The import strips it (ImportFiles).            *)
Cell(value) == IF value = Nil THEN Blank ELSE value
ByRank(names) == SetToSortSeq(names, LAMBDA m, n : NameRank[m] < NameRank[n])
NameIn(table, id) == IF id = Nil THEN Nil ELSE table[id].name

-----------------------------------------------------------------------------
(* The sections, each from the tables as they are.                         *)

ProjectNamed(name) == CHOOSE i \in Live(projects) : projects[i].name = name
HostNamed(name)    == CHOOSE i \in Live(hosts) : hosts[i].name = name

ProjectRows(only) ==
  LET names == {n \in NamesIn(projects) : only \in {Nil, n}}
  IN Mapped(ByRank(names), LAMBDA n : [name |-> n, color |-> projects[ProjectNamed(n)].color])

(* The first project, by name, of a host's active assets.                  *)
ActiveOf(host) == {ip \in Ips : /\ assets[ip] # Nil /\ assets[ip].host = host
                               /\ ~assets[ip].archived}

FirstProject(host) ==
  LET names == {NameIn(projects, assets[ip].project) : ip \in ActiveOf(host)} \ {Nil}
  IN IF names = {} THEN Nil ELSE ByRank(names)[1]

(* group_concat has no order of its own: the first address is any of them. *)
FirstIps(host, type) ==
  LET ips == {ip \in ActiveOf(host) : assets[ip].type = type}
  IN IF ips = {} THEN {Nil} ELSE ips

HostRow(host, os, bmc) ==
  [name |-> hosts[host].name, notes |-> Cell(hosts[host].notes),
   vendor |-> Cell(hosts[host].vendor), project |-> Cell(FirstProject(host)),
   osIp |-> Cell(os), bmcIp |-> Cell(bmc)]

HostRows(only, os, bmc) ==
  LET names == {n \in NamesIn(hosts) : only \in {Nil, n}}
  IN Mapped(ByRank(names), LAMBDA n : HostRow(HostNamed(n), os[HostNamed(n)], bmc[HostNamed(n)]))

Kept_ActiveOnly(ip, filter) ==
  /\ assets[ip] # Nil /\ ~assets[ip].archived
  /\ filter.type \in {Nil, assets[ip].type}
  /\ filter.project \in {Nil, NameIn(projects, assets[ip].project)}
  /\ filter.host \in {Nil, NameIn(hosts, assets[ip].host)}

Kept_AnyProject(ip, filter) ==
  /\ assets[ip] # Nil /\ (filter.archived \/ ~assets[ip].archived)
  /\ filter.type \in {Nil, assets[ip].type}
  /\ filter.host \in {Nil, NameIn(hosts, assets[ip].host)}

Kept(ip, filter) ==
  /\ assets[ip] # Nil /\ (filter.archived \/ ~assets[ip].archived)
  /\ filter.type \in {Nil, assets[ip].type}
  /\ filter.project \in {Nil, NameIn(projects, assets[ip].project)}
  /\ filter.host \in {Nil, NameIn(hosts, assets[ip].host)}

InOrder(T) == SetToSortSeq(T, LAMBDA s, t : s <= t)

AssetRow_NoNotes(ip) ==
  [ip |-> ip, type |-> assets[ip].type,
   project |-> Cell(NameIn(projects, assets[ip].project)),
   host |-> Cell(NameIn(hosts, assets[ip].host)), notes |-> Blank,
   tags |-> InOrder(TagsNow(ip)), archived |-> assets[ip].archived]

AssetRow(ip) ==
  [ip |-> ip, type |-> assets[ip].type,
   project |-> Cell(NameIn(projects, assets[ip].project)),
   host |-> Cell(NameIn(hosts, assets[ip].host)), notes |-> Cell(assets[ip].notes),
   tags |-> InOrder(TagsNow(ip)), archived |-> assets[ip].archived]

AssetRows(filter) ==
  Mapped(SetToSortSeq({ip \in Ips : Kept(ip, filter)}, LAMBDA i, k : IpRank[i] < IpRank[k]),
         AssetRow)

-----------------------------------------------------------------------------
(* The export, section by section.  A CSV file has what its columns hold.  *)

Read(phase, next) ==
  /\ export.phase = phase
  /\ export' = [next EXCEPT !.alone = commits = export.base]
  /\ UNCHANGED <<vars, saved, fresh>>

Begin ==
  /\ export.phase = "new"
  /\ \E format \in Formats, filter \in Filters :
       export' = [NewExport EXCEPT !.phase = "vendors", !.format = format,
                                   !.filter = filter, !.base = commits]
  /\ saved' = Now
  /\ UNCHANGED <<vars, fresh>>

ExportVendors ==
  Read("vendors", [export EXCEPT !.phase = "projects", !.vendors = ByRank(vendors)])

ExportProjects ==
  Read("projects", [export EXCEPT !.phase = "hosts",
                                  !.projects = ProjectRows(export.filter.project)])

ExportHosts ==
  \E os \in [Live(hosts) -> Ips \union {Nil}], bmc \in [Live(hosts) -> Ips \union {Nil}] :
    /\ \A h \in Live(hosts) : os[h] \in FirstIps(h, "OS") /\ bmc[h] \in FirstIps(h, "BMC")
    /\ Read("hosts", [export EXCEPT !.phase = "assets",
                                    !.hosts = HostRows(export.filter.host, os, bmc)])

ExportAssets ==
  Read("assets", [export EXCEPT !.phase = "done", !.assets = AssetRows(export.filter)])

(* The file as the importers read it: a JSON asset has no import flags.    *)
JsonAsset(row) ==
  [f \in RowFields |-> IF f \in DOMAIN row THEN row[f] ELSE Absent]

ExportedFile ==
  CASE export.format = "bundle" ->
         [kind |-> "bundle",
          file |-> [vendors |-> export.vendors, projects |-> export.projects,
                    hosts |-> Mapped(export.hosts, LAMBDA h :
                                [name |-> h.name, notes |-> h.notes, vendor |-> h.vendor]),
                    assets |-> Mapped(export.assets, JsonAsset)]]
    [] export.format = "csv" ->
         [kind |-> "csv",
          file |-> [hosts |-> export.hosts,
                    assets |-> [tagged |-> TRUE, rows |-> export.assets]]]
    [] export.format = "hosts.csv" ->
         [kind |-> "csv", file |-> [hosts |-> export.hosts, assets |-> Missing]]

-----------------------------------------------------------------------------
(* A second installation, and the import of the file.                      *)

Again(j) == run[j].source = "form"     \* not a connector's run

Reinstall ==
  /\ export.phase = "done" /\ ~fresh
  /\ \A j \in Runs : IF Again(j) THEN run[j].phase = "new" ELSE run[j].phase = "ended"
  /\ fresh' = TRUE
  /\ vendors' = {} /\ projects' = [i \in Ids |-> Nil] /\ hosts' = [i \in Ids |-> Nil]
  /\ assets' = [ip \in Ips |-> Nil]
  /\ UNCHANGED <<audit, run, loop, commits, restarts, demand, export, saved>>

Reimport(j) ==
  /\ export.phase = "done" /\ run[j].phase = "new"
  /\ \A i \in Runs : i < j => run[i].phase # "new"
  /\ \E dry \in Asked.modes :
       Continue(j, [NewRun EXCEPT !.phase = "posted", !.upload = ExportedFile,
                                  !.dry = dry, !.editor = TRUE])
  /\ Reads /\ UNCHANGED exportVars

-----------------------------------------------------------------------------
ExportInit == Init /\ export = NewExport /\ saved = Now /\ fresh = FALSE

ExportStep == Begin \/ ExportVendors \/ ExportProjects \/ ExportHosts \/ ExportAssets

ExportNext ==
  \/ ExportStep
  \/ Reinstall
  \/ \E j \in Runs : Reimport(j)
  \/ (Others \/ \E j \in Runs : Connect(j) \/ Receive(j) \/ Step(j)) /\ UNCHANGED exportVars

ExportSpec == ExportInit /\ [][ExportNext]_<<vars, exportVars>>

-----------------------------------------------------------------------------
(* Properties.                                                             *)

(* The tables by names: ids are not exported.                              *)
ByName(t) ==
  [vendors |-> t.vendors,
   projects |-> {t.projects[i] : i \in Live(t.projects)},
   hosts |-> {t.hosts[i] : i \in Live(t.hosts)},
   assets |-> [ip \in Ips |-> IF t.assets[ip] = Nil THEN Nil
                ELSE [t.assets[ip] EXCEPT !.project = NameIn(t.projects, @),
                                          !.host = NameIn(t.hosts, @)]]]

Undisturbed(j) == Again(j) /\ export.alone /\ run[j].alone /\ run[j].base = export.base

(* Tables whose names are still names after str.strip(), and still differ; *)
(* the API also stores others (HostCreate, ProjectCreate).                 *)
ClearNames(names) ==
  /\ \A n \in names : Stripped(n) # Blank
  /\ \A m, n \in names : Stripped(m) = Stripped(n) => m = n

NamesClear(t) ==
  ClearNames(t.vendors) /\ ClearNames(NamesIn(t.projects)) /\ ClearNames(NamesIn(t.hosts))

(* docs/export-import.md: an export can be imported later.  Every file that*)
(* no other request tore, of tables with clear names, is accepted by the   *)
(* validator and applied without an error, whatever it was filtered by, in *)
(* the database it was taken from and in an empty one.                     *)
ExportsAccepted ==
  \A j \in Runs : Undisturbed(j) /\ NamesClear(saved) => run[j].end \notin {"invalid", "failed"}

(* The tables by names with every name and note stripped, and blank notes  *)
(* gone: what a file can say of them.                                      *)
Trimmed(t) ==
  LET v == ByName(t)
      Bare(name) == IF name = Nil THEN Nil ELSE Stripped(name) IN
  [vendors |-> {Stripped(n) : n \in v.vendors},
   projects |-> {[p EXCEPT !.name = Stripped(@)] : p \in v.projects},
   hosts |-> {[h EXCEPT !.name = Stripped(@), !.notes = Text(@), !.vendor = Bare(@)]
                : h \in v.hosts},
   assets |-> [ip \in Ips |-> IF v.assets[ip] = Nil THEN Nil
                ELSE [v.assets[ip] EXCEPT !.project = Bare(@), !.host = Bare(@),
                                          !.notes = Text(@)]]]

(* A bundle with the archived assets restores, in an empty database, all   *)
(* that was there when it was taken, but for the spaces around names and   *)
(* notes.  Where nothing has changed, and nothing stored has such spaces,  *)
(* a bundle changes nothing, filtered or not.                              *)
Everything == [archived |-> TRUE, type |-> Nil, project |-> Nil, host |-> Nil]

Returned(j) == Undisturbed(j) /\ run[j].end = "completed" /\ export.format = "bundle"
Restores(j) == /\ export.filter = Everything /\ ~run[j].dry
               /\ commits = run[j].base + run[j].wrote

ChangesNothing(j) ==
  /\ run[j].wrote = 0
  /\ \A s \in Section : run[j].count[s].create = 0 /\ run[j].count[s].update = 0

BundleRoundTrips ==
  \A j \in Runs : Returned(j) =>
    IF fresh THEN Restores(j) => ByName(Now) = Trimmed(saved)
             ELSE Trimmed(saved) = ByName(saved) => ChangesNothing(j)

-----------------------------------------------------------------------------
(* What the documents say and the code does not keep.                      *)

(* docs/overview.md: host exports round-trip through CSV import.           *)
CsvSkips ==
  \A j \in Runs :
    ~fresh /\ Undisturbed(j) /\ run[j].end = "completed" /\ export.format # "bundle"
      => ByName(Now) = ByName(saved)

(* docs/export-import.md: export and re-import later, whatever the API let *)
(* its users store: a file that nobody tore is accepted, and a bundle      *)
(* restores what was there and changes nothing where nothing has changed.  *)
EveryExportAccepted ==
  \A j \in Runs : Undisturbed(j) => run[j].end \notin {"invalid", "failed"}

EveryBundleRestores ==
  \A j \in Runs : Returned(j) =>
    IF fresh THEN Restores(j) => ByName(Now) = ByName(saved) ELSE ChangesNothing(j)

(* docs/export-import.md: export and re-import later, whatever else is     *)
(* going on while the file is made.                                        *)
ExportsAlwaysAccepted ==
  \A j \in Runs : fresh /\ Again(j) /\ run[j].alone => run[j].end \notin {"invalid", "failed"}
===============================================================================
