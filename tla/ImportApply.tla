------------------------------ MODULE ImportApply ------------------------------
(***************************************************************************)
(* Imports at work: the upload handlers of the API and the UI, the         *)
(* pipeline parse - validate - apply that they and the connectors run, and *)
(* the import of an Nmap scan, beside the requests that change the same    *)
(* tables meanwhile.                                                       *)
(*                                                                         *)
(* The applier is no transaction.  Each section reads the table once, then *)
(* commits entry by entry; the ids it learnt stay in its maps.  An upload  *)
(* is handled on the event loop, which it keeps from the moment the file   *)
(* is read until the answer; a connector imports on a thread or from the   *)
(* command line, beside everything else.                                   *)
(*                                                                         *)
(* create_ip_asset, update_ip_asset and create_host read once more before  *)
(* they write; each is one step here, AssetStore has the first two in      *)
(* steps.  Vendors are known by their names: a host's vendor_id follows a  *)
(* vendor that is renamed.                                                 *)
(***************************************************************************)
EXTENDS ImportFiles

CONSTANTS
  Runs,                 \* imports, in the order they may be requested
  Names, Notes, Colors, TagNames,
  DefaultColor,         \* DEFAULT_PROJECT_COLOR
  Discovered,           \* the note of an asset an Nmap scan found
  MaxId,                \* bound on project and host ids
  Demands               \* what the users of a behaviour may do, by a name

Ids  == 1..MaxId
Temp == 0               \* the negative ids a dry run hands out

Project == [name : Names, color : Colors]
Host    == [name : Names, notes : Notes \union {Nil}, vendor : Names \union {Nil}]
Asset   == [type : Types, project : Ids \union {Nil}, host : Ids \union {Nil},
            notes : Notes \union {Discovered, Nil}, archived : BOOLEAN,
            tags : SUBSET TagNames]

Tables == [vendors : SUBSET Names, projects : [Ids -> Project \union {Nil}],
           hosts : [Ids -> Host \union {Nil}], assets : [Ips -> Asset \union {Nil}]]

Live(table) == {i \in Ids : table[i] # Nil}

(* The name of a project and of a host is UNIQUE in the schema.            *)
Unique(table) ==
  \A i, k \in Live(table) : table[i].name = table[k].name => i = k

(* The foreign keys of the schema.                                         *)
Linked(V, P, H, A) ==
  /\ \A ip \in Ips : A[ip] # Nil => /\ A[ip].project \in Live(P) \union {Nil}
                                   /\ A[ip].host \in Live(H) \union {Nil}
  /\ \A i \in Live(H) : H[i].vendor \in V \union {Nil}

(* What a file is read as; its names may be blank and its values bad.      *)
Bundle ==
  [vendors : Seq(Names \union {Blank}),
   projects : Seq([name : Names \union {Blank}, color : Colors \union {Nil, Bad}]),
   hosts : Seq([name : Names \union {Blank}, notes : Notes \union {Nil},
                vendor : Names \union {Nil}]),
   assets : Seq([ip : Ips \union {Bad}, type : Types \union {Bad},
                 project : Names \union {Nil}, host : Names \union {Nil},
                 notes : Notes \union {Nil}, notesGiven : BOOLEAN,
                 tags : Seq(DOMAIN Lower) \union {Nil}, archived : BOOLEAN \union {Nil},
                 merge : BOOLEAN, keepNotes : BOOLEAN, keepType : BOOLEAN])]

ScanBundle == [vendors : {<<>>}, projects : {<<>>}, hosts : {<<>>},
         assets : Seq([ip : Ips, type : Types])]

Parsed(u) == CASE u.kind = "bundle" -> ParseBundle(u.file)
               [] u.kind = "csv"    -> ParseCsv(u.file)
               [] u.kind = "nmap"   -> [EmptyBundle EXCEPT !.assets = ParseNmap(u.file)]

NoFile(u) == \/ u.file = Missing
             \/ u.kind = "csv" /\ u.file # Malformed
                  /\ u.file.hosts = Missing /\ u.file.assets = Missing

Readable(u) == u.file # Malformed /\ ~NoFile(u)

UploadOK(u) ==
  /\ u # Nil /\ u.kind \in {"bundle", "csv", "nmap"}
  /\ Readable(u) => Parsed(u) \in IF u.kind = "nmap" THEN ScanBundle ELSE Bundle

FromConnector(file) == [kind |-> "bundle", file |-> file]

(* runs: how many imports; uploads: the files users upload, [kind, file];  *)
(* bundles: what connectors build; modes: whether runs are dry; ops: the   *)
(* requests of others; seeds: the tables to start from; others and restarts*)
(* are bounds on what is counted.                                          *)
DemandOK(d) ==
  /\ d.runs \subseteq Runs /\ d.modes \subseteq BOOLEAN
  /\ d.sources \subseteq {"form", "thread"}
  /\ \A u \in d.uploads : UploadOK(u)
  /\ \A f \in d.bundles : UploadOK(FromConnector(f)) /\ Readable(FromConnector(f))
  /\ d.seeds \subseteq Tables /\ d.others \in Nat /\ d.restarts \in Nat
  /\ \A s \in d.seeds : /\ Linked(s.vendors, s.projects, s.hosts, s.assets)
                         /\ Unique(s.projects) /\ Unique(s.hosts)

ASSUME ImportAssumption ==
  /\ Runs \subseteq Nat /\ MaxId \in Nat \ {0}
  /\ DefaultColor \in Colors
  /\ {"OS", "BMC", "VM", "OTHER"} \subseteq Types
  /\ \A t \in DOMAIN Lower : Lower[t] \in TagNames \union {Bad}
  /\ Nil \notin Runs \union Project \union Host \union Asset \union Ids \union {Temp}
  /\ \A name \in DOMAIN Demands : DemandOK(Demands[name])

(* What is left of a text has no spaces to strip.                          *)
ASSUME StripAssumption ==
  \A t \in DOMAIN Strip : Strip[t] \in (Names \union Notes \union {Blank}) \ DOMAIN Strip

VARIABLES
  vendors, projects, hosts, assets,   \* the tables
  audit,      \* IMPORT_RUN entries: the runs they record
  run,        \* what each import has come to
  loop,       \* the run whose handler holds the event loop
  commits,    \* transactions that changed a table
  restarts,
  demand      \* the name of this behaviour's demand; it never changes

tables == <<vendors, projects, hosts, assets>>
vars   == <<vendors, projects, hosts, assets, audit, run, loop, commits, restarts, demand>>

Asked == Demands[demand]

Phases == {"new", "posted", "parsed", "valid", "vendors", "projects", "hosts",
           "assets", "tags", "create", "update", "archive",
           "scan", "discover", "ended"}
Ends   == {"none", "forbidden", "refused", "invalid", "completed", "failed", "killed"}

Section == {"vendors", "projects", "hosts", "assets"}
Zero    == [s \in Section |-> [create |-> 0, update |-> 0, skip |-> 0]]

NoIds == [n \in Names |-> Nil]

(* For the properties, base and wrote are the commits there were when the  *)
(* run began and its own since; alone, that nobody else committed meanwhile.*)
NewRun == [phase |-> "new", source |-> "form", upload |-> Nil, dry |-> TRUE,
           editor |-> FALSE, bundle |-> EmptyBundle, at |-> 1, known |-> Nil,
           projectIds |-> NoIds, hostIds |-> NoIds, row |-> Nil, goal |-> Nil,
           count |-> Zero, base |-> 0, wrote |-> 0, alone |-> FALSE, end |-> "none"]

Called(table, name) == {i \in Live(table) : table[i].name = name}
IdsByName(table) ==
  [n \in Names |-> IF Called(table, n) = {} THEN Nil
                   ELSE CHOOSE i \in Called(table, n) : TRUE]
NamesIn(table) == {table[i].name : i \in Live(table)}

(* INTEGER PRIMARY KEY without AUTOINCREMENT.                              *)
NextId(table, i) ==
  /\ \A k \in Live(table) : k < i
  /\ i = 1 \/ i - 1 \in Live(table)

-----------------------------------------------------------------------------
(* Steps of a run.  Writes count themselves; reads leave the tables alone. *)

Entry(q)     == q.bundle[q.phase][q.at]
AtEntry(j, section) == run[j].phase = section /\ run[j].at <= Len(run[j].bundle[section])
PastLast(j, section) == run[j].phase = section /\ run[j].at > Len(run[j].bundle[section])

Counted(q, section, how) == [q.count EXCEPT ![section][how] = @ + 1]

Continue(j, q) == run' = [run EXCEPT ![j] = q] /\ UNCHANGED loop

Stop_KeepsLoop(j, q, end) ==
  /\ run' = [run EXCEPT ![j] = [q EXCEPT !.phase = "ended", !.end = end, !.known = Nil,
                                         !.row = Nil, !.goal = Nil,
                                         !.alone = commits = q.base + q.wrote]]
  /\ UNCHANGED loop

Stop(j, q, end) ==
  /\ run' = [run EXCEPT ![j] = [q EXCEPT !.phase = "ended", !.end = end, !.known = Nil,
                                         !.row = Nil, !.goal = Nil,
                                         !.alone = commits = q.base + q.wrote]]
  /\ loop' = IF loop = j THEN Nil ELSE loop

Reads  == UNCHANGED <<tables, audit, commits, restarts, demand>>
Writes == commits' = commits + 1 /\ UNCHANGED <<audit, restarts, demand>>

(* An IntegrityError leaves apply_bundle: what was committed stays.        *)
Raise(j) == Stop(j, run[j], "failed") /\ Reads

Advance(j, q) == Continue(j, [q EXCEPT !.at = @ + 1])
Wrote(q) == [q EXCEPT !.wrote = @ + 1]

-----------------------------------------------------------------------------
(* The upload handlers.  The user is read first; the role is checked       *)
(* against the mode, before the API awaits the file or after the UI        *)
(* awaited the form.                                                       *)

Post(j) ==
  /\ run[j].phase = "new" /\ j \in Asked.runs /\ "form" \in Asked.sources
  /\ \A i \in Runs : i < j => run[i].phase # "new"
  /\ \E u \in Asked.uploads, dry \in Asked.modes, editor \in BOOLEAN :
       Continue(j, [NewRun EXCEPT !.phase = "posted", !.upload = u, !.dry = dry,
                                  !.editor = editor])
  /\ Reads

(* The file is read, piece by piece, and the event loop is kept from then  *)
(* on.  One that is too large is refused as a missing one is.              *)
Receive_AnyRole(j) ==
  LET q == run[j] IN
  /\ q.phase = "posted" /\ loop = Nil
  /\ \/ /\ Readable(q.upload)
        /\ run' = [run EXCEPT ![j] = [q EXCEPT !.bundle = Parsed(q.upload), !.base = commits,
                     !.phase = IF q.upload.kind = "nmap" THEN "scan" ELSE "parsed"]]
        /\ loop' = j
  /\ Reads

Receive(j) ==
  LET q == run[j] IN
  /\ q.phase = "posted" /\ loop = Nil
  /\ \/ ~q.dry /\ ~q.editor /\ Stop(j, q, "forbidden")
     \/ /\ q.dry \/ q.editor
        /\ \/ Stop(j, q, "refused")
           \/ q.upload.file = Malformed /\ Stop(j, q, "invalid")
           \/ /\ Readable(q.upload)
              /\ run' = [run EXCEPT ![j] = [q EXCEPT !.bundle = Parsed(q.upload), !.base = commits,
                           !.phase = IF q.upload.kind = "nmap" THEN "scan" ELSE "parsed"]]
              /\ loop' = j
  /\ Reads

(* A connector's bundle reaches run_import the same way.                   *)
Connect(j) ==
  /\ run[j].phase = "new" /\ j \in Asked.runs /\ "thread" \in Asked.sources
  /\ \A i \in Runs : i < j => run[i].phase # "new"
  /\ \E file \in Asked.bundles, dry \in Asked.modes :
       Continue(j, [NewRun EXCEPT !.phase = "parsed", !.source = "thread",
                      !.upload = FromConnector(file), !.dry = dry,
                      !.editor = TRUE, !.bundle = ParseBundle(file), !.base = commits])
  /\ Reads

-----------------------------------------------------------------------------
(* run_import                                                              *)

Validate(j) ==
  LET q == run[j] IN
  /\ q.phase = "parsed"
  /\ IF Valid(q.bundle, vendors, NamesIn(projects), NamesIn(hosts))
     THEN Continue(j, [q EXCEPT !.phase = "valid"])
     ELSE Stop(j, q, "invalid")
  /\ Reads

(* _upsert_vendors *)
OpenVendors(j) ==
  /\ run[j].phase = "valid"
  /\ Continue(j, [run[j] EXCEPT !.phase = "vendors", !.at = 1, !.known = vendors])
  /\ Reads

VendorEntry(j) ==
  LET q == run[j] name == Entry(q)
      created == [q EXCEPT !.count = Counted(q, "vendors", "create")] IN
  /\ AtEntry(j, "vendors")
  /\ \/ /\ name \in q.known
        /\ Advance(j, [q EXCEPT !.count = Counted(q, "vendors", "skip")]) /\ Reads
     \/ name \notin q.known /\ q.dry /\ Advance(j, created) /\ Reads
     \/ name \notin q.known /\ ~q.dry /\ name \in vendors /\ Raise(j)
     \/ /\ name \notin q.known /\ ~q.dry /\ name \notin vendors
        /\ vendors' = vendors \union {name}
        /\ Advance(j, Wrote(created))
        /\ Writes /\ UNCHANGED <<projects, hosts, assets>>

(* _upsert_projects *)
OpenProjects(j) ==
  /\ PastLast(j, "vendors")
  /\ Continue(j, [run[j] EXCEPT !.phase = "projects", !.at = 1, !.known = projects,
                                !.projectIds = IdsByName(projects)])
  /\ Reads

CreateProject(j) ==
  LET q == run[j] e == Entry(q)
      counted == [q EXCEPT !.count = Counted(q, "projects", "create")] IN
  /\ AtEntry(j, "projects") /\ Called(q.known, e.name) = {}
  /\ \/ q.dry /\ Advance(j, [counted EXCEPT !.projectIds[e.name] = Temp]) /\ Reads
     \/ ~q.dry /\ Called(projects, e.name) # {} /\ Raise(j)
     \/ /\ ~q.dry /\ Called(projects, e.name) = {}
        /\ \E i \in Ids :
             /\ NextId(projects, i)
             /\ projects' = [projects EXCEPT ![i] =
                  [name |-> e.name, color |-> IF e.color = Nil THEN DefaultColor ELSE e.color]]
             /\ Advance(j, Wrote([counted EXCEPT !.projectIds[e.name] = i]))
        /\ Writes /\ UNCHANGED <<vendors, hosts, assets>>

(* update_project writes the name again, to whatever row has the id now.   *)
UpdateProject(j) ==
  LET q == run[j] e == Entry(q)
      counted == [q EXCEPT !.count = Counted(q, "projects", "update")] IN
  /\ AtEntry(j, "projects")
  /\ \E i \in Called(q.known, e.name) :
       IF e.color \in {Nil, q.known[i].color}
       THEN Advance(j, [q EXCEPT !.count = Counted(q, "projects", "skip")]) /\ Reads
       ELSE \/ (q.dry \/ projects[i] = Nil) /\ Advance(j, counted) /\ Reads
            \/ ~q.dry /\ projects[i] # Nil /\ Called(projects, e.name) \ {i} # {} /\ Raise(j)
            \/ /\ ~q.dry /\ projects[i] # Nil /\ Called(projects, e.name) \ {i} = {}
               /\ projects' = [projects EXCEPT ![i] = [name |-> e.name, color |-> e.color]]
               /\ Advance(j, Wrote(counted))
               /\ Writes /\ UNCHANGED <<vendors, hosts, assets>>

ProjectEntry(j) == CreateProject(j) \/ UpdateProject(j)

(* _upsert_hosts *)
OpenHosts(j) ==
  /\ PastLast(j, "projects")
  /\ Continue(j, [run[j] EXCEPT !.phase = "hosts", !.at = 1, !.known = hosts,
                                !.hostIds = IdsByName(hosts)])
  /\ Reads

CreateHost(j) ==
  LET q == run[j] e == Entry(q)
      counted == [q EXCEPT !.count = Counted(q, "hosts", "create")]
      accepted == e.vendor \in vendors \union {Nil} /\ Called(hosts, e.name) = {} IN
  /\ AtEntry(j, "hosts") /\ Called(q.known, e.name) = {}
  /\ \/ q.dry /\ Advance(j, [counted EXCEPT !.hostIds[e.name] = Temp]) /\ Reads
     \/ ~q.dry /\ ~accepted /\ Raise(j)
     \/ /\ ~q.dry /\ accepted
        /\ \E i \in Ids :
             /\ NextId(hosts, i)
             /\ hosts' = [hosts EXCEPT ![i] = e]
             /\ Advance(j, Wrote([counted EXCEPT !.hostIds[e.name] = i]))
        /\ Writes /\ UNCHANGED <<vendors, projects, assets>>

Or(value, default) == IF value = Nil THEN default ELSE value

UpdateHost_CountsLate(j) ==
  LET q == run[j] e == Entry(q)
      counted == [q EXCEPT !.count = Counted(q, "hosts", "update")] IN
  /\ AtEntry(j, "hosts")
  /\ \E i \in Called(q.known, e.name) :
       IF e.notes \in {Nil, q.known[i].notes} /\ e.vendor \in {Nil, q.known[i].vendor}
       THEN Advance(j, [q EXCEPT !.count = Counted(q, "hosts", "skip")]) /\ Reads
       ELSE LET refused == \/ e.vendor \notin vendors \union {Nil}
                           \/ hosts[i] # Nil /\ Called(hosts, e.name) \ {i} # {} IN
            \/ q.dry /\ Advance(j, q) /\ Reads
            \/ ~q.dry /\ refused /\ Raise(j)
            \/ ~q.dry /\ ~refused /\ hosts[i] = Nil /\ Advance(j, counted) /\ Reads
            \/ /\ ~q.dry /\ ~refused /\ hosts[i] # Nil
               /\ hosts' = [hosts EXCEPT ![i] =
                    [name |-> e.name, notes |-> Or(e.notes, hosts[i].notes),
                     vendor |-> Or(e.vendor, hosts[i].vendor)]]
               /\ Advance(j, Wrote(counted))
               /\ Writes /\ UNCHANGED <<vendors, projects, assets>>

UpdateHost(j) ==
  LET q == run[j] e == Entry(q)
      counted == [q EXCEPT !.count = Counted(q, "hosts", "update")] IN
  /\ AtEntry(j, "hosts")
  /\ \E i \in Called(q.known, e.name) :
       IF e.notes \in {Nil, q.known[i].notes} /\ e.vendor \in {Nil, q.known[i].vendor}
       THEN Advance(j, [q EXCEPT !.count = Counted(q, "hosts", "skip")]) /\ Reads
       ELSE LET refused == \/ e.vendor \notin vendors \union {Nil}
                           \/ hosts[i] # Nil /\ Called(hosts, e.name) \ {i} # {} IN
            \/ q.dry /\ Advance(j, counted) /\ Reads
            \/ ~q.dry /\ refused /\ Raise(j)
            \/ ~q.dry /\ ~refused /\ hosts[i] = Nil /\ Advance(j, counted) /\ Reads
            \/ /\ ~q.dry /\ ~refused /\ hosts[i] # Nil
               /\ hosts' = [hosts EXCEPT ![i] =
                    [name |-> e.name, notes |-> Or(e.notes, hosts[i].notes),
                     vendor |-> Or(e.vendor, hosts[i].vendor)]]
               /\ Advance(j, Wrote(counted))
               /\ Writes /\ UNCHANGED <<vendors, projects, assets>>

HostEntry(j) == CreateHost(j) \/ UpdateHost(j)

-----------------------------------------------------------------------------
(* _upsert_ip_assets: read the row, read its tags, decide, write, archive. *)

OpenAssets(j) ==
  /\ PastLast(j, "hosts")
  /\ Continue(j, [run[j] EXCEPT !.phase = "assets", !.at = 1, !.known = Nil])
  /\ Reads

AssetOf(q)  == q.bundle.assets[q.at]
ProjectOf(q) == IF AssetOf(q).project = Nil THEN Nil ELSE q.projectIds[AssetOf(q).project]
HostOf(q)    == IF AssetOf(q).host = Nil THEN Nil ELSE q.hostIds[AssetOf(q).host]

NextAsset(j, q) ==
  Continue(j, [q EXCEPT !.phase = "assets", !.at = @ + 1, !.row = Nil, !.goal = Nil])

ReadAsset(j) ==
  LET q == run[j]
      counted == [q EXCEPT !.count = Counted(q, "assets", "create")] IN
  /\ AtEntry(j, "assets")
  /\ \/ /\ assets[AssetOf(q).ip] # Nil
        /\ Continue(j, [q EXCEPT !.phase = "tags", !.row = assets[AssetOf(q).ip]])
     \/ assets[AssetOf(q).ip] = Nil /\ q.dry /\ NextAsset(j, counted)
     \/ /\ assets[AssetOf(q).ip] = Nil /\ ~q.dry
        /\ Continue(j, [counted EXCEPT !.phase = "create"])
  /\ Reads

TagsNow(ip) == IF assets[ip] = Nil THEN {} ELSE assets[ip].tags

(* The tags the entry asks for, of a row with the tags T; and whether these*)
(* are they.  Tags are compared as lists: the stored ones are in the order *)
(* of their names, and what is merged comes after them.  So a list that is *)
(* not merged is the stored one if it has its tags in that order.          *)
TargetTags(a, T) ==
  CASE a.tags = Nil            -> T
    [] a.tags # Nil /\ a.merge  -> T \union TagsIn(a.tags)
    [] a.tags # Nil /\ ~a.merge -> TagsIn(a.tags)

Ascending(tags) == \A k, l \in DOMAIN tags : k < l => tags[k] < tags[l]

TagsKept_Raw(a, T) ==
  CASE a.tags = Nil            -> TRUE
    [] a.tags # Nil /\ a.merge  -> ToSet(a.tags) \subseteq T
    [] a.tags # Nil /\ ~a.merge -> ToSet(a.tags) = T /\ Ascending(a.tags)

TagsKept(a, T) ==
  CASE a.tags = Nil            -> TRUE
    [] a.tags # Nil /\ a.merge  -> TagsIn(a.tags) \subseteq T
    [] a.tags # Nil /\ ~a.merge -> TagsIn(a.tags) = T /\ Ascending(NormalTags(a.tags))

(* An empty note, "", is not kept: it is false as None is.                 *)
WritesNotes(a, row) ==
  (a.notesGiven \/ a.notes # Nil) /\ ~(a.keepNotes /\ row.notes \notin {Nil, ""})

(* The row as the entry wants it; what the entry does not give stays.      *)
Goal(q, T) ==
  LET a == AssetOf(q) row == q.row IN
  [type |-> IF a.keepType THEN row.type ELSE a.type,
   project |-> IF a.project = Nil THEN row.project ELSE ProjectOf(q),
   host |-> IF a.host = Nil THEN row.host ELSE HostOf(q),
   notes |-> IF WritesNotes(a, row) THEN a.notes ELSE row.notes,
   archived |-> Or(a.archived, row.archived),
   tags |-> TargetTags(a, T)]

ReadTags(j) ==
  LET q == run[j]
      T == TagsNow(AssetOf(run[j]).ip)
      goal == Goal(run[j], T)
      counted == [q EXCEPT !.count = Counted(q, "assets", "update")] IN
  /\ q.phase = "tags"
  /\ IF goal = [q.row EXCEPT !.tags = goal.tags] /\ TagsKept(AssetOf(q), T)
     THEN NextAsset(j, [q EXCEPT !.count = Counted(q, "assets", "skip")])
     ELSE IF q.dry THEN NextAsset(j, counted)
     ELSE Continue(j, [counted EXCEPT !.phase = "update", !.goal = goal])
  /\ Reads

Exists_Unchecked(project, host) == TRUE

Exists(project, host) ==
  project \in Live(projects) \union {Nil} /\ host \in Live(hosts) \union {Nil}

Written(a, row) == /\ assets' = [assets EXCEPT ![a.ip] = row]
                   /\ Writes /\ UNCHANGED <<vendors, projects, hosts>>

(* A row that exists by now is restored when it is archived and refused    *)
(* otherwise; tags that are not given stay.                                *)
CreateAsset(j) ==
  LET q == run[j] a == AssetOf(run[j]) now == assets[AssetOf(run[j]).ip]
      refused == \/ now # Nil /\ ~now.archived
                 \/ ~Exists(ProjectOf(q), HostOf(q)) IN
  /\ q.phase = "create"
  /\ \/ refused /\ Raise(j)
     \/ /\ ~refused
        /\ Written(a, [type |-> a.type, project |-> ProjectOf(q), host |-> HostOf(q),
                  notes |-> a.notes, archived |-> FALSE,
                  tags |-> IF a.tags # Nil THEN TagsIn(a.tags)
                           ELSE IF now # Nil THEN now.tags ELSE {}])
        /\ IF a.archived = TRUE THEN Continue(j, [Wrote(q) EXCEPT !.phase = "archive"])
                                ELSE NextAsset(j, Wrote(q))

(* update_ip_asset: type and tags as decided, project and host if they are *)
(* named, notes if they are to be written.  Nothing happens to a row that  *)
(* is gone, nor to one that has it all already.                            *)
UpdateAsset(j) ==
  LET q == run[j] a == AssetOf(run[j]) now == assets[AssetOf(run[j]).ip]
      next == [now EXCEPT !.type = q.goal.type, !.project = Or(ProjectOf(q), @),
                          !.host = Or(HostOf(q), @),
                          !.notes = IF WritesNotes(a, q.row) THEN a.notes ELSE @,
                          !.tags = q.goal.tags]
      After(r) == IF a.archived # Nil THEN Continue(j, [r EXCEPT !.phase = "archive"])
                                      ELSE NextAsset(j, r) IN
  /\ q.phase = "update"
  /\ \/ now = Nil /\ After(q) /\ Reads
     \/ now # Nil /\ next = now /\ After(q) /\ Reads
     \/ /\ now # Nil /\ next # now
        /\ ~Exists(ProjectOf(q), HostOf(q)) /\ Raise(j)
     \/ /\ now # Nil /\ next # now
        /\ Exists(ProjectOf(q), HostOf(q))
        /\ Written(a, next) /\ After(Wrote(q))

(* set_ip_asset_archived, in a transaction of its own.                     *)
ArchiveAsset_Skipped(j) ==
  run[j].phase = "archive" /\ NextAsset(j, run[j]) /\ Reads

ArchiveAsset(j) ==
  LET q == run[j] a == AssetOf(run[j]) IN
  /\ q.phase = "archive"
  /\ \/ assets[a.ip] = Nil /\ NextAsset(j, q) /\ Reads
     \/ /\ assets[a.ip] # Nil
        /\ Written(a, [assets[a.ip] EXCEPT !.archived = a.archived])
        /\ NextAsset(j, Wrote(q))

(* The audit entry of an applied run is written last.                      *)
Record_Early(j) ==
  /\ run[j].phase = "assets"
  /\ audit' = IF run[j].dry THEN audit ELSE audit \union {j}
  /\ Stop(j, run[j], "completed")
  /\ UNCHANGED <<tables, commits, restarts, demand>>

Record(j) ==
  /\ PastLast(j, "assets")
  /\ audit' = IF run[j].dry THEN audit ELSE audit \union {j}
  /\ Stop(j, run[j], "completed")
  /\ UNCHANGED <<tables, commits, restarts, demand>>

-----------------------------------------------------------------------------
(* import_nmap_xml: addresses that are stored are counted, the others      *)
(* created; nothing records the run.                                       *)

NmapRead_ActiveOnly(j) ==
  LET q == run[j] ip == AssetOf(run[j]).ip
      stored == assets[ip] # Nil /\ ~assets[ip].archived IN
  /\ q.phase = "scan" /\ q.at <= Len(q.bundle.assets)
  /\ \/ /\ stored
        /\ Advance(j, [q EXCEPT !.count = Counted(q, "assets", "skip")])
     \/ /\ ~stored /\ q.dry
        /\ Advance(j, [q EXCEPT !.count = Counted(q, "assets", "create")])
     \/ /\ ~stored /\ ~q.dry
        /\ Continue(j, [q EXCEPT !.phase = "discover",
                                 !.count = Counted(q, "assets", "create")])
  /\ Reads

NmapRead(j) ==
  LET q == run[j] ip == AssetOf(run[j]).ip IN
  /\ q.phase = "scan" /\ q.at <= Len(q.bundle.assets)
  /\ \/ /\ assets[ip] # Nil
        /\ Advance(j, [q EXCEPT !.count = Counted(q, "assets", "skip")])
     \/ /\ assets[ip] = Nil /\ q.dry
        /\ Advance(j, [q EXCEPT !.count = Counted(q, "assets", "create")])
     \/ /\ assets[ip] = Nil /\ ~q.dry
        /\ Continue(j, [q EXCEPT !.phase = "discover",
                                 !.count = Counted(q, "assets", "create")])
  /\ Reads

NmapCreate(j) ==
  LET q == run[j] a == AssetOf(run[j]) now == assets[AssetOf(run[j]).ip]
      taken == now # Nil /\ ~now.archived IN
  /\ q.phase = "discover"
  /\ \/ taken /\ Raise(j)
     \/ /\ ~taken
        /\ Written(a, [type |-> a.type, project |-> Nil, host |-> Nil,
                       notes |-> Discovered, archived |-> FALSE,
                       tags |-> IF now # Nil THEN now.tags ELSE {}])
        /\ Advance(j, [Wrote(q) EXCEPT !.phase = "scan"])

NmapDone(j) ==
  /\ run[j].phase = "scan" /\ run[j].at > Len(run[j].bundle.assets)
  /\ Stop(j, run[j], "completed") /\ Reads

-----------------------------------------------------------------------------
(* The other requests, each in one transaction.  Rows of the catalogs are  *)
(* deleted on the event loop; assets are edited and deleted on threads.    *)

OthersCommitted == commits - SumFunction([j \in Runs |-> run[j].wrote])

Request(op, onLoop) ==
  /\ op \in Asked.ops /\ OthersCommitted < Asked.others /\ Writes
  /\ onLoop => loop = Nil
  /\ UNCHANGED <<run, loop>>

Unassigned(column, id) ==
  [ip \in Ips |-> IF assets[ip] # Nil /\ assets[ip][column] = id
                  THEN [assets[ip] EXCEPT ![column] = Nil] ELSE assets[ip]]

DropProject ==
  /\ Request("projects", TRUE)
  /\ \E i \in Live(projects) : /\ projects' = [projects EXCEPT ![i] = Nil]
                              /\ assets' = Unassigned("project", i)
  /\ UNCHANGED <<vendors, hosts>>

AddProject ==
  /\ Request("projects", FALSE)
  /\ \E i \in Ids, n \in Names :
       /\ NextId(projects, i) /\ Called(projects, n) = {}
       /\ projects' = [projects EXCEPT ![i] = [name |-> n, color |-> DefaultColor]]
  /\ UNCHANGED <<vendors, hosts, assets>>

DropHost ==
  /\ Request("hosts", TRUE)
  /\ \E i \in Live(hosts) : /\ hosts' = [hosts EXCEPT ![i] = Nil]
                           /\ assets' = Unassigned("host", i)
  /\ UNCHANGED <<vendors, projects>>

AddHost ==
  /\ Request("hosts", FALSE)
  /\ \E i \in Ids, n \in Names :
       /\ NextId(hosts, i) /\ Called(hosts, n) = {}
       /\ hosts' = [hosts EXCEPT ![i] = [name |-> n, notes |-> Nil, vendor |-> Nil]]
  /\ UNCHANGED <<vendors, projects, assets>>

AddVendor ==
  /\ Request("vendors", FALSE)
  /\ \E n \in Names \ vendors : vendors' = vendors \union {n}
  /\ UNCHANGED <<projects, hosts, assets>>

DropVendor ==
  /\ Request("vendors", TRUE)
  /\ \E n \in vendors :
       /\ vendors' = vendors \ {n}
       /\ hosts' = [i \in Ids |-> IF hosts[i] # Nil /\ hosts[i].vendor = n
                                 THEN [hosts[i] EXCEPT !.vendor = Nil] ELSE hosts[i]]
  /\ UNCHANGED <<projects, assets>>

StoredIps == {ip \in Ips : assets[ip] # Nil}

EditType ==
  /\ Request("type", FALSE)
  /\ \E ip \in StoredIps, t \in Types : assets' = [assets EXCEPT ![ip].type = t]
  /\ UNCHANGED <<vendors, projects, hosts>>

EditNotes ==
  /\ Request("notes", FALSE)
  /\ \E ip \in StoredIps, n \in Notes : assets' = [assets EXCEPT ![ip].notes = n]
  /\ UNCHANGED <<vendors, projects, hosts>>

EditTags ==
  /\ Request("tags", FALSE)
  /\ \E ip \in StoredIps, T \in SUBSET TagNames : assets' = [assets EXCEPT ![ip].tags = T]
  /\ UNCHANGED <<vendors, projects, hosts>>

DropAsset ==
  /\ Request("assets", FALSE)
  /\ \E ip \in StoredIps : assets' = [assets EXCEPT ![ip] = Nil]
  /\ UNCHANGED <<vendors, projects, hosts>>

AddAsset ==
  /\ Request("assets", FALSE)
  /\ \E ip \in Ips \ StoredIps, t \in Types :
       assets' = [assets EXCEPT ![ip] = [type |-> t, project |-> Nil, host |-> Nil,
                    notes |-> Nil, archived |-> FALSE, tags |-> {}]]
  /\ UNCHANGED <<vendors, projects, hosts>>

ArchiveOther ==
  /\ Request("archive", FALSE)
  /\ \E ip \in StoredIps : ~assets[ip].archived /\ assets' = [assets EXCEPT ![ip].archived = TRUE]
  /\ UNCHANGED <<vendors, projects, hosts>>

Restart ==
  /\ restarts < Asked.restarts /\ restarts' = restarts + 1
  /\ run' = [j \in Runs |-> IF run[j].phase \in {"new", "ended"} THEN run[j]
                            ELSE [run[j] EXCEPT !.phase = "ended", !.end = "killed",
                                    !.known = Nil, !.row = Nil, !.goal = Nil]]
  /\ loop' = Nil
  /\ UNCHANGED <<tables, audit, commits, demand>>

-----------------------------------------------------------------------------
Init ==
  /\ demand \in DOMAIN Demands
  /\ \E s \in Asked.seeds : /\ vendors = s.vendors /\ projects = s.projects
                      /\ hosts = s.hosts /\ assets = s.assets
  /\ audit = {}
  /\ run = [j \in Runs |-> NewRun]
  /\ loop = Nil /\ commits = 0 /\ restarts = 0

Apply(j) ==
  \/ OpenVendors(j) \/ VendorEntry(j)
  \/ OpenProjects(j) \/ ProjectEntry(j)
  \/ OpenHosts(j) \/ HostEntry(j)
  \/ OpenAssets(j) \/ ReadAsset(j) \/ ReadTags(j)
  \/ CreateAsset(j) \/ UpdateAsset(j) \/ ArchiveAsset(j)

Nmap(j) == NmapRead(j) \/ NmapCreate(j) \/ NmapDone(j)

Step(j) == Validate(j) \/ Apply(j) \/ Record(j) \/ Nmap(j)

Others ==
  \/ AddProject \/ DropProject \/ AddHost \/ DropHost \/ AddVendor \/ DropVendor
  \/ EditType \/ EditNotes \/ EditTags \/ DropAsset \/ AddAsset
  \/ ArchiveOther

Next ==
  \/ \E j \in Runs : Post(j) \/ Connect(j) \/ Receive(j) \/ Step(j)
  \/ Others
  \/ Restart

Spec == Init /\ [][Next]_vars

(* A run that has its file goes on: nothing it does waits for anyone.  The *)
(* event loop resumes the handlers that wait for it in turn.               *)
FairSpec == Spec /\ \A j \in Runs : WF_vars(Step(j)) /\ SF_vars(Receive(j))

-----------------------------------------------------------------------------
(* Properties.                                                             *)

(* Every variable keeps its type, and every row its NOT NULL columns.      *)
ImportTypeOK ==
  /\ [vendors |-> vendors, projects |-> projects, hosts |-> hosts, assets |-> assets]
       \in Tables
  /\ demand \in DOMAIN Demands
  /\ audit \subseteq Runs /\ loop \in Runs \union {Nil}
  /\ \A j \in Runs :
       /\ run[j].phase \in Phases /\ run[j].end \in Ends
       /\ run[j].projectIds \in [Names -> Ids \union {Nil, Temp}]
       /\ run[j].hostIds \in [Names -> Ids \union {Nil, Temp}]
       /\ run[j].at \in Nat /\ run[j].wrote \in Nat

(* An id learnt earlier never leaves a row that refers to nothing, however *)
(* long ago the project, host or vendor was deleted.                       *)
ReferencesKept == Linked(vendors, projects, hosts, assets)

(* docs/export-import.md: only an editor's apply run changes anything; a   *)
(* dry run, whatever its file, commits nothing.                            *)
OnlyEditorsChange == \A j \in Runs : run[j].wrote > 0 => run[j].editor /\ ~run[j].dry

(* docs/export-import.md: the audit log has an IMPORT_RUN entry for every  *)
(* run that was applied to its last row, and for no run that failed midway,*)
(* was killed, or was a dry run; an Nmap scan has none.                    *)
WasWhole(j) ==
  /\ run[j].end = "completed" /\ ~run[j].dry
  /\ \A s \in Section :
       LET c == run[j].count[s] IN c.create + c.update + c.skip = Len(run[j].bundle[s])

AuditedIffWhole ==
  \A j \in Runs : j \in audit <=> run[j].upload # Nil /\ run[j].upload.kind # "nmap" /\ WasWhole(j)

(* A file in which no name and no address comes twice.                     *)
NoRepeats(b) ==
  /\ Cardinality(ToSet(b.vendors)) = Len(b.vendors)
  /\ \A s \in {"projects", "hosts"} : Cardinality(NamesOf(b[s])) = Len(b[s])
  /\ Cardinality({b.assets[k].ip : k \in DOMAIN b.assets}) = Len(b.assets)

ListsInOrder(b) ==
  \A k \in DOMAIN b.assets : LET a == b.assets[k] IN
    a.tags = Nil \/ a.merge \/ Ascending(NormalTags(a.tags))

Finished(j, dry) == run[j].end = "completed" /\ run[j].dry = dry /\ run[j].alone

(* docs/export-import.md: a dry run reports what would be created, updated *)
(* and skipped.  An apply of the same file to the same tables counts the   *)
(* same, provided the file names nothing twice.  Nor does an apply of such *)
(* a file to tables the dry run accepted end in an error, whatever an      *)
(* earlier run left half done.                                             *)
Predicted(i, j) ==
  /\ Finished(i, TRUE) /\ Finished(j, FALSE)
  /\ run[i].upload = run[j].upload /\ run[i].base = run[j].base

Forewarned(i, j) ==
  /\ run[i].end = "completed" /\ run[i].dry /\ run[i].alone
  /\ run[i].upload = run[j].upload /\ run[i].base = run[j].base
  /\ run[j].alone /\ ~run[j].dry

DryRunPredicts ==
  \A i, j \in Runs : NoRepeats(run[i].bundle) =>
    /\ Predicted(i, j)  => run[i].count = run[j].count
    /\ Forewarned(i, j) => run[j].end # "failed"

(* When a run has been applied, the tables hold what its file says: also   *)
(* when an earlier attempt was cut off between creating an asset and       *)
(* archiving it, or between two rows.                                      *)
Holds(b) ==
  /\ ToSet(b.vendors) \subseteq vendors
  /\ \A k \in DOMAIN b.projects : \E i \in Called(projects, b.projects[k].name) :
       b.projects[k].color \in {Nil, projects[i].color}
  /\ \A k \in DOMAIN b.hosts : \E i \in Called(hosts, b.hosts[k].name) :
       b.hosts[k].notes \in {Nil, hosts[i].notes} /\ b.hosts[k].vendor \in {Nil, hosts[i].vendor}
  /\ \A k \in DOMAIN b.assets :
       LET a == b.assets[k] row == assets[b.assets[k].ip] IN
       /\ row # Nil
       /\ ~a.keepType => row.type = a.type
       /\ a.project # Nil => row.project \in Called(projects, a.project)
       /\ a.host # Nil => row.host \in Called(hosts, a.host)
       /\ a.archived \in {Nil, row.archived}
       /\ a.notesGiven /\ ~a.keepNotes => row.notes = a.notes
       /\ a.tags # Nil => IF a.merge THEN TagsIn(a.tags) \subseteq row.tags
                                    ELSE TagsIn(a.tags) = row.tags

AppliedHolds ==
  \A j \in Runs :
    /\ Finished(j, FALSE) /\ commits = run[j].base + run[j].wrote
    /\ run[j].upload.kind # "nmap" /\ NoRepeats(run[j].bundle)
    => Holds(run[j].bundle)

(* Applying a file again right after it was applied skips every row, when  *)
(* its tag lists are in order.                                             *)
ReapplySkips ==
  \A i, j \in Runs :
    /\ Finished(i, FALSE) /\ Finished(j, FALSE) /\ i < j /\ run[i].upload.kind # "nmap"
    /\ run[i].upload = run[j].upload /\ run[j].base = run[i].base + run[i].wrote
    /\ NoRepeats(run[i].bundle) /\ ListsInOrder(run[i].bundle)
    => run[j].wrote = 0 /\ \A s \in Section : run[j].count[s].update = 0

(* docs/nmap-upload.md: a scan updates no asset that is stored, archived   *)
(* ones included.                                                          *)
NmapKeepsAssets ==
  [][\A j \in Runs : run[j].phase \in {"scan", "discover"} /\ run'[j] # run[j] =>
       \A ip \in Ips : assets[ip] # Nil => assets'[ip] = assets[ip]]_vars

(* Every import that was begun ends.                                       *)
ImportsEnd == \A j \in Runs : run[j].phase # "new" ~> run[j].phase = "ended"

-----------------------------------------------------------------------------
(* What the documents say and the code does not keep.                      *)

(* docs/export-import.md: dry-run reports what would be created, updated   *)
(* and skipped, whatever the file repeats.                                 *)
DryRunTellsTruth == \A i, j \in Runs : Predicted(i, j) => run[i].count = run[j].count

(* docs/data-model.md: with preserve_existing_notes, notes that are not    *)
(* empty are not overwritten.                                              *)
Writing(j) == run[j].phase = "update" /\ run'[j] # run[j]

NotesPreserved ==
  [][\A j \in Runs : Writing(j) /\ AssetOf(run[j]).keepNotes =>
       LET ip == AssetOf(run[j]).ip IN
       assets[ip] # Nil /\ assets[ip].notes \notin {Nil, ""}
         => assets'[ip].notes = assets[ip].notes]_vars

(* docs/data-model.md: with preserve_existing_type, existing records keep  *)
(* their current type.                                                     *)
TypePreserved ==
  [][\A j \in Runs : Writing(j) /\ AssetOf(run[j]).keepType =>
       LET ip == AssetOf(run[j]).ip IN
       assets[ip] # Nil => assets'[ip].type = assets[ip].type]_vars

(* docs/data-model.md: merge_tags merges with the existing tags.           *)
TagsMerged ==
  [][\A j \in Runs : Writing(j) /\ AssetOf(run[j]).merge =>
       LET ip == AssetOf(run[j]).ip IN
       assets[ip] # Nil => assets[ip].tags \subseteq assets'[ip].tags]_vars

(* docs/data-model.md: addresses are linked to hosts through host_name.    *)
LinkedByName ==
  [][\A j \in Runs : run[j].phase \in {"create", "update"} /\ run'[j] # run[j] =>
       LET a == AssetOf(run[j]) IN
       a.host # Nil /\ assets'[a.ip] # assets[a.ip] /\ assets'[a.ip].host # Nil
         => hosts[assets'[a.ip].host].name = a.host]_vars
===============================================================================
