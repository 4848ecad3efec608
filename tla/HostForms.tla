-------------------------------- MODULE HostForms --------------------------------
(***************************************************************************)
(* The forms that add, edit and delete hosts, and the host requests of the *)
(* API, beside the other requests that change the same tables.             *)
(*                                                                         *)
(* A form is one handler and many transactions: it classifies the          *)
(* addresses it was given one read at a time, writes the host, unlinks the *)
(* addresses that were taken out, moves the linked ones to a project, then *)
(* creates and updates the given ones, each in a commit of its own.  It    *)
(* keeps the event loop from its form to its answer; API requests run on   *)
(* threads.  create_ip_asset, update_ip_asset and bulk_update_ip_assets    *)
(* read once more before they write: one step here, AssetStore has them in *)
(* steps.  A host's notes are handled as its vendor is, and left out.      *)
(***************************************************************************)
EXTENDS Naturals, FiniteSets, Functions

CONSTANTS
  Nil,
  Absent,               \* a field the form does not have
  Bad,                  \* an address that does not parse
  Requests,             \* numbered in the order in which they arrive
  Names, Vendors, Ips,
  MaxId,                \* bound on the ids of every table
  Demands               \* what the users of a behaviour may do, by a name

Ids   == 1..MaxId
Types == {"OS", "BMC", "VM"}
Host  == [name : Names, vendor : Ids \union {Nil}]
Asset == [ip : Ips, type : Types, project : Ids \union {Nil}, host : Ids \union {Nil},
          archived : BOOLEAN]
Tables == [hosts : [Ids -> Host \union {Nil}], assets : [Ids -> Asset \union {Nil}],
           projects : SUBSET Ids, vendors : [Ids -> Vendors \union {Nil}]]

(* id: of the path; name: typed, confirms a deletion; os, bmc: the lists.  *)
Form ==
  {f \in [kind : {"add", "edit", "delete", "apiAdd", "apiEdit"}, id : Ids \union {Nil},
          name : Names \union {Nil}, vendor : Ids \union {Nil},
          project : Ids \union {Nil, Absent},
          os : (SUBSET (Ips \union {Bad})) \union {Absent},
          bmc : (SUBSET (Ips \union {Bad})) \union {Absent}] :
     /\ f.id = Nil <=> f.kind \in {"add", "apiAdd"}
     /\ f.kind = "apiAdd" => f.name # Nil
     /\ f.kind \notin {"add", "edit"} => f.os = Absent /\ f.bmc = Absent}

Live(table) == {i \in Ids : table[i] # Nil}

(* The UNIQUE and REFERENCES clauses of the schema.                        *)
Consistent(h, a, p, v) ==
  /\ \A i, k \in Live(h) : h[i].name = h[k].name => i = k
  /\ \A i, k \in Live(a) : a[i].ip = a[k].ip => i = k
  /\ \A i, k \in Live(v) : v[i] = v[k] => i = k
  /\ \A i \in Live(h) : h[i].vendor \in Live(v) \union {Nil}
  /\ \A i \in Live(a) : /\ a[i].host \in Live(h) \union {Nil}
                        /\ a[i].project \in p \union {Nil}

(* ops: the requests of others, and others the bound on their number.      *)
DemandOK(d) ==
  /\ d.requests \subseteq Requests /\ d.forms \subseteq Form /\ d.others \in Nat
  /\ d.seeds \subseteq Tables
  /\ \A s \in d.seeds : Consistent(s.hosts, s.assets, s.projects, s.vendors)

ASSUME HostAssumption ==
  /\ MaxId \in Nat \ {0} /\ Requests \subseteq Nat
  /\ Nil \notin Nat /\ Absent \notin Nat \union {Nil} /\ Bad \notin Ips
  /\ Nil \notin Names \union Vendors \union Host \union Asset
  /\ \A name \in DOMAIN Demands : DemandOK(Demands[name])

VARIABLES
  hosts, assets, projects, vendors,   \* the tables
  audit,      \* per address, how many IP_ASSET entries there are
  req,        \* the requests
  loop,       \* the form that keeps the event loop
  commits,    \* transactions that changed a table
  demand      \* the name of this behaviour's demand; it never changes

tables == <<hosts, assets, projects, vendors, audit>>
vars   == <<tables, req, loop, commits, demand>>

Asked == Demands[demand]

(* vendor, confirmed: names read; valid: no error so far; links: what is to*)
(* be taken out; ids: the assets to move; base, wrote: the commits there   *)
(* were, and its own since.                                                *)
Blank == [kind |-> "none", phase |-> "new", form |-> Nil, host |-> Nil, vendor |-> Nil,
          confirmed |-> Nil, valid |-> TRUE, left |-> {}, create |-> {}, update |-> {},
          links |-> {}, ids |-> {}, base |-> 0, wrote |-> 0, end |-> "none"]

HostCalled(name) == {i \in Live(hosts) : hosts[i].name = name}
RowsOf(ip)  == {i \in Live(assets) : assets[i].ip = ip}
ActiveOn(host) == {i \in Live(assets) : assets[i].host = host /\ ~assets[i].archived}

(* INTEGER PRIMARY KEY without AUTOINCREMENT.                              *)
NextId(table, i) == (\A k \in Live(table) : k < i) /\ (i = 1 \/ i - 1 \in Live(table))

-----------------------------------------------------------------------------
(* Steps of a request.                                                     *)

At(r, phase) == req[r].phase = phase

Goto(r, q, phase) == req' = [req EXCEPT ![r] = [q EXCEPT !.phase = phase]] /\ UNCHANGED loop

Stop(r, q, end) ==
  /\ req' = [req EXCEPT ![r] = [q EXCEPT !.phase = "ended", !.end = end, !.links = {},
                                         !.ids = {}, !.create = {}, !.update = {}]]
  /\ loop' = IF loop = r THEN Nil ELSE loop

Reads     == UNCHANGED <<tables, commits, demand>>
Commits   == commits' = commits + 1 /\ UNCHANGED demand
Wrote(q)  == [q EXCEPT !.wrote = @ + 1]

WritesHosts  == Commits /\ UNCHANGED <<assets, projects, vendors, audit>>
WritesAssets == Commits /\ UNCHANGED <<hosts, projects, vendors>>

Log(ips) == audit' = [ip \in Ips |-> IF ip \in ips THEN audit[ip] + 1 ELSE audit[ip]]

Arrive(r) ==
  /\ r \in Asked.requests /\ At(r, "new") /\ \A i \in Requests : i < r => ~At(i, "new")
  /\ \E f \in Asked.forms :
       Goto(r, [Blank EXCEPT !.kind = f.kind, !.form = f, !.host = f.id, !.base = commits],
            CASE f.kind \in {"add", "edit"} -> "posted"
              [] f.kind = "delete" -> "open"
              [] OTHER -> "vendor")
  /\ Reads

-----------------------------------------------------------------------------
(* The add and edit forms take the event loop and classify the addresses.  *)

Typed(list)  == IF list = Absent THEN {} ELSE list
Listed(f)    == Typed(f.os) \union Typed(f.bmc)
Entries(f)   == [ip : Typed(f.os) \ Typed(f.bmc), type : {"OS"}]
                  \union [ip : Typed(f.bmc) \ Typed(f.os), type : {"BMC"}]

(* Those of the OS list come first.                                        *)
InTurn(todo) == {e \in todo : e.type = "OS" \/ \A d \in todo : d.type = "BMC"}

ProjectKnown(project) == project \in projects \union {Nil, Absent}

Begin(r) ==
  LET q == req[r] f == req[r].form
      valid == /\ f.name # Nil /\ Typed(f.os) \cap Typed(f.bmc) = {}
               /\ f.kind = "add" => ProjectKnown(f.project)
      opened == [q EXCEPT !.left = Entries(f), !.valid = valid] IN
  /\ At(r, "posted") /\ loop = Nil
  /\ IF f.kind = "edit" /\ f.name = Nil
     THEN Stop(r, q, "refused")
     ELSE /\ req' = [req EXCEPT ![r] = [opened EXCEPT !.phase =
                       IF f.kind = "add" THEN "collect" ELSE "vendor"]]
          /\ loop' = r
  /\ Reads

FindVendor(r) ==
  LET q == req[r] f == req[r].form
      found == IF f.vendor = Nil THEN Nil ELSE vendors[f.vendor] IN
  /\ At(r, "vendor")
  /\ IF f.vendor # Nil /\ found = Nil
     THEN Stop(r, q, IF q.kind = "add" THEN "conflict" ELSE "refused")
     ELSE Goto(r, [q EXCEPT !.vendor = found],
               IF q.kind = "edit" THEN "collect" ELSE "host")
  /\ Reads

(* _collect_inline_ip_errors; the add form has no host yet.                *)
AsWanted(q, e, row) == q.kind = "edit" /\ row.host = q.host /\ row.type = e.type

Collect(r) ==
  LET q == req[r] IN
  /\ At(r, "collect") /\ q.left # {}
  /\ \E e \in InTurn(q.left) :
       LET rest == [q EXCEPT !.left = @ \ {e}] IN
       \/ e.ip = Bad /\ Goto(r, [rest EXCEPT !.valid = FALSE], "collect")
       \/ e.ip # Bad /\ RowsOf(e.ip) = {}
            /\ Goto(r, [rest EXCEPT !.create = @ \union {e}], "collect")
       \/ \E i \in RowsOf(e.ip) :
            Goto(r, IF AsWanted(q, e, assets[i]) THEN rest
                    ELSE [rest EXCEPT !.update = @ \union {e}], "collect")
  /\ Reads

Collected(r) ==
  LET q == req[r] IN
  /\ At(r, "collect") /\ q.left = {}
  /\ IF q.valid THEN Goto(r, q, IF q.kind = "add" THEN "vendor" ELSE "host")
                ELSE Stop(r, q, "refused")
  /\ Reads

-----------------------------------------------------------------------------
(* The host: create_host and update_host find the vendor by its name.      *)

(* An IntegrityError: the forms answer it, the API does not.               *)
Conflict(r) == Stop(r, req[r], IF req[r].kind \in {"add", "edit"} THEN "conflict" ELSE "error")
                 /\ Reads

VendorIds(name) == IF name = Nil THEN {Nil} ELSE {i \in Live(vendors) : vendors[i] = name}

CreateHost(r) ==
  LET q == req[r] f == req[r].form IN
  /\ At(r, "host") /\ q.kind \in {"add", "apiAdd"}
  /\ \/ (VendorIds(q.vendor) = {} \/ HostCalled(f.name) # {}) /\ Conflict(r)
     \/ \E v \in VendorIds(q.vendor), i \in Ids :
          /\ HostCalled(f.name) = {} /\ NextId(hosts, i)
          /\ hosts' = [hosts EXCEPT ![i] = [name |-> f.name, vendor |-> v]]
          /\ LET done == [Wrote(q) EXCEPT !.host = i] IN
             IF q.kind = "add" THEN Goto(r, done, "assets") ELSE Stop(r, done, "done")
          /\ WritesHosts

(* A vendor that is not given is kept; so is the name, by the API.         *)
Given(new, old) == IF new = Nil THEN old ELSE new

UpdateHost(r) ==
  LET q == req[r] f == req[r].form
      known == f.id \in Live(hosts) IN
  /\ At(r, "host") /\ q.kind \in {"edit", "apiEdit"}
  /\ \/ /\ VendorIds(q.vendor) = {} \/ (known /\ HostCalled(f.name) \ {f.id} # {})
        /\ Conflict(r)
     \/ /\ ~known /\ VendorIds(q.vendor) # {} /\ Reads
        /\ IF q.kind = "edit" THEN Goto(r, [q EXCEPT !.valid = FALSE], "linked")
                              ELSE Stop(r, q, "missing")
     \/ \E v \in VendorIds(q.vendor) :
          /\ known /\ HostCalled(f.name) \subseteq {f.id}
          /\ hosts' = [hosts EXCEPT ![f.id] = [name |-> Given(f.name, @.name),
                                               vendor |-> Given(v, @.vendor)]]
          /\ IF q.kind = "edit" THEN Goto(r, Wrote(q), "linked")
                                ELSE Stop(r, Wrote(q), "done")
          /\ WritesHosts

-----------------------------------------------------------------------------
(* The edit form: addresses that left its lists are unlinked, by host, type*)
(* and address; the linked ones go to the project of the form.             *)

Dropped(f) ==
  {i \in ActiveOn(f.id) :
     \/ assets[i].type = "OS"  /\ f.os # Absent  /\ assets[i].ip \notin f.os
     \/ assets[i].type = "BMC" /\ f.bmc # Absent /\ assets[i].ip \notin f.bmc}

ReadLinks(r) ==
  LET q == req[r] IN
  /\ At(r, "linked")
  /\ Goto(r, [q EXCEPT !.links = {[ip |-> assets[i].ip, type |-> assets[i].type] :
                                    i \in Dropped(q.form)}],
          IF Dropped(q.form) = {} THEN "project" ELSE "unlink")
  /\ Reads

Cut_AnyHost(q, row) == [ip |-> row.ip, type |-> row.type] \in q.links

Cut(q, row) == row.host = q.form.id /\ [ip |-> row.ip, type |-> row.type] \in q.links

Unlink(r) ==
  LET q == req[r] IN
  /\ At(r, "unlink")
  /\ assets' = [i \in Ids |-> IF assets[i] # Nil /\ Cut(q, assets[i])
                              THEN [assets[i] EXCEPT !.host = Nil] ELSE assets[i]]
  /\ Goto(r, [Wrote(q) EXCEPT !.links = {}], "project")
  /\ WritesAssets /\ UNCHANGED audit

ReadMoves(r) ==
  LET q == req[r] f == req[r].form linked == ActiveOn(req[r].form.id) IN
  /\ At(r, "project")
  /\ IF ~ProjectKnown(f.project) THEN Stop(r, q, "no project")
     ELSE IF f.project # Absent /\ \E i \in linked : assets[i].project # f.project
          THEN Goto(r, [q EXCEPT !.ids = linked], "move")
          ELSE Goto(r, q, "assets")
  /\ Reads

(* bulk_update_ip_assets, by the ids read before.                          *)
Move(r) ==
  LET q == req[r] rows == req[r].ids \cap Live(assets) IN
  /\ At(r, "move")
  /\ assets' = [i \in Ids |-> IF i \in rows THEN [assets[i] EXCEPT !.project = q.form.project]
                              ELSE assets[i]]
  /\ Log({assets[i].ip : i \in rows})
  /\ Goto(r, [Wrote(q) EXCEPT !.ids = {}], "assets")
  /\ WritesAssets

-----------------------------------------------------------------------------
(* The addresses: those that were unknown are created, then the others     *)
(* updated.  The edit form gives neither a project.                        *)

ProjectOf(q) == IF q.kind = "add" /\ q.form.project # Absent THEN q.form.project ELSE Nil

Finished(q, e) == [Wrote(q) EXCEPT !.create = @ \ {e}, !.update = @ \ {e}]

(* An INSERT that is refused is a conflict; the UPDATE that restores an    *)
(* archived row is not, and its error is not caught.                       *)
CreateAsset(r) ==
  LET q == req[r] IN
  /\ At(r, "assets") /\ q.create # {}
  /\ \E e \in InTurn(q.create) :
       LET row == [ip |-> e.ip, type |-> e.type, project |-> ProjectOf(q), host |-> q.host,
                   archived |-> FALSE]
           stored == RowsOf(e.ip) IN
       \/ \E i \in stored : ~assets[i].archived /\ Conflict(r)
       \/ q.host \notin Live(hosts) /\ stored = {} /\ Conflict(r)
       \/ /\ q.host \notin Live(hosts) /\ \E i \in stored : assets[i].archived
          /\ Stop(r, q, "error") /\ Reads
       \/ /\ q.host \in Live(hosts) /\ \A i \in stored : assets[i].archived
          /\ \E i \in Ids : (IF stored = {} THEN NextId(assets, i) ELSE i \in stored)
                              /\ assets' = [assets EXCEPT ![i] = row]
          /\ Log({e.ip}) /\ Goto(r, Finished(q, e), "assets") /\ WritesAssets

(* A row that is gone, or as it should be, is passed over.  The host of an *)
(* edit may never have been: then the UPDATE fails, and not as a conflict. *)
UpdateAsset_KeepsHost(r) ==
  LET q == req[r] IN
  /\ At(r, "assets") /\ q.create = {} /\ q.update # {}
  /\ \E e \in InTurn(q.update) : \E i \in RowsOf(e.ip) :
       /\ assets' = [assets EXCEPT ![i].type = e.type,
                       ![i].host = IF @ = Nil THEN q.host ELSE @]
       /\ Log({e.ip}) /\ Goto(r, Finished(q, e), "assets") /\ WritesAssets

UpdateAsset(r) ==
  LET q == req[r] IN
  /\ At(r, "assets") /\ q.create = {} /\ q.update # {}
  /\ \E e \in InTurn(q.update) :
       \/ /\ RowsOf(e.ip) = {} /\ Goto(r, [q EXCEPT !.update = @ \ {e}], "assets") /\ Reads
       \/ \E i \in RowsOf(e.ip) :
            LET row == [assets[i] EXCEPT !.type = e.type, !.host = q.host,
                                         !.project = Given(ProjectOf(q), @)] IN
            \/ q.host \notin Live(hosts) /\ Stop(r, q, "error") /\ Reads
            \/ /\ row = assets[i]
               /\ Goto(r, [q EXCEPT !.update = @ \ {e}], "assets") /\ Reads
            \/ /\ q.host \in Live(hosts) /\ row # assets[i]
               /\ assets' = [assets EXCEPT ![i] = row]
               /\ Log({e.ip}) /\ Goto(r, Finished(q, e), "assets") /\ WritesAssets

Answer(r) ==
  LET q == req[r] IN
  /\ At(r, "assets") /\ q.create = {} /\ q.update = {}
  /\ Stop(r, q, IF q.valid THEN "done" ELSE "missing")
  /\ Reads

-----------------------------------------------------------------------------
(* The delete form: the host is read, the form awaited, the name compared. *)

DeleteOpen(r) ==
  LET q == req[r] IN
  /\ At(r, "open") /\ loop = Nil
  /\ IF q.host \in Live(hosts)
     THEN Goto(r, [q EXCEPT !.confirmed = hosts[q.host].name], "typing")
     ELSE Stop(r, q, "missing")
  /\ Reads

DeleteSubmit_KeepsLinks(r) ==
  LET q == req[r] IN
  /\ At(r, "typing") /\ loop = Nil
  /\ q.form.name = q.confirmed /\ q.host \in Live(hosts)
  /\ hosts' = [hosts EXCEPT ![q.host] = Nil]
  /\ Stop(r, Wrote(q), "done") /\ WritesHosts

DeleteSubmit(r) ==
  LET q == req[r] IN
  /\ At(r, "typing") /\ loop = Nil
  /\ \/ q.form.name # q.confirmed /\ Stop(r, q, "refused") /\ Reads
     \/ q.form.name = q.confirmed /\ q.host \notin Live(hosts)
          /\ Stop(r, q, "missing") /\ Reads
     \/ /\ q.form.name = q.confirmed /\ q.host \in Live(hosts)
        /\ hosts' = [hosts EXCEPT ![q.host] = Nil]
        /\ assets' = [i \in Ids |-> IF assets[i] # Nil /\ assets[i].host = q.host
                                    THEN [assets[i] EXCEPT !.host = Nil] ELSE assets[i]]
        /\ Stop(r, Wrote(q), "done")
        /\ Commits /\ UNCHANGED <<projects, vendors, audit>>

-----------------------------------------------------------------------------
(* The other requests, each in one transaction.  Projects and vendors are  *)
(* deleted on the event loop; the rest runs on threads as well.            *)

OthersCommitted == commits - SumFunction([r \in Requests |-> req[r].wrote])

Other(op) == op \in Asked.ops /\ OthersCommitted < Asked.others /\ UNCHANGED <<req, loop>>

EditAsset ==
  /\ Other("edit") /\ WritesAssets
  /\ \E i \in Live(assets), h \in Live(hosts) \union {Nil}, t \in Types :
       /\ assets' = [assets EXCEPT ![i].host = h, ![i].type = t]
       /\ Log({assets[i].ip})

DropAsset ==
  /\ Other("drop") /\ WritesAssets
  /\ \E i \in Live(assets) : assets' = [assets EXCEPT ![i] = Nil] /\ Log({assets[i].ip})

AddAsset ==
  /\ Other("add") /\ WritesAssets
  /\ \E i \in Ids, ip \in Ips, h \in Live(hosts) \union {Nil} :
       /\ RowsOf(ip) = {} /\ NextId(assets, i)
       /\ assets' = [assets EXCEPT ![i] =
            [ip |-> ip, type |-> "OS", project |-> Nil, host |-> h, archived |-> FALSE]]
       /\ Log({ip})

ArchiveAsset ==
  /\ Other("archive") /\ WritesAssets /\ UNCHANGED audit
  /\ \E i \in Live(assets) : assets' = [assets EXCEPT ![i].archived = TRUE]

DropProject ==
  /\ Other("projects") /\ loop = Nil /\ Commits
  /\ \E p \in projects :
       /\ projects' = projects \ {p}
       /\ assets' = [i \in Ids |-> IF assets[i] # Nil /\ assets[i].project = p
                                   THEN [assets[i] EXCEPT !.project = Nil] ELSE assets[i]]
  /\ UNCHANGED <<hosts, vendors, audit>>

RenameVendor ==
  /\ Other("vendors") /\ Commits /\ UNCHANGED <<hosts, assets, projects, audit>>
  /\ \E v \in Live(vendors), name \in Vendors :
       /\ VendorIds(name) = {} /\ vendors' = [vendors EXCEPT ![v] = name]

DropVendor ==
  /\ Other("vendors") /\ loop = Nil /\ Commits /\ UNCHANGED <<assets, projects, audit>>
  /\ \E v \in Live(vendors) :
       /\ vendors' = [vendors EXCEPT ![v] = Nil]
       /\ hosts' = [i \in Ids |-> IF hosts[i] # Nil /\ hosts[i].vendor = v
                                  THEN [hosts[i] EXCEPT !.vendor = Nil] ELSE hosts[i]]

-----------------------------------------------------------------------------
Init ==
  /\ demand \in DOMAIN Demands
  /\ \E s \in Asked.seeds : /\ hosts = s.hosts /\ assets = s.assets
                            /\ projects = s.projects /\ vendors = s.vendors
  /\ audit = [ip \in Ips |-> 0] /\ req = [r \in Requests |-> Blank]
  /\ loop = Nil /\ commits = 0

Step(r) ==
  \/ Begin(r) \/ FindVendor(r) \/ Collect(r) \/ Collected(r)
  \/ CreateHost(r) \/ UpdateHost(r)
  \/ ReadLinks(r) \/ Unlink(r) \/ ReadMoves(r) \/ Move(r)
  \/ CreateAsset(r) \/ UpdateAsset(r) \/ Answer(r)
  \/ DeleteOpen(r) \/ DeleteSubmit(r)

Others ==
  \/ EditAsset \/ DropAsset \/ AddAsset \/ ArchiveAsset
  \/ DropProject \/ RenameVendor \/ DropVendor

Next == (\E r \in Requests : Arrive(r) \/ Step(r)) \/ Others

Spec == Init /\ [][Next]_vars

-----------------------------------------------------------------------------
(* Properties.                                                             *)

(* The tables keep their types, names and addresses are unique, and every  *)
(* row refers to rows there are, however long ago their ids were read.     *)
HostTypeOK ==
  /\ [hosts |-> hosts, assets |-> assets, projects |-> projects, vendors |-> vendors]
       \in Tables
  /\ Consistent(hosts, assets, projects, vendors)
  /\ audit \in [Ips -> Nat] /\ loop \in Requests \union {Nil} /\ demand \in DOMAIN Demands

(* A form takes an address from another host only if the form names it:    *)
(* also when the address was given to that host after the form had read it *)
(* as its own (the WHERE of the unlinking in ui_edit_host).                *)
TakesOnlyNamed ==
  [][\A r \in Requests : req'[r] # req[r] =>
       \A i \in Live(assets) :
         assets'[i] # Nil /\ assets'[i].host # assets[i].host =>
           \/ assets[i].host = req[r].host
           \/ assets[i].ip \in Listed(req[r].form)]_vars

(* The answer of a form is true of the tables when nobody else has changed *)
(* them since the form arrived: after a success they hold what was typed   *)
(* -- the host, its OS and BMC addresses and no others, no host and no link*)
(* after a deletion --; after an error they are as before, unless it was   *)
(* the project that does not exist, which is only looked at after the host *)
(* has been written.                                                       *)
OfType(host, type) ==
  {assets[i].ip : i \in {k \in ActiveOn(host) : assets[k].type = type}}

Stands(q) ==
  LET f == q.form IN
  /\ q.host \in Live(hosts)
  /\ f.name \in {Nil, hosts[q.host].name} /\ f.vendor \in {Nil, hosts[q.host].vendor}
  /\ f.os  \notin {Absent} => OfType(q.host, "OS")  \subseteq f.os
  /\ f.bmc \notin {Absent} => OfType(q.host, "BMC") \subseteq f.bmc
  /\ \A e \in Entries(f) : \E i \in RowsOf(e.ip) :
       /\ assets[i].host = q.host /\ assets[i].type = e.type
       /\ assets[i].project = Given(ProjectOf(q), assets[i].project)

AnswerTellsTruth ==
  \A r \in Requests :
    LET q == req[r] IN
    q.phase = "ended" /\ commits = q.base + q.wrote =>
      CASE q.end = "done" /\ q.kind = "delete" ->
             q.host \notin Live(hosts) /\ \A i \in Live(assets) : assets[i].host # q.host
        [] q.end = "done" /\ q.kind # "delete" -> Stands(q)
        [] q.end \in {"refused", "conflict", "missing", "error"} -> q.wrote = 0
        [] q.end = "no project" -> TRUE

-----------------------------------------------------------------------------
(* What the documents say and the code does not keep.                      *)

(* docs/overview.md:107: updates of IP assets are in the audit log.        *)
UnlinksAudited ==
  [][\A r \in Requests : At(r, "unlink") /\ req'[r] # req[r] =>
       \A i \in Live(assets) :
         assets'[i] # assets[i] => audit'[assets[i].ip] > audit[assets[i].ip]]_vars

(* docs/overview.md:125: changing the project updates the linked addresses.*)
ProjectFollows ==
  \A r \in Requests :
    LET q == req[r] IN
    /\ q.kind = "edit" /\ q.end = "done" /\ commits = q.base + q.wrote
    /\ q.form.project # Absent
    => \A i \in ActiveOn(q.host) : assets[i].project = q.form.project

(* docs/data-model.md:120: deleting a host takes its exact name.           *)
DeletesConfirmed ==
  [][\A r \in Requests : At(r, "typing") /\ req'[r].end = "done" =>
       hosts[req[r].host].name = req[r].form.name]_vars
===============================================================================
