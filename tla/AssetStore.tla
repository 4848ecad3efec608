------------------------------ MODULE AssetStore ------------------------------
(***************************************************************************)
(* The IP-asset inventory of ipocket: the tables ip_assets, ip_asset_tags, *)
(* tags, projects, hosts and audit_logs, and the HTTP requests that read   *)
(* and write them concurrently.                                            *)
(*                                                                         *)
(* A repository function reads first and writes later.  Its SELECTs run    *)
(* outside a transaction (sqlite3 opens one at the first INSERT, UPDATE or *)
(* DELETE), so every read is a step of its own and what it saw may be      *)
(* stale when the write comes; the statements from the first write to the  *)
(* commit are one step, because SQLite has a single writer.                *)
(*                                                                         *)
(* Workers are requests whose handler is a plain "def": they run on        *)
(* threads.  Forms are requests whose handler is an "async def": once the  *)
(* form is parsed the handler never awaits again, so it keeps the event    *)
(* loop until it returns.  One process serves all of them.                 *)
(***************************************************************************)
EXTENDS Naturals, Sequences, FiniteSets

CONSTANTS
  Nil,              \* SQL NULL, and "no row"
  Workers, Forms,   \* the request slots, by kind of handler
  Ips, Types, Notes, TagNames, HostLabels,
  HighRiskTags,     \* _HIGH_RISK_DELETE_TAGS
  MaxAssetId, MaxHostId, MaxProjectId, \* bounds on the ids a table may reach
  MaxRequests,      \* bound on the requests served in a behaviour
  Ops,              \* the kinds of request this instance offers
  Editable,         \* the columns its requests fill in
  SeedRows,         \* the ip_assets tables a behaviour may start from
  AutoHostEnabled   \* IPOCKET_AUTO_HOST_FOR_BMC

Requests   == Workers \union Forms
AssetIds   == 1..MaxAssetId
HostIds    == 1..MaxHostId
ProjectIds == 1..MaxProjectId

AutoHostName(ip) == <<"server", ip>>      \* f"server_{ip_address}"
HostNames == {AutoHostName(ip) : ip \in Ips}
               \union {<<"host", label>> : label \in HostLabels}

Columns == {"type", "project", "host", "notes", "tags"}

Row == [ip : Ips, type : Types, project : ProjectIds \union {Nil},
        host : HostIds \union {Nil}, notes : Notes \union {Nil},
        archived : BOOLEAN]

NoRows == [i \in AssetIds |-> Nil]
NoTags == [i \in AssetIds |-> {}]

AuditEntry == [action : {"CREATE", "UPDATE", "DELETE"}, id : AssetIds,
               changes : SUBSET (Columns \union {"restored"})]

Phases == {"idle", "asked", "checked", "naming", "resolved", "read", "ready"}
Kinds  == {"none", "create", "update", "bulk", "delete", "archive", "autohost"}
Outcomes == {"none", "ok", "missing", "conflict", "error"}

(* What a request holds: its payload and the rows it has read so far.      *)
Request == [op : Kinds, phase : Phases, ip : Ips \union {Nil},
            given : SUBSET Columns, type : Types \union {Nil},
            project : ProjectIds \union {Nil}, host : HostIds \union {Nil},
            notes : Notes \union {Nil},
            tags : SUBSET TagNames, drop : SUBSET TagNames,
            seen : [AssetIds -> Row \union {Nil}],
            seenTags : [AssetIds -> SUBSET TagNames],
            typed : BOOLEAN, answer : Outcomes]

Idle == [op |-> "none", phase |-> "idle", ip |-> Nil, given |-> {},
         type |-> Nil, project |-> Nil, host |-> Nil, notes |-> Nil,
         tags |-> {}, drop |-> {}, seen |-> NoRows, seenTags |-> NoTags,
         typed |-> FALSE, answer |-> "none"]

ASSUME BoundsAssumption ==
  /\ MaxAssetId \in Nat /\ MaxHostId \in Nat /\ MaxProjectId \in Nat
  /\ MaxRequests \in Nat
ASSUME SlotsAssumption == Workers \intersect Forms = {}
ASSUME NilAssumption == Nil \notin Row \union Requests \union HostNames
                                 \union AssetIds \union HostIds \union ProjectIds
ASSUME SetsAssumption ==
  /\ Types \subseteq {"VM", "OS", "BMC", "VIP", "OTHER"} /\ "BMC" \in Types
  /\ HighRiskTags \subseteq TagNames
  /\ Editable \subseteq Columns
  /\ AutoHostEnabled \in BOOLEAN
ASSUME SeedAssumption ==
  \A A \in SeedRows :
     /\ A \in [AssetIds -> Row \union {Nil}]
     /\ \A i \in AssetIds : A[i] # Nil => A[i].project = Nil /\ A[i].host = Nil
     /\ \A i, j \in AssetIds : A[i] # Nil /\ A[j] # Nil /\ A[i].ip = A[j].ip => i = j

VARIABLES
  assets,    \* ip_assets, by id
  links,     \* ip_asset_tags: the tag names linked to an asset id
  tags,      \* tags, by name
  projects,  \* projects, by id
  hosts,     \* hosts: the name stored under an id
  audit,     \* audit_logs of target_type IP_ASSET, in order, by target_label
  req,       \* the request each slot is serving
  loop,      \* the form whose handler holds the event loop
  served     \* requests accepted so far

tables == <<assets, links, tags, projects, hosts, audit>>
vars   == <<assets, links, tags, projects, hosts, audit, req, loop, served>>

-----------------------------------------------------------------------------
(* The schema.                                                             *)

At(A, ip)   == {i \in AssetIds : A[i] # Nil /\ A[i].ip = ip}
Find(ip)    == At(assets, ip)
LiveHosts   == {h \in HostIds : hosts[h] # Nil}
Named(name) == {h \in HostIds : hosts[h] = name}

(* INTEGER PRIMARY KEY without AUTOINCREMENT: a new row gets the largest   *)
(* id in the table plus one, so the id of the last row is used again after *)
(* that row is deleted.                                                    *)
NextId(i, used) ==
  /\ \A j \in used : j < i
  /\ i = 1 \/ i - 1 \in used

NextAssetId(i)   == NextId(i, {j \in AssetIds : assets[j] # Nil})
NextHostId(h)    == NextId(h, LiveHosts)
NextProjectId(p) == NextId(p, projects)

(* PRAGMA foreign_keys = ON: a row may be written only while the project   *)
(* and the host it names exist.  H is the host ids the transaction sees.   *)
ForeignKeysHold_PragmaOff(row, H) == TRUE

ForeignKeysHold(row, H) ==
  /\ row.project \in projects \union {Nil}
  /\ row.host \in H \union {Nil}

AddressFree(ip) == Find(ip) = {}

(* The UNIQUE index on ip_assets.ip_address.                               *)
UniqueHolds_NoIndex(ip) == TRUE

UniqueHolds(ip) == AddressFree(ip)

(* ON DELETE CASCADE of ip_asset_tags.ip_asset_id.                         *)
LinksWithout_NoCascade(i) == links

LinksWithout(i) == [links EXCEPT ![i] = {}]

-----------------------------------------------------------------------------
(* Reads and bookkeeping shared by the handlers.                           *)

Snapshot(S)     == [i \in AssetIds |-> IF i \in S THEN assets[i] ELSE Nil]
TagSnapshot(S)  == [i \in AssetIds |-> IF i \in S THEN links[i] ELSE {}]
SeenIds(q)      == {i \in AssetIds : q.seen[i] # Nil}

Accept(r, q) ==
  /\ req[r].phase = "idle"
  /\ q.op \in Ops
  /\ served < MaxRequests
  /\ served' = served + 1
  /\ req' = [req EXCEPT ![r] = q]

(* An async handler runs when no other one has the event loop.             *)
LoopFree_Preemptive == TRUE

LoopFree == loop = Nil

TakeLoop(r) == loop = Nil /\ loop' = r

Continue(r, q) == req' = [req EXCEPT ![r] = q] /\ UNCHANGED <<loop, served>>

Finish_KeepsLoop(r, answer) ==
  /\ req' = [req EXCEPT ![r] = [Idle EXCEPT !.answer = answer]]
  /\ UNCHANGED <<loop, served>>

Finish(r, answer) ==
  /\ req' = [req EXCEPT ![r] = [Idle EXCEPT !.answer = answer]]
  /\ loop' = IF loop = r THEN Nil ELSE loop
  /\ UNCHANGED served

Serving(r, op, phase) == req[r].op = op /\ req[r].phase = phase

Log(ip, action, id, changes) ==
  audit' = [audit EXCEPT ![ip] =
              Append(@, [action |-> action, id |-> id, changes |-> changes])]

(* set_ip_asset_tags: the links of the asset become T, and the tags of T   *)
(* that do not exist are created.                                          *)
SetTags(i, T) ==
  /\ links' = [links EXCEPT ![i] = T]
  /\ tags' = tags \union T

(* The columns two versions of a row differ in, and a row with the given   *)
(* columns of a payload written over it.                                   *)
Diff(a, b) ==
  {c \in {"type"}    : a.type # b.type} \union
  {c \in {"project"} : a.project # b.project} \union
  {c \in {"host"}    : a.host # b.host} \union
  {c \in {"notes"}   : a.notes # b.notes}

Overwrite_NullType(row, q, cols) ==
  [row EXCEPT !.type    = q.type,
              !.project = IF "project" \in cols THEN q.project ELSE @,
              !.host    = IF "host" \in cols THEN q.host ELSE @,
              !.notes   = IF "notes" \in cols THEN q.notes ELSE @]

Overwrite(row, q, cols) ==
  [row EXCEPT !.type    = IF "type" \in cols THEN q.type ELSE @,
              !.project = IF "project" \in cols THEN q.project ELSE @,
              !.host    = IF "host" \in cols THEN q.host ELSE @,
              !.notes   = IF "notes" \in cols THEN q.notes ELSE @]

(* The payloads a client may send: columns outside cols are left out.      *)
Payloads(cols) ==
  [type : IF "type" \in cols THEN Types ELSE {Nil},
   project : IF "project" \in cols THEN ProjectIds \union {Nil} ELSE {Nil},
   host : IF "host" \in cols THEN HostIds \union {Nil} ELSE {Nil},
   notes : IF "notes" \in cols THEN Notes \union {Nil} ELSE {Nil},
   tags : IF "tags" \in cols THEN SUBSET TagNames ELSE {{}}]

Payload(op, phase, ip, cols, p) ==
  [Idle EXCEPT !.op = op, !.phase = phase, !.ip = ip, !.given = cols,
               !.type = p.type, !.project = p.project, !.host = p.host,
               !.notes = p.notes, !.tags = p.tags]

ProjectExists(p) == p \in projects \union {Nil}
HostExists(h)    == h \in LiveHosts \union {Nil}

-----------------------------------------------------------------------------
(* create_ip_asset: POST /ip-assets and the Add IP form.                   *)

(* The API checks the project and the host, the form the host and the      *)
(* tags; a rejected payload changes nothing and is not modelled.           *)
ApiCreate(r) ==
  /\ r \in Workers
  /\ \E ip \in Ips, t \in Types, cols \in SUBSET (Editable \ {"type"}) :
       \E p \in Payloads(cols) :
         /\ ProjectExists(p.project) /\ HostExists(p.host)
         /\ Accept(r, [Payload("create", "checked", ip, cols, p) EXCEPT !.type = t])
  /\ UNCHANGED <<tables, loop>>

UiAdd(r) ==
  /\ r \in Forms
  /\ \E ip \in Ips, t \in Types, p \in Payloads(Editable \ {"type"}) :
       /\ HostExists(p.host) /\ p.tags \subseteq tags
       /\ Accept(r, [Payload("create", "checked", ip, Columns, p) EXCEPT !.type = t])
  /\ TakeLoop(r)
  /\ UNCHANGED tables

NeedsAutoHost(q) == AutoHostEnabled /\ q.type = "BMC" /\ q.host = Nil

(* The SELECT that looks for server_{ip}, if the host is needed.           *)
ResolveHost(r) ==
  LET q == req[r] IN
  /\ Serving(r, "create", "checked")
  /\ \/ /\ ~NeedsAutoHost(q)
        /\ Continue(r, [q EXCEPT !.phase = "resolved"])
     \/ /\ NeedsAutoHost(q)
        /\ \E h \in Named(AutoHostName(q.ip)) :
             Continue(r, [q EXCEPT !.phase = "resolved", !.host = h])
     \/ /\ NeedsAutoHost(q) /\ Named(AutoHostName(q.ip)) = {}
        /\ Continue(r, [q EXCEPT !.phase = "naming"])
  /\ UNCHANGED tables

ReadExisting(r) ==
  LET q == req[r] IN
  /\ Serving(r, "create", "resolved")
  /\ \/ /\ \E i \in Find(q.ip) : ~assets[i].archived
        /\ Finish(r, "conflict")
     \/ /\ \A i \in Find(q.ip) : assets[i].archived
        /\ Continue(r, [q EXCEPT !.phase = "read", !.seen = Snapshot(Find(q.ip))])
  /\ UNCHANGED tables

(* The hosts table with the ids of H filled: the rows the transaction adds *)
(* carry the given name.                                                   *)
HostsWith(H, name) ==
  [k \in HostIds |-> IF k \in H /\ hosts[k] = Nil THEN name ELSE hosts[k]]

NewRow(q, h) == [ip |-> q.ip, type |-> q.type, project |-> q.project,
                 host |-> h, notes |-> q.notes, archived |-> FALSE]

(* UPDATE ... WHERE id = the id read before; the row audited and tagged is *)
(* the one that has the address now.                                       *)
RestoreRow(old, q, h) ==
  [old EXCEPT !.type = q.type, !.project = q.project, !.host = h,
              !.notes = q.notes, !.archived = FALSE]

RestoredTable(q, h, id) ==
  IF assets[id] = Nil THEN assets
  ELSE [assets EXCEPT ![id] = RestoreRow(@, q, h)]

Restore(r, h, H, id) ==
  LET q == req[r] IN
  IF assets[id] # Nil /\ ~ForeignKeysHold(RestoreRow(assets[id], q, h), H)
    THEN Finish(r, "error") /\ UNCHANGED tables
  ELSE IF AddressFree(q.ip)
    THEN Finish(r, "error") /\ UNCHANGED tables
  ELSE \E i \in Find(q.ip) :
         /\ assets' = RestoredTable(q, h, id)
         /\ Log(q.ip, "UPDATE", i, {"restored"})
         /\ IF "tags" \in q.given THEN SetTags(i, q.tags) ELSE UNCHANGED <<links, tags>>
         /\ hosts' = HostsWith(H, AutoHostName(q.ip))
         /\ Finish(r, "ok")
         /\ UNCHANGED projects

(* INSERT; a duplicate address and a missing project or host are the same  *)
(* IntegrityError to the handler, which answers with a conflict.           *)
Insert(r, h, H) ==
  LET q == req[r] IN
  IF ~UniqueHolds(q.ip) \/ ~ForeignKeysHold(NewRow(q, h), H)
    THEN Finish(r, "conflict") /\ UNCHANGED tables
  ELSE \E i \in AssetIds :
         /\ NextAssetId(i)
         /\ assets' = [assets EXCEPT ![i] = NewRow(q, h)]
         /\ Log(q.ip, "CREATE", i, {})
         /\ IF "tags" \in q.given THEN SetTags(i, q.tags) ELSE UNCHANGED <<links, tags>>
         /\ hosts' = HostsWith(H, AutoHostName(q.ip))
         /\ Finish(r, "ok")
         /\ UNCHANGED projects

WriteCreate(r) ==
  /\ Serving(r, "create", "read")
  /\ \/ /\ SeenIds(req[r]) = {}
        /\ Insert(r, req[r].host, LiveHosts)
     \/ \E id \in SeenIds(req[r]) : Restore(r, req[r].host, LiveHosts, id)

(* The SELECT found no server_{ip} host: its INSERT opens the transaction, *)
(* so the rest of create_ip_asset runs in it, and a conflict rolls the host*)
(* back.  No handler catches the IntegrityError of a host added meanwhile. *)
AbandonAutoHost_Committed(r, h) ==
  /\ hosts' = [hosts EXCEPT ![h] = AutoHostName(req[r].ip)]
  /\ Finish(r, "conflict")
  /\ UNCHANGED <<assets, links, tags, projects, audit>>

AbandonAutoHost(r, h) == Finish(r, "conflict") /\ UNCHANGED tables

CreateWithAutoHost(r) ==
  LET q == req[r] IN
  /\ Serving(r, "create", "naming")
  /\ \/ /\ Named(AutoHostName(q.ip)) # {}
        /\ Finish(r, "error")
        /\ UNCHANGED tables
     \/ /\ Named(AutoHostName(q.ip)) = {}
        /\ \E h \in HostIds :
             /\ NextHostId(h)
             /\ IF AddressFree(q.ip) THEN Insert(r, h, LiveHosts \union {h})
                ELSE \E i \in Find(q.ip) :
                       IF assets[i].archived THEN Restore(r, h, LiveHosts \union {h}, i)
                       ELSE AbandonAutoHost(r, h)

-----------------------------------------------------------------------------
(* update_ip_asset: PATCH /ip-assets/{ip}, the Edit IP form, and the last  *)
(* step of the auto-host button.                                           *)

ApiUpdate(r) ==
  /\ r \in Workers
  /\ \E ip \in Ips, cols \in SUBSET Editable : \E p \in Payloads(cols) :
       /\ ProjectExists(p.project) /\ HostExists(p.host)
       /\ Accept(r, Payload("update", "checked", ip, cols, p))
  /\ UNCHANGED <<tables, loop>>

(* The form reads the asset by id before it awaits the form, and goes on   *)
(* with the address it saw.                                                *)
UiEditOpen(r) ==
  /\ r \in Forms
  /\ \E i \in AssetIds :
       /\ assets[i] # Nil /\ ~assets[i].archived
       /\ Accept(r, [Idle EXCEPT !.op = "update", !.phase = "asked",
                                 !.ip = assets[i].ip])
  /\ UNCHANGED <<tables, loop>>

(* The Edit form gives every column; the one on the page of an IP range has*)
(* no host.                                                                *)
UiEditSubmit(r) ==
  /\ Serving(r, "update", "asked")
  /\ TakeLoop(r)
  /\ \E t \in Types, cols \in {Columns, Columns \ {"host"}} :
       \E p \in Payloads((Editable \intersect cols) \ {"type"}) :
         /\ HostExists(p.host) /\ p.tags \subseteq tags
         /\ req' = [req EXCEPT ![r] =
                      [Payload("update", "checked", req[r].ip, cols, p)
                         EXCEPT !.type = t]]
  /\ UNCHANGED <<tables, served>>

ReadForUpdate(r) ==
  LET q == req[r] IN
  /\ Serving(r, "update", "checked")
  /\ \/ /\ AddressFree(q.ip)
        /\ Finish(r, "missing")
     \/ /\ ~AddressFree(q.ip)
        /\ Continue(r, [q EXCEPT
             !.phase = IF "tags" \in q.given THEN "read" ELSE "ready",
             !.seen = Snapshot(Find(q.ip))])
  /\ UNCHANGED tables

ReadTagsForUpdate(r) ==
  LET q == req[r] IN
  /\ Serving(r, "update", "read")
  /\ Continue(r, [q EXCEPT !.phase = "ready",
                           !.seenTags = TagSnapshot(SeenIds(q))])
  /\ UNCHANGED tables

TagsChanged(q, id) == "tags" \in q.given /\ q.seenTags[id] # q.tags

(* The columns the request gives are written, and the type with them: the  *)
(* one it gives or else the one it read.                                   *)
UpdatedRow_WriteBack(row, q, id) == Overwrite(q.seen[id], q, q.given)

UpdatedRow(row, q, id) ==
  IF Diff(q.seen[id], Overwrite(q.seen[id], q, q.given)) = {} THEN row
  ELSE [Overwrite(row, q, q.given) EXCEPT
          !.type = Overwrite(q.seen[id], q, q.given).type]

NothingToDo_Never(q, id) == FALSE

NothingToDo(q, id) ==
  /\ Diff(q.seen[id], Overwrite(q.seen[id], q, q.given)) = {}
  /\ ~TagsChanged(q, id)

(* UPDATE ... WHERE ip_address. *)
UpdateTarget_ById(q) == {i \in SeenIds(q) : assets[i] # Nil}

UpdateTarget(q) == Find(q.ip)

WriteUpdate(r) ==
  LET q == req[r] IN
  /\ Serving(r, "update", "ready")
  /\ \E id \in SeenIds(q) :
       \/ /\ NothingToDo(q, id)
          /\ Finish(r, "ok")
          /\ UNCHANGED tables
       \/ /\ ~NothingToDo(q, id)
          /\ AddressFree(q.ip)
          /\ Finish(r, "missing")
          /\ UNCHANGED tables
       \/ /\ ~NothingToDo(q, id)
          /\ \E i \in UpdateTarget(q) :
               LET row == UpdatedRow(assets[i], q, id) IN
               IF ~ForeignKeysHold(row, LiveHosts)
                 THEN Finish(r, "error") /\ UNCHANGED tables
               ELSE /\ assets' = [assets EXCEPT ![i] = row]
                    /\ Log(q.ip, "UPDATE", i,
                           Diff(q.seen[id], row) \union
                             (IF TagsChanged(q, id) THEN {"tags"} ELSE {}))
                    /\ IF TagsChanged(q, id) THEN SetTags(i, q.tags)
                       ELSE UNCHANGED <<links, tags>>
                    /\ Finish(r, "ok")
                    /\ UNCHANGED <<projects, hosts>>

-----------------------------------------------------------------------------
(* bulk_update_ip_assets: the bulk edit form.                              *)

UiBulk(r) ==
  /\ r \in Forms
  /\ \E S \in SUBSET AssetIds \ {{}},
        cols \in SUBSET (Editable \intersect {"type", "project", "notes"}),
        add, drop \in IF "tags" \in Editable THEN SUBSET tags ELSE {{}} :
       \E p \in Payloads(cols) :
         /\ ProjectExists(p.project)
         /\ cols # {} \/ add # {} \/ drop # {}
         /\ Accept(r, [Payload("bulk", "read", Nil, cols, p) EXCEPT
                         !.tags = add, !.drop = drop, !.seen = Snapshot(S)])
  /\ TakeLoop(r)
  /\ UNCHANGED tables

(* Nothing selected exists any more, or the tags of the rows are read.     *)
ReadTagsForBulk(r) ==
  LET q == req[r] IN
  /\ Serving(r, "bulk", "read")
  /\ \/ SeenIds(q) = {} /\ Finish(r, "ok")
     \/ /\ SeenIds(q) # {}
        /\ Continue(r, [q EXCEPT !.phase = "ready",
                                 !.seenTags = TagSnapshot(SeenIds(q))])
  /\ UNCHANGED tables

(* Type, project and notes are written from the snapshot, to the row that  *)
(* has the id now.                                                         *)
BulkRow(q, i) ==
  LET next == Overwrite(q.seen[i], q, q.given) IN
  [assets[i] EXCEPT !.type = next.type, !.project = next.project, !.notes = next.notes]

BulkTags(q, i)   == (q.seenTags[i] \union q.tags) \ q.drop
BulkTargets(q)   == {i \in SeenIds(q) : assets[i] # Nil}
RetagsInBulk(q)  == q.tags # {} \/ q.drop # {}

BulkChanges(q, i) ==
  Diff(q.seen[i], BulkRow(q, i)) \union
    (IF q.seenTags[i] # BulkTags(q, i) THEN {"tags"} ELSE {})

WriteBulk(r) ==
  LET q == req[r]
      T == BulkTargets(req[r]) IN
  /\ Serving(r, "bulk", "ready")
  /\ IF \E i \in T : ~ForeignKeysHold(BulkRow(q, i), LiveHosts)
       THEN Finish(r, "error") /\ UNCHANGED tables
     ELSE /\ assets' = [i \in AssetIds |-> IF i \in T THEN BulkRow(q, i) ELSE assets[i]]
          /\ audit' = [ip \in Ips |->
               IF \E i \in T : assets[i].ip = ip
                 THEN LET i == CHOOSE i \in T : assets[i].ip = ip IN
                      Append(audit[ip], [action |-> "UPDATE", id |-> i,
                                         changes |-> BulkChanges(q, i)])
                 ELSE audit[ip]]
          /\ IF RetagsInBulk(q)
               THEN /\ links' = [i \in AssetIds |->
                                   IF i \in T THEN BulkTags(q, i) ELSE links[i]]
                    /\ tags' = tags \union UNION {BulkTags(q, i) : i \in T}
               ELSE UNCHANGED <<links, tags>>
          /\ Finish(r, "ok")
          /\ UNCHANGED <<projects, hosts>>

-----------------------------------------------------------------------------
(* delete_ip_asset: DELETE /ip-assets/{ip} and the delete form.            *)

ApiDelete(r) ==
  /\ r \in Workers
  /\ \E ip \in Ips :
       Accept(r, [Idle EXCEPT !.op = "delete", !.phase = "checked", !.ip = ip,
                              !.typed = TRUE])
  /\ UNCHANGED <<tables, loop>>

UiDeleteOpen(r) ==
  /\ r \in Forms
  /\ \E i \in AssetIds :
       /\ assets[i] # Nil /\ ~assets[i].archived
       /\ Accept(r, [Idle EXCEPT !.op = "delete", !.phase = "asked",
                                 !.ip = assets[i].ip, !.seen = Snapshot({i})])
  /\ UNCHANGED <<tables, loop>>

(* _delete_requires_exact_ip *)
HighRisk(row, T) ==
  \/ row.project # Nil
  \/ row.host # Nil
  \/ row.type = "VIP"
  \/ T \intersect HighRiskTags # {}

(* The tags are read after the form arrives, the row was read before: both *)
(* decide whether the address had to be typed.                             *)
UiDeleteSubmit(r) ==
  /\ Serving(r, "delete", "asked")
  /\ TakeLoop(r)
  /\ \E i \in SeenIds(req[r]), typed \in BOOLEAN :
       /\ HighRisk(req[r].seen[i], links[i]) => typed
       /\ req' = [req EXCEPT ![r] = [@ EXCEPT !.phase = "checked", !.typed = typed]]
  /\ UNCHANGED <<tables, served>>

ReadForDelete(r) ==
  LET q == req[r] IN
  /\ Serving(r, "delete", "checked")
  /\ \/ AddressFree(q.ip) /\ Finish(r, "missing")
     \/ /\ ~AddressFree(q.ip)
        /\ Continue(r, [q EXCEPT !.phase = "ready", !.seen = Snapshot(Find(q.ip))])
  /\ UNCHANGED tables

(* DELETE ... WHERE ip_address; the tag links go with the row.  The audit  *)
(* entry carries the id that was read, and is written if a row was deleted.*)
DeleteNothing_Audited(r) ==
  /\ \E seenId \in SeenIds(req[r]) : Log(req[r].ip, "DELETE", seenId, {})
  /\ Finish(r, "missing")
  /\ UNCHANGED <<assets, links, tags, projects, hosts>>

DeleteNothing(r) == Finish(r, "missing") /\ UNCHANGED tables

WriteDelete(r) ==
  LET q == req[r] IN
  /\ Serving(r, "delete", "ready")
  /\ \/ AddressFree(q.ip) /\ DeleteNothing(r)
     \/ \E i \in Find(q.ip), seenId \in SeenIds(q) :
          /\ assets' = [assets EXCEPT ![i] = Nil]
          /\ links' = LinksWithout(i)
          /\ Log(q.ip, "DELETE", seenId, {})
          /\ Finish(r, "ok")
          /\ UNCHANGED <<tags, projects, hosts>>

-----------------------------------------------------------------------------
(* archive_ip_asset: POST /ip-assets/{ip}/archive, by address, and the     *)
(* button of the UI, which looks the asset up by id.                       *)

Archive(r) ==
  /\ r \in Workers
  /\ \E ip \in Ips :
       /\ ~AddressFree(ip)
       /\ Accept(r, [Idle EXCEPT !.op = "archive", !.phase = "ready", !.ip = ip])
  /\ UNCHANGED <<tables, loop>>

WriteArchive(r) ==
  /\ Serving(r, "archive", "ready")
  /\ assets' = [i \in AssetIds |-> IF i \in Find(req[r].ip)
                                     THEN [assets[i] EXCEPT !.archived = TRUE]
                                     ELSE assets[i]]
  /\ Finish(r, "ok")
  /\ UNCHANGED <<links, tags, projects, hosts, audit>>

-----------------------------------------------------------------------------
(* ui_create_auto_host: the button that creates server_{ip} for a BMC and  *)
(* assigns it; three transactions.                                         *)

AutoHostOpen(r) ==
  /\ r \in Workers
  /\ \E i \in AssetIds :
       /\ assets[i] # Nil /\ ~assets[i].archived
       /\ assets[i].type = "BMC" /\ assets[i].host = Nil
       /\ Accept(r, [Idle EXCEPT !.op = "autohost", !.phase = "asked",
                                 !.ip = assets[i].ip, !.given = {"host"}])
  /\ UNCHANGED <<tables, loop>>

FindAutoHost(r) ==
  LET q == req[r] IN
  /\ Serving(r, "autohost", "asked")
  /\ \/ \E h \in Named(AutoHostName(q.ip)) :
          Continue(r, [q EXCEPT !.op = "update", !.phase = "checked", !.host = h])
     \/ /\ Named(AutoHostName(q.ip)) = {}
        /\ Continue(r, [q EXCEPT !.phase = "read"])
  /\ UNCHANGED tables

CreateAutoHost(r) ==
  LET q == req[r] IN
  /\ Serving(r, "autohost", "read")
  /\ \/ /\ Named(AutoHostName(q.ip)) # {}
        /\ Finish(r, "error")
        /\ UNCHANGED tables
     \/ /\ Named(AutoHostName(q.ip)) = {}
        /\ \E h \in HostIds :
             /\ NextHostId(h)
             /\ hosts' = [hosts EXCEPT ![h] = AutoHostName(q.ip)]
             /\ Continue(r, [q EXCEPT !.op = "update", !.phase = "checked", !.host = h])
        /\ UNCHANGED <<assets, links, tags, projects, audit>>

-----------------------------------------------------------------------------
(* The tables assets refer to.  Each of these handlers writes in a single  *)
(* transaction.  Rows are deleted by async handlers only.                  *)

CreateHost ==
  /\ "hosts" \in Ops
  /\ \E h \in HostIds, label \in HostLabels :
       /\ NextHostId(h) /\ Named(<<"host", label>>) = {}
       /\ hosts' = [hosts EXCEPT ![h] = <<"host", label>>]
  /\ UNCHANGED <<assets, links, tags, projects, audit, req, loop, served>>

(* PATCH /hosts/{id} and the Edit Host form; names are unique.             *)
RenameHost ==
  /\ "hosts" \in Ops
  /\ \E h \in LiveHosts, name \in HostNames :
       /\ Named(name) = {}
       /\ hosts' = [hosts EXCEPT ![h] = name]
  /\ UNCHANGED <<assets, links, tags, projects, audit, req, loop, served>>

(* delete_host unassigns the assets of the host, then deletes it. *)
DeleteHost ==
  /\ "hosts" \in Ops /\ LoopFree
  /\ \E h \in LiveHosts :
       /\ assets' = [i \in AssetIds |-> IF assets[i] # Nil /\ assets[i].host = h
                                          THEN [assets[i] EXCEPT !.host = Nil]
                                          ELSE assets[i]]
       /\ hosts' = [hosts EXCEPT ![h] = Nil]
  /\ UNCHANGED <<links, tags, projects, audit, req, loop, served>>

CreateProject ==
  /\ "projects" \in Ops
  /\ \E p \in ProjectIds : NextProjectId(p) /\ projects' = projects \union {p}
  /\ UNCHANGED <<assets, links, tags, hosts, audit, req, loop, served>>

DeleteProject ==
  /\ "projects" \in Ops /\ LoopFree
  /\ \E p \in projects :
       /\ assets' = [i \in AssetIds |-> IF assets[i] # Nil /\ assets[i].project = p
                                          THEN [assets[i] EXCEPT !.project = Nil]
                                          ELSE assets[i]]
       /\ projects' = projects \ {p}
  /\ UNCHANGED <<links, tags, hosts, audit, req, loop, served>>

CreateTag ==
  /\ "tags" \in Ops /\ LoopFree
  /\ \E t \in TagNames \ tags : tags' = tags \union {t}
  /\ UNCHANGED <<assets, links, projects, hosts, audit, req, loop, served>>

RenameTag ==
  /\ "tags" \in Ops /\ LoopFree
  /\ \E t \in tags, name \in TagNames \ tags :
       /\ tags' = (tags \ {t}) \union {name}
       /\ links' = [i \in AssetIds |-> IF t \in links[i]
                                         THEN (links[i] \ {t}) \union {name}
                                         ELSE links[i]]
  /\ UNCHANGED <<assets, projects, hosts, audit, req, loop, served>>

DeleteTag ==
  /\ "tags" \in Ops /\ LoopFree
  /\ \E t \in tags :
       /\ tags' = tags \ {t}
       /\ links' = [i \in AssetIds |-> links[i] \ {t}]
  /\ UNCHANGED <<assets, projects, hosts, audit, req, loop, served>>

-----------------------------------------------------------------------------
Init ==
  /\ assets \in SeedRows
  /\ links = NoTags
  /\ tags = {}
  /\ projects = {}
  /\ hosts = [h \in HostIds |-> Nil]
  /\ audit = [ip \in Ips |->
       IF AddressFree(ip) THEN <<>>
       ELSE <<[action |-> "CREATE", id |-> CHOOSE i \in Find(ip) : TRUE, changes |-> {}]>>]
  /\ req = [r \in Requests |-> Idle]
  /\ loop = Nil
  /\ served = 0

(* A client sends a request. *)
Arrive(r) ==
  \/ ApiCreate(r) \/ UiAdd(r)
  \/ ApiUpdate(r) \/ UiEditOpen(r)
  \/ UiBulk(r)
  \/ ApiDelete(r) \/ UiDeleteOpen(r)
  \/ Archive(r) \/ AutoHostOpen(r)

(* The form a handler awaits arrives and the event loop resumes it. *)
Resume(r) == UiEditSubmit(r) \/ UiDeleteSubmit(r)

(* A handler executes its next statement. *)
Run(r) ==
  \/ ResolveHost(r) \/ ReadExisting(r) \/ WriteCreate(r) \/ CreateWithAutoHost(r)
  \/ ReadForUpdate(r) \/ ReadTagsForUpdate(r) \/ WriteUpdate(r)
  \/ ReadTagsForBulk(r) \/ WriteBulk(r)
  \/ ReadForDelete(r) \/ WriteDelete(r)
  \/ WriteArchive(r)
  \/ FindAutoHost(r) \/ CreateAutoHost(r)

Administer ==
  \/ CreateHost \/ RenameHost \/ DeleteHost
  \/ CreateProject \/ DeleteProject
  \/ CreateTag \/ RenameTag \/ DeleteTag

Next ==
  \/ \E r \in Requests : Arrive(r) \/ Resume(r) \/ Run(r)
  \/ Administer

Spec == Init /\ [][Next]_vars

(* Threads are scheduled fairly.  asyncio resumes handlers in the order    *)
(* they became ready, so a form that waits for the loop gets it; a client  *)
(* that has begun to post a form is assumed to finish.                     *)
Fairness == \A r \in Requests : WF_vars(Run(r)) /\ SF_vars(Resume(r))

FairSpec == Spec /\ Fairness

-----------------------------------------------------------------------------
(* Properties.                                                             *)

(* Every variable keeps its type; in particular no row loses a NOT NULL    *)
(* column (schema.py, IPAsset).                                            *)
TypeOK ==
  /\ assets \in [AssetIds -> Row \union {Nil}]
  /\ links \in [AssetIds -> SUBSET TagNames]
  /\ tags \in SUBSET TagNames
  /\ projects \in SUBSET ProjectIds
  /\ hosts \in [HostIds -> HostNames \union {Nil}]
  /\ audit \in [Ips -> Seq(AuditEntry)]
  /\ req \in [Requests -> Request]
  /\ loop \in Requests \union {Nil}
  /\ served \in 0..MaxRequests

(* A request in progress holds the columns its handler validated.          *)
PayloadOK(q) ==
  /\ q.op \in {"create", "update", "delete", "archive", "autohost"} => q.ip \in Ips
  /\ q.op = "create" \/ "type" \in q.given => q.type \in Types

PayloadsComplete == \A r \in Requests : PayloadOK(req[r])

(* No asset refers to a project or host that is gone, though requests hold *)
(* ids across steps in which the project or host is deleted.               *)
ReferencesExist ==
  \A i \in AssetIds : assets[i] # Nil =>
    /\ assets[i].project \in projects \union {Nil}
    /\ assets[i].host \in LiveHosts \union {Nil}

(* Two rows never share an address, whatever creates race for it.          *)
AddressesUnique ==
  \A i, j \in AssetIds :
    assets[i] # Nil /\ assets[j] # Nil /\ assets[i].ip = assets[j].ip => i = j

(* Links join a stored asset to a stored tag; an id that is used again     *)
(* does not inherit the tags of the asset that had it before.              *)
LinksSound ==
  \A i \in AssetIds :
    /\ links[i] \subseteq tags
    /\ assets[i] = Nil => links[i] = {}

(* The audit log of an address and the table agree: the address is stored  *)
(* exactly when its last entry is not a DELETE, and a CREATE comes first   *)
(* or follows a DELETE, never anything else.  Two racing deletes or        *)
(* creates leave one entry between them.                                   *)
Existing(trail) == trail # <<>> /\ trail[Len(trail)].action # "DELETE"

AuditTracksTable ==
  \A ip \in Ips :
    /\ Find(ip) # {} <=> Existing(audit[ip])
    /\ \A k \in 1..Len(audit[ip]) :
         (audit[ip][k].action = "CREATE") <=>
           (k = 1 \/ audit[ip][k - 1].action = "DELETE")

(* An update_ip_asset that would change nothing writes no audit entry; a   *)
(* property of the instances without bulk edits.                           *)
UpdatesAuditedChange ==
  \A ip \in Ips : \A k \in 1..Len(audit[ip]) :
    audit[ip][k].action = "UPDATE" => audit[ip][k].changes # {}

(* A step of an update, delete or archive request touches no row but the   *)
(* one that has the address the request names.                             *)
OthersUntouched(r) ==
  /\ req'[r] # req[r]
  /\ req[r].op \in {"update", "delete", "archive"}
  => \A i \in AssetIds : assets'[i] # assets[i] =>
       assets[i] # Nil /\ assets[i].ip = req[r].ip

OnlyNamedRowChanges == [][\A r \in Requests : OthersUntouched(r)]_vars

(* An update leaves alone the project, host and notes it was not given and *)
(* never un-archives, however stale the row it compared with was.          *)
KeepsRest(r) ==
  req'[r] # req[r] /\ req[r].op = "update"
  => \A i \in AssetIds : assets[i] # Nil =>
       /\ assets'[i] # Nil
       /\ assets'[i].archived = assets[i].archived
       /\ {"project", "host", "notes"} \intersect Diff(assets[i], assets'[i])
            \subseteq req[r].given

UngivenColumnsKept == [][\A r \in Requests : KeepsRest(r)]_vars

(* The forms assign existing tags only: no step of a form creates a tag,   *)
(* even when the tag it was checked against could be deleted meanwhile.    *)
FormsCreateNoTags ==
  [][\A r \in Forms : req'[r] # req[r] => tags' \subseteq tags]_vars

(* A host that appears while an asset is created is the host of that asset:*)
(* a create that fails leaves no server_{ip} behind.                       *)
NoOrphanAutoHost ==
  [][\A r \in Requests : \A h \in HostIds :
       /\ req[r].op = "create" /\ req'[r] # req[r]
       /\ hosts[h] = Nil /\ hosts'[h] # Nil
       => \E i \in AssetIds : /\ assets'[i] # Nil
                              /\ assets'[i].ip = req[r].ip
                              /\ assets'[i].host = h]_vars

(* Every accepted request is answered.                                     *)
RequestsFinish ==
  \A r \in Requests : (req[r].phase # "idle") ~> (req[r].phase = "idle")

-----------------------------------------------------------------------------
(* What the documents say and the code does not keep.                      *)

(* docs/data-model.md: an address that exists as an active record is       *)
(* refused; only an archived record is restored.                           *)
RestoresOnlyArchived ==
  [][\A ip \in Ips : \A i \in Find(ip) :
       /\ Len(audit'[ip]) > Len(audit[ip])
       /\ "restored" \in audit'[ip][Len(audit'[ip])].changes
       => assets[i].archived]_vars

(* docs/data-model.md: a create that meets an archived record restores     *)
(* that same row.                                                          *)
CreateWritesOwnRow ==
  [][\A r \in Requests : req'[r] # req[r] /\ req[r].op = "create" =>
       \A i \in AssetIds : assets[i] # Nil /\ assets'[i] # assets[i] =>
         assets[i].ip = req[r].ip]_vars

(* docs/data-model.md: a BMC created without a host is linked to the host  *)
(* named server_{ip}.                                                      *)
AutoHostIsNamed ==
  [][\A r \in Requests :
       /\ Serving(r, "create", "read") /\ req'[r].answer = "ok"
       /\ req[r].type = "BMC" /\ "host" \notin req[r].given
       => \E i \in AssetIds :
            /\ assets'[i] # Nil /\ assets'[i].ip = req[r].ip
            /\ hosts'[assets'[i].host] = AutoHostName(req[r].ip)]_vars

(* docs/data-model.md: no-op updates are skipped in the audit log.         *)
BulkAuditsChange == UpdatesAuditedChange

(* docs/data-model.md: a host is deleted only when no asset is linked.     *)
HostDeletedUnlinked ==
  [][\A h \in HostIds : hosts[h] # Nil /\ hosts'[h] = Nil =>
       \A i \in AssetIds : assets[i] # Nil => assets[i].host # h]_vars

(* docs/overview.md: a high-risk asset is deleted in the UI only after its *)
(* exact address was typed.                                                *)
HighRiskDeletesTyped ==
  [][\A r \in Forms : Serving(r, "delete", "ready") /\ ~req[r].typed =>
       \A i \in AssetIds : assets[i] # Nil /\ assets'[i] = Nil =>
         ~HighRisk(assets[i], links[i])]_vars

(* docs/overview.md: the audit entries shown on the page of an asset       *)
(* (get_audit_logs_for_ip, by target_id) are about that asset.             *)
AuditPageIsAboutAsset ==
  \A i \in AssetIds : assets[i] # Nil =>
    \A ip \in Ips : \A k \in 1..Len(audit[ip]) :
      audit[ip][k].id = i => ip = assets[i].ip
=============================================================================
