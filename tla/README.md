# A TLA+ model of ipocket

ipocket is an IP address inventory: a FastAPI process over one SQLite database,
with a JSON API, server-rendered forms, file imports and connectors that fetch
inventories from other systems. This directory holds its specification: TLA+
modules translated from `src/app`, TLC configurations that check them, and
theorems checked by TLAPS. `PROJECT.json` lists the runs, the mutants that show
each property can fail, the source lines of every definition, the hazards and
the findings.

## 1. Inventory of the system

| Component | State | Operations | Correct when |
| --- | --- | --- | --- |
| IP assets (`repository/assets.py`, `_asset_tags.py`, `_asset_audit.py`; `routes/api/assets.py`; `routes/ui/ip_assets/`) | `ip_assets`, `ip_asset_tags` | create (insert, restore an archived row, add `server_{ip}`), update, bulk update, delete, archive, auto-host button | one row per address; references and links exist; an operation touches its own row only; the audit trail tells what happened to the table |
| Transactions and schema (`schema.py`, `db.py`, `dependencies.py`, `repository/_db.py`) | the SQLite file | sessions, rollback, foreign keys, unique indexes, cascades | a failed operation leaves nothing behind |
| Hosts (`repository/hosts.py`, `routes/api/hosts.py`, `routes/ui/hosts/`) | `hosts` | create, rename, delete; host forms that also create, move and unassign assets | the answer of a form is what the tables hold; a form takes only the addresses it names |
| Projects, tags, vendors (`repository/metadata.py`, `routes/ui/settings/`) | `projects`, `tags`, `vendors` | create, edit, delete | nothing refers to a deleted row |
| Audit log (`repository/audit.py`) | `audit_logs` | append; views by asset and global | entries and tables agree |
| Imports (`imports/`, `routes/api/imports.py`, `routes/ui/data_ops.py`) | none; writes every inventory table | parse, validate, dry run, apply; Nmap scans | a dry run predicts the apply; applying again changes nothing; a failure half-way can be retried |
| Exports (`exports.py`) | none | CSV files and bundles, filtered | what is exported can be imported, and is what was there |
| Connectors (`connectors/`) | none | fetch records, build an import bundle | form and command line accept the same and send what was typed |
| Connector jobs (`routes/ui/connector_routes/`) | `_CONNECTOR_JOBS`, in memory, behind a lock | create, update, read, prune; background task | every job ends; its result is true and stays |
| Users and sessions (`repository/users.py`, `sessions.py`, `routes/ui/users.py`, `account.py`, `auth.py`, `startup.py`) | `users`, `sessions` | create, edit, delete, login, logout, password change and rehash, bootstrap | an active superuser remains; changes are audited; a new password stays |
| IP ranges (`repository/ranges.py`, `routes/ui/ranges/`) | `ip_ranges` | create, edit, delete; utilization, address list, quick add and edit | used + free = usable, on every page |
| Listings, service discovery, metrics, templates, browser code | none | read | – |

How they interact. There is one process and one database (`UserAdmin` also has
two processes: `docs/overview.md:57` counts on them). A handler written as a plain `def` runs on a thread of the
pool; one written as `async def` runs on the event loop, and once its form has
been awaited it does not await again, so such handlers interleave with threads
but not with each other. Import and connector code calls the repository
functions the API calls; connector jobs run as background tasks beside the
requests.

A repository function opens a session, reads, and writes. sqlite3 opens a
transaction at the first INSERT, UPDATE or DELETE, so the reads before it see
separate snapshots; from the first write to the commit SQLite admits one writer.
Hence what is hard to test: what was read is stale when it is written
(addresses, ids, types, host names); ids are used again after the last row is
deleted; a handler checks something, awaits its form and acts on the check; the
steps of a form or an import are separate transactions; a rollback must take
back all a handler did; a restart forgets what is only in memory.
`PROJECT.json` lists these hazards, each at its line.

## 2. Plan

| Module | Status |
| --- | --- |
| `AssetStore`: the asset tables and every request that writes them | built, proved |
| `Inventory`, `AssetInventory`: what the asset component promises, implemented by `AssetStore` under a refinement mapping | built, checked and proved |
| `ConnectorForms`, `ConnectorJobs`: what connectors accept and send; the job table and its runs | built, proved |
| `ImportFiles`, `ImportApply`: the importers and the applier, entry by entry | built, proved |
| `Exports`, composed with `ImportApply`: the round trip | built |
| `UserAdmin`: users, roles, sessions, the last superuser, the rehash at login | built, proved |
| `HostForms`: the forms of many transactions | built, proved |
| the bundles that connectors build from their records | left |
| `RangeUtilization`: sizes and free addresses against a reference that counts | left |

Theorems. Done: types, unique addresses, references and links of `AssetStore`
and its action properties; the log of `Inventory`; that `AssetStore` implements
`Inventory`, and with it `AuditTracksTable`; every safety property of
`ConnectorJobs`, `HostForms` and `UserAdmin`; of `ImportApply` the types, the
references, who may change anything, what the audit log records, that a scan
leaves stored assets alone, that the tables hold what an applied file says, that
a dry run predicts the apply, and that applying again changes nothing. Left: the
round trip of `Exports`, and liveness (section 6 says why).

## 3. Modules

A behaviour of `ConnectorJobs`, `ImportApply`, `Exports`, `UserAdmin` and
`HostForms` begins with the choice of a *demand*: a record that says which
requests arrive, which files or forms they bring, which tables there are and how
many requests of others come in between. `Demands` is a constant, a function
from names to such records; `demand` is the name chosen in `Init` and never
changes, and `Asked == Demands[demand]`. So one run covers several situations,
each with bounds of its own, and the specification says nothing of any of them.
The `MC` module of each gives `Demands` its values.

Other conventions. Ids are numbers, because the code compares, stores and
reuses them; `NextId` is SQLite's choice for a new row. Names, addresses, notes,
passwords, colours are model values. `phase` is where a handler is; an action
begins with the phase it takes up. `loop` is the handler that keeps the event
loop. `commits` counts the transactions that changed a table; it lets a
property say "if nobody else has changed anything since". An operator named
`X_Y`, next to an operator `X`, is a plausible slip in `X`: the mutants of
`PROJECT.json` put it in the place of `X`.

### AssetStore

State. `assets`, `links`, `tags`, `projects`, `hosts` are the tables. `audit`
holds the `audit_logs` entries of type IP_ASSET, per `target_label`; `changes`
is the set of columns the summary names. `req[r]` is what the handler in slot
`r` holds: payload, rows read (`seen`), tags read (`seenTags`) and where it is.

Steps. Each read outside a transaction is an action (`ResolveHost`,
`ReadExisting`, `ReadForUpdate`, `ReadTagsForUpdate`, `ReadTagsForBulk`,
`ReadForDelete`, `FindAutoHost`); the write transaction, from first write to
commit or rollback and including the audit entry and the tags, is one
(`WriteCreate`, `CreateWithAutoHost`, `WriteUpdate`, `WriteBulk`, `WriteDelete`,
`WriteArchive`, `CreateAutoHost`). `CreateWithAutoHost` contains the rest of
`create_ip_asset` because the INSERT of the host has opened the transaction; a
host of that name added since `ResolveHost` makes the INSERT fail, and nobody
catches that error.
Arrivals (`ApiCreate` ...) include the checks the handler makes before it calls
the repository. A form that reads before it awaits has two actions: `UiEditOpen`
and `UiEditSubmit`, `UiDeleteOpen` and `UiDeleteSubmit`.

| Action | Code |
| --- | --- |
| `ApiCreate`, `UiAdd` … `WriteCreate`, `CreateWithAutoHost` | `create_ip_asset` and its callers (also the quick add of the range page) |
| `ApiUpdate`, `UiEditOpen`, `UiEditSubmit` … `WriteUpdate` | `update_ip_asset`, PATCH, the Edit form and the quick edit of the range page |
| `UiBulk` … `WriteBulk` | `bulk_update_ip_assets` |
| `ApiDelete`, `UiDeleteOpen`, `UiDeleteSubmit` … `WriteDelete` | `delete_ip_asset` |
| `Archive`, `WriteArchive` | `archive_ip_asset` |
| `AutoHostOpen`, `FindAutoHost`, `CreateAutoHost`, then an update | `ui_create_auto_host` |
| `CreateHost` … `DeleteTag` | the tables assets refer to, one transaction each |

Abstractions. Colours, timestamps, `ip_int` (a function of the address), users
and rendering are left out, as are payloads rejected before anything is read or
written. Two writers never wait 5 s for each other, so SQLITE_BUSY does not
occur. Renaming a project changes nothing an asset stores. Tags are kept by
name, which stands for their ids because names are unique. The two statements of
`delete_host` and of its siblings, and the SELECT that guards them, are one
step: rows of these tables are deleted by event-loop handlers only.

### Inventory, AssetInventory

`Inventory` is the abstract specification: the set of stored addresses, the log
of each address (CREATE, UPDATE, DELETE) and the requests under way. A request
is asked, then takes effect and is answered in one step, or is refused and
changes nothing. Only a step that stores an address logs CREATE, only one that
removes it logs DELETE.

`AssetInventory` maps `AssetStore` to it: `stored` is the set of addresses that
have a row, `log` the actions of their audit entries, `call` what `req` says
without the rows it has read. The auto-host button is an update. Everything
between a request's arrival and its write is a stutter: that is the claim. The
archived flag is not in the abstraction, because the code does not keep what the
documents say of it (`RestoreOtherRow`, `RestoreTwice`).

### ConnectorForms, ConnectorJobs

`ConnectorForms` is a library of operators: what the form of each connector and
its command line accept (`CassandraAccepts` ... and `CliAccepts`), and the
identity its fetch sends. The two read a text differently: a form strips it,
takes a mode in capitals, a type by its old name (`IPMI_ILO`) and an empty number
for the default, and its handler passes on what these stand for; argparse has
literal `choices` and `int`. `loose` names the fields written as only a form
reads them, `Literal` is the command's view, and `AsArguments` what a handler
passes on. `FormsWithinCommands` compares the command with that, not with what
was typed: with what was typed it would be false.

`ConnectorJobs` has the job table `jobs`, the run behind each id, the page last
shown. A form handler (`CassandraForm` ...) checks, creates the job and hands it
to a thread; `CassandraJob` ... takes it up, connects, fetches, imports and
settles it with `UpdateJob`, with the exceptions each of the six connectors
catches and those it does not (`Escape`). `Command` and `Process` are the same
run from the command line. `Poll` is the page that refreshes itself; every
access prunes the table first. Pruning and the access after it take the lock
twice; they are one step because what another thread does between the two could
as well happen before or after both. `Restart` empties the table and ends the
threads; rows stay. `Threads` bounds the runs that have a thread. The user a run
acts for is reduced to whether it was an editor when its session was read.

### ImportFiles, ImportApply

`ImportFiles` is what the three importers make of a file and what the validator
accepts (`Valid`). A cell is `Absent`, `Blank`, `Bad` or a value; what the
difference does is the point of most of it. A text may have spaces around it or
be nothing but spaces (`""` among them): `Strip` maps such texts to what `strip()`
leaves, and `Stripped` is applied where the code strips. What files write is
stripped; what the API stored is not.

`ImportApply` runs them. `Receive` is the upload handler, which keeps the loop
until its answer; `Connect` is the import of a connector, on a thread. Then
`Validate`, and `Apply`: each section reads its table once and commits entry by
entry; the maps of names to ids are kept in the run, so that an id can be stale.
`ArchiveAsset` is the second transaction of an archived asset. `Record` writes
the IMPORT_RUN entry. `Nmap` reads each address and creates what is unknown.
`Restart` ends a run between any two commits. `Others` are the requests of
others, among them `AddAsset`, `ArchiveOther`, `DropHost`, `EditTags`. The tags of a
row are a set. The code compares them as lists, the stored ones in the order of
their names; so a list that is not to be merged is the stored one (`TagsKept`) if
it has the same tags and is in that order itself (`Ascending`). `create_ip_asset`,
`update_ip_asset` and `create_host` read once more before they write and are
one step each; `AssetStore` has the first two in steps.

### Exports

Extends `ImportApply`. `ExportStep` reads the four tables one after the other,
each in a session of its own; the rows are rendered as the cells the importer
reads: a value that is None becomes `Blank`, any other text goes out as it is
stored, spaces and all. The API stores names and notes as they come, so there may
be names with spaces around them, empty names, and two that differ only by
spaces. `NamesClear` says that the names of the exported tables are still names,
and still differ, after `strip()`: that is the hypothesis of `ExportsAccepted`.
`Trimmed` is what a file can say of the tables, and what `BundleRoundTrips`
promises to get back; where the stored texts are not already trimmed, a bundle
changes the tables it came from, and the property is silent. `ExportRefused` and
`ExportSpaced` check the sentence of the documents without these limits and
refute it. `hosts.csv` joins several addresses
or projects of a host with `group_concat`, whose order SQLite leaves open, so
`Exports` takes any. `Reinstall` replaces the tables by empty ones, `Reimport`
gives the file to an upload handler.

### UserAdmin

A request finds its user in two reads on a thread (`FindSession`, `FindUser`);
then its handler takes the loop of its process. `Create`, `Edit`, `EditRole`,
`EditActive`, `EditPassword`, `RecordEdit`, `Delete`, `RecordDelete`,
`DeleteUser`, `ChangePassword`, `RecordPassword`, `Login`, `Rehash`,
`OpenSession`, `Logout` are the transactions, one each; those of an API login
run on a thread. A deleted user's sessions go with it (`Orphaned`, the
cascade), and a foreign key refuses the entry of a deleted actor. `Boot`,
`Bootstrap` and `Crash` are the life of a process. A hash is the password and
whether it is a legacy one. No form makes a second superuser; the tables of
tests and of old databases have several, and so do the seeds; a seed with users
has an active one, as the first start made it. The two
`ADMIN_BOOTSTRAP` variables are taken to be set.

### HostForms

One handler, many transactions. `Begin`, `FindVendor`, `Collect` (one address,
one read) and `Collected` are `ui_create_host` and `ui_edit_host` up to their
last refusal; `CreateHost` and `UpdateHost` write the host after looking the
vendor up by the name just read; `ReadLinks`, `Unlink`, `ReadMoves`, `Move` are
the edit form's; `CreateAsset` and `UpdateAsset` bring the addresses, one commit
each (where a row is archived and the host gone, the UPDATE that would restore it
fails and nobody catches the error); `Answer` is what the user is told. `DeleteOpen` and `DeleteSubmit` are
`ui_delete_host` before and after it awaits its form. The API's create and
update are the same steps on a thread. Beside them assets are edited, added,
archived and deleted, projects and vendors deleted, vendors renamed. Notes are
handled as the vendor is, and left out.

### MCAssetStore, MCAssetInventory, MCConnectorJobs, MCImportApply, MCExports, MCUserAdmin, MCHostForms

Instances for TLC: the tables a behaviour may start from, the files and forms,
the demands, and for `AssetStore` the symmetry sets. Slots of one kind are
interchangeable, so `Permutations(Workers)` and `Permutations(Forms)` are
sound; liveness runs use none.

### AssetStoreProofs, InventoryProofs, AssetInventoryProofs, ConnectorJobsProofs, HostFormsProofs, UserAdminProofs, ImportApplyProofs, ImportEffectProofs

See section 6.

## 4. Runs

`CHECK_DEADLOCK FALSE` everywhere: a behaviour ends when the requests it may
receive are served and nothing is left to administer.

| Run | Shows |
| --- | --- |
| `AssetRaces` | Two threads, two addresses, three requests among create, update, delete, archive, with a project that comes and goes. Addresses are unique, no update is logged that changed nothing, a request changes its own row only, and an update keeps the columns it was not given. |
| `AssetForms` | Two forms and a thread, tags edited, bulk edits and deletes while tags come, go and change names. Links are sound, the audit log and the table agree, no form brings a deleted tag back. |
| `AssetInventory` | Two threads and a form of every kind on two addresses, with the auto-host button and hosts that come, go and change names. `AssetStore` implements `Inventory`; references exist; a create that fails leaves no `server_{ip}` behind. |
| `AssetLiveness` | Every accepted request is answered. |
| `ConnectorJobs` | Two users race in the job table through ticks and a restart; one user gives every form and every command. A failed job changed nothing, a result tells the truth and stays, a run that was pruned does not come back, only editors' runs write, with the identity typed; whatever the form accepts the command accepts once it is normalised; every run ends. |
| `Imports` | Bundles, CSV files and scans, one after another, with a restart anywhere; on a thread while the tables change. A dry run predicts and forewarns; an applied file holds and, applied again, is skipped; references are kept; exactly the whole runs are in the audit log; a scan changes no asset there is; every import ends. |
| `ExportRoundTrip` | Six filters, three formats; tables with clear names, with spaces, without names. What was exported in peace, with clear names, is accepted; a bundle restores everything but spaces around texts, and changes nothing where nothing changed. |
| `HostForms` | Every form a host page can send, by itself; one or two of them beside requests on assets; three beside changes of hosts and vendors; an edit of a host that is gone. The answer is true of the tables; no form takes an address it does not name. |
| `UserForms` | Three forms of administrators in one process with a restart, or forms and logins in two. Names and sessions are sound, an active superuser remains, every deletion is in the log. |
| `UserLogins` | Logins of the form in every order with changes of their account, logins of the API beside one deletion or creation. A session belongs to the owner of the password; no login changes a password; every request is answered. Of the API's logins the first two are not true beside more (`TokenOfOther`, `LoginUndoesRotation`). |

Bounds, and why they are enough.

* `AssetStore`: two concurrent slots are enough for every race between a stale
  read and a write; the third request lets a delete and a create give an id to
  another address in the meantime; three asset ids hold two seeded rows and one
  more; one project or two hosts suffice to be deleted and replaced. The bounds
  on ids disable the create that would exceed them. `UpdatesAuditedChange` is
  checked where no bulk edit is offered; the same formula fails in
  `BulkNoChange.cfg`. `UngivenColumnsKept` leaves the type out:
  `update_ip_asset` writes back the type it read.
* `ConnectorJobs`: two users share one thread, so one waits; `Retention = 1`
  with a clock up to 2 lets a job outlive its retention, running or settled; one
  restart at any point. Forms: all credentials, and every other field by itself
  wrong or written as only a form reads it.
* `Imports`: two runs, the second of the same or another file; every field of a
  row takes each kind of value in some file; three requests of others are needed
  to delete a row, give its id away and delete again.
* `ExportRoundTrip`: three addresses, so that a host has two in different
  projects while another is archived, and one request in between; a name and a
  note with a space after them, empty ones, and two names that differ by a space.
* `UserForms`: three requests, so that an id is given away and used by a third;
  `MaxId = 4` leaves one id beyond the three seeded users. `processes` has no
  creation: with one, two processes can log a deletion under an id that
  another user got, and `DeletionsAudited` would say nothing.
* `HostForms`: two addresses and two host names are what the two lists of a form
  need to be swapped; two requests of others, or one and a second form. `lone`
  has 2592 edit forms and 1296 add forms over four tables.

Two runs end in a counterexample and are findings:

| Run | Sentence | What happens |
| --- | --- | --- |
| `RestoreOtherRow` | a create "restores that same row" (`docs/data-model.md:15`) | the row read is deleted and its id given to another address before the restore writes by id |
| `JobStuck` | the tab refreshes "to show final status" (`docs/how-to-run.md:260`) | an exception that is not the connector's own ends the thread and leaves the job "running" |

### Further configurations

Each checks one sentence of the documents and TLC refutes it in seconds
(`tlc -config X.cfg MCmodule`). They record what the code allows, so that a
reader does not take the properties above for more than they say.

| Configuration (module) | Sentence | What happens |
| --- | --- | --- |
| `RestoreTwice` (MCAssetStore) | an active address is refused (`docs/data-model.md:16`) | two creates read the archived row; the second overwrites what the first restored and answers success |
| `AutoHostRace` (MCAssetStore) | a BMC is linked to the host named `server_{ip}` (`docs/data-model.md:61`) | the host is renamed between its lookup and the insert |
| `BulkNoChange` (MCAssetStore) | no-op updates are skipped (`docs/data-model.md:105`) | the bulk edit logs every selected row |
| `HostDelete` (MCAssetStore) | a host is deleted only without linked assets (`docs/data-model.md:119`) | the assets are unassigned instead |
| `DeleteUntyped` (MCAssetStore) | a high-risk asset needs its address typed (`docs/overview.md:34`) | it becomes high-risk while its form is on the way |
| `AuditPage` (MCAssetStore) | audit entries are shown on the asset's page (`docs/overview.md:107`) | the page of a new asset shows those of a deleted one with the same id |
| `JobPruned` (MCConnectorJobs) | the tab refreshes while a run is queued or running (`docs/how-to-run.md:260`) | a run that takes longer than the retention is pruned; its page is an empty form |
| `DryRunRepeats` (MCImportApply) | a dry run reports what would be created (`docs/export-import.md:124`) | an address given twice is counted twice; the apply updates it |
| `ImportPreserves` (MCImportApply), `NotesPreserved` | manual notes are not overwritten (`docs/data-model.md:133`) | notes written between the read and the update are |
| `ImportPreserves`, with `TypePreserved` in its place | existing records keep their type (`docs/data-model.md:134`) | the type read earlier is written back over a new one |
| `ImportPreserves`, with `TagsMerged` in its place | connector tags are merged with existing ones (`docs/data-model.md:136`) | a tag added since the read is removed |
| `ScanRestores` (MCImportApply) | a scan does not update fields of an address that is present (`docs/nmap-upload.md:43`) | the address is created and archived, by requests or by a connector's import, between the scan's read and its create, which restores the row |
| `ImportStaleHost` (MCImportApply) | assets are linked to hosts through `host_name` (`docs/data-model.md:139`) | the id of the name was given to another host |
| `CsvRoundTrip` (MCExports) | host exports round-trip through CSV import (`docs/overview.md:90`) | a host whose addresses are in two projects is exported with one; importing the file moves an address there |
| `TornExport` (MCExports) | exported data can be imported again (`docs/export-import.md:3`) | a connector adds a vendor and a host of it after the vendors were read: the file names a vendor it lacks |
| `ExportRefused` (MCExports) | the same | a host, a project or a vendor with an empty name is exported, and its file refused |
| `ExportSpaced` (MCExports) | the same | a name stored with a space after it is imported without: the host is there twice |
| `TwoWorkers` (MCUserAdmin) | the last active superuser cannot be deleted (`docs/how-to-run.md:243`) | two processes each count the other's superuser |
| `StalePassword` (MCUserAdmin) | a password is changed by entering the current one (`docs/how-to-run.md:223`) | the hash compared was read before the form was awaited |
| `LoginUndoesRotation` (MCUserAdmin) | a login upgrades a legacy hash (`docs/how-to-run.md:220`) | one of the API writes the old password over one set since |
| `UnauditedEdit` (MCUserAdmin) | user management is written to the audit log (`docs/overview.md:62`) | an actor deleted meanwhile makes the entry fail after the change is committed |
| `TokenOfOther` (MCUserAdmin) | a user's sessions are deleted with the user (`docs/data-model.md:92`) | an API login opens its session for an id that another user got |
| `HostClaims` (MCHostForms), `ProjectFollows` under `ProjectDemands` | changing the project updates linked addresses (`docs/overview.md:125`) | addresses that the same form adds get none |
| `HostClaims`, with `UnlinksAudited` under `UnlinkDemands` in its place | updates of IP assets are in the audit log (`docs/overview.md:107`) | the edit form unlinks addresses with an UPDATE of its own |
| `HostClaims`, with `DeletesConfirmed` under `ConfirmDemands` in its place | deletion requires the exact host name (`docs/data-model.md:120`) | the host is renamed between its read and the submitted form |

## 5. Fairness

* `AssetStore`: weak fairness of `Run(r)`, the next statement of a handler that
  has started: threads are scheduled, and a handler on the loop is not preempted
  by another. Strong fairness of `Resume(r)`: other forms may take the loop
  again and again while one waits, but asyncio resumes handlers in the order
  they became ready; the client is taken to finish the form it began to send.
* `ConnectorJobs`: weak fairness of handlers, of the page that polls, and of the
  threads, except where a thread is in a vCenter fetch, the only one without a
  timeout (`HeldByVcenter`). `RunsEnd` promises nothing while that lasts.
* `ImportApply`: weak fairness of the steps of a run, which wait for nobody once
  the file is there; strong fairness of `Receive`, for the loop as above.
* `UserAdmin`: strong fairness of the steps of a request, because the loop they
  wait for is taken by others and processes come and go; weak fairness of
  starting a process (a supervisor restarts it).
* `Exports`, `HostForms` and the safety runs have none.

Arrivals, the requests of others, ticks and restarts are never fair.

## 6. Proofs

All theorems hold for every value of the constants that satisfies the named
assumptions of their module: any number of requests, forms, addresses, threads
and restarts, any tables to start from. The assumptions say that bounds are
natural numbers, that `Nil` and the marks beside it are none of the values they
stand beside, and that demands and seeds are well formed: a table to start from
has the types, unique columns and references the schema enforces
(`SeedAssumption`, `Consistent`, `SeedOK`), an arriving form has the fields of
its page. TLC evaluates them on every run.

A theorem with a hypothesis of its own (one process, logins by form only, no
bulk edit) has it because the sentence is false without it; the run that shows
so is named below. No other property was weakened or restricted.

`AssetStoreProofs` proves `TypeCorrect == Spec => []TypeOK`. `TypeOK` is not
inductive: a create writes the type of its payload and must know that it is
not `Nil`. `TypeInv` adds `PayloadsComplete`, what a handler has validated by
the time a request has the given operation. One lemma per group of actions:
arrivals, reads, then the pieces of a write transaction (`LogType`,
`SetTagsType`, `InsertType`, `RestoreType` ...) and the writes made of them.

It also proves `AddressesUnique`, `ReferencesExist` and `LinksSound`
invariant (`UniqueAddresses`, `ReferencesAlwaysExist`, `LinksAlwaysSound`).
Their conjunction `Sound` is inductive relative to `TypeInv`. The lemma at the
centre is `RowWriteSound`: writing one row whose address no other row has and
whose references exist, and setting the tags of a stored asset, keeps the tables
sound. A create, a restore and an update are instances of it; the bulk edit, the
deletes and the administration have proofs of their own.

The action properties follow. `OnlyNamedRowEverChanges`,
`UngivenColumnsEverKept` and `NoOrphanAutoHosts` need only `TypeInv`: a lemma
says that a step that changes a request is a step of that request, another what
its write does to the rows. `UpdatesAlwaysTell` is about the log. The entry
names the columns in which the row *read* differs from the row *written*, and
between the two others may have written. `ChangesTold` shows that it is not
empty: a column in which the payload differs from what was read is written, so
it still differs. The hypothesis `"bulk" \notin Ops` is needed: `BulkNoChange`
is its counterexample. `FormsNeverCreateTags` needs `FormInv`: a form past its
checks has the event loop, so no tag goes and the tags it holds stay tags; the
tags a bulk edit read are tags by `LinksSound`.

`InventoryProofs` proves `LogTells` of the abstract inventory: an address is
stored exactly when its log says so, and its log is a sequence of lives, each
begun by one CREATE and ended by at most one DELETE.

`AssetInventoryProofs` proves `Refines == Spec => ImplementsInventory`. The
inductive invariant is `Known == TypeInv /\ Sound /\ IdleAsksNothing`: an idle
slot keeps no address and no operation of its last request. Step by step: reads
and administration stutter; an arrival is `Ask`, or `Ask` refused; each write is
the abstract step of its operation. What makes it true is `Sound`: because an
address has at most one row, the row a write by address finds is the one that
makes the address stored. `AuditAlwaysTracks` then carries `LogTells` over, by
`Kept == INSTANCE InventoryProofs WITH ...` the refinement mapping: the audit
log of every address and the table agree, a fact about the detailed tables with
no proof about them.

`ConnectorJobsProofs`. The safety properties of the job table are not
inductive: what a page says is compared with what a thread did, and in between
are the job's row, which may be pruned or lost, and the thread, which may be
late. `JobsInv == JobsTypeOK /\ \A j : Coherent(j)` says, phase by phase, what
is listed (`Unlisted`), what was checked before (`Checked`), how much a run has
written by now (`WroteSoFar`), and that the job, the page and the exit status
each agree with that (`JobAgrees`, `PageAgrees`, `ExitAgrees`). Five invariants
follow from it, and `ResultsAlwaysStay` from it and the step.
`FormsStayWithinCommands` and `GivenIdentitySent` compare the two sets of
checks, connector by connector, in lemmas about `ConnectorForms`.

`HostFormsProofs`. `HostInv == HostTypeOK /\ ReqInv` is inductive: the tables
are consistent after every transaction of a half-done form, because each looks
again for what it refers to. `AnswersTrue` needs to know, at every step of a form
that nobody disturbed (`Quiet`), what the tables already hold. `TruthInv` says
it: the vendor was read (`VendorRead`), the host is as typed (`HostRight`), the
links found are the links there are (`LinksRead`), the lists cut so far are
right (`ListsRight`), the entries done are done (`EntriesRight`), and an answer
is what `AnswerTellsTruth` says (`Verdict`). A commit of anybody else ends
`Quiet` for good: `base + wrote <= commits`.

`UserAdminProofs`. `UserInv` gives the types, unique names and that sessions
and entries refer to users there are (`UserTypeCorrect`), for any number of
processes. The other theorems have the hypothesis that no behaviour has a
process besides one (`OneProcess(w)`), since what they promise is protected by
the event loop of one process only; `TwoWorkers` is the counterexample with two.
Their invariant `ProcessInv(w)` says that what a form read under the loop is
still so: the user it is about has not changed, a superuser it may take away
has a `Spare`, and the DELETE entry is there before the user goes.
`SessionsOfOwners` and `LoginsKeepPasswords` also assume that logins come by the
form (`FormLogins`): an API login runs on a thread, and `TokenOfOther` and
`LoginUndoesRotation` show what happens there. Their invariant `LoginInv` says
that the account a login verified still has that id, name and password.

`ImportApplyProofs`. `ImportInv` is inductive: the tables have their types and
references (`TablesOK`), and each run is `RunOK`. `Placed` says what a run
carries in each phase: from `Validate` on every name, address, type and tag of
its file is one the tables may hold (`Checked`, which `ValidChecked` derives from
the validator), and an entry under way is one of the file. `Allowed` says that
no run of a viewer is validated unless it is dry, and that no dry run reaches the
phases that write an asset. `Counting` says that the counts of a run in the k-th entry of a section
add up to the sections before it and k - 1: without it, that a completed run
dealt with every entry (`ImportAudit`) could not be shown. An audit entry and
the completion of its run are one step (`Recorded`). `ImportReferences` does not
depend on the ids a run holds being still those of the names they were read
for, which `ImportStaleHost` refutes: a row is written only if the ids in it are
ids of some row, as the foreign keys demand (`Exists`). The proofs take from the
parsers only the form of their result. `ImportAssumption` states it for each file
of a demand (`UploadOK`), because `ParseBundle` and `ParseCsv` are built from
folds; TLC evaluates it on every file of the run.

`ScansKeepAssets` has the hypothesis `NoOtherArchives`: imports are uploads, and
no request archives an asset. Then the scan has the loop from its reads to its
writes, and an address that was free when it was read is free or in use when it
is written (`ScanInv`); creating one that is in use is refused, creating an
archived one would restore it. `ScanRestores` has a demand for
each half of the hypothesis, and either is enough for a counterexample. `Imports`
checks the property under the hypothesis: two scans, or one beside requests that
create and delete assets.

`ImportEffectProofs` says what an import does to the tables. `ImportInv` cannot:
what a section read when it was opened, the ids it learnt and the rows already
written are true of the tables only as long as nobody else commits. So the
invariant is about runs alone so far, `commits = base + wrote`, of files that
repeat nothing (`Apart`, which `RepeatFree` derives from `NoRepeats`). For such a
run `Progress` says of the entries dealt with that their rows are as the file
wants them (`Applied`), of those to come that the tables are still as the section
read them (`Fresh`), of the ids that they are those of the names (`Learnt`,
`Resolved`), and of an entry under way that what was decided about it still holds
(`Deciding`). A step is an effect on explicit tables, from `T` to `U`: for each
handler one lemma says which effect it has (`VendorActs`, `CreateHostActs`,
`UpdateAssetActs` ...) and one that the effect keeps `Progress` (`VendorGoesOn`
...). Hence `EffectInv`: a run that is applied leaves its file `Settled`, and one
that failed, alone, had a file that repeats something. It needs that the names of
projects and hosts are unique (`NamesOnce`), which the schema demands and every
handler keeps. `ImportApplied` follows. An earlier attempt that was cut off is no
special case: nothing is assumed of the tables a run begins with.

`DryRunPredicts` and `ReapplySkips` compare two runs of one file. `Says` is what
the applier makes of an entry (create, update or skip), read off the tables; `Total` is what
a run has counted so far of a section and a verdict, plus the entries it has not
told of yet that the tables give this verdict. `EffectTold`: a step of a run that
is alone leaves every total as it was, whether the run is dry or not. That is the
heart of it: what an applied entry writes changes no verdict on the others, although
entries refer to one another's names. `TallyInv`: as long as nothing was
committed since a run began, its totals are the number of entries of each
verdict. `PairInv`: of two runs of one file on the same tables, the first a
completed dry run, the totals of the second are the counts of the first
(`AgreeAt`); of a second run on the tables that the first left, the totals of
create and update are 0, because a settled file is all skips (`SkipAt`,
`SettledSkips`; here the order of tag lists is needed). Each pair is settled when
the second run begins, and kept while it goes on (`SteadyKept`); the first may
even end while the second is under way. In the end nothing is untold and the
totals are the counts (`ImportPredicted`). That an apply does not fail where the
dry run passed is the clause of `EffectInv` about failed runs. `MarkInv` says that
a run has counted as created or updated what it writes; so a run that counts
neither wrote nothing (`ImportReapplied`).

Only model-checked:

* Liveness: `RequestsFinish`, `RunsEnd`, `ImportsEnd`, `RequestsAnswered`, as
  every statement with fairness or ENABLED, is out of the prover's reach.
* `ExportsAccepted` and `BundleRoundTrips`: they rest on what the sorts and folds
  of `Exports` and `ImportFiles` compute for every table and every file
  (`SetToSortSeq`, `Distinct`, `FlattenSeq`), which needs induction over their
  length. Nor would `EffectInv` cover a CSV export, in which an address comes
  twice: as a host's address and as a row of its own.

## 7. Not modelled

* IP ranges: arithmetic over one read of the table, within the reach of unit
  tests; their forms write one row. The quick add and edit call the operations
  of `AssetStore`.
* Fetches of the connectors and the bundles built from their records: network
  I/O and record reshaping. What a connector may fail with and when is modelled.
* Listings, filters, pages, service discovery, metrics: read only.
* Migrations, the upgrade of old databases, packaging: run once at start.
* Templates and browser code: keep no state the server relies on.
* Descriptions of projects, colours of tags, texts of errors and warnings,
  timestamps: no property depends on them.
* SQLITE_BUSY after the 5 s timeout, except where a handler survives it
  (`UserAdmin`, `ConnectorJobs`).
