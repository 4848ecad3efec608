------------------------------ MODULE ImportFiles ------------------------------
(***************************************************************************)
(* What the importers make of an uploaded file: bundle.json, the two CSV   *)
(* files and the XML of an Nmap scan; and what the validator accepts.      *)
(*                                                                         *)
(* A cell or JSON value is Absent (no such key or column), Blank (null, or *)
(* nothing but spaces), Bad (a value that does not parse) or a value.  A   *)
(* text of the tables may have spaces around it, or be nothing but spaces: *)
(* Strip tells what str.strip() leaves of it.  A project's description is  *)
(* handled as its colour is, and left out.                                 *)
(***************************************************************************)
EXTENDS Naturals, SequencesExt

CONSTANTS
  Nil,                  \* None
  Absent, Blank, Bad,
  Malformed,            \* a file that is not the JSON, CSV or XML expected
  Missing,              \* no file, or an empty one
  Ips, Types,           \* IPAssetType
  Lower,                \* a tag as written -> the tag it names, or Bad.  Tags
                        \* are numbers, in the order of their names
  Strip                 \* a text that strip() changes -> what is left, or Blank

RowFields == {"ip", "type", "project", "host", "notes", "tags", "archived",
              "merge", "keepNotes", "keepType"}

EmptyBundle == [vendors |-> <<>>, projects |-> <<>>, hosts |-> <<>>, assets |-> <<>>]

Mapped(seq, Op(_)) == [k \in DOMAIN seq |-> Op(seq[k])]

(* The first occurrence of each, in order.                                 *)
Distinct(seq) ==
  FoldLeft(LAMBDA acc, x : IF Contains(acc, x) THEN acc ELSE Append(acc, x), <<>>, seq)

NormalTags(tags) == Distinct(Mapped(tags, LAMBDA t : Lower[t]))

(* The names that set_ip_asset_tags links for a list of tags.              *)
TagsIn_Raw(tags) == {tags[k] : k \in DOMAIN tags}

TagsIn(tags) == {Lower[tags[k]] : k \in DOMAIN tags}

-----------------------------------------------------------------------------
(* Cells.                                                                  *)

Stripped(text) == IF text \in DOMAIN Strip THEN Strip[text] ELSE text

Text(value) == IF Stripped(value) \in {Absent, Blank} THEN Nil ELSE Stripped(value)
Flag(value) == IF value \in BOOLEAN THEN value ELSE Nil
TagList(value) == CASE value = Absent -> Nil
                    [] value = Blank  -> <<>>
                    [] OTHER          -> value

-----------------------------------------------------------------------------
(* bundle.json.  The name of an entry is kept as it is read; validator and *)
(* applier strip it wherever they look at it, so it is stripped here.      *)

BundleProject(entry) == [name |-> Stripped(entry.name), color |-> Text(entry.color)]

BundleHost(entry) ==
  [name |-> Stripped(entry.name), notes |-> Text(entry.notes), vendor |-> Text(entry.vendor)]

BundleAsset(entry) ==
  [ip |-> entry.ip, type |-> entry.type,
   project |-> Text(entry.project), host |-> Text(entry.host),
   notes |-> Text(entry.notes), notesGiven |-> entry.notes # Absent,
   tags |-> TagList(entry.tags), archived |-> Flag(entry.archived),
   merge |-> Flag(entry.merge) = TRUE,
   keepNotes |-> Flag(entry.keepNotes) = TRUE,
   keepType |-> Flag(entry.keepType) = TRUE]

ParseBundle(file) ==
  [vendors |-> Mapped(file.vendors, Stripped),
   projects |-> Mapped(file.projects, BundleProject),
   hosts |-> Mapped(file.hosts, BundleHost),
   assets |-> Mapped(file.assets, BundleAsset)]

-----------------------------------------------------------------------------
(* hosts.csv and ip-assets.csv.  The vendors and projects they name come   *)
(* first; the OS and BMC addresses of hosts.csv become assets, before the  *)
(* rows of ip-assets.csv.                                                  *)

CsvAsset(tagged, row) ==
  [BundleAsset([f \in RowFields |-> IF f \in DOMAIN row THEN row[f] ELSE Absent])
     EXCEPT !.notesGiven = TRUE, !.tags = IF tagged THEN @ ELSE Nil]

DerivedAsset(row, ip, type) ==
  [ip |-> ip, type |-> type, project |-> Text(row.project),
   host |-> Stripped(row.name),
   notes |-> Nil, notesGiven |-> FALSE, tags |-> Nil, archived |-> Nil,
   merge |-> FALSE, keepNotes |-> FALSE, keepType |-> FALSE]

DerivedAssets(row) ==
  IF Stripped(row.name) = Blank THEN <<>>
  ELSE (IF Text(row.osIp) = Nil THEN <<>> ELSE <<DerivedAsset(row, row.osIp, "OS")>>)
        \o (IF Text(row.bmcIp) = Nil THEN <<>> ELSE <<DerivedAsset(row, row.bmcIp, "BMC")>>)

Named(values) == SelectSeq(values, LAMBDA v : v # Nil)

ParseCsv(file) ==
  LET hostRows == IF file.hosts = Missing THEN <<>> ELSE file.hosts
      hosts == Mapped(hostRows, BundleHost)
      derived == FlattenSeq(Mapped(hostRows, DerivedAssets))
      listed == IF file.assets = Missing THEN <<>>
                ELSE Mapped(file.assets.rows, LAMBDA r : CsvAsset(file.assets.tagged, r))
      assets == derived \o listed
  IN [vendors |-> Distinct(Named(Mapped(hosts, LAMBDA h : h.vendor))),
      projects |-> Mapped(Distinct(Named(Mapped(assets, LAMBDA a : a.project))),
                          LAMBDA n : [name |-> n, color |-> Nil]),
      hosts |-> hosts, assets |-> assets]

-----------------------------------------------------------------------------
(* Nmap: the IPv4 address of each host that is up, once; the type follows  *)
(* from the vendor of its MAC address.  An address that does not parse is  *)
(* reported and left out; one of another family is left out.               *)

InferredType(vendor) == CASE vendor = "hypervisor" -> "VM"
                          [] vendor = "server"     -> "OS"
                          [] OTHER                 -> "OTHER"

ParseNmap(file) ==
  LET up == SelectSeq(file, LAMBDA h : h.up /\ h.ip \in Ips)
  IN Mapped(Distinct(Mapped(up, LAMBDA h : h.ip)),
            LAMBDA ip : [ip |-> ip,
              type |-> InferredType(up[SelectInSeq(up, LAMBDA h : h.ip = ip)].vendor)])

-----------------------------------------------------------------------------
(* validate_bundle                                                         *)

NamesOf(entries) == {entries[k].name : k \in DOMAIN entries}

ValidAsset(a, projectNames, hostNames) ==
  /\ a.ip \in Ips /\ a.type \in Types
  /\ a.project \in projectNames \union {Nil}
  /\ a.host \in hostNames \union {Nil}
  /\ a.tags # Nil => \A k \in DOMAIN a.tags : Lower[a.tags[k]] # Bad

Valid_AnyVendor(b, vendorNames, projectNames, hostNames) ==
  /\ \A k \in DOMAIN b.vendors  : b.vendors[k] # Blank
  /\ \A k \in DOMAIN b.projects : b.projects[k].name # Blank /\ b.projects[k].color # Bad
  /\ \A k \in DOMAIN b.hosts    : b.hosts[k].name # Blank
  /\ \A k \in DOMAIN b.assets   :
       ValidAsset(b.assets[k], projectNames \union NamesOf(b.projects),
                  hostNames \union NamesOf(b.hosts))

Valid(b, vendorNames, projectNames, hostNames) ==
  /\ \A k \in DOMAIN b.vendors  : b.vendors[k] # Blank
  /\ \A k \in DOMAIN b.projects : b.projects[k].name # Blank /\ b.projects[k].color # Bad
  /\ \A k \in DOMAIN b.hosts    :
       /\ b.hosts[k].name # Blank
       /\ b.hosts[k].vendor \in vendorNames \union ToSet(b.vendors) \union {Nil}
  /\ \A k \in DOMAIN b.assets   :
       ValidAsset(b.assets[k], projectNames \union NamesOf(b.projects),
                  hostNames \union NamesOf(b.hosts))
===============================================================================
