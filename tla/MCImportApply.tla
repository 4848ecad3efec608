--------------------------- MODULE MCImportApply ---------------------------
(* Instances of ImportApply for TLC.                                       *)
EXTENDS ImportApply

CONSTANTS i1, i2, na, nb, pa, n1, n2, c0, c1, dash

(* Tags 1 and 2 in the order of their names, 1 also in capitals, and one   *)
(* with a character that is not allowed.                                   *)
MCLower == [t \in {1, 2, 11, 13} |-> CASE t = 11 -> 1 [] t = 13 -> Bad [] OTHER -> t]

(* pa is na with spaces around it; only files have it here.                *)
MCStrip == [t \in {pa} |-> na]

MCTypes == {"OS", "BMC", "VM", "OTHER"}

Plain(ip, type) == [f \in RowFields |-> CASE f = "ip" -> ip [] f = "type" -> type
                                          [] OTHER -> Absent]
File(v, p, h, r) == [vendors |-> v, projects |-> p, hosts |-> h, assets |-> r]
Upload(kind, file) == [kind |-> kind, file |-> file]

ProjectA(color) == <<[name |-> na, color |-> color]>>
HostA(notes, vendor) == <<[name |-> na, notes |-> notes, vendor |-> vendor]>>

Full == File(<<pa>>, ProjectA(c1), <<[name |-> pa, notes |-> n1, vendor |-> pa]>>,
  <<[Plain(i1, "VM") EXCEPT !.project = pa, !.host = na, !.tags = <<11, 2>>,
                            !.notes = n1, !.archived = TRUE]>>)
Sparse == File(<<>>, ProjectA(Blank), HostA(Blank, Blank),
  <<[Plain(i1, "OS") EXCEPT !.notes = Blank, !.archived = FALSE, !.tags = <<2, 1>>],
    [Plain(i2, "BMC") EXCEPT !.host = na, !.project = na]>>)
Gentle == File(<<>>, <<>>, <<>>,
  <<[Plain(i1, "VM") EXCEPT !.notes = n2, !.keepNotes = TRUE, !.keepType = TRUE,
                            !.merge = TRUE, !.tags = <<2>>]>>)
Twice == File(<<>>, <<>>, <<>>, <<Plain(i1, "VM"), Plain(i1, "OS")>>)

(* One thing wrong in each.                                                *)
Wrong == {
  File(<<Blank>>, <<>>, <<>>, <<>>),
  File(<<>>, ProjectA(Bad), <<>>, <<>>),
  File(<<>>, <<>>, HostA(Blank, nb), <<>>),
  File(<<>>, <<>>, <<>>, <<[Plain(i1, "OS") EXCEPT !.project = nb]>>),
  File(<<>>, <<>>, <<>>, <<[Plain(i1, "OS") EXCEPT !.host = nb]>>),
  File(<<>>, <<>>, <<>>, <<[Plain(i1, "OS") EXCEPT !.tags = <<13>>]>>),
  File(<<>>, <<>>, <<>>, <<Plain(Bad, "OS"), Plain(i2, "OS")>>)}

CsvRow(ip, type, notes) ==
  [ip |-> ip, type |-> type, project |-> nb, host |-> Blank, notes |-> notes,
   archived |-> Blank, tags |-> Blank]
Csv == [hosts |-> <<[name |-> na, notes |-> n1, vendor |-> na, project |-> na,
                     osIp |-> i1, bmcIp |-> Blank]>>,
        assets |-> [tagged |-> TRUE, rows |-> <<CsvRow(i2, "VM", Blank)>>]]
CsvHosts  == [Csv EXCEPT !.assets = Missing]
CsvAssets == [Csv EXCEPT !.hosts = Missing, !.assets.tagged = FALSE]

Scan == <<[up |-> TRUE, ip |-> i1, vendor |-> "hypervisor"],
          [up |-> FALSE, ip |-> i2, vendor |-> "server"],
          [up |-> TRUE, ip |-> Bad, vendor |-> Nil],
          [up |-> TRUE, ip |-> i1, vendor |-> Nil]>>

BadUploads ==
  {Upload("bundle", f) : f \in Wrong \union {Malformed}}
    \union {Upload("csv", [Csv EXCEPT !.hosts = Missing, !.assets = Missing]),
            Upload("nmap", Missing)}
HalfUploads == {Upload("csv", f) : f \in {CsvHosts, CsvAssets}}

(* Tables to start from: empty, with an asset that is in use, and with one *)
(* that is archived.                                                       *)
Empty == [vendors |-> {}, projects |-> [i \in Ids |-> Nil],
          hosts |-> [i \in Ids |-> Nil], assets |-> [ip \in Ips |-> Nil]]
Used(type, notes, archived, tags) ==
  [Empty EXCEPT !.vendors = {na},
    !.projects[1] = [name |-> na, color |-> c0],
    !.hosts[1] = [name |-> na, notes |-> Nil, vendor |-> Nil],
    !.hosts[2] = [name |-> nb, notes |-> n2, vendor |-> na],
    !.assets[i1] = [type |-> type, project |-> 1, host |-> 2, notes |-> notes,
                    archived |-> archived, tags |-> tags]]
FormSeeds == {Empty, Used("OS", n2, FALSE, {1}), Used("VM", Nil, TRUE, {})}
UsedSeeds == {Used("OS", Nil, FALSE, {1})}

-----------------------------------------------------------------------------
(* Two uploads, of the same file or of two, good or bad; one of half a CSV;*)
(* ids that go stale under a connector's import and a scan; edits of an    *)
(* asset under an import that keeps its columns.                           *)
Forms(uploads) ==
  [runs |-> {1, 2}, uploads |-> uploads, bundles |-> {}, modes |-> BOOLEAN,
   sources |-> {"form"}, ops |-> {}, seeds |-> FormSeeds, others |-> 0, restarts |-> 1]
Pair == Forms({Upload("bundle", Full), Upload("bundle", Sparse)})
Faulty == [Forms(BadUploads) EXCEPT !.seeds = {Empty}, !.restarts = 0]
Half == [Forms(HalfUploads) EXCEPT !.runs = {1}]
Threads == [Forms({}) EXCEPT !.runs = {1}, !.sources = {"thread"}, !.modes = {FALSE},
                              !.seeds = UsedSeeds, !.restarts = 0]
Stale == [Threads EXCEPT !.uploads = {Upload("nmap", Scan)}, !.bundles = {Full, Sparse},
            !.sources = {"form", "thread"}, !.others = 3,
            !.ops = {"projects", "hosts", "vendors", "assets"}]
Edits == [Threads EXCEPT !.bundles = {Gentle}, !.modes = BOOLEAN, !.others = 2,
                         !.ops = {"type", "notes", "tags", "archive"}]

ImportDemands ==
  [pair |-> Pair, gentle |-> Forms({Upload("bundle", Gentle)}),
   csv |-> Forms({Upload("csv", Csv)}), scan |-> Forms({Upload("nmap", Scan)}),
   faulty |-> Faulty, half |-> Half, stale |-> Stale, edits |-> Edits]
RepeatDemands ==
  [repeats |-> [Forms({Upload("bundle", f) : f \in {Full, Twice}})
                  EXCEPT !.seeds = {Empty}, !.restarts = 0]]
EditDemands == [edits |-> Edits]
HostDemands ==
  [hosts |-> [Threads EXCEPT !.bundles = {Sparse}, !.seeds = FormSeeds,
                             !.others = 2, !.ops = {"hosts"}]]
ScanDemands ==
  [scan |-> [Forms({Upload("nmap", Scan)})
               EXCEPT !.runs = {1}, !.seeds = {Empty}, !.restarts = 0, !.others = 2,
                      !.ops = {"assets", "archive"}],
   beside |-> [Forms({Upload("nmap", Scan)})
               EXCEPT !.bundles = {Full}, !.sources = {"form", "thread"}, !.modes = {FALSE},
                      !.seeds = {Empty}, !.restarts = 0]]
=============================================================================
