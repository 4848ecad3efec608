------------------------------- MODULE MCExports -------------------------------
(* Instances of Exports for TLC.                                           *)
EXTENDS Exports

CONSTANTS i1, i2, i3, na, nb, nc, pc, n1, pn, c0, c1, dash

MCTypes    == {"OS", "BMC", "VM", "OTHER"}
MCLower    == [t \in {1, 2} |-> t]
MCNameRank == [n \in {"", na, nb, nc, pc} |->
  CASE n = "" -> 0 [] n = na -> 1 [] n = nb -> 2 [] n = nc -> 3 [] n = pc -> 4]

(* pc and pn are nc and n1 with a space after them; "" is a text as well.  *)
MCStrip    == [t \in {"", pc, pn} |-> CASE t = "" -> Blank [] t = pc -> nc [] t = pn -> n1]
MCIpRank   == [ip \in {i1, i2, i3} |-> CASE ip = i1 -> 1 [] ip = i2 -> 2 [] ip = i3 -> 3]

(* No filter, the archived assets or not, one filter, or all of them.     *)
Only(archived, type, project, host) ==
  [archived |-> archived, type |-> type, project |-> project, host |-> host]
MCFilters == {Everything, Only(FALSE, Nil, Nil, Nil), Only(TRUE, "OS", Nil, Nil),
              Only(TRUE, Nil, na, Nil), Only(FALSE, Nil, Nil, nb), Only(TRUE, "OS", na, na)}
FullFilter == {Everything}

(* Host a has two OS assets in different projects, host b a BMC without a  *)
(* project or an archived one.                                             *)
Row(type, project, host, notes, archived, tags) ==
  [type |-> type, project |-> project, host |-> host, notes |-> notes,
   archived |-> archived, tags |-> tags]
Stored(third) ==
  [vendors |-> {na, nb},
   projects |-> [i \in Ids |-> CASE i = 1 -> [name |-> nb, color |-> c0]
                                 [] i = 2 -> [name |-> na, color |-> c1] [] OTHER -> Nil],
   hosts |-> [i \in Ids |-> CASE i = 1 -> [name |-> nb, notes |-> Nil, vendor |-> na]
                              [] i = 2 -> [name |-> na, notes |-> n1, vendor |-> Nil]
                              [] OTHER -> Nil],
   assets |-> [ip \in Ips |-> CASE ip = i1 -> Row("OS", 1, 2, n1, FALSE, {1, 2})
                                [] ip = i2 -> Row("OS", 2, 2, Nil, FALSE, {})
                                [] ip = i3 -> third]]
MCSeeds == {Stored(Row("BMC", Nil, 1, Nil, FALSE, {2})), Stored(Row("VM", 2, 1, n1, TRUE, {1})),
            Stored(Row("OS", 2, 1, n1, FALSE, {})), Stored(Nil)}

(* Tables that only the API makes: a project, a host and notes with spaces *)
(* after them and empty notes; a project, a host or a vendor without a     *)
(* name; and two hosts whose names differ by a space.                      *)
Spaced == [Stored(Row("BMC", 1, 1, pn, TRUE, {2}))
             EXCEPT !.projects[1].name = pc, !.hosts[1].name = pc, !.hosts[2].notes = "",
                    !.assets[i2].notes = ""]
Nameless == {[Stored(Nil) EXCEPT !.projects[1].name = ""],
             [Stored(Nil) EXCEPT !.hosts[1].name = ""],
             [Stored(Nil) EXCEPT !.vendors = @ \union {""}]}
Alike == [Stored(Nil) EXCEPT !.hosts[1].name = nc, !.hosts[2].name = pc]

-----------------------------------------------------------------------------
(* An export beside a request on the assets; one beside nothing; one beside*)
(* a connector that adds a vendor and a host of it.                        *)
Quiet == [runs |-> {1}, uploads |-> {}, bundles |-> {}, modes |-> {FALSE}, sources |-> {},
          ops |-> {}, seeds |-> {Stored(Nil)}, others |-> 0, restarts |-> 0]
MCBundle == [vendors |-> <<nc>>, projects |-> <<>>, assets |-> <<>>,
             hosts |-> <<[name |-> nc, notes |-> Blank, vendor |-> nc]>>]

ExportDemands ==
  [assets |-> [Quiet EXCEPT !.modes = BOOLEAN, !.ops = {"assets"},
                         !.seeds = MCSeeds, !.others = 1],
   spaced |-> [Quiet EXCEPT !.modes = BOOLEAN, !.seeds = {Spaced, Alike} \union Nameless]]
QuietDemands == [quiet |-> Quiet]
NamelessDemands == [nameless |-> [Quiet EXCEPT !.seeds = Nameless \union {Alike}]]
SpacedDemands == [spaced |-> [Quiet EXCEPT !.seeds = {Spaced}]]
TornDemands ==
  [torn |-> [Quiet EXCEPT !.runs = {1, 2}, !.bundles = {MCBundle}, !.sources = {"thread"}]]
===============================================================================
