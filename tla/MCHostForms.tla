------------------------------ MODULE MCHostForms ------------------------------
(* Instances of HostForms for TLC.                                         *)
EXTENDS HostForms

CONSTANTS na, nb, v1, v2, i1, i2

Filled(kind, id, name, project, os, bmc) ==
  [kind |-> kind, id |-> id, name |-> name, vendor |-> Nil, project |-> project,
   os |-> os, bmc |-> bmc]
Edit(id, project, os, bmc) == Filled("edit", id, na, project, os, bmc)
Add(project, os, bmc)      == Filled("add", Nil, nb, project, os, bmc)
Delete(id, name)           == Filled("delete", id, name, Absent, Absent, Absent)
Api(kind, id, name)        == Filled(kind, id, name, Absent, Absent, Absent)
From(f, vendor)            == [f EXCEPT !.vendor = vendor]

Row(ip, type, project, host, archived) ==
  [ip |-> ip, type |-> type, project |-> project, host |-> host, archived |-> archived]
Table(rows) == [i \in Ids |-> IF i \in DOMAIN rows THEN rows[i] ELSE Nil]
Seed(names, rows, vendorRows) ==
  [hosts |-> Table([i \in DOMAIN names |-> [name |-> names[i], vendor |-> Nil]]),
   assets |-> Table(rows), projects |-> {1}, vendors |-> Table(vendorRows)]

(* Host a with an OS and a BMC address; hosts a and b with one each; an    *)
(* archived address.                                                       *)
Pair     == Seed(<<na>>, <<Row(i1, "OS", Nil, 1, FALSE), Row(i2, "BMC", Nil, 1, FALSE)>>, <<v1>>)
Apart    == Seed(<<na, nb>>, <<Row(i1, "OS", Nil, 1, FALSE), Row(i2, "OS", 1, 2, FALSE)>>, <<v1>>)
Archived == Seed(<<na>>, <<Row(i1, "OS", Nil, Nil, TRUE)>>, <<v1>>)
One      == Seed(<<na>>, <<Row(i1, "OS", Nil, 1, FALSE)>>, <<v1>>)
Seeds    == {Pair, Apart, Archived, One}

-----------------------------------------------------------------------------
(* Every form by itself; one and two forms beside requests on assets; hosts*)
(* and vendors that come, go and change names under the forms; an edit of a*)
(* host that is not there, beside requests on the address it names.        *)
Lists == {Absent, {}, {i1}, {i2}, {i1, i2}, {Bad}}
AnyForm ==
  [kind : {"edit"}, id : {1, 3}, name : {Nil, na, nb}, vendor : {Nil, 1, 2},
   project : {Absent, Nil, 1, 2}, os : Lists, bmc : Lists]
    \union [kind : {"add"}, id : {Nil}, name : {Nil, na, nb}, vendor : {Nil, 1, 2},
            project : {Absent, Nil, 1, 2}, os : Lists, bmc : Lists]
    \union [kind : {"delete"}, id : {1, 3}, name : {na, nb}, vendor : {Nil},
            project : {Absent}, os : {Absent}, bmc : {Absent}]

Load(requests, forms, ops, seeds, others) ==
  [requests |-> requests, forms |-> forms, ops |-> ops, seeds |-> seeds, others |-> others]
Lone  == Load({1}, AnyForm, {}, Seeds, 0)
EditForms == {Edit(1, 1, {}, {i2}), Edit(1, Absent, {i2}, Absent), Add(1, {i1}, {i2})}
AssetOps  == {"edit", "drop", "add", "archive", "projects"}
Links == Load({1}, EditForms, AssetOps, {Pair, Apart, One}, 2)
Twice == Load({1, 2}, EditForms \union {Delete(1, na)}, AssetOps, {Pair, Apart}, 1)
Renames == Load({1, 2, 3}, {From(Edit(1, Absent, {}, Absent), 1), Delete(1, na), Delete(1, nb),
                            From(Api("apiAdd", Nil, nb), 1), From(Api("apiEdit", 1, nb), 1),
                            From(Add(Absent, {i1}, Absent), 1)},
                {"vendors"}, {One}, 1)

Missing == Load({1}, {Edit(3, Absent, {i2}, Absent)}, {"add", "archive"}, {One}, 2)

FormDemands == [lone |-> Lone, links |-> Links, twice |-> Twice, renames |-> Renames,
                missing |-> Missing]
UnlinkDemands == [unlink |-> Load({1}, {Edit(1, Absent, {}, Absent)}, {}, {One}, 0)]
ProjectDemands == [project |-> Load({1}, {Edit(1, 1, {i1, i2}, Absent)}, {}, {One}, 0)]
ConfirmDemands == [confirm |-> Load({1, 2}, {Delete(1, na), Api("apiEdit", 1, nb)}, {}, {One}, 0)]
===============================================================================
