---------------------------- MODULE ImportEffectProofs ----------------------------
(***************************************************************************)
(* Proofs about ImportApply: what an import leaves in the tables and what  *)
(* it counts.  A run that nobody else committed beside is followed entry   *)
(* by entry; what it has dealt with is in the tables, and what it is to do *)
(* of the rest can be read off them.  So what it has counted and what the  *)
(* tables say of the rest add up to the same from its first entry to its   *)
(* last, and two runs of one file can be compared.                         *)
(***************************************************************************)
EXTENDS ImportApplyProofs, FiniteSetTheorems

Stored == [vendors |-> vendors, projects |-> projects, hosts |-> hosts, assets |-> assets]

(* No name and no address comes twice in a file.                           *)
Apart(b) ==
  /\ \A k, l \in DOMAIN b.vendors : b.vendors[k] = b.vendors[l] => k = l
  /\ \A k, l \in DOMAIN b.projects : b.projects[k].name = b.projects[l].name => k = l
  /\ \A k, l \in DOMAIN b.hosts : b.hosts[k].name = b.hosts[l].name => k = l
  /\ \A k, l \in DOMAIN b.assets : b.assets[k].ip = b.assets[l].ip => k = l

(* The entries of a section that a run has dealt with; those it has counted*)
(* are one more while the entry it is at is being written.                 *)
During(s) == IF s = "assets" THEN AtAsset \union Scanning ELSE {s}
Beyond(s) == CASE s = "vendors"  -> {"projects", "hosts"} \union AtAsset
               [] s = "projects" -> {"hosts"} \union AtAsset
               [] s = "hosts"    -> AtAsset
               [] s = "assets"   -> {}
Done(q, s, k) == q.phase \in Beyond(s) \/ (q.phase \in During(s) /\ k < q.at)

(* What the applier would make of an entry, were it at it now: the verdict *)
(* of _upsert_vendors, _upsert_projects, _upsert_hosts, _upsert_ip_assets  *)
(* and import_nmap_xml over the tables T.                                  *)
VendorSays(n, T) == IF n \in T.vendors THEN "skip" ELSE "create"
ProjectSays(e, T) ==
  IF Called(T.projects, e.name) = {} THEN "create"
  ELSE IF \E i \in Called(T.projects, e.name) : e.color \in {Nil, T.projects[i].color}
       THEN "skip" ELSE "update"
HostHas(e, row) == e.notes \in {Nil, row.notes} /\ e.vendor \in {Nil, row.vendor}
HostSays(e, T) ==
  IF Called(T.hosts, e.name) = {} THEN "create"
  ELSE IF \E i \in Called(T.hosts, e.name) : HostHas(e, T.hosts[i]) THEN "skip" ELSE "update"
AssetFits(a, row, T) ==
  /\ a.keepType \/ row.type = a.type
  /\ a.project # Nil => row.project \in Called(T.projects, a.project)
  /\ a.host # Nil => row.host \in Called(T.hosts, a.host)
  /\ WritesNotes(a, row) => row.notes = a.notes
  /\ a.archived \in {Nil, row.archived}
AssetSays(a, T) ==
  IF T.assets[a.ip] = Nil THEN "create"
  ELSE IF AssetFits(a, T.assets[a.ip], T) /\ TagsKept(a, T.assets[a.ip].tags)
       THEN "skip" ELSE "update"
AddressSays(a, T) == IF T.assets[a.ip] = Nil THEN "create" ELSE "skip"

(* The row of an asset is as its entry wants it, but for the order in which*)
(* the entry lists its tags.                                               *)
TagsHeld(a, tags) ==
  a.tags # Nil => IF a.merge THEN TagsIn(a.tags) \subseteq tags ELSE TagsIn(a.tags) = tags
AssetSettled(a, row, T) == row # Nil /\ AssetFits(a, row, T) /\ TagsHeld(a, row.tags)

Settled(b, T) ==
  /\ \A k \in DOMAIN b.vendors  : b.vendors[k] \in T.vendors
  /\ \A k \in DOMAIN b.projects : ProjectSays(b.projects[k], T) = "skip"
  /\ \A k \in DOMAIN b.hosts    : HostSays(b.hosts[k], T) = "skip"
  /\ \A k \in DOMAIN b.assets   : AssetSettled(b.assets[k], T.assets[b.assets[k].ip], T)

(* What a section read when it was opened is still so for the entries it   *)
(* has yet to deal with.                                                   *)
SameRows(known, table, n) ==
  /\ Called(known, n) = Called(table, n)
  /\ \A i \in Called(table, n) : known[i] = table[i]

Fresh(q, T) ==
  /\ q.phase = "vendors" => \A k \in DOMAIN q.bundle.vendors :
       k >= q.at => (q.bundle.vendors[k] \in q.known <=> q.bundle.vendors[k] \in T.vendors)
  /\ q.phase = "projects" => \A k \in DOMAIN q.bundle.projects :
       k >= q.at => SameRows(q.known, T.projects, q.bundle.projects[k].name)
  /\ q.phase = "hosts" => \A k \in DOMAIN q.bundle.hosts :
       k >= q.at => SameRows(q.known, T.hosts, q.bundle.hosts[k].name)

(* The ids a run has learnt are those of the rows, and a dry run's are     *)
(* made up only for names no row has; every name its file lists has one    *)
(* once its entry was dealt with.                                          *)
IdsRight(ids, table, dry) ==
  \A n \in Names : \/ ids[n] \in Called(table, n)
                   \/ Called(table, n) = {} /\ ids[n] \in IF dry THEN {Nil, Temp} ELSE {Nil}

Learnt(q, T) ==
  /\ q.phase \in {"projects", "hosts"} \union AtAsset =>
       /\ IdsRight(q.projectIds, T.projects, q.dry)
       /\ \A k \in DOMAIN q.bundle.projects :
            Done(q, "projects", k) => q.projectIds[q.bundle.projects[k].name] # Nil
  /\ q.phase \in {"hosts"} \union AtAsset =>
       /\ IdsRight(q.hostIds, T.hosts, q.dry)
       /\ \A k \in DOMAIN q.bundle.hosts :
            Done(q, "hosts", k) => q.hostIds[q.bundle.hosts[k].name] # Nil

(* Every name an entry refers to is in the tables or in the file.          *)
Resolved(q, T) == q.upload.kind # "nmap" =>
  /\ \A k \in DOMAIN q.bundle.hosts :
       q.bundle.hosts[k].vendor \in T.vendors \union ToSet(q.bundle.vendors) \union {Nil}
  /\ \A k \in DOMAIN q.bundle.assets : LET a == q.bundle.assets[k] IN
       /\ a.project # Nil =>
            Called(T.projects, a.project) # {} \/ a.project \in NamesOf(q.bundle.projects)
       /\ a.host # Nil => Called(T.hosts, a.host) # {} \/ a.host \in NamesOf(q.bundle.hosts)

(* What an apply run has dealt with is in the tables.                      *)
Applied(q, T) == ~q.dry /\ q.upload.kind # "nmap" =>
  /\ \A k \in DOMAIN q.bundle.vendors :
       Done(q, "vendors", k) => q.bundle.vendors[k] \in T.vendors
  /\ \A k \in DOMAIN q.bundle.projects :
       Done(q, "projects", k) => ProjectSays(q.bundle.projects[k], T) = "skip"
  /\ \A k \in DOMAIN q.bundle.hosts :
       Done(q, "hosts", k) => HostSays(q.bundle.hosts[k], T) = "skip"
  /\ \A k \in DOMAIN q.bundle.assets :
       Done(q, "assets", k) =>
         AssetSettled(q.bundle.assets[k], T.assets[q.bundle.assets[k].ip], T)

(* The asset a run is at, between its steps.                               *)
Deciding(q, T) ==
  LET a == AssetOf(q) row == T.assets[AssetOf(q).ip] IN
  /\ q.phase = "tags" => row = q.row
  /\ q.phase \in {"create", "discover"} => row = Nil
  /\ q.phase = "update" => q.row \in Asset /\ row = q.row /\ q.goal = Goal(q, q.row.tags)
  /\ q.phase = "archive" =>
       row # Nil /\ AssetSettled(a, [row EXCEPT !.archived = a.archived], T)

Progress(q, T) ==
  Fresh(q, T) /\ Learnt(q, T) /\ Resolved(q, T) /\ Applied(q, T) /\ Deciding(q, T)

Going(q) == q.phase \in {"valid"} \union Applying \union Scanning

Watched(q, T) == RunOK(q) /\ Going(q) /\ Apart(q.bundle) /\ Progress(q, T)

World(T) == /\ T \in Tables /\ Linked(T.vendors, T.projects, T.hosts, T.assets)
            /\ Unique(T.projects) /\ Unique(T.hosts)

-----------------------------------------------------------------------------
(* What a step makes of a run.                                             *)

Carried(q, r) ==
  r.upload = q.upload /\ r.dry = q.dry /\ r.bundle = q.bundle /\ r.base = q.base

EntryOf(q, r, c) ==
  Carried(q, r) /\ r.phase = q.phase /\ r.at = q.at + 1 /\ r.known = q.known /\ r.count = c

(* The same, with the ids the run knows then.                              *)
EntryWith(q, r, c, P, H) == EntryOf(q, r, c) /\ r.projectIds = P /\ r.hostIds = H

LEMMA CountedEntry ==
  ASSUME NEW q \in Run, NEW c, NEW r,
         \/ r = [[q EXCEPT !.count = c] EXCEPT !.at = @ + 1]
         \/ r = [Wrote([q EXCEPT !.count = c]) EXCEPT !.at = @ + 1]
  PROVE  EntryWith(q, r, c, q.projectIds, q.hostIds)
  <1>1. CASE r = [[q EXCEPT !.count = c] EXCEPT !.at = @ + 1]
    BY <1>1, SMT DEF Run, EntryWith, EntryOf, Carried
  <1>2. CASE r = [Wrote([q EXCEPT !.count = c]) EXCEPT !.at = @ + 1]
    BY <1>2, SMT DEF Run, EntryWith, EntryOf, Carried, Wrote
  <1> QED BY <1>1, <1>2

LEMMA ProjectNamed ==
  ASSUME NEW q \in Run, NEW c, NEW n, NEW i, NEW r,
         \/ r = [[[q EXCEPT !.count = c] EXCEPT !.projectIds[n] = i] EXCEPT !.at = @ + 1]
         \/ r = [Wrote([[q EXCEPT !.count = c] EXCEPT !.projectIds[n] = i]) EXCEPT !.at = @ + 1]
  PROVE  EntryWith(q, r, c, [q.projectIds EXCEPT ![n] = i], q.hostIds)
  <1>1. CASE r = [[[q EXCEPT !.count = c] EXCEPT !.projectIds[n] = i] EXCEPT !.at = @ + 1]
    BY <1>1, SMT DEF Run, EntryWith, EntryOf, Carried
  <1>2. CASE r = [Wrote([[q EXCEPT !.count = c] EXCEPT !.projectIds[n] = i])
                    EXCEPT !.at = @ + 1]
    BY <1>2, SMT DEF Run, EntryWith, EntryOf, Carried, Wrote
  <1> QED BY <1>1, <1>2

LEMMA HostNamed ==
  ASSUME NEW q \in Run, NEW c, NEW n, NEW i, NEW r,
         \/ r = [[[q EXCEPT !.count = c] EXCEPT !.hostIds[n] = i] EXCEPT !.at = @ + 1]
         \/ r = [Wrote([[q EXCEPT !.count = c] EXCEPT !.hostIds[n] = i]) EXCEPT !.at = @ + 1]
  PROVE  EntryWith(q, r, c, q.projectIds, [q.hostIds EXCEPT ![n] = i])
  <1>1. CASE r = [[[q EXCEPT !.count = c] EXCEPT !.hostIds[n] = i] EXCEPT !.at = @ + 1]
    BY <1>1, SMT DEF Run, EntryWith, EntryOf, Carried
  <1>2. CASE r = [Wrote([[q EXCEPT !.count = c] EXCEPT !.hostIds[n] = i])
                    EXCEPT !.at = @ + 1]
    BY <1>2, SMT DEF Run, EntryWith, EntryOf, Carried, Wrote
  <1> QED BY <1>1, <1>2

LEMMA MovesOn ==
  ASSUME ImportInv, NEW j \in Runs, NEW x, Advance(j, x)
  PROVE  run'[j] = [x EXCEPT !.at = @ + 1]
  BY DEF ImportInv, Advance, Continue

LEMMA AtEntryIs ==
  ASSUME NEW q, RunOK(q), NEW s \in {"vendors", "projects", "hosts"}, q.phase = s,
         q.at <= Len(q.bundle[s])
  PROVE  q.at \in DOMAIN q.bundle[s] /\ Entry(q) = q.bundle[s][q.at]
  <1>1. q \in Run /\ q.bundle \in Bundle /\ q.at \in Nat \ {0}
    BY DEF RunOK, Placed, Importing, Applying, Run
  <1>2. q.at \in DOMAIN q.bundle[s]
    <2>1. CASE s = "vendors"   BY <1>1, <2>1, Lengths
    <2>2. CASE s = "projects"  BY <1>1, <2>2, Lengths
    <2>3. CASE s = "hosts"     BY <1>1, <2>3, Lengths
    <2> QED BY <2>1, <2>2, <2>3
  <1> QED BY <1>2 DEF Entry

-----------------------------------------------------------------------------
(* Vendors.                                                                *)

VendorEffect(q, r, T, U) ==
  LET n == q.bundle.vendors[q.at] IN
  /\ q.phase = "vendors" /\ q.at \in DOMAIN q.bundle.vendors
  /\ EntryOf(q, r, Counted(q, "vendors", VendorSays(n, T)))
  /\ U.vendors = IF q.dry THEN T.vendors ELSE T.vendors \union {n}
  /\ U.projects = T.projects /\ U.hosts = T.hosts /\ U.assets = T.assets

LEMMA VendorActs ==
  ASSUME ImportInv, NEW j \in Runs, VendorEntry(j), Watched(run[j], Stored)
  PROVE  VendorEffect(run[j], run'[j], Stored, Stored')
  <1> DEFINE q == run[j]
             n == q.bundle.vendors[q.at]
             c(how) == Counted(q, "vendors", how)
  <1>1. q \in Run /\ RunOK(q) /\ q.phase = "vendors" /\ q.at <= Len(q.bundle["vendors"])
    BY DEF ImportInv, VendorEntry, AtEntry
  <1>2. q.at \in DOMAIN q.bundle.vendors /\ Entry(q) = n /\ q.at \in Nat
    BY <1>1, AtEntryIs DEF Run
  <1>3. n \in q.known <=> n \in vendors
    BY <1>1, <1>2 DEF Watched, Progress, Fresh, Stored
  <1>4. \/ /\ n \in vendors /\ UNCHANGED tables
           /\ Advance(j, [q EXCEPT !.count = c("skip")])
        \/ /\ n \notin vendors /\ q.dry /\ UNCHANGED tables
           /\ Advance(j, [q EXCEPT !.count = c("create")])
        \/ /\ n \notin vendors /\ ~q.dry /\ vendors' = vendors \union {n}
           /\ UNCHANGED <<projects, hosts, assets>>
           /\ Advance(j, Wrote([q EXCEPT !.count = c("create")]))
    BY <1>2, <1>3 DEF VendorEntry, Reads
  <1>5. ASSUME NEW how, \/ Advance(j, [q EXCEPT !.count = c(how)])
                        \/ Advance(j, Wrote([q EXCEPT !.count = c(how)]))
        PROVE  EntryOf(q, run'[j], c(how))
    <2> HIDE DEF c, q
    <2>1. \/ run'[j] = [[q EXCEPT !.count = c(how)] EXCEPT !.at = @ + 1]
          \/ run'[j] = [Wrote([q EXCEPT !.count = c(how)]) EXCEPT !.at = @ + 1]
      BY <1>5, MovesOn
    <2> QED BY <1>1, <2>1, CountedEntry DEF EntryWith
  <1> HIDE DEF c
  <1>6. EntryOf(q, run'[j], c(VendorSays(n, Stored)))
    BY <1>4, <1>5 DEF VendorSays, Stored
  <1> QED BY <1>1, <1>2, <1>4, <1>6 DEF VendorEffect, c, Stored, tables

LEMMA VendorGoesOn ==
  ASSUME NEW q, NEW r, NEW T, NEW U, World(T), Watched(q, T), VendorEffect(q, r, T, U)
  PROVE  Progress(r, U)
  <1> DEFINE b == q.bundle
  <1>1. q \in Run /\ q.at \in Nat /\ b \in Bundle /\ Progress(q, T) /\ Apart(b)
        /\ q.upload.kind # "nmap"
    BY DEF Watched, RunOK, Run, VendorEffect, Placed, Importing, Applying
  <1>2. DOMAIN b.vendors \subseteq Nat
    BY <1>1, Lengths
  <1>3. r.phase = "vendors" /\ r.at = q.at + 1 /\ r.bundle = b /\ r.known = q.known
        /\ r.dry = q.dry /\ r.upload = q.upload /\ q.phase = "vendors"
    BY DEF VendorEffect, EntryOf, Carried
  <1>4. Fresh(r, U)
    <2> SUFFICES ASSUME NEW k \in DOMAIN b.vendors, k >= q.at + 1
                 PROVE  b.vendors[k] \in q.known <=> b.vendors[k] \in U.vendors
      BY <1>3 DEF Fresh
    <2>1. b.vendors[k] # b.vendors[q.at]
      BY <1>1, <1>2 DEF Apart, VendorEffect
    <2>2. b.vendors[k] \in q.known <=> b.vendors[k] \in T.vendors
      BY <1>1, <1>2, <1>3 DEF Progress, Fresh
    <2> QED BY <2>1, <2>2 DEF VendorEffect
  <1>5. Learnt(r, U)
    BY <1>3 DEF Learnt, AtAsset
  <1>6. T.vendors \subseteq U.vendors /\ U.projects = T.projects /\ U.hosts = T.hosts
    BY DEF VendorEffect
  <1>7. Resolved(r, U)
    BY <1>1, <1>3, <1>6 DEF Progress, Resolved
  <1>8. Applied(r, U)
    <2>1. \A s \in {"projects", "hosts", "assets"} : \A k : ~Done(r, s, k)
      BY <1>3 DEF Done, Beyond, During, AtAsset, Scanning
    <2>2. ASSUME ~q.dry, NEW k \in DOMAIN b.vendors, Done(r, "vendors", k)
          PROVE  b.vendors[k] \in U.vendors
      <3>1. k < q.at + 1
        BY <1>3, <2>2 DEF Done, Beyond, During, AtAsset
      <3>2. CASE k = q.at
        BY <2>2, <3>2 DEF VendorEffect
      <3>3. CASE k < q.at
        BY <1>1, <1>3, <1>6, <2>2, <3>3 DEF Progress, Applied, Done, During
      <3> QED BY <1>1, <1>2, <3>1, <3>2, <3>3
    <2> QED BY <1>3, <2>1, <2>2 DEF Applied
  <1>9. Deciding(r, U)
    BY <1>3 DEF Deciding
  <1> QED BY <1>4, <1>5, <1>7, <1>8, <1>9 DEF Progress

-----------------------------------------------------------------------------
(* A row of a catalogue is written: a new one, or another under its name.  *)

Puts(table, new, i, row) ==
  /\ new = [table EXCEPT ![i] = row]
  /\ \/ Called(table, row.name) = {} /\ table[i] = Nil
     \/ i \in Called(table, row.name)

LEMMA RowPut ==
  ASSUME NEW S, NEW table \in [Ids -> S \union {Nil}], Nil \notin S, Unique(table),
         NEW i \in Ids, NEW row \in S, NEW new, Puts(table, new, i, row)
  PROVE  /\ new[i] = row /\ \A k \in Ids \ {i} : new[k] = table[k]
         /\ Called(new, row.name) = {i}
         /\ \A m : m # row.name => Called(new, m) = Called(table, m) /\ i \notin Called(table, m)
         /\ Unique(new)
  <1>1. new[i] = row /\ (\A k \in Ids \ {i} : new[k] = table[k]) /\ new[i] # Nil
    BY DEF Puts
  <1>2. \A k \in Called(table, row.name) : k = i
    BY DEF Puts, Unique, Called
  <1>3. Live(new) = Live(table) \union {i}
    BY <1>1 DEF Live
  <1>4. \A m : \A k \in Called(table, m) : k \in Live(table) /\ table[k].name = m
    BY DEF Called
  <1>5. \A m : m # row.name => i \notin Called(table, m)
    BY <1>4 DEF Puts, Live
  <1>6. Called(new, row.name) = {i}
    BY <1>1, <1>2, <1>3 DEF Called, Live
  <1>7. ASSUME NEW m, m # row.name PROVE Called(new, m) = Called(table, m)
    BY <1>1, <1>3, <1>5, <1>7 DEF Called, Live
  <1>8. Unique(new)
    <2> SUFFICES ASSUME NEW k \in Live(new), NEW l \in Live(new), new[k].name = new[l].name
                 PROVE  k = l
      BY DEF Unique
    <2>1. k \in Called(new, new[k].name) /\ l \in Called(new, new[k].name)
      BY DEF Called
    <2>2. CASE new[k].name = row.name
      BY <1>6, <2>1, <2>2
    <2>3. CASE new[k].name # row.name
      <3>1. k \in Called(table, new[k].name) /\ l \in Called(table, new[k].name)
        BY <1>7, <2>1, <2>3
      <3> QED BY <3>1 DEF Called, Unique
    <2> QED BY <2>2, <2>3
  <1> QED BY <1>1, <1>5, <1>6, <1>7, <1>8

(* The ids a run has learnt stay right when its own entry is written.      *)
LEMMA IdsPut ==
  ASSUME NEW S, NEW table \in [Ids -> S \union {Nil}], Nil \notin S, Unique(table),
         NEW i \in Ids, NEW row \in S, NEW new, Puts(table, new, i, row), row.name \in Names,
         NEW ids \in RunIds, NEW dry, IdsRight(ids, table, dry)
  PROVE  /\ IdsRight([ids EXCEPT ![row.name] = i], new, dry)
         /\ i \in Called(table, row.name) => IdsRight(ids, new, dry) /\ ids[row.name] = i
  <1> DEFINE n == row.name
             ids2 == [ids EXCEPT ![n] = i]
  <1>1. /\ Called(new, n) = {i}
        /\ \A m : m # n => Called(new, m) = Called(table, m)
    BY RowPut
  <1>2. ids2[n] = i /\ \A m \in Names \ {n} : ids2[m] = ids[m]
    BY DEF RunIds
  <1>3. IdsRight(ids2, new, dry)
    <2> HIDE DEF ids2
    <2> QED BY <1>1, <1>2 DEF IdsRight
  <1>4. ASSUME i \in Called(table, n) PROVE IdsRight(ids, new, dry) /\ ids[n] = i
    <2>1. Called(table, n) = {i}
      BY <1>4 DEF Unique, Called
    <2>2. ids[n] = i
      BY <2>1 DEF IdsRight
    <2> QED BY <1>1, <2>1, <2>2 DEF IdsRight
  <1> QED BY <1>3, <1>4

LEMMA IdsMadeUp ==
  ASSUME NEW table, NEW ids \in RunIds, NEW n \in Names, IdsRight(ids, table, TRUE),
         Called(table, n) = {}
  PROVE  IdsRight([ids EXCEPT ![n] = Temp], table, TRUE)
  <1> DEFINE ids2 == [ids EXCEPT ![n] = Temp]
  <1>1. ids2[n] = Temp /\ \A m \in Names \ {n} : ids2[m] = ids[m]
    BY DEF RunIds
  <1> HIDE DEF ids2
  <1>2. IdsRight(ids2, table, TRUE)
    BY <1>1 DEF IdsRight
  <1> QED BY <1>2 DEF ids2

LEMMA TempIsNew == Nil # Temp /\ Nil \notin Ids /\ Temp \notin Ids
  BY ImportAssumption DEF Temp, Ids

(* An entry of a catalogue is dealt with: its row, if it is to be written, *)
(* is one of the good ones.                                                *)
Moves(good, n, dry, ids, old, ids2, new) ==
  \/ /\ new = old /\ ids2 = ids /\ Called(old, n) # {}
     /\ dry \/ \E i \in Called(old, n) : old[i] \in good
  \/ /\ dry /\ new = old /\ Called(old, n) = {}
     /\ ids2 = [ids EXCEPT ![n] = Temp]
  \/ /\ ~dry
     /\ \E i \in Ids, row \in good :
          /\ Puts(old, new, i, row) /\ row.name = n
          /\ \/ ids2 = [ids EXCEPT ![n] = i]
             \/ ids2 = ids /\ i \in Called(old, n)

Followed(good, n, dry, ids, old, ids2, new) ==
  /\ \A m : m # n => SameRows(old, new, m)
  /\ \A m : Called(old, m) # {} => Called(new, m) # {}
  /\ ~dry => Called(new, n) # {} /\ \A i \in Called(new, n) : new[i] \in good
  /\ IdsRight(ids2, new, dry) /\ ids2[n] # Nil
  /\ \A m \in Names \ {n} : ids2[m] = ids[m]

LEMMA RowMoves ==
  ASSUME NEW S, NEW old \in [Ids -> S \union {Nil}], Nil \notin S, Unique(old),
         NEW n \in Names, NEW good \in SUBSET S, NEW dry \in BOOLEAN, NEW ids \in RunIds,
         IdsRight(ids, old, dry), NEW new, NEW ids2, Moves(good, n, dry, ids, old, ids2, new)
  PROVE  Followed(good, n, dry, ids, old, ids2, new)
  <1>1. \A i, k \in Called(old, n) : i = k
    BY DEF Unique, Called
  <1>2. CASE /\ new = old /\ ids2 = ids /\ Called(old, n) # {}
             /\ dry \/ \E i \in Called(old, n) : old[i] \in good
    <2>1. ids[n] # Nil
      BY <1>2, TempIsNew DEF IdsRight, Called, Live
    <2>2. ~dry => \A i \in Called(old, n) : old[i] \in good
      BY <1>1, <1>2
    <2> QED BY <1>2, <2>1, <2>2 DEF Followed, SameRows
  <1>3. CASE /\ dry /\ new = old /\ Called(old, n) = {}
             /\ ids2 = [ids EXCEPT ![n] = Temp]
    <2>1. dry = TRUE
      BY <1>3
    <2>2. IdsRight(ids2, new, dry)
      BY <1>3, <2>1, IdsMadeUp
    <2>3. ids2[n] = Temp /\ \A m \in Names \ {n} : ids2[m] = ids[m]
      BY <1>3 DEF RunIds
    <2> QED BY <1>3, <2>2, <2>3, TempIsNew DEF Followed, SameRows
  <1>4. ASSUME ~dry, NEW i \in Ids, NEW row \in good, Puts(old, new, i, row), row.name = n,
               \/ ids2 = [ids EXCEPT ![n] = i]
               \/ ids2 = ids /\ i \in Called(old, n)
        PROVE  Followed(good, n, dry, ids, old, ids2, new)
    <2>1. /\ new[i] = row /\ \A k \in Ids \ {i} : new[k] = old[k]
          /\ Called(new, n) = {i}
          /\ \A m : m # n => Called(new, m) = Called(old, m) /\ i \notin Called(old, m)
      BY <1>4, RowPut
    <2>2. IdsRight(ids2, new, dry) /\ ids2[n] = i
      <3>1. row \in S /\ row.name \in Names
        BY <1>4
      <3>2. /\ IdsRight([ids EXCEPT ![row.name] = i], new, dry)
            /\ i \in Called(old, row.name) => IdsRight(ids, new, dry) /\ ids[row.name] = i
        BY <1>4, <3>1, IdsPut
      <3>3. [ids EXCEPT ![n] = i][n] = i
        BY DEF RunIds
      <3> QED BY <1>4, <3>2, <3>3
    <2>3. ids2[n] = i
      BY <2>2
    <2>4. \A m \in Names \ {n} : ids2[m] = ids[m]
      BY <1>4 DEF RunIds
    <2>5. \A m : \A k \in Called(old, m) : k \in Ids
      BY DEF Called, Live
    <2>6. \A m : m # n => SameRows(old, new, m)
      BY <2>1, <2>5 DEF SameRows
    <2>7. \A m : Called(old, m) # {} => Called(new, m) # {}
      BY <2>1
    <2>8. ids2[n] # Nil
      BY <2>3, TempIsNew
    <2> QED BY <1>4, <2>1, <2>2, <2>4, <2>6, <2>7, <2>8 DEF Followed
  <1> QED BY <1>2, <1>3, <1>4 DEF Moves

-----------------------------------------------------------------------------
(* Projects.                                                               *)

ProjectsAs(e) == {p \in Project : e.color \in {Nil, p.color}}

ProjectEffect(q, r, T, U) ==
  LET e == q.bundle.projects[q.at] IN
  /\ q.phase = "projects" /\ q.at \in DOMAIN q.bundle.projects
  /\ EntryWith(q, r, Counted(q, "projects", ProjectSays(e, T)), r.projectIds, q.hostIds)
  /\ U.vendors = T.vendors /\ U.hosts = T.hosts /\ U.assets = T.assets
  /\ Moves(ProjectsAs(e), e.name, q.dry, q.projectIds, T.projects, r.projectIds, U.projects)

LEMMA CreateProjectActs ==
  ASSUME ImportInv, NEW j \in Runs, CreateProject(j), Watched(run[j], Stored)
  PROVE  ProjectEffect(run[j], run'[j], Stored, Stored')
  <1> DEFINE q == run[j]
             e == q.bundle.projects[q.at]
             c == Counted(q, "projects", "create")
             counted == [q EXCEPT !.count = c]
  <1>1. q \in Run /\ RunOK(q) /\ q.phase = "projects" /\ q.at <= Len(q.bundle["projects"])
        /\ projects \in [Ids -> Project \union {Nil}]
    BY DEF ImportInv, TablesOK, CreateProject, AtEntry
  <1>2. q.at \in DOMAIN q.bundle.projects /\ Entry(q) = e /\ q.at \in Nat
        /\ e.name \in Names /\ e.color \in Colors \union {Nil}
    BY <1>1, AtEntryIs, EntryChecked DEF Run
  <1>3. Called(projects, e.name) = {} /\ ProjectSays(e, Stored) = "create"
    <2>1. Called(q.known, e.name) = {}
      BY <1>2 DEF CreateProject
    <2>2. SameRows(q.known, projects, e.name)
      BY <1>1, <1>2 DEF Watched, Progress, Fresh, Stored
    <2> QED BY <2>1, <2>2 DEF SameRows, ProjectSays, Stored
  <1>4. CASE q.dry /\ Advance(j, [counted EXCEPT !.projectIds[e.name] = Temp]) /\ Reads
    <2>1. run'[j] = [[counted EXCEPT !.projectIds[e.name] = Temp] EXCEPT !.at = @ + 1]
      BY <1>4, MovesOn
    <2> HIDE DEF c
    <2>2. EntryWith(q, run'[j], c, [q.projectIds EXCEPT ![e.name] = Temp], q.hostIds)
      BY <1>1, <2>1, ProjectNamed
    <2> QED BY <1>1, <1>2, <1>3, <1>4, <2>2 DEF Moves, ProjectsAs, EntryWith, ProjectEffect, Stored, Reads, tables, c
  <1>5. CASE /\ ~q.dry
             /\ \E i \in Ids :
                  /\ NextId(projects, i)
                  /\ projects' = [projects EXCEPT ![i] =
                       [name |-> e.name, color |-> IF e.color = Nil THEN DefaultColor ELSE e.color]]
                  /\ Advance(j, Wrote([counted EXCEPT !.projectIds[e.name] = i]))
             /\ UNCHANGED <<vendors, hosts, assets>>
    <2> DEFINE row == [name |-> e.name, color |-> IF e.color = Nil THEN DefaultColor ELSE e.color]
    <2>1. PICK i \in Ids : /\ NextId(projects, i)
                           /\ projects' = [projects EXCEPT ![i] = row]
                           /\ Advance(j, Wrote([counted EXCEPT !.projectIds[e.name] = i]))
      BY <1>5
    <2>2. row \in Project /\ row.name = e.name /\ e.color \in {Nil, row.color}
      BY <1>2, ImportAssumption DEF Project
    <2>3. projects[i] = Nil
      BY <2>1 DEF NextId, Live, Ids
    <2>4. run'[j] = [Wrote([counted EXCEPT !.projectIds[e.name] = i]) EXCEPT !.at = @ + 1]
      BY <2>1, MovesOn
    <2> HIDE DEF row, c
    <2>5. Puts(projects, projects', i, row)
      BY <1>3, <2>1, <2>2, <2>3 DEF Puts
    <2>6. EntryWith(q, run'[j], c, [q.projectIds EXCEPT ![e.name] = i], q.hostIds)
      BY <1>1, <2>4, ProjectNamed
    <2> QED BY <1>1, <1>2, <1>3, <1>5, <2>2, <2>5, <2>6 DEF Moves, ProjectsAs, EntryWith, ProjectEffect, Stored, c
  <1> QED BY <1>2, <1>3, <1>4, <1>5 DEF CreateProject

LEMMA UpdateProjectActs ==
  ASSUME ImportInv, NEW j \in Runs, UpdateProject(j), Watched(run[j], Stored), World(Stored)
  PROVE  ProjectEffect(run[j], run'[j], Stored, Stored')
  <1> DEFINE q == run[j]
             e == q.bundle.projects[q.at]
             c(how) == Counted(q, "projects", how)
  <1>1. q \in Run /\ RunOK(q) /\ q.phase = "projects" /\ q.at <= Len(q.bundle["projects"])
        /\ projects \in [Ids -> Project \union {Nil}]
    BY DEF ImportInv, TablesOK, UpdateProject, AtEntry
  <1>2. q.at \in DOMAIN q.bundle.projects /\ Entry(q) = e /\ q.at \in Nat
        /\ e.name \in Names /\ e.color \in Colors \union {Nil}
    BY <1>1, AtEntryIs, EntryChecked DEF Run
  <1>3. SameRows(q.known, projects, e.name)
    BY <1>1, <1>2 DEF Watched, Progress, Fresh, Stored
  <1>4. PICK i \in Called(q.known, e.name) :
          IF e.color \in {Nil, q.known[i].color}
          THEN Advance(j, [q EXCEPT !.count = c("skip")]) /\ Reads
          ELSE \/ (q.dry \/ projects[i] = Nil)
                    /\ Advance(j, [q EXCEPT !.count = c("update")]) /\ Reads
               \/ ~q.dry /\ projects[i] # Nil /\ Called(projects, e.name) \ {i} # {} /\ Raise(j)
               \/ /\ ~q.dry /\ projects[i] # Nil /\ Called(projects, e.name) \ {i} = {}
                  /\ projects' = [projects EXCEPT ![i] = [name |-> e.name, color |-> e.color]]
                  /\ Advance(j, Wrote([q EXCEPT !.count = c("update")]))
                  /\ Writes /\ UNCHANGED <<vendors, hosts, assets>>
    BY <1>2 DEF UpdateProject
  <1>5. i \in Called(projects, e.name) /\ q.known[i] = projects[i]
        /\ projects[i] # Nil /\ i \in Ids /\ Called(projects, e.name) = {i}
    <2>1. i \in Called(projects, e.name) /\ q.known[i] = projects[i]
      BY <1>3, <1>4 DEF SameRows
    <2>2. Unique(projects)
      BY DEF World, Stored
    <2> QED BY <2>1, <2>2 DEF Called, Live, Unique
  <1>6. ProjectSays(e, Stored) = IF e.color \in {Nil, projects[i].color} THEN "skip" ELSE "update"
    BY <1>5 DEF ProjectSays, Stored
  <1>7. ASSUME NEW how, \/ Advance(j, [q EXCEPT !.count = c(how)])
                        \/ Advance(j, Wrote([q EXCEPT !.count = c(how)]))
        PROVE  EntryWith(q, run'[j], c(how), q.projectIds, q.hostIds)
    <2> HIDE DEF c, q
    <2>1. \/ run'[j] = [[q EXCEPT !.count = c(how)] EXCEPT !.at = @ + 1]
          \/ run'[j] = [Wrote([q EXCEPT !.count = c(how)]) EXCEPT !.at = @ + 1]
      BY <1>7, MovesOn
    <2> QED BY <1>1, <2>1, CountedEntry
  <1> HIDE DEF c
  <1>8. CASE e.color \in {Nil, projects[i].color}
    <2>1. EntryWith(q, run'[j], c("skip"), q.projectIds, q.hostIds) /\ Reads
      BY <1>4, <1>5, <1>7, <1>8
    <2>2. projects[i] \in ProjectsAs(e)
      BY <1>1, <1>5, <1>8 DEF ProjectsAs
    <2> QED BY <1>1, <1>2, <1>5, <1>6, <1>8, <2>1, <2>2 DEF Moves, ProjectsAs, EntryWith, ProjectEffect, Stored, Reads, tables, c
  <1>9. CASE e.color \notin {Nil, projects[i].color}
    <2>1. CASE q.dry
      <3>1. EntryWith(q, run'[j], c("update"), q.projectIds, q.hostIds) /\ Reads
        BY <1>4, <1>5, <1>7, <1>9, <2>1
      <3> QED BY <1>1, <1>2, <1>5, <1>6, <1>9, <2>1, <3>1 DEF Moves, ProjectsAs, EntryWith, ProjectEffect, Stored, Reads, tables, c
    <2>2. CASE ~q.dry
      <3> DEFINE row == [name |-> e.name, color |-> e.color]
      <3>1. /\ projects' = [projects EXCEPT ![i] = row]
            /\ Advance(j, Wrote([q EXCEPT !.count = c("update")]))
            /\ UNCHANGED <<vendors, hosts, assets>>
        BY <1>4, <1>5, <1>9, <2>2
      <3>2. row \in Project /\ row.name = e.name /\ e.color = row.color
        BY <1>2, <1>9 DEF Project
      <3> HIDE DEF row
      <3>3. Puts(projects, projects', i, row)
        BY <1>5, <3>1, <3>2 DEF Puts
      <3>4. EntryWith(q, run'[j], c("update"), q.projectIds, q.hostIds)
        BY <1>7, <3>1
      <3> QED BY <1>1, <1>2, <1>5, <1>6, <1>9, <2>2, <3>1, <3>2, <3>3, <3>4
              DEF Moves, ProjectsAs, EntryWith, ProjectEffect, Stored, c
    <2> QED BY <2>1, <2>2
  <1> QED BY <1>8, <1>9

(* A run that has dealt with the entry of a catalogue has its name right,  *)
(* and what it knows of the names to come.                                 *)
LEMMA KnownStays ==
  ASSUME NEW known, NEW old, NEW new, NEW n, SameRows(known, old, n), SameRows(old, new, n)
  PROVE  SameRows(known, new, n)
  BY DEF SameRows

LEMMA ProjectSkips ==
  ASSUME NEW e, NEW T, Called(T.projects, e.name) # {},
         \A i \in Called(T.projects, e.name) : T.projects[i] \in ProjectsAs(e)
  PROVE  ProjectSays(e, T) = "skip"
  BY DEF ProjectSays, ProjectsAs

LEMMA ProjectGoesOn ==
  ASSUME NEW q, NEW r, NEW T, NEW U, World(T), Watched(q, T), ProjectEffect(q, r, T, U)
  PROVE  Progress(r, U)
  <1> DEFINE b == q.bundle
             e == b.projects[q.at]
  <1>1. q \in Run /\ q.at \in Nat /\ b \in Bundle /\ Progress(q, T) /\ Apart(b)
        /\ q.upload.kind # "nmap" /\ Checked(b) /\ q.dry \in BOOLEAN /\ q.projectIds \in RunIds
    BY DEF Watched, RunOK, Run, ProjectEffect, Placed, Importing, Applying
  <1>2. DOMAIN b.vendors \subseteq Nat /\ DOMAIN b.projects \subseteq Nat
    BY <1>1, Lengths
  <1>3. /\ r.phase = "projects" /\ r.at = q.at + 1 /\ r.bundle = b /\ r.known = q.known
        /\ r.dry = q.dry /\ r.upload = q.upload /\ q.phase = "projects"
        /\ q.at \in DOMAIN b.projects /\ r.hostIds = q.hostIds
    BY DEF ProjectEffect, EntryWith, EntryOf, Carried
  <1>4. U.vendors = T.vendors /\ U.hosts = T.hosts /\ U.assets = T.assets
    BY DEF ProjectEffect
  <1>5. \A k \in DOMAIN b.projects : b.projects[k].name \in Names
    BY <1>1 DEF Checked
  <1>6. Followed(ProjectsAs(e), e.name, q.dry, q.projectIds, T.projects, r.projectIds, U.projects)
    <2>1. T.projects \in [Ids -> Project \union {Nil}] /\ Unique(T.projects)
      BY DEF World, Tables
    <2>2. IdsRight(q.projectIds, T.projects, q.dry)
      BY <1>1, <1>3 DEF Progress, Learnt
    <2>3. ProjectsAs(e) \in SUBSET Project
      BY DEF ProjectsAs
    <2>4. Moves(ProjectsAs(e), e.name, q.dry, q.projectIds, T.projects, r.projectIds, U.projects)
      BY DEF ProjectEffect
    <2> HIDE DEF e
    <2>5. e.name \in Names
      BY <1>3, <1>5 DEF e
    <2> QED BY <1>1, <2>1, <2>2, <2>3, <2>4, <2>5, RowsNotNil, RowMoves
  <1>7. \A k \in DOMAIN b.projects : k # q.at => b.projects[k].name # e.name
    BY <1>1, <1>3 DEF Apart
  <1>8. Fresh(r, U)
    <2> SUFFICES ASSUME NEW k \in DOMAIN b.projects, k >= q.at + 1
                 PROVE  SameRows(q.known, U.projects, b.projects[k].name)
      BY <1>3 DEF Fresh
    <2>1. SameRows(q.known, T.projects, b.projects[k].name)
      BY <1>1, <1>2, <1>3 DEF Progress, Fresh
    <2>2. b.projects[k].name # e.name
      BY <1>1, <1>2, <1>7
    <2>3. SameRows(T.projects, U.projects, b.projects[k].name)
      BY <1>6, <2>2 DEF Followed
    <2> QED BY <2>1, <2>3, KnownStays
  <1>9. \A s \in {"hosts", "assets"} : \A k : ~Done(r, s, k)
    BY <1>3 DEF Done, Beyond, During, AtAsset, Scanning
  <1>10. \A k \in DOMAIN b.projects : Done(r, "projects", k) => k = q.at \/ Done(q, "projects", k)
    BY <1>1, <1>2, <1>3 DEF Done, Beyond, During, AtAsset
  <1>11. Learnt(r, U)
    <2>1. IdsRight(r.projectIds, U.projects, r.dry)
      BY <1>3, <1>6 DEF Followed
    <2>2. ASSUME NEW k \in DOMAIN b.projects, Done(r, "projects", k)
          PROVE  r.projectIds[b.projects[k].name] # Nil
      <3>1. CASE k = q.at
        BY <3>1, <1>6 DEF Followed
      <3>2. CASE k # q.at
        <4>1. q.projectIds[b.projects[k].name] # Nil
          BY <1>1, <1>3, <1>10, <2>2, <3>2 DEF Progress, Learnt
        <4> QED BY <1>5, <1>6, <1>7, <3>2, <4>1 DEF Followed
      <3> QED BY <3>1, <3>2
    <2> QED BY <1>3, <2>1, <2>2 DEF Learnt, AtAsset
  <1>12. Resolved(r, U)
    <2>1. \A m : Called(T.projects, m) # {} => Called(U.projects, m) # {}
      BY <1>6 DEF Followed
    <2> QED BY <1>1, <1>3, <1>4, <2>1 DEF Progress, Resolved
  <1>13. Applied(r, U)
    <2>1. ASSUME ~q.dry, NEW k \in DOMAIN b.projects, Done(r, "projects", k)
          PROVE  ProjectSays(b.projects[k], U) = "skip"
      <3>1. CASE k = q.at
        <4>1. /\ Called(U.projects, e.name) # {}
              /\ \A i \in Called(U.projects, e.name) : U.projects[i] \in ProjectsAs(e)
          BY <1>6, <2>1 DEF Followed
        <4> QED BY <3>1, <4>1, ProjectSkips
      <3>2. CASE k # q.at
        <4>1. ProjectSays(b.projects[k], T) = "skip"
          BY <1>1, <1>10, <2>1, <3>2 DEF Progress, Applied
        <4>2. SameRows(T.projects, U.projects, b.projects[k].name)
          BY <1>6, <1>7, <3>2 DEF Followed
        <4> QED BY <4>1, <4>2 DEF ProjectSays, SameRows
      <3> QED BY <3>1, <3>2
    <2>2. \A k : Done(r, "vendors", k) /\ Done(q, "vendors", k)
      BY <1>3 DEF Done, Beyond
    <2>3. ~q.dry => \A k \in DOMAIN b.vendors : b.vendors[k] \in U.vendors
      BY <1>1, <1>4, <2>2 DEF Progress, Applied
    <2> QED BY <1>3, <1>9, <2>1, <2>3 DEF Applied
  <1>14. Deciding(r, U)
    BY <1>3 DEF Deciding
  <1> QED BY <1>8, <1>11, <1>12, <1>13, <1>14 DEF Progress

-----------------------------------------------------------------------------
(* Hosts.                                                                  *)

HostsAs(e) == {h \in Host : HostHas(e, h)}

HostEffect(q, r, T, U) ==
  LET e == q.bundle.hosts[q.at] IN
  /\ q.phase = "hosts" /\ q.at \in DOMAIN q.bundle.hosts
  /\ EntryWith(q, r, Counted(q, "hosts", HostSays(e, T)), q.projectIds, r.hostIds)
  /\ U.vendors = T.vendors /\ U.projects = T.projects /\ U.assets = T.assets
  /\ Moves(HostsAs(e), e.name, q.dry, q.hostIds, T.hosts, r.hostIds, U.hosts)

(* The vendors of a file are there when its hosts are applied.             *)
LEMMA VendorThere ==
  ASSUME NEW q, NEW T, Watched(q, T), q.phase = "hosts", ~q.dry,
         NEW k \in DOMAIN q.bundle.hosts
  PROVE  q.bundle.hosts[k].vendor \in T.vendors \union {Nil}
  <1>1. q.upload.kind # "nmap" /\ Progress(q, T)
    BY DEF Watched, RunOK, Placed, Importing, Applying
  <1>2. \A l : Done(q, "vendors", l)
    BY DEF Done, Beyond
  <1>3. \A l \in DOMAIN q.bundle.vendors : q.bundle.vendors[l] \in T.vendors
    BY <1>1, <1>2 DEF Progress, Applied
  <1>4. ToSet(q.bundle.vendors) \subseteq T.vendors
    BY <1>3 DEF ToSet
  <1> QED BY <1>1, <1>4 DEF Progress, Resolved

LEMMA CreateHostActs ==
  ASSUME ImportInv, NEW j \in Runs, CreateHost(j), Watched(run[j], Stored)
  PROVE  HostEffect(run[j], run'[j], Stored, Stored')
  <1> DEFINE q == run[j]
             e == q.bundle.hosts[q.at]
             c == Counted(q, "hosts", "create")
             counted == [q EXCEPT !.count = c]
  <1>1. q \in Run /\ RunOK(q) /\ q.phase = "hosts" /\ q.at <= Len(q.bundle["hosts"])
        /\ hosts \in [Ids -> Host \union {Nil}]
    BY DEF ImportInv, TablesOK, CreateHost, AtEntry
  <1>2. q.at \in DOMAIN q.bundle.hosts /\ Entry(q) = e /\ q.at \in Nat /\ e \in Host
    BY <1>1, AtEntryIs, EntryChecked DEF Run
  <1>3. Called(hosts, e.name) = {} /\ HostSays(e, Stored) = "create"
    <2>1. Called(q.known, e.name) = {}
      BY <1>2 DEF CreateHost
    <2>2. SameRows(q.known, hosts, e.name)
      BY <1>1, <1>2 DEF Watched, Progress, Fresh, Stored
    <2> QED BY <2>1, <2>2 DEF SameRows, HostSays, Stored
  <1>4. CASE q.dry /\ Advance(j, [counted EXCEPT !.hostIds[e.name] = Temp]) /\ Reads
    <2>1. run'[j] = [[counted EXCEPT !.hostIds[e.name] = Temp] EXCEPT !.at = @ + 1]
      BY <1>4, MovesOn
    <2> HIDE DEF c
    <2>2. EntryWith(q, run'[j], c, q.projectIds, [q.hostIds EXCEPT ![e.name] = Temp])
      BY <1>1, <2>1, HostNamed
    <2> QED BY <1>1, <1>2, <1>3, <1>4, <2>2 DEF Moves, EntryWith, HostEffect, Stored, Reads, tables, c
  <1>5. CASE /\ ~q.dry
             /\ \E i \in Ids :
                  /\ NextId(hosts, i)
                  /\ hosts' = [hosts EXCEPT ![i] = e]
                  /\ Advance(j, Wrote([counted EXCEPT !.hostIds[e.name] = i]))
             /\ UNCHANGED <<vendors, projects, assets>>
    <2>1. PICK i \in Ids : /\ NextId(hosts, i)
                           /\ hosts' = [hosts EXCEPT ![i] = e]
                           /\ Advance(j, Wrote([counted EXCEPT !.hostIds[e.name] = i]))
      BY <1>5
    <2>2. e \in HostsAs(e)
      BY <1>2 DEF HostsAs, HostHas
    <2>3. hosts[i] = Nil
      BY <2>1 DEF NextId, Live, Ids
    <2>4. run'[j] = [Wrote([counted EXCEPT !.hostIds[e.name] = i]) EXCEPT !.at = @ + 1]
      BY <2>1, MovesOn
    <2> HIDE DEF c
    <2>5. Puts(hosts, hosts', i, e)
      BY <1>3, <2>1, <2>3 DEF Puts
    <2>6. EntryWith(q, run'[j], c, q.projectIds, [q.hostIds EXCEPT ![e.name] = i])
      BY <1>1, <2>4, HostNamed
    <2> QED BY <1>1, <1>2, <1>3, <1>5, <2>2, <2>5, <2>6 DEF Moves, EntryWith, HostEffect, Stored, c
  <1>6. q.dry \/ (e.vendor \in vendors \union {Nil} /\ Called(hosts, e.name) = {})
    BY <1>1, <1>2, <1>3, VendorThere DEF Stored
  <1> QED BY <1>2, <1>4, <1>5, <1>6 DEF CreateHost

LEMMA UpdateHostActs ==
  ASSUME ImportInv, NEW j \in Runs, UpdateHost(j), Watched(run[j], Stored), World(Stored)
  PROVE  HostEffect(run[j], run'[j], Stored, Stored')
  <1> DEFINE q == run[j]
             e == Entry(q)
             c(how) == Counted(q, "hosts", how)
             row(i) == [name |-> e.name, notes |-> Or(e.notes, hosts[i].notes),
                        vendor |-> Or(e.vendor, hosts[i].vendor)]
  <1>1. q \in Run /\ RunOK(q) /\ q.phase = "hosts" /\ q.at <= Len(q.bundle["hosts"])
        /\ hosts \in [Ids -> Host \union {Nil}]
    BY DEF ImportInv, TablesOK, UpdateHost, AtEntry
  <1>2. q.at \in DOMAIN q.bundle.hosts /\ e = q.bundle.hosts[q.at] /\ q.at \in Nat /\ e \in Host
    BY <1>1, AtEntryIs, EntryChecked DEF Run
  <1>3. SameRows(q.known, hosts, e.name)
    BY <1>1, <1>2 DEF Watched, Progress, Fresh, Stored
  <1>4. PICK i \in Called(q.known, e.name) :
          IF e.notes \in {Nil, q.known[i].notes} /\ e.vendor \in {Nil, q.known[i].vendor}
          THEN Advance(j, [q EXCEPT !.count = c("skip")]) /\ Reads
          ELSE LET refused == \/ e.vendor \notin vendors \union {Nil}
                              \/ hosts[i] # Nil /\ Called(hosts, e.name) \ {i} # {} IN
               \/ q.dry /\ Advance(j, [q EXCEPT !.count = c("update")]) /\ Reads
               \/ ~q.dry /\ refused /\ Raise(j)
               \/ ~q.dry /\ ~refused /\ hosts[i] = Nil
                    /\ Advance(j, [q EXCEPT !.count = c("update")]) /\ Reads
               \/ /\ ~q.dry /\ ~refused /\ hosts[i] # Nil
                  /\ hosts' = [hosts EXCEPT ![i] = row(i)]
                  /\ Advance(j, Wrote([q EXCEPT !.count = c("update")]))
                  /\ Writes /\ UNCHANGED <<vendors, projects, assets>>
    BY DEF UpdateHost
  <1>5. i \in Called(hosts, e.name) /\ q.known[i] = hosts[i]
        /\ hosts[i] # Nil /\ i \in Ids /\ Called(hosts, e.name) = {i}
    <2>1. i \in Called(hosts, e.name) /\ q.known[i] = hosts[i]
      BY <1>3, <1>4 DEF SameRows
    <2>2. Unique(hosts)
      BY DEF World, Stored
    <2> QED BY <2>1, <2>2 DEF Called, Live, Unique
  <1>6. HostSays(e, Stored) = IF HostHas(e, hosts[i]) THEN "skip" ELSE "update"
    BY <1>5 DEF HostSays, Stored
  <1>7. ASSUME NEW how, \/ Advance(j, [q EXCEPT !.count = c(how)])
                        \/ Advance(j, Wrote([q EXCEPT !.count = c(how)]))
        PROVE  EntryWith(q, run'[j], c(how), q.projectIds, q.hostIds)
    <2> HIDE DEF c, q
    <2>1. \/ run'[j] = [[q EXCEPT !.count = c(how)] EXCEPT !.at = @ + 1]
          \/ run'[j] = [Wrote([q EXCEPT !.count = c(how)]) EXCEPT !.at = @ + 1]
      BY <1>7, MovesOn
    <2> QED BY <1>1, <2>1, CountedEntry
  <1> HIDE DEF c
  <1>8. CASE HostHas(e, hosts[i])
    <2>1. EntryWith(q, run'[j], c("skip"), q.projectIds, q.hostIds) /\ Reads
      BY <1>4, <1>5, <1>7, <1>8 DEF HostHas
    <2>2. hosts[i] \in HostsAs(e)
      BY <1>1, <1>5, <1>8 DEF HostsAs
    <2> QED BY <1>1, <1>2, <1>5, <1>6, <1>8, <2>1, <2>2
            DEF Moves, EntryWith, HostEffect, Stored, Reads, tables, c
  <1>9. CASE ~HostHas(e, hosts[i])
    <2>1. CASE q.dry
      <3>1. EntryWith(q, run'[j], c("update"), q.projectIds, q.hostIds) /\ Reads
        BY <1>4, <1>5, <1>7, <1>9, <2>1 DEF HostHas
      <3> QED BY <1>1, <1>2, <1>5, <1>6, <1>9, <2>1, <3>1
              DEF Moves, EntryWith, HostEffect, Stored, Reads, tables, c
    <2>2. CASE ~q.dry
      <3>1. e.vendor \in vendors \union {Nil} /\ Called(hosts, e.name) \ {i} = {}
        BY <1>1, <1>2, <1>5, <2>2, VendorThere DEF Stored
      <3> HIDE DEF row
      <3>2. /\ hosts' = [hosts EXCEPT ![i] = row(i)]
            /\ Advance(j, Wrote([q EXCEPT !.count = c("update")]))
            /\ UNCHANGED <<vendors, projects, assets>>
        BY <1>4, <1>5, <1>9, <2>2, <3>1 DEF HostHas
      <3>3. row(i) \in HostsAs(e) /\ row(i).name = e.name
        <4>1. hosts[i] \in Host
          BY <1>1, <1>5
        <4> QED BY <1>2, <4>1 DEF row, Or, Host, HostsAs, HostHas
      <3>4. Puts(hosts, hosts', i, row(i))
        BY <1>5, <3>2, <3>3 DEF Puts
      <3>5. EntryWith(q, run'[j], c("update"), q.projectIds, q.hostIds)
        BY <1>7, <3>2
      <3> QED BY <1>1, <1>2, <1>5, <1>6, <1>9, <2>2, <3>2, <3>3, <3>4, <3>5
              DEF Moves, EntryWith, HostEffect, Stored, c
    <2> QED BY <2>1, <2>2
  <1> QED BY <1>8, <1>9

LEMMA HostSkips ==
  ASSUME NEW e, NEW T, Called(T.hosts, e.name) # {},
         \A i \in Called(T.hosts, e.name) : T.hosts[i] \in HostsAs(e)
  PROVE  HostSays(e, T) = "skip"
  BY DEF HostSays, HostsAs

LEMMA HostGoesOn ==
  ASSUME NEW q, NEW r, NEW T, NEW U, World(T), Watched(q, T), HostEffect(q, r, T, U)
  PROVE  Progress(r, U)
  <1> DEFINE b == q.bundle
             e == b.hosts[q.at]
  <1>1. q \in Run /\ q.at \in Nat /\ b \in Bundle /\ Progress(q, T) /\ Apart(b)
        /\ q.upload.kind # "nmap" /\ Checked(b) /\ q.dry \in BOOLEAN /\ q.hostIds \in RunIds
    BY DEF Watched, RunOK, Run, HostEffect, Placed, Importing, Applying
  <1>2. DOMAIN b.vendors \subseteq Nat /\ DOMAIN b.projects \subseteq Nat
        /\ DOMAIN b.hosts \subseteq Nat
    BY <1>1, Lengths
  <1>3. /\ r.phase = "hosts" /\ r.at = q.at + 1 /\ r.bundle = b /\ r.known = q.known
        /\ r.dry = q.dry /\ r.upload = q.upload /\ q.phase = "hosts"
        /\ q.at \in DOMAIN b.hosts /\ r.projectIds = q.projectIds
    BY DEF HostEffect, EntryWith, EntryOf, Carried
  <1>4. U.vendors = T.vendors /\ U.projects = T.projects /\ U.assets = T.assets
    BY DEF HostEffect
  <1>5. \A k \in DOMAIN b.hosts : b.hosts[k].name \in Names
    BY <1>1 DEF Checked, Host
  <1>6. Followed(HostsAs(e), e.name, q.dry, q.hostIds, T.hosts, r.hostIds, U.hosts)
    <2>1. T.hosts \in [Ids -> Host \union {Nil}] /\ Unique(T.hosts)
      BY DEF World, Tables
    <2>2. IdsRight(q.hostIds, T.hosts, q.dry)
      BY <1>1, <1>3 DEF Progress, Learnt
    <2>3. HostsAs(e) \in SUBSET Host
      BY DEF HostsAs
    <2>4. Moves(HostsAs(e), e.name, q.dry, q.hostIds, T.hosts, r.hostIds, U.hosts)
      BY DEF HostEffect
    <2> HIDE DEF e
    <2>5. e.name \in Names
      BY <1>3, <1>5 DEF e
    <2> QED BY <1>1, <2>1, <2>2, <2>3, <2>4, <2>5, RowsNotNil, RowMoves
  <1>7. \A k \in DOMAIN b.hosts : k # q.at => b.hosts[k].name # e.name
    BY <1>1, <1>3 DEF Apart
  <1>8. Fresh(r, U)
    <2> SUFFICES ASSUME NEW k \in DOMAIN b.hosts, k >= q.at + 1
                 PROVE  SameRows(q.known, U.hosts, b.hosts[k].name)
      BY <1>3 DEF Fresh
    <2>1. SameRows(q.known, T.hosts, b.hosts[k].name)
      BY <1>1, <1>2, <1>3 DEF Progress, Fresh
    <2>2. b.hosts[k].name # e.name
      BY <1>1, <1>2, <1>7
    <2>3. SameRows(T.hosts, U.hosts, b.hosts[k].name)
      BY <1>6, <2>2 DEF Followed
    <2> QED BY <2>1, <2>3, KnownStays
  <1>9. \A k : ~Done(r, "assets", k)
    BY <1>3 DEF Done, Beyond, During, AtAsset, Scanning
  <1>10. \A k \in DOMAIN b.hosts : Done(r, "hosts", k) => k = q.at \/ Done(q, "hosts", k)
    BY <1>1, <1>2, <1>3 DEF Done, Beyond, During, AtAsset
  <1>11. \A s \in {"vendors", "projects"} : \A k : Done(r, s, k) /\ Done(q, s, k)
    BY <1>3 DEF Done, Beyond
  <1>12. Learnt(r, U)
    <2>1. IdsRight(r.hostIds, U.hosts, r.dry)
      BY <1>3, <1>6 DEF Followed
    <2>2. ASSUME NEW k \in DOMAIN b.hosts, Done(r, "hosts", k)
          PROVE  r.hostIds[b.hosts[k].name] # Nil
      <3>1. CASE k = q.at
        BY <3>1, <1>6 DEF Followed
      <3>2. CASE k # q.at
        <4>1. q.hostIds[b.hosts[k].name] # Nil
          BY <1>1, <1>3, <1>10, <2>2, <3>2 DEF Progress, Learnt
        <4> QED BY <1>5, <1>6, <1>7, <3>2, <4>1 DEF Followed
      <3> QED BY <3>1, <3>2
    <2>3. /\ IdsRight(r.projectIds, U.projects, r.dry)
          /\ \A k \in DOMAIN b.projects : r.projectIds[b.projects[k].name] # Nil
      BY <1>1, <1>3, <1>4, <1>11 DEF Progress, Learnt
    <2> QED BY <1>3, <2>1, <2>2, <2>3 DEF Learnt
  <1>13. Resolved(r, U)
    <2>1. \A m : Called(T.hosts, m) # {} => Called(U.hosts, m) # {}
      BY <1>6 DEF Followed
    <2> QED BY <1>1, <1>3, <1>4, <2>1 DEF Progress, Resolved
  <1>14. Applied(r, U)
    <2>1. ASSUME ~q.dry, NEW k \in DOMAIN b.hosts, Done(r, "hosts", k)
          PROVE  HostSays(b.hosts[k], U) = "skip"
      <3>1. CASE k = q.at
        <4>1. /\ Called(U.hosts, e.name) # {}
              /\ \A i \in Called(U.hosts, e.name) : U.hosts[i] \in HostsAs(e)
          BY <1>6, <2>1 DEF Followed
        <4> QED BY <3>1, <4>1, HostSkips
      <3>2. CASE k # q.at
        <4>1. HostSays(b.hosts[k], T) = "skip"
          BY <1>1, <1>10, <2>1, <3>2 DEF Progress, Applied
        <4>2. SameRows(T.hosts, U.hosts, b.hosts[k].name)
          BY <1>6, <1>7, <3>2 DEF Followed
        <4> QED BY <4>1, <4>2 DEF HostSays, SameRows
      <3> QED BY <3>1, <3>2
    <2>2. ~q.dry => /\ \A k \in DOMAIN b.vendors : b.vendors[k] \in U.vendors
                    /\ \A k \in DOMAIN b.projects : ProjectSays(b.projects[k], T) = "skip"
      BY <1>1, <1>4, <1>11 DEF Progress, Applied
    <2>3. ~q.dry => \A k \in DOMAIN b.projects : ProjectSays(b.projects[k], U) = "skip"
      BY <1>4, <2>2 DEF ProjectSays
    <2> QED BY <1>3, <1>9, <2>1, <2>2, <2>3 DEF Applied
  <1>15. Deciding(r, U)
    BY <1>3 DEF Deciding
  <1> QED BY <1>8, <1>12, <1>13, <1>14, <1>15 DEF Progress

-----------------------------------------------------------------------------
(* A section is opened.                                                    *)

OpenEffect(q, r, T, U) ==
  /\ Carried(q, r) /\ r.at = 1 /\ r.count = q.count /\ U = T
  /\ \/ q.phase = "valid" /\ r.phase = "vendors" /\ r.known = T.vendors
     \/ /\ q.phase = "vendors" /\ q.at > Len(q.bundle.vendors) /\ r.phase = "projects"
        /\ r.known = T.projects /\ r.projectIds = IdsByName(T.projects)
     \/ /\ q.phase = "projects" /\ q.at > Len(q.bundle.projects) /\ r.phase = "hosts"
        /\ r.known = T.hosts /\ r.hostIds = IdsByName(T.hosts) /\ r.projectIds = q.projectIds
     \/ /\ q.phase = "hosts" /\ q.at > Len(q.bundle.hosts) /\ r.phase = "assets"
        /\ r.hostIds = q.hostIds /\ r.projectIds = q.projectIds

LEMMA OpenActs ==
  ASSUME ImportInv, NEW j \in Runs,
         OpenVendors(j) \/ OpenProjects(j) \/ OpenHosts(j) \/ OpenAssets(j)
  PROVE  OpenEffect(run[j], run'[j], Stored, Stored')
  <1> DEFINE q == run[j]
  <1>1. q \in Run /\ run \in [Runs -> Run]
    BY DEF ImportInv
  <1>2. Stored' = Stored
    BY DEF OpenVendors, OpenProjects, OpenHosts, OpenAssets, Reads, tables, Stored
  <1>3. CASE OpenVendors(j)
    <2>1. run'[j] = [q EXCEPT !.phase = "vendors", !.at = 1, !.known = vendors]
      BY <1>1, <1>3 DEF OpenVendors, Continue
    <2>2. Carried(q, run'[j]) /\ run'[j].at = 1 /\ run'[j].count = q.count
          /\ run'[j].phase = "vendors"
          /\ run'[j].known = vendors
      BY <1>1, <2>1, SMT DEF Run, Carried
    <2> QED BY <1>2, <1>3, <2>2 DEF OpenEffect, OpenVendors, Stored
  <1>4. CASE OpenProjects(j)
    <2>1. run'[j] = [q EXCEPT !.phase = "projects", !.at = 1, !.known = projects,
                              !.projectIds = IdsByName(projects)]
      BY <1>1, <1>4 DEF OpenProjects, Continue
    <2>2. Carried(q, run'[j]) /\ run'[j].at = 1 /\ run'[j].count = q.count
          /\ run'[j].phase = "projects"
          /\ run'[j].known = projects /\ run'[j].projectIds = IdsByName(projects)
      BY <1>1, <2>1, SMT DEF Run, Carried
    <2> QED BY <1>2, <1>4, <2>2 DEF OpenEffect, OpenProjects, PastLast, Stored
  <1>5. CASE OpenHosts(j)
    <2>1. run'[j] = [q EXCEPT !.phase = "hosts", !.at = 1, !.known = hosts,
                              !.hostIds = IdsByName(hosts)]
      BY <1>1, <1>5 DEF OpenHosts, Continue
    <2>2. Carried(q, run'[j]) /\ run'[j].at = 1 /\ run'[j].count = q.count
          /\ run'[j].phase = "hosts"
          /\ run'[j].known = hosts /\ run'[j].hostIds = IdsByName(hosts)
          /\ run'[j].projectIds = q.projectIds
      BY <1>1, <2>1, SMT DEF Run, Carried
    <2> QED BY <1>2, <1>5, <2>2 DEF OpenEffect, OpenHosts, PastLast, Stored
  <1>6. CASE OpenAssets(j)
    <2>1. run'[j] = [q EXCEPT !.phase = "assets", !.at = 1, !.known = Nil]
      BY <1>1, <1>6 DEF OpenAssets, Continue
    <2>2. Carried(q, run'[j]) /\ run'[j].at = 1 /\ run'[j].count = q.count
          /\ run'[j].phase = "assets"
          /\ run'[j].projectIds = q.projectIds /\ run'[j].hostIds = q.hostIds
      BY <1>1, <2>1, SMT DEF Run, Carried
    <2> QED BY <1>2, <1>6, <2>2 DEF OpenEffect, OpenAssets, PastLast, Stored
  <1> QED BY <1>3, <1>4, <1>5, <1>6

LEMMA IdsRead ==
  ASSUME NEW table, NEW dry
  PROVE  IdsRight(IdsByName(table), table, dry)
  <1> SUFFICES ASSUME NEW n \in Names
               PROVE  \/ IdsByName(table)[n] \in Called(table, n)
                      \/ Called(table, n) = {} /\ IdsByName(table)[n] = Nil
    BY DEF IdsRight
  <1>1. CASE Called(table, n) = {}
    BY <1>1 DEF IdsByName
  <1>2. CASE Called(table, n) # {}
    <2>1. (CHOOSE i \in Called(table, n) : TRUE) \in Called(table, n)
      BY <1>2
    <2> QED BY <1>2, <2>1 DEF IdsByName
  <1> QED BY <1>1, <1>2

LEMMA OpenGoesOn ==
  ASSUME NEW q, NEW r, NEW T, NEW U, Watched(q, T), OpenEffect(q, r, T, U)
  PROVE  Progress(r, U)
  <1> DEFINE b == q.bundle
  <1>1. q \in Run /\ q.at \in Nat /\ b \in Bundle /\ Progress(q, T) /\ q.upload.kind # "nmap"
        /\ Checked(b)
    BY DEF Watched, RunOK, Run, OpenEffect, Placed, Importing, Applying
  <1>2. DOMAIN b.vendors = 1..Len(b.vendors) /\ DOMAIN b.projects = 1..Len(b.projects)
        /\ DOMAIN b.hosts = 1..Len(b.hosts) /\ DOMAIN b.assets = 1..Len(b.assets)
        /\ Len(b.vendors) \in Nat /\ Len(b.projects) \in Nat /\ Len(b.hosts) \in Nat
        /\ Len(b.assets) \in Nat
    BY <1>1, Lengths
  <1>3. r.bundle = b /\ r.dry = q.dry /\ r.upload = q.upload /\ r.at = 1 /\ U = T
    BY DEF OpenEffect, Carried
  <1>4. r.phase \in {"vendors", "projects", "hosts", "assets"}
    BY DEF OpenEffect
  <1>5. Fresh(r, U)
    BY <1>3 DEF Fresh, OpenEffect, SameRows
  <1>6. Resolved(r, U)
    BY <1>1, <1>3 DEF Progress, Resolved
  <1>7. Deciding(r, U)
    BY <1>4 DEF Deciding
  <1>8. \A s \in Section : \A k \in DOMAIN b[s] : Done(r, s, k) => Done(q, s, k)
    <2>1. ASSUME NEW k \in DOMAIN b.vendors, Done(r, "vendors", k) PROVE Done(q, "vendors", k)
      BY <1>1, <1>2, <1>3, <2>1 DEF OpenEffect, Done, Beyond, During, AtAsset
    <2>2. ASSUME NEW k \in DOMAIN b.projects, Done(r, "projects", k) PROVE Done(q, "projects", k)
      BY <1>1, <1>2, <1>3, <2>2 DEF OpenEffect, Done, Beyond, During, AtAsset
    <2>3. ASSUME NEW k \in DOMAIN b.hosts, Done(r, "hosts", k) PROVE Done(q, "hosts", k)
      BY <1>1, <1>2, <1>3, <2>3 DEF OpenEffect, Done, Beyond, During, AtAsset
    <2>4. ASSUME NEW k \in DOMAIN b.assets, Done(r, "assets", k) PROVE Done(q, "assets", k)
      BY <1>1, <1>2, <1>3, <2>4 DEF OpenEffect, Done, Beyond, During, AtAsset, Scanning
    <2> QED BY <2>1, <2>2, <2>3, <2>4 DEF Section
  <1>9. Applied(r, U)
    BY <1>1, <1>3, <1>8 DEF Progress, Applied, Section
  <1>10. r.phase \in {"projects", "hosts", "assets"} =>
           /\ IdsRight(r.projectIds, U.projects, r.dry)
           /\ \A k \in DOMAIN b.projects :
                Done(r, "projects", k) => r.projectIds[b.projects[k].name] # Nil
    <2>1. CASE r.phase = "projects"
      <3>1. \A k \in DOMAIN b.projects : ~Done(r, "projects", k)
        BY <1>2, <1>3, <2>1 DEF Done, Beyond, During, AtAsset
      <3>2. r.projectIds = IdsByName(U.projects)
        BY <1>3, <2>1 DEF OpenEffect
      <3> QED BY <3>1, <3>2, IdsRead
    <2>2. CASE r.phase \in {"hosts", "assets"}
      <3>1. r.projectIds = q.projectIds /\ q.phase \in {"projects", "hosts"}
        BY <2>2 DEF OpenEffect
      <3>2. \A k \in DOMAIN b.projects : Done(r, "projects", k) => Done(q, "projects", k)
        BY <1>8 DEF Section
      <3> QED BY <1>1, <1>3, <3>1, <3>2 DEF Progress, Learnt
    <2> QED BY <2>1, <2>2
  <1>11. r.phase \in {"hosts", "assets"} =>
           /\ IdsRight(r.hostIds, U.hosts, r.dry)
           /\ \A k \in DOMAIN b.hosts :
                Done(r, "hosts", k) => r.hostIds[b.hosts[k].name] # Nil
    <2>1. CASE r.phase = "hosts"
      <3>1. \A k \in DOMAIN b.hosts : ~Done(r, "hosts", k)
        BY <1>2, <1>3, <2>1 DEF Done, Beyond, During, AtAsset
      <3>2. r.hostIds = IdsByName(U.hosts)
        BY <1>3, <2>1 DEF OpenEffect
      <3> QED BY <3>1, <3>2, IdsRead
    <2>2. CASE r.phase = "assets"
      <3>1. r.hostIds = q.hostIds /\ q.phase = "hosts"
        BY <2>2 DEF OpenEffect
      <3>2. \A k \in DOMAIN b.hosts : Done(r, "hosts", k) => Done(q, "hosts", k)
        BY <1>8 DEF Section
      <3> QED BY <1>1, <1>3, <3>1, <3>2 DEF Progress, Learnt
    <2> QED BY <2>1, <2>2
  <1>12. Learnt(r, U)
    BY <1>3, <1>4, <1>10, <1>11 DEF Learnt, AtAsset
  <1> QED BY <1>5, <1>6, <1>7, <1>9, <1>12 DEF Progress

-----------------------------------------------------------------------------
(* Assets.                                                                 *)

AssetStep(q, r, phase, at, count, row, goal) ==
  /\ Carried(q, r) /\ r.projectIds = q.projectIds /\ r.hostIds = q.hostIds
  /\ r.phase = phase /\ r.at = at /\ r.count = count /\ r.row = row /\ r.goal = goal

LEMMA NextStep ==
  ASSUME NEW q \in Run, NEW c, NEW r
  PROVE  /\ \/ r = [q EXCEPT !.phase = "assets", !.at = @ + 1, !.row = Nil, !.goal = Nil]
            \/ r = [Wrote(q) EXCEPT !.phase = "assets", !.at = @ + 1, !.row = Nil, !.goal = Nil]
            => AssetStep(q, r, "assets", q.at + 1, q.count, Nil, Nil)
         /\ r = [[q EXCEPT !.count = c] EXCEPT !.phase = "assets", !.at = @ + 1, !.row = Nil,
                                               !.goal = Nil]
            => AssetStep(q, r, "assets", q.at + 1, c, Nil, Nil)
  <1>1. r = [q EXCEPT !.phase = "assets", !.at = @ + 1, !.row = Nil, !.goal = Nil]
          => AssetStep(q, r, "assets", q.at + 1, q.count, Nil, Nil)
    BY SMT DEF Run, AssetStep, Carried
  <1>2. r = [Wrote(q) EXCEPT !.phase = "assets", !.at = @ + 1, !.row = Nil, !.goal = Nil]
          => AssetStep(q, r, "assets", q.at + 1, q.count, Nil, Nil)
    BY SMT DEF Run, AssetStep, Carried, Wrote
  <1>3. r = [[q EXCEPT !.count = c] EXCEPT !.phase = "assets", !.at = @ + 1, !.row = Nil,
                                           !.goal = Nil]
        => AssetStep(q, r, "assets", q.at + 1, c, Nil, Nil)
    BY SMT DEF Run, AssetStep, Carried
  <1> QED BY <1>1, <1>2, <1>3

LEMMA StayStep ==
  ASSUME NEW q \in Run, NEW c, NEW x, NEW r
  PROVE  /\ r = [q EXCEPT !.phase = "tags", !.row = x]
              => AssetStep(q, r, "tags", q.at, q.count, x, q.goal)
         /\ r = [[q EXCEPT !.count = c] EXCEPT !.phase = "create"]
              => AssetStep(q, r, "create", q.at, c, q.row, q.goal)
         /\ r = [[q EXCEPT !.count = c] EXCEPT !.phase = "update", !.goal = x]
              => AssetStep(q, r, "update", q.at, c, q.row, x)
         /\ r = [q EXCEPT !.phase = "archive"]
              => AssetStep(q, r, "archive", q.at, q.count, q.row, q.goal)
         /\ r = [Wrote(q) EXCEPT !.phase = "archive"]
              => AssetStep(q, r, "archive", q.at, q.count, q.row, q.goal)
  <1>1. r = [q EXCEPT !.phase = "tags", !.row = x]
          => AssetStep(q, r, "tags", q.at, q.count, x, q.goal)
    BY SMT DEF Run, AssetStep, Carried
  <1>2. r = [[q EXCEPT !.count = c] EXCEPT !.phase = "create"]
          => AssetStep(q, r, "create", q.at, c, q.row, q.goal)
    BY SMT DEF Run, AssetStep, Carried
  <1>3. r = [[q EXCEPT !.count = c] EXCEPT !.phase = "update", !.goal = x]
          => AssetStep(q, r, "update", q.at, c, q.row, x)
    BY SMT DEF Run, AssetStep, Carried
  <1>4. r = [q EXCEPT !.phase = "archive"]
          => AssetStep(q, r, "archive", q.at, q.count, q.row, q.goal)
    BY SMT DEF Run, AssetStep, Carried
  <1>5. r = [Wrote(q) EXCEPT !.phase = "archive"]
          => AssetStep(q, r, "archive", q.at, q.count, q.row, q.goal)
    BY SMT DEF Run, AssetStep, Carried, Wrote
  <1> QED BY <1>1, <1>2, <1>3, <1>4, <1>5

(* What a step makes of the asset its run is at: the others stay, and what *)
(* an apply run leaves is as the file wants it.                            *)
AssetEffect(q, r, T, U) ==
  LET a == AssetOf(q) IN
  /\ q.phase \in AtAsset /\ q.at \in DOMAIN q.bundle.assets
  /\ Carried(q, r) /\ r.projectIds = q.projectIds /\ r.hostIds = q.hostIds
  /\ r.phase \in AtAsset /\ r.at = IF r.phase = "assets" THEN q.at + 1 ELSE q.at
  /\ (r.phase = "tags") = (q.phase = "assets" /\ T.assets[a.ip] # Nil)
  /\ U.vendors = T.vendors /\ U.projects = T.projects /\ U.hosts = T.hosts
  /\ \A ip \in Ips \ {a.ip} : U.assets[ip] = T.assets[ip]
  /\ q.phase \in {"assets", "tags"} => U = T
  /\ ~q.dry /\ r.phase = "assets" => AssetSettled(a, U.assets[a.ip], U)
  /\ Deciding(r, U)
  /\ r.count = IF (q.phase = "assets" /\ T.assets[a.ip] = Nil) \/ q.phase = "tags"
               THEN Counted(q, "assets", AssetSays(a, T)) ELSE q.count

(* The project and the host that an asset names.                           *)
LEMMA ProjectFound ==
  ASSUME NEW q, NEW T, Watched(q, T), World(T), q.phase \in AtAsset,
         q.at \in DOMAIN q.bundle.assets, AssetOf(q).project # Nil
  PROVE  /\ ProjectOf(q) # Nil
         /\ ~q.dry => ProjectOf(q) \in Called(T.projects, AssetOf(q).project)
         /\ \A i \in Ids \union {Nil} :
              i \in Called(T.projects, AssetOf(q).project) <=> i = ProjectOf(q)
  <1> DEFINE n == AssetOf(q).project
             id == q.projectIds[n]
             P == T.projects
  <1>1. q.upload.kind # "nmap" /\ Progress(q, T) /\ RunOK(q)
    BY DEF Watched, RunOK, Placed, Importing, Applying, AtAsset
  <1>2. n \in Names /\ ProjectOf(q) = id
    BY <1>1, AssetChecked DEF ProjectOf, AtAsset
  <1>3. IdsRight(q.projectIds, P, q.dry)
    BY <1>1 DEF Progress, Learnt
  <1>4. \A k \in DOMAIN q.bundle.projects : q.projectIds[q.bundle.projects[k].name] # Nil
    BY <1>1 DEF Progress, Learnt, Done, Beyond
  <1>5. Called(P, n) # {} \/ id # Nil
    <2>1. Called(P, n) # {} \/ n \in NamesOf(q.bundle.projects)
      BY <1>1 DEF Progress, Resolved, AssetOf
    <2> QED BY <1>4, <2>1 DEF NamesOf
  <1>6. \A i, k \in Called(P, n) : i = k /\ i \in Ids
    BY DEF World, Unique, Called, Live
  <1>7. \/ id \in Called(P, n)
        \/ Called(P, n) = {} /\ q.dry /\ id = Temp
    BY <1>2, <1>3, <1>5 DEF IdsRight
  <1> HIDE DEF n, id, P
  <1>8. ~q.dry => id \in Called(P, n)
    BY <1>6, <1>7, TempIsNew
  <1>9. ASSUME NEW i \in Ids \union {Nil} PROVE i \in Called(P, n) <=> i = id
    BY <1>6, <1>7, TempIsNew
  <1>10. id # Nil
    BY <1>6, <1>7, TempIsNew
  <1> QED BY <1>2, <1>8, <1>9, <1>10 DEF n, P

LEMMA HostFound ==
  ASSUME NEW q, NEW T, Watched(q, T), World(T), q.phase \in AtAsset,
         q.at \in DOMAIN q.bundle.assets, AssetOf(q).host # Nil
  PROVE  /\ HostOf(q) # Nil
         /\ ~q.dry => HostOf(q) \in Called(T.hosts, AssetOf(q).host)
         /\ \A i \in Ids \union {Nil} :
              i \in Called(T.hosts, AssetOf(q).host) <=> i = HostOf(q)
  <1> DEFINE n == AssetOf(q).host
             id == q.hostIds[n]
             P == T.hosts
  <1>1. q.upload.kind # "nmap" /\ Progress(q, T) /\ RunOK(q)
    BY DEF Watched, RunOK, Placed, Importing, Applying, AtAsset
  <1>2. n \in Names /\ HostOf(q) = id
    BY <1>1, AssetChecked DEF HostOf, AtAsset
  <1>3. IdsRight(q.hostIds, P, q.dry)
    BY <1>1 DEF Progress, Learnt
  <1>4. \A k \in DOMAIN q.bundle.hosts : q.hostIds[q.bundle.hosts[k].name] # Nil
    BY <1>1 DEF Progress, Learnt, Done, Beyond
  <1>5. Called(P, n) # {} \/ id # Nil
    <2>1. Called(P, n) # {} \/ n \in NamesOf(q.bundle.hosts)
      BY <1>1 DEF Progress, Resolved, AssetOf
    <2> QED BY <1>4, <2>1 DEF NamesOf
  <1>6. \A i, k \in Called(P, n) : i = k /\ i \in Ids
    BY DEF World, Unique, Called, Live
  <1>7. \/ id \in Called(P, n)
        \/ Called(P, n) = {} /\ q.dry /\ id = Temp
    BY <1>2, <1>3, <1>5 DEF IdsRight
  <1> HIDE DEF n, id, P
  <1>8. ~q.dry => id \in Called(P, n)
    BY <1>6, <1>7, TempIsNew
  <1>9. ASSUME NEW i \in Ids \union {Nil} PROVE i \in Called(P, n) <=> i = id
    BY <1>6, <1>7, TempIsNew
  <1>10. id # Nil
    BY <1>6, <1>7, TempIsNew
  <1> QED BY <1>2, <1>8, <1>9, <1>10 DEF n, P

LEMMA AssetGoesOn ==
  ASSUME NEW q, NEW r, NEW T, NEW U, World(T), Watched(q, T), AssetEffect(q, r, T, U)
  PROVE  Progress(r, U)
  <1> DEFINE b == q.bundle
             a == AssetOf(q)
  <1>1. q \in Run /\ q.at \in Nat /\ b \in Bundle /\ Progress(q, T) /\ Apart(b)
        /\ q.upload.kind # "nmap" /\ Checked(b)
    BY DEF Watched, RunOK, Run, AssetEffect, Placed, Importing, Applying, AtAsset
  <1>2. DOMAIN b.assets \subseteq Nat
    BY <1>1, Lengths
  <1>3. r.bundle = b /\ r.dry = q.dry /\ r.upload = q.upload
        /\ r.projectIds = q.projectIds /\ r.hostIds = q.hostIds
        /\ r.phase \in AtAsset /\ q.phase \in AtAsset /\ r.at \in {q.at, q.at + 1}
        /\ q.at \in DOMAIN b.assets
    BY DEF AssetEffect, Carried
  <1>4. U.vendors = T.vendors /\ U.projects = T.projects /\ U.hosts = T.hosts
    BY DEF AssetEffect
  <1>5. \A s \in {"vendors", "projects", "hosts"} : \A k : Done(r, s, k) /\ Done(q, s, k)
    BY <1>3 DEF Done, Beyond
  <1>6. Fresh(r, U)
    BY <1>3 DEF Fresh, AtAsset
  <1>7. Learnt(r, U)
    BY <1>1, <1>3, <1>4, <1>5 DEF Progress, Learnt
  <1>8. Resolved(r, U)
    BY <1>1, <1>3, <1>4 DEF Progress, Resolved
  <1>9. Deciding(r, U)
    BY DEF AssetEffect
  <1>10. Applied(r, U)
    <2>1. ASSUME ~q.dry
          PROVE  /\ \A k \in DOMAIN b.vendors : b.vendors[k] \in U.vendors
                 /\ \A k \in DOMAIN b.projects : ProjectSays(b.projects[k], U) = "skip"
                 /\ \A k \in DOMAIN b.hosts : HostSays(b.hosts[k], U) = "skip"
      <3>1. /\ \A k \in DOMAIN b.vendors : b.vendors[k] \in T.vendors
            /\ \A k \in DOMAIN b.projects : ProjectSays(b.projects[k], T) = "skip"
            /\ \A k \in DOMAIN b.hosts : HostSays(b.hosts[k], T) = "skip"
        BY <1>1, <1>5, <2>1 DEF Progress, Applied
      <3> QED BY <1>4, <3>1 DEF ProjectSays, HostSays
    <2>2. ASSUME ~q.dry, NEW k \in DOMAIN b.assets, Done(r, "assets", k)
          PROVE  AssetSettled(b.assets[k], U.assets[b.assets[k].ip], U)
      <3>1. k < r.at
        BY <1>3, <2>2 DEF Done, Beyond
      <3>2. CASE k = q.at
        <4>1. r.phase = "assets"
          BY <1>1, <3>1, <3>2 DEF AssetEffect
        <4> QED BY <2>2, <3>2, <4>1 DEF AssetEffect, AssetOf
      <3>3. CASE k # q.at
        <4>1. k < q.at
          BY <1>1, <1>2, <1>3, <3>1, <3>3
        <4>2. Done(q, "assets", k)
          BY <1>3, <4>1 DEF Done, During
        <4>3. AssetSettled(b.assets[k], T.assets[b.assets[k].ip], T)
          BY <1>1, <2>2, <4>2 DEF Progress, Applied
        <4>4. b.assets[k].ip # a.ip /\ b.assets[k].ip \in Ips
          BY <1>1, <1>3, <3>3 DEF Apart, AssetOf, Checked
        <4>5. U.assets[b.assets[k].ip] = T.assets[b.assets[k].ip]
          BY <4>4 DEF AssetEffect
        <4> QED BY <1>4, <4>3, <4>5 DEF AssetSettled, AssetFits
      <3> QED BY <3>2, <3>3
    <2> QED BY <1>3, <2>1, <2>2 DEF Applied
  <1> QED BY <1>6, <1>7, <1>8, <1>9, <1>10 DEF Progress

LEMMA ContinueIs ==
  ASSUME ImportInv, NEW j \in Runs, NEW x, Continue(j, x)
  PROVE  run'[j] = x
  BY DEF ImportInv, Continue

LEMMA KeptHeld ==
  ASSUME NEW a, NEW tags, TagsKept(a, tags)
  PROVE  TagsHeld(a, tags)
  <1>1. CASE a.tags = Nil
    BY <1>1 DEF TagsHeld
  <1>2. CASE a.tags # Nil /\ a.merge
    BY <1>2 DEF TagsHeld, TagsKept
  <1>3. CASE a.tags # Nil /\ ~a.merge
    BY <1>3 DEF TagsHeld, TagsKept
  <1> QED BY <1>1, <1>2, <1>3

LEMMA ReadAssetActs ==
  ASSUME ImportInv, NEW j \in Runs, ReadAsset(j), Watched(run[j], Stored)
  PROVE  AssetEffect(run[j], run'[j], Stored, Stored')
  <1> DEFINE q == run[j]
             a == AssetOf(q)
             r == run'[j]
             c == Counted(q, "assets", "create")
  <1>1. q.phase = "assets" /\ q.phase \in AtAsset /\ RunOK(q) /\ q \in Run /\ Reads
        /\ q.bundle \in Bundle
    BY DEF ReadAsset, AtEntry, AtAsset, ImportInv, RunOK, Placed, Importing, Applying
  <1>2. q.at \in DOMAIN q.bundle.assets
    <2>1. q.at <= Len(q.bundle.assets) /\ q.at \in Nat \ {0}
      BY <1>1 DEF ReadAsset, AtEntry, Run
    <2> QED BY <1>1, <2>1, Lengths
  <1>3. Stored' = Stored
    BY <1>1 DEF Reads, tables, Stored
  <1>4. AssetSays(a, Stored) = "create" <=> assets[a.ip] = Nil
    BY DEF AssetSays, Stored
  <1>5. CASE assets[a.ip] # Nil /\ Continue(j, [q EXCEPT !.phase = "tags", !.row = assets[a.ip]])
    <2>1. AssetStep(q, r, "tags", q.at, q.count, assets[a.ip], q.goal)
      BY <1>1, <1>5, ContinueIs, StayStep
    <2>2. AssetOf(r) = a
      BY <2>1 DEF AssetStep, Carried, AssetOf
    <2>3. Deciding(r, Stored')
      BY <1>3, <2>1, <2>2 DEF Deciding, AssetStep, Stored
    <2> QED BY <1>1, <1>2, <1>3, <1>5, <2>1, <2>3 DEF AssetEffect, AssetStep, AtAsset, Stored
  <1>6. CASE assets[a.ip] = Nil /\ q.dry /\ NextAsset(j, [q EXCEPT !.count = c])
    <2>1. r = [[q EXCEPT !.count = c] EXCEPT !.phase = "assets", !.at = @ + 1, !.row = Nil,
                                             !.goal = Nil]
      BY <1>6, ContinueIs DEF NextAsset
    <2>2. AssetStep(q, r, "assets", q.at + 1, c, Nil, Nil)
      BY <1>1, <2>1, NextStep
    <2>3. Deciding(r, Stored')
      BY <2>2 DEF Deciding, AssetStep
    <2> HIDE DEF c
    <2>4. c = Counted(q, "assets", AssetSays(a, Stored)) /\ Stored.assets = assets
      BY <1>4, <1>6 DEF c, Stored
    <2> QED BY <1>1, <1>2, <1>3, <1>6, <2>2, <2>3, <2>4 DEF AssetEffect, AssetStep, AtAsset
  <1>7. CASE /\ assets[a.ip] = Nil /\ ~q.dry
             /\ Continue(j, [[q EXCEPT !.count = c] EXCEPT !.phase = "create"])
    <2>1. AssetStep(q, r, "create", q.at, c, q.row, q.goal)
      BY <1>1, <1>7, ContinueIs, StayStep
    <2>2. AssetOf(r) = a
      BY <2>1 DEF AssetStep, Carried, AssetOf
    <2>3. Deciding(r, Stored')
      BY <1>3, <1>7, <2>1, <2>2 DEF Deciding, AssetStep, Stored
    <2> HIDE DEF c
    <2>4. c = Counted(q, "assets", AssetSays(a, Stored)) /\ Stored.assets = assets
      BY <1>4, <1>7 DEF c, Stored
    <2> QED BY <1>1, <1>2, <1>3, <1>7, <2>1, <2>3, <2>4 DEF AssetEffect, AssetStep, AtAsset
  <1> QED BY <1>5, <1>6, <1>7 DEF ReadAsset

(* A row is as its entry wants it if the goal of the entry is that row.    *)
LEMMA GoalMet ==
  ASSUME NEW q, NEW T, Watched(q, T), World(T), q.phase = "tags", NEW tags
  PROVE  LET goal == Goal(q, tags) IN
         goal = [q.row EXCEPT !.tags = goal.tags] <=> AssetFits(AssetOf(q), q.row, T)
  <1> DEFINE a == AssetOf(q)
             row == q.row
             goal == Goal(q, tags)
  <1>1. row \in Asset /\ q.at \in DOMAIN q.bundle.assets /\ q.phase \in AtAsset /\ RunOK(q)
    BY DEF Watched, RunOK, Placed, AtAsset
  <1>2. a.project # Nil => (row.project \in Called(T.projects, a.project)
                              <=> row.project = ProjectOf(q))
    BY <1>1, ProjectFound DEF Asset
  <1>3. a.host # Nil => (row.host \in Called(T.hosts, a.host) <=> row.host = HostOf(q))
    BY <1>1, HostFound DEF Asset
  <1>4. goal = [q.row EXCEPT !.tags = goal.tags] <=>
          /\ a.keepType \/ row.type = a.type
          /\ a.project = Nil \/ row.project = ProjectOf(q)
          /\ a.host = Nil \/ row.host = HostOf(q)
          /\ WritesNotes(a, row) => row.notes = a.notes
          /\ a.archived \in {Nil, row.archived}
    <2> DEFINE t == IF a.keepType THEN row.type ELSE a.type
               p == IF a.project = Nil THEN row.project ELSE ProjectOf(q)
               h == IF a.host = Nil THEN row.host ELSE HostOf(q)
               n == IF WritesNotes(a, row) THEN a.notes ELSE row.notes
               d == Or(a.archived, row.archived)
               s == TargetTags(a, tags)
    <2>1. goal = [type |-> t, project |-> p, host |-> h, notes |-> n, archived |-> d, tags |-> s]
      BY DEF Goal
    <2> HIDE DEF goal, a, row, t, p, h, n, d, s
    <2>2. goal = [row EXCEPT !.tags = goal.tags] <=>
            t = row.type /\ p = row.project /\ h = row.host /\ n = row.notes /\ d = row.archived
      BY <1>1, <2>1, SMT DEF Asset
    <2>3. /\ t = row.type <=> a.keepType \/ row.type = a.type
          /\ p = row.project <=> a.project = Nil \/ row.project = ProjectOf(q)
          /\ h = row.host <=> a.host = Nil \/ row.host = HostOf(q)
          /\ n = row.notes <=> (WritesNotes(a, row) => row.notes = a.notes)
      BY DEF t, p, h, n
    <2>4. d = row.archived <=> a.archived \in {Nil, row.archived}
      BY DEF Or, d
    <2> QED BY <2>2, <2>3, <2>4 DEF row
  <1> HIDE DEF goal, a
  <1>5. goal = [q.row EXCEPT !.tags = goal.tags] <=> AssetFits(a, row, T)
    BY <1>2, <1>3, <1>4 DEF AssetFits
  <1> QED BY <1>5 DEF goal, a

LEMMA ReadTagsActs ==
  ASSUME ImportInv, NEW j \in Runs, ReadTags(j), Watched(run[j], Stored), World(Stored)
  PROVE  AssetEffect(run[j], run'[j], Stored, Stored')
  <1> DEFINE q == run[j]
             a == AssetOf(q)
             r == run'[j]
             goal == Goal(q, q.row.tags)
             c(how) == Counted(q, "assets", how)
             fits == AssetFits(a, q.row, Stored) /\ TagsKept(a, q.row.tags)
  <1>1. q.phase = "tags" /\ q.phase \in AtAsset /\ RunOK(q) /\ q \in Run /\ Reads
        /\ q.at \in DOMAIN q.bundle.assets /\ q.row \in Asset
    BY DEF ReadTags, AtAsset, ImportInv, RunOK, Placed
  <1>2. Stored' = Stored
    BY <1>1 DEF Reads, tables, Stored
  <1>3. q.row = assets[a.ip] /\ q.row # Nil
    BY <1>1, RowsNotNil DEF Watched, Progress, Deciding, Stored
  <1>4. TagsNow(a.ip) = q.row.tags
    BY <1>3 DEF TagsNow
  <1>5. AssetSays(a, Stored) = IF fits THEN "skip" ELSE "update"
    BY <1>3 DEF AssetSays, Stored
  <1>6. (goal = [q.row EXCEPT !.tags = goal.tags]) <=> AssetFits(a, q.row, Stored)
    BY <1>1, GoalMet
  <1> HIDE DEF goal
  <1>7. IF fits THEN NextAsset(j, [q EXCEPT !.count = c("skip")])
        ELSE IF q.dry THEN NextAsset(j, [q EXCEPT !.count = c("update")])
        ELSE Continue(j, [[q EXCEPT !.count = c("update")] EXCEPT !.phase = "update",
                                                                   !.goal = goal])
    <2>1. IF goal = [q.row EXCEPT !.tags = goal.tags] /\ TagsKept(a, q.row.tags)
          THEN NextAsset(j, [q EXCEPT !.count = c("skip")])
          ELSE IF q.dry THEN NextAsset(j, [q EXCEPT !.count = c("update")])
          ELSE Continue(j, [[q EXCEPT !.count = c("update")] EXCEPT !.phase = "update",
                                                                     !.goal = goal])
      BY <1>4 DEF ReadTags, goal
    <2> QED BY <1>6, <2>1
  <1>8. ASSUME NEW how, how = AssetSays(a, Stored), q.dry \/ AssetSettled(a, q.row, Stored),
               NextAsset(j, [q EXCEPT !.count = c(how)])
        PROVE  AssetEffect(q, r, Stored, Stored')
    <2>1. r = [[q EXCEPT !.count = c(how)] EXCEPT !.phase = "assets", !.at = @ + 1, !.row = Nil,
                                                  !.goal = Nil]
      BY <1>8, ContinueIs DEF NextAsset
    <2>2. AssetStep(q, r, "assets", q.at + 1, c(how), Nil, Nil)
      BY <1>1, <2>1, NextStep
    <2>3. Deciding(r, Stored')
      BY <2>2 DEF Deciding, AssetStep
    <2>4. q.row = Stored.assets[a.ip]
      BY <1>3 DEF Stored
    <2> QED BY <1>1, <1>2, <1>8, <2>2, <2>3, <2>4 DEF AssetEffect, AssetStep, AtAsset
  <1> HIDE DEF c
  <1>9. CASE fits
    <2>1. AssetSettled(a, q.row, Stored)
      BY <1>3, <1>9, KeptHeld DEF AssetSettled
    <2> QED BY <1>5, <1>7, <1>8, <1>9, <2>1
  <1>10. CASE ~fits /\ q.dry
    BY <1>5, <1>7, <1>8, <1>10
  <1>11. CASE ~fits /\ ~q.dry
    <2>1. AssetStep(q, r, "update", q.at, c("update"), q.row, goal)
      BY <1>1, <1>7, <1>11, ContinueIs, StayStep
    <2>2. AssetOf(r) = a /\ ProjectOf(r) = ProjectOf(q) /\ HostOf(r) = HostOf(q)
          /\ r.row = q.row /\ r.phase = "update" /\ r.goal = goal
      BY <2>1 DEF AssetStep, Carried, AssetOf, ProjectOf, HostOf
    <2>3. goal = Goal(r, r.row.tags)
      BY <2>2 DEF Goal, goal
    <2>4. Deciding(r, Stored')
      BY <1>1, <1>2, <1>3, <2>2, <2>3 DEF Deciding, Stored
    <2>5. c("update") = Counted(q, "assets", AssetSays(a, Stored))
      BY <1>5, <1>11 DEF c
    <2> QED BY <1>1, <1>2, <1>11, <2>1, <2>4, <2>5 DEF AssetEffect, AssetStep, AtAsset
  <1> QED BY <1>9, <1>10, <1>11

LEMMA SettledNow ==
  ASSUME NEW a, NEW T, NEW row \in Asset, NEW x \in BOOLEAN, a.archived \in {Nil, x},
         a.keepType \/ row.type = a.type,
         a.project # Nil => row.project \in Called(T.projects, a.project),
         a.host # Nil => row.host \in Called(T.hosts, a.host),
         WritesNotes(a, row) => row.notes = a.notes, TagsHeld(a, row.tags)
  PROVE  AssetSettled(a, [row EXCEPT !.archived = x], T) /\ [row EXCEPT !.archived = x] # Nil
  <1> DEFINE new == [row EXCEPT !.archived = x]
  <1>1. /\ new.type = row.type /\ new.project = row.project /\ new.host = row.host
        /\ new.notes = row.notes /\ new.tags = row.tags /\ new.archived = x
    BY SMT DEF Asset
  <1>2. new \in Asset
    BY Zenon DEF Asset
  <1> HIDE DEF new
  <1>3. new # Nil
    BY <1>2, RowsNotNil
  <1>4. WritesNotes(a, new) <=> WritesNotes(a, row)
    BY <1>1 DEF WritesNotes
  <1>5. AssetSettled(a, new, T)
    BY <1>1, <1>3, <1>4 DEF AssetSettled, AssetFits
  <1> QED BY <1>3, <1>5 DEF new

LEMMA TargetHeld ==
  ASSUME NEW a, NEW tags
  PROVE  TagsHeld(a, TargetTags(a, tags))
  <1>1. CASE a.tags = Nil
    BY <1>1 DEF TagsHeld
  <1>2. CASE a.tags # Nil /\ a.merge
    BY <1>2 DEF TagsHeld, TargetTags
  <1>3. CASE a.tags # Nil /\ ~a.merge
    BY <1>3 DEF TagsHeld, TargetTags
  <1> QED BY <1>1, <1>2, <1>3

(* An entry's project and host exist, when its run applies it.             *)
LEMMA BothExist ==
  ASSUME NEW q, Watched(q, Stored), World(Stored), q.phase \in AtAsset,
         q.at \in DOMAIN q.bundle.assets, ~q.dry
  PROVE  Exists(ProjectOf(q), HostOf(q))
  <1>1. ProjectOf(q) \in Live(projects) \union {Nil}
    <2>1. CASE AssetOf(q).project = Nil
      BY <2>1 DEF ProjectOf
    <2>2. CASE AssetOf(q).project # Nil
      BY <2>2, ProjectFound DEF Called, Stored
    <2> QED BY <2>1, <2>2
  <1>2. HostOf(q) \in Live(hosts) \union {Nil}
    <2>1. CASE AssetOf(q).host = Nil
      BY <2>1 DEF HostOf
    <2>2. CASE AssetOf(q).host # Nil
      BY <2>2, HostFound DEF Called, Stored
    <2> QED BY <2>1, <2>2
  <1> QED BY <1>1, <1>2 DEF Exists

(* A row is written, and what is left to do of its entry is to archive it  *)
(* or to bring it back.                                                    *)
LEMMA WriteActs ==
  ASSUME ImportInv, NEW j \in Runs, World(Stored), Watched(run[j], Stored),
         run[j].phase \in {"create", "update"}, run[j].at \in DOMAIN run[j].bundle.assets,
         NEW row \in Asset, AssetOf(run[j]).ip \in Ips,
         assets' = [assets EXCEPT ![AssetOf(run[j]).ip] = row],
         UNCHANGED <<vendors, projects, hosts>>,
         \A x \in BOOLEAN : AssetOf(run[j]).archived \in {Nil, x} =>
           AssetSettled(AssetOf(run[j]), [row EXCEPT !.archived = x], Stored),
         \/ /\ AssetOf(run[j]).archived \in BOOLEAN
            /\ \/ Continue(j, [run[j] EXCEPT !.phase = "archive"])
               \/ Continue(j, [Wrote(run[j]) EXCEPT !.phase = "archive"])
         \/ /\ AssetOf(run[j]).archived \in {Nil, row.archived}
            /\ NextAsset(j, run[j]) \/ NextAsset(j, Wrote(run[j]))
  PROVE  AssetEffect(run[j], run'[j], Stored, Stored')
  <1> DEFINE q == run[j]
             a == AssetOf(q)
             r == run'[j]
  <1>1. q \in Run /\ RunOK(q) /\ ~q.dry /\ q.phase \in AtAsset /\ assets \in [Ips -> Asset \union {Nil}]
        /\ q.phase \notin {"assets", "tags"}
    BY DEF ImportInv, RunOK, Allowed, AtAsset, TablesOK
  <1>2. assets'[a.ip] = row /\ \A ip \in Ips \ {a.ip} : assets'[ip] = assets[ip]
    BY <1>1
  <1>3. Stored'.vendors = vendors /\ Stored'.projects = projects /\ Stored'.hosts = hosts
        /\ Stored'.assets = assets'
    BY DEF Stored
  <1>4. \A x : AssetSettled(a, x, Stored') <=> AssetSettled(a, x, Stored)
    BY <1>3 DEF AssetSettled, AssetFits, Stored
  <1>5. row # Nil /\ row.archived \in BOOLEAN /\ [row EXCEPT !.archived = row.archived] = row
    BY RowsNotNil, SMT DEF Asset
  <1>6. CASE /\ a.archived \in BOOLEAN
             /\ \/ Continue(j, [q EXCEPT !.phase = "archive"])
                \/ Continue(j, [Wrote(q) EXCEPT !.phase = "archive"])
    <2>1. \/ r = [q EXCEPT !.phase = "archive"]
          \/ r = [Wrote(q) EXCEPT !.phase = "archive"]
      BY <1>6, ContinueIs
    <2>2. AssetStep(q, r, "archive", q.at, q.count, q.row, q.goal)
      BY <1>1, <2>1, StayStep
    <2>3. AssetOf(r) = a
      BY <2>2 DEF AssetStep, Carried, AssetOf
    <2>4. AssetSettled(a, [row EXCEPT !.archived = a.archived], Stored)
      BY <1>6
    <2>5. Deciding(r, Stored')
      BY <1>2, <1>3, <1>4, <1>5, <2>2, <2>3, <2>4 DEF Deciding, AssetStep
    <2> QED BY <1>1, <1>2, <1>3, <2>2, <2>5 DEF AssetEffect, AssetStep, AtAsset, Stored
  <1>7. CASE /\ a.archived \in {Nil, row.archived}
             /\ NextAsset(j, q) \/ NextAsset(j, Wrote(q))
    <2>1. \/ r = [q EXCEPT !.phase = "assets", !.at = @ + 1, !.row = Nil, !.goal = Nil]
          \/ r = [Wrote(q) EXCEPT !.phase = "assets", !.at = @ + 1, !.row = Nil, !.goal = Nil]
      BY <1>7, ContinueIs DEF NextAsset
    <2>2. AssetStep(q, r, "assets", q.at + 1, q.count, Nil, Nil)
      BY <1>1, <2>1, NextStep
    <2>3. Deciding(r, Stored')
      BY <2>2 DEF Deciding, AssetStep
    <2>4. AssetSettled(a, [row EXCEPT !.archived = row.archived], Stored)
      BY <1>5, <1>7
    <2>5. AssetSettled(a, Stored'.assets[a.ip], Stored')
      BY <1>2, <1>3, <1>4, <1>5, <2>4
    <2> QED BY <1>1, <1>2, <1>3, <2>2, <2>3, <2>5 DEF AssetEffect, AssetStep, AtAsset, Stored
  <1> QED BY <1>6, <1>7

LEMMA CreateAssetActs ==
  ASSUME ImportInv, NEW j \in Runs, CreateAsset(j), Watched(run[j], Stored), World(Stored)
  PROVE  AssetEffect(run[j], run'[j], Stored, Stored')
  <1> DEFINE q == run[j]
             a == AssetOf(q)
             tags == IF a.tags # Nil THEN TagsIn(a.tags) ELSE {}
             row == [type |-> a.type, project |-> ProjectOf(q), host |-> HostOf(q),
                     notes |-> a.notes, archived |-> FALSE, tags |-> tags]
  <1>1. q.phase = "create" /\ RunOK(q) /\ q \in Run /\ ~q.dry /\ q.phase \in AtAsset
        /\ q.at \in DOMAIN q.bundle.assets
    BY DEF CreateAsset, ImportInv, RunOK, Placed, Allowed, AtAsset
  <1>2. assets[a.ip] = Nil
    BY <1>1 DEF Watched, Progress, Deciding, Stored
  <1>3. Exists(ProjectOf(q), HostOf(q))
    BY <1>1, BothExist
  <1>4. /\ a.ip \in Ips /\ a.type \in Types /\ a.notes \in Notes \union {Nil}
        /\ a.archived \in BOOLEAN \union {Nil}
        /\ a.tags # Nil => TagsIn(a.tags) \subseteq TagNames
    BY <1>1, AssetChecked
  <1>5. ProjectOf(q) \in Ids \union {Nil} /\ HostOf(q) \in Ids \union {Nil}
    BY <1>3 DEF Exists, Live
  <1>6. tags \in SUBSET TagNames
    BY <1>4
  <1>7. /\ Written(a, row)
        /\ IF a.archived = TRUE THEN Continue(j, [Wrote(q) EXCEPT !.phase = "archive"])
                                ELSE NextAsset(j, Wrote(q))
    BY <1>2, <1>3 DEF CreateAsset
  <1>8. a.project # Nil => ProjectOf(q) \in Called(Stored.projects, a.project)
    BY <1>1, ProjectFound
  <1>9. a.host # Nil => HostOf(q) \in Called(Stored.hosts, a.host)
    BY <1>1, HostFound
  <1>10. TagsHeld(a, tags)
    BY DEF TagsHeld
  <1> HIDE DEF tags, a
  <1>11. /\ row \in Asset /\ row.type = a.type /\ row.project = ProjectOf(q)
         /\ row.host = HostOf(q) /\ row.notes = a.notes /\ row.archived = FALSE
         /\ row.tags = tags
    BY <1>4, <1>5, <1>6, Zenon DEF Asset
  <1> HIDE DEF row
  <1>12. \A x \in BOOLEAN : a.archived \in {Nil, x} =>
           AssetSettled(a, [row EXCEPT !.archived = x], Stored)
    BY <1>8, <1>9, <1>10, <1>11, SettledNow
  <1>13. assets' = [assets EXCEPT ![a.ip] = row] /\ UNCHANGED <<vendors, projects, hosts>>
    BY <1>7 DEF Written
  <1>14. \/ /\ a.archived \in BOOLEAN
            /\ Continue(j, [Wrote(q) EXCEPT !.phase = "archive"])
         \/ /\ a.archived \in {Nil, row.archived}
            /\ NextAsset(j, Wrote(q))
    BY <1>4, <1>7, <1>11
  <1> QED BY <1>1, <1>4, <1>11, <1>12, <1>13, <1>14, WriteActs DEF a

LEMMA UpdateAssetActs ==
  ASSUME ImportInv, NEW j \in Runs, UpdateAsset(j), Watched(run[j], Stored), World(Stored)
  PROVE  AssetEffect(run[j], run'[j], Stored, Stored')
  <1> DEFINE q == run[j]
             a == AssetOf(q)
             now == assets[a.ip]
             next == [now EXCEPT !.type = q.goal.type, !.project = Or(ProjectOf(q), @),
                                 !.host = Or(HostOf(q), @),
                                 !.notes = IF WritesNotes(a, q.row) THEN a.notes ELSE @,
                                 !.tags = q.goal.tags]
             After(r) == IF a.archived # Nil THEN Continue(j, [r EXCEPT !.phase = "archive"])
                                             ELSE NextAsset(j, r)
  <1>1. q.phase = "update" /\ RunOK(q) /\ q \in Run /\ ~q.dry /\ q.phase \in AtAsset
        /\ q.at \in DOMAIN q.bundle.assets /\ assets \in [Ips -> Asset \union {Nil}]
        /\ q.goal \in Goals
    BY DEF UpdateAsset, ImportInv, RunOK, Placed, Allowed, AtAsset, TablesOK
  <1>2. q.row \in Asset /\ now = q.row /\ q.goal = Goal(q, q.row.tags) /\ now # Nil
    BY <1>1, RowsNotNil DEF Watched, Progress, Deciding, Stored
  <1>3. Exists(ProjectOf(q), HostOf(q))
    BY <1>1, BothExist
  <1>4. /\ a.ip \in Ips /\ a.type \in Types /\ a.notes \in Notes \union {Nil}
        /\ a.archived \in BOOLEAN \union {Nil}
    BY <1>1, AssetChecked
  <1>5. \/ next = now /\ After(q) /\ Reads
        \/ Written(a, next) /\ After(Wrote(q))
    BY <1>2, <1>3 DEF UpdateAsset
  <1>6. /\ now.project \in Ids \union {Nil} /\ now.host \in Ids \union {Nil}
        /\ now.notes \in Notes \union {Discovered, Nil} /\ now.archived \in BOOLEAN
    BY <1>2, SMT DEF Asset
  <1>7. /\ Or(ProjectOf(q), now.project) \in Ids \union {Nil}
        /\ Or(HostOf(q), now.host) \in Ids \union {Nil}
    BY <1>3, <1>6 DEF Exists, Or, Live
  <1>8. (IF WritesNotes(a, q.row) THEN a.notes ELSE now.notes) \in Notes \union {Discovered, Nil}
    BY <1>4, <1>6
  <1>9. q.goal.type \in Types /\ q.goal.tags \in SUBSET TagNames
    BY <1>1, SMT DEF Goals
  <1>10. q.goal.type = (IF a.keepType THEN q.row.type ELSE a.type)
         /\ q.goal.tags = TargetTags(a, q.row.tags)
    BY <1>2 DEF Goal
  <1> HIDE DEF a, now
  <1>11. next \in Asset
    BY <1>2, <1>7, <1>8, <1>9, Zenon DEF Asset
  <1>12. /\ next.type = q.goal.type /\ next.project = Or(ProjectOf(q), now.project)
         /\ next.host = Or(HostOf(q), now.host) /\ next.tags = q.goal.tags
         /\ next.notes = (IF WritesNotes(a, q.row) THEN a.notes ELSE now.notes)
         /\ next.archived = now.archived
    BY <1>2, SMT DEF Asset
  <1> HIDE DEF next
  <1>13. a.project # Nil => next.project \in Called(Stored.projects, a.project)
    <2>1. a.project # Nil => ProjectOf(q) # Nil /\ ProjectOf(q) \in Called(Stored.projects, a.project)
      BY <1>1, ProjectFound DEF a
    <2> QED BY <1>12, <2>1 DEF Or
  <1>14. a.host # Nil => next.host \in Called(Stored.hosts, a.host)
    <2>1. a.host # Nil => HostOf(q) # Nil /\ HostOf(q) \in Called(Stored.hosts, a.host)
      BY <1>1, HostFound DEF a
    <2> QED BY <1>12, <2>1 DEF Or
  <1>15. WritesNotes(a, next) => next.notes = a.notes
    BY <1>2, <1>12 DEF WritesNotes
  <1>16. a.keepType \/ next.type = a.type
    BY <1>10, <1>12
  <1>17. TagsHeld(a, next.tags)
    BY <1>10, <1>12, TargetHeld
  <1>18. \A x \in BOOLEAN : a.archived \in {Nil, x} =>
           AssetSettled(a, [next EXCEPT !.archived = x], Stored)
    BY <1>11, <1>13, <1>14, <1>15, <1>16, <1>17, SettledNow
  <1>19. assets' = [assets EXCEPT ![a.ip] = next] /\ UNCHANGED <<vendors, projects, hosts>>
    <2>1. CASE next = now /\ Reads
      BY <1>1, <1>4, <2>1 DEF Reads, tables, now
    <2>2. CASE Written(a, next)
      BY <2>2 DEF Written
    <2> QED BY <1>5, <2>1, <2>2
  <1>20. \/ /\ a.archived \in BOOLEAN
            /\ \/ Continue(j, [q EXCEPT !.phase = "archive"])
               \/ Continue(j, [Wrote(q) EXCEPT !.phase = "archive"])
         \/ /\ a.archived \in {Nil, next.archived}
            /\ NextAsset(j, q) \/ NextAsset(j, Wrote(q))
    BY <1>4, <1>5
  <1> QED BY <1>1, <1>4, <1>11, <1>18, <1>19, <1>20, WriteActs DEF a

LEMMA ArchiveAssetActs ==
  ASSUME ImportInv, NEW j \in Runs, ArchiveAsset(j), Watched(run[j], Stored)
  PROVE  AssetEffect(run[j], run'[j], Stored, Stored')
  <1> DEFINE q == run[j]
             a == AssetOf(q)
             r == run'[j]
             row == [assets[a.ip] EXCEPT !.archived = a.archived]
  <1>1. q.phase = "archive" /\ RunOK(q) /\ q \in Run /\ ~q.dry /\ q.phase \in AtAsset
        /\ q.at \in DOMAIN q.bundle.assets /\ assets \in [Ips -> Asset \union {Nil}]
    BY DEF ArchiveAsset, ImportInv, RunOK, Placed, Allowed, AtAsset, TablesOK
  <1>2. a.ip \in Ips
    BY <1>1, AssetChecked
  <1>3. assets[a.ip] # Nil /\ AssetSettled(a, row, Stored)
    BY <1>1 DEF Watched, Progress, Deciding, Stored
  <1>4. assets' = [assets EXCEPT ![a.ip] = row] /\ UNCHANGED <<vendors, projects, hosts>>
        /\ NextAsset(j, Wrote(q))
    BY <1>3 DEF ArchiveAsset, Written
  <1> HIDE DEF row
  <1>5. r = [Wrote(q) EXCEPT !.phase = "assets", !.at = @ + 1, !.row = Nil, !.goal = Nil]
    BY <1>4, ContinueIs DEF NextAsset
  <1>6. AssetStep(q, r, "assets", q.at + 1, q.count, Nil, Nil)
    BY <1>1, <1>5, NextStep
  <1>7. Deciding(r, Stored')
    BY <1>6 DEF Deciding, AssetStep
  <1>8. assets'[a.ip] = row /\ \A ip \in Ips \ {a.ip} : assets'[ip] = assets[ip]
    BY <1>1, <1>2, <1>4
  <1>9. AssetSettled(a, Stored'.assets[a.ip], Stored')
    BY <1>3, <1>4, <1>8 DEF AssetSettled, AssetFits, Stored
  <1> QED BY <1>1, <1>4, <1>6, <1>7, <1>8, <1>9 DEF AssetEffect, AssetStep, AtAsset, Stored
-----------------------------------------------------------------------------
(* What a step makes of the commits: its run counts its own.               *)

Grown(q, r, n) ==
  /\ Carried(q, r) /\ r.wrote = q.wrote + n /\ r.end = q.end
  /\ r.phase = q.phase \/ Going(r)

LEMMA EntryGrows ==
  ASSUME NEW q \in Run, NEW c, NEW r
  PROVE  /\ r = [[q EXCEPT !.count = c] EXCEPT !.at = @ + 1] => Grown(q, r, 0)
         /\ r = [Wrote([q EXCEPT !.count = c]) EXCEPT !.at = @ + 1] => Grown(q, r, 1)
  <1>1. r = [[q EXCEPT !.count = c] EXCEPT !.at = @ + 1] => Grown(q, r, 0)
    BY SMT DEF Run, Grown, Carried, Going, Applying, Scanning
  <1>2. r = [Wrote([q EXCEPT !.count = c]) EXCEPT !.at = @ + 1] => Grown(q, r, 1)
    BY SMT DEF Run, Grown, Carried, Going, Applying, Scanning, Wrote
  <1> QED BY <1>1, <1>2

LEMMA NamedGrows ==
  ASSUME NEW q \in Run, NEW c, NEW n, NEW i, NEW r
  PROVE  /\ r = [[[q EXCEPT !.count = c] EXCEPT !.projectIds[n] = i] EXCEPT !.at = @ + 1]
            => Grown(q, r, 0)
         /\ r = [Wrote([[q EXCEPT !.count = c] EXCEPT !.projectIds[n] = i]) EXCEPT !.at = @ + 1]
            => Grown(q, r, 1)
         /\ r = [[[q EXCEPT !.count = c] EXCEPT !.hostIds[n] = i] EXCEPT !.at = @ + 1]
            => Grown(q, r, 0)
         /\ r = [Wrote([[q EXCEPT !.count = c] EXCEPT !.hostIds[n] = i]) EXCEPT !.at = @ + 1]
            => Grown(q, r, 1)
  <1>1. r = [[[q EXCEPT !.count = c] EXCEPT !.projectIds[n] = i] EXCEPT !.at = @ + 1]
        => Grown(q, r, 0)
    BY SMT DEF Run, Grown, Carried, Going, Applying, Scanning
  <1>2. r = [Wrote([[q EXCEPT !.count = c] EXCEPT !.projectIds[n] = i]) EXCEPT !.at = @ + 1]
        => Grown(q, r, 1)
    BY SMT DEF Run, Grown, Carried, Going, Applying, Scanning, Wrote
  <1>3. r = [[[q EXCEPT !.count = c] EXCEPT !.hostIds[n] = i] EXCEPT !.at = @ + 1]
        => Grown(q, r, 0)
    BY SMT DEF Run, Grown, Carried, Going, Applying, Scanning
  <1>4. r = [Wrote([[q EXCEPT !.count = c] EXCEPT !.hostIds[n] = i]) EXCEPT !.at = @ + 1]
        => Grown(q, r, 1)
    BY SMT DEF Run, Grown, Carried, Going, Applying, Scanning, Wrote
  <1> QED BY <1>1, <1>2, <1>3, <1>4

LEMMA AssetGrows ==
  ASSUME NEW q \in Run, NEW c, NEW r
  PROVE  /\ r = [q EXCEPT !.phase = "assets", !.at = @ + 1, !.row = Nil, !.goal = Nil]
            => Grown(q, r, 0)
         /\ r = [[q EXCEPT !.count = c] EXCEPT !.phase = "assets", !.at = @ + 1, !.row = Nil,
                                               !.goal = Nil]
            => Grown(q, r, 0)
         /\ r = [Wrote(q) EXCEPT !.phase = "assets", !.at = @ + 1, !.row = Nil, !.goal = Nil]
            => Grown(q, r, 1)
  <1>1. r = [q EXCEPT !.phase = "assets", !.at = @ + 1, !.row = Nil, !.goal = Nil]
        => Grown(q, r, 0)
    BY SMT DEF Run, Grown, Carried, Going, Applying, Scanning
  <1>2. r = [[q EXCEPT !.count = c] EXCEPT !.phase = "assets", !.at = @ + 1, !.row = Nil,
                                           !.goal = Nil]
        => Grown(q, r, 0)
    BY SMT DEF Run, Grown, Carried, Going, Applying, Scanning
  <1>3. r = [Wrote(q) EXCEPT !.phase = "assets", !.at = @ + 1, !.row = Nil, !.goal = Nil]
        => Grown(q, r, 1)
    BY SMT DEF Run, Grown, Carried, Going, Applying, Scanning, Wrote
  <1> QED BY <1>1, <1>2, <1>3

LEMMA StayGrows ==
  ASSUME NEW q \in Run, NEW c, NEW x, NEW r
  PROVE  /\ r = [q EXCEPT !.phase = "tags", !.row = x] => Grown(q, r, 0)
         /\ r = [[q EXCEPT !.count = c] EXCEPT !.phase = "create"] => Grown(q, r, 0)
         /\ r = [[q EXCEPT !.count = c] EXCEPT !.phase = "update", !.goal = x] => Grown(q, r, 0)
         /\ r = [q EXCEPT !.phase = "archive"] => Grown(q, r, 0)
         /\ r = [Wrote(q) EXCEPT !.phase = "archive"] => Grown(q, r, 1)
  <1>1. r = [q EXCEPT !.phase = "tags", !.row = x] => Grown(q, r, 0)
    BY SMT DEF Run, Grown, Carried, Going, Applying, Scanning
  <1>2. r = [[q EXCEPT !.count = c] EXCEPT !.phase = "create"] => Grown(q, r, 0)
    BY SMT DEF Run, Grown, Carried, Going, Applying, Scanning
  <1>3. r = [[q EXCEPT !.count = c] EXCEPT !.phase = "update", !.goal = x] => Grown(q, r, 0)
    BY SMT DEF Run, Grown, Carried, Going, Applying, Scanning
  <1>4. r = [q EXCEPT !.phase = "archive"] => Grown(q, r, 0)
    BY SMT DEF Run, Grown, Carried, Going, Applying, Scanning
  <1>5. r = [Wrote(q) EXCEPT !.phase = "archive"] => Grown(q, r, 1)
    BY SMT DEF Run, Grown, Carried, Going, Applying, Scanning, Wrote
  <1> QED BY <1>1, <1>2, <1>3, <1>4, <1>5

LEMMA ScanGrows ==
  ASSUME NEW q \in Run, NEW c, NEW r
  PROVE  /\ r = [q EXCEPT !.phase = "discover", !.count = c] => Grown(q, r, 0)
         /\ r = [[Wrote(q) EXCEPT !.phase = "scan"] EXCEPT !.at = @ + 1] => Grown(q, r, 1)
  <1>1. r = [q EXCEPT !.phase = "discover", !.count = c] => Grown(q, r, 0)
    BY SMT DEF Run, Grown, Carried, Going, Applying, Scanning
  <1>2. r = [[Wrote(q) EXCEPT !.phase = "scan"] EXCEPT !.at = @ + 1] => Grown(q, r, 1)
    BY SMT DEF Run, Grown, Carried, Going, Applying, Scanning, Wrote
  <1> QED BY <1>1, <1>2

LEMMA OpenGrows ==
  ASSUME NEW q \in Run, NEW x, NEW y, NEW r
  PROVE  /\ r = [q EXCEPT !.phase = "valid"] => Grown(q, r, 0)
         /\ r = [q EXCEPT !.phase = "vendors", !.at = 1, !.known = x] => Grown(q, r, 0)
         /\ r = [q EXCEPT !.phase = "projects", !.at = 1, !.known = x, !.projectIds = y]
            => Grown(q, r, 0)
         /\ r = [q EXCEPT !.phase = "hosts", !.at = 1, !.known = x, !.hostIds = y]
            => Grown(q, r, 0)
         /\ r = [q EXCEPT !.phase = "assets", !.at = 1, !.known = Nil] => Grown(q, r, 0)
  <1>1. r = [q EXCEPT !.phase = "valid"] => Grown(q, r, 0)
    BY SMT DEF Run, Grown, Carried, Going, Applying, Scanning
  <1>2. r = [q EXCEPT !.phase = "vendors", !.at = 1, !.known = x] => Grown(q, r, 0)
    BY SMT DEF Run, Grown, Carried, Going, Applying, Scanning
  <1>3. r = [q EXCEPT !.phase = "projects", !.at = 1, !.known = x, !.projectIds = y]
        => Grown(q, r, 0)
    BY SMT DEF Run, Grown, Carried, Going, Applying, Scanning
  <1>4. r = [q EXCEPT !.phase = "hosts", !.at = 1, !.known = x, !.hostIds = y]
        => Grown(q, r, 0)
    BY SMT DEF Run, Grown, Carried, Going, Applying, Scanning
  <1>5. r = [q EXCEPT !.phase = "assets", !.at = 1, !.known = Nil] => Grown(q, r, 0)
    BY SMT DEF Run, Grown, Carried, Going, Applying, Scanning
  <1> QED BY <1>1, <1>2, <1>3, <1>4, <1>5

(* What a run ends with.                                                   *)
EndedAs(q, r, end, alone) ==
  /\ Carried(q, r) /\ r.wrote = q.wrote /\ r.count = q.count
  /\ r.phase = "ended" /\ r.end = end /\ r.alone = alone

LEMMA StopIs ==
  ASSUME ImportInv, NEW j \in Runs, NEW e, Stop(j, run[j], e)
  PROVE  EndedAs(run[j], run'[j], e, commits = run[j].base + run[j].wrote)
  <1> DEFINE q == run[j]
             now == commits = q.base + q.wrote
             r == [q EXCEPT !.phase = "ended", !.end = e, !.known = Nil, !.row = Nil,
                            !.goal = Nil, !.alone = now]
  <1>1. q \in Run /\ run'[j] = r
    BY DEF ImportInv, Stop
  <1> HIDE DEF now
  <1>2. EndedAs(q, r, e, now)
    BY <1>1, SMT DEF Run, EndedAs, Carried
  <1> QED BY <1>1, <1>2 DEF now
(* A step leaves the tables alone, or commits once and counts it.          *)
Charged(j) ==
  LET q == run[j] r == run'[j] IN
  \/ Grown(q, r, 0) /\ commits' = commits /\ Stored' = Stored
  \/ Grown(q, r, 1) /\ commits' = commits + 1
  \/ /\ \E end \in Ends : EndedAs(q, r, end, commits = q.base + q.wrote)
     /\ commits' = commits /\ Stored' = Stored

LEMMA ReadsCharged ==
  ASSUME NEW j, Reads, Grown(run[j], run'[j], 0)
  PROVE  Charged(j)
  BY DEF Reads, tables, Stored, Charged

LEMMA StopCharged ==
  ASSUME ImportInv, NEW j \in Runs, NEW e \in Ends, Stop(j, run[j], e),
         UNCHANGED <<tables, commits>>
  PROVE  Charged(j)
  BY StopIs DEF tables, Stored, Charged

LEMMA RaiseCharged ==
  ASSUME ImportInv, NEW j \in Runs, Raise(j)
  PROVE  Charged(j)
  BY StopCharged DEF Raise, Reads, Ends

LEMMA EntryCharged ==
  ASSUME ImportInv, NEW j \in Runs, NEW c,
         \/ Advance(j, [run[j] EXCEPT !.count = c]) /\ Reads
         \/ Advance(j, Wrote([run[j] EXCEPT !.count = c])) /\ Writes
  PROVE  Charged(j)
  <1>1. run[j] \in Run
    BY DEF ImportInv
  <1>2. CASE Advance(j, [run[j] EXCEPT !.count = c]) /\ Reads
    BY <1>1, <1>2, MovesOn, EntryGrows, ReadsCharged
  <1>3. CASE Advance(j, Wrote([run[j] EXCEPT !.count = c])) /\ Writes
    BY <1>1, <1>3, MovesOn, EntryGrows DEF Charged, Writes
  <1> QED BY <1>2, <1>3

LEMMA NamedCharged ==
  ASSUME ImportInv, NEW j \in Runs, NEW c, NEW n, NEW i,
         \/ Advance(j, [[run[j] EXCEPT !.count = c] EXCEPT !.projectIds[n] = i]) /\ Reads
         \/ Advance(j, Wrote([[run[j] EXCEPT !.count = c] EXCEPT !.projectIds[n] = i])) /\ Writes
         \/ Advance(j, [[run[j] EXCEPT !.count = c] EXCEPT !.hostIds[n] = i]) /\ Reads
         \/ Advance(j, Wrote([[run[j] EXCEPT !.count = c] EXCEPT !.hostIds[n] = i])) /\ Writes
  PROVE  Charged(j)
  <1> DEFINE q == run[j]
             P == [[q EXCEPT !.count = c] EXCEPT !.projectIds[n] = i]
             H == [[q EXCEPT !.count = c] EXCEPT !.hostIds[n] = i]
  <1>1. q \in Run
    BY DEF ImportInv
  <1>2. /\ \A r : r = [P EXCEPT !.at = @ + 1] => Grown(q, r, 0)
        /\ \A r : r = [Wrote(P) EXCEPT !.at = @ + 1] => Grown(q, r, 1)
        /\ \A r : r = [H EXCEPT !.at = @ + 1] => Grown(q, r, 0)
        /\ \A r : r = [Wrote(H) EXCEPT !.at = @ + 1] => Grown(q, r, 1)
    BY <1>1, NamedGrows
  <1>3. \/ (Advance(j, P) \/ Advance(j, H)) /\ Reads
        \/ (Advance(j, Wrote(P)) \/ Advance(j, Wrote(H))) /\ Writes
    OBVIOUS
  <1> HIDE DEF P, H
  <1>4. CASE Advance(j, P) /\ Reads
    BY <1>2, <1>4, MovesOn, ReadsCharged
  <1>5. CASE Advance(j, H) /\ Reads
    BY <1>2, <1>5, MovesOn, ReadsCharged
  <1>6. CASE Advance(j, Wrote(P)) /\ Writes
    BY <1>2, <1>6, MovesOn DEF Charged, Writes
  <1>7. CASE Advance(j, Wrote(H)) /\ Writes
    BY <1>2, <1>7, MovesOn DEF Charged, Writes
  <1> QED BY <1>3, <1>4, <1>5, <1>6, <1>7

LEMMA AssetCharged ==
  ASSUME ImportInv, NEW j \in Runs, NEW c, NEW x,
         \/ NextAsset(j, run[j]) /\ Reads
         \/ NextAsset(j, [run[j] EXCEPT !.count = c]) /\ Reads
         \/ NextAsset(j, Wrote(run[j])) /\ Writes
         \/ Continue(j, [run[j] EXCEPT !.phase = "tags", !.row = x]) /\ Reads
         \/ Continue(j, [[run[j] EXCEPT !.count = c] EXCEPT !.phase = "create"]) /\ Reads
         \/ /\ Continue(j, [[run[j] EXCEPT !.count = c] EXCEPT !.phase = "update", !.goal = x])
            /\ Reads
         \/ Continue(j, [run[j] EXCEPT !.phase = "archive"]) /\ Reads
         \/ Continue(j, [Wrote(run[j]) EXCEPT !.phase = "archive"]) /\ Writes
  PROVE  Charged(j)
  <1> DEFINE q == run[j]
  <1>1. q \in Run
    BY DEF ImportInv
  <1>2. CASE NextAsset(j, q) /\ Reads
    <2>1. run'[j] = [q EXCEPT !.phase = "assets", !.at = @ + 1, !.row = Nil, !.goal = Nil]
      BY <1>2, ContinueIs DEF NextAsset
    <2> QED BY <1>1, <1>2, <2>1, AssetGrows, ReadsCharged
  <1>3. CASE NextAsset(j, [q EXCEPT !.count = c]) /\ Reads
    <2>1. run'[j] = [[q EXCEPT !.count = c] EXCEPT !.phase = "assets", !.at = @ + 1,
                                                   !.row = Nil, !.goal = Nil]
      BY <1>3, ContinueIs DEF NextAsset
    <2> QED BY <1>1, <1>3, <2>1, AssetGrows, ReadsCharged
  <1>4. CASE NextAsset(j, Wrote(q)) /\ Writes
    <2>1. run'[j] = [Wrote(q) EXCEPT !.phase = "assets", !.at = @ + 1, !.row = Nil, !.goal = Nil]
      BY <1>4, ContinueIs DEF NextAsset
    <2> QED BY <1>1, <1>4, <2>1, AssetGrows DEF Charged, Writes
  <1>5. CASE Continue(j, [q EXCEPT !.phase = "tags", !.row = x]) /\ Reads
    BY <1>1, <1>5, ContinueIs, StayGrows, ReadsCharged
  <1>6. CASE Continue(j, [[q EXCEPT !.count = c] EXCEPT !.phase = "create"]) /\ Reads
    BY <1>1, <1>6, ContinueIs, StayGrows, ReadsCharged
  <1>7. CASE /\ Continue(j, [[q EXCEPT !.count = c] EXCEPT !.phase = "update", !.goal = x])
             /\ Reads
    BY <1>1, <1>7, ContinueIs, StayGrows, ReadsCharged
  <1>8. CASE Continue(j, [q EXCEPT !.phase = "archive"]) /\ Reads
    BY <1>1, <1>8, ContinueIs, StayGrows, ReadsCharged
  <1>9. CASE Continue(j, [Wrote(q) EXCEPT !.phase = "archive"]) /\ Writes
    BY <1>1, <1>9, ContinueIs, StayGrows DEF Charged, Writes
  <1> QED BY <1>2, <1>3, <1>4, <1>5, <1>6, <1>7, <1>8, <1>9

LEMMA StepCharged ==
  ASSUME ImportInv, NEW j \in Runs, Step(j)
  PROVE  Charged(j)
  <1> DEFINE q == run[j]
  <1>0. q \in Run
    BY DEF ImportInv
  <1>1. CASE Validate(j)
    <2>1. CASE Continue(j, [q EXCEPT !.phase = "valid"]) /\ Reads
      BY <1>0, <2>1, ContinueIs, OpenGrows, ReadsCharged
    <2>2. CASE Stop(j, q, "invalid") /\ Reads
      BY <2>2, StopCharged DEF Reads, Ends
    <2> QED BY <1>1, <2>1, <2>2 DEF Validate
  <1>2. CASE OpenVendors(j) \/ OpenProjects(j) \/ OpenHosts(j) \/ OpenAssets(j)
    BY <1>0, <1>2, ContinueIs, OpenGrows, ReadsCharged
       DEF OpenVendors, OpenProjects, OpenHosts, OpenAssets
  <1>3. CASE VendorEntry(j)
    BY <1>3, EntryCharged, RaiseCharged DEF VendorEntry
  <1>4. CASE CreateProject(j)
    BY <1>4, NamedCharged, RaiseCharged DEF CreateProject
  <1>5. CASE UpdateProject(j)
    <2>1. PICK i \in Called(q.known, Entry(q).name) :
            \/ Advance(j, [q EXCEPT !.count = Counted(q, "projects", "skip")]) /\ Reads
            \/ Advance(j, [q EXCEPT !.count = Counted(q, "projects", "update")]) /\ Reads
            \/ Raise(j)
            \/ Advance(j, Wrote([q EXCEPT !.count = Counted(q, "projects", "update")])) /\ Writes
      BY <1>5 DEF UpdateProject
    <2> QED BY <2>1, EntryCharged, RaiseCharged
  <1>6. CASE CreateHost(j)
    BY <1>6, NamedCharged, RaiseCharged DEF CreateHost
  <1>7. CASE UpdateHost(j)
    <2>1. PICK i \in Called(q.known, Entry(q).name) :
            \/ Advance(j, [q EXCEPT !.count = Counted(q, "hosts", "skip")]) /\ Reads
            \/ Advance(j, [q EXCEPT !.count = Counted(q, "hosts", "update")]) /\ Reads
            \/ Raise(j)
            \/ Advance(j, Wrote([q EXCEPT !.count = Counted(q, "hosts", "update")])) /\ Writes
      BY <1>7 DEF UpdateHost
    <2> QED BY <2>1, EntryCharged, RaiseCharged
  <1>8. CASE ReadAsset(j)
    BY <1>8, AssetCharged DEF ReadAsset
  <1>9. CASE ReadTags(j)
    BY <1>9, AssetCharged DEF ReadTags
  <1>10. CASE CreateAsset(j)
    <2>1. \/ Raise(j)
          \/ Continue(j, [Wrote(q) EXCEPT !.phase = "archive"]) /\ Writes
          \/ NextAsset(j, Wrote(q)) /\ Writes
      BY <1>10 DEF CreateAsset, Written
    <2> QED BY <2>1, AssetCharged, RaiseCharged
  <1>11. CASE UpdateAsset(j)
    <2>1. \/ Raise(j)
          \/ Continue(j, [q EXCEPT !.phase = "archive"]) /\ Reads
          \/ NextAsset(j, q) /\ Reads
          \/ Continue(j, [Wrote(q) EXCEPT !.phase = "archive"]) /\ Writes
          \/ NextAsset(j, Wrote(q)) /\ Writes
      BY <1>11 DEF UpdateAsset, Written
    <2> QED BY <2>1, AssetCharged, RaiseCharged
  <1>12. CASE ArchiveAsset(j)
    BY <1>12, AssetCharged DEF ArchiveAsset, Written
  <1>13. CASE Record(j)
    BY <1>13, StopCharged DEF Record, Ends
  <1>14. CASE NmapDone(j)
    BY <1>14, StopCharged DEF NmapDone, Reads, Ends
  <1>15. CASE NmapRead(j)
    <2>1. CASE Continue(j, [q EXCEPT !.phase = "discover",
                                     !.count = Counted(q, "assets", "create")])
      BY <1>0, <1>15, <2>1, ContinueIs, ScanGrows, ReadsCharged DEF NmapRead
    <2> QED BY <1>15, <2>1, EntryCharged DEF NmapRead
  <1>16. CASE NmapCreate(j)
    <2>1. CASE Advance(j, [Wrote(q) EXCEPT !.phase = "scan"]) /\ Writes
      BY <1>0, <2>1, MovesOn, ScanGrows DEF Charged, Writes
    <2> QED BY <1>16, <2>1, RaiseCharged DEF NmapCreate, Written
  <1> QED BY <1>1, <1>2, <1>3, <1>4, <1>5, <1>6, <1>7, <1>8, <1>9, <1>10, <1>11, <1>12, <1>13,
             <1>14, <1>15, <1>16 DEF Step, Apply, ProjectEntry, HostEntry, Nmap
-----------------------------------------------------------------------------
(* A run begins with a file whose references resolve; a scan goes through  *)
(* its addresses; and a run is done when all its entries are.              *)

LEMMA NamesListed ==
  ASSUME NEW table, NEW n, n \in NamesIn(table)
  PROVE  Called(table, n) # {}
  BY DEF NamesIn, Called

LEMMA ValidateActs ==
  ASSUME ImportInv, NEW j \in Runs, Validate(j)
  PROVE  \/ run'[j].phase = "ended" /\ run'[j].end = "invalid"
         \/ run'[j].phase = "valid" /\ Progress(run'[j], Stored')
            /\ run'[j].count = run[j].count
  <1> DEFINE q == run[j]
             b == q.bundle
             r == [q EXCEPT !.phase = "valid"]
  <1>1. q \in Run /\ Stored' = Stored
    BY DEF ImportInv, Validate, Reads, tables, Stored
  <1>2. CASE Stop(j, q, "invalid")
    BY <1>2, StopIs DEF EndedAs
  <1>3. CASE Continue(j, r) /\ Valid(b, vendors, NamesIn(projects), NamesIn(hosts))
    <2>1. run'[j] = r
      BY <1>3, ContinueIs
    <2>2. r.phase = "valid" /\ r.bundle = b /\ r.count = q.count
      BY <1>1, SMT DEF Run
    <2> HIDE DEF r
    <2>3. Resolved(r, Stored)
      <3>1. ASSUME NEW k \in DOMAIN b.hosts
            PROVE  b.hosts[k].vendor \in vendors \union ToSet(b.vendors) \union {Nil}
        BY <1>3 DEF Valid
      <3>2. ASSUME NEW k \in DOMAIN b.assets
            PROVE  LET a == b.assets[k] IN
                   /\ a.project # Nil =>
                        Called(projects, a.project) # {} \/ a.project \in NamesOf(b.projects)
                   /\ a.host # Nil =>
                        Called(hosts, a.host) # {} \/ a.host \in NamesOf(b.hosts)
        <4>1. /\ b.assets[k].project \in NamesIn(projects) \union NamesOf(b.projects) \union {Nil}
              /\ b.assets[k].host \in NamesIn(hosts) \union NamesOf(b.hosts) \union {Nil}
          BY <1>3 DEF Valid, ValidAsset
        <4> QED BY <4>1, NamesListed
      <3> QED BY <2>2, <3>1, <3>2 DEF Resolved, Stored
    <2>4. \A s \in Section : \A k : ~Done(r, s, k)
      BY <2>2 DEF Done, Beyond, During, AtAsset, Scanning, Section
    <2>5. Fresh(r, Stored) /\ Learnt(r, Stored) /\ Deciding(r, Stored)
      BY <2>2 DEF Fresh, Learnt, Deciding, AtAsset
    <2>6. Applied(r, Stored)
      BY <2>4 DEF Applied, Section
    <2> QED BY <1>1, <2>1, <2>2, <2>3, <2>5, <2>6 DEF Progress
  <1> QED BY <1>2, <1>3 DEF Validate

ScanEffect(q, r, T, U) ==
  LET a == AssetOf(q) IN
  /\ q.phase \in Scanning /\ q.at \in DOMAIN q.bundle.assets
  /\ Carried(q, r) /\ r.phase \in Scanning
  /\ r.at = IF r.phase = "scan" THEN q.at + 1 ELSE q.at
  /\ U.vendors = T.vendors /\ U.projects = T.projects /\ U.hosts = T.hosts
  /\ \A ip \in Ips \ {a.ip} : U.assets[ip] = T.assets[ip]
  /\ Deciding(r, U)
  /\ r.count = IF q.phase = "scan" THEN Counted(q, "assets", AddressSays(a, T)) ELSE q.count

(* Nothing is known of a scan but that its address is free when it says so.*)
LEMMA ScanProgress ==
  ASSUME NEW q, NEW T, q.phase \in Scanning, q.upload.kind = "nmap", Deciding(q, T)
  PROVE  Progress(q, T)
  BY DEF Progress, Fresh, Learnt, Resolved, Applied, Scanning, AtAsset

ScanStep(q, r, phase, at, c) ==
  Carried(q, r) /\ r.phase = phase /\ r.at = at /\ r.count = c

LEMMA ScanReads ==
  ASSUME NEW q \in Run, NEW c, NEW r, r = [q EXCEPT !.phase = "discover", !.count = c]
  PROVE  ScanStep(q, r, "discover", q.at, c)
  BY SMT DEF Run, Carried, ScanStep

LEMMA ScanWrites ==
  ASSUME NEW q \in Run, NEW r, r = [[Wrote(q) EXCEPT !.phase = "scan"] EXCEPT !.at = @ + 1]
  PROVE  ScanStep(q, r, "scan", q.at + 1, q.count)
  BY SMT DEF Run, Carried, Wrote, ScanStep

LEMMA NmapReadActs ==
  ASSUME ImportInv, NEW j \in Runs, NmapRead(j)
  PROVE  ScanEffect(run[j], run'[j], Stored, Stored')
  <1> DEFINE q == run[j]
             a == AssetOf(q)
             r == run'[j]
             c(how) == Counted(q, "assets", how)
  <1>1. q.phase = "scan" /\ q.phase \in Scanning /\ RunOK(q) /\ q \in Run /\ Reads
        /\ q.bundle \in ScanBundle
    BY DEF NmapRead, Scanning, ImportInv, RunOK, Placed
  <1>2. q.at \in DOMAIN q.bundle.assets
    <2>1. q.at <= Len(q.bundle.assets) /\ q.at \in Nat \ {0}
      BY <1>1 DEF NmapRead, Run
    <2> QED BY <1>1, <2>1, Lengths
  <1>3. Stored' = Stored
    BY <1>1 DEF Reads, tables, Stored
  <1>4. ASSUME NEW how, Advance(j, [q EXCEPT !.count = c(how)])
        PROVE  Carried(q, r) /\ r.phase = "scan" /\ r.at = q.at + 1 /\ r.count = c(how)
    <2> HIDE DEF c, q
    <2>1. run'[j] = [[q EXCEPT !.count = c(how)] EXCEPT !.at = @ + 1]
      BY <1>4, MovesOn
    <2>2. EntryWith(q, r, c(how), q.projectIds, q.hostIds)
      BY <1>1, <2>1, CountedEntry
    <2> QED BY <1>1, <2>2 DEF EntryWith, EntryOf
  <1>5. CASE assets[a.ip] # Nil /\ Advance(j, [q EXCEPT !.count = c("skip")])
    <2>1. AddressSays(a, Stored) = "skip"
      BY <1>5 DEF AddressSays, Stored
    <2> HIDE DEF c
    <2>2. Carried(q, r) /\ r.phase = "scan" /\ r.at = q.at + 1 /\ r.count = c("skip")
      BY <1>4, <1>5
    <2> QED BY <1>1, <1>2, <1>3, <2>1, <2>2 DEF ScanEffect, Scanning, Deciding, c
  <1>6. CASE assets[a.ip] = Nil /\ q.dry /\ Advance(j, [q EXCEPT !.count = c("create")])
    <2>1. AddressSays(a, Stored) = "create"
      BY <1>6 DEF AddressSays, Stored
    <2> HIDE DEF c
    <2>2. Carried(q, r) /\ r.phase = "scan" /\ r.at = q.at + 1 /\ r.count = c("create")
      BY <1>4, <1>6
    <2> QED BY <1>1, <1>2, <1>3, <2>1, <2>2 DEF ScanEffect, Scanning, Deciding, c
  <1>7. CASE /\ assets[a.ip] = Nil
             /\ Continue(j, [q EXCEPT !.phase = "discover", !.count = c("create")])
    <2>1. AddressSays(a, Stored) = "create"
      BY <1>7 DEF AddressSays, Stored
    <2> HIDE DEF c
    <2>2. Carried(q, r) /\ r.phase = "discover" /\ r.at = q.at /\ r.count = c("create")
      <3>1. r = [q EXCEPT !.phase = "discover", !.count = c("create")]
        BY <1>7, ContinueIs
      <3>2. ScanStep(q, r, "discover", q.at, c("create"))
        BY <1>1, <3>1, ScanReads
      <3> QED BY <3>2 DEF ScanStep
    <2>3. AssetOf(r) = a
      BY <2>2 DEF Carried, AssetOf
    <2>4. Deciding(r, Stored')
      BY <1>3, <1>7, <2>2, <2>3 DEF Deciding, Stored
    <2> QED BY <1>1, <1>2, <1>3, <2>1, <2>2, <2>4 DEF ScanEffect, Scanning, c
  <1> QED BY <1>5, <1>6, <1>7 DEF NmapRead

LEMMA NmapCreateActs ==
  ASSUME ImportInv, NEW j \in Runs, NmapCreate(j), Watched(run[j], Stored)
  PROVE  ScanEffect(run[j], run'[j], Stored, Stored')
  <1> DEFINE q == run[j]
             a == AssetOf(q)
             r == run'[j]
             row == [type |-> a.type, project |-> Nil, host |-> Nil,
                     notes |-> Discovered, archived |-> FALSE, tags |-> {}]
  <1>1. q.phase = "discover" /\ q.phase \in Scanning /\ RunOK(q) /\ q \in Run
        /\ q.at \in DOMAIN q.bundle.assets /\ assets \in [Ips -> Asset \union {Nil}]
    BY DEF NmapCreate, Scanning, ImportInv, RunOK, Placed, TablesOK
  <1>2. assets[a.ip] = Nil
    BY <1>1 DEF Watched, Progress, Deciding, Stored
  <1>3. Written(a, row) /\ Advance(j, [Wrote(q) EXCEPT !.phase = "scan"])
    BY <1>2 DEF NmapCreate
  <1> HIDE DEF row
  <1>4. r = [[Wrote(q) EXCEPT !.phase = "scan"] EXCEPT !.at = @ + 1]
    BY <1>3, MovesOn
  <1>5. Carried(q, r) /\ r.phase = "scan" /\ r.at = q.at + 1 /\ r.count = q.count
    BY <1>1, <1>4, ScanWrites DEF ScanStep
  <1>6. assets' = [assets EXCEPT ![a.ip] = row] /\ UNCHANGED <<vendors, projects, hosts>>
    BY <1>3 DEF Written
  <1>7. \A ip \in Ips \ {a.ip} : assets'[ip] = assets[ip]
    BY <1>1, <1>6
  <1>8. Deciding(r, Stored')
    BY <1>5 DEF Deciding
  <1> QED BY <1>1, <1>5, <1>6, <1>7, <1>8 DEF ScanEffect, Scanning, Stored

(* A run that dealt with its last entry has applied its file.              *)
LEMMA AllDone ==
  ASSUME NEW q, NEW T, Watched(q, T), q.phase = "assets", q.at > Len(q.bundle.assets), ~q.dry
  PROVE  Settled(q.bundle, T)
  <1> DEFINE b == q.bundle
  <1>1. q \in Run /\ q.at \in Nat /\ b \in Bundle /\ Progress(q, T) /\ q.upload.kind # "nmap"
    BY DEF Watched, RunOK, Run, Placed, Importing, Applying
  <1>2. DOMAIN b.assets = 1..Len(b.assets) /\ Len(b.assets) \in Nat
    BY <1>1, Lengths
  <1>3. \A s \in {"vendors", "projects", "hosts"} : \A k : Done(q, s, k)
    BY DEF Done, Beyond, AtAsset
  <1>4. \A k \in DOMAIN b.assets : Done(q, "assets", k)
    BY <1>1, <1>2 DEF Done, During, AtAsset
  <1> QED BY <1>1, <1>3, <1>4 DEF Progress, Applied, Settled
-----------------------------------------------------------------------------
(* No name comes twice in a table.                                         *)

NamesOnce == Unique(projects) /\ Unique(hosts)

LEMMA UniquePut ==
  ASSUME NEW table, DOMAIN table = Ids, Unique(table), NEW i \in Ids, NEW row,
         Called(table, row.name) \ {i} = {}, NEW new, new = [table EXCEPT ![i] = row]
  PROVE  Unique(new)
  <1>1. new[i] = row /\ \A k \in Ids \ {i} : new[k] = table[k]
    OBVIOUS
  <1>2. SUFFICES ASSUME NEW k \in Live(new), NEW l \in Live(new), new[k].name = new[l].name
                 PROVE  k = l
    BY DEF Unique
  <1>3. \A m \in Live(new) \ {i} : m \in Live(table) /\ new[m] = table[m]
    BY <1>1 DEF Live
  <1>4. CASE k # i /\ l # i
    BY <1>2, <1>3, <1>4 DEF Unique
  <1>5. ASSUME NEW m \in Live(new) \ {i} PROVE new[m].name # row.name
    BY <1>3, <1>5 DEF Called
  <1> QED BY <1>1, <1>2, <1>4, <1>5

LEMMA UniqueDrop ==
  ASSUME NEW table, NEW i, NEW new, DOMAIN table = Ids, Unique(table),
         new = [table EXCEPT ![i] = Nil]
  PROVE  Unique(new)
  <1>1. \A m \in Live(new) : m \in Live(table) /\ new[m] = table[m]
    BY DEF Live
  <1> QED BY <1>1 DEF Unique

LEMMA UniqueSame ==
  ASSUME NEW table, NEW new, Unique(table),
         \A k \in Ids : new[k] # Nil => table[k] # Nil /\ new[k].name = table[k].name
  PROVE  Unique(new)
  BY DEF Unique, Live

LEMMA ProjectNamesKept ==
  ASSUME ImportInv, Unique(projects), NEW j \in Runs, CreateProject(j) \/ UpdateProject(j)
  PROVE  Unique(projects')
  <1>1. DOMAIN projects = Ids
    BY DEF ImportInv, TablesOK
  <1>2. CASE projects' = projects
    BY <1>2
  <1>3. CASE \E i \in Ids : \E row : projects' = [projects EXCEPT ![i] = row]
                                 /\ Called(projects, row.name) \ {i} = {}
    BY <1>1, <1>3, UniquePut
  <1>4. CASE CreateProject(j)
    <2>1. \/ projects' = projects
          \/ \E i \in Ids : \E color :
               /\ projects' = [projects EXCEPT ![i] = [name |-> Entry(run[j]).name, color |-> color]]
               /\ Called(projects, Entry(run[j]).name) = {}
      BY <1>4 DEF CreateProject, Raise, Reads, tables
    <2> QED BY <1>2, <1>3, <2>1
  <1>5. CASE UpdateProject(j)
    <2>1. PICK i \in Called(run[j].known, Entry(run[j]).name) :
            \/ projects' = projects
            \/ /\ projects' = [projects EXCEPT ![i] = [name |-> Entry(run[j]).name,
                                                       color |-> Entry(run[j]).color]]
               /\ Called(projects, Entry(run[j]).name) \ {i} = {}
      BY <1>5 DEF UpdateProject, Raise, Reads, tables
    <2>2. i \in Ids
      BY DEF Called, Live
    <2> QED BY <1>2, <1>3, <2>1, <2>2
  <1> QED BY <1>4, <1>5

LEMMA HostNamesKept ==
  ASSUME ImportInv, Unique(hosts), NEW j \in Runs, CreateHost(j) \/ UpdateHost(j)
  PROVE  Unique(hosts')
  <1>1. DOMAIN hosts = Ids
    BY DEF ImportInv, TablesOK
  <1>2. CASE hosts' = hosts
    BY <1>2
  <1>3. CASE \E i \in Ids : \E row : hosts' = [hosts EXCEPT ![i] = row]
                                 /\ Called(hosts, row.name) \ {i} = {}
    BY <1>1, <1>3, UniquePut
  <1>4. CASE CreateHost(j)
    <2>1. \/ hosts' = hosts
          \/ \E i \in Ids : /\ hosts' = [hosts EXCEPT ![i] = Entry(run[j])]
                            /\ Called(hosts, Entry(run[j]).name) = {}
      BY <1>4 DEF CreateHost, Raise, Reads, tables
    <2> QED BY <1>2, <1>3, <2>1
  <1>5. CASE UpdateHost(j)
    <2>1. PICK i \in Called(run[j].known, Entry(run[j]).name) :
            \/ hosts' = hosts
            \/ /\ hosts[i] # Nil
               /\ ~(hosts[i] # Nil /\ Called(hosts, Entry(run[j]).name) \ {i} # {})
               /\ \E notes, vendor :
                    hosts' = [hosts EXCEPT ![i] = [name |-> Entry(run[j]).name,
                                                   notes |-> notes, vendor |-> vendor]]
      BY <1>5 DEF UpdateHost, Raise, Reads, tables
    <2>2. i \in Ids
      BY DEF Called, Live
    <2> QED BY <1>2, <1>3, <2>1, <2>2
  <1> QED BY <1>4, <1>5

LEMMA OtherNamesKept ==
  ASSUME ImportInv, NamesOnce, Others
  PROVE  NamesOnce'
  <1>1. projects \in [Ids -> Project \union {Nil}] /\ hosts \in [Ids -> Host \union {Nil}]
    BY DEF ImportInv, TablesOK
  <1>2. CASE DropProject
    <2>1. PICK i \in Live(projects) : projects' = [projects EXCEPT ![i] = Nil]
      BY <1>2 DEF DropProject
    <2> QED BY <1>1, <1>2, <2>1, UniqueDrop DEF DropProject, NamesOnce
  <1>3. CASE AddProject
    <2>1. PICK i \in Ids, n \in Names :
            /\ Called(projects, n) = {}
            /\ projects' = [projects EXCEPT ![i] = [name |-> n, color |-> DefaultColor]]
      BY <1>3 DEF AddProject
    <2>2. Unique(projects')
      BY <1>1, <2>1, UniquePut DEF NamesOnce
    <2> QED BY <1>3, <2>2 DEF AddProject, NamesOnce
  <1>4. CASE DropHost
    <2>1. PICK i \in Live(hosts) : hosts' = [hosts EXCEPT ![i] = Nil]
      BY <1>4 DEF DropHost
    <2> QED BY <1>1, <1>4, <2>1, UniqueDrop DEF DropHost, NamesOnce
  <1>5. CASE AddHost
    <2>1. PICK i \in Ids, n \in Names :
            /\ Called(hosts, n) = {}
            /\ hosts' = [hosts EXCEPT ![i] = [name |-> n, notes |-> Nil, vendor |-> Nil]]
      BY <1>5 DEF AddHost
    <2>2. Unique(hosts')
      BY <1>1, <2>1, UniquePut DEF NamesOnce
    <2> QED BY <1>5, <2>2 DEF AddHost, NamesOnce
  <1>6. CASE DropVendor
    <2>1. PICK n \in vendors :
            hosts' = [i \in Ids |-> IF hosts[i] # Nil /\ hosts[i].vendor = n
                                   THEN [hosts[i] EXCEPT !.vendor = Nil] ELSE hosts[i]]
      BY <1>6 DEF DropVendor
    <2>2. \A i \in Ids : hosts'[i] # Nil => hosts[i] # Nil /\ hosts'[i].name = hosts[i].name
      <3> SUFFICES ASSUME NEW i \in Ids, hosts'[i] # Nil
                   PROVE  hosts[i] # Nil /\ hosts'[i].name = hosts[i].name
        OBVIOUS
      <3>1. CASE hosts'[i] = hosts[i]
        BY <3>1
      <3>2. CASE hosts[i] # Nil /\ hosts'[i] = [hosts[i] EXCEPT !.vendor = Nil]
        <4>1. hosts[i] \in Host
          BY <1>1, <3>2
        <4> QED BY <3>2, <4>1, SMT DEF Host
      <3> QED BY <2>1, <3>1, <3>2
    <2> QED BY <1>6, <2>2, UniqueSame DEF DropVendor, NamesOnce
  <1>7. CASE AddVendor \/ EditType \/ EditNotes \/ EditTags \/ DropAsset \/ AddAsset
             \/ ArchiveOther
    BY <1>7 DEF AddVendor, EditType, EditNotes, EditTags, DropAsset, AddAsset, ArchiveOther,
       NamesOnce
  <1> QED BY <1>2, <1>3, <1>4, <1>5, <1>6, <1>7 DEF Others

LEMMA NamesKept ==
  ASSUME ImportInv, NamesOnce, [Next]_vars
  PROVE  NamesOnce'
  <1>1. CASE projects' = projects /\ hosts' = hosts
    BY <1>1 DEF NamesOnce
  <1>2. CASE UNCHANGED vars \/ Restart
    BY <1>1, <1>2 DEF vars, Restart, tables
  <1>3. ASSUME NEW j \in Runs, Post(j) \/ Connect(j) \/ Receive(j)
        PROVE  projects' = projects /\ hosts' = hosts
    BY <1>3 DEF Post, Connect, Receive, Reads, tables
  <1>4. ASSUME NEW j \in Runs, Step(j), ~ProjectEntry(j), ~HostEntry(j)
        PROVE  projects' = projects /\ hosts' = hosts
    BY <1>4 DEF Step, Validate, Apply, Record, Nmap, OpenVendors, VendorEntry, OpenProjects,
       OpenHosts, OpenAssets, ReadAsset, ReadTags, CreateAsset, UpdateAsset, ArchiveAsset,
       NmapRead, NmapCreate, NmapDone, Reads, Raise, Written, tables
  <1>5. ASSUME NEW j \in Runs, ProjectEntry(j) PROVE NamesOnce'
    <2>1. hosts' = hosts
      BY <1>5 DEF ProjectEntry, CreateProject, UpdateProject, Raise, Reads, tables
    <2> QED BY <1>5, <2>1, ProjectNamesKept DEF ProjectEntry, NamesOnce
  <1>6. ASSUME NEW j \in Runs, HostEntry(j) PROVE NamesOnce'
    <2>1. projects' = projects
      BY <1>6 DEF HostEntry, CreateHost, UpdateHost, Raise, Reads, tables
    <2> QED BY <1>6, <2>1, HostNamesKept DEF HostEntry, NamesOnce
  <1> QED BY <1>1, <1>2, <1>3, <1>4, <1>5, <1>6, OtherNamesKept DEF Next

LEMMA NamesStart == Init => NamesOnce
  <1> SUFFICES ASSUME Init PROVE NamesOnce
    OBVIOUS
  <1>1. PICK s \in Asked.seeds : projects = s.projects /\ hosts = s.hosts
    BY DEF Init
  <1>2. DemandOK(Asked)
    BY ImportAssumption DEF Init, Asked
  <1> QED BY <1>1, <1>2 DEF DemandOK, NamesOnce
-----------------------------------------------------------------------------
(* What a step of a watched run does: it makes progress or it is done, and *)
(* never fails.                                                            *)

Effect(q, r, T, U) ==
  \/ OpenEffect(q, r, T, U) \/ VendorEffect(q, r, T, U) \/ ProjectEffect(q, r, T, U)
  \/ HostEffect(q, r, T, U) \/ AssetEffect(q, r, T, U) \/ ScanEffect(q, r, T, U)

EndEffect(q, r, T, U) ==
  /\ EndedAs(q, r, "completed", TRUE) /\ U = T
  /\ \/ q.phase = "assets" /\ q.at > Len(q.bundle.assets)
     \/ q.phase = "scan" /\ q.at > Len(q.bundle.assets)

LEMMA StoredIsWorld ==
  ASSUME ImportInv, NamesOnce
  PROVE  World(Stored)
  <1>1. Stored \in Tables
    BY SMT DEF ImportInv, TablesOK, Stored, Tables
  <1> QED BY <1>1 DEF ImportInv, TablesOK, NamesOnce, World, Stored

LEMMA WatchedActs ==
  ASSUME ImportInv, NamesOnce, NEW j \in Runs, Step(j), Watched(run[j], Stored),
         commits = run[j].base + run[j].wrote
  PROVE  \/ Effect(run[j], run'[j], Stored, Stored')
         \/ EndEffect(run[j], run'[j], Stored, Stored')
  <1> DEFINE q == run[j]
  <1>0. World(Stored) /\ Going(q)
    BY StoredIsWorld DEF Watched
  <1>1. CASE Validate(j)
    BY <1>0, <1>1 DEF Validate, Going, Applying, Scanning
  <1>2. CASE OpenVendors(j) \/ OpenProjects(j) \/ OpenHosts(j) \/ OpenAssets(j)
    BY <1>2, OpenActs DEF Effect
  <1>3. CASE VendorEntry(j)
    BY <1>3, VendorActs DEF Effect
  <1>4. CASE ProjectEntry(j)
    BY <1>0, <1>4, CreateProjectActs, UpdateProjectActs DEF ProjectEntry, Effect
  <1>5. CASE HostEntry(j)
    BY <1>0, <1>5, CreateHostActs, UpdateHostActs DEF HostEntry, Effect
  <1>6. CASE ReadAsset(j) \/ ReadTags(j) \/ CreateAsset(j) \/ UpdateAsset(j) \/ ArchiveAsset(j)
    BY <1>0, <1>6, ReadAssetActs, ReadTagsActs, CreateAssetActs, UpdateAssetActs,
       ArchiveAssetActs DEF Effect
  <1>7. CASE NmapRead(j) \/ NmapCreate(j)
    BY <1>7, NmapReadActs, NmapCreateActs DEF Effect
  <1>8. CASE Record(j) \/ NmapDone(j)
    <2>1. Stop(j, q, "completed") /\ Stored' = Stored
      BY <1>8 DEF Record, NmapDone, Reads, tables, Stored
    <2>2. EndedAs(q, run'[j], "completed", commits = q.base + q.wrote)
      BY <2>1, StopIs
    <2>3. EndedAs(q, run'[j], "completed", TRUE)
      BY <2>2 DEF EndedAs
    <2> QED BY <1>8, <2>1, <2>3 DEF EndEffect, Record, NmapDone, PastLast
  <1> QED BY <1>1, <1>2, <1>3, <1>4, <1>5, <1>6, <1>7, <1>8 DEF Step, Apply, Nmap

LEMMA EffectGoesOn ==
  ASSUME NEW q, NEW r, NEW T, NEW U, World(T), Watched(q, T), Effect(q, r, T, U)
  PROVE  Progress(r, U) /\ Going(r)
  <1>1. CASE OpenEffect(q, r, T, U)
    BY <1>1, OpenGoesOn DEF OpenEffect, Going, Applying
  <1>2. CASE VendorEffect(q, r, T, U)
    BY <1>2, VendorGoesOn DEF VendorEffect, EntryOf, Going, Applying
  <1>3. CASE ProjectEffect(q, r, T, U)
    BY <1>3, ProjectGoesOn DEF ProjectEffect, EntryWith, EntryOf, Going, Applying
  <1>4. CASE HostEffect(q, r, T, U)
    BY <1>4, HostGoesOn DEF HostEffect, EntryWith, EntryOf, Going, Applying
  <1>5. CASE AssetEffect(q, r, T, U)
    BY <1>5, AssetGoesOn DEF AssetEffect, Going, Applying, AtAsset
  <1>6. CASE ScanEffect(q, r, T, U)
    <2>1. r.phase \in Scanning /\ r.upload.kind = "nmap" /\ Deciding(r, U)
      BY <1>6 DEF ScanEffect, Carried, Watched, RunOK, Placed
    <2> QED BY <2>1, ScanProgress DEF Going
  <1> QED BY <1>1, <1>2, <1>3, <1>4, <1>5, <1>6 DEF Effect

-----------------------------------------------------------------------------
(* What holds of every run, and of one that nobody else committed beside.  *)

EffectAt(q, T, n) ==
  /\ q.base + q.wrote <= n
  /\ q.phase \in {"new", "posted"} => q.base = 0 /\ q.wrote = 0
  /\ q.phase = "parsed" => q.wrote = 0
  /\ Going(q) /\ Apart(q.bundle) /\ n = q.base + q.wrote => Progress(q, T)
  /\ Recorded(q) /\ Apart(q.bundle) /\ n = q.base + q.wrote => Settled(q.bundle, T)
  /\ q.end = "failed" /\ q.alone => ~Apart(q.bundle)

EffectOK(j) == EffectAt(run[j], Stored, commits)

EffectInv == NamesOnce /\ \A j \in Runs : EffectOK(j)

(* A run that stands still has to do with the commits of others only.      *)
LEMMA StandsStill ==
  ASSUME NEW q \in Run, NEW T, NEW n \in Nat, EffectAt(q, T, n), NEW U, NEW m \in Nat,
         n <= m, m = n => U = T
  PROVE  EffectAt(q, U, m)
  <1>1. q.base + q.wrote \in Nat /\ q.base + q.wrote <= n
    BY DEF Run, EffectAt
  <1>2. q.base + q.wrote <= m /\ (m = q.base + q.wrote => m = n)
    BY <1>1
  <1> QED BY <1>1, <1>2 DEF EffectAt

LEMMA PostEffects ==
  ASSUME ImportInv, ImportInv', NEW j \in Runs, Post(j)
  PROVE  EffectOK(j)'
  <1>1. PICK u \in Asked.uploads, dry \in Asked.modes, editor \in BOOLEAN :
          run' = [run EXCEPT ![j] = [NewRun EXCEPT !.phase = "posted", !.upload = u,
                    !.dry = dry, !.editor = editor]]
    BY DEF Post, Continue
  <1>2. run'[j] = [NewRun EXCEPT !.phase = "posted", !.upload = u, !.dry = dry,
                                 !.editor = editor]
    BY <1>1 DEF ImportInv
  <1>3. run'[j].phase = "posted" /\ run'[j].base = 0 /\ run'[j].wrote = 0
        /\ run'[j].end = "none"
    BY <1>2 DEF NewRun
  <1>4. commits' \in Nat
    BY DEF ImportInv
  <1> QED BY <1>3, <1>4 DEF EffectOK, EffectAt, Recorded, Going, Applying, Scanning

LEMMA ConnectEffects ==
  ASSUME ImportInv, ImportInv', NEW j \in Runs, Connect(j)
  PROVE  EffectOK(j)'
  <1>1. PICK file \in Asked.bundles, dry \in Asked.modes :
          run' = [run EXCEPT ![j] = [NewRun EXCEPT !.phase = "parsed", !.source = "thread",
                    !.upload = FromConnector(file), !.dry = dry, !.editor = TRUE,
                    !.bundle = ParseBundle(file), !.base = commits]]
    BY DEF Connect, Continue
  <1>2. run'[j] = [NewRun EXCEPT !.phase = "parsed", !.source = "thread",
                    !.upload = FromConnector(file), !.dry = dry, !.editor = TRUE,
                    !.bundle = ParseBundle(file), !.base = commits]
    BY <1>1 DEF ImportInv
  <1>3. run'[j].phase = "parsed" /\ run'[j].base = commits /\ run'[j].wrote = 0
        /\ run'[j].end = "none"
    BY <1>2 DEF NewRun
  <1>4. commits' \in Nat /\ commits' = commits
    BY DEF ImportInv, Connect, Reads
  <1> QED BY <1>3, <1>4 DEF EffectOK, EffectAt, Recorded, Going, Applying, Scanning

LEMMA ReceiveEffects ==
  ASSUME ImportInv, ImportInv', NEW j \in Runs, Receive(j), EffectOK(j)
  PROVE  EffectOK(j)'
  <1> DEFINE q == run[j]
             r == run'[j]
             to == IF q.upload.kind = "nmap" THEN "scan" ELSE "parsed"
             x == [q EXCEPT !.bundle = Parsed(q.upload), !.base = commits, !.phase = to]
  <1>1. q \in Run /\ RunOK(r) /\ q.phase = "posted" /\ commits' = commits
        /\ commits' \in Nat /\ q.base = 0 /\ q.wrote = 0
    BY DEF ImportInv, Receive, Reads, EffectOK, EffectAt
  <1>2. ASSUME NEW e \in {"forbidden", "refused", "invalid"}, Stop(j, q, e)
        PROVE  EffectOK(j)'
    <2>1. Carried(q, r) /\ r.wrote = q.wrote /\ r.phase = "ended" /\ r.end = e
      BY <1>2, StopIs DEF EndedAs
    <2> QED BY <1>1, <2>1 DEF EffectOK, EffectAt, Recorded, Carried, Going, Applying, Scanning
  <1>3. CASE run' = [run EXCEPT ![j] = x]
    <2>1. r = x
      BY <1>3 DEF ImportInv
    <2>2. x.phase = to /\ x.base = commits /\ x.wrote = q.wrote /\ x.upload = q.upload
          /\ x.end = q.end
      BY <1>1, SMT DEF Run
    <2>3. x.end = "none"
      BY <1>1, <2>2 DEF ImportInv, RunOK, Allowed
    <2> HIDE DEF x, r, to
    <2>4. to = "scan" => Progress(r, Stored')
      <3>1. to = "scan" => q.upload.kind = "nmap"
        BY DEF to
      <3>2. to = "scan" => Deciding(r, Stored')
        BY <2>1, <2>2 DEF Deciding
      <3> QED BY <2>1, <2>2, <3>1, <3>2, ScanProgress DEF Scanning
    <2>5. to \in {"scan", "parsed"}
      BY DEF to
    <2>6. r.phase = to /\ r.base = commits /\ r.wrote = 0 /\ r.end = "none"
      BY <1>1, <2>1, <2>2, <2>3
    <2> HIDE DEF q
    <2> QED BY <1>1, <2>4, <2>5, <2>6 DEF EffectOK, EffectAt, Recorded, Going, Applying, Scanning, r
  <1> QED BY <1>2, <1>3 DEF Receive

LEMMA StepEffects ==
  ASSUME ImportInv, ImportInv', NamesOnce, NEW j \in Runs, Step(j), EffectOK(j)
  PROVE  EffectOK(j)'
  <1> DEFINE q == run[j]
             r == run'[j]
  <1>1. q \in Run /\ RunOK(q) /\ RunOK(r) /\ r \in Run /\ commits \in Nat
        /\ q.base \in Nat /\ q.wrote \in Nat
    BY SMT DEF ImportInv, RunOK, Run
  <1>2. Carried(q, r) /\ r.wrote \in Nat
    BY <1>1, StepCharged DEF Charged, Grown, EndedAs, Run
  <1>3. q.phase = "parsed" \/ Going(q)
    BY <1>1, StepShape DEF Moved, Active, Run, Phases, Going, Applying, Scanning
  <1>4. q.end = "none"
    BY <1>1, StepShape DEF Moved, Active, RunOK, Allowed
  <1>5. r.base + r.wrote <= commits' /\ (commits' = r.base + r.wrote <=> commits = q.base + q.wrote)
    BY <1>1, <1>2, StepCharged DEF Charged, Grown, EndedAs, Carried, EffectOK, EffectAt
  <1>6. CASE q.phase = "parsed"
    <2>1. Validate(j)
      BY <1>6 DEF Step, Apply, Record, Nmap, OpenVendors, VendorEntry, OpenProjects, ProjectEntry,
         CreateProject, UpdateProject, OpenHosts, HostEntry, CreateHost, UpdateHost, OpenAssets,
         ReadAsset, ReadTags, CreateAsset, UpdateAsset, ArchiveAsset, NmapRead, NmapCreate,
         NmapDone, AtEntry, PastLast
    <2>2. CASE r.phase = "ended" /\ r.end = "invalid"
      BY <1>5, <2>2 DEF EffectOK, EffectAt, Recorded, Going, Applying, Scanning
    <2>3. CASE r.phase = "valid" /\ Progress(r, Stored')
      <3>1. r.end = "none"
        BY <1>1, <2>3 DEF RunOK, Allowed
      <3> QED BY <1>5, <2>3, <3>1 DEF EffectOK, EffectAt, Recorded
    <2> QED BY <2>1, <2>2, <2>3, ValidateActs
  <1>7. CASE Going(q)
    <2>1. r.phase \notin {"new", "posted", "parsed"}
      BY <1>7, StepCharged DEF Charged, Grown, EndedAs, Going, Applying, Scanning
    <2>2. CASE commits = q.base + q.wrote /\ Apart(q.bundle)
      <3>1. Watched(q, Stored)
        BY <1>1, <1>7, <2>2 DEF Watched, EffectOK, EffectAt
      <3>2. CASE Effect(q, r, Stored, Stored')
        <4>1. Progress(r, Stored') /\ Going(r)
          BY <3>1, <3>2, EffectGoesOn, StoredIsWorld
        <4>2. r.end = "none"
          BY <1>1, <4>1 DEF RunOK, Allowed, Going, Applying, Scanning
        <4> QED BY <1>5, <2>1, <4>1, <4>2 DEF EffectOK, EffectAt, Recorded
      <3>3. CASE EndEffect(q, r, Stored, Stored')
        <4>1. r.phase = "ended" /\ r.end = "completed" /\ Stored' = Stored
          BY <3>3 DEF EndEffect, EndedAs
        <4>2. ~q.dry /\ q.upload.kind # "nmap" => Settled(q.bundle, Stored)
          <5>1. q.phase = "scan" => q.upload.kind = "nmap"
            BY <1>1 DEF RunOK, Placed, Scanning
          <5> QED BY <3>1, <3>3, <5>1, AllDone DEF EndEffect
        <4> QED BY <1>2, <1>5, <4>1, <4>2 DEF EffectOK, EffectAt, Recorded, Carried, Going, Applying, Scanning
      <3> QED BY <2>2, <3>1, <3>2, <3>3, WatchedActs
    <2>3. CASE ~(commits = q.base + q.wrote /\ Apart(q.bundle))
      <3>1. ~(commits' = r.base + r.wrote /\ Apart(r.bundle))
        BY <1>2, <1>5, <2>3 DEF Carried
      <3>2. r.end = "failed" /\ r.alone => ~Apart(r.bundle)
        <4>1. r.end = "failed" => r.alone = (commits = q.base + q.wrote)
          BY <1>4, StepCharged DEF Charged, Grown, EndedAs
        <4> QED BY <1>2, <2>3, <4>1 DEF Carried
      <3> QED BY <1>5, <2>1, <3>1, <3>2 DEF EffectOK, EffectAt, Recorded
    <2> QED BY <2>2, <2>3
  <1> QED BY <1>3, <1>6, <1>7
LEMMA EffectStarts == Init => EffectInv
  <1> SUFFICES ASSUME Init PROVE EffectInv
    OBVIOUS
  <1>1. \A j \in Runs : run[j] = NewRun
    BY DEF Init
  <1>2. EffectAt(NewRun, Stored, commits)
    BY DEF Init, EffectAt, NewRun, Going, Applying, Scanning, Recorded
  <1> QED BY <1>1, <1>2, NamesStart DEF EffectInv, EffectOK

LEMMA OthersCommit ==
  ASSUME Others
  PROVE  UNCHANGED run /\ commits' = commits + 1
  BY DEF Others, AddProject, DropProject, AddHost, DropHost, AddVendor, DropVendor,
     EditType, EditNotes, EditTags, DropAsset, AddAsset, ArchiveOther, Request, Writes

LEMMA RestartEffects ==
  ASSUME ImportInv, Restart, NEW j \in Runs, EffectOK(j)
  PROVE  EffectOK(j)'
  <1> DEFINE q == run[j]
             r == [q EXCEPT !.phase = "ended", !.end = "killed", !.known = Nil, !.row = Nil,
                            !.goal = Nil]
  <1>1. q \in Run /\ commits' = commits /\ Stored' = Stored
    BY DEF ImportInv, Restart, tables, Stored
  <1>2. run'[j] = q \/ run'[j] = r
    BY DEF Restart
  <1>3. /\ r.phase = "ended" /\ r.end = "killed" /\ r.base = q.base /\ r.wrote = q.wrote
        /\ r.bundle = q.bundle /\ r.upload = q.upload
    BY <1>1, SMT DEF Run
  <1> HIDE DEF r
  <1>4. CASE run'[j] = q
    BY <1>1, <1>4 DEF EffectOK
  <1>5. CASE run'[j] = r
    BY <1>1, <1>3, <1>5 DEF EffectOK, EffectAt, Recorded, Going, Applying, Scanning
  <1> QED BY <1>2, <1>4, <1>5

LEMMA EffectKept ==
  ASSUME ImportInv, ImportInv', EffectInv, [Next]_vars
  PROVE  EffectInv'
  <1>1. NamesOnce'
    BY NamesKept DEF EffectInv
  <1>2. commits \in Nat /\ commits' \in Nat /\ \A j \in Runs : run[j] \in Run /\ EffectOK(j)
    BY DEF ImportInv, EffectInv
  <1>3. ASSUME NEW i \in Runs, run'[i] = run[i], commits <= commits',
               commits' = commits => Stored' = Stored
        PROVE  EffectOK(i)'
    BY <1>2, <1>3, StandsStill DEF EffectOK
  <1> SUFFICES ASSUME NEW i \in Runs PROVE EffectOK(i)'
    BY <1>1 DEF EffectInv
  <1>4. CASE UNCHANGED vars
    BY <1>2, <1>3, <1>4 DEF vars, Stored
  <1>5. ASSUME NEW j \in Runs, Post(j) \/ Connect(j) \/ Receive(j) PROVE EffectOK(i)'
    <2>1. commits' = commits /\ Stored' = Stored
      BY <1>5 DEF Post, Connect, Receive, Reads, tables, Stored
    <2>2. CASE i = j
      BY <1>2, <1>5, <2>2, PostEffects, ConnectEffects, ReceiveEffects
    <2>3. CASE i # j
      <3>1. run'[i] = run[i]
        BY <1>5, <2>3, ContinueShape, StopShape DEF Post, Connect, Receive, ImportInv
      <3> QED BY <1>2, <1>3, <2>1, <3>1
    <2> QED BY <2>2, <2>3
  <1>6. ASSUME NEW j \in Runs, Step(j) PROVE EffectOK(i)'
    <2>1. CASE i = j
      BY <1>2, <1>6, <2>1, StepEffects DEF EffectInv
    <2>2. CASE i # j
      <3>1. run'[i] = run[i]
        BY <1>6, <2>2, StepShape DEF Moved
      <3>2. commits <= commits' /\ (commits' = commits => Stored' = Stored)
        BY <1>2, <1>6, StepCharged DEF Charged
      <3> QED BY <1>3, <3>1, <3>2
    <2> QED BY <2>1, <2>2
  <1>7. CASE Others
    BY <1>2, <1>3, <1>7, OthersCommit
  <1>8. CASE Restart
    BY <1>2, <1>8, RestartEffects
  <1> QED BY <1>4, <1>5, <1>6, <1>7, <1>8 DEF Next

LEMMA EffectInvariant == Spec => [](ImportInv /\ EffectInv)
  <1>1. ImportInv /\ EffectInv /\ [Next]_vars => (ImportInv /\ EffectInv)'
    BY ImportKept, EffectKept
  <1> QED BY <1>1, ImportStarts, EffectStarts, PTL DEF Spec

-----------------------------------------------------------------------------
(* The theorems.                                                           *)

LEMMA CountsApart ==
  ASSUME NEW n \in Nat, NEW f, DOMAIN f = 1..n, NEW S, S = {f[k] : k \in 1..n},
         Cardinality(S) = n, NEW k \in 1..n, NEW l \in 1..n, f[k] = f[l]
  PROVE  k = l
  <1> DEFINE g == [m \in 1..n |-> f[m]]
  <1>1. IsFiniteSet(1..n) /\ Cardinality(1..n) = n
    BY FS_Interval
  <1>2. g \in Surjection(1..n, S)
    BY DEF Surjection
  <1>3. g \in Injection(1..n, S)
    BY <1>1, <1>2, FS_Surjection
  <1>4. g[k] = g[l]
    OBVIOUS
  <1> HIDE DEF g
  <1> QED BY <1>3, <1>4 DEF Injection, IsInjective

LEMMA RepeatFree ==
  ASSUME NEW b \in Bundle \union ScanBundle, NoRepeats(b)
  PROVE  Apart(b)
  <1>1. /\ Len(b.vendors) \in Nat /\ DOMAIN b.vendors = 1..Len(b.vendors)
        /\ Len(b.projects) \in Nat /\ DOMAIN b.projects = 1..Len(b.projects)
        /\ Len(b.hosts) \in Nat /\ DOMAIN b.hosts = 1..Len(b.hosts)
        /\ Len(b.assets) \in Nat /\ DOMAIN b.assets = 1..Len(b.assets)
    BY Lengths
  <1>2. ASSUME NEW k \in DOMAIN b.vendors, NEW l \in DOMAIN b.vendors, b.vendors[k] = b.vendors[l]
        PROVE  k = l
    <2>1. ToSet(b.vendors) = {b.vendors[m] : m \in 1..Len(b.vendors)}
      BY <1>1 DEF ToSet
    <2> QED BY <1>1, <1>2, <2>1, CountsApart DEF NoRepeats
  <1>3. ASSUME NEW k \in DOMAIN b.projects, NEW l \in DOMAIN b.projects,
               b.projects[k].name = b.projects[l].name
        PROVE  k = l
    <2> DEFINE f == [m \in 1..Len(b.projects) |-> b.projects[m].name]
    <2>1. NamesOf(b.projects) = {f[m] : m \in 1..Len(b.projects)}
      BY <1>1 DEF NamesOf
    <2>2. Cardinality(NamesOf(b.projects)) = Len(b.projects)
      BY DEF NoRepeats
    <2>3. DOMAIN f = 1..Len(b.projects) /\ f[k] = f[l]
      BY <1>1, <1>3
    <2> HIDE DEF f
    <2> QED BY <1>1, <2>1, <2>2, <2>3, CountsApart
  <1>4. ASSUME NEW k \in DOMAIN b.hosts, NEW l \in DOMAIN b.hosts,
               b.hosts[k].name = b.hosts[l].name
        PROVE  k = l
    <2> DEFINE f == [m \in 1..Len(b.hosts) |-> b.hosts[m].name]
    <2>1. NamesOf(b.hosts) = {f[m] : m \in 1..Len(b.hosts)}
      BY <1>1 DEF NamesOf
    <2>2. Cardinality(NamesOf(b.hosts)) = Len(b.hosts)
      BY DEF NoRepeats
    <2>3. DOMAIN f = 1..Len(b.hosts) /\ f[k] = f[l]
      BY <1>1, <1>4
    <2> HIDE DEF f
    <2> QED BY <1>1, <2>1, <2>2, <2>3, CountsApart
  <1>5. ASSUME NEW k \in DOMAIN b.assets, NEW l \in DOMAIN b.assets,
               b.assets[k].ip = b.assets[l].ip
        PROVE  k = l
    <2> DEFINE f == [m \in 1..Len(b.assets) |-> b.assets[m].ip]
    <2>1. {b.assets[m].ip : m \in DOMAIN b.assets} = {f[m] : m \in 1..Len(b.assets)}
      BY <1>1
    <2>2. Cardinality({b.assets[m].ip : m \in DOMAIN b.assets}) = Len(b.assets)
      BY DEF NoRepeats
    <2>3. DOMAIN f = 1..Len(b.assets) /\ f[k] = f[l]
      BY <1>1, <1>5
    <2> HIDE DEF f
    <2> QED BY <1>1, <2>1, <2>2, <2>3, CountsApart
  <1> QED BY <1>2, <1>3, <1>4, <1>5 DEF Apart

LEMMA SettledHolds ==
  ASSUME NEW b, Settled(b, Stored)
  PROVE  Holds(b)
  <1>1. ToSet(b.vendors) \subseteq vendors
    BY DEF Settled, ToSet, Stored
  <1>2. \A k \in DOMAIN b.projects : \E i \in Called(projects, b.projects[k].name) :
          b.projects[k].color \in {Nil, projects[i].color}
    BY DEF Settled, ProjectSays, Stored
  <1>3. \A k \in DOMAIN b.hosts : \E i \in Called(hosts, b.hosts[k].name) :
          b.hosts[k].notes \in {Nil, hosts[i].notes} /\ b.hosts[k].vendor \in {Nil, hosts[i].vendor}
    BY DEF Settled, HostSays, HostHas, Stored
  <1>4. ASSUME NEW k \in DOMAIN b.assets
        PROVE  LET a == b.assets[k] row == assets[b.assets[k].ip] IN
               /\ row # Nil
               /\ ~a.keepType => row.type = a.type
               /\ a.project # Nil => row.project \in Called(projects, a.project)
               /\ a.host # Nil => row.host \in Called(hosts, a.host)
               /\ a.archived \in {Nil, row.archived}
               /\ a.notesGiven /\ ~a.keepNotes => row.notes = a.notes
               /\ a.tags # Nil => IF a.merge THEN TagsIn(a.tags) \subseteq row.tags
                                            ELSE TagsIn(a.tags) = row.tags
    <2>1. AssetSettled(b.assets[k], assets[b.assets[k].ip], Stored)
      BY DEF Settled, Stored
    <2> QED BY <2>1 DEF AssetSettled, AssetFits, TagsHeld, WritesNotes, Stored
  <1> QED BY <1>1, <1>2, <1>3, <1>4 DEF Holds

(* When a run has been applied and nobody else has written since it began, *)
(* the tables hold what its file says, whatever they held before and       *)
(* whatever an earlier run left half done (apply_bundle).                  *)
THEOREM ImportApplied == Spec => []AppliedHolds
  <1>1. ImportInv /\ EffectInv => AppliedHolds
    <2> SUFFICES ASSUME ImportInv, EffectInv, NEW j \in Runs, Finished(j, FALSE),
                        commits = run[j].base + run[j].wrote, run[j].upload.kind # "nmap",
                        NoRepeats(run[j].bundle)
                 PROVE  Holds(run[j].bundle)
      BY DEF AppliedHolds
    <2>1. run[j].bundle \in Bundle \union ScanBundle
      BY DEF ImportInv, Run
    <2>2. Recorded(run[j]) /\ Apart(run[j].bundle)
      BY <2>1, RepeatFree DEF Finished, Recorded
    <2>3. Settled(run[j].bundle, Stored)
      BY <2>2 DEF EffectInv, EffectOK, EffectAt
    <2> QED BY <2>3, SettledHolds
  <1> QED BY <1>1, EffectInvariant, PTL

-----------------------------------------------------------------------------
(* What a run counts in the end, from what it has counted and what the     *)
(* tables say of the entries it has yet to count.                          *)

Says(q, s, k, T) ==
  CASE s = "vendors"  -> VendorSays(q.bundle.vendors[k], T)
    [] s = "projects" -> ProjectSays(q.bundle.projects[k], T)
    [] s = "hosts"    -> HostSays(q.bundle.hosts[k], T)
    [] s = "assets"   -> IF q.upload.kind = "nmap" THEN AddressSays(q.bundle.assets[k], T)
                                                   ELSE AssetSays(q.bundle.assets[k], T)

Decided == {"create", "update", "archive", "discover"}

Told(q, s, k) == \/ q.phase = "ended" \/ Done(q, s, k)
                 \/ s = "assets" /\ q.phase \in Decided /\ k = q.at

Open(q, s, how, T) == {k \in DOMAIN q.bundle[s] : ~Told(q, s, k) /\ Says(q, s, k, T) = how}
Said(q, s, how, T) == {k \in DOMAIN q.bundle[s] : Says(q, s, k, T) = how}

Total(q, s, how, T) == q.count[s][how] + Cardinality(Open(q, s, how, T))

SameTotals(q, r, T, U) ==
  \A s \in Section, how \in Hows : Total(r, s, how, U) = Total(q, s, how, T)

LEMMA Sections ==
  ASSUME NEW b \in Bundle \union ScanBundle, NEW s \in Section
  PROVE  /\ DOMAIN b[s] = 1..Len(b[s]) /\ Len(b[s]) \in Nat
         /\ DOMAIN b[s] \subseteq Nat /\ IsFiniteSet(DOMAIN b[s])
  <1>1. DOMAIN b[s] = 1..Len(b[s]) /\ Len(b[s]) \in Nat
    <2>1. CASE s = "vendors"   BY <2>1, Lengths
    <2>2. CASE s = "projects"  BY <2>2, Lengths
    <2>3. CASE s = "hosts"     BY <2>3, Lengths
    <2>4. CASE s = "assets"    BY <2>4, Lengths
    <2> QED BY <2>1, <2>2, <2>3, <2>4 DEF Section
  <1>2. IsFiniteSet(1..Len(b[s]))
    BY <1>1, FS_Interval
  <1> QED BY <1>1, <1>2

LEMMA SaysHow ==
  ASSUME NEW q, NEW s \in Section, NEW k, NEW T
  PROVE  Says(q, s, k, T) \in Hows
  <1>1. CASE s = "vendors"   BY <1>1 DEF Says, VendorSays, Hows
  <1>2. CASE s = "projects"  BY <1>2 DEF Says, ProjectSays, Hows
  <1>3. CASE s = "hosts"     BY <1>3 DEF Says, HostSays, Hows
  <1>4. CASE s = "assets"    BY <1>4 DEF Says, AssetSays, AddressSays, Hows
  <1> QED BY <1>1, <1>2, <1>3, <1>4 DEF Section

LEMMA CountAt ==
  ASSUME NEW q, q.count \in Counts, NEW s \in Section, NEW how \in Hows,
         NEW t \in Section, NEW other \in Hows
  PROVE  /\ q.count[t][other] \in Nat
         /\ Counted(q, s, how)[t][other] =
              IF t = s /\ other = how THEN q.count[t][other] + 1 ELSE q.count[t][other]
  <1> DEFINE c == [q.count[s] EXCEPT ![how] = @ + 1]
  <1>1. q.count[s] \in Tally /\ q.count[t] \in Tally
    BY DEF Counts
  <1>2. Counted(q, s, how) = [q.count EXCEPT ![s] = c]
    BY DEF Counted
  <1>3. c[other] = IF other = how THEN q.count[s][other] + 1 ELSE q.count[s][other]
    <2>1. CASE how = "create"  BY <1>1, <2>1, SMT DEF Tally, Hows
    <2>2. CASE how = "update"  BY <1>1, <2>2, SMT DEF Tally, Hows
    <2>3. CASE how = "skip"    BY <1>1, <2>3, SMT DEF Tally, Hows
    <2> QED BY <2>1, <2>2, <2>3 DEF Hows
  <1>4. q.count[t][other] \in Nat
    BY <1>1, SMT DEF Tally, Hows
  <1>5. [q.count EXCEPT ![s] = c][t] = IF t = s THEN c ELSE q.count[t]
    BY DEF Counts
  <1> HIDE DEF c
  <1> QED BY <1>2, <1>3, <1>4, <1>5

(* An entry is counted as the tables say of it, and nothing else changes.  *)
LEMMA TotalTold ==
  ASSUME NEW q, NEW r, NEW T, NEW U, q.bundle \in Bundle \union ScanBundle, q.count \in Counts,
         r.bundle = q.bundle, NEW s \in Section, NEW k \in DOMAIN q.bundle[s],
         ~Told(q, s, k), Told(r, s, k), r.count = Counted(q, s, Says(q, s, k, T)),
         \A t \in Section : \A l \in DOMAIN q.bundle[t] : ~(t = s /\ l = k) =>
           /\ Told(r, t, l) <=> Told(q, t, l)
           /\ ~Told(q, t, l) => Says(r, t, l, U) = Says(q, t, l, T)
  PROVE  SameTotals(q, r, T, U)
  <1> SUFFICES ASSUME NEW t \in Section, NEW how \in Hows
               PROVE  Total(r, t, how, U) = Total(q, t, how, T)
    BY DEF SameTotals
  <1> DEFINE O == Open(q, t, how, T)
             P == Open(r, t, how, U)
  <1>1. IsFiniteSet(O) /\ Cardinality(O) \in Nat
    <2>1. O \in SUBSET DOMAIN q.bundle[t] /\ IsFiniteSet(DOMAIN q.bundle[t])
      BY Sections DEF Open
    <2> QED BY <2>1, FS_Subset, FS_CardinalityType
  <1>2. Says(q, s, k, T) \in Hows
    BY SaysHow
  <1>3. CASE t = s /\ how = Says(q, s, k, T)
    <2>1. P = O \ {k} /\ k \in O
      BY <1>3 DEF Open
    <2>2. Cardinality(P) = Cardinality(O) - 1
      BY <1>1, <2>1, FS_RemoveElement
    <2>3. q.count[t][how] \in Nat /\ r.count[t][how] = q.count[t][how] + 1
      BY <1>2, <1>3, CountAt
    <2> QED BY <1>1, <2>2, <2>3 DEF Total
  <1>4. CASE ~(t = s /\ how = Says(q, s, k, T))
    <2>1. P = O
      BY <1>4 DEF Open
    <2>2. r.count[t][how] = q.count[t][how]
      BY <1>2, <1>4, CountAt
    <2> QED BY <2>1, <2>2 DEF Total
  <1> QED BY <1>3, <1>4

LEMMA TotalStays ==
  ASSUME NEW q, NEW r, NEW T, NEW U, r.bundle = q.bundle, r.count = q.count,
         \A t \in Section : \A l \in DOMAIN q.bundle[t] :
           /\ Told(r, t, l) <=> Told(q, t, l)
           /\ ~Told(q, t, l) => Says(r, t, l, U) = Says(q, t, l, T)
  PROVE  SameTotals(q, r, T, U)
  <1>1. \A t \in Section : \A how : Open(r, t, how, U) = Open(q, t, how, T)
    BY DEF Open
  <1> QED BY <1>1 DEF SameTotals, Total

(* The entry of a catalogue that a step deals with is the one it counts.   *)
LEMMA EntryTold ==
  ASSUME NEW q, NEW r, NEW s \in {"vendors", "projects", "hosts"}, q.phase = s, r.phase = s,
         q.at \in Nat, r.at = q.at + 1
  PROVE  /\ ~Told(q, s, q.at) /\ Told(r, s, q.at)
         /\ \A t \in Section : \A l \in Nat : ~(t = s /\ l = q.at) =>
              (Told(r, t, l) <=> Told(q, t, l))
  <1>1. \A t \in Section : \A l \in Nat :
          /\ Told(q, t, l) <=> s \in Beyond(t) \/ (s = t /\ l < q.at)
          /\ Told(r, t, l) <=> s \in Beyond(t) \/ (s = t /\ l < q.at + 1)
    BY DEF Told, Done, During, Decided, AtAsset, Scanning, Section
  <1>2. s \notin Beyond(s)
    BY DEF Beyond, AtAsset
  <1> QED BY <1>1, <1>2 DEF Section

LEMMA VendorTold ==
  ASSUME NEW q, NEW r, NEW T, NEW U, World(T), Watched(q, T), VendorEffect(q, r, T, U)
  PROVE  SameTotals(q, r, T, U)
  <1> DEFINE b == q.bundle
  <1>1. q.at \in Nat /\ b \in Bundle \union ScanBundle /\ q.count \in Counts /\ Apart(b)
        /\ DOMAIN b.vendors \subseteq Nat
    BY Sections DEF Watched, RunOK, Run, Section
  <1>2. /\ q.phase = "vendors" /\ r.phase = "vendors" /\ r.at = q.at + 1 /\ r.bundle = b
        /\ r.upload = q.upload /\ q.at \in DOMAIN b.vendors
        /\ r.count = Counted(q, "vendors", VendorSays(b.vendors[q.at], T))
        /\ U.projects = T.projects /\ U.hosts = T.hosts /\ U.assets = T.assets
    BY DEF VendorEffect, EntryOf, Carried
  <1>3. ~Told(q, "vendors", q.at) /\ Told(r, "vendors", q.at)
    BY <1>1, <1>2, EntryTold
  <1>4. Says(q, "vendors", q.at, T) = VendorSays(b.vendors[q.at], T)
    BY DEF Says
  <1>5. ASSUME NEW t \in Section, NEW l \in DOMAIN b[t], ~(t = "vendors" /\ l = q.at)
        PROVE  /\ Told(r, t, l) <=> Told(q, t, l)
               /\ Says(r, t, l, U) = Says(q, t, l, T)
    <2>1. l \in Nat
      BY <1>1, Sections
    <2>2. Told(r, t, l) <=> Told(q, t, l)
      BY <1>1, <1>2, <1>5, <2>1, EntryTold
    <2>3. CASE t = "vendors"
      <3>1. b.vendors[l] # b.vendors[q.at]
        BY <1>1, <1>2, <1>5, <2>3 DEF Apart
      <3>2. VendorSays(b.vendors[l], U) = VendorSays(b.vendors[l], T)
        BY <3>1 DEF VendorEffect, VendorSays
      <3> QED BY <1>2, <2>2, <2>3, <3>2 DEF Says
    <2>4. CASE t = "projects"
      BY <1>2, <2>2, <2>4 DEF Says, ProjectSays
    <2>5. CASE t = "hosts"
      BY <1>2, <2>2, <2>5 DEF Says, HostSays
    <2>6. CASE t = "assets"
      <3>1. \A a : AssetSays(a, U) = AssetSays(a, T) /\ AddressSays(a, U) = AddressSays(a, T)
        BY <1>2 DEF AssetSays, AddressSays, AssetFits
      <3> QED BY <1>2, <2>2, <2>6, <3>1 DEF Says
    <2> QED BY <2>3, <2>4, <2>5, <2>6 DEF Section
  <1> QED BY <1>1, <1>2, <1>3, <1>4, <1>5, TotalTold DEF Section

(* A row that refers to a row of a catalogue refers to the same name, when *)
(* an entry of that catalogue is dealt with.                               *)
LEMMA CalledKept ==
  ASSUME NEW S, NEW old \in [Ids -> S \union {Nil}], Nil \notin S, Unique(old),
         NEW n, NEW good \in SUBSET S, NEW dry, NEW ids, NEW new, NEW ids2,
         Moves(good, n, dry, ids, old, ids2, new),
         NEW i \in Live(old) \union {Nil}, NEW m
  PROVE  i \in Called(old, m) <=> i \in Called(new, m)
  <1>1. CASE new = old
    BY <1>1
  <1>2. ASSUME NEW k \in Ids, NEW row \in good, Puts(old, new, k, row)
        PROVE  i \in Called(old, m) <=> i \in Called(new, m)
    <2>1. /\ Called(new, row.name) = {k}
          /\ \A x : x # row.name => Called(new, x) = Called(old, x)
      BY <1>2, RowPut
    <2>2. CASE m # row.name
      BY <2>1, <2>2
    <2>3. CASE m = row.name
      <3>1. \A l \in Called(old, m) : l = k
        <4>1. CASE Called(old, m) = {}
          BY <4>1
        <4>2. CASE Called(old, m) # {}
          BY <1>2, <2>3, <4>2 DEF Puts, Called, Unique
        <4> QED BY <4>1, <4>2
      <3>2. i = k => i \in Called(old, m)
        BY <1>2, <2>3, TempIsNew DEF Puts, Live
      <3> QED BY <2>1, <2>3, <3>1, <3>2
    <2> QED BY <2>2, <2>3
  <1> QED BY <1>1, <1>2 DEF Moves

LEMMA AssetSaysLike ==
  ASSUME NEW a, NEW T, NEW U, U.assets[a.ip] = T.assets[a.ip],
         T.assets[a.ip] # Nil =>
           /\ T.assets[a.ip].project \in Called(T.projects, a.project)
                <=> T.assets[a.ip].project \in Called(U.projects, a.project)
           /\ T.assets[a.ip].host \in Called(T.hosts, a.host)
                <=> T.assets[a.ip].host \in Called(U.hosts, a.host)
  PROVE  AssetSays(a, U) = AssetSays(a, T)
  BY DEF AssetSays, AssetFits

LEMMA ProjectTold ==
  ASSUME NEW q, NEW r, NEW T, NEW U, World(T), Watched(q, T), ProjectEffect(q, r, T, U)
  PROVE  SameTotals(q, r, T, U)
  <1> DEFINE b == q.bundle
             e == b.projects[q.at]
  <1>1. q.at \in Nat /\ b \in Bundle \union ScanBundle /\ q.count \in Counts /\ Apart(b)
        /\ DOMAIN b.projects \subseteq Nat
    BY Sections DEF Watched, RunOK, Run, Section
  <1>2. /\ q.phase = "projects" /\ r.phase = "projects" /\ r.at = q.at + 1 /\ r.bundle = b
        /\ r.upload = q.upload /\ q.at \in DOMAIN b.projects
        /\ r.count = Counted(q, "projects", ProjectSays(e, T))
        /\ U.vendors = T.vendors /\ U.hosts = T.hosts /\ U.assets = T.assets
        /\ Moves(ProjectsAs(e), e.name, q.dry, q.projectIds, T.projects, r.projectIds, U.projects)
    BY DEF ProjectEffect, EntryWith, EntryOf, Carried
  <1>3. ~Told(q, "projects", q.at) /\ Told(r, "projects", q.at)
    BY <1>1, <1>2, EntryTold
  <1>4. Says(q, "projects", q.at, T) = ProjectSays(e, T)
    BY DEF Says
  <1>5. /\ q.upload.kind # "nmap" /\ Checked(b) /\ q.dry \in BOOLEAN /\ q.projectIds \in RunIds
        /\ IdsRight(q.projectIds, T.projects, q.dry)
    BY <1>2 DEF Watched, RunOK, Run, Placed, Importing, Applying, Progress, Learnt
  <1>6. T.projects \in [Ids -> Project \union {Nil}] /\ Unique(T.projects)
        /\ Linked(T.vendors, T.projects, T.hosts, T.assets)
    BY DEF World, Tables
  <1>7. ProjectsAs(e) \in SUBSET Project
    BY DEF ProjectsAs
  <1>8. e.name \in Names
    BY <1>2, <1>5 DEF Checked
  <1> HIDE DEF e
  <1>9. Followed(ProjectsAs(e), e.name, q.dry, q.projectIds, T.projects, r.projectIds, U.projects)
    BY <1>2, <1>5, <1>6, <1>7, <1>8, RowsNotNil, RowMoves
  <1>10. ASSUME NEW i \in Live(T.projects) \union {Nil}, NEW m
         PROVE  i \in Called(T.projects, m) <=> i \in Called(U.projects, m)
    BY <1>2, <1>6, <1>7, RowsNotNil, CalledKept
  <1>11. ASSUME NEW t \in Section, NEW l \in DOMAIN b[t], ~(t = "projects" /\ l = q.at)
         PROVE  /\ Told(r, t, l) <=> Told(q, t, l)
                /\ Says(r, t, l, U) = Says(q, t, l, T)
    <2>1. l \in Nat
      BY <1>1, Sections
    <2>2. Told(r, t, l) <=> Told(q, t, l)
      BY <1>1, <1>2, <1>11, <2>1, EntryTold
    <2>3. CASE t = "vendors"
      BY <1>2, <2>2, <2>3 DEF Says, VendorSays
    <2>4. CASE t = "projects"
      <3>1. b.projects[l].name # e.name
        BY <1>1, <1>2, <1>11, <2>4 DEF Apart, e
      <3>2. SameRows(T.projects, U.projects, b.projects[l].name)
        BY <1>9, <3>1 DEF Followed
      <3>3. ProjectSays(b.projects[l], U) = ProjectSays(b.projects[l], T)
        BY <3>2 DEF ProjectSays, SameRows
      <3> QED BY <1>2, <2>2, <2>4, <3>3 DEF Says
    <2>5. CASE t = "hosts"
      BY <1>2, <2>2, <2>5 DEF Says, HostSays
    <2>6. CASE t = "assets"
      <3> DEFINE a == b.assets[l]
      <3>1. a.ip \in Ips
        BY <1>5, <1>11, <2>6 DEF Checked
      <3>2. T.assets[a.ip] # Nil => T.assets[a.ip].project \in Live(T.projects) \union {Nil}
        BY <1>6, <3>1 DEF Linked
      <3> HIDE DEF a
      <3>3. AssetSays(a, U) = AssetSays(a, T)
        BY <1>2, <1>10, <3>2, AssetSaysLike
      <3> QED BY <1>2, <1>5, <2>2, <2>6, <3>3 DEF Says, a
    <2> QED BY <2>3, <2>4, <2>5, <2>6 DEF Section
  <1> QED BY <1>1, <1>2, <1>3, <1>4, <1>11, TotalTold DEF Section

LEMMA HostTold ==
  ASSUME NEW q, NEW r, NEW T, NEW U, World(T), Watched(q, T), HostEffect(q, r, T, U)
  PROVE  SameTotals(q, r, T, U)
  <1> DEFINE b == q.bundle
             e == b.hosts[q.at]
  <1>1. q.at \in Nat /\ b \in Bundle \union ScanBundle /\ q.count \in Counts /\ Apart(b)
        /\ DOMAIN b.hosts \subseteq Nat
    BY Sections DEF Watched, RunOK, Run, Section
  <1>2. /\ q.phase = "hosts" /\ r.phase = "hosts" /\ r.at = q.at + 1 /\ r.bundle = b
        /\ r.upload = q.upload /\ q.at \in DOMAIN b.hosts
        /\ r.count = Counted(q, "hosts", HostSays(e, T))
        /\ U.vendors = T.vendors /\ U.projects = T.projects /\ U.assets = T.assets
        /\ Moves(HostsAs(e), e.name, q.dry, q.hostIds, T.hosts, r.hostIds, U.hosts)
    BY DEF HostEffect, EntryWith, EntryOf, Carried
  <1>3. ~Told(q, "hosts", q.at) /\ Told(r, "hosts", q.at)
    BY <1>1, <1>2, EntryTold
  <1>4. Says(q, "hosts", q.at, T) = HostSays(e, T)
    BY DEF Says
  <1>5. /\ q.upload.kind # "nmap" /\ Checked(b) /\ q.dry \in BOOLEAN /\ q.hostIds \in RunIds
        /\ IdsRight(q.hostIds, T.hosts, q.dry)
    BY <1>2 DEF Watched, RunOK, Run, Placed, Importing, Applying, Progress, Learnt
  <1>6. T.hosts \in [Ids -> Host \union {Nil}] /\ Unique(T.hosts)
        /\ Linked(T.vendors, T.projects, T.hosts, T.assets)
    BY DEF World, Tables
  <1>7. HostsAs(e) \in SUBSET Host
    BY DEF HostsAs
  <1>8. e.name \in Names
    BY <1>2, <1>5 DEF Checked, Host
  <1> HIDE DEF e
  <1>9. Followed(HostsAs(e), e.name, q.dry, q.hostIds, T.hosts, r.hostIds, U.hosts)
    BY <1>2, <1>5, <1>6, <1>7, <1>8, RowsNotNil, RowMoves
  <1>10. ASSUME NEW i \in Live(T.hosts) \union {Nil}, NEW m
         PROVE  i \in Called(T.hosts, m) <=> i \in Called(U.hosts, m)
    BY <1>2, <1>6, <1>7, RowsNotNil, CalledKept
  <1>11. ASSUME NEW t \in Section, NEW l \in DOMAIN b[t], ~(t = "hosts" /\ l = q.at)
         PROVE  /\ Told(r, t, l) <=> Told(q, t, l)
                /\ Says(r, t, l, U) = Says(q, t, l, T)
    <2>1. l \in Nat
      BY <1>1, Sections
    <2>2. Told(r, t, l) <=> Told(q, t, l)
      BY <1>1, <1>2, <1>11, <2>1, EntryTold
    <2>3. CASE t = "vendors"
      BY <1>2, <2>2, <2>3 DEF Says, VendorSays
    <2>4. CASE t = "projects"
      BY <1>2, <2>2, <2>4 DEF Says, ProjectSays
    <2>5. CASE t = "hosts"
      <3>1. b.hosts[l].name # e.name
        BY <1>1, <1>2, <1>11, <2>5 DEF Apart, e
      <3>2. SameRows(T.hosts, U.hosts, b.hosts[l].name)
        BY <1>9, <3>1 DEF Followed
      <3>3. HostSays(b.hosts[l], U) = HostSays(b.hosts[l], T)
        BY <3>2 DEF HostSays, SameRows
      <3> QED BY <1>2, <2>2, <2>5, <3>3 DEF Says
    <2>6. CASE t = "assets"
      <3> DEFINE a == b.assets[l]
      <3>1. a.ip \in Ips
        BY <1>5, <1>11, <2>6 DEF Checked
      <3>2. T.assets[a.ip] # Nil => T.assets[a.ip].host \in Live(T.hosts) \union {Nil}
        BY <1>6, <3>1 DEF Linked
      <3> HIDE DEF a
      <3>3. AssetSays(a, U) = AssetSays(a, T)
        BY <1>2, <1>10, <3>2, AssetSaysLike
      <3> QED BY <1>2, <1>5, <2>2, <2>6, <3>3 DEF Says, a
    <2> QED BY <2>3, <2>4, <2>5, <2>6 DEF Section
  <1> QED BY <1>1, <1>2, <1>3, <1>4, <1>11, TotalTold DEF Section

LEMMA OpenTold ==
  ASSUME NEW q, NEW r, NEW T, NEW U, Watched(q, T), OpenEffect(q, r, T, U)
  PROVE  SameTotals(q, r, T, U)
  <1> DEFINE b == q.bundle
  <1>1. q.at \in Nat /\ b \in Bundle \union ScanBundle
    BY DEF Watched, RunOK, Run
  <1>2. r.bundle = b /\ r.upload = q.upload /\ r.at = 1 /\ r.count = q.count /\ U = T
    BY DEF OpenEffect, Carried
  <1>3. \A t, l : Says(r, t, l, U) = Says(q, t, l, T)
    BY <1>2 DEF Says
  <1>4. ASSUME NEW t \in Section, NEW l \in DOMAIN b[t]
        PROVE  Told(r, t, l) <=> Told(q, t, l)
    <2>1. l \in 1..Len(b[t]) /\ Len(b[t]) \in Nat
      BY <1>1, Sections
    <2>2. CASE q.phase = "valid" /\ r.phase = "vendors"
      BY <1>2, <2>1, <2>2 DEF Told, Done, Beyond, During, Decided, AtAsset, Scanning, Section
    <2>3. CASE q.phase = "vendors" /\ q.at > Len(b.vendors) /\ r.phase = "projects"
      BY <1>1, <1>2, <2>1, <2>3 DEF Told, Done, Beyond, During, Decided, AtAsset, Scanning, Section
    <2>4. CASE q.phase = "projects" /\ q.at > Len(b.projects) /\ r.phase = "hosts"
      BY <1>1, <1>2, <2>1, <2>4 DEF Told, Done, Beyond, During, Decided, AtAsset, Scanning, Section
    <2>5. CASE q.phase = "hosts" /\ q.at > Len(b.hosts) /\ r.phase = "assets"
      BY <1>1, <1>2, <2>1, <2>5 DEF Told, Done, Beyond, During, Decided, AtAsset, Scanning, Section
    <2> QED BY <2>2, <2>3, <2>4, <2>5 DEF OpenEffect
  <1> QED BY <1>2, <1>3, <1>4, TotalStays

(* What is told of the entries of a file while its assets are applied.     *)
LEMMA AssetsTold ==
  ASSUME NEW q, q.phase \in AtAsset \union Scanning, q.at \in Nat
  PROVE  /\ \A s \in {"vendors", "projects", "hosts"} : \A l :
              Told(q, s, l) <=> q.phase \in AtAsset
         /\ \A l \in Nat : Told(q, "assets", l)
              <=> l < q.at \/ (q.phase \in Decided /\ l = q.at)
  BY DEF Told, Done, Beyond, During, AtAsset, Scanning, Decided

LEMMA AssetTold ==
  ASSUME NEW q, NEW r, NEW T, NEW U, Watched(q, T), AssetEffect(q, r, T, U)
  PROVE  SameTotals(q, r, T, U)
  <1> DEFINE b == q.bundle
             a == AssetOf(q)
             counts == (q.phase = "assets" /\ T.assets[a.ip] = Nil) \/ q.phase = "tags"
  <1>1. q.at \in Nat /\ b \in Bundle \union ScanBundle /\ q.count \in Counts /\ Apart(b)
    BY DEF Watched, RunOK, Run
  <1>2. /\ q.phase \in AtAsset /\ r.phase \in AtAsset /\ r.bundle = b /\ r.upload = q.upload
        /\ q.at \in DOMAIN b.assets
        /\ r.at = IF r.phase = "assets" THEN q.at + 1 ELSE q.at
        /\ U.projects = T.projects /\ U.hosts = T.hosts
        /\ \A ip \in Ips \ {a.ip} : U.assets[ip] = T.assets[ip]
        /\ (r.phase = "tags") = (q.phase = "assets" /\ T.assets[a.ip] # Nil)
        /\ r.count = IF counts THEN Counted(q, "assets", AssetSays(a, T)) ELSE q.count
    BY DEF AssetEffect, Carried
  <1>3. q.upload.kind # "nmap" /\ Checked(b)
    BY <1>2 DEF Watched, RunOK, Placed, Importing, Applying, AtAsset
  <1>4. Says(q, "assets", q.at, T) = AssetSays(a, T)
    BY <1>3 DEF Says, AssetOf
  <1>5. ASSUME NEW t \in Section, NEW l \in DOMAIN b[t], ~(t = "assets" /\ l = q.at)
        PROVE  /\ Told(r, t, l) <=> Told(q, t, l)
               /\ ~Told(q, t, l) => Says(r, t, l, U) = Says(q, t, l, T)
    <2>1. l \in Nat
      BY <1>1, Sections
    <2>2. CASE t # "assets"
      BY <1>1, <1>2, <2>2, AssetsTold DEF Section
    <2>3. CASE t = "assets"
      <3>1. Told(r, t, l) <=> Told(q, t, l)
        BY <1>1, <1>2, <1>5, <2>1, <2>3, AssetsTold DEF AtAsset, Decided
      <3>2. b.assets[l].ip # a.ip /\ b.assets[l].ip \in Ips
        BY <1>1, <1>2, <1>3, <1>5, <2>3 DEF Apart, AssetOf, Checked
      <3>3. U.assets[b.assets[l].ip] = T.assets[b.assets[l].ip]
        BY <1>2, <3>2
      <3>4. AssetSays(b.assets[l], U) = AssetSays(b.assets[l], T)
        BY <1>2, <3>3, AssetSaysLike
      <3> QED BY <1>2, <1>3, <2>3, <3>1, <3>4 DEF Says
    <2> QED BY <2>2, <2>3
  <1> HIDE DEF a
  <1>6. CASE counts
    <2>1. ~Told(q, "assets", q.at)
      BY <1>1, <1>2, <1>6, AssetsTold DEF Decided
    <2>2. r.phase # "tags"
      BY <1>2, <1>6
    <2>3. Told(r, "assets", q.at)
      BY <1>1, <1>2, <2>2, AssetsTold DEF Decided, AtAsset
    <2> HIDE DEF b
    <2>4. r.count = Counted(q, "assets", Says(q, "assets", q.at, T))
      BY <1>2, <1>4, <1>6
    <2> QED BY <1>1, <1>2, <1>5, <2>1, <2>3, <2>4, TotalTold DEF Section, b
  <1>7. CASE ~counts
    <2>1. CASE q.phase = "assets"
      <3>1. T.assets[a.ip] # Nil /\ r.phase = "tags" /\ r.at = q.at
        BY <1>2, <1>7, <2>1
      <3>2. U = T
        BY <2>1 DEF AssetEffect
      <3>3. Told(r, "assets", q.at) <=> Told(q, "assets", q.at)
        BY <1>1, <1>2, <2>1, <3>1, AssetsTold DEF Decided
      <3>4. Says(r, "assets", q.at, U) = Says(q, "assets", q.at, T)
        BY <1>2, <3>2 DEF Says
      <3>5. r.count = q.count
        BY <1>2, <1>7
      <3> QED BY <1>2, <1>5, <3>3, <3>4, <3>5, TotalStays
    <2>2. CASE q.phase # "assets"
      <3>1. q.phase \in Decided /\ r.phase # "tags"
        BY <1>2, <1>7, <2>2 DEF AtAsset, Decided
      <3>2. Told(q, "assets", q.at) /\ Told(r, "assets", q.at)
        BY <1>1, <1>2, <3>1, AssetsTold DEF Decided, AtAsset
      <3>3. r.count = q.count
        BY <1>2, <1>7
      <3> QED BY <1>2, <1>5, <3>2, <3>3, TotalStays
    <2> QED BY <2>1, <2>2
  <1> QED BY <1>6, <1>7

LEMMA ScanTold ==
  ASSUME NEW q, NEW r, NEW T, NEW U, Watched(q, T), ScanEffect(q, r, T, U)
  PROVE  SameTotals(q, r, T, U)
  <1> DEFINE b == q.bundle
             a == AssetOf(q)
  <1>1. q.at \in Nat /\ b \in ScanBundle /\ q.count \in Counts /\ Apart(b)
        /\ q.upload.kind = "nmap"
    BY DEF Watched, RunOK, Run, Placed, ScanEffect
  <1>2. /\ q.phase \in Scanning /\ r.phase \in Scanning /\ r.bundle = b /\ r.upload = q.upload
        /\ q.at \in DOMAIN b.assets
        /\ r.at = IF r.phase = "scan" THEN q.at + 1 ELSE q.at
        /\ U.vendors = T.vendors /\ U.projects = T.projects /\ U.hosts = T.hosts
        /\ \A ip \in Ips \ {a.ip} : U.assets[ip] = T.assets[ip]
        /\ r.count = IF q.phase = "scan" THEN Counted(q, "assets", AddressSays(a, T)) ELSE q.count
    BY DEF ScanEffect, Carried
  <1>3. \A k \in DOMAIN b.assets : b.assets[k].ip \in Ips
    <2>1. b.assets \in Seq([ip : Ips, type : Types])
      BY <1>1, SMT DEF ScanBundle
    <2>2. \A x \in [ip : Ips, type : Types] : x.ip \in Ips
      OBVIOUS
    <2> QED BY <2>1, <2>2, SeqElement
  <1>4. Says(q, "assets", q.at, T) = AddressSays(a, T)
    BY <1>1 DEF Says, AssetOf
  <1>5. ASSUME NEW t \in Section, NEW l \in DOMAIN b[t], ~(t = "assets" /\ l = q.at)
        PROVE  /\ Told(r, t, l) <=> Told(q, t, l)
               /\ ~Told(q, t, l) => Says(r, t, l, U) = Says(q, t, l, T)
    <2>1. l \in Nat
      BY <1>1, Sections
    <2>2. CASE t # "assets"
      <3>1. Told(r, t, l) <=> Told(q, t, l)
        BY <1>1, <1>2, <2>2, AssetsTold DEF Section, AtAsset, Scanning
      <3>2. Says(r, t, l, U) = Says(q, t, l, T)
        BY <1>2, <2>2 DEF Says, VendorSays, ProjectSays, HostSays, Section
      <3> QED BY <3>1, <3>2
    <2>3. CASE t = "assets"
      <3>1. Told(r, t, l) <=> Told(q, t, l)
        BY <1>1, <1>2, <1>5, <2>1, <2>3, AssetsTold DEF Scanning, Decided
      <3>2. b.assets[l].ip # a.ip /\ b.assets[l].ip \in Ips
        BY <1>1, <1>2, <1>3, <1>5, <2>3 DEF Apart, AssetOf
      <3>3. AddressSays(b.assets[l], U) = AddressSays(b.assets[l], T)
        BY <1>2, <3>2 DEF AddressSays
      <3> QED BY <1>1, <1>2, <2>3, <3>1, <3>3 DEF Says
    <2> QED BY <2>2, <2>3
  <1> HIDE DEF a
  <1>6. Told(r, "assets", q.at)
    BY <1>1, <1>2, AssetsTold DEF Decided, Scanning
  <1>7. CASE q.phase = "scan"
    <2>1. ~Told(q, "assets", q.at)
      BY <1>1, <1>2, <1>7, AssetsTold DEF Decided
    <2>2. r.count = Counted(q, "assets", Says(q, "assets", q.at, T))
      BY <1>2, <1>4, <1>7
    <2> QED BY <1>1, <1>2, <1>5, <1>6, <2>1, <2>2, TotalTold DEF Section
  <1>8. CASE q.phase # "scan"
    <2>1. Told(q, "assets", q.at) /\ r.count = q.count
      BY <1>1, <1>2, <1>8, AssetsTold DEF Decided, Scanning
    <2> QED BY <1>2, <1>5, <1>6, <2>1, TotalStays
  <1> QED BY <1>7, <1>8

LEMMA EffectTold ==
  ASSUME NEW q, NEW r, NEW T, NEW U, World(T), Watched(q, T), Effect(q, r, T, U)
  PROVE  SameTotals(q, r, T, U)
  BY OpenTold, VendorTold, ProjectTold, HostTold, AssetTold, ScanTold DEF Effect

LEMMA EndTold ==
  ASSUME NEW q, NEW r, NEW T, NEW U, Watched(q, T), EndEffect(q, r, T, U)
  PROVE  SameTotals(q, r, T, U)
  <1> DEFINE b == q.bundle
  <1>1. q.at \in Nat /\ b \in Bundle \union ScanBundle
        /\ q.phase \in {"assets", "scan"} /\ q.at > Len(b.assets)
        /\ (q.phase = "scan" => b \in ScanBundle)
    BY DEF Watched, RunOK, Run, Placed, EndEffect, Scanning
  <1>2. r.bundle = b /\ r.phase = "ended" /\ r.count = q.count
    BY DEF EndEffect, EndedAs, Carried
  <1>3. ASSUME NEW t \in Section, NEW l \in DOMAIN b[t]
        PROVE  Told(q, t, l)
    <2>1. l \in 1..Len(b[t]) /\ Len(b[t]) \in Nat
      BY <1>1, Sections
    <2>2. CASE t = "assets"
      BY <1>1, <2>1, <2>2, AssetsTold DEF AtAsset, Scanning
    <2>3. CASE t # "assets" /\ q.phase = "assets"
      BY <1>1, <2>3, AssetsTold DEF AtAsset, Section
    <2>4. CASE t # "assets" /\ q.phase = "scan"
      <3>1. b.vendors = <<>> /\ b.projects = <<>> /\ b.hosts = <<>>
        BY <1>1, <2>4, SMT DEF ScanBundle
      <3>2. b[t] = <<>>
        BY <2>4, <3>1 DEF Section
      <3> QED BY <2>1, <3>2
    <2> QED BY <1>1, <2>2, <2>3, <2>4
  <1> QED BY <1>2, <1>3, TotalStays DEF Told

-----------------------------------------------------------------------------
(* A run that has its file has read it, and as long as nothing was         *)
(* committed since it began, it counts what the tables say of every entry. *)

Tracked(q) == Going(q) \/ q.end = "completed"

TallyAt(q, T, n) ==
  /\ q.phase \in {"new", "posted"} => q.at = 1
  /\ q.phase = "parsed" \/ Tracked(q) \/ q.end = "failed" => q.bundle = Parsed(q.upload)
  /\ Tracked(q) /\ Apart(q.bundle) /\ n = q.base /\ q.wrote = 0 =>
       \A s \in Section, how \in Hows : Total(q, s, how, T) = Cardinality(Said(q, s, how, T))

TallyOK(j) == TallyAt(run[j], Stored, commits)

TallyInv == \A j \in Runs : TallyOK(j)

LEMMA ZeroCounted ==
  ASSUME NEW q \in Run, Sums(q, 0, 0, 0, 0), NEW s \in Section, NEW how \in Hows
  PROVE  q.count[s][how] = 0
  <1>1. q.count \in Counts
    BY DEF Run
  <1>2. q.count[s] \in Tally /\ Sum(q.count[s]) = 0
    BY <1>1 DEF Counts, Sums, Section
  <1> DEFINE t == q.count[s]
  <1>3. t.create \in Nat /\ t.update \in Nat /\ t.skip \in Nat /\ t.create + t.update + t.skip = 0
    BY <1>2 DEF Tally, Sum, Hows
  <1> HIDE DEF t
  <1>4. \A x, y, z \in Nat : x + y + z = 0 => x = 0 /\ y = 0 /\ z = 0
    OBVIOUS
  <1>5. t.create = 0 /\ t.update = 0 /\ t.skip = 0
    BY <1>3, <1>4, Zenon
  <1>6. t[how] = 0
    BY <1>5 DEF Hows
  <1> QED BY <1>6 DEF t

LEMMA NothingTold ==
  ASSUME NEW q, NEW T, \A s \in Section, how \in Hows : q.count[s][how] = 0,
         q.bundle \in Bundle \union ScanBundle,
         q.phase = "valid" \/ (q.phase = "scan" /\ q.at = 1),
         NEW s \in Section, NEW how \in Hows
  PROVE  Total(q, s, how, T) = Cardinality(Said(q, s, how, T))
  <1>1. \A k \in DOMAIN q.bundle[s] : k \in Nat /\ k >= 1
    BY Sections
  <1>2. \A k \in DOMAIN q.bundle[s] : ~Told(q, s, k)
    BY <1>1 DEF Told, Done, Beyond, During, Decided, AtAsset, Scanning, Section
  <1>3. Open(q, s, how, T) = Said(q, s, how, T)
    BY <1>2 DEF Open, Said
  <1>4. Cardinality(Said(q, s, how, T)) \in Nat
    <2>1. IsFiniteSet(DOMAIN q.bundle[s]) /\ Said(q, s, how, T) \in SUBSET DOMAIN q.bundle[s]
      BY Sections DEF Said
    <2> QED BY <2>1, FS_Subset, FS_CardinalityType
  <1> QED BY <1>3, <1>4 DEF Total

LEMMA TallyStands ==
  ASSUME NEW q \in Run, NEW T, NEW n \in Nat, EffectAt(q, T, n), TallyAt(q, T, n),
         NEW U, NEW m \in Nat, n <= m, m = n => U = T
  PROVE  TallyAt(q, U, m)
  <1>1. q.base \in Nat /\ q.wrote \in Nat /\ q.base + q.wrote <= n
    BY DEF Run, EffectAt
  <1>2. m = q.base => m = n
    BY <1>1
  <1> QED BY <1>2 DEF TallyAt

(* What a run begins as.                                                   *)
LEMMA PostIs ==
  ASSUME ImportInv, NEW j \in Runs, Post(j)
  PROVE  run'[j].phase = "posted" /\ run'[j].at = 1 /\ run'[j].end = "none" /\ run'[j].wrote = 0
  <1>1. PICK u \in Asked.uploads, dry \in Asked.modes, editor \in BOOLEAN :
          Continue(j, [NewRun EXCEPT !.phase = "posted", !.upload = u, !.dry = dry,
                                     !.editor = editor])
    BY DEF Post
  <1>2. run'[j] = [NewRun EXCEPT !.phase = "posted", !.upload = u, !.dry = dry,
                                 !.editor = editor]
    BY <1>1, ContinueIs
  <1> QED BY <1>2 DEF NewRun

LEMMA ConnectIs ==
  ASSUME ImportInv, NEW j \in Runs, Connect(j)
  PROVE  /\ run'[j].phase = "parsed" /\ run'[j].end = "none" /\ run'[j].wrote = 0
         /\ run'[j].bundle = Parsed(run'[j].upload)
  <1>1. PICK file \in Asked.bundles, dry \in Asked.modes :
          Continue(j, [NewRun EXCEPT !.phase = "parsed", !.source = "thread",
                         !.upload = FromConnector(file), !.dry = dry, !.editor = TRUE,
                         !.bundle = ParseBundle(file), !.base = commits])
    BY DEF Connect
  <1>2. run'[j] = [NewRun EXCEPT !.phase = "parsed", !.source = "thread",
                     !.upload = FromConnector(file), !.dry = dry, !.editor = TRUE,
                     !.bundle = ParseBundle(file), !.base = commits]
    BY <1>1, ContinueIs
  <1>3. run'[j].phase = "parsed" /\ run'[j].end = "none" /\ run'[j].wrote = 0
        /\ run'[j].bundle = ParseBundle(file) /\ run'[j].upload = FromConnector(file)
    BY <1>2 DEF NewRun
  <1>4. Parsed(FromConnector(file)) = ParseBundle(file)
    BY DEF Parsed, FromConnector
  <1> QED BY <1>3, <1>4

LEMMA BeginTallies ==
  ASSUME ImportInv, NEW j \in Runs, Post(j) \/ Connect(j)
  PROVE  TallyOK(j)'
  <1>1. CASE Post(j)
    BY <1>1, PostIs DEF TallyOK, TallyAt, Tracked, Going, Applying, Scanning
  <1>2. CASE Connect(j)
    BY <1>2, ConnectIs DEF TallyOK, TallyAt, Tracked, Going, Applying, Scanning
  <1> QED BY <1>1, <1>2

LEMMA ReceiveTallies ==
  ASSUME ImportInv, ImportInv', NEW j \in Runs, Receive(j), TallyOK(j)
  PROVE  TallyOK(j)'
  <1> DEFINE q == run[j]
             r == run'[j]
             to == IF q.upload.kind = "nmap" THEN "scan" ELSE "parsed"
             x == [q EXCEPT !.bundle = Parsed(q.upload), !.base = commits, !.phase = to]
  <1>1. q \in Run /\ RunOK(q) /\ r \in Run /\ q.phase = "posted" /\ q.at = 1
    BY DEF ImportInv, Receive, TallyOK, TallyAt
  <1>2. ASSUME NEW e \in {"forbidden", "refused", "invalid"}, Stop(j, q, e)
        PROVE  TallyOK(j)'
    <2>1. r.phase = "ended" /\ r.end = e
      BY <1>2, StopIs DEF EndedAs
    <2> QED BY <2>1 DEF TallyOK, TallyAt, Tracked, Going, Applying, Scanning
  <1>3. CASE run' = [run EXCEPT ![j] = x]
    <2>1. r = x
      BY <1>3 DEF ImportInv
    <2>2. x.phase = to /\ x.upload = q.upload /\ x.bundle = Parsed(q.upload) /\ x.at = q.at
          /\ x.count = q.count /\ x.end = q.end
      BY <1>1, SMT DEF Run
    <2>3. q.end = "none"
      BY <1>1 DEF RunOK, Allowed
    <2>4. \A s \in Section, how \in Hows : q.count[s][how] = 0
      <3>1. Sums(q, 0, 0, 0, 0)
        BY <1>1 DEF RunOK, Counting
      <3> QED BY <1>1, <3>1, ZeroCounted
    <2>5. to \in {"scan", "parsed"}
      OBVIOUS
    <2> HIDE DEF x, to, q
    <2>6. r.phase = to /\ r.upload = q.upload /\ r.bundle = Parsed(q.upload) /\ r.at = 1
          /\ r.end = "none" /\ r.bundle \in Bundle \union ScanBundle
          /\ \A s \in Section, how \in Hows : r.count[s][how] = 0
      <3>1. r.bundle \in Bundle \union ScanBundle
        BY <1>1 DEF Run
      <3> QED BY <1>1, <2>1, <2>2, <2>3, <2>4, <3>1
    <2> HIDE DEF r
    <2>7. to = "scan" =>
            \A s \in Section, how \in Hows :
              Total(r, s, how, Stored') = Cardinality(Said(r, s, how, Stored'))
      BY <2>6, NothingTold
    <2>8. to = "parsed" => ~Tracked(r)
      BY <2>6 DEF Tracked, Going, Applying, Scanning
    <2>9. TallyAt(r, Stored', commits')
      BY <2>5, <2>6, <2>7, <2>8 DEF TallyAt
    <2> QED BY <2>9 DEF TallyOK, r
  <1> QED BY <1>2, <1>3 DEF Receive

LEMMA ValidateTallies ==
  ASSUME ImportInv, ImportInv', NEW j \in Runs, Validate(j), TallyOK(j)
  PROVE  TallyOK(j)'
  <1> DEFINE q == run[j]
             r == run'[j]
  <1>1. q \in Run /\ RunOK(q) /\ RunOK(r) /\ r \in Run /\ q.phase = "parsed"
        /\ q.bundle = Parsed(q.upload) /\ Carried(q, r)
    <2>1. Charged(j)
      BY StepCharged DEF Step
    <2> QED BY <2>1 DEF Charged, Grown, EndedAs, ImportInv, Validate, TallyOK, TallyAt
  <1>2. CASE r.phase = "ended" /\ r.end = "invalid"
    BY <1>2 DEF TallyOK, TallyAt, Tracked, Going, Applying, Scanning
  <1>3. CASE r.phase = "valid" /\ r.count = q.count
    <2>1. \A s \in Section, how \in Hows : r.count[s][how] = 0
      <3>1. Sums(q, 0, 0, 0, 0)
        BY <1>1 DEF RunOK, Counting
      <3> QED BY <1>1, <1>3, <3>1, ZeroCounted
    <2>2. r.bundle \in Bundle \union ScanBundle
      BY <1>1 DEF Run
    <2> HIDE DEF q, r
    <2>3. \A s \in Section, how \in Hows :
            Total(r, s, how, Stored') = Cardinality(Said(r, s, how, Stored'))
      BY <1>3, <2>1, <2>2, NothingTold
    <2>4. TallyAt(r, Stored', commits')
      BY <1>1, <1>3, <2>3 DEF TallyAt, Carried
    <2> QED BY <2>4 DEF TallyOK, r
  <1> QED BY <1>2, <1>3, ValidateActs

(* A step of a run that nobody else committed beside leaves its totals.    *)
LEMMA StepTotals ==
  ASSUME ImportInv, NamesOnce, NEW j \in Runs, Step(j), EffectOK(j), Going(run[j]),
         Apart(run[j].bundle), commits = run[j].base + run[j].wrote
  PROVE  SameTotals(run[j], run'[j], Stored, Stored')
  <1>1. Watched(run[j], Stored) /\ World(Stored)
    BY StoredIsWorld DEF ImportInv, Watched, EffectOK, EffectAt
  <1>2. \/ Effect(run[j], run'[j], Stored, Stored')
        \/ EndEffect(run[j], run'[j], Stored, Stored')
    BY <1>1, WatchedActs
  <1> QED BY <1>1, <1>2, EffectTold, EndTold

(* A run's own commits are those that are charged to it.                   *)
LEMMA StepCommits ==
  ASSUME ImportInv, ImportInv', NEW j \in Runs, Step(j), EffectOK(j)
  PROVE  /\ Carried(run[j], run'[j])
         /\ run[j].phase = "parsed" \/ Going(run[j])
         /\ commits <= commits' /\ (commits' = commits => Stored' = Stored)
         /\ commits' = run'[j].base + run'[j].wrote <=> commits = run[j].base + run[j].wrote
         /\ run'[j].wrote = run[j].wrote => commits' = commits
         /\ run[j].wrote <= run'[j].wrote
         /\ run'[j].end = "completed" => /\ commits' = commits /\ run'[j].wrote = run[j].wrote
                                         /\ run'[j].alone = (commits = run[j].base + run[j].wrote)
  <1> DEFINE q == run[j]
             r == run'[j]
  <1>1. q \in Run /\ RunOK(q) /\ r \in Run /\ commits \in Nat /\ commits' \in Nat
        /\ q.base \in Nat /\ q.wrote \in Nat /\ r.wrote \in Nat
    BY SMT DEF ImportInv, RunOK, Run
  <1>2. Charged(j)
    BY StepCharged
  <1>3. q.phase = "parsed" \/ Going(q)
    BY <1>1, StepShape DEF Moved, Active, Run, Phases, Going, Applying, Scanning
  <1>4. q.end = "none"
    BY <1>1, StepShape DEF Moved, Active, RunOK, Allowed
  <1>5. Carried(q, r)
    BY <1>2 DEF Charged, Grown, EndedAs
  <1>6. CASE Grown(q, r, 0) /\ commits' = commits /\ Stored' = Stored
    BY <1>1, <1>3, <1>4, <1>5, <1>6 DEF Grown, Carried
  <1>7. CASE Grown(q, r, 1) /\ commits' = commits + 1
    BY <1>1, <1>3, <1>4, <1>5, <1>7 DEF Grown, Carried
  <1>8. CASE /\ \E end \in Ends : EndedAs(q, r, end, commits = q.base + q.wrote)
             /\ commits' = commits /\ Stored' = Stored
    BY <1>1, <1>3, <1>4, <1>5, <1>8 DEF EndedAs, Carried
  <1> QED BY <1>2, <1>6, <1>7, <1>8 DEF Charged

LEMMA SaidLike ==
  ASSUME NEW q, NEW r, r.upload = q.upload, r.bundle = q.bundle, NEW s, NEW how, NEW T
  PROVE  Said(r, s, how, T) = Said(q, s, how, T)
  BY DEF Said, Says

LEMMA StepTallies ==
  ASSUME ImportInv, ImportInv', NamesOnce, NEW j \in Runs, Step(j), EffectOK(j), TallyOK(j)
  PROVE  TallyOK(j)'
  <1> DEFINE q == run[j]
             r == run'[j]
  <1>1. CASE q.phase = "parsed"
    <2>1. Validate(j)
      BY <1>1 DEF Step, Apply, Record, Nmap, OpenVendors, VendorEntry, OpenProjects, ProjectEntry,
         CreateProject, UpdateProject, OpenHosts, HostEntry, CreateHost, UpdateHost, OpenAssets,
         ReadAsset, ReadTags, CreateAsset, UpdateAsset, ArchiveAsset, NmapRead, NmapCreate,
         NmapDone, AtEntry, PastLast
    <2> QED BY <2>1, ValidateTallies
  <1>2. CASE Going(q)
    <2>1. q.base \in Nat /\ q.wrote \in Nat /\ r.wrote \in Nat /\ commits \in Nat
          /\ r.base \in Nat
      BY SMT DEF ImportInv, Run
    <2>2. Carried(q, r)
      BY StepCommits
    <2>3. r.phase \notin {"new", "posted"}
      BY <1>2, StepCharged DEF Charged, Grown, EndedAs, Going, Applying, Scanning
    <2>4. q.bundle = Parsed(q.upload)
      BY <1>2 DEF TallyOK, TallyAt, Tracked
    <2>5. ASSUME Apart(r.bundle), commits' = r.base, r.wrote = 0,
                 NEW s \in Section, NEW how \in Hows
          PROVE  Total(r, s, how, Stored') = Cardinality(Said(r, s, how, Stored'))
      <3>1. q.wrote = 0 /\ commits = q.base /\ Stored' = Stored
        BY <2>1, <2>2, <2>5, StepCommits DEF Carried
      <3>2. SameTotals(q, r, Stored, Stored')
        BY <1>2, <2>1, <2>2, <2>5, <3>1, StepTotals DEF Carried
      <3>3. Total(q, s, how, Stored) = Cardinality(Said(q, s, how, Stored))
        BY <1>2, <2>2, <2>5, <3>1 DEF TallyOK, TallyAt, Tracked, Carried
      <3>4. Said(r, s, how, Stored) = Said(q, s, how, Stored)
        BY <2>2, SaidLike DEF Carried
      <3> QED BY <3>1, <3>2, <3>3, <3>4 DEF SameTotals
    <2> HIDE DEF q, r
    <2>6. TallyAt(r, Stored', commits')
      BY <2>2, <2>3, <2>4, <2>5 DEF TallyAt, Carried
    <2> QED BY <2>6 DEF TallyOK, r
  <1> QED BY <1>1, <1>2, StepCommits

LEMMA RestartShape ==
  ASSUME ImportInv, Restart, NEW j \in Runs
  PROVE  run'[j] = run[j] \/ (run'[j].phase = "ended" /\ run'[j].end = "killed")
  <1> DEFINE q == run[j]
             r == [q EXCEPT !.phase = "ended", !.end = "killed", !.known = Nil, !.row = Nil,
                            !.goal = Nil]
  <1>1. q \in Run
    BY DEF ImportInv
  <1>2. run'[j] = q \/ run'[j] = r
    BY DEF Restart
  <1>3. r.phase = "ended" /\ r.end = "killed"
    BY <1>1, SMT DEF Run
  <1> QED BY <1>2, <1>3

LEMMA TallyKept ==
  ASSUME ImportInv, ImportInv', EffectInv, TallyInv, [Next]_vars
  PROVE  TallyInv'
  <1>1. commits \in Nat /\ commits' \in Nat /\ NamesOnce
        /\ \A j \in Runs : run[j] \in Run /\ EffectOK(j) /\ TallyOK(j)
    BY DEF ImportInv, EffectInv, TallyInv
  <1>2. ASSUME NEW i \in Runs, run'[i] = run[i], commits <= commits',
               commits' = commits => Stored' = Stored
        PROVE  TallyOK(i)'
    BY <1>1, <1>2, TallyStands DEF TallyOK, EffectOK
  <1> SUFFICES ASSUME NEW i \in Runs PROVE TallyOK(i)'
    BY DEF TallyInv
  <1>3. CASE UNCHANGED vars
    BY <1>1, <1>2, <1>3 DEF vars, Stored
  <1>4. ASSUME NEW j \in Runs, Post(j) \/ Connect(j) \/ Receive(j) PROVE TallyOK(i)'
    <2>1. commits' = commits /\ Stored' = Stored
      BY <1>4 DEF Post, Connect, Receive, Reads, tables, Stored
    <2>2. CASE i = j
      BY <1>1, <1>4, <2>2, BeginTallies, ReceiveTallies
    <2>3. CASE i # j
      <3>1. run'[i] = run[i]
        BY <1>4, <2>3, ContinueShape, StopShape DEF Post, Connect, Receive, ImportInv
      <3> QED BY <1>1, <1>2, <2>1, <3>1
    <2> QED BY <2>2, <2>3
  <1>5. ASSUME NEW j \in Runs, Step(j) PROVE TallyOK(i)'
    <2>1. CASE i = j
      BY <1>1, <1>5, <2>1, StepTallies
    <2>2. CASE i # j
      <3>1. run'[i] = run[i]
        BY <1>5, <2>2, StepShape DEF Moved
      <3> QED BY <1>1, <1>2, <1>5, <3>1, StepCommits
    <2> QED BY <2>1, <2>2
  <1>6. CASE Others
    BY <1>1, <1>2, <1>6, OthersCommit
  <1>7. CASE Restart
    <2>1. commits' = commits /\ Stored' = Stored
      BY <1>7 DEF Restart, tables, Stored
    <2>2. CASE run'[i] = run[i]
      BY <1>1, <1>2, <2>1, <2>2
    <2>3. CASE run'[i].phase = "ended" /\ run'[i].end = "killed"
      BY <2>3 DEF TallyOK, TallyAt, Tracked, Going, Applying, Scanning
    <2> QED BY <1>7, <2>2, <2>3, RestartShape
  <1> QED BY <1>3, <1>4, <1>5, <1>6, <1>7 DEF Next

LEMMA TallyStarts == Init => TallyInv
  <1> SUFFICES ASSUME Init PROVE TallyInv
    OBVIOUS
  <1>1. \A j \in Runs : run[j] = NewRun
    BY DEF Init
  <1>2. TallyAt(NewRun, Stored, commits)
    BY DEF TallyAt, NewRun, Tracked, Going, Applying, Scanning
  <1> QED BY <1>1, <1>2 DEF TallyInv, TallyOK

-----------------------------------------------------------------------------
(* Two runs of one file.  What the second counts is settled when it begins *)
(* and stays so until it is done, while nobody else commits.               *)

Steady(q, n) == (Going(q) /\ n = q.base + q.wrote) \/ (q.end = "completed" /\ q.alone)

AgreeAt(p, q, T, n) ==
  /\ p.end = "completed" /\ p.dry /\ p.alone /\ Steady(q, n)
  /\ q.upload = p.upload /\ q.base = p.base /\ Apart(q.bundle)
  => \A s \in Section, how \in Hows : Total(q, s, how, T) = p.count[s][how]

SkipAt(p, q, T, n) ==
  /\ Recorded(p) /\ p.alone /\ Steady(q, n)
  /\ q.upload = p.upload /\ q.base = p.base + p.wrote
  /\ Apart(q.bundle) /\ ListsInOrder(q.bundle)
  => \A s \in Section : Total(q, s, "create", T) = 0 /\ Total(q, s, "update", T) = 0

PairInv == \A i, j \in Runs : /\ AgreeAt(run[i], run[j], Stored, commits)
                              /\ SkipAt(run[i], run[j], Stored, commits)

(* A run that is done has told of every entry.                             *)
LEMMA DoneTold ==
  ASSUME NEW q \in Run, q.phase = "ended", NEW T, NEW s \in Section, NEW how \in Hows
  PROVE  Total(q, s, how, T) = q.count[s][how]
  <1>1. Open(q, s, how, T) = {}
    BY DEF Open, Told
  <1>2. q.count[s][how] \in Nat
    BY CountAt DEF Run
  <1> QED BY <1>1, <1>2, FS_EmptySet DEF Total

LEMMA NowAgree ==
  ASSUME NEW p, RunOK(p), NEW q \in Run, NEW T, NEW n \in Nat, n = q.base,
         EffectAt(p, T, n), EffectAt(q, T, n), TallyAt(p, T, n), TallyAt(q, T, n)
  PROVE  AgreeAt(p, q, T, n)
  <1> SUFFICES ASSUME p.end = "completed", Steady(q, n), q.upload = p.upload, q.base = p.base,
                      Apart(q.bundle), NEW s \in Section, NEW how \in Hows
               PROVE  Total(q, s, how, T) = p.count[s][how]
    BY DEF AgreeAt
  <1>1. p.wrote = 0 /\ q.wrote = 0
    <2>1. p.base \in Nat /\ p.wrote \in Nat /\ q.base \in Nat /\ q.wrote \in Nat
      BY SMT DEF RunOK, Run
    <2> QED BY <2>1 DEF EffectAt
  <1>2. Tracked(p) /\ Tracked(q)
    BY DEF Tracked, Steady
  <1>3. q.bundle = p.bundle
    BY <1>2 DEF TallyAt
  <1>4. Total(q, s, how, T) = Cardinality(Said(q, s, how, T))
    BY <1>1, <1>2 DEF TallyAt
  <1>5. Total(p, s, how, T) = Cardinality(Said(p, s, how, T))
    BY <1>1, <1>2, <1>3 DEF TallyAt
  <1>6. Said(q, s, how, T) = Said(p, s, how, T)
    BY <1>3, SaidLike
  <1>7. Total(p, s, how, T) = p.count[s][how]
    BY DoneTold DEF RunOK, Allowed
  <1> QED BY <1>4, <1>5, <1>6, <1>7

LEMMA SettledSkips ==
  ASSUME NEW q, q.upload.kind # "nmap", NEW T, Settled(q.bundle, T), ListsInOrder(q.bundle),
         NEW s \in Section, NEW k \in DOMAIN q.bundle[s]
  PROVE  Says(q, s, k, T) = "skip"
  <1>1. CASE s = "vendors"
    BY <1>1 DEF Says, VendorSays, Settled
  <1>2. CASE s = "projects"
    BY <1>2 DEF Says, Settled
  <1>3. CASE s = "hosts"
    BY <1>3 DEF Says, Settled
  <1>4. CASE s = "assets"
    <2> DEFINE a == q.bundle.assets[k]
               row == T.assets[a.ip]
    <2>1. AssetSettled(a, row, T)
      BY <1>4 DEF Settled
    <2>2. a.tags = Nil \/ a.merge \/ Ascending(NormalTags(a.tags))
      BY <1>4 DEF ListsInOrder
    <2>3. TagsKept(a, row.tags)
      BY <2>1, <2>2 DEF AssetSettled, TagsHeld, TagsKept
    <2>4. AssetSays(a, T) = "skip"
      BY <2>1, <2>3 DEF AssetSays, AssetSettled
    <2> QED BY <1>4, <2>4 DEF Says
  <1> QED BY <1>1, <1>2, <1>3, <1>4 DEF Section

LEMMA NowSkips ==
  ASSUME NEW p \in Run, NEW q \in Run, NEW T, NEW n \in Nat, n = q.base,
         EffectAt(p, T, n), EffectAt(q, T, n), TallyAt(p, T, n), TallyAt(q, T, n)
  PROVE  SkipAt(p, q, T, n)
  <1> SUFFICES ASSUME Recorded(p), Steady(q, n), q.upload = p.upload,
                      q.base = p.base + p.wrote, Apart(q.bundle), ListsInOrder(q.bundle),
                      NEW s \in Section
               PROVE  Total(q, s, "create", T) = 0 /\ Total(q, s, "update", T) = 0
    BY DEF SkipAt
  <1>1. q.wrote = 0
    <2>1. q.base \in Nat /\ q.wrote \in Nat
      BY SMT DEF Run
    <2> QED BY <2>1 DEF EffectAt
  <1>2. Tracked(p) /\ Tracked(q)
    BY DEF Tracked, Steady, Recorded
  <1>3. q.bundle = p.bundle
    BY <1>2 DEF TallyAt
  <1>4. Settled(q.bundle, T)
    BY <1>3 DEF EffectAt
  <1>5. \A how \in Hows : Total(q, s, how, T) = Cardinality(Said(q, s, how, T))
    BY <1>1, <1>2 DEF TallyAt
  <1>6. \A k \in DOMAIN q.bundle[s] : Says(q, s, k, T) = "skip"
    BY <1>4, SettledSkips DEF Recorded
  <1>7. Said(q, s, "create", T) = {} /\ Said(q, s, "update", T) = {}
    BY <1>6 DEF Said
  <1> QED BY <1>5, <1>7, FS_EmptySet DEF Hows

(* What a step may do to a run: nothing, its own step, or an arrival or an *)
(* end that leaves it with nothing committed and nothing completed.        *)
Elsewhere(r, n) == r.end # "completed" /\ (Going(r) => n = r.base)

LEMMA ArrivalShape ==
  ASSUME ImportInv, EffectInv, NEW j \in Runs, Post(j) \/ Connect(j) \/ Receive(j)
  PROVE  /\ Elsewhere(run'[j], commits')
         /\ run'[j].wrote = 0 /\ run'[j].phase \notin Decided
  <1>1. CASE Post(j)
    BY <1>1, PostIs DEF Elsewhere, Going, Applying, Scanning, Decided
  <1>2. CASE Connect(j)
    BY <1>2, ConnectIs DEF Elsewhere, Going, Applying, Scanning, Decided
  <1>3. CASE Receive(j)
    <2> DEFINE q == run[j]
               to == IF q.upload.kind = "nmap" THEN "scan" ELSE "parsed"
               x == [q EXCEPT !.bundle = Parsed(q.upload), !.base = commits, !.phase = to]
    <2>1. q \in Run /\ RunOK(q) /\ q.phase = "posted" /\ q.wrote = 0 /\ commits' = commits
      BY <1>3 DEF ImportInv, Receive, Reads, EffectInv, EffectOK, EffectAt
    <2>2. ASSUME NEW e \in {"forbidden", "refused", "invalid"}, Stop(j, q, e)
          PROVE  /\ Elsewhere(run'[j], commits')
                 /\ run'[j].wrote = 0 /\ run'[j].phase \notin Decided
      <3>1. run'[j].phase = "ended" /\ run'[j].end = e /\ run'[j].wrote = 0
        BY <2>1, <2>2, StopIs DEF EndedAs
      <3> QED BY <3>1 DEF Elsewhere, Going, Applying, Scanning, Decided
    <2>3. CASE run' = [run EXCEPT ![j] = x]
      <3>1. run'[j] = x
        BY <2>3 DEF ImportInv
      <3>2. x.base = commits /\ x.end = q.end /\ x.wrote = q.wrote /\ x.phase = to
        BY <2>1, SMT DEF Run
      <3>3. q.end = "none"
        BY <2>1 DEF RunOK, Allowed
      <3> HIDE DEF x, q
      <3> QED BY <2>1, <3>1, <3>2, <3>3 DEF Elsewhere, Decided
    <2> QED BY <1>3, <2>2, <2>3 DEF Receive
  <1> QED BY <1>1, <1>2, <1>3

LEMMA NextShape ==
  ASSUME ImportInv, ImportInv', EffectInv, [Next]_vars, NEW i \in Runs
  PROVE  \/ run'[i] = run[i] /\ commits <= commits' /\ (commits' = commits => Stored' = Stored)
         \/ Step(i)
         \/ Elsewhere(run'[i], commits')
  <1>1. commits \in Nat /\ commits' \in Nat
    BY DEF ImportInv
  <1>2. CASE UNCHANGED vars
    BY <1>1, <1>2 DEF vars, Stored
  <1>3. ASSUME NEW j \in Runs, Post(j) \/ Connect(j) \/ Receive(j), i # j
        PROVE  run'[i] = run[i] /\ commits' = commits /\ Stored' = Stored
    <2>1. commits' = commits /\ Stored' = Stored
      BY <1>3 DEF Post, Connect, Receive, Reads, tables, Stored
    <2>2. run'[i] = run[i]
      BY <1>3, ContinueShape, StopShape DEF Post, Connect, Receive, ImportInv
    <2> QED BY <2>1, <2>2
  <1>4. ASSUME NEW j \in Runs, Step(j), i # j
        PROVE  run'[i] = run[i] /\ commits <= commits' /\ (commits' = commits => Stored' = Stored)
    <2>1. run'[i] = run[i]
      BY <1>4, StepShape DEF Moved
    <2>2. EffectOK(j)
      BY DEF EffectInv
    <2> QED BY <1>4, <2>1, <2>2, StepCommits
  <1>5. CASE Others
    BY <1>1, <1>5, OthersCommit
  <1>6. CASE Restart
    <2>1. commits' = commits /\ Stored' = Stored
      BY <1>6 DEF Restart, tables, Stored
    <2>2. CASE run'[i].phase = "ended" /\ run'[i].end = "killed"
      BY <2>2 DEF Elsewhere, Going, Applying, Scanning
    <2> QED BY <1>1, <1>6, <2>1, <2>2, RestartShape
  <1> QED BY <1>1, <1>2, <1>3, <1>4, <1>5, <1>6, ArrivalShape DEF Next

LEMMA ParsedValidates ==
  ASSUME NEW j, Step(j), run[j].phase = "parsed"
  PROVE  commits' = commits
  <1>1. Validate(j)
    BY DEF Step, Apply, Record, Nmap, OpenVendors, VendorEntry, OpenProjects, ProjectEntry,
       CreateProject, UpdateProject, OpenHosts, HostEntry, CreateHost, UpdateHost, OpenAssets,
       ReadAsset, ReadTags, CreateAsset, UpdateAsset, ArchiveAsset, NmapRead, NmapCreate,
       NmapDone, AtEntry, PastLast
  <1> QED BY <1>1 DEF Validate, Reads

(* A run that nobody has committed beside since it wrote its first row was *)
(* as steady before, and its totals were the same.                         *)
LEMMA SteadyKept ==
  ASSUME ImportInv, ImportInv', EffectInv, [Next]_vars, NEW j \in Runs,
         Steady(run'[j], commits'), Apart(run'[j].bundle), commits' # run'[j].base
  PROVE  /\ Steady(run[j], commits) /\ Carried(run[j], run'[j])
         /\ SameTotals(run[j], run'[j], Stored, Stored')
  <1> DEFINE q == run[j]
             r == run'[j]
  <1>1. /\ q \in Run /\ RunOK(q) /\ EffectOK(j) /\ NamesOnce
        /\ commits \in Nat /\ commits' \in Nat /\ q.base \in Nat /\ q.wrote \in Nat
    <2>1. q \in Run /\ RunOK(q) /\ EffectOK(j) /\ NamesOnce /\ commits \in Nat /\ commits' \in Nat
      BY DEF ImportInv, EffectInv
    <2> QED BY <2>1, SMT DEF Run
  <1>2. CASE r = q /\ commits <= commits' /\ (commits' = commits => Stored' = Stored)
    <2>1. CASE Going(q) /\ commits' = q.base + q.wrote
      <3>1. commits' = commits
        BY <1>1, <1>2, <2>1 DEF EffectOK, EffectAt
      <3>2. Stored' = Stored
        BY <1>2, <3>1
      <3> HIDE DEF q, r
      <3> QED BY <1>2, <2>1, <3>1, <3>2 DEF Steady, Carried, SameTotals, q, r
    <2>2. CASE q.end = "completed" /\ q.alone
      <3>1. q.phase = "ended"
        BY <1>1, <2>2 DEF RunOK, Allowed
      <3>2. SameTotals(q, r, Stored, Stored')
        BY <1>2, <3>1, TotalStays DEF Told
      <3> QED BY <1>2, <2>2, <3>2 DEF Steady, Carried
    <2> QED BY <1>2, <2>1, <2>2 DEF Steady
  <1>3. CASE Step(j)
    <2>1. Carried(q, r) /\ (q.phase = "parsed" \/ Going(q))
      BY <1>1, <1>3, StepCommits
    <2>2. commits = q.base + q.wrote
      BY <1>1, <1>3, StepCommits DEF Steady
    <2>3. q.phase # "parsed"
      <3>1. SUFFICES ASSUME q.phase = "parsed" PROVE FALSE
        OBVIOUS
      <3>2. q.wrote = 0 /\ commits' = commits
        BY <1>1, <1>3, <3>1, ParsedValidates DEF EffectOK, EffectAt
      <3> QED BY <1>1, <2>1, <2>2, <3>2 DEF Carried
    <2>4. Apart(q.bundle)
      BY <2>1 DEF Carried
    <2>5. SameTotals(q, r, Stored, Stored')
      BY <1>1, <1>3, <2>1, <2>2, <2>3, <2>4, StepTotals
    <2> QED BY <2>1, <2>2, <2>3, <2>5 DEF Steady
  <1>4. CASE Elsewhere(r, commits')
    BY <1>4 DEF Elsewhere, Steady
  <1> QED BY <1>2, <1>3, <1>4, NextShape

(* A run that is completed with nobody beside it ends as the last of the   *)
(* commits it stands on.                                                   *)
LEMMA EndsNow ==
  ASSUME ImportInv, ImportInv', EffectInv, [Next]_vars, NEW i \in Runs,
         run'[i].end = "completed", run'[i].alone
  PROVE  \/ run'[i] = run[i]
         \/ commits' = run'[i].base + run'[i].wrote
  <1> DEFINE q == run[i]
             r == run'[i]
  <1>1. EffectOK(i)
    BY DEF EffectInv
  <1>2. CASE Step(i)
    BY <1>1, <1>2, StepCommits DEF Carried
  <1>3. CASE Elsewhere(r, commits')
    BY <1>3 DEF Elsewhere
  <1> QED BY <1>2, <1>3, NextShape

LEMMA AgreeKept ==
  ASSUME ImportInv, ImportInv', EffectInv, EffectInv', TallyInv', [Next]_vars,
         NEW i \in Runs, NEW j \in Runs, AgreeAt(run[i], run[j], Stored, commits)
  PROVE  AgreeAt(run'[i], run'[j], Stored', commits')
  <1> DEFINE p == run'[i]
             q == run'[j]
  <1>1. /\ RunOK(p) /\ p \in Run /\ q \in Run /\ commits' \in Nat
        /\ EffectAt(p, Stored', commits') /\ EffectAt(q, Stored', commits')
        /\ TallyAt(p, Stored', commits') /\ TallyAt(q, Stored', commits')
    BY DEF ImportInv, EffectInv, EffectOK, TallyInv, TallyOK
  <1>2. CASE commits' = q.base
    BY <1>1, <1>2, NowAgree
  <1>3. CASE commits' # q.base
    <2> SUFFICES ASSUME p.end = "completed", p.dry, p.alone, Steady(q, commits'),
                        q.upload = p.upload, q.base = p.base, Apart(q.bundle),
                        NEW s \in Section, NEW how \in Hows
                 PROVE  Total(q, s, how, Stored') = p.count[s][how]
      BY DEF AgreeAt
    <2>1. /\ Steady(run[j], commits) /\ Carried(run[j], q)
          /\ SameTotals(run[j], q, Stored, Stored')
      BY <1>3, SteadyKept
    <2>2. p = run[i]
      <3>1. p.wrote = 0 /\ p.base \in Nat
        BY <1>1, SMT DEF RunOK, Run, Allowed
      <3> QED BY <1>3, <3>1, EndsNow
    <2>3. Total(run[j], s, how, Stored) = p.count[s][how]
      BY <2>1, <2>2 DEF AgreeAt, Carried
    <2> QED BY <2>1, <2>3 DEF SameTotals
  <1> QED BY <1>2, <1>3

LEMMA SkipKept ==
  ASSUME ImportInv, ImportInv', EffectInv, EffectInv', TallyInv', [Next]_vars,
         NEW i \in Runs, NEW j \in Runs, SkipAt(run[i], run[j], Stored, commits)
  PROVE  SkipAt(run'[i], run'[j], Stored', commits')
  <1> DEFINE p == run'[i]
             q == run'[j]
  <1>1. /\ p \in Run /\ q \in Run /\ commits' \in Nat
        /\ EffectAt(p, Stored', commits') /\ EffectAt(q, Stored', commits')
        /\ TallyAt(p, Stored', commits') /\ TallyAt(q, Stored', commits')
    BY DEF ImportInv, EffectInv, EffectOK, TallyInv, TallyOK
  <1>2. CASE commits' = q.base
    BY <1>1, <1>2, NowSkips
  <1>3. CASE commits' # q.base
    <2> SUFFICES ASSUME Recorded(p), p.alone, Steady(q, commits'), q.upload = p.upload,
                        q.base = p.base + p.wrote, Apart(q.bundle), ListsInOrder(q.bundle),
                        NEW s \in Section
                 PROVE  /\ Total(q, s, "create", Stored') = 0
                        /\ Total(q, s, "update", Stored') = 0
      BY DEF SkipAt
    <2>1. /\ Steady(run[j], commits) /\ Carried(run[j], q)
          /\ SameTotals(run[j], q, Stored, Stored')
      BY <1>3, SteadyKept
    <2>2. p = run[i]
      BY <1>3, EndsNow DEF Recorded
    <2>3. Total(run[j], s, "create", Stored) = 0 /\ Total(run[j], s, "update", Stored) = 0
      BY <2>1, <2>2 DEF SkipAt, Carried
    <2> QED BY <2>1, <2>3 DEF SameTotals, Hows
  <1> QED BY <1>2, <1>3

LEMMA PairKept ==
  ASSUME ImportInv, ImportInv', EffectInv, EffectInv', TallyInv', PairInv, [Next]_vars
  PROVE  PairInv'
  <1> SUFFICES ASSUME NEW i \in Runs, NEW j \in Runs
               PROVE  /\ AgreeAt(run'[i], run'[j], Stored', commits')
                      /\ SkipAt(run'[i], run'[j], Stored', commits')
    BY DEF PairInv
  <1> QED BY AgreeKept, SkipKept DEF PairInv

LEMMA PairStarts == Init => PairInv
  <1> SUFFICES ASSUME Init, NEW i \in Runs, NEW j \in Runs
               PROVE  /\ AgreeAt(run[i], run[j], Stored, commits)
                      /\ SkipAt(run[i], run[j], Stored, commits)
    BY DEF PairInv
  <1>1. run[i].end = "none"
    BY DEF Init, NewRun
  <1> QED BY <1>1 DEF AgreeAt, SkipAt, Recorded

LEMMA PairInvariant == Spec => [](ImportInv /\ EffectInv /\ TallyInv /\ PairInv)
  <1>1. ImportInv /\ EffectInv /\ TallyInv /\ PairInv /\ [Next]_vars
        => (ImportInv /\ EffectInv /\ TallyInv /\ PairInv)'
    BY ImportKept, EffectKept, TallyKept, PairKept
  <1> QED BY <1>1, ImportStarts, EffectStarts, TallyStarts, PairStarts, PTL DEF Spec

(* A dry run reports what an apply of the same file to the same tables     *)
(* counts, and such an apply does not end in an error (apply_bundle,       *)
(* ImportApplyResult): for any file that repeats no name and no address.   *)
THEOREM ImportPredicted == Spec => []DryRunPredicts
  <1>1. ImportInv /\ EffectInv /\ TallyInv /\ PairInv => DryRunPredicts
    <2> SUFFICES ASSUME ImportInv, EffectInv, TallyInv, PairInv, NEW i \in Runs, NEW j \in Runs,
                        NoRepeats(run[i].bundle)
                 PROVE  /\ Predicted(i, j)  => run[i].count = run[j].count
                        /\ Forewarned(i, j) => run[j].end # "failed"
      BY DEF DryRunPredicts
    <2> DEFINE p == run[i]
               q == run[j]
    <2>1. p \in Run /\ q \in Run /\ RunOK(q) /\ TallyOK(i) /\ TallyOK(j) /\ EffectOK(j)
      BY DEF ImportInv, TallyInv, EffectInv
    <2>2. Apart(p.bundle)
      BY <2>1, RepeatFree DEF Run
    <2>3. ASSUME p.end = "completed", p.upload = q.upload,
                 q.end = "completed" \/ q.end = "failed"
          PROVE  q.bundle = p.bundle
      BY <2>1, <2>3 DEF TallyOK, TallyAt, Tracked
    <2>4. ASSUME Predicted(i, j)
          PROVE  p.count = q.count
      <3>1. /\ p.end = "completed" /\ p.dry /\ p.alone /\ q.end = "completed" /\ q.alone
            /\ p.upload = q.upload /\ p.base = q.base
        BY <2>4 DEF Predicted, Finished
      <3>2. q.bundle = p.bundle
        BY <2>3, <3>1
      <3>3. ASSUME NEW s \in Section, NEW how \in Hows
            PROVE  p.count[s][how] = q.count[s][how]
        <4>1. AgreeAt(p, q, Stored, commits)
          BY DEF PairInv
        <4>2. Total(q, s, how, Stored) = p.count[s][how]
          BY <2>2, <3>1, <3>2, <4>1 DEF AgreeAt, Steady
        <4>3. q.phase = "ended"
          BY <2>1, <3>1 DEF RunOK, Allowed
        <4> QED BY <2>1, <4>2, <4>3, DoneTold
      <3>4. p.count \in Counts /\ q.count \in Counts
        BY <2>1 DEF Run
      <3> HIDE DEF p, q
      <3>5. ASSUME NEW s \in Section
            PROVE  p.count[s] = q.count[s]
        <4>1. p.count[s] \in Tally /\ q.count[s] \in Tally
          BY <3>4 DEF Counts
        <4>2. /\ p.count[s].create = q.count[s].create
              /\ p.count[s].update = q.count[s].update
              /\ p.count[s].skip = q.count[s].skip
          BY <3>3 DEF Hows
        <4> QED BY <4>1, <4>2 DEF Tally
      <3> QED BY <3>4, <3>5 DEF Counts
    <2>5. ASSUME Forewarned(i, j), q.end = "failed"
          PROVE  FALSE
      <3>1. q.bundle = p.bundle
        BY <2>3, <2>5 DEF Forewarned
      <3> QED BY <2>1, <2>2, <2>5, <3>1 DEF Forewarned, EffectOK, EffectAt
    <2> QED BY <2>4, <2>5
  <1> QED BY <1>1, PairInvariant, PTL

-----------------------------------------------------------------------------
(* What a run writes it has counted, as created or as updated.             *)

Marks(c) == \E s \in Section, how \in {"create", "update"} : c[s][how] > 0

MarkAt(q) == q.wrote > 0 \/ q.phase \in Decided => Marks(q.count)

MarkInv == \A j \in Runs : MarkAt(run[j])

(* A step counts nothing, or one entry; and one that is skipped is not     *)
(* written.                                                                *)
Tick(q, r) ==
  \/ r.count = q.count /\ (q.phase \in Decided \/ (r.wrote = q.wrote /\ r.phase \notin Decided))
  \/ \E s \in Section, how \in Hows :
       /\ r.count = Counted(q, s, how)
       /\ how = "skip" => r.wrote = q.wrote /\ r.phase \notin Decided

LEMMA TickMarks ==
  ASSUME NEW q \in Run, MarkAt(q), NEW r, Tick(q, r)
  PROVE  MarkAt(r)
  <1>1. q.count \in Counts
    BY DEF Run
  <1>2. CASE r.count = q.count /\ q.phase \in Decided
    BY <1>2 DEF MarkAt
  <1>3. CASE r.count = q.count /\ r.wrote = q.wrote /\ r.phase \notin Decided
    BY <1>3 DEF MarkAt
  <1>4. ASSUME NEW s \in Section, NEW how \in Hows, r.count = Counted(q, s, how),
               how = "skip" => r.wrote = q.wrote /\ r.phase \notin Decided
        PROVE  MarkAt(r)
    <2>1. \A t \in Section, other \in Hows :
            /\ q.count[t][other] \in Nat
            /\ r.count[t][other] = IF t = s /\ other = how THEN q.count[t][other] + 1
                                                           ELSE q.count[t][other]
      BY <1>1, <1>4, CountAt
    <2>2. CASE how # "skip"
      <3>1. r.count[s][how] > 0
        BY <2>1
      <3>2. how \in {"create", "update"}
        BY <2>2 DEF Hows
      <3> QED BY <3>1, <3>2 DEF MarkAt, Marks
    <2>3. CASE how = "skip"
      <3>1. \A t \in Section, other \in {"create", "update"} :
              r.count[t][other] = q.count[t][other]
        BY <2>1, <2>3 DEF Hows
      <3>2. Marks(q.count) => Marks(r.count)
        BY <3>1 DEF Marks
      <3> QED BY <1>4, <2>3, <3>2 DEF MarkAt
    <2> QED BY <2>2, <2>3
  <1> QED BY <1>2, <1>3, <1>4 DEF Tick

(* The counts, the writes and the phase a step leaves a run with.          *)
Leaves(q, r, c, n, phase) == r.count = c /\ r.wrote = q.wrote + n /\ r.phase = phase

LEMMA EntryLeaves ==
  ASSUME NEW q \in Run, NEW c, NEW n, NEW i, NEW r
  PROVE  /\ r = [[q EXCEPT !.count = c] EXCEPT !.at = @ + 1] => Leaves(q, r, c, 0, q.phase)
         /\ r = [Wrote([q EXCEPT !.count = c]) EXCEPT !.at = @ + 1] => Leaves(q, r, c, 1, q.phase)
         /\ r = [[[q EXCEPT !.count = c] EXCEPT !.projectIds[n] = i] EXCEPT !.at = @ + 1]
            => Leaves(q, r, c, 0, q.phase)
         /\ r = [Wrote([[q EXCEPT !.count = c] EXCEPT !.projectIds[n] = i]) EXCEPT !.at = @ + 1]
            => Leaves(q, r, c, 1, q.phase)
         /\ r = [[[q EXCEPT !.count = c] EXCEPT !.hostIds[n] = i] EXCEPT !.at = @ + 1]
            => Leaves(q, r, c, 0, q.phase)
         /\ r = [Wrote([[q EXCEPT !.count = c] EXCEPT !.hostIds[n] = i]) EXCEPT !.at = @ + 1]
            => Leaves(q, r, c, 1, q.phase)
  <1>1. r = [[q EXCEPT !.count = c] EXCEPT !.at = @ + 1] => Leaves(q, r, c, 0, q.phase)
    BY SMT DEF Run, Leaves
  <1>2. r = [Wrote([q EXCEPT !.count = c]) EXCEPT !.at = @ + 1] => Leaves(q, r, c, 1, q.phase)
    BY SMT DEF Run, Wrote, Leaves
  <1>3. r = [[[q EXCEPT !.count = c] EXCEPT !.projectIds[n] = i] EXCEPT !.at = @ + 1]
        => Leaves(q, r, c, 0, q.phase)
    BY SMT DEF Run, Leaves
  <1>4. r = [Wrote([[q EXCEPT !.count = c] EXCEPT !.projectIds[n] = i]) EXCEPT !.at = @ + 1]
        => Leaves(q, r, c, 1, q.phase)
    BY SMT DEF Run, Wrote, Leaves
  <1>5. r = [[[q EXCEPT !.count = c] EXCEPT !.hostIds[n] = i] EXCEPT !.at = @ + 1]
        => Leaves(q, r, c, 0, q.phase)
    BY SMT DEF Run, Leaves
  <1>6. r = [Wrote([[q EXCEPT !.count = c] EXCEPT !.hostIds[n] = i]) EXCEPT !.at = @ + 1]
        => Leaves(q, r, c, 1, q.phase)
    BY SMT DEF Run, Wrote, Leaves
  <1> QED BY <1>1, <1>2, <1>3, <1>4, <1>5, <1>6

LEMMA AssetLeaves ==
  ASSUME NEW q \in Run, NEW c, NEW x, NEW r
  PROVE  /\ r = [[q EXCEPT !.count = c] EXCEPT !.phase = "assets", !.at = @ + 1, !.row = Nil,
                                               !.goal = Nil]
            => Leaves(q, r, c, 0, "assets")
         /\ r = [q EXCEPT !.phase = "tags", !.row = x] => Leaves(q, r, q.count, 0, "tags")
         /\ r = [[q EXCEPT !.count = c] EXCEPT !.phase = "create"] => Leaves(q, r, c, 0, "create")
         /\ r = [[q EXCEPT !.count = c] EXCEPT !.phase = "update", !.goal = x]
            => Leaves(q, r, c, 0, "update")
         /\ r = [q EXCEPT !.phase = "discover", !.count = c] => Leaves(q, r, c, 0, "discover")
  <1>1. r = [[q EXCEPT !.count = c] EXCEPT !.phase = "assets", !.at = @ + 1, !.row = Nil,
                                           !.goal = Nil]
        => Leaves(q, r, c, 0, "assets")
    BY SMT DEF Run, Leaves
  <1>2. r = [q EXCEPT !.phase = "tags", !.row = x] => Leaves(q, r, q.count, 0, "tags")
    BY SMT DEF Run, Leaves
  <1>3. r = [[q EXCEPT !.count = c] EXCEPT !.phase = "create"] => Leaves(q, r, c, 0, "create")
    BY SMT DEF Run, Leaves
  <1>4. r = [[q EXCEPT !.count = c] EXCEPT !.phase = "update", !.goal = x]
        => Leaves(q, r, c, 0, "update")
    BY SMT DEF Run, Leaves
  <1>5. r = [q EXCEPT !.phase = "discover", !.count = c] => Leaves(q, r, c, 0, "discover")
    BY SMT DEF Run, Leaves
  <1> QED BY <1>1, <1>2, <1>3, <1>4, <1>5

(* The steps that write what was decided earlier count nothing.            *)
LEMMA WriteLeaves ==
  ASSUME NEW q \in Run, NEW r
  PROVE  /\ r = [q EXCEPT !.phase = "assets", !.at = @ + 1, !.row = Nil, !.goal = Nil]
            => r.count = q.count
         /\ r = [Wrote(q) EXCEPT !.phase = "assets", !.at = @ + 1, !.row = Nil, !.goal = Nil]
            => r.count = q.count
         /\ r = [q EXCEPT !.phase = "archive"] => r.count = q.count
         /\ r = [Wrote(q) EXCEPT !.phase = "archive"] => r.count = q.count
         /\ r = [[Wrote(q) EXCEPT !.phase = "scan"] EXCEPT !.at = @ + 1] => r.count = q.count
  <1>1. r = [q EXCEPT !.phase = "assets", !.at = @ + 1, !.row = Nil, !.goal = Nil]
        => r.count = q.count
    BY SMT DEF Run
  <1>2. r = [Wrote(q) EXCEPT !.phase = "assets", !.at = @ + 1, !.row = Nil, !.goal = Nil]
        => r.count = q.count
    BY SMT DEF Run, Wrote
  <1>3. r = [q EXCEPT !.phase = "archive"] => r.count = q.count
    BY SMT DEF Run
  <1>4. r = [Wrote(q) EXCEPT !.phase = "archive"] => r.count = q.count
    BY SMT DEF Run, Wrote
  <1>5. r = [[Wrote(q) EXCEPT !.phase = "scan"] EXCEPT !.at = @ + 1] => r.count = q.count
    BY SMT DEF Run, Wrote
  <1> QED BY <1>1, <1>2, <1>3, <1>4, <1>5

LEMMA OpenLeaves ==
  ASSUME NEW q \in Run, NEW x, NEW y, NEW r
  PROVE  /\ r = [q EXCEPT !.phase = "valid"] => Leaves(q, r, q.count, 0, "valid")
         /\ r = [q EXCEPT !.phase = "vendors", !.at = 1, !.known = x]
            => Leaves(q, r, q.count, 0, "vendors")
         /\ r = [q EXCEPT !.phase = "projects", !.at = 1, !.known = x, !.projectIds = y]
            => Leaves(q, r, q.count, 0, "projects")
         /\ r = [q EXCEPT !.phase = "hosts", !.at = 1, !.known = x, !.hostIds = y]
            => Leaves(q, r, q.count, 0, "hosts")
         /\ r = [q EXCEPT !.phase = "assets", !.at = 1, !.known = Nil]
            => Leaves(q, r, q.count, 0, "assets")
  <1>1. r = [q EXCEPT !.phase = "valid"] => Leaves(q, r, q.count, 0, "valid")
    BY SMT DEF Run, Leaves
  <1>2. r = [q EXCEPT !.phase = "vendors", !.at = 1, !.known = x]
        => Leaves(q, r, q.count, 0, "vendors")
    BY SMT DEF Run, Leaves
  <1>3. r = [q EXCEPT !.phase = "projects", !.at = 1, !.known = x, !.projectIds = y]
        => Leaves(q, r, q.count, 0, "projects")
    BY SMT DEF Run, Leaves
  <1>4. r = [q EXCEPT !.phase = "hosts", !.at = 1, !.known = x, !.hostIds = y]
        => Leaves(q, r, q.count, 0, "hosts")
    BY SMT DEF Run, Leaves
  <1>5. r = [q EXCEPT !.phase = "assets", !.at = 1, !.known = Nil]
        => Leaves(q, r, q.count, 0, "assets")
    BY SMT DEF Run, Leaves
  <1> QED BY <1>1, <1>2, <1>3, <1>4, <1>5

LEMMA PlainTicks ==
  ASSUME NEW q \in Run, NEW r, NEW phase, phase \notin Decided, Leaves(q, r, q.count, 0, phase)
  PROVE  Tick(q, r)
  <1>1. q.wrote \in Nat
    BY SMT DEF Run
  <1> QED BY <1>1 DEF Leaves, Tick

LEMMA SkipTicks ==
  ASSUME NEW q \in Run, NEW r, NEW s \in Section, NEW how \in Hows, NEW phase,
         phase \notin Decided, Leaves(q, r, Counted(q, s, how), 0, phase)
  PROVE  Tick(q, r)
  <1>1. q.wrote \in Nat
    BY SMT DEF Run
  <1> QED BY <1>1 DEF Leaves, Tick

LEMMA CountTicks ==
  ASSUME NEW q, NEW r, NEW s \in Section, NEW how \in {"create", "update"}, NEW n, NEW phase,
         Leaves(q, r, Counted(q, s, how), n, phase)
  PROVE  Tick(q, r)
  BY DEF Leaves, Tick, Hows

LEMMA StopTicks ==
  ASSUME ImportInv, NEW j \in Runs, NEW e, Stop(j, run[j], e)
  PROVE  Tick(run[j], run'[j])
  BY StopIs DEF EndedAs, Tick, Decided

LEMMA EntryTicks ==
  ASSUME ImportInv, NEW j \in Runs, NEW s \in Section, NEW how \in Hows,
         run[j].phase \notin Decided,
         \/ Advance(j, [run[j] EXCEPT !.count = Counted(run[j], s, how)])
         \/ /\ how # "skip"
            /\ Advance(j, Wrote([run[j] EXCEPT !.count = Counted(run[j], s, how)]))
  PROVE  Tick(run[j], run'[j])
  <1> DEFINE q == run[j]
             c == Counted(q, s, how)
  <1>1. q \in Run
    BY DEF ImportInv
  <1>2. CASE Advance(j, [q EXCEPT !.count = c])
    <2>1. Leaves(q, run'[j], c, 0, q.phase)
      BY <1>1, <1>2, MovesOn, EntryLeaves
    <2> QED BY <1>1, <2>1, SkipTicks
  <1>3. CASE how # "skip" /\ Advance(j, Wrote([q EXCEPT !.count = c]))
    <2> HIDE DEF c
    <2>1. run'[j] = [Wrote([q EXCEPT !.count = c]) EXCEPT !.at = @ + 1]
      BY <1>3, MovesOn
    <2>2. Leaves(q, run'[j], c, 1, q.phase)
      BY <1>1, <2>1, EntryLeaves
    <2>3. how \in {"create", "update"}
      BY <1>3 DEF Hows
    <2> QED BY <2>2, <2>3, CountTicks DEF c
  <1> QED BY <1>2, <1>3

LEMMA NamedTicks ==
  ASSUME ImportInv, NEW j \in Runs, NEW s \in Section, NEW n, NEW i,
         LET q == run[j]
             x == [q EXCEPT !.count = Counted(q, s, "create")] IN
         \/ Advance(j, [x EXCEPT !.projectIds[n] = i])
         \/ Advance(j, Wrote([x EXCEPT !.projectIds[n] = i]))
         \/ Advance(j, [x EXCEPT !.hostIds[n] = i])
         \/ Advance(j, Wrote([x EXCEPT !.hostIds[n] = i]))
  PROVE  Tick(run[j], run'[j])
  <1> DEFINE q == run[j]
             c == Counted(q, s, "create")
             P == [[q EXCEPT !.count = c] EXCEPT !.projectIds[n] = i]
             H == [[q EXCEPT !.count = c] EXCEPT !.hostIds[n] = i]
  <1>1. q \in Run
    BY DEF ImportInv
  <1>2. Advance(j, P) \/ Advance(j, Wrote(P)) \/ Advance(j, H) \/ Advance(j, Wrote(H))
    OBVIOUS
  <1>3. \/ run'[j] = [P EXCEPT !.at = @ + 1]
        \/ run'[j] = [Wrote(P) EXCEPT !.at = @ + 1]
        \/ run'[j] = [H EXCEPT !.at = @ + 1]
        \/ run'[j] = [Wrote(H) EXCEPT !.at = @ + 1]
    <2> HIDE DEF P, H
    <2> QED BY <1>2, MovesOn
  <1> HIDE DEF c
  <1>4. Leaves(q, run'[j], c, 0, q.phase) \/ Leaves(q, run'[j], c, 1, q.phase)
    <2>1. CASE run'[j] = [P EXCEPT !.at = @ + 1]
      BY <1>1, <2>1, EntryLeaves
    <2>2. CASE run'[j] = [Wrote(P) EXCEPT !.at = @ + 1]
      BY <1>1, <2>2, EntryLeaves
    <2>3. CASE run'[j] = [H EXCEPT !.at = @ + 1]
      BY <1>1, <2>3, EntryLeaves
    <2>4. CASE run'[j] = [Wrote(H) EXCEPT !.at = @ + 1]
      BY <1>1, <2>4, EntryLeaves
    <2> QED BY <1>3, <2>1, <2>2, <2>3, <2>4
  <1> QED BY <1>4, CountTicks DEF c

LEMMA StepTicks ==
  ASSUME ImportInv, NEW j \in Runs, Step(j)
  PROVE  Tick(run[j], run'[j])
  <1> DEFINE q == run[j]
             r == run'[j]
             c(s, how) == Counted(q, s, how)
  <1>0. q \in Run
    BY DEF ImportInv
  <1>1. CASE Validate(j)
    <2>1. CASE Continue(j, [q EXCEPT !.phase = "valid"])
      <3>1. Leaves(q, r, q.count, 0, "valid")
        BY <1>0, <2>1, ContinueIs, OpenLeaves
      <3> QED BY <1>0, <3>1, PlainTicks DEF Decided
    <2>2. CASE Stop(j, q, "invalid")
      BY <2>2, StopTicks
    <2> QED BY <1>1, <2>1, <2>2 DEF Validate
  <1>2. CASE OpenVendors(j) \/ OpenProjects(j) \/ OpenHosts(j) \/ OpenAssets(j)
    <2>1. \E phase \in {"vendors", "projects", "hosts", "assets"} : Leaves(q, r, q.count, 0, phase)
      BY <1>0, <1>2, ContinueIs, OpenLeaves DEF OpenVendors, OpenProjects, OpenHosts, OpenAssets
    <2> QED BY <1>0, <2>1, PlainTicks DEF Decided
  <1>3. CASE VendorEntry(j)
    <2>1. q.phase \notin Decided
      BY <1>3 DEF VendorEntry, AtEntry, Decided
    <2>2. \/ Advance(j, [q EXCEPT !.count = c("vendors", "skip")])
          \/ Advance(j, [q EXCEPT !.count = c("vendors", "create")])
          \/ Raise(j)
          \/ Advance(j, Wrote([q EXCEPT !.count = c("vendors", "create")]))
      BY <1>3 DEF VendorEntry
    <2> QED BY <2>1, <2>2, EntryTicks, StopTicks DEF Raise, Section, Hows
  <1>4. CASE CreateProject(j) \/ CreateHost(j)
    BY <1>4, NamedTicks, StopTicks DEF CreateProject, CreateHost, Raise, Section
  <1>5. CASE UpdateProject(j)
    <2>1. q.phase \notin Decided
      BY <1>5 DEF UpdateProject, AtEntry, Decided
    <2>2. PICK i \in Called(q.known, Entry(q).name) :
            \/ Advance(j, [q EXCEPT !.count = c("projects", "skip")])
            \/ Advance(j, [q EXCEPT !.count = c("projects", "update")])
            \/ Raise(j)
            \/ Advance(j, Wrote([q EXCEPT !.count = c("projects", "update")]))
      BY <1>5 DEF UpdateProject
    <2> QED BY <2>1, <2>2, EntryTicks, StopTicks DEF Raise, Section, Hows
  <1>6. CASE UpdateHost(j)
    <2>1. q.phase \notin Decided
      BY <1>6 DEF UpdateHost, AtEntry, Decided
    <2>2. PICK i \in Called(q.known, Entry(q).name) :
            \/ Advance(j, [q EXCEPT !.count = c("hosts", "skip")])
            \/ Advance(j, [q EXCEPT !.count = c("hosts", "update")])
            \/ Raise(j)
            \/ Advance(j, Wrote([q EXCEPT !.count = c("hosts", "update")]))
      BY <1>6 DEF UpdateHost
    <2> QED BY <2>1, <2>2, EntryTicks, StopTicks DEF Raise, Section, Hows
  <1>7. CASE ReadAsset(j)
    <2>1. CASE Continue(j, [q EXCEPT !.phase = "tags", !.row = assets[AssetOf(q).ip]])
      <3>1. r = [q EXCEPT !.phase = "tags", !.row = assets[AssetOf(q).ip]]
        BY <2>1, ContinueIs
      <3>2. Leaves(q, r, q.count, 0, "tags")
        BY <1>0, <3>1, AssetLeaves
      <3> QED BY <1>0, <3>2, PlainTicks DEF Decided
    <2>2. CASE NextAsset(j, [q EXCEPT !.count = c("assets", "create")])
      <3>1. r = [[q EXCEPT !.count = c("assets", "create")]
                   EXCEPT !.phase = "assets", !.at = @ + 1, !.row = Nil, !.goal = Nil]
        BY <2>2, ContinueIs DEF NextAsset
      <3>2. Leaves(q, r, c("assets", "create"), 0, "assets")
        BY <1>0, <3>1, AssetLeaves
      <3> QED BY <1>0, <3>2, SkipTicks DEF Decided, Section, Hows
    <2>3. CASE Continue(j, [[q EXCEPT !.count = c("assets", "create")] EXCEPT !.phase = "create"])
      <3>1. Leaves(q, r, c("assets", "create"), 0, "create")
        BY <1>0, <2>3, ContinueIs, AssetLeaves
      <3> QED BY <3>1, CountTicks DEF Section
    <2> QED BY <1>7, <2>1, <2>2, <2>3 DEF ReadAsset
  <1>8. CASE ReadTags(j)
    <2>1. ASSUME NEW how \in Hows, NextAsset(j, [q EXCEPT !.count = c("assets", how)])
          PROVE  Tick(q, r)
      <3>1. r = [[q EXCEPT !.count = c("assets", how)]
                   EXCEPT !.phase = "assets", !.at = @ + 1, !.row = Nil, !.goal = Nil]
        BY <2>1, ContinueIs DEF NextAsset
      <3>2. Leaves(q, r, c("assets", how), 0, "assets")
        BY <1>0, <3>1, AssetLeaves
      <3> QED BY <1>0, <3>2, SkipTicks DEF Decided, Section
    <2>2. ASSUME NEW x,
                 Continue(j, [[q EXCEPT !.count = c("assets", "update")]
                                EXCEPT !.phase = "update", !.goal = x])
          PROVE  Tick(q, r)
      <3>1. r = [[q EXCEPT !.count = c("assets", "update")] EXCEPT !.phase = "update", !.goal = x]
        BY <2>2, ContinueIs
      <3> HIDE DEF c
      <3>2. Leaves(q, r, c("assets", "update"), 0, "update")
        BY <1>0, <3>1, AssetLeaves
      <3> QED BY <3>2, CountTicks DEF Section, c
    <2> QED BY <1>8, <2>1, <2>2 DEF ReadTags, Hows
  <1>9. CASE CreateAsset(j) \/ UpdateAsset(j) \/ ArchiveAsset(j)
    <2>1. q.phase \in Decided
      BY <1>9 DEF CreateAsset, UpdateAsset, ArchiveAsset, Decided
    <2>2. \/ Raise(j)
          \/ Continue(j, [q EXCEPT !.phase = "archive"])
          \/ Continue(j, [Wrote(q) EXCEPT !.phase = "archive"])
          \/ NextAsset(j, q)
          \/ NextAsset(j, Wrote(q))
      BY <1>9 DEF CreateAsset, UpdateAsset, ArchiveAsset
    <2>3. CASE Raise(j)
      BY <2>3, StopTicks DEF Raise
    <2>4. CASE \/ Continue(j, [q EXCEPT !.phase = "archive"])
               \/ Continue(j, [Wrote(q) EXCEPT !.phase = "archive"])
      <3>1. r.count = q.count
        BY <1>0, <2>4, ContinueIs, WriteLeaves
      <3> QED BY <2>1, <3>1 DEF Tick
    <2>5. CASE NextAsset(j, q) \/ NextAsset(j, Wrote(q))
      <3>1. \/ r = [q EXCEPT !.phase = "assets", !.at = @ + 1, !.row = Nil, !.goal = Nil]
            \/ r = [Wrote(q) EXCEPT !.phase = "assets", !.at = @ + 1, !.row = Nil, !.goal = Nil]
        BY <2>5, ContinueIs DEF NextAsset
      <3>2. r.count = q.count
        BY <1>0, <3>1, WriteLeaves
      <3> QED BY <2>1, <3>2 DEF Tick
    <2> QED BY <2>2, <2>3, <2>4, <2>5
  <1>10. CASE Record(j) \/ NmapDone(j)
    BY <1>10, StopTicks DEF Record, NmapDone
  <1>11. CASE NmapRead(j)
    <2>1. q.phase \notin Decided
      BY <1>11 DEF NmapRead, Decided
    <2>2. CASE Continue(j, [q EXCEPT !.phase = "discover", !.count = c("assets", "create")])
      <3>1. Leaves(q, r, c("assets", "create"), 0, "discover")
        BY <1>0, <2>2, ContinueIs, AssetLeaves
      <3> QED BY <3>1, CountTicks DEF Section
    <2> QED BY <1>11, <2>1, <2>2, EntryTicks DEF NmapRead, Section, Hows
  <1>12. CASE NmapCreate(j)
    <2>1. q.phase \in Decided
      BY <1>12 DEF NmapCreate, Decided
    <2>2. CASE Advance(j, [Wrote(q) EXCEPT !.phase = "scan"])
      <3>1. r.count = q.count
        BY <1>0, <2>2, MovesOn, WriteLeaves
      <3> QED BY <2>1, <3>1 DEF Tick
    <2> QED BY <1>12, <2>2, StopTicks DEF NmapCreate, Raise
  <1> QED BY <1>1, <1>2, <1>3, <1>4, <1>5, <1>6, <1>7, <1>8, <1>9, <1>10, <1>11, <1>12
          DEF Step, Apply, ProjectEntry, HostEntry, Nmap

LEMMA MarkKept ==
  ASSUME ImportInv, EffectInv, MarkInv, [Next]_vars
  PROVE  MarkInv'
  <1> SUFFICES ASSUME NEW i \in Runs PROVE MarkAt(run'[i])
    BY DEF MarkInv
  <1>1. run[i] \in Run /\ MarkAt(run[i])
    BY DEF ImportInv, MarkInv
  <1>2. ASSUME NEW j \in Runs, Post(j) \/ Connect(j) \/ Receive(j)
        PROVE  MarkAt(run'[i])
    <2>1. CASE i # j
      <3>1. run'[i] = run[i]
        BY <1>2, <2>1, ContinueShape, StopShape DEF Post, Connect, Receive, ImportInv
      <3> QED BY <1>1, <3>1
    <2>2. CASE i = j
      BY <1>2, <2>2, ArrivalShape DEF MarkAt
    <2> QED BY <2>1, <2>2
  <1>3. ASSUME NEW j \in Runs, Step(j)
        PROVE  MarkAt(run'[i])
    <2>1. CASE i # j
      <3>1. run'[i] = run[i]
        BY <1>3, <2>1, StepShape DEF Moved
      <3> QED BY <1>1, <3>1
    <2>2. CASE i = j
      BY <1>1, <1>3, <2>2, StepTicks, TickMarks
    <2> QED BY <2>1, <2>2
  <1>4. CASE Others \/ UNCHANGED vars
    <2>1. run'[i] = run[i]
      BY <1>4, OthersCommit DEF vars
    <2> QED BY <1>1, <2>1
  <1>5. CASE Restart
    <2> DEFINE q == run[i]
               r == [q EXCEPT !.phase = "ended", !.end = "killed", !.known = Nil, !.row = Nil,
                              !.goal = Nil]
    <2>1. run'[i] = q \/ run'[i] = r
      BY <1>5 DEF Restart
    <2>2. r.phase = "ended" /\ r.wrote = q.wrote /\ r.count = q.count
      BY <1>1, SMT DEF Run
    <2> HIDE DEF r
    <2> QED BY <1>1, <2>1, <2>2 DEF MarkAt, Decided
  <1> QED BY <1>2, <1>3, <1>4, <1>5 DEF Next

LEMMA MarkInvariant == Spec => [](ImportInv /\ EffectInv /\ MarkInv)
  <1>1. Init => MarkInv
    <2> SUFFICES ASSUME Init PROVE MarkInv
      OBVIOUS
    <2> QED BY DEF Init, MarkInv, MarkAt, NewRun, Decided
  <1>2. ImportInv /\ EffectInv /\ MarkInv /\ [Next]_vars => (ImportInv /\ EffectInv /\ MarkInv)'
    BY ImportKept, EffectKept, MarkKept
  <1> QED BY <1>1, <1>2, ImportStarts, EffectStarts, PTL DEF Spec

(* Applying a file again, right after it was applied and with nobody else  *)
(* beside, updates no row and commits nothing (apply_bundle): for any file *)
(* that repeats nothing and whose replacing tag lists are in order.        *)
THEOREM ImportReapplied == Spec => []ReapplySkips
  <1>1. ImportInv /\ EffectInv /\ TallyInv /\ PairInv /\ MarkInv => ReapplySkips
    <2> SUFFICES ASSUME ImportInv, TallyInv, PairInv, MarkInv, NEW i \in Runs, NEW j \in Runs,
                        Finished(i, FALSE), Finished(j, FALSE), run[i].upload.kind # "nmap",
                        run[i].upload = run[j].upload,
                        run[j].base = run[i].base + run[i].wrote,
                        NoRepeats(run[i].bundle), ListsInOrder(run[i].bundle)
                 PROVE  run[j].wrote = 0 /\ \A s \in Section : run[j].count[s].update = 0
      BY DEF ReapplySkips
    <2> DEFINE p == run[i]
               q == run[j]
    <2>1. p \in Run /\ q \in Run /\ RunOK(q) /\ TallyOK(i) /\ TallyOK(j) /\ MarkAt(q)
      BY DEF ImportInv, TallyInv, MarkInv
    <2>2. /\ Recorded(p) /\ p.alone /\ p.end = "completed"
          /\ q.end = "completed" /\ q.alone /\ q.phase = "ended"
      BY <2>1 DEF Finished, Recorded, RunOK, Allowed
    <2>3. q.bundle = p.bundle
      BY <2>1, <2>2 DEF TallyOK, TallyAt, Tracked
    <2>4. Apart(q.bundle)
      BY <2>1, <2>3, RepeatFree DEF Run
    <2>5. SkipAt(p, q, Stored, commits)
      BY DEF PairInv
    <2>6. ASSUME NEW s \in Section
          PROVE  q.count[s]["create"] = 0 /\ q.count[s]["update"] = 0
      <3>1. Total(q, s, "create", Stored) = 0 /\ Total(q, s, "update", Stored) = 0
        BY <2>2, <2>3, <2>4, <2>5 DEF SkipAt, Steady
      <3> QED BY <2>1, <2>2, <3>1, DoneTold DEF Hows
    <2>7. ~Marks(q.count)
      BY <2>6 DEF Marks
    <2>8. q.wrote \in Nat
      BY <2>1, SMT DEF Run
    <2> QED BY <2>1, <2>6, <2>7, <2>8 DEF MarkAt
  <1> QED BY <1>1, PairInvariant, MarkInvariant, PTL

=============================================================================
