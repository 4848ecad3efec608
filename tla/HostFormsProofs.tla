---------------------------- MODULE HostFormsProofs ----------------------------
(***************************************************************************)
(* Proofs about HostForms, for any hosts, addresses, forms, lists, number  *)
(* of requests and of others' commits.                                     *)
(***************************************************************************)
EXTENDS HostForms, TLAPS

Kinds  == {"add", "edit", "delete", "apiAdd", "apiEdit"}
Phases == {"new", "posted", "collect", "vendor", "host", "linked", "unlink", "project",
           "move", "assets", "open", "typing", "ended"}
Ends   == {"none", "refused", "conflict", "missing", "error", "done", "no project"}
Entry  == [ip : Ips, type : {"OS", "BMC"}]
Link   == [ip : Ips, type : Types]

Request ==
  [kind : Kinds \union {"none"}, phase : Phases, form : Form \union {Nil},
   host : Ids \union {Nil}, vendor : Vendors \union {Nil},
   confirmed : Names \union {Nil}, valid : BOOLEAN,
   left : SUBSET [ip : Ips \union {Bad}, type : {"OS", "BMC"}],
   create : SUBSET Entry, update : SUBSET Entry, links : SUBSET Link, ids : SUBSET Ids,
   base : Nat, wrote : Nat, end : Ends]

(* The add and edit forms hold the event loop once they have begun.        *)
Holding(q) == q.kind \in {"add", "edit"} /\ q.phase \notin {"new", "posted", "ended"}

(* What a request carries fits its form, the phase it is in and, while it  *)
(* holds the loop, the projects there are.                                 *)
Fits(r, q, known, held) ==
  /\ q.phase = "new" => q = Blank
  /\ q.phase # "new" => q.form \in Form /\ q.kind = q.form.kind
  /\ q.kind \in {"edit", "apiEdit", "delete"} => q.host = q.form.id
  /\ q.phase \in {"posted", "collect", "assets"} => q.kind \in {"add", "edit"}
  /\ q.phase \in {"linked", "unlink", "project", "move"} => q.kind = "edit"
  /\ q.phase \in {"open", "typing"} => q.kind = "delete"
  /\ q.phase \in {"vendor", "host"} => q.kind # "delete"
  /\ q.phase = "ended" <=> q.end # "none"
  /\ q.phase # "new" => q.left \union q.create \union q.update \subseteq Entries(q.form)
  /\ q.phase \in {"linked", "unlink", "project", "move", "assets"} => q.left = {}
  /\ q.phase = "host" /\ q.kind \in {"add", "edit"} => q.left = {} /\ q.valid
  /\ q.phase = "vendor" /\ q.kind = "add" => q.left = {}
  /\ q.phase \in {"vendor", "assets"} /\ q.kind = "add" => q.valid
  /\ Holding(q) => held = r
  /\ Holding(q) /\ q.kind = "add" /\ q.valid
       => q.form.name # Nil /\ q.form.project \in known \union {Nil, Absent}
  /\ q.phase = "move" => q.form.project \in known \union {Nil}

ReqInv == /\ req \in [Requests -> Request] /\ commits \in Nat
          /\ \A r \in Requests : Fits(r, req[r], projects, loop)

HostInv == HostTypeOK /\ ReqInv

-----------------------------------------------------------------------------
(* What a form has read and written, if nobody else has committed since it *)
(* arrived.                                                                *)

Quiet(r) == commits = req[r].base + req[r].wrote

Early == {"posted", "collect", "vendor", "host", "open", "typing"}
Late  == {"linked", "unlink", "project", "move", "assets"}

(* The vendor of the form, by the name that was read.                      *)
VendorRead(r) ==
  LET q == req[r] IN
  IF q.form.vendor = Nil THEN q.vendor = Nil
  ELSE q.form.vendor \in Live(vendors) /\ q.vendor = vendors[q.form.vendor]

(* The host is as the form has it.                                         *)
HostRight(r) ==
  LET q == req[r] IN
  /\ q.host \in Live(hosts)
  /\ q.form.name \in {Nil, hosts[q.host].name}
  /\ q.form.vendor \in {Nil, hosts[q.host].vendor}

(* What is to be unlinked is what the lists leave out.                     *)
LinksRead(r) ==
  /\ \A i \in Dropped(req[r].form) :
       [ip |-> assets[i].ip, type |-> assets[i].type] \in req[r].links
  /\ \A l \in req[r].links :
       \E i \in Dropped(req[r].form) : l = [ip |-> assets[i].ip, type |-> assets[i].type]

(* No address of the host is missing from the lists.                       *)
ListsRight(r) ==
  LET q == req[r] IN
  /\ q.form.os  \notin {Absent} => OfType(q.host, "OS")  \subseteq q.form.os
  /\ q.form.bmc \notin {Absent} => OfType(q.host, "BMC") \subseteq q.form.bmc

(* An address of the lists is the host's.                                  *)
EntryRight(r, e) ==
  \E i \in RowsOf(e.ip) :
    /\ assets[i].host = req[r].host /\ assets[i].type = e.type
    /\ assets[i].project = Given(ProjectOf(req[r]), assets[i].project)

(* What is still to be created is unknown, what is to be updated is there, *)
(* and every other address that has been looked at is right already.       *)
EntriesRight(r) ==
  LET q == req[r] IN
  \A e \in Entries(q.form) \ q.left :
    /\ e.ip # Bad
    /\ e \in q.create => RowsOf(e.ip) = {}
    /\ e \in q.update => RowsOf(e.ip) # {}
    /\ e \notin q.create \union q.update => EntryRight(r, e)
    /\ q.kind = "add" /\ q.phase \in Early => e \in q.create \union q.update

Verdict(r) ==
  LET q == req[r] IN
  CASE q.end = "done" /\ q.kind = "delete" ->
         q.host \notin Live(hosts) /\ \A i \in Live(assets) : assets[i].host # q.host
    [] q.end = "done" /\ q.kind # "delete" -> Stands(q)
    [] q.end \in {"refused", "conflict", "missing", "error"} -> q.wrote = 0
    [] q.end = "no project" -> TRUE

Tells(r) ==
  LET q == req[r] IN
  /\ q.phase \in Early => q.wrote = 0
  /\ q.phase = "posted" => q.create \union q.update = {}
  /\ q.left \cap (q.create \union q.update) = {}
  /\ q.phase \in Late /\ ~q.valid => /\ q.wrote = 0 /\ q.host \notin Live(hosts)
                                     /\ q.phase \notin {"unlink", "move"}
  /\ q.phase = "host" \/ (q.phase = "collect" /\ q.kind = "edit") => VendorRead(r)
  /\ q.phase \in Late /\ q.valid => HostRight(r)
  /\ q.phase = "unlink" => LinksRead(r)
  /\ q.phase \in {"project", "move", "assets"} /\ q.valid => ListsRight(r)
  /\ q.kind \in {"add", "edit"} /\ q.valid
       /\ q.phase \in {"collect", "vendor", "host"} \union Late => EntriesRight(r)
  /\ q.phase = "ended" => Verdict(r)

TruthInv ==
  \A r \in Requests :
    req[r].phase # "new" => /\ req[r].base + req[r].wrote <= commits
                            /\ Quiet(r) => Tells(r)

-----------------------------------------------------------------------------
(* Requests and their forms.                                               *)

LEMMA ListTyped ==
  ASSUME NEW S, NEW list \in (SUBSET S) \union {Absent}
  PROVE  Typed(list) \subseteq S
<1>1. CASE list = Absent
  BY <1>1 DEF Typed
<1>2. CASE list # Absent
  <2>1. list \subseteq S /\ Typed(list) = list
    BY <1>2 DEF Typed
  <2>2. QED
    BY <2>1
<1>3. QED
  BY <1>1, <1>2

LEMMA EntriesTyped ==
  ASSUME NEW f \in Form
  PROVE  /\ Entries(f) \subseteq [ip : Ips \union {Bad}, type : {"OS", "BMC"}]
         /\ {e \in Entries(f) : e.ip # Bad} \subseteq Entry
         /\ \A e \in Entries(f) : e.ip \in Listed(f)
<1>1. /\ f.os \in (SUBSET (Ips \union {Bad})) \union {Absent}
      /\ f.bmc \in (SUBSET (Ips \union {Bad})) \union {Absent}
  BY DEF Form
<1>2. Typed(f.os) \subseteq Ips \union {Bad} /\ Typed(f.bmc) \subseteq Ips \union {Bad}
  BY <1>1, ListTyped
<1>3. QED
  BY <1>2 DEF Entries, Entry, Listed

LEMMA BlankTyped ==
  /\ Blank \in Request
  /\ Blank.phase = "new" /\ Blank.kind = "none" /\ Blank.end = "none"
  /\ Blank.left = {} /\ Blank.create = {} /\ Blank.update = {}
  /\ Blank.valid = TRUE /\ Blank.wrote = 0 /\ Blank.base = 0
  BY DEF Blank, Request, Phases, Ends

(* Only the phase changes.                                                 *)
LEMMA PhaseSet ==
  ASSUME NEW q \in Request, NEW phase \in Phases
  PROVE  LET n == [q EXCEPT !.phase = phase]
         IN /\ n \in Request /\ n.phase = phase
            /\ n.kind = q.kind /\ n.form = q.form /\ n.host = q.host
            /\ n.vendor = q.vendor /\ n.confirmed = q.confirmed /\ n.valid = q.valid
            /\ n.left = q.left /\ n.create = q.create /\ n.update = q.update
            /\ n.links = q.links /\ n.ids = q.ids /\ n.base = q.base
            /\ n.wrote = q.wrote /\ n.end = q.end
  BY DEF Request

LEMMA GotoSets ==
  ASSUME ReqInv, NEW r \in Requests, NEW q \in Request, NEW phase \in Phases,
         Goto(r, q, phase)
  PROVE  /\ req' = [req EXCEPT ![r] = [q EXCEPT !.phase = phase]]
         /\ req'[r] = [q EXCEPT !.phase = phase] /\ loop' = loop
  BY DEF ReqInv, Goto

LEMMA StopSets ==
  ASSUME ReqInv, NEW r \in Requests, NEW q \in Request, NEW end \in Ends,
         Stop(r, q, end)
  PROVE  /\ req' = [req EXCEPT ![r] = req'[r]] /\ req'[r] \in Request
         /\ req'[r].phase = "ended" /\ req'[r].end = end
         /\ req'[r].kind = q.kind /\ req'[r].form = q.form /\ req'[r].host = q.host
         /\ req'[r].valid = q.valid /\ req'[r].left = q.left
         /\ req'[r].create = {} /\ req'[r].update = {}
         /\ req'[r].base = q.base /\ req'[r].wrote = q.wrote
         /\ loop' = IF loop = r THEN Nil ELSE loop
<1> DEFINE n == [q EXCEPT !.phase = "ended", !.end = end, !.links = {}, !.ids = {},
                          !.create = {}, !.update = {}]
<1>1. /\ n \in Request /\ n.phase = "ended" /\ n.end = end /\ n.kind = q.kind
      /\ n.form = q.form /\ n.host = q.host /\ n.valid = q.valid /\ n.left = q.left
      /\ n.create = {} /\ n.update = {} /\ n.base = q.base /\ n.wrote = q.wrote
  BY DEF Request, Phases
<1>2. req' = [req EXCEPT ![r] = n] /\ req'[r] = n
  BY DEF ReqInv, Stop
<1> HIDE DEF n
<1>3. QED
  BY <1>1, <1>2 DEF Stop

-----------------------------------------------------------------------------
(* The tables and the event loop.                                          *)

TablesOK ==
  /\ hosts \in [Ids -> Host \union {Nil}] /\ assets \in [Ids -> Asset \union {Nil}]
  /\ projects \subseteq Ids /\ vendors \in [Ids -> Vendors \union {Nil}]
  /\ Consistent(hosts, assets, projects, vendors) /\ audit \in [Ips -> Nat]

LEMMA TypeParts ==
  HostTypeOK <=> /\ TablesOK /\ loop \in Requests \union {Nil}
                 /\ demand \in DOMAIN Demands
  BY DEF HostTypeOK, TablesOK, Tables

LEMMA AskedType ==
  ASSUME HostTypeOK
  PROVE  /\ Asked.requests \subseteq Requests /\ Asked.forms \subseteq Form
         /\ Asked.others \in Nat
  BY HostAssumption DEF HostTypeOK, Asked, DemandOK

LEMMA RequestIsNotNil ==
  ASSUME NEW r \in Requests PROVE r # Nil
  BY HostAssumption

(* The loop is taken by a request that finds it free, or left by the one   *)
(* that holds it.                                                          *)
LoopMoves(r) == \/ loop' = loop
                \/ loop = Nil /\ loop' = r
                \/ loop = r /\ loop' = Nil

LEMMA OthersFit ==
  ASSUME NEW r \in Requests, NEW s \in Requests, s # r, NEW q,
         Fits(s, q, projects, loop), LoopMoves(r), projects' = projects
  PROVE  Fits(s, q, projects', loop')
<1>1. Holding(q) => loop' = s
  BY RequestIsNotNil DEF Fits, LoopMoves
<1>2. QED
  BY <1>1 DEF Fits

(* A step of one request, which may write any table but that of projects.  *)
LEMMA RequestSteps ==
  ASSUME HostInv, NEW r \in Requests, NEW q \in Request,
         req' = [req EXCEPT ![r] = q], LoopMoves(r), Fits(r, q, projects, loop'),
         TablesOK', commits' \in Nat, UNCHANGED <<projects, demand>>
  PROVE  HostInv'
<1>1. HostTypeOK'
  <2>1. loop' \in Requests \union {Nil} /\ demand' \in DOMAIN Demands
    BY DEF HostInv, HostTypeOK, LoopMoves
  <2>2. QED
    BY <2>1 DEF HostTypeOK, TablesOK, Tables
<1>2. ReqInv'
  <2>1. req' \in [Requests -> Request]
    BY DEF HostInv, ReqInv
  <2>2. ASSUME NEW s \in Requests PROVE Fits(s, req'[s], projects', loop')
    <3>1. CASE s = r
      BY <3>1 DEF HostInv, ReqInv
    <3>2. CASE s # r
      <4>1. Fits(s, req[s], projects, loop) /\ req'[s] = req[s]
        BY <3>2 DEF HostInv, ReqInv
      <4>2. QED
        BY <3>2, <4>1, OthersFit
    <3>3. QED
      BY <3>1, <3>2
  <2>3. QED
    BY <2>1, <2>2 DEF ReqInv
<1>3. QED
  BY <1>1, <1>2 DEF HostInv

LEMMA ReadsKeep ==
  ASSUME HostInv, Reads
  PROVE  TablesOK' /\ commits' \in Nat /\ UNCHANGED <<projects, demand>>
  BY TypeParts DEF HostInv, ReqInv, Reads, tables, TablesOK, Consistent, Live

LEMMA StopLoop ==
  ASSUME NEW r \in Requests, loop' = IF loop = r THEN Nil ELSE loop
  PROVE  LoopMoves(r)
  BY DEF LoopMoves

LEMMA EndedFits ==
  ASSUME NEW r, NEW q, NEW n, NEW known, NEW held, Fits(r, q, known, held),
         q.phase # "new", n.phase = "ended", n.end # "none", n.kind = q.kind,
         n.form = q.form, n.kind \in {"edit", "apiEdit", "delete"} => n.host = q.host,
         n.left = q.left, n.create = {}, n.update = {}, NEW h
  PROVE  Fits(r, n, known, h)
  BY DEF Fits, Holding

(* A request that stops without writing.                                   *)
LEMMA StopKeeps ==
  ASSUME HostInv, NEW r \in Requests, NEW q \in Request, NEW end \in Ends \ {"none"},
         Stop(r, q, end), Reads, req[r].phase # "new", q.kind = req[r].kind,
         q.form = req[r].form, q.host = req[r].host, q.left = req[r].left
  PROVE  HostInv'
<1>1. /\ req' = [req EXCEPT ![r] = req'[r]] /\ req'[r] \in Request
      /\ req'[r].phase = "ended" /\ req'[r].end = end
      /\ req'[r].kind = q.kind /\ req'[r].form = q.form /\ req'[r].host = q.host
      /\ req'[r].left = q.left /\ req'[r].create = {} /\ req'[r].update = {}
      /\ loop' = IF loop = r THEN Nil ELSE loop
  BY StopSets DEF HostInv
<1>2. Fits(r, req'[r], projects, loop')
  <2>1. Fits(r, req[r], projects, loop)
    BY DEF HostInv, ReqInv
  <2>2. QED
    BY <1>1, <2>1, EndedFits
<1>3. QED
  BY <1>1, <1>2, StopLoop, ReadsKeep, RequestSteps

LEMMA ConflictKeeps ==
  ASSUME HostInv, NEW r \in Requests, req[r].phase # "new", Conflict(r)
  PROVE  HostInv'
<1>1. PICK end \in {"conflict", "error"} : Stop(r, req[r], end) /\ Reads
  BY DEF Conflict
<1>2. req[r] \in Request /\ end \in Ends \ {"none"}
  BY DEF HostInv, ReqInv, Ends
<1>3. QED
  BY <1>1, <1>2, StopKeeps

(* A request that goes on without writing.                                 *)
LEMMA GotoKeeps ==
  ASSUME HostInv, NEW r \in Requests, NEW q \in Request, NEW phase \in Phases,
         Goto(r, q, phase), Reads, Fits(r, [q EXCEPT !.phase = phase], projects, loop)
  PROVE  HostInv'
<1>1. /\ req' = [req EXCEPT ![r] = [q EXCEPT !.phase = phase]] /\ loop' = loop
      /\ [q EXCEPT !.phase = phase] \in Request
  BY GotoSets, PhaseSet DEF HostInv
<1>2. QED
  BY <1>1, ReadsKeep, RequestSteps DEF LoopMoves

-----------------------------------------------------------------------------
(* The forms, step by step.                                                *)

LEMMA FormFields ==
  ASSUME NEW f \in Form
  PROVE  /\ f.kind \in Kinds /\ f.id \in Ids \union {Nil}
         /\ f.id = Nil <=> f.kind \in {"add", "apiAdd"}
         /\ f.name \in Names \union {Nil} /\ f.vendor \in Ids \union {Nil}
         /\ f.project \in Ids \union {Nil, Absent}
         /\ f.kind = "apiAdd" => f.name # Nil
         /\ f.kind \notin {"add", "edit"} => f.os = Absent /\ f.bmc = Absent
  BY DEF Form, Kinds

LEMMA ArriveKeeps ==
  ASSUME HostInv, NEW r \in Requests, Arrive(r)
  PROVE  HostInv'
<1>1. PICK f \in Form :
        Goto(r, [Blank EXCEPT !.kind = f.kind, !.form = f, !.host = f.id, !.base = commits],
             CASE f.kind \in {"add", "edit"} -> "posted"
               [] f.kind = "delete" -> "open"
               [] OTHER -> "vendor")
  BY AskedType DEF HostInv, Arrive
<1> DEFINE q == [Blank EXCEPT !.kind = f.kind, !.form = f, !.host = f.id, !.base = commits]
           phase == CASE f.kind \in {"add", "edit"} -> "posted"
                      [] f.kind = "delete" -> "open"
                      [] OTHER -> "vendor"
<1>2. /\ q \in Request /\ q.kind = f.kind /\ q.form = f /\ q.host = f.id
      /\ q.left = {} /\ q.create = {} /\ q.update = {} /\ q.end = "none"
  BY BlankTyped, FormFields DEF HostInv, ReqInv, Request
<1>3. /\ phase \in {"posted", "open", "vendor"}
      /\ phase = "posted" => f.kind \in {"add", "edit"}
      /\ phase = "open" => f.kind = "delete"
      /\ phase = "vendor" => f.kind \in {"apiAdd", "apiEdit"}
  BY FormFields DEF Kinds
<1>4. Goto(r, q, phase) /\ phase \in Phases
  BY <1>1, <1>3 DEF Phases
<1> HIDE DEF q, phase
<1>5. Fits(r, [q EXCEPT !.phase = phase], projects, loop)
  BY <1>2, <1>3, <1>4, PhaseSet DEF Fits, Holding
<1>6. QED
  BY <1>2, <1>4, <1>5, GotoKeeps DEF Arrive

LEMMA BeginKeeps ==
  ASSUME HostInv, NEW r \in Requests, Begin(r)
  PROVE  HostInv'
<1> DEFINE q == req[r]
           f == q.form
           valid == /\ f.name # Nil /\ Typed(f.os) \cap Typed(f.bmc) = {}
                    /\ f.kind = "add" => ProjectKnown(f.project)
           opened == [q EXCEPT !.left = Entries(f), !.valid = valid]
           phase == IF f.kind = "add" THEN "collect" ELSE "vendor"
<1>1. /\ q \in Request /\ Fits(r, q, projects, loop) /\ q.phase = "posted" /\ f \in Form
      /\ loop = Nil /\ Reads /\ q.kind = f.kind /\ q.kind \in {"add", "edit"}
  BY DEF HostInv, ReqInv, Begin, At, Fits
<1>2. CASE f.kind = "edit" /\ f.name = Nil
  <2>1. Stop(r, q, "refused")
    BY <1>2 DEF Begin
  <2>2. QED
    BY <1>1, <2>1, StopKeeps DEF Ends
<1>3. CASE ~(f.kind = "edit" /\ f.name = Nil)
  <2>1. req' = [req EXCEPT ![r] = [opened EXCEPT !.phase = phase]] /\ loop' = r
    BY <1>3 DEF Begin
  <2>2. /\ opened \in Request /\ opened.left = Entries(f) /\ opened.kind = f.kind
        /\ opened.form = f /\ opened.host = q.host /\ opened.end = q.end
        /\ opened.create = q.create /\ opened.update = q.update
        /\ opened.valid = valid
    <3>1. Entries(f) \in SUBSET [ip : Ips \union {Bad}, type : {"OS", "BMC"}]
      BY <1>1, EntriesTyped
    <3>2. valid \in BOOLEAN
      OBVIOUS
    <3> HIDE DEF valid
    <3>3. QED
      BY <1>1, <3>1, <3>2 DEF Request
  <2>3. phase \in Phases /\ phase = IF q.kind = "add" THEN "collect" ELSE "vendor"
    BY <1>1 DEF Phases
  <2>4. valid /\ q.kind = "add" => /\ f.name # Nil
                                   /\ f.project \in projects \union {Nil, Absent}
    BY <1>1 DEF ProjectKnown
  <2> HIDE DEF opened, phase, valid
  <2>5. [opened EXCEPT !.phase = phase] \in Request
    BY <2>2, <2>3, PhaseSet
  <2>6. Fits(r, [opened EXCEPT !.phase = phase], projects, loop')
    BY <1>1, <2>1, <2>2, <2>3, <2>4, PhaseSet DEF Fits, Holding
  <2>7. QED
    BY <1>1, <2>1, <2>5, <2>6, ReadsKeep, RequestSteps DEF LoopMoves
<1>4. QED
  BY <1>2, <1>3

LEMMA FindVendorKeeps ==
  ASSUME HostInv, NEW r \in Requests, FindVendor(r)
  PROVE  HostInv'
<1> DEFINE q == req[r]
           found == IF q.form.vendor = Nil THEN Nil ELSE vendors[q.form.vendor]
           named == [q EXCEPT !.vendor = found]
           phase == IF q.kind = "edit" THEN "collect" ELSE "host"
<1>1. /\ q \in Request /\ Fits(r, q, projects, loop) /\ q.phase = "vendor"
      /\ q.form \in Form /\ Reads /\ q.kind = q.form.kind
  BY DEF HostInv, ReqInv, FindVendor, At, Fits
<1>2. CASE q.form.vendor # Nil /\ found = Nil
  <2>1. PICK end \in {"conflict", "refused"} : Stop(r, q, end)
    BY <1>2 DEF FindVendor
  <2>2. QED
    BY <1>1, <2>1, StopKeeps DEF Ends
<1>3. CASE ~(q.form.vendor # Nil /\ found = Nil)
  <2>1. Goto(r, named, phase)
    BY <1>3 DEF FindVendor
  <2>2. found \in Vendors \union {Nil}
    BY <1>1, FormFields, TypeParts DEF HostInv, TablesOK
  <2>3. /\ named \in Request /\ named.kind = q.kind /\ named.form = q.form
        /\ named.host = q.host /\ named.end = q.end /\ named.left = q.left
        /\ named.create = q.create /\ named.update = q.update /\ named.valid = q.valid
    BY <1>1, <2>2 DEF Request
  <2>4. phase \in Phases
    BY DEF Phases
  <2> HIDE DEF found, named
  <2>5. Fits(r, [named EXCEPT !.phase = phase], projects, loop)
    BY <1>1, <2>3, <2>4, PhaseSet DEF Fits, Holding
  <2>6. QED
    BY <1>1, <2>1, <2>3, <2>4, <2>5, GotoKeeps
<1>4. QED
  BY <1>2, <1>3

LEMMA CollectKeeps ==
  ASSUME HostInv, NEW r \in Requests, Collect(r)
  PROVE  HostInv'
<1> DEFINE q == req[r]
           rest(e) == [q EXCEPT !.left = @ \ {e}]
<1>1. /\ q \in Request /\ Fits(r, q, projects, loop) /\ q.phase = "collect"
      /\ q.form \in Form /\ Reads
  BY DEF HostInv, ReqInv, Collect, At, Fits
<1>2. PICK e \in q.left :
        \/ e.ip = Bad /\ Goto(r, [rest(e) EXCEPT !.valid = FALSE], "collect")
        \/ e.ip # Bad /\ Goto(r, [rest(e) EXCEPT !.create = @ \union {e}], "collect")
        \/ Goto(r, rest(e), "collect")
        \/ RowsOf(e.ip) # {} /\ Goto(r, [rest(e) EXCEPT !.update = @ \union {e}], "collect")
  BY DEF Collect, InTurn
<1>3. e \in Entries(q.form) /\ (e.ip # Bad => e \in Entry)
  BY <1>1, <1>2, EntriesTyped DEF Fits
<1>4. RowsOf(e.ip) # {} => e \in Entry
  <2>1. Bad \notin Ips /\ \A i \in Live(assets) : assets[i].ip \in Ips
    BY HostAssumption, TypeParts DEF HostInv, TablesOK, Asset, Live
  <2>2. QED
    BY <1>3, <2>1 DEF RowsOf
<1>5. /\ rest(e) \in Request /\ rest(e).left = q.left \ {e} /\ rest(e).kind = q.kind
      /\ rest(e).form = q.form /\ rest(e).host = q.host /\ rest(e).end = q.end
      /\ rest(e).create = q.create /\ rest(e).update = q.update
      /\ rest(e).valid = q.valid
  BY <1>1 DEF Request
<1> HIDE DEF rest
<1>6. ASSUME NEW n \in Request, Goto(r, n, "collect"), n.left = q.left \ {e},
             n.kind = q.kind, n.form = q.form, n.host = q.host, n.end = q.end,
             n.create \subseteq q.create \union {e}, n.update \subseteq q.update \union {e},
             n.valid => q.valid
      PROVE  HostInv'
  <2>1. Fits(r, [n EXCEPT !.phase = "collect"], projects, loop)
    BY <1>1, <1>3, <1>6, PhaseSet DEF Fits, Holding, Phases
  <2>2. QED
    BY <1>1, <1>6, <2>1, GotoKeeps DEF Phases
<1>7. CASE e.ip = Bad /\ Goto(r, [rest(e) EXCEPT !.valid = FALSE], "collect")
  <2>1. /\ [rest(e) EXCEPT !.valid = FALSE] \in Request
        /\ [rest(e) EXCEPT !.valid = FALSE].valid = FALSE
    BY <1>5 DEF Request
  <2>2. QED
    BY <1>5, <1>6, <1>7, <2>1 DEF Request
<1>8. CASE e.ip # Bad /\ Goto(r, [rest(e) EXCEPT !.create = @ \union {e}], "collect")
  <2>1. [rest(e) EXCEPT !.create = @ \union {e}] \in Request
    BY <1>3, <1>5, <1>8 DEF Request
  <2>2. QED
    BY <1>5, <1>6, <1>8, <2>1 DEF Request
<1>9. CASE Goto(r, rest(e), "collect")
  BY <1>5, <1>6, <1>9
<1>10. CASE RowsOf(e.ip) # {} /\ Goto(r, [rest(e) EXCEPT !.update = @ \union {e}], "collect")
  <2>1. [rest(e) EXCEPT !.update = @ \union {e}] \in Request
    BY <1>4, <1>5, <1>10 DEF Request
  <2>2. QED
    BY <1>5, <1>6, <1>10, <2>1 DEF Request
<1>11. QED
  BY <1>2, <1>7, <1>8, <1>9, <1>10

LEMMA CollectedKeeps ==
  ASSUME HostInv, NEW r \in Requests, Collected(r)
  PROVE  HostInv'
<1> DEFINE q == req[r]
           phase == IF q.kind = "add" THEN "vendor" ELSE "host"
<1>1. /\ q \in Request /\ Fits(r, q, projects, loop) /\ q.phase = "collect"
      /\ q.left = {} /\ Reads
  BY DEF HostInv, ReqInv, Collected, At
<1>2. CASE ~q.valid
  <2>1. Stop(r, q, "refused")
    BY <1>2 DEF Collected
  <2>2. QED
    BY <1>1, <2>1, StopKeeps DEF Ends
<1>3. CASE q.valid
  <2>1. Goto(r, q, phase) /\ phase \in Phases
    BY <1>3 DEF Collected, Phases
  <2>2. Fits(r, [q EXCEPT !.phase = phase], projects, loop)
    BY <1>1, <1>3, <2>1, PhaseSet DEF Fits, Holding
  <2>3. QED
    BY <1>1, <2>1, <2>2, GotoKeeps
<1>4. QED
  BY <1>2, <1>3

-----------------------------------------------------------------------------
(* What the writes of the tables keep.                                     *)

LEMMA NilIsNoRow ==
  /\ Nil \notin Host /\ Nil \notin Asset /\ Nil \notin Vendors /\ Nil \notin Names
  /\ Nil \notin Ids
  BY HostAssumption DEF Ids

LEMMA LogTyped ==
  ASSUME TablesOK, NEW ips, Log(ips)
  PROVE  audit' \in [Ips -> Nat]
  BY DEF TablesOK, Log

(* Rows keep their addresses, and refer to what there is.                  *)
LEMMA RowsChange ==
  ASSUME TablesOK, UNCHANGED <<hosts, projects, vendors>>, audit' \in [Ips -> Nat],
         assets' \in [Ids -> Asset \union {Nil}],
         \A i \in Ids : assets'[i] # Nil =>
           /\ assets[i] # Nil /\ assets'[i].ip = assets[i].ip
           /\ assets'[i].host \in Live(hosts) \union {Nil}
           /\ assets'[i].project \in projects \union {Nil}
  PROVE  TablesOK'
  BY DEF TablesOK, Consistent, Live

(* One row is written.                                                     *)
LEMMA RowStored ==
  ASSUME TablesOK, UNCHANGED <<hosts, projects, vendors>>, audit' \in [Ips -> Nat],
         NEW i \in Ids, NEW row \in Asset, assets' = [assets EXCEPT ![i] = row],
         row.host \in Live(hosts) \union {Nil}, row.project \in projects \union {Nil},
         \A k \in Live(assets) \ {i} : assets[k].ip # row.ip
  PROVE  TablesOK'
<1>1. /\ assets' \in [Ids -> Asset \union {Nil}] /\ assets'[i] = row
      /\ \A k \in Ids \ {i} : assets'[k] = assets[k]
  BY DEF TablesOK
<1>2. Live(assets)' \subseteq Live(assets) \union {i}
  BY <1>1 DEF Live
<1>3. Consistent(hosts, assets, projects, vendors)'
  <2>1. \A m, k \in Live(assets)' : assets'[m].ip = assets'[k].ip => m = k
    BY <1>1, <1>2 DEF TablesOK, Consistent, Live
  <2>2. \A k \in Live(assets)' : /\ assets'[k].host \in Live(hosts) \union {Nil}
                                 /\ assets'[k].project \in projects \union {Nil}
    BY <1>1, <1>2 DEF TablesOK, Consistent, Live
  <2>3. QED
    BY <2>1, <2>2 DEF TablesOK, Consistent, Live
<1>4. QED
  BY <1>1, <1>3 DEF TablesOK

LEMMA HostStored ==
  ASSUME TablesOK, UNCHANGED <<assets, projects, vendors, audit>>,
         NEW i \in Ids, NEW row \in Host, hosts' = [hosts EXCEPT ![i] = row],
         row.vendor \in Live(vendors) \union {Nil},
         \A k \in Live(hosts) \ {i} : hosts[k].name # row.name
  PROVE  TablesOK'
<1>1. /\ hosts' \in [Ids -> Host \union {Nil}] /\ hosts'[i] = row
      /\ \A k \in Ids \ {i} : hosts'[k] = hosts[k]
  BY DEF TablesOK
<1>2. Live(hosts') = Live(hosts) \union {i}
  BY <1>1, NilIsNoRow DEF Live
<1>3. Consistent(hosts, assets, projects, vendors)'
  <2>1. \A m, k \in Live(hosts') : hosts'[m].name = hosts'[k].name => m = k
    BY <1>1, <1>2 DEF TablesOK, Consistent
  <2>2. \A k \in Live(hosts') : hosts'[k].vendor \in Live(vendors) \union {Nil}
    BY <1>1, <1>2 DEF TablesOK, Consistent
  <2>3. \A k \in Live(assets) : /\ assets[k].host \in Live(hosts') \union {Nil}
                                /\ assets[k].project \in projects \union {Nil}
    BY <1>2 DEF TablesOK, Consistent
  <2>4. QED
    BY <2>1, <2>2, <2>3 DEF TablesOK, Consistent
<1>4. QED
  BY <1>1, <1>3 DEF TablesOK

(* A host that is deleted leaves no link behind.                           *)
LEMMA HostDropped ==
  ASSUME TablesOK, UNCHANGED <<projects, vendors, audit>>, NEW h \in Ids,
         hosts' = [hosts EXCEPT ![h] = Nil],
         assets' = [i \in Ids |-> IF assets[i] # Nil /\ assets[i].host = h
                                  THEN [assets[i] EXCEPT !.host = Nil] ELSE assets[i]]
  PROVE  TablesOK'
<1>1. /\ hosts' \in [Ids -> Host \union {Nil}] /\ hosts'[h] = Nil
      /\ \A k \in Ids \ {h} : hosts'[k] = hosts[k]
  BY DEF TablesOK
<1>2. ASSUME NEW i \in Ids
      PROVE  /\ assets'[i] \in Asset \union {Nil}
             /\ assets'[i] # Nil =>
                  /\ assets[i] # Nil /\ assets'[i].ip = assets[i].ip
                  /\ assets'[i].host \in (Live(hosts) \ {h}) \union {Nil}
                  /\ assets'[i].project \in projects \union {Nil}
  <2>1. assets[i] \in Asset \union {Nil}
    BY DEF TablesOK
  <2>2. assets[i] # Nil => /\ assets[i].host \in Live(hosts) \union {Nil}
                           /\ assets[i].project \in projects \union {Nil}
    BY DEF TablesOK, Consistent, Live
  <2>3. CASE assets[i] # Nil /\ assets[i].host = h
    BY <2>1, <2>2, <2>3, NilIsNoRow DEF Asset
  <2>4. CASE ~(assets[i] # Nil /\ assets[i].host = h)
    BY <2>1, <2>2, <2>4
  <2>5. QED
    BY <2>3, <2>4
<1>3. assets' \in [Ids -> Asset \union {Nil}]
  BY <1>2
<1>4. Live(hosts') = Live(hosts) \ {h}
  BY <1>1 DEF Live, TablesOK
<1>5. Consistent(hosts, assets, projects, vendors)'
  <2>1. /\ \A m, k \in Live(hosts') : hosts'[m].name = hosts'[k].name => m = k
        /\ \A k \in Live(hosts') : hosts'[k].vendor \in Live(vendors) \union {Nil}
    <3>1. \A k \in Live(hosts') : k \in Live(hosts) /\ hosts'[k] = hosts[k]
      BY <1>1, <1>4 DEF Live
    <3>2. \A m, k \in Live(hosts) : hosts[m].name = hosts[k].name => m = k
      BY DEF TablesOK, Consistent
    <3>3. \A k \in Live(hosts) : hosts[k].vendor \in Live(vendors) \union {Nil}
      BY DEF TablesOK, Consistent
    <3>4. QED
      BY <3>1, <3>2, <3>3
  <2>2. /\ \A m, k \in Live(assets') : assets'[m].ip = assets'[k].ip => m = k
        /\ \A k \in Live(assets') : /\ assets'[k].host \in Live(hosts') \union {Nil}
                                   /\ assets'[k].project \in projects \union {Nil}
    BY <1>2, <1>4 DEF TablesOK, Consistent, Live
  <2>3. QED
    BY <2>1, <2>2 DEF TablesOK, Consistent
<1>6. QED
  BY <1>1, <1>3, <1>5 DEF TablesOK

LEMMA VendorFound ==
  ASSUME NEW name, NEW v \in VendorIds(name)
  PROVE  v \in Live(vendors) \union {Nil}
  BY DEF VendorIds

LEMMA IsFresh ==
  ASSUME NEW table, NEW i \in Ids, NextId(table, i)
  PROVE  i \notin Live(table)
  BY DEF NextId, Live, Ids

-----------------------------------------------------------------------------
(* The steps that write.                                                   *)

LEMMA WroteTyped ==
  ASSUME NEW q \in Request
  PROVE  /\ Wrote(q) \in Request /\ Wrote(q).wrote = q.wrote + 1
         /\ Wrote(q).kind = q.kind /\ Wrote(q).form = q.form /\ Wrote(q).host = q.host
         /\ Wrote(q).vendor = q.vendor /\ Wrote(q).valid = q.valid /\ Wrote(q).left = q.left
         /\ Wrote(q).create = q.create /\ Wrote(q).update = q.update
         /\ Wrote(q).links = q.links /\ Wrote(q).ids = q.ids /\ Wrote(q).base = q.base
         /\ Wrote(q).end = q.end /\ Wrote(q).phase = q.phase
  BY DEF Wrote, Request

LEMMA WriteGotoKeeps ==
  ASSUME HostInv, NEW r \in Requests, NEW q \in Request, NEW phase \in Phases,
         Goto(r, q, phase), Commits, TablesOK', UNCHANGED projects,
         Fits(r, [q EXCEPT !.phase = phase], projects, loop)
  PROVE  HostInv'
<1>1. /\ req' = [req EXCEPT ![r] = [q EXCEPT !.phase = phase]] /\ loop' = loop
      /\ [q EXCEPT !.phase = phase] \in Request
  BY GotoSets, PhaseSet DEF HostInv
<1>2. commits' \in Nat /\ UNCHANGED <<projects, demand>>
  BY DEF Commits, HostInv, ReqInv
<1>3. QED
  BY <1>1, <1>2, RequestSteps DEF LoopMoves

LEMMA WriteStopKeeps ==
  ASSUME HostInv, NEW r \in Requests, NEW q \in Request, NEW end \in Ends \ {"none"},
         Stop(r, q, end), Commits, TablesOK', UNCHANGED projects, req[r].phase # "new",
         q.kind = req[r].kind, q.form = req[r].form,
         q.kind \in {"edit", "apiEdit", "delete"} => q.host = req[r].host,
         q.left = req[r].left
  PROVE  HostInv'
<1>1. /\ req' = [req EXCEPT ![r] = req'[r]] /\ req'[r] \in Request
      /\ req'[r].phase = "ended" /\ req'[r].end = end
      /\ req'[r].kind = q.kind /\ req'[r].form = q.form /\ req'[r].host = q.host
      /\ req'[r].left = q.left /\ req'[r].create = {} /\ req'[r].update = {}
      /\ loop' = IF loop = r THEN Nil ELSE loop
  BY StopSets DEF HostInv
<1>2. Fits(r, req'[r], projects, loop')
  <2>1. Fits(r, req[r], projects, loop)
    BY DEF HostInv, ReqInv
  <2>2. QED
    BY <1>1, <2>1, EndedFits
<1>3. commits' \in Nat /\ UNCHANGED <<projects, demand>>
  BY DEF Commits, HostInv, ReqInv
<1>4. QED
  BY <1>1, <1>2, <1>3, StopLoop, RequestSteps

LEMMA CreateHostKeeps ==
  ASSUME HostInv, NEW r \in Requests, CreateHost(r)
  PROVE  HostInv'
<1> DEFINE q == req[r]
<1>1. /\ q \in Request /\ Fits(r, q, projects, loop) /\ q.phase = "host"
      /\ q.form \in Form /\ q.kind = q.form.kind /\ q.kind \in {"add", "apiAdd"}
  BY DEF HostInv, ReqInv, CreateHost, At, Fits
<1>2. CASE Conflict(r)
  BY <1>1, <1>2, ConflictKeeps
<1>3. ASSUME NEW v \in VendorIds(q.vendor), NEW i \in Ids,
             HostCalled(q.form.name) = {}, NextId(hosts, i), WritesHosts,
             hosts' = [hosts EXCEPT ![i] = [name |-> q.form.name, vendor |-> v]],
             LET done == [Wrote(q) EXCEPT !.host = i] IN
             IF q.kind = "add" THEN Goto(r, done, "assets") ELSE Stop(r, done, "done")
      PROVE  HostInv'
  <2> DEFINE done == [Wrote(q) EXCEPT !.host = i]
             row == [name |-> q.form.name, vendor |-> v]
  <2>1. /\ done \in Request /\ done.kind = q.kind /\ done.form = q.form /\ done.host = i
        /\ done.left = q.left /\ done.end = q.end /\ done.valid = q.valid
        /\ done.create = q.create /\ done.update = q.update
    BY <1>1, WroteTyped DEF Request
  <2>2. q.form.name \in Names
    <3>1. q.form.name # Nil
      BY <1>1, FormFields DEF Fits, Holding
    <3>2. QED
      BY <1>1, <3>1, FormFields
  <2>3. TablesOK'
    <3>1. v \in Live(vendors) \union {Nil} /\ v \in Ids \union {Nil}
      BY VendorFound DEF Live
    <3>2. row \in Host /\ row.name = q.form.name /\ row.vendor = v
      BY <2>2, <3>1 DEF Host
    <3>3. \A k \in Live(hosts) \ {i} : hosts[k].name # row.name
      BY <1>3 DEF HostCalled
    <3> HIDE DEF row
    <3>4. hosts' = [hosts EXCEPT ![i] = row]
      BY <1>3 DEF row
    <3>5. UNCHANGED <<assets, projects, vendors, audit>>
      BY <1>3 DEF WritesHosts
    <3>6. QED
      BY <3>1, <3>2, <3>3, <3>4, <3>5, HostStored, TypeParts DEF HostInv
  <2>4. Commits /\ UNCHANGED projects
    BY <1>3 DEF WritesHosts
  <2>5. CASE q.kind = "add"
    <3>1. Goto(r, done, "assets") /\ "assets" \in Phases
      BY <1>3, <2>5 DEF Phases
    <3> DEFINE n == [done EXCEPT !.phase = "assets"]
    <3> HIDE DEF done
    <3>2. /\ n.phase = "assets" /\ n.kind = q.kind /\ n.form = q.form /\ n.left = q.left
          /\ n.end = q.end /\ n.valid = q.valid /\ n.create = q.create
          /\ n.update = q.update
      BY <2>1, <3>1, PhaseSet
    <3> HIDE DEF n
    <3>3. Fits(r, n, projects, loop)
      BY <1>1, <2>5, <3>2 DEF Fits, Holding
    <3> USE DEF n
    <3>4. QED
      BY <2>1, <2>3, <2>4, <3>1, <3>3, WriteGotoKeeps
  <2>6. CASE q.kind # "add"
    <3>1. Stop(r, done, "done") /\ "done" \in Ends \ {"none"}
      BY <1>3, <2>6 DEF Ends
    <3> HIDE DEF done
    <3>2. QED
      BY <1>1, <2>1, <2>3, <2>4, <3>1, WriteStopKeeps
  <2>7. QED
    BY <2>5, <2>6
<1>4. QED
  BY <1>2, <1>3 DEF CreateHost

LEMMA UpdateHostKeeps ==
  ASSUME HostInv, NEW r \in Requests, UpdateHost(r)
  PROVE  HostInv'
<1> DEFINE q == req[r]
           f == q.form
           known == f.id \in Live(hosts)
<1>1. /\ q \in Request /\ Fits(r, q, projects, loop) /\ q.phase = "host"
      /\ q.form \in Form /\ q.kind = q.form.kind /\ q.kind \in {"edit", "apiEdit"}
  BY DEF HostInv, ReqInv, UpdateHost, At, Fits
<1>2. CASE Conflict(r)
  BY <1>1, <1>2, ConflictKeeps
<1>3. ASSUME Reads, IF q.kind = "edit" THEN Goto(r, [q EXCEPT !.valid = FALSE], "linked")
                                      ELSE Stop(r, q, "missing")
      PROVE  HostInv'
  <2>1. CASE q.kind = "edit"
    <3> DEFINE n == [q EXCEPT !.valid = FALSE]
    <3>1. /\ n \in Request /\ n.kind = q.kind /\ n.form = q.form /\ n.host = q.host
          /\ n.left = q.left /\ n.end = q.end /\ n.create = q.create /\ n.update = q.update
      BY <1>1 DEF Request
    <3>2. Goto(r, n, "linked") /\ "linked" \in Phases
      BY <1>3, <2>1 DEF Phases
    <3> DEFINE m == [n EXCEPT !.phase = "linked"]
    <3> HIDE DEF n
    <3>3. /\ m.phase = "linked" /\ m.kind = q.kind /\ m.form = q.form /\ m.host = q.host
          /\ m.left = q.left /\ m.end = q.end /\ m.create = q.create
          /\ m.update = q.update
      BY <3>1, <3>2, PhaseSet
    <3> HIDE DEF m
    <3>4. Fits(r, m, projects, loop)
      BY <1>1, <2>1, <3>3 DEF Fits, Holding
    <3> USE DEF m
    <3>5. QED
      BY <1>3, <3>1, <3>2, <3>4, GotoKeeps
  <2>2. CASE q.kind # "edit"
    BY <1>1, <1>3, <2>2, StopKeeps DEF Ends
  <2>3. QED
    BY <2>1, <2>2
<1>4. ASSUME NEW v \in VendorIds(q.vendor), known, HostCalled(f.name) \subseteq {f.id},
             hosts' = [hosts EXCEPT ![f.id] = [name |-> Given(f.name, @.name),
                                               vendor |-> Given(v, @.vendor)]],
             IF q.kind = "edit" THEN Goto(r, Wrote(q), "linked")
                                ELSE Stop(r, Wrote(q), "done"),
             WritesHosts
      PROVE  HostInv'
  <2> DEFINE row == [name |-> Given(f.name, hosts[f.id].name),
                     vendor |-> Given(v, hosts[f.id].vendor)]
  <2>1. TablesOK'
    <3>1. v \in Live(vendors) \union {Nil} /\ v \in Ids \union {Nil}
      BY VendorFound DEF Live
    <3>2. /\ f.id \in Ids /\ hosts[f.id] \in Host
          /\ hosts[f.id].vendor \in Live(vendors) \union {Nil}
      BY <1>4, TypeParts DEF HostInv, TablesOK, Consistent, Live
    <3>3. row \in Host /\ row.name = Given(f.name, hosts[f.id].name)
          /\ row.vendor \in Live(vendors) \union {Nil}
      BY <1>1, <3>1, <3>2, FormFields DEF Host, Given
    <3>4. \A k \in Live(hosts) \ {f.id} : hosts[k].name # row.name
      BY <1>4, <3>3, TypeParts DEF HostCalled, Given, HostInv, TablesOK, Consistent
    <3>5. hosts' = [hosts EXCEPT ![f.id] = row]
      BY <1>4
    <3>6. UNCHANGED <<assets, projects, vendors, audit>>
      BY <1>4 DEF WritesHosts
    <3> HIDE DEF row
    <3>7. QED
      BY <3>2, <3>3, <3>4, <3>5, <3>6, HostStored, TypeParts DEF HostInv
  <2>2. Commits /\ UNCHANGED projects
    BY <1>4 DEF WritesHosts
  <2>3. CASE q.kind = "edit"
    <3>1. Goto(r, Wrote(q), "linked") /\ "linked" \in Phases
      BY <1>4, <2>3 DEF Phases
    <3> DEFINE n == [Wrote(q) EXCEPT !.phase = "linked"]
    <3>2. /\ n.phase = "linked" /\ n.kind = q.kind /\ n.form = q.form /\ n.host = q.host
          /\ n.left = q.left /\ n.end = q.end /\ n.create = q.create
          /\ n.update = q.update
      BY <1>1, <3>1, WroteTyped, PhaseSet
    <3> HIDE DEF n
    <3>3. Fits(r, n, projects, loop)
      BY <1>1, <2>3, <3>2 DEF Fits, Holding
    <3> USE DEF n
    <3>4. QED
      BY <1>1, <2>1, <2>2, <3>1, <3>3, WroteTyped, WriteGotoKeeps
  <2>4. CASE q.kind # "edit"
    BY <1>1, <1>4, <2>1, <2>2, <2>4, WroteTyped, WriteStopKeeps DEF Ends
  <2>5. QED
    BY <2>3, <2>4
<1>5. QED
  BY <1>2, <1>3, <1>4 DEF UpdateHost

-----------------------------------------------------------------------------
(* Links, projects and addresses.                                          *)

LEMMA LinksTyped ==
  ASSUME TablesOK, NEW S \in SUBSET Live(assets)
  PROVE  {[ip |-> assets[i].ip, type |-> assets[i].type] : i \in S} \in SUBSET Link
  BY DEF TablesOK, Live, Asset, Link

LEMMA ReadLinksKeeps ==
  ASSUME HostInv, NEW r \in Requests, ReadLinks(r)
  PROVE  HostInv'
<1> DEFINE q == req[r]
           cut == {[ip |-> assets[i].ip, type |-> assets[i].type] : i \in Dropped(q.form)}
           n == [q EXCEPT !.links = cut]
           phase == IF Dropped(q.form) = {} THEN "project" ELSE "unlink"
           m == [n EXCEPT !.phase = phase]
<1>1. /\ q \in Request /\ Fits(r, q, projects, loop) /\ q.phase = "linked" /\ Reads
      /\ Goto(r, n, phase) /\ phase \in {"project", "unlink"} /\ phase \in Phases
  BY DEF HostInv, ReqInv, ReadLinks, At, Phases
<1>2. cut \in SUBSET Link
  <2>1. Dropped(q.form) \in SUBSET Live(assets)
    BY DEF Dropped, ActiveOn
  <2>2. QED
    BY <2>1, LinksTyped, TypeParts DEF HostInv
<1> HIDE DEF cut, phase
<1>3. /\ n \in Request /\ n.kind = q.kind /\ n.form = q.form /\ n.host = q.host
      /\ n.left = q.left /\ n.end = q.end /\ n.create = q.create /\ n.update = q.update
  BY <1>1, <1>2 DEF Request
<1> HIDE DEF n
<1>4. /\ m.phase = phase /\ m.kind = q.kind /\ m.form = q.form /\ m.host = q.host
      /\ m.left = q.left /\ m.end = q.end /\ m.create = q.create /\ m.update = q.update
  BY <1>1, <1>3, PhaseSet
<1> HIDE DEF m
<1>5. Fits(r, m, projects, loop)
  BY <1>1, <1>4 DEF Fits, Holding
<1> USE DEF m
<1>6. QED
  BY <1>1, <1>3, <1>5, GotoKeeps

LEMMA UnlinkKeeps ==
  ASSUME HostInv, NEW r \in Requests, Unlink(r)
  PROVE  HostInv'
<1> DEFINE q == req[r]
           n == [Wrote(q) EXCEPT !.links = {}]
           m == [n EXCEPT !.phase = "project"]
<1>1. /\ q \in Request /\ Fits(r, q, projects, loop) /\ q.phase = "unlink"
      /\ WritesAssets /\ UNCHANGED audit /\ Goto(r, n, "project")
      /\ "project" \in Phases
  BY DEF HostInv, ReqInv, Unlink, At, Phases
<1>2. TablesOK'
  <2>1. ASSUME NEW i \in Ids
        PROVE  /\ assets'[i] \in Asset \union {Nil}
               /\ assets'[i] # Nil =>
                    /\ assets[i] # Nil /\ assets'[i].ip = assets[i].ip
                    /\ assets'[i].host \in Live(hosts) \union {Nil}
                    /\ assets'[i].project \in projects \union {Nil}
    <3>1. /\ assets[i] \in Asset \union {Nil}
          /\ assets[i] # Nil => /\ assets[i].host \in Live(hosts) \union {Nil}
                                /\ assets[i].project \in projects \union {Nil}
      BY TypeParts DEF HostInv, TablesOK, Consistent, Live
    <3>2. assets'[i] = IF assets[i] # Nil /\ Cut(q, assets[i])
                       THEN [assets[i] EXCEPT !.host = Nil] ELSE assets[i]
      BY DEF Unlink
    <3>3. CASE assets[i] # Nil /\ Cut(q, assets[i])
      BY <3>1, <3>2, <3>3 DEF Asset
    <3>4. CASE ~(assets[i] # Nil /\ Cut(q, assets[i]))
      BY <3>1, <3>2, <3>4
    <3>5. QED
      BY <3>3, <3>4
  <2>2. assets' = [i \in Ids |-> assets'[i]]
    BY DEF Unlink
  <2>3. assets' \in [Ids -> Asset \union {Nil}]
    BY <2>1, <2>2
  <2>4. audit' \in [Ips -> Nat]
    BY <1>1, TypeParts DEF HostInv, TablesOK
  <2>5. QED
    BY <1>1, <2>1, <2>3, <2>4, RowsChange, TypeParts DEF HostInv, WritesAssets
<1>3. /\ n \in Request /\ n.kind = q.kind /\ n.form = q.form /\ n.host = q.host
      /\ n.left = q.left /\ n.end = q.end /\ n.create = q.create /\ n.update = q.update
  BY <1>1, WroteTyped DEF Request
<1> HIDE DEF n
<1>4. /\ m.phase = "project" /\ m.kind = q.kind /\ m.form = q.form /\ m.host = q.host
      /\ m.left = q.left /\ m.end = q.end /\ m.create = q.create /\ m.update = q.update
  BY <1>1, <1>3, PhaseSet
<1> HIDE DEF m
<1>5. Fits(r, m, projects, loop)
  BY <1>1, <1>4 DEF Fits, Holding
<1> USE DEF m
<1>6. QED
  BY <1>1, <1>2, <1>3, <1>5, WriteGotoKeeps DEF WritesAssets

LEMMA ReadMovesKeeps ==
  ASSUME HostInv, NEW r \in Requests, ReadMoves(r)
  PROVE  HostInv'
<1> DEFINE q == req[r]
           linked == ActiveOn(q.form.id)
<1>1. /\ q \in Request /\ Fits(r, q, projects, loop) /\ q.phase = "project" /\ Reads
      /\ q.form \in Form
  BY DEF HostInv, ReqInv, ReadMoves, At, Fits
<1>2. CASE ~ProjectKnown(q.form.project)
  <2>1. Stop(r, q, "no project") /\ "no project" \in Ends \ {"none"}
    BY <1>2 DEF ReadMoves, Ends
  <2>2. QED
    BY <1>1, <2>1, StopKeeps
<1>3. CASE ProjectKnown(q.form.project) /\ q.form.project # Absent
             /\ Goto(r, [q EXCEPT !.ids = linked], "move")
  <2> DEFINE n == [q EXCEPT !.ids = linked]
             m == [n EXCEPT !.phase = "move"]
  <2>1. linked \in SUBSET Ids /\ "move" \in Phases
    BY DEF ActiveOn, Live, Phases
  <2> HIDE DEF linked
  <2>2. /\ n \in Request /\ n.kind = q.kind /\ n.form = q.form /\ n.host = q.host
        /\ n.left = q.left /\ n.end = q.end /\ n.create = q.create /\ n.update = q.update
    BY <1>1, <2>1 DEF Request
  <2>3. Goto(r, n, "move")
    BY <1>3
  <2> HIDE DEF n
  <2>4. /\ m.phase = "move" /\ m.kind = q.kind /\ m.form = q.form /\ m.host = q.host
        /\ m.left = q.left /\ m.end = q.end /\ m.create = q.create /\ m.update = q.update
    BY <2>1, <2>2, PhaseSet
  <2> HIDE DEF m
  <2>5. Fits(r, m, projects, loop)
    BY <1>1, <1>3, <2>4 DEF Fits, Holding, ProjectKnown
  <2> USE DEF m
  <2>6. QED
    BY <1>1, <2>1, <2>2, <2>3, <2>5, GotoKeeps
<1>4. CASE Goto(r, q, "assets")
  <2> DEFINE m == [q EXCEPT !.phase = "assets"]
  <2>1. /\ m.phase = "assets" /\ m.kind = q.kind /\ m.form = q.form /\ m.host = q.host
        /\ m.left = q.left /\ m.end = q.end /\ m.create = q.create /\ m.update = q.update
        /\ "assets" \in Phases
    BY <1>1, PhaseSet DEF Phases
  <2> HIDE DEF m
  <2>2. Fits(r, m, projects, loop)
    BY <1>1, <2>1 DEF Fits, Holding
  <2> USE DEF m
  <2>3. QED
    BY <1>1, <1>4, <2>1, <2>2, GotoKeeps
<1>5. QED
  BY <1>2, <1>3, <1>4 DEF ReadMoves

LEMMA MoveKeeps ==
  ASSUME HostInv, NEW r \in Requests, Move(r)
  PROVE  HostInv'
<1> DEFINE q == req[r]
           rows == q.ids \cap Live(assets)
           n == [Wrote(q) EXCEPT !.ids = {}]
           m == [n EXCEPT !.phase = "assets"]
<1>1. /\ q \in Request /\ Fits(r, q, projects, loop) /\ q.phase = "move"
      /\ WritesAssets /\ Log({assets[i].ip : i \in rows}) /\ Goto(r, n, "assets")
      /\ "assets" \in Phases
  BY DEF HostInv, ReqInv, Move, At, Phases
<1>2. TablesOK'
  <2>1. q.form.project \in projects \union {Nil} /\ projects \subseteq Ids
    BY <1>1, TypeParts DEF Fits, HostInv, TablesOK
  <2>2. ASSUME NEW i \in Ids
        PROVE  /\ assets'[i] \in Asset \union {Nil}
               /\ assets'[i] # Nil =>
                    /\ assets[i] # Nil /\ assets'[i].ip = assets[i].ip
                    /\ assets'[i].host \in Live(hosts) \union {Nil}
                    /\ assets'[i].project \in projects \union {Nil}
    <3>1. /\ assets[i] \in Asset \union {Nil}
          /\ assets[i] # Nil => /\ assets[i].host \in Live(hosts) \union {Nil}
                                /\ assets[i].project \in projects \union {Nil}
      BY TypeParts DEF HostInv, TablesOK, Consistent, Live
    <3>2. assets'[i] = IF i \in rows THEN [assets[i] EXCEPT !.project = q.form.project]
                                     ELSE assets[i]
      BY DEF Move
    <3>3. CASE i \in rows
      <4>1. assets[i] \in Asset
        BY <3>1, <3>3 DEF Live
      <4>2. QED
        BY <2>1, <3>1, <3>2, <3>3, <4>1, NilIsNoRow DEF Asset
    <3>4. CASE i \notin rows
      BY <3>1, <3>2, <3>4
    <3>5. QED
      BY <3>3, <3>4
  <2>3. assets' = [i \in Ids |-> assets'[i]]
    BY DEF Move
  <2>4. assets' \in [Ids -> Asset \union {Nil}]
    BY <2>2, <2>3
  <2>5. audit' \in [Ips -> Nat]
    BY <1>1, LogTyped, TypeParts DEF HostInv
  <2>6. QED
    BY <1>1, <2>2, <2>4, <2>5, RowsChange, TypeParts DEF HostInv, WritesAssets
<1>3. /\ n \in Request /\ n.kind = q.kind /\ n.form = q.form /\ n.host = q.host
      /\ n.left = q.left /\ n.end = q.end /\ n.create = q.create /\ n.update = q.update
  BY <1>1, WroteTyped DEF Request
<1> HIDE DEF n
<1>4. /\ m.phase = "assets" /\ m.kind = q.kind /\ m.form = q.form /\ m.host = q.host
      /\ m.left = q.left /\ m.end = q.end /\ m.create = q.create /\ m.update = q.update
  BY <1>1, <1>3, PhaseSet
<1> HIDE DEF m
<1>5. Fits(r, m, projects, loop)
  BY <1>1, <1>4 DEF Fits, Holding
<1> USE DEF m
<1>6. QED
  BY <1>1, <1>2, <1>3, <1>5, WriteGotoKeeps DEF WritesAssets

(* What a form does with one address, once it has its host.                *)
LEMMA FinishedTyped ==
  ASSUME NEW q \in Request, NEW e
  PROVE  /\ Finished(q, e) \in Request /\ Finished(q, e).kind = q.kind
         /\ Finished(q, e).form = q.form /\ Finished(q, e).host = q.host
         /\ Finished(q, e).vendor = q.vendor /\ Finished(q, e).valid = q.valid
         /\ Finished(q, e).left = q.left /\ Finished(q, e).end = q.end
         /\ Finished(q, e).create = q.create \ {e}
         /\ Finished(q, e).update = q.update \ {e}
         /\ Finished(q, e).base = q.base /\ Finished(q, e).wrote = q.wrote + 1
  BY WroteTyped DEF Finished, Request

LEMMA AddressFits ==
  ASSUME HostInv, NEW r \in Requests, req[r].phase = "assets", NEW n \in Request,
         n.kind = req[r].kind, n.form = req[r].form, n.host = req[r].host,
         n.left = req[r].left, n.end = req[r].end, n.valid = req[r].valid,
         n.create \subseteq req[r].create, n.update \subseteq req[r].update
  PROVE  "assets" \in Phases /\ Fits(r, [n EXCEPT !.phase = "assets"], projects, loop)
<1> DEFINE m == [n EXCEPT !.phase = "assets"]
<1>1. Fits(r, req[r], projects, loop)
  BY DEF HostInv, ReqInv
<1>2. /\ m.phase = "assets" /\ m.kind = n.kind /\ m.form = n.form /\ m.host = n.host
      /\ m.left = n.left /\ m.end = n.end /\ m.create = n.create /\ m.update = n.update
      /\ m.valid = n.valid /\ "assets" \in Phases
  BY PhaseSet DEF Phases
<1> HIDE DEF m
<1>3. Fits(r, m, projects, loop)
  BY <1>1, <1>2 DEF Fits, Holding
<1> USE DEF m
<1>4. QED
  BY <1>2, <1>3

LEMMA ProjectThere ==
  ASSUME HostInv, NEW r \in Requests, req[r].phase = "assets"
  PROVE  ProjectOf(req[r]) \in projects \union {Nil}
  BY DEF HostInv, ReqInv, Fits, Holding, ProjectOf

LEMMA RowTyped ==
  ASSUME HostInv, NEW i \in Live(assets)
  PROVE  /\ assets[i] \in Asset /\ i \in Ids /\ assets[i].ip \in Ips
         /\ assets[i].host \in Live(hosts) \union {Nil}
         /\ assets[i].project \in projects \union {Nil}
         /\ \A k \in Live(assets) \ {i} : assets[k].ip # assets[i].ip
  BY TypeParts DEF HostInv, TablesOK, Consistent, Live, Asset

LEMMA CreateAssetKeeps ==
  ASSUME HostInv, NEW r \in Requests, CreateAsset(r)
  PROVE  HostInv'
<1> DEFINE q == req[r]
<1>1. q \in Request /\ q.phase = "assets"
  BY DEF HostInv, ReqInv, CreateAsset, At
<1> DEFINE NewRow(e) == [ip |-> e.ip, type |-> e.type, project |-> ProjectOf(q),
                         host |-> q.host, archived |-> FALSE]
<1>2. PICK e \in q.create :
        \/ Conflict(r) \/ (Stop(r, q, "error") /\ Reads)
        \/ /\ q.host \in Live(hosts)
           /\ \E i \in Ids : (IF RowsOf(e.ip) = {} THEN NextId(assets, i) ELSE i \in RowsOf(e.ip))
                               /\ assets' = [assets EXCEPT ![i] = NewRow(e)]
           /\ Log({e.ip}) /\ Goto(r, Finished(q, e), "assets") /\ WritesAssets
  BY DEF CreateAsset, InTurn
<1> DEFINE row == NewRow(e)
<1>3. CASE Conflict(r) \/ (Stop(r, q, "error") /\ Reads)
  BY <1>1, <1>3, ConflictKeeps, StopKeeps DEF Ends
<1>4. ASSUME q.host \in Live(hosts), NEW i \in Ids,
             IF RowsOf(e.ip) = {} THEN NextId(assets, i) ELSE i \in RowsOf(e.ip),
             assets' = [assets EXCEPT ![i] = row], Log({e.ip}),
             Goto(r, Finished(q, e), "assets"), WritesAssets
      PROVE  HostInv'
  <2>1. e \in Entry
    BY <1>1 DEF Request
  <2>2. ProjectOf(q) \in projects \union {Nil} /\ projects \subseteq Ids
    BY <1>1, ProjectThere, TypeParts DEF HostInv, TablesOK
  <2>3. row \in Asset
    BY <1>4, <2>1, <2>2 DEF Asset, Entry, Types, Live
  <2>4. \A k \in Live(assets) \ {i} : assets[k].ip # e.ip
    BY <1>4, RowTyped DEF RowsOf
  <2>5. audit' \in [Ips -> Nat]
    BY <1>4, LogTyped, TypeParts DEF HostInv
  <2>6. TablesOK'
    BY <1>4, <2>2, <2>3, <2>4, <2>5, RowStored, TypeParts DEF HostInv, WritesAssets
  <2>7. /\ Finished(q, e) \in Request /\ "assets" \in Phases
        /\ Fits(r, [Finished(q, e) EXCEPT !.phase = "assets"], projects, loop)
    BY <1>1, FinishedTyped, AddressFits
  <2>8. QED
    BY <1>4, <2>6, <2>7, WriteGotoKeeps DEF WritesAssets
<1>5. ASSUME q.host \in Live(hosts),
             \E i \in Ids : (IF RowsOf(e.ip) = {} THEN NextId(assets, i) ELSE i \in RowsOf(e.ip))
                             /\ assets' = [assets EXCEPT ![i] = row],
             Log({e.ip}), Goto(r, Finished(q, e), "assets"), WritesAssets
      PROVE  HostInv'
  <2>1. PICK i \in Ids :
          /\ IF RowsOf(e.ip) = {} THEN NextId(assets, i) ELSE i \in RowsOf(e.ip)
          /\ assets' = [assets EXCEPT ![i] = row]
    BY <1>5
  <2>2. QED
    BY <1>4, <1>5, <2>1
<1> HIDE DEF q, NewRow
<1>6. QED
  BY <1>2, <1>3, <1>5

LEMMA UpdateAssetKeeps ==
  ASSUME HostInv, NEW r \in Requests, UpdateAsset(r)
  PROVE  HostInv'
<1> DEFINE q == req[r]
           row(e, i) == [assets[i] EXCEPT !.type = e.type, !.host = q.host,
                                          !.project = Given(ProjectOf(q), @)]
<1>1. q \in Request /\ q.phase = "assets"
  BY DEF HostInv, ReqInv, UpdateAsset, At
<1>2. PICK e \in q.update :
        \/ Goto(r, [q EXCEPT !.update = @ \ {e}], "assets") /\ Reads
        \/ Stop(r, q, "error") /\ Reads
        \/ \E i \in RowsOf(e.ip) :
             /\ q.host \in Live(hosts) /\ assets' = [assets EXCEPT ![i] = row(e, i)]
             /\ Log({e.ip}) /\ Goto(r, Finished(q, e), "assets") /\ WritesAssets
  BY DEF UpdateAsset, InTurn
<1>3. CASE Goto(r, [q EXCEPT !.update = @ \ {e}], "assets") /\ Reads
  <2> DEFINE n == [q EXCEPT !.update = @ \ {e}]
  <2>1. /\ n \in Request /\ n.kind = q.kind /\ n.form = q.form /\ n.host = q.host
        /\ n.left = q.left /\ n.end = q.end /\ n.create = q.create
        /\ n.update = q.update \ {e} /\ n.valid = q.valid
    BY <1>1 DEF Request
  <2>2. Goto(r, n, "assets") /\ Reads
    BY <1>3
  <2> HIDE DEF n
  <2>3. "assets" \in Phases /\ Fits(r, [n EXCEPT !.phase = "assets"], projects, loop)
    BY <1>1, <2>1, AddressFits
  <2>4. QED
    BY <2>1, <2>2, <2>3, GotoKeeps
<1>4. CASE Stop(r, q, "error") /\ Reads
  BY <1>1, <1>4, StopKeeps DEF Ends
<1>5. ASSUME NEW i \in RowsOf(e.ip), q.host \in Live(hosts),
             assets' = [assets EXCEPT ![i] = row(e, i)], Log({e.ip}),
             Goto(r, Finished(q, e), "assets"), WritesAssets
      PROVE  HostInv'
  <2>1. e \in Entry /\ i \in Live(assets)
    BY <1>1 DEF Request, RowsOf
  <2>2. ProjectOf(q) \in projects \union {Nil} /\ projects \subseteq Ids
    BY <1>1, ProjectThere, TypeParts DEF HostInv, TablesOK
  <2>3. Given(ProjectOf(q), assets[i].project) \in projects \union {Nil}
    BY <2>1, <2>2, RowTyped DEF Given
  <2>4. /\ row(e, i) \in Asset /\ row(e, i).ip = assets[i].ip /\ row(e, i).host = q.host
        /\ row(e, i).project = Given(ProjectOf(q), assets[i].project)
    BY <1>5, <2>1, <2>2, <2>3, RowTyped DEF Asset, Entry, Types, Live
  <2>5. audit' \in [Ips -> Nat]
    BY <1>5, LogTyped, TypeParts DEF HostInv
  <2>6. TablesOK'
    <3> DEFINE new == row(e, i)
    <3>1. /\ new \in Asset /\ assets' = [assets EXCEPT ![i] = new] /\ i \in Ids
          /\ new.host \in Live(hosts) \union {Nil} /\ new.project \in projects \union {Nil}
          /\ \A k \in Live(assets) \ {i} : assets[k].ip # new.ip
      BY <1>5, <2>1, <2>3, <2>4, RowTyped
    <3> HIDE DEF new
    <3>2. QED
      BY <1>5, <2>5, <3>1, RowStored, TypeParts DEF HostInv, WritesAssets
  <2>7. /\ Finished(q, e) \in Request /\ "assets" \in Phases
        /\ Fits(r, [Finished(q, e) EXCEPT !.phase = "assets"], projects, loop)
    BY <1>1, FinishedTyped, AddressFits
  <2>8. QED
    BY <1>5, <2>6, <2>7, WriteGotoKeeps DEF WritesAssets
<1>6. QED
  BY <1>2, <1>3, <1>4, <1>5

LEMMA AnswerKeeps ==
  ASSUME HostInv, NEW r \in Requests, Answer(r)
  PROVE  HostInv'
<1>1. PICK end \in {"done", "missing"} : Stop(r, req[r], end) /\ Reads
  BY DEF Answer
<1>2. /\ req[r] \in Request /\ end \in Ends \ {"none"} /\ req[r].phase # "new"
  BY DEF HostInv, ReqInv, Ends, Answer, At
<1>3. QED
  BY <1>1, <1>2, StopKeeps

LEMMA DeleteOpenKeeps ==
  ASSUME HostInv, NEW r \in Requests, DeleteOpen(r)
  PROVE  HostInv'
<1> DEFINE q == req[r]
           n == [q EXCEPT !.confirmed = hosts[q.host].name]
           m == [n EXCEPT !.phase = "typing"]
<1>1. /\ q \in Request /\ Fits(r, q, projects, loop) /\ q.phase = "open" /\ Reads
  BY DEF HostInv, ReqInv, DeleteOpen, At
<1>2. CASE q.host \notin Live(hosts)
  <2>1. Stop(r, q, "missing")
    BY <1>2 DEF DeleteOpen
  <2>2. QED
    BY <1>1, <2>1, StopKeeps DEF Ends
<1>3. CASE q.host \in Live(hosts)
  <2>1. Goto(r, n, "typing") /\ "typing" \in Phases
    BY <1>3 DEF DeleteOpen, Phases
  <2>2. hosts[q.host].name \in Names
    BY <1>3, TypeParts DEF HostInv, TablesOK, Live, Host
  <2>3. /\ n \in Request /\ n.kind = q.kind /\ n.form = q.form /\ n.host = q.host
        /\ n.left = q.left /\ n.end = q.end /\ n.create = q.create /\ n.update = q.update
    BY <1>1, <2>2 DEF Request
  <2> HIDE DEF n
  <2>4. /\ m.phase = "typing" /\ m.kind = q.kind /\ m.form = q.form /\ m.host = q.host
        /\ m.left = q.left /\ m.end = q.end /\ m.create = q.create /\ m.update = q.update
    BY <2>1, <2>3, PhaseSet
  <2> HIDE DEF m
  <2>5. Fits(r, m, projects, loop)
    BY <1>1, <2>4 DEF Fits, Holding
  <2> USE DEF m
  <2>6. QED
    BY <1>1, <2>1, <2>3, <2>5, GotoKeeps
<1>4. QED
  BY <1>2, <1>3

LEMMA DeleteSubmitKeeps ==
  ASSUME HostInv, NEW r \in Requests, DeleteSubmit(r)
  PROVE  HostInv'
<1> DEFINE q == req[r]
<1>1. q \in Request /\ q.phase = "typing"
  BY DEF HostInv, ReqInv, DeleteSubmit, At
<1>2. CASE \E end \in {"refused", "missing"} : Stop(r, q, end) /\ Reads
  BY <1>1, <1>2, StopKeeps DEF Ends
<1>3. ASSUME q.host \in Live(hosts), hosts' = [hosts EXCEPT ![q.host] = Nil],
             assets' = [i \in Ids |-> IF assets[i] # Nil /\ assets[i].host = q.host
                                      THEN [assets[i] EXCEPT !.host = Nil] ELSE assets[i]],
             Stop(r, Wrote(q), "done"), Commits, UNCHANGED <<projects, vendors, audit>>
      PROVE  HostInv'
  <2>1. TablesOK'
    BY <1>3, HostDropped, TypeParts DEF HostInv, Live
  <2>2. QED
    BY <1>1, <1>3, <2>1, WroteTyped, WriteStopKeeps DEF Ends
<1>4. QED
  BY <1>2, <1>3 DEF DeleteSubmit

-----------------------------------------------------------------------------
(* The other requests.                                                     *)

LEMMA OthersKeep ==
  ASSUME HostInv, UNCHANGED <<req, loop>>, Commits, TablesOK',
         projects' = projects \/ loop = Nil
  PROVE  HostInv'
<1>1. HostTypeOK'
  BY TypeParts DEF HostInv, Commits, HostTypeOK, TablesOK, Tables
<1>2. req' \in [Requests -> Request] /\ commits' \in Nat
  BY DEF HostInv, ReqInv, Commits
<1>3. ASSUME NEW r \in Requests
      PROVE  Fits(r, req[r], projects', loop)
  <2>1. Fits(r, req[r], projects, loop)
    BY DEF HostInv, ReqInv
  <2>2. CASE projects' = projects
    BY <2>1, <2>2
  <2>3. CASE loop = Nil
    <3>1. ~Holding(req[r])
      BY <2>1, <2>3, RequestIsNotNil DEF Fits
    <3>2. req[r].phase # "move"
      BY <2>1, <3>1 DEF Fits, Holding
    <3>3. QED
      BY <2>1, <3>1, <3>2 DEF Fits
  <2>4. QED
    BY <2>2, <2>3
<1>4. QED
  BY <1>1, <1>2, <1>3 DEF HostInv, ReqInv

LEMMA EditAssetKeeps ==
  ASSUME HostInv, EditAsset
  PROVE  HostInv'
<1>1. PICK i \in Live(assets), h \in Live(hosts) \union {Nil}, t \in Types :
        assets' = [assets EXCEPT ![i].host = h, ![i].type = t] /\ Log({assets[i].ip})
  BY DEF EditAsset
<1> DEFINE row == [assets[i] EXCEPT !.host = h, !.type = t]
<1>2. /\ row \in Asset /\ row.ip = assets[i].ip /\ row.host = h
      /\ row.project = assets[i].project
  BY RowTyped DEF Asset, Live
<1>3. assets' = [assets EXCEPT ![i] = row]
  BY <1>1, RowTyped, TypeParts DEF HostInv, TablesOK, Asset
<1> HIDE DEF row
<1>4. UNCHANGED <<hosts, projects, vendors>> /\ audit' \in [Ips -> Nat]
  BY <1>1, LogTyped, TypeParts DEF HostInv, EditAsset, WritesAssets
<1>5. TablesOK'
  BY <1>2, <1>3, <1>4, RowTyped, RowStored, TypeParts DEF HostInv
<1>6. QED
  BY <1>5, OthersKeep DEF EditAsset, Other, WritesAssets

LEMMA DropAssetKeeps ==
  ASSUME HostInv, DropAsset
  PROVE  HostInv'
<1>1. PICK i \in Live(assets) :
        assets' = [assets EXCEPT ![i] = Nil] /\ Log({assets[i].ip})
  BY DEF DropAsset
<1>2. UNCHANGED <<hosts, projects, vendors>> /\ audit' \in [Ips -> Nat]
  BY <1>1, LogTyped, TypeParts DEF HostInv, DropAsset, WritesAssets
<1>3. assets' \in [Ids -> Asset \union {Nil}]
  BY <1>1, TypeParts DEF HostInv, TablesOK
<1>4. \A k \in Ids : assets'[k] # Nil => k \in Live(assets) /\ assets'[k] = assets[k]
  BY <1>1, TypeParts DEF HostInv, TablesOK, Live
<1>5. TablesOK'
  BY <1>2, <1>3, <1>4, RowTyped, RowsChange, TypeParts DEF HostInv, Live
<1>6. QED
  BY <1>5, OthersKeep DEF DropAsset, Other, WritesAssets

LEMMA AddAssetKeeps ==
  ASSUME HostInv, AddAsset
  PROVE  HostInv'
<1>1. PICK i \in Ids, ip \in Ips, h \in Live(hosts) \union {Nil} :
        /\ RowsOf(ip) = {} /\ Log({ip})
        /\ assets' = [assets EXCEPT ![i] =
             [ip |-> ip, type |-> "OS", project |-> Nil, host |-> h, archived |-> FALSE]]
  BY DEF AddAsset
<1> DEFINE row == [ip |-> ip, type |-> "OS", project |-> Nil, host |-> h,
                   archived |-> FALSE]
<1>2. row \in Asset /\ row.ip = ip /\ row.host = h /\ row.project = Nil
  BY DEF Asset, Types, Live
<1>3. assets' = [assets EXCEPT ![i] = row]
  BY <1>1
<1> HIDE DEF row
<1>4. UNCHANGED <<hosts, projects, vendors>> /\ audit' \in [Ips -> Nat]
  BY <1>1, LogTyped, TypeParts DEF HostInv, AddAsset, WritesAssets
<1>5. \A k \in Live(assets) : assets[k].ip # ip
  BY <1>1 DEF RowsOf
<1>6. TablesOK'
  BY <1>2, <1>3, <1>4, <1>5, RowStored, TypeParts DEF HostInv
<1>7. QED
  BY <1>6, OthersKeep DEF AddAsset, Other, WritesAssets

LEMMA ArchiveAssetKeeps ==
  ASSUME HostInv, ArchiveAsset
  PROVE  HostInv'
<1>1. PICK i \in Live(assets) : assets' = [assets EXCEPT ![i].archived = TRUE]
  BY DEF ArchiveAsset
<1> DEFINE row == [assets[i] EXCEPT !.archived = TRUE]
<1>2. /\ row \in Asset /\ row.ip = assets[i].ip /\ row.host = assets[i].host
      /\ row.project = assets[i].project
  BY RowTyped DEF Asset
<1>3. assets' = [assets EXCEPT ![i] = row]
  BY <1>1
<1> HIDE DEF row
<1>4. UNCHANGED <<hosts, projects, vendors>> /\ audit' \in [Ips -> Nat]
  BY TypeParts DEF HostInv, TablesOK, ArchiveAsset, WritesAssets
<1>5. TablesOK'
  BY <1>2, <1>3, <1>4, RowTyped, RowStored, TypeParts DEF HostInv
<1>6. QED
  BY <1>5, OthersKeep DEF ArchiveAsset, Other, WritesAssets

LEMMA DropProjectKeeps ==
  ASSUME HostInv, DropProject
  PROVE  HostInv'
<1>1. PICK p \in projects :
        /\ projects' = projects \ {p}
        /\ assets' = [i \in Ids |-> IF assets[i] # Nil /\ assets[i].project = p
                                    THEN [assets[i] EXCEPT !.project = Nil] ELSE assets[i]]
  BY DEF DropProject
<1>2. UNCHANGED <<hosts, vendors, audit>>
  BY DEF DropProject
<1>3. ASSUME NEW i \in Ids
      PROVE  /\ assets'[i] \in Asset \union {Nil}
             /\ assets'[i] # Nil =>
                  /\ assets[i] # Nil /\ assets'[i].ip = assets[i].ip
                  /\ assets'[i].host \in Live(hosts) \union {Nil}
                  /\ assets'[i].project \in projects' \union {Nil}
  <2>1. assets'[i] = IF assets[i] # Nil /\ assets[i].project = p
                     THEN [assets[i] EXCEPT !.project = Nil] ELSE assets[i]
    BY <1>1
  <2>2. CASE assets[i] = Nil
    BY <2>1, <2>2
  <2>3. CASE assets[i] # Nil
    <3>1. /\ assets[i] \in Asset /\ assets[i].host \in Live(hosts) \union {Nil}
          /\ assets[i].project \in projects \union {Nil}
      BY <2>3, RowTyped DEF Live
    <3>2. CASE assets[i].project = p
      BY <2>1, <2>3, <3>1, <3>2 DEF Asset
    <3>3. CASE assets[i].project # p
      BY <1>1, <2>1, <2>3, <3>1, <3>3
    <3>4. QED
      BY <3>2, <3>3
  <2>4. QED
    BY <2>2, <2>3
<1>4. assets' \in [Ids -> Asset \union {Nil}]
  <2>1. assets' = [i \in Ids |-> assets'[i]]
    BY <1>1
  <2>2. QED
    BY <1>3, <2>1
<1>5. Consistent(hosts, assets, projects, vendors)'
  <2>1. \A i, k \in Live(assets') : assets'[i].ip = assets'[k].ip => i = k
    BY <1>3, TypeParts DEF HostInv, TablesOK, Consistent, Live
  <2>2. \A i \in Live(assets') : /\ assets'[i].host \in Live(hosts) \union {Nil}
                                 /\ assets'[i].project \in projects' \union {Nil}
    BY <1>3 DEF Live
  <2>3. QED
    BY <1>2, <2>1, <2>2, TypeParts DEF HostInv, TablesOK, Consistent
<1>6. TablesOK'
  BY <1>1, <1>2, <1>4, <1>5, TypeParts DEF HostInv, TablesOK
<1>7. QED
  BY <1>6, OthersKeep DEF DropProject, Other

LEMMA RenameVendorKeeps ==
  ASSUME HostInv, RenameVendor
  PROVE  HostInv'
<1>1. PICK v \in Live(vendors), name \in Vendors :
        VendorIds(name) = {} /\ vendors' = [vendors EXCEPT ![v] = name]
  BY DEF RenameVendor
<1>2. UNCHANGED <<hosts, assets, projects, audit>>
  BY DEF RenameVendor
<1>3. TablesOK
  BY TypeParts DEF HostInv
<1>4. /\ vendors' \in [Ids -> Vendors \union {Nil}] /\ vendors'[v] = name
      /\ \A k \in Ids \ {v} : vendors'[k] = vendors[k] /\ v \in Ids
  BY <1>1, <1>3 DEF TablesOK, Live
<1>5. Live(vendors') = Live(vendors)
  BY <1>1, <1>4, NilIsNoRow DEF Live
<1>6. \A k \in Live(vendors) : vendors[k] # name
  BY <1>1, NilIsNoRow DEF VendorIds
<1>7. \A i, k \in Live(vendors') : vendors'[i] = vendors'[k] => i = k
  BY <1>3, <1>4, <1>5, <1>6 DEF TablesOK, Consistent, Live
<1>8. Consistent(hosts, assets, projects, vendors)'
  BY <1>2, <1>3, <1>5, <1>7 DEF TablesOK, Consistent
<1>9. TablesOK'
  BY <1>2, <1>3, <1>4, <1>8 DEF TablesOK
<1>10. QED
  BY <1>2, <1>9, OthersKeep DEF RenameVendor, Other

LEMMA DropVendorKeeps ==
  ASSUME HostInv, DropVendor
  PROVE  HostInv'
<1>1. PICK v \in Live(vendors) :
        /\ vendors' = [vendors EXCEPT ![v] = Nil]
        /\ hosts' = [i \in Ids |-> IF hosts[i] # Nil /\ hosts[i].vendor = v
                                   THEN [hosts[i] EXCEPT !.vendor = Nil] ELSE hosts[i]]
  BY DEF DropVendor
<1>2. UNCHANGED <<assets, projects, audit>>
  BY DEF DropVendor
<1>3. TablesOK
  BY TypeParts DEF HostInv
<1>4. /\ vendors' \in [Ids -> Vendors \union {Nil}] /\ vendors'[v] = Nil
      /\ \A k \in Ids \ {v} : vendors'[k] = vendors[k]
  BY <1>1, <1>3 DEF TablesOK, Live
<1>5. Live(vendors') = Live(vendors) \ {v}
  BY <1>4 DEF Live
<1>6. ASSUME NEW i \in Ids
      PROVE  /\ hosts'[i] \in Host \union {Nil}
             /\ hosts'[i] = Nil <=> hosts[i] = Nil
             /\ hosts'[i] # Nil => /\ hosts'[i].name = hosts[i].name
                                   /\ hosts'[i].vendor \in Live(vendors') \union {Nil}
  <2>1. hosts'[i] = IF hosts[i] # Nil /\ hosts[i].vendor = v
                    THEN [hosts[i] EXCEPT !.vendor = Nil] ELSE hosts[i]
    BY <1>1
  <2>2. CASE hosts[i] = Nil
    BY <2>1, <2>2
  <2>3. CASE hosts[i] # Nil
    <3>1. hosts[i] \in Host /\ hosts[i].vendor \in Live(vendors) \union {Nil}
      BY <1>3, <2>3 DEF TablesOK, Consistent, Live
    <3>2. CASE hosts[i].vendor = v
      <4>1. hosts'[i] = [hosts[i] EXCEPT !.vendor = Nil]
        BY <2>1, <2>3, <3>2
      <4>2. hosts'[i] \in Host /\ hosts'[i].name = hosts[i].name /\ hosts'[i].vendor = Nil
        BY <3>1, <4>1 DEF Host
      <4>3. QED
        BY <2>3, <4>2, NilIsNoRow
    <3>3. CASE hosts[i].vendor # v
      BY <1>5, <2>1, <2>3, <3>1, <3>3
    <3>4. QED
      BY <3>2, <3>3
  <2>4. QED
    BY <2>2, <2>3
<1>7. hosts' \in [Ids -> Host \union {Nil}]
  <2>1. hosts' = [i \in Ids |-> hosts'[i]]
    BY <1>1
  <2>2. QED
    BY <1>6, <2>1
<1>8. Live(hosts') = Live(hosts)
  BY <1>6 DEF Live
<1>9. Consistent(hosts, assets, projects, vendors)'
  <2>1. \A i, k \in Live(hosts') : hosts'[i].name = hosts'[k].name => i = k
    BY <1>3, <1>6, <1>8 DEF TablesOK, Consistent, Live
  <2>2. \A i \in Live(hosts') : hosts'[i].vendor \in Live(vendors') \union {Nil}
    BY <1>6 DEF Live
  <2>3. \A i, k \in Live(vendors') : vendors'[i] = vendors'[k] => i = k
    BY <1>3, <1>4, <1>5 DEF TablesOK, Consistent, Live
  <2>4. QED
    BY <1>2, <1>3, <1>8, <2>1, <2>2, <2>3 DEF TablesOK, Consistent
<1>10. TablesOK'
  BY <1>2, <1>3, <1>4, <1>7, <1>9 DEF TablesOK
<1>11. QED
  BY <1>2, <1>10, OthersKeep DEF DropVendor, Other

-----------------------------------------------------------------------------
LEMMA HostInit ==
  ASSUME Init
  PROVE  HostInv
<1>1. PICK s \in Asked.seeds : /\ hosts = s.hosts /\ assets = s.assets
                               /\ projects = s.projects /\ vendors = s.vendors
  BY DEF Init
<1>2. demand \in DOMAIN Demands /\ DemandOK(Asked)
  BY HostAssumption DEF Init, Asked
<1>3. s \in Tables /\ Consistent(hosts, assets, projects, vendors)
  BY <1>1, <1>2 DEF DemandOK
<1>4. /\ hosts \in [Ids -> Host \union {Nil}] /\ assets \in [Ids -> Asset \union {Nil}]
      /\ projects \subseteq Ids /\ vendors \in [Ids -> Vendors \union {Nil}]
  BY <1>1, <1>3 DEF Tables
<1>5. audit \in [Ips -> Nat] /\ loop = Nil /\ req = [r \in Requests |-> Blank]
      /\ commits = 0
  BY DEF Init
<1>6. HostTypeOK
  BY <1>2, <1>3, <1>4, <1>5, TypeParts DEF TablesOK
<1>7. ASSUME NEW r \in Requests
      PROVE  Fits(r, req[r], projects, loop)
  BY <1>5, BlankTyped DEF Fits, Holding
<1>8. req \in [Requests -> Request]
  BY <1>5, BlankTyped
<1>9. QED
  BY <1>5, <1>6, <1>7, <1>8 DEF HostInv, ReqInv

LEMMA HostStep ==
  ASSUME HostInv, [Next]_vars
  PROVE  HostInv'
<1>1. ASSUME NEW r \in Requests, Arrive(r) \/ Step(r)
      PROVE  HostInv'
  <2>1. CASE Arrive(r) \/ Begin(r) \/ FindVendor(r) \/ Collect(r) \/ Collected(r)
    BY <2>1, ArriveKeeps, BeginKeeps, FindVendorKeeps, CollectKeeps, CollectedKeeps
  <2>2. CASE CreateHost(r) \/ UpdateHost(r) \/ ReadLinks(r) \/ Unlink(r)
    BY <2>2, CreateHostKeeps, UpdateHostKeeps, ReadLinksKeeps, UnlinkKeeps
  <2>3. CASE ReadMoves(r) \/ Move(r) \/ CreateAsset(r) \/ UpdateAsset(r)
    BY <2>3, ReadMovesKeeps, MoveKeeps, CreateAssetKeeps, UpdateAssetKeeps
  <2>4. CASE Answer(r) \/ DeleteOpen(r) \/ DeleteSubmit(r)
    BY <2>4, AnswerKeeps, DeleteOpenKeeps, DeleteSubmitKeeps
  <2>5. QED
    BY <1>1, <2>1, <2>2, <2>3, <2>4 DEF Step
<1>2. CASE Others
  BY <1>2, EditAssetKeeps, DropAssetKeeps, AddAssetKeeps, ArchiveAssetKeeps,
     DropProjectKeeps, RenameVendorKeeps, DropVendorKeeps DEF Others
<1>3. CASE UNCHANGED vars
  BY <1>3 DEF vars, tables, HostInv, HostTypeOK, ReqInv, Consistent, Live
<1>4. QED
  BY <1>1, <1>2, <1>3 DEF Next

THEOREM HostInductive == Spec => []HostInv
<1>1. QED
  BY HostInit, HostStep, PTL DEF Spec

(* The tables keep the UNIQUE and REFERENCES clauses of the schema,        *)
(* whatever the forms, which write by ids and names they have read before, *)
(* the API and the requests of others do to hosts, addresses, projects and *)
(* vendors in between (repository/hosts.py, routes/ui/hosts/).             *)
THEOREM HostTypeCorrect == Spec => []HostTypeOK
<1>1. HostInv => HostTypeOK
  BY DEF HostInv
<1>2. QED
  BY <1>1, HostInductive, PTL

-----------------------------------------------------------------------------
(* What a step of one request leaves alone.                                *)

LEMMA OnlyOwn ==
  ASSUME HostInv, NEW r \in Requests, Arrive(r) \/ Step(r), NEW s \in Requests, s # r
  PROVE  req'[s] = req[s]
<1>1. ASSUME NEW q, req' = [req EXCEPT ![r] = q]
      PROVE  req'[s] = req[s]
  BY <1>1 DEF HostInv, ReqInv
<1>2. ASSUME NEW q, NEW phase, Goto(r, q, phase)
      PROVE  req'[s] = req[s]
  BY <1>1, <1>2 DEF Goto
<1>3. ASSUME NEW q, NEW end, Stop(r, q, end)
      PROVE  req'[s] = req[s]
  BY <1>1, <1>3 DEF Stop
<1>4. CASE Arrive(r)
  BY <1>2, <1>4 DEF Arrive
<1>5. CASE Begin(r)
  BY <1>1, <1>3, <1>5 DEF Begin
<1>6. CASE FindVendor(r) \/ Collected(r) \/ ReadMoves(r) \/ DeleteOpen(r)
  BY <1>2, <1>3, <1>6 DEF FindVendor, Collected, ReadMoves, DeleteOpen
<1>7. CASE Collect(r) \/ ReadLinks(r) \/ Unlink(r) \/ Move(r)
  BY <1>2, <1>7 DEF Collect, ReadLinks, Unlink, Move
<1>8. CASE CreateHost(r)
  BY <1>2, <1>3, <1>8 DEF CreateHost, Conflict
<1>9. CASE UpdateHost(r)
  BY <1>2, <1>3, <1>9 DEF UpdateHost, Conflict
<1>10. CASE CreateAsset(r)
  BY <1>2, <1>3, <1>10 DEF CreateAsset, Conflict
<1>11. CASE UpdateAsset(r)
  BY <1>2, <1>3, <1>11 DEF UpdateAsset
<1>12. CASE Answer(r) \/ DeleteSubmit(r)
  BY <1>3, <1>12 DEF Answer, DeleteSubmit
<1>13. QED
  BY <1>4, <1>5, <1>6, <1>7, <1>8, <1>9, <1>10, <1>11, <1>12 DEF Step

(* The links that a request may take.                                      *)
MayTake(r) ==
  \A i \in Live(assets) :
    assets'[i] # Nil /\ assets'[i].host # assets[i].host =>
      \/ assets[i].host = req[r].host
      \/ assets[i].ip \in Listed(req[r].form)

LEMMA ReadsTakeNothing ==
  ASSUME NEW r, UNCHANGED assets
  PROVE  MayTake(r)
  BY DEF MayTake

LEMMA UnlinkTakesOwn ==
  ASSUME HostInv, NEW r \in Requests, Unlink(r)
  PROVE  MayTake(r)
<1>1. req[r].form.id = req[r].host
  BY DEF HostInv, ReqInv, Unlink, At, Fits
<1>2. ASSUME NEW i \in Live(assets), assets'[i].host # assets[i].host
      PROVE  Cut(req[r], assets[i])
  BY <1>2 DEF Unlink, Live
<1>3. QED
  BY <1>1, <1>2 DEF MayTake, Cut

LEMMA MoveTakesNothing ==
  ASSUME HostInv, NEW r \in Requests, Move(r)
  PROVE  MayTake(r)
<1>1. ASSUME NEW i \in Live(assets)
      PROVE  assets'[i].host = assets[i].host
  <2>1. assets[i] \in Asset /\ i \in Ids
    BY RowTyped
  <2>2. assets'[i] \in {[assets[i] EXCEPT !.project = req[r].form.project], assets[i]}
    BY <2>1 DEF Move
  <2>3. QED
    BY <2>1, <2>2 DEF Asset
<1>2. QED
  BY <1>1 DEF MayTake

(* The addresses of the lists are the only ones that are created, or given *)
(* to the host.                                                            *)
LEMMA AssetTakesListed ==
  ASSUME HostInv, NEW r \in Requests, CreateAsset(r) \/ UpdateAsset(r)
  PROVE  MayTake(r)
<1> DEFINE q == req[r]
<1>1. q.create \union q.update \subseteq Entries(q.form) /\ q.form \in Form
  BY DEF HostInv, ReqInv, CreateAsset, UpdateAsset, At, Fits
<1>2. ASSUME NEW e \in q.create \union q.update, NEW i \in Ids, NEW row,
             RowsOf(e.ip) = {} => i \notin Live(assets),
             RowsOf(e.ip) # {} => i \in RowsOf(e.ip),
             assets' = [assets EXCEPT ![i] = row]
      PROVE  MayTake(r)
  <2>1. e.ip \in Listed(q.form)
    BY <1>1, <1>2, EntriesTyped
  <2>2. i \in Live(assets) => assets[i].ip = e.ip
    BY <1>2 DEF RowsOf
  <2>3. \A k \in Ids \ {i} : assets'[k] = assets[k]
    BY <1>2, TypeParts DEF HostInv, TablesOK
  <2>4. QED
    BY <2>1, <2>2, <2>3 DEF MayTake, Live
<1>3. CASE CreateAsset(r)
  <2>1. CASE UNCHANGED assets
    BY <2>1, ReadsTakeNothing
  <2>2. ASSUME NEW e \in q.create, NEW i \in Ids, NEW row,
               IF RowsOf(e.ip) = {} THEN NextId(assets, i) ELSE i \in RowsOf(e.ip),
               assets' = [assets EXCEPT ![i] = row]
        PROVE  MayTake(r)
    BY <1>2, <2>2, IsFresh
  <2>3. QED
    BY <1>3, <2>1, <2>2 DEF CreateAsset, InTurn, Conflict, Reads, tables
<1>4. CASE UpdateAsset(r)
  <2>1. CASE UNCHANGED assets
    BY <2>1, ReadsTakeNothing
  <2>2. ASSUME NEW e \in q.update, NEW i \in RowsOf(e.ip), NEW row,
               assets' = [assets EXCEPT ![i] = row]
        PROVE  MayTake(r)
    BY <1>2, <2>2 DEF RowsOf, Live
  <2>3. QED
    BY <1>4, <2>1, <2>2 DEF UpdateAsset, InTurn, Reads, tables
<1>5. QED
  BY <1>3, <1>4

LEMMA DeleteTakesOwn ==
  ASSUME HostInv, NEW r \in Requests, DeleteSubmit(r)
  PROVE  MayTake(r)
<1>1. CASE UNCHANGED assets
  BY <1>1, ReadsTakeNothing
<1>2. CASE assets' = [i \in Ids |-> IF assets[i] # Nil /\ assets[i].host = req[r].host
                                    THEN [assets[i] EXCEPT !.host = Nil] ELSE assets[i]]
  BY <1>2 DEF MayTake, Live
<1>3. QED
  BY <1>1, <1>2 DEF DeleteSubmit, Reads, tables

LEMMA StepTakes ==
  ASSUME HostInv, NEW r \in Requests, Arrive(r) \/ Step(r)
  PROVE  MayTake(r)
<1>1. CASE Arrive(r) \/ Begin(r) \/ FindVendor(r) \/ Collect(r) \/ Collected(r)
             \/ ReadLinks(r) \/ ReadMoves(r) \/ Answer(r) \/ DeleteOpen(r)
  BY <1>1, ReadsTakeNothing DEF Arrive, Begin, FindVendor, Collect, Collected, ReadLinks,
     ReadMoves, Answer, DeleteOpen, Reads, tables
<1>2. CASE CreateHost(r) \/ UpdateHost(r)
  BY <1>2, ReadsTakeNothing DEF CreateHost, UpdateHost, Conflict, Reads, tables,
     WritesHosts
<1>3. CASE Unlink(r) \/ Move(r) \/ CreateAsset(r) \/ UpdateAsset(r) \/ DeleteSubmit(r)
  BY <1>3, UnlinkTakesOwn, MoveTakesNothing, AssetTakesListed, DeleteTakesOwn
<1>4. QED
  BY <1>1, <1>2, <1>3 DEF Step

LEMMA OthersTouchNoRequest ==
  ASSUME Others
  PROVE  UNCHANGED <<req, loop>> /\ Commits
  BY DEF Others, EditAsset, DropAsset, AddAsset, ArchiveAsset, DropProject, RenameVendor,
     DropVendor, Other, WritesAssets

(* A form takes an address from another host only if its lists name it,    *)
(* also one that was given to that host after the form had read it as its  *)
(* own (the WHERE clause of the unlinking in routes/ui/hosts/mutations.py).  *)
THEOREM OnlyNamedTaken == Spec => TakesOnlyNamed
<1>1. HostInv /\ [Next]_vars =>
        [\A r \in Requests : req'[r] # req[r] => MayTake(r)]_vars
  <2> SUFFICES ASSUME HostInv, Next, NEW r \in Requests, req'[r] # req[r]
               PROVE  MayTake(r)
    OBVIOUS
  <2>1. ~Others
    BY OthersTouchNoRequest
  <2>2. PICK s \in Requests : Arrive(s) \/ Step(s)
    BY <2>1 DEF Next
  <2>3. s = r
    BY <2>2, OnlyOwn
  <2>4. QED
    BY <2>2, <2>3, StepTakes
<1>2. QED
  BY <1>1, HostInductive, PTL DEF Spec, TakesOnlyNamed, MayTake

-----------------------------------------------------------------------------
(* Answers: a request counts its own commits, and what it tells stays true *)
(* over its own steps.                                                     *)

LEMMA GotoFields ==
  ASSUME ReqInv, NEW r \in Requests, NEW q \in Request, NEW phase \in Phases,
         Goto(r, q, phase)
  PROVE  /\ req'[r].phase = phase /\ req'[r].kind = q.kind /\ req'[r].form = q.form
         /\ req'[r].host = q.host /\ req'[r].vendor = q.vendor /\ req'[r].valid = q.valid
         /\ req'[r].left = q.left /\ req'[r].create = q.create
         /\ req'[r].update = q.update /\ req'[r].links = q.links
         /\ req'[r].base = q.base /\ req'[r].wrote = q.wrote /\ req'[r].end = q.end
<1> DEFINE n == [q EXCEPT !.phase = phase]
<1>1. /\ n.phase = phase /\ n.kind = q.kind /\ n.form = q.form /\ n.host = q.host
      /\ n.vendor = q.vendor /\ n.valid = q.valid /\ n.left = q.left
      /\ n.create = q.create /\ n.update = q.update /\ n.links = q.links
      /\ n.base = q.base /\ n.wrote = q.wrote /\ n.end = q.end
  BY PhaseSet
<1>2. req'[r] = n
  BY GotoSets
<1>3. QED
  BY <1>1, <1>2

Told(r) ==
  /\ req'[r].base = req[r].base /\ req'[r].phase # "new"
  /\ \/ commits' = commits /\ req'[r].wrote = req[r].wrote
     \/ commits' = commits + 1 /\ req'[r].wrote = req[r].wrote + 1
  /\ Tells(r) => Tells(r)'

(* A request that stops with a failure and had written nothing.            *)
LEMMA FailTold ==
  ASSUME HostInv, NEW r \in Requests, NEW end \in {"refused", "conflict", "missing", "error"},
         Stop(r, req[r], end), Reads, Tells(r) => req[r].wrote = 0
  PROVE  Told(r)
<1>1. /\ req'[r].phase = "ended" /\ req'[r].end = end /\ req'[r].create = {}
      /\ req'[r].update = {} /\ req'[r].base = req[r].base /\ req'[r].wrote = req[r].wrote
  <2>1. req[r] \in Request /\ end \in Ends /\ ReqInv
    BY DEF HostInv, ReqInv, Ends
  <2>2. QED
    BY <2>1, StopSets
<1>2. commits' = commits
  BY DEF Reads
<1>3. req'[r].wrote = 0 => Tells(r)'
  BY <1>1 DEF Tells, Early, Late, Verdict
<1>4. QED
  BY <1>1, <1>2, <1>3 DEF Told

LEMMA TablesSame ==
  ASSUME Reads
  PROVE  UNCHANGED <<hosts, assets, vendors, commits>>
  BY DEF Reads, tables

LEMMA HostRightSame ==
  ASSUME NEW r, HostRight(r), UNCHANGED hosts, req'[r].form = req[r].form,
         req'[r].host = req[r].host
  PROVE  HostRight(r)'
  BY DEF HostRight, Live

LEMMA ListsRightSame ==
  ASSUME NEW r, ListsRight(r), UNCHANGED assets, req'[r].form = req[r].form,
         req'[r].host = req[r].host
  PROVE  ListsRight(r)'
  BY DEF ListsRight, OfType, ActiveOn, Live

LEMMA VendorReadSame ==
  ASSUME NEW r, VendorRead(r), UNCHANGED vendors, req'[r].form = req[r].form,
         req'[r].vendor = req[r].vendor
  PROVE  VendorRead(r)'
  BY DEF VendorRead, Live

LEMMA EntryRightSame ==
  ASSUME NEW r, NEW e, EntryRight(r, e), UNCHANGED assets, req'[r].form = req[r].form,
         req'[r].kind = req[r].kind, req'[r].host = req[r].host
  PROVE  EntryRight(r, e)'
  BY DEF EntryRight, RowsOf, ProjectOf, Given, Live

(* The addresses looked at are the same, or one more; the host may have    *)
(* become known to the add form.                                           *)
LEMMA EntriesRightSame ==
  ASSUME NEW r, EntriesRight(r), UNCHANGED assets, req'[r].form = req[r].form,
         req'[r].kind = req[r].kind, req'[r].left = req[r].left,
         req'[r].create = req[r].create, req'[r].update = req[r].update,
         req'[r].host = req[r].host \/ (req[r].kind = "add" /\ req[r].phase \in Early),
         req'[r].phase \in Early => req[r].phase \in Early
  PROVE  EntriesRight(r)'
<1>1. ASSUME NEW e \in Entries(req[r].form) \ req[r].left
      PROVE  /\ e.ip # Bad
             /\ e \in req[r].create => RowsOf(e.ip)' = {}
             /\ e \in req[r].update => RowsOf(e.ip)' # {}
             /\ e \notin req[r].create \union req[r].update => EntryRight(r, e)'
             /\ req[r].kind = "add" /\ req'[r].phase \in Early
                  => e \in req[r].create \union req[r].update
  <2>1. RowsOf(e.ip)' = RowsOf(e.ip)
    BY DEF RowsOf, Live
  <2>2. e \notin req[r].create \union req[r].update => EntryRight(r, e)'
    BY EntryRightSame DEF EntriesRight
  <2>3. QED
    BY <2>1, <2>2 DEF EntriesRight
<1>2. QED
  BY <1>1 DEF EntriesRight

-----------------------------------------------------------------------------
(* What is told after the steps that read.                                 *)

LEMMA ArriveTells ==
  ASSUME HostInv, NEW r \in Requests, Arrive(r)
  PROVE  /\ req'[r].base = commits /\ req'[r].wrote = 0 /\ commits' = commits
         /\ Tells(r)'
<1>1. PICK f \in Form :
        Goto(r, [Blank EXCEPT !.kind = f.kind, !.form = f, !.host = f.id, !.base = commits],
             CASE f.kind \in {"add", "edit"} -> "posted"
               [] f.kind = "delete" -> "open"
               [] OTHER -> "vendor")
  BY AskedType DEF HostInv, Arrive
<1> DEFINE q == [Blank EXCEPT !.kind = f.kind, !.form = f, !.host = f.id, !.base = commits]
           phase == CASE f.kind \in {"add", "edit"} -> "posted"
                      [] f.kind = "delete" -> "open"
                      [] OTHER -> "vendor"
<1>2. /\ q \in Request /\ q.kind = f.kind /\ q.left = {} /\ q.create = {}
      /\ q.update = {} /\ q.base = commits /\ q.wrote = 0
  BY BlankTyped, FormFields DEF HostInv, ReqInv, Request
<1>3. /\ phase \in {"posted", "open", "vendor"}
      /\ phase = "vendor" => f.kind \in {"apiAdd", "apiEdit"}
  BY FormFields DEF Kinds
<1>4. Goto(r, q, phase) /\ phase \in Phases
  BY <1>1, <1>3 DEF Phases
<1> HIDE DEF q, phase
<1>5. /\ req'[r].phase = phase /\ req'[r].kind = f.kind /\ req'[r].left = {}
      /\ req'[r].create = {} /\ req'[r].update = {} /\ req'[r].base = commits
      /\ req'[r].wrote = 0
  BY <1>2, <1>4, GotoFields DEF HostInv
<1>6. Tells(r)'
  BY <1>3, <1>5 DEF Tells, Early, Late
<1>7. QED
  BY <1>5, <1>6 DEF Arrive, Reads

LEMMA BeginTold ==
  ASSUME HostInv, NEW r \in Requests, Begin(r)
  PROVE  Told(r)
<1> DEFINE q == req[r]
           f == q.form
           valid == /\ f.name # Nil /\ Typed(f.os) \cap Typed(f.bmc) = {}
                    /\ f.kind = "add" => ProjectKnown(f.project)
           opened == [q EXCEPT !.left = Entries(f), !.valid = valid]
           phase == IF f.kind = "add" THEN "collect" ELSE "vendor"
<1>1. /\ q \in Request /\ q.phase = "posted" /\ f \in Form /\ Reads /\ q.kind = f.kind
  BY DEF HostInv, ReqInv, Begin, At, Fits
<1>2. CASE f.kind = "edit" /\ f.name = Nil
  <2>1. Stop(r, q, "refused")
    BY <1>2 DEF Begin
  <2>2. QED
    BY <1>1, <2>1, FailTold DEF Tells, Early
<1>3. CASE ~(f.kind = "edit" /\ f.name = Nil)
  <2>1. req' = [req EXCEPT ![r] = [opened EXCEPT !.phase = phase]]
    BY <1>3 DEF Begin
  <2>2. /\ opened \in Request /\ opened.left = Entries(f) /\ opened.kind = q.kind
        /\ opened.form = f /\ opened.create = q.create /\ opened.update = q.update
        /\ opened.wrote = q.wrote /\ opened.base = q.base
    <3>1. Entries(f) \in SUBSET [ip : Ips \union {Bad}, type : {"OS", "BMC"}]
      BY <1>1, EntriesTyped
    <3>2. valid \in BOOLEAN
      OBVIOUS
    <3> HIDE DEF valid
    <3>3. QED
      BY <1>1, <3>1, <3>2 DEF Request
  <2>3. phase \in Phases /\ phase = IF q.kind = "add" THEN "collect" ELSE "vendor"
    BY <1>1 DEF Phases
  <2> HIDE DEF opened, phase, valid
  <2>4. /\ req'[r].phase = phase /\ req'[r].left = Entries(f) /\ req'[r].kind = q.kind
        /\ req'[r].form = f /\ req'[r].create = q.create /\ req'[r].update = q.update
        /\ req'[r].wrote = q.wrote /\ req'[r].base = q.base
    <3>1. req'[r] = [opened EXCEPT !.phase = phase]
      BY <2>1 DEF HostInv, ReqInv
    <3>2. QED
      BY <2>2, <2>3, <3>1, PhaseSet
  <2>5. EntriesRight(r)'
    BY <2>4 DEF EntriesRight
  <2>6. Tells(r) => Tells(r)'
    BY <1>1, <2>3, <2>4, <2>5 DEF Tells, Early, Late
  <2>7. QED
    BY <1>1, <2>3, <2>4, <2>6, TablesSame DEF Told
<1>4. QED
  BY <1>2, <1>3

LEMMA FindVendorTold ==
  ASSUME HostInv, NEW r \in Requests, FindVendor(r)
  PROVE  Told(r)
<1> DEFINE q == req[r]
           found == IF q.form.vendor = Nil THEN Nil ELSE vendors[q.form.vendor]
           named == [q EXCEPT !.vendor = found]
           phase == IF q.kind = "edit" THEN "collect" ELSE "host"
<1>1. /\ q \in Request /\ q.phase = "vendor" /\ q.form \in Form /\ Reads
  BY DEF HostInv, ReqInv, FindVendor, At, Fits
<1>2. CASE q.form.vendor # Nil /\ found = Nil
  <2>1. PICK end \in {"conflict", "refused"} : Stop(r, q, end)
    BY <1>2 DEF FindVendor
  <2>2. QED
    BY <1>1, <2>1, FailTold DEF Tells, Early
<1>3. CASE ~(q.form.vendor # Nil /\ found = Nil)
  <2>1. Goto(r, named, phase) /\ phase \in Phases
    BY <1>3 DEF FindVendor, Phases
  <2>2. found \in Vendors \union {Nil}
    BY <1>1, FormFields, TypeParts DEF HostInv, TablesOK
  <2>3. /\ named \in Request /\ named.kind = q.kind /\ named.form = q.form
        /\ named.host = q.host /\ named.vendor = found /\ named.left = q.left
        /\ named.create = q.create /\ named.update = q.update /\ named.valid = q.valid
        /\ named.base = q.base /\ named.wrote = q.wrote
    BY <1>1, <2>2 DEF Request
  <2>4. UNCHANGED <<hosts, assets, vendors, commits>>
    BY <1>1, TablesSame
  <2> HIDE DEF named
  <2>5. /\ req'[r].phase = phase /\ req'[r].kind = q.kind /\ req'[r].form = q.form
        /\ req'[r].host = q.host /\ req'[r].vendor = found /\ req'[r].left = q.left
        /\ req'[r].create = q.create /\ req'[r].update = q.update
        /\ req'[r].valid = q.valid /\ req'[r].base = q.base /\ req'[r].wrote = q.wrote
    BY <2>1, <2>3, GotoFields DEF HostInv
  <2>6. VendorRead(r)'
    BY <1>1, <1>3, <2>4, <2>5, FormFields DEF VendorRead, Live
  <2>7. EntriesRight(r) => EntriesRight(r)'
    BY <1>1, <2>4, <2>5, EntriesRightSame DEF Early
  <2>8. Tells(r) => Tells(r)'
    BY <1>1, <2>5, <2>6, <2>7 DEF Tells, Early, Late
  <2>9. QED
    BY <1>1, <2>4, <2>5, <2>8 DEF Told
<1>4. QED
  BY <1>2, <1>3

LEMMA CollectedTold ==
  ASSUME HostInv, NEW r \in Requests, Collected(r)
  PROVE  Told(r)
<1> DEFINE q == req[r]
           phase == IF q.kind = "add" THEN "vendor" ELSE "host"
<1>1. /\ q \in Request /\ q.phase = "collect" /\ Reads /\ q.kind \in {"add", "edit"}
      /\ UNCHANGED <<hosts, assets, vendors, commits>>
  BY TablesSame DEF HostInv, ReqInv, Collected, At, Fits
<1>2. CASE ~q.valid
  <2>1. Stop(r, q, "refused")
    BY <1>2 DEF Collected
  <2>2. QED
    BY <1>1, <2>1, FailTold DEF Tells, Early
<1>3. CASE q.valid
  <2>1. Goto(r, q, phase) /\ phase \in Phases
    BY <1>3 DEF Collected, Phases
  <2>2. /\ req'[r].phase = phase /\ req'[r].kind = q.kind /\ req'[r].form = q.form
        /\ req'[r].host = q.host /\ req'[r].vendor = q.vendor /\ req'[r].left = q.left
        /\ req'[r].create = q.create /\ req'[r].update = q.update
        /\ req'[r].valid = q.valid /\ req'[r].base = q.base /\ req'[r].wrote = q.wrote
    BY <1>1, <2>1, GotoFields DEF HostInv
  <2>3. EntriesRight(r) => EntriesRight(r)'
    BY <1>1, <2>2, EntriesRightSame DEF Early
  <2>4. VendorRead(r) => VendorRead(r)'
    BY <1>1, <2>2, VendorReadSame
  <2>5. Tells(r) => Tells(r)'
    BY <1>1, <1>3, <2>2, <2>3, <2>4 DEF Tells, Early, Late
  <2>6. QED
    BY <1>1, <2>2, <2>5 DEF Told
<1>4. QED
  BY <1>2, <1>3

(* One address is looked at: to be created, to be updated, or right.       *)
LEMMA EntryCollected ==
  ASSUME HostInv, NEW r \in Requests, NEW e \in req[r].left, Tells(r),
         req[r].phase = "collect", req[r].valid, UNCHANGED assets,
         req'[r].phase = "collect", req'[r].form = req[r].form,
         req'[r].kind = req[r].kind, req'[r].host = req[r].host,
         req'[r].left = req[r].left \ {e},
         \/ /\ e.ip # Bad /\ RowsOf(e.ip) = {}
            /\ req'[r].create = req[r].create \union {e}
            /\ req'[r].update = req[r].update
         \/ /\ e.ip # Bad /\ RowsOf(e.ip) # {}
            /\ req'[r].create = req[r].create
            /\ req'[r].update = req[r].update \union {e}
         \/ /\ e.ip # Bad /\ req[r].kind = "edit" /\ EntryRight(r, e)
            /\ req'[r].create = req[r].create /\ req'[r].update = req[r].update
  PROVE  EntriesRight(r)' /\ req'[r].left \cap (req'[r].create \union req'[r].update) = {}
<1> DEFINE q == req[r]
           n == req'[r]
<1>1. EntriesRight(r) /\ q.left \cap (q.create \union q.update) = {}
  BY DEF Tells, HostInv, ReqInv, Fits
<1>2. ASSUME NEW d \in Entries(q.form) \ n.left
      PROVE  /\ d.ip # Bad
             /\ d \in n.create => RowsOf(d.ip)' = {}
             /\ d \in n.update => RowsOf(d.ip)' # {}
             /\ d \notin n.create \union n.update => EntryRight(r, d)'
             /\ q.kind = "add" => d \in n.create \union n.update
  <2>1. RowsOf(d.ip)' = RowsOf(d.ip)
    BY DEF RowsOf, Live
  <2>2. EntryRight(r, d) => EntryRight(r, d)'
    BY EntryRightSame
  <2>3. CASE d = e
    BY <1>1, <2>1, <2>2, <2>3
  <2>4. CASE d # e
    <3>1. d \in Entries(q.form) \ q.left
      BY <1>2, <2>4
    <3>2. /\ d \in n.create <=> d \in q.create
          /\ d \in n.update <=> d \in q.update
      BY <2>4
    <3>3. QED
      BY <1>1, <2>1, <2>2, <3>1, <3>2 DEF EntriesRight, Early
  <2>5. QED
    BY <2>3, <2>4
<1>3. EntriesRight(r)'
  BY <1>2 DEF EntriesRight
<1>4. QED
  BY <1>1, <1>3

LEMMA CollectTold ==
  ASSUME HostInv, NEW r \in Requests, Collect(r)
  PROVE  Told(r)
<1> DEFINE q == req[r]
           rest(e) == [q EXCEPT !.left = @ \ {e}]
<1>1. /\ q \in Request /\ q.phase = "collect" /\ q.kind \in {"add", "edit"}
      /\ UNCHANGED <<hosts, assets, vendors, commits>> /\ q.form \in Form
      /\ q.left \subseteq Entries(q.form)
  BY TablesSame DEF HostInv, ReqInv, Collect, At, Fits
<1>2. PICK e \in q.left :
        \/ e.ip = Bad /\ Goto(r, [rest(e) EXCEPT !.valid = FALSE], "collect")
        \/ e.ip # Bad /\ RowsOf(e.ip) = {}
             /\ Goto(r, [rest(e) EXCEPT !.create = @ \union {e}], "collect")
        \/ \E i \in RowsOf(e.ip) :
             Goto(r, IF AsWanted(q, e, assets[i]) THEN rest(e)
                     ELSE [rest(e) EXCEPT !.update = @ \union {e}], "collect")
  BY DEF Collect, InTurn
<1>3. e \in Entries(q.form) /\ (e.ip # Bad => e \in Entry)
  BY <1>1, <1>2, EntriesTyped
<1>4. RowsOf(e.ip) # {} => e.ip # Bad
  <2>1. Bad \notin Ips /\ \A i \in Live(assets) : assets[i].ip \in Ips
    BY HostAssumption, TypeParts DEF HostInv, TablesOK, Asset, Live
  <2>2. QED
    BY <2>1 DEF RowsOf
<1>5. /\ rest(e) \in Request /\ rest(e).left = q.left \ {e} /\ rest(e).kind = q.kind
      /\ rest(e).form = q.form /\ rest(e).host = q.host /\ rest(e).vendor = q.vendor
      /\ rest(e).create = q.create /\ rest(e).update = q.update
      /\ rest(e).valid = q.valid /\ rest(e).base = q.base /\ rest(e).wrote = q.wrote
  BY <1>1 DEF Request
<1> HIDE DEF rest
<1>6. ASSUME NEW n \in Request, Goto(r, n, "collect"), n.left = q.left \ {e},
             n.kind = q.kind, n.form = q.form, n.host = q.host, n.vendor = q.vendor,
             n.base = q.base, n.wrote = q.wrote, n.valid \in {q.valid, FALSE},
             n.create \union n.update \subseteq q.create \union q.update \union {e},
             n.valid /\ Tells(r) =>
               \/ /\ e.ip # Bad /\ RowsOf(e.ip) = {}
                  /\ n.create = q.create \union {e} /\ n.update = q.update
               \/ /\ e.ip # Bad /\ RowsOf(e.ip) # {}
                  /\ n.create = q.create /\ n.update = q.update \union {e}
               \/ /\ e.ip # Bad /\ q.kind = "edit" /\ EntryRight(r, e)
                  /\ n.create = q.create /\ n.update = q.update
      PROVE  Told(r)
  <2>1. /\ req'[r].phase = "collect" /\ req'[r].kind = q.kind /\ req'[r].form = q.form
        /\ req'[r].host = q.host /\ req'[r].vendor = q.vendor
        /\ req'[r].left = q.left \ {e} /\ req'[r].create = n.create
        /\ req'[r].update = n.update /\ req'[r].valid = n.valid
        /\ req'[r].base = q.base /\ req'[r].wrote = q.wrote
    BY <1>6, GotoFields DEF HostInv, Phases
  <2>2. VendorRead(r) => VendorRead(r)'
    BY <1>1, <2>1, VendorReadSame
  <2>3. ASSUME Tells(r)
        PROVE  Tells(r)'
    <3>1. q.left \cap (q.create \union q.update) = {} /\ q.wrote = 0
      BY <1>1, <2>3 DEF Tells, Early
    <3>2. q.kind = "edit" => VendorRead(r)'
      BY <1>1, <2>2, <2>3 DEF Tells
    <3>3. CASE ~n.valid
      BY <1>1, <1>6, <2>1, <3>1, <3>2, <3>3 DEF Tells, Early, Late
    <3>4. CASE n.valid
      <4>1. q.valid
        BY <1>6, <3>4
      <4>2. EntriesRight(r)' /\ req'[r].left \cap (req'[r].create \union req'[r].update) = {}
        BY <1>1, <1>2, <1>6, <2>1, <2>3, <3>4, <4>1, EntryCollected
      <4>3. QED
        BY <1>1, <2>1, <3>1, <3>2, <4>2 DEF Tells, Early, Late
    <3>5. QED
      BY <1>1, <1>6, <3>3, <3>4 DEF Request
  <2>4. QED
    BY <1>1, <2>1, <2>3 DEF Told
<1>7. CASE e.ip = Bad /\ Goto(r, [rest(e) EXCEPT !.valid = FALSE], "collect")
  <2> DEFINE n == [rest(e) EXCEPT !.valid = FALSE]
  <2>1. /\ n \in Request /\ n.left = q.left \ {e} /\ n.kind = q.kind /\ n.form = q.form
        /\ n.host = q.host /\ n.vendor = q.vendor /\ n.create = q.create
        /\ n.update = q.update /\ n.valid = FALSE /\ n.base = q.base /\ n.wrote = q.wrote
    BY <1>5 DEF Request
  <2>2. Goto(r, n, "collect")
    BY <1>7
  <2> HIDE DEF n
  <2>3. QED
    BY <1>6, <2>1, <2>2
<1>8. CASE e.ip # Bad /\ RowsOf(e.ip) = {}
             /\ Goto(r, [rest(e) EXCEPT !.create = @ \union {e}], "collect")
  <2> DEFINE n == [rest(e) EXCEPT !.create = @ \union {e}]
  <2>1. /\ n \in Request /\ n.left = q.left \ {e} /\ n.kind = q.kind /\ n.form = q.form
        /\ n.host = q.host /\ n.vendor = q.vendor /\ n.create = q.create \union {e}
        /\ n.update = q.update /\ n.valid = q.valid /\ n.base = q.base
        /\ n.wrote = q.wrote
    BY <1>3, <1>5, <1>8 DEF Request
  <2>2. Goto(r, n, "collect")
    BY <1>8
  <2> HIDE DEF n
  <2>3. QED
    BY <1>6, <1>8, <2>1, <2>2
<1>9. ASSUME NEW i \in RowsOf(e.ip), AsWanted(q, e, assets[i]), Goto(r, rest(e), "collect")
      PROVE  Told(r)
  <2>1. q.kind = "edit" /\ assets[i].host = q.host /\ assets[i].type = e.type
    BY <1>9 DEF AsWanted
  <2>2. EntryRight(r, e)
    BY <1>9, <2>1 DEF EntryRight, ProjectOf, Given
  <2>3. e.ip # Bad
    BY <1>4, <1>9
  <2>4. QED
    BY <1>5, <1>6, <1>9, <2>1, <2>2, <2>3
<1>10. ASSUME NEW i \in RowsOf(e.ip),
              Goto(r, [rest(e) EXCEPT !.update = @ \union {e}], "collect")
       PROVE  Told(r)
  <2> DEFINE n == [rest(e) EXCEPT !.update = @ \union {e}]
  <2>1. /\ n \in Request /\ n.left = q.left \ {e} /\ n.kind = q.kind /\ n.form = q.form
        /\ n.host = q.host /\ n.vendor = q.vendor /\ n.create = q.create
        /\ n.update = q.update \union {e} /\ n.valid = q.valid /\ n.base = q.base
        /\ n.wrote = q.wrote
    BY <1>3, <1>4, <1>5, <1>10 DEF Request
  <2>2. Goto(r, n, "collect") /\ e.ip # Bad
    BY <1>4, <1>10
  <2> HIDE DEF n
  <2>3. QED
    BY <1>6, <1>10, <2>1, <2>2
<1>11. QED
  BY <1>2, <1>7, <1>8, <1>9, <1>10

(* A host that is not there has no addresses.                              *)
LEMMA NoneOn ==
  ASSUME HostInv, NEW h \in Ids, h \notin Live(hosts)
  PROVE  \A i \in Live(assets) : assets[i].host # h
  BY RowTyped, NilIsNoRow

LEMMA ReadLinksTold ==
  ASSUME HostInv, NEW r \in Requests, ReadLinks(r)
  PROVE  Told(r)
<1> DEFINE q == req[r]
           cut == {[ip |-> assets[i].ip, type |-> assets[i].type] : i \in Dropped(q.form)}
           n == [q EXCEPT !.links = cut]
           phase == IF Dropped(q.form) = {} THEN "project" ELSE "unlink"
<1>1. /\ q \in Request /\ q.phase = "linked" /\ q.form \in Form /\ q.kind = "edit"
      /\ UNCHANGED <<hosts, assets, vendors, commits>> /\ q.host = q.form.id
      /\ q.form.kind = "edit" /\ Goto(r, n, phase) /\ phase \in Phases
  BY TablesSame DEF HostInv, ReqInv, ReadLinks, At, Fits, Phases
<1>2. cut \in SUBSET Link
  <2>1. Dropped(q.form) \in SUBSET Live(assets)
    BY DEF Dropped, ActiveOn
  <2>2. QED
    BY <2>1, LinksTyped, TypeParts DEF HostInv
<1>3. /\ \A i \in Dropped(q.form) : [ip |-> assets[i].ip, type |-> assets[i].type] \in cut
      /\ \A l \in cut : \E i \in Dropped(q.form) :
           l = [ip |-> assets[i].ip, type |-> assets[i].type]
  OBVIOUS
<1> HIDE DEF cut
<1>4. q.host \notin Live(hosts) => Dropped(q.form) = {}
  <2>1. q.host \in Ids
    BY <1>1, FormFields
  <2>2. QED
    BY <1>1, <2>1, NoneOn DEF Dropped, ActiveOn
<1>5. /\ n \in Request /\ n.kind = q.kind /\ n.form = q.form /\ n.host = q.host
      /\ n.left = q.left /\ n.create = q.create /\ n.update = q.update
      /\ n.valid = q.valid /\ n.links = cut /\ n.base = q.base /\ n.wrote = q.wrote
  BY <1>1, <1>2 DEF Request
<1> HIDE DEF n
<1>6. /\ req'[r].phase = phase /\ req'[r].kind = q.kind /\ req'[r].form = q.form
      /\ req'[r].host = q.host /\ req'[r].left = q.left /\ req'[r].create = q.create
      /\ req'[r].update = q.update /\ req'[r].valid = q.valid /\ req'[r].links = cut
      /\ req'[r].base = q.base /\ req'[r].wrote = q.wrote
  BY <1>1, <1>5, GotoFields DEF HostInv
<1>7. LinksRead(r)'
  <2>1. Dropped(req[r].form)' = Dropped(q.form)
    BY <1>1, <1>6 DEF Dropped, ActiveOn, Live
  <2>2. QED
    BY <1>1, <1>3, <1>6, <2>1 DEF LinksRead
<1>8. Dropped(q.form) = {} => ListsRight(r)'
  <2>1. SUFFICES ASSUME Dropped(q.form) = {} PROVE ListsRight(r)'
    OBVIOUS
  <2>2. ListsRight(r)
    BY <1>1, <2>1 DEF ListsRight, OfType, Dropped
  <2>3. QED
    BY <1>1, <1>6, <2>2, ListsRightSame
<1>9. /\ HostRight(r) => HostRight(r)'
      /\ EntriesRight(r) => EntriesRight(r)'
  BY <1>1, <1>6, HostRightSame, EntriesRightSame DEF Early
<1>10. Tells(r) => Tells(r)'
  <2>1. Live(hosts)' = Live(hosts)
    BY <1>1 DEF Live
  <2>2. phase = "project" \/ (phase = "unlink" /\ Dropped(q.form) # {})
    OBVIOUS
  <2>3. phase = "project" => Dropped(q.form) = {}
    OBVIOUS
  <2> HIDE DEF phase
  <2>4. QED
    BY <1>1, <1>4, <1>6, <1>7, <1>8, <1>9, <2>1, <2>2, <2>3 DEF Tells, Early, Late
<1>11. QED
  BY <1>1, <1>6, <1>10 DEF Told

LEMMA ReadMovesTold ==
  ASSUME HostInv, NEW r \in Requests, ReadMoves(r)
  PROVE  Told(r)
<1> DEFINE q == req[r]
           linked == ActiveOn(q.form.id)
<1>1. /\ q \in Request /\ q.phase = "project" /\ q.kind = "edit" /\ q.form \in Form
      /\ q.form.kind = "edit" /\ q.host = q.form.id /\ ReqInv
      /\ UNCHANGED <<hosts, assets, vendors, commits>>
  BY TablesSame DEF HostInv, ReqInv, ReadMoves, At, Fits
<1>2. q.host \notin Live(hosts) => linked = {}
  <2>1. q.host \in Ids
    BY <1>1, FormFields
  <2>2. QED
    BY <1>1, <2>1, NoneOn DEF ActiveOn
<1>3. CASE Stop(r, q, "no project")
  <2>1. "no project" \in Ends
    BY DEF Ends
  <2>2. /\ req'[r].phase = "ended" /\ req'[r].end = "no project"
        /\ req'[r].create = {} /\ req'[r].update = {}
        /\ req'[r].base = q.base /\ req'[r].wrote = q.wrote
    BY <1>1, <1>3, <2>1, StopSets
  <2>3. Tells(r)'
    BY <2>2 DEF Tells, Early, Late, Verdict
  <2>4. QED
    BY <1>1, <2>2, <2>3 DEF Told
<1>4. ASSUME NEW n \in Request, NEW phase \in {"move", "assets"}, Goto(r, n, phase),
             phase = "move" => linked # {},
             n.kind = q.kind, n.form = q.form, n.host = q.host, n.valid = q.valid,
             n.left = q.left, n.create = q.create, n.update = q.update,
             n.base = q.base, n.wrote = q.wrote
      PROVE  Told(r)
  <2>1. /\ req'[r].phase = phase /\ req'[r].kind = q.kind /\ req'[r].form = q.form
        /\ req'[r].host = q.host /\ req'[r].left = q.left /\ req'[r].create = q.create
        /\ req'[r].update = q.update /\ req'[r].valid = q.valid
        /\ req'[r].base = q.base /\ req'[r].wrote = q.wrote
    <3>1. phase \in Phases
      BY DEF Phases
    <3>2. QED
      BY <1>1, <1>4, <3>1, GotoFields
  <2>2. /\ HostRight(r) => HostRight(r)'
        /\ ListsRight(r) => ListsRight(r)'
        /\ EntriesRight(r) => EntriesRight(r)'
    BY <1>1, <2>1, HostRightSame, ListsRightSame, EntriesRightSame DEF Early
  <2>3. Live(hosts)' = Live(hosts)
    BY <1>1 DEF Live
  <2>4. Tells(r) => Tells(r)'
    BY <1>1, <1>2, <1>4, <2>1, <2>2, <2>3 DEF Tells, Early, Late
  <2>5. QED
    BY <1>1, <1>4, <2>1, <2>4 DEF Told
<1>5. CASE Goto(r, [q EXCEPT !.ids = linked], "move") /\ linked # {}
  <2> DEFINE n == [q EXCEPT !.ids = linked]
  <2>1. linked \in SUBSET Ids
    BY DEF ActiveOn, Live
  <2> HIDE DEF linked
  <2>2. /\ n \in Request /\ n.kind = q.kind /\ n.form = q.form /\ n.host = q.host
        /\ n.valid = q.valid /\ n.left = q.left /\ n.create = q.create
        /\ n.update = q.update /\ n.base = q.base /\ n.wrote = q.wrote
    BY <1>1, <2>1 DEF Request
  <2>3. Goto(r, n, "move")
    BY <1>5
  <2> HIDE DEF n
  <2>4. QED
    BY <1>4, <1>5, <2>2, <2>3
<1>6. CASE Goto(r, q, "assets")
  BY <1>1, <1>4, <1>6
<1>7. QED
  BY <1>3, <1>5, <1>6 DEF ReadMoves

(* Everything the form names has been written.                             *)
LEMMA AnswerTold ==
  ASSUME HostInv, NEW r \in Requests, Answer(r)
  PROVE  Told(r)
<1> DEFINE q == req[r]
<1>1. /\ q \in Request /\ q.phase = "assets" /\ q.kind \in {"add", "edit"} /\ Reads
      /\ q.left = {} /\ q.create = {} /\ q.update = {} /\ ReqInv
      /\ UNCHANGED <<hosts, assets, vendors, commits>>
  BY TablesSame DEF HostInv, ReqInv, Answer, At, Fits
<1>2. CASE ~q.valid
  <2>1. Stop(r, q, "missing")
    BY <1>2 DEF Answer
  <2>2. QED
    BY <1>1, <1>2, <2>1, FailTold DEF Tells, Late
<1>3. CASE q.valid
  <2>1. Stop(r, q, "done") /\ "done" \in Ends
    BY <1>3 DEF Answer, Ends
  <2>2. /\ req'[r].phase = "ended" /\ req'[r].end = "done" /\ req'[r].kind = q.kind
        /\ req'[r].form = q.form /\ req'[r].host = q.host
        /\ req'[r].create = {} /\ req'[r].update = {}
        /\ req'[r].base = q.base /\ req'[r].wrote = q.wrote
    BY <1>1, <2>1, StopSets
  <2>3. ASSUME Tells(r)
        PROVE  Tells(r)'
    <3>1. HostRight(r) /\ ListsRight(r) /\ EntriesRight(r)
      BY <1>1, <1>3, <2>3 DEF Tells, Late
    <3>2. \A e \in Entries(q.form) : EntryRight(r, e)
      BY <1>1, <3>1 DEF EntriesRight
    <3>3. \A e \in Entries(q.form) : EntryRight(r, e)'
      BY <1>1, <2>2, <3>2, EntryRightSame
    <3>4. HostRight(r)' /\ ListsRight(r)'
      BY <1>1, <2>2, <3>1, HostRightSame, ListsRightSame
    <3>5. Stands(req[r])'
      BY <2>2, <3>3, <3>4 DEF Stands, HostRight, ListsRight, EntryRight
    <3>6. Verdict(r)'
      BY <1>1, <2>2, <3>5 DEF Verdict
    <3>7. QED
      BY <2>2, <3>6 DEF Tells, Early, Late
  <2>4. QED
    BY <1>1, <2>2, <2>3 DEF Told
<1>4. QED
  BY <1>2, <1>3

LEMMA DeleteOpenTold ==
  ASSUME HostInv, NEW r \in Requests, DeleteOpen(r)
  PROVE  Told(r)
<1> DEFINE q == req[r]
           n == [q EXCEPT !.confirmed = hosts[q.host].name]
<1>1. /\ q \in Request /\ q.phase = "open" /\ q.kind = "delete" /\ Reads /\ ReqInv
      /\ UNCHANGED <<hosts, assets, vendors, commits>>
  BY TablesSame DEF HostInv, ReqInv, DeleteOpen, At, Fits
<1>2. CASE q.host \notin Live(hosts)
  <2>1. Stop(r, q, "missing")
    BY <1>2 DEF DeleteOpen
  <2>2. QED
    BY <1>1, <2>1, FailTold DEF Tells, Early
<1>3. CASE q.host \in Live(hosts)
  <2>1. Goto(r, n, "typing") /\ "typing" \in Phases
    BY <1>3 DEF DeleteOpen, Phases
  <2>2. hosts[q.host].name \in Names
    BY <1>3, TypeParts DEF HostInv, TablesOK, Live, Host
  <2>3. /\ n \in Request /\ n.kind = q.kind /\ n.left = q.left /\ n.create = q.create
        /\ n.update = q.update /\ n.base = q.base /\ n.wrote = q.wrote
    BY <1>1, <2>2 DEF Request
  <2> HIDE DEF n
  <2>4. /\ req'[r].phase = "typing" /\ req'[r].kind = q.kind /\ req'[r].left = q.left
        /\ req'[r].create = q.create /\ req'[r].update = q.update
        /\ req'[r].base = q.base /\ req'[r].wrote = q.wrote
    BY <1>1, <2>1, <2>3, GotoFields
  <2>5. Tells(r) => Tells(r)'
    BY <1>1, <2>4 DEF Tells, Early, Late
  <2>6. QED
    BY <1>1, <2>4, <2>5 DEF Told
<1>4. QED
  BY <1>2, <1>3

-----------------------------------------------------------------------------
(* What is told after the steps that write.                                *)

(* A conflict after something has been written would be told wrongly; the  *)
(* forms have it only while nothing is.                                    *)
LEMMA ConflictTold ==
  ASSUME HostInv, NEW r \in Requests, Conflict(r), Tells(r) => req[r].wrote = 0
  PROVE  Told(r)
<1>1. PICK end \in {"conflict", "error"} : Stop(r, req[r], end) /\ Reads
  BY DEF Conflict
<1>2. QED
  BY <1>1, FailTold

(* Vendors are unique, so the name leads back to the id of the form.       *)
LEMMA VendorAgain ==
  ASSUME HostInv, NEW r \in Requests, VendorRead(r), NEW v \in VendorIds(req[r].vendor)
  PROVE  v = req[r].form.vendor
<1>1. CASE req[r].form.vendor = Nil
  BY <1>1 DEF VendorRead, VendorIds
<1>2. CASE req[r].form.vendor # Nil
  <2>1. /\ req[r].form.vendor \in Live(vendors)
        /\ req[r].vendor = vendors[req[r].form.vendor] /\ req[r].vendor # Nil
    BY <1>2 DEF VendorRead, Live
  <2>2. v \in Live(vendors) /\ vendors[v] = req[r].vendor
    BY <2>1 DEF VendorIds
  <2>3. QED
    BY <2>1, <2>2, TypeParts DEF HostInv, TablesOK, Consistent
<1>3. QED
  BY <1>1, <1>2

(* The requests of the API have no lists.                                  *)
LEMMA NoLists ==
  ASSUME NEW f \in Form, f.kind \in {"apiAdd", "apiEdit"}
  PROVE  f.os = Absent /\ f.bmc = Absent /\ Entries(f) = {}
<1>1. f.os = Absent /\ f.bmc = Absent
  BY FormFields
<1>2. QED
  BY <1>1 DEF Entries, Typed

LEMMA CreateHostTold ==
  ASSUME HostInv, NEW r \in Requests, CreateHost(r)
  PROVE  Told(r)
<1> DEFINE q == req[r]
<1>1. /\ q \in Request /\ q.phase = "host" /\ q.form \in Form /\ q.kind = q.form.kind
      /\ q.kind \in {"add", "apiAdd"} /\ ReqInv
      /\ q.kind = "add" => q.valid /\ q.left = {}
  BY DEF HostInv, ReqInv, CreateHost, At, Fits
<1>2. CASE Conflict(r)
  BY <1>1, <1>2, ConflictTold DEF Tells, Early
<1>3. ASSUME NEW v \in VendorIds(q.vendor), NEW i \in Ids,
             HostCalled(q.form.name) = {}, NextId(hosts, i), WritesHosts,
             hosts' = [hosts EXCEPT ![i] = [name |-> q.form.name, vendor |-> v]],
             LET done == [Wrote(q) EXCEPT !.host = i] IN
             IF q.kind = "add" THEN Goto(r, done, "assets") ELSE Stop(r, done, "done")
      PROVE  Told(r)
  <2> DEFINE done == [Wrote(q) EXCEPT !.host = i]
  <2>1. /\ done \in Request /\ done.kind = q.kind /\ done.form = q.form /\ done.host = i
        /\ done.left = q.left /\ done.valid = q.valid
        /\ done.create = q.create /\ done.update = q.update
        /\ done.base = q.base /\ done.wrote = q.wrote + 1
    BY <1>1, WroteTyped DEF Request
  <2>2. commits' = commits + 1 /\ UNCHANGED <<assets, vendors>>
    BY <1>3 DEF WritesHosts, Commits
  <2>3. hosts'[i] = [name |-> q.form.name, vendor |-> v] /\ i \in Live(hosts)'
    <3>1. hosts'[i] = [name |-> q.form.name, vendor |-> v]
      BY <1>3, TypeParts DEF HostInv, TablesOK
    <3>2. v \in Ids \union {Nil}
      BY VendorFound DEF Live
    <3>3. q.form.name # Nil
      BY <1>1, FormFields DEF HostInv, ReqInv, Fits, Holding
    <3>4. hosts'[i] \in Host
      BY <1>1, <3>1, <3>2, <3>3, FormFields DEF Host
    <3>5. QED
      BY <3>1, <3>4, NilIsNoRow DEF Live
  <2>4. \A k \in Live(assets) : assets[k].host # i
    BY <1>3, IsFresh, NoneOn
  <2>5. ASSUME req'[r].form = q.form, req'[r].host = i, VendorRead(r)
        PROVE  HostRight(r)' /\ ListsRight(r)'
    <3>1. v = q.form.vendor
      BY <2>5, VendorAgain
    <3>2. HostRight(r)'
      BY <2>3, <2>5, <3>1 DEF HostRight
    <3>3. ActiveOn(req[r].host)' = {}
      BY <2>2, <2>4, <2>5 DEF ActiveOn, Live
    <3>4. ListsRight(r)'
      BY <3>3 DEF ListsRight, OfType
    <3>5. QED
      BY <3>2, <3>4
  <2>6. CASE q.kind = "add"
    <3>1. Goto(r, done, "assets") /\ "assets" \in Phases
      BY <1>3, <2>6 DEF Phases
    <3> HIDE DEF done
    <3>2. /\ req'[r].phase = "assets" /\ req'[r].kind = q.kind /\ req'[r].form = q.form
          /\ req'[r].host = i /\ req'[r].left = q.left /\ req'[r].valid = q.valid
          /\ req'[r].create = q.create /\ req'[r].update = q.update
          /\ req'[r].base = q.base /\ req'[r].wrote = q.wrote + 1
      BY <1>1, <2>1, <3>1, GotoFields
    <3>3. EntriesRight(r) => EntriesRight(r)'
      BY <1>1, <2>2, <2>6, <3>2, EntriesRightSame DEF Early
    <3>4. Tells(r) => Tells(r)'
      BY <1>1, <2>5, <2>6, <3>2, <3>3 DEF Tells, Early, Late
    <3>5. QED
      BY <2>2, <3>2, <3>4 DEF Told
  <2>7. CASE q.kind # "add"
    <3>1. Stop(r, done, "done") /\ "done" \in Ends
      BY <1>3, <2>7 DEF Ends
    <3> HIDE DEF done
    <3>2. /\ req'[r].phase = "ended" /\ req'[r].end = "done" /\ req'[r].kind = q.kind
          /\ req'[r].form = q.form /\ req'[r].host = i
          /\ req'[r].create = {} /\ req'[r].update = {}
          /\ req'[r].base = q.base /\ req'[r].wrote = q.wrote + 1
      BY <1>1, <2>1, <3>1, StopSets
    <3>3. VendorRead(r) => Stands(req[r])'
      BY <1>1, <2>5, <2>7, <3>2, NoLists DEF Stands, HostRight, ListsRight
    <3>4. Tells(r) => Tells(r)'
      BY <1>1, <2>7, <3>2, <3>3 DEF Tells, Early, Late, Verdict
    <3>5. QED
      BY <2>2, <3>2, <3>4 DEF Told
  <2>8. QED
    BY <2>6, <2>7
<1>4. QED
  BY <1>2, <1>3 DEF CreateHost

LEMMA UpdateHostTold ==
  ASSUME HostInv, NEW r \in Requests, UpdateHost(r)
  PROVE  Told(r)
<1> DEFINE q == req[r]
           f == q.form
           known == f.id \in Live(hosts)
<1>1. /\ q \in Request /\ q.phase = "host" /\ f \in Form /\ q.kind = f.kind
      /\ q.kind \in {"edit", "apiEdit"} /\ ReqInv /\ q.host = f.id
      /\ q.kind = "edit" => q.valid /\ q.left = {}
  BY DEF HostInv, ReqInv, UpdateHost, At, Fits
<1>2. CASE Conflict(r)
  BY <1>1, <1>2, ConflictTold DEF Tells, Early
<1>3. ASSUME ~known, Reads,
             IF q.kind = "edit" THEN Goto(r, [q EXCEPT !.valid = FALSE], "linked")
                                ELSE Stop(r, q, "missing")
      PROVE  Told(r)
  <2>1. CASE q.kind = "edit"
    <3> DEFINE n == [q EXCEPT !.valid = FALSE]
    <3>1. /\ n \in Request /\ n.kind = q.kind /\ n.form = f /\ n.host = q.host
          /\ n.valid = FALSE /\ n.left = q.left /\ n.create = q.create
          /\ n.update = q.update /\ n.base = q.base /\ n.wrote = q.wrote
      BY <1>1 DEF Request
    <3>2. Goto(r, n, "linked") /\ "linked" \in Phases
      BY <1>3, <2>1 DEF Phases
    <3> HIDE DEF n
    <3>3. /\ req'[r].phase = "linked" /\ req'[r].kind = q.kind /\ req'[r].host = f.id
          /\ req'[r].valid = FALSE /\ req'[r].left = q.left /\ req'[r].create = q.create
          /\ req'[r].update = q.update /\ req'[r].base = q.base
          /\ req'[r].wrote = q.wrote
      BY <1>1, <3>1, <3>2, GotoFields
    <3>4. Live(hosts)' = Live(hosts) /\ commits' = commits
      BY <1>3, TablesSame DEF Live
    <3>5. Tells(r) => Tells(r)'
      BY <1>1, <1>3, <3>3, <3>4 DEF Tells, Early, Late
    <3>6. QED
      BY <3>3, <3>4, <3>5 DEF Told
  <2>2. CASE q.kind # "edit"
    BY <1>1, <1>3, <2>2, FailTold DEF Tells, Early
  <2>3. QED
    BY <2>1, <2>2
<1>4. ASSUME NEW v \in VendorIds(q.vendor), known, WritesHosts,
             hosts' = [hosts EXCEPT ![f.id] = [name |-> Given(f.name, @.name),
                                               vendor |-> Given(v, @.vendor)]],
             IF q.kind = "edit" THEN Goto(r, Wrote(q), "linked")
                                ELSE Stop(r, Wrote(q), "done")
      PROVE  Told(r)
  <2>1. commits' = commits + 1 /\ UNCHANGED <<assets, vendors>>
    BY <1>4 DEF WritesHosts, Commits
  <2>2. f.id \in Ids /\ hosts[f.id] \in Host
    BY <1>4, TypeParts DEF HostInv, TablesOK, Live
  <2>3. /\ hosts'[f.id].name = Given(f.name, hosts[f.id].name)
        /\ hosts'[f.id].vendor = Given(v, hosts[f.id].vendor)
    BY <1>4, <2>2, TypeParts DEF HostInv, TablesOK
  <2>4. f.id \in Live(hosts)'
    <3>1. v \in Ids \union {Nil}
      BY VendorFound DEF Live
    <3>2. hosts'[f.id] = [name |-> Given(f.name, hosts[f.id].name),
                          vendor |-> Given(v, hosts[f.id].vendor)]
      BY <1>4, <2>2, TypeParts DEF HostInv, TablesOK
    <3>3. hosts'[f.id] \in Host
      BY <1>1, <2>2, <3>1, <3>2, FormFields DEF Host, Given
    <3>4. QED
      BY <2>2, <3>3, NilIsNoRow DEF Live
  <2>5. ASSUME req'[r].form = f, req'[r].host = f.id, VendorRead(r)
        PROVE  HostRight(r)'
    <3>1. v = f.vendor
      BY <2>5, VendorAgain
    <3>2. QED
      BY <2>3, <2>4, <2>5, <3>1 DEF HostRight, Given
  <2>6. /\ Wrote(q) \in Request /\ Wrote(q).kind = q.kind /\ Wrote(q).form = f
        /\ Wrote(q).host = f.id /\ Wrote(q).valid = q.valid /\ Wrote(q).left = q.left
        /\ Wrote(q).create = q.create /\ Wrote(q).update = q.update
        /\ Wrote(q).base = q.base /\ Wrote(q).wrote = q.wrote + 1
    BY <1>1, WroteTyped
  <2>7. CASE q.kind = "edit"
    <3>1. Goto(r, Wrote(q), "linked") /\ "linked" \in Phases
      BY <1>4, <2>7 DEF Phases
    <3>2. /\ req'[r].phase = "linked" /\ req'[r].kind = q.kind /\ req'[r].form = f
          /\ req'[r].host = f.id /\ req'[r].valid = q.valid /\ req'[r].left = q.left
          /\ req'[r].create = q.create /\ req'[r].update = q.update
          /\ req'[r].base = q.base /\ req'[r].wrote = q.wrote + 1
      BY <1>1, <2>6, <3>1, GotoFields
    <3>3. EntriesRight(r) => EntriesRight(r)'
      BY <1>1, <2>1, <2>7, <3>2, EntriesRightSame DEF Early
    <3>4. Tells(r) => Tells(r)'
      BY <1>1, <2>5, <2>7, <3>2, <3>3 DEF Tells, Early, Late
    <3>5. QED
      BY <2>1, <3>2, <3>4 DEF Told
  <2>8. CASE q.kind # "edit"
    <3>1. Stop(r, Wrote(q), "done") /\ "done" \in Ends
      BY <1>4, <2>8 DEF Ends
    <3>2. /\ req'[r].phase = "ended" /\ req'[r].end = "done" /\ req'[r].kind = q.kind
          /\ req'[r].form = f /\ req'[r].host = f.id
          /\ req'[r].create = {} /\ req'[r].update = {}
          /\ req'[r].base = q.base /\ req'[r].wrote = q.wrote + 1
      BY <1>1, <2>6, <3>1, StopSets
    <3>3. VendorRead(r) => Stands(req[r])'
      BY <1>1, <2>5, <2>8, <3>2, NoLists DEF Stands, HostRight
    <3>4. Tells(r) => Tells(r)'
      BY <1>1, <2>8, <3>2, <3>3 DEF Tells, Early, Late, Verdict
    <3>5. QED
      BY <2>1, <3>2, <3>4 DEF Told
  <2>9. QED
    BY <2>7, <2>8
<1>5. QED
  BY <1>2, <1>3, <1>4 DEF UpdateHost

LEMMA DeleteSubmitTold ==
  ASSUME HostInv, NEW r \in Requests, DeleteSubmit(r)
  PROVE  Told(r)
<1> DEFINE q == req[r]
<1>1. q \in Request /\ q.phase = "typing" /\ q.kind = "delete" /\ ReqInv
  BY DEF HostInv, ReqInv, DeleteSubmit, At, Fits
<1>2. CASE \E end \in {"refused", "missing"} : Stop(r, q, end) /\ Reads
  BY <1>1, <1>2, FailTold DEF Tells, Early
<1>3. ASSUME q.host \in Live(hosts), hosts' = [hosts EXCEPT ![q.host] = Nil],
             assets' = [i \in Ids |-> IF assets[i] # Nil /\ assets[i].host = q.host
                                      THEN [assets[i] EXCEPT !.host = Nil] ELSE assets[i]],
             Stop(r, Wrote(q), "done"), Commits
      PROVE  Told(r)
  <2>1. /\ req'[r].phase = "ended" /\ req'[r].end = "done" /\ req'[r].kind = "delete"
        /\ req'[r].host = q.host /\ req'[r].create = {} /\ req'[r].update = {}
        /\ req'[r].base = q.base /\ req'[r].wrote = q.wrote + 1
    <3>1. /\ Wrote(q) \in Request /\ Wrote(q).kind = "delete" /\ Wrote(q).host = q.host
          /\ Wrote(q).base = q.base /\ Wrote(q).wrote = q.wrote + 1 /\ "done" \in Ends
      BY <1>1, WroteTyped DEF Ends
    <3>2. QED
      BY <1>1, <1>3, <3>1, StopSets
  <2>2. q.host \notin Live(hosts)'
    BY <1>3, TypeParts DEF HostInv, TablesOK, Live
  <2>3. ASSUME NEW i \in Live(assets)'
        PROVE  assets'[i].host # q.host
    <3>1. /\ i \in Ids /\ assets'[i] = IF assets[i] # Nil /\ assets[i].host = q.host
                                      THEN [assets[i] EXCEPT !.host = Nil] ELSE assets[i]
      BY <1>3 DEF Live
    <3>2. assets[i] # Nil
      BY <3>1, <2>3 DEF Live
    <3>3. assets[i] \in Asset
      BY <3>1, <3>2, RowTyped DEF Live
    <3>4. CASE assets[i].host = q.host
      BY <1>3, <3>1, <3>2, <3>3, <3>4, NilIsNoRow DEF Asset, Live
    <3>5. CASE assets[i].host # q.host
      BY <3>1, <3>5
    <3>6. QED
      BY <3>4, <3>5
  <2>4. Tells(r)'
    BY <2>1, <2>2, <2>3 DEF Tells, Early, Late, Verdict
  <2>5. QED
    BY <1>3, <2>1, <2>4 DEF Told, Commits
<1>4. QED
  BY <1>2, <1>3 DEF DeleteSubmit

(* The lists tell apart what is unlinked and what stays.                   *)
LEMMA ListedStays ==
  ASSUME NEW r, LinksRead(r), NEW e \in Entries(req[r].form)
  PROVE  [ip |-> e.ip, type |-> e.type] \notin req[r].links
<1> DEFINE f == req[r].form
<1>1. SUFFICES ASSUME NEW i \in Dropped(f),
                      [ip |-> e.ip, type |-> e.type]
                        = [ip |-> assets[i].ip, type |-> assets[i].type]
               PROVE  FALSE
  BY DEF LinksRead
<1>2. assets[i].ip = e.ip /\ assets[i].type = e.type
  BY <1>1
<1>3. \/ e.type = "OS" /\ e.ip \in Typed(f.os)
      \/ e.type = "BMC" /\ e.ip \in Typed(f.bmc)
  BY DEF Entries
<1>4. \/ e.type = "OS" /\ f.os # Absent /\ e.ip \in f.os
      \/ e.type = "BMC" /\ f.bmc # Absent /\ e.ip \in f.bmc
  BY <1>3 DEF Typed
<1>5. QED
  BY <1>1, <1>2, <1>4 DEF Dropped

LEMMA UnlinkTold ==
  ASSUME HostInv, NEW r \in Requests, Unlink(r)
  PROVE  Told(r)
<1> DEFINE q == req[r]
           n == [Wrote(q) EXCEPT !.links = {}]
<1>1. /\ q \in Request /\ q.phase = "unlink" /\ q.form \in Form /\ q.kind = "edit"
      /\ q.form.kind = "edit" /\ q.host = q.form.id /\ ReqInv /\ q.host \in Ids
      /\ UNCHANGED <<hosts, vendors>> /\ commits' = commits + 1 /\ q.left = {}
  BY FormFields DEF HostInv, ReqInv, Unlink, At, Fits, WritesAssets, Commits
<1>2. /\ n \in Request /\ n.kind = q.kind /\ n.form = q.form /\ n.host = q.host
      /\ n.left = q.left /\ n.create = q.create /\ n.update = q.update
      /\ n.valid = q.valid /\ n.base = q.base /\ n.wrote = q.wrote + 1
  BY <1>1, WroteTyped DEF Request
<1>3. Goto(r, n, "project") /\ "project" \in Phases
  BY DEF Unlink, Phases
<1> HIDE DEF n
<1>4. /\ req'[r].phase = "project" /\ req'[r].kind = q.kind /\ req'[r].form = q.form
      /\ req'[r].host = q.host /\ req'[r].left = q.left /\ req'[r].create = q.create
      /\ req'[r].update = q.update /\ req'[r].valid = q.valid
      /\ req'[r].base = q.base /\ req'[r].wrote = q.wrote + 1
  BY <1>1, <1>2, <1>3, GotoFields
<1>5. ASSUME NEW i \in Ids
      PROVE  /\ i \in Live(assets)' <=> i \in Live(assets)
             /\ i \in Live(assets) =>
                  /\ assets'[i].ip = assets[i].ip /\ assets'[i].type = assets[i].type
                  /\ assets'[i].archived = assets[i].archived
                  /\ Cut(q, assets[i]) => assets'[i].host = Nil
                  /\ ~Cut(q, assets[i]) => assets'[i] = assets[i]
  <2>1. assets'[i] = IF assets[i] # Nil /\ Cut(q, assets[i])
                     THEN [assets[i] EXCEPT !.host = Nil] ELSE assets[i]
    BY DEF Unlink
  <2>2. CASE assets[i] = Nil
    BY <2>1, <2>2 DEF Live
  <2>3. CASE assets[i] # Nil /\ Cut(q, assets[i])
    <3>1. assets[i] \in Asset /\ i \in Live(assets)
      BY <2>3, RowTyped DEF Live
    <3>2. assets'[i] = [assets[i] EXCEPT !.host = Nil]
      BY <2>1, <2>3
    <3>3. /\ assets'[i] \in Asset /\ assets'[i].host = Nil
          /\ assets'[i].ip = assets[i].ip /\ assets'[i].type = assets[i].type
          /\ assets'[i].archived = assets[i].archived
      BY <3>1, <3>2 DEF Asset
    <3>4. QED
      BY <2>3, <3>1, <3>3, NilIsNoRow DEF Live
  <2>4. CASE assets[i] # Nil /\ ~Cut(q, assets[i])
    BY <2>1, <2>4 DEF Live
  <2>5. QED
    BY <2>2, <2>3, <2>4
<1>6. ASSUME LinksRead(r)
      PROVE  ListsRight(r)'
  <2>1. ASSUME NEW k \in ActiveOn(q.host)'
        PROVE  /\ k \in ActiveOn(q.host) /\ ~Cut(q, assets[k]) /\ assets'[k] = assets[k]
    <3>1. k \in Ids /\ k \in Live(assets)' /\ assets'[k].host = q.host
      BY <1>4, <2>1 DEF ActiveOn, Live
    <3>2. ~Cut(q, assets[k]) /\ assets'[k] = assets[k] /\ k \in Live(assets)
      BY <1>1, <1>5, <3>1, NilIsNoRow
    <3>3. QED
      BY <1>4, <2>1, <3>2 DEF ActiveOn
  <2>2. ASSUME NEW k \in ActiveOn(q.host)'
        PROVE  k \notin Dropped(q.form)
    <3>1. assets[k].host = q.form.id
      BY <1>1, <2>1, <2>2 DEF ActiveOn
    <3>2. QED
      BY <1>6, <2>1, <2>2, <3>1 DEF LinksRead, Cut
  <2>3. /\ \A k \in ActiveOn(q.host)' : assets'[k].type = "OS" /\ q.form.os # Absent
                                        => assets'[k].ip \in q.form.os
        /\ \A k \in ActiveOn(q.host)' : assets'[k].type = "BMC" /\ q.form.bmc # Absent
                                        => assets'[k].ip \in q.form.bmc
    BY <1>1, <2>1, <2>2 DEF Dropped
  <2>4. QED
    BY <1>4, <2>3 DEF ListsRight, OfType
<1>7. ASSUME LinksRead(r), EntriesRight(r)
      PROVE  EntriesRight(r)'
  <2>1. ASSUME NEW e \in Entries(q.form)
        PROVE  /\ e.ip # Bad
               /\ e \in q.create => RowsOf(e.ip)' = {}
               /\ e \in q.update => RowsOf(e.ip)' # {}
               /\ e \notin q.create \union q.update => EntryRight(r, e)'
    <3>1. RowsOf(e.ip)' = RowsOf(e.ip)
      BY <1>5 DEF RowsOf, Live
    <3>2. ASSUME EntryRight(r, e)
          PROVE  EntryRight(r, e)'
      <4>1. PICK i \in RowsOf(e.ip) : assets[i].host = q.host /\ assets[i].type = e.type
        BY <3>2 DEF EntryRight
      <4>2. i \in Live(assets) /\ assets[i].ip = e.ip /\ i \in Ids
        BY DEF RowsOf, Live
      <4>3. ~Cut(q, assets[i])
        BY <1>7, <2>1, <4>1, <4>2, ListedStays DEF Cut
      <4>4. assets'[i] = assets[i]
        BY <1>5, <4>2, <4>3
      <4>5. QED
        BY <1>1, <1>4, <3>1, <4>1, <4>4 DEF EntryRight, ProjectOf, Given
    <3>3. QED
      BY <1>1, <1>7, <3>1, <3>2 DEF EntriesRight
  <2>2. QED
    BY <1>1, <1>4, <2>1 DEF EntriesRight
<1>8. HostRight(r) => HostRight(r)'
  BY <1>1, <1>4, HostRightSame
<1>9. Tells(r) => Tells(r)'
  BY <1>1, <1>4, <1>6, <1>7, <1>8 DEF Tells, Early, Late
<1>10. QED
  BY <1>1, <1>4, <1>9 DEF Told

LEMMA MoveTold ==
  ASSUME HostInv, NEW r \in Requests, Move(r)
  PROVE  Told(r)
<1> DEFINE q == req[r]
           n == [Wrote(q) EXCEPT !.ids = {}]
<1>1. /\ q \in Request /\ q.phase = "move" /\ q.form \in Form /\ q.kind = "edit"
      /\ ReqInv /\ UNCHANGED <<hosts, vendors>> /\ commits' = commits + 1 /\ q.left = {}
  BY DEF HostInv, ReqInv, Move, At, Fits, WritesAssets, Commits
<1>2. /\ n \in Request /\ n.kind = q.kind /\ n.form = q.form /\ n.host = q.host
      /\ n.left = q.left /\ n.create = q.create /\ n.update = q.update
      /\ n.valid = q.valid /\ n.base = q.base /\ n.wrote = q.wrote + 1
  BY <1>1, WroteTyped DEF Request
<1>3. Goto(r, n, "assets") /\ "assets" \in Phases
  BY DEF Move, Phases
<1> HIDE DEF n
<1>4. /\ req'[r].phase = "assets" /\ req'[r].kind = q.kind /\ req'[r].form = q.form
      /\ req'[r].host = q.host /\ req'[r].left = q.left /\ req'[r].create = q.create
      /\ req'[r].update = q.update /\ req'[r].valid = q.valid
      /\ req'[r].base = q.base /\ req'[r].wrote = q.wrote + 1
  BY <1>1, <1>2, <1>3, GotoFields
<1>5. ASSUME NEW i \in Ids
      PROVE  /\ i \in Live(assets)' <=> i \in Live(assets)
             /\ i \in Live(assets) =>
                  /\ assets'[i].ip = assets[i].ip /\ assets'[i].type = assets[i].type
                  /\ assets'[i].archived = assets[i].archived
                  /\ assets'[i].host = assets[i].host
  <2>1. assets'[i] = IF i \in q.ids \cap Live(assets)
                     THEN [assets[i] EXCEPT !.project = q.form.project] ELSE assets[i]
    BY DEF Move
  <2>2. CASE i \notin q.ids \cap Live(assets)
    BY <2>1, <2>2 DEF Live
  <2>3. CASE i \in q.ids \cap Live(assets)
    <3>1. assets[i] \in Asset /\ q.form.project \in Ids \union {Nil}
      <4>1. q.form.project \in projects \union {Nil} /\ projects \subseteq Ids
        BY <1>1, TypeParts DEF HostInv, ReqInv, Fits, TablesOK
      <4>2. QED
        BY <2>3, <4>1, RowTyped
    <3>2. assets'[i] = [assets[i] EXCEPT !.project = q.form.project]
      BY <2>1, <2>3
    <3>3. /\ assets'[i] \in Asset /\ assets'[i].host = assets[i].host
          /\ assets'[i].ip = assets[i].ip /\ assets'[i].type = assets[i].type
          /\ assets'[i].archived = assets[i].archived
      BY <3>1, <3>2 DEF Asset
    <3>4. QED
      BY <2>3, <3>3, NilIsNoRow DEF Live
  <2>4. QED
    BY <2>2, <2>3
<1>6. ListsRight(r) => ListsRight(r)'
  <2>1. ActiveOn(q.host)' = ActiveOn(q.host)
    BY <1>4, <1>5 DEF ActiveOn, Live
  <2>2. \A i \in ActiveOn(q.host) : /\ assets'[i].ip = assets[i].ip
                                   /\ assets'[i].type = assets[i].type
    BY <1>5 DEF ActiveOn, Live
  <2>3. /\ OfType(q.host, "OS")' = OfType(q.host, "OS")
        /\ OfType(q.host, "BMC")' = OfType(q.host, "BMC")
    BY <2>1, <2>2 DEF OfType
  <2>4. QED
    BY <1>4, <2>3 DEF ListsRight
<1>7. EntriesRight(r) => EntriesRight(r)'
  <2>1. ASSUME EntriesRight(r), NEW e \in Entries(q.form)
        PROVE  /\ e.ip # Bad
               /\ e \in q.create => RowsOf(e.ip)' = {}
               /\ e \in q.update => RowsOf(e.ip)' # {}
               /\ e \notin q.create \union q.update => EntryRight(r, e)'
    <3>1. RowsOf(e.ip)' = RowsOf(e.ip)
      BY <1>5 DEF RowsOf, Live
    <3>2. ASSUME EntryRight(r, e)
          PROVE  EntryRight(r, e)'
      <4>1. PICK i \in RowsOf(e.ip) : assets[i].host = q.host /\ assets[i].type = e.type
        BY <3>2 DEF EntryRight
      <4>2. i \in Live(assets) /\ i \in Ids
        BY DEF RowsOf, Live
      <4>3. QED
        BY <1>1, <1>4, <1>5, <3>1, <4>1, <4>2 DEF EntryRight, ProjectOf, Given
    <3>3. QED
      BY <1>1, <2>1, <3>1, <3>2 DEF EntriesRight
  <2>2. QED
    BY <1>1, <1>4, <2>1 DEF EntriesRight
<1>8. HostRight(r) => HostRight(r)'
  BY <1>1, <1>4, HostRightSame
<1>9. Tells(r) => Tells(r)'
  BY <1>1, <1>4, <1>6, <1>7, <1>8 DEF Tells, Early, Late
<1>10. QED
  BY <1>1, <1>4, <1>9 DEF Told

LEMMA EntryUnique ==
  ASSUME NEW f, NEW d \in Entries(f), NEW e \in Entries(f), d.ip = e.ip
  PROVE  d = e
<1>1. /\ d \in [ip : Typed(f.os), type : {"OS"}] \/ d \in [ip : Typed(f.bmc), type : {"BMC"}]
      /\ e \in [ip : Typed(f.os), type : {"OS"}] \/ e \in [ip : Typed(f.bmc), type : {"BMC"}]
      /\ d.type = "OS" <=> d.ip \notin Typed(f.bmc)
      /\ e.type = "OS" <=> e.ip \notin Typed(f.bmc)
  BY DEF Entries
<1>2. d.type = e.type
  BY <1>1
<1>3. d = [ip |-> d.ip, type |-> d.type] /\ e = [ip |-> e.ip, type |-> e.type]
  BY <1>1
<1>4. QED
  BY <1>2, <1>3

(* An address of the lists is written as the form has it, and the others   *)
(* stay as they are.                                                       *)
LEMMA AddressWritten ==
  ASSUME HostInv, NEW r \in Requests, NEW e \in Entries(req[r].form),
         req[r].form \in Form, req[r].phase = "assets", req[r].left = {},
         ListsRight(r), EntriesRight(r),
         NEW i \in Ids, NEW row \in Asset, assets' = [assets EXCEPT ![i] = row],
         row.ip = e.ip, row.type = e.type, row.host = req[r].host,
         row.project = Given(ProjectOf(req[r]), row.project),
         \A k \in Live(assets) \ {i} : assets[k].ip # e.ip,
         i \in Live(assets) => assets[i].ip = e.ip,
         req'[r].form = req[r].form, req'[r].kind = req[r].kind,
         req'[r].host = req[r].host, req'[r].left = {}, req'[r].phase = "assets",
         req'[r].create = req[r].create \ {e}, req'[r].update = req[r].update \ {e}
  PROVE  ListsRight(r)' /\ EntriesRight(r)'
<1> DEFINE q == req[r]
<1>1. /\ assets'[i] = row /\ \A k \in Ids \ {i} : assets'[k] = assets[k]
      /\ i \in Live(assets)' /\ i \in Ids
  BY TypeParts, NilIsNoRow DEF HostInv, TablesOK, Live
<1>2. \A k \in Ids \ {i} : k \in Live(assets)' <=> k \in Live(assets)
  BY <1>1 DEF Live
<1>3. \/ e.type = "OS" /\ e.ip \in Typed(q.form.os)
      \/ e.type = "BMC" /\ e.ip \in Typed(q.form.bmc)
  BY DEF Entries
<1>4. ListsRight(r)'
  <2>1. ASSUME NEW k \in ActiveOn(req[r].host)', k # i
        PROVE  k \in ActiveOn(q.host) /\ assets'[k] = assets[k]
    BY <1>1, <1>2, <2>1 DEF ActiveOn, Live
  <2>2. \A k \in ActiveOn(req[r].host)' :
          /\ assets'[k].type = "OS" /\ q.form.os # Absent => assets'[k].ip \in q.form.os
          /\ assets'[k].type = "BMC" /\ q.form.bmc # Absent
               => assets'[k].ip \in q.form.bmc
    <3>1. TAKE k \in ActiveOn(req[r].host)'
    <3>2. CASE k = i
      BY <1>1, <1>3, <3>2 DEF Typed
    <3>3. CASE k # i
      BY <2>1, <3>3 DEF ListsRight, OfType
    <3>4. QED
      BY <3>2, <3>3
  <2>3. QED
    BY <2>2 DEF ListsRight, OfType
<1>5. ASSUME NEW d \in Entries(q.form)
      PROVE  /\ d.ip # Bad
             /\ d \in q.create \ {e} => RowsOf(d.ip)' = {}
             /\ d \in q.update \ {e} => RowsOf(d.ip)' # {}
             /\ d \notin (q.create \union q.update) \ {e} => EntryRight(r, d)'
  <2>1. d.ip # Bad
    BY <1>5 DEF EntriesRight
  <2>2. CASE d = e
    <3>1. i \in RowsOf(d.ip)'
      BY <1>1, <2>2 DEF RowsOf
    <3>2. EntryRight(r, d)'
      BY <1>1, <2>2, <3>1 DEF EntryRight, ProjectOf, Given
    <3>3. QED
      BY <2>1, <2>2, <3>2
  <2>3. CASE d # e
    <3>1. d.ip # e.ip
      BY <1>5, <2>3, EntryUnique
    <3>2. \A k \in RowsOf(d.ip) : k \in Ids \ {i} /\ assets'[k] = assets[k]
      BY <1>1, <3>1 DEF RowsOf, Live
    <3>3. RowsOf(d.ip)' = RowsOf(d.ip)
      BY <1>1, <1>2, <3>1, <3>2 DEF RowsOf, Live
    <3>4. EntryRight(r, d) => EntryRight(r, d)'
      BY <3>2, <3>3 DEF EntryRight, ProjectOf, Given
    <3>5. QED
      BY <1>5, <2>1, <2>3, <3>3, <3>4 DEF EntriesRight
  <2>4. QED
    BY <2>2, <2>3
<1>6. EntriesRight(r)'
  <2>1. "assets" \notin Early
    BY DEF Early
  <2>2. ASSUME NEW d \in Entries(q.form)
        PROVE  /\ d.ip # Bad
               /\ d \in req'[r].create => RowsOf(d.ip)' = {}
               /\ d \in req'[r].update => RowsOf(d.ip)' # {}
               /\ d \notin req'[r].create \union req'[r].update => EntryRight(r, d)'
    BY <1>5
  <2>3. QED
    BY <2>1, <2>2 DEF EntriesRight
<1>7. QED
  BY <1>4, <1>6

LEMMA AddressTold ==
  ASSUME HostInv, NEW r \in Requests, NEW e, req[r].phase = "assets",
         Goto(r, Finished(req[r], e), "assets"), WritesAssets, req[r].host \in Live(hosts),
         Tells(r) /\ req[r].valid => ListsRight(r)' /\ EntriesRight(r)'
  PROVE  Told(r)
<1> DEFINE q == req[r]
<1>1. /\ q \in Request /\ ReqInv /\ "assets" \in Phases /\ commits' = commits + 1
      /\ UNCHANGED hosts
  BY DEF HostInv, ReqInv, Phases, WritesAssets, Commits
<1>2. /\ req'[r].phase = "assets" /\ req'[r].kind = q.kind /\ req'[r].form = q.form
      /\ req'[r].host = q.host /\ req'[r].left = q.left /\ req'[r].valid = q.valid
      /\ req'[r].create = q.create \ {e} /\ req'[r].update = q.update \ {e}
      /\ req'[r].base = q.base /\ req'[r].wrote = q.wrote + 1
  BY <1>1, FinishedTyped, GotoFields
<1>3. HostRight(r) => HostRight(r)'
  BY <1>1, <1>2, HostRightSame
<1>4. Tells(r) => q.valid
  BY DEF Tells, Late
<1>5. Tells(r) => Tells(r)'
  BY <1>2, <1>3, <1>4 DEF Tells, Early, Late
<1>6. QED
  BY <1>1, <1>2, <1>5 DEF Told

LEMMA CreateAssetTold ==
  ASSUME HostInv, NEW r \in Requests, CreateAsset(r)
  PROVE  Told(r)
<1> DEFINE q == req[r]
           row(e) == [ip |-> e.ip, type |-> e.type, project |-> ProjectOf(q),
                      host |-> q.host, archived |-> FALSE]
<1>1. /\ q \in Request /\ q.phase = "assets" /\ q.form \in Form /\ q.left = {} /\ ReqInv
      /\ q.create \subseteq Entries(q.form) /\ q.kind \in {"add", "edit"}
  BY DEF HostInv, ReqInv, CreateAsset, At, Fits
<1>2. PICK e \in q.create :
        \/ /\ q.host \notin Live(hosts) \/ \E i \in RowsOf(e.ip) : ~assets[i].archived
           /\ \E end \in {"conflict", "error"} : Stop(r, q, end) /\ Reads
        \/ /\ q.host \in Live(hosts)
           /\ \E i \in Ids : (IF RowsOf(e.ip) = {} THEN NextId(assets, i)
                                                  ELSE i \in RowsOf(e.ip))
                               /\ assets' = [assets EXCEPT ![i] = row(e)]
           /\ Goto(r, Finished(q, e), "assets") /\ WritesAssets
  BY DEF CreateAsset, InTurn, Conflict
<1>3. Tells(r) /\ q.valid => /\ HostRight(r) /\ ListsRight(r) /\ EntriesRight(r)
                             /\ RowsOf(e.ip) = {}
  BY <1>1, <1>2 DEF Tells, Late, EntriesRight
<1>4. CASE /\ q.host \notin Live(hosts) \/ \E i \in RowsOf(e.ip) : ~assets[i].archived
           /\ \E end \in {"conflict", "error"} : Stop(r, q, end) /\ Reads
  <2>1. Tells(r) => q.wrote = 0
    <3>1. Tells(r) /\ q.valid => FALSE
      BY <1>3, <1>4 DEF HostRight
    <3>2. Tells(r) /\ ~q.valid => q.wrote = 0
      BY <1>1 DEF Tells, Late
    <3>3. QED
      BY <3>1, <3>2
  <2>2. QED
    BY <1>4, <2>1, FailTold
<1>5. ASSUME q.host \in Live(hosts), NEW i \in Ids,
             IF RowsOf(e.ip) = {} THEN NextId(assets, i) ELSE i \in RowsOf(e.ip),
             assets' = [assets EXCEPT ![i] = row(e)],
             Goto(r, Finished(q, e), "assets"), WritesAssets
      PROVE  Told(r)
  <2> DEFINE new == row(e)
  <2>1. /\ new \in Asset /\ new.ip = e.ip /\ new.type = e.type /\ new.host = q.host
        /\ new.project = ProjectOf(q)
    <3>1. e \in Entry /\ q.host \in Ids
      BY <1>1, <1>5 DEF Request, Live
    <3>2. ProjectOf(q) \in Ids \union {Nil}
      <4>1. ProjectOf(q) \in projects \union {Nil} /\ projects \subseteq Ids
        BY <1>1, ProjectThere, TypeParts DEF HostInv, TablesOK
      <4>2. QED
        BY <4>1
    <3>3. QED
      BY <3>1, <3>2 DEF Asset, Entry, Types
  <2>2. assets' = [assets EXCEPT ![i] = new]
    BY <1>5
  <2> HIDE DEF new
  <2>3. /\ req'[r].phase = "assets" /\ req'[r].kind = q.kind /\ req'[r].form = q.form
        /\ req'[r].host = q.host /\ req'[r].left = {}
        /\ req'[r].create = q.create \ {e} /\ req'[r].update = q.update \ {e}
    BY <1>1, <1>5, FinishedTyped, GotoFields DEF Phases
  <2>4. new.project = Given(ProjectOf(q), new.project)
    BY <2>1 DEF Given
  <2>5. Tells(r) /\ q.valid => ListsRight(r)' /\ EntriesRight(r)'
    <3>1. SUFFICES ASSUME Tells(r), q.valid PROVE ListsRight(r)' /\ EntriesRight(r)'
      OBVIOUS
    <3>2. /\ \A k \in Live(assets) \ {i} : assets[k].ip # e.ip
          /\ i \notin Live(assets)
      BY <1>3, <1>5, <3>1, IsFresh DEF RowsOf
    <3>3. ListsRight(r) /\ EntriesRight(r) /\ e \in Entries(q.form)
      BY <1>1, <1>3, <3>1
    <3>4. QED
      BY <1>1, <2>1, <2>2, <2>3, <2>4, <3>2, <3>3, AddressWritten
  <2>6. QED
    BY <1>1, <1>5, <2>5, AddressTold
<1>6. QED
  BY <1>2, <1>4, <1>5

LEMMA UpdateAssetTold ==
  ASSUME HostInv, NEW r \in Requests, UpdateAsset(r)
  PROVE  Told(r)
<1> DEFINE q == req[r]
           row(e, i) == [assets[i] EXCEPT !.type = e.type, !.host = q.host,
                                          !.project = Given(ProjectOf(q), @)]
<1>1. /\ q \in Request /\ q.phase = "assets" /\ q.form \in Form /\ q.left = {} /\ ReqInv
      /\ q.update \subseteq Entries(q.form) /\ q.kind \in {"add", "edit"} /\ q.create = {}
  BY DEF HostInv, ReqInv, UpdateAsset, At, Fits
<1>2. PICK e \in q.update :
        \/ RowsOf(e.ip) = {} /\ Goto(r, [q EXCEPT !.update = @ \ {e}], "assets") /\ Reads
        \/ \E i \in RowsOf(e.ip) :
             \/ q.host \notin Live(hosts) /\ Stop(r, q, "error") /\ Reads
             \/ /\ row(e, i) = assets[i]
                /\ Goto(r, [q EXCEPT !.update = @ \ {e}], "assets") /\ Reads
             \/ /\ q.host \in Live(hosts) /\ assets' = [assets EXCEPT ![i] = row(e, i)]
                /\ Goto(r, Finished(q, e), "assets") /\ WritesAssets
  BY DEF UpdateAsset, InTurn
<1>3. Tells(r) /\ q.valid => /\ HostRight(r) /\ ListsRight(r) /\ EntriesRight(r)
                             /\ RowsOf(e.ip) # {}
  BY <1>1, <1>2 DEF Tells, Late, EntriesRight
<1>4. ASSUME NEW i \in RowsOf(e.ip)
      PROVE  /\ row(e, i) \in Asset /\ row(e, i).ip = e.ip /\ row(e, i).type = e.type
             /\ q.host \in Ids => row(e, i).host = q.host
             /\ row(e, i).project = Given(ProjectOf(q), assets[i].project)
             /\ i \in Live(assets) /\ assets[i].ip = e.ip /\ i \in Ids
  <2>1. i \in Live(assets) /\ assets[i] \in Asset /\ assets[i].ip = e.ip /\ i \in Ids
    BY RowTyped DEF RowsOf
  <2>2. e \in Entry /\ q.host \in Ids \union {Nil}
    BY <1>1 DEF Request
  <2>3. Given(ProjectOf(q), assets[i].project) \in Ids \union {Nil}
    <3>1. ProjectOf(q) \in projects \union {Nil} /\ projects \subseteq Ids
      BY <1>1, ProjectThere, TypeParts DEF HostInv, TablesOK
    <3>2. QED
      BY <2>1, <3>1, RowTyped DEF Given
  <2>4. QED
    BY <2>1, <2>2, <2>3 DEF Asset, Entry, Types
<1>5. ASSUME Goto(r, [q EXCEPT !.update = @ \ {e}], "assets"), Reads,
             Tells(r) /\ q.valid => EntryRight(r, e)
      PROVE  Told(r)
  <2> DEFINE n == [q EXCEPT !.update = @ \ {e}]
  <2>1. /\ n \in Request /\ n.kind = q.kind /\ n.form = q.form /\ n.host = q.host
        /\ n.left = q.left /\ n.create = q.create /\ n.update = q.update \ {e}
        /\ n.valid = q.valid /\ n.base = q.base /\ n.wrote = q.wrote
    BY <1>1 DEF Request
  <2>2. Goto(r, n, "assets") /\ "assets" \in Phases
    BY <1>5 DEF Phases
  <2> HIDE DEF n
  <2>3. /\ req'[r].phase = "assets" /\ req'[r].kind = q.kind /\ req'[r].form = q.form
        /\ req'[r].host = q.host /\ req'[r].left = {} /\ req'[r].valid = q.valid
        /\ req'[r].create = {} /\ req'[r].update = q.update \ {e}
        /\ req'[r].base = q.base /\ req'[r].wrote = q.wrote
    BY <1>1, <2>1, <2>2, GotoFields
  <2>4. UNCHANGED <<hosts, assets, vendors, commits>> /\ Live(hosts)' = Live(hosts)
    BY <1>5, TablesSame DEF Live
  <2>5. /\ HostRight(r) => HostRight(r)'
        /\ ListsRight(r) => ListsRight(r)'
    BY <2>3, <2>4, HostRightSame, ListsRightSame
  <2>6. Tells(r) /\ q.valid => EntriesRight(r)'
    <3>1. ASSUME Tells(r), q.valid, NEW d \in Entries(q.form)
          PROVE  /\ d.ip # Bad
                 /\ d \in q.update \ {e} => RowsOf(d.ip)' # {}
                 /\ d \notin q.update \ {e} => EntryRight(r, d)'
      <4>1. /\ d.ip # Bad
            /\ d \in q.update \ {e} => RowsOf(d.ip) # {}
            /\ d \notin q.update \ {e} => EntryRight(r, d)
        BY <1>1, <1>3, <1>5, <3>1 DEF EntriesRight
      <4>2. RowsOf(d.ip)' = RowsOf(d.ip)
        BY <2>4 DEF RowsOf, Live
      <4>3. EntryRight(r, d) => EntryRight(r, d)'
        BY <2>3, <2>4, EntryRightSame
      <4>4. QED
        BY <4>1, <4>2, <4>3
    <3>2. QED
      BY <2>3, <3>1 DEF EntriesRight, Early
  <2>7. Tells(r) => Tells(r)'
    BY <1>1, <1>3, <2>3, <2>4, <2>5, <2>6 DEF Tells, Early, Late
  <2>8. QED
    BY <2>3, <2>4, <2>7 DEF Told
<1>6. CASE RowsOf(e.ip) = {} /\ Goto(r, [q EXCEPT !.update = @ \ {e}], "assets") /\ Reads
  BY <1>3, <1>5, <1>6
<1>7. CASE q.host \notin Live(hosts) /\ Stop(r, q, "error") /\ Reads
  <2>1. Tells(r) => q.wrote = 0
    BY <1>1, <1>3, <1>7 DEF Tells, Late, HostRight
  <2>2. QED
    BY <1>7, <2>1, FailTold
<1>8. ASSUME NEW i \in RowsOf(e.ip), row(e, i) = assets[i],
             Goto(r, [q EXCEPT !.update = @ \ {e}], "assets"), Reads
      PROVE  Told(r)
  <2>1. Tells(r) /\ q.valid => q.host \in Ids
    BY <1>3 DEF HostRight, Live
  <2>2. Tells(r) /\ q.valid => EntryRight(r, e)
    <3> HIDE DEF row
    <3>1. QED
      BY <1>4, <1>8, <2>1 DEF EntryRight
  <2>3. QED
    BY <1>5, <1>8, <2>2
<1>9. ASSUME NEW i \in RowsOf(e.ip), q.host \in Live(hosts),
             assets' = [assets EXCEPT ![i] = row(e, i)],
             Goto(r, Finished(q, e), "assets"), WritesAssets
      PROVE  Told(r)
  <2> DEFINE new == row(e, i)
  <2>1. /\ new \in Asset /\ new.ip = e.ip /\ new.type = e.type /\ new.host = q.host
        /\ new.project = Given(ProjectOf(q), assets[i].project)
        /\ i \in Live(assets) /\ assets[i].ip = e.ip /\ i \in Ids
    <3>1. q.host \in Ids
      BY <1>9 DEF Live
    <3> HIDE DEF row
    <3>2. QED
      BY <1>4, <1>9, <3>1
  <2>2. assets' = [assets EXCEPT ![i] = new]
    BY <1>9
  <2> HIDE DEF new
  <2>3. /\ req'[r].phase = "assets" /\ req'[r].kind = q.kind /\ req'[r].form = q.form
        /\ req'[r].host = q.host /\ req'[r].left = {}
        /\ req'[r].create = q.create \ {e} /\ req'[r].update = q.update \ {e}
    BY <1>1, <1>9, FinishedTyped, GotoFields DEF Phases
  <2>4. new.project = Given(ProjectOf(q), new.project)
    BY <2>1 DEF Given
  <2>5. \A k \in Live(assets) \ {i} : assets[k].ip # e.ip
    BY <2>1, RowTyped
  <2>6. Tells(r) /\ q.valid => ListsRight(r)' /\ EntriesRight(r)'
    <3>1. SUFFICES ASSUME Tells(r), q.valid PROVE ListsRight(r)' /\ EntriesRight(r)'
      OBVIOUS
    <3>2. ListsRight(r) /\ EntriesRight(r) /\ e \in Entries(q.form)
      BY <1>1, <1>3, <3>1
    <3>3. QED
      BY <1>1, <2>1, <2>2, <2>3, <2>4, <2>5, <3>2, AddressWritten
  <2>7. QED
    BY <1>1, <1>9, <2>6, AddressTold
<1>10. QED
  BY <1>2, <1>6, <1>7, <1>8, <1>9

-----------------------------------------------------------------------------
LEMMA StepTold ==
  ASSUME HostInv, NEW r \in Requests, Step(r)
  PROVE  Told(r) /\ req[r].phase # "new"
<1>1. CASE Begin(r) \/ FindVendor(r) \/ Collect(r) \/ Collected(r)
  BY <1>1, BeginTold, FindVendorTold, CollectTold, CollectedTold
     DEF Begin, FindVendor, Collect, Collected, At
<1>2. CASE CreateHost(r) \/ UpdateHost(r) \/ DeleteOpen(r) \/ DeleteSubmit(r)
  BY <1>2, CreateHostTold, UpdateHostTold, DeleteOpenTold, DeleteSubmitTold
     DEF CreateHost, UpdateHost, DeleteOpen, DeleteSubmit, At
<1>3. CASE ReadLinks(r) \/ Unlink(r) \/ ReadMoves(r) \/ Move(r)
  BY <1>3, ReadLinksTold, UnlinkTold, ReadMovesTold, MoveTold
     DEF ReadLinks, Unlink, ReadMoves, Move, At
<1>4. CASE CreateAsset(r) \/ UpdateAsset(r) \/ Answer(r)
  BY <1>4, CreateAssetTold, UpdateAssetTold, AnswerTold
     DEF CreateAsset, UpdateAsset, Answer, At
<1>5. QED
  BY <1>1, <1>2, <1>3, <1>4 DEF Step

(* A step that commits is its request's alone: every other is not quiet.   *)
LEMMA StepCommits ==
  ASSUME HostInv, NEW r \in Requests, Arrive(r) \/ Step(r)
  PROVE  \/ UNCHANGED <<hosts, assets, vendors, commits>>
         \/ commits' = commits + 1
<1>1. CASE Arrive(r) \/ Begin(r) \/ FindVendor(r) \/ Collect(r) \/ Collected(r)
             \/ ReadLinks(r) \/ ReadMoves(r) \/ Answer(r) \/ DeleteOpen(r)
  BY <1>1, TablesSame DEF Arrive, Begin, FindVendor, Collect, Collected, ReadLinks,
     ReadMoves, Answer, DeleteOpen
<1>2. CASE CreateHost(r) \/ UpdateHost(r)
  BY <1>2, TablesSame DEF CreateHost, UpdateHost, Conflict, WritesHosts, Commits
<1>3. CASE Unlink(r) \/ Move(r)
  BY <1>3 DEF Unlink, Move, WritesAssets, Commits
<1>4. CASE CreateAsset(r) \/ UpdateAsset(r) \/ DeleteSubmit(r)
  BY <1>4, TablesSame DEF CreateAsset, UpdateAsset, DeleteSubmit, Conflict, WritesAssets,
     Commits
<1>5. QED
  BY <1>1, <1>2, <1>3, <1>4 DEF Step

LEMMA StandsSame ==
  ASSUME NEW r, Stands(req[r]), UNCHANGED <<hosts, assets>>, req'[r] = req[r]
  PROVE  Stands(req[r])'
<1>1. /\ OfType(req[r].host, "OS")' = OfType(req[r].host, "OS")
      /\ OfType(req[r].host, "BMC")' = OfType(req[r].host, "BMC")
  BY DEF OfType, ActiveOn, Live
<1>2. ASSUME NEW e \in Entries(req[r].form)
      PROVE  RowsOf(e.ip)' = RowsOf(e.ip)
  BY DEF RowsOf, Live
<1>3. QED
  BY <1>1, <1>2 DEF Stands, Live, Entries, ProjectOf, Given

LEMMA TellsSame ==
  ASSUME HostInv, NEW r \in Requests, Tells(r), UNCHANGED <<hosts, assets, vendors>>, req'[r] = req[r]
  PROVE  Tells(r)'
<1>1. /\ HostRight(r) => HostRight(r)'
      /\ ListsRight(r) => ListsRight(r)'
      /\ VendorRead(r) => VendorRead(r)'
      /\ EntriesRight(r) => EntriesRight(r)'
  BY HostRightSame, ListsRightSame, VendorReadSame, EntriesRightSame
<1>2. LinksRead(r) => LinksRead(r)'
  <2>1. Dropped(req[r].form)' = Dropped(req[r].form)
    BY DEF Dropped, ActiveOn, Live
  <2>2. QED
    BY <2>1 DEF LinksRead
<1>3. Live(hosts)' = Live(hosts) /\ Live(assets)' = Live(assets)
  BY DEF Live
<1>4. req[r].phase = "ended" /\ Verdict(r) => Verdict(r)'
  <2>1. req[r].phase = "ended" => req[r].end \in Ends \ {"none"}
    BY DEF HostInv, ReqInv, Fits, Request
  <2>2. CASE req[r].end = "done" /\ req[r].kind = "delete"
    BY <1>3, <2>2 DEF Verdict
  <2>3. CASE req[r].end = "done" /\ req[r].kind # "delete"
    BY <2>3, StandsSame DEF Verdict
  <2>4. CASE req[r].end \in Ends \ {"none", "done"}
    BY <2>4 DEF Verdict, Ends
  <2>5. QED
    BY <2>1, <2>2, <2>3, <2>4
<1>5. QED
  BY <1>1, <1>2, <1>3, <1>4 DEF Tells

LEMMA TruthStep ==
  ASSUME HostInv, HostInv', TruthInv, [Next]_vars
  PROVE  TruthInv'
<1>1. SUFFICES ASSUME NEW r \in Requests, req'[r].phase # "new"
               PROVE  /\ req'[r].base + req'[r].wrote <= commits'
                      /\ Quiet(r)' => Tells(r)'
  BY DEF TruthInv
<1>2. /\ req[r].base \in Nat /\ req[r].wrote \in Nat /\ commits \in Nat
      /\ req'[r].base \in Nat /\ req'[r].wrote \in Nat /\ commits' \in Nat
  BY DEF HostInv, ReqInv, Request
<1>3. ASSUME req'[r] = req[r], \/ UNCHANGED <<hosts, assets, vendors, commits>>
                               \/ commits' = commits + 1
      PROVE  /\ req'[r].base + req'[r].wrote <= commits'
             /\ Quiet(r)' => Tells(r)'
  <2>1. req[r].base + req[r].wrote <= commits /\ (Quiet(r) => Tells(r))
    BY <1>1, <1>3 DEF TruthInv
  <2>2. CASE UNCHANGED <<hosts, assets, vendors, commits>>
    BY <1>3, <2>1, <2>2, TellsSame DEF Quiet
  <2>3. CASE commits' = commits + 1
    BY <1>2, <1>3, <2>1, <2>3 DEF Quiet
  <2>4. QED
    BY <1>3, <2>2, <2>3
<1>4. CASE Arrive(r)
  <2>1. /\ req'[r].base = commits /\ req'[r].wrote = 0 /\ commits' = commits
        /\ Tells(r)'
    BY <1>4, ArriveTells
  <2>2. QED
    BY <1>2, <2>1
<1>5. CASE Step(r)
  <2>1. Told(r) /\ req[r].phase # "new"
    BY <1>5, StepTold
  <2>2. req[r].base + req[r].wrote <= commits /\ (Quiet(r) => Tells(r))
    BY <2>1 DEF TruthInv
  <2>3. /\ req'[r].base + req'[r].wrote <= commits'
        /\ Quiet(r)' => Quiet(r)
    BY <1>2, <2>1, <2>2 DEF Told, Quiet
  <2>4. QED
    BY <2>1, <2>2, <2>3 DEF Told
<1>6. ASSUME NEW s \in Requests, s # r, Arrive(s) \/ Step(s)
      PROVE  /\ req'[r].base + req'[r].wrote <= commits'
             /\ Quiet(r)' => Tells(r)'
  BY <1>3, <1>6, OnlyOwn, StepCommits
<1>7. CASE Others
  BY <1>3, <1>7, OthersTouchNoRequest DEF Commits
<1>8. CASE UNCHANGED vars
  BY <1>3, <1>8 DEF vars, tables
<1>9. QED
  BY <1>4, <1>5, <1>6, <1>7, <1>8 DEF Next

LEMMA TruthInit ==
  ASSUME Init
  PROVE  TruthInv
  BY BlankTyped DEF Init, TruthInv

THEOREM TruthInductive == Spec => []TruthInv
<1>1. Init => TruthInv
  BY TruthInit
<1>2. HostInv /\ HostInv' /\ TruthInv /\ [Next]_vars => TruthInv'
  BY TruthStep
<1>3. QED
  BY <1>1, <1>2, HostInductive, PTL DEF Spec

(* If nobody else has committed since a form arrived, its answer is true:  *)
(* after a success the tables hold what was typed and no other address of  *)
(* the host, after an error the form has written nothing                   *)
(* (routes/ui/hosts/mutations.py, one commit per call of the repository).  *)
THEOREM AnswersTrue == Spec => []AnswerTellsTruth
<1>1. HostInv /\ TruthInv => AnswerTellsTruth
  <2>1. SUFFICES ASSUME HostInv, TruthInv, NEW r \in Requests, req[r].phase = "ended",
                        commits = req[r].base + req[r].wrote
                 PROVE  Verdict(r)
    BY DEF AnswerTellsTruth, Verdict
  <2>2. Tells(r)
    BY <2>1 DEF TruthInv, Quiet
  <2>3. QED
    BY <2>1, <2>2 DEF Tells
<1>2. QED
  BY <1>1, HostInductive, TruthInductive, PTL
===============================================================================
