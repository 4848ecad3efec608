---------------------------- MODULE ImportApplyProofs ----------------------------
(***************************************************************************)
(* Proofs about ImportApply, for any files, tables, number of imports and  *)
(* requests of others: the types, the foreign keys, who may change         *)
(* anything, and which runs the audit log records.                         *)
(***************************************************************************)
EXTENDS ImportApply, SequenceTheorems, TLAPS

Uploads ==
  (UNION {Demands[name].uploads : name \in DOMAIN Demands})
    \union {FromConnector(f) : f \in UNION {Demands[name].bundles : name \in DOMAIN Demands}}

Tally  == [create : Nat, update : Nat, skip : Nat]
Counts == [Section -> Tally]
RunIds == [Names -> Ids \union {Nil, Temp}]

Known == (SUBSET Names) \union [Ids -> Project \union {Nil}] \union [Ids -> Host \union {Nil}]
           \union {Nil}

Goals == [type : Types, project : Ids \union {Nil, Temp}, host : Ids \union {Nil, Temp},
          notes : Notes \union {Discovered, Nil}, archived : BOOLEAN, tags : SUBSET TagNames]

Run == [phase : Phases, source : {"form", "thread"}, upload : Uploads \union {Nil},
        dry : BOOLEAN, editor : BOOLEAN, bundle : Bundle \union ScanBundle,
        at : Nat \ {0}, known : Known, projectIds : RunIds, hostIds : RunIds,
        row : Asset \union {Nil}, goal : Goals \union {Nil}, count : Counts,
        base : Nat, wrote : Nat, alone : BOOLEAN, end : Ends]

Applying  == {"vendors", "projects", "hosts", "assets", "tags", "create", "update", "archive"}
Importing == {"parsed", "valid"} \union Applying
Scanning  == {"scan", "discover"}

(* What the validator leaves of the values a file may have.                *)
Checked(b) ==
  /\ \A k \in DOMAIN b.vendors  : b.vendors[k] \in Names
  /\ \A k \in DOMAIN b.projects : /\ b.projects[k].name \in Names
                                  /\ b.projects[k].color \in Colors \union {Nil}
  /\ \A k \in DOMAIN b.hosts    : b.hosts[k] \in Host
  /\ \A k \in DOMAIN b.assets   :
       /\ b.assets[k].ip \in Ips /\ b.assets[k].type \in Types
       /\ b.assets[k].tags # Nil => TagsIn(b.assets[k].tags) \subseteq TagNames

(* What a run carries fits the phase it is in.                             *)
Placed(q) ==
  /\ q.phase # "new" => q.upload # Nil
  /\ q.phase \in Importing => q.upload.kind # "nmap" /\ q.bundle \in Bundle
  /\ q.phase \in Scanning => q.upload.kind = "nmap" /\ q.bundle \in ScanBundle
  /\ q.phase \in Applying \union {"valid"} => Checked(q.bundle)
  /\ q.phase \in {"tags", "create", "update", "archive", "discover"}
       => q.at \in DOMAIN q.bundle.assets
  /\ q.phase = "tags" => q.row \in Asset
  /\ q.phase = "update" => q.goal \in Goals
  /\ q.phase = "archive" => AssetOf(q).archived \in BOOLEAN

(* Only an editor's apply run gets as far as the writes.                   *)
Allowed(q) ==
  /\ q.phase = "ended" <=> q.end # "none"
  /\ q.phase \notin {"new", "posted", "ended"} => q.dry \/ q.editor
  /\ q.phase \in {"create", "update", "archive", "discover"} => ~q.dry
  /\ q.wrote > 0 => q.editor /\ ~q.dry

(* Every entry that was dealt with is counted once.                        *)
Sum(tally) == tally.create + tally.update + tally.skip
Sums(q, v, p, h, a) ==
  /\ Sum(q.count["vendors"]) = v /\ Sum(q.count["projects"]) = p
  /\ Sum(q.count["hosts"]) = h   /\ Sum(q.count["assets"]) = a

Counting(q) ==
  LET V == Len(q.bundle.vendors) P == Len(q.bundle.projects)
      H == Len(q.bundle.hosts)   A == Len(q.bundle.assets) IN
  /\ q.phase \in {"posted", "parsed", "valid"} => Sums(q, 0, 0, 0, 0)
  /\ q.phase = "vendors"  => q.at - 1 <= V /\ Sums(q, q.at - 1, 0, 0, 0)
  /\ q.phase = "projects" => q.at - 1 <= P /\ Sums(q, V, q.at - 1, 0, 0)
  /\ q.phase = "hosts"    => q.at - 1 <= H /\ Sums(q, V, P, q.at - 1, 0)
  /\ q.phase \in {"assets", "tags"} => q.at - 1 <= A /\ Sums(q, V, P, H, q.at - 1)
  /\ q.phase \in {"create", "update", "archive"} => Sums(q, V, P, H, q.at)
  /\ q.end = "completed" /\ q.upload.kind # "nmap" => Sums(q, V, P, H, A)

RunOK(q) == q \in Run /\ Placed(q) /\ Allowed(q) /\ Counting(q)

(* The runs that the audit log records.                                    *)
Recorded(q) == q.end = "completed" /\ ~q.dry /\ q.upload.kind # "nmap"

TablesOK ==
  /\ vendors \in SUBSET Names
  /\ projects \in [Ids -> Project \union {Nil}] /\ hosts \in [Ids -> Host \union {Nil}]
  /\ assets \in [Ips -> Asset \union {Nil}]
  /\ Linked(vendors, projects, hosts, assets)

ImportInv ==
  /\ TablesOK /\ demand \in DOMAIN Demands /\ commits \in Nat
  /\ audit \subseteq Runs /\ loop \in Runs \union {Nil}
  /\ run \in [Runs -> Run]
  /\ \A j \in Runs : RunOK(run[j]) /\ (j \in audit <=> Recorded(run[j]))

-----------------------------------------------------------------------------
(* Files and counts.                                                       *)

LEMMA UploadsOK == \A u \in Uploads : UploadOK(u)
  BY ImportAssumption DEF Uploads, DemandOK

LEMMA FilesFit ==
  ASSUME NEW u \in Uploads, Readable(u)
  PROVE  Parsed(u) \in Bundle \union ScanBundle /\ u.kind \in {"bundle", "csv", "nmap"}
         /\ (u.kind = "nmap" => Parsed(u) \in ScanBundle)
         /\ (u.kind # "nmap" => Parsed(u) \in Bundle)
  BY UploadsOK DEF UploadOK

LEMMA EmptyFits == EmptyBundle \in Bundle
  <1>1. \A S : <<>> \in Seq(S)
    OBVIOUS
  <1> QED BY <1>1, SMT DEF EmptyBundle, Bundle

LEMMA ZeroCounts == Zero \in Counts /\ \A s \in Section : Sum(Zero[s]) = 0
  BY SMT DEF Zero, Counts, Tally, Section, Sum

Hows == {"create", "update", "skip"}

LEMMA CountOne ==
  ASSUME NEW q, q.count \in Counts, NEW s \in Section, NEW how \in Hows
  PROVE  /\ Counted(q, s, how) \in Counts
         /\ Sum(Counted(q, s, how)[s]) = Sum(q.count[s]) + 1
         /\ \A t \in Section \ {s} : Counted(q, s, how)[t] = q.count[t]
  <1> DEFINE c == [q.count[s] EXCEPT ![how] = @ + 1]
  <1>1. q.count[s] \in Tally
    BY DEF Counts
  <1>2. Counted(q, s, how) = [q.count EXCEPT ![s] = c]
    BY DEF Counted
  <1>3. c \in Tally /\ Sum(c) = Sum(q.count[s]) + 1
    <2>1. CASE how = "create"  BY <1>1, <2>1, SMT DEF Tally, Sum
    <2>2. CASE how = "update"  BY <1>1, <2>2, SMT DEF Tally, Sum
    <2>3. CASE how = "skip"    BY <1>1, <2>3, SMT DEF Tally, Sum
    <2> QED BY <2>1, <2>2, <2>3 DEF Hows
  <1> HIDE DEF c
  <1> QED BY <1>2, <1>3, SMT DEF Counts

(* Counts before and after an entry of the section s.                      *)
CountsOne(q, r, s) ==
  /\ Sum(r.count[s]) = Sum(q.count[s]) + 1
  /\ \A t \in Section \ {s} : r.count[t] = q.count[t]

LEMMA SumNat == ASSUME NEW c \in Counts, NEW s \in Section PROVE Sum(c[s]) \in Nat
  <1>1. c[s] \in Tally
    BY DEF Counts
  <1> QED BY <1>1, SMT DEF Tally, Sum

LEMMA SumsOne ==
  ASSUME NEW q \in Run, NEW r \in Run, NEW s \in Section, CountsOne(q, r, s),
         NEW v \in Nat, NEW p \in Nat, NEW h \in Nat, NEW a \in Nat, Sums(q, v, p, h, a)
  PROVE  Sums(r, IF s = "vendors" THEN v + 1 ELSE v, IF s = "projects" THEN p + 1 ELSE p,
                 IF s = "hosts" THEN h + 1 ELSE h, IF s = "assets" THEN a + 1 ELSE a)
  BY SMT DEF Sums, CountsOne, Section

-----------------------------------------------------------------------------
(* One step of a run keeps it what it should be.                           *)

LEMMA Lengths ==
  ASSUME NEW b \in Bundle \union ScanBundle
  PROVE  /\ Len(b.vendors) \in Nat /\ Len(b.projects) \in Nat
         /\ Len(b.hosts) \in Nat /\ Len(b.assets) \in Nat
         /\ DOMAIN b.vendors = 1..Len(b.vendors) /\ DOMAIN b.projects = 1..Len(b.projects)
         /\ DOMAIN b.hosts = 1..Len(b.hosts) /\ DOMAIN b.assets = 1..Len(b.assets)
  <1>1. CASE b \in Bundle
    BY <1>1, SMT DEF Bundle
  <1>2. CASE b \in ScanBundle
    <2>1. b.vendors = <<>> /\ b.projects = <<>> /\ b.hosts = <<>>
          /\ b.assets \in Seq([ip : Ips, type : Types])
      BY <1>2, SMT DEF ScanBundle
    <2> QED BY <2>1, SMT
  <1> QED BY <1>1, <1>2

(* r is q with the entry of its section dealt with.                        *)
Handled(q, r, s) ==
  /\ r.phase = q.phase /\ r.upload = q.upload /\ r.dry = q.dry /\ r.editor = q.editor
  /\ r.bundle = q.bundle /\ r.at = q.at + 1 /\ r.end = q.end
  /\ CountsOne(q, r, s) /\ (r.wrote = q.wrote \/ ~q.dry)

LEMMA HandledOK ==
  ASSUME NEW q, RunOK(q), NEW r \in Run, NEW s \in {"vendors", "projects", "hosts"},
         q.phase = s, q.at \in DOMAIN q.bundle[s], Handled(q, r, s)
  PROVE  RunOK(r)
  <1>1. q \in Run /\ Placed(q) /\ Allowed(q) /\ Counting(q)
    BY DEF RunOK
  <1>2. Placed(r)
    BY <1>1, SMT DEF Placed, Handled, Importing, Applying, Scanning
  <1>3. Allowed(r)
    BY <1>1, SMT DEF Allowed, Handled
  <1>4. Counting(r)
    <2>1. q.bundle \in Bundle \union ScanBundle /\ q.at \in Nat \ {0}
      BY <1>1 DEF Run
    <2>2. r.end = "none"
      BY <1>1 DEF Allowed, Handled
    <2>3. CASE s = "vendors"
      <3>1. Sums(q, q.at - 1, 0, 0, 0) /\ q.at <= Len(q.bundle.vendors)
        BY <1>1, <2>1, <2>3, Lengths DEF Counting
      <3>2. Sums(r, q.at, 0, 0, 0)
        BY <3>1, <1>1, <2>1, <2>3, SMT DEF Sums, Handled, CountsOne, Section
      <3> QED BY <2>1, <2>2, <2>3, <3>1, <3>2, SMT DEF Counting, Handled
    <2>4. CASE s = "projects"
      <3> DEFINE V == Len(q.bundle.vendors)
      <3>1. Sums(q, V, q.at - 1, 0, 0) /\ q.at <= Len(q.bundle.projects)
        BY <1>1, <2>1, <2>4, Lengths DEF Counting
      <3>2. Sums(r, V, q.at, 0, 0)
        BY <3>1, <1>1, <2>1, <2>4, SMT DEF Sums, Handled, CountsOne, Section
      <3> QED BY <2>1, <2>2, <2>4, <3>1, <3>2, SMT DEF Counting, Handled
    <2>5. CASE s = "hosts"
      <3> DEFINE V == Len(q.bundle.vendors)
                 P == Len(q.bundle.projects)
      <3>1. Sums(q, V, P, q.at - 1, 0) /\ q.at <= Len(q.bundle.hosts)
        BY <1>1, <2>1, <2>5, Lengths DEF Counting
      <3>2. Sums(r, V, P, q.at, 0)
        BY <3>1, <1>1, <2>1, <2>5, SMT DEF Sums, Handled, CountsOne, Section
      <3> QED BY <2>1, <2>2, <2>5, <3>1, <3>2, SMT DEF Counting, Handled
    <2> QED BY <2>3, <2>4, <2>5
  <1> QED BY <1>1, <1>2, <1>3, <1>4 DEF RunOK

(* x is q with the entry counted, and perhaps an id learnt or a row written.*)
Touched(q, x, s, how) ==
  /\ x \in Run /\ x.count = Counted(q, s, how)
  /\ x.phase = q.phase /\ x.upload = q.upload /\ x.dry = q.dry /\ x.editor = q.editor
  /\ x.bundle = q.bundle /\ x.at = q.at /\ x.end = q.end
  /\ (x.wrote = q.wrote \/ ~q.dry)

LEMMA AdvanceOK ==
  ASSUME NEW q, RunOK(q), NEW s \in {"vendors", "projects", "hosts"}, NEW how \in Hows,
         q.phase = s, q.at <= Len(q.bundle[s]), NEW x, Touched(q, x, s, how)
  PROVE  LET r == [x EXCEPT !.at = @ + 1] IN RunOK(r) /\ r.end = "none" /\ r.phase = s
  <1> DEFINE r == [x EXCEPT !.at = @ + 1]
  <1>1. q \in Run /\ Allowed(q)
    BY DEF RunOK
  <1>2. q.at \in DOMAIN q.bundle[s]
    <2>1. q.bundle \in Bundle \union ScanBundle /\ q.at \in Nat \ {0}
      BY <1>1 DEF Run
    <2>2. CASE s = "vendors"   BY <2>1, <2>2, Lengths
    <2>3. CASE s = "projects"  BY <2>1, <2>3, Lengths
    <2>4. CASE s = "hosts"     BY <2>1, <2>4, Lengths
    <2> QED BY <2>2, <2>3, <2>4
  <1>3. x \in Run /\ x.at \in Nat
    BY SMT DEF Touched, Run
  <1>4. r \in Run /\ r.at = x.at + 1 /\ r.count = x.count /\ r.phase = x.phase
        /\ r.upload = x.upload /\ r.dry = x.dry /\ r.editor = x.editor
        /\ r.bundle = x.bundle /\ r.end = x.end /\ r.wrote = x.wrote
    BY <1>3, SMT DEF Run
  <1> HIDE DEF r
  <1>5. s \in Section /\ q.count \in Counts
    BY <1>1 DEF Section, Run
  <1>6. CountsOne(q, r, s)
    BY <1>4, <1>5, CountOne DEF CountsOne, Touched
  <1>7. Handled(q, r, s)
    BY <1>4, <1>6 DEF Handled, Touched
  <1>8. q.end = "none"
    BY <1>1 DEF Allowed
  <1>9. RunOK(r) /\ r.end = "none" /\ r.phase = s
    BY <1>1, <1>2, <1>4, <1>7, <1>8, HandledOK DEF Handled
  <1> QED BY <1>9 DEF r

(* A run that ends, whatever it was at.                                    *)
Stopped(q, e, alone) ==
  [q EXCEPT !.phase = "ended", !.end = e, !.known = Nil, !.row = Nil, !.goal = Nil,
            !.alone = alone]

LEMMA StopOK ==
  ASSUME NEW q, RunOK(q), q.phase \notin {"new", "ended"}, NEW e \in Ends \ {"none"},
         NEW alone \in BOOLEAN,
         e = "completed" /\ q.upload.kind # "nmap" =>
           Sums(q, Len(q.bundle.vendors), Len(q.bundle.projects), Len(q.bundle.hosts),
                Len(q.bundle.assets))
  PROVE  LET r == Stopped(q, e, alone) IN
         RunOK(r) /\ r.phase = "ended" /\ r.end = e /\ r.dry = q.dry /\ r.upload = q.upload
  <1> DEFINE r == Stopped(q, e, alone)
  <1>1. q \in Run /\ Placed(q) /\ Allowed(q) /\ Counting(q)
    BY DEF RunOK
  <1>2. r \in Run
    <2>1. "ended" \in Phases /\ Nil \in Known
      BY DEF Phases, Known
    <2> QED BY <1>1, <2>1, Zenon DEF Run, Stopped
  <1>3. /\ r.phase = "ended" /\ r.end = e /\ r.dry = q.dry /\ r.upload = q.upload
        /\ r.editor = q.editor /\ r.wrote = q.wrote /\ r.bundle = q.bundle /\ r.count = q.count
    BY <1>1, SMT DEF Run, Stopped
  <1> HIDE DEF r
  <1>4. Placed(r)
    BY <1>1, <1>3 DEF Placed, Importing, Applying, Scanning
  <1>5. Allowed(r)
    BY <1>1, <1>3 DEF Allowed
  <1>6. Counting(r)
    BY <1>3, Zenon DEF Counting, Sums
  <1>7. RunOK(r)
    BY <1>2, <1>4, <1>5, <1>6 DEF RunOK
  <1> QED BY <1>3, <1>7 DEF r

-----------------------------------------------------------------------------
(* One run moves, the others stay.                                         *)

LEMMA Framed ==
  ASSUME ImportInv, NEW j \in Runs, run' = [run EXCEPT ![j] = run'[j]], RunOK(run'[j]),
         loop' \in {loop, j, Nil}, run[j].phase # "ended", run'[j].end # "completed",
         audit' = audit, demand' = demand, commits' \in {commits, commits + 1}, TablesOK'
  PROVE  ImportInv'
  <1>1. run' \in [Runs -> Run]
    BY DEF ImportInv, RunOK
  <1>2. j \notin audit'
    BY DEF ImportInv, RunOK, Allowed, Recorded
  <1>3. \A i \in Runs : RunOK(run'[i]) /\ (i \in audit' <=> Recorded(run'[i]))
    <2> SUFFICES ASSUME NEW i \in Runs
                 PROVE  RunOK(run'[i]) /\ (i \in audit' <=> Recorded(run'[i]))
      OBVIOUS
    <2>1. CASE i = j
      BY <2>1, <1>2 DEF Recorded
    <2>2. CASE i # j
      <3>1. run'[i] = run[i]
        BY <2>2 DEF ImportInv
      <3> QED BY <3>1 DEF ImportInv
    <2> QED BY <2>1, <2>2
  <1>4. commits' \in Nat
    BY DEF ImportInv
  <1> QED BY <1>1, <1>3, <1>4 DEF ImportInv

(* Reads leave the tables as they are.                                     *)
LEMMA ReadsKeep ==
  ASSUME TablesOK, Reads
  PROVE  TablesOK' /\ audit' = audit /\ demand' = demand /\ commits' = commits
  BY DEF TablesOK, Reads, tables, Linked, Live

(* A run that ends without having been applied.                            *)
LEMMA Failing ==
  ASSUME ImportInv, NEW j \in Runs, run[j].phase \notin {"new", "ended"},
         NEW e \in Ends \ {"none", "completed"}, Stop(j, run[j], e), Reads
  PROVE  ImportInv' /\ run'[j].phase # "discover"
  <1> DEFINE alone == (commits = run[j].base + run[j].wrote)
             r == Stopped(run[j], e, alone)
  <1>1. RunOK(run[j]) /\ run \in [Runs -> Run] /\ TablesOK
    BY DEF ImportInv
  <1>2. run' = [run EXCEPT ![j] = r] /\ loop' \in {loop, j, Nil}
    BY DEF Stop, Stopped
  <1>3. run'[j] = r
    BY <1>1, <1>2
  <1>4. RunOK(r) /\ r.end = e /\ r.phase = "ended"
    <2>1. alone \in BOOLEAN
      OBVIOUS
    <2> HIDE DEF alone
    <2> QED BY <1>1, <2>1, StopOK
  <1>5. TablesOK' /\ audit' = audit /\ demand' = demand /\ commits' = commits
    BY <1>1, ReadsKeep
  <1> HIDE DEF r
  <1> QED BY <1>2, <1>3, <1>4, <1>5, Framed

-----------------------------------------------------------------------------
(* The handlers: a run is asked for, and its file read.                    *)

LEMMA NewOK == NewRun \in Run /\ RunOK(NewRun) /\ ~Recorded(NewRun)
  <1>1. NewRun \in Run
    <2>1. "new" \in Phases /\ "none" \in Ends /\ Nil \in Known
      BY DEF Phases, Ends, Known
    <2>2. NoIds \in RunIds
      BY DEF NoIds, RunIds
    <2> QED BY <2>1, <2>2, EmptyFits, ZeroCounts, SMT DEF NewRun, Run
  <1>2. NewRun.phase = "new" /\ NewRun.end = "none" /\ NewRun.wrote = 0
    BY DEF NewRun
  <1> HIDE DEF NewRun
  <1>3. Placed(NewRun)
    BY <1>2 DEF Placed, Importing, Applying, Scanning
  <1>4. Allowed(NewRun)
    BY <1>2 DEF Allowed
  <1>5. Counting(NewRun)
    BY <1>2, Zenon DEF Counting
  <1> QED BY <1>1, <1>2, <1>3, <1>4, <1>5 DEF RunOK, Recorded

LEMMA DemandsTyped ==
  ASSUME demand \in DOMAIN Demands
  PROVE  /\ \A u \in Asked.uploads : u \in Uploads
         /\ \A f \in Asked.bundles : FromConnector(f) \in Uploads /\ Readable(FromConnector(f))
         /\ Asked.modes \subseteq BOOLEAN
         /\ \A s \in Asked.seeds :
              s \in Tables /\ Linked(s.vendors, s.projects, s.hosts, s.assets)
  BY ImportAssumption DEF Asked, Uploads, DemandOK

LEMMA PostedOK ==
  ASSUME NEW u \in Uploads, NEW dry \in BOOLEAN, NEW editor \in BOOLEAN
  PROVE  LET r == [NewRun EXCEPT !.phase = "posted", !.upload = u, !.dry = dry,
                                 !.editor = editor]
         IN RunOK(r) /\ r.end = "none"
  <1> DEFINE r == [NewRun EXCEPT !.phase = "posted", !.upload = u, !.dry = dry,
                                 !.editor = editor]
  <1>1. r \in Run
    <2>1. "posted" \in Phases
      BY DEF Phases
    <2> QED BY <2>1, NewOK, Zenon DEF Run
  <1>2. /\ r.phase = "posted" /\ r.upload = u /\ r.end = "none" /\ r.wrote = 0
        /\ r.count = Zero
    BY DEF NewRun
  <1> HIDE DEF r
  <1>3. Placed(r)
    <2>1. u # Nil
      BY UploadsOK DEF UploadOK
    <2> QED BY <1>2, <2>1 DEF Placed, Importing, Applying, Scanning
  <1>4. Allowed(r)
    BY <1>2 DEF Allowed
  <1>5. Counting(r)
    BY <1>2, ZeroCounts, Zenon DEF Counting, Sums, Section
  <1> QED BY <1>1, <1>2, <1>3, <1>4, <1>5 DEF RunOK, r

LEMMA PostKeeps ==
  ASSUME ImportInv, NEW j \in Runs, Post(j)
  PROVE  ImportInv'
  <1>1. PICK u \in Asked.uploads, dry \in Asked.modes, editor \in BOOLEAN :
          Continue(j, [NewRun EXCEPT !.phase = "posted", !.upload = u, !.dry = dry,
                                     !.editor = editor])
    BY DEF Post
  <1> DEFINE r == [NewRun EXCEPT !.phase = "posted", !.upload = u, !.dry = dry,
                                 !.editor = editor]
  <1>2. u \in Uploads /\ dry \in BOOLEAN
    BY <1>1, DemandsTyped DEF ImportInv
  <1>3. RunOK(r) /\ r.end = "none"
    BY <1>2, PostedOK
  <1>4. run' = [run EXCEPT ![j] = r] /\ loop' = loop
    BY <1>1 DEF Continue
  <1> HIDE DEF r
  <1>5. run'[j] = r /\ run[j].phase # "ended"
    BY <1>4 DEF ImportInv, Post
  <1>6. TablesOK' /\ audit' = audit /\ demand' = demand /\ commits' = commits
    BY ReadsKeep DEF Post, ImportInv
  <1> QED BY <1>3, <1>4, <1>5, <1>6, Framed

LEMMA ConnectedOK ==
  ASSUME NEW f, FromConnector(f) \in Uploads, Readable(FromConnector(f)),
         NEW dry \in BOOLEAN, NEW base \in Nat
  PROVE  LET r == [NewRun EXCEPT !.phase = "parsed", !.source = "thread",
                     !.upload = FromConnector(f), !.dry = dry,
                     !.editor = TRUE, !.bundle = ParseBundle(f), !.base = base]
         IN RunOK(r) /\ r.end = "none"
  <1> DEFINE u == FromConnector(f)
             b == ParseBundle(f)
             r == [NewRun EXCEPT !.phase = "parsed", !.source = "thread", !.upload = u,
                     !.dry = dry, !.editor = TRUE, !.bundle = b, !.base = base]
  <1>1. u \in Uploads /\ u # Nil /\ u.kind # "nmap" /\ b \in Bundle
    <2>1. u.kind = "bundle" /\ u.file = f
      BY DEF FromConnector
    <2>2. Parsed(u) = b
      BY <2>1 DEF Parsed
    <2>3. u # Nil /\ Parsed(u) \in Bundle
      BY <2>1, UploadsOK, FilesFit DEF UploadOK
    <2> QED BY <2>1, <2>2, <2>3
  <1> HIDE DEF u, b
  <1>2. r \in Run
    <2>1. "parsed" \in Phases
      BY DEF Phases
    <2> QED BY <1>1, <2>1, NewOK, Zenon DEF Run
  <1>3. /\ r.phase = "parsed" /\ r.upload = u /\ r.end = "none" /\ r.wrote = 0
        /\ r.editor = TRUE /\ r.bundle = b /\ r.count = Zero
    BY DEF NewRun
  <1> HIDE DEF r
  <1>4. Placed(r)
    BY <1>1, <1>3 DEF Placed, Importing, Applying, Scanning
  <1>5. Allowed(r)
    BY <1>3 DEF Allowed
  <1>6. Counting(r)
    BY <1>3, ZeroCounts, Zenon DEF Counting, Sums, Section
  <1>7. RunOK(r) /\ r.end = "none"
    BY <1>2, <1>3, <1>4, <1>5, <1>6 DEF RunOK
  <1> QED BY <1>7 DEF r, u, b

LEMMA ConnectKeeps ==
  ASSUME ImportInv, NEW j \in Runs, Connect(j)
  PROVE  ImportInv'
  <1>1. PICK f \in Asked.bundles, dry \in Asked.modes :
          Continue(j, [NewRun EXCEPT !.phase = "parsed", !.source = "thread",
                         !.upload = FromConnector(f), !.dry = dry,
                         !.editor = TRUE, !.bundle = ParseBundle(f), !.base = commits])
    BY DEF Connect
  <1> DEFINE r == [NewRun EXCEPT !.phase = "parsed", !.source = "thread",
                     !.upload = FromConnector(f), !.dry = dry,
                     !.editor = TRUE, !.bundle = ParseBundle(f), !.base = commits]
  <1>2. FromConnector(f) \in Uploads /\ Readable(FromConnector(f)) /\ dry \in BOOLEAN
        /\ commits \in Nat
    BY <1>1, DemandsTyped DEF ImportInv
  <1>3. RunOK(r) /\ r.end = "none"
    BY <1>2, ConnectedOK
  <1>4. run' = [run EXCEPT ![j] = r] /\ loop' = loop
    BY <1>1 DEF Continue
  <1> HIDE DEF r
  <1>5. run'[j] = r /\ run[j].phase # "ended"
    BY <1>4 DEF ImportInv, Connect
  <1>6. TablesOK' /\ audit' = audit /\ demand' = demand /\ commits' = commits
    BY ReadsKeep DEF Connect, ImportInv
  <1> QED BY <1>3, <1>4, <1>5, <1>6, Framed

LEMMA ReceivedOK ==
  ASSUME NEW q, RunOK(q), q.phase = "posted", q.dry \/ q.editor, Readable(q.upload),
         NEW base \in Nat
  PROVE  LET r == [q EXCEPT !.bundle = Parsed(q.upload), !.base = base,
                     !.phase = IF q.upload.kind = "nmap" THEN "scan" ELSE "parsed"]
         IN RunOK(r) /\ r.end = "none"
  <1> DEFINE b == Parsed(q.upload)
             to == IF q.upload.kind = "nmap" THEN "scan" ELSE "parsed"
             r == [q EXCEPT !.bundle = b, !.base = base, !.phase = to]
  <1>1. q \in Run /\ Placed(q) /\ Allowed(q) /\ Counting(q)
    BY DEF RunOK
  <1>2. /\ b \in Bundle \union ScanBundle
        /\ q.upload.kind = "nmap" => b \in ScanBundle
        /\ q.upload.kind # "nmap" => b \in Bundle
    <2>1. q.upload \in Uploads
      BY <1>1 DEF Run, Placed
    <2> QED BY <2>1, FilesFit
  <1>3. to \in {"scan", "parsed"} /\ (to = "scan" <=> q.upload.kind = "nmap")
    OBVIOUS
  <1> HIDE DEF b, to
  <1>4. r \in Run
    <2>1. to \in Phases
      BY <1>3 DEF Phases
    <2> QED BY <1>1, <1>2, <2>1, Zenon DEF Run
  <1>5. /\ r.phase = to /\ r.upload = q.upload /\ r.end = q.end /\ r.wrote = q.wrote
        /\ r.editor = q.editor /\ r.dry = q.dry /\ r.bundle = b /\ r.count = q.count
    BY <1>1, SMT DEF Run
  <1> HIDE DEF r
  <1>6. Placed(r)
    BY <1>1, <1>2, <1>3, <1>5 DEF Placed, Importing, Applying, Scanning
  <1>7. Allowed(r) /\ r.end = "none"
    BY <1>1, <1>3, <1>5 DEF Allowed
  <1>8. Counting(r)
    <2>1. Sums(q, 0, 0, 0, 0)
      BY <1>1, Zenon DEF Counting
    <2>2. Sums(r, 0, 0, 0, 0)
      BY <2>1, <1>5 DEF Sums
    <2> QED BY <1>3, <1>5, <1>7, <2>2, Zenon DEF Counting
  <1>9. RunOK(r)
    BY <1>4, <1>6, <1>7, <1>8 DEF RunOK
  <1> QED BY <1>7, <1>9 DEF r, b, to

LEMMA ReceiveKeeps ==
  ASSUME ImportInv, NEW j \in Runs, Receive(j)
  PROVE  ImportInv'
  <1> DEFINE q == run[j]
  <1>1. q.phase = "posted" /\ Reads /\ RunOK(q)
    BY DEF Receive, ImportInv
  <1>2. CASE Stop(j, q, "forbidden") \/ Stop(j, q, "refused") \/ Stop(j, q, "invalid")
    <2>1. {"forbidden", "refused", "invalid"} \subseteq Ends \ {"none", "completed"}
      BY DEF Ends
    <2> QED BY <1>1, <1>2, <2>1, Failing
  <1>3. CASE /\ q.dry \/ q.editor
             /\ Readable(q.upload)
             /\ run' = [run EXCEPT ![j] = [q EXCEPT !.bundle = Parsed(q.upload),
                  !.base = commits,
                  !.phase = IF q.upload.kind = "nmap" THEN "scan" ELSE "parsed"]]
             /\ loop' = j
    <2> DEFINE r == [q EXCEPT !.bundle = Parsed(q.upload), !.base = commits,
                       !.phase = IF q.upload.kind = "nmap" THEN "scan" ELSE "parsed"]
    <2>1. RunOK(r) /\ r.end = "none"
      BY <1>1, <1>3, ReceivedOK DEF ImportInv
    <2>2. q \in Run /\ run \in [Runs -> Run]
      BY <1>1 DEF RunOK, ImportInv
    <2>3. run'[j] = r /\ run' = [run EXCEPT ![j] = r]
      BY <1>3, <2>2
    <2> HIDE DEF r
    <2>4. TablesOK' /\ audit' = audit /\ demand' = demand /\ commits' = commits
      BY <1>1, ReadsKeep DEF ImportInv
    <2> QED BY <1>1, <1>3, <2>1, <2>3, <2>4, Framed
  <1> QED BY <1>2, <1>3 DEF Receive

-----------------------------------------------------------------------------
(* The validator, and the opening of each section.                         *)

LEMMA SeqElement == \A S : \A s \in Seq(S) : \A k \in DOMAIN s : s[k] \in S
  OBVIOUS

LEMMA ValidChecked ==
  ASSUME NEW b \in Bundle, NEW V, NEW P, NEW H, Valid(b, V, P, H)
  PROVE  Checked(b)
  <1>1. \A k \in DOMAIN b.vendors : b.vendors[k] \in Names
    <2>1. b.vendors \in Seq(Names \union {Blank})
      BY DEF Bundle
    <2> QED BY <2>1 DEF Valid
  <1>2. \A k \in DOMAIN b.projects : /\ b.projects[k].name \in Names
                                     /\ b.projects[k].color \in Colors \union {Nil}
    <2>1. b.projects \in Seq([name : Names \union {Blank}, color : Colors \union {Nil, Bad}])
      BY DEF Bundle
    <2>2. \A k \in DOMAIN b.projects :
            b.projects[k] \in [name : Names \union {Blank}, color : Colors \union {Nil, Bad}]
      BY <2>1, SeqElement
    <2>3. \A k \in DOMAIN b.projects : b.projects[k].name # Blank /\ b.projects[k].color # Bad
      BY DEF Valid
    <2> QED BY <2>2, <2>3
  <1>3. \A k \in DOMAIN b.hosts : b.hosts[k] \in Host
    <2>1. b.hosts \in Seq([name : Names \union {Blank}, notes : Notes \union {Nil},
                           vendor : Names \union {Nil}])
      BY DEF Bundle
    <2>2. \A k \in DOMAIN b.hosts : b.hosts[k].name # Blank
      BY DEF Valid
    <2>3. \A k \in DOMAIN b.hosts :
            b.hosts[k] \in [name : Names \union {Blank}, notes : Notes \union {Nil},
                            vendor : Names \union {Nil}]
      BY <2>1, SeqElement
    <2> QED BY <2>2, <2>3, SMT DEF Host
  <1>4. \A k \in DOMAIN b.assets :
          /\ b.assets[k].ip \in Ips /\ b.assets[k].type \in Types
          /\ b.assets[k].tags # Nil => TagsIn(b.assets[k].tags) \subseteq TagNames
    <2> SUFFICES ASSUME NEW k \in DOMAIN b.assets
                 PROVE  /\ b.assets[k].ip \in Ips /\ b.assets[k].type \in Types
                        /\ b.assets[k].tags # Nil => TagsIn(b.assets[k].tags) \subseteq TagNames
      OBVIOUS
    <2> DEFINE a == b.assets[k]
    <2>1. /\ a.ip \in Ips /\ a.type \in Types
          /\ a.tags # Nil => \A t \in DOMAIN a.tags : Lower[a.tags[t]] # Bad
      BY DEF Valid, ValidAsset
    <2>2. a.tags \in Seq(DOMAIN Lower) \union {Nil}
      <3>1. b.assets \in Seq([ip : Ips \union {Bad}, type : Types \union {Bad},
                 project : Names \union {Nil}, host : Names \union {Nil},
                 notes : Notes \union {Nil}, notesGiven : BOOLEAN,
                 tags : Seq(DOMAIN Lower) \union {Nil}, archived : BOOLEAN \union {Nil},
                 merge : BOOLEAN, keepNotes : BOOLEAN, keepType : BOOLEAN])
        BY DEF Bundle
      <3>2. a \in [ip : Ips \union {Bad}, type : Types \union {Bad},
                 project : Names \union {Nil}, host : Names \union {Nil},
                 notes : Notes \union {Nil}, notesGiven : BOOLEAN,
                 tags : Seq(DOMAIN Lower) \union {Nil}, archived : BOOLEAN \union {Nil},
                 merge : BOOLEAN, keepNotes : BOOLEAN, keepType : BOOLEAN]
        BY <3>1, SeqElement, Zenon
      <3> QED BY <3>2
    <2>3. \A t \in DOMAIN Lower : Lower[t] \in TagNames \union {Bad}
      BY ImportAssumption
    <2>4. a.tags # Nil => TagsIn(a.tags) \subseteq TagNames
      <3>1. SUFFICES ASSUME a.tags # Nil, NEW t \in DOMAIN a.tags
                     PROVE  Lower[a.tags[t]] \in TagNames
        BY DEF TagsIn
      <3>2. a.tags[t] \in DOMAIN Lower
        BY <2>2, <3>1
      <3> QED BY <2>1, <2>3, <3>1, <3>2
    <2> QED BY <2>1, <2>4
  <1> QED BY <1>1, <1>2, <1>3, <1>4 DEF Checked

LEMMA ValidatedOK ==
  ASSUME NEW q, RunOK(q), q.phase = "parsed", Checked(q.bundle)
  PROVE  LET r == [q EXCEPT !.phase = "valid"] IN RunOK(r) /\ r.end = "none" /\ r.phase = "valid"
  <1> DEFINE r == [q EXCEPT !.phase = "valid"]
  <1>1. q \in Run /\ Placed(q) /\ Allowed(q) /\ Counting(q)
    BY DEF RunOK
  <1>2. r \in Run
    <2>1. "valid" \in Phases
      BY DEF Phases
    <2> QED BY <1>1, <2>1, Zenon DEF Run
  <1>3. /\ r.phase = "valid" /\ r.upload = q.upload /\ r.end = q.end /\ r.wrote = q.wrote
        /\ r.editor = q.editor /\ r.dry = q.dry /\ r.bundle = q.bundle /\ r.count = q.count
    BY <1>1, SMT DEF Run
  <1> HIDE DEF r
  <1>4. Placed(r)
    BY <1>1, <1>3 DEF Placed, Importing, Applying, Scanning
  <1>5. Allowed(r) /\ r.end = "none"
    BY <1>1, <1>3 DEF Allowed
  <1>6. Counting(r)
    <2>1. Sums(q, 0, 0, 0, 0)
      BY <1>1, Zenon DEF Counting
    <2>2. Sums(r, 0, 0, 0, 0)
      BY <2>1, <1>3 DEF Sums
    <2> QED BY <1>3, <1>5, <2>2, Zenon DEF Counting
  <1>7. RunOK(r)
    BY <1>2, <1>4, <1>5, <1>6 DEF RunOK
  <1> QED BY <1>3, <1>5, <1>7 DEF r

LEMMA ValidateKeeps ==
  ASSUME ImportInv, NEW j \in Runs, Validate(j)
  PROVE  ImportInv' /\ run'[j].phase # "discover"
  <1> DEFINE q == run[j]
             r == [q EXCEPT !.phase = "valid"]
  <1>1. q.phase = "parsed" /\ Reads /\ RunOK(q) /\ run \in [Runs -> Run]
    BY DEF Validate, ImportInv
  <1>2. CASE Valid(q.bundle, vendors, NamesIn(projects), NamesIn(hosts))
    <2>1. run' = [run EXCEPT ![j] = r] /\ loop' = loop
      BY <1>2 DEF Validate, Continue
    <2>2. Checked(q.bundle)
      <3>1. q.bundle \in Bundle
        BY <1>1 DEF RunOK, Placed, Importing
      <3> QED BY <1>2, <3>1, ValidChecked
    <2>3. RunOK(r) /\ r.end = "none" /\ r.phase = "valid"
      BY <1>1, <2>2, ValidatedOK
    <2> HIDE DEF r
    <2>4. run'[j] = r
      BY <1>1, <2>1
    <2>5. TablesOK' /\ audit' = audit /\ demand' = demand /\ commits' = commits
      BY <1>1, ReadsKeep DEF ImportInv
    <2> QED BY <1>1, <2>1, <2>3, <2>4, <2>5, Framed
  <1>3. CASE ~Valid(q.bundle, vendors, NamesIn(projects), NamesIn(hosts))
    <2>1. Stop(j, q, "invalid") /\ "invalid" \in Ends \ {"none", "completed"}
      BY <1>3 DEF Validate, Ends
    <2> QED BY <1>1, <2>1, Failing
  <1> QED BY <1>2, <1>3

(* r is q at the first entry of the next section.                          *)
Opened(q, r) ==
  /\ r.at = 1 /\ r.upload = q.upload /\ r.dry = q.dry /\ r.editor = q.editor
  /\ r.bundle = q.bundle /\ r.end = q.end /\ r.wrote = q.wrote /\ r.count = q.count

LEMMA OpenOK ==
  ASSUME NEW q, RunOK(q), NEW r \in Run, Opened(q, r),
         \/ q.phase = "valid" /\ r.phase = "vendors"
         \/ q.phase = "vendors" /\ r.phase = "projects" /\ q.at > Len(q.bundle.vendors)
         \/ q.phase = "projects" /\ r.phase = "hosts" /\ q.at > Len(q.bundle.projects)
         \/ q.phase = "hosts" /\ r.phase = "assets" /\ q.at > Len(q.bundle.hosts)
  PROVE  RunOK(r) /\ r.end = "none"
  <1> DEFINE V == Len(q.bundle.vendors)
             P == Len(q.bundle.projects)
             H == Len(q.bundle.hosts)
             A == Len(q.bundle.assets)
  <1>1. q \in Run /\ Placed(q) /\ Allowed(q) /\ Counting(q)
    BY DEF RunOK
  <1>2. Placed(r)
    BY <1>1 DEF Placed, Opened, Importing, Applying, Scanning
  <1>3. Allowed(r) /\ r.end = "none"
    BY <1>1 DEF Allowed, Opened
  <1>4. V \in Nat /\ P \in Nat /\ H \in Nat /\ A \in Nat /\ q.at \in Nat
    <2>1. q.bundle \in Bundle \union ScanBundle /\ q.at \in Nat
      BY <1>1 DEF Run
    <2> QED BY <2>1, Lengths
  <1>5. Counting(r)
    <2>1. CASE q.phase = "valid" /\ r.phase = "vendors"
      <3>1. Sums(q, 0, 0, 0, 0)
        BY <1>1, <2>1, Zenon DEF Counting
      <3>2. Sums(r, r.at - 1, 0, 0, 0) /\ r.at - 1 <= V
        BY <3>1, <1>4, SMT DEF Sums, Opened
      <3> QED BY <2>1, <1>3, <3>2 DEF Counting, Opened
    <2>2. CASE q.phase = "vendors" /\ r.phase = "projects" /\ q.at > V
      <3>1. Sums(q, q.at - 1, 0, 0, 0) /\ q.at - 1 <= V
        BY <1>1, <2>2 DEF Counting
      <3>2. Sums(r, V, r.at - 1, 0, 0) /\ r.at - 1 <= P
        BY <3>1, <2>2, <1>4, SMT DEF Sums, Opened
      <3> QED BY <2>2, <1>3, <3>2 DEF Counting, Opened
    <2>3. CASE q.phase = "projects" /\ r.phase = "hosts" /\ q.at > P
      <3>1. Sums(q, V, q.at - 1, 0, 0) /\ q.at - 1 <= P
        BY <1>1, <2>3 DEF Counting
      <3>2. Sums(r, V, P, r.at - 1, 0) /\ r.at - 1 <= H
        BY <3>1, <2>3, <1>4, SMT DEF Sums, Opened
      <3> QED BY <2>3, <1>3, <3>2 DEF Counting, Opened
    <2>4. CASE q.phase = "hosts" /\ r.phase = "assets" /\ q.at > H
      <3>1. Sums(q, V, P, q.at - 1, 0) /\ q.at - 1 <= H
        BY <1>1, <2>4 DEF Counting
      <3>2. Sums(r, V, P, H, r.at - 1) /\ r.at - 1 <= A
        BY <3>1, <2>4, <1>4, SMT DEF Sums, Opened
      <3> QED BY <2>4, <1>3, <3>2 DEF Counting, Opened
    <2> QED BY <2>1, <2>2, <2>3, <2>4
  <1> QED BY <1>2, <1>3, <1>5 DEF RunOK

LEMMA IdsTyped ==
  /\ \A table \in [Ids -> Project \union {Nil}] : IdsByName(table) \in RunIds
  /\ \A table \in [Ids -> Host \union {Nil}] : IdsByName(table) \in RunIds
  <1>1. ASSUME NEW table PROVE IdsByName(table) \in RunIds
    <2> SUFFICES ASSUME NEW n \in Names
                 PROVE  (IF Called(table, n) = {} THEN Nil
                         ELSE CHOOSE i \in Called(table, n) : TRUE) \in Ids \union {Nil, Temp}
      BY DEF IdsByName, RunIds
    <2>1. CASE Called(table, n) = {}
      BY <2>1
    <2>2. CASE Called(table, n) # {}
      <3>1. (CHOOSE i \in Called(table, n) : TRUE) \in Called(table, n)
        BY <2>2
      <3> QED BY <2>2, <3>1 DEF Called, Live
    <2> QED BY <2>1, <2>2
  <1> QED BY <1>1

LEMMA OpenKeeps ==
  ASSUME ImportInv, NEW j \in Runs,
         OpenVendors(j) \/ OpenProjects(j) \/ OpenHosts(j) \/ OpenAssets(j)
  PROVE  ImportInv' /\ run'[j].phase # "discover"
  <1> DEFINE q == run[j]
  <1>1. Reads /\ RunOK(q) /\ run \in [Runs -> Run] /\ q \in Run
    BY DEF OpenVendors, OpenProjects, OpenHosts, OpenAssets, ImportInv, RunOK
  <1>2. TablesOK' /\ audit' = audit /\ demand' = demand /\ commits' = commits
    BY <1>1, ReadsKeep DEF ImportInv
  <1>3. /\ "vendors" \in Phases /\ "projects" \in Phases /\ "hosts" \in Phases
        /\ "assets" \in Phases /\ 1 \in Nat \ {0}
        /\ vendors \in Known /\ projects \in Known /\ hosts \in Known /\ Nil \in Known
        /\ IdsByName(projects) \in RunIds /\ IdsByName(hosts) \in RunIds
    BY IdsTyped DEF Phases, Known, ImportInv, TablesOK
  <1>4. CASE OpenVendors(j)
    <2> DEFINE r == [q EXCEPT !.phase = "vendors", !.at = 1, !.known = vendors]
    <2>1. run' = [run EXCEPT ![j] = r] /\ loop' = loop /\ q.phase = "valid"
      BY <1>4 DEF OpenVendors, Continue
    <2>2. r \in Run
      BY <1>1, <1>3, Zenon DEF Run
    <2>3. r.phase = "vendors" /\ Opened(q, r)
      BY <1>1, SMT DEF Opened, Run
    <2> HIDE DEF r
    <2>4. run'[j] = r
      BY <1>1, <2>1
    <2>5. RunOK(r) /\ r.end = "none"
      BY <1>1, <2>1, <2>2, <2>3, OpenOK
    <2> QED BY <1>2, <2>1, <2>3, <2>4, <2>5, Framed
  <1>5. CASE OpenProjects(j)
    <2> DEFINE r == [q EXCEPT !.phase = "projects", !.at = 1, !.known = projects,
                              !.projectIds = IdsByName(projects)]
    <2>1. run' = [run EXCEPT ![j] = r] /\ loop' = loop
          /\ q.phase = "vendors" /\ q.at > Len(q.bundle.vendors)
      BY <1>5 DEF OpenProjects, Continue, PastLast
    <2>2. r \in Run
      BY <1>1, <1>3, Zenon DEF Run
    <2>3. r.phase = "projects" /\ Opened(q, r)
      BY <1>1, SMT DEF Opened, Run
    <2> HIDE DEF r
    <2>4. run'[j] = r
      BY <1>1, <2>1
    <2>5. RunOK(r) /\ r.end = "none"
      BY <1>1, <2>1, <2>2, <2>3, OpenOK
    <2> QED BY <1>2, <2>1, <2>3, <2>4, <2>5, Framed
  <1>6. CASE OpenHosts(j)
    <2> DEFINE r == [q EXCEPT !.phase = "hosts", !.at = 1, !.known = hosts,
                              !.hostIds = IdsByName(hosts)]
    <2>1. run' = [run EXCEPT ![j] = r] /\ loop' = loop
          /\ q.phase = "projects" /\ q.at > Len(q.bundle.projects)
      BY <1>6 DEF OpenHosts, Continue, PastLast
    <2>2. r \in Run
      BY <1>1, <1>3, Zenon DEF Run
    <2>3. r.phase = "hosts" /\ Opened(q, r)
      BY <1>1, SMT DEF Opened, Run
    <2> HIDE DEF r
    <2>4. run'[j] = r
      BY <1>1, <2>1
    <2>5. RunOK(r) /\ r.end = "none"
      BY <1>1, <2>1, <2>2, <2>3, OpenOK
    <2> QED BY <1>2, <2>1, <2>3, <2>4, <2>5, Framed
  <1>7. CASE OpenAssets(j)
    <2> DEFINE r == [q EXCEPT !.phase = "assets", !.at = 1, !.known = Nil]
    <2>1. run' = [run EXCEPT ![j] = r] /\ loop' = loop
          /\ q.phase = "hosts" /\ q.at > Len(q.bundle.hosts)
      BY <1>7 DEF OpenAssets, Continue, PastLast
    <2>2. r \in Run
      BY <1>1, <1>3, Zenon DEF Run
    <2>3. r.phase = "assets" /\ Opened(q, r)
      BY <1>1, SMT DEF Opened, Run
    <2> HIDE DEF r
    <2>4. run'[j] = r
      BY <1>1, <2>1
    <2>5. RunOK(r) /\ r.end = "none"
      BY <1>1, <2>1, <2>2, <2>3, OpenOK
    <2> QED BY <1>2, <2>1, <2>3, <2>4, <2>5, Framed
  <1> QED BY <1>4, <1>5, <1>6, <1>7

-----------------------------------------------------------------------------
(* Writes that keep the tables.                                            *)

LEMMA VendorAdded ==
  ASSUME TablesOK, NEW n \in Names, vendors' = vendors \union {n},
         UNCHANGED <<projects, hosts, assets>>
  PROVE  TablesOK'
  BY DEF TablesOK, Linked, Live

LEMMA RowsNotNil == Nil \notin Project /\ Nil \notin Host /\ Nil \notin Asset
  BY ImportAssumption

LEMMA ProjectWritten ==
  ASSUME TablesOK, NEW i \in Ids, NEW p \in Project, projects' = [projects EXCEPT ![i] = p],
         UNCHANGED <<vendors, hosts, assets>>
  PROVE  TablesOK'
  <1>1. projects' \in [Ids -> Project \union {Nil}]
    BY DEF TablesOK
  <1>2. Live(projects) \subseteq Live(projects)'
    BY RowsNotNil DEF Live, TablesOK
  <1>3. Linked(vendors, projects, hosts, assets)'
    BY <1>2 DEF Linked, TablesOK, Live
  <1> QED BY <1>1, <1>3 DEF TablesOK

LEMMA HostWritten ==
  ASSUME TablesOK, NEW i \in Ids, NEW h \in Host, h.vendor \in vendors \union {Nil},
         hosts' = [hosts EXCEPT ![i] = h], UNCHANGED <<vendors, projects, assets>>
  PROVE  TablesOK'
  <1>1. hosts' \in [Ids -> Host \union {Nil}]
    BY DEF TablesOK
  <1>2. Live(hosts) \subseteq Live(hosts)' /\ \A k \in Ids : k # i => hosts'[k] = hosts[k]
    BY RowsNotNil DEF Live, TablesOK
  <1>3. \A k \in Live(hosts)' : hosts'[k].vendor \in vendors' \union {Nil}
    BY <1>1, <1>2 DEF Linked, TablesOK, Live
  <1>4. Linked(vendors, projects, hosts, assets)'
    BY <1>2, <1>3 DEF Linked, TablesOK
  <1> QED BY <1>1, <1>4 DEF TablesOK

LEMMA AssetWritten ==
  ASSUME TablesOK, NEW ip \in Ips, NEW row \in Asset,
         row.project \in Live(projects) \union {Nil}, row.host \in Live(hosts) \union {Nil},
         assets' = [assets EXCEPT ![ip] = row], UNCHANGED <<vendors, projects, hosts>>
  PROVE  TablesOK'
  <1>1. assets' \in [Ips -> Asset \union {Nil}]
    BY DEF TablesOK
  <1>2. Live(projects)' = Live(projects) /\ Live(hosts)' = Live(hosts)
    BY DEF Live
  <1>3. Linked(vendors, projects, hosts, assets)'
    BY <1>1, <1>2 DEF Linked, TablesOK
  <1> QED BY <1>1, <1>3 DEF TablesOK

-----------------------------------------------------------------------------
(* Vendors, projects and hosts.                                            *)

LEMMA TouchedCount ==
  ASSUME NEW q \in Run, NEW s \in Section, NEW how \in Hows
  PROVE  Touched(q, [q EXCEPT !.count = Counted(q, s, how)], s, how)
  <1> DEFINE c == Counted(q, s, how)
             x == [q EXCEPT !.count = c]
  <1>1. c \in Counts
    BY CountOne DEF Run
  <1> HIDE DEF c
  <1>2. x \in Run
    BY <1>1, Zenon DEF Run
  <1>3. /\ x.count = c /\ x.phase = q.phase /\ x.upload = q.upload /\ x.dry = q.dry
        /\ x.editor = q.editor /\ x.bundle = q.bundle /\ x.at = q.at /\ x.end = q.end
        /\ x.wrote = q.wrote
    BY SMT DEF Run
  <1> QED BY <1>2, <1>3 DEF Touched, c

LEMMA TouchedWrite ==
  ASSUME NEW q, NEW x, NEW s, NEW how, Touched(q, x, s, how), ~q.dry
  PROVE  Touched(q, Wrote(x), s, how)
  <1>1. x \in Run /\ x.wrote + 1 \in Nat
    BY SMT DEF Touched, Run
  <1>2. Wrote(x) \in Run
    BY <1>1, Zenon DEF Run, Wrote
  <1>3. /\ Wrote(x).count = x.count /\ Wrote(x).phase = x.phase /\ Wrote(x).upload = x.upload
        /\ Wrote(x).dry = x.dry /\ Wrote(x).editor = x.editor /\ Wrote(x).bundle = x.bundle
        /\ Wrote(x).at = x.at /\ Wrote(x).end = x.end
    BY <1>1, SMT DEF Run, Wrote
  <1> QED BY <1>2, <1>3 DEF Touched

LEMMA TouchedIds ==
  ASSUME NEW q, NEW x, NEW s, NEW how, Touched(q, x, s, how), NEW n \in Names,
         NEW i \in Ids \union {Temp}
  PROVE  /\ Touched(q, [x EXCEPT !.projectIds[n] = i], s, how)
         /\ Touched(q, [x EXCEPT !.hostIds[n] = i], s, how)
  <1> DEFINE P == [x.projectIds EXCEPT ![n] = i]
             H == [x.hostIds EXCEPT ![n] = i]
  <1>1. x \in Run
    BY DEF Touched
  <1>2. x.projectIds \in RunIds /\ x.hostIds \in RunIds
    BY <1>1 DEF Run
  <1>3. P \in RunIds /\ H \in RunIds
    BY <1>2 DEF RunIds
  <1> HIDE DEF P, H
  <1>4. [x EXCEPT !.projectIds = P] \in Run /\ [x EXCEPT !.hostIds = H] \in Run
    BY <1>1, <1>3, Zenon DEF Run
  <1>5. Touched(q, [x EXCEPT !.projectIds = P], s, how)
    BY <1>1, <1>4, SMT DEF Touched, Run
  <1>6. Touched(q, [x EXCEPT !.hostIds = H], s, how)
    BY <1>1, <1>4, SMT DEF Touched, Run
  <1> QED BY <1>5, <1>6 DEF P, H

LEMMA EntryKeeps ==
  ASSUME ImportInv, NEW j \in Runs, NEW s \in {"vendors", "projects", "hosts"},
         NEW how \in Hows, AtEntry(j, s), NEW x, Touched(run[j], x, s, how), Advance(j, x),
         TablesOK', audit' = audit, demand' = demand, commits' \in {commits, commits + 1}
  PROVE  ImportInv' /\ run'[j].phase # "discover"
  <1> DEFINE r == [x EXCEPT !.at = @ + 1]
  <1>1. run[j].phase = s /\ run[j].at <= Len(run[j].bundle[s]) /\ RunOK(run[j])
        /\ run \in [Runs -> Run]
    BY DEF AtEntry, ImportInv
  <1>2. RunOK(r) /\ r.end = "none" /\ r.phase = s
    BY <1>1, AdvanceOK
  <1>3. run' = [run EXCEPT ![j] = r] /\ loop' = loop
    BY DEF Advance, Continue
  <1> HIDE DEF r
  <1>4. run'[j] = r
    BY <1>1, <1>3
  <1>5. run[j].phase # "ended"
    BY <1>1
  <1> QED BY <1>2, <1>3, <1>4, <1>5, Framed

LEMMA VendorKeeps ==
  ASSUME ImportInv, NEW j \in Runs, VendorEntry(j)
  PROVE  ImportInv' /\ run'[j].phase # "discover"
  <1> DEFINE q == run[j]
             name == Entry(q)
             created == [q EXCEPT !.count = Counted(q, "vendors", "create")]
  <1>1. AtEntry(j, "vendors") /\ q.phase = "vendors" /\ RunOK(q) /\ q \in Run /\ TablesOK
    BY DEF VendorEntry, AtEntry, ImportInv, RunOK
  <1>2. name \in Names
    <2>1. q.bundle \in Bundle /\ Checked(q.bundle) /\ q.at \in Nat \ {0}
      BY <1>1 DEF RunOK, Placed, Importing, Applying, Run
    <2>2. q.at <= Len(q.bundle.vendors)
      BY <1>1 DEF AtEntry
    <2>3. q.at \in DOMAIN q.bundle.vendors
      BY <2>1, <2>2, Lengths
    <2> QED BY <1>1, <2>1, <2>3 DEF Entry, Checked
  <1>3. Touched(q, created, "vendors", "create")
    BY <1>1, TouchedCount DEF Section, Hows
  <1>4. CASE Reads /\ (Advance(j, created)
                       \/ Advance(j, [q EXCEPT !.count = Counted(q, "vendors", "skip")]))
    <2>1. TablesOK' /\ audit' = audit /\ demand' = demand /\ commits' = commits
      BY <1>1, <1>4, ReadsKeep
    <2>2. Touched(q, [q EXCEPT !.count = Counted(q, "vendors", "skip")], "vendors", "skip")
      BY <1>1, TouchedCount DEF Section, Hows
    <2> HIDE DEF q, created
    <2>3. CASE Advance(j, created)
      BY <1>1, <1>3, <2>1, <2>3, EntryKeeps DEF Hows, q
    <2>4. CASE Advance(j, [q EXCEPT !.count = Counted(q, "vendors", "skip")])
      BY <1>1, <2>1, <2>2, <2>4, EntryKeeps DEF Hows, q
    <2> QED BY <1>4, <2>3, <2>4
  <1>5. CASE Raise(j)
    BY <1>1, <1>5, Failing DEF Raise, Ends
  <1>6. CASE /\ ~q.dry
             /\ vendors' = vendors \union {name}
             /\ Advance(j, Wrote(created))
             /\ Writes /\ UNCHANGED <<projects, hosts, assets>>
    <2>1. TablesOK'
      BY <1>1, <1>2, <1>6, VendorAdded
    <2>2. Touched(q, Wrote(created), "vendors", "create")
      BY <1>3, <1>6, TouchedWrite
    <2> HIDE DEF created
    <2> QED BY <1>1, <1>6, <2>1, <2>2, EntryKeeps DEF Hows, Writes
  <1> QED BY <1>4, <1>5, <1>6 DEF VendorEntry

(* The entry a run is at has been through the validator.                   *)
LEMMA EntryChecked ==
  ASSUME NEW q, RunOK(q), NEW s \in {"projects", "hosts"}, q.phase = s,
         q.at <= Len(q.bundle[s])
  PROVE  /\ q \in Run /\ q.at \in DOMAIN q.bundle[s] /\ Entry(q) = q.bundle[s][q.at]
         /\ s = "projects" => Entry(q).name \in Names /\ Entry(q).color \in Colors \union {Nil}
         /\ s = "hosts" => Entry(q) \in Host
  <1>1. q \in Run /\ q.bundle \in Bundle /\ Checked(q.bundle) /\ q.at \in Nat \ {0}
    BY DEF RunOK, Placed, Importing, Applying, Run
  <1>2. Entry(q) = q.bundle[s][q.at]
    BY DEF Entry
  <1>3. CASE s = "projects"
    <2>1. q.at \in DOMAIN q.bundle.projects
      BY <1>1, <1>3, Lengths
    <2> QED BY <1>1, <1>2, <1>3, <2>1 DEF Checked
  <1>4. CASE s = "hosts"
    <2>1. q.at \in DOMAIN q.bundle.hosts
      BY <1>1, <1>4, Lengths
    <2> QED BY <1>1, <1>2, <1>4, <2>1 DEF Checked
  <1> QED BY <1>3, <1>4

(* A step that reads and counts, and one that raises.                      *)
LEMMA ReadEntryKeeps ==
  ASSUME ImportInv, NEW j \in Runs, NEW s \in {"vendors", "projects", "hosts"},
         NEW how \in Hows, AtEntry(j, s), NEW x, Touched(run[j], x, s, how), Advance(j, x),
         Reads
  PROVE  ImportInv' /\ run'[j].phase # "discover"
  <1>1. TablesOK' /\ audit' = audit /\ demand' = demand /\ commits' = commits
    BY ReadsKeep DEF ImportInv
  <1> QED BY <1>1, EntryKeeps

LEMMA RaiseKeeps ==
  ASSUME ImportInv, NEW j \in Runs, run[j].phase \notin {"new", "ended"}, Raise(j)
  PROVE  ImportInv' /\ run'[j].phase # "discover"
  BY Failing DEF Raise, Ends

LEMMA CreateProjectKeeps ==
  ASSUME ImportInv, NEW j \in Runs, CreateProject(j)
  PROVE  ImportInv' /\ run'[j].phase # "discover"
  <1> DEFINE q == run[j]
             e == Entry(q)
             counted == [q EXCEPT !.count = Counted(q, "projects", "create")]
  <1>1. AtEntry(j, "projects") /\ q.phase = "projects" /\ q.at <= Len(q.bundle["projects"])
        /\ RunOK(q) /\ q \in Run /\ TablesOK
    BY DEF CreateProject, AtEntry, ImportInv, RunOK
  <1>2. e.name \in Names /\ e.color \in Colors \union {Nil}
    BY <1>1, EntryChecked
  <1>3. Touched(q, counted, "projects", "create")
    BY <1>1, TouchedCount DEF Section, Hows
  <1>4. CASE Advance(j, [counted EXCEPT !.projectIds[e.name] = Temp]) /\ Reads
    <2>1. Touched(q, [counted EXCEPT !.projectIds[e.name] = Temp], "projects", "create")
      BY <1>2, <1>3, TouchedIds
    <2> HIDE DEF counted
    <2> QED BY <1>1, <1>4, <2>1, ReadEntryKeeps DEF Hows
  <1>5. CASE Raise(j)
    BY <1>1, <1>5, RaiseKeeps
  <1>6. CASE /\ ~q.dry
             /\ \E i \in Ids :
                  /\ NextId(projects, i)
                  /\ projects' = [projects EXCEPT ![i] =
                       [name |-> e.name, color |-> IF e.color = Nil THEN DefaultColor ELSE e.color]]
                  /\ Advance(j, Wrote([counted EXCEPT !.projectIds[e.name] = i]))
             /\ Writes /\ UNCHANGED <<vendors, hosts, assets>>
    <2> DEFINE row == [name |-> e.name, color |-> IF e.color = Nil THEN DefaultColor ELSE e.color]
    <2>1. PICK i \in Ids : /\ projects' = [projects EXCEPT ![i] = row]
                           /\ Advance(j, Wrote([counted EXCEPT !.projectIds[e.name] = i]))
      BY <1>6
    <2>2. row \in Project
      BY <1>2, ImportAssumption DEF Project
    <2>3. TablesOK'
      <3> HIDE DEF row
      <3> QED BY <1>1, <1>6, <2>1, <2>2, ProjectWritten
    <2>4. Touched(q, [counted EXCEPT !.projectIds[e.name] = i], "projects", "create")
      BY <1>2, <1>3, TouchedIds
    <2> DEFINE x == [counted EXCEPT !.projectIds[e.name] = i]
    <2> HIDE DEF x
    <2>5. Touched(q, Wrote(x), "projects", "create")
      BY <1>6, <2>4, TouchedWrite DEF x
    <2> QED BY <1>1, <1>6, <2>1, <2>3, <2>5, EntryKeeps DEF Hows, Writes, x
  <1> QED BY <1>4, <1>5, <1>6 DEF CreateProject

LEMMA UpdateProjectKeeps ==
  ASSUME ImportInv, NEW j \in Runs, UpdateProject(j)
  PROVE  ImportInv' /\ run'[j].phase # "discover"
  <1> DEFINE q == run[j]
             e == Entry(q)
             counted == [q EXCEPT !.count = Counted(q, "projects", "update")]
             skipped == [q EXCEPT !.count = Counted(q, "projects", "skip")]
  <1>1. AtEntry(j, "projects") /\ q.phase = "projects" /\ q.at <= Len(q.bundle["projects"])
        /\ RunOK(q) /\ q \in Run /\ TablesOK
    BY DEF UpdateProject, AtEntry, ImportInv, RunOK
  <1>2. e.name \in Names /\ e.color \in Colors \union {Nil}
    BY <1>1, EntryChecked
  <1>3. Touched(q, counted, "projects", "update") /\ Touched(q, skipped, "projects", "skip")
    BY <1>1, TouchedCount DEF Section, Hows
  <1>4. CASE Reads /\ (Advance(j, counted) \/ Advance(j, skipped))
    <2> HIDE DEF counted, skipped
    <2> QED BY <1>1, <1>3, <1>4, ReadEntryKeeps DEF Hows
  <1>5. CASE Raise(j)
    BY <1>1, <1>5, RaiseKeeps
  <1>6. ASSUME NEW i \in Ids, ~q.dry, e.color # Nil,
               projects' = [projects EXCEPT ![i] = [name |-> e.name, color |-> e.color]],
               Advance(j, Wrote(counted)), Writes, UNCHANGED <<vendors, hosts, assets>>
        PROVE  ImportInv' /\ run'[j].phase # "discover"
    <2> DEFINE row == [name |-> e.name, color |-> e.color]
    <2>1. row \in Project
      BY <1>2, <1>6 DEF Project
    <2>2. TablesOK'
      <3>1. projects' = [projects EXCEPT ![i] = row]
        BY <1>6
      <3> HIDE DEF row
      <3> QED BY <1>1, <1>6, <2>1, <3>1, ProjectWritten
    <2> HIDE DEF counted
    <2>3. Touched(q, Wrote(counted), "projects", "update")
      BY <1>3, <1>6, TouchedWrite
    <2> QED BY <1>1, <1>6, <2>2, <2>3, EntryKeeps DEF Hows, Writes
  <1>7. \A i \in Called(q.known, e.name) : i \in Ids
    BY DEF Called, Live
  <1> HIDE DEF counted, skipped
  <1> QED BY <1>4, <1>5, <1>6, <1>7 DEF UpdateProject, counted, skipped

LEMMA CreateHostKeeps ==
  ASSUME ImportInv, NEW j \in Runs, CreateHost(j)
  PROVE  ImportInv' /\ run'[j].phase # "discover"
  <1> DEFINE q == run[j]
             e == Entry(q)
             counted == [q EXCEPT !.count = Counted(q, "hosts", "create")]
  <1>1. AtEntry(j, "hosts") /\ q.phase = "hosts" /\ q.at <= Len(q.bundle["hosts"])
        /\ RunOK(q) /\ q \in Run /\ TablesOK
    BY DEF CreateHost, AtEntry, ImportInv, RunOK
  <1>2. e \in Host /\ e.name \in Names
    BY <1>1, EntryChecked DEF Host
  <1>3. Touched(q, counted, "hosts", "create")
    BY <1>1, TouchedCount DEF Section, Hows
  <1>4. CASE Advance(j, [counted EXCEPT !.hostIds[e.name] = Temp]) /\ Reads
    <2>1. Touched(q, [counted EXCEPT !.hostIds[e.name] = Temp], "hosts", "create")
      BY <1>2, <1>3, TouchedIds
    <2> HIDE DEF counted
    <2> QED BY <1>1, <1>4, <2>1, ReadEntryKeeps DEF Hows
  <1>5. CASE Raise(j)
    BY <1>1, <1>5, RaiseKeeps
  <1>6. CASE /\ ~q.dry /\ e.vendor \in vendors \union {Nil}
             /\ \E i \in Ids :
                  /\ NextId(hosts, i)
                  /\ hosts' = [hosts EXCEPT ![i] = e]
                  /\ Advance(j, Wrote([counted EXCEPT !.hostIds[e.name] = i]))
             /\ Writes /\ UNCHANGED <<vendors, projects, assets>>
    <2>1. PICK i \in Ids : /\ hosts' = [hosts EXCEPT ![i] = e]
                           /\ Advance(j, Wrote([counted EXCEPT !.hostIds[e.name] = i]))
      BY <1>6
    <2>2. TablesOK'
      BY <1>1, <1>2, <1>6, <2>1, HostWritten
    <2>3. Touched(q, [counted EXCEPT !.hostIds[e.name] = i], "hosts", "create")
      BY <1>2, <1>3, TouchedIds
    <2> DEFINE x == [counted EXCEPT !.hostIds[e.name] = i]
    <2> HIDE DEF x
    <2>4. Touched(q, Wrote(x), "hosts", "create")
      BY <1>6, <2>3, TouchedWrite DEF x
    <2> QED BY <1>1, <1>6, <2>1, <2>2, <2>4, EntryKeeps DEF Hows, Writes, x
  <1> QED BY <1>4, <1>5, <1>6 DEF CreateHost

LEMMA UpdateHostKeeps ==
  ASSUME ImportInv, NEW j \in Runs, UpdateHost(j)
  PROVE  ImportInv' /\ run'[j].phase # "discover"
  <1> DEFINE q == run[j]
             e == Entry(q)
             counted == [q EXCEPT !.count = Counted(q, "hosts", "update")]
             skipped == [q EXCEPT !.count = Counted(q, "hosts", "skip")]
             row(i) == [name |-> e.name, notes |-> Or(e.notes, hosts[i].notes),
                        vendor |-> Or(e.vendor, hosts[i].vendor)]
  <1>1. AtEntry(j, "hosts") /\ q.phase = "hosts" /\ q.at <= Len(q.bundle["hosts"])
        /\ RunOK(q) /\ q \in Run /\ TablesOK
    BY DEF UpdateHost, AtEntry, ImportInv, RunOK
  <1>2. e \in Host
    BY <1>1, EntryChecked
  <1>3. Touched(q, counted, "hosts", "update") /\ Touched(q, skipped, "hosts", "skip")
    BY <1>1, TouchedCount DEF Section, Hows
  <1>4. CASE Reads /\ (Advance(j, counted) \/ Advance(j, skipped))
    <2> HIDE DEF counted, skipped
    <2> QED BY <1>1, <1>3, <1>4, ReadEntryKeeps DEF Hows
  <1>5. CASE Raise(j)
    BY <1>1, <1>5, RaiseKeeps
  <1>6. ASSUME NEW i \in Ids, ~q.dry, e.vendor \in vendors \union {Nil}, hosts[i] # Nil,
               hosts' = [hosts EXCEPT ![i] = row(i)],
               Advance(j, Wrote(counted)), Writes, UNCHANGED <<vendors, projects, assets>>
        PROVE  ImportInv' /\ run'[j].phase # "discover"
    <2>1. hosts[i] \in Host /\ hosts[i].vendor \in vendors \union {Nil}
      BY <1>1, <1>6 DEF TablesOK, Linked, Live
    <2>2. row(i) \in Host /\ row(i).vendor \in vendors \union {Nil}
      BY <1>2, <1>6, <2>1, SMT DEF Host, Or
    <2>3. TablesOK'
      <3> HIDE DEF row
      <3> QED BY <1>1, <1>6, <2>2, HostWritten
    <2> HIDE DEF counted
    <2>4. Touched(q, Wrote(counted), "hosts", "update")
      BY <1>3, <1>6, TouchedWrite
    <2> QED BY <1>1, <1>6, <2>3, <2>4, EntryKeeps DEF Hows, Writes
  <1>7. \A i \in Called(q.known, e.name) : i \in Ids
    BY DEF Called, Live
  <1> HIDE DEF counted, skipped, row
  <1> QED BY <1>4, <1>5, <1>6, <1>7 DEF UpdateHost, counted, skipped, row

-----------------------------------------------------------------------------
(* Assets.                                                                 *)

(* The entry an asset phase is at.                                         *)
LEMMA AssetChecked ==
  ASSUME NEW q, RunOK(q), q.phase \in {"assets", "tags", "create", "update", "archive"},
         q.at \in DOMAIN q.bundle.assets
  PROVE  LET a == AssetOf(q) IN
         /\ a.ip \in Ips /\ a.type \in Types /\ a.project \in Names \union {Nil}
         /\ a.host \in Names \union {Nil} /\ a.notes \in Notes \union {Nil}
         /\ a.archived \in BOOLEAN \union {Nil}
         /\ a.tags # Nil => TagsIn(a.tags) \subseteq TagNames
         /\ ProjectOf(q) \in Ids \union {Nil, Temp} /\ HostOf(q) \in Ids \union {Nil, Temp}
  <1> DEFINE a == AssetOf(q)
             Line == [ip : Ips \union {Bad}, type : Types \union {Bad},
                 project : Names \union {Nil}, host : Names \union {Nil},
                 notes : Notes \union {Nil}, notesGiven : BOOLEAN,
                 tags : Seq(DOMAIN Lower) \union {Nil}, archived : BOOLEAN \union {Nil},
                 merge : BOOLEAN, keepNotes : BOOLEAN, keepType : BOOLEAN]
  <1>1. q \in Run /\ q.bundle \in Bundle /\ Checked(q.bundle)
    BY DEF RunOK, Placed, Importing, Applying
  <1>2. a = q.bundle.assets[q.at]
    BY DEF AssetOf
  <1>3. a \in Line
    <2>1. q.bundle.assets \in Seq(Line)
      BY <1>1 DEF Bundle
    <2> HIDE DEF Line
    <2> QED BY <1>2, <2>1, SeqElement
  <1>4. /\ a.ip \in Ips /\ a.type \in Types
        /\ a.tags # Nil => TagsIn(a.tags) \subseteq TagNames
    BY <1>1, <1>2 DEF Checked
  <1>5. /\ a.project \in Names \union {Nil} /\ a.host \in Names \union {Nil}
        /\ a.notes \in Notes \union {Nil} /\ a.archived \in BOOLEAN \union {Nil}
    BY <1>3
  <1>6. q.projectIds \in RunIds /\ q.hostIds \in RunIds
    BY <1>1 DEF Run
  <1> HIDE DEF a
  <1>7. ProjectOf(q) \in Ids \union {Nil, Temp} /\ HostOf(q) \in Ids \union {Nil, Temp}
    BY <1>5, <1>6 DEF ProjectOf, HostOf, RunIds, a
  <1> QED BY <1>4, <1>5, <1>7 DEF a

AtAsset == {"assets", "tags", "create", "update", "archive"}

(* r carries what q does.                                                  *)
Like(q, r) ==
  /\ r \in Run /\ r.upload = q.upload /\ r.dry = q.dry /\ r.editor = q.editor
  /\ r.bundle = q.bundle /\ r.end = q.end /\ (r.wrote = q.wrote \/ ~q.dry)

LEMMA AssetCounts ==
  ASSUME NEW q, RunOK(q), q.phase \in AtAsset, NEW r \in Run, r.bundle = q.bundle,
         \/ q.phase \in {"assets", "tags"} /\ CountsOne(q, r, "assets")
         \/ q.phase \in {"create", "update", "archive"} /\ r.count = q.count
  PROVE  Sums(r, Len(r.bundle.vendors), Len(r.bundle.projects), Len(r.bundle.hosts), q.at)
  <1> DEFINE V == Len(q.bundle.vendors)
             P == Len(q.bundle.projects)
             H == Len(q.bundle.hosts)
  <1>1. Counting(q) /\ q \in Run /\ q.at \in Nat
    BY DEF RunOK, Run
  <1>2. CASE q.phase \in {"assets", "tags"} /\ CountsOne(q, r, "assets")
    <2>1. Sums(q, V, P, H, q.at - 1)
      BY <1>1, <1>2 DEF Counting
    <2> HIDE DEF V, P, H
    <2>2. Sums(r, V, P, H, q.at)
      BY <1>1, <1>2, <2>1, SMT DEF Sums, CountsOne, Section
    <2> QED BY <2>2 DEF V, P, H
  <1>3. CASE q.phase \in {"create", "update", "archive"} /\ r.count = q.count
    <2>1. Sums(q, V, P, H, q.at)
      BY <1>1, <1>3, Zenon DEF Counting
    <2> QED BY <1>3, <2>1 DEF Sums
  <1> QED BY <1>2, <1>3

LEMMA NextOK ==
  ASSUME NEW q, RunOK(q), q.phase \in AtAsset, q.at \in DOMAIN q.bundle.assets,
         NEW r, Like(q, r), r.phase = "assets", r.at = q.at + 1,
         \/ q.phase \in {"assets", "tags"} /\ CountsOne(q, r, "assets")
         \/ q.phase \in {"create", "update", "archive"} /\ r.count = q.count
  PROVE  RunOK(r) /\ r.end = "none"
  <1>1. q \in Run /\ Placed(q) /\ Allowed(q) /\ r \in Run
    BY DEF RunOK, Like
  <1>2. Placed(r)
    BY <1>1, SMT DEF Placed, Like, AtAsset, Importing, Applying, Scanning
  <1>3. Allowed(r) /\ r.end = "none"
    BY <1>1 DEF Allowed, Like, AtAsset
  <1>4. Sums(r, Len(r.bundle.vendors), Len(r.bundle.projects), Len(r.bundle.hosts), r.at - 1)
        /\ r.at - 1 <= Len(r.bundle.assets)
    <2>1. r.at - 1 = q.at /\ q.at <= Len(r.bundle.assets)
      <3>1. q.bundle \in Bundle \union ScanBundle /\ q.at \in Nat /\ r.bundle = q.bundle
        BY <1>1 DEF Run, Like
      <3> QED BY <3>1, Lengths
    <2>2. r.bundle = q.bundle
      BY DEF Like
    <2> QED BY <1>1, <2>1, <2>2, AssetCounts
  <1>5. Counting(r)
    BY <1>3, <1>4, Zenon DEF Counting
  <1> QED BY <1>1, <1>2, <1>3, <1>5 DEF RunOK

LEMMA TagsOK ==
  ASSUME NEW q, RunOK(q), q.phase = "assets", q.at \in DOMAIN q.bundle.assets,
         NEW r, Like(q, r), r.phase = "tags", r.at = q.at, r.count = q.count, r.row \in Asset
  PROVE  RunOK(r) /\ r.end = "none"
  <1>1. q \in Run /\ Placed(q) /\ Allowed(q) /\ Counting(q) /\ r \in Run
    BY DEF RunOK, Like
  <1>2. Placed(r)
    BY <1>1 DEF Placed, Like, Importing, Applying, Scanning
  <1>3. Allowed(r) /\ r.end = "none"
    BY <1>1 DEF Allowed, Like
  <1>4. Counting(r)
    <2>1. Sums(q, Len(q.bundle.vendors), Len(q.bundle.projects), Len(q.bundle.hosts), q.at - 1)
          /\ q.at - 1 <= Len(q.bundle.assets)
      BY <1>1 DEF Counting
    <2>2. Sums(r, Len(r.bundle.vendors), Len(r.bundle.projects), Len(r.bundle.hosts), r.at - 1)
          /\ r.at - 1 <= Len(r.bundle.assets)
      BY <2>1 DEF Sums, Like
    <2> QED BY <1>3, <2>2, Zenon DEF Counting
  <1> QED BY <1>1, <1>2, <1>3, <1>4 DEF RunOK

LEMMA WritingOK ==
  ASSUME NEW q, RunOK(q), q.phase \in AtAsset, q.at \in DOMAIN q.bundle.assets, ~q.dry,
         NEW r, Like(q, r), r.at = q.at, r.phase \in {"create", "update", "archive"},
         r.phase = "update" => r.goal \in Goals,
         r.phase = "archive" => AssetOf(q).archived \in BOOLEAN,
         \/ q.phase \in {"assets", "tags"} /\ CountsOne(q, r, "assets")
         \/ q.phase \in {"create", "update", "archive"} /\ r.count = q.count
  PROVE  RunOK(r) /\ r.end = "none"
  <1>1. q \in Run /\ Placed(q) /\ Allowed(q) /\ r \in Run
    BY DEF RunOK, Like
  <1>2. Placed(r)
    <2>1. AssetOf(r) = AssetOf(q)
      BY DEF AssetOf, Like
    <2> QED BY <1>1, <2>1, SMT DEF Placed, Like, AtAsset, Importing, Applying, Scanning
  <1>3. Allowed(r) /\ r.end = "none"
    BY <1>1 DEF Allowed, Like, AtAsset
  <1>4. Sums(r, Len(r.bundle.vendors), Len(r.bundle.projects), Len(r.bundle.hosts), r.at)
    <2>1. r.bundle = q.bundle
      BY DEF Like
    <2> QED BY <1>1, <2>1, AssetCounts
  <1>5. Counting(r)
    BY <1>3, <1>4, Zenon DEF Counting
  <1> QED BY <1>1, <1>2, <1>3, <1>5 DEF RunOK

LEMMA ContinueKeeps ==
  ASSUME ImportInv, NEW j \in Runs, run[j].phase # "ended", NEW r, RunOK(r), r.end = "none",
         Continue(j, r), TablesOK', audit' = audit, demand' = demand,
         commits' \in {commits, commits + 1}
  PROVE  ImportInv' /\ run'[j] = r
  <1>1. run' = [run EXCEPT ![j] = r] /\ loop' = loop
    BY DEF Continue
  <1>2. run'[j] = r
    BY <1>1 DEF ImportInv
  <1> QED BY <1>1, <1>2, Framed

(* The record that NextAsset leaves.                                       *)
LEMMA NextAssetKeeps ==
  ASSUME ImportInv, NEW j \in Runs, run[j].phase \in AtAsset,
         run[j].at \in DOMAIN run[j].bundle.assets,
         NEW x, Like(run[j], x), x.at = run[j].at,
         \/ run[j].phase \in {"assets", "tags"} /\ CountsOne(run[j], x, "assets")
         \/ run[j].phase \in {"create", "update", "archive"} /\ x.count = run[j].count,
         NextAsset(j, x), TablesOK', audit' = audit, demand' = demand,
         commits' \in {commits, commits + 1}
  PROVE  ImportInv' /\ run'[j].phase # "discover"
  <1> DEFINE r == [x EXCEPT !.phase = "assets", !.at = @ + 1, !.row = Nil, !.goal = Nil]
  <1>1. x \in Run /\ RunOK(run[j])
    BY DEF Like, ImportInv
  <1>2. r \in Run
    <2>1. x.at + 1 \in Nat \ {0} /\ "assets" \in Phases
      BY <1>1 DEF Run, Phases
    <2> QED BY <1>1, <2>1, Zenon DEF Run
  <1>3. /\ r.phase = "assets" /\ r.at = x.at + 1 /\ r.upload = x.upload /\ r.dry = x.dry
        /\ r.editor = x.editor /\ r.bundle = x.bundle /\ r.end = x.end /\ r.wrote = x.wrote
        /\ r.count = x.count
    BY <1>1, SMT DEF Run
  <1>4. Continue(j, r)
    BY DEF NextAsset
  <1> HIDE DEF r
  <1>5. Like(run[j], r)
    BY <1>2, <1>3 DEF Like
  <1>6. CountsOne(run[j], x, "assets") => CountsOne(run[j], r, "assets")
    BY <1>3 DEF CountsOne
  <1>7. RunOK(r) /\ r.end = "none"
    BY <1>1, <1>3, <1>5, <1>6, NextOK
  <1> QED BY <1>3, <1>4, <1>7, ContinueKeeps DEF AtAsset

LEMMA CountedLike ==
  ASSUME NEW q \in Run, NEW how \in Hows
  PROVE  LET x == [q EXCEPT !.count = Counted(q, "assets", how)] IN
         Like(q, x) /\ x.at = q.at /\ x.phase = q.phase /\ CountsOne(q, x, "assets")
  <1> DEFINE x == [q EXCEPT !.count = Counted(q, "assets", how)]
  <1>1. "assets" \in Section /\ q.count \in Counts
    BY DEF Section, Run
  <1>2. Touched(q, x, "assets", how)
    BY <1>1, TouchedCount
  <1> HIDE DEF x
  <1>3. Like(q, x) /\ x.at = q.at /\ x.phase = q.phase
    BY <1>2 DEF Like, Touched
  <1>4. CountsOne(q, x, "assets")
    BY <1>1, <1>2, CountOne DEF CountsOne, Touched
  <1> QED BY <1>3, <1>4 DEF x

LEMMA ReadAssetKeeps ==
  ASSUME ImportInv, NEW j \in Runs, ReadAsset(j)
  PROVE  ImportInv' /\ run'[j].phase # "discover"
  <1> DEFINE q == run[j]
             ip == AssetOf(run[j]).ip
             counted == [q EXCEPT !.count = Counted(q, "assets", "create")]
  <1>1. q.phase = "assets" /\ q.phase \in AtAsset /\ RunOK(q) /\ q \in Run /\ TablesOK
        /\ Reads /\ q.bundle \in Bundle
    BY DEF ReadAsset, AtEntry, AtAsset, ImportInv, RunOK, Placed, Importing, Applying
  <1>2. q.at \in DOMAIN q.bundle.assets
    <2>1. q.at <= Len(q.bundle.assets) /\ q.at \in Nat \ {0}
      BY <1>1 DEF ReadAsset, AtEntry, Run
    <2> QED BY <1>1, <2>1, Lengths
  <1>3. ip \in Ips
    BY <1>1, <1>2, AssetChecked
  <1>4. TablesOK' /\ audit' = audit /\ demand' = demand /\ commits' = commits
    BY <1>1, ReadsKeep
  <1>5. Like(q, counted) /\ counted.at = q.at /\ CountsOne(q, counted, "assets")
        /\ counted.phase = q.phase
    BY <1>1, CountedLike DEF Hows
  <1>6. CASE /\ assets[ip] # Nil
             /\ Continue(j, [q EXCEPT !.phase = "tags", !.row = assets[ip]])
    <2> DEFINE r == [q EXCEPT !.phase = "tags", !.row = assets[ip]]
    <2>1. assets[ip] \in Asset
      BY <1>1, <1>3, <1>6 DEF TablesOK
    <2>2. r \in Run
      <3>1. "tags" \in Phases
        BY DEF Phases
      <3> QED BY <1>1, <2>1, <3>1, Zenon DEF Run
    <2>3. Like(q, r) /\ r.phase = "tags" /\ r.at = q.at /\ r.count = q.count
          /\ r.row = assets[ip]
      BY <1>1, <2>2, SMT DEF Like, Run
    <2>4. Continue(j, r)
      BY <1>6
    <2> HIDE DEF r
    <2>5. RunOK(r) /\ r.end = "none"
      BY <1>1, <1>2, <2>1, <2>3, TagsOK
    <2> QED BY <1>1, <1>4, <2>3, <2>4, <2>5, ContinueKeeps
  <1>7. CASE NextAsset(j, counted)
    <2> HIDE DEF counted
    <2> QED BY <1>1, <1>2, <1>4, <1>5, <1>7, NextAssetKeeps
  <1>8. CASE ~q.dry /\ Continue(j, [counted EXCEPT !.phase = "create"])
    <2> DEFINE r == [counted EXCEPT !.phase = "create"]
    <2> HIDE DEF counted
    <2>1. counted \in Run
      BY <1>5 DEF Like
    <2>2. r \in Run
      <3>1. "create" \in Phases
        BY DEF Phases
      <3> QED BY <2>1, <3>1, Zenon DEF Run
    <2>3. /\ r.phase = "create" /\ r.at = counted.at /\ r.count = counted.count
          /\ r.upload = counted.upload /\ r.dry = counted.dry /\ r.editor = counted.editor
          /\ r.bundle = counted.bundle /\ r.end = counted.end /\ r.wrote = counted.wrote
      BY <2>1, SMT DEF Run
    <2>4. Continue(j, r)
      BY <1>8
    <2> HIDE DEF r
    <2>5. Like(q, r) /\ r.at = q.at /\ CountsOne(q, r, "assets")
      BY <1>5, <2>2, <2>3 DEF Like, CountsOne
    <2>6. RunOK(r) /\ r.end = "none"
      BY <1>1, <1>2, <1>8, <2>3, <2>5, WritingOK
    <2> QED BY <1>1, <1>4, <2>3, <2>4, <2>6, ContinueKeeps
  <1> QED BY <1>6, <1>7, <1>8 DEF ReadAsset

(* What an entry asks for is a row, but for an id of a dry run.            *)
LEMMA GoalTyped ==
  ASSUME NEW q, RunOK(q), q.phase = "tags", NEW T \in SUBSET TagNames
  PROVE  Goal(q, T) \in Goals
  <1> DEFINE a == AssetOf(q)
             row == q.row
  <1>1. row \in Asset /\ q.at \in DOMAIN q.bundle.assets
    BY DEF RunOK, Placed
  <1>2. /\ a.type \in Types /\ a.notes \in Notes \union {Nil}
        /\ a.archived \in BOOLEAN \union {Nil}
        /\ a.tags # Nil => TagsIn(a.tags) \subseteq TagNames
        /\ ProjectOf(q) \in Ids \union {Nil, Temp} /\ HostOf(q) \in Ids \union {Nil, Temp}
    BY <1>1, AssetChecked
  <1>3. /\ row.type \in Types /\ row.project \in Ids \union {Nil} /\ row.host \in Ids \union {Nil}
        /\ row.notes \in Notes \union {Discovered, Nil} /\ row.archived \in BOOLEAN
    BY <1>1, SMT DEF Asset
  <1>4. TargetTags(a, T) \in SUBSET TagNames
    <2>1. CASE a.tags = Nil
      BY <2>1 DEF TargetTags
    <2>2. CASE a.tags # Nil /\ a.merge
      BY <1>2, <2>2 DEF TargetTags
    <2>3. CASE a.tags # Nil /\ ~a.merge
      BY <1>2, <2>3 DEF TargetTags
    <2> QED BY <2>1, <2>2, <2>3
  <1>5. Or(a.archived, row.archived) \in BOOLEAN
    BY <1>2, <1>3, Zenon DEF Or
  <1>6. (IF a.keepType THEN row.type ELSE a.type) \in Types
    BY <1>2, <1>3
  <1>7. (IF a.project = Nil THEN row.project ELSE ProjectOf(q)) \in Ids \union {Nil, Temp}
    BY <1>2, <1>3
  <1>8. (IF a.host = Nil THEN row.host ELSE HostOf(q)) \in Ids \union {Nil, Temp}
    BY <1>2, <1>3
  <1>9. (IF WritesNotes(a, row) THEN a.notes ELSE row.notes)
          \in Notes \union {Discovered, Nil}
    BY <1>2, <1>3
  <1> HIDE DEF a, row
  <1> QED BY <1>4, <1>5, <1>6, <1>7, <1>8, <1>9, Zenon DEF Goal, Goals, a, row

LEMMA ReadTagsKeeps ==
  ASSUME ImportInv, NEW j \in Runs, ReadTags(j)
  PROVE  ImportInv' /\ run'[j].phase # "discover"
  <1> DEFINE q == run[j]
             T == TagsNow(AssetOf(run[j]).ip)
             goal == Goal(run[j], T)
             counted == [q EXCEPT !.count = Counted(q, "assets", "update")]
             skipped == [q EXCEPT !.count = Counted(q, "assets", "skip")]
  <1>1. q.phase = "tags" /\ q.phase \in AtAsset /\ RunOK(q) /\ q \in Run /\ TablesOK
        /\ Reads /\ q.at \in DOMAIN q.bundle.assets
    BY DEF ReadTags, AtAsset, ImportInv, RunOK, Placed
  <1>2. TablesOK' /\ audit' = audit /\ demand' = demand /\ commits' = commits
    BY <1>1, ReadsKeep
  <1>3. /\ Like(q, counted) /\ counted.at = q.at /\ CountsOne(q, counted, "assets")
        /\ counted.phase = q.phase
        /\ Like(q, skipped) /\ skipped.at = q.at /\ CountsOne(q, skipped, "assets")
    BY <1>1, CountedLike DEF Hows
  <1>4. goal \in Goals
    <2>1. AssetOf(q).ip \in Ips
      BY <1>1, AssetChecked
    <2>2. T \in SUBSET TagNames
      BY <1>1, <2>1 DEF TagsNow, TablesOK, Asset
    <2> QED BY <1>1, <2>2, GoalTyped
  <1> HIDE DEF goal
  <1>5. CASE NextAsset(j, counted) \/ NextAsset(j, skipped)
    <2> HIDE DEF counted, skipped
    <2> QED BY <1>1, <1>2, <1>3, <1>5, NextAssetKeeps
  <1>6. CASE ~q.dry /\ Continue(j, [counted EXCEPT !.phase = "update", !.goal = goal])
    <2> DEFINE r == [counted EXCEPT !.phase = "update", !.goal = goal]
    <2> HIDE DEF counted
    <2>1. counted \in Run
      BY <1>3 DEF Like
    <2>2. r \in Run
      <3>1. "update" \in Phases
        BY DEF Phases
      <3> QED BY <1>4, <2>1, <3>1, Zenon DEF Run
    <2>3. /\ r.phase = "update" /\ r.at = counted.at /\ r.count = counted.count
          /\ r.upload = counted.upload /\ r.dry = counted.dry /\ r.editor = counted.editor
          /\ r.bundle = counted.bundle /\ r.end = counted.end /\ r.wrote = counted.wrote
          /\ r.goal = goal
      BY <2>1, SMT DEF Run
    <2>4. Continue(j, r)
      BY <1>6
    <2> HIDE DEF r
    <2>5. Like(q, r) /\ r.at = q.at /\ CountsOne(q, r, "assets")
      BY <1>3, <2>2, <2>3 DEF Like, CountsOne
    <2>6. RunOK(r) /\ r.end = "none"
      BY <1>1, <1>4, <1>6, <2>3, <2>5, WritingOK
    <2> QED BY <1>1, <1>2, <2>3, <2>4, <2>6, ContinueKeeps
  <1> HIDE DEF counted, skipped
  <1> QED BY <1>5, <1>6 DEF ReadTags, counted, skipped, goal

LEMMA WroteLike ==
  ASSUME NEW q \in Run, ~q.dry
  PROVE  Like(q, Wrote(q)) /\ Wrote(q).at = q.at /\ Wrote(q).count = q.count
         /\ Wrote(q).phase = q.phase
  <1>1. Wrote(q) \in Run
    <2>1. q.wrote + 1 \in Nat
      BY DEF Run
    <2> QED BY <2>1, Zenon DEF Wrote, Run
  <1>2. /\ Wrote(q).at = q.at /\ Wrote(q).count = q.count /\ Wrote(q).phase = q.phase
        /\ Wrote(q).upload = q.upload /\ Wrote(q).dry = q.dry /\ Wrote(q).editor = q.editor
        /\ Wrote(q).bundle = q.bundle /\ Wrote(q).end = q.end
    BY SMT DEF Wrote, Run
  <1> QED BY <1>1, <1>2 DEF Like

(* After a write, on to the archiving or to the next entry.                *)
LEMMA AfterWriteKeeps ==
  ASSUME ImportInv, NEW j \in Runs, run[j].phase \in {"create", "update", "archive"},
         NEW x, Like(run[j], x), x.at = run[j].at, x.count = run[j].count,
         \/ NextAsset(j, x)
         \/ AssetOf(run[j]).archived \in BOOLEAN /\ Continue(j, [x EXCEPT !.phase = "archive"]),
         TablesOK', audit' = audit, demand' = demand, commits' \in {commits, commits + 1}
  PROVE  ImportInv' /\ run'[j].phase # "discover"
  <1> DEFINE q == run[j]
  <1>1. RunOK(q) /\ q \in Run /\ q.at \in DOMAIN q.bundle.assets /\ ~q.dry /\ q.phase \in AtAsset
    BY DEF ImportInv, RunOK, Placed, Allowed, AtAsset
  <1>2. CASE NextAsset(j, x)
    BY <1>1, <1>2, NextAssetKeeps
  <1>3. CASE /\ AssetOf(q).archived \in BOOLEAN
             /\ Continue(j, [x EXCEPT !.phase = "archive"])
    <2> DEFINE r == [x EXCEPT !.phase = "archive"]
    <2>1. x \in Run
      BY DEF Like
    <2>2. r \in Run
      <3>1. "archive" \in Phases
        BY DEF Phases
      <3> QED BY <2>1, <3>1, Zenon DEF Run
    <2>3. /\ r.phase = "archive" /\ r.at = x.at /\ r.count = x.count
          /\ r.upload = x.upload /\ r.dry = x.dry /\ r.editor = x.editor
          /\ r.bundle = x.bundle /\ r.end = x.end /\ r.wrote = x.wrote
      BY <2>1, SMT DEF Run
    <2>4. Continue(j, r)
      BY <1>3
    <2> HIDE DEF r
    <2>5. Like(q, r)
      BY <2>2, <2>3 DEF Like
    <2>6. RunOK(r) /\ r.end = "none"
      BY <1>1, <1>3, <2>3, <2>5, WritingOK
    <2> QED BY <1>1, <2>3, <2>4, <2>6, ContinueKeeps
  <1> QED BY <1>2, <1>3

LEMMA CreateAssetKeeps ==
  ASSUME ImportInv, NEW j \in Runs, CreateAsset(j)
  PROVE  ImportInv' /\ run'[j].phase # "discover"
  <1> DEFINE q == run[j]
             a == AssetOf(run[j])
             now == assets[AssetOf(run[j]).ip]
             row == [type |-> a.type, project |-> ProjectOf(q), host |-> HostOf(q),
                     notes |-> a.notes, archived |-> FALSE,
                     tags |-> IF a.tags # Nil THEN TagsIn(a.tags)
                              ELSE IF now # Nil THEN now.tags ELSE {}]
  <1>1. q.phase = "create" /\ RunOK(q) /\ q \in Run /\ ~q.dry /\ TablesOK
        /\ q.at \in DOMAIN q.bundle.assets
    BY DEF CreateAsset, ImportInv, RunOK, Placed, Allowed
  <1>2. CASE Raise(j)
    BY <1>1, <1>2, RaiseKeeps
  <1>3. CASE /\ Exists(ProjectOf(q), HostOf(q))
             /\ Written(a, row)
             /\ IF a.archived = TRUE THEN Continue(j, [Wrote(q) EXCEPT !.phase = "archive"])
                                     ELSE NextAsset(j, Wrote(q))
    <2>1. /\ a.ip \in Ips /\ a.type \in Types /\ a.notes \in Notes \union {Nil}
          /\ a.tags # Nil => TagsIn(a.tags) \subseteq TagNames
      BY <1>1, AssetChecked
    <2>2. now \in Asset \union {Nil}
      BY <1>1, <2>1 DEF TablesOK
    <2>3. /\ ProjectOf(q) \in Live(projects) \union {Nil} /\ HostOf(q) \in Live(hosts) \union {Nil}
          /\ ProjectOf(q) \in Ids \union {Nil} /\ HostOf(q) \in Ids \union {Nil}
      BY <1>3 DEF Exists, Live
    <2>4. (IF a.tags # Nil THEN TagsIn(a.tags) ELSE IF now # Nil THEN now.tags ELSE {})
            \in SUBSET TagNames
      BY <2>1, <2>2 DEF Asset
    <2> HIDE DEF a, now
    <2>5. row \in Asset /\ row.project = ProjectOf(q) /\ row.host = HostOf(q)
      BY <2>1, <2>3, <2>4, Zenon DEF Asset
    <2>6. TablesOK' /\ audit' = audit /\ demand' = demand /\ commits' = commits + 1
      <3> HIDE DEF row
      <3>1. assets' = [assets EXCEPT ![a.ip] = row] /\ UNCHANGED <<vendors, projects, hosts>>
            /\ audit' = audit /\ demand' = demand /\ commits' = commits + 1
        BY <1>3 DEF Written, Writes
      <3> QED BY <1>1, <2>1, <2>3, <2>5, <3>1, AssetWritten
    <2>7. Like(q, Wrote(q)) /\ Wrote(q).at = q.at /\ Wrote(q).count = q.count
      BY <1>1, WroteLike
    <2>8. \/ NextAsset(j, Wrote(q))
          \/ AssetOf(q).archived \in BOOLEAN /\ Continue(j, [Wrote(q) EXCEPT !.phase = "archive"])
      BY <1>3 DEF a
    <2> QED BY <1>1, <2>6, <2>7, <2>8, AfterWriteKeeps
  <1> HIDE DEF a, now, row
  <1> QED BY <1>2, <1>3 DEF CreateAsset, a, now, row

LEMMA UpdateAssetKeeps ==
  ASSUME ImportInv, NEW j \in Runs, UpdateAsset(j)
  PROVE  ImportInv' /\ run'[j].phase # "discover"
  <1> DEFINE q == run[j]
             a == AssetOf(run[j])
             now == assets[AssetOf(run[j]).ip]
             next == [now EXCEPT !.type = q.goal.type, !.project = Or(ProjectOf(q), @),
                                 !.host = Or(HostOf(q), @),
                                 !.notes = IF WritesNotes(a, q.row) THEN a.notes ELSE @,
                                 !.tags = q.goal.tags]
             After(r) == IF a.archived # Nil THEN Continue(j, [r EXCEPT !.phase = "archive"])
                                             ELSE NextAsset(j, r)
  <1>1. q.phase = "update" /\ RunOK(q) /\ q \in Run /\ ~q.dry /\ TablesOK
        /\ q.at \in DOMAIN q.bundle.assets /\ q.goal \in Goals
    BY DEF UpdateAsset, ImportInv, RunOK, Placed, Allowed
  <1>2. /\ a.ip \in Ips /\ a.notes \in Notes \union {Nil} /\ a.archived \in BOOLEAN \union {Nil}
    BY <1>1, AssetChecked
  <1>3. ASSUME NEW r, After(r)
        PROVE  \/ NextAsset(j, r)
               \/ AssetOf(q).archived \in BOOLEAN /\ Continue(j, [r EXCEPT !.phase = "archive"])
    BY <1>2, <1>3
  <1>4. CASE Raise(j)
    BY <1>1, <1>4, RaiseKeeps
  <1>5. CASE After(q) /\ Reads
    <2>1. TablesOK' /\ audit' = audit /\ demand' = demand /\ commits' = commits
      BY <1>1, <1>5, ReadsKeep
    <2>2. Like(q, q)
      BY <1>1 DEF Like
    <2> QED BY <1>1, <1>3, <1>5, <2>1, <2>2, AfterWriteKeeps
  <1>6. CASE /\ now # Nil /\ Exists(ProjectOf(q), HostOf(q))
             /\ Written(a, next) /\ After(Wrote(q))
    <2>1. now \in Asset /\ now.project \in Live(projects) \union {Nil}
          /\ now.host \in Live(hosts) \union {Nil}
      BY <1>1, <1>2, <1>6 DEF TablesOK, Linked
    <2>2. /\ now.project \in Ids \union {Nil} /\ now.host \in Ids \union {Nil}
          /\ now.notes \in Notes \union {Discovered, Nil}
      BY <2>1, SMT DEF Asset
    <2>3. ProjectOf(q) \in Live(projects) \union {Nil} /\ HostOf(q) \in Live(hosts) \union {Nil}
      BY <1>6 DEF Exists
    <2>4. /\ Or(ProjectOf(q), now.project) \in Live(projects) \union {Nil}
          /\ Or(HostOf(q), now.host) \in Live(hosts) \union {Nil}
          /\ Or(ProjectOf(q), now.project) \in Ids \union {Nil}
          /\ Or(HostOf(q), now.host) \in Ids \union {Nil}
      BY <2>1, <2>3, Zenon DEF Or, Live
    <2>5. q.goal.type \in Types /\ q.goal.tags \in SUBSET TagNames
      BY <1>1, SMT DEF Goals
    <2>6. (IF WritesNotes(a, q.row) THEN a.notes ELSE now.notes) \in Notes \union {Discovered, Nil}
      BY <1>2, <2>2
    <2> HIDE DEF a, now
    <2>7. next \in Asset
      BY <2>1, <2>4, <2>5, <2>6, Zenon DEF Asset
    <2>8. next.project = Or(ProjectOf(q), now.project) /\ next.host = Or(HostOf(q), now.host)
      BY <2>1, SMT DEF Asset
    <2>9. TablesOK' /\ audit' = audit /\ demand' = demand /\ commits' = commits + 1
      <3> HIDE DEF next
      <3>1. assets' = [assets EXCEPT ![a.ip] = next] /\ UNCHANGED <<vendors, projects, hosts>>
            /\ audit' = audit /\ demand' = demand /\ commits' = commits + 1
        BY <1>6 DEF Written, Writes
      <3> QED BY <1>1, <1>2, <2>4, <2>7, <2>8, <3>1, AssetWritten
    <2>10. Like(q, Wrote(q)) /\ Wrote(q).at = q.at /\ Wrote(q).count = q.count
      BY <1>1, WroteLike
    <2>11. \/ NextAsset(j, Wrote(q))
           \/ AssetOf(q).archived \in BOOLEAN /\ Continue(j, [Wrote(q) EXCEPT !.phase = "archive"])
      BY <1>3, <1>6
    <2> QED BY <1>1, <2>9, <2>10, <2>11, AfterWriteKeeps
  <1> HIDE DEF a, now, next, After
  <1> QED BY <1>4, <1>5, <1>6 DEF UpdateAsset, a, now, next, After

LEMMA ArchiveAssetKeeps ==
  ASSUME ImportInv, NEW j \in Runs, ArchiveAsset(j)
  PROVE  ImportInv' /\ run'[j].phase # "discover"
  <1> DEFINE q == run[j]
             a == AssetOf(run[j])
             row == [assets[a.ip] EXCEPT !.archived = a.archived]
  <1>1. q.phase = "archive" /\ RunOK(q) /\ q \in Run /\ ~q.dry /\ TablesOK
        /\ q.at \in DOMAIN q.bundle.assets /\ a.archived \in BOOLEAN
    BY DEF ArchiveAsset, ImportInv, RunOK, Placed, Allowed
  <1>2. a.ip \in Ips
    BY <1>1, AssetChecked
  <1>3. CASE NextAsset(j, q) /\ Reads
    <2>1. TablesOK' /\ audit' = audit /\ demand' = demand /\ commits' = commits
      BY <1>1, <1>3, ReadsKeep
    <2>2. Like(q, q)
      BY <1>1 DEF Like
    <2> QED BY <1>1, <1>3, <2>1, <2>2, AfterWriteKeeps
  <1>4. CASE assets[a.ip] # Nil /\ Written(a, row) /\ NextAsset(j, Wrote(q))
    <2>1. assets[a.ip] \in Asset /\ assets[a.ip].project \in Live(projects) \union {Nil}
          /\ assets[a.ip].host \in Live(hosts) \union {Nil}
      BY <1>1, <1>2, <1>4 DEF TablesOK, Linked
    <2> HIDE DEF a
    <2>2. row \in Asset
      BY <1>1, <2>1, Zenon DEF Asset
    <2>3. row.project = assets[a.ip].project /\ row.host = assets[a.ip].host
      BY <2>1, SMT DEF Asset
    <2>4. TablesOK' /\ audit' = audit /\ demand' = demand /\ commits' = commits + 1
      <3> HIDE DEF row
      <3>1. assets' = [assets EXCEPT ![a.ip] = row] /\ UNCHANGED <<vendors, projects, hosts>>
            /\ audit' = audit /\ demand' = demand /\ commits' = commits + 1
        BY <1>4 DEF Written, Writes
      <3> QED BY <1>1, <1>2, <2>1, <2>2, <2>3, <3>1, AssetWritten
    <2>5. Like(q, Wrote(q)) /\ Wrote(q).at = q.at /\ Wrote(q).count = q.count
      BY <1>1, WroteLike
    <2> QED BY <1>1, <1>4, <2>4, <2>5, AfterWriteKeeps
  <1> QED BY <1>3, <1>4 DEF ArchiveAsset

-----------------------------------------------------------------------------
(* A run that has been applied, and the import of a scan.                  *)

LEMMA Completing ==
  ASSUME ImportInv, NEW j \in Runs, run[j].phase \notin {"new", "ended"},
         Stop(j, run[j], "completed"), UNCHANGED <<tables, commits, restarts, demand>>,
         \/ /\ run[j].upload.kind = "nmap" /\ audit' = audit
         \/ /\ run[j].upload.kind # "nmap"
            /\ audit' = IF run[j].dry THEN audit ELSE audit \union {j}
            /\ Sums(run[j], Len(run[j].bundle.vendors), Len(run[j].bundle.projects),
                    Len(run[j].bundle.hosts), Len(run[j].bundle.assets))
  PROVE  ImportInv' /\ run'[j].phase # "discover"
  <1> DEFINE q == run[j]
             alone == (commits = run[j].base + run[j].wrote)
             r == Stopped(q, "completed", alone)
  <1>1. RunOK(q) /\ run \in [Runs -> Run] /\ TablesOK
    BY DEF ImportInv
  <1>2. run' = [run EXCEPT ![j] = r] /\ loop' \in {loop, j, Nil}
    BY DEF Stop, Stopped
  <1>3. run'[j] = r
    BY <1>1, <1>2
  <1>4. RunOK(r) /\ r.phase = "ended" /\ r.end = "completed" /\ r.dry = q.dry /\ r.upload = q.upload
    <2>1. alone \in BOOLEAN /\ "completed" \in Ends \ {"none"}
      BY DEF Ends
    <2> HIDE DEF alone
    <2> QED BY <1>1, <2>1, StopOK
  <1> HIDE DEF r
  <1>5. j \notin audit
    BY <1>1 DEF ImportInv, RunOK, Allowed, Recorded
  <1>6. audit' \subseteq Runs /\ (j \in audit' <=> Recorded(run'[j]))
        /\ \A i \in Runs \ {j} : i \in audit' <=> i \in audit
    BY <1>3, <1>4, <1>5 DEF ImportInv, Recorded
  <1>7. TablesOK'
    BY <1>1 DEF TablesOK, tables, Linked, Live
  <1>8. run' \in [Runs -> Run]
    BY <1>1, <1>2, <1>4 DEF RunOK
  <1>9. \A i \in Runs : RunOK(run'[i]) /\ (i \in audit' <=> Recorded(run'[i]))
    <2> SUFFICES ASSUME NEW i \in Runs
                 PROVE  RunOK(run'[i]) /\ (i \in audit' <=> Recorded(run'[i]))
      OBVIOUS
    <2>1. CASE i = j
      BY <2>1, <1>3, <1>4, <1>6
    <2>2. CASE i # j
      <3>1. run'[i] = run[i]
        BY <1>1, <1>2, <2>2
      <3> QED BY <3>1, <1>6, <2>2 DEF ImportInv
    <2> QED BY <2>1, <2>2
  <1> QED BY <1>2, <1>3, <1>4, <1>6, <1>7, <1>8, <1>9 DEF ImportInv

LEMMA RecordKeeps ==
  ASSUME ImportInv, NEW j \in Runs, Record(j)
  PROVE  ImportInv' /\ run'[j].phase # "discover"
  <1> DEFINE q == run[j]
             A == Len(q.bundle.assets)
  <1>1. q.phase = "assets" /\ RunOK(q) /\ q.upload.kind # "nmap" /\ q.at > A
    BY DEF Record, PastLast, ImportInv, RunOK, Placed, Importing, Applying
  <1>2. q.at \in Nat /\ A \in Nat
    <2>1. q.bundle \in Bundle \union ScanBundle /\ q.at \in Nat
      BY <1>1 DEF RunOK, Run
    <2> QED BY <2>1, Lengths
  <1>3. Sums(q, Len(q.bundle.vendors), Len(q.bundle.projects), Len(q.bundle.hosts), q.at - 1)
        /\ q.at - 1 <= A
    BY <1>1 DEF RunOK, Counting
  <1>4. q.at - 1 = A
    BY <1>1, <1>2, <1>3, SMT
  <1>5. Sums(q, Len(q.bundle.vendors), Len(q.bundle.projects), Len(q.bundle.hosts), A)
    BY <1>3, <1>4
  <1> QED BY <1>1, <1>5, Completing DEF Record

LEMMA NmapDoneKeeps ==
  ASSUME ImportInv, NEW j \in Runs, NmapDone(j)
  PROVE  ImportInv' /\ run'[j].phase # "discover"
  <1>1. run[j].phase = "scan" /\ run[j].upload.kind = "nmap"
    BY DEF NmapDone, ImportInv, RunOK, Placed, Scanning
  <1> QED BY <1>1, Completing DEF NmapDone, Reads

(* The host a scan is at.                                                  *)
LEMMA ScanEntry ==
  ASSUME NEW q, RunOK(q), q.phase \in Scanning, q.at \in DOMAIN q.bundle.assets
  PROVE  AssetOf(q).ip \in Ips /\ AssetOf(q).type \in Types
  <1>1. q.bundle \in ScanBundle
    BY DEF RunOK, Placed
  <1>2. q.bundle.assets \in Seq([ip : Ips, type : Types])
    BY <1>1 DEF ScanBundle
  <1>3. q.bundle.assets[q.at] \in [ip : Ips, type : Types]
    BY <1>2, SeqElement
  <1> QED BY <1>3 DEF AssetOf

LEMMA ScanOK ==
  ASSUME NEW q, RunOK(q), q.phase \in Scanning, NEW r, Like(q, r),
         \/ r.phase = "scan"
         \/ r.phase = "discover" /\ r.at \in DOMAIN r.bundle.assets /\ ~q.dry
  PROVE  RunOK(r) /\ r.end = "none"
  <1>1. q \in Run /\ Placed(q) /\ Allowed(q) /\ r \in Run
    BY DEF RunOK, Like
  <1>2. Placed(r)
    BY <1>1 DEF Placed, Like, Importing, Applying, Scanning
  <1>3. Allowed(r) /\ r.end = "none"
    BY <1>1 DEF Allowed, Like, Scanning
  <1>4. Counting(r)
    BY <1>3, Zenon DEF Counting
  <1> QED BY <1>1, <1>2, <1>3, <1>4 DEF RunOK

(* A scan goes on to its next host.                                        *)
LEMMA ScanAdvances ==
  ASSUME ImportInv, NEW j \in Runs, run[j].phase \in Scanning, NEW x, Like(run[j], x),
         x.phase = "scan", Advance(j, x), TablesOK', audit' = audit, demand' = demand,
         commits' \in {commits, commits + 1}
  PROVE  ImportInv' /\ run'[j].phase # "discover"
  <1> DEFINE r == [x EXCEPT !.at = @ + 1]
  <1>1. x \in Run /\ RunOK(run[j])
    BY DEF Like, ImportInv
  <1>2. r \in Run
    <2>1. x.at + 1 \in Nat \ {0}
      BY <1>1 DEF Run
    <2> QED BY <1>1, <2>1, Zenon DEF Run
  <1>3. /\ r.phase = "scan" /\ r.upload = x.upload /\ r.dry = x.dry
        /\ r.editor = x.editor /\ r.bundle = x.bundle /\ r.end = x.end /\ r.wrote = x.wrote
    BY <1>1, SMT DEF Run
  <1>4. Continue(j, r)
    BY DEF Advance
  <1> HIDE DEF r
  <1>5. Like(run[j], r)
    BY <1>2, <1>3 DEF Like
  <1>6. RunOK(r) /\ r.end = "none"
    BY <1>1, <1>3, <1>5, ScanOK
  <1> QED BY <1>3, <1>4, <1>6, ContinueKeeps DEF Scanning

LEMMA NmapReadKeeps ==
  ASSUME ImportInv, NEW j \in Runs, NmapRead(j)
  PROVE  ImportInv'
  <1> DEFINE q == run[j]
             Counts1(how) == [q EXCEPT !.count = Counted(q, "assets", how)]
  <1>1. q.phase = "scan" /\ q.phase \in Scanning /\ RunOK(q) /\ q \in Run /\ TablesOK
        /\ Reads /\ q.bundle \in ScanBundle
    BY DEF NmapRead, Scanning, ImportInv, RunOK, Placed
  <1>2. q.at \in DOMAIN q.bundle.assets
    <2>1. q.at <= Len(q.bundle.assets) /\ q.at \in Nat \ {0}
      BY <1>1 DEF NmapRead, Run
    <2> QED BY <1>1, <2>1, Lengths
  <1>3. TablesOK' /\ audit' = audit /\ demand' = demand /\ commits' = commits
    BY <1>1, ReadsKeep
  <1>4. \A how \in Hows : Like(q, Counts1(how)) /\ Counts1(how).phase = q.phase
                          /\ Counts1(how).at = q.at
    BY <1>1, CountedLike
  <1>5. ASSUME NEW how \in Hows, Advance(j, Counts1(how))
        PROVE  ImportInv'
    <2> HIDE DEF Counts1
    <2> QED BY <1>1, <1>3, <1>4, <1>5, ScanAdvances
  <1>6. CASE ~q.dry /\ Continue(j, [q EXCEPT !.phase = "discover",
                                             !.count = Counted(q, "assets", "create")])
    <2> DEFINE c == Counted(q, "assets", "create")
               r == [q EXCEPT !.phase = "discover", !.count = c]
    <2>1. c \in Counts
      BY <1>1, CountOne DEF Section, Hows, Run
    <2> HIDE DEF c
    <2>2. r \in Run
      <3>1. "discover" \in Phases
        BY DEF Phases
      <3> QED BY <1>1, <2>1, <3>1, Zenon DEF Run
    <2>3. Like(q, r) /\ r.phase = "discover" /\ r.at = q.at /\ r.bundle = q.bundle
      BY <1>1, <2>2, SMT DEF Like, Run
    <2>4. Continue(j, r)
      BY <1>6 DEF c
    <2> HIDE DEF r
    <2>5. RunOK(r) /\ r.end = "none"
      BY <1>1, <1>2, <1>6, <2>3, ScanOK
    <2> QED BY <1>1, <1>3, <2>4, <2>5, ContinueKeeps
  <1> QED BY <1>5, <1>6 DEF NmapRead, Hows

LEMMA NmapCreateKeeps ==
  ASSUME ImportInv, NEW j \in Runs, NmapCreate(j)
  PROVE  ImportInv' /\ run'[j].phase # "discover"
  <1> DEFINE q == run[j]
             a == AssetOf(run[j])
             now == assets[AssetOf(run[j]).ip]
             row == [type |-> a.type, project |-> Nil, host |-> Nil,
                     notes |-> Discovered, archived |-> FALSE,
                     tags |-> IF now # Nil THEN now.tags ELSE {}]
             x == [Wrote(q) EXCEPT !.phase = "scan"]
  <1>1. q.phase = "discover" /\ q.phase \in Scanning /\ RunOK(q) /\ q \in Run /\ TablesOK
        /\ ~q.dry /\ q.at \in DOMAIN q.bundle.assets
    BY DEF NmapCreate, Scanning, ImportInv, RunOK, Placed, Allowed
  <1>2. CASE Raise(j)
    BY <1>1, <1>2, RaiseKeeps
  <1>3. CASE Written(a, row) /\ Advance(j, x)
    <2>1. a.ip \in Ips /\ a.type \in Types
      BY <1>1, ScanEntry
    <2>2. (IF now # Nil THEN now.tags ELSE {}) \in SUBSET TagNames
      BY <1>1, <2>1 DEF TablesOK, Asset
    <2> HIDE DEF a, now
    <2>3. row \in Asset /\ row.project = Nil /\ row.host = Nil
      BY <2>1, <2>2, Zenon DEF Asset
    <2>4. TablesOK' /\ audit' = audit /\ demand' = demand /\ commits' = commits + 1
      <3> HIDE DEF row
      <3>1. assets' = [assets EXCEPT ![a.ip] = row] /\ UNCHANGED <<vendors, projects, hosts>>
            /\ audit' = audit /\ demand' = demand /\ commits' = commits + 1
        BY <1>3 DEF Written, Writes
      <3> QED BY <1>1, <2>1, <2>3, <3>1, AssetWritten
    <2>5. Like(q, Wrote(q))
      BY <1>1, WroteLike
    <2>6. Wrote(q) \in Run
      BY <2>5 DEF Like
    <2>7. x \in Run
      <3>1. "scan" \in Phases
        BY DEF Phases
      <3> HIDE DEF q
      <3> QED BY <2>6, <3>1, Zenon DEF Run
    <2>8. x.phase = "scan" /\ x.upload = Wrote(q).upload /\ x.dry = Wrote(q).dry
          /\ x.editor = Wrote(q).editor /\ x.bundle = Wrote(q).bundle /\ x.end = Wrote(q).end
          /\ x.wrote = Wrote(q).wrote
      <3> HIDE DEF q
      <3> QED BY <2>6, SMT DEF Run
    <2>9. Like(q, x)
      BY <2>5, <2>7, <2>8 DEF Like
    <2> HIDE DEF x
    <2> QED BY <1>1, <1>3, <2>4, <2>8, <2>9, ScanAdvances
  <1> HIDE DEF a, now, row, x
  <1> QED BY <1>2, <1>3 DEF NmapCreate, a, now, row, x

-----------------------------------------------------------------------------
(* The requests of others, and a restart.                                  *)

LEMMA OtherFramed ==
  ASSUME ImportInv, UNCHANGED <<run, loop>>, Writes, TablesOK'
  PROVE  ImportInv'
  BY DEF ImportInv, Writes

LEMMA ProjectsKeep ==
  ASSUME ImportInv, AddProject \/ DropProject
  PROVE  ImportInv'
  <1>1. TablesOK
    BY DEF ImportInv
  <1>2. CASE AddProject
    <2>1. PICK i \in Ids, n \in Names :
            projects' = [projects EXCEPT ![i] = [name |-> n, color |-> DefaultColor]]
      BY <1>2 DEF AddProject
    <2>2. [name |-> n, color |-> DefaultColor] \in Project
      BY ImportAssumption DEF Project
    <2>3. TablesOK'
      BY <1>1, <1>2, <2>1, <2>2, ProjectWritten DEF AddProject
    <2> QED BY <1>2, <2>3, OtherFramed DEF AddProject, Request
  <1>3. CASE DropProject
    <2>1. PICK i \in Live(projects) : /\ projects' = [projects EXCEPT ![i] = Nil]
                                      /\ assets' = Unassigned("project", i)
      BY <1>3 DEF DropProject
    <2>2. i \in Ids /\ UNCHANGED <<vendors, hosts>>
      BY <1>3, <2>1 DEF DropProject, Live
    <2>3. projects' \in [Ids -> Project \union {Nil}] /\ Live(projects)' = Live(projects) \ {i}
      BY <1>1, <2>1, <2>2 DEF TablesOK, Live
    <2>4. \A ip \in Ips : assets'[ip] = IF assets[ip] # Nil /\ assets[ip].project = i
                                        THEN [assets[ip] EXCEPT !.project = Nil] ELSE assets[ip]
      BY <2>1 DEF Unassigned
    <2>5. \A ip \in Ips : assets'[ip] # Nil =>
            /\ assets[ip] \in Asset /\ assets'[ip] \in Asset
            /\ assets'[ip].host = assets[ip].host
            /\ assets'[ip].project = IF assets[ip].project = i THEN Nil ELSE assets[ip].project
      <3> SUFFICES ASSUME NEW ip \in Ips, assets'[ip] # Nil
                   PROVE  /\ assets[ip] \in Asset /\ assets'[ip] \in Asset
                          /\ assets'[ip].host = assets[ip].host
                          /\ assets'[ip].project =
                               IF assets[ip].project = i THEN Nil ELSE assets[ip].project
        OBVIOUS
      <3>1. assets[ip] \in Asset
        BY <1>1, <2>4 DEF TablesOK
      <3>2. CASE assets[ip].project = i
        <4>1. assets'[ip] = [assets[ip] EXCEPT !.project = Nil]
          BY <2>4, <3>1, <3>2, RowsNotNil
        <4> QED BY <3>1, <3>2, <4>1, SMT DEF Asset
      <3>3. CASE assets[ip].project # i
        BY <2>4, <3>1, <3>3
      <3> QED BY <3>2, <3>3
    <2>6. assets' \in [Ips -> Asset \union {Nil}]
      BY <2>1, <2>4, <2>5 DEF Unassigned
    <2>7. Linked(vendors, projects, hosts, assets)'
      <3>1. Live(hosts)' = Live(hosts)
        BY <2>2 DEF Live
      <3>2. \A ip \in Ips : assets'[ip] # Nil =>
              /\ assets'[ip].project \in Live(projects)' \union {Nil}
              /\ assets'[ip].host \in Live(hosts)' \union {Nil}
        <4> SUFFICES ASSUME NEW ip \in Ips, assets'[ip] # Nil
                     PROVE  /\ assets'[ip].project \in Live(projects)' \union {Nil}
                            /\ assets'[ip].host \in Live(hosts)' \union {Nil}
          OBVIOUS
        <4>1. assets[ip] # Nil
          BY <2>5, RowsNotNil
        <4>2. /\ assets[ip].project \in Live(projects) \union {Nil}
              /\ assets[ip].host \in Live(hosts) \union {Nil}
          BY <1>1, <4>1 DEF TablesOK, Linked
        <4> QED BY <2>3, <2>5, <3>1, <4>2
      <3> QED BY <1>1, <2>2, <3>1, <3>2 DEF TablesOK, Linked
    <2>8. TablesOK'
      BY <1>1, <2>2, <2>3, <2>6, <2>7 DEF TablesOK
    <2> QED BY <1>3, <2>8, OtherFramed DEF DropProject, Request
  <1> QED BY <1>2, <1>3

LEMMA HostsKeep ==
  ASSUME ImportInv, AddHost \/ DropHost
  PROVE  ImportInv'
  <1>1. TablesOK
    BY DEF ImportInv
  <1>2. CASE AddHost
    <2>1. PICK i \in Ids, n \in Names :
            hosts' = [hosts EXCEPT ![i] = [name |-> n, notes |-> Nil, vendor |-> Nil]]
      BY <1>2 DEF AddHost
    <2> DEFINE row == [name |-> n, notes |-> Nil, vendor |-> Nil]
    <2>2. row \in Host /\ row.vendor = Nil
      BY DEF Host
    <2>3. TablesOK'
      <3> HIDE DEF row
      <3> QED BY <1>1, <1>2, <2>1, <2>2, HostWritten DEF AddHost, row
    <2> QED BY <1>2, <2>3, OtherFramed DEF AddHost, Request
  <1>3. CASE DropHost
    <2>1. PICK i \in Live(hosts) : /\ hosts' = [hosts EXCEPT ![i] = Nil]
                                   /\ assets' = Unassigned("host", i)
      BY <1>3 DEF DropHost
    <2>2. i \in Ids /\ UNCHANGED <<vendors, projects>>
      BY <1>3, <2>1 DEF DropHost, Live
    <2>3. /\ hosts' \in [Ids -> Host \union {Nil}] /\ Live(hosts)' = Live(hosts) \ {i}
          /\ \A k \in Live(hosts)' : hosts'[k] = hosts[k]
      BY <1>1, <2>1, <2>2 DEF TablesOK, Live
    <2>4. \A ip \in Ips : assets'[ip] = IF assets[ip] # Nil /\ assets[ip].host = i
                                        THEN [assets[ip] EXCEPT !.host = Nil] ELSE assets[ip]
      BY <2>1 DEF Unassigned
    <2>5. \A ip \in Ips : assets'[ip] # Nil =>
            /\ assets[ip] \in Asset /\ assets'[ip] \in Asset
            /\ assets'[ip].project = assets[ip].project
            /\ assets'[ip].host = IF assets[ip].host = i THEN Nil ELSE assets[ip].host
      <3> SUFFICES ASSUME NEW ip \in Ips, assets'[ip] # Nil
                   PROVE  /\ assets[ip] \in Asset /\ assets'[ip] \in Asset
                          /\ assets'[ip].project = assets[ip].project
                          /\ assets'[ip].host =
                               IF assets[ip].host = i THEN Nil ELSE assets[ip].host
        OBVIOUS
      <3>1. assets[ip] \in Asset
        BY <1>1, <2>4 DEF TablesOK
      <3>2. CASE assets[ip].host = i
        <4>1. assets'[ip] = [assets[ip] EXCEPT !.host = Nil]
          BY <2>4, <3>1, <3>2, RowsNotNil
        <4> QED BY <3>1, <3>2, <4>1, SMT DEF Asset
      <3>3. CASE assets[ip].host # i
        BY <2>4, <3>1, <3>3
      <3> QED BY <3>2, <3>3
    <2>6. assets' \in [Ips -> Asset \union {Nil}]
      BY <2>1, <2>4, <2>5 DEF Unassigned
    <2>7. Linked(vendors, projects, hosts, assets)'
      <3>1. Live(projects)' = Live(projects)
        BY <2>2 DEF Live
      <3>2. \A ip \in Ips : assets'[ip] # Nil =>
              /\ assets'[ip].project \in Live(projects)' \union {Nil}
              /\ assets'[ip].host \in Live(hosts)' \union {Nil}
        <4> SUFFICES ASSUME NEW ip \in Ips, assets'[ip] # Nil
                     PROVE  /\ assets'[ip].project \in Live(projects)' \union {Nil}
                            /\ assets'[ip].host \in Live(hosts)' \union {Nil}
          OBVIOUS
        <4>1. assets[ip] # Nil
          BY <2>5, RowsNotNil
        <4>2. /\ assets[ip].project \in Live(projects) \union {Nil}
              /\ assets[ip].host \in Live(hosts) \union {Nil}
          BY <1>1, <4>1 DEF TablesOK, Linked
        <4> QED BY <2>3, <2>5, <3>1, <4>2
      <3>3. \A k \in Live(hosts)' : hosts'[k].vendor \in vendors' \union {Nil}
        BY <1>1, <2>2, <2>3 DEF TablesOK, Linked
      <3> QED BY <3>2, <3>3 DEF Linked
    <2>8. TablesOK'
      BY <1>1, <2>2, <2>3, <2>6, <2>7 DEF TablesOK
    <2> QED BY <1>3, <2>8, OtherFramed DEF DropHost, Request
  <1> QED BY <1>2, <1>3

LEMMA VendorsKeep ==
  ASSUME ImportInv, AddVendor \/ DropVendor
  PROVE  ImportInv'
  <1>1. TablesOK
    BY DEF ImportInv
  <1>2. CASE AddVendor
    <2>1. TablesOK'
      BY <1>1, <1>2, VendorAdded DEF AddVendor
    <2> QED BY <1>2, <2>1, OtherFramed DEF AddVendor, Request
  <1>3. CASE DropVendor
    <2>1. PICK n \in vendors :
            /\ vendors' = vendors \ {n}
            /\ hosts' = [i \in Ids |-> IF hosts[i] # Nil /\ hosts[i].vendor = n
                                       THEN [hosts[i] EXCEPT !.vendor = Nil] ELSE hosts[i]]
      BY <1>3 DEF DropVendor
    <2>2. \A i \in Ids : hosts'[i] # Nil =>
            /\ hosts[i] \in Host /\ hosts'[i] \in Host
            /\ hosts'[i].vendor = IF hosts[i].vendor = n THEN Nil ELSE hosts[i].vendor
      <3> SUFFICES ASSUME NEW i \in Ids, hosts'[i] # Nil
                   PROVE  /\ hosts[i] \in Host /\ hosts'[i] \in Host
                          /\ hosts'[i].vendor =
                               IF hosts[i].vendor = n THEN Nil ELSE hosts[i].vendor
        OBVIOUS
      <3>1. hosts[i] \in Host
        BY <1>1, <2>1 DEF TablesOK
      <3>2. CASE hosts[i].vendor = n
        <4>1. hosts'[i] = [hosts[i] EXCEPT !.vendor = Nil]
          BY <2>1, <3>1, <3>2, RowsNotNil
        <4> QED BY <3>1, <3>2, <4>1, SMT DEF Host
      <3>3. CASE hosts[i].vendor # n
        BY <2>1, <3>1, <3>3
      <3> QED BY <3>2, <3>3
    <2>3. hosts' \in [Ids -> Host \union {Nil}]
      BY <2>1, <2>2
    <2>4. \A i \in Ids : hosts'[i] = Nil => hosts[i] = Nil
      <3> SUFFICES ASSUME NEW i \in Ids, hosts[i] # Nil PROVE hosts'[i] # Nil
        OBVIOUS
      <3>1. hosts[i] \in Host /\ [hosts[i] EXCEPT !.vendor = Nil] \in Host
        <4>1. hosts[i] \in Host
          BY <1>1 DEF TablesOK
        <4> QED BY <4>1, SMT DEF Host
      <3> QED BY <2>1, <3>1, RowsNotNil
    <2>5. Live(hosts)' = Live(hosts) /\ Live(projects)' = Live(projects)
      BY <1>3, <2>2, <2>4, RowsNotNil DEF Live, DropVendor
    <2>6. \A i \in Live(hosts)' : hosts'[i].vendor \in vendors' \union {Nil}
      BY <1>1, <2>1, <2>2, <2>5 DEF TablesOK, Linked, Live
    <2>7. UNCHANGED <<projects, assets>>
      BY <1>3 DEF DropVendor
    <2>8. Linked(vendors, projects, hosts, assets)'
      BY <1>1, <2>5, <2>6, <2>7 DEF TablesOK, Linked
    <2>9. TablesOK'
      BY <1>1, <2>1, <2>3, <2>7, <2>8 DEF TablesOK
    <2> QED BY <1>3, <2>9, OtherFramed DEF DropVendor, Request
  <1> QED BY <1>2, <1>3

LEMMA AssetsKeep ==
  ASSUME ImportInv, EditType \/ EditNotes \/ EditTags \/ DropAsset \/ AddAsset \/ ArchiveOther
  PROVE  ImportInv'
  <1>1. TablesOK /\ \A ip \in StoredIps : /\ ip \in Ips /\ assets[ip] \in Asset
                                          /\ assets[ip].project \in Live(projects) \union {Nil}
                                          /\ assets[ip].host \in Live(hosts) \union {Nil}
    BY DEF ImportInv, StoredIps, TablesOK, Linked
  <1>2. UNCHANGED <<run, loop, vendors, projects, hosts>> /\ Writes
    BY DEF EditType, EditNotes, EditTags, DropAsset, AddAsset,
         ArchiveOther, Request
  <1>3. ASSUME NEW ip \in Ips, NEW row \in Asset, assets' = [assets EXCEPT ![ip] = row],
               row.project \in Live(projects) \union {Nil}, row.host \in Live(hosts) \union {Nil}
        PROVE  ImportInv'
    <2>1. TablesOK'
      BY <1>1, <1>2, <1>3, AssetWritten
    <2> QED BY <1>2, <2>1, OtherFramed
  <1>4. CASE EditType
    <2>1. PICK ip \in StoredIps, t \in Types : assets' = [assets EXCEPT ![ip].type = t]
      BY <1>4 DEF EditType
    <2> DEFINE row == [assets[ip] EXCEPT !.type = t]
    <2>2. row \in Asset /\ row.project = assets[ip].project /\ row.host = assets[ip].host
      BY <1>1, <2>1, SMT DEF Asset
    <2>3. assets' = [assets EXCEPT ![ip] = row]
      BY <2>1
    <2> HIDE DEF row
    <2> QED BY <1>1, <1>3, <2>2, <2>3
  <1>5. CASE EditNotes
    <2>1. PICK ip \in StoredIps, t \in Notes : assets' = [assets EXCEPT ![ip].notes = t]
      BY <1>5 DEF EditNotes
    <2> DEFINE row == [assets[ip] EXCEPT !.notes = t]
    <2>2. row \in Asset /\ row.project = assets[ip].project /\ row.host = assets[ip].host
      BY <1>1, <2>1, SMT DEF Asset
    <2>3. assets' = [assets EXCEPT ![ip] = row]
      BY <2>1
    <2> HIDE DEF row
    <2> QED BY <1>1, <1>3, <2>2, <2>3
  <1>6. CASE EditTags
    <2>1. PICK ip \in StoredIps, T \in SUBSET TagNames : assets' = [assets EXCEPT ![ip].tags = T]
      BY <1>6 DEF EditTags
    <2> DEFINE row == [assets[ip] EXCEPT !.tags = T]
    <2>2. row \in Asset /\ row.project = assets[ip].project /\ row.host = assets[ip].host
      BY <1>1, <2>1, SMT DEF Asset
    <2>3. assets' = [assets EXCEPT ![ip] = row]
      BY <2>1
    <2> HIDE DEF row
    <2> QED BY <1>1, <1>3, <2>2, <2>3
  <1>7. CASE DropAsset
    <2>1. PICK ip \in StoredIps : assets' = [assets EXCEPT ![ip] = Nil]
      BY <1>7 DEF DropAsset
    <2>2. assets' \in [Ips -> Asset \union {Nil}] /\ Live(projects)' = Live(projects)
          /\ Live(hosts)' = Live(hosts)
      BY <1>1, <1>2, <2>1 DEF TablesOK, Live
    <2>3. Linked(vendors, projects, hosts, assets)'
      BY <1>1, <1>2, <2>1, <2>2 DEF TablesOK, Linked
    <2>4. TablesOK'
      BY <1>1, <1>2, <2>2, <2>3 DEF TablesOK
    <2> QED BY <1>2, <2>4, OtherFramed
  <1>8. CASE AddAsset
    <2>1. PICK ip \in Ips \ StoredIps, t \in Types :
            assets' = [assets EXCEPT ![ip] = [type |-> t, project |-> Nil, host |-> Nil,
                         notes |-> Nil, archived |-> FALSE, tags |-> {}]]
      BY <1>8 DEF AddAsset
    <2> DEFINE row == [type |-> t, project |-> Nil, host |-> Nil,
                       notes |-> Nil, archived |-> FALSE, tags |-> {}]
    <2>2. row \in Asset /\ row.project = Nil /\ row.host = Nil
      BY DEF Asset
    <2>3. assets' = [assets EXCEPT ![ip] = row]
      BY <2>1
    <2> HIDE DEF row
    <2> QED BY <1>3, <2>2, <2>3
  <1>9. CASE ArchiveOther
    <2>1. PICK ip \in StoredIps : assets' = [assets EXCEPT ![ip].archived = TRUE]
      BY <1>9 DEF ArchiveOther
    <2> DEFINE row == [assets[ip] EXCEPT !.archived = TRUE]
    <2>2. TRUE \in BOOLEAN /\ assets[ip] \in Asset
      BY <1>1, <2>1
    <2>3. row \in Asset
      BY <2>2, Zenon DEF Asset
    <2>4. row.project = assets[ip].project /\ row.host = assets[ip].host
      BY <2>2, SMT DEF Asset
    <2>5. assets' = [assets EXCEPT ![ip] = row]
      BY <2>1
    <2> HIDE DEF row
    <2> QED BY <1>1, <1>3, <2>1, <2>3, <2>4, <2>5
  <1> QED BY <1>4, <1>5, <1>6, <1>7, <1>8, <1>9

LEMMA KilledOK ==
  ASSUME NEW q, RunOK(q), q.phase \notin {"new", "ended"}
  PROVE  LET r == [q EXCEPT !.phase = "ended", !.end = "killed", !.known = Nil,
                            !.row = Nil, !.goal = Nil]
         IN RunOK(r) /\ r.end = "killed"
  <1> DEFINE r == [q EXCEPT !.phase = "ended", !.end = "killed", !.known = Nil,
                            !.row = Nil, !.goal = Nil]
  <1>1. q \in Run /\ Placed(q) /\ Allowed(q)
    BY DEF RunOK
  <1>2. r \in Run
    <2>1. "ended" \in Phases /\ "killed" \in Ends /\ Nil \in Known
      BY DEF Phases, Ends, Known
    <2> QED BY <1>1, <2>1, Zenon DEF Run
  <1>3. /\ r.phase = "ended" /\ r.end = "killed" /\ r.dry = q.dry /\ r.upload = q.upload
        /\ r.editor = q.editor /\ r.wrote = q.wrote
    BY <1>1, SMT DEF Run
  <1> HIDE DEF r
  <1>4. Placed(r)
    BY <1>1, <1>3 DEF Placed, Importing, Applying, Scanning
  <1>5. Allowed(r)
    BY <1>1, <1>3 DEF Allowed
  <1>6. Counting(r)
    BY <1>3, Zenon DEF Counting
  <1>7. RunOK(r) /\ r.end = "killed"
    BY <1>2, <1>3, <1>4, <1>5, <1>6 DEF RunOK
  <1> QED BY <1>7 DEF r

LEMMA RestartKeeps ==
  ASSUME ImportInv, Restart
  PROVE  ImportInv'
  <1> DEFINE killed(j) == [run[j] EXCEPT !.phase = "ended", !.end = "killed",
                                         !.known = Nil, !.row = Nil, !.goal = Nil]
  <1>1. run' = [j \in Runs |-> IF run[j].phase \in {"new", "ended"} THEN run[j] ELSE killed(j)]
        /\ loop' = Nil /\ UNCHANGED <<tables, audit, commits, demand>>
    BY DEF Restart
  <1>2. \A j \in Runs : /\ RunOK(run'[j])
                        /\ Recorded(run'[j]) <=> Recorded(run[j])
    <2> SUFFICES ASSUME NEW j \in Runs
                 PROVE  RunOK(run'[j]) /\ (Recorded(run'[j]) <=> Recorded(run[j]))
      OBVIOUS
    <2>1. RunOK(run[j])
      BY DEF ImportInv
    <2>2. CASE run[j].phase \in {"new", "ended"}
      <3>1. run'[j] = run[j]
        BY <1>1, <2>2
      <3> QED BY <2>1, <3>1
    <2>3. CASE run[j].phase \notin {"new", "ended"}
      <3>1. run'[j] = killed(j)
        BY <1>1, <2>3
      <3>2. RunOK(killed(j)) /\ killed(j).end = "killed"
        BY <2>1, <2>3, KilledOK
      <3>3. run[j].end = "none"
        BY <2>1, <2>3 DEF RunOK, Allowed
      <3> HIDE DEF killed
      <3> QED BY <3>1, <3>2, <3>3 DEF Recorded
    <2> QED BY <2>2, <2>3
  <1>3. run' \in [Runs -> Run]
    BY <1>1, <1>2 DEF RunOK
  <1>4. TablesOK'
    BY <1>1 DEF ImportInv, TablesOK, tables, Linked, Live
  <1> QED BY <1>1, <1>2, <1>3, <1>4 DEF ImportInv

-----------------------------------------------------------------------------
(* The theorems.                                                           *)

LEMMA ImportStarts == Init => ImportInv
  <1> SUFFICES ASSUME Init PROVE ImportInv
    OBVIOUS
  <1>1. demand \in DOMAIN Demands /\ commits \in Nat /\ audit = {} /\ loop = Nil
        /\ run = [j \in Runs |-> NewRun]
    BY DEF Init
  <1>2. PICK s \in Asked.seeds : /\ vendors = s.vendors /\ projects = s.projects
                                 /\ hosts = s.hosts /\ assets = s.assets
    BY DEF Init
  <1>3. s \in Tables /\ Linked(s.vendors, s.projects, s.hosts, s.assets)
    BY <1>1, <1>2, DemandsTyped
  <1>4. TablesOK
    <2>1. /\ s.vendors \in SUBSET Names /\ s.projects \in [Ids -> Project \union {Nil}]
          /\ s.hosts \in [Ids -> Host \union {Nil}] /\ s.assets \in [Ips -> Asset \union {Nil}]
      BY <1>3, SMT DEF Tables
    <2> QED BY <1>2, <1>3, <2>1 DEF TablesOK
  <1>5. \A j \in Runs : run[j] = NewRun
    BY <1>1
  <1>6. run \in [Runs -> Run]
    BY <1>1, NewOK
  <1> QED BY <1>1, <1>4, <1>5, <1>6, NewOK DEF ImportInv

LEMMA ImportKept == ImportInv /\ [Next]_vars => ImportInv'
  <1> SUFFICES ASSUME ImportInv, [Next]_vars PROVE ImportInv'
    OBVIOUS
  <1>1. CASE UNCHANGED vars
    <2>1. UNCHANGED <<vendors, projects, hosts, assets, audit, run, loop, commits, demand>>
      BY <1>1 DEF vars
    <2> QED BY <2>1 DEF ImportInv, TablesOK, Linked, Live
  <1>2. ASSUME NEW j \in Runs, Post(j) \/ Connect(j) \/ Receive(j) \/ Step(j)
        PROVE  ImportInv'
    <2>1. CASE Post(j) \/ Connect(j) \/ Receive(j)
      BY <2>1, PostKeeps, ConnectKeeps, ReceiveKeeps
    <2>2. CASE Validate(j) \/ Record(j)
      BY <2>2, ValidateKeeps, RecordKeeps
    <2>3. CASE OpenVendors(j) \/ OpenProjects(j) \/ OpenHosts(j) \/ OpenAssets(j)
      BY <2>3, OpenKeeps
    <2>4. CASE VendorEntry(j) \/ ProjectEntry(j) \/ HostEntry(j)
      BY <2>4, VendorKeeps, CreateProjectKeeps, UpdateProjectKeeps, CreateHostKeeps,
         UpdateHostKeeps DEF ProjectEntry, HostEntry
    <2>5. CASE ReadAsset(j) \/ ReadTags(j) \/ CreateAsset(j) \/ UpdateAsset(j) \/ ArchiveAsset(j)
      BY <2>5, ReadAssetKeeps, ReadTagsKeeps, CreateAssetKeeps, UpdateAssetKeeps,
         ArchiveAssetKeeps
    <2>6. CASE Nmap(j)
      BY <2>6, NmapReadKeeps, NmapCreateKeeps, NmapDoneKeeps DEF Nmap
    <2> QED BY <1>2, <2>1, <2>2, <2>3, <2>4, <2>5, <2>6 DEF Step, Apply
  <1>3. CASE Others
    BY <1>3, ProjectsKeep, HostsKeep, VendorsKeep, AssetsKeep DEF Others
  <1>4. CASE Restart
    BY <1>4, RestartKeeps
  <1> QED BY <1>1, <1>2, <1>3, <1>4 DEF Next

THEOREM ImportInvariant == Spec => []ImportInv
  BY ImportStarts, ImportKept, PTL DEF Spec

(* Imports keep their types, and rows their NOT NULL columns, whatever the *)
(* files say and however the runs interleave.                              *)
THEOREM ImportTypes == Spec => []ImportTypeOK
  <1>1. ImportInv => ImportTypeOK
    <2> SUFFICES ASSUME ImportInv PROVE ImportTypeOK
      OBVIOUS
    <2>1. [vendors |-> vendors, projects |-> projects, hosts |-> hosts, assets |-> assets]
            \in Tables
      BY DEF ImportInv, TablesOK, Tables
    <2>2. ASSUME NEW j \in Runs
          PROVE  /\ run[j].phase \in Phases /\ run[j].end \in Ends
                 /\ run[j].projectIds \in [Names -> Ids \union {Nil, Temp}]
                 /\ run[j].hostIds \in [Names -> Ids \union {Nil, Temp}]
                 /\ run[j].at \in Nat /\ run[j].wrote \in Nat
      <3>1. run[j] \in Run
        BY DEF ImportInv
      <3> QED BY <3>1, SMT DEF Run, RunIds
    <2> QED BY <2>1, <2>2 DEF ImportTypeOK, ImportInv
  <1> QED BY <1>1, ImportInvariant, PTL

(* Ids learnt before a project, host or vendor was deleted never leave a   *)
(* row that refers to nothing: the foreign keys hold after every step of   *)
(* every import (_upsert_ip_assets, import_nmap_xml).                      *)
THEOREM ImportReferences == Spec => []ReferencesKept
  <1>1. ImportInv => ReferencesKept
    BY DEF ImportInv, TablesOK, ReferencesKept
  <1> QED BY <1>1, ImportInvariant, PTL

(* No run commits but an editor's apply run.                               *)
THEOREM ImportEditors == Spec => []OnlyEditorsChange
  <1>1. ImportInv => OnlyEditorsChange
    BY DEF ImportInv, RunOK, Allowed, OnlyEditorsChange
  <1> QED BY <1>1, ImportInvariant, PTL

(* The audit log records a run exactly when it was applied to the last     *)
(* entry of every section, each entry counted once; a run that raised, was *)
(* killed or was dry is in no entry, nor is a scan.                        *)
THEOREM ImportAudit == Spec => []AuditedIffWhole
  <1>1. ImportInv => AuditedIffWhole
    <2> SUFFICES ASSUME ImportInv, NEW j \in Runs
                 PROVE  j \in audit <=> /\ run[j].upload # Nil
                                        /\ run[j].upload.kind # "nmap" /\ WasWhole(j)
      BY DEF AuditedIffWhole
    <2> DEFINE q == run[j]
    <2>1. RunOK(q) /\ (j \in audit <=> Recorded(q))
      BY DEF ImportInv
    <2>2. ASSUME Recorded(q) PROVE q.upload # Nil /\ WasWhole(j)
      <3>1. q.end = "completed" /\ ~q.dry /\ q.upload.kind # "nmap"
        BY <2>2 DEF Recorded
      <3>2. q.phase = "ended" /\ q.upload # Nil
        BY <2>1, <3>1 DEF RunOK, Allowed, Placed
      <3>3. Sums(q, Len(q.bundle.vendors), Len(q.bundle.projects), Len(q.bundle.hosts),
                 Len(q.bundle.assets))
        BY <2>1, <3>1 DEF RunOK, Counting
      <3>4. \A s \in Section : Sum(q.count[s]) = Len(q.bundle[s])
        BY <3>3 DEF Sums, Section
      <3> QED BY <3>1, <3>2, <3>4 DEF WasWhole, Sum
    <2>3. ASSUME q.upload.kind # "nmap", WasWhole(j) PROVE Recorded(q)
      BY <2>3 DEF WasWhole, Recorded
    <2> QED BY <2>1, <2>2, <2>3 DEF Recorded
  <1> QED BY <1>1, ImportInvariant, PTL

-----------------------------------------------------------------------------
(* A scan that is uploaded keeps the event loop from its first read to its *)
(* last write.  No other upload then archives what it found to be missing, *)
(* and what is created meanwhile is in use.                                *)

NoOtherArchives ==
  \A name \in DOMAIN Demands :
    "thread" \notin Demands[name].sources /\ "archive" \notin Demands[name].ops

Active(j) == run[j].phase \notin {"new", "posted", "ended"}

ScanInv ==
  /\ \A j \in Runs : Active(j) => loop = j
  /\ \A j \in Runs : run[j].phase = "discover" =>
       LET now == assets[AssetOf(run[j]).ip] IN now = Nil \/ ~now.archived

LEMMA StopShape ==
  ASSUME ImportInv, NEW j \in Runs, NEW e, Stop(j, run[j], e)
  PROVE  /\ \A i \in Runs \ {j} : run'[i] = run[i]
         /\ run'[j].phase = "ended" /\ loop' = IF loop = j THEN Nil ELSE loop
  <1>1. run[j] \in Run /\ run \in [Runs -> Run]
    BY DEF ImportInv
  <1> DEFINE r == [run[j] EXCEPT !.phase = "ended", !.end = e, !.known = Nil, !.row = Nil,
                     !.goal = Nil, !.alone = commits = run[j].base + run[j].wrote]
  <1>2. r.phase = "ended"
    BY <1>1, SMT DEF Run
  <1>3. run' = [run EXCEPT ![j] = r] /\ loop' = IF loop = j THEN Nil ELSE loop
    BY DEF Stop
  <1> HIDE DEF r
  <1> QED BY <1>1, <1>2, <1>3

(* What a step of a run may do to the others and to the loop.              *)
Moved(j) ==
  /\ Active(j)
  /\ \A i \in Runs \ {j} : run'[i] = run[i]
  /\ \/ loop' = loop
     \/ run'[j].phase = "ended" /\ loop' = IF loop = j THEN Nil ELSE loop

LEMMA ContinueShape ==
  ASSUME ImportInv, NEW j \in Runs, NEW r, Continue(j, r) \/ Advance(j, r) \/ NextAsset(j, r)
  PROVE  (\A i \in Runs \ {j} : run'[i] = run[i]) /\ loop' = loop
  BY DEF ImportInv, Continue, Advance, NextAsset

LEMMA StepShape ==
  ASSUME ImportInv, NEW j \in Runs, Step(j)
  PROVE  Moved(j)
  <1>1. CASE Validate(j)
    BY <1>1, ContinueShape, StopShape DEF Validate, Moved, Active
  <1>2. CASE Record(j) \/ NmapDone(j)
    BY <1>2, StopShape DEF Record, PastLast, NmapDone, Moved, Active
  <1>3. CASE OpenVendors(j) \/ OpenProjects(j) \/ OpenHosts(j) \/ OpenAssets(j)
    BY <1>3, ContinueShape
       DEF OpenVendors, OpenProjects, OpenHosts, OpenAssets, PastLast, Moved, Active
  <1>4. CASE VendorEntry(j)
    BY <1>4, ContinueShape, StopShape DEF VendorEntry, AtEntry, Raise, Moved, Active
  <1>5. CASE CreateProject(j) \/ UpdateProject(j)
    BY <1>5, ContinueShape, StopShape
       DEF CreateProject, UpdateProject, AtEntry, Raise, Moved, Active
  <1>6. CASE CreateHost(j) \/ UpdateHost(j)
    BY <1>6, ContinueShape, StopShape DEF CreateHost, UpdateHost, AtEntry, Raise, Moved, Active
  <1>7. CASE ReadAsset(j) \/ ReadTags(j)
    BY <1>7, ContinueShape DEF ReadAsset, ReadTags, AtEntry, Moved, Active
  <1>8. CASE CreateAsset(j) \/ UpdateAsset(j) \/ ArchiveAsset(j)
    BY <1>8, ContinueShape, StopShape DEF CreateAsset, UpdateAsset, ArchiveAsset, Raise,
       Moved, Active
  <1>9. CASE NmapRead(j) \/ NmapCreate(j)
    BY <1>9, ContinueShape, StopShape DEF NmapRead, NmapCreate, Raise, Moved, Active
  <1> QED BY <1>1, <1>2, <1>3, <1>4, <1>5, <1>6, <1>7, <1>8, <1>9
          DEF Step, Apply, ProjectEntry, HostEntry, Nmap

LEMMA OthersUnarchived ==
  ASSUME NoOtherArchives, ImportInv, Others, NEW ip \in Ips, assets[ip] = Nil \/ ~assets[ip].archived
  PROVE  assets'[ip] = Nil \/ ~assets'[ip].archived
  <1>1. assets \in [Ips -> Asset \union {Nil}]
    BY DEF ImportInv, TablesOK
  <1>2. CASE DropProject \/ DropHost
    <2>1. PICK column \in {"project", "host"}, i \in Ids : assets' = Unassigned(column, i)
      BY <1>2 DEF DropProject, DropHost, Live
    <2>2. CASE assets[ip] = Nil
      BY <2>1, <2>2 DEF Unassigned
    <2>3. CASE assets[ip] # Nil
      <3>1. assets[ip] \in Asset
        BY <1>1, <2>3
      <3>2. [assets[ip] EXCEPT ![column] = Nil].archived = assets[ip].archived
        BY <2>1, <3>1, SMT DEF Asset
      <3>3. assets'[ip] = assets[ip] \/ assets'[ip] = [assets[ip] EXCEPT ![column] = Nil]
        BY <2>1 DEF Unassigned
      <3> QED BY <2>3, <3>2, <3>3
    <2> QED BY <2>2, <2>3
  <1>3. CASE AddProject \/ AddHost \/ AddVendor \/ DropVendor
    BY <1>3 DEF AddProject, AddHost, AddVendor, DropVendor
  <1>4. CASE DropAsset
    BY <1>1, <1>4 DEF DropAsset, StoredIps
  <1>5. CASE AddAsset
    BY <1>1, <1>5 DEF AddAsset, StoredIps
  <1>6. CASE EditType \/ EditNotes \/ EditTags
    <2>1. PICK k \in StoredIps :
            \/ \E t \in Types : assets' = [assets EXCEPT ![k].type = t]
            \/ \E n \in Notes : assets' = [assets EXCEPT ![k].notes = n]
            \/ \E T \in SUBSET TagNames : assets' = [assets EXCEPT ![k].tags = T]
      BY <1>6 DEF EditType, EditNotes, EditTags
    <2>2. k \in Ips /\ assets[k] \in Asset
      BY <1>1, <2>1 DEF StoredIps
    <2>3. CASE ip = k
      <3>1. assets'[k].archived = assets[k].archived
        BY <1>1, <2>1, <2>2, SMT DEF Asset
      <3>2. assets[k] # Nil
        BY <2>2, RowsNotNil
      <3> QED BY <2>3, <3>1, <3>2
    <2>4. CASE ip # k
      BY <1>1, <2>1, <2>2, <2>4
    <2> QED BY <2>3, <2>4
  <1>7. ~ArchiveOther
    BY DEF ArchiveOther, Request, NoOtherArchives, Asked, ImportInv
  <1> QED BY <1>2, <1>3, <1>4, <1>5, <1>6, <1>7 DEF Others

(* Only NmapRead sends a scan on to create, for an address that is free.   *)
LEMMA OnlyNmapRead ==
  ASSUME ImportInv, NEW j \in Runs, Step(j), run'[j].phase = "discover"
  PROVE  NmapRead(j)
  <1>1. ~Validate(j) /\ ~Record(j)
    BY ValidateKeeps, RecordKeeps
  <1>2. ~(OpenVendors(j) \/ OpenProjects(j) \/ OpenHosts(j) \/ OpenAssets(j))
    BY OpenKeeps
  <1>3. ~(VendorEntry(j) \/ ProjectEntry(j) \/ HostEntry(j))
    BY VendorKeeps, CreateProjectKeeps, UpdateProjectKeeps, CreateHostKeeps, UpdateHostKeeps
       DEF ProjectEntry, HostEntry
  <1>4. ~(ReadAsset(j) \/ ReadTags(j) \/ CreateAsset(j) \/ UpdateAsset(j) \/ ArchiveAsset(j))
    BY ReadAssetKeeps, ReadTagsKeeps, CreateAssetKeeps, UpdateAssetKeeps, ArchiveAssetKeeps
  <1>5. ~NmapCreate(j) /\ ~NmapDone(j)
    BY NmapCreateKeeps, NmapDoneKeeps
  <1> QED BY <1>1, <1>2, <1>3, <1>4, <1>5 DEF Step, Apply, Nmap

LEMMA ScanFinds ==
  ASSUME ImportInv, NEW j \in Runs, NmapRead(j), run'[j].phase = "discover"
  PROVE  assets'[AssetOf(run'[j]).ip] = Nil
  <1> DEFINE q == run[j]
             Counts1(how) == [q EXCEPT !.count = Counted(q, "assets", how)]
  <1>1. q.phase = "scan" /\ q \in Run /\ run \in [Runs -> Run] /\ assets' = assets
    BY DEF NmapRead, ImportInv, Reads, tables
  <1>2. \A how \in Hows : Counts1(how) \in Run /\ Counts1(how).phase = "scan"
    BY <1>1, CountedLike DEF Like
  <1>3. ASSUME NEW how \in Hows PROVE ~Advance(j, Counts1(how))
    <2> DEFINE x == Counts1(how)
               r == [x EXCEPT !.at = @ + 1]
    <2>1. x \in Run /\ x.phase = "scan"
      BY <1>2
    <2> HIDE DEF x
    <2>2. r.phase = "scan"
      BY <2>1, SMT DEF Run
    <2>3. Advance(j, x) => run'[j] = r
      BY <1>1 DEF Advance, Continue
    <2> HIDE DEF r
    <2> QED BY <2>2, <2>3 DEF x
  <1>4. /\ assets[AssetOf(q).ip] = Nil
        /\ Continue(j, [q EXCEPT !.phase = "discover", !.count = Counted(q, "assets", "create")])
    <2> HIDE DEF Counts1
    <2>1. "skip" \in Hows /\ "create" \in Hows
      BY DEF Hows
    <2>2. ~Advance(j, Counts1("skip")) /\ ~Advance(j, Counts1("create"))
      BY <1>3, <2>1
    <2> QED BY <2>2 DEF NmapRead, Counts1
  <1>5. AssetOf(run'[j]) = AssetOf(q)
    <2> DEFINE r == [q EXCEPT !.phase = "discover", !.count = Counted(q, "assets", "create")]
    <2>1. run'[j] = r
      BY <1>1, <1>4 DEF Continue
    <2>2. r.at = q.at /\ r.bundle = q.bundle
      BY <1>1, SMT DEF Run
    <2> HIDE DEF r
    <2> QED BY <2>1, <2>2 DEF AssetOf
  <1> QED BY <1>1, <1>4, <1>5

LEMMA ScanKept ==
  ASSUME NoOtherArchives, ImportInv, ScanInv, [Next]_vars
  PROVE  ScanInv'
  <1> DEFINE Free(ip) == assets[ip] = Nil \/ ~assets[ip].archived
  <1>1. CASE UNCHANGED vars
    BY <1>1 DEF vars, ScanInv, Active
  <1>2. ASSUME NEW j \in Runs, Post(j) PROVE ScanInv'
    <2>1. UNCHANGED <<assets, loop>> /\ \A i \in Runs \ {j} : run'[i] = run[i]
      BY <1>2, ContinueShape DEF Post, Reads, tables
    <2>2. run'[j].phase = "posted"
      <3>1. PICK u \in Asked.uploads, dry \in Asked.modes, editor \in BOOLEAN :
              run' = [run EXCEPT ![j] = [NewRun EXCEPT !.phase = "posted", !.upload = u,
                        !.dry = dry, !.editor = editor]]
        BY <1>2 DEF Post, Continue
      <3>2. run'[j] = [NewRun EXCEPT !.phase = "posted", !.upload = u,
                         !.dry = dry, !.editor = editor]
        BY <3>1 DEF ImportInv
      <3> QED BY <3>2 DEF NewRun
    <2> QED BY <2>1, <2>2 DEF ScanInv, Active
  <1>3. ASSUME NEW j \in Runs, Connect(j) PROVE ScanInv'
    BY <1>3 DEF Connect, NoOtherArchives, Asked, ImportInv
  <1>4. ASSUME NEW j \in Runs, Receive(j) PROVE ScanInv'
    <2>1. UNCHANGED assets /\ loop = Nil /\ run[j].phase = "posted"
      BY <1>4 DEF Receive, Reads, tables
    <2>2. \A i \in Runs : ~Active(i)
      BY <2>1, ImportAssumption DEF ScanInv
    <2>3. CASE \E e \in Ends : Stop(j, run[j], e)
      <3>1. run'[j].phase = "ended" /\ \A i \in Runs \ {j} : run'[i] = run[i]
        BY <2>3, StopShape
      <3> QED BY <2>2, <3>1 DEF ScanInv, Active
    <2>4. CASE /\ run' = [run EXCEPT ![j] = [run[j] EXCEPT !.bundle = Parsed(run[j].upload),
                    !.base = commits,
                    !.phase = IF run[j].upload.kind = "nmap" THEN "scan" ELSE "parsed"]]
               /\ loop' = j
      <3> DEFINE r == [run[j] EXCEPT !.bundle = Parsed(run[j].upload), !.base = commits,
                    !.phase = IF run[j].upload.kind = "nmap" THEN "scan" ELSE "parsed"]
      <3>1. r.phase # "discover"
        <4>1. run[j] \in Run
          BY DEF ImportInv
        <4> QED BY <4>1, SMT DEF Run
      <3>2. run'[j] = r /\ \A i \in Runs \ {j} : run'[i] = run[i]
        BY <2>4 DEF ImportInv
      <3> HIDE DEF r
      <3> QED BY <2>2, <2>4, <3>1, <3>2 DEF ScanInv, Active
    <2> QED BY <1>4, <2>3, <2>4 DEF Receive, Ends
  <1>5. ASSUME NEW j \in Runs, Step(j) PROVE ScanInv'
    <2>1. Moved(j) /\ loop = j
      BY <1>5, StepShape DEF ScanInv, Moved
    <2>2. \A i \in Runs \ {j} : ~Active(i) /\ run'[i] = run[i]
      BY <2>1 DEF ScanInv, Moved
    <2>3. \A i \in Runs : Active(i)' => loop' = i
      BY <2>1, <2>2 DEF Moved, Active
    <2>4. ASSUME run'[j].phase = "discover"
          PROVE  LET now == assets'[AssetOf(run'[j]).ip] IN now = Nil \/ ~now.archived
      <3>1. NmapRead(j)
        BY <1>5, <2>4, OnlyNmapRead
      <3> QED BY <2>4, <3>1, ScanFinds
    <2> QED BY <2>2, <2>3, <2>4 DEF ScanInv, Active
  <1>6. CASE Others
    <2>1. UNCHANGED <<run, loop>>
      BY <1>6 DEF Others, AddProject, DropProject, AddHost, DropHost, AddVendor, DropVendor,
         EditType, EditNotes, EditTags, DropAsset, AddAsset,
         ArchiveOther, Request
    <2>2. \A j \in Runs : run[j].phase = "discover" => AssetOf(run[j]).ip \in Ips
      BY ScanEntry DEF ImportInv, RunOK, Placed, Scanning
    <2> QED BY <1>6, <2>1, <2>2, OthersUnarchived DEF ScanInv, Active
  <1>7. CASE Restart
    <2>1. \A j \in Runs : run'[j].phase \in {"new", "ended"}
      BY <1>7 DEF Restart, ImportInv, Run
    <2> QED BY <2>1 DEF ScanInv, Active
  <1> QED BY <1>1, <1>2, <1>3, <1>4, <1>5, <1>6, <1>7 DEF Next

LEMMA ScanStarts == Init => ScanInv
  BY DEF Init, ScanInv, Active, NewRun

(* What a step changes of a stored asset is not a scan's doing.            *)
ScanLeaves ==
  \A j \in Runs : run[j].phase \in {"scan", "discover"} /\ run'[j] # run[j] =>
    \A ip \in Ips : assets[ip] # Nil => assets'[ip] = assets[ip]

LEMMA ScanSteps ==
  ASSUME ImportInv, ScanInv, [Next]_vars
  PROVE  [ScanLeaves]_vars
  <1> SUFFICES ASSUME Next, NEW j \in Runs, run[j].phase \in {"scan", "discover"},
                      run'[j] # run[j], NEW ip \in Ips, assets[ip] # Nil
               PROVE  assets'[ip] = assets[ip]
    BY DEF ScanLeaves
  <1>1. CASE Others
    BY <1>1 DEF Others, AddProject, DropProject, AddHost, DropHost, AddVendor, DropVendor,
       EditType, EditNotes, EditTags, DropAsset, AddAsset,
         ArchiveOther, Request
  <1>2. CASE Restart
    BY <1>2 DEF Restart, tables
  <1>3. ASSUME NEW i \in Runs, Post(i) \/ Connect(i) \/ Receive(i)
        PROVE  assets'[ip] = assets[ip]
    BY <1>3 DEF Post, Connect, Receive, Reads, tables
  <1>4. ASSUME NEW i \in Runs, Step(i)
        PROVE  assets'[ip] = assets[ip]
    <2>1. i = j
      BY <1>4, StepShape DEF Moved
    <2>2. NmapRead(j) \/ NmapCreate(j) \/ NmapDone(j)
      BY <1>4, <2>1 DEF Step, Validate, Apply, Record, Nmap, OpenVendors, VendorEntry,
         OpenProjects, ProjectEntry, CreateProject, UpdateProject, OpenHosts, HostEntry,
         CreateHost, UpdateHost, OpenAssets, ReadAsset, ReadTags, CreateAsset, UpdateAsset,
         ArchiveAsset, AtEntry, PastLast
    <2>3. CASE NmapRead(j) \/ NmapDone(j)
      BY <2>3 DEF NmapRead, NmapDone, Reads, tables
    <2>4. CASE NmapCreate(j)
      <3> DEFINE now == assets[AssetOf(run[j]).ip]
      <3>1. now = Nil \/ ~now.archived
        BY <2>4 DEF NmapCreate, ScanInv
      <3>2. CASE now = Nil
        <4>1. ip # AssetOf(run[j]).ip
          BY <3>2
        <4>2. \/ assets' = assets
              \/ \E row : assets' = [assets EXCEPT ![AssetOf(run[j]).ip] = row]
          BY <2>4 DEF NmapCreate, Raise, Reads, tables, Written
        <4> QED BY <4>1, <4>2 DEF ImportInv, TablesOK
      <3>3. CASE now # Nil
        BY <2>4, <3>1, <3>3 DEF NmapCreate, Raise, Reads, tables
      <3> QED BY <3>2, <3>3
    <2> QED BY <2>2, <2>3, <2>4
  <1> QED BY <1>1, <1>2, <1>3, <1>4 DEF Next

(* Where every import is uploaded and no request archives an asset, a scan *)
(* changes no asset that is stored, archived ones included, whatever else  *)
(* others do meanwhile (import_nmap_xml).                                  *)
THEOREM ScansKeepAssets ==
  ASSUME NoOtherArchives
  PROVE  Spec => NmapKeepsAssets
  <1>1. ImportInv /\ ScanInv /\ [Next]_vars =>
          [\A j \in Runs : run[j].phase \in {"scan", "discover"} /\ run'[j] # run[j] =>
             \A ip \in Ips : assets[ip] # Nil => assets'[ip] = assets[ip]]_vars
    BY ScanSteps DEF ScanLeaves
  <1>2. ImportInv /\ ScanInv /\ [Next]_vars => ScanInv'
    BY ScanKept
  <1> QED BY <1>1, <1>2, ScanStarts, ImportStarts, ImportKept, PTL DEF Spec, NmapKeepsAssets

=============================================================================
