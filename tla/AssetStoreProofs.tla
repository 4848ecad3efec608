--------------------------- MODULE AssetStoreProofs ---------------------------
(* Theorems about AssetStore, for every value of its constants: its types, *)
(* then the safety properties.  Unique addresses, references that exist    *)
(* and links that are sound are inductive together with the types; what a  *)
(* step may never do follows from them: change a row that the request does *)
(* not name, write back a column that it was not given, leave a host       *)
(* behind, log an update that changed nothing, create a tag from a form.   *)
EXTENDS AssetStore, TLAPS

TypeInv == TypeOK /\ PayloadsComplete

-----------------------------------------------------------------------------
(* Requests and snapshots are well formed.                                 *)

LEMMA IdleType == Idle \in Request /\ PayloadOK(Idle)
  BY DEF Idle, Request, NoRows, NoTags, Kinds, Phases, Outcomes, PayloadOK

LEMMA SnapshotType ==
  ASSUME TypeOK, NEW S
  PROVE  /\ Snapshot(S) \in [AssetIds -> Row \union {Nil}]
         /\ TagSnapshot(S) \in [AssetIds -> SUBSET TagNames]
  BY DEF TypeOK, Snapshot, TagSnapshot

LEMMA PayloadType ==
  ASSUME NEW op \in Kinds, NEW phase \in Phases, NEW ip \in Ips \union {Nil},
         NEW cols \in SUBSET Columns, NEW d \in SUBSET Columns,
         NEW p \in Payloads(d)
  PROVE  /\ Payload(op, phase, ip, cols, p) \in Request
         /\ Payload(op, phase, ip, cols, p).op = op
         /\ Payload(op, phase, ip, cols, p).phase = phase
         /\ Payload(op, phase, ip, cols, p).ip = ip
         /\ Payload(op, phase, ip, cols, p).given = cols
         /\ "type" \in d => Payload(op, phase, ip, cols, p).type \in Types
<1>1. /\ p.type \in Types \union {Nil}
      /\ p.project \in ProjectIds \union {Nil}
      /\ p.host \in HostIds \union {Nil}
      /\ p.notes \in Notes \union {Nil}
      /\ p.tags \in SUBSET TagNames
      /\ "type" \in d => p.type \in Types
  BY DEF Payloads
<1>2. QED
  BY <1>1, IdleType DEF Payload, Idle, Request

LEMMA AcceptType ==
  ASSUME TypeInv, NEW r \in Requests, NEW q \in Request, PayloadOK(q), Accept(r, q)
  PROVE  /\ req' \in [Requests -> Request]
         /\ \A s \in Requests : PayloadOK(req'[s])
         /\ served' \in 0..MaxRequests
  BY BoundsAssumption DEF TypeInv, TypeOK, PayloadsComplete, Accept

LEMMA ContinueType ==
  ASSUME TypeInv, NEW r \in Requests, NEW q \in Request, PayloadOK(q), Continue(r, q)
  PROVE  /\ req' \in [Requests -> Request]
         /\ \A s \in Requests : PayloadOK(req'[s])
         /\ loop' \in Requests \union {Nil}
         /\ served' \in 0..MaxRequests
  BY DEF TypeInv, TypeOK, PayloadsComplete, Continue

LEMMA FinishType ==
  ASSUME TypeInv, NEW r \in Requests, NEW answer \in Outcomes, Finish(r, answer)
  PROVE  /\ req' \in [Requests -> Request]
         /\ \A s \in Requests : PayloadOK(req'[s])
         /\ loop' \in Requests \union {Nil}
         /\ served' \in 0..MaxRequests
<1>1. [Idle EXCEPT !.answer = answer] \in Request
  BY IdleType DEF Request, Idle
<1>2. PayloadOK([Idle EXCEPT !.answer = answer])
  BY DEF Idle, PayloadOK
<1>3. QED
  BY <1>1, <1>2 DEF TypeInv, TypeOK, PayloadsComplete, Finish

(* What remains to show for a step that leaves the tables alone.           *)
LEMMA TablesKept ==
  ASSUME TypeInv, UNCHANGED tables,
         req' \in [Requests -> Request], \A s \in Requests : PayloadOK(req'[s]),
         loop' \in Requests \union {Nil}, served' \in 0..MaxRequests
  PROVE  TypeInv'
  BY DEF TypeInv, TypeOK, PayloadsComplete, tables, PayloadOK

-----------------------------------------------------------------------------
(* Requests arriving and resuming.                                         *)

LEMMA CreateArrivesType ==
  ASSUME TypeInv, NEW r \in Requests, ApiCreate(r) \/ UiAdd(r)
  PROVE  TypeInv'
<1>1. CASE ApiCreate(r)
  <2>1. PICK ip \in Ips, t \in Types, cols \in SUBSET (Editable \ {"type"}) :
          \E p \in Payloads(cols) :
            Accept(r, [Payload("create", "checked", ip, cols, p) EXCEPT !.type = t])
    BY <1>1 DEF ApiCreate
  <2>2. PICK p \in Payloads(cols) :
            Accept(r, [Payload("create", "checked", ip, cols, p) EXCEPT !.type = t])
    BY <2>1
  <2> DEFINE q == Payload("create", "checked", ip, cols, p)
  <2>3. cols \in SUBSET Columns
    BY <2>1, SetsAssumption
  <2>4. q \in Request /\ q.ip = ip
    BY <2>1, <2>2, <2>3, PayloadType DEF Kinds, Phases
  <2>5. [q EXCEPT !.type = t] \in Request
    BY <2>1, <2>4 DEF Request
  <2>6. PayloadOK([q EXCEPT !.type = t])
    BY <2>1, <2>4 DEF Request, PayloadOK
  <2> HIDE DEF q
  <2>7. /\ req' \in [Requests -> Request] /\ served' \in 0..MaxRequests
        /\ \A s \in Requests : PayloadOK(req'[s])
    BY <2>2, <2>5, <2>6, AcceptType DEF q
  <2>8. UNCHANGED tables /\ loop' \in Requests \union {Nil}
    BY <1>1 DEF ApiCreate, TypeInv, TypeOK
  <2>9. QED
    BY <2>7, <2>8, TablesKept
<1>2. CASE UiAdd(r)
  <2>1. PICK ip \in Ips, t \in Types, p \in Payloads(Editable \ {"type"}) :
            Accept(r, [Payload("create", "checked", ip, Columns, p) EXCEPT !.type = t])
    BY <1>2 DEF UiAdd
  <2> DEFINE q == Payload("create", "checked", ip, Columns, p)
  <2>3. Editable \ {"type"} \in SUBSET Columns
    BY SetsAssumption
  <2>4. q \in Request /\ q.ip = ip
    BY <2>1, <2>3, PayloadType DEF Kinds, Phases
  <2>5. [q EXCEPT !.type = t] \in Request
    BY <2>1, <2>4 DEF Request
  <2>6. PayloadOK([q EXCEPT !.type = t])
    BY <2>1, <2>4 DEF Request, PayloadOK
  <2> HIDE DEF q
  <2>7. /\ req' \in [Requests -> Request] /\ served' \in 0..MaxRequests
        /\ \A s \in Requests : PayloadOK(req'[s])
    BY <2>1, <2>5, <2>6, AcceptType DEF q
  <2>8. UNCHANGED tables /\ loop' \in Requests \union {Nil}
    BY <1>2 DEF UiAdd, TakeLoop
  <2>9. QED
    BY <2>7, <2>8, TablesKept
<1>3. QED
  BY <1>1, <1>2

LEMMA UpdateArrivesType ==
  ASSUME TypeInv, NEW r \in Requests, ApiUpdate(r) \/ UiEditOpen(r) \/ UiEditSubmit(r)
  PROVE  TypeInv'
<1>1. CASE ApiUpdate(r)
  <2>1. PICK ip \in Ips, cols \in SUBSET Editable : \E p \in Payloads(cols) :
          Accept(r, Payload("update", "checked", ip, cols, p))
    BY <1>1 DEF ApiUpdate
  <2>2. PICK p \in Payloads(cols) : Accept(r, Payload("update", "checked", ip, cols, p))
    BY <2>1
  <2> DEFINE q == Payload("update", "checked", ip, cols, p)
  <2>3. cols \in SUBSET Columns
    BY <2>1, SetsAssumption
  <2>4. q \in Request /\ PayloadOK(q)
    BY <2>1, <2>2, <2>3, PayloadType DEF Kinds, Phases, PayloadOK
  <2> HIDE DEF q
  <2>5. /\ req' \in [Requests -> Request] /\ served' \in 0..MaxRequests
        /\ \A s \in Requests : PayloadOK(req'[s])
    BY <2>2, <2>4, AcceptType DEF q
  <2>6. UNCHANGED tables /\ loop' \in Requests \union {Nil}
    BY <1>1 DEF ApiUpdate, TypeInv, TypeOK
  <2>7. QED
    BY <2>5, <2>6, TablesKept
<1>2. CASE UiEditOpen(r)
  <2>1. PICK i \in AssetIds :
          /\ assets[i] # Nil
          /\ Accept(r, [Idle EXCEPT !.op = "update", !.phase = "asked", !.ip = assets[i].ip])
    BY <1>2 DEF UiEditOpen
  <2> DEFINE q == [Idle EXCEPT !.op = "update", !.phase = "asked", !.ip = assets[i].ip]
  <2>2. assets[i].ip \in Ips
    BY <2>1 DEF TypeInv, TypeOK, Row
  <2>3. q \in Request /\ PayloadOK(q)
    BY <2>2, IdleType DEF Request, Idle, Kinds, Phases, PayloadOK
  <2> HIDE DEF q
  <2>4. /\ req' \in [Requests -> Request] /\ served' \in 0..MaxRequests
        /\ \A s \in Requests : PayloadOK(req'[s])
    BY <2>1, <2>3, AcceptType DEF q
  <2>5. UNCHANGED tables /\ loop' \in Requests \union {Nil}
    BY <1>2 DEF UiEditOpen, TypeInv, TypeOK
  <2>6. QED
    BY <2>4, <2>5, TablesKept
<1>3. CASE UiEditSubmit(r)
  <2>1. PICK t \in Types, cols \in {Columns, Columns \ {"host"}} :
          \E p \in Payloads((Editable \intersect cols) \ {"type"}) :
            req' = [req EXCEPT ![r] = [Payload("update", "checked", req[r].ip, cols, p)
                                         EXCEPT !.type = t]]
    BY <1>3 DEF UiEditSubmit
  <2> DEFINE d == (Editable \intersect cols) \ {"type"}
  <2>2. PICK p \in Payloads(d) :
            req' = [req EXCEPT ![r] = [Payload("update", "checked", req[r].ip, cols, p)
                                         EXCEPT !.type = t]]
    BY <2>1
  <2> DEFINE q == Payload("update", "checked", req[r].ip, cols, p)
  <2>3. req[r].ip \in Ips
    BY <1>3 DEF UiEditSubmit, Serving, TypeInv, PayloadsComplete, PayloadOK
  <2>4. cols \in SUBSET Columns /\ d \in SUBSET Columns
    BY <2>1, SetsAssumption
  <2> HIDE DEF d
  <2>5. q \in Request /\ q.ip = req[r].ip
    BY <2>2, <2>3, <2>4, PayloadType DEF Kinds, Phases
  <2>6. [q EXCEPT !.type = t] \in Request
    BY <2>1, <2>5 DEF Request
  <2>7. PayloadOK([q EXCEPT !.type = t])
    BY <2>1, <2>3, <2>5 DEF Request, PayloadOK
  <2> HIDE DEF q
  <2>8. req' \in [Requests -> Request] /\ \A s \in Requests : PayloadOK(req'[s])
    BY <2>2, <2>6, <2>7 DEF TypeInv, TypeOK, PayloadsComplete, q
  <2>9. /\ UNCHANGED tables /\ loop' \in Requests \union {Nil}
        /\ served' \in 0..MaxRequests
    BY <1>3 DEF UiEditSubmit, TakeLoop, TypeInv, TypeOK
  <2>10. QED
    BY <2>8, <2>9, TablesKept
<1>4. QED
  BY <1>1, <1>2, <1>3

LEMMA OtherArrivalsType ==
  ASSUME TypeInv, NEW r \in Requests,
         UiBulk(r) \/ ApiDelete(r) \/ UiDeleteOpen(r) \/ UiDeleteSubmit(r)
           \/ Archive(r) \/ AutoHostOpen(r)
  PROVE  TypeInv'
<1>1. CASE UiBulk(r)
  <2>1. PICK S \in SUBSET AssetIds \ {{}},
             cols \in SUBSET (Editable \intersect {"type", "project", "notes"}),
             add, drop \in IF "tags" \in Editable THEN SUBSET tags ELSE {{}} :
          \E p \in Payloads(cols) :
            Accept(r, [Payload("bulk", "read", Nil, cols, p) EXCEPT
                         !.tags = add, !.drop = drop, !.seen = Snapshot(S)])
    BY <1>1 DEF UiBulk
  <2>2. PICK p \in Payloads(cols) :
            Accept(r, [Payload("bulk", "read", Nil, cols, p) EXCEPT
                         !.tags = add, !.drop = drop, !.seen = Snapshot(S)])
    BY <2>1
  <2> DEFINE q0 == Payload("bulk", "read", Nil, cols, p)
             q  == [q0 EXCEPT !.tags = add, !.drop = drop, !.seen = Snapshot(S)]
  <2>3. cols \in SUBSET Columns
    BY <2>1 DEF Columns
  <2>4. q0 \in Request /\ q0.op = "bulk" /\ PayloadOK(q0)
    BY <2>2, <2>3, PayloadType DEF Kinds, Phases, PayloadOK
  <2>5. add \in SUBSET TagNames /\ drop \in SUBSET TagNames
    BY <2>1 DEF TypeInv, TypeOK
  <2>6. Snapshot(S) \in [AssetIds -> Row \union {Nil}]
    BY SnapshotType DEF TypeInv
  <2> HIDE DEF q0
  <2>7. q \in Request /\ PayloadOK(q)
    BY <2>4, <2>5, <2>6 DEF Request, PayloadOK
  <2>8. Accept(r, q)
    BY <2>2 DEF q0
  <2> HIDE DEF q
  <2>9. /\ req' \in [Requests -> Request] /\ served' \in 0..MaxRequests
        /\ \A s \in Requests : PayloadOK(req'[s])
    BY <2>7, <2>8, AcceptType
  <2>10. UNCHANGED tables /\ loop' \in Requests \union {Nil}
    BY <1>1 DEF UiBulk, TakeLoop
  <2>11. QED
    BY <2>9, <2>10, TablesKept
<1>2. CASE ApiDelete(r)
  <2>1. PICK ip \in Ips : Accept(r, [Idle EXCEPT !.op = "delete", !.phase = "checked",
                                                 !.ip = ip, !.typed = TRUE])
    BY <1>2 DEF ApiDelete
  <2> DEFINE q == [Idle EXCEPT !.op = "delete", !.phase = "checked", !.ip = ip,
                               !.typed = TRUE]
  <2>2. q \in Request /\ PayloadOK(q)
    BY <2>1, IdleType DEF Request, Idle, Kinds, Phases, PayloadOK
  <2> HIDE DEF q
  <2>3. /\ req' \in [Requests -> Request] /\ served' \in 0..MaxRequests
        /\ \A s \in Requests : PayloadOK(req'[s])
    BY <2>1, <2>2, AcceptType DEF q
  <2>4. UNCHANGED tables /\ loop' \in Requests \union {Nil}
    BY <1>2 DEF ApiDelete, TypeInv, TypeOK
  <2>5. QED
    BY <2>3, <2>4, TablesKept
<1>3. CASE UiDeleteOpen(r)
  <2>1. PICK i \in AssetIds :
          /\ assets[i] # Nil
          /\ Accept(r, [Idle EXCEPT !.op = "delete", !.phase = "asked",
                                    !.ip = assets[i].ip, !.seen = Snapshot({i})])
    BY <1>3 DEF UiDeleteOpen
  <2> DEFINE q == [Idle EXCEPT !.op = "delete", !.phase = "asked",
                               !.ip = assets[i].ip, !.seen = Snapshot({i})]
  <2>2. assets[i].ip \in Ips
    BY <2>1 DEF TypeInv, TypeOK, Row
  <2>3. Snapshot({i}) \in [AssetIds -> Row \union {Nil}]
    BY SnapshotType DEF TypeInv
  <2>4. q \in Request /\ PayloadOK(q)
    BY <2>2, <2>3, IdleType DEF Request, Idle, Kinds, Phases, PayloadOK
  <2> HIDE DEF q
  <2>5. /\ req' \in [Requests -> Request] /\ served' \in 0..MaxRequests
        /\ \A s \in Requests : PayloadOK(req'[s])
    BY <2>1, <2>4, AcceptType DEF q
  <2>6. UNCHANGED tables /\ loop' \in Requests \union {Nil}
    BY <1>3 DEF UiDeleteOpen, TypeInv, TypeOK
  <2>7. QED
    BY <2>5, <2>6, TablesKept
<1>4. CASE UiDeleteSubmit(r)
  <2>1. PICK typed \in BOOLEAN :
          req' = [req EXCEPT ![r] = [@ EXCEPT !.phase = "checked", !.typed = typed]]
    BY <1>4 DEF UiDeleteSubmit
  <2> DEFINE q0 == req[r]
             q  == [q0 EXCEPT !.phase = "checked", !.typed = typed]
  <2>2. q0 \in Request /\ PayloadOK(q0)
    BY DEF TypeInv, TypeOK, PayloadsComplete
  <2> HIDE DEF q0
  <2>3. q \in Request /\ PayloadOK(q)
    <3>1. CASE typed = TRUE
      BY <2>2, <3>1 DEF PayloadOK, Request, Phases
    <3>2. CASE typed = FALSE
      BY <2>2, <3>2 DEF PayloadOK, Request, Phases
    <3>3. QED
      BY <2>1, <3>1, <3>2
  <2>4. req' = [req EXCEPT ![r] = q]
    BY <2>1 DEF q0
  <2> HIDE DEF q
  <2>5. req' \in [Requests -> Request] /\ \A s \in Requests : PayloadOK(req'[s])
    BY <2>3, <2>4 DEF TypeInv, TypeOK, PayloadsComplete
  <2>6. /\ UNCHANGED tables /\ loop' \in Requests \union {Nil}
        /\ served' \in 0..MaxRequests
    BY <1>4 DEF UiDeleteSubmit, TakeLoop, TypeInv, TypeOK
  <2>7. QED
    BY <2>5, <2>6, TablesKept
<1>5. CASE Archive(r)
  <2>1. PICK ip \in Ips : Accept(r, [Idle EXCEPT !.op = "archive", !.phase = "ready",
                                                 !.ip = ip])
    BY <1>5 DEF Archive
  <2> DEFINE q == [Idle EXCEPT !.op = "archive", !.phase = "ready", !.ip = ip]
  <2>2. q \in Request /\ PayloadOK(q)
    BY <2>1, IdleType DEF Request, Idle, Kinds, Phases, PayloadOK
  <2> HIDE DEF q
  <2>3. /\ req' \in [Requests -> Request] /\ served' \in 0..MaxRequests
        /\ \A s \in Requests : PayloadOK(req'[s])
    BY <2>1, <2>2, AcceptType DEF q
  <2>4. UNCHANGED tables /\ loop' \in Requests \union {Nil}
    BY <1>5 DEF Archive, TypeInv, TypeOK
  <2>5. QED
    BY <2>3, <2>4, TablesKept
<1>6. CASE AutoHostOpen(r)
  <2>1. PICK i \in AssetIds :
          /\ assets[i] # Nil
          /\ Accept(r, [Idle EXCEPT !.op = "autohost", !.phase = "asked",
                                    !.ip = assets[i].ip, !.given = {"host"}])
    BY <1>6 DEF AutoHostOpen
  <2> DEFINE q == [Idle EXCEPT !.op = "autohost", !.phase = "asked",
                               !.ip = assets[i].ip, !.given = {"host"}]
  <2>2. assets[i].ip \in Ips
    BY <2>1 DEF TypeInv, TypeOK, Row
  <2>3. q \in Request /\ PayloadOK(q)
    BY <2>2, IdleType DEF Request, Idle, Kinds, Phases, Columns, PayloadOK
  <2> HIDE DEF q
  <2>4. /\ req' \in [Requests -> Request] /\ served' \in 0..MaxRequests
        /\ \A s \in Requests : PayloadOK(req'[s])
    BY <2>1, <2>3, AcceptType DEF q
  <2>5. UNCHANGED tables /\ loop' \in Requests \union {Nil}
    BY <1>6 DEF AutoHostOpen, TypeInv, TypeOK
  <2>6. QED
    BY <2>4, <2>5, TablesKept
<1>7. QED
  BY <1>1, <1>2, <1>3, <1>4, <1>5, <1>6

-----------------------------------------------------------------------------
(* Steps of a handler that only read, or that end without a write.         *)

LEMMA EndType ==
  ASSUME TypeInv, NEW r \in Requests, NEW answer \in Outcomes, Finish(r, answer),
         UNCHANGED tables
  PROVE  TypeInv'
  BY FinishType, TablesKept

LEMMA ReadType ==
  ASSUME TypeInv, NEW r \in Requests, NEW q \in Request, PayloadOK(q), Continue(r, q),
         UNCHANGED tables
  PROVE  TypeInv'
  BY ContinueType, TablesKept

LEMMA CreateReadsType ==
  ASSUME TypeInv, NEW r \in Requests, ResolveHost(r) \/ ReadExisting(r)
  PROVE  TypeInv'
<1> DEFINE q == req[r]
<1>1. q \in Request /\ PayloadOK(q)
  BY DEF TypeInv, TypeOK, PayloadsComplete
<1> HIDE DEF q
<1>2. CASE ResolveHost(r)
  <2>1. CASE Continue(r, [q EXCEPT !.phase = "resolved"])
    <3>1. /\ [q EXCEPT !.phase = "resolved"] \in Request
          /\ PayloadOK([q EXCEPT !.phase = "resolved"])
      BY <1>1 DEF Request, Phases, PayloadOK
    <3>2. QED
      BY <1>2, <2>1, <3>1, ReadType DEF ResolveHost
  <2>2. ASSUME NEW h \in HostIds,
               Continue(r, [q EXCEPT !.phase = "resolved", !.host = h])
        PROVE  TypeInv'
    <3>1. /\ [q EXCEPT !.phase = "resolved", !.host = h] \in Request
          /\ PayloadOK([q EXCEPT !.phase = "resolved", !.host = h])
      BY <1>1 DEF Request, Phases, PayloadOK
    <3>2. QED
      BY <1>2, <2>2, <3>1, ReadType DEF ResolveHost
  <2>3. CASE Continue(r, [q EXCEPT !.phase = "naming"])
    <3>1. /\ [q EXCEPT !.phase = "naming"] \in Request
          /\ PayloadOK([q EXCEPT !.phase = "naming"])
      BY <1>1 DEF Request, Phases, PayloadOK
    <3>2. QED
      BY <1>2, <2>3, <3>1, ReadType DEF ResolveHost
  <2>4. QED
    BY <1>2, <2>1, <2>2, <2>3 DEF ResolveHost, Named, q
<1>3. CASE ReadExisting(r)
  <2> DEFINE q1 == [q EXCEPT !.phase = "read", !.seen = Snapshot(Find(q.ip))]
  <2>1. q1 \in Request /\ PayloadOK(q1)
    BY <1>1, SnapshotType DEF TypeInv, Request, Phases, PayloadOK
  <2>2. Finish(r, "conflict") \/ Continue(r, q1)
    BY <1>3 DEF ReadExisting, q
  <2> HIDE DEF q1
  <2>3. UNCHANGED tables /\ "conflict" \in Outcomes
    BY <1>3 DEF ReadExisting, Outcomes
  <2>4. QED
    BY <2>1, <2>2, <2>3, ReadType, EndType
<1>4. QED
  BY <1>2, <1>3

LEMMA UpdateReadsType ==
  ASSUME TypeInv, NEW r \in Requests, ReadForUpdate(r) \/ ReadTagsForUpdate(r)
  PROVE  TypeInv'
<1> DEFINE q == req[r]
<1>1. q \in Request /\ PayloadOK(q)
  BY DEF TypeInv, TypeOK, PayloadsComplete
<1> HIDE DEF q
<1>2. CASE ReadForUpdate(r)
  <2> DEFINE q1 == [q EXCEPT !.phase = IF "tags" \in q.given THEN "read" ELSE "ready",
                             !.seen = Snapshot(Find(q.ip))]
  <2>1. q1 \in Request /\ PayloadOK(q1)
    BY <1>1, SnapshotType DEF TypeInv, Request, Phases, PayloadOK
  <2>2. Finish(r, "missing") \/ Continue(r, q1)
    BY <1>2 DEF ReadForUpdate, q
  <2> HIDE DEF q1
  <2>3. UNCHANGED tables /\ "missing" \in Outcomes
    BY <1>2 DEF ReadForUpdate, Outcomes
  <2>4. QED
    BY <2>1, <2>2, <2>3, ReadType, EndType
<1>3. CASE ReadTagsForUpdate(r)
  <2> DEFINE q1 == [q EXCEPT !.phase = "ready", !.seenTags = TagSnapshot(SeenIds(q))]
  <2>1. q1 \in Request /\ PayloadOK(q1)
    BY <1>1, SnapshotType DEF TypeInv, Request, Phases, PayloadOK
  <2>2. Continue(r, q1) /\ UNCHANGED tables
    BY <1>3 DEF ReadTagsForUpdate, q
  <2> HIDE DEF q1
  <2>3. QED
    BY <2>1, <2>2, ReadType
<1>4. QED
  BY <1>2, <1>3

LEMMA BulkDeleteReadsType ==
  ASSUME TypeInv, NEW r \in Requests, ReadTagsForBulk(r) \/ ReadForDelete(r)
  PROVE  TypeInv'
<1> DEFINE q == req[r]
<1>1. q \in Request /\ PayloadOK(q)
  BY DEF TypeInv, TypeOK, PayloadsComplete
<1> HIDE DEF q
<1>2. CASE ReadTagsForBulk(r)
  <2> DEFINE q1 == [q EXCEPT !.phase = "ready", !.seenTags = TagSnapshot(SeenIds(q))]
  <2>1. q1 \in Request /\ PayloadOK(q1)
    BY <1>1, SnapshotType DEF TypeInv, Request, Phases, PayloadOK
  <2>2. Finish(r, "ok") \/ Continue(r, q1)
    BY <1>2 DEF ReadTagsForBulk, q
  <2> HIDE DEF q1
  <2>3. UNCHANGED tables /\ "ok" \in Outcomes
    BY <1>2 DEF ReadTagsForBulk, Outcomes
  <2>4. QED
    BY <2>1, <2>2, <2>3, ReadType, EndType
<1>3. CASE ReadForDelete(r)
  <2> DEFINE q1 == [q EXCEPT !.phase = "ready", !.seen = Snapshot(Find(q.ip))]
  <2>1. q1 \in Request /\ PayloadOK(q1)
    BY <1>1, SnapshotType DEF TypeInv, Request, Phases, PayloadOK
  <2>2. Finish(r, "missing") \/ Continue(r, q1)
    BY <1>3 DEF ReadForDelete, q
  <2> HIDE DEF q1
  <2>3. UNCHANGED tables /\ "missing" \in Outcomes
    BY <1>3 DEF ReadForDelete, Outcomes
  <2>4. QED
    BY <2>1, <2>2, <2>3, ReadType, EndType
<1>4. QED
  BY <1>2, <1>3

-----------------------------------------------------------------------------
(* The pieces of a write transaction.                                      *)

LEMMA LogType ==
  ASSUME TypeInv, NEW ip \in Ips, NEW action \in {"CREATE", "UPDATE", "DELETE"},
         NEW id \in AssetIds, NEW changes \in SUBSET (Columns \union {"restored"}),
         Log(ip, action, id, changes)
  PROVE  audit' \in [Ips -> Seq(AuditEntry)]
<1> DEFINE e == [action |-> action, id |-> id, changes |-> changes]
<1>1. e \in AuditEntry
  BY DEF AuditEntry
<1> HIDE DEF e
<1>2. Append(audit[ip], e) \in Seq(AuditEntry)
  BY <1>1 DEF TypeInv, TypeOK
<1>3. audit' = [audit EXCEPT ![ip] = Append(audit[ip], e)]
  BY DEF Log, e
<1>4. QED
  BY <1>2, <1>3 DEF TypeInv, TypeOK

LEMMA SetTagsType ==
  ASSUME TypeInv, NEW i \in AssetIds, NEW T \in SUBSET TagNames, SetTags(i, T)
  PROVE  links' \in [AssetIds -> SUBSET TagNames] /\ tags' \in SUBSET TagNames
  BY DEF TypeInv, TypeOK, SetTags

LEMMA HostsWithType ==
  ASSUME TypeInv, NEW H, NEW name \in HostNames
  PROVE  HostsWith(H, name) \in [HostIds -> HostNames \union {Nil}]
  BY DEF TypeInv, TypeOK, HostsWith

LEMMA OverwriteType ==
  ASSUME NEW row \in Row, NEW q \in Request, NEW cols \in SUBSET Columns,
         "type" \in cols => q.type \in Types
  PROVE  /\ Overwrite(row, q, cols) \in Row
         /\ Overwrite(row, q, cols).ip = row.ip
         /\ Overwrite(row, q, cols).archived = row.archived
<1>1. /\ q.type \in Types \union {Nil} /\ q.project \in ProjectIds \union {Nil}
      /\ q.host \in HostIds \union {Nil} /\ q.notes \in Notes \union {Nil}
  BY DEF Request
<1> DEFINE t == IF "type" \in cols THEN q.type ELSE row.type
           p == IF "project" \in cols THEN q.project ELSE row.project
           h == IF "host" \in cols THEN q.host ELSE row.host
           n == IF "notes" \in cols THEN q.notes ELSE row.notes
<1>2. /\ t \in Types /\ p \in ProjectIds \union {Nil}
      /\ h \in HostIds \union {Nil} /\ n \in Notes \union {Nil}
  BY <1>1 DEF Row
<1>3. Overwrite(row, q, cols)
        = [row EXCEPT !.type = t, !.project = p, !.host = h, !.notes = n]
  BY DEF Overwrite
<1> HIDE DEF t, p, h, n
<1>4. [row EXCEPT !.type = t, !.project = p, !.host = h, !.notes = n] \in Row
  BY <1>2 DEF Row
<1>5. /\ [row EXCEPT !.type = t, !.project = p, !.host = h, !.notes = n].ip = row.ip
      /\ [row EXCEPT !.type = t, !.project = p, !.host = h, !.notes = n].archived
           = row.archived
  BY DEF Row
<1>6. QED
  BY <1>3, <1>4, <1>5

LEMMA DiffType ==
  ASSUME NEW x, NEW y
  PROVE  Diff(x, y) \in SUBSET Columns
  BY DEF Diff, Columns

(* The create payload of a request that is past validation.                *)
LEMMA CreateFacts ==
  ASSUME TypeInv, NEW r \in Requests, req[r].op = "create"
  PROVE  /\ req[r] \in Request /\ req[r].ip \in Ips /\ req[r].type \in Types
         /\ req[r].project \in ProjectIds \union {Nil}
         /\ req[r].host \in HostIds \union {Nil}
         /\ req[r].notes \in Notes \union {Nil}
         /\ req[r].tags \in SUBSET TagNames
  BY DEF TypeInv, TypeOK, PayloadsComplete, PayloadOK, Request

LEMMA InsertType ==
  ASSUME TypeInv, NEW r \in Requests, req[r].op = "create",
         NEW h \in HostIds \union {Nil}, NEW H, Insert(r, h, H)
  PROVE  TypeInv'
<1> DEFINE q == req[r]
<1>1. /\ q \in Request /\ q.ip \in Ips /\ q.type \in Types
      /\ q.project \in ProjectIds \union {Nil} /\ q.notes \in Notes \union {Nil}
      /\ q.tags \in SUBSET TagNames
  BY CreateFacts
<1> HIDE DEF q
<1>2. CASE Finish(r, "conflict") /\ UNCHANGED tables
  BY <1>2, EndType DEF Outcomes
<1>3. ASSUME NEW i \in AssetIds,
             assets' = [assets EXCEPT ![i] = NewRow(q, h)],
             Log(q.ip, "CREATE", i, {}),
             IF "tags" \in q.given THEN SetTags(i, q.tags) ELSE UNCHANGED <<links, tags>>,
             hosts' = HostsWith(H, AutoHostName(q.ip)),
             Finish(r, "ok"), UNCHANGED projects
      PROVE  TypeInv'
  <2>1. assets' \in [AssetIds -> Row \union {Nil}]
    BY <1>1, <1>3 DEF TypeInv, TypeOK, NewRow, Row
  <2>2. audit' \in [Ips -> Seq(AuditEntry)]
    BY <1>1, <1>3, LogType
  <2>3. links' \in [AssetIds -> SUBSET TagNames] /\ tags' \in SUBSET TagNames
    BY <1>1, <1>3, SetTagsType DEF TypeInv, TypeOK
  <2>4. hosts' \in [HostIds -> HostNames \union {Nil}]
    BY <1>1, <1>3, HostsWithType DEF HostNames
  <2>5. /\ req' \in [Requests -> Request] /\ \A s \in Requests : PayloadOK(req'[s])
        /\ loop' \in Requests \union {Nil} /\ served' \in 0..MaxRequests
    BY <1>3, FinishType DEF Outcomes
  <2>6. QED
    BY <1>3, <2>1, <2>2, <2>3, <2>4, <2>5
       DEF TypeInv, TypeOK, PayloadsComplete, PayloadOK
<1>4. QED
  BY <1>2, <1>3 DEF Insert, q

LEMMA RestoreType ==
  ASSUME TypeInv, NEW r \in Requests, req[r].op = "create",
         NEW h \in HostIds \union {Nil}, NEW H, NEW id \in AssetIds, Restore(r, h, H, id)
  PROVE  TypeInv'
<1> DEFINE q == req[r]
<1>1. /\ q \in Request /\ q.ip \in Ips /\ q.type \in Types
      /\ q.project \in ProjectIds \union {Nil} /\ q.notes \in Notes \union {Nil}
      /\ q.tags \in SUBSET TagNames
  BY CreateFacts
<1> HIDE DEF q
<1>2. CASE Finish(r, "error") /\ UNCHANGED tables
  BY <1>2, EndType DEF Outcomes
<1>3. ASSUME NEW i \in AssetIds,
             assets' = RestoredTable(q, h, id),
             Log(q.ip, "UPDATE", i, {"restored"}),
             IF "tags" \in q.given THEN SetTags(i, q.tags) ELSE UNCHANGED <<links, tags>>,
             hosts' = HostsWith(H, AutoHostName(q.ip)),
             Finish(r, "ok"), UNCHANGED projects
      PROVE  TypeInv'
  <2>1. assets' \in [AssetIds -> Row \union {Nil}]
    <3>1. CASE assets[id] = Nil
      BY <1>3, <3>1 DEF RestoredTable, TypeInv, TypeOK
    <3>2. CASE assets[id] # Nil
      <4>1. assets[id] \in Row
        BY <3>2 DEF TypeInv, TypeOK
      <4>2. RestoreRow(assets[id], q, h) \in Row
        BY <1>1, <4>1 DEF RestoreRow, Row
      <4>3. QED
        BY <1>3, <3>2, <4>2 DEF RestoredTable, TypeInv, TypeOK
    <3>3. QED
      BY <3>1, <3>2
  <2>2. audit' \in [Ips -> Seq(AuditEntry)]
    BY <1>1, <1>3, LogType
  <2>3. links' \in [AssetIds -> SUBSET TagNames] /\ tags' \in SUBSET TagNames
    BY <1>1, <1>3, SetTagsType DEF TypeInv, TypeOK
  <2>4. hosts' \in [HostIds -> HostNames \union {Nil}]
    BY <1>1, <1>3, HostsWithType DEF HostNames
  <2>5. /\ req' \in [Requests -> Request] /\ \A s \in Requests : PayloadOK(req'[s])
        /\ loop' \in Requests \union {Nil} /\ served' \in 0..MaxRequests
    BY <1>3, FinishType DEF Outcomes
  <2>6. QED
    BY <1>3, <2>1, <2>2, <2>3, <2>4, <2>5
       DEF TypeInv, TypeOK, PayloadsComplete, PayloadOK
<1>4. QED
  BY <1>2, <1>3 DEF Restore, Find, At, q
-----------------------------------------------------------------------------
(* Steps that write.                                                       *)

LEMMA CreateWritesType ==
  ASSUME TypeInv, NEW r \in Requests, WriteCreate(r) \/ CreateWithAutoHost(r)
  PROVE  TypeInv'
<1>1. req[r].op = "create" /\ req[r].host \in HostIds \union {Nil}
  BY CreateFacts DEF WriteCreate, CreateWithAutoHost, Serving
<1>2. CASE WriteCreate(r)
  <2>1. CASE Insert(r, req[r].host, LiveHosts)
    BY <1>1, <2>1, InsertType
  <2>2. ASSUME NEW id \in SeenIds(req[r]), Restore(r, req[r].host, LiveHosts, id)
        PROVE  TypeInv'
    BY <1>1, <2>2, RestoreType DEF SeenIds
  <2>3. QED
    BY <1>2, <2>1, <2>2 DEF WriteCreate
<1>3. CASE CreateWithAutoHost(r)
  <2>0. CASE Finish(r, "error") /\ UNCHANGED tables
    BY <2>0, EndType DEF Outcomes
  <2> SUFFICES ASSUME ~(Finish(r, "error") /\ UNCHANGED tables)
               PROVE  TypeInv'
    BY <2>0
  <2>1. PICK h \in HostIds :
          IF AddressFree(req[r].ip) THEN Insert(r, h, LiveHosts \union {h})
          ELSE \E i \in Find(req[r].ip) :
                 IF assets[i].archived THEN Restore(r, h, LiveHosts \union {h}, i)
                 ELSE AbandonAutoHost(r, h)
    BY <1>3 DEF CreateWithAutoHost
  <2>2. CASE Insert(r, h, LiveHosts \union {h})
    BY <1>1, <2>2, InsertType
  <2>3. ASSUME NEW i \in Find(req[r].ip), Restore(r, h, LiveHosts \union {h}, i)
        PROVE  TypeInv'
    BY <1>1, <2>3, RestoreType DEF Find, At
  <2>4. CASE AbandonAutoHost(r, h)
    BY <2>4, EndType DEF AbandonAutoHost, Outcomes
  <2>5. QED
    BY <2>1, <2>2, <2>3, <2>4
<1>4. QED
  BY <1>2, <1>3

LEMMA UpdatedRowType ==
  ASSUME NEW row \in Row, NEW q \in Request, PayloadOK(q),
         NEW id \in AssetIds, q.seen[id] \in Row
  PROVE  UpdatedRow(row, q, id) \in Row
<1>1. "type" \in q.given => q.type \in Types
  BY DEF PayloadOK
<1>2. q.given \in SUBSET Columns
  BY DEF Request
<1> DEFINE new == Overwrite(q.seen[id], q, q.given)
           over == Overwrite(row, q, q.given)
<1>3. new \in Row /\ over \in Row
  BY <1>1, <1>2, OverwriteType
<1>4. UpdatedRow(row, q, id) \in {row, [over EXCEPT !.type = new.type]}
  BY DEF UpdatedRow
<1> HIDE DEF new, over
<1>5. [over EXCEPT !.type = new.type] \in Row
  BY <1>3 DEF Row
<1>6. QED
  BY <1>4, <1>5

(* A write that changes one row, logs it and sets its tags.                *)
LEMMA RowWriteType ==
  ASSUME TypeInv, NEW r \in Requests, NEW ip \in Ips, NEW i \in AssetIds,
         NEW row \in Row, assets' = [assets EXCEPT ![i] = row],
         NEW changes \in SUBSET (Columns \union {"restored"}),
         Log(ip, "UPDATE", i, changes),
         NEW T \in SUBSET TagNames, SetTags(i, T) \/ UNCHANGED <<links, tags>>,
         Finish(r, "ok"), UNCHANGED <<projects, hosts>>
  PROVE  TypeInv'
<1>1. assets' \in [AssetIds -> Row \union {Nil}]
  BY DEF TypeInv, TypeOK
<1>2. audit' \in [Ips -> Seq(AuditEntry)]
  BY LogType
<1>3. links' \in [AssetIds -> SUBSET TagNames] /\ tags' \in SUBSET TagNames
  BY SetTagsType DEF TypeInv, TypeOK
<1>4. /\ req' \in [Requests -> Request] /\ \A s \in Requests : PayloadOK(req'[s])
      /\ loop' \in Requests \union {Nil} /\ served' \in 0..MaxRequests
  BY FinishType DEF Outcomes
<1>5. QED
  BY <1>1, <1>2, <1>3, <1>4 DEF TypeInv, TypeOK, PayloadsComplete, PayloadOK

LEMMA UpdateWritesType ==
  ASSUME TypeInv, NEW r \in Requests, WriteUpdate(r)
  PROVE  TypeInv'
<1> DEFINE q == req[r]
<1>1. q \in Request /\ PayloadOK(q) /\ q.ip \in Ips /\ q.tags \in SUBSET TagNames
  BY DEF WriteUpdate, Serving, TypeInv, TypeOK, PayloadsComplete, PayloadOK, Request
<1> HIDE DEF q
<1>2. \A answer : Finish(r, answer) /\ UNCHANGED tables /\ answer \in Outcomes => TypeInv'
  BY EndType
<1>3. ASSUME NEW id \in SeenIds(q), NEW i \in UpdateTarget(q),
             LET row == UpdatedRow(assets[i], q, id) IN
             /\ assets' = [assets EXCEPT ![i] = row]
             /\ Log(q.ip, "UPDATE", i,
                    Diff(q.seen[id], row) \union
                      (IF TagsChanged(q, id) THEN {"tags"} ELSE {}))
             /\ IF TagsChanged(q, id) THEN SetTags(i, q.tags)
                ELSE UNCHANGED <<links, tags>>,
             Finish(r, "ok"), UNCHANGED <<projects, hosts>>
      PROVE  TypeInv'
  <2> DEFINE row == UpdatedRow(assets[i], q, id)
             changes == Diff(q.seen[id], row) \union
                          (IF TagsChanged(q, id) THEN {"tags"} ELSE {})
  <2>1. i \in AssetIds /\ assets[i] \in Row
    BY <1>3 DEF UpdateTarget, Find, At, TypeInv, TypeOK
  <2>2. id \in AssetIds /\ q.seen[id] \in Row
    BY <1>1, <1>3 DEF SeenIds, Request
  <2>3. row \in Row
    BY <1>1, <2>1, <2>2, UpdatedRowType
  <2>4. changes \in SUBSET (Columns \union {"restored"})
    BY DiffType DEF Columns
  <2>5. /\ assets' = [assets EXCEPT ![i] = row]
        /\ Log(q.ip, "UPDATE", i, changes)
        /\ SetTags(i, q.tags) \/ UNCHANGED <<links, tags>>
    BY <1>3
  <2> HIDE DEF row, changes
  <2>6. QED
    BY <1>1, <1>3, <2>1, <2>3, <2>4, <2>5, RowWriteType
<1>4. QED
  BY <1>2, <1>3 DEF WriteUpdate, Outcomes, q
LEMMA BulkRowType ==
  ASSUME TypeInv, NEW q \in Request, PayloadOK(q), NEW i \in BulkTargets(q)
  PROVE  BulkRow(q, i) \in Row
<1> DEFINE new == Overwrite(q.seen[i], q, q.given)
           old == assets[i]
<1>1. i \in AssetIds /\ q.seen[i] \in Row
  BY DEF BulkTargets, SeenIds, Request
<1>2. old \in Row
  BY <1>1 DEF BulkTargets, TypeInv, TypeOK
<1>3. "type" \in q.given => q.type \in Types
  BY DEF PayloadOK
<1>4. q.given \in SUBSET Columns
  BY DEF Request
<1>5. new \in Row
  BY <1>1, <1>3, <1>4, OverwriteType
<1>6. BulkRow(q, i) = [old EXCEPT !.type = new.type, !.project = new.project,
                                  !.notes = new.notes]
  BY DEF BulkRow
<1> HIDE DEF new, old
<1>7. QED
  BY <1>2, <1>5, <1>6 DEF Row

LEMMA BulkWritesType ==
  ASSUME TypeInv, NEW r \in Requests, WriteBulk(r)
  PROVE  TypeInv'
<1> DEFINE q == req[r]
           T == BulkTargets(q)
<1>1. q \in Request /\ PayloadOK(q)
  BY DEF TypeInv, TypeOK, PayloadsComplete
<1> HIDE DEF q
<1>2. CASE Finish(r, "error") /\ UNCHANGED tables
  BY <1>2, EndType DEF Outcomes
<1>3. CASE /\ assets' = [i \in AssetIds |-> IF i \in T THEN BulkRow(q, i) ELSE assets[i]]
           /\ audit' = [ip \in Ips |->
                IF \E i \in T : assets[i].ip = ip
                  THEN LET i == CHOOSE i \in T : assets[i].ip = ip IN
                       Append(audit[ip], [action |-> "UPDATE", id |-> i,
                                          changes |-> BulkChanges(q, i)])
                  ELSE audit[ip]]
           /\ IF RetagsInBulk(q)
                THEN /\ links' = [i \in AssetIds |->
                                    IF i \in T THEN BulkTags(q, i) ELSE links[i]]
                     /\ tags' = tags \union UNION {BulkTags(q, i) : i \in T}
                ELSE UNCHANGED <<links, tags>>
           /\ Finish(r, "ok")
           /\ UNCHANGED <<projects, hosts>>
  <2>1. T \subseteq AssetIds
    BY DEF BulkTargets, SeenIds
  <2>2. assets' \in [AssetIds -> Row \union {Nil}]
    <3>1. \A i \in AssetIds : i \in T => BulkRow(q, i) \in Row
      BY <1>1, BulkRowType
    <3> HIDE DEF T
    <3>2. QED
      BY <1>3, <3>1 DEF TypeInv, TypeOK
  <2>3. audit' \in [Ips -> Seq(AuditEntry)]
    <3>1. \A ip \in Ips : audit[ip] \in Seq(AuditEntry)
      BY DEF TypeInv, TypeOK
    <3>2. ASSUME NEW i \in T
          PROVE  [action |-> "UPDATE", id |-> i, changes |-> BulkChanges(q, i)]
                   \in AuditEntry
      <4>1. BulkChanges(q, i) \in SUBSET (Columns \union {"restored"})
        BY DiffType DEF BulkChanges, Columns
      <4>2. QED
        BY <2>1, <4>1 DEF AuditEntry
    <3>3. ASSUME NEW ip \in Ips PROVE audit'[ip] \in Seq(AuditEntry)
      <4>1. CASE \E i \in T : assets[i].ip = ip
        <5> DEFINE k == CHOOSE i \in T : assets[i].ip = ip
                   e == [action |-> "UPDATE", id |-> k, changes |-> BulkChanges(q, k)]
        <5>1. k \in T
          BY <4>1
        <5>2. e \in AuditEntry
          BY <3>2, <5>1
        <5>3. audit'[ip] = Append(audit[ip], e)
          BY <1>3, <4>1
        <5> HIDE DEF e
        <5>4. QED
          BY <3>1, <5>2, <5>3
      <4>2. CASE ~ \E i \in T : assets[i].ip = ip
        BY <1>3, <3>1, <4>2
      <4>3. QED
        BY <4>1, <4>2
    <3>4. audit' = [ip \in Ips |-> audit'[ip]]
      BY <1>3
    <3>5. QED
      BY <3>3, <3>4
  <2>4. links' \in [AssetIds -> SUBSET TagNames] /\ tags' \in SUBSET TagNames
    <3>1. \A i \in AssetIds : BulkTags(q, i) \in SUBSET TagNames
      BY <1>1 DEF BulkTags, Request
    <3> HIDE DEF T
    <3>2. CASE RetagsInBulk(q)
      BY <1>3, <2>1, <3>1, <3>2 DEF TypeInv, TypeOK
    <3>3. CASE ~RetagsInBulk(q)
      BY <1>3, <3>3 DEF TypeInv, TypeOK
    <3>4. QED
      BY <3>2, <3>3
  <2>5. /\ req' \in [Requests -> Request] /\ \A s \in Requests : PayloadOK(req'[s])
        /\ loop' \in Requests \union {Nil} /\ served' \in 0..MaxRequests
    BY <1>3, FinishType DEF Outcomes
  <2>6. QED
    BY <1>3, <2>2, <2>3, <2>4, <2>5 DEF TypeInv, TypeOK, PayloadsComplete, PayloadOK
<1>4. QED
  BY <1>2, <1>3 DEF WriteBulk, q

LEMMA DeleteWritesType ==
  ASSUME TypeInv, NEW r \in Requests, WriteDelete(r) \/ WriteArchive(r)
  PROVE  TypeInv'
<1> DEFINE q == req[r]
<1>1. q \in Request /\ q.ip \in Ips
  BY DEF WriteDelete, WriteArchive, Serving, TypeInv, TypeOK, PayloadsComplete, PayloadOK
<1> HIDE DEF q
<1>2. CASE WriteDelete(r)
  <2>1. CASE DeleteNothing(r)
    BY <2>1, EndType DEF DeleteNothing, Outcomes
  <2>2. ASSUME NEW i \in Find(q.ip), NEW seenId \in SeenIds(q),
               assets' = [assets EXCEPT ![i] = Nil], links' = LinksWithout(i),
               Log(q.ip, "DELETE", seenId, {}), Finish(r, "ok"),
               UNCHANGED <<tags, projects, hosts>>
        PROVE  TypeInv'
    <3>1. audit' \in [Ips -> Seq(AuditEntry)]
      BY <1>1, <2>2, LogType DEF SeenIds
    <3>2. /\ assets' \in [AssetIds -> Row \union {Nil}]
          /\ links' \in [AssetIds -> SUBSET TagNames]
      BY <2>2 DEF TypeInv, TypeOK, LinksWithout
    <3>3. /\ req' \in [Requests -> Request] /\ \A s \in Requests : PayloadOK(req'[s])
          /\ loop' \in Requests \union {Nil} /\ served' \in 0..MaxRequests
      BY <2>2, FinishType DEF Outcomes
    <3>4. QED
      BY <2>2, <3>1, <3>2, <3>3 DEF TypeInv, TypeOK, PayloadsComplete, PayloadOK
  <2>3. QED
    BY <1>2, <2>1, <2>2 DEF WriteDelete, q
<1>3. CASE WriteArchive(r)
  <2>1. \A i \in AssetIds : i \in Find(q.ip) => [assets[i] EXCEPT !.archived = TRUE] \in Row
    BY DEF Find, At, TypeInv, TypeOK, Row
  <2>2. assets' = [i \in AssetIds |-> IF i \in Find(q.ip)
                                        THEN [assets[i] EXCEPT !.archived = TRUE]
                                        ELSE assets[i]]
    BY <1>3 DEF WriteArchive, q
  <2>3. assets' \in [AssetIds -> Row \union {Nil}]
    BY <2>1, <2>2 DEF TypeInv, TypeOK
  <2>4. /\ req' \in [Requests -> Request] /\ \A s \in Requests : PayloadOK(req'[s])
        /\ loop' \in Requests \union {Nil} /\ served' \in 0..MaxRequests
    BY <1>3, FinishType DEF WriteArchive, Outcomes
  <2>5. UNCHANGED <<links, tags, projects, hosts, audit>>
    BY <1>3 DEF WriteArchive
  <2>6. QED
    BY <2>3, <2>4, <2>5 DEF TypeInv, TypeOK, PayloadsComplete, PayloadOK
<1>4. QED
  BY <1>2, <1>3

LEMMA AutoHostType ==
  ASSUME TypeInv, NEW r \in Requests, FindAutoHost(r) \/ CreateAutoHost(r)
  PROVE  TypeInv'
<1> DEFINE q == req[r]
           Assign(h) == [q EXCEPT !.op = "update", !.phase = "checked", !.host = h]
<1>1. q \in Request /\ PayloadOK(q) /\ q.ip \in Ips
  BY DEF FindAutoHost, CreateAutoHost, Serving, TypeInv, TypeOK, PayloadsComplete, PayloadOK
<1> HIDE DEF q
<1>2. \A h \in HostIds : Assign(h) \in Request /\ PayloadOK(Assign(h))
  BY <1>1 DEF Request, Kinds, Phases, PayloadOK
<1> HIDE DEF Assign
<1>3. CASE FindAutoHost(r)
  <2>1. ASSUME NEW h \in HostIds, Continue(r, Assign(h)) PROVE TypeInv'
    BY <1>2, <1>3, <2>1, ReadType DEF FindAutoHost
  <2>2. CASE Continue(r, [q EXCEPT !.phase = "read"])
    <3>1. [q EXCEPT !.phase = "read"] \in Request /\ PayloadOK([q EXCEPT !.phase = "read"])
      BY <1>1 DEF Request, Phases, PayloadOK
    <3>2. QED
      BY <1>3, <2>2, <3>1, ReadType DEF FindAutoHost
  <2>3. QED
    BY <1>3, <2>1, <2>2 DEF FindAutoHost, Named, Assign, q
<1>4. CASE CreateAutoHost(r)
  <2>1. CASE Finish(r, "error") /\ UNCHANGED tables
    BY <2>1, EndType DEF Outcomes
  <2>2. ASSUME NEW h \in HostIds, hosts' = [hosts EXCEPT ![h] = AutoHostName(q.ip)],
               Continue(r, Assign(h)), UNCHANGED <<assets, links, tags, projects, audit>>
        PROVE  TypeInv'
    <3>1. hosts' \in [HostIds -> HostNames \union {Nil}]
      BY <1>1, <2>2 DEF HostNames, TypeInv, TypeOK
    <3>2. /\ req' \in [Requests -> Request] /\ \A s \in Requests : PayloadOK(req'[s])
          /\ loop' \in Requests \union {Nil} /\ served' \in 0..MaxRequests
      BY <1>2, <2>2, ContinueType
    <3>3. QED
      BY <2>2, <3>1, <3>2 DEF TypeInv, TypeOK, PayloadsComplete, PayloadOK
  <2>3. QED
    BY <1>4, <2>1, <2>2 DEF CreateAutoHost, Assign, q
<1>5. QED
  BY <1>3, <1>4

(* The tables assets refer to.                                             *)
LEMMA AdministerType ==
  ASSUME TypeInv, Administer
  PROVE  TypeInv'
<1>1. CASE CreateHost
  BY <1>1 DEF CreateHost, HostNames, TypeInv, TypeOK, PayloadsComplete, PayloadOK
<1>2. CASE RenameHost
  BY <1>2 DEF RenameHost, LiveHosts, TypeInv, TypeOK, PayloadsComplete, PayloadOK
<1>3. CASE DeleteHost
  <2>1. PICK h \in HostIds :
          /\ assets' = [i \in AssetIds |-> IF assets[i] # Nil /\ assets[i].host = h
                                             THEN [assets[i] EXCEPT !.host = Nil]
                                             ELSE assets[i]]
          /\ hosts' = [hosts EXCEPT ![h] = Nil]
    BY <1>3 DEF DeleteHost, LiveHosts
  <2>2. \A i \in AssetIds : assets[i] # Nil => [assets[i] EXCEPT !.host = Nil] \in Row
    BY DEF TypeInv, TypeOK, Row
  <2>3. assets' \in [AssetIds -> Row \union {Nil}]
    BY <2>1, <2>2 DEF TypeInv, TypeOK
  <2>4. QED
    BY <1>3, <2>1, <2>3 DEF DeleteHost, TypeInv, TypeOK, PayloadsComplete, PayloadOK
<1>4. CASE CreateProject
  BY <1>4 DEF CreateProject, TypeInv, TypeOK, PayloadsComplete, PayloadOK
<1>5. CASE DeleteProject
  <2>1. PICK p \in projects :
          /\ assets' = [i \in AssetIds |-> IF assets[i] # Nil /\ assets[i].project = p
                                             THEN [assets[i] EXCEPT !.project = Nil]
                                             ELSE assets[i]]
          /\ projects' = projects \ {p}
    BY <1>5 DEF DeleteProject
  <2>2. \A i \in AssetIds : assets[i] # Nil => [assets[i] EXCEPT !.project = Nil] \in Row
    BY DEF TypeInv, TypeOK, Row
  <2>3. assets' \in [AssetIds -> Row \union {Nil}]
    BY <2>1, <2>2 DEF TypeInv, TypeOK
  <2>4. QED
    BY <1>5, <2>1, <2>3 DEF DeleteProject, TypeInv, TypeOK, PayloadsComplete, PayloadOK
<1>6. CASE CreateTag
  BY <1>6 DEF CreateTag, TypeInv, TypeOK, PayloadsComplete, PayloadOK
<1>7. CASE RenameTag
  BY <1>7 DEF RenameTag, TypeInv, TypeOK, PayloadsComplete, PayloadOK
<1>8. CASE DeleteTag
  BY <1>8 DEF DeleteTag, TypeInv, TypeOK, PayloadsComplete, PayloadOK
<1>9. QED
  BY <1>1, <1>2, <1>3, <1>4, <1>5, <1>6, <1>7, <1>8 DEF Administer

-----------------------------------------------------------------------------
(* Type correctness.                                                       *)

LEMMA TypeInit == Init => TypeInv
<1> SUFFICES ASSUME Init PROVE TypeInv
  OBVIOUS
<1>1. assets \in [AssetIds -> Row \union {Nil}]
  BY SeedAssumption DEF Init
<1>2. /\ links \in [AssetIds -> SUBSET TagNames] /\ tags \in SUBSET TagNames
      /\ projects \in SUBSET ProjectIds /\ hosts \in [HostIds -> HostNames \union {Nil}]
      /\ loop \in Requests \union {Nil} /\ served \in 0..MaxRequests
  BY BoundsAssumption DEF Init, NoTags
<1>3. audit \in [Ips -> Seq(AuditEntry)]
  <2>1. ASSUME NEW ip \in Ips PROVE audit[ip] \in Seq(AuditEntry)
    <3>1. CASE AddressFree(ip)
      BY <3>1 DEF Init
    <3>2. CASE ~AddressFree(ip)
      <4> DEFINE k == CHOOSE i \in Find(ip) : TRUE
                 e == [action |-> "CREATE", id |-> k, changes |-> {}]
      <4>1. k \in AssetIds
        BY <3>2 DEF AddressFree, Find, At
      <4>2. e \in AuditEntry
        BY <4>1 DEF AuditEntry
      <4>3. audit[ip] = <<e>>
        BY <3>2 DEF Init
      <4> HIDE DEF e
      <4>4. QED
        BY <4>2, <4>3
    <3>3. QED
      BY <3>1, <3>2
  <2>2. audit = [ip \in Ips |-> audit[ip]]
    BY DEF Init
  <2>3. QED
    BY <2>1, <2>2
<1>4. req = [r \in Requests |-> Idle]
  BY DEF Init
<1>5. req \in [Requests -> Request] /\ \A r \in Requests : PayloadOK(req[r])
  BY <1>4, IdleType
<1>6. QED
  BY <1>1, <1>2, <1>3, <1>5 DEF TypeInv, TypeOK, PayloadsComplete

LEMMA TypeStep == TypeInv /\ [Next]_vars => TypeInv'
<1> SUFFICES ASSUME TypeInv, [Next]_vars PROVE TypeInv'
  OBVIOUS
<1>1. ASSUME NEW r \in Requests, Arrive(r) PROVE TypeInv'
  BY <1>1, CreateArrivesType, UpdateArrivesType, OtherArrivalsType DEF Arrive
<1>2. ASSUME NEW r \in Requests, Resume(r) PROVE TypeInv'
  BY <1>2, UpdateArrivesType, OtherArrivalsType DEF Resume
<1>3. ASSUME NEW r \in Requests, Run(r) PROVE TypeInv'
  BY <1>3, CreateReadsType, CreateWritesType, UpdateReadsType, UpdateWritesType,
     BulkDeleteReadsType, BulkWritesType, DeleteWritesType, AutoHostType DEF Run
<1>4. CASE Administer
  BY <1>4, AdministerType
<1>5. CASE UNCHANGED vars
  BY <1>5 DEF vars, TypeInv, TypeOK, PayloadsComplete, PayloadOK
<1>6. QED
  BY <1>1, <1>2, <1>3, <1>4, <1>5 DEF Next

(* Type correctness: no sequence of requests, whatever rows they read and  *)
(* however stale these are, leaves a malformed row, link or audit entry.   *)
THEOREM TypeCorrect == Spec => []TypeOK
<1>1. TypeInv => TypeOK
  BY DEF TypeInv
<1>2. QED
  BY <1>1, TypeInit, TypeStep, PTL DEF Spec

-----------------------------------------------------------------------------
(* The invariants.                                                         *)

Sound == AddressesUnique /\ ReferencesExist /\ LinksSound

-----------------------------------------------------------------------------
(* Steps that leave the tables alone.                                      *)

LEMMA TablesSound ==
  ASSUME Sound, UNCHANGED tables
  PROVE  Sound'
  BY DEF Sound, tables, AddressesUnique, ReferencesExist, LinksSound, LiveHosts

(* Arriving, resuming and reading write no table.                          *)
LEMMA ReadsWriteNothing ==
  ASSUME NEW r \in Requests,
         \/ Arrive(r) \/ Resume(r) \/ ResolveHost(r) \/ ReadExisting(r)
         \/ ReadForUpdate(r) \/ ReadTagsForUpdate(r) \/ ReadTagsForBulk(r)
         \/ ReadForDelete(r) \/ FindAutoHost(r)
  PROVE  UNCHANGED tables
<1>1. Arrive(r) => UNCHANGED tables
  BY DEF Arrive, ApiCreate, UiAdd, ApiUpdate, UiEditOpen, UiBulk, ApiDelete,
         UiDeleteOpen, Archive, AutoHostOpen
<1>2. Resume(r) => UNCHANGED tables
  BY DEF Resume, UiEditSubmit, UiDeleteSubmit
<1>3. QED
  BY <1>1, <1>2 DEF ResolveHost, ReadExisting, ReadForUpdate, ReadTagsForUpdate,
                    ReadTagsForBulk, ReadForDelete, FindAutoHost

-----------------------------------------------------------------------------
(* Writes.                                                                 *)

(* Writing one row whose address no other row has and whose references     *)
(* exist, and setting the tags of a stored asset, keeps the tables sound.  *)
LEMMA RowWriteSound ==
  ASSUME TypeInv, Sound, NEW i \in AssetIds, NEW row \in Row,
         assets' = [assets EXCEPT ![i] = row],
         \A j \in AssetIds \ {i} : assets[j] # Nil => assets[j].ip # row.ip,
         LiveHosts \subseteq LiveHosts', UNCHANGED projects,
         row.project \in projects \union {Nil},
         row.host \in LiveHosts' \union {Nil},
         NEW k \in AssetIds, assets'[k] # Nil, NEW T,
         SetTags(k, T) \/ UNCHANGED <<links, tags>>
  PROVE  Sound'
<1>1. row # Nil
  BY NilAssumption
<1>2. \A j \in AssetIds : assets'[j] = IF j = i THEN row ELSE assets[j]
  BY DEF TypeInv, TypeOK
<1>3. AddressesUnique'
  BY <1>1, <1>2 DEF Sound, AddressesUnique
<1>4. ReferencesExist'
  <2> DEFINE L == LiveHosts
  <2>1. \A j \in AssetIds : assets[j] # Nil =>
           assets[j].project \in projects \union {Nil} /\ assets[j].host \in L \union {Nil}
    BY DEF Sound, ReferencesExist
  <2>2. L \subseteq L' /\ row.host \in L' \union {Nil}
    OBVIOUS
  <2>3. ReferencesExist' <=> \A j \in AssetIds : assets'[j] # Nil =>
           assets'[j].project \in projects' \union {Nil} /\ assets'[j].host \in L' \union {Nil}
    BY DEF ReferencesExist
  <2> HIDE DEF L
  <2>4. QED
    BY <1>2, <2>1, <2>2, <2>3
<1>5. LinksSound'
  <2>1. CASE SetTags(k, T)
    BY <1>1, <1>2, <2>1 DEF SetTags, Sound, LinksSound, TypeInv, TypeOK
  <2>2. CASE UNCHANGED <<links, tags>>
    BY <1>1, <1>2, <2>2 DEF Sound, LinksSound
  <2>3. QED
    BY <2>1, <2>2
<1>6. QED
  BY <1>3, <1>4, <1>5 DEF Sound

(* The host a create adds exists from the same step on.                    *)
LEMMA HostsWithLive ==
  ASSUME TypeInv, NEW H \in SUBSET HostIds, NEW name \in HostNames,
         hosts' = HostsWith(H, name)
  PROVE  LiveHosts \subseteq LiveHosts' /\ H \subseteq LiveHosts'
  BY NilAssumption DEF LiveHosts, HostsWith

LEMMA InsertSound ==
  ASSUME TypeInv, Sound, NEW r \in Requests, req[r].op = "create",
         NEW h \in HostIds \union {Nil}, NEW H \in SUBSET HostIds, Insert(r, h, H)
  PROVE  Sound'
<1> DEFINE q == req[r]
<1>1. /\ q \in Request /\ q.ip \in Ips /\ q.type \in Types
      /\ q.project \in ProjectIds \union {Nil} /\ q.notes \in Notes \union {Nil}
  BY CreateFacts
<1> HIDE DEF q
<1>2. CASE UNCHANGED tables
  BY <1>2, TablesSound
<1>3. ASSUME UniqueHolds(q.ip), ForeignKeysHold(NewRow(q, h), H),
             NEW i \in AssetIds,
             assets' = [assets EXCEPT ![i] = NewRow(q, h)],
             IF "tags" \in q.given THEN SetTags(i, q.tags) ELSE UNCHANGED <<links, tags>>,
             hosts' = HostsWith(H, AutoHostName(q.ip)),
             UNCHANGED projects
      PROVE  Sound'
  <2> DEFINE row == NewRow(q, h)
  <2>1. row \in Row /\ row.ip = q.ip
    BY <1>1 DEF NewRow, Row
  <2>2. row.project \in projects \union {Nil} /\ row.host \in H \union {Nil}
    BY <1>3 DEF ForeignKeysHold
  <2>3. LiveHosts \subseteq LiveHosts' /\ H \subseteq LiveHosts'
    BY <1>1, <1>3, HostsWithLive DEF HostNames
  <2>4. \A j \in AssetIds \ {i} : assets[j] # Nil => assets[j].ip # row.ip
    BY <1>3, <2>1 DEF UniqueHolds, AddressFree, Find, At
  <2>5. assets' = [assets EXCEPT ![i] = row]
    BY <1>3
  <2> HIDE DEF row
  <2>6. assets'[i] # Nil
    BY <2>1, <2>5, NilAssumption DEF TypeInv, TypeOK
  <2>7. SetTags(i, q.tags) \/ UNCHANGED <<links, tags>>
    BY <1>3
  <2>8. row.host \in LiveHosts' \union {Nil} /\ UNCHANGED projects
    BY <1>3, <2>2, <2>3
  <2>9. QED
    BY <2>1, <2>2, <2>3, <2>4, <2>5, <2>6, <2>7, <2>8, RowWriteSound
<1>4. QED
  BY <1>2, <1>3 DEF Insert, q

LEMMA RestoreSound ==
  ASSUME TypeInv, Sound, NEW r \in Requests, req[r].op = "create",
         NEW h \in HostIds \union {Nil}, NEW H \in SUBSET HostIds,
         NEW id \in AssetIds, Restore(r, h, H, id)
  PROVE  Sound'
<1> DEFINE q == req[r]
<1>1. /\ q \in Request /\ q.ip \in Ips /\ q.type \in Types
      /\ q.project \in ProjectIds \union {Nil} /\ q.notes \in Notes \union {Nil}
  BY CreateFacts
<1> HIDE DEF q
<1>2. CASE UNCHANGED tables
  BY <1>2, TablesSound
<1>3. ASSUME assets[id] = Nil \/ ForeignKeysHold(RestoreRow(assets[id], q, h), H),
             NEW i \in Find(q.ip),
             assets' = RestoredTable(q, h, id),
             IF "tags" \in q.given THEN SetTags(i, q.tags) ELSE UNCHANGED <<links, tags>>,
             hosts' = HostsWith(H, AutoHostName(q.ip)),
             UNCHANGED projects
      PROVE  Sound'
  <2>1. i \in AssetIds /\ assets[i] # Nil
    BY <1>3 DEF Find, At
  <2>2. LiveHosts \subseteq LiveHosts' /\ H \subseteq LiveHosts'
    BY <1>1, <1>3, HostsWithLive DEF HostNames
  <2>3. SetTags(i, q.tags) \/ UNCHANGED <<links, tags>>
    BY <1>3
  <2>4. CASE assets[id] = Nil
    <3> DEFINE row == assets[i]
    <3>1. /\ row \in Row /\ row.project \in projects \union {Nil}
          /\ row.host \in LiveHosts' \union {Nil}
      BY <2>1, <2>2 DEF TypeInv, TypeOK, Sound, ReferencesExist
    <3>2. assets' = [assets EXCEPT ![i] = row] /\ assets'[i] # Nil
      BY <1>3, <2>1, <2>4 DEF RestoredTable, TypeInv, TypeOK
    <3>3. \A j \in AssetIds \ {i} : assets[j] # Nil => assets[j].ip # row.ip
      BY <2>1 DEF Sound, AddressesUnique
    <3> HIDE DEF row
    <3>4. QED
      BY <1>3, <2>1, <2>2, <2>3, <3>1, <3>2, <3>3, RowWriteSound
  <2>5. CASE assets[id] # Nil
    <3> DEFINE row == RestoreRow(assets[id], q, h)
    <3>1. assets[id] \in Row
      BY <2>5 DEF TypeInv, TypeOK
    <3>2. row \in Row /\ row.ip = assets[id].ip
      BY <1>1, <3>1 DEF RestoreRow, Row
    <3>3. row.project \in projects \union {Nil} /\ row.host \in LiveHosts' \union {Nil}
      BY <1>3, <2>2, <2>5 DEF ForeignKeysHold
    <3>4. \A j \in AssetIds \ {id} : assets[j] # Nil => assets[j].ip # row.ip
      BY <2>5, <3>2 DEF Sound, AddressesUnique
    <3>5. assets' = [assets EXCEPT ![id] = row]
      BY <1>3, <2>5 DEF RestoredTable
    <3> HIDE DEF row
    <3>6. assets'[i] # Nil
      BY <2>1, <3>2, <3>5, NilAssumption DEF TypeInv, TypeOK
    <3>7. QED
      BY <1>3, <2>1, <2>2, <2>3, <3>2, <3>3, <3>4, <3>5, <3>6, RowWriteSound
  <2>6. QED
    BY <2>4, <2>5
<1>4. QED
  BY <1>2, <1>3 DEF Restore, q
LEMMA CreateWritesSound ==
  ASSUME TypeInv, Sound, NEW r \in Requests, WriteCreate(r) \/ CreateWithAutoHost(r)
  PROVE  Sound'
<1>1. /\ req[r].op = "create" /\ req[r].host \in HostIds \union {Nil}
      /\ LiveHosts \in SUBSET HostIds
  BY CreateFacts DEF WriteCreate, CreateWithAutoHost, Serving, LiveHosts
<1>2. CASE WriteCreate(r)
  <2>1. CASE Insert(r, req[r].host, LiveHosts)
    BY <1>1, <2>1, InsertSound
  <2>2. ASSUME NEW id \in SeenIds(req[r]), Restore(r, req[r].host, LiveHosts, id)
        PROVE  Sound'
    BY <1>1, <2>2, RestoreSound DEF SeenIds
  <2>3. QED
    BY <1>2, <2>1, <2>2 DEF WriteCreate
<1>3. CASE CreateWithAutoHost(r)
  <2>0. CASE Finish(r, "error") /\ UNCHANGED tables
    BY <2>0, TablesSound
  <2> SUFFICES ASSUME ~(Finish(r, "error") /\ UNCHANGED tables)
               PROVE  Sound'
    BY <2>0
  <2>1. PICK h \in HostIds :
          IF AddressFree(req[r].ip) THEN Insert(r, h, LiveHosts \union {h})
          ELSE \E i \in Find(req[r].ip) :
                 IF assets[i].archived THEN Restore(r, h, LiveHosts \union {h}, i)
                 ELSE AbandonAutoHost(r, h)
    BY <1>3 DEF CreateWithAutoHost
  <2> DEFINE H == LiveHosts \union {h}
  <2>2. H \in SUBSET HostIds
    BY <1>1
  <2> HIDE DEF H
  <2>3. CASE Insert(r, h, H)
    BY <1>1, <2>2, <2>3, InsertSound
  <2>4. ASSUME NEW i \in Find(req[r].ip), Restore(r, h, H, i)
        PROVE  Sound'
    BY <1>1, <2>2, <2>4, RestoreSound DEF Find, At
  <2>5. CASE AbandonAutoHost(r, h)
    BY <2>5, TablesSound DEF AbandonAutoHost
  <2>6. QED
    BY <2>1, <2>3, <2>4, <2>5 DEF H
<1>4. QED
  BY <1>2, <1>3

(* An update keeps the address of the row it is written over.              *)
LEMMA UpdatedRowKeeps ==
  ASSUME NEW row \in Row, NEW q \in Request, PayloadOK(q),
         NEW id \in AssetIds, q.seen[id] \in Row
  PROVE  UpdatedRow(row, q, id).ip = row.ip
<1> DEFINE new == Overwrite(q.seen[id], q, q.given)
           over == Overwrite(row, q, q.given)
<1>1. "type" \in q.given => q.type \in Types
  BY DEF PayloadOK
<1>2. q.given \in SUBSET Columns
  BY DEF Request
<1>3. over \in Row /\ over.ip = row.ip
  BY <1>1, <1>2, OverwriteType
<1>4. UpdatedRow(row, q, id) \in {row, [over EXCEPT !.type = new.type]}
  BY DEF UpdatedRow
<1> HIDE DEF new, over
<1>5. [over EXCEPT !.type = new.type].ip = over.ip
  BY <1>3 DEF Row
<1>6. QED
  BY <1>3, <1>4, <1>5

LEMMA UpdateWritesSound ==
  ASSUME TypeInv, Sound, NEW r \in Requests, WriteUpdate(r)
  PROVE  Sound'
<1> DEFINE q == req[r]
<1>1. q \in Request /\ PayloadOK(q)
  BY DEF TypeInv, TypeOK, PayloadsComplete
<1> HIDE DEF q
<1>2. CASE UNCHANGED tables
  BY <1>2, TablesSound
<1>3. ASSUME NEW id \in SeenIds(q), NEW i \in UpdateTarget(q),
             ForeignKeysHold(UpdatedRow(assets[i], q, id), LiveHosts),
             assets' = [assets EXCEPT ![i] = UpdatedRow(assets[i], q, id)],
             IF TagsChanged(q, id) THEN SetTags(i, q.tags)
             ELSE UNCHANGED <<links, tags>>,
             UNCHANGED <<projects, hosts>>
      PROVE  Sound'
  <2> DEFINE row == UpdatedRow(assets[i], q, id)
  <2>1. i \in AssetIds /\ assets[i] # Nil /\ assets[i] \in Row
    BY <1>3 DEF UpdateTarget, Find, At, TypeInv, TypeOK
  <2>2. id \in AssetIds /\ q.seen[id] \in Row
    BY <1>1, <1>3 DEF SeenIds, Request
  <2>3. row \in Row /\ row.ip = assets[i].ip
    BY <1>1, <2>1, <2>2, UpdatedRowType, UpdatedRowKeeps
  <2>4. \A j \in AssetIds \ {i} : assets[j] # Nil => assets[j].ip # row.ip
    BY <2>1, <2>3 DEF Sound, AddressesUnique
  <2>5. LiveHosts' = LiveHosts
    BY <1>3 DEF LiveHosts
  <2>6. row.project \in projects \union {Nil} /\ row.host \in LiveHosts' \union {Nil}
    BY <1>3, <2>5 DEF ForeignKeysHold
  <2>7. assets' = [assets EXCEPT ![i] = row]
    BY <1>3
  <2>8. SetTags(i, q.tags) \/ UNCHANGED <<links, tags>>
    BY <1>3
  <2> HIDE DEF row
  <2>9. assets'[i] # Nil
    BY <2>1, <2>3, <2>7, NilAssumption DEF TypeInv, TypeOK
  <2>10. LiveHosts \subseteq LiveHosts' /\ UNCHANGED projects
    BY <1>3, <2>5
  <2>11. QED
    BY <2>1, <2>3, <2>4, <2>6, <2>7, <2>8, <2>9, <2>10, RowWriteSound
<1>4. QED
  BY <1>2, <1>3 DEF WriteUpdate, q

(* A bulk edit keeps the address and the host of each row it writes.       *)
LEMMA BulkRowKeeps ==
  ASSUME TypeInv, NEW q \in Request, PayloadOK(q), NEW i \in BulkTargets(q)
  PROVE  BulkRow(q, i).ip = assets[i].ip
<1> DEFINE new == Overwrite(q.seen[i], q, q.given)
           old == assets[i]
<1>1. old \in Row
  BY DEF BulkTargets, SeenIds, TypeInv, TypeOK
<1>2. BulkRow(q, i) = [old EXCEPT !.type = new.type, !.project = new.project,
                                  !.notes = new.notes]
  BY DEF BulkRow
<1> HIDE DEF new, old
<1>3. BulkRow(q, i).ip = old.ip
  BY <1>1, <1>2 DEF Row
<1>4. QED
  BY <1>3 DEF old

LEMMA BulkWritesSound ==
  ASSUME TypeInv, Sound, NEW r \in Requests, WriteBulk(r)
  PROVE  Sound'
<1> DEFINE q == req[r]
           T == BulkTargets(q)
<1>1. q \in Request /\ PayloadOK(q)
  BY DEF TypeInv, TypeOK, PayloadsComplete
<1> HIDE DEF q
<1>2. CASE UNCHANGED tables
  BY <1>2, TablesSound
<1>3. CASE /\ \A i \in T : ForeignKeysHold(BulkRow(q, i), LiveHosts)
           /\ assets' = [i \in AssetIds |-> IF i \in T THEN BulkRow(q, i) ELSE assets[i]]
           /\ IF RetagsInBulk(q)
                THEN /\ links' = [i \in AssetIds |->
                                    IF i \in T THEN BulkTags(q, i) ELSE links[i]]
                     /\ tags' = tags \union UNION {BulkTags(q, i) : i \in T}
                ELSE UNCHANGED <<links, tags>>
           /\ UNCHANGED <<projects, hosts>>
  <2>1. \A i \in T : i \in AssetIds /\ assets[i] # Nil
    BY DEF BulkTargets, SeenIds
  <2>2. \A i \in T : BulkRow(q, i) # Nil /\ BulkRow(q, i).ip = assets[i].ip
    BY <1>1, BulkRowType, BulkRowKeeps, NilAssumption
  <2> HIDE DEF T
  <2>3. \A i \in AssetIds :
          /\ (assets'[i] = Nil) <=> (assets[i] = Nil)
          /\ assets[i] # Nil => assets'[i].ip = assets[i].ip
    BY <1>3, <2>1, <2>2
  <2>4. AddressesUnique'
    BY <2>3 DEF Sound, AddressesUnique
  <2>5. ReferencesExist'
    <3>1. LiveHosts' = LiveHosts /\ projects' = projects
      BY <1>3 DEF LiveHosts
    <3>2. ASSUME NEW i \in AssetIds, assets'[i] # Nil
          PROVE  /\ assets'[i].project \in projects \union {Nil}
                 /\ assets'[i].host \in LiveHosts \union {Nil}
      <4>1. CASE i \in T
        BY <1>3, <4>1 DEF ForeignKeysHold
      <4>2. CASE i \notin T
        BY <1>3, <3>2, <4>2 DEF Sound, ReferencesExist
      <4>3. QED
        BY <4>1, <4>2
    <3>3. QED
      BY <3>1, <3>2 DEF ReferencesExist
  <2>6. LinksSound'
    <3>1. CASE RetagsInBulk(q)
      BY <1>3, <2>1, <2>3, <3>1 DEF Sound, LinksSound
    <3>2. CASE ~RetagsInBulk(q)
      BY <1>3, <2>3, <3>2 DEF Sound, LinksSound
    <3>3. QED
      BY <3>1, <3>2
  <2>7. QED
    BY <2>4, <2>5, <2>6 DEF Sound
<1>4. QED
  BY <1>2, <1>3 DEF WriteBulk, q

LEMMA DeleteWritesSound ==
  ASSUME TypeInv, Sound, NEW r \in Requests, WriteDelete(r) \/ WriteArchive(r)
  PROVE  Sound'
<1>1. CASE UNCHANGED tables
  BY <1>1, TablesSound
<1>2. ASSUME NEW i \in Find(req[r].ip), assets' = [assets EXCEPT ![i] = Nil],
             links' = LinksWithout(i), UNCHANGED <<tags, projects, hosts>>
      PROVE  Sound'
  <2>1. \A j \in AssetIds : assets'[j] = IF j = i THEN Nil ELSE assets[j]
    BY <1>2 DEF TypeInv, TypeOK
  <2>2. \A j \in AssetIds : links'[j] = IF j = i THEN {} ELSE links[j]
    BY <1>2 DEF LinksWithout, TypeInv, TypeOK
  <2>3. AddressesUnique'
    BY <2>1 DEF Sound, AddressesUnique
  <2>4. ReferencesExist'
    BY <1>2, <2>1 DEF Sound, ReferencesExist, LiveHosts
  <2>5. LinksSound'
    BY <1>2, <2>1, <2>2 DEF Sound, LinksSound
  <2>6. QED
    BY <2>3, <2>4, <2>5 DEF Sound
<1>3. CASE WriteArchive(r)
  <2>1. ASSUME NEW j \in AssetIds
        PROVE  /\ (assets'[j] = Nil) <=> (assets[j] = Nil)
               /\ assets[j] # Nil => /\ assets'[j].ip = assets[j].ip
                                     /\ assets'[j].project = assets[j].project
                                     /\ assets'[j].host = assets[j].host
    <3>1. CASE j \in Find(req[r].ip)
      <4> DEFINE old == assets[j]
      <4>1. old \in Row /\ old # Nil
        BY <3>1 DEF Find, At, TypeInv, TypeOK
      <4>2. assets'[j] = [old EXCEPT !.archived = TRUE]
        BY <1>3, <3>1 DEF WriteArchive
      <4> HIDE DEF old
      <4>3. [old EXCEPT !.archived = TRUE] \in Row
        BY <4>1 DEF Row
      <4>4. assets'[j] # Nil /\ assets'[j].ip = old.ip /\ assets'[j].project = old.project
              /\ assets'[j].host = old.host
        BY <4>1, <4>2, <4>3, NilAssumption DEF Row
      <4>5. QED
        BY <4>1, <4>4 DEF old
    <3>2. CASE j \notin Find(req[r].ip)
      BY <1>3, <3>2 DEF WriteArchive
    <3>3. QED
      BY <3>1, <3>2
  <2>2. UNCHANGED <<links, tags, projects, hosts>>
    BY <1>3 DEF WriteArchive
  <2>3. QED
    BY <2>1, <2>2 DEF Sound, AddressesUnique, ReferencesExist, LinksSound, LiveHosts
<1>4. QED
  BY <1>1, <1>2, <1>3 DEF WriteDelete, DeleteNothing

LEMMA AutoHostSound ==
  ASSUME TypeInv, Sound, NEW r \in Requests, CreateAutoHost(r)
  PROVE  Sound'
<1>1. CASE UNCHANGED tables
  BY <1>1, TablesSound
<1>2. ASSUME NEW h \in HostIds, hosts' = [hosts EXCEPT ![h] = AutoHostName(req[r].ip)],
             UNCHANGED <<assets, links, tags, projects>>
      PROVE  Sound'
  <2>1. req[r].ip \in Ips
    BY DEF CreateAutoHost, Serving, TypeInv, PayloadsComplete, PayloadOK
  <2>2. LiveHosts \subseteq LiveHosts'
    BY <1>2, <2>1, NilAssumption DEF LiveHosts, HostNames, TypeInv, TypeOK
  <2>3. QED
    BY <1>2, <2>2 DEF Sound, AddressesUnique, ReferencesExist, LinksSound
<1>3. QED
  BY <1>1, <1>2 DEF CreateAutoHost
LEMMA AdministerSound ==
  ASSUME TypeInv, Sound, Administer
  PROVE  Sound'
<1>1. CASE CreateHost \/ RenameHost
  <2>1. LiveHosts \subseteq LiveHosts'
    BY <1>1, NilAssumption
       DEF CreateHost, RenameHost, LiveHosts, HostNames, TypeInv, TypeOK
  <2>2. UNCHANGED <<assets, links, tags, projects>>
    BY <1>1 DEF CreateHost, RenameHost
  <2>3. QED
    BY <2>1, <2>2 DEF Sound, AddressesUnique, ReferencesExist, LinksSound
<1>2. CASE DeleteHost
  <2>1. PICK h \in HostIds :
          /\ assets' = [i \in AssetIds |-> IF assets[i] # Nil /\ assets[i].host = h
                                             THEN [assets[i] EXCEPT !.host = Nil]
                                             ELSE assets[i]]
          /\ hosts' = [hosts EXCEPT ![h] = Nil]
    BY <1>2 DEF DeleteHost, LiveHosts
  <2>2. ASSUME NEW j \in AssetIds
        PROVE  /\ (assets'[j] = Nil) <=> (assets[j] = Nil)
               /\ assets[j] # Nil => /\ assets'[j].ip = assets[j].ip
                                     /\ assets'[j].project = assets[j].project
                                     /\ assets'[j].host = IF assets[j].host = h THEN Nil
                                                          ELSE assets[j].host
    <3> DEFINE old == assets[j]
    <3>1. CASE old # Nil /\ old.host = h
      <4>1. assets'[j] = [old EXCEPT !.host = Nil] /\ old \in Row
        BY <2>1, <3>1 DEF TypeInv, TypeOK
      <4> HIDE DEF old
      <4>2. [old EXCEPT !.host = Nil] \in Row
        BY <4>1 DEF Row
      <4>3. /\ assets'[j] # Nil /\ assets'[j].ip = old.ip
            /\ assets'[j].project = old.project /\ assets'[j].host = Nil
        BY <4>1, <4>2, NilAssumption DEF Row
      <4>4. QED
        BY <3>1, <4>3 DEF old
    <3>2. CASE ~(old # Nil /\ old.host = h)
      BY <2>1, <3>2
    <3>3. QED
      BY <3>1, <3>2
  <2>3. LiveHosts' = LiveHosts \ {h}
    BY <2>1 DEF LiveHosts, TypeInv, TypeOK
  <2>4. UNCHANGED <<links, tags, projects>>
    BY <1>2 DEF DeleteHost
  <2>5. QED
    BY <2>2, <2>3, <2>4 DEF Sound, AddressesUnique, ReferencesExist, LinksSound
<1>3. CASE CreateProject
  BY <1>3 DEF CreateProject, Sound, AddressesUnique, ReferencesExist, LinksSound, LiveHosts
<1>4. CASE DeleteProject
  <2>1. PICK p \in projects :
          /\ assets' = [i \in AssetIds |-> IF assets[i] # Nil /\ assets[i].project = p
                                             THEN [assets[i] EXCEPT !.project = Nil]
                                             ELSE assets[i]]
          /\ projects' = projects \ {p}
    BY <1>4 DEF DeleteProject
  <2>2. ASSUME NEW j \in AssetIds
        PROVE  /\ (assets'[j] = Nil) <=> (assets[j] = Nil)
               /\ assets[j] # Nil => /\ assets'[j].ip = assets[j].ip
                                     /\ assets'[j].host = assets[j].host
                                     /\ assets'[j].project =
                                          IF assets[j].project = p THEN Nil
                                          ELSE assets[j].project
    <3> DEFINE old == assets[j]
    <3>1. CASE old # Nil /\ old.project = p
      <4>1. assets'[j] = [old EXCEPT !.project = Nil] /\ old \in Row
        BY <2>1, <3>1 DEF TypeInv, TypeOK
      <4> HIDE DEF old
      <4>2. [old EXCEPT !.project = Nil] \in Row
        BY <4>1 DEF Row
      <4>3. /\ assets'[j] # Nil /\ assets'[j].ip = old.ip
            /\ assets'[j].host = old.host /\ assets'[j].project = Nil
        BY <4>1, <4>2, NilAssumption DEF Row
      <4>4. QED
        BY <3>1, <4>3 DEF old
    <3>2. CASE ~(old # Nil /\ old.project = p)
      BY <2>1, <3>2
    <3>3. QED
      BY <3>1, <3>2
  <2>3. UNCHANGED <<links, tags, hosts>> /\ projects' = projects \ {p}
    BY <1>4, <2>1 DEF DeleteProject
  <2>4. LiveHosts' = LiveHosts
    BY <2>3 DEF LiveHosts
  <2>5. QED
    BY <2>2, <2>3, <2>4 DEF Sound, AddressesUnique, ReferencesExist, LinksSound
<1>5. CASE CreateTag \/ RenameTag \/ DeleteTag
  <2>1. UNCHANGED <<assets, projects, hosts>>
    BY <1>5 DEF CreateTag, RenameTag, DeleteTag
  <2>2. LinksSound'
    BY <1>5, <2>1 DEF CreateTag, RenameTag, DeleteTag, Sound, LinksSound
  <2>3. QED
    BY <2>1, <2>2 DEF Sound, AddressesUnique, ReferencesExist, LiveHosts
<1>6. QED
  BY <1>1, <1>2, <1>3, <1>4, <1>5 DEF Administer

-----------------------------------------------------------------------------
(* The theorems.                                                           *)

LEMMA SoundInit == Init => Sound
  BY SeedAssumption
     DEF Init, Sound, AddressesUnique, ReferencesExist, LinksSound, NoTags

LEMMA SoundStep == TypeInv /\ Sound /\ [Next]_vars => Sound'
<1> SUFFICES ASSUME TypeInv, Sound, [Next]_vars PROVE Sound'
  OBVIOUS
<1>1. ASSUME NEW r \in Requests, Arrive(r) \/ Resume(r) PROVE Sound'
  BY <1>1, ReadsWriteNothing, TablesSound
<1>2. ASSUME NEW r \in Requests, Run(r) PROVE Sound'
  BY <1>2, ReadsWriteNothing, TablesSound, CreateWritesSound, UpdateWritesSound,
     BulkWritesSound, DeleteWritesSound, AutoHostSound DEF Run
<1>3. CASE Administer
  BY <1>3, AdministerSound
<1>4. CASE UNCHANGED vars
  BY <1>4, TablesSound DEF vars, tables
<1>5. QED
  BY <1>1, <1>2, <1>3, <1>4 DEF Next

(* The safety of the tables, as one invariant.                             *)
LEMMA SoundAlways == Spec => []Sound
  BY TypeInit, TypeStep, SoundInit, SoundStep, PTL DEF Spec

(* However creates race for an address, the index and the re-check of the  *)
(* row read keep one row for it.                                           *)
THEOREM UniqueAddresses == Spec => []AddressesUnique
<1>1. Sound => AddressesUnique
  BY DEF Sound
<1>2. QED
  BY <1>1, SoundAlways, PTL

(* No asset ever refers to a project or a host that was deleted while a    *)
(* request held its id.                                                    *)
THEOREM ReferencesAlwaysExist == Spec => []ReferencesExist
<1>1. Sound => ReferencesExist
  BY DEF Sound
<1>2. QED
  BY <1>1, SoundAlways, PTL

(* Tag links join a stored asset to a stored tag, through deletes, renames *)
(* and ids that are used again.                                            *)
THEOREM LinksAlwaysSound == Spec => []LinksSound
<1>1. Sound => LinksSound
  BY DEF Sound
<1>2. QED
  BY <1>1, SoundAlways, PTL

-----------------------------------------------------------------------------
(* What a step may do: action properties.                                  *)

(* A step is of one request, and leaves the others alone.                  *)
LEMMA OneRequestSteps ==
  ASSUME TypeInv, NEW r \in Requests, Arrive(r) \/ Resume(r) \/ Run(r)
  PROVE  \A s \in Requests \ {r} : req'[s] = req[s]
<1>1. CASE Arrive(r)
  BY <1>1 DEF Arrive, ApiCreate, UiAdd, ApiUpdate, UiEditOpen, UiBulk, ApiDelete, UiDeleteOpen,
              Archive, AutoHostOpen, Accept, TypeInv, TypeOK
<1>2. CASE Resume(r)
  BY <1>2 DEF Resume, UiEditSubmit, UiDeleteSubmit, TypeInv, TypeOK
<1>3. ASSUME NEW q, Continue(r, q)
      PROVE  \A s \in Requests \ {r} : req'[s] = req[s]
  BY <1>3 DEF Continue, TypeInv, TypeOK
<1>4. ASSUME NEW answer, Finish(r, answer)
      PROVE  \A s \in Requests \ {r} : req'[s] = req[s]
  BY <1>4 DEF Finish, TypeInv, TypeOK
<1>5. CASE ResolveHost(r) \/ ReadExisting(r)
  BY <1>3, <1>4, <1>5 DEF ResolveHost, ReadExisting
<1>6. CASE WriteCreate(r) \/ CreateWithAutoHost(r)
  BY <1>4, <1>6 DEF WriteCreate, CreateWithAutoHost, Insert, Restore, AbandonAutoHost
<1>7. CASE ReadForUpdate(r) \/ ReadTagsForUpdate(r) \/ WriteUpdate(r)
  BY <1>3, <1>4, <1>7 DEF ReadForUpdate, ReadTagsForUpdate, WriteUpdate
<1>8. CASE ReadTagsForBulk(r) \/ WriteBulk(r)
  BY <1>3, <1>4, <1>8 DEF ReadTagsForBulk, WriteBulk
<1>9. CASE ReadForDelete(r) \/ WriteDelete(r) \/ WriteArchive(r)
  BY <1>3, <1>4, <1>9 DEF ReadForDelete, WriteDelete, DeleteNothing, WriteArchive
<1>10. CASE FindAutoHost(r) \/ CreateAutoHost(r)
  BY <1>3, <1>4, <1>10 DEF FindAutoHost, CreateAutoHost
<1>11. QED
  BY <1>1, <1>2, <1>5, <1>6, <1>7, <1>8, <1>9, <1>10 DEF Run

(* The requests whose steps an administration or a stutter is not.         *)
LEMMA RequestStep ==
  ASSUME TypeInv, NEW r \in Requests, req'[r] # req[r], [Next]_vars
  PROVE  Arrive(r) \/ Resume(r) \/ Run(r)
<1>1. \/ \E s \in Requests : Arrive(s) \/ Resume(s) \/ Run(s)
      \/ UNCHANGED req
  BY DEF Next, Administer, CreateHost, RenameHost, DeleteHost, CreateProject, DeleteProject,
         CreateTag, RenameTag, DeleteTag, vars
<1>2. QED
  BY <1>1, OneRequestSteps

(* The writes of updates, deletes and archives.                            *)
LEMMA NamedRows ==
  ASSUME TypeInv, NEW r \in Requests, [Next]_vars
  PROVE  OthersUntouched(r)
<1>1. SUFFICES ASSUME req'[r] # req[r], req[r].op \in {"update", "delete", "archive"},
                      NEW i \in AssetIds, assets'[i] # assets[i]
               PROVE  assets[i] # Nil /\ assets[i].ip = req[r].ip
  BY DEF OthersUntouched
<1>2. WriteUpdate(r) \/ WriteDelete(r) \/ WriteArchive(r)
  <2>1. Run(r) /\ ~UNCHANGED tables
    BY <1>1, RequestStep, ReadsWriteNothing DEF tables
  <2>2. ~WriteCreate(r) /\ ~CreateWithAutoHost(r) /\ ~WriteBulk(r) /\ ~CreateAutoHost(r)
    BY <1>1 DEF WriteCreate, CreateWithAutoHost, WriteBulk, CreateAutoHost, Serving
  <2>3. QED
    BY <2>1, <2>2, ReadsWriteNothing DEF Run
<1>3. i \in Find(req[r].ip)
  <2>1. CASE WriteUpdate(r)
    <3>1. PICK k \in Find(req[r].ip) : \E row : assets' = [assets EXCEPT ![k] = row]
      BY <1>1, <2>1 DEF WriteUpdate, UpdateTarget, tables
    <3>2. QED
      BY <1>1, <3>1 DEF TypeInv, TypeOK
  <2>2. CASE WriteDelete(r)
    <3>1. PICK k \in Find(req[r].ip) : assets' = [assets EXCEPT ![k] = Nil]
      BY <1>1, <2>2 DEF WriteDelete, DeleteNothing, tables
    <3>2. QED
      BY <1>1, <3>1 DEF TypeInv, TypeOK
  <2>3. CASE WriteArchive(r)
    BY <1>1, <2>3 DEF WriteArchive
  <2>4. QED
    BY <1>2, <2>1, <2>2, <2>3
<1>4. QED
  BY <1>3 DEF Find, At

(* A request to update, delete or archive an address, whatever the others  *)
(* do between its read and its write, changes the row of that address only.*)
THEOREM OnlyNamedRowEverChanges == Spec => OnlyNamedRowChanges
<1>1. TypeInv /\ [Next]_vars => \A r \in Requests : OthersUntouched(r)
  BY NamedRows
<1>2. TypeInv /\ [Next]_vars => [\A r \in Requests : OthersUntouched(r)]_vars
  BY <1>1
<1>3. QED
  BY <1>2, TypeInit, TypeStep, PTL DEF Spec, OnlyNamedRowChanges

(* What an update writes.                                                  *)
LEMMA UpdatedRowRest ==
  ASSUME NEW row \in Row, NEW q \in Request, PayloadOK(q),
         NEW id \in AssetIds, q.seen[id] \in Row
  PROVE  /\ UpdatedRow(row, q, id).archived = row.archived
         /\ {"project", "host", "notes"} \intersect Diff(row, UpdatedRow(row, q, id))
              \subseteq q.given
<1> DEFINE t == Overwrite(q.seen[id], q, q.given).type
           over == Overwrite(row, q, q.given)
           new == [over EXCEPT !.type = t]
<1>1. over \in Row /\ over.archived = row.archived
  BY OverwriteType DEF PayloadOK, Request
<1>2. /\ "project" \in q.given \/ over.project = row.project
      /\ "host" \in q.given \/ over.host = row.host
      /\ "notes" \in q.given \/ over.notes = row.notes
  BY DEF Overwrite, Row
<1>3. UpdatedRow(row, q, id) \in {row, new}
  BY DEF UpdatedRow
<1> HIDE DEF over, t
<1>4. /\ new.archived = row.archived /\ new.project = over.project
      /\ new.host = over.host /\ new.notes = over.notes
  BY <1>1 DEF Row
<1> HIDE DEF new
<1>5. CASE UpdatedRow(row, q, id) = row
  BY <1>5 DEF Diff
<1>6. CASE UpdatedRow(row, q, id) = new
  BY <1>1, <1>2, <1>4, <1>6 DEF Diff
<1>7. QED
  BY <1>3, <1>5, <1>6

LEMMA RestKept ==
  ASSUME TypeInv, NEW r \in Requests, [Next]_vars
  PROVE  KeepsRest(r)
<1>1. SUFFICES ASSUME req'[r] # req[r], req[r].op = "update", NEW i \in AssetIds,
                      assets[i] # Nil
               PROVE  /\ assets'[i] # Nil /\ assets'[i].archived = assets[i].archived
                      /\ {"project", "host", "notes"} \intersect Diff(assets[i], assets'[i])
                           \subseteq req[r].given
  BY DEF KeepsRest
<1>2. CASE assets'[i] = assets[i]
  BY <1>1, <1>2 DEF Diff
<1>3. CASE assets'[i] # assets[i]
  <2> DEFINE q == req[r]
  <2>1. Run(r) /\ ~UNCHANGED tables
    BY <1>1, <1>3, RequestStep, ReadsWriteNothing DEF tables
  <2>2. WriteUpdate(r)
    <3>1. /\ ~WriteCreate(r) /\ ~CreateWithAutoHost(r) /\ ~WriteBulk(r) /\ ~CreateAutoHost(r)
          /\ ~WriteDelete(r) /\ ~WriteArchive(r)
      BY <1>1 DEF WriteCreate, CreateWithAutoHost, WriteBulk, CreateAutoHost, WriteDelete,
                  WriteArchive, Serving
    <3>2. QED
      BY <2>1, <3>1, ReadsWriteNothing DEF Run
  <2>3. PICK id \in SeenIds(q), k \in Find(q.ip) :
          assets' = [assets EXCEPT ![k] = UpdatedRow(assets[k], q, id)]
    BY <1>3, <2>1, <2>2 DEF WriteUpdate, UpdateTarget, tables
  <2>4. q \in Request /\ PayloadOK(q)
    BY DEF TypeInv, TypeOK, PayloadsComplete
  <2>5. k = i /\ assets[i] \in Row /\ assets'[i] = UpdatedRow(assets[i], q, id)
    BY <1>1, <1>3, <2>3 DEF TypeInv, TypeOK
  <2>6. id \in AssetIds /\ q.seen[id] \in Row
    BY <2>4 DEF SeenIds, Request
  <2>7. UpdatedRow(assets[i], q, id) \in Row
    BY <2>4, <2>5, <2>6, UpdatedRowType
  <2>8. QED
    BY <2>4, <2>5, <2>6, <2>7, UpdatedRowRest, NilAssumption
<1>4. QED
  BY <1>2, <1>3

(* However stale the row an update compared with: the columns it was not   *)
(* given are not written back, and nothing is un-archived.                 *)
THEOREM UngivenColumnsEverKept == Spec => UngivenColumnsKept
<1>1. TypeInv /\ [Next]_vars => [\A r \in Requests : KeepsRest(r)]_vars
  BY RestKept
<1>2. QED
  BY <1>1, TypeInit, TypeStep, PTL DEF Spec, UngivenColumnsKept

-----------------------------------------------------------------------------
(* The host of a create.                                                   *)

OwnHost(r) ==
  \A h \in HostIds :
    /\ req[r].op = "create" /\ req'[r] # req[r]
    /\ hosts[h] = Nil /\ hosts'[h] # Nil
    => \E i \in AssetIds : /\ assets'[i] # Nil
                           /\ assets'[i].ip = req[r].ip
                           /\ assets'[i].host = h

LEMMA InsertHost ==
  ASSUME TypeInv, NEW r \in Requests, req[r].op = "create", NEW h \in HostIds,
         Insert(r, h, LiveHosts \union {h}), NEW k \in HostIds, hosts[k] = Nil, hosts'[k] # Nil
  PROVE  \E i \in AssetIds : /\ assets'[i] # Nil /\ assets'[i].ip = req[r].ip
                             /\ assets'[i].host = k
<1> DEFINE q == req[r]
<1>1. PICK i \in AssetIds : /\ assets' = [assets EXCEPT ![i] = NewRow(q, h)]
                            /\ hosts' = HostsWith(LiveHosts \union {h}, AutoHostName(q.ip))
  BY DEF Insert, tables
<1>2. k = h
  BY <1>1 DEF HostsWith, LiveHosts
<1>3. NewRow(q, h) \in Row /\ NewRow(q, h).ip = q.ip /\ NewRow(q, h).host = h
  BY CreateFacts DEF NewRow, Row
<1>4. assets'[i] = NewRow(q, h)
  BY <1>1 DEF TypeInv, TypeOK
<1>5. QED
  BY <1>2, <1>3, <1>4, NilAssumption

LEMMA RestoreHost ==
  ASSUME TypeInv, NEW r \in Requests, req[r].op = "create", NEW h \in HostIds,
         NEW id \in Find(req[r].ip), Restore(r, h, LiveHosts \union {h}, id),
         NEW k \in HostIds, hosts[k] = Nil, hosts'[k] # Nil
  PROVE  \E i \in AssetIds : /\ assets'[i] # Nil /\ assets'[i].ip = req[r].ip
                             /\ assets'[i].host = k
<1> DEFINE q == req[r]
           old == assets[id]
<1>1. id \in AssetIds /\ old \in Row /\ old # Nil /\ old.ip = q.ip
  BY DEF Find, At, TypeInv, TypeOK
<1>2. /\ assets' = [assets EXCEPT ![id] = RestoreRow(old, q, h)]
      /\ hosts' = HostsWith(LiveHosts \union {h}, AutoHostName(q.ip))
  BY <1>1 DEF Restore, RestoredTable, tables
<1>3. k = h
  BY <1>2 DEF HostsWith, LiveHosts
<1> HIDE DEF old
<1>4. RestoreRow(old, q, h) \in Row /\ RestoreRow(old, q, h).ip = q.ip
        /\ RestoreRow(old, q, h).host = h
  BY <1>1, CreateFacts DEF RestoreRow, Row
<1>5. assets'[id] = RestoreRow(old, q, h)
  BY <1>1, <1>2 DEF TypeInv, TypeOK
<1>6. QED
  BY <1>1, <1>3, <1>4, <1>5, NilAssumption

LEMMA CreateOwnHost ==
  ASSUME TypeInv, NEW r \in Requests, [Next]_vars
  PROVE  OwnHost(r)
<1>1. SUFFICES ASSUME NEW k \in HostIds, req[r].op = "create", req'[r] # req[r],
                      hosts[k] = Nil, hosts'[k] # Nil
               PROVE  \E i \in AssetIds : /\ assets'[i] # Nil /\ assets'[i].ip = req[r].ip
                                          /\ assets'[i].host = k
  BY DEF OwnHost
<1>2. WriteCreate(r) \/ CreateWithAutoHost(r)
  <2>1. Run(r) /\ ~UNCHANGED tables
    BY <1>1, RequestStep, ReadsWriteNothing DEF tables
  <2>2. /\ ~WriteUpdate(r) /\ ~WriteBulk(r) /\ ~CreateAutoHost(r)
        /\ ~WriteDelete(r) /\ ~WriteArchive(r)
    BY <1>1 DEF WriteUpdate, WriteBulk, CreateAutoHost, WriteDelete, WriteArchive, Serving
  <2>3. QED
    BY <2>1, <2>2, ReadsWriteNothing DEF Run
<1>3. CASE WriteCreate(r)
  <2>1. hosts' \in {hosts, HostsWith(LiveHosts, AutoHostName(req[r].ip))}
    BY <1>3 DEF WriteCreate, Insert, Restore, tables
  <2>2. QED
    BY <1>1, <2>1 DEF HostsWith, LiveHosts
<1>4. CASE CreateWithAutoHost(r)
  <2>1. PICK h \in HostIds :
          \/ Insert(r, h, LiveHosts \union {h})
          \/ \E i \in Find(req[r].ip) : \/ Restore(r, h, LiveHosts \union {h}, i)
                                        \/ AbandonAutoHost(r, h)
    BY <1>1, <1>4 DEF CreateWithAutoHost, tables
  <2>2. CASE Insert(r, h, LiveHosts \union {h})
    BY <1>1, <2>2, InsertHost
  <2>3. ASSUME NEW i \in Find(req[r].ip), Restore(r, h, LiveHosts \union {h}, i)
        PROVE  \E j \in AssetIds : /\ assets'[j] # Nil /\ assets'[j].ip = req[r].ip
                                   /\ assets'[j].host = k
    BY <1>1, <2>3, RestoreHost
  <2>4. ~AbandonAutoHost(r, h)
    BY <1>1 DEF AbandonAutoHost, tables
  <2>5. QED
    BY <2>1, <2>2, <2>3, <2>4
<1>5. QED
  BY <1>2, <1>3, <1>4

(* A host that a create adds is the host of the asset it creates or        *)
(* restores: a conflict found after its INSERT leaves no host behind.      *)
THEOREM NoOrphanAutoHosts == Spec => NoOrphanAutoHost
<1>1. TypeInv /\ [Next]_vars => \A r \in Requests : OwnHost(r)
  BY CreateOwnHost
<1>2. TypeInv /\ [Next]_vars => [\A r \in Requests : \A h \in HostIds :
         /\ req[r].op = "create" /\ req'[r] # req[r]
         /\ hosts[h] = Nil /\ hosts'[h] # Nil
         => \E i \in AssetIds : /\ assets'[i] # Nil
                                /\ assets'[i].ip = req[r].ip
                                /\ assets'[i].host = h]_vars
  BY <1>1 DEF OwnHost
<1>3. QED
  BY <1>2, TypeInit, TypeStep, PTL DEF Spec, NoOrphanAutoHost

-----------------------------------------------------------------------------
(* Without bulk edits, an entry of an update says what it changed.         *)

NoBulk == UpdatesAuditedChange /\ \A r \in Requests : req[r].op # "bulk"

Telling(e) == e.action = "UPDATE" => e.changes # {}

LEMMA LoggedChange ==
  ASSUME TypeInv, UpdatesAuditedChange, NEW ip \in Ips, NEW action, NEW id, NEW changes,
         Log(ip, action, id, changes), action = "UPDATE" => changes # {}
  PROVE  UpdatesAuditedChange'
<1> DEFINE e == [action |-> action, id |-> id, changes |-> changes]
<1>1. /\ \A x \in Ips : audit[x] \in Seq(AuditEntry)
      /\ audit' = [audit EXCEPT ![ip] = Append(audit[ip], e)]
      /\ audit \in [Ips -> Seq(AuditEntry)]
  BY DEF TypeInv, TypeOK, Log
<1>2. Telling(e)
  BY DEF Telling
<1> HIDE DEF e
<1>3. \A x \in Ips : audit'[x] = IF x = ip THEN Append(audit[ip], e) ELSE audit[x]
  BY <1>1
<1>4. ASSUME NEW x \in Ips, NEW k \in 1..Len(audit'[x])
      PROVE  Telling(audit'[x][k])
  <2>1. \A m \in 1..Len(audit[x]) : Telling(audit[x][m])
    BY DEF UpdatesAuditedChange, Telling
  <2>2. CASE x # ip
    BY <1>3, <2>1, <2>2
  <2>3. CASE x = ip
    <3> DEFINE t == audit[ip]
    <3>1. t \in Seq(AuditEntry) /\ audit'[x] = Append(t, e)
      BY <1>1, <1>3, <2>3
    <3> HIDE DEF t
    <3>2. (k \in 1..Len(t) /\ audit'[x][k] = t[k]) \/ audit'[x][k] = e
      BY <3>1
    <3>3. QED
      BY <1>2, <2>1, <2>3, <3>2 DEF t
  <2>4. QED
    BY <2>2, <2>3
<1>5. QED
  BY <1>4 DEF UpdatesAuditedChange, Telling

(* The columns that the row read would change, the row written changes.    *)
LEMMA ChangesTold ==
  ASSUME NEW row \in Row, NEW q \in Request, PayloadOK(q), NEW id \in AssetIds,
         q.seen[id] \in Row, ~NothingToDo(q, id)
  PROVE  Diff(q.seen[id], UpdatedRow(row, q, id)) \union
           (IF TagsChanged(q, id) THEN {"tags"} ELSE {}) # {}
<1> DEFINE old == q.seen[id]
           next == Overwrite(old, q, q.given)
           over == Overwrite(row, q, q.given)
           new == [over EXCEPT !.type = next.type]
<1>1. CASE TagsChanged(q, id)
  BY <1>1
<1>2. CASE Diff(old, next) # {}
  <2>1. over \in Row
    BY OverwriteType DEF PayloadOK, Request
  <2>2. UpdatedRow(row, q, id) = new
    BY <1>2 DEF UpdatedRow
  <2>3. /\ "project" \in q.given => over.project = q.project
        /\ "host" \in q.given => over.host = q.host
        /\ "notes" \in q.given => over.notes = q.notes
    BY DEF Overwrite, Row
  <2>4. /\ next.project = IF "project" \in q.given THEN q.project ELSE old.project
        /\ next.host = IF "host" \in q.given THEN q.host ELSE old.host
        /\ next.notes = IF "notes" \in q.given THEN q.notes ELSE old.notes
    BY DEF Overwrite, Row
  <2>5. Diff(old, next) # {}
    BY <1>2
  <2> HIDE DEF next, over, old
  <2>6. /\ new.type = next.type /\ new.project = over.project /\ new.host = over.host
        /\ new.notes = over.notes
    BY <2>1 DEF Row
  <2> HIDE DEF new
  <2>7. Diff(old, new) # {}
    BY <2>3, <2>4, <2>5, <2>6 DEF Diff
  <2>8. QED
    BY <2>2, <2>7 DEF old
<1>3. QED
  BY <1>1, <1>2 DEF NothingToDo

LEMMA NoBulkArrives ==
  ASSUME "bulk" \notin Ops, TypeInv, NoBulk, NEW r \in Requests, Arrive(r) \/ Resume(r)
  PROVE  NoBulk'
<1>1. UpdatesAuditedChange'
  BY ReadsWriteNothing DEF NoBulk, UpdatesAuditedChange, tables
<1>2. req'[r].op # "bulk"
  <2>1. ASSUME NEW q, Accept(r, q)
        PROVE  req'[r].op # "bulk"
    BY <2>1 DEF Accept, TypeInv, TypeOK
  <2>2. Arrive(r) => req'[r].op # "bulk"
    BY <2>1 DEF Arrive, ApiCreate, UiAdd, ApiUpdate, UiEditOpen, UiBulk, ApiDelete,
                UiDeleteOpen, Archive, AutoHostOpen
  <2>3. CASE UiEditSubmit(r)
    <3>1. PICK ip, cols, p, t :
            req' = [req EXCEPT ![r] = [Payload("update", "checked", ip, cols, p)
                                         EXCEPT !.type = t]]
      BY <2>3 DEF UiEditSubmit
    <3>2. [Payload("update", "checked", ip, cols, p) EXCEPT !.type = t].op = "update"
      BY DEF Payload, Idle
    <3>3. QED
      BY <3>1, <3>2 DEF TypeInv, TypeOK
  <2>4. CASE UiDeleteSubmit(r)
    <3>1. PICK typed : req' = [req EXCEPT ![r] = [req[r] EXCEPT !.phase = "checked",
                                                               !.typed = typed]]
      BY <2>4 DEF UiDeleteSubmit
    <3>2. req[r] \in Request /\ req[r].op # "bulk"
      BY DEF TypeInv, TypeOK, NoBulk
    <3>3. [req[r] EXCEPT !.phase = "checked", !.typed = typed].op = req[r].op
      BY <3>2 DEF Request
    <3>4. QED
      BY <3>1, <3>2, <3>3 DEF TypeInv, TypeOK
  <2>5. QED
    BY <2>2, <2>3, <2>4 DEF Resume
<1>3. QED
  BY <1>1, <1>2, OneRequestSteps DEF NoBulk

(* The operation of a request once it runs.                                *)
LEMMA RunOps ==
  ASSUME TypeInv, NEW r \in Requests, Run(r)
  PROVE  req'[r].op \in {req[r].op, "update", "none"}
<1> DEFINE q == req[r]
<1>1. q \in Request
  BY DEF TypeInv, TypeOK
<1>2. ASSUME NEW n, Continue(r, n)
      PROVE  req'[r] = n
  BY <1>2 DEF Continue, TypeInv, TypeOK
<1>3. ASSUME NEW answer, Finish(r, answer)
      PROVE  req'[r].op = "none"
  BY <1>3 DEF Finish, TypeInv, TypeOK, Idle
<1>4. CASE ResolveHost(r)
  <2>1. \/ Continue(r, [q EXCEPT !.phase = "resolved"])
        \/ \E h : Continue(r, [q EXCEPT !.phase = "resolved", !.host = h])
        \/ Continue(r, [q EXCEPT !.phase = "naming"])
    BY <1>4 DEF ResolveHost
  <2>2. QED
    BY <1>1, <1>2, <2>1 DEF Request
<1>5. CASE ReadExisting(r)
  <2>1. \/ Finish(r, "conflict")
        \/ \E x : Continue(r, [q EXCEPT !.phase = "read", !.seen = x])
    BY <1>5 DEF ReadExisting
  <2>2. QED
    BY <1>1, <1>2, <1>3, <2>1 DEF Request
<1>6. CASE WriteCreate(r) \/ CreateWithAutoHost(r)
  <2>1. \E answer : Finish(r, answer)
    BY <1>6 DEF WriteCreate, CreateWithAutoHost, Insert, Restore, AbandonAutoHost
  <2>2. QED
    BY <1>3, <2>1
<1>7. CASE ReadForUpdate(r)
  <2>1. \/ Finish(r, "missing")
        \/ \E p, x : Continue(r, [q EXCEPT !.phase = p, !.seen = x])
    BY <1>7 DEF ReadForUpdate
  <2>2. QED
    BY <1>1, <1>2, <1>3, <2>1 DEF Request
<1>8. CASE ReadTagsForUpdate(r)
  <2>1. \E x : Continue(r, [q EXCEPT !.phase = "ready", !.seenTags = x])
    BY <1>8 DEF ReadTagsForUpdate
  <2>2. QED
    BY <1>1, <1>2, <2>1 DEF Request
<1>9. CASE WriteUpdate(r) \/ WriteBulk(r) \/ WriteDelete(r) \/ WriteArchive(r)
  <2>1. \E answer : Finish(r, answer)
    BY <1>9 DEF WriteUpdate, WriteBulk, WriteDelete, DeleteNothing, WriteArchive
  <2>2. QED
    BY <1>3, <2>1
<1>10. CASE ReadTagsForBulk(r)
  <2>1. \/ Finish(r, "ok")
        \/ \E x : Continue(r, [q EXCEPT !.phase = "ready", !.seenTags = x])
    BY <1>10 DEF ReadTagsForBulk
  <2>2. QED
    BY <1>1, <1>2, <1>3, <2>1 DEF Request
<1>11. CASE ReadForDelete(r)
  <2>1. \/ Finish(r, "missing")
        \/ \E x : Continue(r, [q EXCEPT !.phase = "ready", !.seen = x])
    BY <1>11 DEF ReadForDelete
  <2>2. QED
    BY <1>1, <1>2, <1>3, <2>1 DEF Request
<1>12. CASE FindAutoHost(r)
  <2>1. \/ Continue(r, [q EXCEPT !.phase = "read"])
        \/ \E h : Continue(r, [q EXCEPT !.op = "update", !.phase = "checked", !.host = h])
    BY <1>12 DEF FindAutoHost
  <2>2. QED
    BY <1>1, <1>2, <2>1 DEF Request
<1>13. CASE CreateAutoHost(r)
  <2>1. \/ Finish(r, "error")
        \/ \E h : Continue(r, [q EXCEPT !.op = "update", !.phase = "checked", !.host = h])
    BY <1>13 DEF CreateAutoHost
  <2>2. QED
    BY <1>1, <1>2, <1>3, <2>1 DEF Request
<1>14. QED
  BY <1>4, <1>5, <1>6, <1>7, <1>8, <1>9, <1>10, <1>11, <1>12, <1>13 DEF Run

LEMMA NoBulkRuns ==
  ASSUME TypeInv, NoBulk, NEW r \in Requests, Run(r)
  PROVE  NoBulk'
<1> DEFINE q == req[r]
<1>1. \A s \in Requests : req'[s].op # "bulk"
  BY OneRequestSteps, RunOps DEF NoBulk
<1>2. q \in Request /\ PayloadOK(q) /\ q.op # "bulk"
  BY DEF TypeInv, TypeOK, PayloadsComplete, NoBulk
<1>3. q.op \in {"create", "update", "delete"} => q.ip \in Ips
  BY <1>2 DEF PayloadOK
<1>4. UpdatesAuditedChange'
  <2>1. CASE UNCHANGED audit
    BY <2>1 DEF NoBulk, UpdatesAuditedChange
  <2>2. ASSUME q.ip \in Ips,
               \E id : \/ Log(q.ip, "UPDATE", id, {"restored"}) \/ Log(q.ip, "CREATE", id, {})
                       \/ Log(q.ip, "DELETE", id, {})
        PROVE  UpdatesAuditedChange'
    <3>1. UpdatesAuditedChange
      BY DEF NoBulk
    <3>2. ASSUME NEW id, Log(q.ip, "UPDATE", id, {"restored"})
          PROVE  UpdatesAuditedChange'
      BY <2>2, <3>1, <3>2, LoggedChange
    <3>3. ASSUME NEW id, Log(q.ip, "CREATE", id, {})
          PROVE  UpdatesAuditedChange'
      BY <2>2, <3>1, <3>3, LoggedChange
    <3>4. ASSUME NEW id, Log(q.ip, "DELETE", id, {})
          PROVE  UpdatesAuditedChange'
      BY <2>2, <3>1, <3>4, LoggedChange
    <3>5. QED
      BY <2>2, <3>2, <3>3, <3>4
  <2>3. CASE WriteUpdate(r) /\ ~UNCHANGED audit
    <3>1. PICK id \in SeenIds(q), i \in Find(q.ip) :
            /\ ~NothingToDo(q, id)
            /\ Log(q.ip, "UPDATE", i, Diff(q.seen[id], UpdatedRow(assets[i], q, id)) \union
                             (IF TagsChanged(q, id) THEN {"tags"} ELSE {}))
      BY <2>3 DEF WriteUpdate, UpdateTarget, tables
    <3>2. id \in AssetIds /\ q.seen[id] \in Row /\ assets[i] \in Row
      BY <1>2, <3>1 DEF SeenIds, Request, Find, At, TypeInv, TypeOK
    <3>3. q.ip \in Ips
      BY <1>3, <2>3 DEF WriteUpdate, Serving
    <3>4. QED
      BY <1>2, <3>1, <3>2, <3>3, ChangesTold, LoggedChange DEF NoBulk
  <2>4. QED
    <3>1. ~WriteBulk(r)
      BY <1>2 DEF WriteBulk, Serving
    <3>2. WriteArchive(r) \/ CreateAutoHost(r) => UNCHANGED audit
      BY DEF WriteArchive, CreateAutoHost, tables
    <3>3. WriteCreate(r) \/ CreateWithAutoHost(r) \/ WriteDelete(r) =>
            \/ UNCHANGED audit
            \/ \E id : \/ Log(q.ip, "UPDATE", id, {"restored"}) \/ Log(q.ip, "CREATE", id, {})
                       \/ Log(q.ip, "DELETE", id, {})
      <4>1. ASSUME NEW h, NEW H, Insert(r, h, H)
            PROVE  UNCHANGED audit \/ \E id : Log(q.ip, "CREATE", id, {})
        BY <4>1 DEF Insert, tables
      <4>2. ASSUME NEW h, NEW H, NEW id, Restore(r, h, H, id)
            PROVE  UNCHANGED audit \/ \E i : Log(q.ip, "UPDATE", i, {"restored"})
        BY <4>2 DEF Restore, tables
      <4>3. CASE WriteCreate(r) \/ CreateWithAutoHost(r)
        BY <4>1, <4>2, <4>3 DEF WriteCreate, CreateWithAutoHost, AbandonAutoHost, tables
      <4>4. CASE WriteDelete(r)
        BY <4>4 DEF WriteDelete, DeleteNothing, tables
      <4>5. QED
        BY <4>3, <4>4
    <3>4. WriteCreate(r) \/ CreateWithAutoHost(r) \/ WriteDelete(r) => q.ip \in Ips
      BY <1>3 DEF WriteCreate, CreateWithAutoHost, WriteDelete, Serving
    <3>5. QED
      BY <2>1, <2>2, <2>3, <3>1, <3>2, <3>3, <3>4, ReadsWriteNothing DEF Run, tables
<1>5. QED
  BY <1>1, <1>4 DEF NoBulk

LEMMA NoBulkInit == Init => NoBulk
<1> SUFFICES ASSUME Init PROVE NoBulk
  OBVIOUS
<1>1. \A r \in Requests : req[r].op # "bulk"
  BY DEF Init, Idle
<1>2. ASSUME NEW ip \in Ips, NEW k \in 1..Len(audit[ip])
      PROVE  audit[ip][k].action # "UPDATE"
  <2>1. audit[ip] = <<>> \/ \E i : audit[ip] = <<[action |-> "CREATE", id |-> i, changes |-> {}]>>
    BY DEF Init
  <2>2. CASE audit[ip] = <<>>
    BY <2>2
  <2>3. ASSUME NEW i, audit[ip] = <<[action |-> "CREATE", id |-> i, changes |-> {}]>>
        PROVE  audit[ip][k].action # "UPDATE"
    BY <2>3
  <2>4. QED
    BY <2>1, <2>2, <2>3
<1>3. QED
  BY <1>1, <1>2 DEF NoBulk, UpdatesAuditedChange

LEMMA NoBulkStep ==
  ASSUME "bulk" \notin Ops
  PROVE  TypeInv /\ NoBulk /\ [Next]_vars => NoBulk'
<1> SUFFICES ASSUME TypeInv, NoBulk, [Next]_vars PROVE NoBulk'
  OBVIOUS
<1>1. CASE Administer
  BY <1>1 DEF Administer, CreateHost, RenameHost, DeleteHost, CreateProject, DeleteProject,
              CreateTag, RenameTag, DeleteTag, NoBulk, UpdatesAuditedChange
<1>2. CASE UNCHANGED vars
  BY <1>2 DEF vars, NoBulk, UpdatesAuditedChange
<1>3. QED
  BY <1>1, <1>2, NoBulkArrives, NoBulkRuns DEF Next

(* Without bulk edits (which do write entries that tell nothing), every    *)
(* entry of an update names a column that the update changed of the row    *)
(* that it had read, however that row changed before the write.            *)
THEOREM UpdatesAlwaysTell ==
  ASSUME "bulk" \notin Ops
  PROVE  Spec => []UpdatesAuditedChange
<1>1. NoBulk => UpdatesAuditedChange
  BY DEF NoBulk
<1>2. QED
  BY <1>1, TypeInit, TypeStep, NoBulkInit, NoBulkStep, PTL DEF Spec

-----------------------------------------------------------------------------
(* The tags of the forms.                                                  *)

(* A form past its checks has the event loop, and while it has it no tag   *)
(* goes: the tags it holds stay tags.                                      *)
FormOK(r) ==
  LET q == req[r] IN
  /\ q.op \notin {"archive", "autohost"}
  /\ q.phase = "asked" => q.tags = {}
  /\ q.phase \notin {"idle", "asked"} => loop = r /\ q.tags \subseteq tags
  /\ q.op = "bulk" /\ q.phase = "ready" => \A i \in AssetIds : q.seenTags[i] \subseteq tags

FormInv == \A r \in Forms : FormOK(r)

LEMMA FormsAre == \A r \in Forms : r \in Requests /\ r \notin Workers /\ r # Nil
  BY SlotsAssumption, NilAssumption DEF Requests

(* A step of a request leaves the other forms in order.                    *)
LEMMA FormGoes ==
  ASSUME TypeInv, FormInv, NEW s \in Requests, \A r \in Requests \ {s} : req'[r] = req[r],
         tags \subseteq tags', loop' = loop \/ loop \in {Nil, s},
         s \in Forms => FormOK(s)'
  PROVE  FormInv'
<1>1. SUFFICES ASSUME NEW r \in Forms, r # s
               PROVE  FormOK(r)'
  BY DEF FormInv
<1>2. req'[r] = req[r] /\ FormOK(r) /\ r # Nil
  BY <1>1, FormsAre DEF FormInv
<1>3. req[r].phase \notin {"idle", "asked"} => loop' = r
  BY <1>1, <1>2 DEF FormOK
<1>4. QED
  BY <1>2, <1>3 DEF FormOK
LEMMA FormInit == Init => FormInv
  BY FormsAre DEF Init, FormInv, FormOK, Idle

(* The step of a slot that holds q after it.                               *)
LEMMA FormTakes ==
  ASSUME TypeInv, FormInv, NEW s \in Requests, NEW q,
         req' = [req EXCEPT ![s] = q], tags' = tags,
         s \in Forms =>
           /\ q.op \in {"create", "update", "bulk", "delete", "none"}
           /\ q.phase = "asked" => q.tags = {}
           /\ q.phase \notin {"idle", "asked"} => loop' = s /\ q.tags \subseteq tags
           /\ q.op = "bulk" /\ q.phase = "ready" =>
                \A i \in AssetIds : q.seenTags[i] \subseteq tags,
         loop' = loop \/ loop \in {Nil, s}
  PROVE  FormInv'
<1>1. req'[s] = q /\ \A r \in Requests \ {s} : req'[r] = req[r]
  BY DEF TypeInv, TypeOK
<1>2. s \in Forms => FormOK(s)'
  BY <1>1 DEF FormOK
<1>3. QED
  BY <1>1, <1>2, FormGoes

LEMMA FormArrives ==
  ASSUME TypeInv, FormInv, NEW r \in Requests, Arrive(r)
  PROVE  FormInv'
<1>1. r \in Workers => r \notin Forms
  BY FormsAre
<1>2. tags' = tags
  BY ReadsWriteNothing DEF tables
<1>3. ASSUME NEW q, Accept(r, q), loop' = loop, r \in Workers
      PROVE  FormInv'
  BY <1>1, <1>2, <1>3, FormTakes DEF Accept
<1>4. CASE ApiCreate(r) \/ ApiUpdate(r) \/ ApiDelete(r) \/ Archive(r) \/ AutoHostOpen(r)
  BY <1>3, <1>4 DEF ApiCreate, ApiUpdate, ApiDelete, Archive, AutoHostOpen
<1>5. CASE UiAdd(r)
  <2>1. PICK ip, t, p : p.tags \subseteq tags /\
          Accept(r, [Payload("create", "checked", ip, Columns, p) EXCEPT !.type = t])
    BY <1>5 DEF UiAdd
  <2> DEFINE q == [Payload("create", "checked", ip, Columns, p) EXCEPT !.type = t]
  <2>2. q.op = "create" /\ q.phase = "checked" /\ q.tags = p.tags
    BY DEF Payload, Idle
  <2>3. req' = [req EXCEPT ![r] = q]
    BY <2>1 DEF Accept
  <2> HIDE DEF q
  <2>4. QED
    BY <1>2, <1>5, <2>1, <2>2, <2>3, FormTakes DEF UiAdd, TakeLoop
<1>6. CASE UiEditOpen(r)
  <2>1. PICK ip :
          Accept(r, [Idle EXCEPT !.op = "update", !.phase = "asked", !.ip = ip])
    BY <1>6 DEF UiEditOpen
  <2> DEFINE q == [Idle EXCEPT !.op = "update", !.phase = "asked", !.ip = ip]
  <2>2. q.op = "update" /\ q.phase = "asked" /\ q.tags = {}
    BY DEF Idle
  <2>3. req' = [req EXCEPT ![r] = q]
    BY <2>1 DEF Accept
  <2> HIDE DEF q
  <2>4. QED
    BY <1>2, <1>6, <2>2, <2>3, FormTakes DEF UiEditOpen
<1>7. CASE UiBulk(r)
  <2>1. PICK S, cols, add, drop, p :
          /\ add \in IF "tags" \in Editable THEN SUBSET tags ELSE {{}}
          /\ Accept(r, [Payload("bulk", "read", Nil, cols, p) EXCEPT
                         !.tags = add, !.drop = drop, !.seen = Snapshot(S)])
    BY <1>7 DEF UiBulk
  <2> DEFINE q == [Payload("bulk", "read", Nil, cols, p) EXCEPT
                     !.tags = add, !.drop = drop, !.seen = Snapshot(S)]
  <2>2. q.op = "bulk" /\ q.phase = "read" /\ q.tags = add
    BY DEF Payload, Idle
  <2>3. req' = [req EXCEPT ![r] = q]
    BY <2>1 DEF Accept
  <2> HIDE DEF q
  <2>4. add \subseteq tags
    BY <2>1
  <2>5. QED
    BY <1>2, <1>7, <2>2, <2>3, <2>4, FormTakes DEF UiBulk, TakeLoop
<1>8. CASE UiDeleteOpen(r)
  <2>1. PICK ip, x :
          Accept(r, [Idle EXCEPT !.op = "delete", !.phase = "asked", !.ip = ip, !.seen = x])
    BY <1>8 DEF UiDeleteOpen
  <2> DEFINE q == [Idle EXCEPT !.op = "delete", !.phase = "asked", !.ip = ip, !.seen = x]
  <2>2. q.op = "delete" /\ q.phase = "asked" /\ q.tags = {}
    BY DEF Idle
  <2>3. req' = [req EXCEPT ![r] = q]
    BY <2>1 DEF Accept
  <2> HIDE DEF q
  <2>4. QED
    BY <1>2, <1>8, <2>2, <2>3, FormTakes DEF UiDeleteOpen
<1>9. QED
  BY <1>4, <1>5, <1>6, <1>7, <1>8 DEF Arrive

LEMMA FormResumes ==
  ASSUME TypeInv, FormInv, NEW r \in Requests, Resume(r)
  PROVE  FormInv'
<1>1. tags' = tags
  BY ReadsWriteNothing DEF tables
<1>2. CASE UiEditSubmit(r)
  <2>1. PICK ip, cols, p, t : p.tags \subseteq tags /\
          req' = [req EXCEPT ![r] = [Payload("update", "checked", ip, cols, p)
                                       EXCEPT !.type = t]]
    BY <1>2 DEF UiEditSubmit
  <2> DEFINE q == [Payload("update", "checked", ip, cols, p) EXCEPT !.type = t]
  <2>2. q.op = "update" /\ q.phase = "checked" /\ q.tags = p.tags
    BY DEF Payload, Idle
  <2>3. req' = [req EXCEPT ![r] = q]
    BY <2>1
  <2> HIDE DEF q
  <2>4. QED
    BY <1>1, <1>2, <2>1, <2>2, <2>3, FormTakes DEF UiEditSubmit, TakeLoop
<1>3. CASE UiDeleteSubmit(r)
  <2>1. PICK typed : req' = [req EXCEPT ![r] = [req[r] EXCEPT !.phase = "checked",
                                                             !.typed = typed]]
    BY <1>3 DEF UiDeleteSubmit
  <2> DEFINE q == [req[r] EXCEPT !.phase = "checked", !.typed = typed]
  <2>2. req[r] \in Request /\ req[r].op = "delete" /\ req[r].phase = "asked"
    BY <1>3 DEF TypeInv, TypeOK, UiDeleteSubmit, Serving
  <2>3. q.op = "delete" /\ q.phase = "checked" /\ q.tags = req[r].tags
    BY <2>2 DEF Request
  <2>4. r \in Forms => req[r].tags = {}
    BY <2>2 DEF FormInv, FormOK
  <2>5. req' = [req EXCEPT ![r] = q]
    BY <2>1
  <2> HIDE DEF q
  <2>6. QED
    BY <1>1, <1>3, <2>3, <2>4, <2>5, FormTakes DEF UiDeleteSubmit, TakeLoop
<1>4. QED
  BY <1>2, <1>3 DEF Resume

(* A request that ends gives the loop back, one that goes on keeps it.     *)
LEMMA FormFinishes ==
  ASSUME TypeInv, FormInv, NEW r \in Requests, NEW answer, Finish(r, answer),
         tags \subseteq tags'
  PROVE  FormInv'
<1>1. /\ req'[r] = [Idle EXCEPT !.answer = answer]
      /\ \A s \in Requests \ {r} : req'[s] = req[s]
  BY DEF Finish, TypeInv, TypeOK
<1>2. [Idle EXCEPT !.answer = answer].op = "none" /\
      [Idle EXCEPT !.answer = answer].phase = "idle"
  BY DEF Idle
<1>3. FormOK(r)'
  BY <1>1, <1>2 DEF FormOK
<1>4. QED
  BY <1>1, <1>3, FormGoes DEF Finish

LEMMA FormContinues ==
  ASSUME TypeInv, FormInv, NEW r \in Requests, NEW q, Continue(r, q), tags' = tags,
         r \in Forms =>
           /\ q.op = req[r].op /\ q.tags = req[r].tags
           /\ req[r].phase \notin {"idle", "asked"} /\ q.phase \notin {"idle", "asked"}
           /\ q.op = "bulk" => \A i \in AssetIds : q.seenTags[i] \subseteq tags
  PROVE  FormInv'
<1>1. r \in Forms => FormOK(r) /\ req[r].op \in Kinds
  BY DEF FormInv, TypeInv, TypeOK, Request
<1>2. QED
  BY <1>1, FormTakes DEF FormOK, Continue, Kinds

LEMMA TagsGrow ==
  ASSUME NEW r \in Requests,
         \/ WriteCreate(r) \/ CreateWithAutoHost(r) \/ WriteUpdate(r) \/ WriteBulk(r)
         \/ WriteDelete(r) \/ WriteArchive(r)
  PROVE  tags \subseteq tags'
<1>1. WriteCreate(r) \/ CreateWithAutoHost(r) => tags \subseteq tags'
  BY DEF WriteCreate, CreateWithAutoHost, Insert, Restore, AbandonAutoHost, SetTags, tables
<1>2. WriteUpdate(r) => tags \subseteq tags'
  BY DEF WriteUpdate, SetTags, tables
<1>3. WriteBulk(r) => tags \subseteq tags'
  BY DEF WriteBulk, tables
<1>4. WriteDelete(r) \/ WriteArchive(r) => tags \subseteq tags'
  BY DEF WriteDelete, DeleteNothing, WriteArchive, tables
<1>5. QED
  BY <1>1, <1>2, <1>3, <1>4

LEMMA FormRuns ==
  ASSUME TypeInv, Sound, FormInv, NEW r \in Requests, Run(r)
  PROVE  FormInv'
<1> DEFINE q == req[r]
<1>1. q \in Request /\ \A i \in AssetIds : links[i] \subseteq tags
  BY DEF TypeInv, TypeOK, Sound, LinksSound
<1>2. CASE ResolveHost(r)
  <2>1. q.op = "create" /\ q.phase = "checked" /\ tags' = tags
    BY <1>2 DEF ResolveHost, Serving, tables
  <2>2. ASSUME Continue(r, [q EXCEPT !.phase = "resolved"])
        PROVE  FormInv'
    <3> DEFINE n == [q EXCEPT !.phase = "resolved"]
    <3>1. n.op = "create" /\ n.phase = "resolved" /\ n.tags = q.tags
      BY <1>1, <2>1 DEF Request
    <3>2. Continue(r, n)
      BY <2>2
    <3> HIDE DEF n
    <3>3. QED
      BY <2>1, <3>1, <3>2, FormContinues
  <2>3. ASSUME NEW h, Continue(r, [q EXCEPT !.phase = "resolved", !.host = h])
        PROVE  FormInv'
    <3> DEFINE n == [q EXCEPT !.phase = "resolved", !.host = h]
    <3>1. n.op = "create" /\ n.phase = "resolved" /\ n.tags = q.tags
      BY <1>1, <2>1 DEF Request
    <3>2. Continue(r, n)
      BY <2>3
    <3> HIDE DEF n
    <3>3. QED
      BY <2>1, <3>1, <3>2, FormContinues
  <2>4. ASSUME Continue(r, [q EXCEPT !.phase = "naming"])
        PROVE  FormInv'
    <3> DEFINE n == [q EXCEPT !.phase = "naming"]
    <3>1. n.op = "create" /\ n.phase = "naming" /\ n.tags = q.tags
      BY <1>1, <2>1 DEF Request
    <3>2. Continue(r, n)
      BY <2>4
    <3> HIDE DEF n
    <3>3. QED
      BY <2>1, <3>1, <3>2, FormContinues
  <2>5. QED
    BY <1>2, <2>2, <2>3, <2>4 DEF ResolveHost
<1>3. ASSUME NEW p \in {"read", "ready"}, NEW x, tags' = tags,
             q.op \in {"create", "update", "delete"},
             q.phase \notin {"idle", "asked"},
             Continue(r, [q EXCEPT !.phase = p, !.seen = x])
      PROVE  FormInv'
  <2> DEFINE n == [q EXCEPT !.phase = p, !.seen = x]
  <2>1. n.op = q.op /\ n.phase = p /\ n.tags = q.tags
    BY <1>1 DEF Request
  <2>2. Continue(r, n)
    BY <1>3
  <2> HIDE DEF n
  <2>3. QED
    BY <1>3, <2>1, <2>2, FormContinues
<1>4. CASE ReadExisting(r) \/ ReadForUpdate(r) \/ ReadForDelete(r)
  <2>1. q.op \in {"create", "update", "delete"} /\ q.phase \notin {"idle", "asked"}
        /\ tags' = tags
    BY <1>4 DEF ReadExisting, ReadForUpdate, ReadForDelete, Serving, tables
  <2>2. \/ \E answer : Finish(r, answer)
        \/ \E p \in {"read", "ready"} : \E x :
             Continue(r, [q EXCEPT !.phase = p, !.seen = x])
    BY <1>4 DEF ReadExisting, ReadForUpdate, ReadForDelete
  <2>3. QED
    BY <1>3, <2>1, <2>2, FormFinishes
<1>5. CASE ReadTagsForUpdate(r) \/ ReadTagsForBulk(r)
  <2>1. q.op \in {"update", "bulk"} /\ q.phase = "read" /\ tags' = tags
    BY <1>5 DEF ReadTagsForUpdate, ReadTagsForBulk, Serving, tables
  <2>2. CASE Continue(r, [q EXCEPT !.phase = "ready", !.seenTags = TagSnapshot(SeenIds(q))])
    <3> DEFINE x == TagSnapshot(SeenIds(q))
               n == [q EXCEPT !.phase = "ready", !.seenTags = x]
    <3>1. \A i \in AssetIds : x[i] \subseteq tags
      BY <1>1 DEF TagSnapshot
    <3> HIDE DEF x
    <3>2. n.op = q.op /\ n.phase = "ready" /\ n.tags = q.tags /\ n.seenTags = x
      BY <1>1 DEF Request
    <3>3. Continue(r, n)
      BY <2>2 DEF x
    <3> HIDE DEF n
    <3>4. QED
      BY <2>1, <3>1, <3>2, <3>3, FormContinues
  <2>3. QED
    BY <1>5, <2>1, <2>2, FormFinishes DEF ReadTagsForUpdate, ReadTagsForBulk
<1>6. CASE \/ WriteCreate(r) \/ CreateWithAutoHost(r) \/ WriteUpdate(r) \/ WriteBulk(r)
           \/ WriteDelete(r) \/ WriteArchive(r)
  <2>1. tags \subseteq tags'
    BY <1>6, TagsGrow
  <2>2. \E answer : Finish(r, answer)
    BY <1>6 DEF WriteCreate, CreateWithAutoHost, Insert, Restore, AbandonAutoHost,
                WriteUpdate, WriteBulk, WriteDelete, DeleteNothing, WriteArchive
  <2>3. QED
    BY <2>1, <2>2, FormFinishes
<1>7. CASE FindAutoHost(r) \/ CreateAutoHost(r)
  <2>1. q.op = "autohost" /\ tags' = tags
    BY <1>7 DEF FindAutoHost, CreateAutoHost, Serving, tables
  <2>2. r \notin Forms
    BY <2>1 DEF FormInv, FormOK
  <2>3. (\E answer : Finish(r, answer)) \/ (\E n : Continue(r, n))
    BY <1>7 DEF FindAutoHost, CreateAutoHost
  <2>4. QED
    BY <2>1, <2>2, <2>3, FormFinishes, FormContinues
<1>8. QED
  BY <1>2, <1>4, <1>5, <1>6, <1>7 DEF Run

(* A tag goes only while no form has the event loop.                       *)
LEMMA FormAdministered ==
  ASSUME TypeInv, FormInv, Administer
  PROVE  FormInv'
<1>1. UNCHANGED <<req, loop>> /\ (tags' = tags \/ LoopFree)
  BY DEF Administer, CreateHost, RenameHost, DeleteHost, CreateProject, DeleteProject,
         CreateTag, RenameTag, DeleteTag
<1>2. ASSUME NEW r \in Forms
      PROVE  FormOK(r)'
  <2>1. FormOK(r) /\ r # Nil
    BY FormsAre DEF FormInv
  <2>2. CASE tags' = tags
    BY <1>1, <2>1, <2>2 DEF FormOK
  <2>3. CASE LoopFree
    <3>1. req[r].phase \in {"idle", "asked"}
      BY <2>1, <2>3 DEF FormOK, LoopFree
    <3>2. QED
      BY <1>1, <2>1, <3>1 DEF FormOK
  <2>4. QED
    BY <1>1, <2>2, <2>3
<1>3. QED
  BY <1>2 DEF FormInv

LEMMA FormStep == TypeInv /\ Sound /\ FormInv /\ [Next]_vars => FormInv'
<1> SUFFICES ASSUME TypeInv, Sound, FormInv, [Next]_vars PROVE FormInv'
  OBVIOUS
<1>1. CASE UNCHANGED vars
  BY <1>1 DEF vars, FormInv, FormOK
<1>2. QED
  BY <1>1, FormArrives, FormResumes, FormRuns, FormAdministered DEF Next

LEMMA FormWrites ==
  ASSUME TypeInv, Sound, FormInv, [Next]_vars, NEW r \in Forms, req'[r] # req[r]
  PROVE  tags' \subseteq tags
<1> DEFINE q == req[r]
<1>1. r \in Requests /\ FormOK(r)
  BY FormsAre DEF FormInv
<1>2. CASE UNCHANGED tables
  BY <1>2 DEF tables
<1>3. CASE ~UNCHANGED tables
  <2>1. \/ WriteCreate(r) \/ CreateWithAutoHost(r) \/ WriteUpdate(r) \/ WriteBulk(r)
        \/ WriteDelete(r) \/ WriteArchive(r) \/ CreateAutoHost(r)
    BY <1>1, <1>3, RequestStep, ReadsWriteNothing DEF Run
  <2>2. q.phase \notin {"idle", "asked"} => q.tags \subseteq tags
    BY <1>1 DEF FormOK
  <2>3. ASSUME NEW i, SetTags(i, q.tags) \/ UNCHANGED <<links, tags>>,
               q.phase \notin {"idle", "asked"}
        PROVE  tags' \subseteq tags
    BY <2>2, <2>3 DEF SetTags
  <2>4. CASE WriteCreate(r) \/ CreateWithAutoHost(r)
    <3>1. q.phase \notin {"idle", "asked"}
      BY <2>4 DEF WriteCreate, CreateWithAutoHost, Serving
    <3>2. \E i : SetTags(i, q.tags) \/ UNCHANGED <<links, tags>>
      BY <2>4 DEF WriteCreate, CreateWithAutoHost, Insert, Restore, AbandonAutoHost, tables
    <3>3. QED
      BY <2>3, <3>1, <3>2
  <2>5. CASE WriteUpdate(r)
    <3>1. q.phase \notin {"idle", "asked"}
      BY <2>5 DEF WriteUpdate, Serving
    <3>2. \E i : SetTags(i, q.tags) \/ UNCHANGED <<links, tags>>
      BY <2>5 DEF WriteUpdate, tables
    <3>3. QED
      BY <2>3, <3>1, <3>2
  <2>6. CASE WriteBulk(r)
    <3>1. q.tags \subseteq tags /\ \A i \in AssetIds : q.seenTags[i] \subseteq tags
      BY <1>1, <2>2, <2>6 DEF WriteBulk, Serving, FormOK
    <3>2. tags' = tags \/ tags' = tags \union UNION {BulkTags(q, i) : i \in BulkTargets(q)}
      BY <2>6 DEF WriteBulk, tables
    <3>3. \A i \in BulkTargets(q) : BulkTags(q, i) \subseteq tags
      BY <3>1 DEF BulkTags, BulkTargets, SeenIds
    <3>4. QED
      BY <3>2, <3>3
  <2>7. CASE WriteDelete(r) \/ WriteArchive(r) \/ CreateAutoHost(r)
    BY <2>7 DEF WriteDelete, DeleteNothing, WriteArchive, CreateAutoHost, tables
  <2>8. QED
    BY <2>1, <2>4, <2>5, <2>6, <2>7
<1>4. QED
  BY <1>2, <1>3

(* A form assigns only tags that exist, though a tag may be renamed or     *)
(* deleted between its page and its post: the check and the write are made *)
(* without giving up the event loop, which the tag handlers need too.      *)
THEOREM FormsNeverCreateTags == Spec => FormsCreateNoTags
<1>1. TypeInv /\ Sound /\ FormInv /\ [Next]_vars =>
        [\A r \in Forms : req'[r] # req[r] => tags' \subseteq tags]_vars
  BY FormWrites
<1>2. QED
  BY <1>1, TypeInit, TypeStep, SoundInit, SoundStep, FormInit, FormStep, PTL
     DEF Spec, FormsCreateNoTags
===============================================================================
