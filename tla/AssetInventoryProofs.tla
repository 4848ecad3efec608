-------------------------- MODULE AssetInventoryProofs --------------------------
(* AssetStore implements Inventory, for every value of its constants, and  *)
(* so its audit log tells what the table holds.                            *)
EXTENDS AssetInventory, AssetStoreProofs, SequenceTheorems

(* A slot that serves nothing asks for nothing, one that serves has not    *)
(* answered yet.                                                           *)
Orderly(q) == IF q.phase = "idle" THEN q.op = "none" ELSE q.answer = "none"

IdleAsksNothing == \A r \in Requests : Orderly(req[r])

Known == TypeInv /\ Sound /\ IdleAsksNothing

(* What is to be shown of every step.                                      *)
Simulates == (Ledger!Next \/ UNCHANGED Ledger!vars) /\ IdleAsksNothing'

-----------------------------------------------------------------------------
(* Requests.                                                               *)

LEMMA CallsOne ==
  ASSUME NEW r \in Requests, NEW q, TypeInv, req' = [req EXCEPT ![r] = q]
  PROVE  Calls' = [Calls EXCEPT ![r] = CallOf(q)]
  BY DEF Calls, CallOf, TypeInv, TypeOK

LEMMA IdleOne ==
  ASSUME NEW r \in Requests, NEW q, Known, req' = [req EXCEPT ![r] = q],
         Orderly(q)
  PROVE  IdleAsksNothing'
  BY DEF IdleAsksNothing, Known, TypeInv, TypeOK

LEMMA QuietTables ==
  ASSUME UNCHANGED <<assets, audit>>
  PROVE  StoredIps' = StoredIps /\ ActionLog' = ActionLog
  BY DEF StoredIps, ActionLog, Find, At

LEMMA SimulatesAsk ==
  ASSUME NEW r \in Requests, NEW q, Known, Accept(r, q), UNCHANGED tables,
         q.phase # "idle", q.op \in Kinds \ {"none"}, q.answer = "none",
         q.op = "bulk" => q.ip = Nil, q.op # "bulk" => q.ip \in Ips
  PROVE  Simulates
<1>1. req' = [req EXCEPT ![r] = q] /\ req[r].phase = "idle" /\ served < MaxRequests
        /\ served' = served + 1
  BY DEF Accept
<1>2. IdleAsksNothing' /\ Calls' = [Calls EXCEPT ![r] = CallOf(q)]
  BY <1>1, IdleOne, CallsOne DEF Known, Orderly
<1>3. StoredIps' = StoredIps /\ ActionLog' = ActionLog
  BY QuietTables DEF tables
<1>4. Calls[r].op = "none"
  BY <1>1 DEF Known, IdleAsksNothing, Orderly, Calls, CallOf
<1> DEFINE op == IF q.op = "autohost" THEN "update" ELSE q.op
<1>5. /\ op \in Ledger!Asks /\ q.ip \in IF op = "bulk" THEN {Nil} ELSE Ips
      /\ CallOf(q) = [op |-> op, ip |-> q.ip, answer |-> "none"]
  BY DEF Kinds, Ledger!Asks, CallOf
<1> HIDE DEF op
<1>6. Ledger!Ask(r)
  BY <1>1, <1>2, <1>3, <1>4, <1>5 DEF Ledger!Ask
<1>7. QED
  BY <1>2, <1>6 DEF Simulates, Ledger!Next

LEMMA SimulatesContinue ==
  ASSUME NEW r \in Requests, NEW q, Known, req' = [req EXCEPT ![r] = q],
         UNCHANGED <<assets, audit, served>>,
         q.phase # "idle", req[r].phase # "idle", CallOf(q) = CallOf(req[r])
  PROVE  Simulates
<1> Orderly(q)
  BY DEF Orderly, CallOf, Known, IdleAsksNothing
<1>1. IdleAsksNothing' /\ Calls' = [Calls EXCEPT ![r] = CallOf(q)]
  BY IdleOne, CallsOne DEF Known
<1>2. Calls' = Calls
  BY <1>1 DEF Calls
<1>3. StoredIps' = StoredIps /\ ActionLog' = ActionLog
  BY QuietTables
<1>4. QED
  BY <1>1, <1>2, <1>3 DEF Simulates, Ledger!vars

LEMMA FinishAnswers ==
  ASSUME NEW r \in Requests, NEW answer, Known, Finish(r, answer)
  PROVE  IdleAsksNothing' /\ Ledger!Answer(r, answer)
<1> DEFINE q == [Idle EXCEPT !.answer = answer]
<1>1. q.op = "none" /\ q.ip = Nil /\ q.answer = answer /\ Orderly(q)
  BY DEF Idle, Orderly
<1>2. req' = [req EXCEPT ![r] = q] /\ served' = served
  BY DEF Finish
<1> HIDE DEF q
<1>3. IdleAsksNothing' /\ Calls' = [Calls EXCEPT ![r] = CallOf(q)]
  BY <1>1, <1>2, IdleOne, CallsOne DEF Known
<1>4. CallOf(q) = Ledger!Answered(answer)
  BY <1>1 DEF CallOf, Ledger!Answered
<1>5. QED
  BY <1>2, <1>3, <1>4 DEF Ledger!Answer

LEMMA FinishRefuses ==
  ASSUME NEW r \in Requests, NEW answer, Known, Finish(r, answer), UNCHANGED <<assets, audit>>
  PROVE  IdleAsksNothing' /\ Ledger!Refuse(r, answer)
  BY FinishAnswers, QuietTables DEF Ledger!Refuse

LEMMA CallsOf ==
  ASSUME NEW r \in Requests
  PROVE  /\ Calls[r].op = IF req[r].op = "autohost" THEN "update" ELSE req[r].op
         /\ Calls[r].ip = req[r].ip /\ Calls[r] = CallOf(req[r])
  BY DEF Calls, CallOf

LEMMA ServeSimulates ==
  ASSUME NEW r \in Requests, Ledger!Serve(r), IdleAsksNothing'
  PROVE  Simulates
  BY DEF Simulates, Ledger!Next

-----------------------------------------------------------------------------
(* Rows and logs.                                                          *)

LEMMA RowIsNoNil ==
  ASSUME NEW row \in Row
  PROVE  row # Nil
  BY NilAssumption

(* Writing rows over stored ones keeps which addresses are stored if the   *)
(* rows keep their addresses.                                              *)
LEMMA SameAddresses ==
  ASSUME \A i \in AssetIds : /\ (assets'[i] = Nil) <=> (assets[i] = Nil)
                             /\ assets[i] # Nil => assets'[i].ip = assets[i].ip
  PROVE  StoredIps' = StoredIps
  BY DEF StoredIps, Find, At

LEMMA SameAddressesOne ==
  ASSUME TypeInv, NEW i \in AssetIds, NEW row \in Row, assets[i] # Nil,
         row.ip = assets[i].ip, assets' = [assets EXCEPT ![i] = row]
  PROVE  StoredIps' = StoredIps
<1>1. row # Nil
  BY RowIsNoNil
<1>2. \A j \in AssetIds : assets'[j] = IF j = i THEN row ELSE assets[j]
  BY DEF TypeInv, TypeOK
<1>3. ASSUME NEW j \in AssetIds
      PROVE  /\ (assets'[j] = Nil) <=> (assets[j] = Nil)
             /\ assets[j] # Nil => assets'[j].ip = assets[j].ip
  BY <1>1, <1>2
<1>4. QED
  BY <1>3, SameAddresses

LEMMA AppendAction ==
  ASSUME NEW S, NEW trail \in Seq(S), NEW entry \in S, NEW action, entry.action = action
  PROVE  [k \in DOMAIN Append(trail, entry) |-> Append(trail, entry)[k].action]
           = Append([k \in DOMAIN trail |-> trail[k].action], action)
<1> DEFINE n == Len(trail)
           new == Append(trail, entry)
           old == [k \in DOMAIN trail |-> trail[k].action]
           T == {trail[k].action : k \in 1..n} \union {action}
<1>1. /\ n \in Nat /\ DOMAIN trail = 1..n /\ DOMAIN new = 1..(n + 1)
      /\ new[n + 1] = entry /\ \A k \in 1..n : new[k] = trail[k]
  OBVIOUS
<1>2. old \in [1..n -> T] /\ \A k \in 1..n : old[k] = trail[k].action
  BY <1>1
<1>3. n \in Nat /\ action \in T
  BY <1>1
<1> HIDE DEF n, new, old, T
<1>4. old \in Seq(T) /\ Len(old) = n
  BY <1>2, <1>3
<1>5. Append(old, action) \in Seq(T) /\ Len(Append(old, action)) = n + 1
  BY <1>3, <1>4
<1>6. /\ \A k \in 1..n : Append(old, action)[k] = trail[k].action
      /\ Append(old, action)[n + 1] = action
  BY <1>2, <1>3, <1>4
<1>7. [k \in DOMAIN new |-> new[k].action] \in [1..(n + 1) -> T]
  <2>1. ASSUME NEW k \in 1..(n + 1) PROVE new[k].action \in T
    BY <1>1, <1>3 DEF T
  <2>2. QED
    BY <1>1, <2>1
<1>8. [k \in DOMAIN new |-> new[k].action] \in Seq(T)
        /\ Len([k \in DOMAIN new |-> new[k].action]) = n + 1
  BY <1>3, <1>7
<1>9. ASSUME NEW k \in 1..(n + 1)
      PROVE  [j \in DOMAIN new |-> new[j].action][k] = Append(old, action)[k]
  <2>1. [j \in DOMAIN new |-> new[j].action][k] = new[k].action
    BY <1>1
  <2>2. CASE k = n + 1
    BY <1>1, <1>6, <2>1, <2>2
  <2>3. CASE k \in 1..n
    BY <1>1, <1>6, <2>1, <2>3
  <2>4. k = n + 1 \/ k \in 1..n
    BY <1>3
  <2>5. QED
    BY <2>2, <2>3, <2>4
<1> DEFINE f == [k \in DOMAIN new |-> new[k].action]
           g == Append(old, action)
<1>10. f \in Seq(T) /\ g \in Seq(T) /\ Len(f) = Len(g) /\ \A k \in 1..Len(f) : f[k] = g[k]
  BY <1>3, <1>5, <1>8, <1>9
<1> HIDE DEF f, g
<1>11. f = g
  BY <1>10, SeqEqual
<1>12. QED
  BY <1>11, Zenon DEF new, old, f, g

LEMMA LogWrites ==
  ASSUME TypeInv, NEW ip \in Ips, NEW action, NEW id, NEW changes,
         Log(ip, action, id, changes)
  PROVE  Ledger!Wrote(ip, action)
<1> DEFINE entry == [action |-> action, id |-> id, changes |-> changes]
           S == AuditEntry \union {entry}
<1>1. audit \in [Ips -> Seq(AuditEntry)]
  BY DEF TypeInv, TypeOK
<1>2. audit' = [audit EXCEPT ![ip] = Append(audit[ip], entry)]
  BY DEF Log
<1>3. entry.action = action /\ entry \in S
  OBVIOUS
<1>4. audit[ip] \in Seq(S)
  BY <1>1
<1> HIDE DEF entry, S
<1>5. [k \in DOMAIN Append(audit[ip], entry) |-> Append(audit[ip], entry)[k].action]
        = Append([k \in DOMAIN audit[ip] |-> audit[ip][k].action], action)
  BY <1>3, <1>4, AppendAction
<1>6. audit'[ip] = Append(audit[ip], entry)
        /\ \A k \in Ips \ {ip} : audit'[k] = audit[k]
  BY <1>1, <1>2
<1>7. \A k \in Ips : ActionLog'[k] = IF k = ip THEN Append(ActionLog[k], action)
                                               ELSE ActionLog[k]
  BY <1>5, <1>6 DEF ActionLog
<1>8. QED
  BY <1>7 DEF Ledger!Wrote, ActionLog

-----------------------------------------------------------------------------
(* Requests arrive, resume and read.                                       *)

LEMMA ArriveSimulates ==
  ASSUME NEW r \in Requests, Known, Arrive(r)
  PROVE  Simulates
<1>1. UNCHANGED tables
  BY ReadsWriteNothing
<1>2. \A i \in AssetIds : assets[i] # Nil => assets[i].ip \in Ips
  BY DEF Known, TypeInv, TypeOK, Row
<1>3. CASE ApiCreate(r) \/ UiAdd(r)
  <2>1. PICK ip \in Ips, t \in Types, cols \in SUBSET Columns, d \in SUBSET Columns :
          \E p \in Payloads(d) :
            Accept(r, [Payload("create", "checked", ip, cols, p) EXCEPT !.type = t])
    BY <1>3, SetsAssumption DEF ApiCreate, UiAdd
  <2>2. PICK p \in Payloads(d) :
          Accept(r, [Payload("create", "checked", ip, cols, p) EXCEPT !.type = t])
    BY <2>1
  <2> DEFINE q == [Payload("create", "checked", ip, cols, p) EXCEPT !.type = t]
  <2>3. q.phase = "checked" /\ q.op = "create" /\ q.answer = "none" /\ q.ip = ip
    BY DEF Payload, Idle
  <2> HIDE DEF q
  <2>4. QED
    BY <1>1, <2>2, <2>3, SimulatesAsk DEF Kinds, q
<1>4. CASE ApiUpdate(r)
  <2>1. PICK ip \in Ips, cols \in SUBSET Editable :
          \E p \in Payloads(cols) : Accept(r, Payload("update", "checked", ip, cols, p))
    BY <1>4 DEF ApiUpdate
  <2>2. PICK p \in Payloads(cols) : Accept(r, Payload("update", "checked", ip, cols, p))
    BY <2>1
  <2> DEFINE q == Payload("update", "checked", ip, cols, p)
  <2>3. q.phase = "checked" /\ q.op = "update" /\ q.answer = "none" /\ q.ip = ip
    BY DEF Payload, Idle
  <2> HIDE DEF q
  <2>4. QED
    BY <1>1, <2>2, <2>3, SimulatesAsk DEF Kinds, q
<1>5. CASE UiBulk(r)
  <2>1. PICK S, cols, add, drop :
          \E p \in Payloads(cols) :
            Accept(r, [Payload("bulk", "read", Nil, cols, p) EXCEPT
                         !.tags = add, !.drop = drop, !.seen = Snapshot(S)])
    BY <1>5 DEF UiBulk
  <2>2. PICK p \in Payloads(cols) :
          Accept(r, [Payload("bulk", "read", Nil, cols, p) EXCEPT
                       !.tags = add, !.drop = drop, !.seen = Snapshot(S)])
    BY <2>1
  <2> DEFINE q == [Payload("bulk", "read", Nil, cols, p) EXCEPT
                     !.tags = add, !.drop = drop, !.seen = Snapshot(S)]
  <2>3. q.phase = "read" /\ q.op = "bulk" /\ q.answer = "none" /\ q.ip = Nil
    BY DEF Payload, Idle
  <2> HIDE DEF q
  <2>4. QED
    BY <1>1, <2>2, <2>3, SimulatesAsk DEF Kinds, q
<1>6. ASSUME NEW ip \in Ips,
             NEW q \in {[Idle EXCEPT !.op = "delete", !.phase = "checked", !.ip = ip,
                                    !.typed = TRUE],
                       [Idle EXCEPT !.op = "archive", !.phase = "ready", !.ip = ip]},
             Accept(r, q)
      PROVE  Simulates
  <2>1. q.phase # "idle" /\ q.op \in {"delete", "archive"} /\ q.answer = "none" /\ q.ip = ip
    BY <1>6 DEF Idle
  <2>2. QED
    BY <1>1, <1>6, <2>1, SimulatesAsk DEF Kinds
<1>7. ASSUME NEW i \in AssetIds, assets[i] # Nil,
             NEW q \in {[Idle EXCEPT !.op = "update", !.phase = "asked", !.ip = assets[i].ip],
                       [Idle EXCEPT !.op = "delete", !.phase = "asked", !.ip = assets[i].ip,
                                    !.seen = Snapshot({i})],
                       [Idle EXCEPT !.op = "autohost", !.phase = "asked",
                                    !.ip = assets[i].ip, !.given = {"host"}]},
             Accept(r, q)
      PROVE  Simulates
  <2>1. /\ q.phase = "asked" /\ q.op \in {"update", "delete", "autohost"}
        /\ q.answer = "none" /\ q.ip = assets[i].ip
    BY <1>7 DEF Idle
  <2>2. QED
    BY <1>1, <1>2, <1>7, <2>1, SimulatesAsk DEF Kinds
<1>8. CASE ApiDelete(r) \/ Archive(r)
  BY <1>6, <1>8 DEF ApiDelete, Archive
<1>9. CASE UiEditOpen(r) \/ UiDeleteOpen(r) \/ AutoHostOpen(r)
  BY <1>7, <1>9 DEF UiEditOpen, UiDeleteOpen, AutoHostOpen
<1>10. QED
  BY <1>3, <1>4, <1>5, <1>8, <1>9 DEF Arrive

LEMMA ResumeSimulates ==
  ASSUME NEW r \in Requests, Known, Resume(r)
  PROVE  Simulates
<1>1. UNCHANGED <<assets, audit, served>> /\ req[r].phase = "asked"
  BY DEF Resume, UiEditSubmit, UiDeleteSubmit, tables, Serving
<1>2. req[r].answer = "none" /\ req[r] \in Request
  BY <1>1 DEF Known, IdleAsksNothing, Orderly, TypeInv, TypeOK
<1>3. CASE UiEditSubmit(r)
  <2>1. PICK t, cols, p :
          req' = [req EXCEPT ![r] = [Payload("update", "checked", req[r].ip, cols, p)
                                       EXCEPT !.type = t]]
    BY <1>3 DEF UiEditSubmit
  <2> DEFINE q == [Payload("update", "checked", req[r].ip, cols, p) EXCEPT !.type = t]
  <2>2. q.phase = "checked" /\ q.op = "update" /\ q.answer = "none" /\ q.ip = req[r].ip
    BY DEF Payload, Idle
  <2>3. req' = [req EXCEPT ![r] = q]
    BY <2>1
  <2> HIDE DEF q
  <2>4. CallOf(q) = CallOf(req[r])
    BY <1>2, <1>3, <2>2 DEF CallOf, UiEditSubmit, Serving
  <2>5. QED
    BY <1>1, <2>2, <2>3, <2>4, SimulatesContinue
<1>4. CASE UiDeleteSubmit(r)
  <2>1. PICK typed : req' = [req EXCEPT ![r] = [req[r] EXCEPT !.phase = "checked",
                                                             !.typed = typed]]
    BY <1>4 DEF UiDeleteSubmit
  <2> DEFINE q == [req[r] EXCEPT !.phase = "checked", !.typed = typed]
  <2>2. /\ q.phase = "checked" /\ q.op = req[r].op /\ q.answer = req[r].answer
        /\ q.ip = req[r].ip
    BY <1>2 DEF Request
  <2>3. req' = [req EXCEPT ![r] = q]
    BY <2>1
  <2> HIDE DEF q
  <2>4. CallOf(q) = CallOf(req[r])
    BY <2>2 DEF CallOf
  <2>5. QED
    BY <1>1, <2>2, <2>3, <2>4, SimulatesContinue
<1>5. QED
  BY <1>3, <1>4 DEF Resume

(* A step that only reads: the request goes on with what it asked for, or  *)
(* is refused.                                                             *)
LEMMA GoesOn ==
  ASSUME NEW r \in Requests, NEW q, Known, Continue(r, q), UNCHANGED tables,
         req[r].phase # "idle", q.phase # "idle", q.ip = req[r].ip, q.answer = req[r].answer,
         q.op = req[r].op \/ (req[r].op = "autohost" /\ q.op = "update")
  PROVE  Simulates
<1>1. CallOf(q) = CallOf(req[r])
  BY DEF CallOf
<1>2. QED
  BY <1>1, SimulatesContinue DEF Continue, tables

LEMMA CreateReadsSimulate ==
  ASSUME NEW r \in Requests, Known, ResolveHost(r) \/ ReadExisting(r)
  PROVE  Simulates
<1> DEFINE q == req[r]
<1>1. /\ UNCHANGED tables /\ q.op = "create" /\ q.phase # "idle" /\ q \in Request
      /\ Calls[r].op = "create"
  BY CallsOf DEF ResolveHost, ReadExisting, Serving, Known, TypeInv, TypeOK
<1> HIDE DEF q
<1>2. ASSUME NEW h, Continue(r, [q EXCEPT !.phase = "resolved", !.host = h])
      PROVE  Simulates
  <2> DEFINE new == [q EXCEPT !.phase = "resolved", !.host = h]
  <2>1. /\ new.phase = "resolved" /\ new.op = q.op /\ new.ip = q.ip
        /\ new.answer = q.answer
    BY <1>1 DEF Request
  <2> HIDE DEF new
  <2>2. QED
    BY <1>1, <1>2, <2>1, GoesOn DEF new, q
<1>3. ASSUME Continue(r, [q EXCEPT !.phase = "resolved"])
      PROVE  Simulates
  <2> DEFINE new == [q EXCEPT !.phase = "resolved"]
  <2>1. /\ new.phase = "resolved" /\ new.op = q.op /\ new.ip = q.ip
        /\ new.answer = q.answer
    BY <1>1 DEF Request
  <2> HIDE DEF new
  <2>2. QED
    BY <1>1, <1>3, <2>1, GoesOn DEF new, q
<1>4. ASSUME NEW S, Continue(r, [q EXCEPT !.phase = "read", !.seen = S])
      PROVE  Simulates
  <2> DEFINE new == [q EXCEPT !.phase = "read", !.seen = S]
  <2>1. /\ new.phase = "read" /\ new.op = q.op /\ new.ip = q.ip
        /\ new.answer = q.answer
    BY <1>1 DEF Request
  <2> HIDE DEF new
  <2>2. QED
    BY <1>1, <1>4, <2>1, GoesOn DEF new, q
<1>5. CASE Finish(r, "conflict")
  <2>1. IdleAsksNothing' /\ Ledger!Refuse(r, "conflict")
    BY <1>1, <1>5, FinishRefuses DEF tables
  <2>2. QED
    BY <1>1, <2>1, ServeSimulates DEF Ledger!Serve, Ledger!Create
<1>6. ASSUME Continue(r, [q EXCEPT !.phase = "naming"])
      PROVE  Simulates
  <2> DEFINE new == [q EXCEPT !.phase = "naming"]
  <2>1. /\ new.phase = "naming" /\ new.op = q.op /\ new.ip = q.ip
        /\ new.answer = q.answer
    BY <1>1 DEF Request
  <2> HIDE DEF new
  <2>2. QED
    BY <1>1, <1>6, <2>1, GoesOn DEF new, q
<1>7. QED
  BY <1>2, <1>3, <1>4, <1>5, <1>6 DEF ResolveHost, ReadExisting, q

LEMMA UpdateReadsSimulate ==
  ASSUME NEW r \in Requests, Known,
         ReadForUpdate(r) \/ ReadTagsForUpdate(r) \/ FindAutoHost(r)
  PROVE  Simulates
<1> DEFINE q == req[r]
<1>1. /\ UNCHANGED tables /\ q.op \in {"update", "autohost"} /\ q.phase # "idle"
      /\ q \in Request /\ Calls[r].op = "update" /\ Calls[r].ip = q.ip /\ q.ip \in Ips
  BY CallsOf DEF ReadForUpdate, ReadTagsForUpdate, FindAutoHost, Serving, Known, TypeInv,
                 TypeOK, PayloadsComplete, PayloadOK
<1> HIDE DEF q
<1>2. ASSUME NEW phase \in {"read", "ready"}, NEW S,
             Continue(r, [q EXCEPT !.phase = phase, !.seen = S])
      PROVE  Simulates
  <2> DEFINE new == [q EXCEPT !.phase = phase, !.seen = S]
  <2>1. /\ new.phase # "idle" /\ new.op = q.op /\ new.ip = q.ip
        /\ new.answer = q.answer
    BY <1>1 DEF Request
  <2> HIDE DEF new
  <2>2. QED
    BY <1>1, <1>2, <2>1, GoesOn DEF new, q
<1>3. ASSUME NEW S, Continue(r, [q EXCEPT !.phase = "ready", !.seenTags = S])
      PROVE  Simulates
  <2> DEFINE new == [q EXCEPT !.phase = "ready", !.seenTags = S]
  <2>1. /\ new.phase # "idle" /\ new.op = q.op /\ new.ip = q.ip
        /\ new.answer = q.answer
    BY <1>1 DEF Request
  <2> HIDE DEF new
  <2>2. QED
    BY <1>1, <1>3, <2>1, GoesOn DEF new, q
<1>4. CASE AddressFree(q.ip) /\ Finish(r, "missing")
  <2>1. Calls[r].ip \notin StoredIps
    BY <1>1, <1>4 DEF AddressFree, StoredIps
  <2>2. IdleAsksNothing' /\ Ledger!Refuse(r, "missing")
    BY <1>1, <1>4, FinishRefuses DEF tables
  <2>3. QED
    BY <1>1, <2>1, <2>2, ServeSimulates DEF Ledger!Serve, Ledger!Update
<1>5. CASE ReadForUpdate(r)
  BY <1>2, <1>4, <1>5 DEF ReadForUpdate, q
<1>6. CASE ReadTagsForUpdate(r)
  BY <1>3, <1>6 DEF ReadTagsForUpdate, q
<1>7. CASE FindAutoHost(r)
  <2>1. q.op = "autohost"
    BY <1>7 DEF FindAutoHost, Serving, q
  <2>2. ASSUME NEW h, Continue(r, [q EXCEPT !.op = "update", !.phase = "checked", !.host = h])
        PROVE  Simulates
    <3> DEFINE new == [q EXCEPT !.op = "update", !.phase = "checked", !.host = h]
    <3>1. /\ new.phase # "idle" /\ new.op = "update" /\ new.ip = q.ip
          /\ new.answer = q.answer
      BY <1>1 DEF Request
    <3> HIDE DEF new
    <3>2. QED
      BY <1>1, <2>1, <2>2, <3>1, GoesOn DEF new, q
  <2>3. CASE Continue(r, [q EXCEPT !.phase = "read"])
    <3> DEFINE new == [q EXCEPT !.phase = "read"]
    <3>1. /\ new.phase # "idle" /\ new.op = q.op /\ new.ip = q.ip
          /\ new.answer = q.answer
      BY <1>1 DEF Request
    <3> HIDE DEF new
    <3>2. QED
      BY <1>1, <2>3, <3>1, GoesOn DEF new, q
  <2>4. QED
    BY <1>7, <2>2, <2>3 DEF FindAutoHost, q
<1>8. QED
  BY <1>5, <1>6, <1>7

LEMMA OtherReadsSimulate ==
  ASSUME NEW r \in Requests, Known, ReadTagsForBulk(r) \/ ReadForDelete(r)
  PROVE  Simulates
<1> DEFINE q == req[r]
<1>1. UNCHANGED tables /\ q.phase # "idle" /\ q \in Request
  BY DEF ReadTagsForBulk, ReadForDelete, Serving, Known, TypeInv, TypeOK
<1> HIDE DEF q
<1>2. CASE ReadTagsForBulk(r)
  <2>1. CASE Finish(r, "ok")
    <3>1. IdleAsksNothing' /\ Ledger!Answer(r, "ok") /\ StoredIps' = StoredIps
            /\ ActionLog' = ActionLog
      BY <1>1, <2>1, FinishAnswers, QuietTables DEF tables
    <3>2. Calls[r].op = "bulk"
      BY <1>2, CallsOf DEF ReadTagsForBulk, Serving
    <3> DEFINE none == {}
    <3>3. /\ none \in SUBSET StoredIps
          /\ ActionLog' = [ip \in Ips |-> IF ip \in none THEN Append(ActionLog[ip], "UPDATE")
                                         ELSE ActionLog[ip]]
      BY <3>1 DEF ActionLog
    <3> HIDE DEF none
    <3>4. Ledger!Bulk(r)
      BY <3>1, <3>2, <3>3 DEF Ledger!Bulk
    <3>5. QED
      BY <3>1, <3>4, ServeSimulates DEF Ledger!Serve
  <2>2. CASE Continue(r, [q EXCEPT !.phase = "ready", !.seenTags = TagSnapshot(SeenIds(q))])
    <3> DEFINE new == [q EXCEPT !.phase = "ready", !.seenTags = TagSnapshot(SeenIds(q))]
    <3>1. /\ new.phase # "idle" /\ new.op = q.op /\ new.ip = q.ip
          /\ new.answer = q.answer
      BY <1>1 DEF Request
    <3> HIDE DEF new
    <3>2. QED
      BY <1>1, <2>2, <3>1, GoesOn DEF new, q
  <2>3. QED
    BY <1>2, <2>1, <2>2 DEF ReadTagsForBulk, q
<1>3. CASE ReadForDelete(r)
  <2>1. Calls[r].op = "delete" /\ Calls[r].ip = q.ip /\ q.ip \in Ips
    BY <1>3, CallsOf DEF ReadForDelete, Serving, Known, TypeInv, PayloadsComplete, PayloadOK, q
  <2>2. CASE AddressFree(q.ip) /\ Finish(r, "missing")
    <3>1. Calls[r].ip \notin StoredIps
      BY <2>1, <2>2 DEF AddressFree, StoredIps
    <3>2. IdleAsksNothing' /\ Ledger!Refuse(r, "missing")
      BY <1>1, <2>2, FinishRefuses DEF tables
    <3>3. QED
      BY <2>1, <3>1, <3>2, ServeSimulates DEF Ledger!Serve, Ledger!Delete
  <2>3. CASE Continue(r, [q EXCEPT !.phase = "ready", !.seen = Snapshot(Find(q.ip))])
    <3> DEFINE new == [q EXCEPT !.phase = "ready", !.seen = Snapshot(Find(q.ip))]
    <3>1. /\ new.phase # "idle" /\ new.op = q.op /\ new.ip = q.ip
          /\ new.answer = q.answer
      BY <1>1 DEF Request
    <3> HIDE DEF new
    <3>2. QED
      BY <1>1, <2>3, <3>1, GoesOn DEF new, q
  <2>4. QED
    BY <1>3, <2>2, <2>3 DEF ReadForDelete, q
<1>4. QED
  BY <1>2, <1>3

-----------------------------------------------------------------------------
(* Writes.                                                                 *)

LEMMA InsertSimulates ==
  ASSUME Known, NEW r \in Requests, req[r].op = "create", NEW h \in HostIds \union {Nil},
         NEW H \in SUBSET HostIds, Insert(r, h, H)
  PROVE  Simulates
<1> DEFINE q == req[r]
<1>1. /\ q \in Request /\ q.ip \in Ips /\ q.type \in Types
      /\ q.project \in ProjectIds \union {Nil} /\ q.notes \in Notes \union {Nil}
      /\ Calls[r].op = "create" /\ Calls[r].ip = q.ip
  BY CreateFacts, CallsOf DEF Known
<1> HIDE DEF q
<1>2. CASE Finish(r, "conflict") /\ UNCHANGED tables
  <2>1. IdleAsksNothing' /\ Ledger!Refuse(r, "conflict")
    BY <1>2, FinishRefuses DEF tables
  <2>2. QED
    BY <1>1, <2>1, ServeSimulates DEF Ledger!Serve, Ledger!Create
<1>3. ASSUME UniqueHolds(q.ip), NEW i \in AssetIds, NextAssetId(i),
             assets' = [assets EXCEPT ![i] = NewRow(q, h)],
             Log(q.ip, "CREATE", i, {}), Finish(r, "ok")
      PROVE  Simulates
  <2> DEFINE row == NewRow(q, h)
  <2> row \in Row /\ row.ip = q.ip
    BY <1>1 DEF NewRow, Row
  <2> HIDE DEF row
  <2>1. row \in Row /\ row.ip = q.ip /\ row # Nil
    BY RowIsNoNil
  <2>2. assets[i] = Nil /\ q.ip \notin StoredIps
    BY <1>3 DEF NextAssetId, NextId, UniqueHolds, AddressFree, StoredIps, AssetIds
  <2>3. \A j \in AssetIds : assets'[j] = IF j = i THEN row ELSE assets[j]
    BY <1>3 DEF Known, TypeInv, TypeOK, row
  <2>4. StoredIps' = StoredIps \union {q.ip}
    BY <1>1, <2>1, <2>2, <2>3 DEF StoredIps, Find, At
  <2>5. Ledger!Wrote(q.ip, "CREATE")
    BY <1>1, <1>3, LogWrites DEF Known
  <2>6. IdleAsksNothing' /\ Ledger!Answer(r, "ok")
    BY <1>3, FinishAnswers
  <2>7. Ledger!Wrote(Calls[r].ip, IF Calls[r].ip \in StoredIps THEN "UPDATE" ELSE "CREATE")
    BY <1>1, <2>2, <2>5
  <2>8. Ledger!Create(r)
    BY <1>1, <2>4, <2>6, <2>7 DEF Ledger!Create
  <2>9. QED
    BY <2>6, <2>8, ServeSimulates DEF Ledger!Serve
<1>4. QED
  BY <1>2, <1>3 DEF Insert, q

LEMMA RestoreSimulates ==
  ASSUME Known, NEW r \in Requests, req[r].op = "create", NEW h \in HostIds \union {Nil},
         NEW H \in SUBSET HostIds, NEW id \in AssetIds, Restore(r, h, H, id)
  PROVE  Simulates
<1> DEFINE q == req[r]
<1>1. /\ q \in Request /\ q.ip \in Ips /\ q.type \in Types
      /\ q.project \in ProjectIds \union {Nil} /\ q.notes \in Notes \union {Nil}
      /\ Calls[r].op = "create" /\ Calls[r].ip = q.ip
  BY CreateFacts, CallsOf DEF Known
<1> HIDE DEF q
<1>2. CASE Finish(r, "error") /\ UNCHANGED tables
  <2>1. IdleAsksNothing' /\ Ledger!Refuse(r, "error")
    BY <1>2, FinishRefuses DEF tables
  <2>2. QED
    BY <1>1, <2>1, ServeSimulates DEF Ledger!Serve, Ledger!Create
<1>3. ASSUME NEW i \in Find(q.ip), assets' = RestoredTable(q, h, id),
             Log(q.ip, "UPDATE", i, {"restored"}), Finish(r, "ok")
      PROVE  Simulates
  <2>1. q.ip \in StoredIps
    BY <1>1, <1>3 DEF StoredIps
  <2>2. StoredIps' = StoredIps
    <3>1. CASE assets[id] = Nil
      BY <1>3, <3>1 DEF RestoredTable, StoredIps, Find, At
    <3>2. CASE assets[id] # Nil
      <4> DEFINE row == RestoreRow(assets[id], q, h)
      <4>1. assets[id] \in Row
        BY <3>2 DEF Known, TypeInv, TypeOK
      <4>2. row \in Row /\ row.ip = assets[id].ip
        BY <1>1, <4>1 DEF RestoreRow, Row
      <4>3. assets' = [assets EXCEPT ![id] = row]
        BY <1>3, <3>2 DEF RestoredTable
      <4> HIDE DEF row
      <4>4. QED
        BY <3>2, <4>2, <4>3, SameAddressesOne DEF Known
    <3>3. QED
      BY <3>1, <3>2
  <2>3. Ledger!Wrote(q.ip, "UPDATE")
    BY <1>1, <1>3, LogWrites DEF Known
  <2>4. IdleAsksNothing' /\ Ledger!Answer(r, "ok")
    BY <1>3, FinishAnswers
  <2>5. StoredIps' = StoredIps \union {q.ip}
    BY <2>1, <2>2
  <2>6. Ledger!Create(r)
    BY <1>1, <2>1, <2>3, <2>4, <2>5 DEF Ledger!Create
  <2>7. QED
    BY <2>4, <2>6, ServeSimulates DEF Ledger!Serve
<1>4. QED
  BY <1>2, <1>3 DEF Restore, q

LEMMA CreateWritesSimulate ==
  ASSUME Known, NEW r \in Requests, WriteCreate(r) \/ CreateWithAutoHost(r)
  PROVE  Simulates
<1>1. /\ req[r].op = "create" /\ req[r].host \in HostIds \union {Nil}
      /\ LiveHosts \in SUBSET HostIds /\ Calls[r].op = "create"
  BY CreateFacts, CallsOf DEF Known, WriteCreate, CreateWithAutoHost, Serving, LiveHosts
<1>2. CASE WriteCreate(r)
  <2>1. CASE Insert(r, req[r].host, LiveHosts)
    BY <1>1, <2>1, InsertSimulates
  <2>2. ASSUME NEW id \in SeenIds(req[r]), Restore(r, req[r].host, LiveHosts, id)
        PROVE  Simulates
    BY <1>1, <2>2, RestoreSimulates DEF SeenIds
  <2>3. QED
    BY <1>2, <2>1, <2>2 DEF WriteCreate
<1>3. CASE CreateWithAutoHost(r)
  <2>0. CASE Finish(r, "error") /\ UNCHANGED tables
    <3>1. IdleAsksNothing' /\ Ledger!Refuse(r, "error")
      BY <2>0, FinishRefuses DEF tables
    <3>2. QED
      BY <1>1, <3>1, ServeSimulates DEF Ledger!Serve, Ledger!Create
  <2> SUFFICES ASSUME ~(Finish(r, "error") /\ UNCHANGED tables)
               PROVE  Simulates
    BY <2>0
  <2>1. PICK h \in HostIds :
          IF AddressFree(req[r].ip) THEN Insert(r, h, LiveHosts \union {h})
          ELSE \E i \in Find(req[r].ip) :
                 IF assets[i].archived THEN Restore(r, h, LiveHosts \union {h}, i)
                 ELSE AbandonAutoHost(r, h)
    BY <1>3 DEF CreateWithAutoHost
  <2> DEFINE H == LiveHosts \union {h}
  <2>2. H \in SUBSET HostIds
    BY <1>1
  <2> HIDE DEF H
  <2>3. CASE Insert(r, h, H)
    BY <1>1, <2>2, <2>3, InsertSimulates
  <2>4. ASSUME NEW i \in Find(req[r].ip), Restore(r, h, H, i)
        PROVE  Simulates
    BY <1>1, <2>2, <2>4, RestoreSimulates DEF Find, At
  <2>5. CASE AbandonAutoHost(r, h)
    <3>1. IdleAsksNothing' /\ Ledger!Refuse(r, "conflict")
      BY <2>5, FinishRefuses DEF AbandonAutoHost, tables
    <3>2. QED
      BY <1>1, <3>1, ServeSimulates DEF Ledger!Serve, Ledger!Create
  <2>6. QED
    BY <2>1, <2>3, <2>4, <2>5 DEF H
<1>4. QED
  BY <1>2, <1>3

LEMMA UpdateWritesSimulate ==
  ASSUME Known, NEW r \in Requests, WriteUpdate(r)
  PROVE  Simulates
<1> DEFINE q == req[r]
<1>1. /\ q \in Request /\ PayloadOK(q) /\ q.ip \in Ips
      /\ Calls[r].op = "update" /\ Calls[r].ip = q.ip
  BY CallsOf DEF WriteUpdate, Serving, Known, TypeInv, TypeOK, PayloadsComplete, PayloadOK
<1> HIDE DEF q
<1>2. ASSUME NEW answer \in {"ok", "error"}, Finish(r, answer), UNCHANGED tables
      PROVE  Simulates
  <2>1. IdleAsksNothing' /\ Ledger!Refuse(r, answer)
    BY <1>2, FinishRefuses DEF tables
  <2>2. QED
    BY <1>1, <1>2, <2>1, ServeSimulates DEF Ledger!Serve, Ledger!Update
<1>3. CASE AddressFree(q.ip) /\ Finish(r, "missing") /\ UNCHANGED tables
  <2>1. Calls[r].ip \notin StoredIps
    BY <1>1, <1>3 DEF AddressFree, StoredIps
  <2>2. IdleAsksNothing' /\ Ledger!Refuse(r, "missing")
    BY <1>3, FinishRefuses DEF tables
  <2>3. QED
    BY <1>1, <2>1, <2>2, ServeSimulates DEF Ledger!Serve, Ledger!Update
<1>4. ASSUME NEW id \in SeenIds(q), NEW i \in UpdateTarget(q), NEW changes,
             assets' = [assets EXCEPT ![i] = UpdatedRow(assets[i], q, id)],
             Log(q.ip, "UPDATE", i, changes), Finish(r, "ok")
      PROVE  Simulates
  <2> DEFINE row == UpdatedRow(assets[i], q, id)
  <2>1. i \in AssetIds /\ assets[i] # Nil /\ assets[i] \in Row /\ q.ip \in StoredIps
    BY <1>1, <1>4 DEF UpdateTarget, Find, At, StoredIps, Known, TypeInv, TypeOK
  <2>2. id \in AssetIds /\ q.seen[id] \in Row
    BY <1>1, <1>4 DEF SeenIds, Request
  <2>3. row \in Row /\ row.ip = assets[i].ip
    BY <1>1, <2>1, <2>2, UpdatedRowType, UpdatedRowKeeps
  <2>4. assets' = [assets EXCEPT ![i] = row]
    BY <1>4
  <2> HIDE DEF row
  <2>5. StoredIps' = StoredIps
    BY <2>1, <2>3, <2>4, SameAddressesOne DEF Known
  <2>6. Ledger!Wrote(q.ip, "UPDATE")
    BY <1>1, <1>4, LogWrites DEF Known
  <2>7. IdleAsksNothing' /\ Ledger!Answer(r, "ok")
    BY <1>4, FinishAnswers
  <2>8. Ledger!Update(r)
    BY <1>1, <2>1, <2>5, <2>6, <2>7 DEF Ledger!Update
  <2>9. QED
    BY <2>7, <2>8, ServeSimulates DEF Ledger!Serve
<1>5. QED
  BY <1>2, <1>3, <1>4 DEF WriteUpdate, q

(* A bulk edit logs an update of each address it finds, and of no other.   *)
LEMMA BulkLogs ==
  ASSUME TypeInv, NEW q \in Request, PayloadOK(q), NEW T \in SUBSET AssetIds,
         audit' = [ip \in Ips |->
           IF \E i \in T : assets[i].ip = ip
             THEN LET i == CHOOSE i \in T : assets[i].ip = ip IN
                  Append(audit[ip], [action |-> "UPDATE", id |-> i,
                                     changes |-> BulkChanges(q, i)])
             ELSE audit[ip]],
         NEW ip \in Ips
  PROVE  ActionLog'[ip] = IF \E i \in T : assets[i].ip = ip
                            THEN Append(ActionLog[ip], "UPDATE") ELSE ActionLog[ip]
<1> DEFINE chosen == CHOOSE i \in T : assets[i].ip = ip
           entry == [action |-> "UPDATE", id |-> chosen, changes |-> BulkChanges(q, chosen)]
           S == AuditEntry \union {entry}
           action == "UPDATE"
<1>1. CASE \A i \in T : assets[i].ip # ip
  BY <1>1 DEF ActionLog
<1>2. CASE \E i \in T : assets[i].ip = ip
  <2>1. audit'[ip] = Append(audit[ip], entry)
    BY <1>2
  <2>2. audit[ip] \in Seq(AuditEntry)
    BY DEF TypeInv, TypeOK
  <2>3. entry \in S /\ entry.action = action
    OBVIOUS
  <2> HIDE DEF entry, S, action, chosen
  <2>4. audit[ip] \in Seq(AuditEntry \union {entry})
    BY <2>2
  <2>5. audit[ip] \in Seq(S)
    BY <2>4 DEF S
  <2>6. [k \in DOMAIN Append(audit[ip], entry) |-> Append(audit[ip], entry)[k].action]
          = Append([k \in DOMAIN audit[ip] |-> audit[ip][k].action], action)
    BY <2>3, <2>5, AppendAction
  <2>7. ActionLog'[ip] = Append(ActionLog[ip], action)
    BY <2>1, <2>6 DEF ActionLog
  <2>8. QED
    BY <1>2, <2>7 DEF action
<1>3. QED
  BY <1>1, <1>2

LEMMA BulkWritesSimulate ==
  ASSUME Known, NEW r \in Requests, WriteBulk(r)
  PROVE  Simulates
<1> DEFINE q == req[r]
           T == BulkTargets(q)
<1>1. q \in Request /\ PayloadOK(q) /\ Calls[r].op = "bulk"
  BY CallsOf DEF WriteBulk, Serving, Known, TypeInv, TypeOK, PayloadsComplete
<1> HIDE DEF q
<1>2. CASE Finish(r, "error") /\ UNCHANGED tables
  <2>1. IdleAsksNothing' /\ Ledger!Refuse(r, "error")
    BY <1>2, FinishRefuses DEF tables
  <2>2. QED
    BY <1>1, <2>1, ServeSimulates DEF Ledger!Serve, Ledger!Bulk
<1>3. CASE /\ assets' = [i \in AssetIds |-> IF i \in T THEN BulkRow(q, i) ELSE assets[i]]
           /\ audit' = [ip \in Ips |->
                IF \E i \in T : assets[i].ip = ip
                  THEN LET i == CHOOSE i \in T : assets[i].ip = ip IN
                       Append(audit[ip], [action |-> "UPDATE", id |-> i,
                                          changes |-> BulkChanges(q, i)])
                  ELSE audit[ip]]
           /\ Finish(r, "ok")
  <2>1. T \in SUBSET AssetIds /\ \A i \in T : assets[i] # Nil
    BY DEF BulkTargets, SeenIds
  <2>2. \A i \in T : BulkRow(q, i) \in Row /\ BulkRow(q, i).ip = assets[i].ip
    BY <1>1, BulkRowType, BulkRowKeeps DEF Known
  <2>3. \A i \in T : BulkRow(q, i) # Nil
    BY <2>2, RowIsNoNil
  <2> HIDE DEF T
  <2>4. ASSUME NEW i \in AssetIds
        PROVE  /\ (assets'[i] = Nil) <=> (assets[i] = Nil)
               /\ assets[i] # Nil => assets'[i].ip = assets[i].ip
    BY <1>3, <2>1, <2>2, <2>3
  <2>5. StoredIps' = StoredIps
    BY <2>4, SameAddresses
  <2> DEFINE S == {ip \in Ips : \E i \in T : assets[i].ip = ip}
  <2>6. S \in SUBSET StoredIps
    BY <2>1 DEF StoredIps, Find, At
  <2>7. ASSUME NEW ip \in Ips
        PROVE  ActionLog'[ip] = IF ip \in S THEN Append(ActionLog[ip], "UPDATE")
                                           ELSE ActionLog[ip]
    <3>1. TypeInv
      BY DEF Known
    <3>2. audit' = [a \in Ips |->
            IF \E i \in T : assets[i].ip = a
              THEN LET i == CHOOSE i \in T : assets[i].ip = a IN
                   Append(audit[a], [action |-> "UPDATE", id |-> i,
                                     changes |-> BulkChanges(q, i)])
              ELSE audit[a]]
      BY <1>3
    <3>3. ActionLog'[ip] = IF \E i \in T : assets[i].ip = ip
                             THEN Append(ActionLog[ip], "UPDATE") ELSE ActionLog[ip]
      BY <1>1, <2>1, <3>1, <3>2, BulkLogs
    <3>4. QED
      BY <3>3
  <2> HIDE DEF S
  <2>8. ActionLog' = [ip \in Ips |-> IF ip \in S THEN Append(ActionLog[ip], "UPDATE")
                                     ELSE ActionLog[ip]]
    BY <2>7 DEF ActionLog
  <2>9. IdleAsksNothing' /\ Ledger!Answer(r, "ok")
    BY <1>3, FinishAnswers
  <2>10. Ledger!Bulk(r)
    BY <1>1, <2>5, <2>6, <2>8, <2>9 DEF Ledger!Bulk
  <2>11. QED
    BY <2>9, <2>10, ServeSimulates DEF Ledger!Serve
<1>4. QED
  BY <1>2, <1>3 DEF WriteBulk, q

LEMMA DeleteWritesSimulate ==
  ASSUME Known, NEW r \in Requests, WriteDelete(r)
  PROVE  Simulates
<1> DEFINE q == req[r]
<1>1. q.ip \in Ips /\ Calls[r].op = "delete" /\ Calls[r].ip = q.ip
  BY CallsOf DEF WriteDelete, Serving, Known, TypeInv, PayloadsComplete, PayloadOK
<1> HIDE DEF q
<1>2. CASE AddressFree(q.ip) /\ DeleteNothing(r)
  <2>1. Calls[r].ip \notin StoredIps
    BY <1>1, <1>2 DEF AddressFree, StoredIps
  <2>2. IdleAsksNothing' /\ Ledger!Refuse(r, "missing")
    BY <1>2, FinishRefuses DEF DeleteNothing, tables
  <2>3. QED
    BY <1>1, <2>1, <2>2, ServeSimulates DEF Ledger!Serve, Ledger!Delete
<1>3. ASSUME NEW i \in Find(q.ip), NEW seenId, assets' = [assets EXCEPT ![i] = Nil],
             Log(q.ip, "DELETE", seenId, {}), Finish(r, "ok")
      PROVE  Simulates
  <2>1. i \in AssetIds /\ assets[i] # Nil /\ assets[i].ip = q.ip /\ q.ip \in StoredIps
    BY <1>1, <1>3 DEF Find, At, StoredIps
  <2>2. \A j \in AssetIds : assets'[j] = IF j = i THEN Nil ELSE assets[j]
    BY <1>3 DEF Known, TypeInv, TypeOK
  <2>3. \A j \in AssetIds \ {i} : assets[j] # Nil => assets[j].ip # q.ip
    BY <2>1 DEF Known, Sound, AddressesUnique
  <2>4. StoredIps' = StoredIps \ {q.ip}
    BY <2>1, <2>2, <2>3 DEF StoredIps, Find, At
  <2>5. Ledger!Wrote(q.ip, "DELETE")
    BY <1>1, <1>3, LogWrites DEF Known
  <2>6. IdleAsksNothing' /\ Ledger!Answer(r, "ok")
    BY <1>3, FinishAnswers
  <2>7. Ledger!Delete(r)
    BY <1>1, <2>1, <2>4, <2>5, <2>6 DEF Ledger!Delete
  <2>8. QED
    BY <2>6, <2>7, ServeSimulates DEF Ledger!Serve
<1>4. QED
  BY <1>2, <1>3 DEF WriteDelete, q

LEMMA ArchiveWritesSimulate ==
  ASSUME Known, NEW r \in Requests, WriteArchive(r)
  PROVE  Simulates
<1>1. Calls[r].op = "archive"
  BY CallsOf DEF WriteArchive, Serving
<1>2. StoredIps' = StoredIps
  <2> DEFINE S == Find(req[r].ip)
  <2>1. ASSUME NEW i \in AssetIds
        PROVE  /\ (assets'[i] = Nil) <=> (assets[i] = Nil)
               /\ assets[i] # Nil => assets'[i].ip = assets[i].ip
    <3>1. CASE i \in S
      <4> DEFINE row == [assets[i] EXCEPT !.archived = TRUE]
      <4>1. assets[i] \in Row /\ assets'[i] = row
        BY <3>1 DEF WriteArchive, Find, At, Known, TypeInv, TypeOK
      <4>2. row \in Row /\ row.ip = assets[i].ip
        BY <4>1 DEF Row
      <4> HIDE DEF row
      <4>3. row # Nil
        BY <4>2, RowIsNoNil
      <4>4. QED
        BY <3>1, <4>1, <4>2, <4>3 DEF Find, At
    <3>2. CASE i \notin S
      BY <3>2 DEF WriteArchive
    <3>3. QED
      BY <3>1, <3>2
  <2>2. QED
    BY <2>1, SameAddresses
<1>3. IdleAsksNothing' /\ Ledger!Answer(r, "ok") /\ ActionLog' = ActionLog
  BY FinishAnswers DEF WriteArchive, ActionLog
<1>4. Ledger!Archive(r)
  BY <1>1, <1>2, <1>3 DEF Ledger!Archive, Ledger!Refuse
<1>5. QED
  BY <1>3, <1>4, ServeSimulates DEF Ledger!Serve

LEMMA AutoHostSimulates ==
  ASSUME Known, NEW r \in Requests, CreateAutoHost(r)
  PROVE  Simulates
<1> DEFINE q == req[r]
<1>1. /\ q.op = "autohost" /\ q.phase # "idle" /\ q \in Request /\ Calls[r].op = "update"
  BY CallsOf DEF CreateAutoHost, Serving, Known, TypeInv, TypeOK
<1> HIDE DEF q
<1>2. CASE Finish(r, "error") /\ UNCHANGED tables
  <2>1. IdleAsksNothing' /\ Ledger!Refuse(r, "error")
    BY <1>2, FinishRefuses DEF tables
  <2>2. QED
    BY <1>1, <2>1, ServeSimulates DEF Ledger!Serve, Ledger!Update
<1>3. ASSUME NEW h, Continue(r, [q EXCEPT !.op = "update", !.phase = "checked", !.host = h]),
             UNCHANGED <<assets, audit>>
      PROVE  Simulates
  <2> DEFINE new == [q EXCEPT !.op = "update", !.phase = "checked", !.host = h]
  <2>1. /\ new.phase = "checked" /\ new.op = "update" /\ new.ip = q.ip
        /\ new.answer = q.answer
    BY <1>1 DEF Request
  <2>2. Continue(r, new)
    BY <1>3
  <2> HIDE DEF new
  <2>3. CallOf(new) = CallOf(req[r])
    BY <1>1, <2>1 DEF CallOf, q
  <2>4. QED
    BY <1>1, <1>3, <2>1, <2>2, <2>3, SimulatesContinue DEF Continue, q
<1>4. QED
  BY <1>2, <1>3 DEF CreateAutoHost, q

LEMMA AdministerSimulates ==
  ASSUME Known, Administer
  PROVE  Simulates
<1>1. UNCHANGED <<audit, req, served>>
  BY DEF Administer, CreateHost, RenameHost, DeleteHost, CreateProject, DeleteProject,
         CreateTag, RenameTag, DeleteTag
<1>2. IdleAsksNothing' /\ Calls' = Calls /\ ActionLog' = ActionLog
  BY <1>1 DEF Known, IdleAsksNothing, Calls, ActionLog
<1>3. ASSUME NEW i \in AssetIds
      PROVE  /\ (assets'[i] = Nil) <=> (assets[i] = Nil)
             /\ assets[i] # Nil => assets'[i].ip = assets[i].ip
  <2>1. CASE assets'[i] = assets[i]
    BY <2>1
  <2>2. ASSUME assets[i] # Nil,
               NEW new \in {[assets[i] EXCEPT !.host = Nil], [assets[i] EXCEPT !.project = Nil]},
               assets'[i] = new
        PROVE  assets'[i] # Nil /\ assets'[i].ip = assets[i].ip
    <3>1. assets[i] \in Row
      BY <2>2 DEF Known, TypeInv, TypeOK
    <3>2. new \in Row /\ new.ip = assets[i].ip
      BY <2>2, <3>1 DEF Row
    <3>3. QED
      BY <2>2, <3>2, RowIsNoNil
  <2>3. CASE UNCHANGED assets
    BY <2>3
  <2>4. CASE DeleteHost
    BY <2>1, <2>2, <2>4 DEF DeleteHost
  <2>5. CASE DeleteProject
    BY <2>1, <2>2, <2>5 DEF DeleteProject
  <2>6. QED
    BY <2>3, <2>4, <2>5
       DEF Administer, CreateHost, RenameHost, CreateProject, CreateTag, RenameTag, DeleteTag
<1>4. StoredIps' = StoredIps
  BY <1>3, SameAddresses
<1>5. QED
  BY <1>1, <1>2, <1>4 DEF Simulates, Ledger!vars

-----------------------------------------------------------------------------
LEMMA KnownInit == Init => Known /\ Ledger!Init
<1> SUFFICES ASSUME Init PROVE Known /\ Ledger!Init
  OBVIOUS
<1>1. Known
  BY TypeInit, SoundInit DEF Known, IdleAsksNothing, Orderly, Init, Idle
<1>2. Calls = [r \in Requests |-> Ledger!Answered("none")]
  BY DEF Calls, CallOf, Init, Idle, Ledger!Answered
<1>3. ASSUME NEW ip \in Ips
      PROVE  ActionLog[ip] = IF ip \in StoredIps THEN <<"CREATE">> ELSE <<>>
  BY DEF ActionLog, Init, AddressFree, StoredIps
<1>4. StoredIps \in SUBSET Ips /\ served = 0
  BY DEF StoredIps, Init
<1>5. QED
  BY <1>1, <1>2, <1>3, <1>4 DEF Ledger!Init, ActionLog

LEMMA StepSimulates == Known /\ [Next]_vars => Simulates
<1> SUFFICES ASSUME Known, [Next]_vars PROVE Simulates
  OBVIOUS
<1>1. ASSUME NEW r \in Requests, Run(r) PROVE Simulates
  BY <1>1, CreateReadsSimulate, UpdateReadsSimulate, OtherReadsSimulate,
     CreateWritesSimulate, UpdateWritesSimulate, BulkWritesSimulate, DeleteWritesSimulate,
     ArchiveWritesSimulate, AutoHostSimulates DEF Run
<1>2. CASE UNCHANGED vars
  BY <1>2 DEF vars, Simulates, Known, IdleAsksNothing, Calls, CallOf, StoredIps, Find, At,
              ActionLog, Ledger!vars
<1>3. QED
  BY <1>1, <1>2, ArriveSimulates, ResumeSimulates, AdministerSimulates DEF Next

(* Whatever the handlers read and however they interleave, each request    *)
(* takes effect at most once, in the step that answers it.                 *)
THEOREM Refines == Spec => ImplementsInventory
<1>1. Known /\ [Next]_vars => Known' /\ [Ledger!Next]_(Ledger!vars)
  BY StepSimulates, TypeStep, SoundStep DEF Known, Simulates
<1>2. QED
  BY <1>1, KnownInit, PTL DEF Spec, ImplementsInventory, Ledger!Spec

(* What is proved of Inventory holds of the ledger the handlers keep.      *)
Kept == INSTANCE InventoryProofs WITH stored <- StoredIps, log <- ActionLog, call <- Calls

(* The audit log and the table of addresses agree, whatever requests race  *)
(* for an address: racing creates or deletes leave one entry between them. *)
THEOREM AuditAlwaysTracks == Spec => []AuditTracksTable
<1>1. Ledger!Init => Kept!Init
  BY DEF Ledger!Init, Ledger!Answered, Kept!Init, Kept!Answered
<1>2. [Ledger!Next]_(Ledger!vars) => [Kept!Next]_(Kept!vars)
  BY Zenon
     DEF Ledger!Next, Ledger!Ask, Ledger!Serve, Ledger!Create, Ledger!Update, Ledger!Bulk,
         Ledger!Delete, Ledger!Archive, Ledger!Refuse, Ledger!Answer, Ledger!Answered,
         Ledger!Wrote, Ledger!Asks, Ledger!vars,
         Kept!Next, Kept!Ask, Kept!Serve, Kept!Create, Kept!Update, Kept!Bulk,
         Kept!Delete, Kept!Archive, Kept!Refuse, Kept!Answer, Kept!Answered,
         Kept!Wrote, Kept!Asks, Kept!vars
<1>3. TypeOK /\ Kept!LogTellsStored /\ Kept!LogOfLives => AuditTracksTable
  <2> SUFFICES ASSUME TypeOK, Kept!LogTellsStored, Kept!LogOfLives, NEW ip \in Ips
               PROVE  /\ Find(ip) # {} <=> Existing(audit[ip])
                      /\ \A k \in 1..Len(audit[ip]) :
                           (audit[ip][k].action = "CREATE") <=>
                             (k = 1 \/ audit[ip][k - 1].action = "DELETE")
    BY DEF AuditTracksTable
  <2> DEFINE trail == audit[ip]
             acts == ActionLog[ip]
             n == Len(trail)
  <2>1. trail \in Seq(AuditEntry)
    BY DEF TypeOK
  <2>2. n \in Nat /\ DOMAIN trail = 1..n /\ (trail = <<>> <=> n = 0)
    BY <2>1
  <2>3. acts = [k \in 1..n |-> trail[k].action]
    BY <2>2 DEF ActionLog
  <2>4. acts \in Seq({trail[k].action : k \in 1..n}) /\ Len(acts) = n
          /\ (acts = <<>> <=> n = 0) /\ \A k \in 1..n : acts[k] = trail[k].action
    BY <2>2, <2>3
  <2>5. ip \in StoredIps <=> (acts # <<>> /\ acts[Len(acts)] # "DELETE")
    BY DEF Kept!LogTellsStored, Kept!Told
  <2>6. \A k \in 1..Len(acts) :
          (acts[k] = "CREATE") <=> (k = 1 \/ acts[k - 1] = "DELETE")
    BY DEF Kept!LogOfLives
  <2> HIDE DEF acts, n
  <2>7. Find(ip) # {} <=> Existing(trail)
    BY <2>2, <2>4, <2>5 DEF Existing, StoredIps, n
  <2>8. \A k \in 1..n : (trail[k].action = "CREATE") <=>
                         (k = 1 \/ trail[k - 1].action = "DELETE")
    BY <2>2, <2>4, <2>6
  <2>9. QED
    BY <2>7, <2>8 DEF n
<1>4. QED
  BY <1>1, <1>2, <1>3, Refines, TypeCorrect, Kept!LogTells, PTL
     DEF ImplementsInventory, Ledger!Spec, Kept!Spec
===============================================================================
