----------------------------- MODULE UserAdminProofs -----------------------------
(***************************************************************************)
(* Proofs about UserAdmin, for any accounts, sessions, forms and number of *)
(* requests and restarts; what the event loop protects, for one server     *)
(* process, and what only its forms may do, without logins of the API.     *)
(***************************************************************************)
EXTENDS UserAdmin, FiniteSetTheorems, TLAPS

Kinds  == {"create", "edit", "delete", "password", "login", "apiLogin", "logout"}
Editing  == {"role", "active", "rotate", "edited"}
Deleting == {"deleting", "delete"}
Phases == {"new", "session", "user", "form", "created", "changed", "login", "rehash",
           "token", "logout", "ended"} \union Editing \union Deleting
Ends   == {"none", "refused", "done", "error", "killed"}

Request ==
  [kind : Kinds \union {"none"}, phase : Phases, worker : Workers \union {Nil},
   form : Form \union {Nil}, user : User \union {Nil}, uid : Ids \union {Nil},
   made : Ids \union {Nil}, target : User \union {Nil}, changed : BOOLEAN, end : Ends]

Entry == [actor : Ids \union {Nil}, by : Names, action : {"CREATE", "UPDATE", "DELETE"},
          id : Ids, name : Names]

Active(q) == q.phase \notin {"new", "ended"}

(* What a request carries fits the phase it is in.                         *)
Fits(q) ==
  /\ q.phase = "new" => q = Blank
  /\ q.phase # "new" => q.form \in Form /\ q.kind = q.form.kind /\ q.worker \in Workers
  /\ q.phase = "ended" <=> q.end # "none"
  /\ q.phase \in {"session", "user", "form"} => q.kind \in Kinds \ {"login", "apiLogin", "logout"}
  /\ q.phase \in {"login", "rehash", "token"} => q.kind \in {"login", "apiLogin"}
  /\ q.phase = "logout" => q.kind = "logout"
  /\ q.phase = "created" => /\ q.kind = "create" /\ q.made \in Ids
                            /\ q.form.name \in Names
  /\ q.phase \in Editing => q.kind = "edit"
  /\ q.phase \in Deleting => q.kind = "delete"
  /\ q.phase = "changed" => q.kind = "password"
  /\ q.phase = "rehash" => q.form.current \in Passwords
  /\ q.phase \in Editing \union Deleting => q.target \in User /\ q.form.id \in Ids
  /\ q.phase = "user" => q.uid \in Ids
  /\ q.phase \in {"form", "created", "changed", "rehash", "token"} \union Editing
       \union Deleting => q.uid \in Ids /\ q.user \in User

(* The handlers of the forms keep the event loop of their process.         *)
Holding(q) ==
  \/ q.phase \in {"created", "changed"} \union Editing \union Deleting
  \/ q.kind = "login" /\ q.phase \in {"rehash", "token"}

TablesOK ==
  /\ users \in [Ids -> User \union {Nil}] /\ sessions \in [Tokens -> Ids \union {Nil}]
  /\ \A t \in Tokens : sessions[t] # Nil => users[sessions[t]] # Nil
  /\ \A i, k \in Ids : users[i] # Nil /\ users[k] # Nil /\ users[i].name = users[k].name
                         => i = k
  /\ audit \in SUBSET Entry
  /\ \A e \in audit : e.actor # Nil => users[e.actor] # Nil

UserInv ==
  /\ TablesOK /\ req \in [Requests -> Request] /\ loop \in [Workers -> Requests \union {Nil}]
  /\ server \in [Workers -> {"off", "empty", "up"}] /\ restarts \in Nat
  /\ demand \in DOMAIN Demands
  /\ \A r \in Requests : Fits(req[r]) /\ (Holding(req[r]) => loop[req[r].worker] = r)

-----------------------------------------------------------------------------
(* One server process, w.                                                  *)

OneProcess(w) == /\ w \in Workers
                 /\ \A name \in DOMAIN Demands : Demands[name].workers \subseteq {w}

Spare(i) == users[i].role = "Superuser" =>
              \E k \in Live : k # i /\ users[k].role = "Superuser" /\ users[k].active

(* What a form has read of the user it is about is still so: names, roles  *)
(* and states change on the event loop only.                               *)
Fresh(r) ==
  LET q == req[r] IN
  q.phase \in Editing \union Deleting =>
    /\ q.form.id \in Live /\ q.target.name = users[q.form.id].name
    /\ q.target.role = users[q.form.id].role
    /\ q.phase \in {"role", "active"} /\ ~q.form.active => Spare(q.form.id)
    /\ q.phase \in Deleting => Spare(q.form.id)
    /\ q.phase = "delete" => \E e \in audit : /\ e.action = "DELETE" /\ e.id = q.form.id
                                              /\ e.name = q.target.name

ProcessInv(w) ==
  /\ \A v \in Workers : server[v] # "off" => v = w
  /\ \A r \in Requests : Active(req[r]) => req[r].worker = w /\ server[w] = "up"
  /\ Live # {} => ActiveSuperusers # {}
  /\ server[w] = "up" => Live # {}
  /\ server[w] = "empty" => Live = {}
  /\ \A r \in Requests : Fresh(r)

-----------------------------------------------------------------------------
(* Without logins of the API, the account of a login stays as it was found.*)

FormLogins == \A name \in DOMAIN Demands :
                \A f \in Demands[name].forms : f.kind # "apiLogin"

LoginOf(r) ==
  LET q == req[r] IN
  /\ q.kind # "apiLogin"
  /\ q.phase \in {"rehash", "token"} => q.uid \in Called(q.form.name)
  /\ q.phase = "rehash" => users[q.uid].password = q.form.current
  /\ sessions[r] # Nil => q.phase = "ended" /\ sessions[r] \in Called(q.form.name)

LoginInv == \A r \in Requests : LoginOf(r)

-----------------------------------------------------------------------------
(* Requests.                                                               *)

LEMMA NilIsNothing ==
  /\ Nil \notin Requests /\ Nil \notin Workers /\ Nil \notin Names /\ Nil \notin Ids
  /\ Nil \notin User /\ Nil \notin Passwords /\ Nil \notin Tokens
<1>1. /\ Nil \notin Tokens /\ Nil \notin Workers /\ Nil \notin Names
      /\ Nil \notin Passwords /\ Nil \notin Nat /\ Nil \notin User
  BY Zenon, UserAssumption
<1>2. Requests \subseteq Tokens /\ Ids \subseteq Nat
  BY UserAssumption DEF Ids
<1>3. QED
  BY Zenon, <1>1, <1>2

LEMMA FormFields ==
  ASSUME NEW f \in Form
  PROVE  /\ f.kind \in Kinds /\ f.token \in Tokens \union {Nil} /\ f.id \in Ids \union {Nil}
         /\ f.name \in Names \union {Nil} /\ f.password \in Passwords \union {Nil}
         /\ f.current \in Passwords \union {Nil} /\ f.editor \in BOOLEAN
         /\ f.active \in BOOLEAN
  BY DEF Form, Kinds

LEMMA UserFields ==
  ASSUME NEW u \in User
  PROVE  /\ u.name \in Names /\ u.password \in Passwords /\ u.legacy \in BOOLEAN
         /\ u.role \in Roles /\ u.active \in BOOLEAN /\ u # Nil
  BY NilIsNothing DEF User

LEMMA BlankTyped ==
  /\ Blank \in Request /\ Blank.phase = "new" /\ Blank.kind = "none"
  /\ Blank.end = "none" /\ Blank.worker = Nil
  BY DEF Blank, Request, Phases, Ends

LEMMA AskedType ==
  ASSUME UserInv
  PROVE  DemandOK(Asked)
  BY UserAssumption DEF UserInv, Asked

LEMMA GotoFields ==
  ASSUME UserInv, NEW r \in Requests, NEW q \in Request, NEW phase \in Phases,
         Goto(r, q, phase)
  PROVE  /\ req' = [req EXCEPT ![r] = req'[r]] /\ req'[r] \in Request
         /\ req'[r].phase = phase /\ req'[r].kind = q.kind /\ req'[r].worker = q.worker
         /\ req'[r].form = q.form /\ req'[r].user = q.user /\ req'[r].uid = q.uid
         /\ req'[r].made = q.made /\ req'[r].target = q.target
         /\ req'[r].changed = q.changed /\ req'[r].end = q.end
<1> DEFINE n == [q EXCEPT !.phase = phase]
<1>1. /\ n \in Request /\ n.phase = phase /\ n.kind = q.kind /\ n.worker = q.worker
      /\ n.form = q.form /\ n.user = q.user /\ n.uid = q.uid /\ n.made = q.made
      /\ n.target = q.target /\ n.changed = q.changed /\ n.end = q.end
  BY DEF Request
<1>2. req' = [req EXCEPT ![r] = n] /\ req'[r] = n
  BY DEF Goto, UserInv
<1> HIDE DEF n
<1>3. QED
  BY <1>1, <1>2

LEMMA StopFields ==
  ASSUME UserInv, NEW r \in Requests, NEW q \in Request, NEW end \in Ends,
         Stop(r, q, end)
  PROVE  /\ req' = [req EXCEPT ![r] = req'[r]] /\ req'[r] \in Request
         /\ req'[r].phase = "ended" /\ req'[r].kind = q.kind
         /\ req'[r].worker = q.worker /\ req'[r].form = q.form /\ req'[r].end = end
<1> DEFINE n == [q EXCEPT !.phase = "ended", !.end = end]
<1>1. /\ n \in Request /\ n.phase = "ended" /\ n.kind = q.kind /\ n.worker = q.worker
      /\ n.form = q.form /\ n.end = end
  BY DEF Request, Phases
<1>2. req' = [req EXCEPT ![r] = n] /\ req'[r] = n
  BY DEF Stop, UserInv
<1> HIDE DEF n
<1>3. QED
  BY <1>1, <1>2

-----------------------------------------------------------------------------
(* The event loops: a step takes a free one for its request, or leaves it. *)

LoopMoves(r) ==
  /\ loop' \in [Workers -> Requests \union {Nil}]
  /\ \A v \in Workers : loop[v] \notin {r, Nil} => loop'[v] = loop[v]

LEMMA StopLoop ==
  ASSUME UserInv, NEW r \in Requests, NEW q, NEW end, Stop(r, q, end)
  PROVE  LoopMoves(r)
  BY DEF UserInv, Stop, LoopMoves

LEMMA KeepLoop ==
  ASSUME UserInv, NEW r, KeepsLoop
  PROVE  LoopMoves(r)
  BY DEF UserInv, KeepsLoop, LoopMoves

LEMMA HoldLoop ==
  ASSUME UserInv, NEW r \in Requests, req[r].worker \in Workers,
         loop[req[r].worker] = Nil, Holds(r)
  PROVE  LoopMoves(r) /\ loop'[req[r].worker] = r
  BY DEF UserInv, Holds, LoopMoves

(* A step of one request.                                                  *)
LEMMA RequestSteps ==
  ASSUME UserInv, NEW r \in Requests, NEW n \in Request, req' = [req EXCEPT ![r] = n],
         Fits(n), Holding(n) => loop'[n.worker] = r, LoopMoves(r), TablesOK',
         UNCHANGED <<server, restarts, demand>>
  PROVE  UserInv'
<1>1. req' \in [Requests -> Request]
  BY DEF UserInv
<1>2. ASSUME NEW s \in Requests
      PROVE  Fits(req'[s]) /\ (Holding(req'[s]) => loop'[req'[s].worker] = s)
  <2>1. CASE s = r
    BY <2>1 DEF UserInv
  <2>2. CASE s # r
    <3>1. req'[s] = req[s] /\ Fits(req[s]) /\ (Holding(req[s]) => loop[req[s].worker] = s)
      BY <2>2 DEF UserInv
    <3>2. Holding(req[s]) => req[s].worker \in Workers
      BY <3>1 DEF Fits, Holding, Editing, Deleting
    <3>3. Holding(req[s]) => loop'[req[s].worker] = s
      BY <2>2, <3>1, <3>2, NilIsNothing DEF LoopMoves
    <3>4. QED
      BY <3>1, <3>3
  <2>3. QED
    BY <2>1, <2>2
<1>3. QED
  BY <1>1, <1>2 DEF UserInv, LoopMoves

LEMMA TablesKept ==
  ASSUME UserInv, KeepsTables
  PROVE  TablesOK' /\ UNCHANGED <<users, sessions, audit, server, restarts, demand>>
  BY DEF UserInv, KeepsTables, tables, TablesOK

LEMMA StopKeeps ==
  ASSUME UserInv, NEW r \in Requests, NEW q \in Request, NEW end \in Ends \ {"none"},
         Stop(r, q, end), req[r].phase # "new", q.kind = req[r].kind,
         q.form = req[r].form, q.worker = req[r].worker, TablesOK',
         UNCHANGED <<server, restarts, demand>>
  PROVE  UserInv'
<1>1. /\ req' = [req EXCEPT ![r] = req'[r]] /\ req'[r] \in Request
      /\ req'[r].phase = "ended" /\ req'[r].kind = q.kind
      /\ req'[r].worker = q.worker /\ req'[r].form = q.form /\ req'[r].end = end
  BY StopFields
<1>2. Fits(req'[r]) /\ ~Holding(req'[r])
  <2>1. Fits(req[r])
    BY DEF UserInv
  <2>2. QED
    BY <1>1, <2>1 DEF Fits, Holding, Editing, Deleting
<1>3. QED
  BY <1>1, <1>2, StopLoop, RequestSteps

LEMMA StopReads ==
  ASSUME UserInv, NEW r \in Requests, NEW end \in Ends \ {"none"},
         Stop(r, req[r], end), req[r].phase # "new", KeepsTables
  PROVE  UserInv'
<1>1. req[r] \in Request
  BY DEF UserInv
<1>2. QED
  BY <1>1, TablesKept, StopKeeps

LEMMA GotoKeeps ==
  ASSUME UserInv, NEW r \in Requests, NEW q \in Request, NEW phase \in Phases,
         Goto(r, q, phase), Fits(req'[r]), Holding(req'[r]) => loop'[q.worker] = r,
         LoopMoves(r), TablesOK', UNCHANGED <<server, restarts, demand>>
  PROVE  UserInv'
  BY GotoFields, RequestSteps

-----------------------------------------------------------------------------
(* The tables.                                                             *)

LEMMA UserStored ==
  ASSUME TablesOK, NEW i \in Ids, NEW row \in User, users' = [users EXCEPT ![i] = row],
         \A k \in Ids \ {i} : users[k] # Nil => users[k].name # row.name,
         UNCHANGED <<sessions, audit>>
  PROVE  TablesOK'
<1>1. /\ users' \in [Ids -> User \union {Nil}] /\ users'[i] = row /\ row # Nil
      /\ \A k \in Ids \ {i} : users'[k] = users[k]
  BY UserFields DEF TablesOK
<1>2. \A k \in Ids : users[k] # Nil => users'[k] # Nil
  BY <1>1
<1>3. /\ \A t \in Tokens : sessions[t] # Nil => users'[sessions[t]] # Nil
      /\ \A e \in audit : e.actor # Nil => users'[e.actor] # Nil
  BY <1>2 DEF TablesOK, Entry
<1>4. \A k, m \in Ids : users'[k] # Nil /\ users'[m] # Nil /\ users'[k].name = users'[m].name
                          => k = m
  BY <1>1 DEF TablesOK
<1>5. QED
  BY <1>1, <1>3, <1>4 DEF TablesOK

LEMMA SessionStored ==
  ASSUME TablesOK, NEW t \in Tokens, NEW i \in Ids \union {Nil}, i # Nil => users[i] # Nil,
         sessions' = [sessions EXCEPT ![t] = i], UNCHANGED <<users, audit>>
  PROVE  TablesOK'
<1>1. /\ sessions' \in [Tokens -> Ids \union {Nil}]
      /\ \A u \in Tokens : sessions'[u] # Nil => users[sessions'[u]] # Nil
  BY DEF TablesOK
<1>2. QED
  BY <1>1 DEF TablesOK

LEMMA EntryStored ==
  ASSUME TablesOK, NEW e \in Entry, e.actor # Nil => users[e.actor] # Nil,
         audit' = audit \union {e}, UNCHANGED <<users, sessions>>
  PROVE  TablesOK'
  BY DEF TablesOK

LEMMA UserDropped ==
  ASSUME TablesOK, NEW i \in Ids, users' = [users EXCEPT ![i] = Nil],
         sessions' = Orphaned(i),
         audit' = {IF e.actor = i THEN [e EXCEPT !.actor = Nil] ELSE e : e \in audit}
  PROVE  TablesOK'
<1>1. /\ users' \in [Ids -> User \union {Nil}] /\ users'[i] = Nil
      /\ \A k \in Ids \ {i} : users'[k] = users[k]
  BY DEF TablesOK
<1>2. /\ sessions' \in [Tokens -> Ids \union {Nil}]
      /\ \A t \in Tokens : sessions'[t] # Nil => users'[sessions'[t]] # Nil
  BY <1>1 DEF TablesOK, Orphaned
<1>3. ASSUME NEW e \in audit'
      PROVE  e \in Entry /\ (e.actor # Nil => users'[e.actor] # Nil)
  <2>1. PICK d \in audit : e = IF d.actor = i THEN [d EXCEPT !.actor = Nil] ELSE d
    BY <1>3
  <2>2. d \in Entry /\ (d.actor # Nil => users[d.actor] # Nil)
    BY DEF TablesOK
  <2>3. CASE d.actor = i
    BY <2>1, <2>2, <2>3 DEF Entry
  <2>4. CASE d.actor # i
    BY <1>1, <2>1, <2>2, <2>4 DEF Entry
  <2>5. QED
    BY <2>3, <2>4
<1>4. \A k, m \in Ids : users'[k] # Nil /\ users'[m] # Nil /\ users'[k].name = users'[m].name
                          => k = m
  BY <1>1 DEF TablesOK
<1>5. QED
  BY <1>1, <1>2, <1>3, <1>4 DEF TablesOK

(* A row that keeps its name is written back.                              *)
LEMMA UserChanged ==
  ASSUME TablesOK, NEW i \in Live, NEW row \in User, row.name = users[i].name,
         users' = [users EXCEPT ![i] = row], UNCHANGED <<sessions, audit>>
  PROVE  TablesOK'
<1>1. i \in Ids /\ \A k \in Ids \ {i} : users[k] # Nil => users[k].name # row.name
  BY DEF TablesOK, Live
<1>2. QED
  BY <1>1, UserStored

LEMMA UserAdded ==
  ASSUME TablesOK, NEW i \in Ids, NextId(i), NEW row \in User, Called(row.name) = {},
         users' = [users EXCEPT ![i] = row], UNCHANGED <<sessions, audit>>
  PROVE  TablesOK' /\ users[i] = Nil
<1>1. i \notin Live
  BY UserAssumption DEF NextId, Ids
<1>2. \A k \in Ids \ {i} : users[k] # Nil => users[k].name # row.name
  BY DEF Called, Live
<1>3. QED
  BY <1>1, <1>2, UserStored DEF Live

LEMMA LiveUser ==
  ASSUME TablesOK, NEW i \in Live
  PROVE  i \in Ids /\ users[i] \in User /\ users[i] # Nil
  BY DEF TablesOK, Live

-----------------------------------------------------------------------------
(* UserInv: one lemma per action.                                          *)

LEMMA ReqTyped ==
  ASSUME UserInv, NEW r \in Requests
  PROVE  req[r] \in Request /\ Fits(req[r]) /\ TablesOK
  BY DEF UserInv

LEMMA ArriveKeeps ==
  ASSUME UserInv, NEW r \in Requests, Arrive(r)
  PROVE  UserInv'
<1>1. /\ r \in Asked.requests /\ At(r, "new") /\ KeepsLoop /\ KeepsTables
      /\ \E f \in Asked.forms, v \in Workers :
           /\ server[v] = "up"
           /\ Goto(r, [Blank EXCEPT !.kind = f.kind, !.form = f, !.worker = v],
                   CASE f.kind \in {"login", "apiLogin"} -> "login"
                     [] f.kind = "logout" -> "logout"
                     [] OTHER -> "session")
  BY DEF Arrive
<1>2. PICK f \in Asked.forms, v \in Workers :
         Goto(r, [Blank EXCEPT !.kind = f.kind, !.form = f, !.worker = v],
                   CASE f.kind \in {"login", "apiLogin"} -> "login"
                     [] f.kind = "logout" -> "logout"
                     [] OTHER -> "session")
  BY <1>1
<1>3. f \in Form /\ f.kind \in Kinds
  BY AskedType, FormFields DEF DemandOK
<1> DEFINE q == [Blank EXCEPT !.kind = f.kind, !.form = f, !.worker = v]
           phase == CASE f.kind \in {"login", "apiLogin"} -> "login"
                      [] f.kind = "logout" -> "logout"
                      [] OTHER -> "session"
<1>4. /\ q \in Request /\ q.kind = f.kind /\ q.form = f /\ q.worker = v /\ q.end = "none"
  BY <1>3 DEF Blank, Request, Ends, Phases, Kinds
<1>5. /\ phase \in {"login", "logout", "session"}
      /\ phase = "login" => f.kind \in {"login", "apiLogin"}
      /\ phase = "logout" => f.kind = "logout"
      /\ phase = "session" => f.kind \notin {"login", "apiLogin", "logout"}
  BY Zenon
<1>6. Goto(r, q, phase)
  BY <1>2
<1> HIDE DEF q, phase
<1>7. phase \in Phases
  BY <1>5 DEF Phases
<1>8. /\ req'[r].phase = phase /\ req'[r].kind = f.kind /\ req'[r].worker = v
      /\ req'[r].form = f /\ req'[r].end = "none"
  BY <1>4, <1>6, <1>7, GotoFields
<1>9. Fits(req'[r]) /\ ~Holding(req'[r])
  BY <1>3, <1>5, <1>8 DEF Fits, Holding, Editing, Deleting
<1>10. QED
  BY <1>1, <1>4, <1>6, <1>7, <1>9, GotoKeeps, KeepLoop, TablesKept

LEMMA FindSessionKeeps ==
  ASSUME UserInv, NEW r \in Requests, FindSession(r)
  PROVE  UserInv'
<1> DEFINE q == req[r]
           uid == IF q.form.token = Nil THEN Nil ELSE sessions[q.form.token]
<1>1. /\ At(r, "session") /\ KeepsTables
      /\ \/ Stop(r, q, "refused")
         \/ uid # Nil /\ Goto(r, [q EXCEPT !.uid = uid], "user") /\ KeepsLoop
  BY Zenon DEF FindSession
<1>2. q \in Request /\ Fits(q) /\ TablesOK /\ q.phase = "session"
  BY <1>1, ReqTyped DEF At
<1>3. CASE Stop(r, q, "refused")
  BY <1>1, <1>2, <1>3, StopReads DEF Ends
<1>4. CASE uid # Nil /\ Goto(r, [q EXCEPT !.uid = uid], "user") /\ KeepsLoop
  <2>1. q.form \in Form /\ q.end = "none" /\ q.kind = q.form.kind /\ q.worker \in Workers
        /\ q.kind \in Kinds \ {"login", "apiLogin", "logout"}
    BY <1>2 DEF Fits, Request, Ends
  <2>2. uid \in Ids
    BY <1>2, <1>4, <2>1, FormFields DEF TablesOK
  <2> DEFINE n == [q EXCEPT !.uid = uid]
  <2>3. /\ n \in Request /\ n.uid = uid /\ n.kind = q.kind /\ n.form = q.form
        /\ n.worker = q.worker /\ n.end = "none"
    BY <1>2, <2>1, <2>2 DEF Request
  <2>4. Goto(r, n, "user") /\ KeepsLoop
    BY <1>4
  <2> HIDE DEF n, q, uid
  <2>5. "user" \in Phases
    BY DEF Phases
  <2>6. /\ req'[r].phase = "user" /\ req'[r].kind = q.kind /\ req'[r].form = q.form
        /\ req'[r].worker = q.worker /\ req'[r].uid = uid /\ req'[r].end = "none"
    BY <2>3, <2>4, <2>5, GotoFields
  <2>7. Fits(req'[r]) /\ ~Holding(req'[r])
    BY <2>1, <2>2, <2>6 DEF Fits, Holding, Editing, Deleting
  <2>8. QED
    BY <1>1, <2>3, <2>4, <2>5, <2>7, GotoKeeps, KeepLoop, TablesKept
<1>5. QED
  BY <1>1, <1>3, <1>4

LEMMA FindUserKeeps ==
  ASSUME UserInv, NEW r \in Requests, FindUser(r)
  PROVE  UserInv'
<1> DEFINE q == req[r]
           user == users[req[r].uid]
           allowed == /\ user # Nil /\ user.active
                      /\ q.kind # "password" => user.role = "Superuser"
<1>1. /\ At(r, "user") /\ KeepsTables
      /\ IF allowed THEN Goto(r, [q EXCEPT !.user = user], "form") /\ KeepsLoop
                    ELSE Stop(r, q, "refused")
  BY DEF FindUser
<1>2. q \in Request /\ Fits(q) /\ TablesOK /\ q.phase = "user"
  BY <1>1, ReqTyped DEF At
<1>3. CASE ~allowed
  BY <1>1, <1>2, <1>3, StopReads DEF Ends
<1>4. CASE allowed
  <2>1. q.form \in Form /\ q.end = "none" /\ q.kind = q.form.kind /\ q.worker \in Workers
        /\ q.kind \in Kinds \ {"login", "apiLogin", "logout"} /\ q.uid \in Ids
    BY <1>2 DEF Fits, Request, Ends
  <2>2. user \in User
    BY <1>2, <1>4, <2>1 DEF TablesOK
  <2> DEFINE n == [q EXCEPT !.user = user]
  <2>3. /\ n \in Request /\ n.uid = q.uid /\ n.kind = q.kind /\ n.form = q.form
        /\ n.worker = q.worker /\ n.end = "none" /\ n.user = user
    BY <1>2, <2>1, <2>2 DEF Request
  <2>4. Goto(r, n, "form") /\ KeepsLoop
    BY <1>1, <1>4
  <2> HIDE DEF n, q, user
  <2>5. "form" \in Phases
    BY DEF Phases
  <2>6. /\ req'[r].phase = "form" /\ req'[r].kind = q.kind /\ req'[r].form = q.form
        /\ req'[r].worker = q.worker /\ req'[r].uid = q.uid /\ req'[r].end = "none"
        /\ req'[r].user = user
    BY <2>3, <2>4, <2>5, GotoFields
  <2>7. Fits(req'[r]) /\ ~Holding(req'[r])
    BY <2>1, <2>2, <2>6 DEF Fits, Holding, Editing, Deleting
  <2>8. QED
    BY <1>1, <2>3, <2>4, <2>5, <2>7, GotoKeeps, KeepLoop, TablesKept
<1>5. QED
  BY <1>3, <1>4

(* The form has arrived.                                                   *)
LEMMA BeginReads ==
  ASSUME UserInv, NEW r \in Requests, NEW kind, Begin(r, kind)
  PROVE  /\ req[r] \in Request /\ req[r].phase = "form" /\ req[r].kind = kind
         /\ req[r].form \in Form /\ req[r].form.kind = kind /\ req[r].end = "none"
         /\ req[r].worker \in Workers /\ loop[req[r].worker] = Nil
         /\ req[r].uid \in Ids /\ req[r].user \in User
  BY ReqTyped DEF Begin, At, Fits

(* A handler that has the loop goes on to its next phase.                  *)
LEMMA HolderReads ==
  ASSUME UserInv, NEW r \in Requests, Holding(req[r])
  PROVE  /\ req[r] \in Request /\ req[r].form \in Form /\ req[r].kind = req[r].form.kind
         /\ req[r].end = "none" /\ req[r].worker \in Workers
         /\ req[r].uid \in Ids /\ req[r].user \in User /\ loop[req[r].worker] = r
<1>1. req[r] \in Request /\ Fits(req[r]) /\ loop[req[r].worker] = r
  BY DEF UserInv
<1>2. QED
  BY <1>1 DEF Fits, Holding, Editing, Deleting

LEMMA HolderGoes ==
  ASSUME UserInv, NEW r \in Requests, Holding(req[r]), KeepsLoop, NEW q \in Request,
         q.worker = req[r].worker, NEW phase \in Phases, Goto(r, q, phase),
         Fits(req'[r]), TablesOK', UNCHANGED <<server, restarts, demand>>
  PROVE  UserInv'
<1>1. loop'[q.worker] = r
  BY HolderReads DEF KeepsLoop
<1>2. QED
  BY <1>1, KeepLoop, GotoKeeps

(* The audit entry.                                                        *)
LEMMA EntryTyped ==
  ASSUME NEW actor \in User, NEW uid \in Ids, NEW action \in {"CREATE", "UPDATE", "DELETE"},
         NEW id \in Ids, NEW name \in Names
  PROVE  EntryOf(actor, uid, action, id, name) \in Entry
         /\ EntryOf(actor, uid, action, id, name).actor = uid
  BY UserFields DEF EntryOf, Entry

LEMMA RecordKeeps ==
  ASSUME UserInv, NEW r \in Requests, Holding(req[r]),
         NEW action \in {"CREATE", "UPDATE", "DELETE"}, NEW id \in Ids, NEW name \in Names,
         Record(r, req[r], action, id, name, "ended")
  PROVE  UserInv'
<1> DEFINE q == req[r]
<1>1. q \in Request /\ q.uid \in Ids /\ q.user \in User /\ q.phase # "new"
  BY HolderReads DEF Holding, Editing, Deleting
<1>2. CASE q.uid \in Live
  <2>1. /\ audit' = audit \union {EntryOf(q.user, q.uid, action, id, name)}
        /\ Stop(r, q, "done")
        /\ UNCHANGED <<users, sessions, server, restarts, demand>>
    BY <1>2 DEF Record
  <2>2. TablesOK'
    BY <1>1, <1>2, <2>1, EntryTyped, EntryStored DEF UserInv, Live
  <2>3. "done" \in Ends \ {"none"}
    BY DEF Ends
  <2>4. QED
    BY <1>1, <2>1, <2>2, <2>3, StopKeeps
<1>3. CASE q.uid \notin Live
  <2>1. Stop(r, q, "error") /\ KeepsTables
    BY <1>3 DEF Record
  <2>2. QED
    BY <1>1, <2>1, StopReads DEF Ends
<1>4. QED
  BY <1>2, <1>3

LEMMA CreateKeeps ==
  ASSUME UserInv, NEW r \in Requests, Create(r)
  PROVE  UserInv'
<1> DEFINE q == req[r]
           f == req[r].form
           valid == Nil \notin {f.name, f.password} /\ Called(f.name) = {}
           Row == [name |-> f.name, password |-> f.password, legacy |-> FALSE,
                   role |-> IF f.editor THEN "Editor" ELSE "Viewer", active |-> f.active]
<1>1. /\ Begin(r, "create")
      /\ \/ ~valid /\ Stop(r, q, "refused") /\ KeepsTables
         \/ /\ valid
            /\ \E i \in Ids :
                 /\ NextId(i)
                 /\ users' = [users EXCEPT ![i] = Row]
                 /\ Goto(r, [q EXCEPT !.made = i, !.changed = TRUE], "created")
            /\ Holds(r) /\ UNCHANGED <<sessions, audit, server, restarts, demand>>
  BY DEF Create
<1>2. /\ q \in Request /\ q.phase = "form" /\ q.kind = "create" /\ f \in Form
      /\ f.kind = "create" /\ q.end = "none" /\ q.worker \in Workers
      /\ loop[q.worker] = Nil /\ q.uid \in Ids /\ q.user \in User /\ TablesOK
  BY <1>1, BeginReads, ReqTyped
<1>3. CASE Stop(r, q, "refused") /\ KeepsTables
  BY <1>2, <1>3, StopReads DEF Ends
<1>4. CASE /\ valid
           /\ \E i \in Ids :
                 /\ NextId(i)
                 /\ users' = [users EXCEPT ![i] = Row]
                 /\ Goto(r, [q EXCEPT !.made = i, !.changed = TRUE], "created")
           /\ Holds(r) /\ UNCHANGED <<sessions, audit, server, restarts, demand>>
  <2>1. PICK i \in Ids :
                 /\ NextId(i)
                 /\ users' = [users EXCEPT ![i] = Row]
                 /\ Goto(r, [q EXCEPT !.made = i, !.changed = TRUE], "created")
    BY <1>4
  <2>2. f.name \in Names /\ Row \in User /\ Row.name = f.name
    BY <1>2, <1>4, FormFields DEF User, Roles
  <2>3. TablesOK'
    BY <1>2, <1>4, <2>1, <2>2, UserAdded
  <2> DEFINE n == [q EXCEPT !.made = i, !.changed = TRUE]
  <2>4. /\ n \in Request /\ n.uid = q.uid /\ n.kind = q.kind /\ n.form = f
        /\ n.worker = q.worker /\ n.end = "none" /\ n.user = q.user /\ n.made = i
    BY <1>2 DEF Request
  <2>5. Goto(r, n, "created") /\ Holds(r)
    BY <1>4, <2>1
  <2> HIDE DEF n, q, f
  <2>6. "created" \in Phases
    BY DEF Phases
  <2>7. /\ req'[r].phase = "created" /\ req'[r].kind = "create" /\ req'[r].form = f
        /\ req'[r].worker = q.worker /\ req'[r].uid = q.uid /\ req'[r].end = "none"
        /\ req'[r].user = q.user /\ req'[r].made = i
    BY <1>2, <2>4, <2>5, <2>6, GotoFields
  <2>8. Fits(req'[r])
    BY <1>2, <2>2, <2>7 DEF Fits, Editing, Deleting
  <2>9. LoopMoves(r) /\ loop'[n.worker] = r
    BY <1>2, <2>4, <2>5, HoldLoop DEF q
  <2>10. QED
    BY <1>4, <2>3, <2>4, <2>5, <2>6, <2>8, <2>9, GotoKeeps
<1>5. QED
  BY <1>1, <1>3, <1>4

LEMMA RecordCreateKeeps ==
  ASSUME UserInv, NEW r \in Requests, RecordCreate(r)
  PROVE  UserInv'
<1>1. req[r].phase = "created" /\ Fits(req[r])
  BY ReqTyped DEF RecordCreate, At
<1>2. Holding(req[r]) /\ req[r].made \in Ids /\ req[r].form.name \in Names
  BY <1>1 DEF Holding, Fits
<1>3. Record(r, req[r], "CREATE", req[r].made, req[r].form.name, "ended")
  BY DEF RecordCreate
<1>4. QED
  BY <1>2, <1>3, RecordKeeps

LEMMA EditKeeps ==
  ASSUME UserInv, NEW r \in Requests, Edit(r)
  PROVE  UserInv'
<1> DEFINE q == req[r]
           f == req[r].form
           bad == \/ f.id \notin Live
                  \/ users[f.id].role = "Superuser" /\ ~f.editor
                  \/ ~f.active /\ ~CanDeactivate(f.id)
<1>1. /\ Begin(r, "edit") /\ KeepsTables
      /\ IF bad THEN Stop(r, q, "refused")
                ELSE Goto(r, [q EXCEPT !.target = users[f.id]], "role") /\ Holds(r)
  BY DEF Edit
<1>2. /\ q \in Request /\ q.phase = "form" /\ q.kind = "edit" /\ f \in Form
      /\ f.kind = "edit" /\ q.end = "none" /\ q.worker \in Workers
      /\ loop[q.worker] = Nil /\ q.uid \in Ids /\ q.user \in User /\ TablesOK
  BY <1>1, BeginReads, ReqTyped
<1>3. CASE bad
  BY <1>1, <1>2, <1>3, StopReads DEF Ends
<1>4. CASE ~bad
  <2>1. f.id \in Ids /\ users[f.id] \in User
    BY <1>2, <1>4, LiveUser
  <2> DEFINE n == [q EXCEPT !.target = users[f.id]]
  <2>4. /\ n \in Request /\ n.uid = q.uid /\ n.kind = q.kind /\ n.form = f
        /\ n.worker = q.worker /\ n.end = "none" /\ n.user = q.user
        /\ n.target = users[f.id]
    BY <1>2, <2>1 DEF Request
  <2>5. Goto(r, n, "role") /\ Holds(r)
    BY <1>1, <1>4
  <2> HIDE DEF n, q, f
  <2>6. "role" \in Phases
    BY DEF Phases, Editing
  <2>7. /\ req'[r].phase = "role" /\ req'[r].kind = "edit" /\ req'[r].form = f
        /\ req'[r].worker = q.worker /\ req'[r].uid = q.uid /\ req'[r].end = "none"
        /\ req'[r].user = q.user /\ req'[r].target = users[f.id]
    BY <1>2, <2>4, <2>5, <2>6, GotoFields
  <2>8. Fits(req'[r])
    BY <1>2, <2>1, <2>7 DEF Fits, Editing, Deleting
  <2>9. LoopMoves(r) /\ loop'[n.worker] = r
    BY <1>2, <2>4, <2>5, HoldLoop DEF q
  <2>10. QED
    BY <1>1, <2>4, <2>5, <2>6, <2>8, <2>9, GotoKeeps, TablesKept
<1>5. QED
  BY <1>3, <1>4

(* Role, state and password.                                               *)
LEMMA UpdatesKeep ==
  ASSUME UserInv, NEW r \in Requests, req[r].phase \in Editing, NEW differs,
         NEW row, req[r].form.id \in Live => row \in User /\ row.name = users[req[r].form.id].name,
         NEW next \in Editing, Updates(r, differs, row, next)
  PROVE  UserInv'
<1> DEFINE q == req[r]
           id == req[r].form.id
<1>1. /\ KeepsLoop
      /\ IF differs /\ id \in Live
         THEN /\ users' = [users EXCEPT ![id] = row]
              /\ Goto(r, [q EXCEPT !.target = row, !.changed = TRUE], next)
              /\ UNCHANGED <<sessions, audit, server, restarts, demand>>
         ELSE Goto(r, q, next) /\ KeepsTables
  BY DEF Updates
<1>2. Holding(q)
  BY DEF Holding
<1>3. /\ q \in Request /\ q.form \in Form /\ q.kind = q.form.kind /\ q.kind = "edit"
      /\ q.end = "none" /\ q.worker \in Workers /\ q.uid \in Ids /\ q.user \in User
      /\ q.target \in User /\ id \in Ids /\ TablesOK
  BY <1>2, HolderReads, ReqTyped DEF Fits
<1>4. next \in Phases /\ next \notin Deleting \union {"new", "ended", "session", "user", "form",
         "login", "rehash", "token", "logout", "created", "changed"}
  BY DEF Phases, Editing, Deleting
<1>5. ASSUME NEW n \in Request, n.form = q.form, n.kind = "edit", n.end = "none",
             n.worker = q.worker, n.uid = q.uid, n.user = q.user, n.target \in User,
             Goto(r, n, next)
      PROVE  Fits(req'[r])
  <2>1. /\ req'[r].phase = next /\ req'[r].kind = "edit" /\ req'[r].form = q.form
        /\ req'[r].worker = q.worker /\ req'[r].uid = q.uid /\ req'[r].end = "none"
        /\ req'[r].user = q.user /\ req'[r].target \in User
    BY <1>4, <1>5, GotoFields
  <2>2. QED
    BY <1>3, <1>4, <2>1 DEF Fits, Deleting
<1>6. CASE differs /\ id \in Live
  <2> DEFINE n == [q EXCEPT !.target = row, !.changed = TRUE]
  <2>1. /\ n \in Request /\ n.form = q.form /\ n.kind = "edit" /\ n.end = "none"
        /\ n.worker = q.worker /\ n.uid = q.uid /\ n.user = q.user /\ n.target \in User
    BY <1>3, <1>6 DEF Request
  <2>2. Goto(r, n, next) /\ UNCHANGED <<server, restarts, demand>>
    BY <1>1, <1>6
  <2>3. TablesOK'
    BY <1>1, <1>3, <1>6, UserChanged
  <2> HIDE DEF n
  <2>4. Fits(req'[r])
    BY <1>5, <2>1, <2>2
  <2>5. QED
    BY <1>1, <1>2, <1>4, <2>1, <2>2, <2>3, <2>4, HolderGoes
<1>7. CASE ~(differs /\ id \in Live)
  <2>1. Goto(r, q, next) /\ KeepsTables
    BY <1>1, <1>7
  <2>2. Fits(req'[r])
    BY <1>3, <1>5, <2>1
  <2>3. QED
    BY <1>1, <1>2, <1>3, <1>4, <2>1, <2>2, HolderGoes, TablesKept
<1>8. QED
  BY <1>6, <1>7

LEMMA EditRoleKeeps ==
  ASSUME UserInv, NEW r \in Requests, EditRole(r)
  PROVE  UserInv'
<1> DEFINE q == req[r]
           role == IF req[r].form.editor THEN "Editor" ELSE "Viewer"
           row == [users[q.form.id] EXCEPT !.role = role]
<1>1. At(r, "role") /\ Updates(r, q.target.role \notin {"Superuser", role}, row, "active")
  BY DEF EditRole
<1>2. q.form.id \in Live => row \in User /\ row.name = users[q.form.id].name
  BY LiveUser, ReqTyped DEF User, Roles
<1>3. q.phase \in Editing /\ "active" \in Editing
  BY <1>1 DEF At, Editing
<1>4. QED
  BY <1>1, <1>2, <1>3, UpdatesKeep

LEMMA EditActiveKeeps ==
  ASSUME UserInv, NEW r \in Requests, EditActive(r)
  PROVE  UserInv'
<1> DEFINE q == req[r]
           row == [users[q.form.id] EXCEPT !.active = q.form.active]
<1>1. At(r, "active") /\ Updates(r, q.target.active # q.form.active, row, "rotate")
  BY DEF EditActive
<1>2. q.phase \in Editing /\ "rotate" \in Editing
  BY <1>1 DEF At, Editing
<1>3. q.form.active \in BOOLEAN
  BY <1>2, HolderReads, FormFields DEF Holding
<1>4. q.form.id \in Live => row \in User /\ row.name = users[q.form.id].name
  BY <1>3, LiveUser, ReqTyped DEF User
<1>5. QED
  BY <1>1, <1>2, <1>4, UpdatesKeep

LEMMA EditPasswordKeeps ==
  ASSUME UserInv, NEW r \in Requests, EditPassword(r)
  PROVE  UserInv'
<1> DEFINE q == req[r]
           row == [users[q.form.id] EXCEPT !.password = q.form.password, !.legacy = FALSE]
<1>1. At(r, "rotate") /\ Updates(r, q.form.password # Nil, row, "edited")
  BY DEF EditPassword
<1>2. q.phase \in Editing /\ "edited" \in Editing
  BY <1>1 DEF At, Editing
<1>3. q.form.password \in Passwords \union {Nil}
  BY <1>2, HolderReads, FormFields DEF Holding
<1>4. CASE q.form.password = Nil
  <2>1. Updates(r, FALSE, users[q.form.id], "edited")
    BY <1>1, <1>4 DEF Updates
  <2>2. q.form.id \in Live => users[q.form.id] \in User
    BY LiveUser, ReqTyped
  <2>3. QED
    BY <1>2, <2>1, <2>2, UpdatesKeep
<1>5. CASE q.form.password \in Passwords
  <2>1. q.form.id \in Live => row \in User /\ row.name = users[q.form.id].name
    BY <1>5, LiveUser, ReqTyped DEF User
  <2>2. QED
    BY <1>1, <1>2, <2>1, UpdatesKeep
<1>6. QED
  BY <1>3, <1>4, <1>5

LEMMA RecordEditKeeps ==
  ASSUME UserInv, NEW r \in Requests, RecordEdit(r)
  PROVE  UserInv'
<1> DEFINE q == req[r]
<1>1. /\ At(r, "edited")
      /\ IF q.changed THEN Record(r, q, "UPDATE", q.form.id, q.target.name, "ended")
                      ELSE Stop(r, q, "done") /\ KeepsTables
  BY DEF RecordEdit
<1>2. Holding(q) /\ q.phase \in Editing
  BY <1>1 DEF At, Holding, Editing
<1>3. q \in Request /\ q.form.id \in Ids /\ q.target.name \in Names
  BY <1>2, ReqTyped, UserFields DEF Fits
<1>4. CASE q.changed
  BY <1>1, <1>2, <1>3, <1>4, RecordKeeps
<1>5. CASE ~q.changed
  BY <1>1, <1>5, StopReads DEF Ends, At
<1>6. QED
  BY <1>4, <1>5

LEMMA DeleteKeeps ==
  ASSUME UserInv, NEW r \in Requests, Delete(r)
  PROVE  UserInv'
<1> DEFINE q == req[r]
           f == req[r].form
<1>1. /\ Begin(r, "delete") /\ KeepsTables
      /\ IF DeleteAllowed(q, f.id)
         THEN Goto(r, [q EXCEPT !.target = users[f.id]], "deleting") /\ Holds(r)
         ELSE Stop(r, q, "refused")
  BY DEF Delete
<1>2. /\ q \in Request /\ q.phase = "form" /\ q.kind = "delete" /\ f \in Form
      /\ f.kind = "delete" /\ q.end = "none" /\ q.worker \in Workers
      /\ loop[q.worker] = Nil /\ q.uid \in Ids /\ q.user \in User /\ TablesOK
  BY <1>1, BeginReads, ReqTyped
<1>3. CASE ~DeleteAllowed(q, f.id)
  BY <1>1, <1>2, <1>3, StopReads DEF Ends
<1>4. CASE DeleteAllowed(q, f.id)
  <2>1. f.id \in Ids /\ users[f.id] \in User
    BY <1>2, <1>4, LiveUser DEF DeleteAllowed
  <2> DEFINE n == [q EXCEPT !.target = users[f.id]]
  <2>2. /\ n \in Request /\ n.uid = q.uid /\ n.kind = q.kind /\ n.form = f
        /\ n.worker = q.worker /\ n.end = "none" /\ n.user = q.user
        /\ n.target = users[f.id]
    BY <1>2, <2>1 DEF Request
  <2>3. Goto(r, n, "deleting") /\ Holds(r)
    BY <1>1, <1>4
  <2> HIDE DEF n, q, f
  <2>4. "deleting" \in Phases
    BY DEF Phases, Deleting
  <2>5. /\ req'[r].phase = "deleting" /\ req'[r].kind = "delete" /\ req'[r].form = f
        /\ req'[r].worker = q.worker /\ req'[r].uid = q.uid /\ req'[r].end = "none"
        /\ req'[r].user = q.user /\ req'[r].target = users[f.id]
    BY <1>2, <2>2, <2>3, <2>4, GotoFields
  <2>6. Fits(req'[r])
    BY <1>2, <2>1, <2>5 DEF Fits, Editing, Deleting
  <2>7. LoopMoves(r) /\ loop'[n.worker] = r
    BY <1>2, <2>2, <2>3, HoldLoop DEF q
  <2>8. QED
    BY <1>1, <2>2, <2>3, <2>4, <2>6, <2>7, GotoKeeps, TablesKept
<1>5. QED
  BY <1>3, <1>4

LEMMA RecordDeleteKeeps ==
  ASSUME UserInv, NEW r \in Requests, RecordDelete(r)
  PROVE  UserInv'
<1> DEFINE q == req[r]
<1>1. q.phase = "deleting" /\ Record(r, q, "DELETE", q.form.id, q.target.name, "delete")
  BY DEF RecordDelete, At
<1>2. Holding(q) /\ q.phase \in Deleting
  BY <1>1 DEF Holding, Deleting
<1>3. /\ q \in Request /\ q.form \in Form /\ q.kind = q.form.kind /\ q.kind = "delete"
      /\ q.end = "none" /\ q.worker \in Workers /\ q.uid \in Ids /\ q.user \in User
      /\ q.form.id \in Ids /\ q.target \in User /\ TablesOK
  BY <1>2, HolderReads, ReqTyped DEF Fits
<1>4. CASE q.uid \in Live
  <2>1. /\ audit' = audit \union {EntryOf(q.user, q.uid, "DELETE", q.form.id, q.target.name)}
        /\ Goto(r, q, "delete") /\ KeepsLoop
        /\ UNCHANGED <<users, sessions, server, restarts, demand>>
    BY <1>1, <1>4 DEF Record
  <2>2. TablesOK'
    <3> DEFINE e == EntryOf(q.user, q.uid, "DELETE", q.form.id, q.target.name)
    <3>1. q.target.name \in Names
      BY <1>3, UserFields
    <3>2. e \in Entry /\ e.actor = q.uid
      BY <1>3, <3>1, EntryTyped
    <3>3. users[q.uid] # Nil
      BY <1>4 DEF Live
    <3> HIDE DEF e, q
    <3>4. QED
      BY <1>3, <2>1, <3>2, <3>3, EntryStored DEF e
  <2>3. "delete" \in Phases
    BY DEF Phases, Deleting
  <2>4. /\ req'[r].phase = "delete" /\ req'[r].kind = "delete" /\ req'[r].form = q.form
        /\ req'[r].worker = q.worker /\ req'[r].uid = q.uid /\ req'[r].end = "none"
        /\ req'[r].user = q.user /\ req'[r].target = q.target
    BY <1>3, <2>1, <2>3, GotoFields
  <2>5. Fits(req'[r])
    BY <1>3, <2>4 DEF Fits, Editing, Deleting
  <2>6. QED
    BY <1>2, <1>3, <2>1, <2>2, <2>3, <2>5, HolderGoes
<1>5. CASE q.uid \notin Live
  <2>1. Stop(r, q, "error") /\ KeepsTables
    BY <1>1, <1>5 DEF Record
  <2>2. QED
    BY <1>1, <2>1, StopReads DEF Ends
<1>6. QED
  BY <1>4, <1>5

LEMMA DeleteUserKeeps ==
  ASSUME UserInv, NEW r \in Requests, DeleteUser(r)
  PROVE  UserInv'
<1> DEFINE q == req[r]
           n == [q EXCEPT !.changed = TRUE]
<1>1. /\ q.phase = "delete" /\ users' = [users EXCEPT ![q.form.id] = Nil]
      /\ sessions' = Orphaned(q.form.id)
      /\ audit' = {IF e.actor = q.form.id THEN [e EXCEPT !.actor = Nil] ELSE e : e \in audit}
      /\ Stop(r, n, "done") /\ UNCHANGED <<server, restarts, demand>>
  BY DEF DeleteUser, At
<1>2. q \in Request /\ q.form.id \in Ids /\ TablesOK
  BY <1>1, ReqTyped DEF Fits, Deleting
<1>3. n \in Request /\ n.kind = q.kind /\ n.form = q.form /\ n.worker = q.worker
  BY <1>2 DEF Request
<1> HIDE DEF n
<1>4. TablesOK'
  BY <1>1, <1>2, UserDropped
<1>5. QED
  BY <1>1, <1>3, <1>4, StopKeeps DEF Ends

LEMMA ChangePasswordKeeps ==
  ASSUME UserInv, NEW r \in Requests, ChangePassword(r)
  PROVE  UserInv'
<1> DEFINE q == req[r]
           f == req[r].form
           good == /\ f.current = q.user.password /\ f.password \notin {Nil, f.current}
                   /\ q.uid \in Live
           row == [users[q.uid] EXCEPT !.password = f.password, !.legacy = FALSE]
<1>1. /\ Begin(r, "password")
      /\ IF good
         THEN /\ users' = [users EXCEPT ![q.uid].password = f.password, ![q.uid].legacy = FALSE]
              /\ Goto(r, [q EXCEPT !.user = users[q.uid], !.changed = TRUE], "changed")
              /\ Holds(r) /\ UNCHANGED <<sessions, audit, server, restarts, demand>>
         ELSE Stop(r, q, "refused") /\ KeepsTables
  BY DEF ChangePassword
<1>2. /\ q \in Request /\ q.phase = "form" /\ q.kind = "password" /\ f \in Form
      /\ f.kind = "password" /\ q.end = "none" /\ q.worker \in Workers
      /\ loop[q.worker] = Nil /\ q.uid \in Ids /\ q.user \in User /\ TablesOK
  BY <1>1, BeginReads, ReqTyped
<1>3. CASE ~good
  BY <1>1, <1>2, <1>3, StopReads DEF Ends
<1>4. CASE good
  <2>1. users[q.uid] \in User /\ f.password \in Passwords
    BY <1>2, <1>4, LiveUser, FormFields
  <2>2. row \in User /\ row.name = users[q.uid].name
    BY <2>1 DEF User
  <2>3. users' = [users EXCEPT ![q.uid] = row]
    BY <1>1, <1>2, <1>4 DEF TablesOK
  <2>4. TablesOK'
    BY <1>1, <1>2, <1>4, <2>2, <2>3, UserChanged
  <2> DEFINE n == [q EXCEPT !.user = users[q.uid], !.changed = TRUE]
  <2>5. /\ n \in Request /\ n.uid = q.uid /\ n.kind = q.kind /\ n.form = f
        /\ n.worker = q.worker /\ n.end = "none" /\ n.user \in User
    BY <1>2, <2>1 DEF Request
  <2>6. Goto(r, n, "changed") /\ Holds(r) /\ UNCHANGED <<server, restarts, demand>>
    BY <1>1, <1>4
  <2> HIDE DEF n, q, f
  <2>7. "changed" \in Phases
    BY DEF Phases
  <2>8. /\ req'[r].phase = "changed" /\ req'[r].kind = "password" /\ req'[r].form = f
        /\ req'[r].worker = q.worker /\ req'[r].uid = q.uid /\ req'[r].end = "none"
        /\ req'[r].user \in User
    BY <1>2, <2>5, <2>6, <2>7, GotoFields
  <2>9. Fits(req'[r])
    BY <1>2, <2>8 DEF Fits, Editing, Deleting
  <2>10. LoopMoves(r) /\ loop'[n.worker] = r
    BY <1>2, <2>5, <2>6, HoldLoop DEF q
  <2>11. QED
    BY <2>4, <2>5, <2>6, <2>7, <2>9, <2>10, GotoKeeps
<1>5. QED
  BY <1>3, <1>4

LEMMA RecordPasswordKeeps ==
  ASSUME UserInv, NEW r \in Requests, RecordPassword(r)
  PROVE  UserInv'
<1>1. /\ req[r].phase = "changed"
      /\ Record(r, req[r], "UPDATE", req[r].uid, req[r].user.name, "ended")
  BY DEF RecordPassword, At
<1>2. Holding(req[r])
  BY <1>1 DEF Holding
<1>3. req[r].uid \in Ids /\ req[r].user.name \in Names
  BY <1>2, HolderReads, UserFields
<1>4. QED
  BY <1>1, <1>2, <1>3, RecordKeeps

(* A login in turn has a free loop or is one of the API.                   *)
LEMMA LoginKeeps ==
  ASSUME UserInv, NEW r \in Requests, Login(r)
  PROVE  UserInv'
<1> DEFINE q == req[r]
<1>1. /\ q.phase = "login" /\ InTurn(q) /\ KeepsTables
      /\ \/ Stop(r, q, "refused")
         \/ \E i \in Called(q.form.name) :
              /\ Verified(q.form, i)
              /\ Goto(r, [q EXCEPT !.uid = i, !.user = users[i]], "rehash")
              /\ IF q.kind = "login" THEN Holds(r) ELSE KeepsLoop
  BY DEF Login, At
<1>2. /\ q \in Request /\ Fits(q) /\ TablesOK /\ q.form \in Form /\ q.kind = q.form.kind
      /\ q.kind \in {"login", "apiLogin"} /\ q.worker \in Workers /\ q.end = "none"
  BY <1>1, ReqTyped DEF Fits
<1>3. CASE Stop(r, q, "refused")
  BY <1>1, <1>3, StopReads DEF Ends
<1>4. ASSUME NEW i \in Called(q.form.name), Verified(q.form, i),
             Goto(r, [q EXCEPT !.uid = i, !.user = users[i]], "rehash"),
             IF q.kind = "login" THEN Holds(r) ELSE KeepsLoop
      PROVE  UserInv'
  <2>1. i \in Ids /\ users[i] \in User /\ q.form.current \in Passwords
    BY <1>2, <1>4, LiveUser, UserFields DEF Called, Verified
  <2> DEFINE n == [q EXCEPT !.uid = i, !.user = users[i]]
  <2>2. /\ n \in Request /\ n.uid = i /\ n.kind = q.kind /\ n.form = q.form
        /\ n.worker = q.worker /\ n.end = "none" /\ n.user = users[i]
    BY <1>2, <2>1 DEF Request
  <2>3. Goto(r, n, "rehash")
    BY <1>4
  <2>4. LoopMoves(r) /\ (q.kind = "login" => loop'[q.worker] = r)
    BY <1>1, <1>2, <1>4, HoldLoop, KeepLoop DEF InTurn
  <2> HIDE DEF n, q
  <2>5. "rehash" \in Phases
    BY DEF Phases
  <2>6. /\ req'[r].phase = "rehash" /\ req'[r].kind = q.kind /\ req'[r].form = q.form
        /\ req'[r].worker = q.worker /\ req'[r].uid = i /\ req'[r].end = "none"
        /\ req'[r].user = users[i]
    BY <1>2, <2>2, <2>3, <2>5, GotoFields
  <2>7. Fits(req'[r]) /\ (Holding(req'[r]) => q.kind = "login")
    BY <1>2, <2>1, <2>6 DEF Fits, Holding, Editing, Deleting
  <2>8. QED
    BY <1>1, <2>2, <2>3, <2>4, <2>5, <2>7, GotoKeeps, TablesKept
<1>5. QED
  BY <1>1, <1>3, <1>4

LEMMA RehashedRow ==
  ASSUME TablesOK, NEW i \in Live, NEW password \in Passwords,
         users' = [users EXCEPT ![i].password = password, ![i].legacy = FALSE]
  PROVE  /\ users' = [users EXCEPT ![i] = users'[i]] /\ users'[i] \in User
         /\ users'[i].name = users[i].name /\ users'[i].role = users[i].role
         /\ users'[i].active = users[i].active /\ users'[i].password = password
<1> DEFINE row == [users[i] EXCEPT !.password = password, !.legacy = FALSE]
<1>1. i \in Ids /\ users[i] \in User
  BY LiveUser
<1>2. /\ row \in User /\ row.name = users[i].name /\ row.role = users[i].role
      /\ row.active = users[i].active /\ row.password = password
  BY <1>1 DEF User
<1>3. users' = [users EXCEPT ![i] = row] /\ users'[i] = row
  BY <1>1 DEF TablesOK
<1>4. QED
  BY <1>2, <1>3

LEMMA RehashKeeps ==
  ASSUME UserInv, NEW r \in Requests, Rehash(r)
  PROVE  UserInv'
<1> DEFINE q == req[r]
           stores == q.user.legacy /\ q.uid \in Live
<1>1. /\ q.phase = "rehash" /\ Goto(r, q, "token") /\ KeepsLoop
      /\ IF stores
         THEN /\ users' = [users EXCEPT ![q.uid].password = q.form.current, ![q.uid].legacy = FALSE]
              /\ UNCHANGED <<sessions, audit, server, restarts, demand>>
         ELSE KeepsTables
  BY DEF Rehash, At
<1>2. /\ q \in Request /\ Fits(q) /\ TablesOK /\ q.form \in Form /\ q.kind = q.form.kind
      /\ q.kind \in {"login", "apiLogin"} /\ q.worker \in Workers /\ q.end = "none"
      /\ q.uid \in Ids /\ q.user \in User /\ q.form.current \in Passwords
  BY <1>1, ReqTyped DEF Fits
<1>3. TablesOK' /\ UNCHANGED <<server, restarts, demand>>
  <2>1. CASE stores
    BY <1>1, <2>1, <1>2, RehashedRow, UserChanged
  <2>2. CASE ~stores
    BY <1>1, <2>2, TablesKept
  <2>3. QED
    BY <2>1, <2>2
<1>4. "token" \in Phases
  BY DEF Phases
<1>5. /\ req'[r].phase = "token" /\ req'[r].kind = q.kind /\ req'[r].form = q.form
      /\ req'[r].worker = q.worker /\ req'[r].uid = q.uid /\ req'[r].end = "none"
      /\ req'[r].user = q.user
  BY <1>1, <1>2, <1>4, GotoFields
<1>6. Fits(req'[r])
  BY <1>2, <1>5 DEF Fits, Editing, Deleting
<1>7. Holding(req'[r]) => Holding(q) /\ loop[q.worker] = r
  BY <1>1, <1>5, HolderReads DEF Holding, Editing, Deleting
<1>8. Holding(req'[r]) => loop'[q.worker] = r
  BY <1>1, <1>7 DEF KeepsLoop
<1>9. QED
  BY <1>1, <1>2, <1>3, <1>4, <1>6, <1>8, KeepLoop, GotoKeeps

LEMMA OpenSessionKeeps ==
  ASSUME UserInv, NEW r \in Requests, OpenSession(r)
  PROVE  UserInv'
<1> DEFINE q == req[r]
<1>1. /\ q.phase = "token"
      /\ IF q.uid \in Live
         THEN /\ sessions' = [sessions EXCEPT ![r] = q.uid]
              /\ Stop(r, q, "done") /\ UNCHANGED <<users, audit, server, restarts, demand>>
         ELSE Stop(r, q, "error") /\ KeepsTables
  BY DEF OpenSession, At
<1>2. q \in Request /\ TablesOK /\ r \in Tokens
  BY ReqTyped, UserAssumption
<1>3. CASE q.uid \in Live
  <2>1. TablesOK'
    BY <1>1, <1>2, <1>3, SessionStored DEF Live
  <2>2. QED
    BY <1>1, <1>2, <1>3, <2>1, StopKeeps DEF Ends
<1>4. CASE q.uid \notin Live
  BY <1>1, <1>4, StopReads DEF Ends
<1>5. QED
  BY <1>3, <1>4

LEMMA LogoutKeeps ==
  ASSUME UserInv, NEW r \in Requests, Logout(r)
  PROVE  UserInv'
<1> DEFINE q == req[r]
<1>1. /\ q.phase = "logout" /\ Stop(r, q, "done")
      /\ \/ /\ q.form.token # Nil
            /\ sessions' = [sessions EXCEPT ![q.form.token] = Nil]
            /\ UNCHANGED <<users, audit, server, restarts, demand>>
         \/ KeepsTables
  BY DEF Logout, At
<1>2. q \in Request /\ TablesOK /\ q.form \in Form
  BY <1>1, ReqTyped DEF Fits
<1>3. CASE KeepsTables
  BY <1>1, <1>3, StopReads DEF Ends
<1>4. CASE /\ q.form.token # Nil
           /\ sessions' = [sessions EXCEPT ![q.form.token] = Nil]
           /\ UNCHANGED <<users, audit, server, restarts, demand>>
  <2>1. q.form.token \in Tokens
    BY <1>2, <1>4, FormFields
  <2>2. TablesOK'
    BY <1>2, <1>4, <2>1, SessionStored
  <2>3. QED
    BY <1>1, <1>2, <1>4, <2>2, StopKeeps DEF Ends
<1>5. QED
  BY <1>1, <1>3, <1>4

(* Processes.                                                              *)
LEMMA RequestsKept ==
  ASSUME UserInv, TablesOK', UNCHANGED <<req, loop, restarts, demand>>,
         server' \in [Workers -> {"off", "empty", "up"}]
  PROVE  UserInv'
  BY DEF UserInv

LEMMA BootKeeps ==
  ASSUME UserInv, NEW w \in Workers, Boot(w)
  PROVE  UserInv'
<1>1. /\ server' = [server EXCEPT ![w] = IF Live = {} THEN "empty" ELSE "up"]
      /\ UNCHANGED <<users, sessions, audit, req, loop, restarts, demand>>
  BY DEF Boot, tables
<1>2. server' \in [Workers -> {"off", "empty", "up"}]
  BY <1>1 DEF UserInv
<1>3. TablesOK'
  BY <1>1 DEF UserInv, TablesOK
<1>4. QED
  BY <1>1, <1>2, <1>3, RequestsKept

AdminRow == [name |-> Admin, password |-> AdminPassword, legacy |-> FALSE,
             role |-> "Superuser", active |-> TRUE]

LEMMA AdminTyped == AdminRow \in User /\ AdminRow.name = Admin
  BY UserAssumption DEF AdminRow, User, Roles

LEMMA BootstrapKeeps ==
  ASSUME UserInv, NEW w \in Workers, Bootstrap(w)
  PROVE  UserInv'
<1>1. /\ UNCHANGED <<sessions, audit, req, loop, restarts, demand>>
      /\ server' \in [Workers -> {"off", "empty", "up"}]
      /\ \/ UNCHANGED users
         \/ /\ Called(Admin) = {}
            /\ \E i \in Ids : NextId(i) /\ users' = [users EXCEPT ![i] = AdminRow]
  BY DEF Bootstrap, UserInv, AdminRow
<1>2. TablesOK
  BY DEF UserInv
<1>3. TablesOK'
  <2>1. CASE UNCHANGED users
    BY <1>1, <1>2, <2>1 DEF TablesOK
  <2>2. CASE /\ Called(Admin) = {}
             /\ \E i \in Ids : NextId(i) /\ users' = [users EXCEPT ![i] = AdminRow]
    BY <1>1, <1>2, <2>2, AdminTyped, UserAdded
  <2>3. QED
    BY <1>1, <2>1, <2>2
<1>4. QED
  BY <1>1, <1>3, RequestsKept

LEMMA CrashKeeps ==
  ASSUME UserInv, NEW w \in Workers, Crash(w)
  PROVE  UserInv'
<1>1. /\ restarts' = restarts + 1 /\ server' = [server EXCEPT ![w] = "off"]
      /\ req' = [r \in Requests |->
           IF req[r].worker = w /\ req[r].phase # "ended"
           THEN [req[r] EXCEPT !.phase = "ended", !.end = "killed"] ELSE req[r]]
      /\ loop' = [loop EXCEPT ![w] = Nil]
      /\ UNCHANGED <<users, sessions, audit, demand>>
  BY DEF Crash, tables
<1>2. restarts' \in Nat
  <2>1. restarts \in Nat
    BY DEF UserInv
  <2>2. restarts' = restarts + 1
    BY <1>1
  <2>3. QED
    BY <2>1, <2>2
<1>3. /\ server' \in [Workers -> {"off", "empty", "up"}]
      /\ loop' \in [Workers -> Requests \union {Nil}]
      /\ \A v \in Workers : v # w => loop'[v] = loop[v]
  BY <1>1 DEF UserInv
<1>4. TablesOK'
  BY <1>1 DEF UserInv, TablesOK
<1>5. ASSUME NEW r \in Requests
      PROVE  /\ req'[r] \in Request /\ Fits(req'[r])
             /\ Holding(req'[r]) => loop'[req'[r].worker] = r
  <2>1. /\ req[r] \in Request /\ Fits(req[r])
        /\ Holding(req[r]) => loop[req[r].worker] = r
    BY DEF UserInv
  <2>2. CASE req[r].worker = w /\ req[r].phase # "ended"
    <3> DEFINE q == req[r]
               n == [q EXCEPT !.phase = "ended", !.end = "killed"]
    <3>1. req'[r] = n
      BY <1>1, <2>2
    <3>2. /\ n \in Request /\ n.phase = "ended" /\ n.end = "killed" /\ n.kind = q.kind
          /\ n.form = q.form /\ n.worker = q.worker
      BY <2>1 DEF Request, Phases, Ends
    <3>3. q.phase # "new"
      BY <2>1, <2>2, NilIsNothing DEF Fits, Blank
    <3> HIDE DEF n, q
    <3>4. Fits(n) /\ ~Holding(n)
      BY <2>1, <3>2, <3>3 DEF Fits, Holding, Editing, Deleting, q
    <3>5. QED
      BY <3>1, <3>2, <3>4
  <2>3. CASE req[r].phase = "ended"
    BY <1>1, <2>1, <2>3 DEF Holding, Editing, Deleting
  <2>4. CASE req[r].worker # w
    <3>1. req'[r] = req[r]
      BY <1>1, <2>4
    <3>2. Holding(req[r]) => req[r].worker \in Workers
      BY HolderReads
    <3>3. QED
      BY <1>3, <2>1, <2>4, <3>1, <3>2
  <2>5. QED
    BY <2>2, <2>3, <2>4
<1>6. req' \in [Requests -> Request]
  <2>1. /\ req' = [r \in Requests |-> req'[r]] /\ \A r \in Requests : req'[r] \in Request
    BY <1>1, <1>5
  <2>2. QED
    BY <2>1
<1>7. demand' \in DOMAIN Demands
  BY <1>1 DEF UserInv
<1>8. QED
  BY <1>2, <1>3, <1>4, <1>5, <1>6, <1>7 DEF UserInv

LEMMA UserInit ==
  ASSUME Init
  PROVE  UserInv
<1>1. /\ demand \in DOMAIN Demands /\ audit = {} /\ req = [r \in Requests |-> Blank]
      /\ loop = [w \in Workers |-> Nil] /\ server = [w \in Workers |-> "off"] /\ restarts = 0
  BY DEF Init
<1>2. PICK s \in Asked.seeds : users = s.users /\ sessions = s.sessions
  BY DEF Init
<1>3. SeedOK(s)
  BY <1>1, UserAssumption DEF Asked, DemandOK
<1>4. TablesOK
  BY <1>1, <1>2, <1>3 DEF SeedOK, TablesOK
<1>5. /\ req \in [Requests -> Request] /\ loop \in [Workers -> Requests \union {Nil}]
      /\ server \in [Workers -> {"off", "empty", "up"}] /\ restarts \in Nat
  BY <1>1, BlankTyped
<1>6. Fits(Blank) /\ ~Holding(Blank)
  BY BlankTyped DEF Fits, Holding, Editing, Deleting
<1>7. QED
  BY <1>1, <1>4, <1>5, <1>6 DEF UserInv

LEMMA UserStep ==
  ASSUME UserInv, [Next]_vars
  PROVE  UserInv'
<1>1. ASSUME NEW r \in Requests, Arrive(r) \/ Step(r)
      PROVE  UserInv'
  BY <1>1, ArriveKeeps, FindSessionKeeps, FindUserKeeps, CreateKeeps, RecordCreateKeeps,
     EditKeeps, EditRoleKeeps, EditActiveKeeps, EditPasswordKeeps, RecordEditKeeps,
     DeleteKeeps, RecordDeleteKeeps, DeleteUserKeeps, ChangePasswordKeeps,
     RecordPasswordKeeps, LoginKeeps, RehashKeeps, OpenSessionKeeps, LogoutKeeps
     DEF Step, Handler
<1>2. ASSUME NEW w \in Workers, Boot(w) \/ Bootstrap(w) \/ Crash(w)
      PROVE  UserInv'
  BY <1>2, BootKeeps, BootstrapKeeps, CrashKeeps
<1>3. CASE UNCHANGED vars
  BY <1>3 DEF UserInv, TablesOK, vars
<1>4. QED
  BY <1>1, <1>2, <1>3 DEF Next

(* However many processes and requests: accounts, sessions and entries     *)
(* refer to each other as the schema says, every request carries what its  *)
(* phase needs, and a form that has begun keeps the loop of its process.   *)
THEOREM UserInductive == Spec => []UserInv
<1>1. QED
  BY UserInit, UserStep, PTL DEF Spec

(* Types, unique names, and sessions and entries of users there are.       *)
THEOREM UserTypeCorrect == Spec => []UserTypeOK
<1>1. ASSUME UserInv
      PROVE  UserTypeOK
  <2>1. TablesOK
    BY <1>1 DEF UserInv
  <2>2. sessions \in [Tokens -> Live \union {Nil}]
    BY <2>1 DEF TablesOK, Live
  <2>3. \A e \in audit : e.actor \in Live \union {Nil} /\ e.id \in Ids /\ e.name \in Names
    BY <2>1 DEF TablesOK, Live, Entry
  <2>4. \A i, k \in Live : users[i].name = users[k].name => i = k
    BY <2>1 DEF TablesOK, Live
  <2>5. QED
    BY <1>1, <2>1, <2>2, <2>3, <2>4 DEF UserTypeOK, UserInv, TablesOK
<1>2. QED
  BY <1>1, UserInductive, PTL

-----------------------------------------------------------------------------
(* ProcessInv: steps after which the accounts have the names, roles and    *)
(* states that they had.                                                   *)

Alike ==
  \A i \in Ids :
    /\ (users'[i] = Nil) <=> (users[i] = Nil)
    /\ users[i] # Nil => /\ users'[i].name = users[i].name
                         /\ users'[i].role = users[i].role
                         /\ users'[i].active = users[i].active

(* Who goes has an entry.                                                  *)
Accounted ==
  \A i \in Ids : users[i] # Nil /\ users'[i] = Nil =>
    \E e \in audit : e.action = "DELETE" /\ e.id = i /\ e.name = users[i].name

LEMMA SameAlike ==
  ASSUME UNCHANGED users
  PROVE  Alike
  BY DEF Alike

LEMMA TablesAlike ==
  ASSUME KeepsTables
  PROVE  Alike /\ audit \subseteq audit' /\ UNCHANGED <<users, audit, server>>
  BY DEF Alike, KeepsTables, tables

LEMMA RowAlike ==
  ASSUME TablesOK, NEW i \in Live, NEW row \in User, users' = [users EXCEPT ![i] = row],
         row.name = users[i].name, row.role = users[i].role, row.active = users[i].active
  PROVE  Alike
<1>1. i \in Ids /\ users[i] # Nil /\ row # Nil
  BY LiveUser, UserFields
<1>2. users'[i] = row /\ \A k \in Ids \ {i} : users'[k] = users[k]
  BY <1>1 DEF TablesOK
<1>3. QED
  BY <1>1, <1>2 DEF Alike

LEMMA AlikeKept ==
  ASSUME Alike
  PROVE  /\ Live' = Live /\ ActiveSuperusers' = ActiveSuperusers /\ Accounted
         /\ \A i \in Ids : Spare(i) /\ i \in Live => Spare(i)'
<1>1. Live' = Live
  BY DEF Alike, Live
<1>2. \A i \in Live : users'[i].role = users[i].role /\ users'[i].active = users[i].active
  BY DEF Alike, Live
<1>3. QED
  BY <1>1, <1>2 DEF Alike, ActiveSuperusers, Accounted, Spare

LEMMA FreshKept ==
  ASSUME Alike, audit \subseteq audit', NEW s \in Requests, req'[s] = req[s], Fresh(s),
         req[s].phase \in Editing \union Deleting => req[s].form.id \in Ids
  PROVE  Fresh(s)'
<1> DEFINE id == req[s].form.id
<1>1. CASE req[s].phase \in Editing \union Deleting
  <2>1. id \in Live' /\ id \in Ids /\ users'[id].name = users[id].name
        /\ users'[id].role = users[id].role
    BY <1>1, AlikeKept DEF Fresh, Alike, Live
  <2>2. Spare(id) => \A i \in Ids : i = id => Spare(i)'
    BY <1>1, AlikeKept DEF Fresh
  <2>3. /\ req'[s].phase \in {"role", "active"} /\ ~req'[s].form.active
             => \A i \in Ids : i = id => Spare(i)'
        /\ req'[s].phase \in Deleting => \A i \in Ids : i = id => Spare(i)'
    BY <1>1, <2>2 DEF Fresh
  <2>4. QED
    BY <1>1, <2>1, <2>3 DEF Fresh, Spare
<1>2. CASE req[s].phase \notin Editing \union Deleting
  BY <1>2 DEF Fresh
<1>3. QED
  BY <1>1, <1>2

(* Whoever holds the only loop is alone.                                   *)
LEMMA HolderActive ==
  ASSUME NEW w, OneProcess(w), UserInv, ProcessInv(w), NEW r \in Requests, Active(req[r])
  PROVE  /\ req[r].worker = w /\ w \in Workers /\ server[w] = "up"
         /\ ActiveSuperusers # {} /\ (Holding(req[r]) => loop[w] = r)
  BY DEF OneProcess, ProcessInv, UserInv

LEMMA HoldingActive ==
  ASSUME NEW r, Holding(req[r])
  PROVE  Active(req[r])
  BY DEF Holding, Active, Editing, Deleting

LEMMA HolderAlone ==
  ASSUME NEW w, OneProcess(w), UserInv, ProcessInv(w), NEW r \in Requests, Active(req[r]),
         Holding(req[r]) \/ loop[req[r].worker] = Nil
  PROVE  \A s \in Requests \ {r} : ~Holding(req[s])
<1>1. SUFFICES ASSUME NEW s \in Requests, Holding(req[s])
               PROVE  s = r
  OBVIOUS
<1>2. loop[w] = s /\ s # Nil
  BY <1>1, HolderActive, HoldingActive, NilIsNothing
<1>3. loop[w] = r \/ loop[w] = Nil
  BY HolderActive
<1>4. QED
  BY <1>2, <1>3

LEMMA ProcessGoes ==
  ASSUME NEW w, OneProcess(w), UserInv, ProcessInv(w), NEW r \in Requests,
         req' = [req EXCEPT ![r] = req'[r]], UNCHANGED server, server[w] = "up",
         Active(req'[r]) => req'[r].worker = w, ActiveSuperusers' # {}, Fresh(r)',
         \/ \A s \in Requests \ {r} : ~Holding(req[s])
         \/ Alike /\ audit \subseteq audit'
  PROVE  ProcessInv(w)'
<1>1. \A s \in Requests \ {r} : req'[s] = req[s]
  BY DEF UserInv
<1>2. ASSUME NEW s \in Requests
      PROVE  Fresh(s)'
  <2>1. CASE s = r
    BY <2>1
  <2>2. CASE s # r /\ Holding(req[s])
    <3>1. Fits(req[s]) /\ Fresh(s)
      BY DEF UserInv, ProcessInv
    <3>2. req[s].phase \in Editing \union Deleting => req[s].form.id \in Ids
      BY <3>1 DEF Fits
    <3>3. QED
      BY <1>1, <2>2, <3>1, <3>2, FreshKept
  <2>3. CASE s # r /\ ~Holding(req[s])
    BY <1>1, <2>3 DEF Fresh, Holding
  <2>4. QED
    BY <2>1, <2>2, <2>3
<1>3. ASSUME NEW s \in Requests, Active(req'[s])
      PROVE  req'[s].worker = w /\ server'[w] = "up"
  BY <1>1, <1>3 DEF ProcessInv
<1>4. Live' # {}
  BY DEF ActiveSuperusers
<1>5. \A v \in Workers : server'[v] # "off" => v = w
  BY DEF ProcessInv
<1>6. QED
  BY <1>2, <1>3, <1>4, <1>5 DEF ProcessInv

(* A step that reads, or ends the request.                                 *)
LEMMA ProcessReads ==
  ASSUME NEW w, OneProcess(w), UserInv, ProcessInv(w), NEW r \in Requests, Active(req[r]),
         Alike, audit \subseteq audit', UNCHANGED server,
         NEW q \in Request, q.worker = req[r].worker,
         \/ \E end \in Ends : Stop(r, q, end)
         \/ \E phase \in Phases \ (Editing \union Deleting) : Goto(r, q, phase)
  PROVE  ProcessInv(w)' /\ Accounted
<1> DEFINE Left == /\ req' = [req EXCEPT ![r] = req'[r]] /\ req'[r].worker = q.worker
                   /\ req'[r].phase \notin Editing \union Deleting
<1>1. Left
  <2>1. ASSUME NEW end \in Ends, Stop(r, q, end)
        PROVE  Left
    <3>1. /\ req' = [req EXCEPT ![r] = req'[r]] /\ req'[r].worker = q.worker
          /\ req'[r].phase = "ended"
      BY <2>1, StopFields
    <3>2. QED
      BY <3>1 DEF Editing, Deleting
  <2>2. ASSUME NEW phase \in Phases \ (Editing \union Deleting), Goto(r, q, phase)
        PROVE  Left
    BY <2>2, GotoFields
  <2>3. QED
    BY <2>1, <2>2
<1>2. QED
  BY <1>1, AlikeKept, HolderActive, ProcessGoes DEF Fresh

-----------------------------------------------------------------------------
(* ProcessInv: the actions, for the one process w.                         *)

LEMMA ArriveAlone ==
  ASSUME NEW w, OneProcess(w), UserInv, ProcessInv(w), NEW r \in Requests, Arrive(r)
  PROVE  ProcessInv(w)' /\ Accounted
<1>1. PICK f \in Asked.forms, v \in Workers :
         /\ server[v] = "up"
         /\ Goto(r, [Blank EXCEPT !.kind = f.kind, !.form = f, !.worker = v],
                   CASE f.kind \in {"login", "apiLogin"} -> "login"
                     [] f.kind = "logout" -> "logout"
                     [] OTHER -> "session")
  BY DEF Arrive
<1>2. f \in Form /\ f.kind \in Kinds
  BY AskedType, FormFields DEF DemandOK
<1> DEFINE q == [Blank EXCEPT !.kind = f.kind, !.form = f, !.worker = v]
           phase == CASE f.kind \in {"login", "apiLogin"} -> "login"
                      [] f.kind = "logout" -> "logout"
                      [] OTHER -> "session"
<1>3. q \in Request /\ q.worker = v
  BY <1>2 DEF Blank, Request, Ends, Phases, Kinds
<1>4. phase \in {"login", "logout", "session"}
  BY Zenon
<1>5. Goto(r, q, phase)
  BY <1>1
<1> HIDE DEF q, phase
<1>6. /\ phase \in Phases
      /\ phase \notin Editing \union Deleting
  BY <1>4 DEF Phases, Editing, Deleting
<1>7. /\ req' = [req EXCEPT ![r] = req'[r]] /\ req'[r].worker = v
      /\ req'[r].phase \notin Editing \union Deleting
  BY <1>3, <1>5, <1>6, GotoFields
<1>8. v = w /\ server[w] = "up"
  BY <1>1 DEF ProcessInv
<1>9. Alike /\ audit \subseteq audit' /\ UNCHANGED server
  BY TablesAlike DEF Arrive
<1>10. ActiveSuperusers # {} /\ Fresh(r)'
  BY <1>7, <1>8 DEF ProcessInv, Fresh
<1>11. QED
  BY <1>7, <1>8, <1>9, <1>10, AlikeKept, ProcessGoes

LEMMA FindersAlone ==
  ASSUME NEW w, OneProcess(w), UserInv, ProcessInv(w), NEW r \in Requests,
         FindSession(r) \/ FindUser(r)
  PROVE  ProcessInv(w)' /\ Accounted
<1> DEFINE q == req[r]
<1>1. q \in Request /\ Fits(q) /\ TablesOK
  BY ReqTyped
<1>2. Active(q) /\ KeepsTables
  BY DEF Active, FindSession, FindUser, At
<1>3. "refused" \in Ends /\ "user" \in Phases \ (Editing \union Deleting)
      /\ "form" \in Phases \ (Editing \union Deleting)
  BY DEF Ends, Phases, Editing, Deleting
<1>4. CASE Stop(r, q, "refused")
  BY <1>1, <1>2, <1>3, <1>4, TablesAlike, ProcessReads
<1>5. CASE FindSession(r) /\ ~Stop(r, q, "refused")
  <2> DEFINE uid == IF q.form.token = Nil THEN Nil ELSE sessions[q.form.token]
             n == [q EXCEPT !.uid = uid]
  <2>1. uid # Nil /\ Goto(r, n, "user") /\ q.phase = "session"
    BY <1>5 DEF FindSession, At
  <2>2. uid \in Ids
    BY <1>1, <2>1, FormFields DEF TablesOK, Fits
  <2>3. n \in Request /\ n.worker = q.worker
    BY <1>1, <2>2 DEF Request
  <2> HIDE DEF n, uid
  <2>4. QED
    BY <1>2, <1>3, <2>1, <2>3, TablesAlike, ProcessReads
<1>6. CASE FindUser(r) /\ ~Stop(r, q, "refused")
  <2> DEFINE user == users[req[r].uid]
             n == [q EXCEPT !.user = user]
  <2>1. user # Nil /\ Goto(r, n, "form") /\ q.phase = "user"
    BY <1>6 DEF FindUser, At
  <2>2. user \in User
    BY <1>1, <2>1 DEF TablesOK, Fits
  <2>3. n \in Request /\ n.worker = q.worker
    BY <1>1, <2>2 DEF Request
  <2> HIDE DEF n, user
  <2>4. QED
    BY <1>2, <1>3, <2>1, <2>3, TablesAlike, ProcessReads
<1>7. QED
  BY <1>4, <1>5, <1>6

(* Entries of what is done, and refusals.                                  *)
LEMMA RecordersAlone ==
  ASSUME NEW w, OneProcess(w), UserInv, ProcessInv(w), NEW r \in Requests,
         RecordCreate(r) \/ RecordEdit(r) \/ RecordPassword(r)
  PROVE  ProcessInv(w)' /\ Accounted
<1> DEFINE q == req[r]
<1>1. q \in Request /\ Active(q)
  BY ReqTyped DEF Active, RecordCreate, RecordEdit, RecordPassword, At
<1>2. /\ \E end \in {"done", "error"} : Stop(r, q, end)
      /\ audit \subseteq audit' /\ UNCHANGED <<users, server>>
  BY DEF RecordCreate, RecordEdit, RecordPassword, Record, KeepsTables, tables
<1>3. "done" \in Ends /\ "error" \in Ends
  BY DEF Ends
<1>4. QED
  BY <1>1, <1>2, <1>3, SameAlike, ProcessReads

LEMMA BeginAlone ==
  ASSUME NEW w, OneProcess(w), UserInv, ProcessInv(w), NEW r \in Requests, NEW kind,
         Begin(r, kind)
  PROVE  /\ Active(req[r]) /\ req[r].worker = w /\ w \in Workers /\ server[w] = "up"
         /\ ActiveSuperusers # {} /\ \A s \in Requests \ {r} : ~Holding(req[s])
<1>1. Active(req[r]) /\ loop[req[r].worker] = Nil
  BY DEF Begin, At, Active
<1>2. QED
  BY <1>1, HolderActive, HolderAlone

LEMMA CreateAlone ==
  ASSUME NEW w, OneProcess(w), UserInv, ProcessInv(w), NEW r \in Requests, Create(r)
  PROVE  ProcessInv(w)' /\ Accounted
<1> DEFINE q == req[r]
           f == req[r].form
           Row == [name |-> f.name, password |-> f.password, legacy |-> FALSE,
                   role |-> IF f.editor THEN "Editor" ELSE "Viewer", active |-> f.active]
<1>1. /\ Begin(r, "create")
      /\ \/ Stop(r, q, "refused") /\ KeepsTables
         \/ /\ Nil \notin {f.name, f.password} /\ Called(f.name) = {}
            /\ \E i \in Ids :
                 /\ NextId(i)
                 /\ users' = [users EXCEPT ![i] = Row]
                 /\ Goto(r, [q EXCEPT !.made = i, !.changed = TRUE], "created")
            /\ Holds(r) /\ UNCHANGED <<sessions, audit, server, restarts, demand>>
  BY DEF Create
<1>2. q \in Request /\ f \in Form /\ TablesOK
  BY <1>1, BeginReads, ReqTyped
<1>3. CASE Stop(r, q, "refused") /\ KeepsTables
  BY <1>1, <1>2, <1>3, BeginAlone, TablesAlike, ProcessReads DEF Ends
<1>4. ASSUME NEW i \in Ids, NextId(i), Nil \notin {f.name, f.password},
             Called(f.name) = {}, users' = [users EXCEPT ![i] = Row],
             Goto(r, [q EXCEPT !.made = i, !.changed = TRUE], "created"),
             UNCHANGED <<sessions, audit, server, restarts, demand>>
      PROVE  ProcessInv(w)' /\ Accounted
  <2>1. Row \in User /\ Row.name = f.name
    BY <1>2, <1>4, FormFields DEF User, Roles
  <2>2. users[i] = Nil
    BY <1>2, <1>4, <2>1, UserAdded
  <2>3. \A k \in Live : k \in Ids /\ users'[k] = users[k]
    BY <1>2, <1>4, <2>2 DEF Live, TablesOK
  <2>4. ActiveSuperusers' # {} /\ Accounted
    <3>1. PICK k \in ActiveSuperusers : TRUE
      BY <1>1, BeginAlone
    <3>2. k \in Live /\ k \in ActiveSuperusers'
      BY <2>3 DEF ActiveSuperusers, Live
    <3>3. \A m \in Ids : users[m] # Nil => users'[m] # Nil
      BY <2>3 DEF Live
    <3>4. QED
      BY <3>2, <3>3 DEF Accounted
  <2> DEFINE n == [q EXCEPT !.made = i, !.changed = TRUE]
  <2>5. n \in Request /\ n.worker = q.worker /\ Goto(r, n, "created")
    BY <1>2, <1>4 DEF Request
  <2> HIDE DEF n, q, f
  <2>6. "created" \in Phases /\ "created" \notin Editing \union Deleting
    BY DEF Phases, Editing, Deleting
  <2>7. /\ req' = [req EXCEPT ![r] = req'[r]] /\ req'[r].worker = q.worker
        /\ req'[r].phase \notin Editing \union Deleting
    BY <2>5, <2>6, GotoFields
  <2>8. Fresh(r)'
    BY <2>7 DEF Fresh
  <2>9. q.worker = w /\ server[w] = "up" /\ \A s \in Requests \ {r} : ~Holding(req[s])
    BY <1>1, BeginAlone DEF q
  <2>10. QED
    BY <1>4, <2>4, <2>7, <2>8, <2>9, ProcessGoes
<1>5. QED
  BY <1>1, <1>3, <1>4

(* More than one: another one.                                             *)
LEMMA AnotherOne ==
  ASSUME UserInv, NEW i \in Live, CanDeactivate(i)
  PROVE  Spare(i)
<1>1. SUFFICES ASSUME users[i].role = "Superuser", ActiveSuperusers \subseteq {i}
               PROVE  FALSE
  BY DEF Spare, ActiveSuperusers
<1>2. IsFiniteSet({i}) /\ Cardinality({i}) = 1
  BY FS_Singleton
<1>3. IsFiniteSet(ActiveSuperusers) /\ Cardinality(ActiveSuperusers) <= 1
  BY <1>1, <1>2, FS_Subset
<1>4. Cardinality(ActiveSuperusers) > 1 /\ Cardinality(ActiveSuperusers) \in Nat
  BY <1>1, <1>3, FS_CardinalityType DEF CanDeactivate
<1>5. QED
  BY <1>3, <1>4

LEMMA EditAlone ==
  ASSUME NEW w, OneProcess(w), UserInv, ProcessInv(w), NEW r \in Requests, Edit(r)
  PROVE  ProcessInv(w)' /\ Accounted
<1> DEFINE q == req[r]
           f == req[r].form
           bad == \/ f.id \notin Live
                  \/ users[f.id].role = "Superuser" /\ ~f.editor
                  \/ ~f.active /\ ~CanDeactivate(f.id)
<1>1. /\ Begin(r, "edit") /\ KeepsTables
      /\ IF bad THEN Stop(r, q, "refused")
                ELSE Goto(r, [q EXCEPT !.target = users[f.id]], "role") /\ Holds(r)
  BY DEF Edit
<1>2. q \in Request /\ f \in Form /\ TablesOK
  BY <1>1, BeginReads, ReqTyped
<1>3. CASE bad
  BY <1>1, <1>2, <1>3, BeginAlone, TablesAlike, ProcessReads DEF Ends
<1>4. CASE ~bad
  <2>1. f.id \in Live /\ f.id \in Ids /\ users[f.id] \in User
    BY <1>2, <1>4, LiveUser
  <2>2. ~f.active => Spare(f.id)
    BY <1>4, <2>1, AnotherOne
  <2> DEFINE n == [q EXCEPT !.target = users[f.id]]
  <2>3. /\ n \in Request /\ n.form = f /\ n.worker = q.worker /\ n.target = users[f.id]
    BY <1>2, <2>1 DEF Request
  <2>4. Goto(r, n, "role")
    BY <1>1, <1>4
  <2> HIDE DEF n
  <2>5. "role" \in Phases
    BY DEF Phases, Editing
  <2>6. /\ req' = [req EXCEPT ![r] = req'[r]] /\ req'[r].worker = q.worker
        /\ req'[r].phase = "role" /\ req'[r].form = f /\ req'[r].target = users[f.id]
    BY <2>3, <2>4, <2>5, GotoFields
  <2>7. UNCHANGED <<users, audit, server>>
    BY <1>1, TablesAlike
  <2>8. Fresh(r)'
    BY <2>1, <2>2, <2>6, <2>7 DEF Fresh, Spare, Live, Deleting
  <2>9. QED
    BY <1>1, <2>6, <2>7, <2>8, BeginAlone, SameAlike, AlikeKept, ProcessGoes
<1>5. QED
  BY <1>3, <1>4

LEMMA DeleteAlone ==
  ASSUME NEW w, OneProcess(w), UserInv, ProcessInv(w), NEW r \in Requests, Delete(r)
  PROVE  ProcessInv(w)' /\ Accounted
<1> DEFINE q == req[r]
           f == req[r].form
<1>1. /\ Begin(r, "delete") /\ KeepsTables
      /\ IF DeleteAllowed(q, f.id)
         THEN Goto(r, [q EXCEPT !.target = users[f.id]], "deleting") /\ Holds(r)
         ELSE Stop(r, q, "refused")
  BY DEF Delete
<1>2. q \in Request /\ f \in Form /\ TablesOK
  BY <1>1, BeginReads, ReqTyped
<1>3. CASE ~DeleteAllowed(q, f.id)
  BY <1>1, <1>2, <1>3, BeginAlone, TablesAlike, ProcessReads DEF Ends
<1>4. CASE DeleteAllowed(q, f.id)
  <2>1. f.id \in Live /\ f.id \in Ids /\ users[f.id] \in User
    BY <1>2, <1>4, LiveUser DEF DeleteAllowed
  <2>2. Spare(f.id)
    BY <1>4, <2>1, AnotherOne DEF DeleteAllowed
  <2> DEFINE n == [q EXCEPT !.target = users[f.id]]
  <2>3. /\ n \in Request /\ n.form = f /\ n.worker = q.worker /\ n.target = users[f.id]
    BY <1>2, <2>1 DEF Request
  <2>4. Goto(r, n, "deleting")
    BY <1>1, <1>4
  <2> HIDE DEF n
  <2>5. "deleting" \in Phases
    BY DEF Phases, Deleting
  <2>6. /\ req' = [req EXCEPT ![r] = req'[r]] /\ req'[r].worker = q.worker
        /\ req'[r].phase = "deleting" /\ req'[r].form = f /\ req'[r].target = users[f.id]
    BY <2>3, <2>4, <2>5, GotoFields
  <2>7. UNCHANGED <<users, audit, server>>
    BY <1>1, TablesAlike
  <2>8. Fresh(r)'
    BY <2>1, <2>2, <2>6, <2>7 DEF Fresh, Spare, Live
  <2>9. QED
    BY <1>1, <2>6, <2>7, <2>8, BeginAlone, SameAlike, AlikeKept, ProcessGoes
<1>5. QED
  BY <1>3, <1>4

(* One of the updates of an edit.                                          *)
LEMMA UpdatesAlone ==
  ASSUME NEW w, OneProcess(w), UserInv, ProcessInv(w), NEW r \in Requests,
         req[r].phase \in Editing, NEW differs, NEW row \in User,
         row.name = users[req[r].form.id].name, NEW next \in Editing,
         Updates(r, differs, row, next),
         next = "active" /\ ~req[r].form.active => Spare(req[r].form.id) /\
            (differs => row.role # "Superuser"),
         next # "role",
         differs => \/ /\ row.role = users[req[r].form.id].role
                       /\ row.active \in {TRUE, users[req[r].form.id].active}
                    \/ users[req[r].form.id].role # "Superuser"
                    \/ Spare(req[r].form.id)
  PROVE  ProcessInv(w)' /\ Accounted
<1> DEFINE q == req[r]
           id == req[r].form.id
<1>1. /\ IF differs /\ id \in Live
         THEN /\ users' = [users EXCEPT ![id] = row]
              /\ Goto(r, [q EXCEPT !.target = row, !.changed = TRUE], next)
              /\ UNCHANGED <<sessions, audit, server, restarts, demand>>
         ELSE Goto(r, q, next) /\ KeepsTables
  BY DEF Updates
<1>2. Holding(q) /\ Active(q)
  BY HoldingActive DEF Holding
<1>3. q \in Request /\ Fresh(r) /\ id \in Live /\ TablesOK
  BY <1>2, HolderReads, ReqTyped DEF ProcessInv, Fresh
<1>4. /\ next \in Phases /\ next \notin Deleting
      /\ next \in {"role", "active"} => next = "active"
  BY DEF Phases, Editing, Deleting
<1>5. /\ q.worker = w /\ server[w] = "up" /\ ActiveSuperusers # {}
      /\ \A s \in Requests \ {r} : ~Holding(req[s])
  BY <1>2, HolderActive, HolderAlone
<1>6. CASE differs
  <2> DEFINE n == [q EXCEPT !.target = row, !.changed = TRUE]
  <2>1. n \in Request /\ n.form = q.form /\ n.worker = q.worker /\ n.target = row
    BY <1>3 DEF Request
  <2>2. Goto(r, n, next) /\ users' = [users EXCEPT ![id] = row] /\ UNCHANGED <<audit, server>>
    BY <1>1, <1>3, <1>6
  <2> HIDE DEF n
  <2>3. /\ req' = [req EXCEPT ![r] = req'[r]] /\ req'[r].worker = q.worker
        /\ req'[r].phase = next /\ req'[r].form = q.form /\ req'[r].target = row
    BY <1>4, <2>1, <2>2, GotoFields
  <2>4. users'[id] = row /\ row # Nil /\ \A k \in Live : k # id => users'[k] = users[k]
    BY <1>3, <2>2, UserFields DEF TablesOK, Live
  <2>5. Live' = Live /\ Accounted
    BY <1>3, <2>2, <2>4 DEF Live, Accounted, TablesOK
  <2>6. ActiveSuperusers' # {}
    <3>1. CASE row.role = users[id].role /\ row.active \in {TRUE, users[id].active}
      BY <1>5, <2>4, <2>5, <3>1 DEF ActiveSuperusers
    <3>2. CASE users[id].role # "Superuser"
      BY <1>5, <2>4, <2>5, <3>2 DEF ActiveSuperusers
    <3>3. CASE users[id].role = "Superuser" /\ Spare(id)
      BY <2>4, <2>5, <3>3 DEF ActiveSuperusers, Spare
    <3>4. QED
      BY <1>6, <3>1, <3>2, <3>3
  <2>7. Fresh(r)'
    BY <1>3, <1>4, <1>6, <2>3, <2>4, <2>5 DEF Fresh, Spare, Deleting
  <2>8. QED
    BY <1>5, <2>2, <2>3, <2>5, <2>6, <2>7, ProcessGoes
<1>7. CASE ~differs
  <2>1. Goto(r, q, next) /\ UNCHANGED <<users, audit, server>>
    BY <1>1, <1>7, TablesAlike
  <2>2. /\ req' = [req EXCEPT ![r] = req'[r]] /\ req'[r].worker = q.worker
        /\ req'[r].phase = next /\ req'[r].form = q.form /\ req'[r].target = q.target
    BY <1>3, <1>4, <2>1, GotoFields
  <2>3. Fresh(r)'
    BY <1>3, <1>4, <2>1, <2>2 DEF Fresh, Spare, Live, Deleting
  <2>4. QED
    BY <1>5, <2>1, <2>2, <2>3, SameAlike, AlikeKept, ProcessGoes
<1>8. QED
  BY <1>6, <1>7

LEMMA EditsAlone ==
  ASSUME NEW w, OneProcess(w), UserInv, ProcessInv(w), NEW r \in Requests,
         EditRole(r) \/ EditActive(r) \/ EditPassword(r)
  PROVE  ProcessInv(w)' /\ Accounted
<1> DEFINE q == req[r]
           id == req[r].form.id
           f == req[r].form
<1>1. q.phase \in Editing
  BY DEF EditRole, EditActive, EditPassword, At, Editing
<1>2. /\ q \in Request /\ f \in Form /\ Fresh(r) /\ id \in Live /\ users[id] \in User
      /\ q.target.role = users[id].role
      /\ q.phase \in {"role", "active"} /\ ~f.active => Spare(id)
  <2>1. q \in Request /\ f \in Form /\ Fresh(r) /\ TablesOK
    BY <1>1, HolderReads, ReqTyped DEF Holding, ProcessInv
  <2>2. QED
    BY <1>1, <2>1, LiveUser DEF Fresh
<1>3. /\ f.active \in BOOLEAN /\ f.password \in Passwords \union {Nil} /\ f.editor \in BOOLEAN
  BY <1>2, FormFields
<1>4. "role" \in Editing /\ "active" \in Editing /\ "rotate" \in Editing /\ "edited" \in Editing
  BY DEF Editing
<1>5. CASE EditRole(r)
  <2> DEFINE role == IF req[r].form.editor THEN "Editor" ELSE "Viewer"
             row == [users[q.form.id] EXCEPT !.role = role]
             differs == q.target.role \notin {"Superuser", role}
  <2>1. q.phase = "role" /\ Updates(r, differs, row, "active")
    BY <1>5 DEF EditRole, At
  <2>2. /\ row \in User /\ row.name = users[id].name /\ row.role # "Superuser"
        /\ differs => users[id].role # "Superuser"
    BY <1>2, <1>3 DEF User, Roles
  <2>3. ~f.active => Spare(id)
    BY <1>2, <2>1
  <2> HIDE DEF row, differs
  <2>4. QED
    BY <1>1, <1>4, <2>1, <2>2, <2>3, UpdatesAlone
<1>6. CASE EditActive(r)
  <2> DEFINE row == [users[q.form.id] EXCEPT !.active = q.form.active]
             differs == q.target.active # q.form.active
  <2>1. q.phase = "active" /\ Updates(r, differs, row, "rotate")
    BY <1>6 DEF EditActive, At
  <2>2. /\ row \in User /\ row.name = users[id].name /\ row.role = users[id].role
        /\ row.active = f.active
    BY <1>2, <1>3 DEF User
  <2> HIDE DEF row, differs
  <2>3. CASE f.active = users[id].active \/ ~f.active
    <3>1. f.active = users[id].active \/ Spare(id)
      BY <1>2, <2>1, <2>3
    <3>2. QED
      BY <1>1, <1>4, <2>1, <2>2, <3>1, UpdatesAlone
  <2>4. CASE f.active
    BY <1>1, <1>4, <2>1, <2>2, <2>4, UpdatesAlone
  <2>5. QED
    BY <1>3, <2>3, <2>4
<1>7. CASE EditPassword(r)
  <2> DEFINE row == [users[q.form.id] EXCEPT !.password = q.form.password, !.legacy = FALSE]
  <2>1. q.phase = "rotate" /\ Updates(r, q.form.password # Nil, row, "edited")
    BY <1>7 DEF EditPassword, At
  <2>2. CASE f.password \in Passwords
    <3>1. /\ row \in User /\ row.name = users[id].name /\ row.role = users[id].role
          /\ row.active = users[id].active
      BY <1>2, <2>2 DEF User
    <3> HIDE DEF row
    <3>2. QED
      BY <1>1, <1>4, <2>1, <3>1, UpdatesAlone
  <2>3. CASE f.password = Nil
    <3>1. Updates(r, FALSE, users[id], "edited")
      BY <2>1, <2>3 DEF Updates
    <3>2. QED
      BY <1>1, <1>2, <1>4, <3>1, UpdatesAlone
  <2>4. QED
    BY <1>3, <2>2, <2>3
<1>8. QED
  BY <1>5, <1>6, <1>7

LEMMA RecordDeleteAlone ==
  ASSUME NEW w, OneProcess(w), UserInv, ProcessInv(w), NEW r \in Requests, RecordDelete(r)
  PROVE  ProcessInv(w)' /\ Accounted
<1> DEFINE q == req[r]
<1>1. q.phase = "deleting" /\ Record(r, q, "DELETE", q.form.id, q.target.name, "delete")
  BY DEF RecordDelete, At
<1>2. Holding(q) /\ Active(q) /\ q.phase \in Deleting
  BY <1>1, HoldingActive DEF Holding, Deleting
<1>3. q \in Request /\ Fresh(r)
  BY ReqTyped DEF ProcessInv
<1>4. CASE q.uid \in Live
  <2> DEFINE e == EntryOf(q.user, q.uid, "DELETE", q.form.id, q.target.name)
  <2>1. /\ audit' = audit \union {e} /\ Goto(r, q, "delete") /\ UNCHANGED <<users, server>>
    BY <1>1, <1>4 DEF Record
  <2>2. "delete" \in Phases
    BY DEF Phases, Deleting
  <2>3. /\ req' = [req EXCEPT ![r] = req'[r]] /\ req'[r].worker = q.worker
        /\ req'[r].phase = "delete" /\ req'[r].form = q.form /\ req'[r].target = q.target
    BY <1>3, <2>1, <2>2, GotoFields
  <2>4. e \in audit' /\ e.action = "DELETE" /\ e.id = q.form.id /\ e.name = q.target.name
    BY <2>1 DEF EntryOf
  <2> HIDE DEF e
  <2>5. /\ q.form.id \in Live /\ q.target.name = users[q.form.id].name
        /\ q.target.role = users[q.form.id].role /\ Spare(q.form.id)
    BY <1>2, <1>3 DEF Fresh
  <2>6. Fresh(r)'
    BY <2>1, <2>3, <2>4, <2>5 DEF Fresh, Spare, Live
  <2>7. /\ q.worker = w /\ server[w] = "up" /\ ActiveSuperusers # {}
    BY <1>2, HolderActive
  <2>8. QED
    BY <2>1, <2>3, <2>6, <2>7, SameAlike, AlikeKept, ProcessGoes
<1>5. CASE q.uid \notin Live
  <2>1. Stop(r, q, "error") /\ KeepsTables
    BY <1>1, <1>5 DEF Record
  <2>2. QED
    BY <1>2, <1>3, <2>1, TablesAlike, ProcessReads DEF Ends
<1>6. QED
  BY <1>4, <1>5

LEMMA DeleteUserAlone ==
  ASSUME NEW w, OneProcess(w), UserInv, ProcessInv(w), NEW r \in Requests, DeleteUser(r)
  PROVE  ProcessInv(w)' /\ Accounted
<1> DEFINE q == req[r]
           id == req[r].form.id
           n == [q EXCEPT !.changed = TRUE]
<1>1. /\ q.phase = "delete" /\ users' = [users EXCEPT ![id] = Nil]
      /\ Stop(r, n, "done") /\ UNCHANGED <<server, restarts, demand>>
  BY DEF DeleteUser, At
<1>2. Holding(q) /\ Active(q) /\ q.phase \in Deleting
  BY <1>1, HoldingActive DEF Holding, Deleting
<1>3. q \in Request /\ Fresh(r) /\ TablesOK
  BY ReqTyped DEF ProcessInv
<1>4. n \in Request /\ n.worker = q.worker
  BY <1>3 DEF Request
<1> HIDE DEF n
<1>5. /\ id \in Live /\ q.target.name = users[id].name /\ Spare(id)
      /\ \E e \in audit : e.action = "DELETE" /\ e.id = id /\ e.name = q.target.name
  BY <1>1, <1>2, <1>3 DEF Fresh
<1>6. \A k \in Live : k # id => k \in Live' /\ users'[k] = users[k]
  BY <1>1, <1>3 DEF Live, TablesOK
<1>7. Accounted
  BY <1>5, <1>6 DEF Accounted, Live
<1>8. /\ q.worker = w /\ server[w] = "up" /\ ActiveSuperusers # {}
      /\ \A s \in Requests \ {r} : ~Holding(req[s])
  BY <1>2, HolderActive, HolderAlone
<1>9. \E k \in ActiveSuperusers : k # id
  BY <1>5, <1>8 DEF Spare, ActiveSuperusers
<1>10. ActiveSuperusers' # {}
  BY <1>6, <1>9 DEF ActiveSuperusers
<1>11. /\ req' = [req EXCEPT ![r] = req'[r]] /\ req'[r].worker = q.worker
       /\ req'[r].phase = "ended"
  BY <1>1, <1>4, StopFields DEF Ends
<1>12. Fresh(r)'
  BY <1>11 DEF Fresh, Editing, Deleting
<1>13. QED
  BY <1>1, <1>7, <1>8, <1>10, <1>11, <1>12, ProcessGoes

LEMMA ChangePasswordAlone ==
  ASSUME NEW w, OneProcess(w), UserInv, ProcessInv(w), NEW r \in Requests, ChangePassword(r)
  PROVE  ProcessInv(w)' /\ Accounted
<1> DEFINE q == req[r]
           f == req[r].form
           good == /\ f.current = q.user.password /\ f.password \notin {Nil, f.current}
                   /\ q.uid \in Live
<1>1. /\ Begin(r, "password")
      /\ IF good
         THEN /\ users' = [users EXCEPT ![q.uid].password = f.password, ![q.uid].legacy = FALSE]
              /\ Goto(r, [q EXCEPT !.user = users[q.uid], !.changed = TRUE], "changed")
              /\ Holds(r) /\ UNCHANGED <<sessions, audit, server, restarts, demand>>
         ELSE Stop(r, q, "refused") /\ KeepsTables
  BY DEF ChangePassword
<1>2. q \in Request /\ f \in Form /\ TablesOK
  BY <1>1, BeginReads, ReqTyped
<1>3. CASE ~good
  BY <1>1, <1>2, <1>3, BeginAlone, TablesAlike, ProcessReads DEF Ends
<1>4. CASE good
  <2>1. users[q.uid] \in User /\ f.password \in Passwords
    BY <1>2, <1>4, LiveUser, FormFields
  <2>2. Alike
    BY <1>1, <1>2, <1>4, <2>1, RehashedRow, RowAlike
  <2> DEFINE n == [q EXCEPT !.user = users[q.uid], !.changed = TRUE]
  <2>3. n \in Request /\ n.worker = q.worker
    BY <1>2, <2>1 DEF Request
  <2>4. Goto(r, n, "changed") /\ UNCHANGED <<audit, server>>
    BY <1>1, <1>4
  <2> HIDE DEF n
  <2>5. "changed" \in Phases \ (Editing \union Deleting)
    BY DEF Phases, Editing, Deleting
  <2>6. QED
    BY <1>1, <2>2, <2>3, <2>4, <2>5, BeginAlone, ProcessReads
<1>5. QED
  BY <1>3, <1>4

LEMMA LoginsAlone ==
  ASSUME NEW w, OneProcess(w), UserInv, ProcessInv(w), NEW r \in Requests,
         Login(r) \/ Rehash(r) \/ OpenSession(r) \/ Logout(r)
  PROVE  ProcessInv(w)' /\ Accounted
<1> DEFINE q == req[r]
<1>1. q \in Request /\ Fits(q) /\ TablesOK
  BY ReqTyped
<1>2. Active(q)
  BY DEF Active, Login, Rehash, OpenSession, Logout, At
<1>3. /\ "refused" \in Ends /\ "done" \in Ends /\ "error" \in Ends
      /\ "rehash" \in Phases \ (Editing \union Deleting)
      /\ "token" \in Phases \ (Editing \union Deleting)
  BY DEF Ends, Phases, Editing, Deleting
<1>4. CASE OpenSession(r) \/ Logout(r)
  <2>1. /\ \E end \in {"done", "error"} : Stop(r, q, end)
        /\ UNCHANGED <<users, audit, server>>
    BY <1>4 DEF OpenSession, Logout, KeepsTables, tables
  <2>2. QED
    BY <1>1, <1>2, <1>3, <2>1, SameAlike, ProcessReads
<1>5. CASE Login(r) /\ Stop(r, q, "refused")
  BY <1>1, <1>2, <1>3, <1>5, TablesAlike, ProcessReads DEF Login
<1>6. CASE Login(r) /\ ~Stop(r, q, "refused")
  <2>1. PICK i \in Called(q.form.name) :
          Goto(r, [q EXCEPT !.uid = i, !.user = users[i]], "rehash")
    BY <1>6 DEF Login
  <2>2. i \in Ids /\ users[i] \in User
    BY <1>1, LiveUser DEF Called
  <2> DEFINE n == [q EXCEPT !.uid = i, !.user = users[i]]
  <2>3. n \in Request /\ n.worker = q.worker /\ Goto(r, n, "rehash")
    BY <1>1, <2>1, <2>2 DEF Request
  <2> HIDE DEF n
  <2>4. KeepsTables
    BY <1>6 DEF Login
  <2>5. QED
    BY <1>2, <1>3, <2>3, <2>4, TablesAlike, ProcessReads
<1>7. CASE Rehash(r)
  <2> DEFINE stores == q.user.legacy /\ q.uid \in Live
  <2>1. /\ q.phase = "rehash" /\ Goto(r, q, "token")
        /\ IF stores
           THEN /\ users' = [users EXCEPT ![q.uid].password = q.form.current,
                                          ![q.uid].legacy = FALSE]
                /\ UNCHANGED <<sessions, audit, server, restarts, demand>>
           ELSE KeepsTables
    BY <1>7 DEF Rehash, At
  <2>2. q.form.current \in Passwords
    BY <1>1, <2>1 DEF Fits
  <2>3. Alike /\ audit \subseteq audit' /\ UNCHANGED server
    <3>1. CASE stores
      BY <1>1, <2>1, <2>2, <3>1, RehashedRow, RowAlike
    <3>2. CASE ~stores
      BY <2>1, <3>2, TablesAlike
    <3>3. QED
      BY <3>1, <3>2
  <2>4. QED
    BY <1>1, <1>2, <1>3, <2>1, <2>3, ProcessReads
<1>8. QED
  BY <1>4, <1>5, <1>6, <1>7

LEMMA ProcessesAlone ==
  ASSUME NEW w, OneProcess(w), UserInv, ProcessInv(w), NEW v \in Workers,
         Boot(v) \/ Bootstrap(v) \/ Crash(v)
  PROVE  ProcessInv(w)' /\ Accounted
<1>1. v = w /\ w \in Workers
  <2>1. CASE Boot(v)
    BY <2>1 DEF Boot, Asked, OneProcess, UserInv
  <2>2. CASE Bootstrap(v) \/ Crash(v)
    BY <2>2 DEF Bootstrap, Crash, ProcessInv, OneProcess
  <2>3. QED
    BY <2>1, <2>2
<1>2. \A s \in Workers : s # w => server'[s] = server[s] /\ server[s] = "off"
  <2>1. \A s \in Workers : s # w => server[s] = "off"
    BY DEF ProcessInv, UserInv
  <2>2. \A s \in Workers : s # w => server'[s] = server[s]
    BY <1>1 DEF Boot, Bootstrap, Crash, UserInv
  <2>3. QED
    BY <2>1, <2>2
<1>3. CASE Boot(v)
  <2>1. /\ server[w] = "off" /\ server'[w] = (IF Live = {} THEN "empty" ELSE "up")
        /\ UNCHANGED <<users, audit, req>>
    BY <1>1, <1>3 DEF Boot, UserInv, tables
  <2>2. \A r \in Requests : ~Active(req[r])
    BY <2>1 DEF ProcessInv
  <2>3. Live' = Live /\ ActiveSuperusers' = ActiveSuperusers /\ Accounted
    BY <2>1, SameAlike, AlikeKept
  <2>4. \A r \in Requests : Fresh(r)'
    BY <2>1, <2>2 DEF Fresh, Active, Editing, Deleting
  <2>5. QED
    BY <1>2, <2>1, <2>2, <2>3, <2>4 DEF ProcessInv
<1>4. CASE Bootstrap(v)
  <2>1. Live = {} /\ Called(Admin) = {} /\ server[w] = "empty"
    BY <1>1, <1>4 DEF Bootstrap, ProcessInv, Called
  <2>2. /\ \E i \in Ids : users' = [users EXCEPT ![i] = AdminRow]
        /\ server' = [server EXCEPT ![w] = "up"] /\ UNCHANGED <<audit, req>>
    BY <1>1, <1>4, <2>1 DEF Bootstrap, AdminRow
  <2>3. server'[w] = "up"
    BY <1>1, <2>2 DEF UserInv
  <2>4. PICK i \in Ids : users' = [users EXCEPT ![i] = AdminRow]
    BY <2>2
  <2>5. /\ AdminRow \in User /\ AdminRow # Nil /\ AdminRow.role = "Superuser"
        /\ AdminRow.active
    BY AdminTyped, UserFields DEF AdminRow
  <2>6. i \in ActiveSuperusers' /\ i \in Live'
    BY <2>4, <2>5 DEF ActiveSuperusers, Live, UserInv, TablesOK
  <2>7. Accounted
    BY <2>1 DEF Accounted, Live
  <2>8. \A r \in Requests : ~Active(req[r])
    BY <2>1 DEF ProcessInv
  <2>9. \A r \in Requests : Fresh(r)'
    BY <2>2, <2>8 DEF Fresh, Active, Editing, Deleting
  <2>10. \A r \in Requests : ~Active(req'[r])
    BY <2>2, <2>8
  <2>11. QED
    BY <1>2, <2>3, <2>6, <2>7, <2>9, <2>10 DEF ProcessInv
<1>5. CASE Crash(v)
  <2>1. /\ server'[w] = "off" /\ UNCHANGED <<users, audit>>
        /\ req' = [r \in Requests |->
             IF req[r].worker = w /\ req[r].phase # "ended"
             THEN [req[r] EXCEPT !.phase = "ended", !.end = "killed"] ELSE req[r]]
    BY <1>1, <1>5 DEF Crash, UserInv, tables
  <2>2. Live' = Live /\ ActiveSuperusers' = ActiveSuperusers /\ Accounted
    BY <2>1, SameAlike, AlikeKept
  <2>3. ASSUME NEW r \in Requests
        PROVE  ~Active(req'[r])
    <3>1. CASE req[r].worker = w /\ req[r].phase # "ended"
      <4>1. req[r] \in Request
        BY ReqTyped
      <4>2. QED
        BY <2>1, <3>1, <4>1 DEF Active, Request
    <3>2. CASE req[r].worker # w \/ req[r].phase = "ended"
      BY <2>1, <3>2 DEF Active, ProcessInv
    <3>3. QED
      BY <3>1, <3>2
  <2>4. \A r \in Requests : Fresh(r)'
    BY <2>3 DEF Fresh, Active, Editing, Deleting
  <2>5. QED
    BY <1>2, <2>1, <2>2, <2>3, <2>4 DEF ProcessInv
<1>6. QED
  BY <1>3, <1>4, <1>5

LEMMA ProcessInit ==
  ASSUME NEW w, OneProcess(w), Init
  PROVE  ProcessInv(w)
<1>1. /\ demand \in DOMAIN Demands /\ req = [r \in Requests |-> Blank]
      /\ server = [v \in Workers |-> "off"]
  BY DEF Init
<1>2. PICK s \in Asked.seeds : users = s.users /\ sessions = s.sessions
  BY DEF Init
<1>3. SeedOK(s)
  BY <1>1, UserAssumption DEF Asked, DemandOK
<1>4. Live # {} => ActiveSuperusers # {}
  BY <1>2, <1>3 DEF SeedOK, Live, ActiveSuperusers
<1>5. \A r \in Requests : req[r].phase = "new"
  BY <1>1, BlankTyped
<1>6. QED
  BY <1>1, <1>4, <1>5 DEF ProcessInv, OneProcess, Active, Fresh, Editing, Deleting

LEMMA ProcessStep ==
  ASSUME NEW w, OneProcess(w), UserInv, ProcessInv(w), [Next]_vars
  PROVE  ProcessInv(w)' /\ Accounted
<1>1. ASSUME NEW r \in Requests, Arrive(r) \/ Step(r)
      PROVE  ProcessInv(w)' /\ Accounted
  BY <1>1, ArriveAlone, FindersAlone, RecordersAlone, CreateAlone, EditAlone, DeleteAlone,
     EditsAlone, RecordDeleteAlone, DeleteUserAlone, ChangePasswordAlone, LoginsAlone
     DEF Step, Handler
<1>2. ASSUME NEW v \in Workers, Boot(v) \/ Bootstrap(v) \/ Crash(v)
      PROVE  ProcessInv(w)' /\ Accounted
  BY <1>2, ProcessesAlone
<1>3. CASE UNCHANGED vars
  <2>1. Accounted
    BY <1>3, SameAlike, AlikeKept DEF vars
  <2>2. QED
    BY <1>3, <2>1 DEF vars, ProcessInv, Live, ActiveSuperusers, Fresh, Spare
<1>4. QED
  BY <1>1, <1>2, <1>3 DEF Next

(* In one server process, whatever a form has read of the user it is about *)
(* stays true until it writes: the check that another active superuser is  *)
(* left, and the entry of a deletion, are about the row that is written.   *)
THEOREM ProcessInductive ==
  ASSUME NEW CONSTANT w, OneProcess(w)
  PROVE  Spec => []ProcessInv(w)
<1>1. Init => ProcessInv(w)
  BY ProcessInit
<1>2. UserInv /\ ProcessInv(w) /\ [Next]_vars => ProcessInv(w)'
  BY ProcessStep
<1>3. QED
  BY <1>1, <1>2, UserInductive, PTL DEF Spec

(* In one process the forms, racing in any way, never leave a server that  *)
(* is up without an active superuser, however often it ends and restarts.  *)
THEOREM SuperuserAlwaysRemains ==
  ASSUME NEW CONSTANT w, OneProcess(w)
  PROVE  Spec => []SuperuserRemains
<1>1. ProcessInv(w) => SuperuserRemains
  BY DEF ProcessInv, SuperuserRemains
<1>2. QED
  BY <1>1, ProcessInductive, PTL

(* In one process no user goes without an entry that says so.              *)
THEOREM DeletionsAlwaysAudited ==
  ASSUME NEW CONSTANT w, OneProcess(w)
  PROVE  Spec => DeletionsAudited
<1>1. UserInv /\ ProcessInv(w) /\ [Next]_vars => [Accounted]_vars
  BY ProcessStep
<1>2. Accounted => \A i \in Ids : users[i] # Nil /\ users'[i] = Nil =>
         \E e \in audit : e.action = "DELETE" /\ e.id = i /\ e.name = users[i].name
  BY DEF Accounted
<1>3. QED
  BY <1>1, <1>2, UserInductive, ProcessInductive, PTL DEF Spec, DeletionsAudited, Accounted

-----------------------------------------------------------------------------
(* LoginInv.                                                               *)

(* The sessions there are go, or stay with users that keep their names.    *)
SessionsStay ==
  \A s \in Requests : sessions'[s] # Nil =>
    /\ sessions'[s] = sessions[s] /\ users'[sessions[s]] # Nil
    /\ users'[sessions[s]].name = users[sessions[s]].name

LEMMA SameSessionsStay ==
  ASSUME UserInv, UNCHANGED <<users, sessions>>
  PROVE  SessionsStay
<1>1. Requests \subseteq Tokens /\ TablesOK
  BY UserAssumption DEF UserInv
<1>2. QED
  BY <1>1 DEF SessionsStay, TablesOK

LEMMA RowsSessionsStay ==
  ASSUME UserInv, UNCHANGED sessions,
         \A i \in Live : users'[i] # Nil /\ users'[i].name = users[i].name
  PROVE  SessionsStay
<1>1. Requests \subseteq Tokens /\ TablesOK
  BY UserAssumption DEF UserInv
<1>2. QED
  BY <1>1 DEF SessionsStay, TablesOK, Live

LEMMA AlikeSessionsStay ==
  ASSUME UserInv, UNCHANGED sessions, Alike
  PROVE  SessionsStay
  BY RowsSessionsStay DEF Alike, Live

LEMMA CalledName ==
  ASSUME NEW i \in Ids, NEW name
  PROVE  (i \in Called(name)) <=> (users[i] # Nil /\ users[i].name = name)
  BY DEF Called, Live

LEMMA LoginGoes ==
  ASSUME UserInv, LoginInv, NEW r \in Requests, req' = [req EXCEPT ![r] = req'[r]],
         \A s \in Requests \ {r} : sessions'[s] # Nil =>
           /\ sessions'[s] = sessions[s] /\ users'[sessions[s]] # Nil
           /\ users'[sessions[s]].name = users[sessions[s]].name,
         UNCHANGED users \/ \A s \in Requests \ {r} : ~Holding(req[s]),
         LoginOf(r)'
  PROVE  LoginInv'
<1>1. SUFFICES ASSUME NEW s \in Requests \ {r}
               PROVE  LoginOf(s)'
  BY DEF LoginInv
<1>2. req'[s] = req[s] /\ LoginOf(s) /\ Fits(req[s]) /\ TablesOK
  BY DEF UserInv, LoginInv
<1>3. s \in Tokens
  BY UserAssumption
<1>4. CASE req[s].phase \in {"rehash", "token"}
  <2>1. req[s].kind = "login"
    BY <1>2, <1>4 DEF Fits, LoginOf
  <2>2. UNCHANGED users
    BY <1>4, <2>1 DEF Holding
  <2>3. sessions'[s] = Nil
    BY <1>2, <1>4 DEF LoginOf
  <2>4. QED
    BY <1>2, <1>4, <2>2, <2>3 DEF LoginOf, Called, Live
<1>5. CASE req[s].phase \notin {"rehash", "token"}
  <2>1. sessions'[s] # Nil => /\ sessions'[s] = sessions[s] /\ sessions[s] \in Called(req[s].form.name)
                              /\ users'[sessions[s]] # Nil
                              /\ users'[sessions[s]].name = users[sessions[s]].name
    BY <1>2 DEF LoginOf
  <2>2. sessions'[s] # Nil => sessions'[s] \in Called(req[s].form.name)'
    BY <1>2, <1>3, <2>1 DEF Called, Live
  <2>3. QED
    BY <1>2, <1>5, <2>1, <2>2 DEF LoginOf, Called, Live
<1>6. QED
  BY <1>4, <1>5

(* Steps of others than logins.                                            *)
LEMMA OtherLogin ==
  ASSUME UserInv, LoginInv, NEW r \in Requests, req' = [req EXCEPT ![r] = req'[r]],
         req[r].phase # "ended", req'[r].phase \notin {"rehash", "token"},
         req'[r].kind # "apiLogin", SessionsStay,
         UNCHANGED users \/ \A s \in Requests \ {r} : ~Holding(req[s])
  PROVE  LoginInv'
<1>1. sessions[r] = Nil /\ sessions'[r] = Nil
  BY DEF LoginInv, LoginOf, SessionsStay
<1>2. LoginOf(r)'
  BY <1>1 DEF LoginOf
<1>3. QED
  BY <1>2, LoginGoes DEF SessionsStay

LEMMA StoppedLogin ==
  ASSUME UserInv, LoginInv, NEW r \in Requests, NEW q \in Request, q.kind = req[r].kind,
         NEW end \in Ends, Stop(r, q, end), req[r].phase # "ended", SessionsStay,
         UNCHANGED users \/ \A s \in Requests \ {r} : ~Holding(req[s])
  PROVE  LoginInv'
<1>1. /\ req' = [req EXCEPT ![r] = req'[r]] /\ req'[r].phase = "ended"
      /\ req'[r].kind = req[r].kind
  BY StopFields
<1>2. req[r].kind # "apiLogin"
  BY DEF LoginInv, LoginOf
<1>3. QED
  BY <1>1, <1>2, OtherLogin

LEMMA GoneLogin ==
  ASSUME UserInv, LoginInv, NEW r \in Requests, NEW q \in Request, q.kind = req[r].kind,
         NEW phase \in Phases \ {"rehash", "token"}, Goto(r, q, phase),
         req[r].phase # "ended", SessionsStay,
         UNCHANGED users \/ \A s \in Requests \ {r} : ~Holding(req[s])
  PROVE  LoginInv'
<1>1. /\ req' = [req EXCEPT ![r] = req'[r]] /\ req'[r].phase = phase
      /\ req'[r].kind = req[r].kind
  BY GotoFields
<1>2. req[r].kind # "apiLogin"
  BY DEF LoginInv, LoginOf
<1>3. QED
  BY <1>1, <1>2, OtherLogin

LEMMA TablesSessions ==
  ASSUME UserInv, KeepsTables
  PROVE  SessionsStay /\ UNCHANGED users
  BY SameSessionsStay DEF KeepsTables, tables

LEMMA ArriveLogin ==
  ASSUME FormLogins, UserInv, LoginInv, NEW r \in Requests, Arrive(r)
  PROVE  LoginInv'
<1>1. /\ req[r].phase = "new" /\ KeepsTables
      /\ \E f \in Asked.forms, v \in Workers :
           Goto(r, [Blank EXCEPT !.kind = f.kind, !.form = f, !.worker = v],
                   CASE f.kind \in {"login", "apiLogin"} -> "login"
                     [] f.kind = "logout" -> "logout"
                     [] OTHER -> "session")
  BY DEF Arrive, At
<1>2. PICK f \in Asked.forms, v \in Workers :
           Goto(r, [Blank EXCEPT !.kind = f.kind, !.form = f, !.worker = v],
                   CASE f.kind \in {"login", "apiLogin"} -> "login"
                     [] f.kind = "logout" -> "logout"
                     [] OTHER -> "session")
  BY <1>1
<1>3. f \in Form /\ f.kind \in Kinds
  BY AskedType, FormFields DEF DemandOK
<1>4. f.kind # "apiLogin"
  BY DEF FormLogins, Asked, UserInv
<1> DEFINE q == [Blank EXCEPT !.kind = f.kind, !.form = f, !.worker = v]
           phase == CASE f.kind \in {"login", "apiLogin"} -> "login"
                      [] f.kind = "logout" -> "logout"
                      [] OTHER -> "session"
<1>5. q \in Request /\ q.kind = f.kind
  BY <1>3 DEF Blank, Request, Ends, Phases, Kinds
<1>6. phase \in {"login", "logout", "session"}
  BY Zenon
<1>7. Goto(r, q, phase)
  BY <1>2
<1> HIDE DEF q, phase
<1>8. phase \in Phases /\ phase \notin {"rehash", "token"}
  BY <1>6 DEF Phases
<1>9. /\ req' = [req EXCEPT ![r] = req'[r]] /\ req'[r].phase = phase
      /\ req'[r].kind = f.kind
  BY <1>5, <1>7, <1>8, GotoFields
<1>10. QED
  BY <1>1, <1>4, <1>8, <1>9, TablesSessions, OtherLogin

LEMMA FindersLogin ==
  ASSUME UserInv, LoginInv, NEW r \in Requests, FindSession(r) \/ FindUser(r)
  PROVE  LoginInv'
<1> DEFINE q == req[r]
<1>1. q \in Request /\ Fits(q) /\ TablesOK
  BY ReqTyped
<1>2. q.phase # "ended" /\ SessionsStay /\ UNCHANGED users
  BY TablesSessions DEF FindSession, FindUser, At
<1>3. "refused" \in Ends /\ "user" \in Phases \ {"rehash", "token"}
      /\ "form" \in Phases \ {"rehash", "token"}
  BY DEF Ends, Phases
<1>4. CASE Stop(r, q, "refused")
  BY <1>1, <1>2, <1>3, <1>4, StoppedLogin
<1>5. CASE FindSession(r) /\ ~Stop(r, q, "refused")
  <2> DEFINE uid == IF q.form.token = Nil THEN Nil ELSE sessions[q.form.token]
             n == [q EXCEPT !.uid = uid]
  <2>1. uid # Nil /\ Goto(r, n, "user") /\ q.phase = "session"
    BY <1>5 DEF FindSession, At
  <2>2. uid \in Ids
    BY <1>1, <2>1, FormFields DEF TablesOK, Fits
  <2>3. n \in Request /\ n.kind = q.kind
    BY <1>1, <2>2 DEF Request
  <2> HIDE DEF n, uid
  <2>4. QED
    BY <1>2, <1>3, <2>1, <2>3, GoneLogin
<1>6. CASE FindUser(r) /\ ~Stop(r, q, "refused")
  <2> DEFINE user == users[req[r].uid]
             n == [q EXCEPT !.user = user]
  <2>1. user # Nil /\ Goto(r, n, "form") /\ q.phase = "user"
    BY <1>6 DEF FindUser, At
  <2>2. user \in User
    BY <1>1, <2>1 DEF TablesOK, Fits
  <2>3. n \in Request /\ n.kind = q.kind
    BY <1>1, <2>2 DEF Request
  <2> HIDE DEF n, user
  <2>4. QED
    BY <1>2, <1>3, <2>1, <2>3, GoneLogin
<1>7. QED
  BY <1>4, <1>5, <1>6

LEMMA RecordersLogin ==
  ASSUME UserInv, LoginInv, NEW r \in Requests,
         RecordCreate(r) \/ RecordEdit(r) \/ RecordDelete(r) \/ RecordPassword(r)
  PROVE  LoginInv'
<1> DEFINE q == req[r]
<1>1. q \in Request /\ q.phase # "ended"
  BY ReqTyped DEF RecordCreate, RecordEdit, RecordDelete, RecordPassword, At
<1>2. /\ (\E end \in {"done", "error"} : Stop(r, q, end)) \/ Goto(r, q, "delete")
      /\ UNCHANGED <<users, sessions>>
  BY DEF RecordCreate, RecordEdit, RecordDelete, RecordPassword, Record, KeepsTables, tables
<1>3. "done" \in Ends /\ "error" \in Ends /\ "delete" \in Phases \ {"rehash", "token"}
  BY DEF Ends, Phases, Deleting
<1>4. QED
  BY <1>1, <1>2, <1>3, SameSessionsStay, StoppedLogin, GoneLogin

LEMMA CreateLogin ==
  ASSUME NEW w, OneProcess(w), UserInv, ProcessInv(w), LoginInv, NEW r \in Requests, Create(r)
  PROVE  LoginInv'
<1> DEFINE q == req[r]
           f == req[r].form
           Row == [name |-> f.name, password |-> f.password, legacy |-> FALSE,
                   role |-> IF f.editor THEN "Editor" ELSE "Viewer", active |-> f.active]
<1>1. /\ Begin(r, "create")
      /\ \/ Stop(r, q, "refused") /\ KeepsTables
         \/ /\ Nil \notin {f.name, f.password} /\ Called(f.name) = {}
            /\ \E i \in Ids :
                 /\ NextId(i)
                 /\ users' = [users EXCEPT ![i] = Row]
                 /\ Goto(r, [q EXCEPT !.made = i, !.changed = TRUE], "created")
            /\ Holds(r) /\ UNCHANGED <<sessions, audit, server, restarts, demand>>
  BY DEF Create
<1>2. q \in Request /\ f \in Form /\ TablesOK /\ q.phase # "ended"
  BY <1>1, BeginReads, ReqTyped
<1>3. CASE Stop(r, q, "refused") /\ KeepsTables
  BY <1>2, <1>3, TablesSessions, StoppedLogin DEF Ends
<1>4. ASSUME NEW i \in Ids, NextId(i), Nil \notin {f.name, f.password},
             Called(f.name) = {}, users' = [users EXCEPT ![i] = Row],
             Goto(r, [q EXCEPT !.made = i, !.changed = TRUE], "created"),
             UNCHANGED <<sessions, audit, server, restarts, demand>>
      PROVE  LoginInv'
  <2>1. Row \in User /\ Row.name = f.name
    BY <1>2, <1>4, FormFields DEF User, Roles
  <2>2. users[i] = Nil
    BY <1>2, <1>4, <2>1, UserAdded
  <2>3. \A k \in Live : users'[k] = users[k] /\ users[k] # Nil
    BY <1>2, <1>4, <2>2 DEF Live, TablesOK
  <2>4. SessionsStay
    BY <1>4, <2>3, RowsSessionsStay
  <2> DEFINE n == [q EXCEPT !.made = i, !.changed = TRUE]
  <2>5. n \in Request /\ n.kind = q.kind /\ Goto(r, n, "created")
    BY <1>2, <1>4 DEF Request
  <2> HIDE DEF n
  <2>6. "created" \in Phases \ {"rehash", "token"}
    BY DEF Phases
  <2>7. \A s \in Requests \ {r} : ~Holding(req[s])
    BY <1>1, BeginAlone
  <2>8. QED
    BY <1>2, <2>4, <2>5, <2>6, <2>7, GoneLogin
<1>5. QED
  BY <1>1, <1>3, <1>4

LEMMA ReadersLogin ==
  ASSUME UserInv, LoginInv, NEW r \in Requests, Edit(r) \/ Delete(r)
  PROVE  LoginInv'
<1> DEFINE q == req[r]
           id == req[r].form.id
           n == [q EXCEPT !.target = users[id]]
<1>1. q \in Request /\ TablesOK
  BY ReqTyped
<1>2. SessionsStay /\ UNCHANGED users /\ q.phase # "ended"
  BY TablesSessions DEF Edit, Delete, Begin, At
<1>3. \/ Stop(r, q, "refused")
      \/ id \in Live /\ (Goto(r, n, "role") \/ Goto(r, n, "deleting"))
  BY DEF Edit, Delete, DeleteAllowed
<1>4. id \in Live => n \in Request /\ n.kind = q.kind
  BY <1>1, LiveUser DEF Request
<1> HIDE DEF n
<1>5. /\ "refused" \in Ends /\ "role" \in Phases \ {"rehash", "token"}
      /\ "deleting" \in Phases \ {"rehash", "token"}
  BY DEF Ends, Phases, Editing, Deleting
<1>6. QED
  BY <1>1, <1>2, <1>3, <1>4, <1>5, StoppedLogin, GoneLogin

LEMMA UpdatesLogin ==
  ASSUME NEW w, OneProcess(w), UserInv, ProcessInv(w), LoginInv, NEW r \in Requests,
         req[r].phase \in Editing, NEW differs, NEW row \in User,
         row.name = users[req[r].form.id].name, NEW next \in Editing,
         Updates(r, differs, row, next)
  PROVE  LoginInv'
<1> DEFINE q == req[r]
           id == req[r].form.id
           n == [q EXCEPT !.target = row, !.changed = TRUE]
<1>1. q \in Request /\ TablesOK /\ q.phase # "ended" /\ Holding(q) /\ Active(q)
  BY ReqTyped, HoldingActive DEF Holding, Editing
<1>2. n \in Request /\ n.kind = q.kind
  BY <1>1 DEF Request
<1>3. next \in Phases \ {"rehash", "token"}
  BY DEF Phases, Editing
<1>4. \A s \in Requests \ {r} : ~Holding(req[s])
  BY <1>1, HolderAlone
<1>5. CASE differs /\ id \in Live
  <2>1. users' = [users EXCEPT ![id] = row] /\ Goto(r, n, next) /\ UNCHANGED sessions
    BY <1>5 DEF Updates
  <2>2. \A i \in Live : users'[i] # Nil /\ users'[i].name = users[i].name
    BY <1>1, <1>5, <2>1, LiveUser, UserFields DEF TablesOK
  <2>3. SessionsStay
    BY <2>1, <2>2, RowsSessionsStay
  <2> HIDE DEF n
  <2>4. QED
    BY <1>1, <1>2, <1>3, <1>4, <2>1, <2>3, GoneLogin
<1>6. CASE ~(differs /\ id \in Live)
  <2>1. Goto(r, q, next) /\ KeepsTables
    BY <1>6 DEF Updates
  <2>2. QED
    BY <1>1, <1>3, <2>1, TablesSessions, GoneLogin
<1>7. QED
  BY <1>5, <1>6

LEMMA EditsLogin ==
  ASSUME NEW w, OneProcess(w), UserInv, ProcessInv(w), LoginInv, NEW r \in Requests,
         EditRole(r) \/ EditActive(r) \/ EditPassword(r)
  PROVE  LoginInv'
<1> DEFINE q == req[r]
           id == req[r].form.id
           f == req[r].form
<1>1. q.phase \in Editing
  BY DEF EditRole, EditActive, EditPassword, At, Editing
<1>2. f \in Form /\ users[id] \in User
  <2>1. f \in Form /\ Fresh(r) /\ TablesOK
    BY <1>1, HolderReads, ReqTyped DEF Holding, ProcessInv
  <2>2. QED
    BY <1>1, <2>1, LiveUser DEF Fresh
<1>3. /\ f.active \in BOOLEAN /\ f.password \in Passwords \union {Nil} /\ f.editor \in BOOLEAN
  BY <1>2, FormFields
<1>4. "active" \in Editing /\ "rotate" \in Editing /\ "edited" \in Editing
  BY DEF Editing
<1>5. CASE EditRole(r)
  <2> DEFINE role == IF req[r].form.editor THEN "Editor" ELSE "Viewer"
             row == [users[q.form.id] EXCEPT !.role = role]
  <2>1. Updates(r, q.target.role \notin {"Superuser", role}, row, "active")
    BY <1>5 DEF EditRole
  <2>2. row \in User /\ row.name = users[id].name
    BY <1>2, <1>3 DEF User, Roles
  <2> HIDE DEF row
  <2>3. QED
    BY <1>1, <1>4, <2>1, <2>2, UpdatesLogin
<1>6. CASE EditActive(r)
  <2> DEFINE row == [users[q.form.id] EXCEPT !.active = q.form.active]
  <2>1. Updates(r, q.target.active # q.form.active, row, "rotate")
    BY <1>6 DEF EditActive
  <2>2. row \in User /\ row.name = users[id].name
    BY <1>2, <1>3 DEF User
  <2> HIDE DEF row
  <2>3. QED
    BY <1>1, <1>4, <2>1, <2>2, UpdatesLogin
<1>7. CASE EditPassword(r)
  <2> DEFINE row == [users[q.form.id] EXCEPT !.password = q.form.password, !.legacy = FALSE]
  <2>1. Updates(r, q.form.password # Nil, row, "edited")
    BY <1>7 DEF EditPassword
  <2>2. CASE f.password \in Passwords
    <3>1. row \in User /\ row.name = users[id].name
      BY <1>2, <2>2 DEF User
    <3> HIDE DEF row
    <3>2. QED
      BY <1>1, <1>4, <2>1, <3>1, UpdatesLogin
  <2>3. CASE f.password = Nil
    <3>1. Updates(r, FALSE, users[id], "edited")
      BY <2>1, <2>3 DEF Updates
    <3>2. QED
      BY <1>1, <1>2, <1>4, <3>1, UpdatesLogin
  <2>4. QED
    BY <1>3, <2>2, <2>3
<1>8. QED
  BY <1>5, <1>6, <1>7

(* Deleting an account takes its sessions along.                           *)
LEMMA DeleteUserLogin ==
  ASSUME NEW w, OneProcess(w), UserInv, ProcessInv(w), LoginInv, NEW r \in Requests,
         DeleteUser(r)
  PROVE  LoginInv'
<1> DEFINE q == req[r]
           id == req[r].form.id
           n == [q EXCEPT !.changed = TRUE]
<1>1. /\ q.phase = "delete" /\ users' = [users EXCEPT ![id] = Nil]
      /\ sessions' = Orphaned(id) /\ Stop(r, n, "done")
  BY DEF DeleteUser, At
<1>2. q \in Request /\ TablesOK /\ Holding(q) /\ Active(q)
  BY <1>1, ReqTyped, HoldingActive DEF Holding, Deleting
<1>3. n \in Request /\ n.kind = q.kind
  BY <1>2 DEF Request
<1>4. SessionsStay
  <2>1. SUFFICES ASSUME NEW s \in Requests, sessions'[s] # Nil
                 PROVE  /\ sessions'[s] = sessions[s] /\ users'[sessions[s]] # Nil
                        /\ users'[sessions[s]].name = users[sessions[s]].name
    BY DEF SessionsStay
  <2>2. s \in Tokens
    BY UserAssumption
  <2>3. sessions'[s] = sessions[s] /\ sessions[s] # id
    BY <1>1, <2>1, <2>2 DEF Orphaned
  <2>4. sessions[s] \in Ids /\ users[sessions[s]] # Nil
    BY <1>2, <2>1, <2>2, <2>3 DEF TablesOK
  <2>5. users'[sessions[s]] = users[sessions[s]]
    BY <1>1, <1>2, <2>3, <2>4 DEF TablesOK
  <2>6. QED
    BY <2>3, <2>4, <2>5
<1>5. \A s \in Requests \ {r} : ~Holding(req[s])
  BY <1>2, HolderAlone
<1> HIDE DEF n
<1>6. QED
  BY <1>1, <1>3, <1>4, <1>5, StoppedLogin DEF Ends

LEMMA ChangePasswordLogin ==
  ASSUME NEW w, OneProcess(w), UserInv, ProcessInv(w), LoginInv, NEW r \in Requests,
         ChangePassword(r)
  PROVE  LoginInv'
<1> DEFINE q == req[r]
           f == req[r].form
           good == /\ f.current = q.user.password /\ f.password \notin {Nil, f.current}
                   /\ q.uid \in Live
<1>1. /\ Begin(r, "password")
      /\ IF good
         THEN /\ users' = [users EXCEPT ![q.uid].password = f.password, ![q.uid].legacy = FALSE]
              /\ Goto(r, [q EXCEPT !.user = users[q.uid], !.changed = TRUE], "changed")
              /\ Holds(r) /\ UNCHANGED <<sessions, audit, server, restarts, demand>>
         ELSE Stop(r, q, "refused") /\ KeepsTables
  BY DEF ChangePassword
<1>2. q \in Request /\ f \in Form /\ TablesOK /\ q.phase # "ended"
  BY <1>1, BeginReads, ReqTyped
<1>3. CASE ~good
  BY <1>1, <1>2, <1>3, TablesSessions, StoppedLogin DEF Ends
<1>4. CASE good
  <2>1. users[q.uid] \in User /\ f.password \in Passwords
    BY <1>2, <1>4, LiveUser, FormFields
  <2>2. Alike
    BY <1>1, <1>2, <1>4, <2>1, RehashedRow, RowAlike
  <2>3. SessionsStay
    BY <1>1, <1>4, <2>2, AlikeSessionsStay
  <2> DEFINE n == [q EXCEPT !.user = users[q.uid], !.changed = TRUE]
  <2>4. n \in Request /\ n.kind = q.kind
    BY <1>2, <2>1 DEF Request
  <2>5. Goto(r, n, "changed")
    BY <1>1, <1>4
  <2> HIDE DEF n
  <2>6. "changed" \in Phases \ {"rehash", "token"}
    BY DEF Phases
  <2>7. \A s \in Requests \ {r} : ~Holding(req[s])
    BY <1>1, BeginAlone
  <2>8. QED
    BY <1>2, <2>3, <2>4, <2>5, <2>6, <2>7, GoneLogin
<1>5. QED
  BY <1>3, <1>4

LEMMA LogoutLogin ==
  ASSUME UserInv, LoginInv, NEW r \in Requests, Logout(r)
  PROVE  LoginInv'
<1> DEFINE q == req[r]
<1>1. /\ q.phase = "logout" /\ Stop(r, q, "done")
      /\ \/ /\ q.form.token # Nil
            /\ sessions' = [sessions EXCEPT ![q.form.token] = Nil] /\ UNCHANGED users
         \/ UNCHANGED <<users, sessions>>
  BY DEF Logout, At, KeepsTables, tables
<1>2. q \in Request /\ TablesOK /\ Requests \subseteq Tokens
  BY ReqTyped, UserAssumption
<1>3. SessionsStay
  <2>1. CASE UNCHANGED <<users, sessions>>
    BY <2>1, SameSessionsStay
  <2>2. CASE sessions' = [sessions EXCEPT ![q.form.token] = Nil] /\ UNCHANGED users
    BY <1>2, <2>2 DEF SessionsStay, TablesOK
  <2>3. QED
    BY <1>1, <2>1, <2>2
<1>4. QED
  BY <1>1, <1>2, <1>3, StoppedLogin DEF Ends

(* A login's own steps.                                                    *)
LEMMA LoginLogin ==
  ASSUME UserInv, LoginInv, NEW r \in Requests, Login(r)
  PROVE  LoginInv'
<1> DEFINE q == req[r]
<1>1. /\ q.phase = "login" /\ KeepsTables
      /\ \/ Stop(r, q, "refused")
         \/ \E i \in Called(q.form.name) :
              /\ Verified(q.form, i)
              /\ Goto(r, [q EXCEPT !.uid = i, !.user = users[i]], "rehash")
  BY DEF Login, At
<1>2. q \in Request /\ TablesOK /\ SessionsStay /\ UNCHANGED <<users, sessions>>
  BY <1>1, ReqTyped, TablesSessions DEF KeepsTables, tables
<1>3. CASE Stop(r, q, "refused")
  BY <1>1, <1>2, <1>3, StoppedLogin DEF Ends
<1>4. ASSUME NEW i \in Called(q.form.name), Verified(q.form, i),
             Goto(r, [q EXCEPT !.uid = i, !.user = users[i]], "rehash")
      PROVE  LoginInv'
  <2>1. i \in Ids /\ users[i] \in User
    BY <1>2, LiveUser DEF Called
  <2> DEFINE n == [q EXCEPT !.uid = i, !.user = users[i]]
  <2>2. /\ n \in Request /\ n.kind = q.kind /\ n.form = q.form /\ n.uid = i
        /\ Goto(r, n, "rehash")
    BY <1>2, <1>4, <2>1 DEF Request
  <2> HIDE DEF n
  <2>3. "rehash" \in Phases
    BY DEF Phases
  <2>4. /\ req' = [req EXCEPT ![r] = req'[r]] /\ req'[r].phase = "rehash"
        /\ req'[r].kind = q.kind /\ req'[r].form = q.form /\ req'[r].uid = i
    BY <2>2, <2>3, GotoFields
  <2>5. LoginOf(r) /\ sessions[r] = Nil
    BY <1>1 DEF LoginInv, LoginOf
  <2>6. LoginOf(r)'
    BY <1>2, <1>4, <2>4, <2>5 DEF LoginOf, Verified, Called, Live
  <2>7. QED
    BY <1>2, <2>4, <2>6, LoginGoes DEF SessionsStay
<1>5. QED
  BY <1>1, <1>3, <1>4

(* A new hash of the password that the account has.                        *)
LEMMA RehashLogin ==
  ASSUME NEW w, OneProcess(w), UserInv, ProcessInv(w), LoginInv, NEW r \in Requests,
         Rehash(r)
  PROVE  /\ LoginInv'
         /\ \A i \in Live : users'[i].password = users[i].password
<1> DEFINE q == req[r]
           stores == q.user.legacy /\ q.uid \in Live
<1>1. /\ q.phase = "rehash" /\ Goto(r, q, "token") /\ UNCHANGED sessions
      /\ IF stores
         THEN users' = [users EXCEPT ![q.uid].password = q.form.current,
                                          ![q.uid].legacy = FALSE]
         ELSE UNCHANGED users
  BY DEF Rehash, At, KeepsTables, tables
<1>2. /\ q \in Request /\ Fits(q) /\ TablesOK /\ LoginOf(r) /\ q.form.current \in Passwords
      /\ q.uid \in Called(q.form.name) /\ users[q.uid].password = q.form.current
      /\ q.kind = "login"
  BY <1>1, ReqTyped DEF Fits, LoginInv, LoginOf
<1>3. Holding(q) /\ Active(q)
  BY <1>1, <1>2, HoldingActive DEF Holding
<1>4. Alike /\ \A i \in Live : users'[i].password = users[i].password
  <2>1. CASE stores
    <3>1. Alike /\ users'[q.uid].password = q.form.current
      BY <1>1, <1>2, <2>1, RehashedRow, RowAlike
    <3>2. \A i \in Live : i # q.uid => users'[i] = users[i]
      BY <1>1, <1>2, <2>1, LiveUser DEF TablesOK
    <3>3. QED
      BY <1>2, <3>1, <3>2
  <2>2. CASE ~stores
    BY <1>1, <2>2, SameAlike
  <2>3. QED
    BY <2>1, <2>2
<1>5. SessionsStay
  BY <1>1, <1>4, AlikeSessionsStay
<1>6. \A s \in Requests \ {r} : ~Holding(req[s])
  BY <1>3, HolderAlone
<1>7. /\ req' = [req EXCEPT ![r] = req'[r]] /\ req'[r].phase = "token"
      /\ req'[r].kind = q.kind /\ req'[r].form = q.form /\ req'[r].uid = q.uid
  BY <1>1, <1>2, GotoFields DEF Phases
<1>8. q.uid \in Live' /\ users'[q.uid].name = q.form.name
  BY <1>2, <1>4, AlikeKept DEF Alike, Called, Live
<1>9. LoginOf(r)'
  <2>1. sessions'[r] = Nil
    BY <1>1, <1>2 DEF LoginOf
  <2>2. QED
    BY <1>2, <1>7, <1>8, <2>1 DEF LoginOf, Called
<1>10. QED
  BY <1>4, <1>5, <1>6, <1>7, <1>9, LoginGoes DEF SessionsStay

LEMMA OpenSessionLogin ==
  ASSUME UserInv, LoginInv, NEW r \in Requests, OpenSession(r)
  PROVE  LoginInv'
<1> DEFINE q == req[r]
<1>1. /\ q.phase = "token" /\ UNCHANGED users
      /\ \/ /\ q.uid \in Live /\ sessions' = [sessions EXCEPT ![r] = q.uid]
            /\ Stop(r, q, "done")
         \/ Stop(r, q, "error") /\ KeepsTables
  BY DEF OpenSession, At, KeepsTables, tables
<1>2. /\ q \in Request /\ TablesOK /\ q.uid \in Called(q.form.name) /\ q.kind # "apiLogin"
      /\ Requests \subseteq Tokens
  BY <1>1, ReqTyped, UserAssumption DEF LoginInv, LoginOf
<1>3. CASE Stop(r, q, "error") /\ KeepsTables
  BY <1>1, <1>2, <1>3, TablesSessions, StoppedLogin DEF Ends
<1>4. CASE sessions' = [sessions EXCEPT ![r] = q.uid] /\ Stop(r, q, "done")
  <2>1. /\ req' = [req EXCEPT ![r] = req'[r]] /\ req'[r].phase = "ended"
        /\ req'[r].kind = q.kind /\ req'[r].form = q.form
    BY <1>2, <1>4, StopFields DEF Ends
  <2>2. sessions'[r] = q.uid /\ \A s \in Requests \ {r} : sessions'[s] = sessions[s]
    BY <1>2, <1>4 DEF TablesOK
  <2>3. LoginOf(r)'
    BY <1>1, <1>2, <2>1, <2>2 DEF LoginOf, Called, Live
  <2>4. \A s \in Requests \ {r} : sessions'[s] # Nil =>
           /\ sessions'[s] = sessions[s] /\ users'[sessions[s]] # Nil
           /\ users'[sessions[s]].name = users[sessions[s]].name
    BY <1>1, <1>2, <2>2 DEF TablesOK
  <2>5. QED
    BY <1>1, <2>1, <2>3, <2>4, LoginGoes
<1>5. QED
  BY <1>1, <1>3, <1>4

LEMMA ProcessesLogin ==
  ASSUME NEW w, OneProcess(w), UserInv, ProcessInv(w), LoginInv, NEW v \in Workers,
         Boot(v) \/ Bootstrap(v) \/ Crash(v)
  PROVE  LoginInv'
<1>1. SUFFICES ASSUME NEW r \in Requests
               PROVE  LoginOf(r)'
  BY DEF LoginInv
<1>2. LoginOf(r) /\ req[r] \in Request /\ TablesOK /\ r \in Tokens
  BY ReqTyped, UserAssumption DEF LoginInv
<1>3. CASE Boot(v)
  BY <1>2, <1>3 DEF Boot, tables, LoginOf, Called, Live
<1>4. CASE Bootstrap(v)
  <2>1. server[v] = "empty" /\ UNCHANGED <<sessions, req>>
    BY <1>4 DEF Bootstrap
  <2>2. v = w /\ Live = {} /\ ~Active(req[r])
    BY <2>1 DEF ProcessInv, OneProcess
  <2>3. sessions[r] = Nil
    BY <1>2, <2>2 DEF TablesOK, Live
  <2>4. QED
    BY <1>2, <2>1, <2>2, <2>3 DEF LoginOf, Active
<1>5. CASE Crash(v)
  <2>1. /\ UNCHANGED <<users, sessions>>
        /\ req'[r] = IF req[r].worker = v /\ req[r].phase # "ended"
                     THEN [req[r] EXCEPT !.phase = "ended", !.end = "killed"] ELSE req[r]
    BY <1>5 DEF Crash, tables
  <2>2. CASE req[r].worker = v /\ req[r].phase # "ended"
    <3>1. req'[r].phase = "ended" /\ req'[r].kind = req[r].kind /\ sessions'[r] = Nil
      BY <1>2, <2>1, <2>2 DEF Request, LoginOf
    <3>2. QED
      BY <1>2, <3>1 DEF LoginOf
  <2>3. CASE req[r].worker # v \/ req[r].phase = "ended"
    BY <1>2, <2>1, <2>3 DEF LoginOf, Called, Live
  <2>4. QED
    BY <2>2, <2>3
<1>6. QED
  BY <1>3, <1>4, <1>5

LEMMA LoginInit ==
  ASSUME Init
  PROVE  LoginInv
<1>1. demand \in DOMAIN Demands /\ req = [r \in Requests |-> Blank]
  BY DEF Init
<1>2. PICK s \in Asked.seeds : users = s.users /\ sessions = s.sessions
  BY DEF Init
<1>3. \A r \in Requests : sessions[r] = Nil
  BY <1>1, <1>2, UserAssumption DEF Asked, DemandOK, SeedOK
<1>4. QED
  BY <1>1, <1>3, BlankTyped DEF LoginInv, LoginOf

LEMMA LoginStep ==
  ASSUME FormLogins, NEW w, OneProcess(w), UserInv, ProcessInv(w), LoginInv, [Next]_vars
  PROVE  LoginInv'
<1>1. ASSUME NEW r \in Requests, Arrive(r) \/ Step(r)
      PROVE  LoginInv'
  BY <1>1, ArriveLogin, FindersLogin, RecordersLogin, CreateLogin, ReadersLogin, EditsLogin,
     DeleteUserLogin, ChangePasswordLogin, LogoutLogin, LoginLogin, RehashLogin,
     OpenSessionLogin DEF Step, Handler
<1>2. ASSUME NEW v \in Workers, Boot(v) \/ Bootstrap(v) \/ Crash(v)
      PROVE  LoginInv'
  BY <1>2, ProcessesLogin
<1>3. CASE UNCHANGED vars
  BY <1>3 DEF vars, LoginInv, LoginOf, Called, Live
<1>4. QED
  BY <1>1, <1>2, <1>3 DEF Next

(* A step is of one request, and leaves the others alone.                  *)
LEMMA OneSteps ==
  ASSUME UserInv, NEW r \in Requests, Arrive(r) \/ Step(r)
  PROVE  \A s \in Requests \ {r} : req'[s] = req[s]
<1> DEFINE Steps == \/ \E q, end : Stop(r, q, end)
                    \/ \E q, phase : Goto(r, q, phase)
<1>1. CASE Arrive(r)
  <2>1. Steps
    BY <1>1 DEF Arrive
  <2>2. QED
    BY <2>1 DEF Stop, Goto, UserInv
<1>2. CASE FindSession(r) \/ FindUser(r)
  BY <1>2 DEF FindSession, FindUser, Stop, Goto, UserInv
<1>3. CASE Create(r) \/ Edit(r) \/ Delete(r) \/ ChangePassword(r)
  BY <1>3 DEF Create, Edit, Delete, ChangePassword, Stop, Goto, UserInv
<1>4. CASE EditRole(r) \/ EditActive(r) \/ EditPassword(r)
  BY <1>4 DEF EditRole, EditActive, EditPassword, Updates, Goto, UserInv
<1>5. CASE RecordCreate(r) \/ RecordEdit(r) \/ RecordDelete(r) \/ RecordPassword(r)
  BY <1>5 DEF RecordCreate, RecordEdit, RecordDelete, RecordPassword, Record, Stop, Goto,
              UserInv
<1>6. CASE DeleteUser(r) \/ Login(r) \/ Rehash(r) \/ OpenSession(r) \/ Logout(r)
  BY <1>6 DEF DeleteUser, Login, Rehash, OpenSession, Logout, Stop, Goto, UserInv
<1>7. QED
  BY <1>1, <1>2, <1>3, <1>4, <1>5, <1>6 DEF Step, Handler

PasswordsStay ==
  \A r \in Requests : req[r].phase = "rehash" /\ req'[r] # req[r] =>
    \A i \in Live : users'[i] # Nil => users'[i].password = users[i].password

LEMMA LoginHonest ==
  ASSUME NEW w, OneProcess(w), UserInv, ProcessInv(w), LoginInv, [Next]_vars
  PROVE  PasswordsStay
<1>1. SUFFICES ASSUME NEW r \in Requests, req[r].phase = "rehash", req'[r] # req[r]
               PROVE  \A i \in Live : users'[i] # Nil => users'[i].password = users[i].password
  BY DEF PasswordsStay
<1>2. ASSUME NEW s \in Requests, Arrive(s) \/ Step(s)
      PROVE  \A i \in Live : users'[i].password = users[i].password
  <2>1. s = r
    BY <1>1, <1>2, OneSteps
  <2>2. Rehash(r)
    BY <1>1, <1>2, <2>1 DEF Arrive, Step, Handler, FindSession, FindUser, Create, RecordCreate,
       Edit, EditRole, EditActive, EditPassword, RecordEdit, Delete, RecordDelete, DeleteUser,
       ChangePassword, RecordPassword, Login, OpenSession, Logout, Begin, At
  <2>3. QED
    BY <2>2, RehashLogin
<1>3. ASSUME NEW v \in Workers, Boot(v) \/ Bootstrap(v) \/ Crash(v)
      PROVE  UNCHANGED users
  BY <1>1, <1>3 DEF Boot, Bootstrap, Crash, tables
<1>4. CASE UNCHANGED vars
  BY <1>1, <1>4 DEF vars
<1>5. QED
  BY <1>2, <1>3, <1>4 DEF Next

(* In one process and without logins of the API: between its steps a login *)
(* keeps the loop, so the account it found keeps its name and password.    *)
THEOREM LoginInductive ==
  ASSUME NEW CONSTANT w, OneProcess(w), FormLogins
  PROVE  Spec => []LoginInv
<1>1. Init => LoginInv
  BY LoginInit
<1>2. UserInv /\ ProcessInv(w) /\ LoginInv /\ [Next]_vars => LoginInv'
  BY LoginStep
<1>3. QED
  BY <1>1, <1>2, UserInductive, ProcessInductive, PTL DEF Spec

(* In one process, sessions that forms open are never another account's,   *)
(* although ids are given again.                                           *)
THEOREM SessionsOfOwners ==
  ASSUME NEW CONSTANT w, OneProcess(w), FormLogins
  PROVE  Spec => []SessionOfOwner
<1>1. LoginInv => SessionOfOwner
  BY DEF LoginInv, LoginOf, SessionOfOwner
<1>2. QED
  BY <1>1, LoginInductive, PTL

(* In one process, a login of the form never changes a password, also when *)
(* it stores a new hash.                                                   *)
THEOREM LoginsKeepPasswords ==
  ASSUME NEW CONSTANT w, OneProcess(w), FormLogins
  PROVE  Spec => LoginKeepsPassword
<1>1. UserInv /\ ProcessInv(w) /\ LoginInv /\ [Next]_vars => [PasswordsStay]_vars
  BY LoginHonest
<1>2. QED
  BY <1>1, UserInductive, ProcessInductive, LoginInductive, PTL
     DEF Spec, LoginKeepsPassword, PasswordsStay
===============================================================================
