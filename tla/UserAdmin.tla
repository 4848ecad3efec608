------------------------------- MODULE UserAdmin -------------------------------
(***************************************************************************)
(* Accounts and sessions: the users page, the password form, login, logout *)
(* and the first superuser, in one or several server processes.            *)
(*                                                                         *)
(* A request finds its user in two reads, on a thread, before its form is  *)
(* awaited.  The handler of a form then keeps the event loop of its        *)
(* process; its transactions commit one by one.  API logins and logouts    *)
(* run on threads.  Ids of deleted users are given again.                  *)
(*                                                                         *)
(* A hashed password is the password and whether its hash is a legacy one. *)
(***************************************************************************)
EXTENDS Naturals, FiniteSets

CONSTANTS
  Nil,
  Requests,             \* numbered in the order in which they arrive
  Workers,              \* server processes
  Names, Passwords,
  Tokens,               \* the sessions; a login's is the request's number
  Admin, AdminPassword, \* ADMIN_BOOTSTRAP_USERNAME, ADMIN_BOOTSTRAP_PASSWORD
  MaxId,
  Demands               \* what the users of a behaviour may do, by a name

Ids   == 1..MaxId
Roles == {"Viewer", "Editor", "Superuser"}
User  == [name : Names, password : Passwords, legacy : BOOLEAN,
          role : Roles, active : BOOLEAN]

(* token: the cookie; id, name: whom the form is about; password: the new  *)
(* one, or Nil; current: the one given to log in or to change it.          *)
Form == [kind : {"create", "edit", "delete", "password", "login", "apiLogin", "logout"},
         token : Tokens \union {Nil}, id : Ids \union {Nil}, name : Names \union {Nil},
         password : Passwords \union {Nil}, current : Passwords \union {Nil},
         editor : BOOLEAN, active : BOOLEAN]

(* The UNIQUE and REFERENCES clauses of the schema; requests have no       *)
(* sessions yet; the superuser that the first start made was kept.         *)
SeedOK(s) ==
  LET rows == {i \in Ids : s.users[i] # Nil} IN
  /\ s.users \in [Ids -> User \union {Nil}] /\ s.sessions \in [Tokens -> rows \union {Nil}]
  /\ \A i, k \in rows : s.users[i].name = s.users[k].name => i = k
  /\ \A r \in Requests : s.sessions[r] = Nil
  /\ rows # {} => \E i \in rows : s.users[i].role = "Superuser" /\ s.users[i].active

(* seeds: the tables a behaviour may start from.  No form makes a second   *)
(* superuser; the tests and old databases do.  restarts is a bound.        *)
DemandOK(d) ==
  /\ d.requests \subseteq Requests /\ d.workers \subseteq Workers
  /\ d.forms \subseteq Form /\ d.restarts \in Nat /\ \A s \in d.seeds : SeedOK(s)

ASSUME UserAssumption ==
  /\ MaxId \in Nat \ {0}
  /\ Requests \subseteq Nat /\ Requests \subseteq Tokens
  /\ Nil \notin Tokens \union Workers \union Names \union Passwords \union Nat \union User
  /\ Admin \in Names /\ AdminPassword \in Passwords
  /\ \A name \in DOMAIN Demands : DemandOK(Demands[name])

VARIABLES
  users, sessions,      \* the tables; a session is known by its token
  audit,                \* USER entries: [actor, by, action, id, name]
  req,                  \* the requests
  loop,                 \* per process, the request that keeps its event loop
  server,               \* per process: "off", "empty" (no users yet), "up"
  restarts,
  demand                \* the name of this behaviour's demand; it never changes

vars   == <<users, sessions, audit, req, loop, server, restarts, demand>>
tables == <<users, sessions, audit>>

Asked == Demands[demand]

(* user, uid: who asks; made: the id of a new user; target: the row of the *)
(* user that the form is about; changed: something was.                    *)
Blank == [kind |-> "none", phase |-> "new", worker |-> Nil, form |-> Nil, user |-> Nil,
          uid |-> Nil, made |-> Nil, target |-> Nil, changed |-> FALSE, end |-> "none"]

Live == {i \in Ids : users[i] # Nil}
Called(name) == {i \in Live : users[i].name = name}
ActiveSuperusers == {i \in Live : users[i].role = "Superuser" /\ users[i].active}

(* INTEGER PRIMARY KEY without AUTOINCREMENT.                              *)
NextId(i) == (\A k \in Live : k < i) /\ (i = 1 \/ i - 1 \in Live)

-----------------------------------------------------------------------------
(* Steps of a request.                                                     *)

At(r, phase) == req[r].phase = phase

Goto(r, q, phase) == req' = [req EXCEPT ![r] = [q EXCEPT !.phase = phase]]

Stop(r, q, end) ==
  /\ req' = [req EXCEPT ![r] = [q EXCEPT !.phase = "ended", !.end = end]]
  /\ loop' = [w \in Workers |-> IF loop[w] = r THEN Nil ELSE loop[w]]

KeepsTables == UNCHANGED <<tables, server, restarts, demand>>
KeepsLoop   == UNCHANGED loop

Arrive(r) ==
  /\ r \in Asked.requests /\ At(r, "new") /\ \A i \in Requests : i < r => ~At(i, "new")
  /\ \E f \in Asked.forms, w \in Workers :
       /\ server[w] = "up"
       /\ Goto(r, [Blank EXCEPT !.kind = f.kind, !.form = f, !.worker = w],
               CASE f.kind \in {"login", "apiLogin"} -> "login"
                 [] f.kind = "logout" -> "logout"
                 [] OTHER -> "session")
  /\ KeepsLoop /\ KeepsTables

(* get_current_ui_user: the session, then the user.  A locked database     *)
(* counts as no session.                                                   *)
FindSession(r) ==
  LET q == req[r] uid == IF q.form.token = Nil THEN Nil ELSE sessions[q.form.token] IN
  /\ At(r, "session")
  /\ \/ Stop(r, q, "refused")
     \/ uid # Nil /\ Goto(r, [q EXCEPT !.uid = uid], "user") /\ KeepsLoop
  /\ KeepsTables

FindUser(r) ==
  LET q == req[r]
      user == users[req[r].uid]
      allowed == /\ user # Nil /\ user.active
                 /\ q.kind # "password" => user.role = "Superuser" IN
  /\ At(r, "user")
  /\ IF allowed THEN Goto(r, [q EXCEPT !.user = user], "form") /\ KeepsLoop
                ELSE Stop(r, q, "refused")
  /\ KeepsTables

(* The form has arrived: the handler takes the event loop.                 *)
Begin(r, kind) == /\ At(r, "form") /\ req[r].kind = kind
                  /\ loop[req[r].worker] = Nil

Holds(r) == loop' = [loop EXCEPT ![req[r].worker] = r]

-----------------------------------------------------------------------------
(* The audit entry is an INSERT of its own, with the actor read long ago:  *)
(* if that user is gone the foreign key refuses it.                        *)

EntryOf(actor, uid, action, id, name) ==
  [actor |-> uid, by |-> actor.name, action |-> action, id |-> id, name |-> name]

Record(r, q, action, id, name, next) ==
  IF q.uid \in Live
  THEN /\ audit' = audit \union {EntryOf(q.user, q.uid, action, id, name)}
       /\ IF next = "ended" THEN Stop(r, q, "done") ELSE Goto(r, q, next) /\ KeepsLoop
       /\ UNCHANGED <<users, sessions, server, restarts, demand>>
  ELSE Stop(r, q, "error") /\ KeepsTables

-----------------------------------------------------------------------------
(* ui_create_user                                                          *)

Create(r) ==
  LET q == req[r] f == req[r].form
      valid == Nil \notin {f.name, f.password} /\ Called(f.name) = {} IN
  /\ Begin(r, "create")
  /\ \/ ~valid /\ Stop(r, q, "refused") /\ KeepsTables
     \/ /\ valid
        /\ \E i \in Ids :
             /\ NextId(i)
             /\ users' = [users EXCEPT ![i] =
                  [name |-> f.name, password |-> f.password, legacy |-> FALSE,
                   role |-> IF f.editor THEN "Editor" ELSE "Viewer", active |-> f.active]]
             /\ Goto(r, [q EXCEPT !.made = i, !.changed = TRUE], "created")
        /\ Holds(r) /\ UNCHANGED <<sessions, audit, server, restarts, demand>>

RecordCreate(r) ==
  At(r, "created") /\ Record(r, req[r], "CREATE", req[r].made, req[r].form.name, "ended")

-----------------------------------------------------------------------------
(* ui_edit_user: role, state and password in transactions of their own,    *)
(* then the audit entry.                                                   *)

CanDeactivate_Any(i) == TRUE

CanDeactivate(i) == users[i].role = "Superuser" => Cardinality(ActiveSuperusers) > 1

Edit(r) ==
  LET q == req[r] f == req[r].form IN
  /\ Begin(r, "edit")
  /\ IF \/ f.id \notin Live
        \/ users[f.id].role = "Superuser" /\ ~f.editor
        \/ ~f.active /\ ~CanDeactivate(f.id)
     THEN Stop(r, q, "refused")
     ELSE Goto(r, [q EXCEPT !.target = users[f.id]], "role") /\ Holds(r)
  /\ KeepsTables

(* One update: if the row is gone meanwhile, nothing is changed or said.   *)
Updates(r, differs, row, next) ==
  LET q == req[r] id == req[r].form.id IN
  /\ IF differs /\ id \in Live
     THEN /\ users' = [users EXCEPT ![id] = row]
          /\ Goto(r, [q EXCEPT !.target = row, !.changed = TRUE], next)
          /\ UNCHANGED <<sessions, audit, server, restarts, demand>>
     ELSE Goto(r, q, next) /\ KeepsTables
  /\ KeepsLoop

EditRole(r) ==
  LET q == req[r] role == IF req[r].form.editor THEN "Editor" ELSE "Viewer" IN
  /\ At(r, "role")
  /\ Updates(r, q.target.role \notin {"Superuser", role},
             [users[q.form.id] EXCEPT !.role = role], "active")

EditActive(r) ==
  LET q == req[r] IN
  /\ At(r, "active")
  /\ Updates(r, q.target.active # q.form.active,
             [users[q.form.id] EXCEPT !.active = q.form.active], "rotate")

EditPassword(r) ==
  LET q == req[r] IN
  /\ At(r, "rotate")
  /\ Updates(r, q.form.password # Nil,
             [users[q.form.id] EXCEPT !.password = q.form.password, !.legacy = FALSE],
             "edited")

RecordEdit(r) ==
  LET q == req[r] IN
  /\ At(r, "edited")
  /\ IF q.changed THEN Record(r, q, "UPDATE", q.form.id, q.target.name, "ended")
                  ELSE Stop(r, q, "done") /\ KeepsTables

-----------------------------------------------------------------------------
(* ui_delete_user: the audit entry first, then the user with its sessions. *)
(* Whether the name is confirmed is a matter of the form.                  *)

DeleteAllowed(q, id) ==
  id \in Live /\ id # q.uid /\ users[id].name = q.form.name /\ CanDeactivate(id)

Delete(r) ==
  LET q == req[r] id == req[r].form.id IN
  /\ Begin(r, "delete")
  /\ IF DeleteAllowed(q, id)
     THEN Goto(r, [q EXCEPT !.target = users[id]], "deleting") /\ Holds(r)
     ELSE Stop(r, q, "refused")
  /\ KeepsTables

RecordDelete_Later(r) ==
  At(r, "deleting") /\ Goto(r, req[r], "delete") /\ KeepsLoop /\ KeepsTables

RecordDelete(r) ==
  /\ At(r, "deleting")
  /\ Record(r, req[r], "DELETE", req[r].form.id, req[r].target.name, "delete")

Orphaned_Kept(id) == sessions

Orphaned(id) == [t \in Tokens |-> IF sessions[t] = id THEN Nil ELSE sessions[t]]

DeleteUser(r) ==
  LET q == req[r] id == req[r].form.id IN
  /\ At(r, "delete")
  /\ users' = [users EXCEPT ![id] = Nil]
  /\ sessions' = Orphaned(id)
  /\ audit' = {IF e.actor = id THEN [e EXCEPT !.actor = Nil] ELSE e : e \in audit}
  /\ Stop(r, [q EXCEPT !.changed = TRUE], "done")
  /\ UNCHANGED <<server, restarts, demand>>

-----------------------------------------------------------------------------
(* ui_account_password_submit: the current password is compared with the   *)
(* hash read with the user.  The form's own checks decide the forms.       *)

ChangePassword(r) ==
  LET q == req[r] f == req[r].form IN
  /\ Begin(r, "password")
  /\ IF /\ f.current = q.user.password /\ f.password \notin {Nil, f.current}
        /\ q.uid \in Live
     THEN /\ users' = [users EXCEPT ![q.uid].password = f.password, ![q.uid].legacy = FALSE]
          /\ Goto(r, [q EXCEPT !.user = users[q.uid], !.changed = TRUE], "changed")
          /\ Holds(r) /\ UNCHANGED <<sessions, audit, server, restarts, demand>>
     ELSE Stop(r, q, "refused") /\ KeepsTables

RecordPassword(r) ==
  LET q == req[r] IN At(r, "changed") /\ Record(r, q, "UPDATE", q.uid, q.user.name, "ended")

-----------------------------------------------------------------------------
(* Logins, of the form on the event loop and of the API on a thread: check *)
(* the password, store a new hash for a legacy one, create the session.    *)

InTurn(q) == q.kind = "login" => loop[q.worker] = Nil

Verified(f, i) == users[i].active /\ users[i].password = f.current

Login(r) ==
  LET q == req[r] IN
  /\ At(r, "login") /\ InTurn(q)
  /\ \/ /\ \A i \in Called(q.form.name) : ~Verified(q.form, i)
        /\ Stop(r, q, "refused")
     \/ \E i \in Called(q.form.name) :
          /\ Verified(q.form, i)
          /\ Goto(r, [q EXCEPT !.uid = i, !.user = users[i]], "rehash")
          /\ IF q.kind = "login" THEN Holds(r) ELSE KeepsLoop
  /\ KeepsTables

Rehash_Everyone(r) ==
  LET q == req[r] IN
  /\ At(r, "rehash") /\ q.user.legacy
  /\ users' = [i \in Ids |-> IF i \in Live THEN [users[i] EXCEPT !.password = q.form.current]
                                           ELSE Nil]
  /\ Goto(r, q, "token") /\ KeepsLoop /\ UNCHANGED <<sessions, audit, server, restarts, demand>>

Rehash(r) ==
  LET q == req[r] IN
  /\ At(r, "rehash")
  /\ IF q.user.legacy /\ q.uid \in Live
     THEN /\ users' = [users EXCEPT ![q.uid].password = q.form.current, ![q.uid].legacy = FALSE]
          /\ UNCHANGED <<sessions, audit, server, restarts, demand>>
     ELSE KeepsTables
  /\ Goto(r, q, "token") /\ KeepsLoop

OpenSession_Retried(r) ==
  LET q == req[r] IN
  /\ At(r, "token") /\ q.uid \in Live
  /\ sessions' = [sessions EXCEPT ![r] = q.uid]
  /\ Stop(r, q, "done") /\ UNCHANGED <<users, audit, server, restarts, demand>>

OpenSession(r) ==
  LET q == req[r] IN
  /\ At(r, "token")
  /\ IF q.uid \in Live
     THEN /\ sessions' = [sessions EXCEPT ![r] = q.uid]
          /\ Stop(r, q, "done") /\ UNCHANGED <<users, audit, server, restarts, demand>>
     ELSE Stop(r, q, "error") /\ KeepsTables

(* A locked database keeps the session; the cookie goes in any case.       *)
Logout(r) ==
  LET q == req[r] IN
  /\ At(r, "logout")
  /\ \/ /\ q.form.token # Nil
        /\ sessions' = [sessions EXCEPT ![q.form.token] = Nil]
        /\ UNCHANGED <<users, audit, server, restarts, demand>>
     \/ KeepsTables
  /\ Stop(r, q, "done")

-----------------------------------------------------------------------------
(* bootstrap_admin: the first superuser, when a process finds no users.    *)

Boot(w) ==
  /\ w \in Asked.workers /\ server[w] = "off"
  /\ server' = [server EXCEPT ![w] = IF Live = {} THEN "empty" ELSE "up"]
  /\ UNCHANGED <<tables, req, loop, restarts, demand>>

Bootstrap(w) ==
  /\ server[w] = "empty"
  /\ \/ /\ Called(Admin) = {}
        /\ \E i \in Ids :
             /\ NextId(i)
             /\ users' = [users EXCEPT ![i] =
                  [name |-> Admin, password |-> AdminPassword, legacy |-> FALSE,
                   role |-> "Superuser", active |-> TRUE]]
        /\ server' = [server EXCEPT ![w] = "up"]
     \/ /\ Called(Admin) # {}          \* IntegrityError: the process ends
        /\ server' = [server EXCEPT ![w] = "off"] /\ UNCHANGED users
  /\ UNCHANGED <<sessions, audit, req, loop, restarts, demand>>

Crash(w) ==
  /\ restarts < Asked.restarts /\ restarts' = restarts + 1 /\ server[w] = "up"
  /\ server' = [server EXCEPT ![w] = "off"]
  /\ req' = [r \in Requests |->
       IF req[r].worker = w /\ req[r].phase # "ended"
       THEN [req[r] EXCEPT !.phase = "ended", !.end = "killed"] ELSE req[r]]
  /\ loop' = [loop EXCEPT ![w] = Nil]
  /\ UNCHANGED <<tables, demand>>

-----------------------------------------------------------------------------
Init ==
  /\ demand \in DOMAIN Demands
  /\ \E s \in Asked.seeds : users = s.users /\ sessions = s.sessions
  /\ audit = {} /\ req = [r \in Requests |-> Blank]
  /\ loop = [w \in Workers |-> Nil] /\ server = [w \in Workers |-> "off"] /\ restarts = 0

Handler(r) ==
  \/ Create(r) \/ RecordCreate(r)
  \/ Edit(r) \/ EditRole(r) \/ EditActive(r) \/ EditPassword(r) \/ RecordEdit(r)
  \/ Delete(r) \/ RecordDelete(r) \/ DeleteUser(r)
  \/ ChangePassword(r) \/ RecordPassword(r)
  \/ Login(r) \/ Rehash(r) \/ OpenSession(r) \/ Logout(r)

Step(r) == FindSession(r) \/ FindUser(r) \/ Handler(r)

Next ==
  \/ \E r \in Requests : Arrive(r) \/ Step(r)
  \/ \E w \in Workers : Boot(w) \/ Bootstrap(w) \/ Crash(w)

Spec == Init /\ [][Next]_vars

(* Threads go on; an event loop resumes the handlers that wait for it in   *)
(* turn; a process that ended is started again.                            *)
FairSpec == Spec /\ (\A r \in Requests : SF_vars(Step(r)))
                 /\ \A w \in Workers : WF_vars(Boot(w) \/ Bootstrap(w))

-----------------------------------------------------------------------------
(* Properties.                                                             *)

(* Tables and requests keep their types; names are unique, and a session   *)
(* or an audit entry refers to a user there is.                            *)
UserTypeOK ==
  /\ users \in [Ids -> User \union {Nil}] /\ sessions \in [Tokens -> Live \union {Nil}]
  /\ \A i, k \in Live : users[i].name = users[k].name => i = k
  /\ \A e \in audit : e.actor \in Live \union {Nil} /\ e.id \in Ids /\ e.name \in Names
  /\ loop \in [Workers -> Requests \union {Nil}] /\ demand \in DOMAIN Demands

(* docs/how-to-run.md: the last active superuser cannot be deleted, nor    *)
(* deactivated; so there always is one, whatever forms race.               *)
SuperuserRemains == (\E w \in Workers : server[w] = "up") => ActiveSuperusers # {}

(* docs/how-to-run.md: user-related audit logs are retained.  No user goes *)
(* without an entry that says who deleted it, even if the process ends     *)
(* halfway or the actor is deleted at the same time.                       *)
DeletionsAudited ==
  [][\A i \in Ids : users[i] # Nil /\ users'[i] = Nil =>
       \E e \in audit : e.action = "DELETE" /\ e.id = i /\ e.name = users[i].name]_vars

(* A session belongs to the account whose password was given, not to one   *)
(* that got its id later: deleting an account takes its sessions along.    *)
(* A login of the API may leave another (TokenOfOther.cfg).                *)
SessionOfOwner ==
  \A r \in Requests :
    sessions[r] # Nil => sessions[r] \in Called(req[r].form.name)

(* A login of the form never changes which password an account has, though *)
(* it writes the hash again; one of the API may (LoginUndoesRotation.cfg). *)
LoginKeepsPassword ==
  [][\A r \in Requests : req[r].phase = "rehash" /\ req'[r] # req[r] =>
       \A i \in Live : users'[i] # Nil => users'[i].password = users[i].password]_vars

(* Every request that arrived is answered.                                 *)
RequestsAnswered ==
  \A r \in Requests : req[r].phase # "new" ~> req[r].phase = "ended"

-----------------------------------------------------------------------------
(* What the documents say and the code does not keep.                      *)

(* docs/overview.md: user-management actions are written to the audit log: *)
(* nothing is left changed by a request that got an error.                 *)
ChangesAudited == \A r \in Requests : req[r].end = "error" => ~req[r].changed

(* docs/how-to-run.md: users change their own password by entering the     *)
(* current one.                                                            *)
OwnPasswordChanged ==
  [][\A r \in Requests : At(r, "form") /\ req'[r].phase = "changed" =>
       users[req[r].uid].password = req[r].form.current]_vars
===============================================================================
