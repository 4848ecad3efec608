---------------------------- MODULE MCUserAdmin ----------------------------
(* Instances of UserAdmin for TLC.                                         *)
EXTENDS UserAdmin

CONSTANTS root, ann, bob, p1, p2, tr, ta, tb, w1, w2

Blanked == [kind |-> "logout", token |-> Nil, id |-> Nil, name |-> Nil, password |-> Nil,
            current |-> Nil, editor |-> FALSE, active |-> TRUE]

Signs(kind, name, current) ==
  [Blanked EXCEPT !.kind = kind, !.name = name, !.current = current]
LogoutOf(token) == [Blanked EXCEPT !.token = token]
CreateBy(token, name, password) ==
  [Blanked EXCEPT !.kind = "create", !.token = token, !.name = name,
                  !.password = password, !.editor = TRUE]
EditBy(token, id, editor, active, password) ==
  [Blanked EXCEPT !.kind = "edit", !.token = token, !.id = id, !.editor = editor,
                  !.active = active, !.password = password]
DeleteBy(token, id, name) ==
  [Blanked EXCEPT !.kind = "delete", !.token = token, !.id = id, !.name = name]
PasswordBy(token, current, password) ==
  [Blanked EXCEPT !.kind = "password", !.token = token, !.current = current,
                  !.password = password]

Account(name, password, legacy, role, active) ==
  [name |-> name, password |-> password, legacy |-> legacy, role |-> role,
   active |-> active]
Table(rows) == [i \in Ids |-> IF i \in DOMAIN rows THEN rows[i] ELSE Nil]
SeedOf(rows, signed) ==
  [users |-> Table(rows),
   sessions |-> [t \in Tokens |-> IF t \in DOMAIN signed THEN signed[t] ELSE Nil]]

Root == Account(root, p2, FALSE, "Superuser", TRUE)
Ann  == Account(ann, p1, TRUE, "Superuser", TRUE)
Bob  == Account(bob, p1, TRUE, "Viewer", TRUE)

NoUsers == SeedOf(<<>>, [t \in {} |-> Nil])
Small   == SeedOf(<<Root, Bob>>, [t \in {tr, tb} |-> IF t = tr THEN 1 ELSE 2])
Two     == SeedOf(<<Root, Ann>>, [t \in {tr, ta} |-> IF t = tr THEN 1 ELSE 2])
All     == SeedOf(<<Root, Ann, Bob>>,
                  [t \in {tr, ta, tb} |-> CASE t = tr -> 1 [] t = ta -> 2 [] OTHER -> 3])
Idle    == SeedOf(<<Root, [Ann EXCEPT !.active = FALSE], Bob>>,
                  [t \in {tr, ta, tb} |-> CASE t = tr -> 1 [] t = ta -> 2 [] OTHER -> 3])

AdminForms ==
  {CreateBy(tr, bob, p2), CreateBy(tr, Nil, p2),
   EditBy(ta, 1, TRUE, FALSE, Nil), EditBy(ta, 3, FALSE, TRUE, p2), EditBy(tr, 2, TRUE, FALSE, Nil),
   DeleteBy(tr, 2, ann), DeleteBy(ta, 1, root), DeleteBy(ta, 3, bob), PasswordBy(tb, p1, p2)}
AdminSeeds == {NoUsers, Two, All, Idle}

LoginForms ==
  {Signs("login", bob, p) : p \in {p1, p2}}
    \union {CreateBy(tr, ann, p1), EditBy(tr, 2, TRUE, FALSE, Nil),
            EditBy(tr, 2, TRUE, TRUE, p2), DeleteBy(tr, 2, bob),
            PasswordBy(tb, p1, p2), LogoutOf(tb), LogoutOf(Nil)}
ReuseForms(kind) == {Signs(kind, bob, p1), DeleteBy(tr, 2, bob), CreateBy(tr, ann, p1)}
SmallSeeds == {Small, SeedOf(<<Root, [Bob EXCEPT !.active = FALSE]>>,
                             [t \in {tr} |-> 1])}
ProcessForms ==
  {Signs("apiLogin", bob, p1), EditBy(tr, 3, TRUE, FALSE, p2),
   DeleteBy(ta, 3, bob), DeleteBy(tr, 2, ann)}

-----------------------------------------------------------------------------
(* Administrators in one process and in two; logins in every order with    *)
(* the changes of their account, and ids that are used again; logins of    *)
(* the API.                                                                *)
Fill(requests, workers, forms, seeds, again) ==
  [requests |-> requests, workers |-> workers, forms |-> forms, seeds |-> seeds,
   restarts |-> again]

FormDemands ==
  [admins    |-> Fill({1, 2, 3}, {w1}, AdminForms, AdminSeeds, 1),
   processes |-> Fill({1, 2, 3}, {w1, w2}, ProcessForms, {All, NoUsers}, 0)]

LoginDemands ==
  [orders |-> Fill({1, 2}, {w1}, LoginForms, SmallSeeds, 1),
   reuse  |-> Fill({1, 2, 3}, {w1}, ReuseForms("login") \union
                   {EditBy(tr, 2, TRUE, TRUE, p2), PasswordBy(tb, p1, p2)}, {Small}, 0),
   api    |-> Fill({1, 2}, {w1}, ReuseForms("apiLogin") \union {LogoutOf(tb)}, {Small}, 1)]

RaceDemands ==
  [race |-> Fill({1, 2}, {w1, w2}, {DeleteBy(tr, 2, ann), DeleteBy(ta, 1, root)}, {Two}, 0)]
UnauditDemands ==
  [edit |-> Fill({1, 2}, {w1}, {DeleteBy(tr, 2, ann), EditBy(ta, 3, TRUE, TRUE, Nil)}, {All}, 0)]
RotateDemands ==
  [rotate |-> Fill({1, 2}, {w1}, {PasswordBy(tb, p1, p2), EditBy(tr, 2, FALSE, TRUE, p2)},
                   {Small}, 0)]
UndoDemands ==
  [undo |-> Fill({1, 2}, {w1}, {Signs("apiLogin", bob, p1), EditBy(tr, 2, FALSE, TRUE, p2)},
                 {Small}, 0)]
ReuseDemands == [reuse |-> Fill({1, 2, 3}, {w1}, ReuseForms("apiLogin"), {Small}, 0)]
=============================================================================
