------------------------------- MODULE Inventory -------------------------------
(***************************************************************************)
(* What the inventory promises to its clients, whatever its requests read  *)
(* and however they interleave: each request takes effect at most once, in *)
(* the step that answers it, and the log of an address tells its story.    *)
(* AssetInventory shows that the handlers of AssetStore implement this.    *)
(***************************************************************************)
EXTENDS Naturals, Sequences

CONSTANTS Nil, Requests, Ips, MaxRequests

VARIABLES
  stored,   \* the addresses in the table
  log,      \* per address, the actions of its audit entries
  call,     \* per request slot, what was asked, or how the last was answered
  served

vars == <<stored, log, call, served>>

Actions == {"CREATE", "UPDATE", "DELETE"}
Asks    == {"create", "update", "bulk", "delete", "archive"}
Call    == [op : Asks \union {"none"}, ip : Ips \union {Nil},
            answer : {"none", "ok", "missing", "conflict", "error"}]

Answered(answer) == [op |-> "none", ip |-> Nil, answer |-> answer]

Ask(r) ==
  /\ call[r].op = "none" /\ served < MaxRequests /\ served' = served + 1
  /\ \E op \in Asks : \E ip \in IF op = "bulk" THEN {Nil} ELSE Ips :
       call' = [call EXCEPT ![r] = [op |-> op, ip |-> ip, answer |-> "none"]]
  /\ UNCHANGED <<stored, log>>

Answer(r, answer) == /\ call' = [call EXCEPT ![r] = Answered(answer)]
                     /\ UNCHANGED served

Refuse(r, answer) == Answer(r, answer) /\ UNCHANGED <<stored, log>>

Wrote(ip, action) == log' = [log EXCEPT ![ip] = Append(@, action)]

(* A create stores the address or renews the row that has it.              *)
Create(r) ==
  /\ call[r].op = "create"
  /\ \/ /\ stored' = stored \union {call[r].ip}
        /\ Wrote(call[r].ip, IF call[r].ip \in stored THEN "UPDATE" ELSE "CREATE")
        /\ Answer(r, "ok")
     \/ \E answer \in {"conflict", "error"} : Refuse(r, answer)

(* An update changes a stored row, or nothing.                             *)
Update(r) ==
  /\ call[r].op = "update"
  /\ \/ /\ call[r].ip \in stored
        /\ Wrote(call[r].ip, "UPDATE") /\ Answer(r, "ok") /\ UNCHANGED stored
     \/ \E answer \in {"ok", "error"} : Refuse(r, answer)
     \/ call[r].ip \notin stored /\ Refuse(r, "missing")

(* A bulk update changes all the rows it found, or none.                   *)
Bulk(r) ==
  /\ call[r].op = "bulk"
  /\ \/ /\ \E S \in SUBSET stored :
             log' = [ip \in Ips |-> IF ip \in S THEN Append(log[ip], "UPDATE") ELSE log[ip]]
        /\ Answer(r, "ok") /\ UNCHANGED stored
     \/ Refuse(r, "error")

(* One of two deletes finds the row, the other learns that it is gone.     *)
Delete(r) ==
  /\ call[r].op = "delete"
  /\ \/ /\ call[r].ip \in stored /\ stored' = stored \ {call[r].ip}
        /\ Wrote(call[r].ip, "DELETE") /\ Answer(r, "ok")
     \/ call[r].ip \notin stored /\ Refuse(r, "missing")

(* An archived address stays in the table; nothing is logged.              *)
Archive(r) == call[r].op = "archive" /\ Refuse(r, "ok")

Init ==
  /\ stored \in SUBSET Ips
  /\ log = [ip \in Ips |-> IF ip \in stored THEN <<"CREATE">> ELSE <<>>]
  /\ call = [r \in Requests |-> Answered("none")]
  /\ served = 0

Serve(r) == Create(r) \/ Update(r) \/ Bulk(r) \/ Delete(r) \/ Archive(r)

Next == \E r \in Requests : Ask(r) \/ Serve(r)

Spec == Init /\ [][Next]_vars

-----------------------------------------------------------------------------
TypeOK ==
  /\ stored \subseteq Ips /\ log \in [Ips -> Seq(Actions)]
  /\ call \in [Requests -> Call] /\ served \in Nat
  /\ \A r \in Requests : call[r].op \in Asks \ {"bulk"} => call[r].ip \in Ips

(* An address is stored exactly when its log says so: its last entry is    *)
(* not a DELETE.                                                           *)
Told(trail) == trail # <<>> /\ trail[Len(trail)] # "DELETE"

LogTellsStored == \A ip \in Ips : ip \in stored <=> Told(log[ip])

(* An address is created once between two deletions: the log of an address *)
(* is a sequence of lives, each begun by a CREATE.                         *)
LogOfLives ==
  \A ip \in Ips : \A k \in 1..Len(log[ip]) :
    (log[ip][k] = "CREATE") <=> (k = 1 \/ log[ip][k - 1] = "DELETE")
===============================================================================
