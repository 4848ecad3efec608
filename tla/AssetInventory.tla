---------------------------- MODULE AssetInventory ----------------------------
(* The handlers of AssetStore implement Inventory: what they read before,  *)
(* and the rows behind an address, are theirs alone.                       *)
EXTENDS AssetStore

StoredIps == {ip \in Ips : Find(ip) # {}}

ActionLog == [ip \in Ips |-> [k \in DOMAIN audit[ip] |-> audit[ip][k].action]]

(* The auto-host button is an update of the host of an address.            *)
CallOf(q) == [op |-> IF q.op = "autohost" THEN "update" ELSE q.op,
              ip |-> q.ip, answer |-> q.answer]

Calls == [r \in Requests |-> CallOf(req[r])]

Ledger == INSTANCE Inventory WITH stored <- StoredIps, log <- ActionLog, call <- Calls

(* Each request takes effect at most once and in one step: every step of   *)
(* the handlers is a step of Inventory or invisible to it.                 *)
ImplementsInventory == Ledger!Spec
===============================================================================
