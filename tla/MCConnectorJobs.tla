--------------------------- MODULE MCConnectorJobs ---------------------------
(* Instances of ConnectorJobs for TLC.                                     *)
EXTENDS ConnectorJobs

CONSTANTS j1, j2

(* A form that every connector accepts.                                    *)
ApplyForms ==
  {[filled |-> {"target", "username", "label", "query", "output", "db"},
    password |-> "given", tls |-> FALSE, insecure |-> FALSE,
    kind |-> TRUE, port |-> 1, timeout |-> 1, mode |-> "apply", loose |-> {}]}

(* Every combination of credentials, and each other field by itself wrong  *)
(* or written as only a form reads it.                                     *)
CredentialForms ==
  [filled : {{"target", "label", "query", "output", "db"} \union some :
               some \in SUBSET {"token", "username"}},
   password : {"absent", "empty", "given"}, tls : BOOLEAN, insecure : BOOLEAN,
   kind : {TRUE}, port : {65535}, timeout : {1}, mode : {"apply"}, loose : {{}}]

Faults(f) ==
  {[f EXCEPT !.port = p] : p \in {Bad, 0, 65536}}
    \union {[f EXCEPT !.timeout = t] : t \in {Bad, 0}}
    \union {[f EXCEPT !.mode = m] : m \in {"dry-run", "file", "other"}}
    \union {[f EXCEPT !.kind = FALSE]}
    \union {[f EXCEPT !.loose = {field}] : field \in Fields}
    \union {[f EXCEPT !.filled = f.filled \ {text}] : text \in f.filled}

EveryForm == CredentialForms \union UNION {Faults(f) : f \in
  {g \in CredentialForms : g.password = "given" /\ ~g.tls /\ ~g.insecure}}

(* Two users race in the job table through ticks and a restart; one user   *)
(* tries every form and every command.                                     *)
Fill(users, runnable, forms, sources, ticks, again) ==
  [users |-> users, runnable |-> runnable, forms |-> forms, sources |-> sources,
   clock |-> ticks, restarts |-> again]
Race  == Fill({j1, j2}, {"ceph"}, ApplyForms, {"form"}, 2, 1)
Vary  == Fill({j1}, Connectors, EveryForm, {"form", "command"}, 0, 0)
Alone == Fill({j1}, {"ceph"}, ApplyForms, {"form"}, 0, 0)
Slow  == Fill({j1}, {"cassandra"}, ApplyForms, {"form"}, 2, 0)

TableDemands  == [race |-> Race, vary |-> Vary]
StuckDemands  == [alone |-> Alone]
PrunedDemands == [slow |-> Slow]
===============================================================================
