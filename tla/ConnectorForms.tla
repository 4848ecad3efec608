---------------------------- MODULE ConnectorForms ----------------------------
(***************************************************************************)
(* What the six connectors of ipocket accept before they run: the checks   *)
(* of the UI form, the checks of the command line, and the credentials     *)
(* that the fetch then sends.  A form is what the browser posted or the    *)
(* arguments of the command; every operator is a function of it.           *)
(***************************************************************************)
EXTENDS Integers, FiniteSets

Connectors == {"cassandra", "ceph", "elasticsearch", "kubernetes",
               "prometheus", "vcenter"}
Texts == {"target", "token", "query", "label", "username", "output", "db"}
Bad   == -1   \* a text that int() refuses

(* filled: the text fields that are not blank; target is the URL, server   *)
(* or list of contact points.  A password is absent, given but empty, or   *)
(* given.  kind, port, timeout and mode are what a form reads: kind tells  *)
(* whether IPAssetType.normalize knows the type.  loose names the fields   *)
(* among them that are written as only a form reads them: a mode in        *)
(* capitals or with blanks around it, a type with blanks or by its old     *)
(* name (IPMI_ILO), a number left empty for its default.                   *)
Fields == {"mode", "kind", "port", "timeout"}
Form == [filled : SUBSET Texts, password : {"absent", "empty", "given"},
         tls : BOOLEAN, insecure : BOOLEAN, kind : BOOLEAN,
         port : {Bad, 0, 1, 65535, 65536}, timeout : {Bad, 0, 1},
         mode : {"dry-run", "apply", "file", "other"}, loose : SUBSET Fields]

Filled(f, texts)   == texts \subseteq f.filled
Literal(f, fields) == fields \intersect f.loose = {}
Named(f)         == "username" \in f.filled
UiMode(f)        == f.mode \in {"dry-run", "apply"}
CliMode(f)       == f.mode \in {"dry-run", "apply", "file"}
PortValid(f)     == f.port > 0 /\ f.port <= 65535
TimeoutValid(f)  == f.timeout > 0

(* len(password) > 0 in the forms, "is not None" on the command line *)
UiPassword(f)  == f.password = "given"
CliPassword(f) == f.password # "absent"

-----------------------------------------------------------------------------
(* The checks of the forms.                                                *)

CassandraAccepts_LoneUser(f) ==
  /\ Filled(f, {"target"}) /\ PortValid(f) /\ UiMode(f)
  /\ f.insecure => f.tls
  /\ TimeoutValid(f) /\ f.kind
CassandraAccepts_PlainInsecure(f) ==
  /\ Filled(f, {"target"}) /\ PortValid(f) /\ UiMode(f)
  /\ Named(f) <=> UiPassword(f)
  /\ TimeoutValid(f) /\ f.kind

CassandraAccepts(f) ==
  /\ Filled(f, {"target"}) /\ PortValid(f) /\ UiMode(f)
  /\ Named(f) <=> UiPassword(f)
  /\ f.insecure => f.tls
  /\ TimeoutValid(f) /\ f.kind

CephAccepts(f) ==
  /\ Filled(f, {"target", "username"}) /\ UiPassword(f) /\ UiMode(f)
  /\ TimeoutValid(f) /\ f.kind

ElasticsearchAccepts(f) ==
  /\ Filled(f, {"target"}) /\ UiMode(f)
  /\ IF "token" \in f.filled THEN ~Named(f) /\ ~UiPassword(f)
                             ELSE Named(f) <=> UiPassword(f)
  /\ TimeoutValid(f) /\ f.kind

KubernetesAccepts(f) ==
  Filled(f, {"target", "token"}) /\ UiMode(f) /\ TimeoutValid(f) /\ f.kind

PrometheusAccepts(f) ==
  /\ Filled(f, {"target", "query", "label"}) /\ UiMode(f)
  /\ TimeoutValid(f) /\ f.kind

VcenterAccepts(f) ==
  Filled(f, {"target", "username"}) /\ UiPassword(f) /\ UiMode(f) /\ PortValid(f)

(* What the handlers hand to their jobs, as arguments of a command: mode   *)
(* in lower case, the type by its value, the defaults filled in, no        *)
(* password for a blank one, and the database of the server.               *)
AsArguments(f) ==
  [f EXCEPT !.filled = @ \union {"db"}, !.loose = {},
            !.password = IF UiPassword(f) THEN "given" ELSE "absent"]

(* What the command lines check: argparse first, whose choices and ints    *)
(* are literal, then _validate_cli_args.  A required argument may be       *)
(* blank, and only the text of --contact-points is looked at               *)
(* (parse_contact_points).                                                 *)
DestinationGiven(f) ==
  /\ f.mode = "file" => "output" \in f.filled
  /\ f.mode \in {"dry-run", "apply"} => "db" \in f.filled

CassandraCliAccepts(f) ==
  /\ Literal(f, Fields)
  /\ CliMode(f) /\ f.kind /\ DestinationGiven(f) /\ PortValid(f) /\ TimeoutValid(f)
  /\ f.insecure => f.tls
  /\ Named(f) <=> CliPassword(f)
  /\ Filled(f, {"target"})

CephCliAccepts(f) ==
  /\ Literal(f, {"mode", "kind", "timeout"})
  /\ CliMode(f) /\ f.kind /\ DestinationGiven(f) /\ TimeoutValid(f)
  /\ CliPassword(f)

ElasticsearchCliAccepts(f) ==
  /\ Literal(f, {"mode", "kind", "timeout"})
  /\ CliMode(f) /\ f.kind /\ DestinationGiven(f) /\ TimeoutValid(f)
  /\ "token" \in f.filled => ~Named(f) /\ ~CliPassword(f)
  /\ Named(f) <=> CliPassword(f)

KubernetesCliAccepts(f) ==
  /\ Literal(f, {"mode", "kind", "timeout"})
  /\ CliMode(f) /\ f.kind /\ DestinationGiven(f) /\ TimeoutValid(f)

PrometheusCliAccepts(f) ==
  /\ Literal(f, {"mode", "kind", "timeout"})
  /\ CliMode(f) /\ f.kind /\ DestinationGiven(f) /\ f.timeout # Bad
  /\ Filled(f, {"label"})       \* refused by extract_ip_assets_from_result

VcenterCliAccepts(f) ==
  /\ Literal(f, {"mode", "port"})
  /\ CliMode(f) /\ DestinationGiven(f) /\ CliPassword(f) /\ f.port # Bad

Accepts(c, f) ==
  \/ c = "cassandra"     /\ CassandraAccepts(f)
  \/ c = "ceph"          /\ CephAccepts(f)
  \/ c = "elasticsearch" /\ ElasticsearchAccepts(f)
  \/ c = "kubernetes"    /\ KubernetesAccepts(f)
  \/ c = "prometheus"    /\ PrometheusAccepts(f)
  \/ c = "vcenter"       /\ VcenterAccepts(f)

CliAccepts(c, f) ==
  \/ c = "cassandra"     /\ CassandraCliAccepts(f)
  \/ c = "ceph"          /\ CephCliAccepts(f)
  \/ c = "elasticsearch" /\ ElasticsearchCliAccepts(f)
  \/ c = "kubernetes"    /\ KubernetesCliAccepts(f)
  \/ c = "prometheus"    /\ PrometheusCliAccepts(f)
  \/ c = "vcenter"       /\ VcenterCliAccepts(f)

-----------------------------------------------------------------------------
(* The identity the fetch presents, from what the form or the command      *)
(* passed on: password is None unless the caller counts it as given.       *)

UserAndPassword(f, hasPassword) ==
  IF Named(f) /\ hasPassword THEN "password" ELSE "anonymous"

CassandraIdentity(f, hasPassword)  == UserAndPassword(f, hasPassword)
CephIdentity(f, hasPassword)       == "password"
ElasticsearchIdentity(f, hasPassword) ==
  IF "token" \in f.filled THEN "token" ELSE UserAndPassword(f, hasPassword)
KubernetesIdentity(f, hasPassword) == "token"
PrometheusIdentity(f, hasPassword) ==
  IF "token" \in f.filled THEN "token" ELSE "anonymous"
VcenterIdentity(f, hasPassword)    == "password"

Identity(c, f, hasPassword) ==
  CASE c = "cassandra"     -> CassandraIdentity(f, hasPassword)
    [] c = "ceph"          -> CephIdentity(f, hasPassword)
    [] c = "elasticsearch" -> ElasticsearchIdentity(f, hasPassword)
    [] c = "kubernetes"    -> KubernetesIdentity(f, hasPassword)
    [] c = "prometheus"    -> PrometheusIdentity(f, hasPassword)
    [] c = "vcenter"       -> VcenterIdentity(f, hasPassword)
===============================================================================
