----------------------------- MODULE ConnectorJobs -----------------------------
(***************************************************************************)
(* The background runs of the connectors: the in-memory job table that the *)
(* polling page reads, the form handlers that start a run, the threads     *)
(* that carry it out, and runs of the same connectors from the command     *)
(* line.  Jobs live in the memory of the server: a restart forgets them,   *)
(* while what they wrote to the database stays.                            *)
(*                                                                         *)
(* _prune_old_connector_jobs and the access that follows it take the lock  *)
(* twice; they are one step here, because whatever another thread does     *)
(* between the two could as well happen before or after both.              *)
(***************************************************************************)
EXTENDS ConnectorForms

CONSTANTS
  Nil,
  Jobs,          \* job ids; a run from the command line takes one as well
  Threads,       \* threads of the pool that run background tasks
  Retention,     \* _CONNECTOR_JOB_RETENTION_SECONDS, in ticks of the clock
  Demands        \* what the users of a behaviour may do, by a name

(* users: the ids they take; runnable: the connectors; forms: what they    *)
(* post; sources: where runs come from; clock and restarts are bounds on   *)
(* what is counted.                                                        *)
Demand == [users : SUBSET Jobs, runnable : SUBSET Connectors, forms : SUBSET Form,
           sources : SUBSET {"form", "command"}, clock : Nat, restarts : Nat]

Toasts == {"none", "success", "warning", "error", "failed"}

ASSUME JobsAssumption ==
  /\ Nil \notin [status : {"queued", "running", "completed", "failed"},
                 toast : Toasts, updated : Nat]
  /\ \A name \in DOMAIN Demands : Demands[name] \in Demand
  /\ Threads \in Nat \ {0} /\ Retention \in Nat

VARIABLES
  jobs,      \* _CONNECTOR_JOBS
  run,       \* what the handler, thread or command of an id is doing
  page,      \* what the connectors page of an id showed last
  audit,     \* IMPORT_RUN entries: the ids of the runs they record
  clock, restarts,
  demand     \* the name of this behaviour's demand; it never changes

vars == <<jobs, run, page, audit, clock, restarts, demand>>

Asked == Demands[demand]

Ends   == {"none", "refused", "completed", "failed", "escaped", "killed"}
Phases == {"new", "posted", "waiting", "connecting", "fetched", "applied",
           "imported", "ended"}

NewRun == [phase |-> "new", source |-> "form", connector |-> Nil, form |-> Nil,
           editor |-> FALSE, issues |-> "none", wrote |-> "nothing",
           settled |-> 0, end |-> "none"]

JobOf(status, toast) == [status |-> status, toast |-> toast, updated |-> clock]

InProgress(j) == run[j].phase \in {"waiting", "connecting", "fetched", "applied",
                                   "imported"}
Working == {j \in Jobs : run[j].phase \in {"connecting", "fetched", "applied",
                                           "imported"}
                           /\ run[j].source = "form"}

Move(j, phase)      == run' = [run EXCEPT ![j].phase = phase]
EndRun(j, end)      == run' = [run EXCEPT ![j].phase = "ended", ![j].end = end]
Dry(j)              == run[j].form.mode # "apply"

-----------------------------------------------------------------------------
(* The job table.                                                          *)

Expired(j) == jobs[j] # Nil /\ clock - jobs[j].updated > Retention

Pruned == [j \in Jobs |-> IF Expired(j) THEN Nil ELSE jobs[j]]

UpdateJob_Swapped(j, status, toast) ==
  jobs' = IF jobs[j] = Nil THEN jobs
                           ELSE [jobs EXCEPT ![j] = JobOf(toast, status)]
UpdateJob_KeepsTime(j, status, toast) ==
  jobs' = IF jobs[j] = Nil THEN jobs
          ELSE [jobs EXCEPT ![j].status = status, ![j].toast = toast]
UpdateJob_Inserts(j, status, toast) ==
  jobs' = [jobs EXCEPT ![j] = JobOf(status, toast)]

CreateJob(j) == jobs' = [Pruned EXCEPT ![j] = JobOf("queued", "none")]

UpdateJob(j, status, toast) ==
  jobs' = IF jobs[j] = Nil THEN jobs
                           ELSE [jobs EXCEPT ![j] = JobOf(status, toast)]

(* What the page makes of the job it reads.                                *)
Shown(job) == IF job = Nil THEN "no job"
              ELSE IF job.status \in {"queued", "running"} THEN "in progress"
              ELSE job.toast

(* The page refreshes itself while it shows a run in progress; a finished  *)
(* or forgotten one may be opened again.                                   *)
Poll(j) ==
  /\ run[j].source = "form" /\ run[j].phase \notin {"new", "posted"}
  /\ run[j].end # "refused"
  /\ jobs' = Pruned
  /\ page' = [page EXCEPT ![j] = Shown(Pruned[j])]
  /\ UNCHANGED <<run, audit, clock, restarts, demand>>

-----------------------------------------------------------------------------
(* The POST of a connector form.  The user is read from the session before *)
(* the form is awaited.                                                    *)

Post(j, c, f, editor) ==
  /\ run[j].phase = "new" /\ "form" \in Asked.sources
  /\ run' = [run EXCEPT ![j] = [NewRun EXCEPT !.phase = "posted",
               !.connector = c, !.form = f, !.editor = editor]]
  /\ UNCHANGED <<jobs, page, audit, clock, restarts, demand>>

Answer_AnyRole(j, accepted) ==
  /\ IF accepted THEN CreateJob(j) /\ Move(j, "waiting")
                 ELSE EndRun(j, "refused") /\ UNCHANGED jobs
  /\ UNCHANGED <<page, audit, clock, restarts, demand>>

Answer(j, accepted) ==
  /\ IF accepted /\ (run[j].form.mode = "apply" => run[j].editor)
     THEN CreateJob(j) /\ Move(j, "waiting")
     ELSE EndRun(j, "refused") /\ UNCHANGED jobs
  /\ UNCHANGED <<page, audit, clock, restarts, demand>>

Posted(j, c) == run[j].phase = "posted" /\ run[j].connector = c

CassandraForm(j)     == Posted(j, "cassandra")
                          /\ Answer(j, CassandraAccepts(run[j].form))
CephForm(j)          == Posted(j, "ceph")
                          /\ Answer(j, CephAccepts(run[j].form))
ElasticsearchForm(j) == Posted(j, "elasticsearch")
                          /\ Answer(j, ElasticsearchAccepts(run[j].form))
KubernetesForm(j)    == Posted(j, "kubernetes")
                          /\ Answer(j, KubernetesAccepts(run[j].form))
PrometheusForm(j)    == Posted(j, "prometheus")
                          /\ Answer(j, PrometheusAccepts(run[j].form))
VcenterForm(j)       == Posted(j, "vcenter")
                          /\ Answer(j, VcenterAccepts(run[j].form))

-----------------------------------------------------------------------------
(* The background task.  "other" is any exception that is not the          *)
(* connector's own: it leaves the thread without a word in the job.        *)

Begin(j) ==
  /\ run[j].phase = "waiting"
  /\ Cardinality(Working) < Threads
  /\ Move(j, "connecting") /\ UpdateJob(j, "running", "none")
  /\ UNCHANGED <<page, audit, clock, restarts, demand>>

Settle(j, end, toast) ==
  /\ run' = [run EXCEPT ![j].phase = "ended", ![j].end = end,
                        ![j].settled = clock]
  /\ UpdateJob(j, end, toast)

(* _finalize_job_logs *)
Verdict_WarningsFirst(issues) == IF issues = "none" THEN "success" ELSE "warning"

Verdict(issues) == CASE issues = "errors"   -> "error"
                     [] issues = "warnings" -> "warning"
                     [] issues = "none"     -> "success"

Complete_CleanOnly(j) ==
  /\ run[j].phase = "imported" /\ run[j].issues # "errors"
  /\ Settle(j, "completed", Verdict(run[j].issues))
  /\ UNCHANGED <<page, audit, clock, restarts, demand>>

Complete(j) ==
  /\ run[j].phase = "imported"
  /\ Settle(j, "completed", Verdict(run[j].issues))
  /\ UNCHANGED <<page, audit, clock, restarts, demand>>

(* An exception of any other kind passes through the except clause.        *)
Escape_Caught(j, wrote) ==
  /\ run' = [run EXCEPT ![j].phase = "ended", ![j].end = "failed",
                        ![j].wrote = wrote, ![j].settled = clock]
  /\ UpdateJob(j, "failed", "failed")

Escape(j, wrote) ==
  /\ run' = [run EXCEPT ![j].phase = "ended", ![j].end = "escaped", ![j].wrote = wrote]
  /\ UNCHANGED jobs

Raise(j, exception) ==
  IF exception = "connector" THEN Settle(j, "failed", "failed")
                             ELSE Escape(j, "nothing")

(* The fetch returns records, which may come with warnings, or raises.     *)
Fetch(j, raised) ==
  /\ run[j].phase = "connecting"
  /\ \/ \E issues \in {"none", "warnings"} :
          /\ run' = [run EXCEPT ![j].phase = "fetched", ![j].issues = issues]
          /\ UNCHANGED jobs
     \/ \E exception \in raised : Raise(j, exception)
  /\ UNCHANGED <<page, audit, clock, restarts, demand>>

(* run_import: the bundle is refused with errors, or every row is written, *)
(* one commit each, unless one of them raises.  A dry run writes nothing.  *)
Import(j) ==
  /\ run[j].phase = "fetched"
  /\ \/ /\ run' = [run EXCEPT ![j].phase = "imported", ![j].issues = "errors"]
        /\ UNCHANGED jobs
     \/ \E issues \in {run[j].issues, "warnings"} :
          /\ run' = [run EXCEPT ![j].phase = IF Dry(j) THEN "imported" ELSE "applied",
                                ![j].wrote = IF Dry(j) THEN "nothing" ELSE "all",
                                ![j].issues = issues]
          /\ UNCHANGED jobs
     \/ \E wrote \in {"nothing", "part"} :
          (wrote = "part" => ~Dry(j)) /\ Escape(j, wrote)
  /\ UNCHANGED <<page, audit, clock, restarts, demand>>

(* The run-level audit entry is a transaction of its own.                  *)
RecordRun(j) ==
  /\ run[j].phase = "applied"
  /\ \/ Move(j, "imported") /\ audit' = audit \union {j}
        /\ UNCHANGED jobs
     \/ Escape(j, "all") /\ UNCHANGED audit
  /\ UNCHANGED <<page, clock, restarts, demand>>

(* The exceptions each fetch can end with.  The Cassandra driver is called *)
(* inside "except Exception".  The others translate what urlopen raises    *)
(* but not a timeout while the answer is read; vCenter's inventory is      *)
(* collected outside the try.                                              *)
CassandraFetch(j)     == Fetch(j, {"connector"})
CephFetch(j)          == Fetch(j, {"connector", "other"})
ElasticsearchFetch(j) == Fetch(j, {"connector", "other"})
KubernetesFetch(j)    == Fetch(j, {"connector", "other"})
PrometheusFetch(j)    == Fetch(j, {"connector", "other"})
VcenterFetch(j)       == Fetch(j, {"connector", "other"})

Running(j, c) == run[j].source = "form" /\ run[j].connector = c

(* _run_*_connector: fetch, build the bundle, import it.                   *)
CassandraRun(j)     == Running(j, "cassandra")
                         /\ (CassandraFetch(j) \/ Import(j) \/ RecordRun(j))
CephRun(j)          == Running(j, "ceph")
                         /\ (CephFetch(j) \/ Import(j) \/ RecordRun(j))
ElasticsearchRun(j) == Running(j, "elasticsearch")
                         /\ (ElasticsearchFetch(j) \/ Import(j) \/ RecordRun(j))
KubernetesRun(j)    == Running(j, "kubernetes")
                         /\ (KubernetesFetch(j) \/ Import(j) \/ RecordRun(j))
PrometheusRun(j)    == Running(j, "prometheus")
                         /\ (PrometheusFetch(j) \/ Import(j) \/ RecordRun(j))
VcenterRun(j)       == Running(j, "vcenter")
                         /\ (VcenterFetch(j) \/ Import(j) \/ RecordRun(j))

(* _run_*_connector_job: the shell around it, which writes the job.        *)
CassandraJob(j)     == Running(j, "cassandra") /\ (Begin(j) \/ Complete(j))
CephJob(j)          == Running(j, "ceph") /\ (Begin(j) \/ Complete(j))
ElasticsearchJob(j) == Running(j, "elasticsearch") /\ (Begin(j) \/ Complete(j))
KubernetesJob(j)    == Running(j, "kubernetes") /\ (Begin(j) \/ Complete(j))
PrometheusJob(j)    == Running(j, "prometheus") /\ (Begin(j) \/ Complete(j))
VcenterJob(j)       == Running(j, "vcenter") /\ (Begin(j) \/ Complete(j))

-----------------------------------------------------------------------------
(* The same connectors from the command line: a process of its own, with   *)
(* no job.  Its end "completed" is exit status 0; the others are not.      *)

Command(j, c, f) ==
  /\ run[j].phase = "new" /\ "command" \in Asked.sources
  /\ LET asked == [NewRun EXCEPT !.source = "command", !.connector = c, !.form = f]
     IN run' = [run EXCEPT ![j] = IF CliAccepts(c, f)
                                  THEN [asked EXCEPT !.phase = "connecting"]
                                  ELSE [asked EXCEPT !.phase = "ended", !.end = "refused"]]
  /\ UNCHANGED <<jobs, page, audit, clock, restarts, demand>>

(* --mode file writes the bundle and is done.                              *)
CommandImport(j) ==
  IF run[j].form.mode = "file"
  THEN /\ run[j].phase = "fetched" /\ EndRun(j, "completed")
       /\ UNCHANGED <<jobs, page, audit, clock, restarts, demand>>
  ELSE Import(j)

(* Three of the commands exit with 1 when the import has errors; the other *)
(* three print the errors and exit with 0.                                 *)
Exit_Zero(j, tellsErrors) ==
  /\ run[j].phase = "imported" /\ EndRun(j, "completed")
  /\ UNCHANGED <<jobs, page, audit, clock, restarts, demand>>

Exit(j, tellsErrors) ==
  /\ run[j].phase = "imported"
  /\ EndRun(j, IF tellsErrors /\ run[j].issues = "errors" THEN "failed" ELSE "completed")
  /\ UNCHANGED <<jobs, page, audit, clock, restarts, demand>>

Commanded(j, c) == run[j].source = "command" /\ run[j].connector = c

CommandSteps(j, tellsErrors) ==
  CommandImport(j) \/ RecordRun(j) \/ Exit(j, tellsErrors)

CassandraCommand(j)     == Commanded(j, "cassandra")
                             /\ (CassandraFetch(j) \/ CommandSteps(j, TRUE))
CephCommand(j)          == Commanded(j, "ceph")
                             /\ (CephFetch(j) \/ CommandSteps(j, TRUE))
ElasticsearchCommand(j) == Commanded(j, "elasticsearch")
                             /\ (ElasticsearchFetch(j) \/ CommandSteps(j, FALSE))
KubernetesCommand(j)    == Commanded(j, "kubernetes")
                             /\ (KubernetesFetch(j) \/ CommandSteps(j, TRUE))
PrometheusCommand(j)    == Commanded(j, "prometheus")
                             /\ (PrometheusFetch(j) \/ CommandSteps(j, FALSE))
VcenterCommand(j)       == Commanded(j, "vcenter")
                             /\ (VcenterFetch(j) \/ CommandSteps(j, FALSE))

-----------------------------------------------------------------------------
(* The server process ends and starts again: _CONNECTOR_JOBS is empty and  *)
(* the threads are gone, one of them perhaps in the middle of an import.   *)
Restart ==
  /\ restarts < Asked.restarts /\ restarts' = restarts + 1
  /\ jobs' = [j \in Jobs |-> Nil]
  /\ \E cut \in SUBSET {j \in Working : run[j].phase = "fetched" /\ ~Dry(j)} :
       run' = [j \in Jobs |->
                IF run[j].source = "form" /\ run[j].phase \notin {"new", "ended"}
                THEN [run[j] EXCEPT !.phase = "ended", !.end = "killed",
                                    !.wrote = IF j \in cut THEN "part" ELSE @]
                ELSE run[j]]
  /\ UNCHANGED <<page, audit, clock, demand>>

Tick == clock < Asked.clock /\ clock' = clock + 1
          /\ UNCHANGED <<jobs, run, page, audit, restarts, demand>>

Handler(j) ==
  \/ CassandraForm(j)  \/ CephForm(j)       \/ ElasticsearchForm(j)
  \/ KubernetesForm(j) \/ PrometheusForm(j) \/ VcenterForm(j)

Thread(j) ==
  \/ CassandraJob(j)     \/ CassandraRun(j)     \/ CephJob(j)       \/ CephRun(j)
  \/ ElasticsearchJob(j) \/ ElasticsearchRun(j) \/ KubernetesJob(j) \/ KubernetesRun(j)
  \/ PrometheusJob(j)    \/ PrometheusRun(j)    \/ VcenterJob(j)    \/ VcenterRun(j)

Process(j) ==
  \/ CassandraCommand(j)  \/ CephCommand(j)       \/ ElasticsearchCommand(j)
  \/ KubernetesCommand(j) \/ PrometheusCommand(j) \/ VcenterCommand(j)

Init ==
  /\ jobs = [j \in Jobs |-> Nil]
  /\ run = [j \in Jobs |-> NewRun]
  /\ page = [j \in Jobs |-> "no job"]
  /\ audit = {} /\ clock = 0 /\ restarts = 0
  /\ demand \in DOMAIN Demands

Next ==
  \/ \E j \in Asked.users, c \in Asked.runnable, f \in Asked.forms :
       Command(j, c, f) \/ \E editor \in BOOLEAN : Post(j, c, f, editor)
  \/ \E j \in Jobs : Handler(j) \/ Thread(j) \/ Process(j) \/ Poll(j)
  \/ Restart \/ Tick

Spec == Init /\ [][Next]_vars

(* A thread of the pool goes on, every fetch but vCenter's has a timeout,  *)
(* and an open page asks again every few seconds.                          *)
HeldByVcenter(j) == run[j].connector = "vcenter" /\ run[j].phase = "connecting"

FairSpec ==
  /\ Spec
  /\ \A j \in Jobs : /\ WF_vars(Handler(j)) /\ WF_vars(Poll(j))
                      /\ WF_vars(Thread(j) /\ ~HeldByVcenter(j))

-----------------------------------------------------------------------------
(* The job table and the runs have their types.                            *)
JobsTypeOK ==
  /\ jobs \in [Jobs -> {Nil} \union
                 [status : {"queued", "running", "completed", "failed"},
                  toast : Toasts, updated : 0..Asked.clock]]
  /\ run \in [Jobs -> [phase : Phases, source : {"form", "command"},
                       connector : Connectors \union {Nil},
                       form : Form \union {Nil}, editor : BOOLEAN,
                       issues : {"none", "warnings", "errors"},
                       wrote : {"nothing", "part", "all"},
                       settled : 0..Asked.clock, end : Ends]]
  /\ page \in [Jobs -> {"no job", "in progress"} \union Toasts]
  /\ audit \subseteq Jobs /\ demand \in DOMAIN Demands
  /\ clock \in 0..Asked.clock /\ restarts \in 0..Asked.restarts

Wrote(j) == run[j].wrote # "nothing"

(* A job whose page says that the connector failed has changed nothing in  *)
(* the database: the connector's own exceptions are raised before the      *)
(* import begins (the except clause of every _run_*_connector_job).        *)
FailedChangedNothing ==
  \A j \in Jobs : (jobs[j] # Nil /\ jobs[j].status = "failed") \/ page[j] = "failed"
                     => ~Wrote(j)

(* What a run says at its end is true of the database: with an error toast *)
(* nothing was written; without one, or with exit status 0 of a Cassandra, *)
(* Ceph or Kubernetes command, an apply wrote every row and its run-level  *)
(* audit entry is there (_finalize_job_logs over run_import, and main).    *)
SaysDone(j) ==
  \/ page[j] \in {"success", "warning"}
  \/ /\ run[j].source = "command" /\ run[j].end = "completed"
     /\ run[j].connector \in {"cassandra", "ceph", "kubernetes"}

ResultTellsTruth ==
  \A j \in Jobs :
    /\ page[j] = "error" => ~Wrote(j) /\ j \notin audit
    /\ SaysDone(j) /\ ~Dry(j) => run[j].wrote = "all" /\ j \in audit

(* Only an apply that an editor asked for, or a command, reaches the       *)
(* inventory, whatever the form said and however long the run took (the    *)
(* role check of every form handler).                                      *)
WritesWereAllowed ==
  \A j \in Jobs : Wrote(j) \/ j \in audit =>
     run[j].form.mode = "apply" /\ (run[j].source = "form" => run[j].editor)

(* The request a run sends carries the identity its user typed: no run     *)
(* that was given a user, a password or a token connects as nobody, and    *)
(* none was given two identities (the credential checks of the forms and   *)
(* of the commands, over what each fetch builds from them).                *)
Presents(j) ==
  Identity(run[j].connector, run[j].form,
           IF run[j].source = "form" THEN UiPassword(run[j].form)
                                     ELSE CliPassword(run[j].form))

TakesPassword == {"cassandra", "ceph", "elasticsearch", "vcenter"}
TakesToken    == {"elasticsearch", "kubernetes", "prometheus"}

SendsGivenIdentity ==
  \A j \in Jobs : InProgress(j) =>
     /\ run[j].connector \in TakesPassword
            /\ (Named(run[j].form) \/ run[j].form.password = "given")
          => Presents(j) = "password"
     /\ run[j].connector \in TakesToken /\ "token" \in run[j].form.filled
          => Presents(j) = "token"

(* The values that a form hands to its job are values the command of that  *)
(* connector accepts: mode, type, port, timeout and credentials after the  *)
(* handler has stripped them, lower-cased the mode, replaced an old type   *)
(* name, filled in defaults and dropped a blank password.  The two sets of *)
(* checks were written twice (ui_run_*_connector, _validate_cli_args).     *)
(* What the user typed, as it was typed, the command may well refuse.      *)
FormsWithinCommands ==
  \A j \in Jobs : InProgress(j) /\ run[j].source = "form" =>
     CliAccepts(run[j].connector, AsArguments(run[j].form))

(* The result of a run stays as it was written, and for as long as the     *)
(* retention counted from the end of the run, however long it ran, unless  *)
(* the server restarts (_prune_old_connector_jobs).  A job that was pruned *)
(* or lost while its run goes on does not come back half-filled            *)
(* (_update_connector_job).                                                *)
ResultsStay ==
  [][\A j \in Jobs :
       /\ jobs[j] # Nil /\ jobs[j].status \in {"completed", "failed"} =>
            \/ jobs'[j] = jobs[j]
            \/ jobs'[j] = Nil /\ (clock - run[j].settled > Retention
                                     \/ restarts' # restarts)
       /\ jobs[j] = Nil /\ run[j].phase \notin {"new", "posted"}
            => jobs'[j] = Nil]_vars

(* Every run that was accepted ends, whatever it ends in, when the thread  *)
(* it has or waits for is not held by a vCenter: a run that waits in the   *)
(* pool's queue is taken up, and one that has begun reaches an end.        *)
RunsEnd ==
  \A j \in Jobs :
     InProgress(j) /\ run[j].source = "form"
       ~> \/ run[j].phase = "ended"
          \/ \E k \in Jobs : HeldByVcenter(k)

(* docs/how-to-run.md:260: while a run is queued or running the page asks  *)
(* again by itself, to show the final status.                              *)
PageShowsFinalStatus ==
  \A j \in Jobs : page[j] = "in progress"
                     ~> page[j] \in {"success", "warning", "error", "failed"}

(* The same sentence, of a run that takes longer than the retention: its   *)
(* page is not the empty form while it is queued or running.               *)
RunningIsShown ==
  [][\A j \in Jobs : InProgress(j) /\ page[j] = "in progress"
                         => page'[j] # "no job"]_vars
===============================================================================
