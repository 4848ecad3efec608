-------------------------- MODULE ConnectorJobsProofs --------------------------
(***************************************************************************)
(* Proofs about ConnectorJobs, for any ids, threads, retention, forms and  *)
(* number of restarts.                                                     *)
(***************************************************************************)
EXTENDS ConnectorJobs, TLAPS

(* A run that was not accepted, and one from the command line, has no job  *)
(* and was never shown on a page; a new one has done nothing at all.       *)
Unlisted(j) ==
  /\ run[j].phase = "new" => run[j] = NewRun
  /\ run[j].phase # "new" => run[j].connector \in Connectors /\ run[j].form \in Form
  /\ run[j].phase \in {"new", "posted"} => run[j].end = "none"
  /\ run[j].phase = "posted" => run[j].source = "form"
  /\ run[j].phase \in {"new", "posted"} \/ run[j].source = "command"
       => jobs[j] = Nil /\ page[j] = "no job"
  /\ run[j].phase # "ended" => run[j].end = "none"

(* What is running passed the checks of its form or of its command.        *)
Checked(j) ==
  InProgress(j) =>
    IF run[j].source = "form"
    THEN /\ Accepts(run[j].connector, run[j].form)
         /\ run[j].form.mode = "apply" => run[j].editor
    ELSE CliAccepts(run[j].connector, run[j].form)

Done(j)      == run[j].wrote = "all" /\ j \in audit
Untouched(j) == run[j].wrote = "nothing" /\ j \notin audit

(* What a run has written by each of its phases, and for whom.             *)
WroteSoFar(j) ==
  /\ run[j].phase \in {"new", "posted", "waiting", "connecting", "fetched"}
       => Untouched(j) /\ run[j].issues # "errors"
  /\ run[j].phase = "applied" => run[j].wrote = "all" /\ ~Dry(j)
                                   /\ run[j].issues # "errors"
  /\ run[j].phase = "imported"
       => IF Dry(j) \/ run[j].issues = "errors" THEN Untouched(j) ELSE Done(j)
  /\ Wrote(j) \/ j \in audit
       => run[j].form.mode = "apply" /\ (run[j].source = "form" => run[j].editor)

(* What a toast says of a run is true of it.                               *)
Tells(j, toast) ==
  /\ toast = "failed" => ~Wrote(j)
  /\ toast = "error"  => Untouched(j)
  /\ toast \in {"success", "warning"} /\ ~Dry(j) => Done(j)

(* The job of a run agrees with the run; once the run has ended it is the  *)
(* result, dated at the end.                                               *)
JobAgrees(j) ==
  jobs[j] # Nil =>
    /\ jobs[j].status \in {"queued", "running"} => jobs[j].toast = "none"
    /\ jobs[j].status \in {"completed", "failed"}
         => /\ run[j].phase = "ended" /\ jobs[j].updated = run[j].settled
            /\ Tells(j, jobs[j].toast) /\ jobs[j].toast # "none"
    /\ jobs[j].status = "failed" => jobs[j].toast = "failed"

(* A page that shows a result shows that of a run that has ended.          *)
PageAgrees(j) ==
  page[j] \in Toasts => run[j].phase = "ended" /\ Tells(j, page[j])

(* The commands whose exit status tells of errors.                         *)
ExitAgrees(j) ==
  run[j].source = "command" /\ run[j].end = "completed"
    /\ run[j].connector \in {"cassandra", "ceph", "kubernetes"} /\ ~Dry(j)
  => Done(j)

Coherent(j) == /\ Unlisted(j) /\ Checked(j) /\ WroteSoFar(j)
               /\ JobAgrees(j) /\ PageAgrees(j) /\ ExitAgrees(j)

JobsInv == JobsTypeOK /\ \A j \in Jobs : Coherent(j)

-----------------------------------------------------------------------------
(* Demands, runs and jobs.                                                 *)

RunRecord == [phase : Phases, source : {"form", "command"},
              connector : Connectors \union {Nil},
              form : Form \union {Nil}, editor : BOOLEAN,
              issues : {"none", "warnings", "errors"},
              wrote : {"nothing", "part", "all"},
              settled : 0..Asked.clock, end : Ends]

JobRecord == [status : {"queued", "running", "completed", "failed"},
              toast : Toasts, updated : 0..Asked.clock]

LEMMA AskedType ==
  ASSUME JobsTypeOK
  PROVE  /\ Asked.users \subseteq Jobs /\ Asked.runnable \subseteq Connectors
         /\ Asked.forms \subseteq Form
         /\ Asked.clock \in Nat /\ Asked.restarts \in Nat
<1>1. Demands[demand] \in Demand
  BY JobsAssumption DEF JobsTypeOK
<1>2. QED
  BY <1>1 DEF Asked, Demand

LEMMA RunTyped ==
  ASSUME JobsTypeOK
  PROVE  /\ run \in [Jobs -> RunRecord] /\ jobs \in [Jobs -> {Nil} \union JobRecord]
         /\ \A j \in Jobs : run[j] \in RunRecord
  BY DEF JobsTypeOK, RunRecord, JobRecord

LEMMA NilNoJob ==
  ASSUME JobsTypeOK PROVE Nil \notin JobRecord
<1>1. 0..Asked.clock \subseteq Nat
  BY AskedType
<1>2. QED
  BY <1>1, JobsAssumption DEF JobRecord

LEMMA NewRunTyped ==
  ASSUME JobsTypeOK PROVE NewRun \in RunRecord
<1>1. 0 \in 0..Asked.clock
  BY AskedType
<1>2. QED
  BY <1>1 DEF NewRun, RunRecord, Phases, Ends

(* What a step on the run of one id leaves alone.                          *)
LEMMA OthersCoherent ==
  ASSUME JobsInv, NEW j \in Jobs, run'[j] = run[j], page'[j] = page[j],
         (j \in audit') <=> (j \in audit), jobs'[j] \in {jobs[j], Nil}
  PROVE  Coherent(j)'
<1>1. Coherent(j)
  BY DEF JobsInv
<1>2. Unlisted(j)'
  BY <1>1 DEF Coherent, Unlisted, NewRun
<1>3. Checked(j)'
  BY <1>1 DEF Coherent, Checked, InProgress
<1>4. WroteSoFar(j)' /\ ExitAgrees(j)'
  BY <1>1 DEF Coherent, WroteSoFar, ExitAgrees, Untouched, Done, Dry, Wrote
<1>5. JobAgrees(j)' /\ PageAgrees(j)'
  BY <1>1 DEF Coherent, JobAgrees, PageAgrees, Tells, Untouched, Done, Dry, Wrote
<1>6. QED
  BY <1>2, <1>3, <1>4, <1>5 DEF Coherent

LEMMA OneRunSteps ==
  ASSUME JobsInv, NEW j \in Jobs,
         run' \in [Jobs -> RunRecord], jobs' \in [Jobs -> {Nil} \union JobRecord],
         page' \in [Jobs -> {"no job", "in progress"} \union Toasts],
         audit' \subseteq Jobs, UNCHANGED <<clock, restarts, demand>>,
         \A i \in Jobs \ {j} :
            /\ run'[i] = run[i] /\ page'[i] = page[i]
            /\ i \in audit' <=> i \in audit
            /\ jobs'[i] \in {jobs[i], Nil},
         Coherent(j)'
  PROVE  JobsInv'
<1>1. JobsTypeOK'
  BY DEF JobsInv, JobsTypeOK, RunRecord, JobRecord, Asked
<1>2. ASSUME NEW i \in Jobs PROVE Coherent(i)'
  <2>1. CASE i = j
    BY <2>1
  <2>2. CASE i # j
    <3>1. /\ run'[i] = run[i] /\ page'[i] = page[i]
          /\ (i \in audit') <=> (i \in audit)
          /\ jobs'[i] \in {jobs[i], Nil}
      BY <2>2
    <3>2. QED
      BY <3>1, OthersCoherent
  <2>3. QED
    BY <2>1, <2>2
<1>3. QED
  BY <1>1, <1>2 DEF JobsInv

-----------------------------------------------------------------------------
(* The job table.                                                          *)

LEMMA JobOfTyped ==
  ASSUME JobsTypeOK, NEW status \in {"queued", "running", "completed", "failed"},
         NEW toast \in Toasts
  PROVE  /\ JobOf(status, toast) \in JobRecord
         /\ JobOf(status, toast) # Nil
         /\ JobOf(status, toast).status = status
         /\ JobOf(status, toast).toast = toast
         /\ JobOf(status, toast).updated = clock
<1>1. JobOf(status, toast) \in JobRecord
  BY DEF JobOf, JobRecord, JobsTypeOK
<1>2. QED
  BY <1>1, NilNoJob DEF JobOf

LEMMA PrunedTyped ==
  ASSUME JobsTypeOK
  PROVE  /\ Pruned \in [Jobs -> {Nil} \union JobRecord]
         /\ \A j \in Jobs : Pruned[j] \in {jobs[j], Nil}
  BY RunTyped DEF Pruned

LEMMA CreateJobWrites ==
  ASSUME JobsTypeOK, NEW j \in Jobs, CreateJob(j)
  PROVE  /\ jobs' \in [Jobs -> {Nil} \union JobRecord]
         /\ jobs'[j] = JobOf("queued", "none")
         /\ \A i \in Jobs \ {j} : jobs'[i] \in {jobs[i], Nil}
  BY PrunedTyped, JobOfTyped DEF CreateJob, Toasts

LEMMA UpdateJobWrites ==
  ASSUME JobsTypeOK, NEW j \in Jobs,
         NEW status \in {"queued", "running", "completed", "failed"},
         NEW toast \in Toasts, UpdateJob(j, status, toast)
  PROVE  /\ jobs' \in [Jobs -> {Nil} \union JobRecord]
         /\ jobs'[j] = IF jobs[j] = Nil THEN Nil ELSE JobOf(status, toast)
         /\ \A i \in Jobs \ {j} : jobs'[i] = jobs[i]
  BY RunTyped, JobOfTyped DEF UpdateJob

-----------------------------------------------------------------------------
(* Requests: a form is posted and answered, a command starts, a page asks. *)

LEMMA PostKeeps ==
  ASSUME JobsInv, NEW j \in Jobs, NEW c \in Connectors, NEW f \in Form,
         NEW editor \in BOOLEAN, Post(j, c, f, editor)
  PROVE  JobsInv'
<1> DEFINE asked == [NewRun EXCEPT !.phase = "posted", !.connector = c,
                                   !.form = f, !.editor = editor]
<1>1. /\ JobsTypeOK /\ Coherent(j) /\ run[j] = NewRun
      /\ jobs[j] = Nil /\ page[j] = "no job" /\ j \notin audit
  BY DEF JobsInv, Coherent, Unlisted, WroteSoFar, Untouched, Post
<1>2. /\ asked \in RunRecord /\ asked.phase = "posted" /\ asked.source = "form"
      /\ asked.connector = c /\ asked.form = f /\ asked.end = "none"
      /\ asked.wrote = "nothing" /\ asked.issues = "none"
  <2>1. asked \in RunRecord
    BY <1>1, NewRunTyped DEF RunRecord, Phases
  <2>2. QED
    BY <2>1 DEF NewRun
<1>3. run' \in [Jobs -> RunRecord] /\ run'[j] = asked
      /\ \A i \in Jobs \ {j} : run'[i] = run[i]
  BY <1>1, <1>2, RunTyped DEF Post
<1> HIDE DEF asked
<1>4. Coherent(j)'
  <2>1. Unlisted(j)' /\ Checked(j)'
    BY <1>1, <1>2, <1>3 DEF Post, Unlisted, Checked, InProgress
  <2>2. WroteSoFar(j)' /\ ExitAgrees(j)'
    BY <1>1, <1>2, <1>3 DEF Post, WroteSoFar, Untouched, Wrote, ExitAgrees
  <2>3. JobAgrees(j)' /\ PageAgrees(j)'
    BY <1>1 DEF Post, JobAgrees, PageAgrees, Toasts
  <2>4. QED
    BY <2>1, <2>2, <2>3 DEF Coherent
<1>5. QED
  BY <1>1, <1>3, <1>4, OneRunSteps, RunTyped DEF Post, JobsTypeOK

LEMMA CommandKeeps ==
  ASSUME JobsInv, NEW j \in Jobs, NEW c \in Connectors, NEW f \in Form,
         Command(j, c, f)
  PROVE  JobsInv'
<1> DEFINE asked == [NewRun EXCEPT !.source = "command", !.connector = c, !.form = f]
           begun == IF CliAccepts(c, f)
                    THEN [asked EXCEPT !.phase = "connecting"]
                    ELSE [asked EXCEPT !.phase = "ended", !.end = "refused"]
<1>1. /\ JobsTypeOK /\ Coherent(j) /\ run[j] = NewRun
      /\ jobs[j] = Nil /\ page[j] = "no job" /\ j \notin audit
  BY DEF JobsInv, Coherent, Unlisted, WroteSoFar, Untouched, Command
<1>2. /\ begun \in RunRecord /\ begun.source = "command"
      /\ \/ begun.phase = "connecting" /\ begun.end = "none" /\ CliAccepts(c, f)
         \/ begun.phase = "ended" /\ begun.end = "refused"
      /\ begun.connector = c /\ begun.form = f
      /\ begun.wrote = "nothing" /\ begun.issues = "none"
  <2>1. /\ asked \in RunRecord /\ asked.source = "command"
        /\ asked.connector = c /\ asked.form = f /\ asked.end = "none"
        /\ asked.wrote = "nothing" /\ asked.issues = "none"
    <3>1. asked \in RunRecord
      BY <1>1, NewRunTyped DEF RunRecord
    <3>2. QED
      BY <3>1 DEF NewRun
  <2> HIDE DEF asked
  <2>2. CASE CliAccepts(c, f)
    <3>1. begun = [asked EXCEPT !.phase = "connecting"]
      BY <2>2
    <3>2. [asked EXCEPT !.phase = "connecting"] \in RunRecord
      BY <2>1 DEF RunRecord, Phases
    <3> HIDE DEF begun
    <3>3. QED
      BY <2>1, <2>2, <3>1, <3>2 DEF RunRecord
  <2>3. CASE ~CliAccepts(c, f)
    BY <2>1, <2>3 DEF RunRecord, Phases, Ends
  <2>4. QED
    BY <2>2, <2>3
<1>3. run' \in [Jobs -> RunRecord] /\ run'[j] = begun
      /\ \A i \in Jobs \ {j} : run'[i] = run[i]
  BY <1>1, <1>2, RunTyped DEF Command
<1> HIDE DEF asked, begun
<1>4. Coherent(j)'
  <2>1. Unlisted(j)' /\ Checked(j)'
    BY <1>1, <1>2, <1>3 DEF Command, Unlisted, Checked, InProgress
  <2>2. WroteSoFar(j)' /\ ExitAgrees(j)'
    BY <1>1, <1>2, <1>3 DEF Command, WroteSoFar, Untouched, Wrote, ExitAgrees
  <2>3. JobAgrees(j)' /\ PageAgrees(j)'
    BY <1>1 DEF Command, JobAgrees, PageAgrees, Toasts
  <2>4. QED
    BY <2>1, <2>2, <2>3 DEF Coherent
<1>5. QED
  BY <1>1, <1>3, <1>4, OneRunSteps, RunTyped DEF Command, JobsTypeOK

LEMMA PollKeeps ==
  ASSUME JobsInv, NEW j \in Jobs, Poll(j)
  PROVE  JobsInv'
<1>1. JobsTypeOK /\ Coherent(j)
  BY DEF JobsInv
<1>2. /\ jobs' \in [Jobs -> {Nil} \union JobRecord]
      /\ \A i \in Jobs : jobs'[i] \in {jobs[i], Nil}
  BY <1>1, PrunedTyped DEF Poll
<1>3. /\ page' \in [Jobs -> {"no job", "in progress"} \union Toasts]
      /\ page'[j] = Shown(jobs'[j])
      /\ \A i \in Jobs \ {j} : page'[i] = page[i]
  <2>1. Shown(Pruned[j]) \in {"no job", "in progress"} \union Toasts
    BY <1>1, PrunedTyped DEF Shown, JobRecord
  <2>2. QED
    BY <2>1, <1>1 DEF Poll, JobsTypeOK
<1>4. PageAgrees(j)'
  <2>1. CASE jobs'[j] = Nil \/ jobs'[j].status \in {"queued", "running"}
    BY <2>1, <1>3 DEF PageAgrees, Shown, Toasts
  <2>2. CASE jobs'[j] # Nil /\ jobs'[j].status \in {"completed", "failed"}
    BY <2>2, <1>1, <1>2, <1>3
    DEF Poll, Coherent, JobAgrees, PageAgrees, Shown, Tells, Untouched, Done, Dry, Wrote
  <2>3. QED
    BY <2>1, <2>2, <1>2 DEF JobRecord
<1>5. Unlisted(j)' /\ Checked(j)'
  BY <1>1, <1>2 DEF Poll, Coherent, Unlisted, Checked, InProgress, NewRun
<1>6. WroteSoFar(j)' /\ ExitAgrees(j)' /\ JobAgrees(j)'
  BY <1>1, <1>2
  DEF Poll, Coherent, WroteSoFar, ExitAgrees, JobAgrees, Tells, Untouched, Done, Dry,
      Wrote
<1>7. QED
  BY <1>1, <1>2, <1>3, <1>4, <1>5, <1>6, OneRunSteps, RunTyped
  DEF Poll, Coherent, JobsTypeOK

-----------------------------------------------------------------------------
(* The run of one id moves on.                                             *)

LEMMA MoveKeeps ==
  ASSUME JobsInv, NEW j \in Jobs, NEW phase \in Phases, Move(j, phase)
  PROVE  /\ run' \in [Jobs -> RunRecord]
         /\ run'[j] = [run[j] EXCEPT !.phase = phase]
         /\ \A i \in Jobs \ {j} : run'[i] = run[i]
<1>1. JobsTypeOK /\ [run[j] EXCEPT !.phase = phase] \in RunRecord
  BY RunTyped DEF JobsInv, RunRecord
<1>2. QED
  BY <1>1, RunTyped DEF Move

LEMMA EndRunKeeps ==
  ASSUME JobsInv, NEW j \in Jobs, NEW end \in Ends, EndRun(j, end)
  PROVE  /\ run' \in [Jobs -> RunRecord]
         /\ run'[j] = [run[j] EXCEPT !.phase = "ended", !.end = end]
         /\ \A i \in Jobs \ {j} : run'[i] = run[i]
<1>1. JobsTypeOK /\ [run[j] EXCEPT !.phase = "ended", !.end = end] \in RunRecord
  BY RunTyped DEF JobsInv, RunRecord, Phases
<1>2. QED
  BY <1>1, RunTyped DEF EndRun

LEMMA AnswerKeeps ==
  ASSUME JobsInv, NEW j \in Jobs, NEW c, Posted(j, c), NEW accepted,
         accepted => Accepts(c, run[j].form), Answer(j, accepted)
  PROVE  JobsInv'
<1>1. /\ JobsTypeOK /\ Coherent(j) /\ run[j] \in RunRecord
      /\ run[j].phase = "posted" /\ run[j].source = "form" /\ run[j].connector = c
      /\ run[j].connector \in Connectors /\ run[j].form \in Form
      /\ run[j].end = "none" /\ jobs[j] = Nil /\ page[j] = "no job"
      /\ run[j].wrote = "nothing" /\ j \notin audit /\ run[j].issues # "errors"
  BY RunTyped DEF JobsInv, Coherent, Unlisted, WroteSoFar, Untouched, Posted
<1>2. UNCHANGED <<page, audit, clock, restarts, demand>>
  BY DEF Answer
<1>3. CASE accepted /\ (run[j].form.mode = "apply" => run[j].editor)
  <2>1. CreateJob(j) /\ Move(j, "waiting")
    BY <1>3 DEF Answer
  <2>2. run' \in [Jobs -> RunRecord] /\ run'[j] = [run[j] EXCEPT !.phase = "waiting"]
        /\ \A i \in Jobs \ {j} : run'[i] = run[i]
    BY <2>1, MoveKeeps DEF Phases
  <2>3. /\ jobs' \in [Jobs -> {Nil} \union JobRecord]
        /\ jobs'[j] = JobOf("queued", "none")
        /\ \A i \in Jobs \ {j} : jobs'[i] \in {jobs[i], Nil}
        /\ jobs'[j].status = "queued" /\ jobs'[j].toast = "none"
    BY <2>1, <1>1, CreateJobWrites, JobOfTyped DEF Toasts
  <2>4. Unlisted(j)' /\ Checked(j)'
    BY <1>1, <1>2, <1>3, <2>2 DEF RunRecord, Unlisted, Checked, InProgress
  <2>5. WroteSoFar(j)' /\ ExitAgrees(j)'
    BY <1>1, <1>2, <2>2 DEF RunRecord, WroteSoFar, Untouched, Wrote, ExitAgrees
  <2>6. JobAgrees(j)' /\ PageAgrees(j)'
    BY <1>1, <1>2, <2>3 DEF JobAgrees, PageAgrees, Toasts
  <2>7. QED
    BY <1>1, <1>2, <2>2, <2>3, <2>4, <2>5, <2>6, OneRunSteps DEF Coherent, JobsTypeOK
<1>4. CASE ~(accepted /\ (run[j].form.mode = "apply" => run[j].editor))
  <2>1. EndRun(j, "refused") /\ UNCHANGED jobs
    BY <1>4 DEF Answer
  <2>2. /\ run' \in [Jobs -> RunRecord]
        /\ run'[j] = [run[j] EXCEPT !.phase = "ended", !.end = "refused"]
        /\ \A i \in Jobs \ {j} : run'[i] = run[i]
    BY <2>1, EndRunKeeps DEF Ends
  <2>3. Unlisted(j)' /\ Checked(j)'
    BY <1>1, <1>2, <2>1, <2>2 DEF RunRecord, Unlisted, Checked, InProgress
  <2>4. WroteSoFar(j)' /\ ExitAgrees(j)'
    BY <1>1, <1>2, <2>2 DEF RunRecord, WroteSoFar, Untouched, Wrote, ExitAgrees
  <2>5. JobAgrees(j)' /\ PageAgrees(j)'
    BY <1>1, <1>2, <2>1 DEF JobAgrees, PageAgrees, Toasts
  <2>6. QED
    BY <1>1, <1>2, <2>1, <2>2, <2>3, <2>4, <2>5, OneRunSteps, RunTyped
    DEF Coherent, JobsTypeOK
<1>5. QED
  BY <1>3, <1>4

LEMMA BeginKeeps ==
  ASSUME JobsInv, NEW j \in Jobs, Begin(j)
  PROVE  JobsInv'
<1>1. /\ JobsTypeOK /\ Coherent(j) /\ run[j] \in RunRecord
      /\ run[j].phase = "waiting" /\ run[j].end = "none"
      /\ run[j].wrote = "nothing" /\ j \notin audit /\ run[j].issues # "errors"
  BY RunTyped DEF JobsInv, Coherent, Unlisted, WroteSoFar, Untouched, Begin
<1>2. /\ run' \in [Jobs -> RunRecord]
      /\ run'[j] = [run[j] EXCEPT !.phase = "connecting"]
      /\ \A i \in Jobs \ {j} : run'[i] = run[i]
  BY MoveKeeps DEF Begin, Phases
<1>3. /\ jobs' \in [Jobs -> {Nil} \union JobRecord]
      /\ jobs'[j] = IF jobs[j] = Nil THEN Nil ELSE JobOf("running", "none")
      /\ \A i \in Jobs \ {j} : jobs'[i] = jobs[i]
  BY <1>1, UpdateJobWrites DEF Begin, Toasts
<1>4. Unlisted(j)' /\ Checked(j)'
  BY <1>1, <1>2, <1>3 DEF Begin, RunRecord, Coherent, Unlisted, Checked, InProgress
<1>5. WroteSoFar(j)' /\ ExitAgrees(j)'
  BY <1>1, <1>2 DEF Begin, RunRecord, WroteSoFar, Untouched, Wrote, ExitAgrees
<1>6. JobAgrees(j)' /\ PageAgrees(j)'
  BY <1>1, <1>2, <1>3, JobOfTyped DEF Begin, Coherent, JobAgrees, PageAgrees, Toasts
<1>7. QED
  BY <1>1, <1>2, <1>3, <1>4, <1>5, <1>6, OneRunSteps DEF Begin, Coherent, JobsTypeOK

LEMMA SettleKeeps ==
  ASSUME JobsInv, NEW j \in Jobs, run[j].phase \in {"connecting", "imported"},
         NEW end \in {"completed", "failed"},
         NEW toast \in {"success", "warning", "error", "failed"},
         end = "failed" => toast = "failed", Tells(j, toast),
         run[j].source = "command" => end = "failed",
         Settle(j, end, toast), UNCHANGED <<page, audit, clock, restarts, demand>>
  PROVE  JobsInv'
<1>1. /\ JobsTypeOK /\ Coherent(j) /\ run[j] \in RunRecord /\ clock \in 0..Asked.clock
  BY RunTyped DEF JobsInv, JobsTypeOK
<1>2. /\ run' \in [Jobs -> RunRecord]
      /\ run'[j] = [run[j] EXCEPT !.phase = "ended", !.end = end, !.settled = clock]
      /\ \A i \in Jobs \ {j} : run'[i] = run[i]
  <2>1. [run[j] EXCEPT !.phase = "ended", !.end = end, !.settled = clock] \in RunRecord
    BY <1>1 DEF RunRecord, Phases, Ends
  <2>2. QED
    BY <1>1, <2>1, RunTyped DEF Settle
<1>3. /\ jobs' \in [Jobs -> {Nil} \union JobRecord]
      /\ jobs'[j] = IF jobs[j] = Nil THEN Nil ELSE JobOf(end, toast)
      /\ \A i \in Jobs \ {j} : jobs'[i] = jobs[i]
  BY <1>1, UpdateJobWrites DEF Settle, Toasts
<1>4. Unlisted(j)' /\ Checked(j)'
  BY <1>1, <1>2, <1>3 DEF RunRecord, Coherent, Unlisted, Checked, InProgress
<1>5. WroteSoFar(j)' /\ ExitAgrees(j)'
  BY <1>1, <1>2 DEF RunRecord, Coherent, WroteSoFar, Untouched, Wrote, ExitAgrees
<1>6. Tells(j, toast)'
  BY <1>1, <1>2 DEF RunRecord, Tells, Untouched, Done, Wrote, Dry
<1>7. JobAgrees(j)' /\ PageAgrees(j)'
  <2>1. PageAgrees(j)'
    BY <1>1 DEF Coherent, PageAgrees
  <2>2. CASE jobs'[j] = Nil
    BY <2>1, <2>2 DEF JobAgrees
  <2>3. CASE jobs'[j] # Nil
    <3>1. /\ jobs'[j].status = end /\ jobs'[j].toast = toast
          /\ jobs'[j].updated = clock
      BY <1>1, <1>3, <2>3, JobOfTyped DEF Toasts
    <3>2. run'[j].settled = clock /\ run'[j].phase = "ended"
      BY <1>1, <1>2 DEF RunRecord
    <3>3. QED
      BY <1>6, <2>1, <3>1, <3>2 DEF JobAgrees
  <2>4. QED
    BY <2>2, <2>3
<1>8. QED
  BY <1>1, <1>2, <1>3, <1>4, <1>5, <1>7, OneRunSteps DEF Coherent, JobsTypeOK

LEMMA EscapeKeeps ==
  ASSUME JobsInv, NEW j \in Jobs, run[j].phase \in {"connecting", "fetched", "applied"},
         NEW wrote \in {"nothing", "part", "all"}, wrote # "nothing" => ~Dry(j),
         Escape(j, wrote), UNCHANGED <<page, audit, clock, restarts, demand>>
  PROVE  JobsInv'
<1>1. /\ JobsTypeOK /\ Coherent(j) /\ run[j] \in RunRecord
  BY RunTyped DEF JobsInv
<1>2. /\ run' \in [Jobs -> RunRecord]
      /\ run'[j] = [run[j] EXCEPT !.phase = "ended", !.end = "escaped", !.wrote = wrote]
      /\ \A i \in Jobs \ {j} : run'[i] = run[i]
  <2>1. [run[j] EXCEPT !.phase = "ended", !.end = "escaped", !.wrote = wrote] \in RunRecord
    BY <1>1 DEF RunRecord, Phases, Ends
  <2>2. QED
    BY <1>1, <2>1, RunTyped DEF Escape
<1>3. Unlisted(j)' /\ Checked(j)'
  BY <1>1, <1>2 DEF Escape, RunRecord, Coherent, Unlisted, Checked, InProgress
<1>4. WroteSoFar(j)' /\ ExitAgrees(j)'
  BY <1>1, <1>2
  DEF RunRecord, Coherent, Checked, InProgress, WroteSoFar, Untouched, Wrote, Dry,
      ExitAgrees
<1>5. JobAgrees(j)' /\ PageAgrees(j)'
  BY <1>1, <1>2 DEF Escape, Coherent, JobAgrees, PageAgrees
<1>6. QED
  BY <1>1, <1>2, <1>3, <1>4, <1>5, OneRunSteps, RunTyped DEF Escape, Coherent, JobsTypeOK

-----------------------------------------------------------------------------
(* Fetch, import and the entry of the run.                                 *)

LEMMA FetchKeeps ==
  ASSUME JobsInv, NEW j \in Jobs, NEW raised, Fetch(j, raised)
  PROVE  JobsInv'
<1>1. /\ JobsTypeOK /\ Coherent(j) /\ run[j] \in RunRecord
      /\ run[j].phase = "connecting" /\ run[j].wrote = "nothing"
      /\ UNCHANGED <<page, audit, clock, restarts, demand>>
  BY RunTyped DEF JobsInv, Coherent, WroteSoFar, Untouched, Fetch
<1>2. CASE \E issues \in {"none", "warnings"} :
             /\ run' = [run EXCEPT ![j].phase = "fetched", ![j].issues = issues]
             /\ UNCHANGED jobs
  <2>1. PICK issues \in {"none", "warnings"} :
             /\ run' = [run EXCEPT ![j].phase = "fetched", ![j].issues = issues]
             /\ UNCHANGED jobs
    BY <1>2
  <2>2. [run[j] EXCEPT !.phase = "fetched", !.issues = issues] \in RunRecord
    BY <1>1 DEF RunRecord, Phases
  <2>3. /\ run' \in [Jobs -> RunRecord]
        /\ run'[j] = [run[j] EXCEPT !.phase = "fetched", !.issues = issues]
        /\ \A i \in Jobs \ {j} : run'[i] = run[i]
    BY <1>1, <2>1, <2>2, RunTyped
  <2>4. Unlisted(j)' /\ Checked(j)'
    BY <1>1, <2>1, <2>3 DEF RunRecord, Coherent, Unlisted, Checked, InProgress
  <2>5. WroteSoFar(j)' /\ ExitAgrees(j)'
    BY <1>1, <2>3
    DEF RunRecord, Coherent, Unlisted, WroteSoFar, Untouched, Wrote, ExitAgrees
  <2>6. JobAgrees(j)' /\ PageAgrees(j)'
    BY <1>1, <2>1, <2>3 DEF Coherent, JobAgrees, PageAgrees
  <2>7. QED
    BY <1>1, <2>1, <2>3, <2>4, <2>5, <2>6, OneRunSteps, RunTyped DEF Coherent, JobsTypeOK
<1>3. CASE \E exception \in raised : Raise(j, exception)
  <2>1. CASE Settle(j, "failed", "failed")
    BY <2>1, <1>1, SettleKeeps DEF Tells, Wrote
  <2>2. CASE Escape(j, "nothing")
    BY <2>2, <1>1, EscapeKeeps
  <2>3. QED
    BY <1>3, <2>1, <2>2 DEF Raise
<1>4. QED
  BY <1>2, <1>3 DEF Fetch

LEMMA ImportKeeps ==
  ASSUME JobsInv, NEW j \in Jobs, Import(j)
  PROVE  JobsInv'
<1>1. /\ JobsTypeOK /\ Coherent(j) /\ run[j] \in RunRecord
      /\ run[j].phase = "fetched" /\ run[j].wrote = "nothing" /\ j \notin audit
      /\ run[j].issues # "errors"
      /\ UNCHANGED <<page, audit, clock, restarts, demand>>
  BY RunTyped DEF JobsInv, Coherent, WroteSoFar, Untouched, Import
<1>2. ASSUME NEW phase \in {"imported", "applied"}, NEW wrote \in {"nothing", "all"},
             NEW issues \in {"none", "warnings", "errors"},
             IF Dry(j) \/ issues = "errors" THEN phase = "imported" /\ wrote = "nothing"
                                            ELSE phase = "applied" /\ wrote = "all",
             run' = [run EXCEPT ![j] = [run[j] EXCEPT !.phase = phase, !.wrote = wrote,
                                                     !.issues = issues]],
             UNCHANGED jobs
      PROVE  JobsInv'
  <2>1. [run[j] EXCEPT !.phase = phase, !.wrote = wrote, !.issues = issues] \in RunRecord
    BY <1>1 DEF RunRecord, Phases
  <2>2. /\ run' \in [Jobs -> RunRecord]
        /\ run'[j] = [run[j] EXCEPT !.phase = phase, !.wrote = wrote, !.issues = issues]
        /\ \A i \in Jobs \ {j} : run'[i] = run[i]
    BY <1>1, <1>2, <2>1, RunTyped
  <2>3. Unlisted(j)' /\ Checked(j)'
    BY <1>1, <1>2, <2>2 DEF RunRecord, Coherent, Unlisted, Checked, InProgress
  <2>4. WroteSoFar(j)' /\ ExitAgrees(j)'
    BY <1>1, <1>2, <2>2
    DEF RunRecord, Coherent, Unlisted, Checked, InProgress, WroteSoFar, Untouched, Wrote,
        Dry, ExitAgrees
  <2>5. JobAgrees(j)' /\ PageAgrees(j)'
    BY <1>1, <1>2, <2>2 DEF Coherent, JobAgrees, PageAgrees
  <2>6. QED
    BY <1>1, <1>2, <2>2, <2>3, <2>4, <2>5, OneRunSteps, RunTyped DEF Coherent, JobsTypeOK
<1>3. CASE /\ run' = [run EXCEPT ![j].phase = "imported", ![j].issues = "errors"]
           /\ UNCHANGED jobs
  <2>1. [run[j] EXCEPT !.phase = "imported", !.issues = "errors"]
          = [run[j] EXCEPT !.phase = "imported", !.wrote = "nothing", !.issues = "errors"]
    BY <1>1 DEF RunRecord
  <2>2. run' = [run EXCEPT ![j] = [run[j] EXCEPT !.phase = "imported",
                                      !.wrote = "nothing", !.issues = "errors"]]
    BY <1>3, <2>1
  <2>3. QED
    BY <1>2, <1>3, <2>2
<1>4. CASE \E issues \in {run[j].issues, "warnings"} :
             /\ run' = [run EXCEPT ![j].phase = IF Dry(j) THEN "imported" ELSE "applied",
                                   ![j].wrote = IF Dry(j) THEN "nothing" ELSE "all",
                                   ![j].issues = issues]
             /\ UNCHANGED jobs
  <2>1. run[j].issues \in {"none", "warnings"}
    BY <1>1 DEF RunRecord
  <2>2. PICK issues \in {"none", "warnings"} :
          /\ run' = [run EXCEPT ![j].phase = IF Dry(j) THEN "imported" ELSE "applied",
                                ![j].wrote = IF Dry(j) THEN "nothing" ELSE "all",
                                ![j].issues = issues]
          /\ UNCHANGED jobs
    BY <1>4, <2>1
  <2>3. CASE Dry(j)
    <3>1. run' = [run EXCEPT ![j] = [run[j] EXCEPT !.phase = "imported",
                                        !.wrote = "nothing", !.issues = issues]]
      BY <2>2, <2>3
    <3>2. QED
      BY <1>2, <2>2, <2>3, <3>1
  <2>4. CASE ~Dry(j)
    <3>1. run' = [run EXCEPT ![j] = [run[j] EXCEPT !.phase = "applied",
                                        !.wrote = "all", !.issues = issues]]
      BY <2>2, <2>4
    <3>2. QED
      BY <1>2, <2>2, <2>4, <3>1
  <2>5. QED
    BY <2>3, <2>4
<1>5. CASE \E wrote \in {"nothing", "part"} :
             (wrote = "part" => ~Dry(j)) /\ Escape(j, wrote)
  BY <1>1, <1>5, EscapeKeeps
<1>6. QED
  BY <1>3, <1>4, <1>5 DEF Import

LEMMA RecordRunKeeps ==
  ASSUME JobsInv, NEW j \in Jobs, RecordRun(j)
  PROVE  JobsInv'
<1>1. /\ JobsTypeOK /\ Coherent(j) /\ run[j] \in RunRecord
      /\ run[j].phase = "applied" /\ run[j].wrote = "all" /\ ~Dry(j)
      /\ run[j].issues # "errors"
      /\ UNCHANGED <<page, clock, restarts, demand>>
  BY RunTyped DEF JobsInv, Coherent, WroteSoFar, RecordRun
<1>2. CASE Move(j, "imported") /\ audit' = audit \union {j} /\ UNCHANGED jobs
  <2>1. /\ run' \in [Jobs -> RunRecord]
        /\ run'[j] = [run[j] EXCEPT !.phase = "imported"]
        /\ \A i \in Jobs \ {j} : run'[i] = run[i]
    BY <1>2, MoveKeeps DEF Phases
  <2>2. Unlisted(j)' /\ Checked(j)'
    BY <1>1, <1>2, <2>1 DEF RunRecord, Coherent, Unlisted, Checked, InProgress
  <2>3. WroteSoFar(j)' /\ ExitAgrees(j)'
    BY <1>1, <1>2, <2>1
    DEF RunRecord, Coherent, Unlisted, Checked, InProgress, WroteSoFar, Done, Wrote, Dry,
        ExitAgrees
  <2>4. JobAgrees(j)' /\ PageAgrees(j)'
    BY <1>1, <1>2, <2>1 DEF Coherent, JobAgrees, PageAgrees
  <2>5. audit' \subseteq Jobs /\ \A i \in Jobs \ {j} : i \in audit' <=> i \in audit
    BY <1>1, <1>2 DEF JobsTypeOK
  <2>6. QED
    BY <1>1, <1>2, <2>1, <2>2, <2>3, <2>4, <2>5, OneRunSteps, RunTyped
    DEF Coherent, JobsTypeOK
<1>3. CASE Escape(j, "all") /\ UNCHANGED audit
  BY <1>1, <1>3, EscapeKeeps
<1>4. QED
  BY <1>2, <1>3 DEF RecordRun

LEMMA CompleteKeeps ==
  ASSUME JobsInv, NEW j \in Jobs, run[j].source = "form", Complete(j)
  PROVE  JobsInv'
<1>1. /\ JobsTypeOK /\ Coherent(j) /\ run[j] \in RunRecord /\ run[j].phase = "imported"
      /\ IF Dry(j) \/ run[j].issues = "errors" THEN Untouched(j) ELSE Done(j)
  BY RunTyped DEF JobsInv, Coherent, WroteSoFar, Complete
<1>2. /\ Verdict(run[j].issues) \in {"success", "warning", "error"}
      /\ Verdict(run[j].issues) = "error" <=> run[j].issues = "errors"
  BY <1>1 DEF Verdict, RunRecord
<1>3. Tells(j, Verdict(run[j].issues))
  BY <1>1, <1>2 DEF Tells
<1>4. QED
  BY <1>1, <1>2, <1>3, SettleKeeps DEF Complete

-----------------------------------------------------------------------------
(* Commands, the clock and the restart of the server.                      *)

LEMMA CommandEndKeeps ==
  ASSUME JobsInv, NEW j \in Jobs, NEW end \in {"completed", "failed"},
         run[j].source = "command", run[j].phase \in {"fetched", "imported"},
         EndRun(j, end), UNCHANGED <<jobs, page, audit, clock, restarts, demand>>,
         end = "completed" /\ ~Dry(j)
           /\ run[j].connector \in {"cassandra", "ceph", "kubernetes"} => Done(j)
  PROVE  JobsInv'
<1>1. JobsTypeOK /\ Coherent(j) /\ run[j] \in RunRecord
  BY RunTyped DEF JobsInv
<1>2. /\ run' \in [Jobs -> RunRecord]
      /\ run'[j] = [run[j] EXCEPT !.phase = "ended", !.end = end]
      /\ \A i \in Jobs \ {j} : run'[i] = run[i]
  BY EndRunKeeps DEF Ends
<1>3. Unlisted(j)' /\ Checked(j)'
  BY <1>1, <1>2 DEF RunRecord, Coherent, Unlisted, Checked, InProgress
<1>4. WroteSoFar(j)' /\ ExitAgrees(j)'
  BY <1>1, <1>2
  DEF RunRecord, Coherent, WroteSoFar, Untouched, Done, Wrote, Dry, ExitAgrees
<1>5. JobAgrees(j)' /\ PageAgrees(j)'
  BY <1>1, <1>2 DEF Coherent, Unlisted, JobAgrees, PageAgrees, Toasts
<1>6. QED
  BY <1>1, <1>2, <1>3, <1>4, <1>5, OneRunSteps, RunTyped DEF Coherent, JobsTypeOK

LEMMA CommandImportKeeps ==
  ASSUME JobsInv, NEW j \in Jobs, run[j].source = "command", CommandImport(j)
  PROVE  JobsInv'
<1>1. CASE run[j].form.mode = "file"
  BY <1>1, CommandEndKeeps DEF CommandImport, Dry
<1>2. CASE run[j].form.mode # "file"
  BY <1>2, ImportKeeps DEF CommandImport
<1>3. QED
  BY <1>1, <1>2

LEMMA ExitKeeps ==
  ASSUME JobsInv, NEW j \in Jobs, run[j].source = "command",
         NEW tellsErrors \in BOOLEAN, Exit(j, tellsErrors),
         run[j].connector \in {"cassandra", "ceph", "kubernetes"} => tellsErrors
  PROVE  JobsInv'
<1>1. IF Dry(j) \/ run[j].issues = "errors" THEN Untouched(j) ELSE Done(j)
  BY DEF JobsInv, Coherent, WroteSoFar, Exit
<1>2. CASE tellsErrors /\ run[j].issues = "errors"
  BY <1>2, CommandEndKeeps DEF Exit
<1>3. CASE ~(tellsErrors /\ run[j].issues = "errors")
  BY <1>1, <1>3, CommandEndKeeps DEF Exit
<1>4. QED
  BY <1>2, <1>3

LEMMA TickKeeps ==
  ASSUME JobsInv, Tick
  PROVE  JobsInv'
<1>1. JobsTypeOK'
  <2>1. clock' \in 0..Asked.clock
    <3>1. clock \in 0..Asked.clock /\ Asked.clock \in Nat
      BY AskedType DEF JobsInv, JobsTypeOK
    <3>2. clock < Asked.clock /\ clock' = clock + 1
      BY DEF Tick
    <3>3. QED
      BY <3>1, <3>2
  <2>2. QED
    BY <2>1 DEF JobsInv, JobsTypeOK, Tick, Asked
<1>2. ASSUME NEW j \in Jobs PROVE Coherent(j)'
  BY OthersCoherent DEF Tick
<1>3. QED
  BY <1>1, <1>2 DEF JobsInv

LEMMA RestartKeeps ==
  ASSUME JobsInv, Restart
  PROVE  JobsInv'
<1> DEFINE Lost(j) == run[j].source = "form" /\ run[j].phase \notin {"new", "ended"}
<1>1. PICK cut \in SUBSET {j \in Working : run[j].phase = "fetched" /\ ~Dry(j)} :
        run' = [j \in Jobs |->
                 IF run[j].source = "form" /\ run[j].phase \notin {"new", "ended"}
                 THEN [run[j] EXCEPT !.phase = "ended", !.end = "killed",
                                     !.wrote = IF j \in cut THEN "part" ELSE @]
                 ELSE run[j]]
  BY DEF Restart
<1>2. /\ JobsTypeOK /\ jobs' = [j \in Jobs |-> Nil] /\ restarts' = restarts + 1
      /\ restarts < Asked.restarts /\ UNCHANGED <<page, audit, clock, demand>>
  BY DEF JobsInv, Restart
<1>3. ASSUME NEW j \in Jobs PROVE run'[j] \in RunRecord
  <2>1. run[j] \in RunRecord
    BY <1>2, RunTyped
  <2>2. CASE Lost(j) /\ j \in cut
    <3>1. run'[j] = [run[j] EXCEPT !.phase = "ended", !.end = "killed", !.wrote = "part"]
      BY <1>1, <2>2
    <3>2. QED
      BY <2>1, <3>1 DEF RunRecord, Phases, Ends
  <2>3. CASE Lost(j) /\ j \notin cut
    <3>1. run'[j] = [run[j] EXCEPT !.phase = "ended", !.end = "killed",
                                   !.wrote = run[j].wrote]
      BY <1>1, <2>3
    <3>2. QED
      BY <2>1, <3>1 DEF RunRecord, Phases, Ends
  <2>4. CASE ~Lost(j)
    BY <1>1, <2>1, <2>4
  <2>5. QED
    BY <2>2, <2>3, <2>4
<1>4. JobsTypeOK'
  <2>1. run' \in [Jobs -> RunRecord]
    BY <1>1, <1>3
  <2>2. jobs' \in [Jobs -> {Nil} \union JobRecord]
    BY <1>2
  <2>3. restarts' \in 0..Asked.restarts
    <3>1. restarts \in 0..Asked.restarts /\ Asked.restarts \in Nat
      BY <1>2, AskedType DEF JobsTypeOK
    <3>2. QED
      BY <1>2, <3>1
  <2>4. QED
    BY <2>1, <2>2, <2>3, <1>2 DEF JobsTypeOK, RunRecord, JobRecord, Asked
<1>5. ASSUME NEW j \in Jobs PROVE Coherent(j)'
  <2>1. CASE ~Lost(j)
    BY <1>1, <1>2, <2>1, OthersCoherent
  <2>2. CASE Lost(j)
    <3>1. /\ Coherent(j) /\ run[j] \in RunRecord
          /\ run'[j] = [run[j] EXCEPT !.phase = "ended", !.end = "killed",
                            !.wrote = IF j \in cut THEN "part" ELSE run[j].wrote]
          /\ j \in cut => run[j].phase = "fetched" /\ ~Dry(j)
      BY <1>1, <1>2, <2>2, RunTyped DEF JobsInv
    <3>2. Unlisted(j)' /\ Checked(j)'
      BY <1>2, <2>2, <3>1 DEF RunRecord, Coherent, Unlisted, Checked, InProgress
    <3>3. WroteSoFar(j)' /\ ExitAgrees(j)'
      BY <1>2, <2>2, <3>1
      DEF RunRecord, Coherent, Checked, InProgress, WroteSoFar, Untouched, Wrote, Dry,
          ExitAgrees
    <3>4. JobAgrees(j)' /\ PageAgrees(j)'
      BY <1>2, <2>2, <3>1 DEF Coherent, JobAgrees, PageAgrees
    <3>5. QED
      BY <3>2, <3>3, <3>4 DEF Coherent
  <2>3. QED
    BY <2>1, <2>2
<1>6. QED
  BY <1>4, <1>5 DEF JobsInv

-----------------------------------------------------------------------------
(* The invariant.                                                          *)

LEMMA HandlerKeeps ==
  ASSUME JobsInv, NEW j \in Jobs, Handler(j)
  PROVE  JobsInv'
<1>1. CASE CassandraForm(j)
  BY <1>1, AnswerKeeps DEF CassandraForm, Accepts
<1>2. CASE CephForm(j)
  BY <1>2, AnswerKeeps DEF CephForm, Accepts
<1>3. CASE ElasticsearchForm(j)
  BY <1>3, AnswerKeeps DEF ElasticsearchForm, Accepts
<1>4. CASE KubernetesForm(j)
  BY <1>4, AnswerKeeps DEF KubernetesForm, Accepts
<1>5. CASE PrometheusForm(j)
  BY <1>5, AnswerKeeps DEF PrometheusForm, Accepts
<1>6. CASE VcenterForm(j)
  BY <1>6, AnswerKeeps DEF VcenterForm, Accepts
<1>7. QED
  BY <1>1, <1>2, <1>3, <1>4, <1>5, <1>6 DEF Handler

(* A thread begins, carries out and completes the run of a form.           *)
LEMMA ThreadSteps ==
  ASSUME NEW j \in Jobs, Thread(j)
  PROVE  /\ run[j].source = "form"
         /\ \/ Begin(j) \/ Complete(j) \/ Import(j) \/ RecordRun(j)
            \/ \E raised \in SUBSET {"connector", "other"} : Fetch(j, raised)
  BY DEF Thread, Running, CassandraJob, CassandraRun, CephJob, CephRun,
         ElasticsearchJob, ElasticsearchRun, KubernetesJob, KubernetesRun,
         PrometheusJob, PrometheusRun, VcenterJob, VcenterRun, CassandraFetch,
         CephFetch, ElasticsearchFetch, KubernetesFetch, PrometheusFetch, VcenterFetch

(* So does a command, which exits instead.                                 *)
LEMMA ProcessSteps ==
  ASSUME NEW j \in Jobs, Process(j)
  PROVE  /\ run[j].source = "command"
         /\ \/ CommandImport(j) \/ RecordRun(j)
            \/ \E raised \in SUBSET {"connector", "other"} : Fetch(j, raised)
            \/ \E tellsErrors \in BOOLEAN :
                 /\ Exit(j, tellsErrors)
                 /\ run[j].connector \in {"cassandra", "ceph", "kubernetes"}
                      => tellsErrors
  BY DEF Process, Commanded, CommandSteps, CassandraCommand, CephCommand,
         ElasticsearchCommand, KubernetesCommand, PrometheusCommand, VcenterCommand,
         CassandraFetch, CephFetch, ElasticsearchFetch, KubernetesFetch,
         PrometheusFetch, VcenterFetch

LEMMA JobsInit == Init => JobsInv
<1> SUFFICES ASSUME Init PROVE JobsInv
  OBVIOUS
<1>1. Asked.clock \in Nat /\ Asked.restarts \in Nat /\ demand \in DOMAIN Demands
  BY JobsAssumption DEF Init, Asked, Demand
<1>2. NewRun \in RunRecord
  BY <1>1 DEF NewRun, RunRecord, Phases, Ends
<1>3. JobsTypeOK
  <2>1. run \in [Jobs -> RunRecord] /\ jobs \in [Jobs -> {Nil} \union JobRecord]
        /\ page \in [Jobs -> {"no job", "in progress"} \union Toasts]
    BY <1>2 DEF Init
  <2>2. audit = {} /\ clock = 0 /\ restarts = 0
    BY DEF Init
  <2>3. /\ audit \subseteq Jobs
        /\ clock \in 0..Asked.clock /\ restarts \in 0..Asked.restarts
    BY <1>1, <2>2
  <2>4. QED
    BY <1>1, <2>1, <2>3 DEF JobsTypeOK, RunRecord, JobRecord
<1>4. /\ NewRun.phase = "new" /\ NewRun.source = "form" /\ NewRun.end = "none"
      /\ NewRun.wrote = "nothing" /\ NewRun.issues = "none"
  BY DEF NewRun
<1>5. ASSUME NEW j \in Jobs PROVE Coherent(j)
  <2>1. run[j] = NewRun /\ jobs[j] = Nil /\ page[j] = "no job" /\ j \notin audit
    BY DEF Init
  <2>2. QED
    <3>1. /\ run[j].phase = "new" /\ run[j].source = "form" /\ run[j].end = "none"
          /\ run[j].wrote = "nothing" /\ run[j].issues = "none"
      BY <2>1, <1>4
    <3>2. Unlisted(j) /\ Checked(j)
      BY <2>1, <3>1 DEF Unlisted, Checked, InProgress
    <3>3. WroteSoFar(j) /\ ExitAgrees(j)
      BY <2>1, <3>1 DEF WroteSoFar, Untouched, Wrote, ExitAgrees
    <3>4. JobAgrees(j) /\ PageAgrees(j)
      BY <2>1 DEF JobAgrees, PageAgrees, Toasts
    <3>5. QED
      BY <3>2, <3>3, <3>4 DEF Coherent
<1>6. QED
  BY <1>3, <1>5 DEF JobsInv

LEMMA JobsStep == JobsInv /\ [Next]_vars => JobsInv'
<1> SUFFICES ASSUME JobsInv, [Next]_vars PROVE JobsInv'
  OBVIOUS
<1>1. CASE \E j \in Asked.users, c \in Asked.runnable, f \in Asked.forms :
             Command(j, c, f) \/ \E editor \in BOOLEAN : Post(j, c, f, editor)
  BY <1>1, AskedType, CommandKeeps, PostKeeps DEF JobsInv
<1>2. ASSUME NEW j \in Jobs, Handler(j) \/ Thread(j) \/ Process(j) \/ Poll(j)
      PROVE  JobsInv'
  <2>1. CASE Handler(j)
    BY <2>1, HandlerKeeps
  <2>2. CASE Thread(j)
    BY <2>2, ThreadSteps, BeginKeeps, CompleteKeeps, FetchKeeps, ImportKeeps,
       RecordRunKeeps
  <2>3. CASE Process(j)
    BY <2>3, ProcessSteps, FetchKeeps, CommandImportKeeps, RecordRunKeeps, ExitKeeps
  <2>4. CASE Poll(j)
    BY <2>4, PollKeeps
  <2>5. QED
    BY <1>2, <2>1, <2>2, <2>3, <2>4
<1>3. CASE Restart
  BY <1>3, RestartKeeps
<1>4. CASE Tick
  BY <1>4, TickKeeps
<1>5. CASE UNCHANGED vars
  <2>1. JobsTypeOK'
    BY <1>5 DEF JobsInv, JobsTypeOK, Asked, vars
  <2>2. ASSUME NEW j \in Jobs PROVE Coherent(j)'
    BY <1>5, OthersCoherent DEF vars
  <2>3. QED
    BY <2>1, <2>2 DEF JobsInv
<1>6. QED
  BY <1>1, <1>2, <1>3, <1>4, <1>5 DEF Next

LEMMA JobsAlways == Spec => []JobsInv
  BY JobsInit, JobsStep, PTL DEF Spec

-----------------------------------------------------------------------------
(* What the checks of a connector say of the credentials its fetch sends,  *)
(* and of the checks of its command.                                       *)

LEMMA FormIdentity ==
  ASSUME NEW c \in Connectors, NEW f \in Form, Accepts(c, f)
  PROVE  /\ c \in TakesPassword /\ (Named(f) \/ f.password = "given")
              => Identity(c, f, UiPassword(f)) = "password"
         /\ c \in TakesToken /\ "token" \in f.filled
              => Identity(c, f, UiPassword(f)) = "token"
<1>1. CASE c = "cassandra"
  BY <1>1 DEF Accepts, CassandraAccepts, Identity, CassandraIdentity, UserAndPassword,
              UiPassword, TakesPassword, TakesToken
<1>2. CASE c = "ceph"
  BY <1>2 DEF Identity, CephIdentity, TakesToken
<1>3. CASE c = "elasticsearch"
  BY <1>3 DEF Accepts, ElasticsearchAccepts, Identity, ElasticsearchIdentity,
              UserAndPassword, UiPassword
<1>4. CASE c = "kubernetes"
  BY <1>4 DEF Identity, KubernetesIdentity, TakesPassword
<1>5. CASE c = "prometheus"
  BY <1>5 DEF Identity, PrometheusIdentity, TakesPassword
<1>6. CASE c = "vcenter"
  BY <1>6 DEF Identity, VcenterIdentity, TakesToken
<1>7. QED
  BY <1>1, <1>2, <1>3, <1>4, <1>5, <1>6 DEF Connectors

LEMMA CommandIdentity ==
  ASSUME NEW c \in Connectors, NEW f \in Form, CliAccepts(c, f)
  PROVE  /\ c \in TakesPassword /\ (Named(f) \/ f.password = "given")
              => Identity(c, f, CliPassword(f)) = "password"
         /\ c \in TakesToken /\ "token" \in f.filled
              => Identity(c, f, CliPassword(f)) = "token"
<1>1. CASE c = "cassandra"
  BY <1>1 DEF CliAccepts, CassandraCliAccepts, Identity, CassandraIdentity,
              UserAndPassword, CliPassword, TakesPassword, TakesToken
<1>2. CASE c = "ceph"
  BY <1>2 DEF Identity, CephIdentity, TakesToken
<1>3. CASE c = "elasticsearch"
  BY <1>3 DEF CliAccepts, ElasticsearchCliAccepts, Identity, ElasticsearchIdentity,
              UserAndPassword, CliPassword
<1>4. CASE c = "kubernetes"
  BY <1>4 DEF Identity, KubernetesIdentity, TakesPassword
<1>5. CASE c = "prometheus"
  BY <1>5 DEF Identity, PrometheusIdentity, TakesPassword
<1>6. CASE c = "vcenter"
  BY <1>6 DEF Identity, VcenterIdentity, TakesToken
<1>7. QED
  BY <1>1, <1>2, <1>3, <1>4, <1>5, <1>6 DEF Connectors

LEMMA ArgumentsSay ==
  ASSUME NEW f \in Form
  PROVE  LET g == AsArguments(f)
         IN /\ g.filled = f.filled \union {"db"}
            /\ UiMode(f) => DestinationGiven(g)
            /\ \A fields : Literal(g, fields)
            /\ CliPassword(g) <=> UiPassword(f)
            /\ Named(g) <=> Named(f)
            /\ "token" \in g.filled <=> "token" \in f.filled
            /\ \A texts : Filled(f, texts) => Filled(g, texts)
            /\ g.kind = f.kind /\ g.port = f.port /\ g.timeout = f.timeout
            /\ g.mode = f.mode /\ g.tls = f.tls /\ g.insecure = f.insecure
  BY DEF AsArguments, Form, CliPassword, UiPassword, Named, Filled, Literal, UiMode,
         DestinationGiven

LEMMA FormWithinCommand ==
  ASSUME NEW c \in Connectors, NEW f \in Form, Accepts(c, f)
  PROVE  CliAccepts(c, AsArguments(f))
<1> DEFINE g == AsArguments(f)
<1> SUFFICES CliAccepts(c, g)
  OBVIOUS
<1>1. /\ CliPassword(g) <=> UiPassword(f)
      /\ Named(g) <=> Named(f)
      /\ "token" \in g.filled <=> "token" \in f.filled
      /\ \A texts : Filled(f, texts) => Filled(g, texts)
      /\ UiMode(f) => DestinationGiven(g)
      /\ \A fields : Literal(g, fields)
      /\ g.kind = f.kind /\ g.tls = f.tls /\ g.insecure = f.insecure
      /\ UiMode(f) => CliMode(g)
      /\ PortValid(f) => PortValid(g) /\ g.port # Bad
      /\ TimeoutValid(f) => TimeoutValid(g) /\ g.timeout # Bad
  BY ArgumentsSay DEF UiMode, CliMode, PortValid, TimeoutValid, Bad
<1> HIDE DEF g
<1>2. CASE c = "cassandra"
  BY <1>1, <1>2 DEF Accepts, CassandraAccepts, CliAccepts, CassandraCliAccepts
<1>3. CASE c = "ceph"
  BY <1>1, <1>3 DEF Accepts, CephAccepts, CliAccepts, CephCliAccepts
<1>4. CASE c = "elasticsearch"
  BY <1>1, <1>4 DEF Accepts, ElasticsearchAccepts, CliAccepts, ElasticsearchCliAccepts
<1>5. CASE c = "kubernetes"
  BY <1>1, <1>5 DEF Accepts, KubernetesAccepts, CliAccepts, KubernetesCliAccepts
<1>6. CASE c = "prometheus"
  <2>1. Filled(f, {"target", "query", "label"}) => Filled(f, {"label"})
    BY DEF Filled
  <2>2. QED
    BY <1>1, <1>6, <2>1
    DEF Accepts, PrometheusAccepts, CliAccepts, PrometheusCliAccepts
<1>7. CASE c = "vcenter"
  BY <1>1, <1>7 DEF Accepts, VcenterAccepts, CliAccepts, VcenterCliAccepts
<1>8. QED
  BY <1>2, <1>3, <1>4, <1>5, <1>6, <1>7 DEF Connectors

-----------------------------------------------------------------------------
(* The theorems.                                                           *)

(* No interleaving of forms, threads, commands, polls and restarts leaves  *)
(* a malformed job or run (_CONNECTOR_JOBS and the tasks behind it).       *)
THEOREM JobsTypeCorrect == Spec => []JobsTypeOK
  BY JobsAlways, PTL DEF JobsInv

(* Whatever else goes on, a run reported as failed has written nothing     *)
(* (the except clause of every _run_*_connector_job).                      *)
THEOREM FailuresChangeNothing == Spec => []FailedChangedNothing
<1>1. JobsInv => FailedChangedNothing
  <2> SUFFICES ASSUME JobsInv, NEW j \in Jobs,
                      (jobs[j] # Nil /\ jobs[j].status = "failed") \/ page[j] = "failed"
               PROVE  ~Wrote(j)
    BY DEF FailedChangedNothing
  <2>1. CASE jobs[j] # Nil /\ jobs[j].status = "failed"
    BY <2>1 DEF JobsInv, Coherent, JobAgrees, Tells
  <2>2. CASE page[j] = "failed"
    BY <2>2 DEF JobsInv, Coherent, PageAgrees, Tells, Toasts
  <2>3. QED
    BY <2>1, <2>2
<1>2. QED
  BY <1>1, JobsAlways, PTL

(* Toasts and the exit status of the commands that tell of errors agree    *)
(* with the database and its audit log (_finalize_job_logs, main).         *)
THEOREM ResultsTellTruth == Spec => []ResultTellsTruth
<1>1. JobsInv => ResultTellsTruth
  <2> SUFFICES ASSUME JobsInv, NEW j \in Jobs
               PROVE  /\ page[j] = "error" => ~Wrote(j) /\ j \notin audit
                      /\ SaysDone(j) /\ ~Dry(j) => run[j].wrote = "all" /\ j \in audit
    BY DEF ResultTellsTruth
  <2>1. Tells(j, page[j]) \/ page[j] \notin Toasts
    BY DEF JobsInv, Coherent, PageAgrees
  <2>2. page[j] = "error" => ~Wrote(j) /\ j \notin audit
    BY <2>1 DEF Tells, Untouched, Wrote, Toasts
  <2>3. page[j] \in {"success", "warning"} /\ ~Dry(j) => Done(j)
    BY <2>1 DEF Tells, Toasts
  <2>4. QED
    BY <2>2, <2>3 DEF SaysDone, JobsInv, Coherent, ExitAgrees, Done
<1>2. QED
  BY <1>1, JobsAlways, PTL

(* Every write comes from an apply of an editor or of a command, to the    *)
(* end of every run (the role checks of the form handlers).                *)
THEOREM OnlyAllowedWrites == Spec => []WritesWereAllowed
<1>1. JobsInv => WritesWereAllowed
  BY DEF JobsInv, Coherent, WroteSoFar, WritesWereAllowed
<1>2. QED
  BY <1>1, JobsAlways, PTL

(* For every combination of fields that a form or a command accepts, the   *)
(* fetch presents the identity it was given.                               *)
THEOREM GivenIdentitySent == Spec => []SendsGivenIdentity
<1>1. JobsInv => SendsGivenIdentity
  <2> SUFFICES ASSUME JobsInv, NEW j \in Jobs, InProgress(j)
               PROVE  /\ run[j].connector \in TakesPassword
                              /\ (Named(run[j].form) \/ run[j].form.password = "given")
                            => Presents(j) = "password"
                      /\ run[j].connector \in TakesToken /\ "token" \in run[j].form.filled
                            => Presents(j) = "token"
    BY DEF SendsGivenIdentity
  <2>1. run[j].connector \in Connectors /\ run[j].form \in Form
    BY DEF JobsInv, Coherent, Unlisted, InProgress
  <2>2. CASE run[j].source = "form"
    BY <2>1, <2>2, FormIdentity DEF JobsInv, Coherent, Checked, Presents
  <2>3. CASE run[j].source # "form"
    BY <2>1, <2>3, CommandIdentity DEF JobsInv, Coherent, Checked, Presents
  <2>4. QED
    BY <2>2, <2>3
<1>2. QED
  BY <1>1, JobsAlways, PTL

(* For every form, what an accepted one hands to its job is within the     *)
(* checks of the command, argparse's literal choices included (the two     *)
(* sets of checks of each connector were written twice).                   *)
THEOREM FormsStayWithinCommands == Spec => []FormsWithinCommands
<1>1. JobsInv => FormsWithinCommands
  <2> SUFFICES ASSUME JobsInv, NEW j \in Jobs, InProgress(j), run[j].source = "form"
               PROVE  CliAccepts(run[j].connector, AsArguments(run[j].form))
    BY DEF FormsWithinCommands
  <2>1. run[j].connector \in Connectors /\ run[j].form \in Form
    BY DEF JobsInv, Coherent, Unlisted, InProgress
  <2>2. Accepts(run[j].connector, run[j].form)
    BY DEF JobsInv, Coherent, Checked
  <2>3. QED
    BY <2>1, <2>2, FormWithinCommand
<1>2. QED
  BY <1>1, JobsAlways, PTL

-----------------------------------------------------------------------------
(* Results stay: what each step does to the job of one id.                 *)

Stays(j) ==
  /\ jobs[j] # Nil /\ jobs[j].status \in {"completed", "failed"} =>
       \/ jobs'[j] = jobs[j]
       \/ jobs'[j] = Nil /\ (clock - run[j].settled > Retention
                               \/ restarts' # restarts)
  /\ jobs[j] = Nil /\ run[j].phase \notin {"new", "posted"} => jobs'[j] = Nil

LEMMA PrunedStays ==
  ASSUME JobsInv, NEW j \in Jobs, jobs'[j] = Pruned[j]
  PROVE  Stays(j)
  BY DEF JobsInv, Coherent, JobAgrees, Pruned, Expired, Stays

LEMMA UpdateJobStays ==
  ASSUME JobsInv, NEW k \in Jobs, run[k].phase # "ended", NEW status, NEW toast,
         UpdateJob(k, status, toast), NEW j \in Jobs
  PROVE  Stays(j)
<1>1. jobs \in [Jobs -> {Nil} \union JobRecord]
  BY RunTyped DEF JobsInv
<1>2. CASE j = k
  <2>1. ~(jobs[j] # Nil /\ jobs[j].status \in {"completed", "failed"})
    BY <1>2 DEF JobsInv, Coherent, JobAgrees
  <2>2. QED
    BY <1>2, <2>1 DEF UpdateJob, Stays
<1>3. CASE j # k
  BY <1>1, <1>3 DEF UpdateJob, Stays
<1>4. QED
  BY <1>2, <1>3

LEMMA AnswerStays ==
  ASSUME JobsInv, NEW k \in Jobs, run[k].phase = "posted", NEW accepted,
         Answer(k, accepted), NEW j \in Jobs
  PROVE  Stays(j)
<1>1. CASE UNCHANGED jobs
  BY <1>1 DEF Stays
<1>2. CASE CreateJob(k)
  <2>1. CASE j = k
    BY <2>1 DEF JobsInv, Coherent, Unlisted, Stays
  <2>2. CASE j # k
    <3>1. jobs'[j] = Pruned[j]
      BY <1>2, <2>2 DEF CreateJob, Pruned
    <3>2. QED
      BY <3>1, PrunedStays
  <2>3. QED
    BY <2>1, <2>2
<1>3. QED
  BY <1>1, <1>2 DEF Answer

LEMMA FetchStays ==
  ASSUME JobsInv, NEW k \in Jobs, NEW raised, Fetch(k, raised), NEW j \in Jobs
  PROVE  Stays(j)
<1>1. CASE UNCHANGED jobs
  BY <1>1 DEF Stays
<1>2. CASE UpdateJob(k, "failed", "failed")
  BY <1>2, UpdateJobStays DEF Fetch
<1>3. QED
  BY <1>1, <1>2 DEF Fetch, Raise, Settle, Escape

LEMMA StepStays ==
  ASSUME JobsInv, Next, NEW j \in Jobs
  PROVE  Stays(j)
<1>1. CASE UNCHANGED jobs
  BY <1>1 DEF Stays
<1>2. CASE \E i \in Asked.users, c \in Asked.runnable, f \in Asked.forms :
             Command(i, c, f) \/ \E editor \in BOOLEAN : Post(i, c, f, editor)
  BY <1>1, <1>2 DEF Command, Post
<1>3. CASE \E k \in Jobs : Handler(k)
  BY <1>3, AnswerStays
  DEF Handler, Posted, CassandraForm, CephForm, ElasticsearchForm, KubernetesForm,
      PrometheusForm, VcenterForm
<1>4. CASE \E k \in Jobs : Thread(k)
  <2>1. PICK k \in Jobs : Thread(k)
    BY <1>4
  <2>2. CASE Begin(k)
    BY <2>2, UpdateJobStays DEF Begin
  <2>3. CASE Complete(k)
    BY <2>3, UpdateJobStays DEF Complete, Settle
  <2>4. CASE Import(k) \/ RecordRun(k)
    BY <1>1, <2>4 DEF Import, RecordRun, Escape
  <2>5. QED
    BY <2>1, <2>2, <2>3, <2>4, ThreadSteps, FetchStays
<1>5. CASE \E k \in Jobs : Process(k)
  <2>1. PICK k \in Jobs : Process(k)
    BY <1>5
  <2>2. CASE \/ CommandImport(k) \/ RecordRun(k)
             \/ \E tellsErrors \in BOOLEAN : Exit(k, tellsErrors)
    BY <1>1, <2>2 DEF CommandImport, Import, RecordRun, Escape, Exit
  <2>3. QED
    BY <2>1, <2>2, ProcessSteps, FetchStays
<1>6. CASE \E k \in Jobs : Poll(k)
  BY <1>6, PrunedStays DEF Poll
<1>7. CASE Restart
  <2>1. restarts' # restarts
    <3>1. restarts \in Int
      <4>1. restarts \in 0..Asked.restarts
        BY DEF JobsInv, JobsTypeOK
      <4>2. QED
        BY <4>1
    <3>2. restarts' = restarts + 1
      BY <1>7 DEF Restart
    <3>3. QED
      BY <3>1, <3>2
  <2>2. jobs'[j] = Nil
    BY <1>7 DEF Restart
  <2>3. QED
    BY <2>1, <2>2 DEF Stays
<1>8. CASE Tick
  BY <1>1, <1>8 DEF Tick
<1>9. QED
  BY <1>2, <1>3, <1>4, <1>5, <1>6, <1>7, <1>8 DEF Next

(* A result is neither overwritten nor dropped before its time, and a job  *)
(* that was pruned or lost does not come back, whichever users, threads    *)
(* and polls work on the table (_prune_old_connector_jobs,                 *)
(* _update_connector_job).                                                 *)
THEOREM ResultsAlwaysStay == Spec => ResultsStay
<1>1. JobsInv /\ [Next]_vars => [\A j \in Jobs : Stays(j)]_vars
  BY StepStays
<1>2. QED
  BY <1>1, JobsAlways, PTL DEF Spec, ResultsStay, Stays
===============================================================================
