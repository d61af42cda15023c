------------------------------ MODULE ReviewJob ------------------------------
(***************************************************************************)
(* One repository review, from the request to its outcome.                 *)
(*                                                                         *)
(* The API (ReviewJobService) creates the job and hands it to Celery, may  *)
(* delete it while the worker runs, and has an endpoint that sets any      *)
(* status.  The worker (ReviewPipelineService) takes the job through its   *)
(* stages; each stage commits a status with a history entry, announces it  *)
(* on Redis, works, and announces the end of the work.  Nothing locks the  *)
(* row: the worker only asks, before every commit, whether it still exists.*)
(*                                                                         *)
(* As in FixPublish, a session's UPDATE carries the status only if it      *)
(* differs from the one that session loaded last, mem.                     *)
(***************************************************************************)
EXTENDS Integers

CONSTANTS Patches,        \* requests to PATCH /review-jobs/{id}/status
          PatchStatuses,  \* statuses those requests ask for
          Batches,        \* judge batches of the AI review
          MaxCrashes,     \* bound on process crashes
          MaxDrops        \* bound on announcements lost to Redis errors

Terminal == {"COMPLETED", "FAILED"}

Stages == {"PENDING", "CLONING", "ANALYZING_STRUCTURE", "GENERATING_SUMMARY",
           "RUNNING_STATIC_ANALYSIS", "CHUNKING_CODE", "AI_REVIEWING",
           "GENERATING_REPORT"}

ReviewJobStatus == Stages \cup Terminal

ASSUME ConstantsAssumption ==
  /\ "worker" \notin Patches /\ "delete" \notin Patches
  /\ PatchStatuses \subseteq ReviewJobStatus
  /\ Batches \in Nat
  /\ MaxCrashes \in Nat
  /\ MaxDrops \in Nat

\* The order of the pipeline's transitions.
After(s) ==
  CASE s = "PENDING"                 -> "CLONING"
    [] s = "CLONING"                 -> "ANALYZING_STRUCTURE"
    [] s = "ANALYZING_STRUCTURE"     -> "GENERATING_SUMMARY"
    [] s = "GENERATING_SUMMARY"      -> "RUNNING_STATIC_ANALYSIS"
    [] s = "RUNNING_STATIC_ANALYSIS" -> "CHUNKING_CODE"
    [] s = "CHUNKING_CODE"           -> "AI_REVIEWING"
    [] s = "AI_REVIEWING"            -> "GENERATING_REPORT"
    [] s = "GENERATING_REPORT"       -> "COMPLETED"

\* The progress stored and announced when a stage starts ...
Enter(s) ==
  CASE s = "PENDING"                 -> 0
    [] s = "CLONING"                 -> 5
    [] s = "ANALYZING_STRUCTURE"     -> 12
    [] s = "GENERATING_SUMMARY"      -> 20
    [] s = "RUNNING_STATIC_ANALYSIS" -> 28
    [] s = "CHUNKING_CODE"           -> 40
    [] s = "AI_REVIEWING"            -> 50
    [] s = "GENERATING_REPORT"       -> 95
    [] s = "COMPLETED"               -> 100

\* ... and announced, but not stored, when its work is done.
Exit(s) ==
  CASE s = "CLONING"                 -> 10
    [] s = "ANALYZING_STRUCTURE"     -> 18
    [] s = "GENERATING_SUMMARY"      -> 25
    [] s = "RUNNING_STATIC_ANALYSIS" -> 38
    [] s = "CHUNKING_CODE"           -> 48

AiStart == 50
AiEnd == 92

\* A slip of AiProgress: a percentage where the width of the range belongs.
AiProgressInPercent(completed, total) ==
  IF total <= 0 THEN AiStart ELSE AiStart + (completed * 100) \div total

\* calculate_ai_review_progress.
AiProgress(completed, total) ==
  IF total <= 0 \/ completed <= 0
    THEN AiStart
    ELSE LET bounded == IF completed < total THEN completed ELSE total
             span == (bounded * (AiEnd - AiStart)) \div total
             shown == AiStart + (IF span < 1 THEN 1 ELSE span)
         IN  IF shown > AiEnd THEN AiEnd ELSE shown

Actors == {"worker", "delete"} \cup Patches

Kind(s) ==
  CASE s = "COMPLETED" -> "completed"
    [] s = "FAILED"    -> "failed"
    [] OTHER           -> "status_change"

EventFor(s, progress) == [kind |-> Kind(s), status |-> s, progress |-> progress]

Event == [kind     : {"status_change", "progress_update", "completed", "failed"},
          status   : ReviewJobStatus,
          progress : 0..100]

\* Steps of the worker inside the try block of run(), announcements apart.
TrySteps ==
  {"starting", "check", "commit", "committed", "stamp", "work", "cloned",
   "describe", "described", "indexed", "report", "judged", "reviewed", "verify"}

Announcing == {"set", "publish"}

WorkerRunning == {"queued", "raised", "failing"} \cup TrySteps \cup Announcing

RequestRunning == {"revoke", "remove", "removeActive", "update", "updated", "stamp"} \cup Announcing

Step == {"new", "created", "orphaned", "canceled", "done", "escaped", "killed"}
          \cup WorkerRunning \cup RequestRunning

Row == [exists : BOOLEAN, status : ReviewJobStatus, commit : BOOLEAN]

VARIABLES
  row,      \* the review_jobs row; commit: is commit_sha the cloned commit?
  history,  \* its newest job_status_history entry
  report,   \* its review_reports row: "none", "static" or "ai" (ai_model_used)
  stamped,  \* has this job set the repository's last_reviewed_at?
  stage,    \* the last status the worker committed
  batch,    \* judge batches completed
  pc,       \* where the worker, the delete and the status requests are
  mem,      \* the status each one's session loaded last
  event,    \* the event each one is announcing, or will
  resume,   \* where it goes on after that
  told,     \* the last outcome set as progress snapshot, or "none"
  revoked,  \* has the task been revoked?
  crashes, drops

db == <<row, history, report, stamped>>
bounds == <<crashes, drops>>
vars == <<db, stage, batch, pc, mem, event, resume, told, revoked, bounds>>

Init ==
  /\ row = [exists |-> FALSE, status |-> "PENDING", commit |-> FALSE]
  /\ history = [status |-> "PENDING", progress |-> 0]
  /\ report = "none"
  /\ stamped = FALSE
  /\ stage = "PENDING"
  /\ batch = 0
  /\ pc = [a \in Actors |-> "new"]
  /\ mem = [a \in Actors |-> "PENDING"]
  /\ event = [a \in Actors |-> EventFor("PENDING", 0)]
  /\ resume = [a \in Actors |-> "done"]
  /\ told = "none"
  /\ revoked = FALSE
  /\ crashes = 0
  /\ drops = 0

Goto(a, s) == pc' = [pc EXCEPT ![a] = s]

Load(a) == mem' = [mem EXCEPT ![a] = row.status]

Flush(a, value) == IF mem[a] = value THEN row.status ELSE value

\* The next call of actor a is publish_job_progress with event e; then step s.
Announce(a, e, s) ==
  /\ event' = [event EXCEPT ![a] = e]
  /\ resume' = [resume EXCEPT ![a] = s]
  /\ Goto(a, "set")

-----------------------------------------------------------------------------
(***************************************************************************)
(* Slips: an action or guard below with a mistake this code could          *)
(* plausibly have had.  No action uses them; each shows that a property    *)
(* depends on what the code really does.                                   *)
(***************************************************************************)

\* The status is committed without asking for the row.
CommitStatusBlindly ==
  /\ pc["worker"] = "commit"
  /\ stage' = After(stage)
  /\ row' = [row EXCEPT !.status = Flush("worker", stage')]
  /\ history' = [status |-> stage', progress |-> Enter(stage')]
  /\ Goto("worker", "committed")
  /\ UNCHANGED <<report, stamped, batch, mem, event, resume, told, revoked, bounds>>

\* The review is completed without its report stage.
CommitStatusEarly ==
  /\ pc["worker"] = "commit" /\ row.exists
  /\ stage' = IF stage = "AI_REVIEWING" THEN "COMPLETED" ELSE After(stage)
  /\ row' = [row EXCEPT !.status = Flush("worker", stage')]
  /\ history' = [status |-> stage', progress |-> Enter(stage')]
  /\ Goto("worker", "committed")
  /\ UNCHANGED <<report, stamped, batch, mem, event, resume, told, revoked, bounds>>

\* "completed" is announced before the repository's date is written.
RefreshStatusAndTell ==
  /\ pc["worker"] = "committed" /\ row.exists
  /\ Load("worker")
  /\ Announce("worker", EventFor(stage, Enter(stage)),
              IF stage = "COMPLETED" THEN "stamp"
              ELSE IF stage = "GENERATING_REPORT" THEN "check" ELSE "work")
  /\ UNCHANGED <<db, stage, batch, told, revoked, bounds>>

\* The session does not refresh the job after a commit.
RefreshStatusNever ==
  /\ pc["worker"] = "committed" /\ row.exists
  /\ IF stage = "COMPLETED"
       THEN Goto("worker", "stamp") /\ UNCHANGED <<event, resume>>
       ELSE Announce("worker", EventFor(stage, Enter(stage)),
                     IF stage = "GENERATING_REPORT" THEN "check" ELSE "work")
  /\ UNCHANGED <<db, stage, batch, mem, told, revoked, bounds>>

\* A failing AI review is logged and the pipeline goes on, as for the summary.
RaiseUnlessReviewing ==
  /\ \/ pc["worker"] \in {"queued"} \cup TrySteps
     \/ pc["worker"] = "set" /\ event["worker"].status # "FAILED"
  /\ Goto("worker", IF pc["worker"] = "judged" THEN "check" ELSE "raised")
  /\ UNCHANGED <<db, stage, batch, mem, event, resume, told, revoked, bounds>>

\* A failure is not persisted.
RecheckNothing ==
  /\ pc["worker"] = "raised"
  /\ Goto("worker", "done")
  /\ UNCHANGED <<db, stage, batch, mem, event, resume, told, revoked, bounds>>

\* The bulk UPDATE forgets the history entry ...
MarkFailedWithoutHistory ==
  /\ pc["worker"] = "failing"
  /\ IF row.exists
       THEN /\ row' = [row EXCEPT !.status = "FAILED"]
            /\ Announce("worker", EventFor("FAILED", 100), "done")
       ELSE Goto("worker", "done") /\ UNCHANGED <<row, event, resume>>
  /\ UNCHANGED <<history, report, stamped, stage, batch, mem, told, revoked, bounds>>

\* ... or resets the progress.
MarkFailedAtZero ==
  /\ pc["worker"] = "failing"
  /\ IF row.exists
       THEN /\ row' = [row EXCEPT !.status = "FAILED"]
            /\ history' = [status |-> "FAILED", progress |-> 0]
            /\ Announce("worker", EventFor("FAILED", 0), "done")
       ELSE Goto("worker", "done") /\ UNCHANGED <<row, history, event, resume>>
  /\ UNCHANGED <<report, stamped, stage, batch, mem, told, revoked, bounds>>

-----------------------------------------------------------------------------
(***************************************************************************)
(* publish_job_progress: SET the snapshot, then PUBLISH.  A Redis error in *)
(* either is logged and swallowed.                                         *)
(***************************************************************************)

SetSnapshot(a) ==
  /\ pc[a] = "set"
  /\ told' = IF event[a].status \in Terminal THEN event[a].status ELSE told
  /\ Goto(a, "publish")
  /\ UNCHANGED <<db, stage, batch, mem, event, resume, revoked, bounds>>

PublishEvent(a) ==
  /\ pc[a] = "publish"
  /\ Goto(a, resume[a])
  /\ UNCHANGED <<db, stage, batch, mem, event, resume, told, revoked, bounds>>

DropEvent(a) ==
  /\ pc[a] \in Announcing
  /\ drops < MaxDrops
  /\ drops' = drops + 1
  /\ Goto(a, resume[a])
  /\ UNCHANGED <<db, stage, batch, mem, event, resume, told, revoked, crashes>>

-----------------------------------------------------------------------------
(***************************************************************************)
(* The API.                                                                *)
(***************************************************************************)

CreateJob ==
  /\ pc["worker"] = "new"
  /\ row' = [row EXCEPT !.exists = TRUE]
  /\ Goto("worker", "created")
  /\ UNCHANGED <<history, report, stamped, stage, batch, mem, event, resume, told,
                 revoked, bounds>>

\* The broker takes the task, or the job stays PENDING without one.
Enqueue ==
  /\ pc["worker"] = "created"
  /\ Goto("worker", "queued") \/ Goto("worker", "orphaned")
  /\ UNCHANGED <<db, stage, batch, mem, event, resume, told, revoked, bounds>>

\* delete_job: read the job, and cancel its task if it is active ...
StartDelete ==
  /\ pc["delete"] = "new" /\ row.exists
  /\ Goto("delete", IF row.status \in Terminal THEN "remove" ELSE "revoke")
  /\ UNCHANGED <<db, stage, batch, mem, event, resume, told, revoked, bounds>>

\* ... which may fail, and only asks the workers to stop it.
Revoke ==
  /\ pc["delete"] = "revoke"
  /\ revoked' \in {TRUE, revoked}
  /\ Goto("delete", "removeActive")
  /\ UNCHANGED <<db, stage, batch, mem, event, resume, told, bounds>>

\* The history and the report go with the row; if the job was active when it
\* was read, the clients are told.
Remove ==
  /\ row' = [exists |-> FALSE, status |-> "PENDING", commit |-> FALSE]
  /\ history' = [status |-> "PENDING", progress |-> 0]
  /\ report' = "none"
  /\ \/ /\ pc["delete"] = "remove"
        /\ Goto("delete", "done")
        /\ UNCHANGED <<event, resume>>
     \/ /\ pc["delete"] = "removeActive"
        /\ Announce("delete", EventFor("FAILED", 100), "done")
  /\ UNCHANGED <<stamped, stage, batch, mem, told, revoked, bounds>>

\* update_job_status: read the job, ...
StartPatch(p) ==
  /\ pc[p] = "new" /\ row.exists
  /\ Load(p)
  /\ \E s \in PatchStatuses : event' = [event EXCEPT ![p] = EventFor(s, 0)]
  /\ Goto(p, "update")
  /\ UNCHANGED <<db, stage, batch, resume, told, revoked, bounds>>

\* ... write the requested status, whatever the job's own is by now, ...
UpdateStatus(p) ==
  /\ pc[p] = "update"
  /\ IF row.exists
       THEN /\ row' = [row EXCEPT !.status = Flush(p, event[p].status)]
            /\ history' = [status |-> event[p].status, progress |-> event[p].progress]
            /\ Goto(p, "updated")
       ELSE /\ Goto(p, "done")
            /\ UNCHANGED <<row, history>>
  /\ UNCHANGED <<report, stamped, stage, batch, mem, event, resume, told, revoked, bounds>>

\* ... refresh it, and go on to the repository's date or the announcement.
RefreshPatched(p) ==
  /\ pc[p] = "updated"
  /\ IF ~row.exists
       THEN Goto(p, "done") /\ UNCHANGED <<mem, event, resume>>
       ELSE /\ Load(p)
            /\ IF event[p].status = "COMPLETED"
                 THEN Goto(p, "stamp") /\ UNCHANGED <<event, resume>>
                 ELSE Announce(p, event[p], "done")
  /\ UNCHANGED <<db, stage, batch, told, revoked, bounds>>

-----------------------------------------------------------------------------
(***************************************************************************)
(* The worker.                                                             *)
(***************************************************************************)

\* run() reads the job; the task was acknowledged when it was handed over.
PickUp ==
  /\ pc["worker"] = "queued"
  /\ IF row.exists
       THEN Load("worker") /\ Goto("worker", "starting")
       ELSE Goto("worker", "done") /\ UNCHANGED mem
  /\ UNCHANGED <<db, stage, batch, event, resume, told, revoked, bounds>>

\* mark_started commits no field of the model; then it refreshes the job.
MarkStarted ==
  /\ pc["worker"] = "starting" /\ row.exists
  /\ Load("worker")
  /\ Goto("worker", "check")
  /\ UNCHANGED <<db, stage, batch, event, resume, told, revoked, bounds>>

\* _ensure_job_active; of two checks in a row the second decides.
EnsureActive(from, to) ==
  /\ pc["worker"] = from
  /\ Goto("worker", IF row.exists THEN to ELSE "canceled")
  /\ UNCHANGED <<db, stage, batch, mem, event, resume, told, revoked, bounds>>

CheckBeforeStage == EnsureActive("check", "commit")
CheckAfterClone  == EnsureActive("cloned", "describe")
CheckAfterIndex  == EnsureActive("indexed", "report")
CheckAfterReview == EnsureActive("reviewed", "verify")

\* _transition: status and history entry in one commit ...
CommitStatus ==
  /\ pc["worker"] = "commit" /\ row.exists
  /\ stage' = After(stage)
  /\ row' = [row EXCEPT !.status = Flush("worker", stage')]
  /\ history' = [status |-> stage', progress |-> Enter(stage')]
  /\ Goto("worker", "committed")
  /\ UNCHANGED <<report, stamped, batch, mem, event, resume, told, revoked, bounds>>

\* ... and the announcement, after the repository's date if it was the last.
RefreshStatus ==
  /\ pc["worker"] = "committed" /\ row.exists
  /\ Load("worker")
  /\ IF stage = "COMPLETED"
       THEN Goto("worker", "stamp") /\ UNCHANGED <<event, resume>>
       ELSE Announce("worker", EventFor(stage, Enter(stage)),
                     IF stage = "GENERATING_REPORT" THEN "check" ELSE "work")
  /\ UNCHANGED <<db, stage, batch, told, revoked, bounds>>

\* update_last_reviewed_at, in a commit of its own (worker and status request).
Stamp(a) ==
  /\ pc[a] = "stamp"
  /\ stamped' = TRUE
  /\ Announce(a, IF a = "worker" THEN EventFor("COMPLETED", 100) ELSE event[a], "done")
  /\ UNCHANGED <<row, history, report, stage, batch, mem, told, revoked, bounds>>

CloneRepository ==
  /\ pc["worker"] = "work" /\ stage = "CLONING"
  /\ Goto("worker", "cloned")
  /\ UNCHANGED <<db, stage, batch, mem, event, resume, told, revoked, bounds>>

UpdateCloneMetadata ==
  /\ pc["worker"] = "describe" /\ row.exists
  /\ row' = [row EXCEPT !.commit = TRUE]
  /\ Goto("worker", "described")
  /\ UNCHANGED <<history, report, stamped, stage, batch, mem, event, resume, told,
                 revoked, bounds>>

RefreshCloned ==
  /\ pc["worker"] = "described" /\ row.exists
  /\ Load("worker")
  /\ Announce("worker", EventFor(stage, Exit(stage)), "check")
  /\ UNCHANGED <<db, stage, batch, told, revoked, bounds>>

\* Structure, summary, static analysis, index: their results are in MongoDB.
Analyze ==
  /\ pc["worker"] = "work"
  /\ stage \in {"ANALYZING_STRUCTURE", "GENERATING_SUMMARY",
                "RUNNING_STATIC_ANALYSIS", "CHUNKING_CODE"}
  /\ Announce("worker", EventFor(stage, Exit(stage)),
              IF stage = "CHUNKING_CODE" THEN "indexed" ELSE "check")
  /\ UNCHANGED <<db, stage, batch, mem, told, revoked, bounds>>

PersistPreAgentReport ==
  /\ pc["worker"] = "report" /\ row.exists
  /\ report' = "static"
  /\ Goto("worker", "check")
  /\ UNCHANGED <<row, history, stamped, stage, batch, mem, event, resume, told,
                 revoked, bounds>>

JudgeBatch ==
  /\ pc["worker"] = "work" /\ stage = "AI_REVIEWING"
  /\ batch < Batches
  /\ batch' = batch + 1
  /\ Announce("worker", [kind     |-> "progress_update",
                         status   |-> "AI_REVIEWING",
                         progress |-> AiProgress(batch', Batches)], "work")
  /\ UNCHANGED <<db, stage, mem, told, revoked, bounds>>

JudgedAll ==
  /\ pc["worker"] = "work" /\ stage = "AI_REVIEWING"
  /\ batch = Batches
  /\ Goto("worker", "judged")
  /\ UNCHANGED <<db, stage, batch, mem, event, resume, told, revoked, bounds>>

PersistFinalReport ==
  /\ pc["worker"] = "judged" /\ row.exists
  /\ report' = "ai"
  /\ Goto("worker", "reviewed")
  /\ UNCHANGED <<row, history, stamped, stage, batch, mem, event, resume, told,
                 revoked, bounds>>

RequireAiGeneratedReport ==
  /\ pc["worker"] = "verify"
  /\ report = "ai"
  /\ Goto("worker", "check")
  /\ UNCHANGED <<db, stage, batch, mem, event, resume, told, revoked, bounds>>

-----------------------------------------------------------------------------
(***************************************************************************)
(* Failures.  Any call may raise, PostgreSQL always once the row is gone;  *)
(* so may the first Redis call of an announcement, when the client belongs *)
(* to another event loop.                                                  *)
(***************************************************************************)

\* In the try block of run(), or when the worker opens its embedding store.
Raise ==
  /\ \/ pc["worker"] \in {"queued"} \cup TrySteps
     \/ pc["worker"] = "set" /\ event["worker"].status # "FAILED"
  /\ Goto("worker", "raised")
  /\ UNCHANGED <<db, stage, batch, mem, event, resume, told, revoked, bounds>>

\* _handle_failure, _mark_worker_startup_failure: is the job still there?
RecheckJob ==
  /\ pc["worker"] = "raised"
  /\ Goto("worker", IF row.exists THEN "failing" ELSE "done")
  /\ UNCHANGED <<db, stage, batch, mem, event, resume, told, revoked, bounds>>

\* mark_failed_by_id: whatever the status is.
MarkFailed ==
  /\ pc["worker"] = "failing"
  /\ IF row.exists
       THEN /\ row' = [row EXCEPT !.status = "FAILED"]
            /\ history' = [status |-> "FAILED", progress |-> 100]
            /\ Announce("worker", EventFor("FAILED", 100), "done")
       ELSE Goto("worker", "done") /\ UNCHANGED <<row, history, event, resume>>
  /\ UNCHANGED <<report, stamped, stage, batch, mem, told, revoked, bounds>>

\* Nothing handles what is raised by the rest of the worker's set-up, by run()
\* when it reads the job, or by a handler itself, its announcement included:
\* the task ends, whatever the job's status is.
Escape ==
  /\ \/ pc["worker"] \in {"queued", "raised", "failing"}
     \/ pc["worker"] = "set" /\ event["worker"].status = "FAILED"
  /\ Goto("worker", "escaped")
  /\ UNCHANGED <<db, stage, batch, mem, event, resume, told, revoked, bounds>>

\* An API request fails half-way, with a 500.
Abandon(a) ==
  /\ pc[a] \in {"update", "updated", "stamp"}
  /\ Goto(a, "done")
  /\ UNCHANGED <<db, stage, batch, mem, event, resume, told, revoked, bounds>>

\* SIGTERM to the process that runs a revoked task; a queued one is dropped.
Kill ==
  /\ revoked
  /\ pc["worker"] \in WorkerRunning
  /\ Goto("worker", "killed")
  /\ UNCHANGED <<db, stage, batch, mem, event, resume, told, revoked, bounds>>

Crash(a) ==
  /\ pc[a] \in IF a = "worker" THEN WorkerRunning ELSE RequestRunning
  /\ crashes < MaxCrashes
  /\ crashes' = crashes + 1
  /\ Goto(a, "killed")
  /\ UNCHANGED <<db, stage, batch, mem, event, resume, told, revoked, drops>>

-----------------------------------------------------------------------------

Stage == CheckBeforeStage \/ CommitStatus \/ RefreshStatus \/ Stamp("worker")

Work ==
  \/ CloneRepository \/ CheckAfterClone \/ UpdateCloneMetadata \/ RefreshCloned
  \/ Analyze \/ CheckAfterIndex \/ PersistPreAgentReport
  \/ JudgeBatch \/ JudgedAll \/ PersistFinalReport
  \/ CheckAfterReview \/ RequireAiGeneratedReport

WorkerStep ==
  \/ PickUp \/ MarkStarted \/ Stage \/ Work
  \/ Raise \/ RecheckJob \/ MarkFailed \/ Escape

DeleteStep == Revoke \/ Remove

PatchStep(p) == UpdateStatus(p) \/ RefreshPatched(p) \/ Stamp(p) \/ Abandon(p)

User == CreateJob \/ StartDelete \/ \E p \in Patches : StartPatch(p)

\* Everything but PUBLISH, which reaches the clients (ReviewStream).
JobStep ==
  \/ User \/ Enqueue \/ WorkerStep \/ DeleteStep \/ Kill
  \/ \E p \in Patches : PatchStep(p)
  \/ \E a \in Actors : SetSnapshot(a) \/ DropEvent(a) \/ Crash(a)

Next == JobStep \/ \E a \in Actors : PublishEvent(a)

Spec == Init /\ [][Next]_vars

-----------------------------------------------------------------------------

TypeOK ==
  /\ row \in Row
  /\ history \in [status : ReviewJobStatus, progress : 0..100]
  /\ report \in {"none", "static", "ai"}
  /\ stamped \in BOOLEAN
  /\ stage \in Stages \cup {"COMPLETED"}
  /\ batch \in 0..Batches
  /\ pc \in [Actors -> Step]
  /\ mem \in [Actors -> ReviewJobStatus]
  /\ event \in [Actors -> Event]
  /\ resume \in [Actors -> {"work", "check", "indexed", "done"}]
  /\ told \in Terminal \cup {"none"}
  /\ revoked \in BOOLEAN
  /\ crashes \in 0..MaxCrashes
  /\ drops \in 0..MaxDrops

\* The status endpoint has not been used.
Unpatched == \A p \in Patches : pc[p] = "new"

(***************************************************************************)
(* A review the worker completed has the cloned commit and the report of   *)
(* the AI review, never the preliminary one, whatever failed on the way    *)
(* and whenever it was deleted (_require_ai_generated_report).             *)
(***************************************************************************)
CompletedIsReviewed ==
  row.exists /\ row.status = "COMPLETED" /\ Unpatched => row.commit /\ report = "ai"

(***************************************************************************)
(* The stored history a reconnecting client falls back to agrees with the  *)
(* job: its newest entry has the job's status, and its progress is the one *)
(* of that stage or, once failed, 100 (update_status, mark_failed_by_id).  *)
(***************************************************************************)
HistoryMatchesJob ==
  row.exists /\ Unpatched =>
    /\ history.status = row.status
    /\ history.progress = IF row.status = "FAILED" THEN 100 ELSE Enter(row.status)

(***************************************************************************)
(* Stored progress never goes back, failures included.                     *)
(***************************************************************************)
ProgressAdvances ==
  [][row.exists /\ row'.exists /\ Unpatched' => history'.progress >= history.progress]_vars

(***************************************************************************)
(* Once "completed" has been announced no later step, not even a failing   *)
(* one, takes the outcome back: everything that may raise comes before the *)
(* announcement (_transition, _handle_failure).                            *)
(***************************************************************************)
OutcomeStands ==
  [][told = "COMPLETED" /\ row.exists /\ row'.exists /\ Unpatched'
       => row'.status = "COMPLETED"]_vars

(***************************************************************************)
(* Deleting a review stops it at the stage it is in: the worker commits no *)
(* further stage and stores no report, with or without the revocation.     *)
(***************************************************************************)
Deleted == pc["worker"] # "new" /\ ~row.exists

StopsWhenDeleted == [][Deleted => Deleted' /\ stage' = stage /\ report' = "none"]_vars

(***************************************************************************)
(* The inductive strengthening of the invariants above.                    *)
(***************************************************************************)

Worked == {"CLONING", "ANALYZING_STRUCTURE", "GENERATING_SUMMARY",
           "RUNNING_STATIC_ANALYSIS", "CHUNKING_CODE", "AI_REVIEWING"}

\* The worker announces, and goes on with the pipeline after it.
MidStage == pc["worker"] \in Announcing /\ resume["worker"] # "done"

\* Where the worker is tells which stage it is in.
ShapeInv ==
  LET at == pc["worker"] IN
  /\ at \in {"new", "created", "orphaned", "queued", "starting"} => stage = "PENDING"
  /\ at \in {"check", "commit"} => stage # "COMPLETED"
  /\ at = "committed" => stage # "PENDING"
  /\ at = "stamp" => stage = "COMPLETED"
  /\ at = "work" => stage \in Worked
  /\ at \in {"cloned", "describe", "described"} => stage = "CLONING"
  /\ at \in {"indexed", "report"} => stage = "CHUNKING_CODE"
  /\ at \in {"judged", "reviewed", "verify"} => stage = "AI_REVIEWING"
  /\ MidStage =>
       /\ event["worker"].status = stage
       /\ resume["worker"] = "work" => stage \in Worked
       /\ resume["worker"] = "indexed" => stage = "CHUNKING_CODE"
       /\ resume["worker"] = "check" => stage \notin {"PENDING", "AI_REVIEWING", "COMPLETED"}
  /\ at \in Announcing /\ ~MidStage =>
       \/ event["worker"].status = "FAILED"
       \/ event["worker"].status = "COMPLETED" /\ stage = "COMPLETED"

\* A job exists between its creation and its removal.
ExistsInv ==
  /\ pc["worker"] = "new" =>
       /\ \A a \in Actors : pc[a] = "new"
       /\ row = [exists |-> FALSE, status |-> "PENDING", commit |-> FALSE]
       /\ history = [status |-> "PENDING", progress |-> 0]
       /\ told = "none"
  /\ pc["delete"] \in Announcing => ~row.exists
  /\ ~row.exists => report = "none"

\* The stored status is the worker's, the worker's session knows it, and a
\* failed worker does not go on.
StatusInv ==
  row.exists /\ Unpatched =>
    /\ row.status \in {stage, "FAILED"}
    /\ row.status = "FAILED" <=>
         \/ pc["worker"] \in {"done", "escaped", "killed"} /\ row.status # stage
         \/ pc["worker"] \in Announcing /\ event["worker"].status = "FAILED"
    /\ pc["worker"] \in TrySteps \ {"committed"} \/ MidStage => mem["worker"] = stage
    /\ pc["worker"] = "committed" => mem["worker"] # stage
    /\ HistoryMatchesJob
    /\ told = "COMPLETED" =>
         row.status = "COMPLETED" /\ pc["worker"] \in {"publish", "done", "killed"}

\* The worker is past storing the cloned commit ...
CommitStored ==
  \/ stage \notin {"PENDING", "CLONING"}
  \/ stage = "CLONING" /\ pc["worker"] \in {"check", "commit", "described"}
  \/ stage = "CLONING" /\ MidStage /\ resume["worker"] = "check"

\* ... and the report of the AI review.
ReviewStored ==
  \/ stage \in {"GENERATING_REPORT", "COMPLETED"}
  \/ stage = "AI_REVIEWING" /\ pc["worker"] \in {"check", "commit"}

\* A stage is not left before its result is stored.
ResultInv ==
  row.exists => /\ CommitStored => row.commit
                /\ ReviewStored => report = "ai"

IInv == TypeOK /\ ShapeInv /\ ExistsInv /\ StatusInv /\ ResultInv

=============================================================================
