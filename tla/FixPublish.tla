----------------------------- MODULE FixPublish -----------------------------
(***************************************************************************)
(* Publishing one generated fix as a GitHub pull request.                  *)
(*                                                                         *)
(* The API (FixPublishService) approves, retries and cancels publishing    *)
(* under a row lock and hands every accepted request to Celery as one      *)
(* task.  A worker (FixPublishPipelineService) runs the task: it reads the *)
(* row, checks the base branch, rebuilds the commit in a sandbox shared by *)
(* all attempts for the job, pushes, opens the pull request and writes the *)
(* outcome back.  Nothing locks the row while a worker runs, so a cancel   *)
(* followed by a retry puts two workers on the same job.                   *)
(*                                                                         *)
(* A worker writes through its SQLAlchemy session: an UPDATE carries only  *)
(* the attributes whose value differs from the one the session loaded, so  *)
(* every request keeps the snapshot `mem' it loaded last.                  *)
(***************************************************************************)
EXTENDS Naturals

CONSTANTS Requests,     \* approvals and retries the user may make, one task each
          None,         \* absent: no branch, no pull request, no sandbox
          Base,         \* the reviewed commit, base_commit_sha
          MaxCrashes    \* bound on process crashes

ASSUME ConstantsAssumption ==
  /\ None \notin Requests
  /\ Base \notin Requests
  /\ None # Base
  /\ MaxCrashes \in Nat

JobStatus == {"WAITING_APPROVAL", "APPROVED"}

PublishStatus ==
  {"NOT_REQUESTED", "PUBLISHING", "PUBLISHED", "FAILED", "STALE_BASE"}

AuditAction ==
  {"PUBLISH_APPROVED", "PUBLISH_RETRIED", "PUBLISH_CANCELED", "PUBLISH_FAILED",
   "BRANCH_PUSHED", "PR_CREATED", "STALE_BASE"}

(***************************************************************************)
(* Where a request is: in the API process, in the broker, in the worker,   *)
(* or over.                                                                *)
(***************************************************************************)
ApiSteps == {"committed", "unsent"}

TrySteps ==             \* inside the try block of run(): an exception is handled
  {"picked", "started", "checked", "stale", "staled", "cloned", "built",
   "mayPush", "pushed", "logged", "mayOpen", "opened", "recorded", "published"}

FailureSteps == {"raised", "failing", "failed"}

Running == ApiSteps \cup TrySteps \cup FailureSteps

Step == {"new", "queued", "canceled", "done", "crashed"} \cup Running

Row == [exists  : BOOLEAN,
        status  : JobStatus,
        publish : PublishStatus,
        prUrl   : Requests \cup {None}]   \* a pull request is named by its creator

Snapshot == [status : JobStatus, publish : PublishStatus]

VARIABLES
  row,        \* the fix_jobs row, as other sessions see it
  audit,      \* committed fix_audit_logs entries: <<action, request>>
  approval,   \* the request that last committed PUBLISHING
  pc,         \* where each request is
  mem,        \* the row as the request's session last loaded it
  sandbox,    \* HEAD of fix-publishes/<id>: None, Base or an attempt's commit
  branch,     \* the fix branch on GitHub: None, Base or an attempt's commit
  pr,         \* the open pull request for that branch: its creator, or None
  baseMoved,  \* has the target branch left base_commit_sha?
  crashes

remote == <<branch, pr>>
vars == <<row, audit, approval, pc, mem, sandbox, branch, pr, baseMoved, crashes>>

Init ==
  /\ row = [exists |-> TRUE, status |-> "WAITING_APPROVAL",
            publish |-> "NOT_REQUESTED", prUrl |-> None]
  /\ audit = {}
  /\ approval = None
  /\ pc = [r \in Requests |-> "new"]
  /\ mem = [r \in Requests |->
              [status |-> "WAITING_APPROVAL", publish |-> "NOT_REQUESTED"]]
  /\ sandbox = None
  /\ branch = None
  /\ pr = None
  /\ baseMoved \in BOOLEAN
  /\ crashes = 0

Goto(r, s) == pc' = [pc EXCEPT ![r] = s]

Load(r) == mem' = [mem EXCEPT ![r] = [status |-> row.status, publish |-> row.publish]]

Log(action, r) == audit' = audit \cup {<<action, r>>}

(***************************************************************************)
(* The value publish_status holds after request r's session flushes value: *)
(* the attribute is part of the UPDATE only when it differs from what the  *)
(* session loaded.                                                         *)
(***************************************************************************)
Flush(r, value) == IF mem[r].publish = value THEN row.publish ELSE value

-----------------------------------------------------------------------------
(***************************************************************************)
(* Slips: each operator is the action or guard it is named after with a    *)
(* mistake this code could plausibly have had.  No action uses them; each  *)
(* shows that a property below depends on what the code really does.       *)
(***************************************************************************)

\* STALE_BASE written into the job's status column.
MarkStaleBaseInStatus(r) ==
  /\ pc[r] = "stale" /\ row.exists
  /\ row' = [row EXCEPT !.status = "STALE_BASE"]
  /\ Goto(r, "staled")
  /\ UNCHANGED <<audit, approval, mem, sandbox, remote, baseMoved, crashes>>

\* "A pull request already exists" taken for success.
CreatePullRequestOrReuse(r) ==
  /\ pc[r] = "mayOpen"
  /\ branch \in Requests
  /\ pr' = IF pr = None THEN r ELSE pr
  /\ Goto(r, "opened")
  /\ UNCHANGED <<row, audit, approval, mem, sandbox, branch, baseMoved, crashes>>

\* A failing audit append is swallowed.
LogPushBestEffort(r) ==
  /\ pc[r] = "pushed"
  /\ Log("BRANCH_PUSHED", r) \/ UNCHANGED audit
  /\ Goto(r, "logged")
  /\ UNCHANGED <<row, approval, mem, sandbox, remote, baseMoved, crashes>>

\* A refused enqueue is only reported to the user.
PersistUnsentNothing(r) ==
  /\ pc[r] = "unsent"
  /\ Goto(r, "done")
  /\ UNCHANGED <<row, audit, approval, mem, sandbox, remote, baseMoved, crashes>>

\* The worker does not look at publish_status when it starts.
PickAnyStatus(r) ==
  /\ pc[r] = "queued"
  /\ IF row.exists /\ row.prUrl = None
       THEN Load(r) /\ Goto(r, "picked")
       ELSE Goto(r, "done") /\ UNCHANGED mem
  /\ UNCHANGED <<row, audit, approval, sandbox, remote, baseMoved, crashes>>

\* A failed attempt resets the status as well.
MarkPublishFailedAndReopen(r) ==
  /\ pc[r] = "failing"
  /\ IF row.exists
       THEN /\ row' = [row EXCEPT !.publish = Flush(r, "FAILED"),
                                  !.status = "WAITING_APPROVAL"]
            /\ Goto(r, "failed")
       ELSE Goto(r, "done") /\ UNCHANGED row
  /\ UNCHANGED <<audit, approval, mem, sandbox, remote, baseMoved, crashes>>

\* The cancellation check reads the object the session already holds.
EnsureNotCanceledInMemory(r, from, to) ==
  /\ pc[r] = from
  /\ Goto(r, IF row.exists /\ mem[r].publish = "PUBLISHING" THEN to ELSE "canceled")
  /\ UNCHANGED <<row, audit, approval, mem, sandbox, remote, baseMoved, crashes>>

\* A stale base does not stop a new approval.
EnsureWaiting == row.status = "WAITING_APPROVAL"

\* A moved base ends the attempt without an outcome.
CheckBaseSilently(r) ==
  /\ pc[r] = "started"
  /\ mem[r].status = "WAITING_APPROVAL"
  /\ Goto(r, IF baseMoved THEN "done" ELSE "checked")
  /\ UNCHANGED <<row, audit, approval, mem, sandbox, remote, baseMoved, crashes>>

-----------------------------------------------------------------------------
(***************************************************************************)
(* The API.  Reading the row FOR UPDATE, validating and committing is one  *)
(* atomic step; a refused request changes nothing and is no action.        *)
(***************************************************************************)

IsPublishIdempotent == row.prUrl # None \/ row.publish \in {"PUBLISHED", "PUBLISHING"}

EnsurePublishable == row.status = "WAITING_APPROVAL" /\ row.publish # "STALE_BASE"

PersistPublishRequest(r, action) ==
  /\ row' = [row EXCEPT !.publish = "PUBLISHING"]
  /\ approval' = r
  /\ Log(action, r)
  /\ Goto(r, "committed")
  /\ UNCHANGED <<mem, sandbox, remote, baseMoved, crashes>>

PublishFix(r) ==
  /\ pc[r] = "new" /\ row.exists
  /\ ~IsPublishIdempotent
  /\ EnsurePublishable
  /\ PersistPublishRequest(r, "PUBLISH_APPROVED")

RetryPublish(r) ==
  /\ pc[r] = "new" /\ row.exists
  /\ ~IsPublishIdempotent
  /\ row.publish = "FAILED"
  /\ EnsurePublishable
  /\ PersistPublishRequest(r, "PUBLISH_RETRIED")

\* commit_staged refreshes the job, then the broker takes the task or refuses it.
Enqueue(r) ==
  /\ pc[r] = "committed"
  /\ IF row.exists
       THEN Load(r) /\ (Goto(r, "queued") \/ Goto(r, "unsent"))
       ELSE Goto(r, "done") /\ UNCHANGED mem
  /\ UNCHANGED <<row, audit, approval, sandbox, remote, baseMoved, crashes>>

\* The failure of an enqueue is written back without taking the row lock again.
PersistUnsent(r) ==
  /\ pc[r] = "unsent"
  /\ Goto(r, "done")
  /\ IF row.exists
       THEN row' = [row EXCEPT !.publish = Flush(r, "FAILED")] /\ Log("PUBLISH_FAILED", r)
       ELSE UNCHANGED <<row, audit>>
  /\ UNCHANGED <<approval, mem, sandbox, remote, baseMoved, crashes>>

CancelPublish ==
  /\ row.exists
  /\ row.publish = "PUBLISHING"
  /\ row' = [row EXCEPT !.publish = "FAILED"]
  /\ Log("PUBLISH_CANCELED", approval)
  /\ UNCHANGED <<approval, pc, mem, sandbox, remote, baseMoved, crashes>>

\* Deleting the review cascades to its fix jobs and their audit entries.
DeleteReview ==
  /\ row.exists
  /\ row' = [row EXCEPT !.exists = FALSE]
  /\ UNCHANGED <<audit, approval, pc, mem, sandbox, remote, baseMoved, crashes>>

-----------------------------------------------------------------------------
(***************************************************************************)
(* The worker, one action per awaited call.                                *)
(***************************************************************************)

\* The broker hands over the task (acknowledged at once); run() reads the row.
Pick(r) ==
  /\ pc[r] = "queued"
  /\ IF row.exists /\ row.prUrl = None /\ row.publish = "PUBLISHING"
       THEN Load(r) /\ Goto(r, "picked")
       ELSE Goto(r, "done") /\ UNCHANGED mem
  /\ UNCHANGED <<row, audit, approval, sandbox, remote, baseMoved, crashes>>

\* mark_publish_started: commit the start metadata, then refresh.
MarkPublishStarted(r) ==
  /\ pc[r] = "picked" /\ row.exists
  /\ LET publish == Flush(r, "PUBLISHING") IN
       /\ row' = [row EXCEPT !.publish = publish]
       /\ mem' = [mem EXCEPT ![r] = [status |-> row.status, publish |-> publish]]
  /\ Goto(r, "started")
  /\ UNCHANGED <<audit, approval, sandbox, remote, baseMoved, crashes>>

\* _ensure_worker_preconditions on the loaded job, then the base branch's HEAD.
CheckBase(r) ==
  /\ pc[r] = "started"
  /\ mem[r].status = "WAITING_APPROVAL"
  /\ Goto(r, IF baseMoved THEN "stale" ELSE "checked")
  /\ UNCHANGED <<row, audit, approval, mem, sandbox, remote, baseMoved, crashes>>

MarkStaleBase(r) ==
  /\ pc[r] = "stale" /\ row.exists
  /\ row' = [row EXCEPT !.publish = Flush(r, "STALE_BASE")]
  /\ Goto(r, "staled")
  /\ UNCHANGED <<audit, approval, mem, sandbox, remote, baseMoved, crashes>>

LogStaleBase(r) ==
  /\ pc[r] = "staled" /\ row.exists
  /\ Log("STALE_BASE", r)
  /\ Goto(r, "done")
  /\ UNCHANGED <<row, approval, mem, sandbox, remote, baseMoved, crashes>>

\* Wipe the sandbox, clone the target branch and check out the reviewed commit.
PrepareWorkspace(r) ==
  /\ pc[r] = "checked"
  /\ sandbox' = Base
  /\ Goto(r, "cloned")
  /\ UNCHANGED <<row, audit, approval, mem, remote, baseMoved, crashes>>

\* git apply and git commit; the diff does not apply a second time.
CreateCommit(r) ==
  /\ pc[r] = "cloned"
  /\ sandbox = Base
  /\ sandbox' = r
  /\ Goto(r, "built")
  /\ UNCHANGED <<row, audit, approval, mem, remote, baseMoved, crashes>>

EnsureNotCanceled(r, from, to) ==
  /\ pc[r] = from
  /\ Goto(r, IF row.exists /\ row.publish = "PUBLISHING" THEN to ELSE "canceled")
  /\ UNCHANGED <<row, audit, approval, mem, sandbox, remote, baseMoved, crashes>>

CheckBeforePush(r) == EnsureNotCanceled(r, "built", "mayPush")

\* git push HEAD:<fix branch>, without force: new, unchanged or a fast-forward.
PushBranch(r) ==
  /\ pc[r] = "mayPush"
  /\ branch \in {None, Base, sandbox}
  /\ branch' = sandbox
  /\ Goto(r, "pushed")
  /\ UNCHANGED <<row, audit, approval, mem, sandbox, pr, baseMoved, crashes>>

LogPush(r) ==
  /\ pc[r] = "pushed" /\ row.exists
  /\ Log("BRANCH_PUSHED", r)
  /\ Goto(r, "logged")
  /\ UNCHANGED <<row, approval, mem, sandbox, remote, baseMoved, crashes>>

CheckBeforePr(r) == EnsureNotCanceled(r, "logged", "mayOpen")

\* GitHub refuses a second open pull request for a branch, and an empty one.
CreatePullRequest(r) ==
  /\ pc[r] = "mayOpen"
  /\ branch \in Requests
  /\ pr = None
  /\ pr' = r
  /\ Goto(r, "opened")
  /\ UNCHANGED <<row, audit, approval, mem, sandbox, branch, baseMoved, crashes>>

LogPr(r) ==
  /\ pc[r] = "opened" /\ row.exists
  /\ Log("PR_CREATED", r)
  /\ Goto(r, "recorded")
  /\ UNCHANGED <<row, approval, mem, sandbox, remote, baseMoved, crashes>>

MarkPublishSucceeded(r) ==
  /\ pc[r] = "recorded" /\ row.exists
  /\ row' = [row EXCEPT !.status = "APPROVED",
                        !.publish = Flush(r, "PUBLISHED"),
                        !.prUrl = r]
  /\ Goto(r, "published")
  /\ UNCHANGED <<audit, approval, mem, sandbox, remote, baseMoved, crashes>>

\* The refresh after the commit and the progress event, still inside the try.
Finish(r) ==
  /\ pc[r] = "published"
  /\ Goto(r, "done")
  /\ UNCHANGED <<row, audit, approval, mem, sandbox, remote, baseMoved, crashes>>

-----------------------------------------------------------------------------
(***************************************************************************)
(* Failures.  Any call in the try block may raise: git, GitHub, PostgreSQL *)
(* (always, once the row is gone), a precondition, missing configuration.  *)
(* A call that took effect and then raised, such as a timed-out push or a  *)
(* lost reply, is that call's action followed by Raise.                    *)
(***************************************************************************)

Raise(r) ==
  /\ pc[r] \in TrySteps
  /\ Goto(r, "raised")
  /\ UNCHANGED <<row, audit, approval, mem, sandbox, remote, baseMoved, crashes>>

\* _handle_failure: the rollback expires the session, get_by_id loads afresh.
Reload(r) ==
  /\ pc[r] = "raised"
  /\ IF row.exists
       THEN Load(r) /\ Goto(r, "failing")
       ELSE Goto(r, "done") /\ UNCHANGED mem
  /\ UNCHANGED <<row, audit, approval, sandbox, remote, baseMoved, crashes>>

MarkPublishFailed(r) ==
  /\ pc[r] = "failing"
  /\ IF row.exists
       THEN row' = [row EXCEPT !.publish = Flush(r, "FAILED")] /\ Goto(r, "failed")
       ELSE Goto(r, "done") /\ UNCHANGED row
  /\ UNCHANGED <<audit, approval, mem, sandbox, remote, baseMoved, crashes>>

LogFailure(r) ==
  /\ pc[r] = "failed"
  /\ IF row.exists THEN Log("PUBLISH_FAILED", r) ELSE UNCHANGED audit
  /\ Goto(r, "done")
  /\ UNCHANGED <<row, approval, mem, sandbox, remote, baseMoved, crashes>>

\* The API or worker process dies; no task is delivered twice (early ack).
Crash(r) ==
  /\ pc[r] \in Running
  /\ crashes < MaxCrashes
  /\ crashes' = crashes + 1
  /\ Goto(r, "crashed")
  /\ UNCHANGED <<row, audit, approval, mem, sandbox, remote, baseMoved>>

\* Somebody pushes to the target branch.
MoveBase ==
  /\ ~baseMoved
  /\ baseMoved' = TRUE
  /\ UNCHANGED <<row, audit, approval, pc, mem, sandbox, remote, crashes>>

-----------------------------------------------------------------------------

ApiStep(r) == Enqueue(r) \/ PersistUnsent(r)

WorkerStep(r) ==
  \/ Pick(r) \/ MarkPublishStarted(r) \/ CheckBase(r)
  \/ MarkStaleBase(r) \/ LogStaleBase(r)
  \/ PrepareWorkspace(r) \/ CreateCommit(r)
  \/ CheckBeforePush(r) \/ PushBranch(r) \/ LogPush(r)
  \/ CheckBeforePr(r) \/ CreatePullRequest(r) \/ LogPr(r)
  \/ MarkPublishSucceeded(r) \/ Finish(r)
  \/ Raise(r) \/ Reload(r) \/ MarkPublishFailed(r) \/ LogFailure(r)

User == (\E r \in Requests : PublishFix(r) \/ RetryPublish(r)) \/ CancelPublish \/ DeleteReview

Next ==
  \/ User
  \/ \E r \in Requests : ApiStep(r) \/ WorkerStep(r) \/ Crash(r)
  \/ MoveBase

Spec == Init /\ [][Next]_vars

(***************************************************************************)
(* A process that does not crash keeps executing, and Celery keeps handing *)
(* out queued tasks.  The user is under no obligation to do anything.      *)
(***************************************************************************)
FairSpec == Spec /\ \A r \in Requests : WF_vars(ApiStep(r) \/ WorkerStep(r))

-----------------------------------------------------------------------------

TypeOK ==
  /\ row \in Row
  /\ audit \subseteq AuditAction \X (Requests \cup {None})
  /\ approval \in Requests \cup {None}
  /\ pc \in [Requests -> Step]
  /\ mem \in [Requests -> Snapshot]
  /\ sandbox \in Requests \cup {None, Base}
  /\ branch \in Requests \cup {None, Base}
  /\ pr \in Requests \cup {None}
  /\ baseMoved \in BOOLEAN
  /\ crashes \in 0..MaxCrashes

Approved(r) == <<"PUBLISH_APPROVED", r>> \in audit \/ <<"PUBLISH_RETRIED", r>> \in audit

Live == {"queued"} \cup (Running \ {"failed", "staled", "published"})

(***************************************************************************)
(* A job says APPROVED, or shows a pull request, only when that pull       *)
(* request exists on GitHub and its creation is in the audit trail, and    *)
(* PUBLISHED only together with both - whatever other attempts wrote into  *)
(* the row in between (mark_publish_succeeded, mark_publish_failed).       *)
(***************************************************************************)
RecordedPrIsReal ==
  /\ row.status = "APPROVED" <=> row.prUrl # None
  /\ row.publish = "PUBLISHED" => row.prUrl # None
  /\ row.prUrl # None => pr = row.prUrl /\ <<"PR_CREATED", row.prUrl>> \in audit

(***************************************************************************)
(* The audit trail is written ahead of what it accounts for: a commit on   *)
(* the fix branch belongs to a request the user approved, and the pull     *)
(* request's creator had its approval and its BRANCH_PUSHED entry          *)
(* committed before (stage_publish_requested and stage_append in one       *)
(* transaction, then enqueue; append after push_git_branch).               *)
(***************************************************************************)
TrailPrecedesEffects ==
  /\ branch \in Requests => Approved(branch)
  /\ pr # None => Approved(pr) /\ <<"BRANCH_PUSHED", pr>> \in audit

(***************************************************************************)
(* While no process has crashed, a job that says PUBLISHING always has a   *)
(* request, task or attempt left that will write an outcome: no            *)
(* interleaving of cancels, retries and overlapping attempts strands it.   *)
(***************************************************************************)
PublishingHasOwner ==
  crashes = 0 /\ row.exists /\ row.publish = "PUBLISHING"
    => \E r \in Requests : pc[r] \in Live

(***************************************************************************)
(* Once the job records a pull request, no step forgets or replaces it or  *)
(* takes the approval back, not even an overlapping attempt that fails.    *)
(***************************************************************************)
PublicationIsPermanent ==
  [][row.prUrl # None => row'.prUrl = row.prUrl /\ row'.status = "APPROVED"]_vars

(***************************************************************************)
(* A cancel holds: when the job is not PUBLISHING, the user makes no new   *)
(* request and no attempt is past its last cancellation check, then no     *)
(* pull request is opened, now or in any later step.                       *)
(***************************************************************************)
Halted ==
  /\ row.publish # "PUBLISHING"
  /\ \A r \in Requests : pc[r] \notin {"new", "mayOpen"}

CancelHolds == [][Halted => Halted' /\ pr' = pr]_vars

(***************************************************************************)
(* A publish settles: a job that says PUBLISHING does not say so for ever, *)
(* as long as no process crashes.                                          *)
(***************************************************************************)
PublishSettles ==
  row.publish = "PUBLISHING" ~> (row.publish # "PUBLISHING" \/ ~row.exists \/ crashes > 0)

(***************************************************************************)
(* The inductive strengthening of the invariants above.                    *)
(***************************************************************************)

\* An attempt past a step has committed what that step commits.
TrailInv ==
  /\ \A r \in Requests :
       /\ pc[r] # "new" => Approved(r)
       /\ pc[r] \in {"logged", "mayOpen", "opened", "recorded"}
            => <<"BRANCH_PUSHED", r>> \in audit
       /\ pc[r] \in {"opened", "recorded"} => pr = r
       /\ pc[r] = "recorded" => <<"PR_CREATED", r>> \in audit
  /\ sandbox \in Requests => Approved(sandbox)
  /\ TrailPrecedesEffects

\* Snapshots are old rows; an attempt past CheckBase loaded an unpublished one.
SnapshotInv ==
  /\ RecordedPrIsReal
  /\ row.prUrl # None => row.publish # "PUBLISHING"
  /\ \A r \in Requests :
       /\ pc[r] # "new" => row.publish # "NOT_REQUESTED"
       /\ mem[r].publish = "PUBLISHED" => mem[r].status = "APPROVED"
       /\ pc[r] = "picked" => mem[r].publish = "PUBLISHING"
       /\ pc[r] \in TrySteps \ {"picked", "started"} => mem[r].status = "WAITING_APPROVAL"

\* The owner of PUBLISHING is the request that committed it last.
OwnerInv ==
  crashes = 0 /\ row.exists /\ row.publish = "PUBLISHING" =>
    /\ approval \in Requests
    /\ pc[approval] \in Live
    /\ pc[approval] # "committed" => mem[approval].publish = "PUBLISHING"

IInv == TypeOK /\ TrailInv /\ SnapshotInv /\ OwnerInv

(***************************************************************************)
(* The row as a polling client sees it keeps PublishContract: no overlap   *)
(* of attempts, cancels and late writes starts a publish the user did not  *)
(* ask for, or shows PUBLISHED without a pull request.                     *)
(***************************************************************************)
Contract == INSTANCE PublishContract
  WITH publish <- row.publish, recorded <- row.prUrl # None,
       Outcomes <- {"PUBLISHED", "FAILED", "STALE_BASE"}

KeepsContract == Contract!Spec

-----------------------------------------------------------------------------
(***************************************************************************)
(* What the source says and the code does not do.                          *)
(***************************************************************************)

(***************************************************************************)
(* FixPublishCanceledError is "Raised when a user cancels an in-flight     *)
(* publish before side effects" (publish_pipeline.py): an attempt that     *)
(* ends with it has pushed nothing.                                        *)
(***************************************************************************)
CanceledBeforeSideEffects ==
  \A r \in Requests : pc[r] = "canceled" => <<"BRANCH_PUSHED", r>> \notin audit

(***************************************************************************)
(* mark_publish_failed persists "a recoverable publish failure"            *)
(* (fix_job_repository.py): a job marked FAILED is one retry_publish does  *)
(* not turn away as already published.                                     *)
(***************************************************************************)
FailureIsRecoverable ==
  row.exists /\ row.publish = "FAILED" => ~IsPublishIdempotent /\ EnsurePublishable

=============================================================================
