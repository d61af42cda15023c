----------------------------- MODULE FixPipeline -----------------------------
(***************************************************************************)
(* Generating a fix for selected findings of a finished review.            *)
(*                                                                         *)
(* The API (FixJobService) commits a job and enqueues it; the worker       *)
(* (FixPipelineService) clones the reviewed commit, plans, edits, verifies *)
(* and repairs in a sandbox of its own, and offers the patch for approval. *)
(* Plans, edits and verdicts come from a model whose answers are checked   *)
(* against contracts; an answer that breaks one is asked for again, first  *)
(* for the group, then for each issue by itself.  Meanwhile the review may *)
(* be deleted, and once the patch is offered it may be published.          *)
(***************************************************************************)
EXTENDS FixContracts, FixVerifiers

CONSTANTS File,         \* File[i]: the file finding i is reported in
          Offers,       \* the plans the planner may return
          Checked,      \* issues with an analyzer rule or a dedicated verifier
          Sights,       \* what that rule or verifier may observe (FixVerifiers)
          Ruff,         \* findings of Ruff
          Autofix,      \* findings of Ruff that come with an automatic fix
          CallBudget,   \* llm_job_call_budget
          MaxRepairs,   \* MAX_LOGIC_REPAIR_ATTEMPTS
          MaxCrashes,
          None

ASSUME ConstantsAssumption ==
  /\ IsFiniteSet(Issues) /\ Issues # {}
  /\ Base \in Contents
  /\ Known \in [Issues -> SUBSET Paths] /\ File \in [Issues -> Paths]
  /\ Support \subseteq Paths /\ ReadOnly \subseteq Paths /\ Tests \subseteq Paths
  /\ Offers \subseteq Plan
  /\ Checked \subseteq Issues /\ Sights \subseteq Observation /\ Autofix \subseteq Ruff /\ Ruff \subseteq Issues
  /\ CallBudget \in Nat /\ MaxRepairs \in Nat /\ MaxCrashes \in Nat
  /\ None \notin Trees /\ None \notin [Issues -> Verdict]
  /\ None \notin Trees \X [Issues -> Verdict]

Status == {"PENDING", "PREPARING", "GENERATING_PATCH", "VALIDATING",
           "WAITING_APPROVAL", "APPROVED", "FAILED"}

ApiSteps == {"created", "audited"}

TrySteps ==             \* inside the try block of run()
  {"picked", "started", "prepared", "generating", "planning", "planned", "checking",
   "fixing", "editing", "patched", "verifying", "judging", "judged",
   "repairing", "repaired", "reviewed", "saving", "resulted", "validated", "offered"}

FailureSteps == {"raised", "failing"}

Running == ApiSteps \cup TrySteps \cup FailureSteps

Step == {"new", "queued", "over"} \cup Running

Row == [exists  : BOOLEAN,
        status  : Status,
        diff    : Trees \cup {None},
        changed : SUBSET Paths,
        results : [Issues -> Verdict] \cup {None}]

VARIABLES
  row,        \* the fix_jobs row
  pc,         \* where the job is
  plans,      \* the plans in use
  tree,       \* the working tree of fixes/<id>
  changed,    \* current_changed_files of the worker
  check,      \* deterministic_results of the last round
  judged,     \* logic_results of the last round
  reviewed,   \* the tree that round looked at
  todo,       \* groups of issues the current stage has still to ask about
  try,        \* contract retries made for the group being asked about
  grouped,    \* is the whole group asked about at once?
  round,      \* repair attempts made
  crashes

work == <<plans, tree, changed, check, judged, reviewed>>
asking == <<todo, try, grouped>>
vars == <<row, pc, work, asking, round, crashes>>

NoPlan == [status |-> "uncertain", editable |-> {}, context |-> {}, complete |-> FALSE]

Init ==
  /\ row = [exists |-> FALSE, status |-> "PENDING", diff |-> None,
            changed |-> {}, results |-> None]
  /\ pc = "new"
  /\ plans = [i \in Issues |-> NoPlan]
  /\ tree = BaseTree /\ changed = {} /\ reviewed = BaseTree
  /\ check = [i \in Issues |-> "uncertain"] /\ judged = check
  /\ todo = {} /\ try = 0 /\ grouped = FALSE
  /\ round = 0 /\ crashes = 0

Goto(from, to) == pc = from /\ pc' = to

SetStatus(s) == row.exists /\ row' = [row EXCEPT !.status = s]

\* Ask about all of S at once, or about each of the groups in G.
AskAll(S) == todo' = {S} /\ try' = 0 /\ grouped' = TRUE
AskEach(G) == todo' = G /\ try' = 0 /\ grouped' = FALSE
Answered(g) == todo' = todo \ {g} /\ try' = 0 /\ UNCHANGED grouped
AskAgain == try = 0 /\ try' = 1 /\ UNCHANGED <<todo, grouped>>

\* After two bad answers for the whole group, each issue is asked about alone.
AskSingly(g) == try = 1 /\ grouped /\ AskEach({{i} : i \in g})

IssueVerdict(i) ==
  IF plans[i].status # "planned" THEN "uncertain"
  ELSE IF i \in Checked THEN CombineLogicResults(judged[i], check[i])
  ELSE judged[i]

Failed == {i \in Issues : IssueVerdict(i) # "fixed"}

-----------------------------------------------------------------------------
(***************************************************************************)
(* Slips: actions with a mistake this code could have had.                 *)
(***************************************************************************)

\* One verification too few: the last repair is not looked at again.
AfterRepairTrusting ==
  /\ pc = "repaired"
  /\ LET edited == \E p \in EditablePaths(plans, PlansToRepair(plans, Failed)) :
                     tree[p] # reviewed[p]
     IN /\ changed' = IF edited THEN ChangedFiles(tree) ELSE changed
        /\ round' = IF edited THEN round + 1 ELSE round
        /\ pc' = IF edited /\ round + 1 < MaxRepairs THEN "verifying" ELSE "reviewed"
  /\ UNCHANGED <<row, plans, tree, check, judged, reviewed, asking, crashes>>

\* Repairs are made as long as something is not fixed.
DecideWithoutBound ==
  /\ pc = "judged"
  /\ IF Failed = {}
       THEN pc' = "reviewed" /\ UNCHANGED asking
       ELSE LET repair == PlansToRepair(plans, Failed) IN
            /\ AskEach(Components(plans, repair))
            /\ pc' = IF repair = {} THEN "reviewed" ELSE "repairing"
  /\ UNCHANGED <<row, work, round, crashes>>

\* A repair takes the job back to the stage that edits.
DecideAndRegenerate ==
  /\ pc = "judged"
  /\ IF Failed = {} \/ round >= MaxRepairs
       THEN pc' = "reviewed" /\ UNCHANGED <<row, asking>>
       ELSE LET repair == PlansToRepair(plans, Failed) IN
            /\ AskEach(Components(plans, repair))
            /\ pc' = IF repair = {} THEN "reviewed" ELSE "repairing"
            /\ SetStatus("GENERATING_PATCH")
  /\ UNCHANGED <<work, round, crashes>>

\* The failure handler gives up when the job is not in the first stages.
MarkFailedEarlyOnly ==
  /\ Goto("failing", "over")
  /\ row' = IF row.exists /\ row.status # "VALIDATING"
              THEN [row EXCEPT !.status = "FAILED"] ELSE row
  /\ UNCHANGED <<work, asking, round, crashes>>

-----------------------------------------------------------------------------
(***************************************************************************)
(* The API: a job for a completed review, committed before it is audited   *)
(* and enqueued.  If the broker refuses the task the job stays PENDING.    *)
(***************************************************************************)

CreateFix ==
  /\ Goto("new", "created")
  /\ row' = [row EXCEPT !.exists = TRUE]
  /\ UNCHANGED <<work, asking, round, crashes>>

AppendAuditLog ==
  /\ Goto("created", IF row.exists THEN "audited" ELSE "over")
  /\ UNCHANGED <<row, work, asking, round, crashes>>

Enqueue ==
  /\ Goto("audited", "queued") \/ Goto("audited", "over")
  /\ UNCHANGED <<row, work, asking, round, crashes>>

DeleteReview ==
  /\ row.exists
  /\ row' = [row EXCEPT !.exists = FALSE]
  /\ UNCHANGED <<pc, work, asking, round, crashes>>

\* mark_publish_succeeded, the end of a publish the user approved (FixPublish).
Publish ==
  /\ row.status = "WAITING_APPROVAL"
  /\ SetStatus("APPROVED")
  /\ UNCHANGED <<pc, work, asking, round, crashes>>

-----------------------------------------------------------------------------
(***************************************************************************)
(* The worker.  A commit finds the row or raises; an announcement belongs  *)
(* to the step after it.                                                   *)
(***************************************************************************)

PickUp ==
  /\ Goto("queued", IF row.exists THEN "picked" ELSE "over")
  /\ UNCHANGED <<row, work, asking, round, crashes>>

MarkStarted ==
  /\ Goto("picked", "started")
  /\ SetStatus("PREPARING")
  /\ UNCHANGED <<work, asking, round, crashes>>

PrepareWorkspace ==
  /\ Goto("started", "prepared")
  /\ tree' = BaseTree
  /\ UNCHANGED <<row, plans, changed, check, judged, reviewed, asking, round, crashes>>

StartGenerating ==
  /\ Goto("prepared", "generating")
  /\ SetStatus("GENERATING_PATCH")
  /\ UNCHANGED <<work, asking, round, crashes>>

\* The issues are still there and few enough for the budget of model calls.
LoadSelectedIssues ==
  /\ Goto("generating", "planning")
  /\ row.exists
  /\ 4 + 4 * Cardinality(Issues) <= CallBudget
  /\ AskAll(Issues)
  /\ UNCHANGED <<row, work, round, crashes>>

RequestPlans(g) ==
  /\ pc = "planning" /\ g \in todo
  /\ \/ \E answer \in [g -> Offers] :
          /\ \A i \in g : PlanSatisfiesContract(i, answer[i])
          /\ plans' = [i \in Issues |-> IF i \in g THEN answer[i] ELSE plans[i]]
          /\ Answered(g)
          /\ pc' = IF todo = {g} THEN "planned" ELSE pc
     \/ (AskAgain \/ AskSingly(g)) /\ UNCHANGED <<pc, plans>>
  /\ UNCHANGED <<row, tree, changed, check, judged, reviewed, round, crashes>>

\* save_issue_plan, with the manifests added to every plan's context.
SaveIssuePlan ==
  /\ Goto("planned", "checking")
  /\ row.exists
  /\ plans' = [i \in Issues |-> WithSupportContext(i, plans[i])]
  /\ UNCHANGED <<row, tree, changed, check, judged, reviewed, asking, round, crashes>>

ValidatePlanPaths ==
  /\ Goto("checking", "fixing")
  /\ ValidPlanPaths(plans)
  /\ UNCHANGED <<row, work, asking, round, crashes>>

RuffFiles == {File[i] : i \in Ruff} \ Tests

\* Ruff rewrites the files of its findings, or could not run.
ApplyRuffFixes ==
  /\ Goto("fixing", "editing")
  /\ \E content \in [RuffFiles -> Contents], available \in BOOLEAN :
       /\ Ruff = {} => available
       /\ tree' = [p \in Paths |-> IF p \in RuffFiles THEN content[p] ELSE tree[p]]
       /\ LET ai == Planned(plans) \ (IF available THEN Autofix ELSE {})
          IN AskEach(Components(plans, ai))
  /\ UNCHANGED <<row, plans, changed, check, judged, reviewed, round, crashes>>

(***************************************************************************)
(* The model's patch for one component: applied, asked for once more, or   *)
(* refused on the way, with any of its acceptable edits made.              *)
(***************************************************************************)
RequestPatch(g, stage) ==
  /\ pc = stage /\ g \in todo
  /\ \/ \E patch \in Patches :
          /\ NoDuplicates(patch)
          /\ IF \A x \in patch : Acceptable(plans, g, x)
               THEN tree' = Write(tree, patch) /\ Answered(g) /\ UNCHANGED pc
               ELSE /\ \E part \in SUBSET {x \in patch : Acceptable(plans, g, x)} :
                         tree' = Write(tree, part)
                    /\ pc' = "raised"
                    /\ UNCHANGED asking
     \/ AskAgain /\ UNCHANGED <<pc, tree>>
  /\ UNCHANGED <<row, plans, changed, check, judged, reviewed, round, crashes>>

GenerateFix(g) == RequestPatch(g, "editing")

\* Every component is edited: the diff is taken and stored unless it is empty.
SavePatch ==
  /\ Goto("editing", "patched")
  /\ todo = {}
  /\ tree # BaseTree
  /\ changed' = ChangedFiles(tree)
  /\ row.exists
  /\ row' = [row EXCEPT !.diff = tree, !.changed = ChangedFiles(tree)]
  /\ UNCHANGED <<plans, tree, check, judged, reviewed, asking, round, crashes>>

StartValidating ==
  /\ Goto("patched", "verifying")
  /\ SetStatus("VALIDATING")
  /\ UNCHANGED <<work, asking, round, crashes>>

\* Analyzer rules and dedicated verifiers, then the model, on the same tree.
RunChecks ==
  /\ Goto("verifying", IF Planned(plans) = {} THEN "judged" ELSE "judging")
  /\ \E seen \in [Checked \cap Planned(plans) -> Sights] :
       check' = [i \in Issues |-> IF i \in Checked \cap Planned(plans)
                                    THEN Verify(seen[i]) ELSE "uncertain"]
  /\ judged' = [i \in Issues |-> "uncertain"]
  /\ reviewed' = tree
  /\ AskAll(Planned(plans))
  /\ UNCHANGED <<row, plans, tree, changed, round, crashes>>

\* An issue that gets no valid answer by itself either is uncertain.
RequestVerdicts(g) ==
  /\ pc = "judging" /\ g \in todo
  /\ \/ \E answer \in [g -> Answer] :
          /\ \A i \in g : ValidAnswer(answer[i])
          /\ judged' = [i \in Issues |-> IF i \in g THEN answer[i].verdict ELSE judged[i]]
          /\ Answered(g)
          /\ pc' = IF todo = {g} THEN "judged" ELSE pc
     \/ (AskAgain \/ AskSingly(g)) /\ UNCHANGED <<pc, judged>>
     \/ /\ try = 1 /\ ~grouped
        /\ Answered(g)
        /\ pc' = IF todo = {g} THEN "judged" ELSE pc
        /\ UNCHANGED judged
  /\ UNCHANGED <<row, plans, tree, changed, check, reviewed, round, crashes>>

\* _review_and_repair_patch: done, out of attempts, nothing to repair, or repair.
Decide ==
  /\ pc = "judged"
  /\ IF Failed = {} \/ round >= MaxRepairs
       THEN pc' = "reviewed" /\ UNCHANGED asking
       ELSE LET repair == PlansToRepair(plans, Failed) IN
            /\ AskEach(Components(plans, repair))
            /\ pc' = IF repair = {} THEN "reviewed" ELSE "repairing"
  /\ UNCHANGED <<row, work, round, crashes>>

RepairFix(g) == RequestPatch(g, "repairing")

RepairsMade ==
  /\ Goto("repairing", "repaired")
  /\ todo = {}
  /\ UNCHANGED <<row, work, asking, round, crashes>>

\* Nothing edited, or no change left: the last verdicts stand.
AfterRepair ==
  /\ pc = "repaired"
  /\ LET edited == \E p \in EditablePaths(plans, PlansToRepair(plans, Failed)) :
                     tree[p] # reviewed[p]
     IN /\ changed' = IF edited THEN ChangedFiles(tree) ELSE changed
        /\ IF edited /\ ChangedFiles(tree) # {}
             THEN pc' = "verifying" /\ round' = round + 1
             ELSE pc' = "reviewed" /\ UNCHANGED round
  /\ UNCHANGED <<row, plans, tree, check, judged, reviewed, asking, crashes>>

SaveReviewedPatch ==
  /\ Goto("reviewed", "saving")
  /\ tree # BaseTree
  /\ row.exists
  /\ row' = [row EXCEPT !.diff = tree, !.changed = changed]
  /\ UNCHANGED <<work, asking, round, crashes>>

SaveIssueResults ==
  /\ Goto("saving", "resulted")
  /\ row.exists
  /\ row' = [row EXCEPT !.results = [i \in Issues |-> IssueVerdict(i)]]
  /\ UNCHANGED <<work, asking, round, crashes>>

SaveValidation ==
  /\ Goto("resulted", "validated")
  /\ row.exists
  /\ UNCHANGED <<row, work, asking, round, crashes>>

OfferPatch ==
  /\ Goto("validated", "offered")
  /\ SetStatus("WAITING_APPROVAL")
  /\ UNCHANGED <<work, asking, round, crashes>>

Finish ==
  /\ Goto("offered", "over")
  /\ UNCHANGED <<row, work, asking, round, crashes>>

-----------------------------------------------------------------------------
(***************************************************************************)
(* Failures: git, Ruff, the model (its budget and its circuit breaker      *)
(* included), PostgreSQL, a refused contract, an empty diff.  The handler  *)
(* writes FAILED whatever the job says by then.                            *)
(***************************************************************************)

Raise ==
  /\ pc \in TrySteps
  /\ pc' = "raised"
  /\ UNCHANGED <<row, work, asking, round, crashes>>

RecheckJob ==
  /\ Goto("raised", IF row.exists THEN "failing" ELSE "over")
  /\ UNCHANGED <<row, work, asking, round, crashes>>

MarkFailed ==
  /\ Goto("failing", "over")
  /\ row' = IF row.exists THEN [row EXCEPT !.status = "FAILED"] ELSE row
  /\ UNCHANGED <<work, asking, round, crashes>>

Crash ==
  /\ pc \in Running
  /\ crashes < MaxCrashes
  /\ crashes' = crashes + 1
  /\ pc' = "over"
  /\ UNCHANGED <<row, work, asking, round>>

-----------------------------------------------------------------------------

User == CreateFix \/ DeleteReview \/ Publish

ApiStep == AppendAuditLog \/ Enqueue

Ask(g) == RequestPlans(g) \/ GenerateFix(g) \/ RequestVerdicts(g) \/ RepairFix(g)

WorkerStep ==
  \/ PickUp \/ MarkStarted \/ PrepareWorkspace \/ StartGenerating
  \/ LoadSelectedIssues \/ SaveIssuePlan \/ ValidatePlanPaths \/ ApplyRuffFixes
  \/ SavePatch \/ StartValidating \/ RunChecks \/ Decide \/ RepairsMade \/ AfterRepair
  \/ SaveReviewedPatch \/ SaveIssueResults \/ SaveValidation \/ OfferPatch \/ Finish
  \/ \E g \in todo : Ask(g)
  \/ Raise \/ RecheckJob \/ MarkFailed

Next == User \/ ApiStep \/ WorkerStep \/ Crash

Spec == Init /\ [][Next]_vars

(***************************************************************************)
(* Celery hands out the task and a process that does not crash goes on;    *)
(* every call it awaits ends, since all of them have timeouts.             *)
(***************************************************************************)
FairSpec == Spec /\ WF_vars(ApiStep) /\ WF_vars(WorkerStep)

-----------------------------------------------------------------------------

TypeOK ==
  /\ row \in Row
  /\ pc \in Step
  /\ plans \in [Issues -> Plan]
  /\ tree \in Trees /\ reviewed \in Trees
  /\ changed \subseteq Paths
  /\ check \in [Issues -> Verdict] /\ judged \in [Issues -> Verdict]
  /\ todo \subseteq SUBSET Issues
  /\ try \in 0..1 /\ grouped \in BOOLEAN
  /\ round \in 0..MaxRepairs /\ crashes \in 0..MaxCrashes

Offered == row.exists /\ row.status \in {"WAITING_APPROVAL", "APPROVED"}

(***************************************************************************)
(* A patch is offered for approval only together with what was found about *)
(* this very patch: the stored verdicts are those of the last verification *)
(* round, that round looked at the stored diff, and the stored list of     *)
(* files is the diff's - over all repairs, early returns and empty repairs *)
(* of _review_and_repair_patch.                                            *)
(***************************************************************************)
OfferedPatchWasReviewed ==
  Offered =>
    /\ row.diff = reviewed
    /\ row.results = [i \in Issues |-> IssueVerdict(i)]
    /\ row.changed = ChangedFiles(reviewed) /\ row.changed # {}

(***************************************************************************)
(* "fixed" is claimed of an issue only when it was planned and every check *)
(* that looked at the offered patch said so ("uncertain never means        *)
(* fixed"): the model and, where there is one, the deterministic check.    *)
(***************************************************************************)
FixedByEveryCheck ==
  Offered => \A i \in Issues :
    row.results[i] = "fixed" =>
      /\ plans[i].status = "planned"
      /\ judged[i] = "fixed"
      /\ i \in Checked => check[i] = "fixed"

(***************************************************************************)
(* Whatever plans and patches the model returns, in the first round or in  *)
(* a repair, the sandbox differs from the reviewed commit only in files    *)
(* that a plan declared editable or Ruff was pointed at, and never in a    *)
(* test; instruction files are edited by no plan.                          *)
(***************************************************************************)
EditsStayInPlan ==
  /\ ChangedFiles(tree) \subseteq EditablePaths(plans, Planned(plans)) \cup RuffFiles
  /\ ChangedFiles(tree) \cap Tests = {}
  /\ ChangedFiles(tree) \cap ReadOnly \subseteq RuffFiles

(***************************************************************************)
(* A job that was enqueued is offered, fails or is deleted in the end,     *)
(* unless its worker crashes: the contract retries and repairs end, and    *)
(* every failure is written back.                                          *)
(***************************************************************************)
FixEnds ==
  pc = "queued" ~> \/ row.status \in {"WAITING_APPROVAL", "APPROVED", "FAILED"}
                   \/ ~row.exists \/ crashes > 0

(***************************************************************************)
(* The job as its clients see it keeps FixLifecycle: in particular a patch *)
(* does not change, nor its verdicts, while it waits for approval.         *)
(***************************************************************************)
JobStatus == IF pc = "new" THEN "NONE" ELSE IF row.exists THEN row.status ELSE "DELETED"

JobOffer == IF Offered THEN <<row.diff, row.results>> ELSE None

Lifecycle == INSTANCE FixLifecycle WITH NoOffer <- None, status <- JobStatus, offer <- JobOffer

KeepsLifecycle == Lifecycle!Spec

-----------------------------------------------------------------------------
(***************************************************************************)
(* The inductive invariant of the proofs.                                  *)
(***************************************************************************)

BeforeEdits == {"new", "created", "audited", "queued", "picked", "started", "prepared",
                "generating", "planning", "planned", "checking", "fixing"}

\* The status of the job is that of the worker's stage, until it is over.
StatusInv ==
  /\ pc = "new" => ~row.exists
  /\ pc \in {"new", "created", "audited", "queued", "picked"} => row.status = "PENDING"
  /\ pc \in {"started", "prepared"} => row.status = "PREPARING"
  /\ pc \in {"generating", "planning", "planned", "checking", "fixing", "editing", "patched"}
       => row.status = "GENERATING_PATCH"
  /\ pc \in {"verifying", "judging", "judged", "repairing", "repaired", "reviewed",
             "saving", "resulted", "validated"} => row.status = "VALIDATING"
  /\ pc = "offered" => row.status \in {"WAITING_APPROVAL", "APPROVED"}

\* Nothing is edited before there are valid plans, and then for planned issues.
PlanInv ==
  /\ pc \in BeforeEdits => tree = BaseTree
  /\ pc \in {"fixing", "editing", "patched", "verifying", "judging", "judged", "repairing",
             "repaired"}
       => ValidPlanPaths(plans)
  /\ pc = "editing" => \A g \in todo : g \subseteq Planned(plans)
  /\ pc = "repairing" => \A g \in todo : g \subseteq PlansToRepair(plans, Failed)

\* Between two rounds the tree differs from the one reviewed only where the
\* repair may write; after the last it is the one reviewed, or has no change.
ReviewInv ==
  /\ pc \in {"patched", "verifying", "judging", "judged"} => changed = ChangedFiles(tree)
  /\ pc \in {"judging", "judged"} => tree = reviewed
  /\ pc \in {"repairing", "repaired"} =>
       /\ round < MaxRepairs
       /\ changed = ChangedFiles(reviewed)
       /\ \A p \in Paths \ EditablePaths(plans, PlansToRepair(plans, Failed)) :
            tree[p] = reviewed[p]
  /\ pc = "reviewed" /\ tree # BaseTree => tree = reviewed /\ changed = ChangedFiles(tree)
  /\ pc \in {"saving", "resulted", "validated"} =>
       /\ tree = reviewed /\ tree # BaseTree
       /\ row.diff = tree /\ row.changed = ChangedFiles(tree)
  /\ pc \in {"resulted", "validated"} => row.results = [i \in Issues |-> IssueVerdict(i)]

IInv == /\ TypeOK /\ StatusInv /\ PlanInv /\ ReviewInv
        /\ EditsStayInPlan /\ OfferedPatchWasReviewed

=============================================================================
