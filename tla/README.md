# Verification of the AI source code reviewer

TLA+ models of the review service in `src/backend/app`, their TLC
configurations, and TLAPS proofs. Paths below are relative to
`src/backend/app` unless they start with `src/`. `PROJECT.json` maps every
definition that stands for code to its lines.

1. [The system](#1-the-system)
2. [Modules](#2-modules)
3. [What the code's environment does](#3-what-the-codes-environment-does)
4. [FixPublish](#4-fixpublish)
5. [ReviewJob and ReviewStream](#5-reviewjob-and-reviewstream)
6. [FixPipeline](#6-fixpipeline)
7. [The AI review](#7-the-ai-review)
8. [CodeIndex](#8-codeindex)
9. [AuthTokens](#9-authtokens)
10. [Findings and reports](#10-findings-and-reports)
11. [Runs](#11-runs)
12. [Fairness](#12-fairness)
13. [Proofs](#13-proofs)
14. [Disagreements found](#14-disagreements-found)
15. [Not modelled, and the plan](#15-not-modelled-and-the-plan)

## 1. The system

A FastAPI backend accepts review jobs for GitHub repositories, Celery workers
carry them out, PostgreSQL keeps the results, and Redis carries both the Celery
queues and the progress shown to browsers. A finding of a finished review can be
turned into a fix, and a fix into a pull request.

| Component | State | Operations | Talks to | What is hard | What makes it correct |
|---|---|---|---|---|---|
| Review jobs: `services/review_jobs/`, `workers/review_worker.py` | `review_jobs`, `job_status_history`, `review_reports`, `repositories.last_reviewed_at` | create, delete, set status; the worker's nine transitions | Celery (enqueue, revoke), Redis (announce), clone, analyzers, AI review | the API deletes and patches while the worker runs; each stage is several commits; every stage may raise; kill | COMPLETED only with its commit and AI report; history and status agree; an announced outcome stands; a deletion stops the work |
| Progress streams: `services/review_jobs/notifications.py` | snapshot key and channel per job in Redis; a buffer per subscription | announce (SET, then PUBLISH), open a stream, receive, leave | review jobs, browsers | the outcome may be announced at any moment of a stream's opening; Redis errors are swallowed; keys expire | no open stream misses the outcome; a stream is not closed with a wrong one |
| Fix publishing: `services/fix_jobs/publish_*.py`, `workers/fix_publish_worker.py` | publish columns of `fix_jobs`, `fix_audit_logs`, a sandbox directory, the branch and pull request on GitHub | approve, retry, cancel; the worker's clone, apply, push, open | Celery, git, GitHub | no lock while a worker runs; cancel then retry gives two workers one row and one sandbox; side effects that cannot be undone | audit before effect; a recorded pull request is real and stays; a cancel holds; a publish settles |
| Fix generation: `services/fix_jobs/pipeline/`, `services/fix_jobs/service.py` | `fix_jobs`, `fix_job_steps`, a sandbox | create, plan, edit, verify, repair, offer | the model, Celery, git | answers that break their contract, retries, splits, repair rounds after which everything stored must still fit together; a failure handler that overwrites any status | what is offered was verified as it is; "fixed" only if every check says so; edits keep to the plans; the job ends |
| Fix notifications: `services/fix_jobs/notifications.py` | Redis keys and channels | announce, stream | fix generation | as review streams | as review streams |
| Sandbox cleanup: `services/sandbox/`, `workers/sandbox_cleanup_worker.py` | directories and their age | list expired, delete | fix publishing, the database | the list is stale when its entries are deleted | never deletes a sandbox in use |
| Authentication: `services/auth_service.py`, `services/token_blacklist.py`, `core/security.py` | `refresh_tokens`, `users.refresh_tokens_revoked_at`, blacklist and cutoffs in Redis | log in, refresh (rotation), log out, log out everywhere, authorise | PostgreSQL, then Redis | two refreshes with one token; one of two stores failing; times truncated to seconds, entries that expire | a logout that returned ends its session; rotation leaves one live token |
| Probe review: `ai/probe/`, `ai/review/`, `ai/llm/` | the plan, bundles of evidence, batches, issues; a call budget | plan probes, retrieve, trim, judge in parallel, deduplicate | LLM, vector store | several caps applied in turn; partial answers, retries and splits; tasks sharing a budget; one failing batch cancels others; overlaps | each probe keeps evidence and gets one verdict; issues are stored all or none, on lines that were shown |
| Code index: `services/code_indexing/`, `ai/rag/`, `analyzers/code_chunker.py`, `analyzers/file_filter.py` | chunks per job in MongoDB, one vector collection, a manifest per job | select, chunk, replace, reuse, embed, prune, search | Mongo, Chroma, embeddings | delete then insert without a transaction; jobs that prune a shared collection | INDEXED is true and stays true; a search stays in its snapshot |
| Reports: `services/reporting/`, `ai/reporting/` | `review_reports`, `review_issues` | static report, final report, refresh, list, detail | review jobs | several detectors report one defect in their own words and lines | one identity per defect; counts agree with the list; reading changes nothing |
| Rate limiting: `core/dependencies.py` | a counter per user and window | INCR, then EXPIRE | Redis | failure between the two calls | a window ends |
| Analyzers, AI trace, repository summary, roadmap, rules | none that others depend on | call a tool or a model and parse what it says | | | |
| Users, providers, repositories, health, schemas, settings | rows edited in one transaction | create, read, update, delete | | | |
| Frontend `src/frontend` | a view of the API's | | streams, polling | reconnects | |

A review clones, selects and chunks files (code index), plans probes and collects
evidence for them (probe review), judges it, and turns rows into a report; the
review job drives this and announces it to streams. A fix starts from findings of
a report; a publish starts from an offered fix. Authentication guards every call.
Review jobs, streams and publishing carry the program's own concurrency, and
effects that cannot be taken back, so they came first.

## 2. Modules

| Module | What it is |
|---|---|
| `FixPublish` | one fix job's publishing: API, broker, workers, sandbox, GitHub |
| `PublishContract` | abstract: what a client that polls the job may see |
| `FixPublishProofs` | theorems about `FixPublish`, and that it implements `PublishContract` |
| `ReviewJob` | one review: API, broker, worker, announcements |
| `ReviewLifecycle` | abstract: the order of statuses and the finality of announced outcomes |
| `ReviewStream` | extends `ReviewJob` with the snapshot key, the channel and browser streams |
| `ReviewJobProofs` | theorems about `ReviewJob` |
| `ReviewStreamProofs` | theorems about `ReviewStream`, and that a review implements `ReviewLifecycle` |
| `FixPipeline` | one fix job: creation, the worker's steps, contract retries, repair rounds, offer |
| `FixPipelineProofs` | theorems about `FixPipeline`, and that it implements `FixLifecycle` |
| `FixContracts` | operators: which plans, patches and verdicts are accepted, how verdicts combine |
| `FixVerifiers` | operators: what the deterministic verifiers conclude, scenario results, the context of an issue |
| `FixLifecycle` | abstract: statuses in order, an offer that does not change |
| `Selection` | operators: the elements that pass a test, and sorting, as positions and orders |
| `ProbePatterns`, `ProbePlan` | operators: structural patterns of chunks; which probes a review asks |
| `ProbeRanking` | operators: scores, fusion, quotas, related chunks for one probe |
| `ProbeRetrieval` | the lanes of a retrieval, trimming, full audit |
| `ProbeRetrievalProofs` | theorems about `ProbeRetrieval`, `ProbeRanking` and `ProbePlan` |
| `ProbeEvidence` | operators: accepted answers, validation, batches, deduplication |
| `ProbeJudge` | the judge's tasks, its main loop and the model session they share |
| `ProbeJudgeProofs` | theorems about `ProbeJudge` and the folds of `ProbeEvidence` it uses |
| `ReviewPlan` | operators: the chunk plan of a review and its coverage |
| `CodeChunks` | operators: selection of files, chunks of plain and Python files |
| `CodeIndex` | jobs that store, embed, prune and search chunks |
| `CodeIndexProofs` | theorems about `CodeIndex` |
| `AuthTokens` | sessions, rotation, logouts, time |
| `AuthTokensProofs` | theorems about `AuthTokens` |
| `Findings`, `Reports` | operators: claims, occurrences, findings; reports and their views |
| `MC...` | instances for TLC; `MCFixPipeline`, `MCCodeIndex`, `MCReports` and `MCReviewPlan` also check operators over bounded inputs (`ASSUME`) |

In the models of processes one action is one `await` that commits, calls out or reads what
another process may change: between two actions any other process may run.
Local computation between two awaits belongs to the action before or after it.
Pure algorithms are operators, without RECURSIVE: folds and recursive functions.

*Slips.* Each system module has a section of operators that are one of its
actions with a mistake this code could have had (a dropped guard, a value read
from memory instead of the row, steps swapped). No action uses them. They are
the mutants of `PROJECT.json`: with the slip in place of the action, TLC finds
the property named there violated, which shows the property depends on what the
code does.

## 3. What the code's environment does

These facts about SQLAlchemy, PostgreSQL, Celery, Redis and GitHub are
assumptions of the models. Each is taken from the configuration and the calls in
the source.

* **Sessions** have `expire_on_commit=False`. A loaded object keeps its
  attributes over commits until it is refreshed or a rollback expires it. A flush
  emits only the attributes whose value differs from the loaded one. That is `mem`
  (what a session last loaded) and `Flush`. A `get_by_id` on an object the
  session already holds tells only whether the row still exists.
* **PostgreSQL** runs at READ COMMITTED: a statement sees what is committed when
  it starts; the row of an UPDATE is locked to the end of its transaction.
  `get_by_id_for_update` in the publish API serialises API requests, so approve,
  retry and cancel are each one atomic action. Workers take no lock.
  Deleting a review cascades to its fix jobs and reports.
* **Celery** acknowledges a task when a worker takes it (no `acks_late`), so a
  crash loses it. It does not deliver a task twice. A deletion revokes the task:
  one not yet taken is dropped, one that runs gets SIGTERM at any step.
* **Redis** SET and PUBLISH are two calls. `publish_job_progress` swallows
  connection errors (`DropEvent`), and a channel keeps nothing for those who
  subscribe later. Any other error can only be raised by the first of the two
  calls; it reaches the pipeline as `Raise`.
* **GitHub** refuses a push that is not a fast-forward and a second open pull
  request for a branch. Any call may fail for the caller, before or after it
  took effect.
* A request the API refuses changes nothing and is no action.

## 4. FixPublish

| State | Code |
|---|---|
| `row` | the `fix_jobs` row: `status`, `publish_status`, `pr_url` (a pull request is named by the request that opened it) |
| `audit` | committed rows of `fix_audit_logs` |
| `approval` | a history variable: who last committed PUBLISHING |
| `pc[r]` | where request r is: API request, queued task, step of `FixPublishPipelineService.run`, failure handler |
| `mem[r]` | the row as r's session loaded it last |
| `sandbox`, `branch`, `pr` | HEAD of `fix-publishes/<id>`; the fix branch; the open pull request |
| `baseMoved`, `crashes` | the target branch left the reviewed commit; how many processes died |

Actions of the API: `PublishFix`, `RetryPublish` (row, audit entry and commit in
one transaction), `Enqueue`, `PersistUnsent` (broker refused), `CancelPublish`,
`DeleteReview`. Of the worker, in the order of `_run_publish_steps`: `Pick`,
`MarkPublishStarted`, `CheckBase` (`MarkStaleBase`, `LogStaleBase`),
`PrepareWorkspace`, `CreateCommit`, `CheckBeforePush`, `PushBranch`, `LogPush`,
`CheckBeforePr`, `CreatePullRequest`, `LogPr`, `MarkPublishSucceeded`, `Finish`.
From every step inside the `try` block `Raise` leads to the handler: `Reload`,
`MarkPublishFailed`, `LogFailure`. `Crash` ends any process, `MoveBase` is
another push to the target branch.

A request stands for one click and its one task. A commit is named by the
attempt that made it, since attempts produce different commits.

Properties:

* `RecordedPrIsReal`: APPROVED exactly with a URL, PUBLISHED only with one, and
  the URL is that of the open pull request, with its audit entry.
* `TrailPrecedesEffects`: what is on the branch was approved before; the pull
  request's creator had approval and BRANCH_PUSHED committed before.
* `PublishingHasOwner`: without crashes, a PUBLISHING job has a process left that
  will write an outcome, over all overlaps of cancel, retry and refused enqueues.
* `PublicationIsPermanent`: a recorded pull request and the approval stay.
* `CancelHolds`: once the job is not PUBLISHING, no new request is made and no
  attempt is past its last check, no pull request is opened any more.
* `PublishSettles` (liveness): PUBLISHING ends.
* `KeepsContract`: refinement of `PublishContract` by
  `publish <- row.publish, recorded <- row.prUrl # None`.

## 5. ReviewJob and ReviewStream

| State | Code |
|---|---|
| `row`, `history` | the `review_jobs` row (`commit`: is `commit_sha` the clone's); the newest `job_status_history` entry |
| `report` | the `review_reports` row: none, preliminary (`static`) or of the AI review (`ai`) |
| `stamped` | whether the job set `last_reviewed_at` |
| `stage`, `batch` | the last status the worker committed; judge batches done |
| `pc`, `mem` | per actor (the worker, a deletion, status requests): its step; the status its session loaded last |
| `event`, `resume` | what an actor announces, and where it goes on afterwards |
| `told` | a history variable: the last outcome stored as snapshot |
| `revoked`, `crashes`, `drops` | the task was revoked; bounded counters |
| `snapshot` | (ReviewStream) the progress key |
| `stream`, `fallback`, `inbox`, `outcome` | (ReviewStream) per client: its stream, the event built from the database, what its subscription has buffered, what closed it |

A transition of the pipeline (`_transition`) is `CheckBeforeStage` (does the job
still exist), `CommitStatus` (status and history), `RefreshStatus`, for COMPLETED
`Stamp`, and the announcement, `SetSnapshot` then `PublishEvent`. The stages'
work is `CloneRepository`, `CheckAfterClone`, `UpdateCloneMetadata`,
`RefreshCloned`, `Analyze` (three stages without a write of their own),
`CheckAfterIndex`, `PersistPreAgentReport`, `JudgeBatch`, `JudgedAll`,
`PersistFinalReport`, `CheckAfterReview`, `RequireAiGeneratedReport`. A failure in
any of them is `Raise`, `RecheckJob`, `MarkFailed` and the announcement of it;
so is one of opening the embedding store, which the worker guards by itself.
`Escape` is an exception nothing handles: of the rest of the worker's set-up, of
`run` reading the job before its `try` (`pipeline/service.py:109`), or of a
handler itself, its announcement included. The task is over (`escaped`) and the
job stays in whatever status it has.
`AiProgress` is `calculate_ai_review_progress`, with its integer division.

A stream (`stream_job_progress`) is `Connect` (authorise, read the database),
`Subscribe`, `ReadSnapshot`, then `Receive` per message, or `Disconnect`.
`ReviewStream` adds the effect of each SET (`StoreSnapshot`) and PUBLISH
(`Deliver`) on the clients.

The status endpoint sets any status at any time without looking at what the
worker does. The model has those requests; properties about the worker's
results say so (`Unpatched`) and hold as long as it is not used.

`ReviewEnds` says that an enqueued review ends, is deleted, loses a process to a
crash, or escapes; `StreamCloses`, that an open stream is closed with the job's
outcome, with the same exceptions and that of a lost announcement. These are
limits of the code: nothing takes up the job such a task leaves active, and
nothing repeats its announcement.

Properties: `CompletedIsReviewed`, `HistoryMatchesJob`, `ProgressAdvances`,
`OutcomeStands`, `StopsWhenDeleted` of the job; `NoMissedOutcome`,
`ToldTheTruth`, `StreamCloses`, `ReviewEnds` of the streams; `KeepsLifecycle`,
the refinement of `ReviewLifecycle`: statuses in order, none skipped, failure
only until an outcome was announced, an announced outcome stays.

One limit is worth knowing: a stream that reads COMPLETED from the *database*
(no snapshot under the key) is closed with it, although the worker may still fail
in `update_last_reviewed_at` and mark the job FAILED. `ToldTheTruth` therefore
speaks of streams closed by announcements (`closed`), not of those closed by
their fallback (`answered`).

## 6. FixPipeline

| State | Code |
|---|---|
| `row` | the `fix_jobs` row: status, diff, changed files, results per issue |
| `pc` | the step of the API call or of `FixPipelineService.run` |
| `plans`, `tree`, `changed` | the worker's plans, the files of the sandbox `fixes/<id>`, `current_changed_files` |
| `check`, `judged`, `reviewed` | the deterministic and the model's verdicts of the last round, and the tree that round looked at |
| `todo`, `try`, `grouped` | the groups of issues the stage has still to ask about, contract retries made, whether the group is asked as a whole |
| `round`, `crashes` | repair attempts; bounded crashes |

Creation is `CreateFix`, `AppendAuditLog`, `Enqueue`. The worker's steps follow
`_run_pipeline_steps`: `PickUp`, `MarkStarted`, `PrepareWorkspace`, planning
(`RequestPlans`, `SaveIssuePlan`, `ValidatePlanPaths`), `ApplyRuffFixes`, editing
(`GenerateFix`), `SavePatch`, then the loop of `_review_and_repair_patch`
(`RunChecks`, `RequestVerdicts`, `Decide`, `RepairFix`, `AfterRepair`) and the
offer (`SaveReviewedPatch`, `SaveIssueResults`, `SaveValidation`, `OfferPatch`).
A failure anywhere is `Raise`, `RecheckJob`, `MarkFailed`.

The model's answers are any plan, patch or verdict of small sets, good or bad.
`FixContracts` decides, as the code does, which are accepted: an answer that
breaks its contract is asked for once more, then issue by issue. File contents
are two values, the reviewed one and an edited one. The verdict of an issue is
the combination of the deterministic check (`FixVerifiers`, where the issue has
an analyzer rule or a verifier of its own) and the model's.

The pipeline passes no scenario results to the verification
(`scenario_results_by_issue=None`), so `scenario_testing.py` and
`validation.py` are reached by tests only; what the scenario contract concludes
is checked as an operator (`ScenarioContract`).

Properties: `OfferedPatchWasReviewed`, `FixedByEveryCheck`, `EditsStayInPlan`,
`FixEnds` (liveness) and `KeepsLifecycle`, the refinement of `FixLifecycle`
with the patch and its verdicts as the offer. Checked of operators over all small
inputs: `ScenarioContract`, `RiskIsMonotone` (more dangerous findings never turn
a verdict into "fixed"), `ContextIsComplete` (a context that is not marked
truncated has all requested files and what is within two hops of them).

## 7. The AI review

**Planning and retrieval.** `ProbePlan` builds the probes of a review (baseline,
one per file worth it, one per roadmap rule) and `ProbeRetrieval` answers them
lane after lane: `Prepare`, `RetrieveProbe` for each probe of a lane, `EndLane`
(trim the lane), `Finalize` (trim all, or complete a full audit). For a probe,
candidates come from a semantic search, a keyword search, exact terms, structural
patterns (`ProbePatterns`) and the probe's own file; `ProbeRanking` scores,
fuses, limits and completes them. What a search returns is arbitrary (`Hits`), as
are the texts; the arithmetic of scores is kept, in millionths. A probe has one
query instead of several, and the cut of a keyword search at fifty results is out
of reach of the corpora.

Properties: `EveryChunkIsAudited`, `CoverageLooksElsewhere`,
`EvidenceSurvives`, `StructuralEvidenceKept`. `EvidenceSurvives` says that trimming
fits each lane and the review into its cap and leaves a chunk to each probe before
the first without any: `_reserve_probe_candidates` stops at the first empty
bundle, so nothing is reserved for those after it. It counts the chunks shown,
each once for a probe. Counted as `_trim_bundles` is tested, copy by copy, the cap
does not hold (`ReviewFitsCap`, disagreement 3). `ReviewPlan` holds the plan of
chunks a review is measured by, and `MCReviewPlan` checks it over small inputs:
`SmartPlanIsFair`, `CoverageAddsUp`, `SweepFindsEveryGap`. The sweep
(`line_range_is_covered`) is used by tests only.

**Judging.** In `ProbeJudge` each batch of bundles has a task, and a main loop
takes finished tasks in order of completion. A task enters the semaphore
(`Enter`), passes the checks of the session (`BeforeRequest`), waits for its turn
(`Send`), and gets an answer (`Take`), a transient failure (`BackOff`, `WakeUp`,
`FailTransient`) or a permanent one. An answer in part is asked again for what is
missing, then probe by probe (`phase`). `Batches` is a constant: `MCProbeJudge`
writes it out and checks that `JudgeBatches` makes it of the bundles, and the
theorems hold for any batches without a common probe. `End` is how a task ends
whose answers are complete or fail: it hands over results or nothing. `Build` turns results into issues, one after the other
(`AddAccepted`); `HandleOutcome`, `Report`, `Stop` and `Store` are the main
loop. `calls`, `circuit` are `LLMSessionState`, which all tasks share.

Properties: `OneVerdictEach`, `RequestsAreBounded`, `AllOrNothing`,
`StoredIssuesAreBacked`: what is stored is confident and on lines that were
shown, twins among it do not overlap, and each issue reported is stored or
counted as rejected. A judging in which tasks and loop wait for each other
would be a deadlock, which this run looks for. Note that a job may need
more calls than its budget provides for: each batch may send first, retry and
single requests, each with transient retries; an exhausted budget fails the
review, as `RequestsAreBounded` and `AllOrNothing` say.

## 8. CodeIndex

| State | Code |
|---|---|
| `manifest[j]`, `stored[j]` | `code_index_manifests` and `chunk_metadata` of job j |
| `vectors` | the Chroma collection shared by all jobs, by the id `CacheId` |
| `pc`, `todo`, `existing`, `attempt` | the job's step, what is left to write, the ids it found present, requests made for a batch |
| `found[j]` | the answer to the job's last search |
| `snapshot[j]`, `crashes` | branch and commit under review; bounded crashes |

`StartIndex`, `DeleteChunks`, `InsertBatch` (MongoDB), `ReadExisting`,
`RefreshCached`, `EmbedBatch`, `RetryBatch`, `PruneStale` (Chroma),
`MarkIndexed`; failures lead to `MarkIndexFailed`, `Crash` leaves everything as
it is. `Search` is `CodeSemanticRetriever.search` with any ranking.

The documents of a job are a set, ordered by file and place; a batch is the
first of those left (`First`, `TokenLimitedBatch`), and a search keeps some
places of a ranking (`SelectDiverse`). `MCCodeIndex` compares both with the
loops of the code over bounded inputs (`BatchesAreThoseOfTheLoop`,
`ResultsAreThoseOfTheLoop`).

`CodeChunks` says which files are chunked and how: windows of lines under a
token limit, with overlap; for Python one chunk per top-level definition and the
module lines in between.

The model is of a worker with semantic search on. With it off,
`DisabledCodeEmbeddingStore` (`code_embedding.py:559`) embeds nothing, and
`index_job` still writes INDEXED (`service.py:138`): such a manifest promises no
vectors, and `IndexedIsSearchable` does not speak of it. Searches then return
nothing.

A clone is taken to have one file per path (`IsClone`). The code resolves
symbolic links while it walks the clone, so a tracked link to another file
inside it would be chunked under the path of that file a second time. This is
not modelled.

Properties: `IndexedIsSearchable`, `SearchStaysInSnapshot`; of the chunker over
small files `PlainFilesAreCovered`, `PythonFilesAreCovered`. Two reviews of one
commit are taken to run with the same settings, since the generation key does
not contain the file-selection settings. Under this assumption a job finds
nothing stale among the vectors of its snapshot, so `PruneStale` removes nothing.

## 9. AuthTokens

| State | Code |
|---|---|
| `now` | the clock in ticks, `TicksPerSecond` to a second |
| `pairs` | issued token pairs, each with its `refresh_tokens` row and whether the client received it |
| `revoked` | `users.refresh_tokens_revoked_at` |
| `black`, `cut` | Redis: blacklist entries and cutoffs with their expiry |
| `req` | the step of each request being served |
| `ended`, `raced` | history: sessions whose logout returned without an overlap; pairs made from a token that was revoked meanwhile |

`Login`, `RefreshReadsRow`, `RefreshReadsUser`, `Rotate`, `LogoutBegins`,
`LogoutAllBegins`, `RevokeAll`, `Blacklist`, `Cutoff`, `RevokeRow`, `Fail` (at
any step; the stores keep what they have), `Tick`. Authorisation is the operator
`Authorized`. JWT issue times and the cutoff are whole seconds, the revocation
time in PostgreSQL is not, and Redis entries expire.

Properties: `LogoutEndsSession` and `SessionsGrowOnlyByRaces`. The second states
what the code gives: two refreshes that read a row before either revokes it both
succeed. The first speaks of sessions without such a race (`Unraced`): a logout
revokes the refresh token that was sent along, so the second token of a race
survives it and can be exchanged for new access tokens. That takes four pairs,
one more than the run has; the proof, which is for any number of pairs, needed
the condition, and a run with four showed why. A logout of one session sets the user's cutoff and so ends the access
tokens of all sessions; the model has that.

## 10. Findings and reports

`Findings` translates `finding_identity.py` and the aggregation: the claim of a
row (aliases, title patterns, specialisation by context), the key of a finding,
occurrences as merged ranges, the row that speaks for each. `Reports` has the
static report, the final report with its draft and fallback, the refresh on every
read, and the list and detail of issues. They are pure, so `MCReports` checks them over all
small sets of rows with an excerpt of the phrase tables: `ClaimsAreStable`,
`OccurrencesAreConnected`, `CountsAgreeWithList`, `ListAndDetailAgree`,
`ReadingKeepsTheReport`, `SnippetShowsTheIssue`.

What the checks had to leave out, because the code does so: the first read of a
final report replaces its top files, so the draft's priorities are lost; a
detail groups rows of README files that list and counts exclude; a static report
counts rows, which the first read turns into findings.

## 11. Runs

| Run | Bounds | Distinct states | Shows |
|---|---|---|---|
| `publish` | 2 requests, 1 crash | 602 thousand | all safety properties of publishing, the contract, and `PublishSettles` for behaviours without a crash |
| `publish_cancel_late` | 2 requests | stops at the violation | disagreement 1 |
| `publish_failed_for_good` | 2 requests | stops at the violation | disagreement 2 |
| `review` | 1 status request asking for COMPLETED, FAILED or CLONING; 2 batches; 1 crash; 1 lost announcement | 2.23 million | all safety properties of a review |
| `stream` | 1 client, 1 batch, 1 lost announcement, no status requests | 1.44 million | the streams' safety, and `KeepsLifecycle` |
| `stream_closes` | 1 client, 2 batches | 324 thousand | `StreamCloses`, `ReviewEnds` |
| `fix_pipeline` | 2 issues, 4 files, 5 kinds of plan, budget of 12 calls, 2 repair rounds, 1 crash | 398 thousand | safety of a fix, `FixEnds`, `KeepsLifecycle` |
| `judging` | 4 probes in 3 batches, 2 tasks at a time, 5 calls, 1 transient retry | 1.09 million | the judge's properties, no deadlock; `MCReports` |
| `evidence` | 4 corpora of up to 7 chunks, 3 baseline probes, 2 rules, both modes, 3 search results | 22 thousand | the retrieval's properties; `MCReviewPlan` |
| `evidence_cap` | those of `evidence` | stops at the violation | disagreement 3 |
| `auth` | 1 user, 2 requests (symmetric), 3 pairs, 3 ticks of half a second | 5.4 million | `LogoutEndsSession`, `SessionsGrowOnlyByRaces` |
| `code_index` | 2 jobs on 2 commits of a branch, batches of 2, 1 retry, 1 crash | 15 thousand | the index's properties; the chunker |

Why the bounds are enough. Two publish requests give every overlap of a canceled attempt
with its successor; a third would need a third cancel, and the attempts interact
only through the row, the sandbox and GitHub, each of which holds the trace of one
attempt at a time. One crash suffices to lose a task at every step. Two batches
are the least for which progress strictly between the ends appears. A lost
announcement may be any of them, so one covers each position. The statuses asked
for are one of each kind the model distinguishes: both outcomes and a stage.
Streams do not act on each other, so one stands for all. Crashes are left out of
`stream` because a stream sees of a crash only that announcements stop coming,
which a slow worker looks like as well; `review` has them. The proofs remove
these bounds for publishing, the review itself, its streams, fix generation,
the evidence, judging, the index and the tokens.

Two issues are the least for which a group is split and plans overlap; the second
repair round is the first that repairs a repair. The budget of 12 calls is what
the pipeline asks for two issues beforehand; running out of it later is one of the
failures `Raise` stands for. With three batches and two tasks at a time one
task waits at the semaphore, so a model without it breaks `RequestsAreBounded`;
one can fail while one goes on and one has not begun. Two probes of one batch are
the least that can be answered in part. The corpora have overlapping chunks, a call and a
mention between files, a test file, neighbours of routes and more chunks than any
cap. In `auth` three
pairs are a session with one rotation and another session, or one session
refreshed twice; the clock crosses one second, at which access tokens and
entries expire. Refresh tokens do not expire within the bounds. Two commits of a branch with a
moved, a kept and a doubled text are the least that tell apart generation, branch
and content in the vectors' ids.

Deadlock is checked in `judging` only: elsewhere a job that is over, or was
deleted, has no further step, and a bounded clock stops.

## 12. Fairness

`FairSpec` of `FixPublish` and of `FixPipeline` and `FairStreamSpec` assume weak
fairness of each process as a whole:
Celery hands out a queued task, a process that runs keeps executing, and each
call it awaits ends, since git commands, HTTP requests, model calls and Redis
have timeouts that raise. Which way a call ends (success, `Raise`, or in
`ReviewJob` an `Escape`) is left open. Users owe nothing: no fairness for requests, cancels, deletions, status
requests or connecting. An open stream is served, `WF(ClientStep)`, as the event
loop does. Liveness is claimed for behaviours without a crash: a task lost after its
acknowledgement is not retried, and the code has nothing that would resume the
job, which then stays PUBLISHING or in its stage. In `FixPublish` and
`FixPipeline` an exception outside the `try` blocks (`publish_pipeline.py:109` and
`:497`, `get_by_id` before the `try` of the fix pipeline, an error of its handler)
is a `Crash`: it ends the task and changes nothing, as a crash does.

## 13. Proofs

All theorems are checked by tlapm with Z3, Zenon and LS4, for any values of the
constants that satisfy the module's assumptions: distinct model values and
natural bounds, and besides

* for reviews, that `"worker"` and `"delete"` are no status requests;
* for streams (`StreamAssumption`), that `NoEvent` is no event;
* for judging (`JudgeAssumption`, `IssueAssumption`), that batches are not
  empty and have no probe in common, which `_judge_batches` sees to, since the
  plan has each probe once; and that an issue has a location of natural numbers,
  as the parsed answer does;
* for evidence (`PlanAssumption`, `RetrievalAssumption`), that chunks are of files of
  the repository, scores natural numbers, baseline probes defect probes without a
  file, rules finitely many and caps positive: the constants of
  `plan.py` and `retrieval_service.py` and what their callers pass;
* for indexing (`IndexAssumption`), that a clone has one file per path and that
  lines, definitions and sizes are what a parser can return.

TLC evaluates each of them on the constants of the runs.

**FixPublishProofs.** `IInv == TypeOK /\ TrailInv /\ SnapshotInv /\ OwnerInv`
is inductive (`IInvAlways`).

* `TrailPrecedesEffects` is not inductive by itself: `PushBranch` writes what the
  sandbox holds, which another attempt may have made. `TrailInv` adds what each
  step has committed before it is reached, and that the sandbox's commit was
  approved.
* `RecordedPrIsReal` needs what a session remembers: `MarkPublishSucceeded`
  writes only what differs from `mem`. `SnapshotInv` says what an attempt in the
  middle of its steps can have loaded.
* `OwnerInv` names the owner of PUBLISHING: the request that committed it last.

From it: `TypeCorrect`, `RecordedPrCorrect`, `TrailCorrect`, `OwnerCorrect`
(invariants), `PublicationCorrect`, `CancelCorrect` (action properties) and
`ContractCorrect`, the refinement: initial states map to initial states, and each
step to a `Request`, a `Report` or a stutter.

**ReviewJobProofs.** `IInv == TypeOK /\ ShapeInv /\ ExistsInv /\ StatusInv /\
ResultInv` is inductive.

* `ShapeInv` relates the worker's position to the stage it is in; the others
  lean on it.
* `ExistsInv`: a job exists from its creation to its removal.
* `StatusInv`: unless the status endpoint was used, the stored status is the
  worker's stage or FAILED, and the worker's session knows it. This makes
  `HistoryMatchesJob` and `OutcomeStands` inductive.
* `ResultInv`: a stage is left only after its result was stored, which gives
  `CompletedIsReviewed`.

The preservation proof has one lemma per conjunct (`TypeStep`, `ShapeStep`,
`ExistsStep`, `StatusStep`, `ResultStep`), each with a case per action. From it:
`TypeCorrect` (in particular: announced progress is a percentage for any number
of batches, `AiProgressRange`), `CompletedCorrect`, `HistoryCorrect`,
`ProgressCorrect`, `OutcomeCorrect` and `DeletionCorrect`.

**FixPipelineProofs.** `IInv == TypeOK /\ StatusInv /\ PlanInv /\ ReviewInv /\
EditsStayInPlan /\ OfferedPatchWasReviewed` is inductive, for any issues, files,
plans the planner may return, observations of the verifiers and bounds.

* `StatusInv`: the status is the one of the worker's stage, which is why a stage
  that edits or verifies has nothing on offer.
* `PlanInv`: edits start from the reviewed commit and valid plans, and each group
  still to be asked about consists of planned issues (of issues to repair, in a
  repair). With the lemma `PatchIsWithin`, a patch accepted for a group writes
  only files those plans declare, it makes `EditsStayInPlan` inductive.
* `ReviewInv`: between two verifications the tree differs from the one reviewed
  only in files the repair may edit. So when `AfterRepair` compares just these
  files and finds no edit, the whole tree is the one reviewed: the early return
  of `_review_and_repair_patch` keeps verdicts that belong to the patch.

One lemma per conjunct (`TypeStep`, `StatusStep`, `PlanStep`, `ReviewStep`,
`EditsStep`, `OfferedStep`). From it: `TypeCorrect`, `PatchReviewedCorrect`,
`FixedCorrect` (with `CombineIsLeast`: two verdicts combine to "fixed" only if both
are), `EditsCorrect`, and `LifecycleCorrect`, the refinement of `FixLifecycle`.

**ReviewStreamProofs.** `StreamImplementsJob` first: a step of `ReviewStream` is
a step or a stutter of `ReviewJob`, so `IInv` of `ReviewJobProofs` holds of it.
On top of it `StreamInv` is inductive.

* `OutcomeInv`: there is one outcome, the worker announces it last, and from then
  on the row says the same. With `TruthInv` (whatever is stored, buffered or told
  of an outcome is that one) it gives `ToldTheTruth`.
* `DeliveryInv`: once the outcome is in the snapshot, a stream that has not
  read the snapshot will find it there, or has it from the database.
  `NoMissedOutcome` is inductive with it: the outcome reaches a stream by the
  snapshot before it subscribes and by the channel after.

From it: `StreamTypeCorrect`, `NoMissedCorrect`, `TruthCorrect`, and
`LifecycleCorrect`, the refinement of `ReviewLifecycle` by reviews without
status requests (its hypothesis `Patches = {}`; the status endpoint sets any
status, so with it the refinement is false).

**AuthTokensProofs.** `AuthInv` is inductive, for any number of users, requests
served at a time and pairs, and any lives of the tokens.

* `ChainInv`: unless refreshes raced, all but the last refresh token of a session
  are revoked. `AloneInv`: requests of a user that overlap know of each other.
* `LogoutInv` and `LogoutAllInv` say what a logout that nobody overlaps has done
  so far: nothing is issued in its session meanwhile, so the token it revokes is
  the last one and its cutoff is not before any access token.
* `EndedInv`: nothing brings an ended session back. `CutOff(n)` covers an access
  token until it expires, although the cutoff in Redis expires too: both are
  compared in seconds, and a later logout only moves the cutoff forward.

From it: `AuthTypeCorrect`, `LogoutCorrect`; and `SessionsCorrect`, by counting:
a step that adds a token that is not revoked to a session revokes another one or
adds a race.

**ProbeJudgeProofs.** `JudgeInv == JudgeTypeOK /\ TaskInv /\ SessionInv /\
LoopInv /\ CountInv` is inductive, for any batches, budget, retries and number of
tasks at a time.

* `TaskInv`: a probe without a verdict is being asked about or kept for later, so
  a task that ends with an answer has a verdict for each.
* `SessionInv`: when the circuit opens, only requests past the check can still go
  out, and the one that opened it is none of them.
* `CountInv`: the summary counts the verdicts of the batches handled; with no
  probe in two batches this gives `OneVerdictEach`.

`StoredIssuesAreBacked` needs what the folds of `ProbeEvidence` compute.
`FoldLeft` of the community modules is a function chosen by its equation;
`FoldExists` shows, by induction (`Induction`, over a set that stands for the
predicate), that one exists whenever each step stays in a set, and so what a fold
returns can be proved step by step. `SortedInFacts`: inserting an issue keeps a
group sorted. `KeepApart`: in a sorted group an issue overlaps at most one of
those kept, since two would share its first line, so putting it in the place of
that one leaves no overlap. (For unsorted issues this is false.) `DedupFacts`:
what is left of the issues of all batches has no overlapping twins. `IssueInv`
adds that what is pending is backed and that the counts add up.

From it: `JudgeTypeCorrect`, `BoundsCorrect`, `AllOrNothingCorrect`,
`VerdictsCorrect`, `BackedCorrect`.

**CodeIndexProofs.** `IndexInv == IndexTypeOK /\ VectorsInv /\ ScopeInv /\
ProgressInv /\ SearchStaysInSnapshot` is inductive, for any snapshots, files,
jobs, crashes and batch sizes.

* `VectorsInv`: a vector stands for the document its id is made of, whichever job
  wrote it last. So a job that finds its id may reuse the vector.
* `ScopeInv`: what a job may drop is of its own snapshot, and what it drops no
  job of that snapshot needs, as they have the same documents.
* `ProgressInv`: what a job has behind it is in MongoDB and in the collection,
  and no other job takes it away. `IndexedIsSearchable` follows from it.

A search needs `SelectDiverse` to return as many places as asked for whatever the
ranking, which rests on each chunk having one vector of its snapshot (`CacheId`
is one-to-one on the documents of a snapshot). From it: `IndexedCorrect`,
`SearchCorrect`.

**ProbeRetrievalProofs.** `RetrievalInv == RetrievalTypeOK /\ FreshInv /\ ApartInv
/\ EveryChunkIsAudited /\ CoverageLooksElsewhere /\ EvidenceSurvives /\
StructuralEvidenceKept` is inductive, for any corpora, probes, rules, search
results and caps. TLC checked it on the constants of `evidence` first.

* `RetrievalTypeOK` says of which lane each probe and bundle is: the bundles kept
  are of the lanes before, those found of the present one.
* `FreshInv`: what was just found is not trimmed, so what a lane found and what it
  has evidence for are the same.
* `ApartInv`: in the coverage lane `excluded` has the keys of all bundles kept and
  found, and these have no key in common.

What a step computes needs facts about the operators, from the bottom up:

* Folds are run step by step as in `ProbeJudgeProofs`. `ElementsFacts` and
  `InOrderFacts` say that filtering and sorting keep and permute the elements; no
  other property of an order is needed, so the theorems hold for any ranking.
* `FusedFacts`: fusion, quotas and filling up put a structural candidate first if
  there is one. `ExpandedFacts`: related chunks come after it and from documents
  that are not excluded. Together `RetrievedFacts`, which gives
  `StructuralEvidenceKept` and keeps `ApartInv`.
* `KeepOneFacts`, `ReservedFacts`, `KeptFacts`: the keys kept and the slots left
  never exceed the cap, and the first chunk of each leading bundle is among them,
  since `max(cap, number of bundles with chunks)` leaves a slot to each.
  `TrimmedFacts` and `TrimmedLaneFacts` say so of what trimming returns; `LessFits`
  and the `Join` lemmas carry it over to the bundles of all lanes.
* `SliceFacts`, `AuditFacts`: the slices of a full audit leave out no chunk.
* `PlanFacts`: each probe of a plan is of a lane, and only coverage probes have a file.

From it: `AllAudited`, `LooksElsewhere`, `TrimmingLeavesEvidence` and
`PatternsGetEvidence`.

**Only model-checked.** `PublishSettles`, `StreamCloses`, `ReviewEnds` and
`FixEnds` are liveness under fairness, which this prover does not reach (nor
ENABLED, nor RECURSIVE operators). Every other property of a passing run is a
theorem. The operators of `ReviewPlan`, `CodeChunks`, `Findings` and `Reports`, and
what those of `ProbePlan` and `ProbeRanking` compute beyond the facts above, are
checked over bounded inputs or by the runs alone.

## 14. Disagreements found

Each is a place where the text of the source and its behaviour disagree, shown
by a run that TLC ends with a counterexample.

1. `FixPublishCanceledError` is "raised when a user cancels an in-flight publish
   before side effects" (`publish_pipeline.py:67`); the second check that raises
   it comes after the branch was pushed and BRANCH_PUSHED audited. Run
   `publish_cancel_late`.
2. `mark_publish_failed` persists "a recoverable publish failure"
   (`fix_job_repository.py:234`); after an attempt recorded its pull request, a
   later exception marks the job FAILED with its URL set, and every retry is
   turned away as already published. Run `publish_failed_for_good`.
3. A test of `_trim_bundles` asks for one chunk and asserts "len(trimmed[0].candidate_chunks)
   == 1" (`test_probe_review.py:1654`); `_expand_related_candidates` compares adjacent
   chunks with the first selected ones only (`candidate_retrieval.py:231`), so a bundle can
   hold a chunk twice, and trimming by key keeps both copies in one slot. Run
   `evidence_cap`.

Two smaller ones need no run: the docstring of `calculate_ai_review_progress` speaks of
"the reserved 88-94% range" (`pipeline/service.py:567`), its constants are 50 and 92
(`AiStart` and `AiEnd` of `ReviewJob`), so the first of two batches announces 71. And
`_mark_worker_startup_failure` says "Persist failures that happen before
ReviewPipelineService can run." (`review_worker.py:120`), but the worker calls it
for the embedding store only; any other failure that early is an `Escape`.

## 15. Not modelled, and the plan

Left out of the modelled components: the content of patches, reports, messages
and prompts; heartbeats and the SSE format; the fork that is pushed to when the
user may not push (the same steps on another repository); columns nothing reads
again; how the verifiers of `verification.py` collect what they observe from
syntax trees; embeddings and BM25 scores; the store of roadmap documents, built
offline.

Done, in this order:

1. `FixPublish`, `PublishContract`, `FixPublishProofs`: irrevocable effects and
   overlapping workers.
2. `ReviewJob`, `ReviewStream`, `ReviewLifecycle`, `ReviewJobProofs`: the main
   flow of the program.
3. `FixPipeline`, `FixContracts`, `FixVerifiers`, `FixLifecycle`,
   `FixPipelineProofs`: how a patch comes about.
4. `ProbePatterns`, `ProbePlan`, `ProbeRanking`, `ProbeRetrieval`,
   `ProbeEvidence`, `ProbeJudge`, `ReviewPlan`: the AI review.
5. `AuthTokens`, `CodeChunks`, `CodeIndex`, `Findings`, `Reports`.
6. `ReviewStreamProofs`, `AuthTokensProofs`, `ProbeJudgeProofs`,
   `CodeIndexProofs`, `ProbeRetrievalProofs`.

Next:

7. `FixStream`: `ReviewStream`'s protocol over the announcements of
   `FixPipeline`.
8. `SandboxCleanup`, composed with `FixPublish`: the list of expired sandboxes
   against a retry, with the age of a directory abstracted to fresh or expired.
9. `RateLimit`: the counter that is incremented and given its expiry in two calls
   (`core/dependencies.py`).

Not planned, since they have no state others depend on or only call out:
analyzers, model construction and tracing, AI trace storage, repository summary,
the roadmap catalogue and rules, users, providers, repositories, health, schemas,
settings, frontend, migrations, deployment.
