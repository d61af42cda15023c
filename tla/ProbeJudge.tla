------------------------------ MODULE ProbeJudge ------------------------------
(***************************************************************************)
(* Judging the probes of a review: one task per batch of evidence, a few   *)
(* at a time, each asking the model until every probe of the batch has     *)
(* exactly one verdict; a main loop that takes the outcomes in the order   *)
(* in which they come in, and stores the issues when all are there.  The   *)
(* tasks share one model session: a budget of calls, a circuit breaker and *)
(* a lock that spaces requests out.                                        *)
(***************************************************************************)
EXTENDS ProbeEvidence

CONSTANTS Batches,       \* of evidence bundles [probe, lane, chunks]: see JudgeBatches
          Concurrency,   \* max_concurrency
          IssueResults,  \* results with issues the model may return
          CallBudget,    \* llm_job_call_budget
          MaxRetries     \* openai_max_retries

Tasks == DOMAIN Batches

Probes(b) == {Batches[b][k].probe : k \in DOMAIN Batches[b]}

AllProbes == UNION {Probes(b) : b \in Tasks}

\* No batch is empty, and no probe is in two of them.
ASSUME JudgeAssumption ==
  /\ Concurrency \in Nat \ {0} /\ CallBudget \in Nat /\ MaxRetries \in Nat
  /\ Len(Batches) \in Nat /\ Tasks = 1 .. Len(Batches)
  /\ IsFiniteSet(AllProbes)
  /\ \A b \in Tasks :
       Probes(b) # {} /\ \A c \in Tasks \ {b} : Probes(b) \cap Probes(c) = {}
  /\ \A result \in IssueResults : result.verdict = "issue"

IsIssue(i) ==
  /\ {"key", "file", "first", "last", "confidence"} \subseteq DOMAIN i
  /\ i.first \in Nat /\ i.last \in Nat /\ i.confidence \in Nat \cup {NoValue}

ASSUME IssueAssumption ==
  /\ \A b \in Tasks : Batches[b] \in Seq(ToSet(Batches[b]))
  /\ \A result \in IssueResults :
       /\ result.confidence \in Nat \cup {NoValue}
       /\ result.issues \in Seq(ToSet(result.issues))
       /\ \A issue \in ToSet(result.issues) : IsIssue(issue)

\* The chunks shown to the judge with this batch.
Shown(b) == UNION {Batches[b][k].chunks : k \in DOMAIN Batches[b]}

Plain(verdict) == [verdict |-> verdict, issues |-> <<>>, confidence |-> NoValue]

Results == IssueResults \cup {Plain("no_issue"), Plain("uncertain")}

Answers(ids) ==
  [said : [ids -> Results \cup {Plain("none"), Plain("several")}], stray : BOOLEAN]

Active == {"ready", "pacing", "calling", "backoff"}

TaskState == Active \cup {"waiting", "answered", "rejected", "failed", "handled", "canceled"}

VARIABLES
  task,       \* what the task of each batch does
  phase,      \* first, retry or single
  asked,      \* the probes its present request is about
  left,       \* probes still to be asked about one by one
  accepted,   \* the results accepted so far or, of a task that is done, handed over
  attempt,    \* transient failures of the present request
  calls,      \* call_count of the session
  circuit,    \* openai_circuit_open
  late,       \* requests sent although the circuit was open
  main,       \* the main loop
  outcomes,   \* finished tasks the main loop has not looked at, oldest first
  pending,    \* pending_issues
  summary,    \* ProbeJudgeSummary
  stored      \* the AI issues in the database; NoValue: those of an earlier run

request == <<phase, asked, left, accepted, attempt>>
session == <<calls, circuit, late>>
loop == <<main, outcomes, pending, summary, stored>>
vars == <<task, request, session, loop>>

NoSummary == [batches |-> 0, reported |-> 0, created |-> 0, rejected |-> 0,
              noIssue |-> 0, uncertain |-> 0]

\* No result for any probe.
Nothing(b) == [p \in Probes(b) |-> Plain("none")]

Init ==
  /\ task = [b \in Tasks |-> "waiting"]
  /\ phase = [b \in Tasks |-> "first"]
  /\ asked = [b \in Tasks |-> Probes(b)]
  /\ left = [b \in Tasks |-> {}]
  /\ accepted = [b \in Tasks |-> Nothing(b)]
  /\ attempt = [b \in Tasks |-> 0]
  /\ calls = 0 /\ circuit = FALSE /\ late = 0
  /\ main = "judging" /\ outcomes = <<>> /\ pending = <<>>
  /\ summary = NoSummary /\ stored = NoValue

Become(b, from, to) == task[b] = from /\ task' = [task EXCEPT ![b] = to]

\* Task b is done: the main loop will see it.  All that is left of what it
\* knew is what it hands over, these results.
End(b, state, results) ==
  /\ task' = [task EXCEPT ![b] = state]
  /\ accepted' = [accepted EXCEPT ![b] = results]
  /\ phase' = [phase EXCEPT ![b] = "first"]
  /\ asked' = [asked EXCEPT ![b] = Probes(b)]
  /\ left' = [left EXCEPT ![b] = {}]
  /\ attempt' = [attempt EXCEPT ![b] = 0]
  /\ outcomes' = Append(outcomes, b)
  /\ UNCHANGED <<main, pending, summary, stored>>

Ask(b, ids, how) ==
  /\ task' = [task EXCEPT ![b] = "ready"]
  /\ phase' = [phase EXCEPT ![b] = how]
  /\ asked' = [asked EXCEPT ![b] = ids]
  /\ attempt' = [attempt EXCEPT ![b] = 0]
  /\ UNCHANGED loop

\* accepted.update(_valid_results_by_probe(answer, asked))
Updated(b, answer) ==
  [p \in Probes(b) |-> IF p \in ValidResults(answer, asked[b])
                         THEN answer.said[p] ELSE accepted[b][p]]

AskSingly(b, ids) ==
  \E p \in ids : Ask(b, {p}, "single") /\ left' = [left EXCEPT ![b] = ids \ {p}]

-----------------------------------------------------------------------------
(***************************************************************************)
(* Slips: actions with a mistake this code could have had.                 *)
(***************************************************************************)

\* max_concurrency is not applied to the tasks.
EnterAtOnce(b) ==
  /\ Become(b, "waiting", "ready")
  /\ \A c \in Tasks : c < b => task[c] # "waiting"
  /\ UNCHANGED <<request, session, loop>>

\* A request that is repeated is not checked again.
WakeUpUnchecked(b) ==
  /\ Become(b, "backoff", "pacing")
  /\ calls' = calls + 1
  /\ UNCHANGED <<circuit, late, request, loop>>

\* The error is passed on without stopping the other tasks.
StopOnlyLoop ==
  /\ main = "stopping"
  /\ main' = "failed"
  /\ UNCHANGED <<task, request, session, outcomes, pending, summary, stored>>

-----------------------------------------------------------------------------
(***************************************************************************)
(* A task.                                                                 *)
(***************************************************************************)

\* The semaphore lets tasks in in their order.
Enter(b) ==
  /\ Become(b, "waiting", "ready")
  /\ \A c \in Tasks : c < b => task[c] # "waiting"
  /\ Cardinality({c \in Tasks : task[c] \in Active}) < Concurrency
  /\ UNCHANGED <<request, session, loop>>

\* _before_model_request: no await between the check and the count.
BeforeRequest(b) ==
  /\ IF calls >= CallBudget \/ circuit
       THEN task[b] = "ready" /\ End(b, "failed", Nothing(b)) /\ UNCHANGED calls
       ELSE /\ Become(b, "ready", "pacing")
            /\ calls' = calls + 1
            /\ UNCHANGED <<request, loop>>
  /\ UNCHANGED <<circuit, late>>

\* _pace_async_request: it has waited for the lock and for its turn.
Send(b) ==
  /\ Become(b, "pacing", "calling")
  /\ late' = IF circuit THEN late + 1 ELSE late
  /\ UNCHANGED <<calls, circuit, request, loop>>

Take(b, answer) ==
  /\ LET valid == ValidContract(answer, asked[b])
         retry == ToRetry(answer, asked[b])
         results == Updated(b, answer)
         goOn == accepted' = [accepted EXCEPT ![b] = results]
     IN CASE phase[b] = "first" /\ ~valid -> goOn /\ Ask(b, retry, "retry") /\ UNCHANGED left
          [] phase[b] = "retry" /\ ~valid -> goOn /\ AskSingly(b, retry)
          [] phase[b] = "single" /\ valid /\ left[b] # {} -> goOn /\ AskSingly(b, left[b])
          [] phase[b] = "single" /\ ~valid -> End(b, "rejected", Nothing(b))
          [] OTHER -> End(b, "answered", results)
  /\ UNCHANGED session

Answered(b) ==
  /\ task[b] = "calling"
  /\ \E answer \in Answers(asked[b]) : Take(b, answer)

\* A transient error, repeated after a delay.
BackOff(b) ==
  /\ Become(b, "calling", "backoff")
  /\ attempt[b] < MaxRetries
  /\ attempt' = [attempt EXCEPT ![b] = @ + 1]
  /\ UNCHANGED <<phase, asked, left, accepted, session, loop>>

WakeUp(b) ==
  /\ Become(b, "backoff", "ready")
  /\ UNCHANGED <<request, session, loop>>

\* A transient error that is not repeated (any more) opens the circuit.
FailTransient(b) ==
  /\ task[b] = "calling"
  /\ circuit' = TRUE
  /\ End(b, "failed", Nothing(b))
  /\ UNCHANGED <<calls, late>>

FailPermanent(b) ==
  /\ task[b] = "calling"
  /\ End(b, "failed", Nothing(b))
  /\ UNCHANGED session

-----------------------------------------------------------------------------
(***************************************************************************)
(* The main loop.                                                          *)
(***************************************************************************)

\* _build_batch_issues: the accepted issues of all results.
Build(b) ==
  LET add(issues, bundle) == AddAccepted(issues, accepted[b][bundle.probe], Shown(b))
  IN FoldLeft(add, <<>>, Batches[b])

CountOf(b, verdict) == Cardinality({p \in Probes(b) : accepted[b][p].verdict = verdict})

Reported(b) ==
  FoldLeft(LAMBDA n, bundle : n + Len(accepted[b][bundle.probe].issues), 0, Batches[b])

HandleOutcome ==
  /\ main = "judging" /\ outcomes # <<>>
  /\ LET b == Head(outcomes) IN
     IF task[b] = "answered"
       THEN LET issues == Build(b) IN
            /\ task' = [task EXCEPT ![b] = "handled"]
            /\ pending' = pending \o issues
            /\ summary' = [batches   |-> summary.batches + 1,
                           reported  |-> summary.reported + Reported(b),
                           created   |-> summary.created + Len(issues),
                           rejected  |-> summary.rejected + Reported(b) - Len(issues),
                           noIssue   |-> summary.noIssue + CountOf(b, "no_issue"),
                           uncertain |-> summary.uncertain + CountOf(b, "uncertain")]
            /\ main' = "reporting"
       ELSE main' = "stopping" /\ UNCHANGED <<task, pending, summary>>
  /\ outcomes' = Tail(outcomes)
  /\ UNCHANGED <<request, session, stored>>

\* The trace is written and on_batch_completed called; either may raise.
Report ==
  /\ main = "reporting"
  /\ main' \in {"judging", "stopping"}
  /\ UNCHANGED <<task, request, session, outcomes, pending, summary, stored>>

\* finally: whatever still runs is canceled and waited for.
Stop ==
  /\ main = "stopping"
  /\ task' = [b \in Tasks |-> IF task[b] \in Active \cup {"waiting"} THEN "canceled" ELSE task[b]]
  /\ main' = "failed"
  /\ UNCHANGED <<request, session, outcomes, pending, summary, stored>>

\* replace_ai_issues, in one transaction that may fail.
Store ==
  /\ main = "judging" /\ \A b \in Tasks : task[b] = "handled"
  /\ LET kept == Deduplicated(pending) IN
     /\ summary' = [summary EXCEPT
          !.created = Cardinality(kept),
          !.rejected = @ + Len(pending) - Cardinality(kept)]
     /\ \/ main' = "done" /\ stored' = kept
        \/ main' = "failed" /\ UNCHANGED stored
  /\ UNCHANGED <<task, request, session, outcomes, pending>>

-----------------------------------------------------------------------------

TaskStep(b) ==
  \/ Enter(b) \/ BeforeRequest(b) \/ Send(b) \/ Answered(b)
  \/ BackOff(b) \/ WakeUp(b) \/ FailTransient(b) \/ FailPermanent(b)

MainStep == HandleOutcome \/ Report \/ Stop \/ Store

Over ==
  /\ main \in {"done", "failed"}
  /\ UNCHANGED vars

(***************************************************************************)
(* One event loop runs the tasks and the main loop, whichever can go on.   *)
(* Only a judging that is over may stop: TLC's deadlock check looks for    *)
(* tasks and loop waiting for each other, and as calls, attempts and       *)
(* questions are bounded, a judging that never stops early ends.           *)
(***************************************************************************)
Next == MainStep \/ (\E b \in Tasks : TaskStep(b)) \/ Over

Spec == Init /\ [][Next]_vars

-----------------------------------------------------------------------------

JudgeTypeOK ==
  /\ task \in [Tasks -> TaskState]
  /\ phase \in [Tasks -> {"first", "retry", "single"}]
  /\ asked \in [Tasks -> SUBSET AllProbes] /\ left \in [Tasks -> SUBSET AllProbes]
  /\ DOMAIN accepted = Tasks
  /\ \A b \in Tasks :
       /\ asked[b] \subseteq Probes(b) /\ asked[b] # {} /\ left[b] \subseteq Probes(b)
       /\ accepted[b] \in [Probes(b) -> Results \cup {Plain("none")}]
  /\ attempt \in [Tasks -> 0..MaxRetries]
  /\ calls \in Nat /\ late \in Nat /\ circuit \in BOOLEAN
  /\ main \in {"judging", "reporting", "stopping", "done", "failed"}
  /\ outcomes \in Seq(Tasks)
  /\ DOMAIN summary = DOMAIN NoSummary
  /\ summary.batches \in 0..Len(Batches)

(***************************************************************************)
(* "Exactly one result for every probe": when issues are stored, each      *)
(* probe that had evidence was counted with one verdict, over partial      *)
(* answers, retries and single questions.                                  *)
(***************************************************************************)
OneVerdictEach ==
  main = "done" =>
    /\ \A b \in Tasks : \A p \in Probes(b) : accepted[b][p].verdict # "none"
    /\ summary.noIssue + summary.uncertain
         + Cardinality({p \in AllProbes : \E b \in Tasks :
             p \in Probes(b) /\ accepted[b][p].verdict = "issue"}) = Cardinality(AllProbes)

(***************************************************************************)
(* However the tasks interleave, a job sends no more requests than its     *)
(* budget, and after the circuit opened only those that were already past  *)
(* the check: fewer than the tasks that run at a time.                     *)
(***************************************************************************)
RequestsAreBounded ==
  /\ calls <= CallBudget
  /\ late < Concurrency

(***************************************************************************)
(* AI issues are replaced all together or not at all: never by those of    *)
(* some of the batches, and once the review is over no task of it is left  *)
(* that could still call the model.                                        *)
(***************************************************************************)
AllOrNothing ==
  /\ stored # NoValue => \A b \in Tasks : task[b] = "handled"
  /\ main = "failed" => stored = NoValue
  /\ main \in {"done", "failed"} => \A b \in Tasks : task[b] \notin Active \cup {"waiting"}

IsBacked(i) ==
  /\ i.confidence >= MinConfidence
  /\ \E b \in Tasks : \A line \in {i.first, i.last} :
       \E c \in Shown(b) : c.file = i.file /\ Inside(line, c)

(***************************************************************************)
(* What is stored was confident enough and starts and ends on lines of its *)
(* file that were shown with its batch, and no two stored issues with the  *)
(* same key overlap, from whatever batches they came; and every issue      *)
(* reported is either stored or counted as rejected.                       *)
(***************************************************************************)
StoredIssuesAreBacked ==
  stored # NoValue =>
    /\ \A i \in stored :
         /\ IsBacked(i)
         /\ \A j \in stored : Twins(i, j) /\ Overlap(i, j) => i = j
    /\ summary.reported = summary.created + summary.rejected
    /\ summary.created = Cardinality(stored)

-----------------------------------------------------------------------------
(***************************************************************************)
(* The inductive strengthening of the first four.                          *)
(***************************************************************************)

\* What a task still has to get a verdict on is asked about, or kept for later.
Open(b) == {p \in Probes(b) : accepted[b][p].verdict = "none"}

TaskOK(b) ==
  /\ task[b] \in {"answered", "handled"} => Open(b) = {}
  /\ task[b] \in Active \cup {"waiting"} => Open(b) \subseteq asked[b] \cup left[b]
  /\ phase[b] # "single" => left[b] = {}

TaskInv == \A b \in Tasks : TaskOK(b)

Running == {b \in Tasks : task[b] \in Active}

Pacing == {b \in Tasks : task[b] = "pacing"}

\* Only requests that were past the check when the circuit opened are late.
SessionInv ==
  /\ calls <= CallBudget
  /\ Cardinality(Running) <= Concurrency
  /\ IF circuit THEN late + Cardinality(Pacing) < Concurrency ELSE late = 0

LoopInv ==
  /\ stored # NoValue => main = "done"
  /\ main = "done" => \A b \in Tasks : task[b] = "handled"
  /\ main = "failed" => \A b \in Tasks : task[b] \notin Active \cup {"waiting"}

Handled == {b \in Tasks : task[b] = "handled"}

\* The probes of the batches handled so far that have this verdict.
Judged(verdict) ==
  {p \in AllProbes : \E b \in Handled : p \in Probes(b) /\ accepted[b][p].verdict = verdict}

CountInv ==
  /\ summary.batches = Cardinality(Handled)
  /\ summary.noIssue = Cardinality(Judged("no_issue"))
  /\ summary.uncertain = Cardinality(Judged("uncertain"))

JudgeInv == JudgeTypeOK /\ TaskInv /\ SessionInv /\ LoopInv /\ CountInv

-----------------------------------------------------------------------------
(***************************************************************************)
(* The inductive strengthening of the last one.                            *)
(***************************************************************************)

\* The issues the model may return, each with its confidence.
Final == UNION {{[i EXCEPT !.confidence = Confidence(i, result)] : i \in ToSet(result.issues)} :
                  result \in IssueResults}

Backed == {i \in Final : i.confidence # NoValue /\ i.first <= i.last /\ IsBacked(i)}

IssueInv ==
  /\ pending \in Seq(Backed)
  /\ {summary.reported, summary.created, summary.rejected} \subseteq Int
  /\ summary.reported = summary.created + summary.rejected
  /\ main \in {"judging", "reporting", "stopping"} => summary.created = Len(pending)
  /\ StoredIssuesAreBacked

=============================================================================
