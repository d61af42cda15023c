---------------------------- MODULE ProbeJudgeProofs ----------------------------
(***************************************************************************)
(* Proofs about ProbeJudge, for any batches of any probes, any number of   *)
(* tasks at a time, any budget of calls and of retries, and any results    *)
(* the model may return.                                                   *)
(***************************************************************************)
EXTENDS ProbeJudge, FiniteSetTheorems, SequenceTheorems, TLAPS

(***************************************************************************)
(* The four kinds of results differ in their verdicts.                     *)
(***************************************************************************)
LEMMA Verdicts ==
  /\ \A r \in Results : r.verdict \in {"issue", "no_issue", "uncertain"}
  /\ \A r \in Results \cup {Plain("none"), Plain("several")} :
       r.verdict \notin {"none", "several"} => r \in Results
  /\ Plain("none").verdict = "none"
<1>1. \A v : Plain(v).verdict = v
  BY DEF Plain
<1>2. \A r \in IssueResults : r.verdict = "issue"
  BY JudgeAssumption
<1>. QED BY <1>1, <1>2 DEF Results

(***************************************************************************)
(* The probes to ask about again are of those asked about, and never none. *)
(***************************************************************************)
LEMMA RetryFacts ==
  ASSUME NEW ids, ids # {}, NEW answer
  PROVE  ToRetry(answer, ids) # {} /\ ToRetry(answer, ids) \subseteq ids
BY DEF ToRetry, Disputed

(***************************************************************************)
(* An answer gives a verdict to the probes whose results are valid, and    *)
(* takes back none.                                                        *)
(***************************************************************************)
LEMMA UpdatedFacts ==
  ASSUME JudgeTypeOK, NEW b \in Tasks, NEW answer \in Answers(asked[b])
  PROVE  /\ Updated(b, answer) \in [Probes(b) -> Results \cup {Plain("none")}]
         /\ \A p \in Probes(b) : Updated(b, answer)[p].verdict = "none" =>
              p \in Open(b) \ ValidResults(answer, asked[b])
<1>. DEFINE valid == ValidResults(answer, asked[b])
            update == [p \in Probes(b) |-> IF p \in valid
                         THEN answer.said[p] ELSE accepted[b][p]]
<1>1. Updated(b, answer) = update
  BY DEF Updated
<1>2. answer.said \in [asked[b] -> Results \cup {Plain("none"), Plain("several")}]
  BY DEF Answers
<1>3. ASSUME NEW p \in valid
      PROVE  answer.said[p] \in Results /\ answer.said[p].verdict # "none"
  <2>1. p \in asked[b] /\ answer.said[p].verdict \notin {"none", "several"}
    BY <1>3 DEF ValidResults, Disputed
  <2>. QED BY <1>2, <2>1, Verdicts
<1>4. accepted[b] \in [Probes(b) -> Results \cup {Plain("none")}]
  BY DEF JudgeTypeOK
<1>. HIDE DEF valid
<1>5. update \in [Probes(b) -> Results \cup {Plain("none")}]
  BY <1>3, <1>4
<1>6. ASSUME NEW p \in Probes(b), update[p].verdict = "none"
      PROVE  p \notin valid /\ accepted[b][p].verdict = "none"
  BY <1>3, <1>6
<1>7. \A p \in Probes(b) : update[p].verdict = "none" => p \in Open(b) \ valid
  BY <1>6 DEF Open
<1>. QED BY <1>1, <1>5, <1>7 DEF valid

(***************************************************************************)
(* Taking over results disturbs no other task, and what is open afterwards *)
(* is what they leave open.                                                *)
(***************************************************************************)
LEMMA OverwriteEffect ==
  ASSUME JudgeTypeOK, NEW b \in Tasks,
         NEW results \in [Probes(b) -> Results \cup {Plain("none")}],
         accepted' = [accepted EXCEPT ![b] = results]
  PROVE  /\ DOMAIN accepted' = Tasks
         /\ accepted'[b] = results
         /\ \A c \in Tasks \ {b} : accepted'[c] = accepted[c]
         /\ Open(b)' = {p \in Probes(b) : results[p].verdict = "none"}
<1>1. DOMAIN accepted = Tasks
  BY DEF JudgeTypeOK
<1>2. accepted'[b] = results
  BY <1>1
<1>. QED BY <1>1, <1>2 DEF Open

(***************************************************************************)
(* A task that ends keeps nothing but the results it hands over.           *)
(***************************************************************************)
LEMMA EndEffect ==
  ASSUME JudgeTypeOK, NEW b \in Tasks, NEW t \in {"answered", "rejected", "failed"},
         NEW results \in [Probes(b) -> Results \cup {Plain("none")}],
         End(b, t, results),
         t = "answered" => \A p \in Probes(b) : results[p].verdict # "none"
  PROVE  /\ task' = [task EXCEPT ![b] = t] /\ outcomes' = Append(outcomes, b)
         /\ phase' \in [Tasks -> {"first", "retry", "single"}]
         /\ attempt' \in [Tasks -> 0..MaxRetries]
         /\ asked' \in [Tasks -> SUBSET AllProbes] /\ left' \in [Tasks -> SUBSET AllProbes]
         /\ DOMAIN accepted' = Tasks
         /\ asked'[b] \subseteq Probes(b) /\ asked'[b] # {} /\ left'[b] \subseteq Probes(b)
         /\ accepted'[b] \in [Probes(b) -> Results \cup {Plain("none")}]
         /\ \A c \in Tasks \ {b} : /\ phase'[c] = phase[c] /\ asked'[c] = asked[c]
                                  /\ left'[c] = left[c] /\ accepted'[c] = accepted[c]
         /\ TaskOK(b)'
         /\ UNCHANGED <<main, pending, summary, stored>>
<1>1. /\ task' = [task EXCEPT ![b] = t] /\ outcomes' = Append(outcomes, b)
      /\ accepted' = [accepted EXCEPT ![b] = results]
      /\ phase' = [phase EXCEPT ![b] = "first"]
      /\ asked' = [asked EXCEPT ![b] = Probes(b)]
      /\ left' = [left EXCEPT ![b] = {}]
      /\ attempt' = [attempt EXCEPT ![b] = 0]
      /\ UNCHANGED <<main, pending, summary, stored>>
  BY DEF End
<1>2. /\ task \in [Tasks -> TaskState]
      /\ phase \in [Tasks -> {"first", "retry", "single"}]
      /\ attempt \in [Tasks -> 0..MaxRetries]
      /\ asked \in [Tasks -> SUBSET AllProbes] /\ left \in [Tasks -> SUBSET AllProbes]
  BY DEF JudgeTypeOK
<1>3. Probes(b) # {} /\ Probes(b) \in SUBSET AllProbes /\ 0 \in 0..MaxRetries
  BY JudgeAssumption DEF AllProbes
<1>4. /\ DOMAIN accepted' = Tasks /\ accepted'[b] = results
      /\ \A c \in Tasks \ {b} : accepted'[c] = accepted[c]
      /\ Open(b)' = {p \in Probes(b) : results[p].verdict = "none"}
  BY <1>1, OverwriteEffect
<1>5. task'[b] = t /\ phase'[b] = "first" /\ asked'[b] = Probes(b) /\ left'[b] = {}
  BY <1>1, <1>2
<1>6. \A c \in Tasks \ {b} : /\ phase'[c] = phase[c] /\ asked'[c] = asked[c]
                             /\ left'[c] = left[c]
  BY <1>1, <1>2
<1>7. TaskOK(b)'
  BY <1>4, <1>5 DEF TaskOK, Active
<1>8. /\ phase' \in [Tasks -> {"first", "retry", "single"}]
      /\ attempt' \in [Tasks -> 0..MaxRetries]
  BY <1>1, <1>2, <1>3
<1>9. asked' \in [Tasks -> SUBSET AllProbes] /\ left' \in [Tasks -> SUBSET AllProbes]
  BY <1>1, <1>2, <1>3
<1>. QED BY <1>1, <1>3, <1>4, <1>5, <1>6, <1>7, <1>8, <1>9

\* A task that hands over nothing hands over results of the right type.
LEMMA NothingType ==
  ASSUME NEW b PROVE Nothing(b) \in [Probes(b) -> Results \cup {Plain("none")}]
BY DEF Nothing

(***************************************************************************)
(* A task that asks again asks about all probes still without a verdict,   *)
(* or keeps them for later; one that ends with an answer has left none.    *)
(***************************************************************************)
LEMMA AnsweredEffect ==
  ASSUME JudgeTypeOK, TaskInv, NEW b \in Tasks, Answered(b)
  PROVE  /\ task[b] = "calling"
         /\ \E t \in {"ready", "answered", "rejected"} :
              /\ task' = [task EXCEPT ![b] = t]
              /\ outcomes' = IF t = "ready" THEN outcomes ELSE Append(outcomes, b)
         /\ phase' \in [Tasks -> {"first", "retry", "single"}]
         /\ attempt' \in [Tasks -> 0..MaxRetries]
         /\ asked' \in [Tasks -> SUBSET AllProbes] /\ left' \in [Tasks -> SUBSET AllProbes]
         /\ DOMAIN accepted' = Tasks
         /\ asked'[b] \subseteq Probes(b) /\ asked'[b] # {} /\ left'[b] \subseteq Probes(b)
         /\ accepted'[b] \in [Probes(b) -> Results \cup {Plain("none")}]
         /\ \A c \in Tasks \ {b} : /\ phase'[c] = phase[c] /\ asked'[c] = asked[c]
                                  /\ left'[c] = left[c] /\ accepted'[c] = accepted[c]
         /\ TaskOK(b)'
         /\ UNCHANGED <<session, main, pending, summary, stored>>
<1>1. PICK answer \in Answers(asked[b]) : task[b] = "calling" /\ Take(b, answer)
  BY DEF Answered
<1>. DEFINE valid == ValidContract(answer, asked[b])
            retry == ToRetry(answer, asked[b])
            results == Updated(b, answer)
            GoOn == accepted' = [accepted EXCEPT ![b] = results]
            open == {p \in Probes(b) : results[p].verdict = "none"}
<1>2. UNCHANGED session
  BY <1>1 DEF Take
<1>3. /\ results \in [Probes(b) -> Results \cup {Plain("none")}]
      /\ open \subseteq Open(b) \ ValidResults(answer, asked[b])
  BY UpdatedFacts
<1>4. /\ phase \in [Tasks -> {"first", "retry", "single"}]
      /\ attempt \in [Tasks -> 0..MaxRetries] /\ 0 \in 0..MaxRetries
      /\ task \in [Tasks -> TaskState]
      /\ asked \in [Tasks -> SUBSET AllProbes] /\ left \in [Tasks -> SUBSET AllProbes]
      /\ Probes(b) \subseteq AllProbes
      /\ asked[b] \subseteq Probes(b) /\ asked[b] # {} /\ left[b] \subseteq Probes(b)
  <2>1. \A c \in Tasks : Probes(c) \subseteq AllProbes
    BY DEF AllProbes
  <2>2. /\ asked \in [Tasks -> SUBSET AllProbes] /\ left \in [Tasks -> SUBSET AllProbes]
        /\ asked[b] \subseteq Probes(b) /\ asked[b] # {} /\ left[b] \subseteq Probes(b)
    BY DEF JudgeTypeOK
  <2>3. /\ phase \in [Tasks -> {"first", "retry", "single"}]
        /\ attempt \in [Tasks -> 0..MaxRetries] /\ task \in [Tasks -> TaskState]
    BY DEF JudgeTypeOK
  <2>. QED BY <2>1, <2>2, <2>3, JudgeAssumption
<1>5. retry # {} /\ retry \subseteq asked[b]
  BY <1>4, RetryFacts
<1>6. Open(b) \subseteq asked[b] \cup left[b] /\ (phase[b] # "single" => left[b] = {})
  BY <1>1 DEF TaskInv, TaskOK, Active
<1>7. open \subseteq retry \cup left[b]
  BY <1>3, <1>6 DEF ToRetry, ValidResults
<1>8. valid => open \subseteq left[b]
  BY <1>3, <1>6 DEF ValidContract, ValidResults
<1>8a. GoOn =>
         /\ DOMAIN accepted' = Tasks
         /\ accepted'[b] \in [Probes(b) -> Results \cup {Plain("none")}]
         /\ \A c \in Tasks \ {b} : accepted'[c] = accepted[c]
         /\ Open(b)' = open
  BY <1>3, OverwriteEffect
<1>. HIDE DEF valid, retry, results, GoOn, open
<1>9. ASSUME NEW ids, ids # {}, ids \subseteq Probes(b),
             NEW kept, kept \subseteq Probes(b), Open(b)' \subseteq ids \cup kept,
             NEW how \in {"retry", "single"}, how # "single" => kept = {},
             Ask(b, ids, how), left' \in [Tasks -> SUBSET AllProbes], left'[b] = kept,
             \A c \in Tasks \ {b} : left'[c] = left[c]
      PROVE  /\ task' = [task EXCEPT ![b] = "ready"] /\ TaskOK(b)' /\ UNCHANGED loop
             /\ phase' \in [Tasks -> {"first", "retry", "single"}]
             /\ attempt' \in [Tasks -> 0..MaxRetries]
             /\ asked' \in [Tasks -> SUBSET AllProbes] /\ asked'[b] = ids
             /\ \A c \in Tasks \ {b} : phase'[c] = phase[c] /\ asked'[c] = asked[c]
  <2>1. /\ task' = [task EXCEPT ![b] = "ready"]
        /\ phase' = [phase EXCEPT ![b] = how]
        /\ asked' = [asked EXCEPT ![b] = ids]
        /\ attempt' = [attempt EXCEPT ![b] = 0]
        /\ UNCHANGED loop
    BY <1>9 DEF Ask
  <2>2. task'[b] = "ready" /\ phase'[b] = how /\ asked'[b] = ids
    BY <1>4, <2>1
  <2>3. TaskOK(b)'
    BY <1>9, <2>2 DEF TaskOK
  <2>4. /\ phase' \in [Tasks -> {"first", "retry", "single"}]
        /\ attempt' \in [Tasks -> 0..MaxRetries]
    BY <1>4, <1>9, <2>1
  <2>5. asked' \in [Tasks -> SUBSET AllProbes]
    <3>1. ids \in SUBSET AllProbes
      BY <1>4, <1>9
    <3>. QED BY <1>4, <2>1, <3>1
  <2>6. \A c \in Tasks \ {b} : phase'[c] = phase[c] /\ asked'[c] = asked[c]
    BY <1>4, <2>1
  <2>. QED BY <2>1, <2>2, <2>3, <2>4, <2>5, <2>6
<1>10. CASE phase[b] = "first" /\ ~valid
  <2>1. GoOn /\ Ask(b, retry, "retry") /\ UNCHANGED left
    BY <1>1, <1>10 DEF Take, valid, retry, results, GoOn
  <2>2. left'[b] = {} /\ retry \subseteq Probes(b) /\ Open(b)' \subseteq retry \cup {}
    BY <1>4, <1>5, <1>6, <1>7, <1>10, <1>8a, <2>1
  <2>3. left' \in [Tasks -> SUBSET AllProbes] /\ \A c \in Tasks \ {b} : left'[c] = left[c]
    BY <1>4, <2>1
  <2>4. /\ task' = [task EXCEPT ![b] = "ready"] /\ TaskOK(b)' /\ UNCHANGED loop
        /\ phase' \in [Tasks -> {"first", "retry", "single"}]
        /\ attempt' \in [Tasks -> 0..MaxRetries]
        /\ asked' \in [Tasks -> SUBSET AllProbes] /\ asked'[b] = retry
        /\ \A c \in Tasks \ {b} : phase'[c] = phase[c] /\ asked'[c] = asked[c]
    BY <1>5, <1>9, <2>1, <2>2, <2>3
  <2>. QED BY <1>1, <1>2, <1>5, <1>8a, <2>1, <2>2, <2>3, <2>4 DEF loop
<1>11. ASSUME NEW ids, ids # {}, ids \subseteq Probes(b), Open(b)' \subseteq ids,
              AskSingly(b, ids)
       PROVE  /\ task' = [task EXCEPT ![b] = "ready"] /\ TaskOK(b)' /\ UNCHANGED loop
              /\ phase' \in [Tasks -> {"first", "retry", "single"}]
              /\ attempt' \in [Tasks -> 0..MaxRetries]
              /\ asked' \in [Tasks -> SUBSET AllProbes] /\ left' \in [Tasks -> SUBSET AllProbes]
              /\ asked'[b] \subseteq Probes(b) /\ asked'[b] # {} /\ left'[b] \subseteq Probes(b)
              /\ \A c \in Tasks \ {b} : /\ phase'[c] = phase[c] /\ asked'[c] = asked[c]
                                       /\ left'[c] = left[c]
  <2>1. PICK p \in ids : Ask(b, {p}, "single") /\ left' = [left EXCEPT ![b] = ids \ {p}]
    BY <1>11 DEF AskSingly
  <2>2. /\ left' \in [Tasks -> SUBSET AllProbes] /\ left'[b] = ids \ {p}
        /\ \A c \in Tasks \ {b} : left'[c] = left[c]
    BY <1>4, <1>11, <2>1
  <2>3. {p} # {} /\ {p} \subseteq Probes(b) /\ ids \ {p} \subseteq Probes(b)
        /\ Open(b)' \subseteq {p} \cup (ids \ {p})
    BY <1>11
  <2>. QED BY <1>9, <2>1, <2>2, <2>3
<1>12. CASE phase[b] = "retry" /\ ~valid
  <2>1. GoOn /\ AskSingly(b, retry)
    BY <1>1, <1>12 DEF Take, valid, retry, results, GoOn
  <2>2. Open(b)' \subseteq retry /\ retry \subseteq Probes(b)
    BY <1>4, <1>5, <1>6, <1>7, <1>12, <1>8a, <2>1
  <2>. QED BY <1>1, <1>2, <1>5, <1>11, <1>8a, <2>1, <2>2 DEF loop
<1>13. CASE phase[b] = "single" /\ valid /\ left[b] # {}
  <2>1. GoOn /\ AskSingly(b, left[b])
    BY <1>1, <1>13 DEF Take, valid, retry, results, GoOn
  <2>2. Open(b)' \subseteq left[b] /\ left[b] \subseteq Probes(b)
    BY <1>4, <1>8, <1>13, <1>8a, <2>1
  <2>. QED BY <1>1, <1>2, <1>11, <1>13, <1>8a, <2>1, <2>2 DEF loop
<1>14. Nothing(b) \in [Probes(b) -> Results \cup {Plain("none")}]
  BY NothingType
<1>15. CASE phase[b] = "single" /\ ~valid
  <2>1. End(b, "rejected", Nothing(b))
    BY <1>1, <1>15 DEF Take, valid, retry
  <2>. QED BY <1>1, <1>2, <1>14, <2>1, EndEffect
<1>16. CASE valid /\ left[b] = {}
  <2>1. End(b, "answered", results)
    BY <1>1, <1>16 DEF Take, valid, retry, results
  <2>2. open = {}
    BY <1>8, <1>16
  <2>3. \A p \in Probes(b) : results[p].verdict # "none"
    BY <2>2 DEF open
  <2>. QED BY <1>1, <1>2, <1>3, <2>1, <2>3, EndEffect
<1>17. phase[b] \in {"first", "retry", "single"}
  BY <1>4
<1>. QED BY <1>6, <1>10, <1>12, <1>13, <1>15, <1>16, <1>17

(***************************************************************************)
(* What a step of a task does: the task was not yet done, the others are   *)
(* left alone, and what is left to ask is still asked about.               *)
(***************************************************************************)
LEMMA TaskStepEffect ==
  ASSUME JudgeTypeOK, TaskInv, NEW b \in Tasks, TaskStep(b)
  PROVE  /\ task[b] \in Active \cup {"waiting"}
         /\ \E t \in Active \cup {"answered", "rejected", "failed"} :
              task' = [task EXCEPT ![b] = t]
         /\ outcomes' \in {outcomes, Append(outcomes, b)}
         /\ phase' \in [Tasks -> {"first", "retry", "single"}]
         /\ attempt' \in [Tasks -> 0..MaxRetries]
         /\ asked' \in [Tasks -> SUBSET AllProbes] /\ left' \in [Tasks -> SUBSET AllProbes]
         /\ DOMAIN accepted' = Tasks
         /\ asked'[b] \subseteq Probes(b) /\ asked'[b] # {} /\ left'[b] \subseteq Probes(b)
         /\ accepted'[b] \in [Probes(b) -> Results \cup {Plain("none")}]
         /\ \A c \in Tasks \ {b} : /\ phase'[c] = phase[c] /\ asked'[c] = asked[c]
                                  /\ left'[c] = left[c] /\ accepted'[c] = accepted[c]
         /\ TaskOK(b)'
         /\ UNCHANGED <<main, pending, summary, stored>>
<1>1. CASE Answered(b)
  <2>1. PICK t \in {"ready", "answered", "rejected"} :
          /\ task' = [task EXCEPT ![b] = t]
          /\ outcomes' = IF t = "ready" THEN outcomes ELSE Append(outcomes, b)
    BY <1>1, AnsweredEffect
  <2>2. task[b] \in Active /\ t \in Active \cup {"answered", "rejected", "failed"}
    BY <1>1, AnsweredEffect DEF Active
  <2>3. outcomes' \in {outcomes, Append(outcomes, b)}
    BY <2>1
  <2>. QED BY <1>1, <2>1, <2>2, <2>3, AnsweredEffect
<1>2. ASSUME NEW t \in Active, task' = [task EXCEPT ![b] = t],
             task[b] \in Active \cup {"waiting"},
             UNCHANGED <<phase, asked, left, accepted>>
      PROVE  TaskOK(b)'
  <2>1. Open(b)' = Open(b) /\ TaskOK(b) /\ task'[b] = t
    BY <1>2 DEF Open, TaskInv, JudgeTypeOK
  <2>. QED BY <1>2, <2>1 DEF TaskOK, Active
<1>3. /\ phase \in [Tasks -> {"first", "retry", "single"}]
      /\ attempt \in [Tasks -> 0..MaxRetries] /\ MaxRetries \in Nat
      /\ asked \in [Tasks -> SUBSET AllProbes] /\ left \in [Tasks -> SUBSET AllProbes]
      /\ DOMAIN accepted = Tasks
      /\ asked[b] \subseteq Probes(b) /\ asked[b] # {} /\ left[b] \subseteq Probes(b)
      /\ accepted[b] \in [Probes(b) -> Results \cup {Plain("none")}]
  BY JudgeAssumption DEF JudgeTypeOK
<1>4. CASE Enter(b)
  <2>1. task[b] = "waiting" /\ task' = [task EXCEPT ![b] = "ready"] /\ UNCHANGED <<request, loop>>
    BY <1>4 DEF Enter, Become
  <2>. QED BY <1>2, <1>3, <2>1 DEF request, loop, Active
<1>5. CASE BeforeRequest(b)
  <2>1. task[b] = "ready"
    BY <1>5 DEF BeforeRequest, Become
  <2>2. CASE calls >= CallBudget \/ circuit
    <3>1. End(b, "failed", Nothing(b))
      BY <1>5, <2>2 DEF BeforeRequest
    <3>. QED BY <2>1, <3>1, EndEffect, NothingType DEF Active
  <2>3. CASE ~(calls >= CallBudget \/ circuit)
    <3>1. task' = [task EXCEPT ![b] = "pacing"] /\ UNCHANGED <<request, loop>>
      BY <1>5, <2>3 DEF BeforeRequest, Become
    <3>. QED BY <1>2, <1>3, <2>1, <3>1 DEF loop, request, Active
  <2>. QED BY <2>2, <2>3
<1>6. CASE Send(b)
  <2>1. task[b] = "pacing" /\ task' = [task EXCEPT ![b] = "calling"] /\ UNCHANGED <<request, loop>>
    BY <1>6 DEF Send, Become
  <2>. QED BY <1>2, <1>3, <2>1 DEF request, loop, Active
<1>7. CASE BackOff(b)
  <2>1. /\ task[b] = "calling" /\ task' = [task EXCEPT ![b] = "backoff"]
        /\ attempt[b] < MaxRetries /\ attempt' = [attempt EXCEPT ![b] = attempt[b] + 1]
        /\ UNCHANGED <<phase, asked, left, accepted, loop>>
    BY <1>7 DEF BackOff, Become
  <2>2. attempt' \in [Tasks -> 0..MaxRetries]
    BY <1>3, <2>1
  <2>. QED BY <1>2, <1>3, <2>1, <2>2 DEF loop, Active
<1>8. CASE WakeUp(b)
  <2>1. task[b] = "backoff" /\ task' = [task EXCEPT ![b] = "ready"] /\ UNCHANGED <<request, loop>>
    BY <1>8 DEF WakeUp, Become
  <2>. QED BY <1>2, <1>3, <2>1 DEF request, loop, Active
<1>9. CASE FailTransient(b) \/ FailPermanent(b)
  <2>1. task[b] = "calling" /\ End(b, "failed", Nothing(b))
    BY <1>9 DEF FailTransient, FailPermanent
  <2>. QED BY <2>1, EndEffect, NothingType DEF Active
<1>. QED BY <1>1, <1>4, <1>5, <1>6, <1>7, <1>8, <1>9 DEF TaskStep

(***************************************************************************)
(* Sets of tasks and of probes are finite.                                 *)
(***************************************************************************)
LEMMA SomeTasks ==
  ASSUME NEW S \in SUBSET Tasks
  PROVE  IsFiniteSet(S) /\ Cardinality(S) \in 0..Len(Batches)
<1>1. Tasks = 1..Len(Batches) /\ Len(Batches) \in Nat
  BY JudgeAssumption
<1>. DEFINE n == Len(Batches)
<1>2. IsFiniteSet(Tasks) /\ Cardinality(Tasks) = n
  <2>. n \in Nat /\ Tasks = 1..n
    BY <1>1
  <2>. HIDE DEF n
  <2>1. IsFiniteSet(1..n) /\ Cardinality(1..n) = IF 1 > n THEN 0 ELSE n - 1 + 1
    BY FS_Interval
  <2>. QED BY <2>1
<1>3. IsFiniteSet(S) /\ Cardinality(S) <= Cardinality(Tasks)
  BY <1>2, FS_Subset
<1>4. Cardinality(S) \in Nat
  BY <1>3, FS_CardinalityType
<1>. QED BY <1>1, <1>2, <1>3, <1>4

(***************************************************************************)
(* Every set of probes is finite.                                          *)
(***************************************************************************)
LEMMA SomeProbes ==
  ASSUME NEW S \in SUBSET AllProbes
  PROVE  IsFiniteSet(S) /\ Cardinality(S) \in Nat
<1>1. IsFiniteSet(AllProbes)
  BY JudgeAssumption
<1>2. IsFiniteSet(S)
  BY <1>1, FS_Subset
<1>. QED BY <1>2, FS_CardinalityType

(***************************************************************************)
(* A probe is in one batch.                                                *)
(***************************************************************************)
LEMMA OneBatch ==
  ASSUME NEW b \in Tasks, NEW c \in Tasks, NEW p \in Probes(b) \cap Probes(c)
  PROVE  b = c
BY JudgeAssumption

(***************************************************************************)
(* What the main loop does with a task that was answered: it becomes one   *)
(* of those handled, and its verdicts are added to the counts.             *)
(***************************************************************************)
LEMMA HandleEffect ==
  ASSUME JudgeTypeOK, HandleOutcome
  PROVE  LET b == Head(outcomes) IN
         /\ b \in Tasks /\ outcomes' \in Seq(Tasks) /\ UNCHANGED <<request, session, stored>>
         /\ main = "judging"
         /\ \/ /\ task[b] = "answered" /\ task' = [task EXCEPT ![b] = "handled"]
               /\ main' = "reporting" /\ DOMAIN summary' = DOMAIN NoSummary
               /\ summary'.batches = summary.batches + 1
               /\ summary'.noIssue = summary.noIssue + CountOf(b, "no_issue")
               /\ summary'.uncertain = summary.uncertain + CountOf(b, "uncertain")
            \/ main' = "stopping" /\ UNCHANGED <<task, summary>>
<1>. DEFINE b == Head(outcomes)
            issues == Build(b)
<1>1. outcomes \in Seq(Tasks) /\ outcomes # <<>> /\ outcomes' = Tail(outcomes)
  BY DEF HandleOutcome, JudgeTypeOK
<1>2. b \in Tasks /\ outcomes' \in Seq(Tasks)
  BY <1>1, HeadTailProperties
<1>3. CASE task[b] = "answered"
  <2>1. summary' = [batches   |-> summary.batches + 1,
                    reported  |-> summary.reported + Reported(b),
                    created   |-> summary.created + Len(issues),
                    rejected  |-> summary.rejected + Reported(b) - Len(issues),
                    noIssue   |-> summary.noIssue + CountOf(b, "no_issue"),
                    uncertain |-> summary.uncertain + CountOf(b, "uncertain")]
    BY <1>3 DEF HandleOutcome
  <2>. HIDE DEF issues
  <2>2. DOMAIN summary' = DOMAIN NoSummary
    BY <2>1 DEF NoSummary
  <2>. QED BY <1>2, <1>3, <2>1, <2>2 DEF HandleOutcome
<1>4. CASE task[b] # "answered"
  BY <1>2, <1>4 DEF HandleOutcome
<1>. QED BY <1>3, <1>4

(***************************************************************************)
(* When another task is handled, the probes it has found a verdict for are *)
(* counted for the first time.                                             *)
(***************************************************************************)
LEMMA JudgedGrows ==
  ASSUME JudgeTypeOK, NEW b \in Tasks, task[b] # "handled",
         task' = [task EXCEPT ![b] = "handled"], UNCHANGED accepted, NEW verdict
  PROVE  /\ Cardinality(Handled') = Cardinality(Handled) + 1
         /\ Cardinality(Judged(verdict)') = Cardinality(Judged(verdict)) + CountOf(b, verdict)
<1>. DEFINE new == {p \in Probes(b) : accepted[b][p].verdict = verdict}
<1>1. Handled' = Handled \cup {b} /\ b \notin Handled /\ Handled \subseteq Tasks
  BY DEF Handled, JudgeTypeOK
<1>2. Cardinality(Handled') = Cardinality(Handled) + 1
  BY <1>1, SomeTasks, FS_AddElement
<1>3. Probes(b) \subseteq AllProbes
  BY DEF AllProbes
<1>4. Judged(verdict)' = Judged(verdict) \cup new
  BY <1>1, <1>3 DEF Judged
<1>5. Judged(verdict) \cap new = {}
  BY <1>1, OneBatch DEF Judged
<1>6. Judged(verdict) \in SUBSET AllProbes /\ new \in SUBSET AllProbes
  BY <1>3 DEF Judged
<1>. HIDE DEF new
<1>7. Cardinality(Judged(verdict) \cup new) = Cardinality(Judged(verdict)) + Cardinality(new)
  <2>1. /\ IsFiniteSet(Judged(verdict)) /\ IsFiniteSet(new)
        /\ Cardinality(Judged(verdict)) \in Nat /\ Cardinality(new) \in Nat
    BY <1>6, SomeProbes
  <2>2. Cardinality(Judged(verdict) \cup new)
          = Cardinality(Judged(verdict)) + Cardinality(new) - Cardinality(Judged(verdict) \cap new)
    BY <2>1, FS_Union
  <2>3. Cardinality(Judged(verdict) \cap new) = 0
    BY <1>5, FS_EmptySet
  <2>. QED BY <2>1, <2>2, <2>3
<1>. QED BY <1>2, <1>4, <1>7 DEF CountOf, new

(***************************************************************************)
(* Nothing is counted while no other task is handled.                      *)
(***************************************************************************)
LEMMA JudgedKept ==
  ASSUME Handled' = Handled, \A b \in Handled : accepted'[b] = accepted[b], NEW verdict
  PROVE  Judged(verdict)' = Judged(verdict)
BY DEF Judged

(***************************************************************************)
(* What the main loop does otherwise: the tasks handled remain, and no     *)
(* task begins to run.                                                     *)
(***************************************************************************)
LEMMA MainEffect ==
  ASSUME JudgeTypeOK, Report \/ Stop \/ Store
  PROVE  /\ task' \in [Tasks -> TaskState]
         /\ \A b \in Tasks : task'[b] \in {task[b], "canceled"}
         /\ Handled' = Handled
         /\ UNCHANGED <<request, session, outcomes>>
         /\ DOMAIN summary' = DOMAIN NoSummary /\ summary'.batches = summary.batches
         /\ summary'.noIssue = summary.noIssue /\ summary'.uncertain = summary.uncertain
         /\ main' \in {"judging", "reporting", "stopping", "done", "failed"}
<1>1. task \in [Tasks -> TaskState] /\ DOMAIN summary = DOMAIN NoSummary
  BY DEF JudgeTypeOK
<1>2. CASE Report
  BY <1>1, <1>2 DEF Report, Handled
<1>3. CASE Stop
  BY <1>1, <1>3 DEF Stop, Handled, Active, TaskState
<1>4. CASE Store
  <2>1. /\ summary' = [summary EXCEPT
             !.created = Cardinality(Deduplicated(pending)),
             !.rejected = @ + Len(pending) - Cardinality(Deduplicated(pending))]
        /\ UNCHANGED <<task, request, session, outcomes>> /\ main' \in {"done", "failed"}
    BY <1>4 DEF Store
  <2>2. "batches" \in DOMAIN summary /\ "noIssue" \in DOMAIN summary /\ "uncertain" \in DOMAIN summary
    BY <1>1 DEF NoSummary
  <2>3. /\ DOMAIN summary' = DOMAIN NoSummary /\ summary'.batches = summary.batches
        /\ summary'.noIssue = summary.noIssue /\ summary'.uncertain = summary.uncertain
    BY <1>1, <2>1, <2>2
  <2>. QED BY <1>1, <2>1, <2>3 DEF Handled
<1>. QED BY <1>2, <1>3, <1>4

(***************************************************************************)
(* A step of a task, while the main loop is not over, handles no task.     *)
(***************************************************************************)
LEMMA TaskStepFrame ==
  ASSUME JudgeTypeOK, TaskInv, NEW b \in Tasks, TaskStep(b)
  PROVE  /\ task' \in [Tasks -> TaskState] /\ task[b] # "handled"
         /\ \A c \in Tasks \ {b} : task'[c] = task[c]
         /\ Handled' = Handled /\ \A c \in Handled : accepted'[c] = accepted[c]
<1>1. task \in [Tasks -> TaskState]
  BY DEF JudgeTypeOK
<1>2. PICK t \in Active \cup {"answered", "rejected", "failed"} : task' = [task EXCEPT ![b] = t]
  BY TaskStepEffect
<1>3. task[b] # "handled" /\ t # "handled"
  BY <1>2, TaskStepEffect DEF Active
<1>4. t \in TaskState
  BY <1>2 DEF TaskState
<1>5. Handled' = Handled
  BY <1>1, <1>2, <1>3 DEF Handled
<1>6. \A c \in Handled : c \in Tasks \ {b}
  BY <1>3 DEF Handled
<1>. QED BY <1>1, <1>2, <1>3, <1>4, <1>5, <1>6, TaskStepEffect

(***************************************************************************)
(* Init establishes the invariant.                                         *)
(***************************************************************************)
LEMMA JudgeInit ==
  Init => JudgeInv
<1>. SUFFICES ASSUME Init PROVE JudgeInv
  OBVIOUS
<1>. USE JudgeAssumption
<1>1. \A b \in Tasks : Probes(b) \subseteq AllProbes /\ Probes(b) # {}
  BY DEF AllProbes
<1>2. JudgeTypeOK
  <2>1. /\ task \in [Tasks -> TaskState] /\ phase \in [Tasks -> {"first", "retry", "single"}]
        /\ attempt \in [Tasks -> 0..MaxRetries]
    BY DEF Init, TaskState
  <2>2. /\ asked \in [Tasks -> SUBSET AllProbes] /\ left \in [Tasks -> SUBSET AllProbes]
        /\ DOMAIN accepted = Tasks
        /\ \A b \in Tasks :
             /\ asked[b] \subseteq Probes(b) /\ asked[b] # {} /\ left[b] \subseteq Probes(b)
             /\ accepted[b] \in [Probes(b) -> Results \cup {Plain("none")}]
    BY <1>1 DEF Init, Nothing
  <2>3. DOMAIN summary = DOMAIN NoSummary /\ summary.batches \in 0..Len(Batches)
    BY DEF Init, NoSummary
  <2>4. outcomes \in Seq(Tasks)
    BY EmptySeq DEF Init
  <2>. QED BY <2>1, <2>2, <2>3, <2>4 DEF JudgeTypeOK, Init
<1>3. TaskInv
  <2>1. ASSUME NEW b \in Tasks PROVE TaskOK(b)
    <3>1. Open(b) \subseteq asked[b] /\ task[b] = "waiting" /\ left[b] = {}
      BY DEF Init, Open, Nothing
    <3>. QED BY <3>1 DEF TaskOK
  <2>. QED BY <2>1 DEF TaskInv
<1>4. SessionInv
  <2>1. Running = {}
    BY DEF Init, Running, Active
  <2>2. Cardinality(Running) = 0
    BY <2>1, FS_EmptySet
  <2>. QED BY <2>2 DEF Init, SessionInv
<1>5. LoopInv
  BY DEF Init, LoopInv
<1>6. CountInv
  <2>1. Handled = {}
    BY DEF Init, Handled
  <2>2. Judged("no_issue") = {} /\ Judged("uncertain") = {}
    BY <2>1 DEF Judged
  <2>. QED BY <2>1, <2>2, FS_EmptySet DEF Init, CountInv, NoSummary
<1>. QED BY <1>2, <1>3, <1>4, <1>5, <1>6 DEF JudgeInv

(***************************************************************************)
(* As many batches are counted as tasks are handled, and as many probes    *)
(* without an issue, or uncertain, as these tasks have.                    *)
(***************************************************************************)
LEMMA CountStep ==
  ASSUME JudgeInv, [Next]_vars
  PROVE  CountInv' /\ DOMAIN summary' = DOMAIN NoSummary
<1>. JudgeTypeOK /\ TaskInv /\ CountInv
  BY DEF JudgeInv
<1>1. ASSUME Handled' = Handled, \A b \in Handled : accepted'[b] = accepted[b],
             summary'.batches = summary.batches, summary'.noIssue = summary.noIssue,
             summary'.uncertain = summary.uncertain
      PROVE  CountInv'
  BY <1>1, JudgedKept DEF CountInv
<1>2. ASSUME NEW b \in Tasks, TaskStep(b) PROVE CountInv' /\ DOMAIN summary' = DOMAIN NoSummary
  <2>1. summary' = summary
    BY <1>2, TaskStepEffect
  <2>2. Handled' = Handled /\ \A c \in Handled : accepted'[c] = accepted[c]
    BY <1>2, TaskStepFrame
  <2>. QED BY <1>1, <2>1, <2>2 DEF JudgeTypeOK
<1>3. CASE HandleOutcome
  <2>. DEFINE b == Head(outcomes)
  <2>1. b \in Tasks /\ UNCHANGED accepted
    BY <1>3, HandleEffect DEF request
  <2>2. CASE /\ task[b] = "answered" /\ task' = [task EXCEPT ![b] = "handled"]
             /\ DOMAIN summary' = DOMAIN NoSummary
             /\ summary'.batches = summary.batches + 1
             /\ summary'.noIssue = summary.noIssue + CountOf(b, "no_issue")
             /\ summary'.uncertain = summary.uncertain + CountOf(b, "uncertain")
    <3>1. Cardinality(Handled') = Cardinality(Handled) + 1
      BY <2>1, <2>2, JudgedGrows
    <3>2. \A v : Cardinality(Judged(v)') = Cardinality(Judged(v)) + CountOf(b, v)
      BY <2>1, <2>2, JudgedGrows
    <3>. QED BY <2>2, <3>1, <3>2 DEF CountInv
  <2>3. CASE UNCHANGED <<task, summary>>
    BY <1>1, <2>1, <2>3 DEF Handled, JudgeTypeOK
  <2>. QED BY <1>3, <2>2, <2>3, HandleEffect
<1>4. CASE Report \/ Stop \/ Store
  <2>1. Handled' = Handled /\ accepted' = accepted
    BY <1>4, MainEffect DEF request
  <2>. QED BY <1>1, <1>4, <2>1, MainEffect
<1>5. CASE UNCHANGED vars
  BY <1>1, <1>5 DEF vars, request, loop, Handled, JudgeTypeOK
<1>. QED BY <1>2, <1>3, <1>4, <1>5 DEF Next, MainStep, Over

(***************************************************************************)
(* Every step preserves the types.                                         *)
(***************************************************************************)
LEMMA JudgeTypeStep ==
  ASSUME JudgeInv, [Next]_vars
  PROVE  JudgeTypeOK'
<1>. JudgeTypeOK /\ TaskInv
  BY DEF JudgeInv
<1>. USE JudgeAssumption
<1>1. /\ DOMAIN summary' = DOMAIN NoSummary
      /\ summary'.batches \in 0..Len(Batches)
  <2>1. Handled' \in SUBSET Tasks
    BY DEF Handled
  <2>2. Cardinality(Handled') \in 0..Len(Batches)
    BY <2>1, SomeTasks
  <2>3. summary'.batches = Cardinality(Handled')
    BY CountStep DEF CountInv
  <2>. QED BY <2>2, <2>3, CountStep
<1>2. ASSUME NEW b \in Tasks, TaskStep(b) PROVE JudgeTypeOK'
  <2>1. /\ task' \in [Tasks -> TaskState]
        /\ phase' \in [Tasks -> {"first", "retry", "single"}]
        /\ attempt' \in [Tasks -> 0..MaxRetries] /\ DOMAIN accepted' = Tasks
        /\ asked' \in [Tasks -> SUBSET AllProbes] /\ left' \in [Tasks -> SUBSET AllProbes]
    BY <1>2, TaskStepEffect, TaskStepFrame
  <2>2. ASSUME NEW c \in Tasks
        PROVE  /\ asked'[c] \subseteq Probes(c) /\ asked'[c] # {} /\ left'[c] \subseteq Probes(c)
               /\ accepted'[c] \in [Probes(c) -> Results \cup {Plain("none")}]
    BY <1>2, TaskStepEffect DEF JudgeTypeOK
  <2>4. outcomes' \in Seq(Tasks)
    <3>1. outcomes \in Seq(Tasks) /\ Append(outcomes, b) \in Seq(Tasks)
      BY AppendProperties DEF JudgeTypeOK
    <3>. QED BY <1>2, <3>1, TaskStepEffect
  <2>5. calls' \in Nat /\ late' \in Nat /\ circuit' \in BOOLEAN
    <3>. calls \in Nat /\ late \in Nat /\ circuit \in BOOLEAN
      BY DEF JudgeTypeOK
    <3>1. CASE Answered(b)
      <4>1. UNCHANGED session
        BY <3>1, AnsweredEffect
      <4>. QED BY <4>1 DEF session
    <3>2. CASE BeforeRequest(b)
      BY <3>2 DEF BeforeRequest
    <3>3. CASE Send(b)
      BY <3>3 DEF Send
    <3>4. CASE FailTransient(b)
      BY <3>4 DEF FailTransient
    <3>5. CASE Enter(b) \/ BackOff(b) \/ WakeUp(b) \/ FailPermanent(b)
      BY <3>5 DEF Enter, BackOff, WakeUp, FailPermanent, session
    <3>. QED BY <1>2, <3>1, <3>2, <3>3, <3>4, <3>5 DEF TaskStep
  <2>6. main' \in {"judging", "reporting", "stopping", "done", "failed"}
    BY <1>2, TaskStepEffect DEF JudgeTypeOK
  <2>. QED BY <1>1, <2>1, <2>2, <2>4, <2>5, <2>6 DEF JudgeTypeOK
<1>3. ASSUME UNCHANGED <<request, session>>, task' \in [Tasks -> TaskState],
             outcomes' \in Seq(Tasks),
             main' \in {"judging", "reporting", "stopping", "done", "failed"}
      PROVE  JudgeTypeOK'
  BY <1>1, <1>3 DEF JudgeTypeOK, request, session
<1>4. CASE HandleOutcome
  <2>1. task' \in [Tasks -> TaskState]
    <3>1. task \in [Tasks -> TaskState] /\ "handled" \in TaskState
      BY DEF JudgeTypeOK, TaskState
    <3>. QED BY <1>4, <3>1, HandleEffect
  <2>2. main' \in {"judging", "reporting", "stopping", "done", "failed"}
    BY <1>4, HandleEffect
  <2>. QED BY <1>3, <1>4, <2>1, <2>2, HandleEffect
<1>5. CASE Report \/ Stop \/ Store
  BY <1>3, <1>5, MainEffect DEF JudgeTypeOK
<1>6. CASE UNCHANGED vars
  BY <1>6 DEF vars, request, session, loop, JudgeTypeOK
<1>. QED BY <1>2, <1>4, <1>5, <1>6 DEF Next, MainStep, Over

(***************************************************************************)
(* Every step preserves TaskInv.                                           *)
(***************************************************************************)
LEMMA TaskInvStep ==
  ASSUME JudgeInv, [Next]_vars
  PROVE  TaskInv'
<1>. JudgeTypeOK /\ TaskInv
  BY DEF JudgeInv
<1>. SUFFICES ASSUME NEW c \in Tasks PROVE TaskOK(c)'
  BY DEF TaskInv
<1>. TaskOK(c)
  BY DEF TaskInv
<1>1. ASSUME phase'[c] = phase[c], asked'[c] = asked[c], left'[c] = left[c],
             accepted'[c] = accepted[c],
             \/ task'[c] \in {task[c], "canceled"}
             \/ task[c] = "answered" /\ task'[c] = "handled"
      PROVE  TaskOK(c)'
  <2>1. Open(c)' = Open(c)
    BY <1>1 DEF Open
  <2>. QED BY <1>1, <2>1 DEF TaskOK, Active
<1>2. ASSUME NEW b \in Tasks, TaskStep(b) PROVE TaskOK(c)'
  <2>1. CASE c = b
    BY <1>2, <2>1, TaskStepEffect
  <2>2. CASE c # b
    BY <1>1, <1>2, <2>2, TaskStepEffect, TaskStepFrame
  <2>. QED BY <2>1, <2>2
<1>3. CASE HandleOutcome
  <2>1. UNCHANGED request
    BY <1>3, HandleEffect
  <2>2. \/ task'[c] = task[c] \/ (task[c] = "answered" /\ task'[c] = "handled")
    BY <1>3, HandleEffect DEF JudgeTypeOK
  <2>. QED BY <1>1, <2>1, <2>2 DEF request
<1>4. CASE Report \/ Stop \/ Store
  BY <1>1, <1>4, MainEffect DEF request
<1>5. CASE UNCHANGED vars
  BY <1>1, <1>5 DEF vars, request
<1>. QED BY <1>2, <1>3, <1>4, <1>5 DEF Next, MainStep, Over

(***************************************************************************)
(* Requests late or on their way, when the circuit opens: those of the     *)
(* tasks that run, but for the one whose failure opened it.                *)
(***************************************************************************)
LEMMA SessionStep ==
  ASSUME JudgeInv, [Next]_vars
  PROVE  SessionInv'
<1>. JudgeTypeOK /\ TaskInv /\ SessionInv
  BY DEF JudgeInv
<1>. USE JudgeAssumption
<1>1. /\ task \in [Tasks -> TaskState] /\ task' \in [Tasks -> TaskState]
      /\ calls \in Nat /\ late \in Nat /\ circuit \in BOOLEAN
  BY JudgeTypeStep DEF JudgeTypeOK
<1>2. /\ IsFiniteSet(Running) /\ IsFiniteSet(Pacing) /\ IsFiniteSet(Running') /\ IsFiniteSet(Pacing')
      /\ Cardinality(Running) \in Nat /\ Cardinality(Pacing) \in Nat
      /\ Cardinality(Running') \in Nat /\ Cardinality(Pacing') \in Nat
  <2>1. \A S \in SUBSET Tasks : IsFiniteSet(S) /\ Cardinality(S) \in Nat
    BY SomeTasks
  <2>2. /\ Running \in SUBSET Tasks /\ Pacing \in SUBSET Tasks
        /\ Running' \in SUBSET Tasks /\ Pacing' \in SUBSET Tasks
    BY DEF Running, Pacing
  <2>. QED BY <2>1, <2>2
<1>3. Running' \subseteq Running => Cardinality(Running') <= Cardinality(Running)
  BY <1>2, FS_Subset
<1>4. Pacing' \subseteq Pacing => Cardinality(Pacing') <= Cardinality(Pacing)
  BY <1>2, FS_Subset
\* Steps that let no task in and send nothing.
<1>5. ASSUME Running' \subseteq Running, Pacing' \subseteq Pacing, UNCHANGED session
      PROVE  SessionInv'
  BY <1>1, <1>2, <1>3, <1>4, <1>5 DEF SessionInv, session
<1>6. ASSUME NEW b \in Tasks, Enter(b) PROVE SessionInv'
  <2>1. task[b] = "waiting" /\ task' = [task EXCEPT ![b] = "ready"] /\ UNCHANGED session
        /\ Cardinality(Running) < Concurrency
    BY <1>6 DEF Enter, Become, Running
  <2>2. Running' = Running \cup {b} /\ b \notin Running /\ Pacing' = Pacing
    BY <1>1, <2>1 DEF Running, Pacing, Active
  <2>3. Cardinality(Running') = Cardinality(Running) + 1
    BY <1>2, <2>2, FS_AddElement
  <2>. QED BY <1>1, <1>2, <2>1, <2>2, <2>3 DEF SessionInv, session
<1>7. ASSUME NEW b \in Tasks, BeforeRequest(b) PROVE SessionInv'
  <2>1. task[b] = "ready" /\ UNCHANGED <<circuit, late>>
    BY <1>7 DEF BeforeRequest, Become
  <2>2. CASE calls >= CallBudget \/ circuit
    <3>1. task' = [task EXCEPT ![b] = "failed"] /\ UNCHANGED calls
      BY <1>7, <2>2 DEF BeforeRequest, End
    <3>2. Running' \subseteq Running /\ Pacing' \subseteq Pacing
      BY <1>1, <3>1 DEF Running, Pacing, Active
    <3>. QED BY <1>5, <2>1, <3>1, <3>2 DEF session
  <2>3. CASE ~(calls >= CallBudget \/ circuit)
    <3>1. task' = [task EXCEPT ![b] = "pacing"] /\ calls' = calls + 1 /\ ~circuit
      BY <1>7, <2>3 DEF BeforeRequest, Become
    <3>2. Running' \subseteq Running
      BY <1>1, <2>1, <3>1 DEF Running, Active
    <3>. QED BY <1>1, <1>2, <1>3, <2>1, <2>3, <3>1, <3>2 DEF SessionInv
  <2>. QED BY <2>2, <2>3
<1>8. ASSUME NEW b \in Tasks, Send(b) PROVE SessionInv'
  <2>1. /\ task[b] = "pacing" /\ task' = [task EXCEPT ![b] = "calling"]
        /\ late' = IF circuit THEN late + 1 ELSE late
        /\ UNCHANGED <<calls, circuit>>
    BY <1>8 DEF Send, Become
  <2>2. Running' \subseteq Running /\ Pacing' = Pacing \ {b} /\ b \in Pacing
    BY <1>1, <2>1 DEF Running, Pacing, Active
  <2>3. Cardinality(Pacing') = Cardinality(Pacing) - 1
    BY <1>2, <2>2, FS_RemoveElement
  <2>. QED BY <1>1, <1>2, <1>3, <2>1, <2>2, <2>3 DEF SessionInv
<1>9. ASSUME NEW b \in Tasks, FailTransient(b) PROVE SessionInv'
  <2>1. /\ task[b] = "calling" /\ task' = [task EXCEPT ![b] = "failed"]
        /\ circuit' = TRUE /\ UNCHANGED <<calls, late>>
    BY <1>9 DEF FailTransient, End
  <2>2. Running' = Running \ {b} /\ b \in Running /\ Pacing' = Pacing /\ Pacing \subseteq Running'
    BY <1>1, <2>1 DEF Running, Pacing, Active
  <2>3. Cardinality(Running') = Cardinality(Running) - 1
    BY <1>2, <2>2, FS_RemoveElement
  <2>4. Cardinality(Pacing) <= Cardinality(Running')
    BY <1>2, <2>2, FS_Subset
  <2>. QED BY <1>1, <1>2, <2>1, <2>2, <2>3, <2>4 DEF SessionInv
<1>10. ASSUME NEW b \in Tasks, BackOff(b) \/ WakeUp(b) \/ FailPermanent(b) PROVE SessionInv'
  <2>1. /\ task[b] \in Active /\ UNCHANGED session
        /\ \E t \in {"backoff", "ready", "failed"} : task' = [task EXCEPT ![b] = t]
    BY <1>10 DEF BackOff, WakeUp, FailPermanent, Become, End, Active
  <2>2. Running' \subseteq Running /\ Pacing' \subseteq Pacing
    BY <1>1, <2>1 DEF Running, Pacing, Active
  <2>. QED BY <1>5, <2>1, <2>2
<1>11. ASSUME NEW b \in Tasks, Answered(b) PROVE SessionInv'
  <2>1. UNCHANGED session
    BY <1>11, AnsweredEffect
  <2>2. /\ task[b] = "calling"
        /\ \E t \in {"ready", "answered", "rejected"} : task' = [task EXCEPT ![b] = t]
    BY <1>11, AnsweredEffect
  <2>3. Running' \subseteq Running /\ Pacing' \subseteq Pacing
    BY <1>1, <2>2 DEF Running, Pacing, Active
  <2>. QED BY <1>5, <2>1, <2>3
<1>12. ASSUME \A b \in Tasks : task'[b] \in {task[b], "canceled", "handled"}, UNCHANGED session
       PROVE  SessionInv'
  <2>1. Running' \subseteq Running /\ Pacing' \subseteq Pacing
    BY <1>12 DEF Running, Pacing, Active
  <2>. QED BY <1>5, <1>12, <2>1
<1>13. CASE HandleOutcome
  <2>1. \A b \in Tasks : task'[b] \in {task[b], "handled"}
    BY <1>1, <1>13, HandleEffect
  <2>2. UNCHANGED session
    BY <1>13, HandleEffect
  <2>. QED BY <1>12, <2>1, <2>2
<1>14. CASE Report \/ Stop \/ Store
  BY <1>12, <1>14, MainEffect
<1>15. CASE UNCHANGED vars
  BY <1>12, <1>15 DEF vars
<1>. QED BY <1>6, <1>7, <1>8, <1>9, <1>10, <1>11, <1>13, <1>14, <1>15
     DEF Next, MainStep, TaskStep, Over

(***************************************************************************)
(* Every step preserves LoopInv: when the main loop is over no task is     *)
(* left to go on, and it is over as soon as issues are stored.             *)
(***************************************************************************)
LEMMA LoopStep ==
  ASSUME JudgeInv, [Next]_vars
  PROVE  LoopInv'
<1>. JudgeTypeOK /\ TaskInv /\ LoopInv
  BY DEF JudgeInv
<1>1. ASSUME NEW b \in Tasks, TaskStep(b) PROVE LoopInv'
  <2>1. main' = main /\ stored' = stored
    BY <1>1, TaskStepEffect
  <2>2. main # "done" /\ main # "failed"
    BY <1>1, TaskStepEffect, TaskStepFrame DEF LoopInv
  <2>. QED BY <2>1, <2>2 DEF LoopInv
<1>2. CASE HandleOutcome
  <2>1. main = "judging" /\ main' \in {"reporting", "stopping"} /\ stored' = stored
    BY <1>2, HandleEffect
  <2>. QED BY <2>1 DEF LoopInv
<1>3. CASE Report
  BY <1>3 DEF Report, LoopInv
<1>4. CASE Stop
  BY <1>4 DEF Stop, LoopInv, Active
<1>5. CASE Store
  <2>1. \A b \in Tasks : task[b] = "handled" /\ UNCHANGED task
    BY <1>5 DEF Store
  <2>2. main = "judging" /\ (main' = "done" \/ (main' = "failed" /\ UNCHANGED stored))
    BY <1>5 DEF Store
  <2>. QED BY <2>1, <2>2 DEF LoopInv, Active
<1>6. CASE UNCHANGED vars
  BY <1>6 DEF vars, loop, LoopInv
<1>. QED BY <1>1, <1>2, <1>3, <1>4, <1>5, <1>6 DEF Next, MainStep, Over

(***************************************************************************)
(* JudgeInv is an invariant.                                               *)
(***************************************************************************)
THEOREM JudgeInvAlways ==
  Spec => []JudgeInv
<1>1. JudgeInv /\ [Next]_vars => JudgeInv'
  BY JudgeTypeStep, TaskInvStep, SessionStep, LoopStep, CountStep DEF JudgeInv
<1>. QED BY <1>1, JudgeInit, PTL DEF Spec

(***************************************************************************)
(* The variables always have their types: in particular no task ever asks  *)
(* about no probe, or about one of another batch.                          *)
(***************************************************************************)
THEOREM JudgeTypeCorrect ==
  Spec => []JudgeTypeOK
<1>1. JudgeInv => JudgeTypeOK
  BY DEF JudgeInv
<1>. QED BY <1>1, JudgeInvAlways, PTL

(***************************************************************************)
(* The budget and the circuit bound the requests of a job, however many    *)
(* tasks share them.                                                       *)
(***************************************************************************)
THEOREM BoundsCorrect ==
  Spec => []RequestsAreBounded
<1>1. JudgeInv => RequestsAreBounded
  <2>. SUFFICES ASSUME JudgeInv PROVE RequestsAreBounded
    OBVIOUS
  <2>1. Pacing \in SUBSET Tasks
    BY DEF Pacing
  <2>2. Cardinality(Pacing) \in Nat
    BY <2>1, SomeTasks
  <2>. QED BY <2>2, JudgeAssumption DEF JudgeInv, JudgeTypeOK, SessionInv, RequestsAreBounded
<1>. QED BY <1>1, JudgeInvAlways, PTL

(***************************************************************************)
(* AI issues are replaced all together or not at all, and no task outlives *)
(* the judging.                                                            *)
(***************************************************************************)
THEOREM AllOrNothingCorrect ==
  Spec => []AllOrNothing
<1>1. JudgeInv => AllOrNothing
  BY DEF JudgeInv, LoopInv, AllOrNothing, Active
<1>. QED BY <1>1, JudgeInvAlways, PTL

(***************************************************************************)
(* When issues are stored each probe with evidence has exactly one         *)
(* verdict: the three kinds of verdicts partition the probes.              *)
(***************************************************************************)
THEOREM VerdictsCorrect ==
  Spec => []OneVerdictEach
<1>1. JudgeInv => OneVerdictEach
  <2>. SUFFICES ASSUME JudgeInv, main = "done"
                PROVE  OneVerdictEach
    BY DEF OneVerdictEach
  <2>. DEFINE clean == Judged("no_issue")
              unsure == Judged("uncertain")
              issue == {p \in AllProbes : \E b \in Tasks :
                          p \in Probes(b) /\ accepted[b][p].verdict = "issue"}
  <2>1. \A b \in Tasks : task[b] = "handled"
    BY DEF JudgeInv, LoopInv
  <2>2. ASSUME NEW b \in Tasks, NEW p \in Probes(b)
        PROVE  accepted[b][p].verdict \in {"issue", "no_issue", "uncertain"}
    <3>1. Open(b) = {}
      BY <2>1 DEF JudgeInv, TaskInv, TaskOK
    <3>2. accepted[b][p].verdict # "none"
      BY <3>1 DEF Open
    <3>3. accepted[b][p] \in Results \cup {Plain("none")}
      BY DEF JudgeInv, JudgeTypeOK
    <3>. QED BY <3>2, <3>3, Verdicts
  <2>3. Handled = Tasks
    BY <2>1 DEF Handled
  <2>4. AllProbes = (clean \cup unsure) \cup issue
    <3>1. \A p \in AllProbes : \E b \in Tasks : p \in Probes(b)
      BY DEF AllProbes
    <3>2. clean \subseteq AllProbes /\ unsure \subseteq AllProbes
      BY DEF Judged
    <3>3. ASSUME NEW p \in AllProbes PROVE p \in (clean \cup unsure) \cup issue
      BY <2>2, <2>3, <3>1 DEF Judged
    <3>. QED BY <3>2, <3>3
  <2>5. clean \cap unsure = {}
    BY OneBatch DEF Judged, Handled
  <2>6. (clean \cup unsure) \cap issue = {}
    BY OneBatch DEF Judged, Handled
  <2>7. clean \in SUBSET AllProbes /\ unsure \in SUBSET AllProbes /\ issue \in SUBSET AllProbes
    BY DEF Judged
  <2>8. summary.noIssue = Cardinality(clean) /\ summary.uncertain = Cardinality(unsure)
    BY DEF JudgeInv, CountInv
  <2>9. summary.noIssue + summary.uncertain + Cardinality(issue) = Cardinality(AllProbes)
    <3>. HIDE DEF clean, unsure, issue
    <3>1. /\ IsFiniteSet(clean) /\ IsFiniteSet(unsure) /\ IsFiniteSet(issue)
          /\ Cardinality(clean) \in Nat /\ Cardinality(unsure) \in Nat /\ Cardinality(issue) \in Nat
      BY <2>7, SomeProbes
    <3>2. IsFiniteSet(clean \cup unsure)
          /\ Cardinality(clean \cup unsure)
               = Cardinality(clean) + Cardinality(unsure) - Cardinality(clean \cap unsure)
      BY <3>1, FS_Union
    <3>3. Cardinality((clean \cup unsure) \cup issue)
            = Cardinality(clean \cup unsure) + Cardinality(issue)
                - Cardinality((clean \cup unsure) \cap issue)
      BY <3>1, <3>2, FS_Union
    <3>4. Cardinality({}) = 0
      BY FS_EmptySet
    <3>5. Cardinality(clean \cap unsure) = 0 /\ Cardinality((clean \cup unsure) \cap issue) = 0
      BY <2>5, <2>6, <3>4
    <3>6. Cardinality(AllProbes) = Cardinality((clean \cup unsure) \cup issue)
      BY <2>4
    <3>. QED BY <2>8, <3>1, <3>2, <3>3, <3>5, <3>6
  <2>. QED BY <2>2, <2>9 DEF OneVerdictEach
<1>. QED BY <1>1, JudgeInvAlways, PTL

-----------------------------------------------------------------------------
(***************************************************************************)
(* Folds over sequences, one element at a time.                            *)
(***************************************************************************)

(***************************************************************************)
(* Induction up to n, for a set that stands for the predicate.             *)
(***************************************************************************)
LEMMA Induction ==
  ASSUME NEW n \in Nat, NEW S, 0 \in S, \A k \in 1..n : k - 1 \in S => k \in S
  PROVE  \A k \in 0..n : k \in S
<1>. DEFINE R == OpToRel(<, Nat)
            others == {k \in 0..n : k \notin S}
<1>1. IsWellFoundedOn(R, Nat)
  BY NatLessThanWellFounded
<1>2. \A x, y \in Nat : x < y => <<x, y>> \in R
  BY DEF OpToRel
<1>. HIDE DEF R
<1>. SUFFICES ASSUME others # {} PROVE FALSE
  OBVIOUS
<1>3. others \in SUBSET Nat
  OBVIOUS
<1>4. PICK x \in others : \A y \in others : ~(<<y, x>> \in R)
  BY <1>1, <1>3, WFMin
<1>5. x \in 1..n /\ x \notin S
  OBVIOUS
<1>6. x \in Nat /\ x - 1 \in Nat /\ x - 1 < x /\ x - 1 \in 0..n
  BY <1>5
<1>7. <<x - 1, x>> \in R
  BY <1>2, <1>6
<1>8. x - 1 \notin others
  BY <1>4, <1>7
<1>9. x - 1 \in S
  BY <1>6, <1>8
<1>. QED BY <1>5, <1>9

(***************************************************************************)
(* A set of some of the numbers up to n has a greatest one.                *)
(***************************************************************************)
LEMMA MaxFacts ==
  ASSUME NEW n \in Nat, NEW T \in SUBSET (1..n), T # {}
  PROVE  Max(T) \in T /\ \A y \in T : y <= Max(T)
<1>. DEFINE hasMax(k) == \A U \in SUBSET (1..k) :
              U # {} => \E x \in U : \A y \in U : x >= y
            S == {k \in 0..n : hasMax(k)}
<1>1. 0 \in S
  <2>1. 1..0 = {}
    OBVIOUS
  <2>2. \A U \in SUBSET (1..0) : U = {}
    BY <2>1
  <2>3. hasMax(0)
    BY <2>2
  <2>. HIDE DEF hasMax
  <2>. QED BY <2>3
<1>2. ASSUME NEW k \in 1..n, k - 1 \in S PROVE k \in S
  <2>. SUFFICES ASSUME NEW U \in SUBSET (1..k), U # {}
                PROVE  \E x \in U : \A y \in U : x >= y
    OBVIOUS
  <2>1. CASE k \in U
    BY <2>1
  <2>2. CASE k \notin U
    <3>1. U \in SUBSET (1..(k - 1))
      BY <2>2
    <3>. QED BY <1>2, <3>1
  <2>. QED BY <2>1, <2>2
<1>. HIDE DEF S
<1>3. n \in S
  BY <1>1, <1>2, Induction
<1>4. \E x \in T : \A y \in T : x >= y
  BY <1>3 DEF S
<1>5. Max(T) \in T /\ \A y \in T : Max(T) >= y
  BY <1>4 DEF Max
<1>. QED BY <1>5

(***************************************************************************)
(* An initial segment of the positions ends in its largest element, and    *)
(* without it is the segment before.                                       *)
(***************************************************************************)
LEMMA Segments ==
  ASSUME NEW n \in Nat, NEW k \in 1..n
  PROVE  /\ 1..k \in SUBSET (1..n) /\ 1..k # {}
         /\ Max(1..k) = k /\ (1..k) \ {Max(1..k)} = 1..(k - 1)
<1>1. 1..k \in SUBSET (1..k) /\ 1..k \in SUBSET (1..n) /\ 1..k # {} /\ k \in 1..k
  OBVIOUS
<1>2. Max(1..k) \in 1..k /\ k <= Max(1..k)
  BY <1>1, MaxFacts
<1>. QED BY <1>1, <1>2

(***************************************************************************)
(* The function a fold is defined by, when each step stays in A.           *)
(***************************************************************************)
IsFold(g, n, base, step) == \A T \in SUBSET (1..n) :
  g[T] = IF T = {} THEN base ELSE step[<<g[T \ {Max(T)}], Max(T)>>]

(***************************************************************************)
(* A function that folds a step over the sets of positions, largest last,  *)
(* exists whatever the step: by induction on the number of positions.      *)
(***************************************************************************)
LEMMA FoldExists ==
  ASSUME NEW A, NEW n \in Nat, NEW base \in A, NEW step \in [A \X (1..n) -> A]
  PROVE  \E g \in [SUBSET (1..n) -> A] : IsFold(g, n, base, step)
<1>. DEFINE isFold(g, m) == IsFold(g, m, base, step)
            S == {m \in 0..n : \E g \in [SUBSET (1..m) -> A] : isFold(g, m)}
<1>1. 0 \in S
  <2>. DEFINE g == [T \in SUBSET (1..0) |-> base]
  <2>1. \A T \in SUBSET (1..0) : T = {}
    OBVIOUS
  <2>2. g \in [SUBSET (1..0) -> A] /\ \A T \in SUBSET (1..0) : g[T] = base
    OBVIOUS
  <2>. HIDE DEF g
  <2>3. isFold(g, 0)
    BY <2>1, <2>2 DEF IsFold
  <2>. HIDE DEF isFold
  <2>. QED BY <2>2, <2>3
<1>2. ASSUME NEW m \in 1..n, m - 1 \in S PROVE m \in S
  <2>1. PICK g \in [SUBSET (1..(m - 1)) -> A] : isFold(g, m - 1)
    BY <1>2
  <2>. DEFINE rest(T) == T \ {m}
              h == [T \in SUBSET (1..m) |-> IF m \in T THEN step[<<g[rest(T)], m>>] ELSE g[T]]
  <2>2. \A T \in SUBSET (1..m) : rest(T) \in SUBSET (1..(m - 1)) /\ (m \notin T => rest(T) = T)
    OBVIOUS
  <2>3. h \in [SUBSET (1..m) -> A]
    <3>1. ASSUME NEW T \in SUBSET (1..m)
          PROVE  (IF m \in T THEN step[<<g[rest(T)], m>>] ELSE g[T]) \in A
      <4>1. g[rest(T)] \in A /\ (m \notin T => g[T] \in A)
        BY <2>2
      <4>2. <<g[rest(T)], m>> \in A \X (1..n)
        BY <4>1
      <4>. QED BY <4>1, <4>2
    <3>. QED BY <3>1
  <2>4. ASSUME NEW T \in SUBSET (1..m)
        PROVE  h[T] = IF T = {} THEN base ELSE step[<<h[T \ {Max(T)}], Max(T)>>]
    <3>1. CASE m \in T
      <4>a. m \in Nat /\ T # {}
        BY <3>1
      <4>1. Max(T) \in T /\ \A y \in T : y <= Max(T)
        BY <4>a, MaxFacts
      <4>b. Max(T) \in 1..m /\ m <= Max(T)
        BY <3>1, <4>1
      <4>2. Max(T) = m
        BY <4>b
      <4>3. h[rest(T)] = g[rest(T)]
        BY <2>2
      <4>. QED BY <3>1, <4>2, <4>3
    <3>2. CASE m \notin T
      <4>1. T \in SUBSET (1..(m - 1)) /\ h[T] = g[T]
        BY <2>2, <3>2
      <4>2. T # {} => h[T \ {Max(T)}] = g[T \ {Max(T)}]
        BY <3>2
      <4>. QED BY <2>1, <4>1, <4>2 DEF IsFold
    <3>. QED BY <3>1, <3>2
  <2>. HIDE DEF h
  <2>5. isFold(h, m)
    BY <2>4 DEF IsFold
  <2>. HIDE DEF isFold
  <2>. QED BY <2>3, <2>5
<1>. HIDE DEF S
<1>3. n \in S
  BY <1>1, <1>2, Induction
<1>. QED BY <1>3 DEF S

(***************************************************************************)
(* What holds of a fold at every element.                                  *)
(***************************************************************************)
LEMMA FoldStays ==
  ASSUME NEW A, NEW n \in Nat, NEW iter, iter[{}] \in A,
         \A k \in 1..n : iter[1..(k - 1)] \in A => iter[1..k] \in A
  PROVE  \A k \in 0..n : iter[1..k] \in A
<1>. DEFINE good == {k \in 0..n : iter[1..k] \in A}
<1>1. 0 \in good
  <2>1. 1..0 = {}
    OBVIOUS
  <2>. QED BY <2>1
<1>2. ASSUME NEW k \in 1..n, k - 1 \in good PROVE k \in good
  BY <1>2
<1>. HIDE DEF good
<1>3. \A k \in 0..n : k \in good
  BY <1>1, <1>2, Induction
<1>. QED BY <1>3 DEF good

-----------------------------------------------------------------------------
(***************************************************************************)
(* Sorting the twins of an issue: by first line, then by falling           *)
(* confidence.                                                             *)
(***************************************************************************)

Located(S) == \A i \in S :
  i.first \in Nat /\ i.last \in Nat /\ i.confidence \in Nat /\ i.first <= i.last

Sorted(s) == \A i, j \in 1..Len(s) : i < j => ~IssueBefore(s[j], s[i])

(***************************************************************************)
(* A set of positions with no hole below them is an initial segment.       *)
(***************************************************************************)
LEMMA Initial ==
  ASSUME NEW n \in Nat, NEW B \in SUBSET (1..n), \A j \in B : \A i \in 1..j : i \in B
  PROVE  Cardinality(B) \in 0..n /\ B = 1..Cardinality(B)
<1>1. CASE B = {}
  <2>1. Cardinality(B) = 0 /\ 1..0 = {}
    BY <1>1, FS_EmptySet
  <2>. QED BY <1>1, <2>1
<1>2. CASE B # {}
  <2>. DEFINE m == Max(B)
  <2>1. m \in B /\ \A y \in B : y <= m
    BY <1>2, MaxFacts
  <2>. HIDE DEF m
  <2>2. m \in 1..n
    BY <2>1
  <2>4. \A i \in 1..m : i \in B
    BY <2>1
  <2>5. \A i \in B : i \in 1..m
    BY <2>1, <2>2
  <2>6. B = 1..m
    BY <2>4, <2>5
  <2>3. Cardinality(1..m) = m
    BY <2>2, FS_Interval
  <2>. QED BY <2>2, <2>3, <2>6
<1>. QED BY <1>1, <1>2

(***************************************************************************)
(* Inserting after the first c elements, as two concatenations.            *)
(***************************************************************************)
LEMMA Inserted ==
  ASSUME NEW s, NEW c \in Nat, NEW e
  PROVE  InsertAt(s, c + 1, e) = (SubSeq(s, 1, c) \o <<e>>) \o SubSeq(s, c + 1, Len(s))
<1>. DEFINE k == c + 1
<1>1. k - 1 = c
  OBVIOUS
<1>. HIDE DEF k
<1>2. InsertAt(s, k, e) = (SubSeq(s, 1, k - 1) \o <<e>>) \o SubSeq(s, k, Len(s))
  BY DEF InsertAt
<1>3. InsertAt(s, k, e) = (SubSeq(s, 1, c) \o <<e>>) \o SubSeq(s, k, Len(s))
  BY <1>1, <1>2
<1>. QED BY <1>3, Zenon DEF k

(***************************************************************************)
(* Inserting an issue where SortedIn puts it keeps a sequence of issues    *)
(* sorted.                                                                 *)
(***************************************************************************)
LEMMA SortedInFacts ==
  ASSUME NEW S, Located(S), NEW s \in Seq(S), Sorted(s), NEW e \in S
  PROVE  SortedIn(s, e) \in Seq(S) /\ Sorted(SortedIn(s, e))
<1>. DEFINE n == Len(s)
            before == {k \in 1..n : ~IssueBefore(e, s[k])}
            c == Cardinality(before)
            low == SubSeq(s, 1, c)
            high == SubSeq(s, c + 1, n)
            mid == <<e>>
            t == (low \o mid) \o high
<1>1. n \in Nat /\ DOMAIN s = 1..n /\ \A k \in 1..n : s[k] \in S
  BY LenProperties
<1>2. \A k \in 1..n : s[k].first \in Nat /\ s[k].confidence \in Nat
  BY <1>1 DEF Located
<1>3. e.first \in Nat /\ e.confidence \in Nat
  BY DEF Located
<1>4. \A j \in before : \A i \in 1..j : i \in before
  <2>. SUFFICES ASSUME NEW j \in before, NEW i \in 1..j, IssueBefore(e, s[i])
                PROVE  FALSE
    BY <1>1
  <2>1. i \in 1..n /\ j \in 1..n /\ (i < j => ~IssueBefore(s[j], s[i])) /\ (i = j \/ i < j)
    BY <1>1 DEF Sorted
  <2>. QED BY <1>2, <1>3, <2>1 DEF IssueBefore
<1>5. c \in 0..n /\ before = 1..c
  <2>1. before \in SUBSET (1..n)
    OBVIOUS
  <2>. HIDE DEF before, n
  <2>. QED BY <1>1, <1>4, <2>1, Initial
<1>6. \A k \in 1..n : k <= c <=> ~IssueBefore(e, s[k])
  <2>1. \A k \in 1..n : k \in before <=> ~IssueBefore(e, s[k])
    OBVIOUS
  <2>. HIDE DEF before, c, n
  <2>. QED BY <1>1, <1>5, <2>1
<1>7. SortedIn(s, e) = t
  <2>1. before = {k \in DOMAIN s : ~IssueBefore(e, s[k])}
    BY <1>1
  <2>2. SortedIn(s, e) = InsertAt(s, c + 1, e)
    BY <2>1 DEF SortedIn
  <2>. HIDE DEF before, c
  <2>3. InsertAt(s, c + 1, e) = t
    <3>1. c \in Nat
      BY <1>1, <1>5
    <3>2. InsertAt(s, c + 1, e) = (SubSeq(s, 1, c) \o <<e>>) \o SubSeq(s, c + 1, Len(s))
      BY <3>1, Inserted
    <3>. QED BY <3>2, Zenon
  <2>. QED BY <2>2, <2>3
<1>. HIDE DEF before, c
<1>8. low \in Seq(S) /\ Len(low) = c /\ \A i \in 1..c : low[i] = s[i]
  <2>1. \A i \in 1..c : s[i] \in S
    BY <1>1, <1>5
  <2>2. /\ low \in Seq(S) /\ Len(low) = IF 1 <= c THEN c - 1 + 1 ELSE 0
        /\ \A i \in 1..(c - 1 + 1) : low[i] = s[1 + i - 1]
    BY <1>5, <2>1, SubSeqProperties
  <2>. HIDE DEF low
  <2>. QED BY <1>5, <2>2
<1>9. high \in Seq(S) /\ Len(high) = n - c /\ \A i \in 1..(n - c) : high[i] = s[c + i]
  <2>1. \A i \in (c + 1)..n : s[i] \in S
    BY <1>1, <1>5
  <2>2. /\ high \in Seq(S) /\ Len(high) = IF c + 1 <= n THEN n - (c + 1) + 1 ELSE 0
        /\ \A i \in 1..(n - (c + 1) + 1) : high[i] = s[(c + 1) + i - 1]
    BY <1>1, <1>5, <2>1, SubSeqProperties
  <2>. HIDE DEF high, n
  <2>. QED BY <1>1, <1>5, <2>2
<1>. HIDE DEF low, high, n
<1>10. mid \in Seq(S) /\ Len(mid) = 1 /\ mid[1] = e
  OBVIOUS
<1>. HIDE DEF mid
<1>11. /\ low \o mid \in Seq(S) /\ Len(low \o mid) = c + 1
       /\ \A i \in 1..(c + 1) : (low \o mid)[i] = IF i <= c THEN low[i] ELSE mid[i - c]
  <2>1. /\ low \o mid \in Seq(S) /\ Len(low \o mid) = Len(low) + Len(mid)
        /\ \A i \in 1..Len(low) + Len(mid) : (low \o mid)[i] =
              IF i <= Len(low) THEN low[i] ELSE mid[i - Len(low)]
    BY <1>8, <1>10, ConcatProperties
  <2>. QED BY <1>8, <1>10, <2>1
<1>12. /\ t \in Seq(S) /\ Len(t) = (c + 1) + (n - c)
       /\ \A i \in 1..((c + 1) + (n - c)) :
            t[i] = IF i <= c + 1 THEN (low \o mid)[i] ELSE high[i - (c + 1)]
  <2>. DEFINE start == low \o mid
  <2>1. /\ start \o high \in Seq(S) /\ Len(start \o high) = Len(start) + Len(high)
        /\ \A i \in 1..Len(start) + Len(high) : (start \o high)[i] =
              IF i <= Len(start) THEN start[i] ELSE high[i - Len(start)]
    <3>1. start \in Seq(S)
      BY <1>11
    <3>. HIDE DEF start
    <3>. QED BY <1>9, <3>1, ConcatProperties
  <2>2. t = start \o high /\ Len(start) = c + 1
    BY <1>11 DEF t
  <2>. HIDE DEF start
  <2>3. /\ t \in Seq(S) /\ Len(t) = (c + 1) + (n - c)
        /\ \A i \in 1..((c + 1) + (n - c)) :
             t[i] = IF i <= c + 1 THEN start[i] ELSE high[i - (c + 1)]
    BY <1>9, <2>1, <2>2
  <2>. QED BY <2>3 DEF start
<1>. HIDE DEF t
<1>13. /\ Len(t) = n + 1
       /\ \A i \in 1..c : t[i] = s[i]
       /\ t[c + 1] = e
       /\ \A i \in (c + 2)..(n + 1) : t[i] = s[i - 1]
  <2>1. Len(t) = n + 1
    BY <1>1, <1>5, <1>12
  <2>2. ASSUME NEW i \in 1..c PROVE t[i] = s[i]
    <3>1. i \in 1..((c + 1) + (n - c)) /\ i <= c + 1 /\ i \in 1..(c + 1)
      BY <1>1, <1>5
    <3>. QED BY <1>8, <1>11, <1>12, <3>1
  <2>3. t[c + 1] = e
    <3>. DEFINE m == c + 1
    <3>1. m \in 1..(m + (n - c)) /\ m \in 1..m /\ m <= m /\ ~(m <= c) /\ m - c = 1
      BY <1>1, <1>5
    <3>2. \A i \in 1..(m + (n - c)) :
            t[i] = IF i <= m THEN (low \o mid)[i] ELSE high[i - m]
      BY <1>12
    <3>3. \A i \in 1..m : (low \o mid)[i] = IF i <= c THEN low[i] ELSE mid[i - c]
      BY <1>11
    <3>. HIDE DEF m
    <3>4. t[m] = mid[1]
      BY <3>1, <3>2, <3>3
    <3>. QED BY <1>10, <3>4 DEF m
  <2>4. ASSUME NEW i \in (c + 2)..(n + 1) PROVE t[i] = s[i - 1]
    <3>1. /\ i \in 1..((c + 1) + (n - c)) /\ ~(i <= c + 1)
          /\ i - (c + 1) \in 1..(n - c) /\ c + (i - (c + 1)) = i - 1
      BY <1>1, <1>5
    <3>. QED BY <1>9, <1>12, <3>1
  <2>. QED BY <2>1, <2>2, <2>3, <2>4
<1>14. Sorted(t)
  <2>. SUFFICES ASSUME NEW i \in 1..(n + 1), NEW j \in 1..(n + 1), i < j
                PROVE  ~IssueBefore(t[j], t[i])
    BY <1>13 DEF Sorted
  <2>0. \A k, l \in 1..n : k < l => ~IssueBefore(s[l], s[k])
    BY DEF Sorted, n
  <2>1. CASE j <= c
    <3>1. i \in 1..c /\ j \in 1..c /\ i \in 1..n /\ j \in 1..n
      BY <1>1, <1>5, <2>1
    <3>. QED BY <1>13, <2>0, <3>1
  <2>2. CASE j = c + 1
    <3>1. i \in 1..c /\ i \in 1..n
      BY <1>1, <1>5, <2>2
    <3>. QED BY <1>6, <1>13, <2>2, <3>1
  <2>3. CASE c + 1 < j /\ i <= c
    <3>1. i \in 1..c /\ i \in 1..n /\ j - 1 \in 1..n /\ i < j - 1 /\ j \in (c + 2)..(n + 1)
      BY <1>1, <1>5, <2>3
    <3>. QED BY <1>13, <2>0, <3>1
  <2>4. CASE i = c + 1
    <3>1. j - 1 \in 1..n /\ ~(j - 1 <= c) /\ j \in (c + 2)..(n + 1)
      BY <1>1, <1>5, <2>4
    <3>2. IssueBefore(e, s[j - 1]) /\ t[j] = s[j - 1] /\ t[i] = e
      BY <1>6, <1>13, <2>4, <3>1
    <3>. QED BY <1>2, <1>3, <3>1, <3>2 DEF IssueBefore
  <2>5. CASE c + 1 < i
    <3>1. /\ i - 1 \in 1..n /\ j - 1 \in 1..n /\ i - 1 < j - 1
          /\ i \in (c + 2)..(n + 1) /\ j \in (c + 2)..(n + 1)
      BY <1>1, <1>5, <2>5
    <3>. QED BY <1>13, <2>0, <3>1
  <2>. QED BY <1>1, <1>5, <2>1, <2>2, <2>3, <2>4, <2>5
<1>. QED BY <1>7, <1>12, <1>14

(***************************************************************************)
(* A group of issues holds the issues of its key and file, sorted.         *)
(***************************************************************************)
LEMMA GroupFacts ==
  ASSUME NEW S, Located(S), NEW issues \in Seq(S), NEW key, NEW file
  PROVE  /\ Group(issues, key, file) \in Seq({i \in S : i.key = key /\ i.file = file})
         /\ Sorted(Group(issues, key, file))
<1>. DEFINE q == issues
            n == Len(q)
            A == {s \in Seq({i \in S : i.key = key /\ i.file = file}) : Sorted(s)}
            base == <<>>
            next(a, k) == IF q[k].key = key /\ q[k].file = file THEN SortedIn(a, q[k]) ELSE a
            iter == CHOOSE g : g = [T \in SUBSET (1..n) |->
                      IF T = {} THEN base ELSE next(g[T \ {Max(T)}], Max(T))]
            step == [p \in A \X (1..n) |-> next(p[1], p[2])]
<1>1. Group(q, key, file) = iter[1..n]
  <2>1. DOMAIN q = 1..n
    BY LenProperties DEF Sorted
  <2>. QED BY <2>1 DEF FoldLeft, MapThenFoldSet, Group
<1>2. n \in Nat /\ base \in A
  BY LenProperties DEF Sorted
<1>3. ASSUME NEW a \in A, NEW k \in 1..n PROVE next(a, k) \in A
  <2>. DEFINE twins == {i \in S : i.key = key /\ i.file = file}
  <2>1. a \in Seq(twins) /\ Sorted(a) /\ Located(twins)
    BY DEF Located
  <2>2. q[k] \in S
    BY LenProperties
  <2>3. CASE q[k].key = key /\ q[k].file = file
    <3>1. q[k] \in twins
      BY <2>2, <2>3
    <3>. HIDE DEF twins, q
    <3>2. SortedIn(a, q[k]) \in Seq(twins) /\ Sorted(SortedIn(a, q[k]))
      BY <2>1, <3>1, SortedInFacts
    <3>. QED BY <2>3, <3>2 DEF twins
  <2>4. CASE ~(q[k].key = key /\ q[k].file = file)
    BY <2>4
  <2>. QED BY <2>3, <2>4
<1>. HIDE DEF next, A, n, base
<1>4. /\ step \in [A \X (1..n) -> A]
      /\ \A a \in A, k \in 1..n : step[<<a, k>>] = next(a, k)
  BY <1>3
<1>. HIDE DEF step
<1>5. iter = [T \in SUBSET (1..n) |-> IF T = {} THEN base ELSE next(iter[T \ {Max(T)}], Max(T))]
  <2>1. PICK g \in [SUBSET (1..n) -> A] : IsFold(g, n, base, step)
    BY <1>2, <1>4, FoldExists
  <2>2. ASSUME NEW T \in SUBSET (1..n)
        PROVE  g[T] = IF T = {} THEN base ELSE next(g[T \ {Max(T)}], Max(T))
    <3>1. T # {} => Max(T) \in 1..n
      BY <1>2, MaxFacts
    <3>2. g[T] = IF T = {} THEN base ELSE step[<<g[T \ {Max(T)}], Max(T)>>]
      BY <2>1 DEF IsFold
    <3>. QED BY <1>4, <3>1, <3>2
  <2>3. g = [T \in SUBSET (1..n) |-> IF T = {} THEN base ELSE next(g[T \ {Max(T)}], Max(T))]
    BY <2>2
  <2>. QED BY <2>3
<1>. HIDE DEF iter
<1>6. iter[{}] = base /\ \A k \in 1..n : iter[1..k] = next(iter[1..(k - 1)], k)
  <2>1. {} \in SUBSET (1..n)
    OBVIOUS
  <2>. QED BY <1>2, <1>5, <2>1, Segments
<1>7. \A k \in 0..n : iter[1..k] \in A
  <2>1. iter[{}] \in A
    BY <1>2, <1>6
  <2>2. ASSUME NEW k \in 1..n, iter[1..(k - 1)] \in A PROVE iter[1..k] \in A
    BY <1>3, <1>6, <2>2
  <2>. QED BY <1>2, <2>1, <2>2, FoldStays
<1>8. iter[1..n] \in A
  BY <1>2, <1>7
<1>. QED BY <1>1, <1>8 DEF A


(***************************************************************************)
(* Removing duplicates of a group, issue by issue.                         *)
(***************************************************************************)
LEMMA KeepSeq ==
  ASSUME NEW S, NEW kept \in Seq(S), NEW issue \in S
  PROVE  Keep(kept, issue) \in Seq(S)
<1>. DEFINE place == Min({k \in DOMAIN kept : Overlap(issue, kept[k])})
<1>1. Append(kept, issue) \in Seq(S)
  BY AppendProperties
<1>2. [kept EXCEPT ![place] = issue] \in Seq(S)
  <2>. DEFINE i == place
  <2>1. kept \in [1..Len(kept) -> S] /\ Len(kept) \in Nat
    BY LenProperties
  <2>. HIDE DEF place
  <2>2. [kept EXCEPT ![i] = issue] \in [1..Len(kept) -> S]
    BY <2>1
  <2>. QED BY <2>1, <2>2, SeqDef
<1>. QED BY <1>1, <1>2 DEF Keep

(***************************************************************************)
(* The fold that keeps the stronger of overlapping issues is a run of      *)
(* steps, one for each issue.                                              *)
(***************************************************************************)
LEMMA KeepRun ==
  ASSUME NEW S, NEW seq \in Seq(S)
  PROVE  \E run \in [0..Len(seq) -> Seq(S)] :
           /\ run[0] = <<>> /\ run[Len(seq)] = FoldLeft(Keep, <<>>, seq)
           /\ \A k \in 1..Len(seq) : run[k] = Keep(run[k - 1], seq[k])
<1>. DEFINE q == seq
            n == Len(q)
            A == Seq(S)
            base == <<>>
            next(a, k) == Keep(a, q[k])
            iter == CHOOSE g : g = [T \in SUBSET (1..n) |->
                      IF T = {} THEN base ELSE next(g[T \ {Max(T)}], Max(T))]
            step == [p \in A \X (1..n) |-> next(p[1], p[2])]
<1>1. FoldLeft(Keep, <<>>, q) = iter[1..n]
  <2>1. DOMAIN q = 1..n
    BY LenProperties
  <2>. QED BY <2>1 DEF FoldLeft, MapThenFoldSet
<1>2. n \in Nat /\ base \in A
  BY LenProperties
<1>3. ASSUME NEW a \in A, NEW k \in 1..n PROVE next(a, k) \in A
  BY KeepSeq
<1>. HIDE DEF next, A, n, base
<1>4. /\ step \in [A \X (1..n) -> A]
      /\ \A a \in A, k \in 1..n : step[<<a, k>>] = next(a, k)
  BY <1>3
<1>. HIDE DEF step
<1>5. iter = [T \in SUBSET (1..n) |-> IF T = {} THEN base ELSE next(iter[T \ {Max(T)}], Max(T))]
  <2>1. PICK g \in [SUBSET (1..n) -> A] : IsFold(g, n, base, step)
    BY <1>2, <1>4, FoldExists
  <2>2. ASSUME NEW T \in SUBSET (1..n)
        PROVE  g[T] = IF T = {} THEN base ELSE next(g[T \ {Max(T)}], Max(T))
    <3>1. T # {} => Max(T) \in 1..n
      BY <1>2, MaxFacts
    <3>2. g[T] = IF T = {} THEN base ELSE step[<<g[T \ {Max(T)}], Max(T)>>]
      BY <2>1 DEF IsFold
    <3>. QED BY <1>4, <3>1, <3>2
  <2>3. g = [T \in SUBSET (1..n) |-> IF T = {} THEN base ELSE next(g[T \ {Max(T)}], Max(T))]
    BY <2>2
  <2>. QED BY <2>3
<1>. HIDE DEF iter
<1>6. iter[{}] = base /\ \A k \in 1..n : iter[1..k] = next(iter[1..(k - 1)], k)
  <2>1. {} \in SUBSET (1..n)
    OBVIOUS
  <2>. QED BY <1>2, <1>5, <2>1, Segments
<1>7. \A k \in 0..n : iter[1..k] \in A
  <2>1. iter[{}] \in A
    BY <1>2, <1>6
  <2>2. ASSUME NEW k \in 1..n, iter[1..(k - 1)] \in A PROVE iter[1..k] \in A
    BY <1>3, <1>6, <2>2
  <2>. QED BY <1>2, <2>1, <2>2, FoldStays
<1>. DEFINE run == [k \in 0..n |-> iter[1..k]]
<1>8. run[0] = base /\ run[n] = iter[1..n] /\ \A k \in 1..n : run[k] = next(run[k - 1], k)
  <2>1. 1..0 = {}
    OBVIOUS
  <2>. QED BY <1>2, <1>6, <2>1
<1>9. run \in [0..n -> A]
  BY <1>7
<1>. HIDE DEF run
<1>. QED BY <1>1, <1>8, <1>9 DEF n, A, next, base


(***************************************************************************)
(* No two of the issues that are kept overlap.  An issue that comes later  *)
(* starts later, so it overlaps at most one of them: both would hold the   *)
(* line it starts on.                                                      *)
(***************************************************************************)
Apart(kept) == \A i, j \in 1..Len(kept) : Overlap(kept[i], kept[j]) => i = j

(***************************************************************************)
(* A step of that run keeps the kept issues apart: at most one of them     *)
(* overlaps the new issue, and they trade places or one is dropped.        *)
(***************************************************************************)
LEMMA KeepApart ==
  ASSUME NEW S, Located(S), NEW kept \in Seq(S), Apart(kept), NEW issue \in S,
         \A i \in 1..Len(kept) : kept[i].first <= issue.first
  PROVE  /\ Apart(Keep(kept, issue))
         /\ \A i \in 1..Len(Keep(kept, issue)) : Keep(kept, issue)[i].first <= issue.first
<1>. DEFINE n == Len(kept)
            rivals == {k \in 1..n : Overlap(issue, kept[k])}
            place == Min(rivals)
            longer == Append(kept, issue)
            changed == [kept EXCEPT ![place] = issue]
<1>1. n \in Nat /\ DOMAIN kept = 1..n /\ \A k \in 1..n : kept[k] \in S
  BY LenProperties
<1>2. \A i \in S : i.first \in Nat /\ i.last \in Nat /\ i.first <= i.last
  BY DEF Located
<1>3. Keep(kept, issue) = IF rivals = {} THEN longer
                          ELSE IF issue.confidence > kept[place].confidence THEN changed
                          ELSE kept
  <2>1. rivals = {k \in DOMAIN kept : Overlap(issue, kept[k])}
    BY <1>1
  <2>. QED BY <2>1 DEF Keep
<1>4. \A i \in 1..n : Overlap(issue, kept[i]) <=> i \in rivals
  OBVIOUS
<1>5. ASSUME NEW i \in rivals, NEW j \in rivals PROVE i = j
  <2>1. i \in 1..n /\ j \in 1..n /\ Overlap(issue, kept[i]) /\ Overlap(issue, kept[j])
    OBVIOUS
  <2>2. Overlap(kept[i], kept[j])
    BY <1>1, <1>2, <2>1 DEF Overlap
  <2>. QED BY <2>1, <2>2 DEF Apart
<1>6. rivals # {} => place \in rivals /\ rivals = {place}
  <2>. SUFFICES ASSUME rivals # {} PROVE place \in rivals /\ rivals = {place}
    OBVIOUS
  <2>1. PICK r \in rivals : rivals = {r}
    BY <1>5
  <2>2. r \in 1..n
    OBVIOUS
  <2>. HIDE DEF rivals
  <2>3. \A x : x \in rivals /\ (\A y \in rivals : x <= y) => x = r
    BY <2>1
  <2>4. r \in rivals /\ \A y \in rivals : r <= y
    BY <1>1, <2>1, <2>2
  <2>5. place \in rivals
    BY <2>4 DEF Min
  <2>. QED BY <2>1, <2>5
<1>. HIDE DEF rivals, place
<1>7. CASE rivals = {}
  <2>1. /\ Len(longer) = n + 1
        /\ \A i \in 1..n : longer[i] = kept[i]
        /\ longer[n + 1] = issue
    BY AppendProperties
  <2>. HIDE DEF longer, n
  <2>2. \A i \in 1..n : ~Overlap(issue, kept[i]) /\ ~Overlap(kept[i], issue)
    BY <1>4, <1>7 DEF Overlap
  <2>3. \A i \in 1..(n + 1) : i \in 1..n \/ i = n + 1
    BY <1>1
  <2>4. Apart(longer)
    <3>. SUFFICES ASSUME NEW i \in 1..(n + 1), NEW j \in 1..(n + 1), Overlap(longer[i], longer[j])
                  PROVE  i = j
      BY <2>1 DEF Apart
    <3>1. CASE i \in 1..n /\ j \in 1..n
      BY <2>1, <3>1 DEF Apart, n
    <3>2. CASE i \in 1..n /\ j = n + 1
      BY <2>1, <2>2, <3>2
    <3>3. CASE i = n + 1 /\ j \in 1..n
      BY <2>1, <2>2, <3>3
    <3>. QED BY <2>3, <3>1, <3>2, <3>3
  <2>5. \A i \in 1..(n + 1) : longer[i].first <= issue.first
    BY <1>2, <2>1, <2>3 DEF n
  <2>. QED BY <1>3, <1>7, <2>1, <2>4, <2>5
<1>8. CASE rivals # {} /\ issue.confidence > kept[place].confidence
  <2>1. place \in 1..n
    BY <1>6, <1>8 DEF rivals
  <2>2. /\ Len(changed) = n
        /\ \A i \in 1..n : changed[i] = IF i = place THEN issue ELSE kept[i]
    BY <2>1, ExceptSeq
  <2>. HIDE DEF changed, n
  <2>3. \A i \in 1..n : i # place => ~Overlap(issue, kept[i]) /\ ~Overlap(kept[i], issue)
    BY <1>4, <1>6, <1>8 DEF Overlap
  <2>4. Apart(changed)
    <3>. SUFFICES ASSUME NEW i \in 1..n, NEW j \in 1..n, Overlap(changed[i], changed[j]), i # j
                  PROVE  FALSE
      BY <2>2 DEF Apart
    <3>1. CASE i # place /\ j # place
      BY <2>2, <3>1 DEF Apart, n
    <3>2. CASE i = place \/ j = place
      BY <2>2, <2>3, <3>2
    <3>. QED BY <3>1, <3>2
  <2>5. \A i \in 1..n : changed[i].first <= issue.first
    <3>. SUFFICES ASSUME NEW i \in 1..n PROVE changed[i].first <= issue.first
      OBVIOUS
    <3>1. issue.first <= issue.first
      BY <1>2
    <3>2. kept[i].first <= issue.first
      BY DEF n
    <3>. QED BY <2>2, <3>1, <3>2
  <2>. QED BY <1>3, <1>8, <2>2, <2>4, <2>5
<1>9. CASE rivals # {} /\ ~(issue.confidence > kept[place].confidence)
  BY <1>3, <1>9
<1>. QED BY <1>7, <1>8, <1>9

(***************************************************************************)
(* So what is kept of a sorted group never overlaps.                       *)
(***************************************************************************)
LEMMA KeepAll ==
  ASSUME NEW S, Located(S), NEW seq \in Seq(S), Sorted(seq)
  PROVE  FoldLeft(Keep, <<>>, seq) \in Seq(S) /\ Apart(FoldLeft(Keep, <<>>, seq))
<1>. DEFINE n == Len(seq)
<1>1. n \in Nat /\ \A k \in 1..n : seq[k] \in S
  BY LenProperties
<1>2. PICK run \in [0..n -> Seq(S)] :
        /\ run[0] = <<>> /\ run[n] = FoldLeft(Keep, <<>>, seq)
        /\ \A k \in 1..n : run[k] = Keep(run[k - 1], seq[k])
  BY KeepRun
<1>. DEFINE earlier(k) == \A i \in 1..Len(run[k]) : \A j \in (k + 1)..n :
              run[k][i].first <= seq[j].first
            good == {k \in 0..n : Apart(run[k]) /\ earlier(k)}
<1>3. \A i, j \in 1..n : i < j => seq[i].first <= seq[j].first
  BY <1>1 DEF Sorted, IssueBefore, Located
<1>. HIDE DEF n
<1>4. 0 \in good
  <2>1. Len(run[0]) = 0 /\ 1..0 = {}
    BY <1>2
  <2>2. Apart(run[0]) /\ earlier(0)
    BY <2>1 DEF Apart
  <2>. HIDE DEF earlier
  <2>. QED BY <1>1, <2>2
<1>5. ASSUME NEW k \in 1..n, k - 1 \in good PROVE k \in good
  <2>1. k - 1 \in 0..n /\ k \in 0..n /\ k \in (k - 1 + 1)..n
    BY <1>1
  <2>2. Apart(run[k - 1]) /\ earlier(k - 1)
    BY <1>5
  <2>3. run[k - 1] \in Seq(S) /\ seq[k] \in S
    BY <1>1, <1>2, <2>1
  <2>4. \A i \in 1..Len(run[k - 1]) : run[k - 1][i].first <= seq[k].first
    BY <2>1, <2>2
  <2>5. Apart(run[k]) /\ \A i \in 1..Len(run[k]) : run[k][i].first <= seq[k].first
    <3>1. run[k] = Keep(run[k - 1], seq[k])
      BY <1>2
    <3>2. /\ Apart(Keep(run[k - 1], seq[k]))
          /\ \A i \in 1..Len(Keep(run[k - 1], seq[k])) :
               Keep(run[k - 1], seq[k])[i].first <= seq[k].first
      BY <2>2, <2>3, <2>4, KeepApart
    <3>. QED BY <3>1, <3>2
  <2>6. ASSUME NEW i \in 1..Len(run[k]), NEW j \in (k + 1)..n
        PROVE  run[k][i].first <= seq[j].first
    <3>1. run[k] \in Seq(S)
      BY <1>2, <2>1
    <3>2. run[k][i].first \in Nat
      BY <3>1, LenProperties DEF Located
    <3>3. j \in 1..n /\ k < j
      BY <1>1
    <3>4. seq[k].first \in Nat /\ seq[j].first \in Nat
      BY <1>1, <3>3 DEF Located
    <3>5. seq[k].first <= seq[j].first
      BY <1>3, <3>3
    <3>. QED BY <2>5, <3>2, <3>4, <3>5
  <2>7. earlier(k)
    BY <2>6
  <2>. HIDE DEF earlier
  <2>. QED BY <2>1, <2>5, <2>7
<1>. HIDE DEF good
<1>6. \A k \in 0..n : k \in good
  BY <1>1, <1>4, <1>5, Induction
<1>. QED BY <1>1, <1>2, <1>6 DEF good

(***************************************************************************)
(* The values of a function on a finite set are finitely many.             *)
(***************************************************************************)
LEMMA ValuesFinite ==
  ASSUME NEW S, IsFiniteSet(S), NEW f, DOMAIN f = S
  PROVE  IsFiniteSet({f[x] : x \in S})
<1>. DEFINE T == {f[x] : x \in S}
            g == [x \in S |-> f[x]]
<1>1. g \in [S -> T] /\ \A y \in T : \E x \in S : g[x] = y
  OBVIOUS
<1>. HIDE DEF g, T
<1>2. g \in Surjection(S, T)
  BY <1>1 DEF Surjection
<1>3. IsFiniteSet(T)
  BY <1>2, FS_Surjection
<1>. QED BY <1>3 DEF T

(***************************************************************************)
(* What is left after removing duplicates are some of the issues, and no   *)
(* two twins among them overlap.                                           *)
(***************************************************************************)
LEMMA DedupFacts ==
  ASSUME NEW S, Located(S), NEW issues \in Seq(S)
  PROVE  /\ Deduplicated(issues) \subseteq S /\ IsFiniteSet(Deduplicated(issues))
         /\ \A i, j \in Deduplicated(issues) : Twins(i, j) /\ Overlap(i, j) => i = j
<1>. DEFINE kept(key, file) == FoldLeft(Keep, <<>>, Group(issues, key, file))
            twins(key, file) == {i \in S : i.key = key /\ i.file = file}
            parts == {ToSet(kept(i.key, i.file)) : i \in ToSet(issues)}
<1>1. Deduplicated(issues) = UNION parts
  BY DEF Deduplicated
<1>2. ASSUME NEW key, NEW file
      PROVE  kept(key, file) \in Seq(twins(key, file)) /\ Apart(kept(key, file))
  <2>. DEFINE T == twins(key, file)
              q == Group(issues, key, file)
  <2>1. Located(T)
    BY DEF Located
  <2>2. q \in Seq(T) /\ Sorted(q)
    BY GroupFacts
  <2>. HIDE DEF T, q
  <2>3. FoldLeft(Keep, <<>>, q) \in Seq(T) /\ Apart(FoldLeft(Keep, <<>>, q))
    BY <2>1, <2>2, KeepAll
  <2>. QED BY <2>3 DEF T, q
<1>. HIDE DEF kept
<1>3. ASSUME NEW key, NEW file, NEW i \in ToSet(kept(key, file))
      PROVE  /\ i \in S /\ i.key = key /\ i.file = file
             /\ \E x \in 1..Len(kept(key, file)) : i = kept(key, file)[x]
  <2>. DEFINE T == twins(key, file)
              q == kept(key, file)
  <2>1. q \in Seq(T) /\ i \in ToSet(q)
    BY <1>2
  <2>. HIDE DEF T, q
  <2>2. \E x \in 1..Len(q) : i = q[x] /\ q[x] \in T
    BY <2>1, LenProperties DEF ToSet
  <2>. QED BY <2>2 DEF T, q
<1>4. Deduplicated(issues) \subseteq S
  BY <1>1, <1>3
<1>5. IsFiniteSet(Deduplicated(issues))
  <2>1. ASSUME NEW A, NEW q \in Seq(A) PROVE IsFiniteSet(ToSet(q))
    <3>1. Len(q) \in Nat /\ DOMAIN q = 1..Len(q)
      BY LenProperties
    <3>2. IsFiniteSet(1..Len(q))
      BY <3>1, FS_Interval
    <3>3. IsFiniteSet({q[x] : x \in 1..Len(q)})
      BY <3>1, <3>2, ValuesFinite
    <3>. QED BY <3>1, <3>3 DEF ToSet
  <2>2. IsFiniteSet(ToSet(issues))
    BY <2>1
  <2>3. \A P \in parts : IsFiniteSet(P)
    <3>. SUFFICES ASSUME NEW i \in ToSet(issues) PROVE IsFiniteSet(ToSet(kept(i.key, i.file)))
      OBVIOUS
    <3>. DEFINE T == twins(i.key, i.file)
                q == kept(i.key, i.file)
    <3>1. q \in Seq(T)
      BY <1>2
    <3>. HIDE DEF T, q
    <3>2. IsFiniteSet(ToSet(q))
      BY <2>1, <3>1
    <3>. QED BY <3>2 DEF q
  <2>4. IsFiniteSet(parts)
    <3>. DEFINE A == ToSet(issues)
                f == [i \in A |-> ToSet(kept(i.key, i.file))]
    <3>1. DOMAIN f = A /\ parts = {f[i] : i \in A}
      OBVIOUS
    <3>. HIDE DEF A, f, parts
    <3>2. IsFiniteSet({f[i] : i \in A})
      BY <2>2, <3>1, ValuesFinite DEF A
    <3>. QED BY <3>1, <3>2
  <2>. HIDE DEF parts
  <2>. QED BY <1>1, <2>3, <2>4, FS_UNION
<1>6. ASSUME NEW i \in Deduplicated(issues), NEW j \in Deduplicated(issues),
             Twins(i, j), Overlap(i, j)
      PROVE  i = j
  <2>1. PICK a \in ToSet(issues) : i \in ToSet(kept(a.key, a.file))
    BY <1>1
  <2>2. PICK b \in ToSet(issues) : j \in ToSet(kept(b.key, b.file))
    BY <1>1
  <2>3. a.key = b.key /\ a.file = b.file
    BY <1>3, <2>1, <2>2, <1>6 DEF Twins
  <2>. DEFINE q == kept(a.key, a.file)
  <2>4. \E x \in 1..Len(q) : i = q[x]
    BY <1>3, <2>1
  <2>5. \E y \in 1..Len(q) : j = q[y]
    BY <1>3, <2>2, <2>3
  <2>6. Apart(q)
    BY <1>2
  <2>. QED BY <1>6, <2>4, <2>5, <2>6 DEF Apart
<1>. QED BY <1>4, <1>5, <1>6

-----------------------------------------------------------------------------
(***************************************************************************)
(* The issues of a batch are backed by the chunks shown with it.           *)
(***************************************************************************)
LEMMA IssuesOf ==
  ASSUME NEW result \in Results \cup {Plain("none")}
  PROVE  /\ result.issues \in Seq(ToSet(result.issues))
         /\ \A issue \in ToSet(result.issues) : result \in IssueResults
<1>1. CASE result \in IssueResults
  BY <1>1, IssueAssumption
<1>2. CASE result.issues = <<>>
  BY <1>2 DEF ToSet
<1>. QED BY <1>1, <1>2 DEF Results, Plain

(***************************************************************************)
(* An issue that passes acceptance, with its final confidence, is backed   *)
(* by the evidence its probe showed.                                       *)
(***************************************************************************)
LEMMA AcceptedBacked ==
  ASSUME NEW b \in Tasks, NEW result \in IssueResults, NEW issue \in ToSet(result.issues),
         AcceptedIssue(issue, result, Shown(b))
  PROVE  [issue EXCEPT !.confidence = Confidence(issue, result)] \in Backed
<1>. DEFINE c == Confidence(issue, result)
            final == [issue EXCEPT !.confidence = c]
<1>1. IsIssue(issue)
  BY IssueAssumption
<1>2. c # NoValue /\ c >= MinConfidence /\ issue.first <= issue.last
  BY DEF AcceptedIssue, IsEligible
<1>3. \A line \in {issue.first, issue.last} :
        \E chunk \in Shown(b) : chunk.file = issue.file /\ Inside(line, chunk)
  BY DEF AcceptedIssue, SupportingChunks
<1>4. final \in Final
  BY DEF Final
<1>. HIDE DEF c
<1>5. /\ final.first = issue.first /\ final.last = issue.last /\ final.file = issue.file
      /\ final.confidence = c
  BY <1>1 DEF IsIssue
<1>. HIDE DEF final
<1>6. IsBacked(final)
  BY <1>2, <1>3, <1>5 DEF IsBacked
<1>7. final \in Backed
  BY <1>2, <1>4, <1>5, <1>6 DEF Backed
<1>. QED BY <1>7 DEF final, c

(***************************************************************************)
(* Backed issues have lines and a confidence in numbers.                   *)
(***************************************************************************)
LEMMA BackedLocated ==
  Located(Backed)
<1>. SUFFICES ASSUME NEW i \in Backed
              PROVE  i.first \in Nat /\ i.last \in Nat /\ i.confidence \in Nat /\ i.first <= i.last
  BY DEF Located
<1>1. i \in Final /\ i.confidence # NoValue /\ i.first <= i.last
  BY DEF Backed
<1>2. PICK result \in IssueResults :
        i \in {[j EXCEPT !.confidence = Confidence(j, result)] : j \in ToSet(result.issues)}
  BY <1>1 DEF Final
<1>3. PICK issue \in ToSet(result.issues) :
        i = [issue EXCEPT !.confidence = Confidence(issue, result)]
  BY <1>2
<1>4. IsIssue(issue) /\ result.confidence \in Nat \cup {NoValue}
  BY IssueAssumption
<1>5. i.first = issue.first /\ i.last = issue.last /\ i.confidence = Confidence(issue, result)
  BY <1>3, <1>4 DEF IsIssue
<1>. QED BY <1>1, <1>4, <1>5 DEF IsIssue, Confidence

(***************************************************************************)
(* Adding what a result reports to backed issues leaves backed issues.     *)
(***************************************************************************)
LEMMA AddAcceptedFacts ==
  ASSUME NEW b \in Tasks, NEW result \in Results \cup {Plain("none")},
         NEW issues \in Seq(Backed)
  PROVE  AddAccepted(issues, result, Shown(b)) \in Seq(Backed)
<1>. DEFINE q == result.issues
            n == Len(q)
            A == Seq(Backed)
            base == issues
            next(a, k) == IF AcceptedIssue(q[k], result, Shown(b))
                            THEN Append(a, [q[k] EXCEPT !.confidence = Confidence(q[k], result)])
                            ELSE a
            iter == CHOOSE g : g = [T \in SUBSET (1..n) |->
                      IF T = {} THEN base ELSE next(g[T \ {Max(T)}], Max(T))]
            step == [p \in A \X (1..n) |-> next(p[1], p[2])]
<1>1. AddAccepted(issues, result, Shown(b)) = iter[1..n]
  <2>1. DOMAIN q = 1..n
    BY IssuesOf, LenProperties
  <2>. QED BY <2>1 DEF FoldLeft, MapThenFoldSet, AddAccepted
<1>2. n \in Nat /\ base \in A
  BY IssuesOf, LenProperties
<1>3. ASSUME NEW a \in A, NEW k \in 1..n PROVE next(a, k) \in A
  <2>1. q[k] \in ToSet(q) /\ result \in IssueResults
    BY IssuesOf, LenProperties DEF ToSet
  <2>2. AcceptedIssue(q[k], result, Shown(b)) =>
          [q[k] EXCEPT !.confidence = Confidence(q[k], result)] \in Backed
    BY <2>1, AcceptedBacked
  <2>. QED BY <2>2, AppendProperties
<1>. HIDE DEF next, A, n, base
<1>4. /\ step \in [A \X (1..n) -> A]
      /\ \A a \in A, k \in 1..n : step[<<a, k>>] = next(a, k)
  BY <1>3
<1>. HIDE DEF step
<1>5. iter = [T \in SUBSET (1..n) |-> IF T = {} THEN base ELSE next(iter[T \ {Max(T)}], Max(T))]
  <2>1. PICK g \in [SUBSET (1..n) -> A] : IsFold(g, n, base, step)
    BY <1>2, <1>4, FoldExists
  <2>2. ASSUME NEW T \in SUBSET (1..n)
        PROVE  g[T] = IF T = {} THEN base ELSE next(g[T \ {Max(T)}], Max(T))
    <3>1. T # {} => Max(T) \in 1..n
      BY <1>2, MaxFacts
    <3>2. g[T] = IF T = {} THEN base ELSE step[<<g[T \ {Max(T)}], Max(T)>>]
      BY <2>1 DEF IsFold
    <3>. QED BY <1>4, <3>1, <3>2
  <2>3. g = [T \in SUBSET (1..n) |-> IF T = {} THEN base ELSE next(g[T \ {Max(T)}], Max(T))]
    BY <2>2
  <2>. QED BY <2>3
<1>. HIDE DEF iter
<1>6. iter[{}] = base /\ \A k \in 1..n : iter[1..k] = next(iter[1..(k - 1)], k)
  <2>1. {} \in SUBSET (1..n)
    OBVIOUS
  <2>. QED BY <1>2, <1>5, <2>1, Segments
<1>7. \A k \in 0..n : iter[1..k] \in A
  <2>1. iter[{}] \in A
    BY <1>2, <1>6
  <2>2. ASSUME NEW k \in 1..n, iter[1..(k - 1)] \in A PROVE iter[1..k] \in A
    BY <1>3, <1>6, <2>2
  <2>. QED BY <1>2, <2>1, <2>2, FoldStays
<1>8. iter[1..n] \in A
  BY <1>2, <1>7
<1>. QED BY <1>1, <1>8 DEF A

(***************************************************************************)
(* Every probe of a batch has a result, or none yet.                       *)
(***************************************************************************)
LEMMA BatchFacts ==
  ASSUME JudgeTypeOK, NEW b \in Tasks
  PROVE  /\ Batches[b] \in Seq(ToSet(Batches[b]))
         /\ \A k \in 1..Len(Batches[b]) :
              accepted[b][Batches[b][k].probe] \in Results \cup {Plain("none")}
<1>1. Batches[b] \in Seq(ToSet(Batches[b]))
  BY IssueAssumption
<1>2. \A k \in 1..Len(Batches[b]) : Batches[b][k].probe \in Probes(b)
  BY <1>1, LenProperties DEF Probes
<1>. QED BY <1>1, <1>2 DEF JudgeTypeOK

(***************************************************************************)
(* The issues built from a judged batch are all backed.                    *)
(***************************************************************************)
LEMMA BuildFacts ==
  ASSUME JudgeTypeOK, NEW b \in Tasks
  PROVE  Build(b) \in Seq(Backed)
<1>. DEFINE q == Batches[b]
            n == Len(q)
            A == Seq(Backed)
            base == <<>>
            next(a, k) == AddAccepted(a, accepted[b][q[k].probe], Shown(b))
            iter == CHOOSE g : g = [T \in SUBSET (1..n) |->
                      IF T = {} THEN base ELSE next(g[T \ {Max(T)}], Max(T))]
            step == [p \in A \X (1..n) |-> next(p[1], p[2])]
<1>1. Build(b) = iter[1..n]
  <2>1. DOMAIN q = 1..n
    BY BatchFacts, LenProperties
  <2>. QED BY <2>1 DEF FoldLeft, MapThenFoldSet, Build
<1>2. n \in Nat /\ base \in A
  BY BatchFacts, LenProperties
<1>3. ASSUME NEW a \in A, NEW k \in 1..n PROVE next(a, k) \in A
  BY BatchFacts, AddAcceptedFacts
<1>. HIDE DEF next, A, n, base
<1>4. /\ step \in [A \X (1..n) -> A]
      /\ \A a \in A, k \in 1..n : step[<<a, k>>] = next(a, k)
  BY <1>3
<1>. HIDE DEF step
<1>5. iter = [T \in SUBSET (1..n) |-> IF T = {} THEN base ELSE next(iter[T \ {Max(T)}], Max(T))]
  <2>1. PICK g \in [SUBSET (1..n) -> A] : IsFold(g, n, base, step)
    BY <1>2, <1>4, FoldExists
  <2>2. ASSUME NEW T \in SUBSET (1..n)
        PROVE  g[T] = IF T = {} THEN base ELSE next(g[T \ {Max(T)}], Max(T))
    <3>1. T # {} => Max(T) \in 1..n
      BY <1>2, MaxFacts
    <3>2. g[T] = IF T = {} THEN base ELSE step[<<g[T \ {Max(T)}], Max(T)>>]
      BY <2>1 DEF IsFold
    <3>. QED BY <1>4, <3>1, <3>2
  <2>3. g = [T \in SUBSET (1..n) |-> IF T = {} THEN base ELSE next(g[T \ {Max(T)}], Max(T))]
    BY <2>2
  <2>. QED BY <2>3
<1>. HIDE DEF iter
<1>6. iter[{}] = base /\ \A k \in 1..n : iter[1..k] = next(iter[1..(k - 1)], k)
  <2>1. {} \in SUBSET (1..n)
    OBVIOUS
  <2>. QED BY <1>2, <1>5, <2>1, Segments
<1>7. \A k \in 0..n : iter[1..k] \in A
  <2>1. iter[{}] \in A
    BY <1>2, <1>6
  <2>2. ASSUME NEW k \in 1..n, iter[1..(k - 1)] \in A PROVE iter[1..k] \in A
    BY <1>3, <1>6, <2>2
  <2>. QED BY <1>2, <2>1, <2>2, FoldStays
<1>8. iter[1..n] \in A
  BY <1>2, <1>7
<1>. QED BY <1>1, <1>8 DEF A

(***************************************************************************)
(* What the judge reports of a batch is a count.                           *)
(***************************************************************************)
LEMMA ReportedFacts ==
  ASSUME JudgeTypeOK, NEW b \in Tasks
  PROVE  Reported(b) \in Nat
<1>. DEFINE q == Batches[b]
            n == Len(q)
            A == Nat
            base == 0
            next(a, k) == a + Len(accepted[b][q[k].probe].issues)
            iter == CHOOSE g : g = [T \in SUBSET (1..n) |->
                      IF T = {} THEN base ELSE next(g[T \ {Max(T)}], Max(T))]
            step == [p \in A \X (1..n) |-> next(p[1], p[2])]
<1>1. Reported(b) = iter[1..n]
  <2>1. DOMAIN q = 1..n
    BY BatchFacts, LenProperties
  <2>. QED BY <2>1 DEF FoldLeft, MapThenFoldSet, Reported
<1>2. n \in Nat /\ base \in A
  BY BatchFacts, LenProperties
<1>3. ASSUME NEW a \in A, NEW k \in 1..n PROVE next(a, k) \in A
  <2>1. accepted[b][q[k].probe].issues \in Seq(ToSet(accepted[b][q[k].probe].issues))
    BY BatchFacts, IssuesOf
  <2>2. Len(accepted[b][q[k].probe].issues) \in Nat
    BY <2>1, LenProperties
  <2>3. a \in Nat /\ \A c \in Nat : a + c \in Nat
    OBVIOUS
  <2>. QED BY <2>2, <2>3, Zenon
<1>. HIDE DEF next, A, n, base
<1>4. /\ step \in [A \X (1..n) -> A]
      /\ \A a \in A, k \in 1..n : step[<<a, k>>] = next(a, k)
  BY <1>3
<1>. HIDE DEF step
<1>5. iter = [T \in SUBSET (1..n) |-> IF T = {} THEN base ELSE next(iter[T \ {Max(T)}], Max(T))]
  <2>1. PICK g \in [SUBSET (1..n) -> A] : IsFold(g, n, base, step)
    BY <1>2, <1>4, FoldExists
  <2>2. ASSUME NEW T \in SUBSET (1..n)
        PROVE  g[T] = IF T = {} THEN base ELSE next(g[T \ {Max(T)}], Max(T))
    <3>1. T # {} => Max(T) \in 1..n
      BY <1>2, MaxFacts
    <3>2. g[T] = IF T = {} THEN base ELSE step[<<g[T \ {Max(T)}], Max(T)>>]
      BY <2>1 DEF IsFold
    <3>. QED BY <1>4, <3>1, <3>2
  <2>3. g = [T \in SUBSET (1..n) |-> IF T = {} THEN base ELSE next(g[T \ {Max(T)}], Max(T))]
    BY <2>2
  <2>. QED BY <2>3
<1>. HIDE DEF iter
<1>6. iter[{}] = base /\ \A k \in 1..n : iter[1..k] = next(iter[1..(k - 1)], k)
  <2>1. {} \in SUBSET (1..n)
    OBVIOUS
  <2>. QED BY <1>2, <1>5, <2>1, Segments
<1>7. \A k \in 0..n : iter[1..k] \in A
  <2>1. iter[{}] \in A
    BY <1>2, <1>6
  <2>2. ASSUME NEW k \in 1..n, iter[1..(k - 1)] \in A PROVE iter[1..k] \in A
    BY <1>3, <1>6, <2>2
  <2>. QED BY <1>2, <2>1, <2>2, FoldStays
<1>8. iter[1..n] \in A
  BY <1>2, <1>7
<1>. QED BY <1>1, <1>8 DEF A


-----------------------------------------------------------------------------
(***************************************************************************)
(* Every step preserves IssueInv: what is pending is backed, and what is   *)
(* reported is counted as created or as rejected; removing duplicates      *)
(* moves issues from one count to the other.                               *)
(***************************************************************************)
LEMMA IssueStep ==
  ASSUME JudgeInv, IssueInv, [Next]_vars
  PROVE  IssueInv'
<1>. JudgeTypeOK /\ TaskInv /\ LoopInv
  BY DEF JudgeInv
<1>1. /\ pending \in Seq(Backed)
      /\ summary.reported \in Int /\ summary.created \in Int /\ summary.rejected \in Int
      /\ summary.reported = summary.created + summary.rejected
  BY DEF IssueInv
<1>2. ASSUME UNCHANGED <<pending, summary, stored>>,
             \/ main' \in {main, "done", "failed"}
             \/ main = "reporting"
      PROVE  IssueInv'
  <2>1. StoredIssuesAreBacked'
    BY <1>2 DEF IssueInv, StoredIssuesAreBacked
  <2>2. main' \in {"judging", "reporting", "stopping"} => summary'.created = Len(pending')
    BY <1>2 DEF IssueInv
  <2>. QED BY <1>1, <1>2, <2>1, <2>2 DEF IssueInv
<1>3. ASSUME NEW b \in Tasks, TaskStep(b) PROVE IssueInv'
  <2>1. UNCHANGED <<pending, summary, stored>> /\ main' = main
    BY <1>3, TaskStepEffect
  <2>. QED BY <1>2, <2>1
<1>4. CASE HandleOutcome
  <2>1. main = "judging" /\ stored' = stored /\ stored = NoValue
    BY <1>4 DEF HandleOutcome, LoopInv
  <2>2. StoredIssuesAreBacked'
    BY <2>1 DEF StoredIssuesAreBacked
  <2>. DEFINE b == Head(outcomes)
              new == Build(b)
  <2>3. b \in Tasks
    BY <1>4, HeadTailProperties DEF HandleOutcome, JudgeTypeOK
  <2>4. new \in Seq(Backed) /\ Reported(b) \in Nat
    BY <2>3, BuildFacts, ReportedFacts
  <2>5. CASE task[b] = "answered"
    <3>1. pending' = pending \o new
      BY <1>4, <2>5 DEF HandleOutcome
    <3>2. /\ summary'.reported = summary.reported + Reported(b)
          /\ summary'.created = summary.created + Len(new)
          /\ summary'.rejected = summary.rejected + Reported(b) - Len(new)
      BY <1>4, <2>5 DEF HandleOutcome
    <3>3. summary.created = Len(pending)
      BY <2>1 DEF IssueInv
    <3>. HIDE DEF new, b
    <3>4. pending' \in Seq(Backed) /\ Len(pending') = Len(pending) + Len(new)
      BY <1>1, <2>4, <3>1, ConcatProperties
    <3>5. Len(new) \in Nat
      BY <2>4, LenProperties
    <3>6. /\ summary'.reported \in Int /\ summary'.created \in Int /\ summary'.rejected \in Int
          /\ summary'.reported = summary'.created + summary'.rejected
      BY <1>1, <2>4, <3>2, <3>5
    <3>7. summary'.created = Len(pending')
      BY <3>2, <3>3, <3>4
    <3>. QED BY <2>2, <3>4, <3>6, <3>7 DEF IssueInv
  <2>6. CASE task[b] # "answered"
    <3>1. UNCHANGED <<pending, summary>>
      BY <1>4, <2>6 DEF HandleOutcome
    <3>. QED BY <1>1, <2>1, <2>2, <3>1 DEF IssueInv
  <2>. QED BY <2>5, <2>6
<1>5. CASE Report
  BY <1>2, <1>5 DEF Report
<1>6. CASE Stop
  BY <1>2, <1>6 DEF Stop
<1>7. CASE Store
  <2>. DEFINE kept == Deduplicated(pending)
              c == Cardinality(kept)
  <2>1. main = "judging" /\ stored = NoValue
    BY <1>7 DEF Store, LoopInv
  <2>2. /\ kept \subseteq Backed /\ IsFiniteSet(kept)
        /\ \A i, j \in kept : Twins(i, j) /\ Overlap(i, j) => i = j
    BY <1>1, BackedLocated, DedupFacts
  <2>3. UNCHANGED pending /\ ((main' = "done" /\ stored' = kept) \/ (main' = "failed" /\ stored' = stored))
    BY <1>7 DEF Store
  <2>4. summary' = [summary EXCEPT !.created = c, !.rejected = @ + Len(pending) - c]
    BY <1>7 DEF Store
  <2>. HIDE DEF kept
  <2>5. c \in Nat
    BY <2>2, FS_CardinalityType
  <2>6. Len(pending) \in Nat /\ summary.created = Len(pending)
    BY <1>1, <2>1, LenProperties DEF IssueInv
  <2>. HIDE DEF c
  <2>7. /\ summary'.reported = summary.reported /\ summary'.created = c
        /\ summary'.rejected = summary.rejected + Len(pending) - c
    <3>1. DOMAIN summary = {"batches", "reported", "created", "rejected", "noIssue", "uncertain"}
      BY DEF JudgeTypeOK, NoSummary
    <3>. QED BY <2>4, <3>1
  <2>8. /\ summary'.reported \in Int /\ summary'.created \in Int /\ summary'.rejected \in Int
        /\ summary'.reported = summary'.created + summary'.rejected
    BY <1>1, <2>5, <2>6, <2>7
  <2>9. StoredIssuesAreBacked'
    <3>1. \A i \in kept : IsBacked(i)
      BY <2>2 DEF Backed
    <3>2. stored' # NoValue => stored' = kept
      BY <2>1, <2>3
    <3>. QED BY <2>2, <2>7, <2>8, <3>1, <3>2 DEF StoredIssuesAreBacked, c
  <2>. QED BY <1>1, <2>3, <2>8, <2>9 DEF IssueInv
<1>8. CASE UNCHANGED vars
  BY <1>2, <1>8 DEF vars, loop
<1>. QED BY <1>3, <1>4, <1>5, <1>6, <1>7, <1>8 DEF Next, MainStep, Over

(***************************************************************************)
(* The first state stores nothing.                                         *)
(***************************************************************************)
LEMMA IssueInit ==
  Init => IssueInv
<1>. SUFFICES ASSUME Init PROVE IssueInv
  OBVIOUS
<1>1. pending = <<>> /\ summary = NoSummary /\ stored = NoValue
  BY DEF Init
<1>2. pending \in Seq(Backed) /\ Len(pending) = 0
  BY <1>1, EmptySeq
<1>. QED BY <1>1, <1>2 DEF IssueInv, NoSummary, StoredIssuesAreBacked

(***************************************************************************)
(* What is stored is backed by what the judge was shown, no two stored     *)
(* issues with the same key overlap, and every issue reported is either    *)
(* stored or counted as rejected, whatever the model answers and in        *)
(* whatever order the batches come in.                                     *)
(***************************************************************************)
THEOREM BackedCorrect ==
  Spec => []StoredIssuesAreBacked
<1>1. Spec => [](JudgeInv /\ IssueInv)
  <2>1. Init => JudgeInv /\ IssueInv
    BY JudgeInit, IssueInit
  <2>2. (JudgeInv /\ IssueInv) /\ [Next]_vars => (JudgeInv /\ IssueInv)'
    BY IssueStep, JudgeTypeStep, TaskInvStep, SessionStep, LoopStep, CountStep DEF JudgeInv
  <2>. QED BY <2>1, <2>2, PTL DEF Spec
<1>2. IssueInv => StoredIssuesAreBacked
  BY DEF IssueInv
<1>. QED BY <1>1, <1>2, PTL

=============================================================================
