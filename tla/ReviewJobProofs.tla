--------------------------- MODULE ReviewJobProofs ---------------------------
(***************************************************************************)
(* Proofs about ReviewJob, for any set of status requests, any number of   *)
(* judge batches, and any bound on crashes and lost announcements.         *)
(***************************************************************************)
EXTENDS ReviewJob, TLAPS

(***************************************************************************)
(* A stage has a successor other than itself, and none comes back to       *)
(* PENDING; only GENERATING_REPORT is followed by COMPLETED.               *)
(***************************************************************************)
LEMMA AfterStage ==
  ASSUME NEW s \in Stages
  PROVE  /\ After(s) \in (Stages \cup {"COMPLETED"}) \ {"PENDING", s}
         /\ After(s) \in Worked \cup {"GENERATING_REPORT", "COMPLETED"}
         /\ s \in Worked \ {"AI_REVIEWING"} <=> After(s) \in Worked \ {"CLONING"}
         /\ s = "PENDING" <=> After(s) = "CLONING"
         /\ s = "GENERATING_REPORT" <=> After(s) = "COMPLETED"
         /\ s = "AI_REVIEWING" <=> After(s) = "GENERATING_REPORT"
BY DEF After, Stages, Worked

(***************************************************************************)
(* Entering a stage, the stored progress is a percentage, and no less than *)
(* that of the stage before.                                               *)
(***************************************************************************)
LEMMA EnterRange ==
  ASSUME NEW s \in Stages \cup {"COMPLETED"}
  PROVE  /\ Enter(s) \in 0..100
         /\ s \in Stages => Enter(s) <= Enter(After(s))
BY DEF Enter, After, Stages

(***************************************************************************)
(* The progress announced for a judge batch stays between those of the     *)
(* stages around it, whatever the number of batches.                       *)
(***************************************************************************)
LEMMA AiProgressRange ==
  ASSUME NEW completed \in Int, NEW total \in Int
  PROVE  AiProgress(completed, total) \in AiStart..AiEnd
<1>. DEFINE bounded == IF completed < total THEN completed ELSE total
            span == (bounded * (AiEnd - AiStart)) \div total
<1>1. CASE total <= 0 \/ completed <= 0
  BY <1>1 DEF AiProgress, AiStart, AiEnd
<1>2. CASE total > 0 /\ completed > 0
  <2>1. bounded * (AiEnd - AiStart) \in Int
    BY DEF AiStart, AiEnd
  <2>2. span \in Int
    <3>. HIDE DEF bounded
    <3>. QED BY <1>2, <2>1, SMTT(30) DEF AiStart, AiEnd
  <2>. HIDE DEF span
  <2>3. AiProgress(completed, total) =
          LET shown == AiStart + (IF span < 1 THEN 1 ELSE span)
          IN  IF shown > AiEnd THEN AiEnd ELSE shown
    BY <1>2 DEF AiProgress, span, AiStart, AiEnd
  <2>. QED BY <2>2, <2>3 DEF AiStart, AiEnd
<1>. QED BY <1>1, <1>2

(***************************************************************************)
(* What the helpers write stays in the variables' domains.                 *)
(***************************************************************************)
LEMMA GotoType ==
  ASSUME NEW a \in Actors, NEW s \in Step, pc \in [Actors -> Step], Goto(a, s)
  PROVE  pc' \in [Actors -> Step]
BY DEF Goto

\* Reading the row gives the actor a status the row may hold.
LEMMA LoadType ==
  ASSUME NEW a \in Actors, row \in Row, mem \in [Actors -> ReviewJobStatus], Load(a)
  PROVE  mem' \in [Actors -> ReviewJobStatus]
BY DEF Load, Row

\* Announcing an event keeps the three fields it writes within their types.
LEMMA AnnounceType ==
  ASSUME NEW a \in Actors, NEW e \in Event, NEW s \in {"work", "check", "indexed", "done"},
         pc \in [Actors -> Step], event \in [Actors -> Event],
         resume \in [Actors -> {"work", "check", "indexed", "done"}],
         Announce(a, e, s)
  PROVE  /\ pc' \in [Actors -> Step]
         /\ event' \in [Actors -> Event]
         /\ resume' \in [Actors -> {"work", "check", "indexed", "done"}]
<1>1. "set" \in Step
  BY DEF Step, RequestRunning, Announcing
<1>. QED BY <1>1 DEF Announce, Goto

\* Every status and progress makes an event of the type streams carry.
LEMMA EventType ==
  ASSUME NEW s \in ReviewJobStatus, NEW n \in 0..100
  PROVE  EventFor(s, n) \in Event
BY DEF EventFor, Event, Kind

\* A flush writes a status the row may hold.
LEMMA FlushType ==
  ASSUME NEW a \in Actors, NEW s \in ReviewJobStatus, row \in Row
  PROVE  [row EXCEPT !.status = Flush(a, s)] \in Row
BY DEF Row, Flush

(***************************************************************************)
(* Every step preserves the type invariant; that a stage has a successor,  *)
(* or an end of its own, is ShapeInv's to say.                             *)
(***************************************************************************)
LEMMA TypeStep == TypeOK /\ ShapeInv /\ [Next]_vars => TypeOK'
<1>. SUFFICES ASSUME TypeOK, ShapeInv, [Next]_vars PROVE TypeOK'
  OBVIOUS
<1>a. \A p \in Patches : p \in Actors
  BY DEF Actors
<1>b. "worker" \in Actors /\ "delete" \in Actors
  BY DEF Actors
<1>c. /\ {"queued", "raised", "failing", "starting", "check", "commit", "committed",
          "stamp", "work", "cloned", "describe", "described", "indexed", "report",
          "judged", "reviewed", "verify", "set", "publish", "revoke", "remove",
          "removeActive", "update", "updated"} \subseteq Step
      /\ {"created", "orphaned", "canceled", "done", "escaped", "killed"} \subseteq Step
      /\ {"work", "check", "indexed", "done"} \subseteq Step
  BY DEF Step, WorkerRunning, RequestRunning, TrySteps, Announcing
<1>d. Stages \cup {"COMPLETED", "FAILED", "PENDING"} \subseteq ReviewJobStatus
  BY DEF ReviewJobStatus, Stages, Terminal
<1>e. EventFor("FAILED", 100) \in Event /\ EventFor("COMPLETED", 100) \in Event
  BY <1>d, EventType
<1>. USE <1>a, <1>b, <1>c DEF TypeOK, db, bounds
<1>1. ASSUME NEW a \in Actors, SetSnapshot(a) PROVE TypeOK'
  <2>1. told' \in Terminal \cup {"none"}
    BY <1>1 DEF SetSnapshot
  <2>. QED BY <1>1, <2>1, GotoType DEF SetSnapshot
<1>2. ASSUME NEW a \in Actors, PublishEvent(a) PROVE TypeOK'
  BY <1>2, GotoType DEF PublishEvent
<1>3. ASSUME NEW a \in Actors, DropEvent(a) PROVE TypeOK'
  <2>1. drops' \in 0..MaxDrops
    BY <1>3, ConstantsAssumption DEF DropEvent
  <2>. QED BY <1>3, <2>1, GotoType DEF DropEvent
<1>4. CASE CreateJob
  <2>1. row' \in Row
    BY <1>4 DEF CreateJob, Row
  <2>. QED BY <1>4, <2>1, GotoType DEF CreateJob
<1>5. CASE Enqueue
  BY <1>5, GotoType DEF Enqueue
<1>6. CASE StartDelete
  BY <1>6, GotoType DEF StartDelete
<1>7. CASE Revoke
  BY <1>7, GotoType DEF Revoke
<1>8. CASE Remove
  <2>1. row' \in Row /\ history' \in [status : ReviewJobStatus, progress : 0..100]
    BY <1>8, <1>d DEF Remove, Row
  <2>2. CASE pc["delete"] = "remove" /\ Goto("delete", "done") /\ UNCHANGED <<event, resume>>
    BY <1>8, <2>1, <2>2, GotoType DEF Remove
  <2>3. CASE Announce("delete", EventFor("FAILED", 100), "done")
    BY <1>8, <1>e, <2>1, <2>3, AnnounceType DEF Remove
  <2>. QED BY <1>8, <2>2, <2>3 DEF Remove
<1>9. ASSUME NEW p \in Patches, StartPatch(p) PROVE TypeOK'
  <2>1. PICK s \in PatchStatuses : event' = [event EXCEPT ![p] = EventFor(s, 0)]
    BY <1>9 DEF StartPatch
  <2>2. event' \in [Actors -> Event]
    BY <2>1, EventType, ConstantsAssumption
  <2>. QED BY <1>9, <2>2, GotoType, LoadType DEF StartPatch
<1>10. ASSUME NEW p \in Patches, UpdateStatus(p) PROVE TypeOK'
  <2>1. event[p].status \in ReviewJobStatus /\ event[p].progress \in 0..100
    BY DEF Event
  <2>2. row' \in Row /\ history' \in [status : ReviewJobStatus, progress : 0..100]
    BY <1>10, <2>1, FlushType DEF UpdateStatus
  <2>. QED BY <1>10, <2>2, GotoType DEF UpdateStatus
<1>11. ASSUME NEW p \in Patches, RefreshPatched(p) PROVE TypeOK'
  <2>1. CASE ~row.exists
    BY <1>11, <2>1, GotoType DEF RefreshPatched
  <2>2. CASE row.exists /\ event[p].status = "COMPLETED"
    BY <1>11, <2>2, GotoType, LoadType DEF RefreshPatched
  <2>3. CASE row.exists /\ event[p].status # "COMPLETED"
    BY <1>11, <2>3, AnnounceType, LoadType DEF RefreshPatched
  <2>. QED BY <2>1, <2>2, <2>3
<1>12. ASSUME NEW p \in Patches, Abandon(p) PROVE TypeOK'
  BY <1>12, GotoType DEF Abandon
<1>13. ASSUME NEW a \in Actors, Stamp(a) PROVE TypeOK'
  <2>1. (IF a = "worker" THEN EventFor("COMPLETED", 100) ELSE event[a]) \in Event
    BY <1>e
  <2>. QED BY <1>13, <2>1, AnnounceType DEF Stamp
<1>14. CASE PickUp
  BY <1>14, GotoType, LoadType DEF PickUp
<1>15. CASE MarkStarted
  BY <1>15, GotoType, LoadType DEF MarkStarted
<1>16. ASSUME NEW from \in Step, NEW to \in Step, EnsureActive(from, to) PROVE TypeOK'
  BY <1>16, GotoType DEF EnsureActive
<1>17. CASE CheckBeforeStage \/ CheckAfterClone \/ CheckAfterIndex \/ CheckAfterReview
  BY <1>16, <1>17 DEF CheckBeforeStage, CheckAfterClone, CheckAfterIndex, CheckAfterReview
<1>18. CASE CommitStatus
  <2>1. stage \in Stages
    BY <1>18 DEF ShapeInv, CommitStatus
  <2>2. stage' \in Stages \cup {"COMPLETED"} /\ Enter(stage') \in 0..100
    BY <1>18, <2>1, AfterStage, EnterRange DEF CommitStatus
  <2>3. row' \in Row /\ history' \in [status : ReviewJobStatus, progress : 0..100]
    BY <1>18, <1>d, <2>2, FlushType DEF CommitStatus
  <2>. QED BY <1>18, <2>2, <2>3, GotoType DEF CommitStatus
<1>19. CASE RefreshStatus
  <2>1. EventFor(stage, Enter(stage)) \in Event
    BY <1>d, EnterRange, EventType
  <2>2. CASE stage = "COMPLETED"
    BY <1>19, <2>2, GotoType, LoadType DEF RefreshStatus
  <2>3. CASE stage # "COMPLETED"
    BY <1>19, <2>1, <2>3, AnnounceType, LoadType DEF RefreshStatus
  <2>. QED BY <2>2, <2>3
<1>20. CASE CloneRepository
  BY <1>20, GotoType DEF CloneRepository
<1>21. CASE UpdateCloneMetadata
  <2>1. row' \in Row
    BY <1>21 DEF UpdateCloneMetadata, Row
  <2>. QED BY <1>21, <2>1, GotoType DEF UpdateCloneMetadata
<1>22. CASE RefreshCloned
  <2>1. stage = "CLONING"
    BY <1>22 DEF RefreshCloned, ShapeInv
  <2>2. EventFor(stage, Exit(stage)) \in Event
    BY <1>d, <2>1, EventType DEF Exit
  <2>. QED BY <1>22, <2>2, AnnounceType, LoadType DEF RefreshCloned
<1>23. CASE Analyze
  <2>1. EventFor(stage, Exit(stage)) \in Event
    BY <1>23, <1>d, EventType DEF Analyze, Exit
  <2>. QED BY <1>23, <2>1, AnnounceType DEF Analyze
<1>24. CASE PersistPreAgentReport
  BY <1>24, GotoType DEF PersistPreAgentReport
<1>25. CASE JudgeBatch
  <2>1. batch' \in 0..Batches
    BY <1>25, ConstantsAssumption DEF JudgeBatch
  <2>2. AiProgress(batch', Batches) \in 0..100
    BY <2>1, ConstantsAssumption, AiProgressRange DEF AiStart, AiEnd
  <2>3. [kind |-> "progress_update", status |-> "AI_REVIEWING",
         progress |-> AiProgress(batch', Batches)] \in Event
    BY <2>2 DEF Event, ReviewJobStatus, Stages
  <2>. QED BY <1>25, <2>1, <2>3, AnnounceType DEF JudgeBatch
<1>26. CASE JudgedAll
  BY <1>26, GotoType DEF JudgedAll
<1>27. CASE PersistFinalReport
  BY <1>27, GotoType DEF PersistFinalReport
<1>28. CASE RequireAiGeneratedReport
  BY <1>28, GotoType DEF RequireAiGeneratedReport
<1>29. CASE Raise
  BY <1>29, GotoType DEF Raise
<1>30. CASE RecheckJob
  BY <1>30, GotoType DEF RecheckJob
<1>38. CASE Escape
  BY <1>38, GotoType DEF Escape
<1>31. CASE MarkFailed
  <2>1. CASE row.exists
    <3>1. row' \in Row /\ history' \in [status : ReviewJobStatus, progress : 0..100]
      BY <1>31, <1>d, <2>1 DEF MarkFailed, Row
    <3>. QED BY <1>31, <1>e, <2>1, <3>1, AnnounceType DEF MarkFailed
  <2>2. CASE ~row.exists
    BY <1>31, <2>2, GotoType DEF MarkFailed
  <2>. QED BY <2>1, <2>2
<1>32. CASE Kill
  BY <1>32, GotoType DEF Kill
<1>33. ASSUME NEW a \in Actors, Crash(a) PROVE TypeOK'
  <2>1. crashes' \in 0..MaxCrashes
    BY <1>33, ConstantsAssumption DEF Crash
  <2>. QED BY <1>33, <2>1, GotoType DEF Crash
<1>34. CASE UNCHANGED vars
  BY <1>34 DEF vars
<1>. QED
  BY <1>1, <1>2, <1>3, <1>4, <1>5, <1>6, <1>7, <1>8, <1>9, <1>10, <1>11,
     <1>12, <1>13, <1>14, <1>15, <1>17, <1>18, <1>19, <1>20, <1>21, <1>22,
     <1>23, <1>24, <1>25, <1>26, <1>27, <1>28, <1>29, <1>30, <1>31, <1>32,
     <1>33, <1>34, <1>38
     DEF Next, JobStep, User, WorkerStep, Stage, Work, DeleteStep, PatchStep

(***************************************************************************)
(* Every step preserves the agreement of the worker's position with its    *)
(* stage.                                                                  *)
(***************************************************************************)
LEMMA ShapeStep == TypeOK /\ ShapeInv /\ [Next]_vars => ShapeInv'
<1>. SUFFICES ASSUME TypeOK /\ ShapeInv, [Next]_vars PROVE ShapeInv'
  OBVIOUS
<1>. USE ConstantsAssumption DEF db, bounds, TypeOK, ShapeInv, MidStage,
       Actors, Announcing
<1>1. ASSUME NEW a \in Actors, SetSnapshot(a) PROVE ShapeInv'
  BY <1>1 DEF SetSnapshot, Goto
<1>2. ASSUME NEW a \in Actors, PublishEvent(a) PROVE ShapeInv'
  BY <1>2 DEF PublishEvent, Goto, Worked
<1>3. ASSUME NEW a \in Actors, DropEvent(a) PROVE ShapeInv'
  BY <1>3 DEF DropEvent, Goto, Worked
<1>4. CASE CreateJob
  BY <1>4 DEF CreateJob, Goto
<1>5. CASE Enqueue
  BY <1>5 DEF Enqueue, Goto
<1>6. CASE StartDelete
  BY <1>6 DEF StartDelete, Goto
<1>7. CASE Revoke
  BY <1>7 DEF Revoke, Goto
<1>8. CASE Remove
  BY <1>8 DEF Remove, Announce, Goto, EventFor, Kind
<1>9. ASSUME NEW p \in Patches, StartPatch(p) PROVE ShapeInv'
  BY <1>9 DEF StartPatch, Load, Goto, EventFor, Kind
<1>10. ASSUME NEW p \in Patches, UpdateStatus(p) PROVE ShapeInv'
  BY <1>10 DEF UpdateStatus, Flush, Goto
<1>11. ASSUME NEW p \in Patches, RefreshPatched(p) PROVE ShapeInv'
  BY <1>11 DEF RefreshPatched, Load, Announce, Goto
<1>12. ASSUME NEW p \in Patches, Abandon(p) PROVE ShapeInv'
  BY <1>12 DEF Abandon, Goto
<1>13. ASSUME NEW p \in Patches, Stamp(p) PROVE ShapeInv'
  BY <1>13 DEF Stamp, Announce, Goto, EventFor, Kind
<1>14. CASE Stamp("worker")
  BY <1>14 DEF Stamp, Announce, Goto, EventFor, Kind
<1>15. CASE PickUp
  BY <1>15 DEF PickUp, Load, Goto
<1>16. CASE MarkStarted
  BY <1>16 DEF MarkStarted, Load, Goto
<1>17. CASE CheckBeforeStage
  BY <1>17 DEF CheckBeforeStage, EnsureActive, Goto
<1>18. CASE CommitStatus
  BY <1>18, AfterStage DEF CommitStatus, Flush, Goto, Stages, Worked
<1>19. CASE RefreshStatus
  BY <1>19 DEF RefreshStatus, Load, Announce, Goto, EventFor, Kind, Worked,
         Stages
<1>20. CASE CloneRepository
  BY <1>20 DEF CloneRepository, Goto
<1>21. CASE CheckAfterClone
  BY <1>21 DEF CheckAfterClone, EnsureActive, Goto
<1>22. CASE UpdateCloneMetadata
  BY <1>22 DEF UpdateCloneMetadata, Goto
<1>23. CASE RefreshCloned
  BY <1>23 DEF RefreshCloned, Load, Announce, Goto, EventFor, Kind, Worked
<1>24. CASE Analyze
  BY <1>24 DEF Analyze, Announce, Goto, EventFor, Kind, Worked
<1>25. CASE CheckAfterIndex
  BY <1>25 DEF CheckAfterIndex, EnsureActive, Goto
<1>26. CASE PersistPreAgentReport
  BY <1>26 DEF PersistPreAgentReport, Goto
<1>27. CASE JudgeBatch
  BY <1>27 DEF JudgeBatch, Announce, Goto, Worked
<1>28. CASE JudgedAll
  BY <1>28 DEF JudgedAll, Goto
<1>29. CASE PersistFinalReport
  BY <1>29 DEF PersistFinalReport, Goto
<1>30. CASE CheckAfterReview
  BY <1>30 DEF CheckAfterReview, EnsureActive, Goto
<1>31. CASE RequireAiGeneratedReport
  BY <1>31 DEF RequireAiGeneratedReport, Goto
<1>32. CASE Raise
  BY <1>32 DEF Raise, Goto, TrySteps
<1>33. CASE RecheckJob
  BY <1>33 DEF RecheckJob, Goto
<1>38. CASE Escape
  BY <1>38 DEF Escape, Goto
<1>34. CASE MarkFailed
  BY <1>34 DEF MarkFailed, Announce, Goto, EventFor, Kind
<1>35. CASE Kill
  BY <1>35 DEF Kill, Goto
<1>36. ASSUME NEW a \in Actors, Crash(a) PROVE ShapeInv'
  BY <1>36 DEF Crash, Goto, WorkerRunning, RequestRunning, TrySteps
<1>37. CASE UNCHANGED vars
  BY <1>37 DEF vars
<1>. QED
  BY <1>1, <1>2, <1>3, <1>4, <1>5, <1>6, <1>7, <1>8, <1>9, <1>10, <1>11,
         <1>12, <1>13, <1>14, <1>15, <1>16, <1>17, <1>18, <1>19, <1>20, <1>21,
         <1>22, <1>23, <1>24, <1>25, <1>26, <1>27, <1>28, <1>29, <1>30, <1>31,
         <1>32, <1>33, <1>34, <1>35, <1>36, <1>37, <1>38 DEF Next, JobStep, User,
         WorkerStep, Stage, Work, DeleteStep, PatchStep

(***************************************************************************)
(* Every step preserves the life span of the row.                          *)
(***************************************************************************)
LEMMA ExistsStep == TypeOK /\ ExistsInv /\ [Next]_vars => ExistsInv'
<1>. SUFFICES ASSUME TypeOK /\ ExistsInv, [Next]_vars PROVE ExistsInv'
  OBVIOUS
<1>. USE ConstantsAssumption DEF db, bounds, TypeOK, ExistsInv, Actors,
       Announcing
<1>1. ASSUME NEW a \in Actors, SetSnapshot(a) PROVE ExistsInv'
  BY <1>1 DEF SetSnapshot, Goto
<1>2. ASSUME NEW a \in Actors, PublishEvent(a) PROVE ExistsInv'
  BY <1>2 DEF PublishEvent, Goto
<1>3. ASSUME NEW a \in Actors, DropEvent(a) PROVE ExistsInv'
  BY <1>3 DEF DropEvent, Goto
<1>4. CASE CreateJob
  BY <1>4 DEF CreateJob, Goto
<1>5. CASE Enqueue
  BY <1>5 DEF Enqueue, Goto
<1>6. CASE StartDelete
  BY <1>6 DEF StartDelete, Goto
<1>7. CASE Revoke
  BY <1>7 DEF Revoke, Goto
<1>8. CASE Remove
  BY <1>8 DEF Remove, Announce, Goto, EventFor, Kind
<1>9. ASSUME NEW p \in Patches, StartPatch(p) PROVE ExistsInv'
  BY <1>9 DEF StartPatch, Load, Goto, EventFor, Kind
<1>10. ASSUME NEW p \in Patches, UpdateStatus(p) PROVE ExistsInv'
  <2>1. CASE row.exists
    BY <1>10, <2>1 DEF UpdateStatus, Goto, Row
  <2>2. CASE ~row.exists
    BY <1>10, <2>2 DEF UpdateStatus, Goto
  <2>. QED BY <2>1, <2>2
<1>11. ASSUME NEW p \in Patches, RefreshPatched(p) PROVE ExistsInv'
  BY <1>11 DEF RefreshPatched, Load, Announce, Goto
<1>12. ASSUME NEW p \in Patches, Abandon(p) PROVE ExistsInv'
  BY <1>12 DEF Abandon, Goto
<1>13. ASSUME NEW p \in Patches, Stamp(p) PROVE ExistsInv'
  BY <1>13 DEF Stamp, Announce, Goto, EventFor, Kind
<1>14. CASE Stamp("worker")
  BY <1>14 DEF Stamp, Announce, Goto, EventFor, Kind
<1>15. CASE PickUp
  BY <1>15 DEF PickUp, Load, Goto
<1>16. CASE MarkStarted
  BY <1>16 DEF MarkStarted, Load, Goto
<1>17. CASE CheckBeforeStage
  BY <1>17 DEF CheckBeforeStage, EnsureActive, Goto
<1>18. CASE CommitStatus
  BY <1>18 DEF CommitStatus, Flush, Goto
<1>19. CASE RefreshStatus
  BY <1>19 DEF RefreshStatus, Load, Announce, Goto, EventFor, Kind
<1>20. CASE CloneRepository
  BY <1>20 DEF CloneRepository, Goto
<1>21. CASE CheckAfterClone
  BY <1>21 DEF CheckAfterClone, EnsureActive, Goto
<1>22. CASE UpdateCloneMetadata
  BY <1>22 DEF UpdateCloneMetadata, Goto
<1>23. CASE RefreshCloned
  BY <1>23 DEF RefreshCloned, Load, Announce, Goto, EventFor, Kind
<1>24. CASE Analyze
  BY <1>24 DEF Analyze, Announce, Goto, EventFor, Kind
<1>25. CASE CheckAfterIndex
  BY <1>25 DEF CheckAfterIndex, EnsureActive, Goto
<1>26. CASE PersistPreAgentReport
  BY <1>26 DEF PersistPreAgentReport, Goto
<1>27. CASE JudgeBatch
  BY <1>27 DEF JudgeBatch, Announce, Goto
<1>28. CASE JudgedAll
  BY <1>28 DEF JudgedAll, Goto
<1>29. CASE PersistFinalReport
  BY <1>29 DEF PersistFinalReport, Goto
<1>30. CASE CheckAfterReview
  BY <1>30 DEF CheckAfterReview, EnsureActive, Goto
<1>31. CASE RequireAiGeneratedReport
  BY <1>31 DEF RequireAiGeneratedReport, Goto
<1>32. CASE Raise
  BY <1>32 DEF Raise, Goto, TrySteps
<1>33. CASE RecheckJob
  BY <1>33 DEF RecheckJob, Goto
<1>38. CASE Escape
  BY <1>38 DEF Escape, Goto
<1>34. CASE MarkFailed
  <2>1. CASE row.exists
    BY <1>34, <2>1 DEF MarkFailed, Announce, Goto, Row
  <2>2. CASE ~row.exists
    BY <1>34, <2>2 DEF MarkFailed, Goto
  <2>. QED BY <2>1, <2>2
<1>35. CASE Kill
  BY <1>35 DEF Kill, Goto, WorkerRunning, TrySteps
<1>36. ASSUME NEW a \in Actors, Crash(a) PROVE ExistsInv'
  BY <1>36 DEF Crash, Goto, WorkerRunning, RequestRunning, TrySteps
<1>37. CASE UNCHANGED vars
  BY <1>37 DEF vars
<1>. QED
  BY <1>1, <1>2, <1>3, <1>4, <1>5, <1>6, <1>7, <1>8, <1>9, <1>10, <1>11,
         <1>12, <1>13, <1>14, <1>15, <1>16, <1>17, <1>18, <1>19, <1>20, <1>21,
         <1>22, <1>23, <1>24, <1>25, <1>26, <1>27, <1>28, <1>29, <1>30, <1>31,
         <1>32, <1>33, <1>34, <1>35, <1>36, <1>37, <1>38 DEF Next, JobStep, User,
         WorkerStep, Stage, Work, DeleteStep, PatchStep

(***************************************************************************)
(* Every step preserves the agreement of the stored status, the worker's   *)
(* session and the outcome announced.                                      *)
(***************************************************************************)
LEMMA StatusStep == TypeOK /\ ShapeInv /\ ExistsInv /\ StatusInv /\ [Next]_vars => StatusInv'
<1>. SUFFICES ASSUME TypeOK /\ ShapeInv /\ ExistsInv /\ StatusInv, [Next]_vars PROVE StatusInv'
  OBVIOUS
<1>. USE ConstantsAssumption DEF db, bounds, TypeOK, Row, ShapeInv, ExistsInv,
       StatusInv, HistoryMatchesJob, Unpatched, MidStage, Actors, Announcing,
       TrySteps
<1>. stage # "FAILED"
  BY DEF Stages
<1>1. ASSUME NEW a \in Actors, SetSnapshot(a) PROVE StatusInv'
  BY <1>1 DEF SetSnapshot, Goto, Terminal
<1>2. ASSUME NEW a \in Actors, PublishEvent(a) PROVE StatusInv'
  <2>1. CASE a = "worker"
    BY <1>2, <2>1 DEF PublishEvent, Goto, Worked
  <2>2. CASE a # "worker"
    BY <1>2, <2>2 DEF PublishEvent, Goto, Worked
  <2>. QED BY <2>1, <2>2
<1>3. ASSUME NEW a \in Actors, DropEvent(a) PROVE StatusInv'
  <2>1. CASE a = "worker"
    BY <1>3, <2>1 DEF DropEvent, Goto, Worked
  <2>2. CASE a # "worker"
    BY <1>3, <2>2 DEF DropEvent, Goto, Worked
  <2>. QED BY <2>1, <2>2
<1>4. CASE CreateJob
  BY <1>4 DEF CreateJob, Goto, Enter
<1>5. CASE Enqueue
  <2>1. CASE Goto("worker", "queued")
    BY <1>5, <2>1 DEF Enqueue, Goto
  <2>2. CASE Goto("worker", "orphaned")
    BY <1>5, <2>2 DEF Enqueue, Goto
  <2>. QED BY <1>5, <2>1, <2>2 DEF Enqueue
<1>6. CASE StartDelete
  BY <1>6 DEF StartDelete, Goto
<1>7. CASE Revoke
  BY <1>7 DEF Revoke, Goto
<1>8. CASE Remove
  BY <1>8 DEF Remove, Announce, Goto, EventFor, Kind
<1>9. ASSUME NEW p \in Patches, StartPatch(p) PROVE StatusInv'
  BY <1>9 DEF StartPatch, Load, Goto, EventFor, Kind
<1>10. ASSUME NEW p \in Patches, UpdateStatus(p) PROVE StatusInv'
  BY <1>10 DEF UpdateStatus, Flush, Goto
<1>11. ASSUME NEW p \in Patches, RefreshPatched(p) PROVE StatusInv'
  BY <1>11 DEF RefreshPatched, Load, Announce, Goto
<1>12. ASSUME NEW p \in Patches, Abandon(p) PROVE StatusInv'
  BY <1>12 DEF Abandon, Goto
<1>13. ASSUME NEW p \in Patches, Stamp(p) PROVE StatusInv'
  BY <1>13 DEF Stamp, Announce, Goto, EventFor, Kind
<1>14. CASE Stamp("worker")
  BY <1>14 DEF Stamp, Announce, Goto, EventFor, Kind
<1>15. CASE PickUp
  BY <1>15, ZenonT(30) DEF PickUp, Load, Goto
<1>16. CASE MarkStarted
  BY <1>16 DEF MarkStarted, Load, Goto
<1>17. CASE CheckBeforeStage
  BY <1>17 DEF CheckBeforeStage, EnsureActive, Goto
<1>18. CASE CommitStatus
  BY <1>18, AfterStage DEF CommitStatus, Flush, Goto, Stages
<1>19. CASE RefreshStatus
  BY <1>19 DEF RefreshStatus, Load, Announce, Goto, EventFor, Kind, Stages
<1>20. CASE CloneRepository
  BY <1>20 DEF CloneRepository, Goto
<1>21. CASE CheckAfterClone
  BY <1>21 DEF CheckAfterClone, EnsureActive, Goto
<1>22. CASE UpdateCloneMetadata
  BY <1>22 DEF UpdateCloneMetadata, Goto
<1>23. CASE RefreshCloned
  BY <1>23 DEF RefreshCloned, Load, Announce, Goto, EventFor, Kind
<1>24. CASE Analyze
  BY <1>24 DEF Analyze, Announce, Goto, EventFor, Kind
<1>25. CASE CheckAfterIndex
  BY <1>25 DEF CheckAfterIndex, EnsureActive, Goto
<1>26. CASE PersistPreAgentReport
  BY <1>26 DEF PersistPreAgentReport, Goto
<1>27. CASE JudgeBatch
  BY <1>27 DEF JudgeBatch, Announce, Goto
<1>28. CASE JudgedAll
  BY <1>28 DEF JudgedAll, Goto
<1>29. CASE PersistFinalReport
  BY <1>29 DEF PersistFinalReport, Goto
<1>30. CASE CheckAfterReview
  BY <1>30 DEF CheckAfterReview, EnsureActive, Goto
<1>31. CASE RequireAiGeneratedReport
  BY <1>31 DEF RequireAiGeneratedReport, Goto
<1>32. CASE Raise
  BY <1>32 DEF Raise, Goto
<1>33. CASE RecheckJob
  BY <1>33 DEF RecheckJob, Goto
<1>38. CASE Escape
  BY <1>38 DEF Escape, Goto
<1>34. CASE MarkFailed
  BY <1>34 DEF MarkFailed, Announce, Goto, EventFor, Kind
<1>35. CASE Kill
  BY <1>35 DEF Kill, Goto, WorkerRunning
<1>36. ASSUME NEW a \in Actors, Crash(a) PROVE StatusInv'
  <2>1. CASE a = "worker"
    BY <1>36, <2>1 DEF Crash, Goto, WorkerRunning, RequestRunning
  <2>2. CASE a # "worker"
    BY <1>36, <2>2 DEF Crash, Goto, WorkerRunning, RequestRunning
  <2>. QED BY <2>1, <2>2
<1>37. CASE UNCHANGED vars
  BY <1>37 DEF vars
<1>. QED
  BY <1>1, <1>2, <1>3, <1>4, <1>5, <1>6, <1>7, <1>8, <1>9, <1>10, <1>11,
         <1>12, <1>13, <1>14, <1>15, <1>16, <1>17, <1>18, <1>19, <1>20, <1>21,
         <1>22, <1>23, <1>24, <1>25, <1>26, <1>27, <1>28, <1>29, <1>30, <1>31,
         <1>32, <1>33, <1>34, <1>35, <1>36, <1>37, <1>38 DEF Next, JobStep, User,
         WorkerStep, Stage, Work, DeleteStep, PatchStep

(***************************************************************************)
(* Every step preserves that results are stored before their stage is      *)
(* left.                                                                   *)
(***************************************************************************)
LEMMA ResultStep == TypeOK /\ ShapeInv /\ ExistsInv /\ ResultInv /\ [Next]_vars => ResultInv'
<1>. SUFFICES ASSUME TypeOK /\ ShapeInv /\ ExistsInv /\ ResultInv, [Next]_vars PROVE ResultInv'
  OBVIOUS
<1>. USE ConstantsAssumption DEF db, bounds, TypeOK, Row, ShapeInv, ExistsInv,
       ResultInv, CommitStored, ReviewStored, MidStage, Actors, Announcing
<1>1. ASSUME NEW a \in Actors, SetSnapshot(a) PROVE ResultInv'
  BY <1>1 DEF SetSnapshot, Goto
<1>2. ASSUME NEW a \in Actors, PublishEvent(a) PROVE ResultInv'
  BY <1>2 DEF PublishEvent, Goto
<1>3. ASSUME NEW a \in Actors, DropEvent(a) PROVE ResultInv'
  BY <1>3 DEF DropEvent, Goto
<1>4. CASE CreateJob
  BY <1>4 DEF CreateJob, Goto
<1>5. CASE Enqueue
  BY <1>5 DEF Enqueue, Goto
<1>6. CASE StartDelete
  BY <1>6 DEF StartDelete, Goto
<1>7. CASE Revoke
  BY <1>7 DEF Revoke, Goto
<1>8. CASE Remove
  BY <1>8 DEF Remove, Announce, Goto, EventFor, Kind
<1>9. ASSUME NEW p \in Patches, StartPatch(p) PROVE ResultInv'
  BY <1>9 DEF StartPatch, Load, Goto, EventFor, Kind
<1>10. ASSUME NEW p \in Patches, UpdateStatus(p) PROVE ResultInv'
  BY <1>10 DEF UpdateStatus, Flush, Goto
<1>11. ASSUME NEW p \in Patches, RefreshPatched(p) PROVE ResultInv'
  BY <1>11 DEF RefreshPatched, Load, Announce, Goto
<1>12. ASSUME NEW p \in Patches, Abandon(p) PROVE ResultInv'
  BY <1>12 DEF Abandon, Goto
<1>13. ASSUME NEW p \in Patches, Stamp(p) PROVE ResultInv'
  BY <1>13 DEF Stamp, Announce, Goto, EventFor, Kind
<1>14. CASE Stamp("worker")
  BY <1>14 DEF Stamp, Announce, Goto, EventFor, Kind
<1>15. CASE PickUp
  BY <1>15 DEF PickUp, Load, Goto
<1>16. CASE MarkStarted
  BY <1>16 DEF MarkStarted, Load, Goto
<1>17. CASE CheckBeforeStage
  BY <1>17 DEF CheckBeforeStage, EnsureActive, Goto
<1>18. CASE CommitStatus
  BY <1>18, AfterStage DEF CommitStatus, Flush, Goto, Stages, Worked
<1>19. CASE RefreshStatus
  BY <1>19 DEF RefreshStatus, Load, Announce, Goto, EventFor, Kind, Stages
<1>20. CASE CloneRepository
  BY <1>20 DEF CloneRepository, Goto
<1>21. CASE CheckAfterClone
  BY <1>21 DEF CheckAfterClone, EnsureActive, Goto
<1>22. CASE UpdateCloneMetadata
  BY <1>22 DEF UpdateCloneMetadata, Goto
<1>23. CASE RefreshCloned
  BY <1>23 DEF RefreshCloned, Load, Announce, Goto, EventFor, Kind
<1>24. CASE Analyze
  BY <1>24 DEF Analyze, Announce, Goto, EventFor, Kind
<1>25. CASE CheckAfterIndex
  BY <1>25 DEF CheckAfterIndex, EnsureActive, Goto
<1>26. CASE PersistPreAgentReport
  BY <1>26 DEF PersistPreAgentReport, Goto
<1>27. CASE JudgeBatch
  BY <1>27 DEF JudgeBatch, Announce, Goto
<1>28. CASE JudgedAll
  BY <1>28 DEF JudgedAll, Goto
<1>29. CASE PersistFinalReport
  BY <1>29 DEF PersistFinalReport, Goto
<1>30. CASE CheckAfterReview
  BY <1>30 DEF CheckAfterReview, EnsureActive, Goto
<1>31. CASE RequireAiGeneratedReport
  BY <1>31 DEF RequireAiGeneratedReport, Goto
<1>32. CASE Raise
  BY <1>32 DEF Raise, Goto, TrySteps
<1>33. CASE RecheckJob
  BY <1>33 DEF RecheckJob, Goto
<1>38. CASE Escape
  BY <1>38 DEF Escape, Goto
<1>34. CASE MarkFailed
  BY <1>34 DEF MarkFailed, Announce, Goto, EventFor, Kind
<1>35. CASE Kill
  BY <1>35 DEF Kill, Goto, WorkerRunning
<1>36. ASSUME NEW a \in Actors, Crash(a) PROVE ResultInv'
  BY <1>36 DEF Crash, Goto, WorkerRunning, RequestRunning, TrySteps
<1>37. CASE UNCHANGED vars
  BY <1>37 DEF vars
<1>. QED
  BY <1>1, <1>2, <1>3, <1>4, <1>5, <1>6, <1>7, <1>8, <1>9, <1>10, <1>11,
         <1>12, <1>13, <1>14, <1>15, <1>16, <1>17, <1>18, <1>19, <1>20, <1>21,
         <1>22, <1>23, <1>24, <1>25, <1>26, <1>27, <1>28, <1>29, <1>30, <1>31,
         <1>32, <1>33, <1>34, <1>35, <1>36, <1>37, <1>38 DEF Next, JobStep, User,
         WorkerStep, Stage, Work, DeleteStep, PatchStep

(***************************************************************************)
(* Before the job is created the inductive invariant holds.                *)
(***************************************************************************)
LEMMA IInvInit == Init => IInv
<1>. SUFFICES ASSUME Init PROVE IInv
  OBVIOUS
<1>. USE DEF Init
<1>1. TypeOK
  <2>1. EventFor("PENDING", 0) \in Event
    BY EventType DEF ReviewJobStatus, Stages
  <2>2. "PENDING" \in Stages /\ Stages \subseteq ReviewJobStatus /\ "new" \in Step
    BY DEF Stages, ReviewJobStatus, Step
  <2>3. row \in Row /\ history \in [status : ReviewJobStatus, progress : 0..100]
    BY <2>2 DEF Row
  <2>4. /\ pc \in [Actors -> Step] /\ mem \in [Actors -> ReviewJobStatus]
        /\ event \in [Actors -> Event]
        /\ resume \in [Actors -> {"work", "check", "indexed", "done"}]
    BY <2>1, <2>2
  <2>5. batch \in 0..Batches /\ crashes \in 0..MaxCrashes /\ drops \in 0..MaxDrops
    BY ConstantsAssumption
  <2>. QED BY <2>2, <2>3, <2>4, <2>5 DEF TypeOK
<1>2. ShapeInv
  BY DEF ShapeInv, MidStage, Actors, Announcing
<1>3. ExistsInv /\ StatusInv /\ ResultInv
  BY DEF ExistsInv, StatusInv, ResultInv, Actors, Announcing
<1>. QED BY <1>1, <1>2, <1>3 DEF IInv

(***************************************************************************)
(* The invariant is inductive.  ShapeInv is what the other parts lean on:  *)
(* the worker's position tells which stage it has committed.               *)
(***************************************************************************)
LEMMA IInvStep == IInv /\ [Next]_vars => IInv'
BY TypeStep, ShapeStep, ExistsStep, StatusStep, ResultStep DEF IInv

(***************************************************************************)
(* Every reachable state of a review satisfies the inductive invariant.    *)
(***************************************************************************)
THEOREM IInvAlways == Spec => []IInv
BY IInvInit, IInvStep, PTL DEF Spec

(***************************************************************************)
(* The variables of the review model stay in their domains.                *)
(***************************************************************************)
THEOREM TypeCorrect == Spec => []TypeOK
<1>1. IInv => TypeOK BY DEF IInv
<1>. QED BY <1>1, IInvAlways, PTL

(***************************************************************************)
(* A review the worker completed has its commit and its AI report.         *)
(***************************************************************************)
THEOREM CompletedCorrect == Spec => []CompletedIsReviewed
<1>1. IInv => CompletedIsReviewed
  BY DEF IInv, StatusInv, ResultInv, CommitStored, ReviewStored, CompletedIsReviewed
<1>. QED BY <1>1, IInvAlways, PTL

(***************************************************************************)
(* The newest history entry agrees with the job.                           *)
(***************************************************************************)
THEOREM HistoryCorrect == Spec => []HistoryMatchesJob
<1>1. IInv => HistoryMatchesJob
  BY DEF IInv, StatusInv, HistoryMatchesJob
<1>. QED BY <1>1, IInvAlways, PTL

\* An actor that has begun never comes back to its beginning.
StillBegun == \A b \in Actors : pc[b] # "new" => pc'[b] # "new"

(***************************************************************************)
(* No step sends an actor back to its beginning, so a step after which the *)
(* status endpoint is unused was taken with it unused.                     *)
(***************************************************************************)
LEMMA NeverNewAgain == TypeOK /\ [Next]_vars => StillBegun
<1>. SUFFICES ASSUME TypeOK, [Next]_vars PROVE StillBegun
  OBVIOUS
<1>. USE ConstantsAssumption DEF db, bounds, TypeOK, Actors, StillBegun
<1>1. ASSUME NEW a \in Actors, SetSnapshot(a) PROVE StillBegun
  BY <1>1 DEF SetSnapshot, Goto
<1>2. ASSUME NEW a \in Actors, PublishEvent(a) PROVE StillBegun
  BY <1>2 DEF PublishEvent, Goto
<1>3. ASSUME NEW a \in Actors, DropEvent(a) PROVE StillBegun
  BY <1>3 DEF DropEvent, Announcing, Goto
<1>4. CASE CreateJob
  BY <1>4 DEF CreateJob, Goto
<1>5. CASE Enqueue
  BY <1>5 DEF Enqueue, Goto
<1>6. CASE StartDelete
  BY <1>6 DEF StartDelete, Goto
<1>7. CASE Revoke
  BY <1>7 DEF Revoke, Goto
<1>8. CASE Remove
  BY <1>8 DEF Remove, Announce, Goto, EventFor, Kind
<1>9. ASSUME NEW p \in Patches, StartPatch(p) PROVE StillBegun
  BY <1>9 DEF StartPatch, Load, Goto, EventFor, Kind
<1>10. ASSUME NEW p \in Patches, UpdateStatus(p) PROVE StillBegun
  BY <1>10 DEF UpdateStatus, Flush, Goto
<1>11. ASSUME NEW p \in Patches, RefreshPatched(p) PROVE StillBegun
  BY <1>11 DEF RefreshPatched, Load, Announce, Goto
<1>12. ASSUME NEW p \in Patches, Abandon(p) PROVE StillBegun
  BY <1>12 DEF Abandon, Goto
<1>13. ASSUME NEW p \in Patches, Stamp(p) PROVE StillBegun
  BY <1>13 DEF Stamp, Announce, Goto, EventFor, Kind
<1>14. CASE Stamp("worker")
  BY <1>14 DEF Stamp, Announce, Goto, EventFor, Kind
<1>15. CASE PickUp
  BY <1>15 DEF PickUp, Load, Goto
<1>16. CASE MarkStarted
  BY <1>16 DEF MarkStarted, Load, Goto
<1>17. CASE CheckBeforeStage
  BY <1>17 DEF CheckBeforeStage, EnsureActive, Goto
<1>18. CASE CommitStatus
  BY <1>18 DEF CommitStatus, Flush, Goto
<1>19. CASE RefreshStatus
  BY <1>19 DEF RefreshStatus, Load, Announce, Goto, EventFor, Kind
<1>20. CASE CloneRepository
  BY <1>20 DEF CloneRepository, Goto
<1>21. CASE CheckAfterClone
  BY <1>21 DEF CheckAfterClone, EnsureActive, Goto
<1>22. CASE UpdateCloneMetadata
  BY <1>22 DEF UpdateCloneMetadata, Goto
<1>23. CASE RefreshCloned
  BY <1>23 DEF RefreshCloned, Load, Announce, Goto, EventFor, Kind
<1>24. CASE Analyze
  BY <1>24 DEF Analyze, Announce, Goto, EventFor, Kind
<1>25. CASE CheckAfterIndex
  BY <1>25 DEF CheckAfterIndex, EnsureActive, Goto
<1>26. CASE PersistPreAgentReport
  BY <1>26 DEF PersistPreAgentReport, Goto
<1>27. CASE JudgeBatch
  BY <1>27 DEF JudgeBatch, Announce, Goto
<1>28. CASE JudgedAll
  BY <1>28 DEF JudgedAll, Goto
<1>29. CASE PersistFinalReport
  BY <1>29 DEF PersistFinalReport, Goto
<1>30. CASE CheckAfterReview
  BY <1>30 DEF CheckAfterReview, EnsureActive, Goto
<1>31. CASE RequireAiGeneratedReport
  BY <1>31 DEF RequireAiGeneratedReport, Goto
<1>32. CASE Raise
  BY <1>32 DEF Raise, Goto
<1>33. CASE RecheckJob
  BY <1>33 DEF RecheckJob, Goto
<1>38. CASE Escape
  BY <1>38 DEF Escape, Goto
<1>34. CASE MarkFailed
  BY <1>34 DEF MarkFailed, Announce, Goto, EventFor, Kind
<1>35. CASE Kill
  BY <1>35 DEF Kill, Goto
<1>36. ASSUME NEW a \in Actors, Crash(a) PROVE StillBegun
  BY <1>36 DEF Crash, Goto
<1>37. CASE UNCHANGED vars
  BY <1>37 DEF vars
<1>. QED
  BY <1>1, <1>2, <1>3, <1>4, <1>5, <1>6, <1>7, <1>8, <1>9, <1>10, <1>11,
         <1>12, <1>13, <1>14, <1>15, <1>16, <1>17, <1>18, <1>19, <1>20, <1>21,
         <1>22, <1>23, <1>24, <1>25, <1>26, <1>27, <1>28, <1>29, <1>30, <1>31,
         <1>32, <1>33, <1>34, <1>35, <1>36, <1>37, <1>38 DEF Next, JobStep, User,
         WorkerStep, Stage, Work, DeleteStep, PatchStep

(***************************************************************************)
(* Who writes the row: all other steps leave it and its history alone.     *)
(***************************************************************************)
LEMMA RowWriters ==
  ASSUME [Next]_vars
  PROVE  \/ UNCHANGED <<row, history>>
         \/ CreateJob \/ Remove \/ CommitStatus \/ UpdateCloneMetadata \/ MarkFailed
         \/ \E p \in Patches : UpdateStatus(p)
BY DEF Next, JobStep, User, WorkerStep, Stage, Work, DeleteStep, PatchStep, vars, db,
       SetSnapshot, PublishEvent, DropEvent, Enqueue, StartDelete, Revoke, StartPatch,
       RefreshPatched, Abandon, Stamp, PickUp, MarkStarted, CheckBeforeStage,
       CheckAfterClone, CheckAfterIndex, CheckAfterReview, EnsureActive, RefreshStatus,
       CloneRepository, RefreshCloned, Analyze, PersistPreAgentReport, JudgeBatch,
       JudgedAll, PersistFinalReport, RequireAiGeneratedReport, Raise, Escape, RecheckJob, Kill,
       Crash

(***************************************************************************)
(* Who moves the stage, and who writes the report.                         *)
(***************************************************************************)
LEMMA ResultWriters ==
  ASSUME [Next]_vars
  PROVE  \/ UNCHANGED <<stage, report>>
         \/ CommitStatus \/ PersistPreAgentReport \/ PersistFinalReport \/ Remove
BY DEF Next, JobStep, User, WorkerStep, Stage, Work, DeleteStep, PatchStep,
       vars, db, SetSnapshot, PublishEvent, DropEvent, Enqueue, CreateJob,
       MarkFailed, UpdateCloneMetadata, StartDelete, Revoke, StartPatch,
       RefreshPatched, UpdateStatus, Abandon, Stamp, PickUp, MarkStarted,
       CheckBeforeStage, CheckAfterClone, CheckAfterIndex, CheckAfterReview,
       EnsureActive, RefreshStatus, CloneRepository, RefreshCloned, Analyze,
       JudgeBatch, JudgedAll, RequireAiGeneratedReport, Raise, Escape, RecheckJob,
       Kill, Crash

(***************************************************************************)
(* Only a new stage or a failure writes a history entry, and neither       *)
(* lowers the progress: the stages' own values ascend, a failure's is 100. *)
(***************************************************************************)
LEMMA ProgressStep ==
  IInv /\ [Next]_vars =>
    (row.exists /\ row'.exists /\ Unpatched' => history'.progress >= history.progress)
<1>. SUFFICES ASSUME IInv, [Next]_vars, row.exists, row'.exists, Unpatched'
              PROVE  history'.progress >= history.progress
  OBVIOUS
<1>. history.progress \in 0..100
  BY DEF IInv, TypeOK
<1>1. CASE UNCHANGED <<row, history>> \/ UpdateCloneMetadata
  BY <1>1 DEF UpdateCloneMetadata
<1>2. CASE CreateJob \/ Remove
  BY <1>2 DEF IInv, ExistsInv, CreateJob, Remove
<1>3. CASE CommitStatus
  <2>1. stage \in Stages /\ stage' = After(stage)
    BY <1>3 DEF IInv, TypeOK, ShapeInv, CommitStatus
  <2>2. history'.progress = Enter(stage')
    BY <1>3 DEF CommitStatus
  <2>3. Unpatched
    BY NeverNewAgain DEF StillBegun, IInv, Unpatched, Actors
  <2>4. row.status = stage
    BY <1>3, <2>3 DEF IInv, StatusInv, CommitStatus, Announcing
  <2>5. history.progress = Enter(stage)
    BY <2>1, <2>3, <2>4 DEF IInv, StatusInv, HistoryMatchesJob, Stages
  <2>. QED BY <2>1, <2>2, <2>5, EnterRange
<1>4. CASE MarkFailed
  BY <1>4 DEF MarkFailed
<1>5. ASSUME NEW p \in Patches, UpdateStatus(p) PROVE FALSE
  BY <1>5, NeverNewAgain DEF StillBegun, IInv, Unpatched, UpdateStatus, Actors
<1>. QED BY <1>1, <1>2, <1>3, <1>4, <1>5, RowWriters

(***************************************************************************)
(* Stored progress never goes back.                                        *)
(***************************************************************************)
THEOREM ProgressCorrect == Spec => ProgressAdvances
BY IInvAlways, ProgressStep, PTL DEF Spec, ProgressAdvances

(***************************************************************************)
(* Once "completed" has been announced the worker has nothing left to do   *)
(* but to publish it: no writer of the row is enabled.                     *)
(***************************************************************************)
LEMMA OutcomeStep ==
  IInv /\ [Next]_vars =>
    (told = "COMPLETED" /\ row.exists /\ row'.exists /\ Unpatched'
       => row'.status = "COMPLETED")
<1>. SUFFICES ASSUME IInv, [Next]_vars, told = "COMPLETED", row.exists, row'.exists, Unpatched'
              PROVE  row'.status = "COMPLETED"
  OBVIOUS
<1>1. CASE Unpatched
  <2>1. row.status = "COMPLETED" /\ pc["worker"] \in {"publish", "done", "killed"}
    BY <1>1 DEF IInv, StatusInv
  <2>2. ~CreateJob /\ ~CommitStatus /\ ~UpdateCloneMetadata /\ ~MarkFailed
    BY <2>1 DEF CreateJob, CommitStatus, UpdateCloneMetadata, MarkFailed
  <2>3. ~Remove
    BY DEF Remove
  <2>4. ASSUME NEW p \in Patches, UpdateStatus(p) PROVE FALSE
    BY <1>1, <2>4 DEF Unpatched, UpdateStatus
  <2>. QED BY <2>1, <2>2, <2>3, <2>4, RowWriters
<1>2. Unpatched
  BY NeverNewAgain DEF StillBegun, IInv, Unpatched, Actors
<1>. QED BY <1>1, <1>2

(***************************************************************************)
(* An announced completion stands.                                         *)
(***************************************************************************)
THEOREM OutcomeCorrect == Spec => OutcomeStands
BY IInvAlways, OutcomeStep, PTL DEF Spec, OutcomeStands

(***************************************************************************)
(* A deleted job stays deleted; the worker's next commit or report finds   *)
(* no row.                                                                 *)
(***************************************************************************)
LEMMA DeletedStep ==
  IInv /\ [Next]_vars => (Deleted => Deleted' /\ stage' = stage /\ report' = "none")
<1>. SUFFICES ASSUME IInv, [Next]_vars, Deleted
              PROVE  Deleted' /\ stage' = stage /\ report' = "none"
  OBVIOUS
<1>1. report = "none" /\ ~row.exists /\ pc["worker"] # "new"
  BY DEF IInv, ExistsInv, Deleted
<1>2. pc'["worker"] # "new"
  BY <1>1, NeverNewAgain DEF StillBegun, IInv, Actors
<1>3. ~row'.exists
  <2>1. CASE UNCHANGED <<row, history>>
    BY <1>1, <2>1
  <2>2. CASE Remove
    BY <2>2 DEF Remove
  <2>3. CASE MarkFailed \/ \E p \in Patches : UpdateStatus(p)
    BY <1>1, <2>3 DEF MarkFailed, UpdateStatus
  <2>4. ~CreateJob /\ ~CommitStatus /\ ~UpdateCloneMetadata
    BY <1>1 DEF CreateJob, CommitStatus, UpdateCloneMetadata
  <2>. QED BY <2>1, <2>2, <2>3, <2>4, RowWriters
<1>4. stage' = stage /\ report' \in {report, "none"}
  BY <1>1, ResultWriters DEF CommitStatus, PersistPreAgentReport, PersistFinalReport, Remove
<1>. QED BY <1>1, <1>2, <1>3, <1>4 DEF Deleted

(***************************************************************************)
(* Deleting a review stops it.                                             *)
(***************************************************************************)
THEOREM DeletionCorrect == Spec => StopsWhenDeleted
BY IInvAlways, DeletedStep, PTL DEF Spec, StopsWhenDeleted


=============================================================================
