--------------------------- MODULE ReviewStreamProofs ---------------------------
(***************************************************************************)
(* Proofs about ReviewStream, for any set of clients, any set of status    *)
(* requests, any number of judge batches, and any bound on crashes and     *)
(* lost announcements.                                                     *)
(***************************************************************************)
EXTENDS ReviewStream, ReviewJobProofs

(***************************************************************************)
(* An event built from a status ends a stream exactly when that status is  *)
(* an outcome.                                                             *)
(***************************************************************************)
LEMMA KindOfStatus ==
  ASSUME NEW s, NEW n
  PROVE  /\ IsTerminal(EventFor(s, n)) <=> s \in Terminal
         /\ EventFor(s, n).status = s
BY DEF EventFor, Kind, IsTerminal, Terminal

(***************************************************************************)
(* Every step preserves that events are of the kind of their status.       *)
(***************************************************************************)
LEMMA KindStep == TypeOK /\ KindInv /\ [Next]_vars => KindInv'
<1>. SUFFICES ASSUME TypeOK, KindInv, [Next]_vars PROVE KindInv'
  OBVIOUS
<1>. USE ConstantsAssumption DEF db, bounds, TypeOK, KindInv, Actors
<1>1. ASSUME NEW a \in Actors, SetSnapshot(a) PROVE KindInv'
  BY <1>1 DEF SetSnapshot, Goto
<1>2. ASSUME NEW a \in Actors, PublishEvent(a) PROVE KindInv'
  BY <1>2 DEF PublishEvent, Goto
<1>3. ASSUME NEW a \in Actors, DropEvent(a) PROVE KindInv'
  BY <1>3 DEF DropEvent, Announcing, Goto
<1>4. CASE CreateJob
  BY <1>4 DEF CreateJob, Goto
<1>5. CASE Enqueue
  BY <1>5 DEF Enqueue, Goto
<1>6. CASE StartDelete
  BY <1>6 DEF StartDelete, Goto
<1>7. CASE Revoke
  BY <1>7 DEF Revoke, Goto
<1>8. CASE Remove
  BY <1>8, KindOfStatus DEF Remove, Announce
<1>9. ASSUME NEW p \in Patches, StartPatch(p) PROVE KindInv'
  BY <1>9, KindOfStatus DEF StartPatch
<1>10. ASSUME NEW p \in Patches, UpdateStatus(p) PROVE KindInv'
  BY <1>10 DEF UpdateStatus, Flush, Goto
<1>11. ASSUME NEW p \in Patches, RefreshPatched(p) PROVE KindInv'
  BY <1>11 DEF RefreshPatched, Announce
<1>12. ASSUME NEW p \in Patches, Abandon(p) PROVE KindInv'
  BY <1>12 DEF Abandon, Goto
<1>13. ASSUME NEW p \in Patches, Stamp(p) PROVE KindInv'
  BY <1>13, KindOfStatus DEF Stamp, Announce
<1>14. CASE Stamp("worker")
  BY <1>14, KindOfStatus DEF Stamp, Announce
<1>15. CASE PickUp
  BY <1>15 DEF PickUp, Load, Goto
<1>16. CASE MarkStarted
  BY <1>16 DEF MarkStarted, Load, Goto
<1>17. CASE CheckBeforeStage
  BY <1>17 DEF CheckBeforeStage, EnsureActive, Goto
<1>18. CASE CommitStatus
  BY <1>18 DEF CommitStatus, Flush, Goto
<1>19. CASE RefreshStatus
  BY <1>19, KindOfStatus DEF RefreshStatus, Announce
<1>20. CASE CloneRepository
  BY <1>20 DEF CloneRepository, Goto
<1>21. CASE CheckAfterClone
  BY <1>21 DEF CheckAfterClone, EnsureActive, Goto
<1>22. CASE UpdateCloneMetadata
  BY <1>22 DEF UpdateCloneMetadata, Goto
<1>23. CASE RefreshCloned
  BY <1>23, KindOfStatus DEF RefreshCloned, Announce
<1>24. CASE Analyze
  BY <1>24, KindOfStatus DEF Analyze, Announce
<1>25. CASE CheckAfterIndex
  BY <1>25 DEF CheckAfterIndex, EnsureActive, Goto
<1>26. CASE PersistPreAgentReport
  BY <1>26 DEF PersistPreAgentReport, Goto
<1>27. CASE JudgeBatch
  BY <1>27 DEF JudgeBatch, Announce, IsTerminal, Terminal
<1>28. CASE JudgedAll
  BY <1>28 DEF JudgedAll, Goto
<1>29. CASE PersistFinalReport
  BY <1>29 DEF PersistFinalReport, Goto
<1>30. CASE CheckAfterReview
  BY <1>30 DEF CheckAfterReview, EnsureActive, Goto
<1>31. CASE RequireAiGeneratedReport
  BY <1>31 DEF RequireAiGeneratedReport, Goto
<1>32. CASE Raise
  BY <1>32 DEF Raise, Goto
<1>33. CASE RecheckJob
  BY <1>33 DEF RecheckJob, Goto
<1>38. CASE Escape
  BY <1>38 DEF Escape, Goto
<1>34. CASE MarkFailed
  BY <1>34, KindOfStatus DEF MarkFailed, Announce
<1>35. CASE Kill
  BY <1>35 DEF Kill, Goto
<1>36. ASSUME NEW a \in Actors, Crash(a) PROVE KindInv'
  BY <1>36 DEF Crash, Goto
<1>37. CASE UNCHANGED vars
  BY <1>37 DEF vars
<1>. QED
  BY <1>1, <1>2, <1>3, <1>4, <1>5, <1>6, <1>7, <1>8, <1>9, <1>10, <1>11, <1>12, <1>13,
     <1>14, <1>15, <1>16, <1>17, <1>18, <1>19, <1>20, <1>21, <1>22, <1>23, <1>24, <1>25,
     <1>26, <1>27, <1>28, <1>29, <1>30, <1>31, <1>32, <1>33, <1>34, <1>35, <1>36, <1>37, <1>38
     DEF Next, JobStep, User, WorkerStep, Stage, Work, DeleteStep, PatchStep

(***************************************************************************)
(* Every step preserves that there is one outcome, announced last.         *)
(***************************************************************************)
LEMMA OutcomeInvStep == IInv /\ OutcomeInv /\ [Next]_vars => OutcomeInv'
<1>. SUFFICES ASSUME IInv, OutcomeInv, [Next]_vars PROVE OutcomeInv'
  OBVIOUS
<1>. USE ConstantsAssumption DEF db, bounds, OutcomeInv, Unpatched, IInv, TypeOK, ShapeInv,
        ExistsInv, StatusInv, MidStage, Actors
<1>1. ASSUME NEW a \in Actors, SetSnapshot(a) PROVE OutcomeInv'
  <2>1. CASE a = "worker"
    <3>1. event["worker"].status \in Terminal /\ row.exists /\ Unpatched
            => row.status = event["worker"].status
      BY <1>1, <2>1 DEF SetSnapshot, Announcing, Terminal, Worked
    <3>2. Unpatched' => Unpatched
      BY <1>1, <2>1 DEF SetSnapshot, Goto
    <3>3. /\ row' = row /\ event' = event /\ pc'["worker"] = "publish"
          /\ told' = IF event["worker"].status \in Terminal THEN event["worker"].status ELSE told
      BY <1>1, <2>1 DEF SetSnapshot, Goto
    <3>4. pc["worker"] = "set"
      BY <1>1, <2>1 DEF SetSnapshot
    <3>5. row.exists /\ Unpatched => told = "none"
      BY <3>4
    <3>6. "none" \notin Terminal
      BY DEF Terminal
    <3>. QED
      <4>. SUFFICES ASSUME row'.exists, Unpatched' PROVE OutcomeInv'
        OBVIOUS
      <4>1. told' # "none" <=> event["worker"].status \in Terminal
        BY <3>2, <3>3, <3>5, <3>6
      <4>. QED BY <3>1, <3>2, <3>3, <4>1
  <2>2. CASE a = "delete"
    BY <1>1, <2>2 DEF SetSnapshot, Announcing
  <2>3. CASE a \in Patches
    BY <1>1, <2>3 DEF SetSnapshot, Goto
  <2>. QED BY <2>1, <2>2, <2>3
<1>2. ASSUME NEW a \in Actors, PublishEvent(a) PROVE OutcomeInv'
  <2>1. ASSUME row'.exists, Unpatched', told' # "none"
        PROVE  /\ row.exists /\ Unpatched /\ told # "none"
               /\ pc'["worker"] \in {"publish", "done", "killed"}
    <3>1. row.exists /\ Unpatched /\ told # "none"
      BY <1>2, <2>1, NeverNewAgain DEF PublishEvent, StillBegun, Next, JobStep
    <3>2. event["worker"].status \in Terminal /\ stage \notin {"FAILED"}
      BY <3>1 DEF Stages
    <3>3. pc["worker"] = "publish" => resume["worker"] = "done"
      BY <3>2 DEF Announcing, Terminal, Worked
    <3>. QED BY <1>2, <3>1, <3>3 DEF PublishEvent, Announcing, Goto
  <2>2. row' = row /\ told' = told /\ event' = event
    BY <1>2 DEF PublishEvent
  <2>3. pc'["worker"] = "publish" => pc["worker"] = "publish"
    BY <1>2 DEF PublishEvent, Goto
  <2>4. Unpatched' => Unpatched
    BY <1>2, NeverNewAgain DEF StillBegun, Next, JobStep
  <2>. QED BY <2>1, <2>2, <2>3, <2>4
<1>3. ASSUME NEW a \in Actors, DropEvent(a) PROVE OutcomeInv'
  <2>1. ASSUME row'.exists, Unpatched', told' # "none"
        PROVE  /\ row.exists /\ Unpatched /\ told # "none"
               /\ pc'["worker"] \in {"publish", "done", "killed"}
    <3>1. row.exists /\ Unpatched /\ told # "none"
      BY <1>3, <2>1, NeverNewAgain DEF DropEvent, StillBegun, Next, JobStep
    <3>2. event["worker"].status \in Terminal /\ stage \notin {"FAILED"}
      BY <3>1 DEF Stages
    <3>3. pc["worker"] = "publish" => resume["worker"] = "done"
      BY <3>2 DEF Announcing, Terminal, Worked
    <3>. QED BY <1>3, <3>1, <3>3 DEF DropEvent, Announcing, Goto
  <2>2. row' = row /\ told' = told /\ event' = event
    BY <1>3 DEF DropEvent
  <2>3. pc'["worker"] = "publish" => pc["worker"] = "publish"
    BY <1>3 DEF DropEvent, Goto
  <2>4. Unpatched' => Unpatched
    BY <1>3, NeverNewAgain DEF StillBegun, Next, JobStep
  <2>. QED BY <2>1, <2>2, <2>3, <2>4
<1>4. CASE CreateJob
  BY <1>4 DEF CreateJob, Goto
<1>5. CASE Enqueue
  BY <1>5 DEF Enqueue, Goto
<1>6. CASE StartDelete
  BY <1>6 DEF StartDelete, Goto
<1>7. CASE Revoke
  BY <1>7 DEF Revoke, Goto
<1>8. CASE Remove
  BY <1>8 DEF Remove, Announce, EventFor, Kind, Goto
<1>9. ASSUME NEW p \in Patches, StartPatch(p) PROVE OutcomeInv'
  BY <1>9 DEF StartPatch, Load, EventFor, Kind, Goto
<1>10. ASSUME NEW p \in Patches, UpdateStatus(p) PROVE OutcomeInv'
  BY <1>10 DEF UpdateStatus, Flush, Goto
<1>11. ASSUME NEW p \in Patches, RefreshPatched(p) PROVE OutcomeInv'
  BY <1>11 DEF RefreshPatched, Load, Announce, Goto
<1>12. ASSUME NEW p \in Patches, Abandon(p) PROVE OutcomeInv'
  BY <1>12 DEF Abandon, Goto
<1>13. ASSUME NEW p \in Patches, Stamp(p) PROVE OutcomeInv'
  BY <1>13 DEF Stamp, Announce, EventFor, Kind, Goto
<1>14. CASE Stamp("worker")
  BY <1>14 DEF Stamp, Announce, EventFor, Kind, Goto
<1>15. CASE PickUp
  BY <1>15 DEF PickUp, Load, Goto
<1>16. CASE MarkStarted
  BY <1>16 DEF MarkStarted, Load, Goto
<1>17. CASE CheckBeforeStage
  BY <1>17 DEF CheckBeforeStage, EnsureActive, Goto
<1>18. CASE CommitStatus
  BY <1>18 DEF CommitStatus, Flush, Goto
<1>19. CASE RefreshStatus
  BY <1>19 DEF RefreshStatus, Load, Announce, EventFor, Kind, Goto
<1>20. CASE CloneRepository
  BY <1>20 DEF CloneRepository, Goto
<1>21. CASE CheckAfterClone
  BY <1>21 DEF CheckAfterClone, EnsureActive, Goto
<1>22. CASE UpdateCloneMetadata
  BY <1>22 DEF UpdateCloneMetadata, Goto
<1>23. CASE RefreshCloned
  BY <1>23 DEF RefreshCloned, Load, Announce, EventFor, Kind, Goto
<1>24. CASE Analyze
  BY <1>24 DEF Analyze, Announce, EventFor, Kind, Goto
<1>25. CASE CheckAfterIndex
  BY <1>25 DEF CheckAfterIndex, EnsureActive, Goto
<1>26. CASE PersistPreAgentReport
  BY <1>26 DEF PersistPreAgentReport, Goto
<1>27. CASE JudgeBatch
  BY <1>27 DEF JudgeBatch, Announce, Goto
<1>28. CASE JudgedAll
  BY <1>28 DEF JudgedAll, Goto
<1>29. CASE PersistFinalReport
  BY <1>29 DEF PersistFinalReport, Goto
<1>30. CASE CheckAfterReview
  BY <1>30 DEF CheckAfterReview, EnsureActive, Goto
<1>31. CASE RequireAiGeneratedReport
  BY <1>31 DEF RequireAiGeneratedReport, Goto
<1>32. CASE Raise
  BY <1>32 DEF Raise, Goto, TrySteps
<1>33. CASE RecheckJob
  BY <1>33 DEF RecheckJob, Goto
<1>38. CASE Escape
  BY <1>38 DEF Escape, Goto
<1>34. CASE MarkFailed
  BY <1>34 DEF MarkFailed, Announce, EventFor, Kind, Goto
<1>35. CASE Kill
  BY <1>35 DEF Kill, Goto
<1>36. ASSUME NEW a \in Actors, Crash(a) PROVE OutcomeInv'
  BY <1>36 DEF Crash, Goto
<1>37. CASE UNCHANGED vars
  BY <1>37 DEF vars
<1>. QED
  BY <1>1, <1>2, <1>3, <1>4, <1>5, <1>6, <1>7, <1>8, <1>9, <1>10, <1>11, <1>12, <1>13,
     <1>14, <1>15, <1>16, <1>17, <1>18, <1>19, <1>20, <1>21, <1>22, <1>23, <1>24, <1>25,
     <1>26, <1>27, <1>28, <1>29, <1>30, <1>31, <1>32, <1>33, <1>34, <1>35, <1>36, <1>37, <1>38
     DEF Next, JobStep, User, WorkerStep, Stage, Work, DeleteStep, PatchStep

(***************************************************************************)
(* A step of the streams is one of the review, or leaves it alone.         *)
(***************************************************************************)
LEMMA StreamStepIsJobStep ==
  ASSUME [StreamNext]_streamVars
  PROVE  [Next]_vars
BY DEF StreamNext, Elsewhere, Expire, StoreSnapshot, Deliver, Connect, ClientStep,
       Subscribe, ReadSnapshot, Receive, Disconnect, streamVars, Next, JobStep

(***************************************************************************)
(* A job that exists unpatched after a step did so before it, or is new.   *)
(***************************************************************************)
LEMMA SameReview ==
  ASSUME IInv, [Next]_vars, row'.exists, Unpatched'
  PROVE  Unpatched /\ (row.exists \/ pc["worker"] = "new")
<1>1. Unpatched
  BY NeverNewAgain DEF StillBegun, IInv, Unpatched, Actors
<1>2. CASE UNCHANGED <<row, history>>
  BY <1>1, <1>2
<1>3. CASE CreateJob
  BY <1>1, <1>3 DEF CreateJob
<1>4. CASE Remove
  BY <1>4 DEF Remove
<1>5. CASE CommitStatus \/ UpdateCloneMetadata
  BY <1>1, <1>5 DEF CommitStatus, UpdateCloneMetadata
<1>6. CASE MarkFailed \/ \E p \in Patches : UpdateStatus(p)
  BY <1>1, <1>6 DEF MarkFailed, UpdateStatus
<1>. QED BY <1>1, <1>2, <1>3, <1>4, <1>5, <1>6, RowWriters

(***************************************************************************)
(* Crashes and lost announcements are not undone.                           *)
(***************************************************************************)
LEMMA BoundsGrow ==
  ASSUME TypeOK, [Next]_vars
  PROVE  ~Interrupted' => ~Interrupted
<1>1. crashes' \in {crashes, crashes + 1} /\ drops' \in {drops, drops + 1}
  BY DEF Next, JobStep, User, WorkerStep, Stage, Work, DeleteStep,
         PatchStep, vars, bounds, PublishEvent, DropEvent, Enqueue, CreateJob, MarkFailed,
         UpdateCloneMetadata, StartDelete, Revoke, Remove, StartPatch, RefreshPatched,
         UpdateStatus, Abandon, Stamp, PickUp, MarkStarted, CheckBeforeStage,
         CheckAfterClone, CheckAfterIndex, CheckAfterReview, EnsureActive, CommitStatus,
         RefreshStatus, CloneRepository, RefreshCloned, Analyze, PersistPreAgentReport,
         PersistFinalReport, JudgeBatch, JudgedAll, RequireAiGeneratedReport, Raise, Escape,
         RecheckJob, Kill, Crash, SetSnapshot
<1>2. crashes \in Nat /\ drops \in Nat
  BY ConstantsAssumption DEF TypeOK
<1>. QED BY <1>1, <1>2 DEF Interrupted

(***************************************************************************)
(* Steps other than a snapshot leave the outcome told alone.               *)
(***************************************************************************)
LEMMA ElsewhereTellsNothing ==
  ASSUME Elsewhere
  PROVE  told' = told
BY DEF Elsewhere, User, WorkerStep, Stage, Work, DeleteStep,
       PatchStep, DropEvent, Enqueue, CreateJob, MarkFailed,
       UpdateCloneMetadata, StartDelete, Revoke, Remove, StartPatch, RefreshPatched,
       UpdateStatus, Abandon, Stamp, PickUp, MarkStarted, CheckBeforeStage,
       CheckAfterClone, CheckAfterIndex, CheckAfterReview, EnsureActive, CommitStatus,
       RefreshStatus, CloneRepository, RefreshCloned, Analyze, PersistPreAgentReport,
       PersistFinalReport, JudgeBatch, JudgedAll, RequireAiGeneratedReport, Raise, Escape,
       RecheckJob, Kill, Crash

(***************************************************************************)
(* Showing an event keeps the variables of the streams in their domains.   *)
(***************************************************************************)
LEMMA ShowType ==
  ASSUME StreamTypeOK, NEW c \in Clients, NEW e \in Event, NEW rest \in Seq(Event),
         NEW end \in {"closed", "answered"}, Show(c, e, rest, end)
  PROVE  /\ stream' \in [Clients -> {"off", "authorized", "gone", "closed", "answered"}
                                       \cup Subscribed]
         /\ inbox' \in [Clients -> Seq(Event)]
         /\ outcome' \in [Clients -> Event \cup {NoEvent}]
<1>. USE DEF StreamTypeOK, Show, Move
<1>1. CASE IsTerminal(e)
  <2>1. <<>> \in Seq(Event)
    OBVIOUS
  <2>. QED BY <1>1, <2>1
<1>2. CASE ~IsTerminal(e)
  BY <1>2 DEF Subscribed
<1>. QED BY <1>1, <1>2

(***************************************************************************)
(* Every step keeps the streams' variables in their domains.               *)
(***************************************************************************)
LEMMA StreamTypeStep ==
  TypeOK /\ StreamTypeOK /\ FallbackInv /\ [StreamNext]_streamVars => StreamTypeOK'
<1>. SUFFICES ASSUME TypeOK, StreamTypeOK, FallbackInv, [StreamNext]_streamVars PROVE StreamTypeOK'
  OBVIOUS
<1>. USE DEF StreamTypeOK
<1>1. CASE Elsewhere
  BY <1>1 DEF Elsewhere, clients
<1>2. CASE Expire
  BY <1>2 DEF Expire, clients
<1>3. ASSUME NEW a \in Actors, StoreSnapshot(a) PROVE StreamTypeOK'
  <2>1. event[a] \in Event
    BY DEF TypeOK
  <2>. QED BY <1>3, <2>1 DEF StoreSnapshot, clients
<1>4. ASSUME NEW a \in Actors, Deliver(a) PROVE StreamTypeOK'
  <2>1. event[a] \in Event
    BY DEF TypeOK
  <2>2. inbox' \in [Clients -> Seq(Event)]
    <3>1. ASSUME NEW c \in Clients
          PROVE  (IF stream[c] \in Subscribed THEN Append(inbox[c], event[a])
                  ELSE inbox[c]) \in Seq(Event)
      BY <2>1
    <3>. QED BY <1>4, <3>1 DEF Deliver
  <2>. QED BY <1>4, <2>2 DEF Deliver
<1>5. ASSUME NEW c \in Clients, Connect(c) PROVE StreamTypeOK'
  <2>1. EventFor(row.status, history.progress) \in Event
    BY EventType DEF TypeOK, Row
  <2>2. fallback' \in [Clients -> Event \cup {NoEvent}]
    BY <1>5, <2>1 DEF Connect
  <2>. QED BY <1>5, <2>2 DEF Connect, Move
<1>6. ASSUME NEW c \in Clients, Subscribe(c) PROVE StreamTypeOK'
  BY <1>6 DEF Subscribe, Move, Subscribed
<1>7. ASSUME NEW c \in Clients, ReadSnapshot(c) PROVE StreamTypeOK'
  <2>1. fallback[c] \in Event
    BY <1>7 DEF ReadSnapshot, FallbackInv, Subscribed
  <2>2. inbox[c] \in Seq(Event)
    OBVIOUS
  <2>3. fallback' \in [Clients -> Event \cup {NoEvent}]
    BY <1>7 DEF ReadSnapshot
  <2>4. CASE snapshot # NoEvent
    <3>1. snapshot \in Event /\ Show(c, snapshot, inbox[c], "closed")
      BY <1>7, <2>4 DEF ReadSnapshot
    <3>. QED BY <1>7, <2>2, <2>3, <3>1, ShowType DEF ReadSnapshot
  <2>5. CASE snapshot = NoEvent
    <3>1. Show(c, fallback[c], inbox[c], "answered")
      BY <1>7, <2>5 DEF ReadSnapshot
    <3>. QED BY <1>7, <2>1, <2>2, <2>3, <3>1, ShowType DEF ReadSnapshot
  <2>. QED BY <2>4, <2>5
<1>8. ASSUME NEW c \in Clients, Receive(c) PROVE StreamTypeOK'
  <2>1. inbox[c] \in Seq(Event) /\ inbox[c] # <<>>
    BY <1>8 DEF Receive
  <2>2. Head(inbox[c]) \in Event /\ Tail(inbox[c]) \in Seq(Event)
    BY <2>1
  <2>. QED BY <1>8, <2>2, ShowType DEF Receive
<1>9. ASSUME NEW c \in Clients, Disconnect(c) PROVE StreamTypeOK'
  <2>1. <<>> \in Seq(Event)
    OBVIOUS
  <2>. QED BY <1>9, <2>1 DEF Disconnect, Move
<1>10. CASE UNCHANGED streamVars
  BY <1>10 DEF streamVars, clients, vars
<1>. QED
  BY <1>1, <1>2, <1>3, <1>4, <1>5, <1>6, <1>7, <1>8, <1>9, <1>10 DEF StreamNext,
     ClientStep

(***************************************************************************)
(* Every step preserves that an opening stream has a fallback.             *)
(***************************************************************************)
LEMMA FallbackStep ==
  StreamTypeOK /\ TypeOK /\ FallbackInv /\ [StreamNext]_streamVars => FallbackInv'
<1>. SUFFICES ASSUME StreamTypeOK, TypeOK, FallbackInv, [StreamNext]_streamVars PROVE FallbackInv'
  OBVIOUS
<1>. USE DEF StreamTypeOK, FallbackInv, Subscribed
<1>1. CASE Elsewhere
  BY <1>1 DEF Elsewhere, clients
<1>2. CASE Expire
  BY <1>2 DEF Expire, clients
<1>3. ASSUME NEW a \in Actors, StoreSnapshot(a) PROVE FallbackInv'
  BY <1>3 DEF StoreSnapshot, SetSnapshot, Goto, clients
<1>4. ASSUME NEW a \in Actors, Deliver(a) PROVE FallbackInv'
  BY <1>4 DEF Deliver, PublishEvent, Goto
<1>5. ASSUME NEW c \in Clients, Connect(c) PROVE FallbackInv'
  <2>1. EventFor(row.status, history.progress) \in Event
    BY EventType DEF TypeOK, Row
  <2>2. fallback'[c] \in Event
    BY <1>5, <2>1 DEF Connect
  <2>. QED BY <1>5, <2>2 DEF Connect, Move
<1>6. ASSUME NEW c \in Clients, Subscribe(c) PROVE FallbackInv'
  BY <1>6 DEF Subscribe, Move
<1>7. ASSUME NEW c \in Clients, ReadSnapshot(c) PROVE FallbackInv'
  BY <1>7 DEF ReadSnapshot, Show, Move
<1>8. ASSUME NEW c \in Clients, Receive(c) PROVE FallbackInv'
  BY <1>8 DEF Receive, Show, Move
<1>9. ASSUME NEW c \in Clients, Disconnect(c) PROVE FallbackInv'
  BY <1>9 DEF Disconnect, Move
<1>10. CASE UNCHANGED streamVars
  BY <1>10 DEF streamVars, clients, vars
<1>. QED
  BY <1>1, <1>2, <1>3, <1>4, <1>5, <1>6, <1>7, <1>8, <1>9, <1>10 DEF StreamNext,
     ClientStep

(***************************************************************************)
(* Every step preserves that a job without a worker has no streams.        *)
(***************************************************************************)
LEMMA NoStreamStep ==
  IInv /\ StreamTypeOK /\ NoStreamYet /\ [StreamNext]_streamVars => NoStreamYet'
<1>. SUFFICES ASSUME IInv, StreamTypeOK, NoStreamYet, [StreamNext]_streamVars PROVE NoStreamYet'
  OBVIOUS
<1>. USE DEF StreamTypeOK, NoStreamYet, Subscribed
<1>a. pc'["worker"] = "new" => pc["worker"] = "new"
  BY StreamStepIsJobStep, NeverNewAgain DEF IInv, StillBegun, Actors
<1>b. pc["worker"] = "new" => ~row.exists /\ \A a \in Actors : pc[a] = "new"
  BY DEF IInv, ExistsInv
<1>1. CASE Elsewhere
  BY <1>1, <1>a, <1>b DEF Elsewhere, clients
<1>2. CASE Expire
  BY <1>2, <1>a, <1>b DEF Expire, clients
<1>3. ASSUME NEW a \in Actors, StoreSnapshot(a) PROVE NoStreamYet'
  BY <1>3, <1>a, <1>b DEF StoreSnapshot, SetSnapshot, Goto, clients
<1>4. ASSUME NEW a \in Actors, Deliver(a) PROVE NoStreamYet'
  BY <1>4, <1>a, <1>b DEF Deliver, PublishEvent, Goto
<1>5. ASSUME NEW c \in Clients, Connect(c) PROVE NoStreamYet'
  BY <1>5, <1>a, <1>b DEF Connect, Move
<1>6. ASSUME NEW c \in Clients, Subscribe(c) PROVE NoStreamYet'
  BY <1>6, <1>a, <1>b DEF Subscribe, Move
<1>7. ASSUME NEW c \in Clients, ReadSnapshot(c) PROVE NoStreamYet'
  BY <1>7, <1>a, <1>b DEF ReadSnapshot, Show, Move
<1>8. ASSUME NEW c \in Clients, Receive(c) PROVE NoStreamYet'
  BY <1>8, <1>a, <1>b DEF Receive, Show, Move
<1>9. ASSUME NEW c \in Clients, Disconnect(c) PROVE NoStreamYet'
  BY <1>9, <1>a, <1>b DEF Disconnect, Move
<1>10. CASE UNCHANGED streamVars
  BY <1>10, <1>a, <1>b DEF streamVars, clients, vars
<1>. QED
  BY <1>1, <1>2, <1>3, <1>4, <1>5, <1>6, <1>7, <1>8, <1>9, <1>10 DEF StreamNext,
     ClientStep

(***************************************************************************)
(* A client that is shown an event: if it is terminal the client has it as *)
(* outcome and nothing else to read, if not it reads on.                   *)
(***************************************************************************)
LEMMA ShowEffect ==
  ASSUME StreamTypeOK, NEW c \in Clients, NEW e, NEW rest, NEW end, Show(c, e, rest, end)
  PROVE  /\ \A d \in Clients \ {c} :
              stream'[d] = stream[d] /\ inbox'[d] = inbox[d] /\ outcome'[d] = outcome[d]
         /\ IsTerminal(e) => stream'[c] = end /\ inbox'[c] = <<>> /\ outcome'[c] = e
         /\ ~IsTerminal(e) =>
              stream'[c] = "streaming" /\ inbox'[c] = rest /\ outcome'[c] = outcome[c]
BY DEF StreamTypeOK, Show, Move

(***************************************************************************)
(* What is left of a message queue after its first message.                *)
(***************************************************************************)
LEMMA TailOfInbox ==
  ASSUME NEW q \in Seq(Event), q # <<>>
  PROVE  /\ Head(q) = q[1] /\ Len(q) >= 1
         /\ Len(Tail(q)) = Len(q) - 1
         /\ \A i \in 1..Len(Tail(q)) : i + 1 \in 1..Len(q) /\ Tail(q)[i] = q[i + 1]
OBVIOUS

(***************************************************************************)
(* Every step preserves that clients read the one outcome.                 *)
(***************************************************************************)
LEMMA TruthStep ==
  IInv /\ StreamTypeOK /\ KindInv /\ NoStreamYet /\ OutcomeInv /\ TruthInv /\ [StreamNext]_streamVars
    => TruthInv'
<1>. SUFFICES ASSUME IInv, StreamTypeOK, KindInv, NoStreamYet, OutcomeInv, TruthInv,
                     [StreamNext]_streamVars
              PROVE  TruthInv'
  OBVIOUS
<1>. SUFFICES ASSUME row'.exists, Unpatched'
               PROVE  /\ snapshot' # NoEvent /\ IsTerminal(snapshot') => snapshot'.status = told'
                      /\ \A c \in Clients :
                           /\ \A i \in 1..Len(inbox'[c]) :
                                IsTerminal(inbox'[c][i]) => inbox'[c][i].status = told'
                           /\ stream'[c] = "closed" => outcome'[c].status = told' /\ told' # "none"
  BY DEF TruthInv, IsTerminal
<1>. DEFINE Truth ==
       /\ snapshot' # NoEvent /\ IsTerminal(snapshot') => snapshot'.status = told'
       /\ \A c \in Clients :
            /\ \A i \in 1..Len(inbox'[c]) :
                 IsTerminal(inbox'[c][i]) => inbox'[c][i].status = told'
            /\ stream'[c] = "closed" => outcome'[c].status = told' /\ told' # "none"
<1>a. Unpatched /\ (row.exists \/ pc["worker"] = "new")
  BY StreamStepIsJobStep, SameReview
<1>b. pc["worker"] = "new" => ~row.exists /\ told = "none"
  BY DEF IInv, ExistsInv
<1>1. CASE Elsewhere
  <2>1. UNCHANGED <<snapshot, stream, inbox, outcome>> /\ told' = told
    BY <1>1, ElsewhereTellsNothing DEF Elsewhere, clients
  <2>2. CASE row.exists
    BY <1>a, <2>1, <2>2 DEF TruthInv
  <2>3. CASE pc["worker"] = "new"
    BY <1>b, <2>1, <2>3 DEF NoStreamYet
  <2>. QED BY <1>a, <2>2, <2>3
<1>2. CASE Expire
  <2>1. UNCHANGED <<row, told, stream, inbox, outcome>> /\ snapshot' = NoEvent
    BY <1>2 DEF Expire, clients, vars, db
  <2>. QED BY <1>a, <2>1 DEF TruthInv
<1>3. ASSUME NEW a \in Actors, StoreSnapshot(a) PROVE Truth
  <2>1. /\ UNCHANGED <<row, event, stream, inbox, outcome>> /\ snapshot' = event[a]
        /\ told' = IF event[a].status \in Terminal THEN event[a].status ELSE told
        /\ pc[a] = "set"
    BY <1>3 DEF StoreSnapshot, SetSnapshot, clients, db
  <2>2. row.exists /\ a = "worker"
    BY <1>a, <2>1 DEF IInv, ExistsInv, Announcing, Actors, Unpatched
  <2>3. told = "none"
    BY <1>a, <2>1, <2>2 DEF OutcomeInv
  <2>4. IsTerminal(event[a]) <=> event[a].status \in Terminal
    BY DEF KindInv
  <2>5. \A c \in Clients : \A i \in 1..Len(inbox[c]) : ~IsTerminal(inbox[c][i])
    <3>1. \A c \in Clients : \A i \in 1..Len(inbox[c]) : inbox[c][i].status # "none"
      <4>1. ASSUME NEW c \in Clients, NEW i \in 1..Len(inbox[c])
            PROVE  inbox[c][i] \in Event
        BY DEF StreamTypeOK
      <4>2. \A e \in Event : e.status # "none"
        BY DEF Event, ReviewJobStatus, Stages, Terminal
      <4>. QED BY <4>1, <4>2
    <3>. QED BY <1>a, <2>2, <2>3, <3>1 DEF TruthInv
  <2>6. \A c \in Clients : stream[c] # "closed"
    BY <1>a, <2>2, <2>3 DEF TruthInv
  <2>. QED BY <2>1, <2>4, <2>5, <2>6
<1>4. ASSUME NEW a \in Actors, Deliver(a) PROVE Truth
  <2>1. /\ UNCHANGED <<row, told, event, stream, snapshot, outcome>> /\ pc[a] = "publish"
        /\ inbox' = [c \in Clients |-> IF stream[c] \in Subscribed
                                       THEN Append(inbox[c], event[a]) ELSE inbox[c]]
    BY <1>4 DEF Deliver, PublishEvent, db
  <2>2. row.exists /\ a = "worker"
    BY <1>a, <2>1 DEF IInv, ExistsInv, Announcing, Actors, Unpatched
  <2>3. IsTerminal(event[a]) => event[a].status = told
    BY <1>a, <2>1, <2>2 DEF OutcomeInv, KindInv
  <2>4. ASSUME NEW c \in Clients, NEW i \in 1..Len(inbox'[c]), IsTerminal(inbox'[c][i])
        PROVE  inbox'[c][i].status = told
    <3>1. inbox[c] \in Seq(Event)
      BY DEF StreamTypeOK
    <3>2. CASE i \in 1..Len(inbox[c]) /\ inbox'[c][i] = inbox[c][i]
      BY <1>a, <2>2, <2>4, <3>2 DEF TruthInv
    <3>3. CASE inbox'[c][i] = event[a]
      BY <2>3, <2>4, <3>3
    <3>. QED BY <2>1, <3>1, <3>2, <3>3
  <2>. QED BY <1>a, <2>1, <2>2, <2>4 DEF TruthInv
<1>5. ASSUME NEW c \in Clients, Connect(c) PROVE Truth
  <2>1. UNCHANGED <<row, told, snapshot, inbox, outcome>>
    BY <1>5 DEF Connect, vars, db
  <2>2. \A d \in Clients : stream'[d] = "closed" => stream[d] = "closed"
    BY <1>5 DEF Connect, Move, StreamTypeOK
  <2>. QED BY <1>a, <2>1, <2>2 DEF TruthInv
<1>6. ASSUME NEW c \in Clients, Subscribe(c) PROVE Truth
  <2>1. UNCHANGED <<row, told, snapshot, inbox, outcome>>
    BY <1>6 DEF Subscribe, vars, db
  <2>2. \A d \in Clients : stream'[d] = "closed" => stream[d] = "closed"
    BY <1>6 DEF Subscribe, Move, StreamTypeOK
  <2>. QED BY <1>a, <2>1, <2>2 DEF TruthInv
<1>7. ASSUME NEW c \in Clients, ReadSnapshot(c) PROVE Truth
  <2>1. UNCHANGED <<row, told, snapshot>>
    BY <1>7 DEF ReadSnapshot, vars, db
  <2>2. row.exists
    BY <2>1
  <2>3. CASE snapshot # NoEvent
    <3>1. Show(c, snapshot, inbox[c], "closed")
      BY <1>7, <2>3 DEF ReadSnapshot
    <3>2. IsTerminal(snapshot) => snapshot.status = told /\ told # "none"
      BY <1>a, <2>2, <2>3 DEF TruthInv, StreamTypeOK, Event, ReviewJobStatus, Stages, Terminal
    <3>. QED BY <1>a, <2>1, <2>2, <3>1, <3>2, ShowEffect DEF TruthInv
  <2>4. CASE snapshot = NoEvent
    <3>1. Show(c, fallback[c], inbox[c], "answered")
      BY <1>7, <2>4 DEF ReadSnapshot
    <3>. QED BY <1>a, <2>1, <2>2, <3>1, ShowEffect DEF TruthInv
  <2>. QED BY <2>3, <2>4
<1>8. ASSUME NEW c \in Clients, Receive(c) PROVE Truth
  <2>1. UNCHANGED <<row, told, snapshot>> /\ inbox[c] \in Seq(Event) /\ inbox[c] # <<>>
    BY <1>8 DEF Receive, vars, db, StreamTypeOK
  <2>2. row.exists /\ Show(c, Head(inbox[c]), Tail(inbox[c]), "closed")
    BY <1>8, <2>1 DEF Receive
  <2>3. Head(inbox[c]) \in Event /\ Head(inbox[c]) = inbox[c][1] /\ 1 \in 1..Len(inbox[c])
    BY <2>1, TailOfInbox
  <2>4. IsTerminal(Head(inbox[c])) => Head(inbox[c]).status = told /\ told # "none"
    BY <1>a, <2>2, <2>3 DEF TruthInv, Event, ReviewJobStatus, Stages, Terminal
  <2>5. \A i \in 1..Len(Tail(inbox[c])) :
          IsTerminal(Tail(inbox[c])[i]) => Tail(inbox[c])[i].status = told
    BY <1>a, <2>1, <2>2, TailOfInbox DEF TruthInv
  <2>6. ASSUME NEW d \in Clients
        PROVE  /\ \A i \in 1..Len(inbox'[d]) :
                    IsTerminal(inbox'[d][i]) => inbox'[d][i].status = told'
               /\ stream'[d] = "closed" => outcome'[d].status = told' /\ told' # "none"
    <3>1. CASE d # c
      BY <1>a, <2>1, <2>2, <3>1, ShowEffect DEF TruthInv
    <3>2. CASE d = c /\ IsTerminal(Head(inbox[c]))
      <4>1. stream'[c] = "closed" /\ inbox'[c] = <<>> /\ outcome'[c] = Head(inbox[c])
        BY <2>2, <3>2, ShowEffect
      <4>. QED BY <2>1, <2>4, <3>2, <4>1
    <3>3. CASE d = c /\ ~IsTerminal(Head(inbox[c]))
      <4>1. stream'[c] = "streaming" /\ inbox'[c] = Tail(inbox[c])
        BY <2>2, <3>3, ShowEffect
      <4>. QED BY <2>1, <2>5, <3>3, <4>1
    <3>. QED BY <3>1, <3>2, <3>3
  <2>7. snapshot' # NoEvent /\ IsTerminal(snapshot') => snapshot'.status = told'
    BY <1>a, <2>1, <2>2 DEF TruthInv
  <2>. QED BY <2>6, <2>7
<1>9. ASSUME NEW c \in Clients, Disconnect(c) PROVE Truth
  <2>1. UNCHANGED <<row, told, snapshot, outcome>>
    BY <1>9 DEF Disconnect, vars, db
  <2>2. \A d \in Clients : /\ stream'[d] = "closed" => stream[d] = "closed"
                           /\ inbox'[d] \in {inbox[d], <<>>}
    BY <1>9 DEF Disconnect, Move, StreamTypeOK
  <2>. QED BY <1>a, <2>1, <2>2 DEF TruthInv
<1>10. CASE UNCHANGED streamVars
  BY <1>a, <1>10 DEF TruthInv, streamVars, clients, vars, db
<1>. QED
  BY <1>1, <1>2, <1>3, <1>4, <1>5, <1>6, <1>7, <1>8, <1>9, <1>10 DEF StreamNext,
     ClientStep

(***************************************************************************)
(* The worker ends by itself after its last publication, unless Redis      *)
(* loses that one.                                                         *)
(***************************************************************************)
LEMMA DoneElsewhere ==
  ASSUME IInv, Elsewhere, pc["worker"] \in {"publish", "killed"}, pc'["worker"] = "done"
  PROVE  Interrupted'
<1>. USE DEF Goto, Actors, IInv, TypeOK
<1>1. CASE User \/ Enqueue \/ WorkerStep \/ DeleteStep \/ Kill
  BY <1>1
     DEF User, CreateJob, StartDelete, StartPatch, Enqueue, Kill, DeleteStep, Revoke, Remove,
         Announce, Load, WorkerStep, PickUp, MarkStarted, Stage, CheckBeforeStage,
         EnsureActive, CommitStatus, RefreshStatus, Stamp, Work, CloneRepository,
         CheckAfterClone, UpdateCloneMetadata, RefreshCloned, Analyze, CheckAfterIndex,
         PersistPreAgentReport, JudgeBatch, JudgedAll, PersistFinalReport,
         CheckAfterReview, RequireAiGeneratedReport, Raise, Escape, TrySteps, RecheckJob,
         MarkFailed
<1>2. ASSUME NEW p \in Patches, PatchStep(p) PROVE FALSE
  BY <1>2, ConstantsAssumption
     DEF PatchStep, UpdateStatus, RefreshPatched, Announce, Load, Stamp, Abandon
<1>3. ASSUME NEW a \in Actors, DropEvent(a) PROVE Interrupted'
  <2>1. drops' = drops + 1 /\ drops \in Nat /\ crashes' = crashes /\ crashes \in Nat
    BY <1>3, ConstantsAssumption DEF DropEvent
  <2>. QED BY <2>1 DEF Interrupted
<1>4. ASSUME NEW a \in Actors, Crash(a) PROVE FALSE
  BY <1>4 DEF Crash
<1>. QED BY <1>1, <1>2, <1>3, <1>4 DEF Elsewhere

(***************************************************************************)
(* Every step preserves that an opening stream will read the outcome.      *)
(***************************************************************************)
LEMMA DeliveryStep ==
  IInv /\ StreamTypeOK /\ KindInv /\ OutcomeInv /\ DeliveryInv /\
  [StreamNext]_streamVars
    => DeliveryInv'
<1>. SUFFICES ASSUME IInv, StreamTypeOK, KindInv, OutcomeInv, DeliveryInv,
                     [StreamNext]_streamVars
              PROVE  DeliveryInv'
  OBVIOUS
<1>. DEFINE Delivered ==
       /\ snapshot' # NoEvent => IsTerminal(snapshot')
       /\ \A c \in Clients : stream'[c] \in {"authorized", "subscribed"} =>
            snapshot' # NoEvent \/ IsTerminal(fallback'[c])
<1>. SUFFICES ASSUME row'.exists, Unpatched', ~Interrupted', told' # "none"
              PROVE  Delivered
  BY DEF DeliveryInv, IsTerminal
<1>a. Unpatched /\ (row.exists \/ pc["worker"] = "new")
  BY StreamStepIsJobStep, SameReview
<1>b. pc["worker"] = "new" => ~row.exists /\ told = "none"
  BY DEF IInv, ExistsInv
<1>c. ~Interrupted
  BY StreamStepIsJobStep, BoundsGrow DEF IInv
<1>d. told # "none" => row.exists
  BY <1>a, <1>b
<1>1. CASE Elsewhere
  <2>1. UNCHANGED <<snapshot, stream, fallback>> /\ told' = told
    BY <1>1, ElsewhereTellsNothing DEF Elsewhere, clients
  <2>. QED BY <1>a, <1>c, <1>d, <2>1 DEF DeliveryInv
<1>2. CASE Expire
  <2>1. /\ UNCHANGED <<told, stream>> /\ snapshot' = NoEvent
        /\ \A c \in Clients : stream[c] \notin {"authorized", "subscribed"}
    BY <1>2 DEF Expire, clients, vars
  <2>. QED BY <2>1
<1>3. ASSUME NEW a \in Actors, StoreSnapshot(a) PROVE Delivered
  <2>1. /\ UNCHANGED <<row, stream>> /\ snapshot' = event[a]
        /\ told' = IF event[a].status \in Terminal THEN event[a].status ELSE told
        /\ pc[a] = "set"
    BY <1>3 DEF StoreSnapshot, SetSnapshot, clients, db
  <2>2. row.exists /\ a = "worker"
    BY <1>a, <2>1 DEF IInv, ExistsInv, Announcing, Actors, Unpatched
  <2>3. told = "none"
    BY <1>a, <2>1, <2>2 DEF OutcomeInv
  <2>4. event[a] \in Event /\ IsTerminal(event[a])
    BY <2>1, <2>3 DEF KindInv, IInv, TypeOK
  <2>. QED BY <2>1, <2>4, StreamAssumption
<1>4. ASSUME NEW a \in Actors, Deliver(a) PROVE Delivered
  <2>1. UNCHANGED <<told, snapshot, stream, fallback>>
    BY <1>4 DEF Deliver, PublishEvent
  <2>. QED BY <1>a, <1>c, <1>d, <2>1 DEF DeliveryInv
<1>5. ASSUME NEW c \in Clients, Connect(c) PROVE Delivered
  <2>1. UNCHANGED <<told, snapshot>>
    BY <1>5 DEF Connect, vars
  <2>2. row.exists /\ row.status = told /\ told \in Terminal
    BY <1>a, <1>d, <2>1 DEF OutcomeInv, IInv, TypeOK
  <2>3. IsTerminal(fallback'[c])
    BY <1>5, <2>2, KindOfStatus DEF Connect, StreamTypeOK
  <2>4. \A d \in Clients \ {c} : stream'[d] = stream[d] /\ fallback'[d] = fallback[d]
    BY <1>5 DEF Connect, Move, StreamTypeOK
  <2>. QED BY <1>a, <1>c, <2>1, <2>2, <2>3, <2>4 DEF DeliveryInv
<1>6. ASSUME NEW c \in Clients, Subscribe(c) PROVE Delivered
  <2>1. UNCHANGED <<told, snapshot, fallback>>
    BY <1>6 DEF Subscribe, vars
  <2>2. \A d \in Clients : stream'[d] \in {"authorized", "subscribed"}
                            => stream[d] \in {"authorized", "subscribed"}
    BY <1>6 DEF Subscribe, Move, StreamTypeOK
  <2>. QED BY <1>a, <1>c, <1>d, <2>1, <2>2 DEF DeliveryInv
<1>7. ASSUME NEW c \in Clients, ReadSnapshot(c) PROVE Delivered
  <2>1. UNCHANGED <<told, snapshot>>
    BY <1>7 DEF ReadSnapshot, vars
  <2>2. \A d \in Clients : stream'[d] \in {"authorized", "subscribed"}
                            => stream'[d] = stream[d] /\ fallback'[d] = fallback[d]
    BY <1>7 DEF ReadSnapshot, Show, Move, StreamTypeOK
  <2>. QED BY <1>a, <1>c, <1>d, <2>1, <2>2 DEF DeliveryInv
<1>8. ASSUME NEW c \in Clients, Receive(c) PROVE Delivered
  <2>1. UNCHANGED <<told, snapshot>>
    BY <1>8 DEF Receive, vars
  <2>2. \A d \in Clients : stream'[d] \in {"authorized", "subscribed"}
                            => stream'[d] = stream[d] /\ fallback'[d] = fallback[d]
    BY <1>8 DEF Receive, Show, Move, StreamTypeOK
  <2>. QED BY <1>a, <1>c, <1>d, <2>1, <2>2 DEF DeliveryInv
<1>9. ASSUME NEW c \in Clients, Disconnect(c) PROVE Delivered
  <2>1. UNCHANGED <<told, snapshot>>
    BY <1>9 DEF Disconnect, vars
  <2>2. \A d \in Clients : stream'[d] \in {"authorized", "subscribed"}
                            => stream'[d] = stream[d] /\ fallback'[d] = fallback[d]
    BY <1>9 DEF Disconnect, Move, StreamTypeOK
  <2>. QED BY <1>a, <1>c, <1>d, <2>1, <2>2 DEF DeliveryInv
<1>10. CASE UNCHANGED streamVars
  BY <1>a, <1>c, <1>d, <1>10 DEF DeliveryInv, streamVars, clients, vars
<1>. QED
  BY <1>1, <1>2, <1>3, <1>4, <1>5, <1>6, <1>7, <1>8, <1>9, <1>10 DEF StreamNext,
     ClientStep

(***************************************************************************)
(* Every step preserves that open streams have the outcome buffered.       *)
(***************************************************************************)
LEMMA MissStep ==
  IInv /\ StreamTypeOK /\ KindInv /\ OutcomeInv /\ DeliveryInv /\ NoMissedOutcome /\
  [StreamNext]_streamVars
    => NoMissedOutcome'
<1>. SUFFICES ASSUME IInv, StreamTypeOK, KindInv, OutcomeInv, DeliveryInv,
                     NoMissedOutcome, [StreamNext]_streamVars
              PROVE  NoMissedOutcome'
  OBVIOUS
<1>. DEFINE Buffered ==
       \A c \in Clients : stream'[c] = "streaming" =>
         \E i \in 1..Len(inbox'[c]) : IsTerminal(inbox'[c][i])
<1>. SUFFICES ASSUME row'.exists, Unpatched', ~Interrupted', told' # "none",
                     pc'["worker"] = "done"
              PROVE  Buffered
  BY DEF NoMissedOutcome, IsTerminal
<1>a. Unpatched /\ (row.exists \/ pc["worker"] = "new")
  BY StreamStepIsJobStep, SameReview
<1>b. pc["worker"] = "new" => ~row.exists /\ told = "none"
  BY DEF IInv, ExistsInv
<1>c. ~Interrupted
  BY StreamStepIsJobStep, BoundsGrow DEF IInv
<1>d. told # "none" => row.exists
  BY <1>a, <1>b
<1>1. CASE Elsewhere
  <2>1. UNCHANGED <<stream, inbox>> /\ told' = told
    BY <1>1, ElsewhereTellsNothing DEF Elsewhere, clients
  <2>2. pc["worker"] = "done"
    BY <1>a, <1>d, <1>1, <2>1, DoneElsewhere DEF OutcomeInv
  <2>. QED BY <1>a, <1>c, <1>d, <2>1, <2>2 DEF NoMissedOutcome
<1>2. CASE Expire
  BY <1>a, <1>c, <1>d, <1>2 DEF Expire, NoMissedOutcome, clients, vars
<1>3. ASSUME NEW a \in Actors, StoreSnapshot(a) PROVE Buffered
  <2>1. pc[a] = "set" /\ pc' = [pc EXCEPT ![a] = "publish"] /\ row' = row
    BY <1>3 DEF StoreSnapshot, SetSnapshot, Goto, db
  <2>. QED BY <1>a, <2>1 DEF IInv, TypeOK, ExistsInv, Announcing, Actors, Unpatched
<1>4. ASSUME NEW a \in Actors, Deliver(a) PROVE Buffered
  <2>1. /\ UNCHANGED <<row, told, stream>> /\ pc[a] = "publish"
        /\ inbox' = [c \in Clients |-> IF stream[c] \in Subscribed
                                       THEN Append(inbox[c], event[a]) ELSE inbox[c]]
    BY <1>4 DEF Deliver, PublishEvent, db
  <2>2. row.exists /\ a = "worker"
    BY <1>a, <2>1 DEF IInv, ExistsInv, Announcing, Actors, Unpatched
  <2>3. IsTerminal(event[a])
    <3>1. event[a].status = told /\ told \in Terminal
      BY <1>a, <2>1, <2>2 DEF OutcomeInv, IInv, TypeOK
    <3>. QED BY <3>1 DEF KindInv
  <2>4. ASSUME NEW c \in Clients, stream'[c] = "streaming"
        PROVE  \E i \in 1..Len(inbox'[c]) : IsTerminal(inbox'[c][i])
    <3>1. inbox[c] \in Seq(Event) /\ event[a] \in Event
      BY DEF StreamTypeOK, IInv, TypeOK
    <3>2. inbox'[c] = Append(inbox[c], event[a])
      BY <2>1, <2>4 DEF Subscribed
    <3>3. Len(inbox[c]) + 1 \in 1..Len(inbox'[c]) /\ inbox'[c][Len(inbox[c]) + 1] = event[a]
      BY <3>1, <3>2
    <3>. QED BY <2>3, <3>3
  <2>. QED BY <2>4
<1>5. ASSUME NEW c \in Clients, Connect(c) PROVE Buffered
  <2>1. UNCHANGED <<told, pc>>
    BY <1>5 DEF Connect, vars
  <2>2. \A d \in Clients : stream'[d] = "streaming" => stream[d] = "streaming" /\ inbox'[d] = inbox[d]
    BY <1>5 DEF Connect, Move, StreamTypeOK
  <2>. QED BY <1>a, <1>c, <1>d, <2>1, <2>2 DEF NoMissedOutcome
<1>6. ASSUME NEW c \in Clients, Subscribe(c) PROVE Buffered
  <2>1. UNCHANGED <<told, pc>>
    BY <1>6 DEF Subscribe, vars
  <2>2. \A d \in Clients : stream'[d] = "streaming" => stream[d] = "streaming" /\ inbox'[d] = inbox[d]
    BY <1>6 DEF Subscribe, Move, StreamTypeOK
  <2>. QED BY <1>a, <1>c, <1>d, <2>1, <2>2 DEF NoMissedOutcome
<1>7. ASSUME NEW c \in Clients, ReadSnapshot(c) PROVE Buffered
  <2>1. UNCHANGED <<told, pc>> /\ stream[c] = "subscribed"
    BY <1>7 DEF ReadSnapshot, vars
  <2>2. /\ snapshot # NoEvent => IsTerminal(snapshot)
        /\ snapshot = NoEvent => IsTerminal(fallback[c])
    BY <1>a, <1>c, <1>d, <2>1 DEF DeliveryInv
  <2>3. /\ stream'[c] # "streaming"
        /\ \A d \in Clients \ {c} : stream'[d] = stream[d] /\ inbox'[d] = inbox[d]
    <3>1. CASE snapshot # NoEvent
      <4>1. Show(c, snapshot, inbox[c], "closed")
        BY <1>7, <3>1 DEF ReadSnapshot
      <4>. QED BY <2>2, <3>1, <4>1, ShowEffect
    <3>2. CASE snapshot = NoEvent
      <4>1. Show(c, fallback[c], inbox[c], "answered")
        BY <1>7, <3>2 DEF ReadSnapshot
      <4>. QED BY <2>2, <3>2, <4>1, ShowEffect
    <3>. QED BY <3>1, <3>2
  <2>. QED BY <1>a, <1>c, <1>d, <2>1, <2>3 DEF NoMissedOutcome
<1>8. ASSUME NEW c \in Clients, Receive(c) PROVE Buffered
  <2>1. /\ UNCHANGED <<told, pc>> /\ stream[c] = "streaming"
        /\ inbox[c] \in Seq(Event) /\ inbox[c] # <<>>
        /\ Show(c, Head(inbox[c]), Tail(inbox[c]), "closed")
    BY <1>8 DEF Receive, vars, StreamTypeOK
  <2>2. ASSUME NEW d \in Clients, stream'[d] = "streaming"
        PROVE  \E i \in 1..Len(inbox'[d]) : IsTerminal(inbox'[d][i])
    <3>1. CASE d # c
      BY <1>a, <1>c, <1>d, <2>1, <2>2, <3>1, ShowEffect DEF NoMissedOutcome
    <3>2. CASE d = c
      <4>1. ~IsTerminal(Head(inbox[c])) /\ inbox'[c] = Tail(inbox[c])
        BY <2>1, <2>2, <3>2, ShowEffect
      <4>2. PICK i \in 1..Len(inbox[c]) : IsTerminal(inbox[c][i])
        BY <1>a, <1>c, <1>d, <2>1 DEF NoMissedOutcome
      <4>3. i # 1
        BY <2>1, <4>1, <4>2, TailOfInbox
      <4>4. i - 1 \in 1..Len(Tail(inbox[c])) /\ Tail(inbox[c])[i - 1] = inbox[c][i]
        BY <2>1, <4>3, TailOfInbox
      <4>. QED BY <3>2, <4>1, <4>2, <4>4
    <3>. QED BY <3>1, <3>2
  <2>. QED BY <2>2
<1>9. ASSUME NEW c \in Clients, Disconnect(c) PROVE Buffered
  <2>1. UNCHANGED <<told, pc>>
    BY <1>9 DEF Disconnect, vars
  <2>2. \A d \in Clients : stream'[d] = "streaming" => stream[d] = "streaming" /\ inbox'[d] = inbox[d]
    BY <1>9 DEF Disconnect, Move, StreamTypeOK
  <2>. QED BY <1>a, <1>c, <1>d, <2>1, <2>2 DEF NoMissedOutcome
<1>10. CASE UNCHANGED streamVars
  BY <1>a, <1>c, <1>d, <1>10 DEF NoMissedOutcome, streamVars, clients, vars
<1>. QED
  BY <1>1, <1>2, <1>3, <1>4, <1>5, <1>6, <1>7, <1>8, <1>9, <1>10 DEF StreamNext,
     ClientStep

(***************************************************************************)
(* Before the job is created there are no streams.                         *)
(***************************************************************************)
LEMMA StreamInvInit == StreamInit => StreamInv
<1>. SUFFICES ASSUME StreamInit PROVE StreamInv
  OBVIOUS
<1>. USE DEF StreamInit
<1>1. StreamTypeOK
  <2>1. <<>> \in Seq(Event)
    OBVIOUS
  <2>. QED BY <2>1 DEF StreamTypeOK
<1>2. KindInv
  BY KindOfStatus DEF Init, KindInv
<1>3. NoStreamYet /\ FallbackInv
  BY DEF NoStreamYet, FallbackInv
<1>4. OutcomeInv /\ TruthInv /\ DeliveryInv /\ NoMissedOutcome
  BY DEF Init, OutcomeInv, TruthInv, DeliveryInv, NoMissedOutcome
<1>. QED BY <1>1, <1>2, <1>3, <1>4 DEF StreamInv

(***************************************************************************)
(* The stream invariant is inductive, given that of the review.            *)
(***************************************************************************)
LEMMA StreamInvStep == IInv /\ StreamInv /\ [StreamNext]_streamVars => StreamInv'
<1>. SUFFICES ASSUME IInv, StreamInv, [StreamNext]_streamVars PROVE StreamInv'
  OBVIOUS
<1>1. [Next]_vars /\ TypeOK
  BY StreamStepIsJobStep DEF IInv
<1>2. StreamTypeOK' /\ KindInv' /\ NoStreamYet' /\ FallbackInv' /\ OutcomeInv'
  BY <1>1, StreamTypeStep, KindStep, NoStreamStep, FallbackStep, OutcomeInvStep DEF StreamInv
<1>3. TruthInv' /\ DeliveryInv' /\ NoMissedOutcome'
  BY TruthStep, DeliveryStep, MissStep DEF StreamInv
<1>. QED BY <1>2, <1>3 DEF StreamInv

(***************************************************************************)
(* The reviews that clients watch are those of ReviewJob: streams do not   *)
(* change what the job, its worker and its announcements can do.           *)
(***************************************************************************)
THEOREM StreamImplementsJob == StreamSpec => Spec
<1>1. StreamInit => Init
  BY DEF StreamInit
<1>. QED BY <1>1, StreamStepIsJobStep, PTL DEF StreamSpec, Spec

(***************************************************************************)
(* Every reachable state of the streams satisfies both invariants.         *)
(***************************************************************************)
THEOREM StreamInvAlways == StreamSpec => [](IInv /\ StreamInv)
<1>1. StreamSpec => []IInv
  BY StreamImplementsJob, IInvAlways, PTL
<1>. QED BY <1>1, StreamInvInit, StreamInvStep, PTL DEF StreamSpec

(***************************************************************************)
(* Snapshots, fallbacks, buffered messages and outcomes are events.        *)
(***************************************************************************)
THEOREM StreamTypeCorrect == StreamSpec => []StreamTypeOK
<1>1. StreamInv => StreamTypeOK
  BY DEF StreamInv
<1>. QED BY <1>1, StreamInvAlways, PTL

(***************************************************************************)
(* However an announcement interleaves with a stream's opening, the stream *)
(* does not miss the outcome (stream_job_progress).                        *)
(***************************************************************************)
THEOREM NoMissedCorrect == StreamSpec => []NoMissedOutcome
<1>1. StreamInv => NoMissedOutcome
  BY DEF StreamInv
<1>. QED BY <1>1, StreamInvAlways, PTL

(***************************************************************************)
(* A stream that an announcement closed told its client what the database  *)
(* says, and goes on saying.                                               *)
(***************************************************************************)
THEOREM TruthCorrect == StreamSpec => []ToldTheTruth
<1>1. IInv /\ StreamInv => ToldTheTruth
  BY DEF StreamInv, TruthInv, OutcomeInv, ToldTheTruth
<1>. QED BY <1>1, StreamInvAlways, PTL

(***************************************************************************)
(* Only a snapshot changes the outcome told.                               *)
(***************************************************************************)
LEMMA ToldWriters ==
  ASSUME [Next]_vars
  PROVE  told' = told \/ \E a \in Actors : SetSnapshot(a)
BY DEF Next, JobStep, User, WorkerStep, Stage, Work, DeleteStep, PatchStep, vars, bounds,
       PublishEvent, DropEvent, Enqueue, CreateJob, MarkFailed, UpdateCloneMetadata,
       StartDelete, Revoke, Remove, StartPatch, RefreshPatched, UpdateStatus, Abandon,
       Stamp, PickUp, MarkStarted, CheckBeforeStage, CheckAfterClone, CheckAfterIndex,
       CheckAfterReview, EnsureActive, CommitStatus, RefreshStatus, CloneRepository,
       RefreshCloned, Analyze, PersistPreAgentReport, PersistFinalReport, JudgeBatch,
       JudgedAll, RequireAiGeneratedReport, Raise, Escape, RecheckJob, Kill, Crash

(***************************************************************************)
(* Before the job is created nothing else happens.                         *)
(***************************************************************************)
LEMMA CreationFirst ==
  ASSUME IInv, [Next]_vars, pc["worker"] = "new"
  PROVE  CreateJob \/ pc'["worker"] = "new"
<1>1. ~row.exists /\ revoked \in BOOLEAN /\ \A a \in Actors : pc[a] = "new"
  BY DEF IInv, TypeOK, ExistsInv
<1>2. \A p \in Patches : p \in Actors
  BY DEF Actors
<1>3. "worker" \in Actors /\ "delete" \in Actors
  BY DEF Actors
<1>. QED
  BY <1>1, <1>2, <1>3
     DEF Next, JobStep, User, WorkerStep, Stage, Work, DeleteStep, PatchStep, vars, bounds,
         PublishEvent, DropEvent, Enqueue, CreateJob, MarkFailed, UpdateCloneMetadata,
         StartDelete, Revoke, Remove, StartPatch, RefreshPatched, UpdateStatus, Abandon,
         Stamp, PickUp, MarkStarted, CheckBeforeStage, CheckAfterClone, CheckAfterIndex,
         CheckAfterReview, EnsureActive, CommitStatus, RefreshStatus, CloneRepository,
         RefreshCloned, Analyze, PersistPreAgentReport, PersistFinalReport, JudgeBatch,
         JudgedAll, RequireAiGeneratedReport, Raise, Escape, RecheckJob, Kill, Crash,
         SetSnapshot, TrySteps, WorkerRunning, RequestRunning, Announcing

(***************************************************************************)
(* Without status requests each step of the review is one of               *)
(* ReviewLifecycle, or none.                                               *)
(***************************************************************************)
LEMMA LifecycleStep ==
  ASSUME Patches = {}, IInv, KindInv, OutcomeInv, [Next]_vars
  PROVE  [Lifecycle!Next]_<<JobStatus, pc["worker"] # "new", told>>
<1>. DEFINE created == pc["worker"] # "new"
            Same == JobStatus' = JobStatus /\ created' = created
<1>1. Unpatched
  BY DEF Unpatched
<1>2. NoEvent \notin ReviewJobStatus
  BY StreamAssumption
<1>3. created => created'
  BY NeverNewAgain DEF IInv, StillBegun, Actors
<1>4. CASE CreateJob
  <2>1. ~created /\ created' /\ JobStatus' = "PENDING" /\ told' = told
    BY <1>4 DEF CreateJob, Goto, JobStatus, IInv, TypeOK, Row, ExistsInv, Actors
  <2>. QED BY <2>1 DEF Lifecycle!Next, Lifecycle!Create
<1>5. CASE CommitStatus
  <2>1. stage \in Stages /\ row.status = stage /\ mem["worker"] = stage /\ told = "none"
    BY <1>1, <1>5
       DEF CommitStatus, IInv, TypeOK, ShapeInv, StatusInv, OutcomeInv, TrySteps, Announcing
  <2>2. JobStatus = stage /\ JobStatus' = After(stage)
    BY <1>5, <2>1, AfterStage DEF CommitStatus, JobStatus, Flush, IInv, TypeOK, Row
  <2>3. created /\ created' /\ told' = told
    BY <1>3, <1>5 DEF CommitStatus
  <2>. QED BY <2>1, <2>2, <2>3 DEF Lifecycle!Next, Lifecycle!Advance
<1>6. CASE MarkFailed /\ row.exists
  <2>1. JobStatus # NoEvent /\ JobStatus' = "FAILED"
    BY <1>2, <1>6 DEF MarkFailed, JobStatus, IInv, TypeOK, Row
  <2>2. told = "none" /\ created /\ created' /\ told' = told
    BY <1>1, <1>3, <1>6 DEF MarkFailed, OutcomeInv
  <2>. QED BY <2>1, <2>2 DEF Lifecycle!Next, Lifecycle!Fail
<1>7. CASE Remove
  <2>1. created /\ created' /\ told' = told
    BY <1>3, <1>7 DEF Remove, IInv, ExistsInv, Actors
  <2>2. JobStatus' = NoEvent
    BY <1>7 DEF Remove, JobStatus
  <2>. QED BY <2>1, <2>2 DEF Lifecycle!Next, Lifecycle!Delete
<1>8. CASE UNCHANGED <<row, history>> \/ UpdateCloneMetadata \/ (MarkFailed /\ ~row.exists)
  <2>1. CASE CreateJob
    BY <1>4, <2>1
  <2>2. CASE ~CreateJob
    <3>1. JobStatus' = JobStatus
      BY <1>8 DEF JobStatus, UpdateCloneMetadata, MarkFailed, IInv, TypeOK, Row
    <3>2. created' = created
      BY <1>3, <2>2, CreationFirst
    <3>3. CASE told' = told
      BY <3>1, <3>2, <3>3
    <3>4. ASSUME NEW a \in Actors, SetSnapshot(a), told' # told
          PROVE  Lifecycle!Announce
      <4>1. pc[a] = "set" /\ told' \in Terminal /\ event[a].status = told' /\ row' = row
        BY <3>4 DEF SetSnapshot, db
      <4>2. created
        BY <4>1 DEF IInv, ExistsInv
      <4>3. JobStatus \in {told', NoEvent}
        <5>1. CASE a = "worker" /\ row.exists
          <6>1. event["worker"].status \in Terminal => row.status = event["worker"].status
            BY <1>1, <4>1, <5>1
               DEF IInv, TypeOK, ShapeInv, StatusInv, MidStage, Announcing, Terminal, Worked
          <6>. QED BY <4>1, <5>1, <6>1 DEF JobStatus
        <5>2. CASE ~row.exists
          BY <5>2 DEF JobStatus
        <5>3. CASE a = "delete"
          BY <4>1, <5>3 DEF IInv, ExistsInv, Announcing, JobStatus
        <5>. QED BY <5>1, <5>2, <5>3 DEF Actors
      <4>. QED BY <3>1, <3>2, <4>1, <4>2, <4>3
              DEF Lifecycle!Announce, Lifecycle!Outcomes, Terminal
    <3>. QED BY <3>3, <3>4, ToldWriters DEF Lifecycle!Next
  <2>. QED BY <2>1, <2>2
<1>9. \/ UNCHANGED <<row, history>>
      \/ CreateJob \/ Remove \/ CommitStatus \/ UpdateCloneMetadata \/ MarkFailed
  BY RowWriters
<1>. QED BY <1>4, <1>5, <1>6, <1>7, <1>8, <1>9

(***************************************************************************)
(* Without status requests a review, as stored and announced, keeps        *)
(* ReviewLifecycle: the stages in their order, none skipped, no outcome    *)
(* taken back.                                                             *)
(***************************************************************************)
THEOREM LifecycleCorrect ==
  ASSUME Patches = {}
  PROVE  StreamSpec => KeepsLifecycle
<1>1. StreamInit => Lifecycle!Init
  BY DEF StreamInit, Init, Lifecycle!Init, JobStatus, Actors
<1>2. IInv /\ StreamInv /\ [StreamNext]_streamVars => [Lifecycle!Next]_(Lifecycle!vars)
  BY StreamStepIsJobStep, LifecycleStep DEF StreamInv, Lifecycle!vars
<1>. QED
  BY <1>1, <1>2, StreamInvAlways, PTL DEF StreamSpec, KeepsLifecycle, Lifecycle!Spec

=============================================================================
