-------------------------- MODULE FixPublishProofs --------------------------
(***************************************************************************)
(* Proofs about FixPublish, for any set of requests and any bound on       *)
(* crashes.                                                                *)
(***************************************************************************)
EXTENDS FixPublish, TLAPS

(***************************************************************************)
(* Every step preserves the type invariant.                                *)
(***************************************************************************)
LEMMA TypeStep == TypeOK /\ [Next]_vars => TypeOK'
<1>. SUFFICES ASSUME TypeOK, [Next]_vars PROVE TypeOK'
  OBVIOUS
<1>. USE DEF TypeOK, Row, Snapshot, JobStatus, PublishStatus, AuditAction,
       Step, Running, ApiSteps, TrySteps, FailureSteps
<1>1. ASSUME NEW r \in Requests, PublishFix(r) PROVE TypeOK'
  BY <1>1, ConstantsAssumption DEF PublishFix, IsPublishIdempotent,
         EnsurePublishable, PersistPublishRequest, Log, Goto, remote
<1>2. ASSUME NEW r \in Requests, RetryPublish(r) PROVE TypeOK'
  BY <1>2, ConstantsAssumption DEF RetryPublish, IsPublishIdempotent,
         EnsurePublishable, PersistPublishRequest, Log, Goto, remote
<1>3. CASE CancelPublish
  BY <1>3, ConstantsAssumption DEF CancelPublish, Log, remote
<1>4. CASE DeleteReview
  BY <1>4, ConstantsAssumption DEF DeleteReview, remote
<1>5. ASSUME NEW r \in Requests, Enqueue(r) PROVE TypeOK'
  BY <1>5, ConstantsAssumption DEF Enqueue, Load, Goto, remote
<1>6. ASSUME NEW r \in Requests, PersistUnsent(r) PROVE TypeOK'
  BY <1>6, ConstantsAssumption DEF PersistUnsent, Flush, Log, Goto, remote
<1>7. ASSUME NEW r \in Requests, Pick(r) PROVE TypeOK'
  BY <1>7, ConstantsAssumption DEF Pick, Load, Goto, remote
<1>8. ASSUME NEW r \in Requests, MarkPublishStarted(r) PROVE TypeOK'
  BY <1>8, ConstantsAssumption DEF MarkPublishStarted, Flush, Goto, remote
<1>9. ASSUME NEW r \in Requests, CheckBase(r) PROVE TypeOK'
  BY <1>9, ConstantsAssumption DEF CheckBase, Goto, remote
<1>10. ASSUME NEW r \in Requests, MarkStaleBase(r) PROVE TypeOK'
  BY <1>10, ConstantsAssumption DEF MarkStaleBase, Flush, Goto, remote
<1>11. ASSUME NEW r \in Requests, LogStaleBase(r) PROVE TypeOK'
  BY <1>11, ConstantsAssumption DEF LogStaleBase, Log, Goto, remote
<1>12. ASSUME NEW r \in Requests, PrepareWorkspace(r) PROVE TypeOK'
  BY <1>12, ConstantsAssumption DEF PrepareWorkspace, Goto, remote
<1>13. ASSUME NEW r \in Requests, CreateCommit(r) PROVE TypeOK'
  BY <1>13, ConstantsAssumption DEF CreateCommit, Goto, remote
<1>14. ASSUME NEW r \in Requests, CheckBeforePush(r) PROVE TypeOK'
  BY <1>14, ConstantsAssumption DEF CheckBeforePush, EnsureNotCanceled, Goto,
         remote
<1>15. ASSUME NEW r \in Requests, PushBranch(r) PROVE TypeOK'
  BY <1>15, ConstantsAssumption DEF PushBranch, Goto
<1>16. ASSUME NEW r \in Requests, LogPush(r) PROVE TypeOK'
  BY <1>16, ConstantsAssumption DEF LogPush, Log, Goto, remote
<1>17. ASSUME NEW r \in Requests, CheckBeforePr(r) PROVE TypeOK'
  BY <1>17, ConstantsAssumption DEF CheckBeforePr, EnsureNotCanceled, Goto,
         remote
<1>18. ASSUME NEW r \in Requests, CreatePullRequest(r) PROVE TypeOK'
  BY <1>18, ConstantsAssumption DEF CreatePullRequest, Goto
<1>19. ASSUME NEW r \in Requests, LogPr(r) PROVE TypeOK'
  BY <1>19, ConstantsAssumption DEF LogPr, Log, Goto, remote
<1>20. ASSUME NEW r \in Requests, MarkPublishSucceeded(r) PROVE TypeOK'
  BY <1>20, ConstantsAssumption DEF MarkPublishSucceeded, Flush, Goto, remote
<1>21. ASSUME NEW r \in Requests, Finish(r) PROVE TypeOK'
  BY <1>21, ConstantsAssumption DEF Finish, Goto, remote
<1>22. ASSUME NEW r \in Requests, Raise(r) PROVE TypeOK'
  BY <1>22, ConstantsAssumption DEF Raise, Goto, remote
<1>23. ASSUME NEW r \in Requests, Reload(r) PROVE TypeOK'
  BY <1>23, ConstantsAssumption DEF Reload, Load, Goto, remote
<1>24. ASSUME NEW r \in Requests, MarkPublishFailed(r) PROVE TypeOK'
  BY <1>24, ConstantsAssumption DEF MarkPublishFailed, Flush, Goto, remote
<1>25. ASSUME NEW r \in Requests, LogFailure(r) PROVE TypeOK'
  BY <1>25, ConstantsAssumption DEF LogFailure, Log, Goto, remote
<1>26. ASSUME NEW r \in Requests, Crash(r) PROVE TypeOK'
  BY <1>26, ConstantsAssumption DEF Crash, Goto, remote
<1>27. CASE MoveBase
  BY <1>27, ConstantsAssumption DEF MoveBase, remote
<1>28. CASE UNCHANGED vars
  BY <1>28 DEF vars
<1>. QED
  BY <1>1, <1>2, <1>3, <1>4, <1>5, <1>6, <1>7, <1>8, <1>9, <1>10, <1>11,
         <1>12, <1>13, <1>14, <1>15, <1>16, <1>17, <1>18, <1>19, <1>20, <1>21,
         <1>22, <1>23, <1>24, <1>25, <1>26, <1>27, <1>28 DEF Next, User,
         ApiStep, WorkerStep

(***************************************************************************)
(* Every step preserves the audit trail's lead over the effects it         *)
(* accounts for.                                                           *)
(***************************************************************************)
LEMMA TrailStep == TypeOK /\ TrailInv /\ [Next]_vars => TrailInv'
<1>. SUFFICES ASSUME TypeOK /\ TrailInv, [Next]_vars PROVE TrailInv'
  OBVIOUS
<1>. USE DEF TypeOK, TrailInv, TrailPrecedesEffects, Approved
<1>1. ASSUME NEW r \in Requests, PublishFix(r) PROVE TrailInv'
  BY <1>1, ConstantsAssumption DEF PublishFix, IsPublishIdempotent,
         EnsurePublishable, PersistPublishRequest, Log, Goto, remote
<1>2. ASSUME NEW r \in Requests, RetryPublish(r) PROVE TrailInv'
  BY <1>2, ConstantsAssumption DEF RetryPublish, IsPublishIdempotent,
         EnsurePublishable, PersistPublishRequest, Log, Goto, remote
<1>3. CASE CancelPublish
  BY <1>3, ConstantsAssumption DEF CancelPublish, Log, remote
<1>4. CASE DeleteReview
  BY <1>4, ConstantsAssumption DEF DeleteReview, remote
<1>5. ASSUME NEW r \in Requests, Enqueue(r) PROVE TrailInv'
  BY <1>5, ConstantsAssumption, SMTT(30) DEF Enqueue, Load, Goto, remote
<1>6. ASSUME NEW r \in Requests, PersistUnsent(r) PROVE TrailInv'
  BY <1>6, ConstantsAssumption DEF PersistUnsent, Flush, Log, Goto, remote
<1>7. ASSUME NEW r \in Requests, Pick(r) PROVE TrailInv'
  BY <1>7, ConstantsAssumption DEF Pick, Load, Goto, remote
<1>8. ASSUME NEW r \in Requests, MarkPublishStarted(r) PROVE TrailInv'
  BY <1>8, ConstantsAssumption DEF MarkPublishStarted, Flush, Goto, remote
<1>9. ASSUME NEW r \in Requests, CheckBase(r) PROVE TrailInv'
  BY <1>9, ConstantsAssumption DEF CheckBase, Goto, remote
<1>10. ASSUME NEW r \in Requests, MarkStaleBase(r) PROVE TrailInv'
  BY <1>10, ConstantsAssumption DEF MarkStaleBase, Flush, Goto, remote
<1>11. ASSUME NEW r \in Requests, LogStaleBase(r) PROVE TrailInv'
  BY <1>11, ConstantsAssumption DEF LogStaleBase, Log, Goto, remote
<1>12. ASSUME NEW r \in Requests, PrepareWorkspace(r) PROVE TrailInv'
  BY <1>12, ConstantsAssumption DEF PrepareWorkspace, Goto, remote
<1>13. ASSUME NEW r \in Requests, CreateCommit(r) PROVE TrailInv'
  BY <1>13, ConstantsAssumption DEF CreateCommit, Goto, remote
<1>14. ASSUME NEW r \in Requests, CheckBeforePush(r) PROVE TrailInv'
  BY <1>14, ConstantsAssumption DEF CheckBeforePush, EnsureNotCanceled, Goto,
         remote
<1>15. ASSUME NEW r \in Requests, PushBranch(r) PROVE TrailInv'
  BY <1>15, ConstantsAssumption DEF PushBranch, Goto
<1>16. ASSUME NEW r \in Requests, LogPush(r) PROVE TrailInv'
  BY <1>16, ConstantsAssumption DEF LogPush, Log, Goto, remote
<1>17. ASSUME NEW r \in Requests, CheckBeforePr(r) PROVE TrailInv'
  BY <1>17, ConstantsAssumption DEF CheckBeforePr, EnsureNotCanceled, Goto,
         remote
<1>18. ASSUME NEW r \in Requests, CreatePullRequest(r) PROVE TrailInv'
  BY <1>18, ConstantsAssumption DEF CreatePullRequest, Goto
<1>19. ASSUME NEW r \in Requests, LogPr(r) PROVE TrailInv'
  BY <1>19, ConstantsAssumption DEF LogPr, Log, Goto, remote
<1>20. ASSUME NEW r \in Requests, MarkPublishSucceeded(r) PROVE TrailInv'
  BY <1>20, ConstantsAssumption DEF MarkPublishSucceeded, Flush, Goto, remote
<1>21. ASSUME NEW r \in Requests, Finish(r) PROVE TrailInv'
  BY <1>21, ConstantsAssumption DEF Finish, Goto, remote
<1>22. ASSUME NEW r \in Requests, Raise(r) PROVE TrailInv'
  BY <1>22, ConstantsAssumption DEF Raise, TrySteps, Goto, remote
<1>23. ASSUME NEW r \in Requests, Reload(r) PROVE TrailInv'
  BY <1>23, ConstantsAssumption DEF Reload, Load, Goto, remote
<1>24. ASSUME NEW r \in Requests, MarkPublishFailed(r) PROVE TrailInv'
  BY <1>24, ConstantsAssumption DEF MarkPublishFailed, Flush, Goto, remote
<1>25. ASSUME NEW r \in Requests, LogFailure(r) PROVE TrailInv'
  BY <1>25, ConstantsAssumption DEF LogFailure, Log, Goto, remote
<1>26. ASSUME NEW r \in Requests, Crash(r) PROVE TrailInv'
  BY <1>26, ConstantsAssumption DEF Crash, Running, ApiSteps, TrySteps,
         FailureSteps, Goto, remote
<1>27. CASE MoveBase
  BY <1>27, ConstantsAssumption DEF MoveBase, remote
<1>28. CASE UNCHANGED vars
  BY <1>28 DEF vars
<1>. QED
  BY <1>1, <1>2, <1>3, <1>4, <1>5, <1>6, <1>7, <1>8, <1>9, <1>10, <1>11,
         <1>12, <1>13, <1>14, <1>15, <1>16, <1>17, <1>18, <1>19, <1>20, <1>21,
         <1>22, <1>23, <1>24, <1>25, <1>26, <1>27, <1>28 DEF Next, User,
         ApiStep, WorkerStep

(***************************************************************************)
(* Every step preserves SnapshotInv.                                       *)
(***************************************************************************)
LEMMA SnapshotStep == TypeOK /\ TrailInv /\ SnapshotInv /\ [Next]_vars => SnapshotInv'
<1>. SUFFICES ASSUME TypeOK /\ TrailInv /\ SnapshotInv, [Next]_vars PROVE SnapshotInv'
  OBVIOUS
<1>. USE DEF TypeOK, Row, Snapshot, TrailInv, SnapshotInv, RecordedPrIsReal,
       TrySteps
<1>1. ASSUME NEW r \in Requests, PublishFix(r) PROVE SnapshotInv'
  BY <1>1, ConstantsAssumption DEF PublishFix, IsPublishIdempotent,
         EnsurePublishable, PersistPublishRequest, Log, Goto, remote
<1>2. ASSUME NEW r \in Requests, RetryPublish(r) PROVE SnapshotInv'
  BY <1>2, ConstantsAssumption DEF RetryPublish, IsPublishIdempotent,
         EnsurePublishable, PersistPublishRequest, Log, Goto, remote
<1>3. CASE CancelPublish
  BY <1>3, ConstantsAssumption DEF CancelPublish, Log, remote
<1>4. CASE DeleteReview
  BY <1>4, ConstantsAssumption DEF DeleteReview, remote
<1>5. ASSUME NEW r \in Requests, Enqueue(r) PROVE SnapshotInv'
  BY <1>5, ConstantsAssumption DEF Enqueue, Load, Goto, remote
<1>6. ASSUME NEW r \in Requests, PersistUnsent(r) PROVE SnapshotInv'
  BY <1>6, ConstantsAssumption DEF PersistUnsent, Flush, Log, Goto, remote
<1>7. ASSUME NEW r \in Requests, Pick(r) PROVE SnapshotInv'
  BY <1>7, ConstantsAssumption DEF Pick, Load, Goto, remote
<1>8. ASSUME NEW r \in Requests, MarkPublishStarted(r) PROVE SnapshotInv'
  BY <1>8, ConstantsAssumption DEF MarkPublishStarted, Flush, Goto, remote
<1>9. ASSUME NEW r \in Requests, CheckBase(r) PROVE SnapshotInv'
  BY <1>9, ConstantsAssumption DEF CheckBase, Goto, remote
<1>10. ASSUME NEW r \in Requests, MarkStaleBase(r) PROVE SnapshotInv'
  BY <1>10, ConstantsAssumption DEF MarkStaleBase, Flush, Goto, remote
<1>11. ASSUME NEW r \in Requests, LogStaleBase(r) PROVE SnapshotInv'
  BY <1>11, ConstantsAssumption DEF LogStaleBase, Log, Goto, remote
<1>12. ASSUME NEW r \in Requests, PrepareWorkspace(r) PROVE SnapshotInv'
  BY <1>12, ConstantsAssumption DEF PrepareWorkspace, Goto, remote
<1>13. ASSUME NEW r \in Requests, CreateCommit(r) PROVE SnapshotInv'
  BY <1>13, ConstantsAssumption DEF CreateCommit, Goto, remote
<1>14. ASSUME NEW r \in Requests, CheckBeforePush(r) PROVE SnapshotInv'
  BY <1>14, ConstantsAssumption DEF CheckBeforePush, EnsureNotCanceled, Goto,
         remote
<1>15. ASSUME NEW r \in Requests, PushBranch(r) PROVE SnapshotInv'
  BY <1>15, ConstantsAssumption DEF PushBranch, Goto
<1>16. ASSUME NEW r \in Requests, LogPush(r) PROVE SnapshotInv'
  BY <1>16, ConstantsAssumption DEF LogPush, Log, Goto, remote
<1>17. ASSUME NEW r \in Requests, CheckBeforePr(r) PROVE SnapshotInv'
  BY <1>17, ConstantsAssumption DEF CheckBeforePr, EnsureNotCanceled, Goto,
         remote
<1>18. ASSUME NEW r \in Requests, CreatePullRequest(r) PROVE SnapshotInv'
  BY <1>18, ConstantsAssumption DEF CreatePullRequest, Goto
<1>19. ASSUME NEW r \in Requests, LogPr(r) PROVE SnapshotInv'
  BY <1>19, ConstantsAssumption DEF LogPr, Log, Goto, remote
<1>20. ASSUME NEW r \in Requests, MarkPublishSucceeded(r) PROVE SnapshotInv'
  BY <1>20, ConstantsAssumption DEF MarkPublishSucceeded, Flush, Goto, remote
<1>21. ASSUME NEW r \in Requests, Finish(r) PROVE SnapshotInv'
  BY <1>21, ConstantsAssumption DEF Finish, Goto, remote
<1>22. ASSUME NEW r \in Requests, Raise(r) PROVE SnapshotInv'
  BY <1>22, ConstantsAssumption DEF Raise, Goto, remote
<1>23. ASSUME NEW r \in Requests, Reload(r) PROVE SnapshotInv'
  BY <1>23, ConstantsAssumption DEF Reload, Load, Goto, remote
<1>24. ASSUME NEW r \in Requests, MarkPublishFailed(r) PROVE SnapshotInv'
  BY <1>24, ConstantsAssumption DEF MarkPublishFailed, Flush, Goto, remote
<1>25. ASSUME NEW r \in Requests, LogFailure(r) PROVE SnapshotInv'
  BY <1>25, ConstantsAssumption DEF LogFailure, Log, Goto, remote
<1>26. ASSUME NEW r \in Requests, Crash(r) PROVE SnapshotInv'
  BY <1>26, ConstantsAssumption DEF Crash, Running, ApiSteps, FailureSteps,
         Goto, remote
<1>27. CASE MoveBase
  BY <1>27, ConstantsAssumption DEF MoveBase, remote
<1>28. CASE UNCHANGED vars
  BY <1>28 DEF vars
<1>. QED
  BY <1>1, <1>2, <1>3, <1>4, <1>5, <1>6, <1>7, <1>8, <1>9, <1>10, <1>11,
         <1>12, <1>13, <1>14, <1>15, <1>16, <1>17, <1>18, <1>19, <1>20, <1>21,
         <1>22, <1>23, <1>24, <1>25, <1>26, <1>27, <1>28 DEF Next, User,
         ApiStep, WorkerStep

(***************************************************************************)
(* Every step preserves OwnerInv.                                          *)
(***************************************************************************)
LEMMA OwnerStep == IInv /\ [Next]_vars => OwnerInv'
<1>. SUFFICES ASSUME IInv, [Next]_vars PROVE OwnerInv'
  OBVIOUS
<1>. USE DEF IInv, TypeOK, Row, Snapshot, SnapshotInv, OwnerInv, Live,
       Running, ApiSteps, TrySteps, FailureSteps
<1>1. ASSUME NEW r \in Requests, PublishFix(r) PROVE OwnerInv'
  BY <1>1, ConstantsAssumption DEF PublishFix, IsPublishIdempotent,
         EnsurePublishable, PersistPublishRequest, Log, Goto, remote
<1>2. ASSUME NEW r \in Requests, RetryPublish(r) PROVE OwnerInv'
  BY <1>2, ConstantsAssumption DEF RetryPublish, IsPublishIdempotent,
         EnsurePublishable, PersistPublishRequest, Log, Goto, remote
<1>3. CASE CancelPublish
  BY <1>3, ConstantsAssumption DEF CancelPublish, Log, remote
<1>4. CASE DeleteReview
  BY <1>4, ConstantsAssumption DEF DeleteReview, remote
<1>5. ASSUME NEW r \in Requests, Enqueue(r) PROVE OwnerInv'
  BY <1>5, ConstantsAssumption DEF Enqueue, Load, Goto, remote
<1>6. ASSUME NEW r \in Requests, PersistUnsent(r) PROVE OwnerInv'
  BY <1>6, ConstantsAssumption DEF PersistUnsent, Flush, Log, Goto, remote
<1>7. ASSUME NEW r \in Requests, Pick(r) PROVE OwnerInv'
  BY <1>7, ConstantsAssumption DEF Pick, Load, Goto, remote
<1>8. ASSUME NEW r \in Requests, MarkPublishStarted(r) PROVE OwnerInv'
  BY <1>8, ConstantsAssumption DEF MarkPublishStarted, Flush, Goto, remote
<1>9. ASSUME NEW r \in Requests, CheckBase(r) PROVE OwnerInv'
  BY <1>9, ConstantsAssumption DEF CheckBase, Goto, remote
<1>10. ASSUME NEW r \in Requests, MarkStaleBase(r) PROVE OwnerInv'
  BY <1>10, ConstantsAssumption DEF MarkStaleBase, Flush, Goto, remote
<1>11. ASSUME NEW r \in Requests, LogStaleBase(r) PROVE OwnerInv'
  BY <1>11, ConstantsAssumption DEF LogStaleBase, Log, Goto, remote
<1>12. ASSUME NEW r \in Requests, PrepareWorkspace(r) PROVE OwnerInv'
  BY <1>12, ConstantsAssumption DEF PrepareWorkspace, Goto, remote
<1>13. ASSUME NEW r \in Requests, CreateCommit(r) PROVE OwnerInv'
  BY <1>13, ConstantsAssumption DEF CreateCommit, Goto, remote
<1>14. ASSUME NEW r \in Requests, CheckBeforePush(r) PROVE OwnerInv'
  BY <1>14, ConstantsAssumption DEF CheckBeforePush, EnsureNotCanceled, Goto,
         remote
<1>15. ASSUME NEW r \in Requests, PushBranch(r) PROVE OwnerInv'
  BY <1>15, ConstantsAssumption DEF PushBranch, Goto
<1>16. ASSUME NEW r \in Requests, LogPush(r) PROVE OwnerInv'
  BY <1>16, ConstantsAssumption DEF LogPush, Log, Goto, remote
<1>17. ASSUME NEW r \in Requests, CheckBeforePr(r) PROVE OwnerInv'
  BY <1>17, ConstantsAssumption DEF CheckBeforePr, EnsureNotCanceled, Goto,
         remote
<1>18. ASSUME NEW r \in Requests, CreatePullRequest(r) PROVE OwnerInv'
  BY <1>18, ConstantsAssumption DEF CreatePullRequest, Goto
<1>19. ASSUME NEW r \in Requests, LogPr(r) PROVE OwnerInv'
  BY <1>19, ConstantsAssumption DEF LogPr, Log, Goto, remote
<1>20. ASSUME NEW r \in Requests, MarkPublishSucceeded(r) PROVE OwnerInv'
  BY <1>20, ConstantsAssumption DEF MarkPublishSucceeded, Flush, Goto, remote
<1>21. ASSUME NEW r \in Requests, Finish(r) PROVE OwnerInv'
  BY <1>21, ConstantsAssumption DEF Finish, Goto, remote
<1>22. ASSUME NEW r \in Requests, Raise(r) PROVE OwnerInv'
  BY <1>22, ConstantsAssumption DEF Raise, Goto, remote
<1>23. ASSUME NEW r \in Requests, Reload(r) PROVE OwnerInv'
  BY <1>23, ConstantsAssumption DEF Reload, Load, Goto, remote
<1>24. ASSUME NEW r \in Requests, MarkPublishFailed(r) PROVE OwnerInv'
  BY <1>24, ConstantsAssumption DEF MarkPublishFailed, Flush, Goto, remote
<1>25. ASSUME NEW r \in Requests, LogFailure(r) PROVE OwnerInv'
  BY <1>25, ConstantsAssumption DEF LogFailure, Log, Goto, remote
<1>26. ASSUME NEW r \in Requests, Crash(r) PROVE OwnerInv'
  BY <1>26, ConstantsAssumption DEF Crash, Goto, remote
<1>27. CASE MoveBase
  BY <1>27, ConstantsAssumption DEF MoveBase, remote
<1>28. CASE UNCHANGED vars
  BY <1>28 DEF vars
<1>. QED
  BY <1>1, <1>2, <1>3, <1>4, <1>5, <1>6, <1>7, <1>8, <1>9, <1>10, <1>11,
         <1>12, <1>13, <1>14, <1>15, <1>16, <1>17, <1>18, <1>19, <1>20, <1>21,
         <1>22, <1>23, <1>24, <1>25, <1>26, <1>27, <1>28 DEF Next, User,
         ApiStep, WorkerStep

(***************************************************************************)
(* A job that was never published satisfies the inductive invariant.       *)
(***************************************************************************)
LEMMA IInvInit == Init => IInv
BY ConstantsAssumption
   DEF Init, IInv, TypeOK, Row, Snapshot, JobStatus, PublishStatus, Step, TrailInv,
       TrailPrecedesEffects, SnapshotInv, RecordedPrIsReal, OwnerInv, TrySteps

(***************************************************************************)
(* The invariant is inductive: SnapshotInv leans on TypeOK and TrailInv,   *)
(* OwnerInv on all three.                                                  *)
(***************************************************************************)
LEMMA IInvStep == IInv /\ [Next]_vars => IInv'
BY TypeStep, TrailStep, SnapshotStep, OwnerStep DEF IInv

(***************************************************************************)
(* Every reachable state of a publish satisfies the inductive invariant.   *)
(***************************************************************************)
THEOREM IInvAlways == Spec => []IInv
BY IInvInit, IInvStep, PTL DEF Spec

(***************************************************************************)
(* The variables of the publish model stay in their domains.               *)
(***************************************************************************)
THEOREM TypeCorrect == Spec => []TypeOK
<1>1. IInv => TypeOK BY DEF IInv
<1>. QED BY <1>1, IInvAlways, PTL

(***************************************************************************)
(* APPROVED, PUBLISHED and a recorded URL never speak of a pull request    *)
(* that was not created and audited.                                       *)
(***************************************************************************)
THEOREM RecordedPrCorrect == Spec => []RecordedPrIsReal
<1>1. IInv => RecordedPrIsReal BY DEF IInv, SnapshotInv
<1>. QED BY <1>1, IInvAlways, PTL

(***************************************************************************)
(* Whatever appears on GitHub was approved, and audited, beforehand.       *)
(***************************************************************************)
THEOREM TrailCorrect == Spec => []TrailPrecedesEffects
<1>1. IInv => TrailPrecedesEffects BY DEF IInv, TrailInv
<1>. QED BY <1>1, IInvAlways, PTL

(***************************************************************************)
(* Without crashes nothing strands a job in PUBLISHING.                    *)
(***************************************************************************)
THEOREM OwnerCorrect == Spec => []PublishingHasOwner
<1>1. IInv => PublishingHasOwner BY DEF IInv, OwnerInv, PublishingHasOwner
<1>. QED BY <1>1, IInvAlways, PTL

(***************************************************************************)
(* The steps of a request that do not write its row.                       *)
(***************************************************************************)
ReadsOnly(r) ==
  \/ Enqueue(r) \/ Pick(r) \/ CheckBase(r) \/ LogStaleBase(r)
  \/ PrepareWorkspace(r) \/ CreateCommit(r) \/ CheckBeforePush(r)
  \/ PushBranch(r) \/ LogPush(r) \/ CheckBeforePr(r)
  \/ CreatePullRequest(r) \/ LogPr(r) \/ Finish(r) \/ Raise(r)
  \/ Reload(r) \/ LogFailure(r) \/ Crash(r)

(***************************************************************************)
(* The job row changes only by the API, MarkPublishStarted, MarkStaleBase, *)
(* MarkPublishSucceeded, MarkPublishFailed and PersistUnsent.              *)
(***************************************************************************)
LEMMA RowUntouched ==
  ASSUME NEW r \in Requests, ReadsOnly(r) \/ MoveBase \/ UNCHANGED vars
  PROVE  UNCHANGED row
BY DEF ReadsOnly, Enqueue, Pick, CheckBase, LogStaleBase, PrepareWorkspace,
       CreateCommit, CheckBeforePush, EnsureNotCanceled, PushBranch, LogPush,
       CheckBeforePr, CreatePullRequest, LogPr, Finish, Raise, Reload, LogFailure,
       Crash, MoveBase, vars

(***************************************************************************)
(* Only mark_publish_succeeded writes the URL and APPROVED; by TrailInv an *)
(* attempt that reaches it created the one pull request, so a recorded URL *)
(* is written again with the same value.                                   *)
(***************************************************************************)
LEMMA PublicationStep ==
  IInv /\ [Next]_vars =>
    (row.prUrl # None => row'.prUrl = row.prUrl /\ row'.status = "APPROVED")
<1>. SUFFICES ASSUME IInv, [Next]_vars, row.prUrl # None
              PROVE  row'.prUrl = row.prUrl /\ row'.status = "APPROVED"
  OBVIOUS
<1>. USE DEF IInv, TypeOK, Row
<1>1. row.status = "APPROVED" /\ pr = row.prUrl
  BY DEF SnapshotInv, RecordedPrIsReal
<1>2. ASSUME NEW r \in Requests, MarkPublishSucceeded(r)
      PROVE  row'.prUrl = row.prUrl /\ row'.status = "APPROVED"
  <2>1. pr = r
    BY <1>2 DEF TrailInv, MarkPublishSucceeded
  <2>. QED BY <1>1, <1>2, <2>1 DEF MarkPublishSucceeded
<1>3. CASE \E r \in Requests :
             PersistUnsent(r) \/ MarkPublishStarted(r) \/ MarkStaleBase(r) \/ MarkPublishFailed(r)
  BY <1>1, <1>3 DEF PersistUnsent, MarkPublishStarted, MarkStaleBase, MarkPublishFailed
<1>4. CASE \E r \in Requests : PublishFix(r) \/ RetryPublish(r)
  BY <1>4 DEF PublishFix, RetryPublish, IsPublishIdempotent
<1>5. CASE CancelPublish \/ DeleteReview
  BY <1>1, <1>5 DEF CancelPublish, DeleteReview
<1>6. CASE UNCHANGED row
  BY <1>1, <1>6
<1>7. ASSUME NEW r \in Requests, ReadsOnly(r)
      PROVE  UNCHANGED row
  BY <1>7, RowUntouched
<1>8. MoveBase => UNCHANGED row
  BY DEF MoveBase
<1>. QED
  BY <1>2, <1>3, <1>4, <1>5, <1>6, <1>7, <1>8
     DEF Next, User, ApiStep, WorkerStep, ReadsOnly, vars

(***************************************************************************)
(* A recorded pull request and its approval are there for good.            *)
(***************************************************************************)
THEOREM PublicationCorrect == Spec => PublicationIsPermanent
BY IInvAlways, PublicationStep, PTL DEF Spec, PublicationIsPermanent

(***************************************************************************)
(* Once halted, nobody sets PUBLISHING again: an attempt that starts only  *)
(* flushes the PUBLISHING it loaded, which writes nothing.  So no attempt  *)
(* passes its last check, and no pull request is opened.                   *)
(***************************************************************************)
LEMMA HaltStep == IInv /\ [Next]_vars => (Halted => Halted' /\ pr' = pr)
<1>. SUFFICES ASSUME IInv, [Next]_vars, Halted PROVE Halted' /\ pr' = pr
  OBVIOUS
<1>. USE DEF IInv, TypeOK, Row, SnapshotInv, Halted
<1>1. ASSUME NEW r \in Requests, PublishFix(r) PROVE Halted' /\ pr' = pr
  BY <1>1 DEF PublishFix, IsPublishIdempotent, EnsurePublishable,
         PersistPublishRequest, Log, Goto, remote
<1>2. ASSUME NEW r \in Requests, RetryPublish(r) PROVE Halted' /\ pr' = pr
  BY <1>2 DEF RetryPublish, IsPublishIdempotent, EnsurePublishable,
         PersistPublishRequest, Log, Goto, remote
<1>3. CASE CancelPublish
  BY <1>3 DEF CancelPublish, Log, remote
<1>4. CASE DeleteReview
  BY <1>4 DEF DeleteReview, remote
<1>5. ASSUME NEW r \in Requests, Enqueue(r) PROVE Halted' /\ pr' = pr
  BY <1>5 DEF Enqueue, Load, Goto, remote
<1>6. ASSUME NEW r \in Requests, PersistUnsent(r) PROVE Halted' /\ pr' = pr
  BY <1>6 DEF PersistUnsent, Flush, Log, Goto, remote
<1>7. ASSUME NEW r \in Requests, Pick(r) PROVE Halted' /\ pr' = pr
  BY <1>7 DEF Pick, Load, Goto, remote
<1>8. ASSUME NEW r \in Requests, MarkPublishStarted(r) PROVE Halted' /\ pr' = pr
  BY <1>8 DEF MarkPublishStarted, Flush, Goto, remote
<1>9. ASSUME NEW r \in Requests, CheckBase(r) PROVE Halted' /\ pr' = pr
  BY <1>9 DEF CheckBase, Goto, remote
<1>10. ASSUME NEW r \in Requests, MarkStaleBase(r) PROVE Halted' /\ pr' = pr
  BY <1>10 DEF MarkStaleBase, Flush, Goto, remote
<1>11. ASSUME NEW r \in Requests, LogStaleBase(r) PROVE Halted' /\ pr' = pr
  BY <1>11 DEF LogStaleBase, Log, Goto, remote
<1>12. ASSUME NEW r \in Requests, PrepareWorkspace(r) PROVE Halted' /\ pr' = pr
  BY <1>12 DEF PrepareWorkspace, Goto, remote
<1>13. ASSUME NEW r \in Requests, CreateCommit(r) PROVE Halted' /\ pr' = pr
  BY <1>13 DEF CreateCommit, Goto, remote
<1>14. ASSUME NEW r \in Requests, CheckBeforePush(r) PROVE Halted' /\ pr' = pr
  BY <1>14 DEF CheckBeforePush, EnsureNotCanceled, Goto, remote
<1>15. ASSUME NEW r \in Requests, PushBranch(r) PROVE Halted' /\ pr' = pr
  BY <1>15 DEF PushBranch, Goto
<1>16. ASSUME NEW r \in Requests, LogPush(r) PROVE Halted' /\ pr' = pr
  BY <1>16 DEF LogPush, Log, Goto, remote
<1>17. ASSUME NEW r \in Requests, CheckBeforePr(r) PROVE Halted' /\ pr' = pr
  BY <1>17 DEF CheckBeforePr, EnsureNotCanceled, Goto, remote
<1>18. ASSUME NEW r \in Requests, CreatePullRequest(r) PROVE Halted' /\ pr' = pr
  BY <1>18 DEF CreatePullRequest, Goto
<1>19. ASSUME NEW r \in Requests, LogPr(r) PROVE Halted' /\ pr' = pr
  BY <1>19 DEF LogPr, Log, Goto, remote
<1>20. ASSUME NEW r \in Requests, MarkPublishSucceeded(r) PROVE Halted' /\ pr' = pr
  BY <1>20 DEF MarkPublishSucceeded, Flush, Goto, remote
<1>21. ASSUME NEW r \in Requests, Finish(r) PROVE Halted' /\ pr' = pr
  BY <1>21 DEF Finish, Goto, remote
<1>22. ASSUME NEW r \in Requests, Raise(r) PROVE Halted' /\ pr' = pr
  BY <1>22 DEF Raise, TrySteps, Goto, remote
<1>23. ASSUME NEW r \in Requests, Reload(r) PROVE Halted' /\ pr' = pr
  BY <1>23 DEF Reload, Load, Goto, remote
<1>24. ASSUME NEW r \in Requests, MarkPublishFailed(r) PROVE Halted' /\ pr' = pr
  BY <1>24 DEF MarkPublishFailed, Flush, Goto, remote
<1>25. ASSUME NEW r \in Requests, LogFailure(r) PROVE Halted' /\ pr' = pr
  BY <1>25 DEF LogFailure, Log, Goto, remote
<1>26. ASSUME NEW r \in Requests, Crash(r) PROVE Halted' /\ pr' = pr
  BY <1>26 DEF Crash, Running, ApiSteps, TrySteps, FailureSteps, Goto, remote
<1>27. CASE MoveBase
  BY <1>27 DEF MoveBase, remote
<1>28. CASE UNCHANGED vars
  BY <1>28 DEF vars
<1>. QED
  BY <1>1, <1>2, <1>3, <1>4, <1>5, <1>6, <1>7, <1>8, <1>9, <1>10, <1>11,
         <1>12, <1>13, <1>14, <1>15, <1>16, <1>17, <1>18, <1>19, <1>20, <1>21,
         <1>22, <1>23, <1>24, <1>25, <1>26, <1>27, <1>28 DEF Next, User,
         ApiStep, WorkerStep

(***************************************************************************)
(* A cancel holds against every interleaving of the attempts still running.*)
(***************************************************************************)
THEOREM CancelCorrect == Spec => CancelHolds
BY IInvAlways, HaltStep, PTL DEF Spec, CancelHolds

(***************************************************************************)
(* Every step maps to a step of the contract or to a stutter.  A late      *)
(* write is one of the contract's reports: it never finds a job that was   *)
(* not requested, because its request was committed first.                 *)
(***************************************************************************)
LEMMA ContractStep == IInv /\ [Next]_vars => [Contract!Next]_(Contract!vars)
<1>. SUFFICES ASSUME IInv, [Next]_vars PROVE [Contract!Next]_(Contract!vars)
  OBVIOUS
<1>1. ASSUME NEW r \in Requests, PublishFix(r) \/ RetryPublish(r)
      PROVE  Contract!Request
  BY <1>1 DEF IInv, TypeOK, Row, PublishStatus, PublishFix, RetryPublish,
              IsPublishIdempotent, EnsurePublishable, PersistPublishRequest, Contract!Request
<1>2. ASSUME NEW r \in Requests, PersistUnsent(r) \/ MarkStaleBase(r) \/ MarkPublishFailed(r)
      PROVE  Contract!Report \/ UNCHANGED row
  <2>1. row.publish # "NOT_REQUESTED"
    BY <1>2 DEF IInv, SnapshotInv, PersistUnsent, MarkStaleBase, MarkPublishFailed
  <2>2. UNCHANGED row \/ \E value \in {"FAILED", "STALE_BASE"} :
                            row' = [row EXCEPT !.publish = value]
    BY <1>2 DEF IInv, TypeOK, Row, PersistUnsent, MarkStaleBase, MarkPublishFailed, Flush
  <2>. QED BY <2>1, <2>2 DEF IInv, TypeOK, Row, Contract!Report
<1>3. ASSUME NEW r \in Requests, MarkPublishStarted(r)
      PROVE  UNCHANGED row
  BY <1>3 DEF IInv, TypeOK, Row, SnapshotInv, MarkPublishStarted, Flush
<1>4. ASSUME NEW r \in Requests, MarkPublishSucceeded(r)
      PROVE  Contract!Report
  <2>1. row.publish # "NOT_REQUESTED" /\ mem[r].publish # "PUBLISHED"
    BY <1>4 DEF IInv, SnapshotInv, MarkPublishSucceeded, TrySteps
  <2>2. row'.publish = "PUBLISHED" /\ row'.prUrl # None
    BY <1>4, <2>1, ConstantsAssumption DEF IInv, TypeOK, Row, MarkPublishSucceeded, Flush
  <2>. QED BY <2>1, <2>2 DEF Contract!Report
<1>5. CASE CancelPublish
  BY <1>5 DEF IInv, TypeOK, Row, CancelPublish, Contract!Next, Contract!Report
<1>6. CASE DeleteReview
  BY <1>6 DEF IInv, TypeOK, Row, DeleteReview, Contract!vars
<1>7. ASSUME NEW r \in Requests, ReadsOnly(r)
      PROVE  UNCHANGED row
  BY <1>7, RowUntouched
<1>8. MoveBase \/ UNCHANGED vars => UNCHANGED row
  BY DEF MoveBase, vars
<1>9. UNCHANGED row => UNCHANGED Contract!vars
  BY DEF Contract!vars
<1>. QED
  BY <1>1, <1>2, <1>3, <1>4, <1>5, <1>6, <1>7, <1>8, <1>9
     DEF Next, User, ApiStep, WorkerStep, ReadsOnly, Contract!Next

(***************************************************************************)
(* Publishing, with all its overlaps, implements PublishContract.          *)
(***************************************************************************)
THEOREM ContractCorrect == Spec => KeepsContract
<1>1. Init => Contract!Init
  BY DEF Init, Contract!Init
<1>. QED BY <1>1, IInvAlways, ContractStep, PTL DEF Spec, KeepsContract, Contract!Spec

=============================================================================
