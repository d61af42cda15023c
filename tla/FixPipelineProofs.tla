-------------------------- MODULE FixPipelineProofs --------------------------
(***************************************************************************)
(* Proofs about FixPipeline, for any issues, files, plans, observations    *)
(* and any bounds on calls, repairs and crashes.                           *)
(***************************************************************************)
EXTENDS FixPipeline, TLAPS

-----------------------------------------------------------------------------
(* The operators the pipeline is built from.                               *)

(***************************************************************************)
(* Two verdicts combine to one of them, to "fixed" only if both are.       *)
(***************************************************************************)
LEMMA CombineIsLeast ==
  ASSUME NEW x \in Verdict, NEW y \in Verdict
  PROVE  /\ CombineLogicResults(x, y) \in {x, y}
         /\ CombineLogicResults(x, y) = "fixed" => x = "fixed" /\ y = "fixed"
BY DEF CombineLogicResults, Priority, Verdict

(***************************************************************************)
(* Every deterministic check concludes one of the three verdicts.          *)
(***************************************************************************)
LEMMA VerifyConcludes ==
  ASSUME NEW o \in Observation
  PROVE  Verify(o) \in Verdict
<1>1. o.probe \in {"jwt", "mass_assignment", "inventory", "response", "rbac",
                   "randomness", "redirect", "rule"}
  BY DEF Observation
<1>2. CASE o.probe = "jwt"
  BY <1>2 DEF Verify, VerifyJwt, Verdict
<1>3. CASE o.probe = "mass_assignment"
  BY <1>3 DEF Verify, VerifyMassAssignment, Verdict
<1>4. CASE o.probe = "inventory"
  BY <1>4 DEF Verify, VerifyInventory, Verdict
<1>5. CASE o.probe = "response"
  BY <1>5 DEF Verify, VerifySensitiveResponse, Verdict
<1>6. CASE o.probe = "rbac"
  BY <1>6 DEF Verify, VerifyRbac, Verdict
<1>7. CASE o.probe = "randomness"
  BY <1>7 DEF Verify, VerifyRandomness, Verdict
<1>8. CASE o.probe = "redirect"
  BY <1>8 DEF Verify, VerifyOpenRedirect, Verdict
<1>9. CASE o.probe = "rule"
  BY <1>9 DEF Verify, RunStaticRuleCheck, Verdict
<1>. QED
  BY <1>1, <1>2, <1>3, <1>4, <1>5, <1>6, <1>7, <1>8, <1>9

(***************************************************************************)
(* Writing a patch changes the files it names, to contents there are.      *)
(***************************************************************************)
LEMMA WriteIsLocal ==
  ASSUME NEW before \in Trees, NEW patch \in SUBSET (Paths \X Contents)
  PROVE  /\ Write(before, patch) \in Trees
         /\ \A p \in Paths : Write(before, patch)[p] = before[p]
                               \/ \E x \in patch : x[1] = p
<1>1. ASSUME NEW p \in Paths, \E x \in patch : x[1] = p
      PROVE  (CHOOSE x \in patch : x[1] = p)[2] \in Contents
  <2>1. PICK x \in patch : x[1] = p
    BY <1>1
  <2>2. (CHOOSE y \in patch : y[1] = p) \in patch
    BY <2>1
  <2>. QED
    BY <2>2
<1>. QED
  BY <1>1 DEF Write, Trees

(***************************************************************************)
(* A tree without changed files is the reviewed commit's.                  *)
(***************************************************************************)
LEMMA UnchangedIsBase ==
  ASSUME NEW t \in Trees
  PROVE  ChangedFiles(t) = {} <=> t = BaseTree
<1>1. ASSUME ChangedFiles(t) = {} PROVE t = BaseTree
  <2>1. \A p \in Paths : t[p] = Base
    BY <1>1 DEF ChangedFiles
  <2>. QED
    BY <2>1 DEF Trees, BaseTree
<1>2. ASSUME t = BaseTree PROVE ChangedFiles(t) = {}
  BY <1>2 DEF ChangedFiles, BaseTree
<1>. QED
  BY <1>1, <1>2

(***************************************************************************)
(* Components are made of the issues given, repairs of planned issues.     *)
(***************************************************************************)
LEMMA ComponentsWithin ==
  ASSUME NEW ps, NEW S
  PROVE  \A g \in Components(ps, S) : g \subseteq S
BY DEF Components, Component

\* A repair round selects only issues whose plan stands, whatever set it is given.
LEMMA RepairsArePlanned ==
  ASSUME NEW ps, NEW S
  PROVE  PlansToRepair(ps, S) \subseteq Planned(ps)
BY DEF PlansToRepair

\* The verdict of an issue is one of the pipeline's verdicts, and it is "fixed"
\* only for a planned issue the judge, and the scenario check if there is one,
\* both called fixed.
LEMMA VerdictOfIssue ==
  ASSUME TypeOK, NEW i \in Issues
  PROVE  /\ IssueVerdict(i) \in Verdict
         /\ IssueVerdict(i) = "fixed" =>
              /\ plans[i].status = "planned"
              /\ judged[i] = "fixed"
              /\ i \in Checked => check[i] = "fixed"
<1>1. judged[i] \in Verdict /\ check[i] \in Verdict
  BY DEF TypeOK
<1>. QED
  BY <1>1, CombineIsLeast DEF IssueVerdict, Verdict


-----------------------------------------------------------------------------
(***************************************************************************)
(* Every step preserves the type invariant.                                *)
(***************************************************************************)
LEMMA TypeStep == TypeOK /\ ReviewInv /\ [Next]_vars => TypeOK'
<1>. SUFFICES ASSUME TypeOK, ReviewInv, [Next]_vars PROVE TypeOK'
  OBVIOUS
<1>. USE ConstantsAssumption DEF TypeOK, Row, Status, Step, Running, ApiSteps, TrySteps,
       FailureSteps, work, asking
<1>1. CASE CreateFix
  BY <1>1 DEF CreateFix, Goto
<1>2. CASE DeleteReview
  BY <1>2 DEF DeleteReview
<1>3. CASE Publish
  BY <1>3 DEF Publish, SetStatus
<1>4. CASE AppendAuditLog
  BY <1>4 DEF AppendAuditLog, Goto
<1>5. CASE Enqueue
  BY <1>5 DEF Enqueue, Goto
<1>6. CASE PickUp
  BY <1>6 DEF PickUp, Goto
<1>7. CASE MarkStarted
  BY <1>7 DEF MarkStarted, Goto, SetStatus
<1>8. CASE PrepareWorkspace
  BY <1>8 DEF PrepareWorkspace, Goto, Trees, BaseTree
<1>9. CASE StartGenerating
  BY <1>9 DEF StartGenerating, Goto, SetStatus
<1>10. CASE LoadSelectedIssues
  BY <1>10 DEF LoadSelectedIssues, Goto, AskAll
<1>11. CASE SaveIssuePlan
  <2>1. \A i \in Issues : WithSupportContext(i, plans[i]) \in Plan
    BY DEF WithSupportContext, Plan
  <2>. QED
    BY <1>11, <2>1 DEF SaveIssuePlan, Goto, asking
<1>12. CASE ValidatePlanPaths
  BY <1>12 DEF ValidatePlanPaths, Goto
<1>13. CASE ApplyRuffFixes
  <2>1. tree' \in Trees
    BY <1>13 DEF ApplyRuffFixes, Trees
  <2>2. \E ai \in SUBSET Issues : AskEach(Components(plans, ai))
    BY <1>13 DEF ApplyRuffFixes, Planned
  <2>3. todo' \subseteq SUBSET Issues /\ try' = 0
    BY <2>2, ComponentsWithin DEF AskEach
  <2>4. grouped' \in BOOLEAN
    BY <2>2, Zenon DEF AskEach
  <2>5. pc' = "editing" /\ UNCHANGED <<row, plans, changed, check, judged, reviewed, round, crashes>>
    BY <1>13 DEF ApplyRuffFixes, Goto
  <2>. QED
    BY <2>1, <2>3, <2>4, <2>5
<1>14. CASE SavePatch
  BY <1>14 DEF SavePatch, Goto, ChangedFiles
<1>15. CASE StartValidating
  BY <1>15 DEF StartValidating, Goto, SetStatus
<1>16. CASE RunChecks
  <2>1. \A o \in Sights : Verify(o) \in Verdict
    BY VerifyConcludes
  <2>2. check' \in [Issues -> Verdict] /\ judged' \in [Issues -> Verdict]
    BY <1>16, <2>1 DEF RunChecks, Verdict
  <2>3. todo' \subseteq SUBSET Issues /\ try' \in 0..1 /\ grouped' \in BOOLEAN
    BY <1>16 DEF RunChecks, AskAll, Planned
  <2>. QED
    BY <1>16, <2>2, <2>3 DEF RunChecks, Goto
<1>17. CASE Decide
  <2>1. todo' \subseteq SUBSET Issues
    BY <1>17, ComponentsWithin, RepairsArePlanned DEF Decide, AskEach, Planned
  <2>2. try' \in 0..1 /\ pc' \in Step /\ UNCHANGED <<row, work, round, crashes>>
    BY <1>17 DEF Decide, AskEach
  <2>3. grouped' \in BOOLEAN
    BY <1>17, Zenon DEF Decide, AskEach
  <2>. QED
    BY <2>1, <2>2, <2>3
<1>18. CASE RepairsMade
  BY <1>18 DEF RepairsMade, Goto
<1>19. CASE AfterRepair
  <2>1. changed' \subseteq Paths /\ pc' \in Step
    BY <1>19 DEF AfterRepair, ChangedFiles
  <2>2. round' \in 0..MaxRepairs
    BY <1>19 DEF AfterRepair, ReviewInv
  <2>. QED
    BY <1>19, <2>1, <2>2 DEF AfterRepair
<1>20. CASE SaveReviewedPatch
  BY <1>20 DEF SaveReviewedPatch, Goto
<1>21. CASE SaveIssueResults
  BY <1>21, VerdictOfIssue DEF SaveIssueResults, Goto
<1>22. CASE SaveValidation
  BY <1>22 DEF SaveValidation, Goto
<1>23. CASE OfferPatch
  BY <1>23 DEF OfferPatch, Goto, SetStatus
<1>24. CASE Finish
  BY <1>24 DEF Finish, Goto
<1>25. ASSUME NEW g \in todo, RequestPlans(g) PROVE TypeOK'
  <2>1. plans' \in [Issues -> Plan]
    BY <1>25 DEF RequestPlans
  <2>2. CASE AskAgain \/ AskSingly(g)
    <3>1. todo' \subseteq SUBSET Issues /\ try' \in 0..1
      BY <2>2 DEF AskAgain, AskSingly, AskEach
    <3>2. grouped' \in BOOLEAN
      BY <2>2, Zenon DEF AskAgain, AskSingly, AskEach
    <3>. QED
      BY <1>25, <2>1, <3>1, <3>2 DEF RequestPlans
  <2>3. CASE Answered(g)
    <3>1. todo' \subseteq SUBSET Issues /\ try' \in 0..1
      BY <2>3 DEF Answered
    <3>2. grouped' \in BOOLEAN
      BY <2>3, Zenon DEF Answered
    <3>. QED
      BY <1>25, <2>1, <3>1, <3>2 DEF RequestPlans
  <2>. QED
    BY <1>25, <2>2, <2>3 DEF RequestPlans
<1>26. ASSUME NEW g \in todo, NEW stage, RequestPatch(g, stage) PROVE TypeOK'
  <2>1. tree' \in Trees
    <3>1. \A patch \in Patches : \A part \in SUBSET patch : Write(tree, part) \in Trees
      BY WriteIsLocal DEF Patches
    <3>. QED
      BY <1>26, <3>1 DEF RequestPatch
  <2>2. todo' \subseteq SUBSET Issues /\ try' \in 0..1 /\ grouped' \in BOOLEAN /\ pc' \in Step
    BY <1>26 DEF RequestPatch, Answered, AskAgain
  <2>. QED
    BY <1>26, <2>1, <2>2 DEF RequestPatch
<1>27. ASSUME NEW g \in todo, RequestVerdicts(g) PROVE TypeOK'
  <2>1. judged' \in [Issues -> Verdict]
    BY <1>27 DEF RequestVerdicts, Answer
  <2>2. CASE AskAgain \/ AskSingly(g)
    <3>1. todo' \subseteq SUBSET Issues /\ try' \in 0..1
      BY <2>2 DEF AskAgain, AskSingly, AskEach
    <3>2. grouped' \in BOOLEAN
      BY <2>2, Zenon DEF AskAgain, AskSingly, AskEach
    <3>. QED
      BY <1>27, <2>1, <3>1, <3>2 DEF RequestVerdicts
  <2>3. CASE Answered(g)
    <3>1. todo' \subseteq SUBSET Issues /\ try' \in 0..1
      BY <2>3 DEF Answered
    <3>2. grouped' \in BOOLEAN
      BY <2>3, Zenon DEF Answered
    <3>. QED
      BY <1>27, <2>1, <3>1, <3>2 DEF RequestVerdicts
  <2>. QED
    BY <1>27, <2>2, <2>3 DEF RequestVerdicts
<1>28. CASE Raise
  BY <1>28 DEF Raise
<1>29. CASE RecheckJob
  BY <1>29 DEF RecheckJob, Goto
<1>30. CASE MarkFailed
  BY <1>30 DEF MarkFailed, Goto
<1>31. CASE Crash
  BY <1>31 DEF Crash
<1>32. CASE UNCHANGED vars
  BY <1>32 DEF vars
<1>. QED
  BY <1>1, <1>2, <1>3, <1>4, <1>5, <1>6, <1>7, <1>8, <1>9, <1>10, <1>11,
     <1>12, <1>13, <1>14, <1>15, <1>16, <1>17, <1>18, <1>19, <1>20, <1>21,
     <1>22, <1>23, <1>24, <1>25, <1>26, <1>27, <1>28, <1>29, <1>30, <1>31,
     <1>32 DEF Next, User, ApiStep, WorkerStep, Ask, GenerateFix, RepairFix

(***************************************************************************)
(* The status of the job follows the worker's stage.                       *)
(***************************************************************************)
LEMMA StatusStep == TypeOK /\ StatusInv /\ [Next]_vars => StatusInv'
<1>. SUFFICES ASSUME TypeOK, StatusInv, [Next]_vars PROVE StatusInv'
  OBVIOUS
<1>. USE DEF TypeOK, StatusInv, Row, Step, Running, ApiSteps, TrySteps,
       FailureSteps
<1>1. CASE CreateFix
  BY <1>1 DEF CreateFix, Goto
<1>2. CASE DeleteReview
  BY <1>2 DEF DeleteReview
<1>3. CASE Publish
  BY <1>3 DEF Publish, SetStatus
<1>4. CASE AppendAuditLog
  BY <1>4 DEF AppendAuditLog, Goto
<1>5. CASE Enqueue
  BY <1>5 DEF Enqueue, Goto
<1>6. CASE PickUp
  BY <1>6 DEF PickUp, Goto
<1>7. CASE MarkStarted
  BY <1>7 DEF MarkStarted, Goto, SetStatus
<1>8. CASE PrepareWorkspace
  BY <1>8 DEF PrepareWorkspace, Goto
<1>9. CASE StartGenerating
  BY <1>9 DEF StartGenerating, Goto, SetStatus
<1>10. CASE LoadSelectedIssues
  BY <1>10 DEF LoadSelectedIssues, Goto
<1>11. CASE SaveIssuePlan
  BY <1>11 DEF SaveIssuePlan, Goto
<1>12. CASE ValidatePlanPaths
  BY <1>12 DEF ValidatePlanPaths, Goto
<1>13. CASE ApplyRuffFixes
  BY <1>13 DEF ApplyRuffFixes, Goto
<1>14. CASE SavePatch
  BY <1>14 DEF SavePatch, Goto
<1>15. CASE StartValidating
  BY <1>15 DEF StartValidating, Goto, SetStatus
<1>16. CASE RunChecks
  BY <1>16 DEF RunChecks, Goto
<1>17. CASE Decide
  BY <1>17 DEF Decide
<1>18. CASE RepairsMade
  BY <1>18 DEF RepairsMade, Goto
<1>19. CASE AfterRepair
  BY <1>19 DEF AfterRepair
<1>20. CASE SaveReviewedPatch
  BY <1>20 DEF SaveReviewedPatch, Goto
<1>21. CASE SaveIssueResults
  BY <1>21 DEF SaveIssueResults, Goto
<1>22. CASE SaveValidation
  BY <1>22 DEF SaveValidation, Goto
<1>23. CASE OfferPatch
  BY <1>23 DEF OfferPatch, Goto, SetStatus
<1>24. CASE Finish
  BY <1>24 DEF Finish, Goto
<1>25. CASE Raise
  BY <1>25 DEF Raise
<1>26. CASE RecheckJob
  BY <1>26 DEF RecheckJob, Goto
<1>27. CASE MarkFailed
  BY <1>27 DEF MarkFailed, Goto
<1>28. CASE Crash
  BY <1>28 DEF Crash
<1>29. CASE UNCHANGED vars
  BY <1>29 DEF vars
<1>30. ASSUME NEW g \in todo, RequestPlans(g) PROVE StatusInv'
  BY <1>30 DEF RequestPlans
<1>31. ASSUME NEW g \in todo, RequestPatch(g, "editing") PROVE StatusInv'
  BY <1>31 DEF RequestPatch
<1>32. ASSUME NEW g \in todo, RequestVerdicts(g) PROVE StatusInv'
  BY <1>32 DEF RequestVerdicts
<1>33. ASSUME NEW g \in todo, RequestPatch(g, "repairing") PROVE StatusInv'
  BY <1>33 DEF RequestPatch
<1>. QED
  BY <1>1, <1>2, <1>3, <1>4, <1>5, <1>6, <1>7, <1>8, <1>9, <1>10, <1>11,
     <1>12, <1>13, <1>14, <1>15, <1>16, <1>17, <1>18, <1>19, <1>20, <1>21,
     <1>22, <1>23, <1>24, <1>25, <1>26, <1>27, <1>28, <1>29, <1>30, <1>31,
     <1>32, <1>33 DEF Next, User, ApiStep, WorkerStep, Ask, GenerateFix,
     RepairFix

(***************************************************************************)
(* Edits start with valid plans and are asked for planned issues only.     *)
(***************************************************************************)
LEMMA PlanStep == TypeOK /\ PlanInv /\ [Next]_vars => PlanInv'
<1>. SUFFICES ASSUME TypeOK, PlanInv, [Next]_vars PROVE PlanInv'
  OBVIOUS
<1>. USE DEF PlanInv, BeforeEdits, work, asking
<1>1. CASE CreateFix
  BY <1>1 DEF CreateFix, Goto
<1>2. CASE DeleteReview
  BY <1>2 DEF DeleteReview, Failed, IssueVerdict
<1>3. CASE Publish
  BY <1>3 DEF Publish, SetStatus, Failed, IssueVerdict
<1>4. CASE AppendAuditLog
  BY <1>4 DEF AppendAuditLog, Goto
<1>5. CASE Enqueue
  BY <1>5 DEF Enqueue, Goto
<1>6. CASE PickUp
  BY <1>6 DEF PickUp, Goto
<1>7. CASE MarkStarted
  BY <1>7 DEF MarkStarted, Goto, SetStatus
<1>8. CASE PrepareWorkspace
  BY <1>8 DEF PrepareWorkspace, Goto
<1>9. CASE StartGenerating
  BY <1>9 DEF StartGenerating, Goto, SetStatus
<1>10. CASE LoadSelectedIssues
  BY <1>10 DEF LoadSelectedIssues, Goto
<1>11. CASE SaveIssuePlan
  BY <1>11 DEF SaveIssuePlan, Goto
<1>12. CASE ValidatePlanPaths
  BY <1>12 DEF ValidatePlanPaths, Goto
<1>13. CASE ApplyRuffFixes
  <2>1. \E ai \in SUBSET Planned(plans) : AskEach(Components(plans, ai))
    BY <1>13 DEF ApplyRuffFixes
  <2>2. \A g \in todo' : g \subseteq Planned(plans)
    BY <2>1, ComponentsWithin DEF AskEach
  <2>. QED
    BY <1>13, <2>2 DEF ApplyRuffFixes, Goto, Planned
<1>14. CASE SavePatch
  BY <1>14 DEF SavePatch, Goto
<1>15. CASE StartValidating
  BY <1>15 DEF StartValidating, Goto, SetStatus
<1>16. CASE RunChecks
  BY <1>16 DEF RunChecks, Goto
<1>17. CASE Decide
  <2>1. Failed' = Failed
    BY <1>17 DEF Decide, Failed, IssueVerdict
  <2>2. PlansToRepair(plans, Failed)' = PlansToRepair(plans, Failed)
    BY <1>17, <2>1 DEF Decide, PlansToRepair
  <2>3. pc' = "repairing" => todo' = Components(plans, PlansToRepair(plans, Failed))
    BY <1>17 DEF Decide, AskEach
  <2>4. pc' = "repairing" => \A g \in todo' : g \subseteq PlansToRepair(plans, Failed)'
    BY <2>2, <2>3, ComponentsWithin
  <2>. QED
    BY <1>17, <2>4 DEF Decide
<1>18. CASE RepairsMade
  BY <1>18 DEF RepairsMade, Goto
<1>19. CASE AfterRepair
  BY <1>19 DEF AfterRepair
<1>20. CASE SaveReviewedPatch
  BY <1>20 DEF SaveReviewedPatch, Goto
<1>21. CASE SaveIssueResults
  BY <1>21 DEF SaveIssueResults, Goto
<1>22. CASE SaveValidation
  BY <1>22 DEF SaveValidation, Goto
<1>23. CASE OfferPatch
  BY <1>23 DEF OfferPatch, Goto, SetStatus
<1>24. CASE Finish
  BY <1>24 DEF Finish, Goto
<1>25. CASE Raise
  BY <1>25 DEF Raise, TrySteps
<1>26. CASE RecheckJob
  BY <1>26 DEF RecheckJob, Goto
<1>27. CASE MarkFailed
  BY <1>27 DEF MarkFailed, Goto
<1>28. CASE Crash
  BY <1>28 DEF Crash, Running, ApiSteps, TrySteps, FailureSteps
<1>29. CASE UNCHANGED vars
  BY <1>29 DEF vars, Failed, IssueVerdict
<1>30. ASSUME NEW g \in todo, RequestPlans(g) PROVE PlanInv'
  BY <1>30 DEF RequestPlans
<1>31. ASSUME NEW g \in todo, RequestPatch(g, "editing") PROVE PlanInv'
  BY <1>31 DEF RequestPatch, Answered, AskAgain
<1>32. ASSUME NEW g \in todo, RequestVerdicts(g) PROVE PlanInv'
  BY <1>32 DEF RequestVerdicts
<1>33. ASSUME NEW g \in todo, RequestPatch(g, "repairing") PROVE PlanInv'
  BY <1>33 DEF RequestPatch, Answered, AskAgain, Failed, IssueVerdict
<1>. QED
  BY <1>1, <1>2, <1>3, <1>4, <1>5, <1>6, <1>7, <1>8, <1>9, <1>10, <1>11,
     <1>12, <1>13, <1>14, <1>15, <1>16, <1>17, <1>18, <1>19, <1>20, <1>21,
     <1>22, <1>23, <1>24, <1>25, <1>26, <1>27, <1>28, <1>29, <1>30, <1>31,
     <1>32, <1>33 DEF Next, User, ApiStep, WorkerStep, Ask, GenerateFix,
     RepairFix

(***************************************************************************)
(* A patch asked for some issues writes only files their plans let it edit. *)
(***************************************************************************)
LEMMA PatchIsWithin ==
  ASSUME TypeOK, NEW g, NEW S, g \subseteq S, NEW stage, RequestPatch(g, stage)
  PROVE  /\ tree' \in Trees
         /\ \A p \in Paths \ (EditablePaths(plans, S) \ Tests) : tree'[p] = tree[p]
<1>1. tree' = tree \/ \E patch \in SUBSET (Paths \X Contents) :
         /\ tree' = Write(tree, patch)
         /\ \A x \in patch : Acceptable(plans, g, x)
  BY DEF RequestPatch, Patches
<1>2. CASE tree' = tree
  BY <1>2 DEF TypeOK
<1>3. ASSUME NEW patch \in SUBSET (Paths \X Contents), tree' = Write(tree, patch),
             \A x \in patch : Acceptable(plans, g, x)
      PROVE  /\ tree' \in Trees
             /\ \A p \in Paths \ (EditablePaths(plans, S) \ Tests) : tree'[p] = tree[p]
  <2>1. \A x \in patch : x[1] \in EditablePaths(plans, S) \ Tests
    BY <1>3 DEF Acceptable, EditablePaths
  <2>. QED
    BY <1>3, <2>1, WriteIsLocal DEF TypeOK
<1>. QED
  BY <1>1, <1>2, <1>3

(***************************************************************************)
(* Edits are followed by a verification of the tree they leave.            *)
(***************************************************************************)
LEMMA ReviewStep == TypeOK /\ PlanInv /\ ReviewInv /\ [Next]_vars => ReviewInv'
<1>. SUFFICES ASSUME TypeOK, PlanInv, ReviewInv, [Next]_vars PROVE ReviewInv'
  OBVIOUS
<1>. USE DEF ReviewInv, work, asking
<1>1. CASE CreateFix
  BY <1>1 DEF CreateFix, Goto
<1>2. CASE DeleteReview
  BY <1>2 DEF DeleteReview, Failed, IssueVerdict, TypeOK, Row
<1>3. CASE Publish
  BY <1>3 DEF Publish, SetStatus, Failed, IssueVerdict, TypeOK, Row
<1>4. CASE AppendAuditLog
  BY <1>4 DEF AppendAuditLog, Goto
<1>5. CASE Enqueue
  BY <1>5 DEF Enqueue, Goto
<1>6. CASE PickUp
  BY <1>6 DEF PickUp, Goto
<1>7. CASE MarkStarted
  BY <1>7 DEF MarkStarted, Goto, SetStatus
<1>8. CASE PrepareWorkspace
  BY <1>8 DEF PrepareWorkspace, Goto
<1>9. CASE StartGenerating
  BY <1>9 DEF StartGenerating, Goto, SetStatus
<1>10. CASE LoadSelectedIssues
  BY <1>10 DEF LoadSelectedIssues, Goto
<1>11. CASE SaveIssuePlan
  BY <1>11 DEF SaveIssuePlan, Goto
<1>12. CASE ValidatePlanPaths
  BY <1>12 DEF ValidatePlanPaths, Goto
<1>13. CASE ApplyRuffFixes
  BY <1>13 DEF ApplyRuffFixes, Goto
<1>14. CASE SavePatch
  BY <1>14 DEF SavePatch, Goto
<1>15. CASE StartValidating
  BY <1>15 DEF StartValidating, Goto, SetStatus
<1>16. CASE RunChecks
  BY <1>16 DEF RunChecks, Goto
<1>17. CASE Decide
  <2>1. tree = reviewed /\ changed = ChangedFiles(tree)
    BY <1>17 DEF Decide
  <2>2. CASE pc' = "repairing"
    <3>1. round < MaxRepairs
      BY <1>17, <2>2, ConstantsAssumption DEF Decide, TypeOK
    <3>. QED
      BY <1>17, <2>1, <2>2, <3>1 DEF Decide
  <2>3. CASE pc' = "reviewed"
    BY <1>17, <2>1, <2>3 DEF Decide
  <2>. QED
    BY <1>17, <2>2, <2>3 DEF Decide
<1>18. CASE RepairsMade
  BY <1>18 DEF RepairsMade, Goto, Failed, IssueVerdict
<1>19. CASE AfterRepair
  <2> DEFINE repairable == EditablePaths(plans, PlansToRepair(plans, Failed))
  <2>1. CASE \E p \in repairable : tree[p] # reviewed[p]
    <3>1. ChangedFiles(tree) = {} <=> tree = BaseTree
      BY UnchangedIsBase DEF TypeOK
    <3>. QED
      BY <1>19, <2>1, <3>1 DEF AfterRepair
  <2>2. CASE ~ \E p \in repairable : tree[p] # reviewed[p]
    <3>1. \A p \in Paths : tree[p] = reviewed[p]
      BY <1>19, <2>2 DEF AfterRepair
    <3>2. tree = reviewed
      BY <3>1 DEF TypeOK, Trees
    <3>. QED
      BY <1>19, <2>2, <3>2 DEF AfterRepair
  <2>. QED
    BY <2>1, <2>2
<1>20. CASE SaveReviewedPatch
  BY <1>20 DEF SaveReviewedPatch, Goto, TypeOK, Row
<1>21. CASE SaveIssueResults
  BY <1>21 DEF SaveIssueResults, Goto, Failed, IssueVerdict, TypeOK, Row
<1>22. CASE SaveValidation
  BY <1>22 DEF SaveValidation, Goto, Failed, IssueVerdict
<1>23. CASE OfferPatch
  BY <1>23 DEF OfferPatch, Goto, SetStatus
<1>24. CASE Finish
  BY <1>24 DEF Finish, Goto
<1>25. CASE Raise
  BY <1>25 DEF Raise, TrySteps
<1>26. CASE RecheckJob
  BY <1>26 DEF RecheckJob, Goto
<1>27. CASE MarkFailed
  BY <1>27 DEF MarkFailed, Goto
<1>28. CASE Crash
  BY <1>28 DEF Crash, Running, ApiSteps, TrySteps, FailureSteps
<1>29. CASE UNCHANGED vars
  BY <1>29 DEF vars, Failed, IssueVerdict
<1>30. ASSUME NEW g \in todo, RequestPlans(g) PROVE ReviewInv'
  BY <1>30 DEF RequestPlans
<1>31. ASSUME NEW g \in todo, RequestPatch(g, "editing") PROVE ReviewInv'
  BY <1>31 DEF RequestPatch, Answered, AskAgain
<1>32. ASSUME NEW g \in todo, RequestVerdicts(g) PROVE ReviewInv'
  BY <1>32 DEF RequestVerdicts
<1>33. ASSUME NEW g \in todo, RequestPatch(g, "repairing") PROVE ReviewInv'
  <2>1. /\ pc = "repairing" /\ pc' \in {"repairing", "raised"}
        /\ UNCHANGED <<row, plans, changed, check, judged, reviewed, round>>
    BY <1>33 DEF RequestPatch
  <2>2. PlansToRepair(plans, Failed)' = PlansToRepair(plans, Failed)
    BY <2>1 DEF PlansToRepair, Failed, IssueVerdict
  <2>3. \A p \in Paths \ EditablePaths(plans, PlansToRepair(plans, Failed)) :
          tree'[p] = tree[p]
    BY <1>33, <2>1, PatchIsWithin DEF PlanInv
  <2>. QED
    BY <2>1, <2>2, <2>3 DEF EditablePaths
<1>. QED
  BY <1>1, <1>2, <1>3, <1>4, <1>5, <1>6, <1>7, <1>8, <1>9, <1>10, <1>11,
     <1>12, <1>13, <1>14, <1>15, <1>16, <1>17, <1>18, <1>19, <1>20, <1>21,
     <1>22, <1>23, <1>24, <1>25, <1>26, <1>27, <1>28, <1>29, <1>30, <1>31,
     <1>32, <1>33 DEF Next, User, ApiStep, WorkerStep, Ask, GenerateFix,
     RepairFix

(***************************************************************************)
(* A step that edits nothing and changes no plan, and one that applies a   *)
(* patch asked for planned issues, leave the edits where they may be.      *)
(***************************************************************************)
LEMMA EditsKept ==
  ASSUME EditsStayInPlan, tree' = tree, plans' = plans
  PROVE  EditsStayInPlan'
BY DEF EditsStayInPlan, ChangedFiles, EditablePaths, Planned

\* A patch of one component, in either stage, leaves every file outside the
\* plans' editable paths as it was.
LEMMA PatchKeepsEdits ==
  ASSUME TypeOK, EditsStayInPlan, ValidPlanPaths(plans), plans' = plans,
         NEW g \in SUBSET Planned(plans), NEW stage, RequestPatch(g, stage)
  PROVE  EditsStayInPlan'
<1>1. \A p \in Paths \ (EditablePaths(plans, Planned(plans)) \ Tests) : tree'[p] = tree[p]
  BY PatchIsWithin
<1>2. EditablePaths(plans, Planned(plans)) \cap ReadOnly = {}
  BY DEF ValidPlanPaths, EditablePaths, Planned
<1>3. ChangedFiles(tree') \subseteq ChangedFiles(tree) \cup (EditablePaths(plans, Planned(plans)) \ Tests)
  BY <1>1 DEF ChangedFiles
<1>4. /\ ChangedFiles(tree)' = ChangedFiles(tree')
      /\ EditablePaths(plans, Planned(plans))' = EditablePaths(plans, Planned(plans))
  BY DEF ChangedFiles, EditablePaths, Planned
<1>. QED
  BY <1>2, <1>3, <1>4 DEF EditsStayInPlan

(***************************************************************************)
(* The tree differs from the reviewed commit only where edits are allowed. *)
(***************************************************************************)
LEMMA EditsStep == TypeOK /\ PlanInv /\ EditsStayInPlan /\ [Next]_vars => EditsStayInPlan'
<1>. SUFFICES ASSUME TypeOK, PlanInv, EditsStayInPlan, [Next]_vars PROVE EditsStayInPlan'
  OBVIOUS
<1>1. CASE CreateFix
  BY <1>1, EditsKept DEF CreateFix, work
<1>2. CASE DeleteReview
  BY <1>2, EditsKept DEF DeleteReview, work
<1>3. CASE Publish
  BY <1>3, EditsKept DEF Publish, work
<1>4. CASE AppendAuditLog
  BY <1>4, EditsKept DEF AppendAuditLog, work
<1>5. CASE Enqueue
  BY <1>5, EditsKept DEF Enqueue, work
<1>6. CASE PickUp
  BY <1>6, EditsKept DEF PickUp, work
<1>7. CASE MarkStarted
  BY <1>7, EditsKept DEF MarkStarted, work
<1>8. CASE PrepareWorkspace
  <2>1. tree' = BaseTree
    BY <1>8 DEF PrepareWorkspace, PlanInv, BeforeEdits
  <2>2. ChangedFiles(tree') = {}
    BY <2>1 DEF ChangedFiles, BaseTree
  <2>. QED
    BY <2>2 DEF EditsStayInPlan, ChangedFiles
<1>9. CASE StartGenerating
  BY <1>9, EditsKept DEF StartGenerating, work
<1>10. CASE LoadSelectedIssues
  BY <1>10, EditsKept DEF LoadSelectedIssues, work
<1>11. CASE SaveIssuePlan
  <2>1. tree' = BaseTree
    BY <1>11 DEF SaveIssuePlan, PlanInv, BeforeEdits, Goto
  <2>2. ChangedFiles(tree') = {}
    BY <2>1 DEF ChangedFiles, BaseTree
  <2>. QED
    BY <2>2 DEF EditsStayInPlan, ChangedFiles
<1>12. CASE ValidatePlanPaths
  BY <1>12, EditsKept DEF ValidatePlanPaths, work
<1>13. CASE ApplyRuffFixes
  <2>1. tree = BaseTree /\ plans' = plans
    BY <1>13 DEF ApplyRuffFixes, Goto, PlanInv, BeforeEdits
  <2>2. ChangedFiles(tree') \subseteq RuffFiles
    BY <1>13, <2>1 DEF ApplyRuffFixes, ChangedFiles, BaseTree
  <2>. QED
    BY <2>1, <2>2 DEF EditsStayInPlan, ChangedFiles, RuffFiles
<1>14. CASE SavePatch
  BY <1>14, EditsKept DEF SavePatch, work
<1>15. CASE StartValidating
  BY <1>15, EditsKept DEF StartValidating, work
<1>16. CASE RunChecks
  BY <1>16, EditsKept DEF RunChecks, work
<1>17. CASE Decide
  BY <1>17, EditsKept DEF Decide, work
<1>18. CASE RepairsMade
  BY <1>18, EditsKept DEF RepairsMade, work
<1>19. CASE AfterRepair
  BY <1>19, EditsKept DEF AfterRepair, work
<1>20. CASE SaveReviewedPatch
  BY <1>20, EditsKept DEF SaveReviewedPatch, work
<1>21. CASE SaveIssueResults
  BY <1>21, EditsKept DEF SaveIssueResults, work
<1>22. CASE SaveValidation
  BY <1>22, EditsKept DEF SaveValidation, work
<1>23. CASE OfferPatch
  BY <1>23, EditsKept DEF OfferPatch, work
<1>24. CASE Finish
  BY <1>24, EditsKept DEF Finish, work
<1>25. CASE Raise
  BY <1>25, EditsKept DEF Raise, work
<1>26. CASE RecheckJob
  BY <1>26, EditsKept DEF RecheckJob, work
<1>27. CASE MarkFailed
  BY <1>27, EditsKept DEF MarkFailed, work
<1>28. CASE Crash
  BY <1>28, EditsKept DEF Crash, work
<1>29. CASE UNCHANGED vars
  BY <1>29, EditsKept DEF vars, work
<1>30. ASSUME NEW g \in todo, RequestPlans(g) PROVE EditsStayInPlan'
  <2>1. tree' = BaseTree
    BY <1>30 DEF RequestPlans, PlanInv, BeforeEdits
  <2>2. ChangedFiles(tree') = {}
    BY <2>1 DEF ChangedFiles, BaseTree
  <2>. QED
    BY <2>2 DEF EditsStayInPlan, ChangedFiles
<1>31. ASSUME NEW g \in todo, RequestPatch(g, "editing") PROVE EditsStayInPlan'
  <2>1. pc = "editing" /\ plans' = plans /\ ValidPlanPaths(plans)
    BY <1>31 DEF RequestPatch, PlanInv
  <2>2. g \subseteq Planned(plans)
    BY <1>31, <2>1, RepairsArePlanned DEF PlanInv
  <2>. QED
    BY <1>31, <2>1, <2>2, PatchKeepsEdits
<1>32. ASSUME NEW g \in todo, RequestVerdicts(g) PROVE EditsStayInPlan'
  BY <1>32, EditsKept DEF RequestVerdicts
<1>33. ASSUME NEW g \in todo, RequestPatch(g, "repairing") PROVE EditsStayInPlan'
  <2>1. pc = "repairing" /\ plans' = plans /\ ValidPlanPaths(plans)
    BY <1>33 DEF RequestPatch, PlanInv
  <2>2. g \subseteq Planned(plans)
    BY <1>33, <2>1, RepairsArePlanned DEF PlanInv
  <2>. QED
    BY <1>33, <2>1, <2>2, PatchKeepsEdits
<1>. QED
  BY <1>1, <1>2, <1>3, <1>4, <1>5, <1>6, <1>7, <1>8, <1>9, <1>10, <1>11,
     <1>12, <1>13, <1>14, <1>15, <1>16, <1>17, <1>18, <1>19, <1>20, <1>21,
     <1>22, <1>23, <1>24, <1>25, <1>26, <1>27, <1>28, <1>29, <1>30, <1>31,
     <1>32, <1>33 DEF Next, User, ApiStep, WorkerStep, Ask, GenerateFix,
     RepairFix

(***************************************************************************)
(* What was reviewed stays what is offered while neither changes.          *)
(***************************************************************************)
LEMMA OfferKept ==
  ASSUME OfferedPatchWasReviewed,
         Offered' => /\ Offered
                     /\ UNCHANGED <<row.diff, row.changed, row.results>>
                     /\ UNCHANGED <<plans, check, judged, reviewed>>
  PROVE  OfferedPatchWasReviewed'
BY DEF OfferedPatchWasReviewed, IssueVerdict, ChangedFiles

(***************************************************************************)
(* A patch is offered when it has been reviewed, and nothing changes then. *)
(***************************************************************************)
LEMMA OfferedStep == TypeOK /\ StatusInv /\ ReviewInv /\ OfferedPatchWasReviewed /\ [Next]_vars => OfferedPatchWasReviewed'
<1>. SUFFICES ASSUME TypeOK, StatusInv, ReviewInv, OfferedPatchWasReviewed, [Next]_vars PROVE OfferedPatchWasReviewed'
  OBVIOUS
<1>1. CASE CreateFix
  BY <1>1, OfferKept DEF CreateFix, Goto, SetStatus, Offered, StatusInv, TypeOK, Row, work
<1>2. CASE DeleteReview
  BY <1>2, OfferKept DEF DeleteReview, Goto, SetStatus, Offered, StatusInv, TypeOK, Row, work
<1>3. CASE Publish
  BY <1>3, OfferKept DEF Publish, Goto, SetStatus, Offered, StatusInv, TypeOK, Row, work
<1>4. CASE AppendAuditLog
  BY <1>4, OfferKept DEF AppendAuditLog, Goto, SetStatus, Offered, StatusInv, TypeOK, Row, work
<1>5. CASE Enqueue
  BY <1>5, OfferKept DEF Enqueue, Goto, SetStatus, Offered, StatusInv, TypeOK, Row, work
<1>6. CASE PickUp
  BY <1>6, OfferKept DEF PickUp, Goto, SetStatus, Offered, StatusInv, TypeOK, Row, work
<1>7. CASE MarkStarted
  BY <1>7, OfferKept DEF MarkStarted, Goto, SetStatus, Offered, StatusInv, TypeOK, Row, work
<1>8. CASE PrepareWorkspace
  BY <1>8, OfferKept DEF PrepareWorkspace, Goto, SetStatus, Offered, StatusInv, TypeOK, Row, work
<1>9. CASE StartGenerating
  BY <1>9, OfferKept DEF StartGenerating, Goto, SetStatus, Offered, StatusInv, TypeOK, Row, work
<1>10. CASE LoadSelectedIssues
  BY <1>10, OfferKept DEF LoadSelectedIssues, Goto, SetStatus, Offered, StatusInv, TypeOK, Row, work
<1>11. CASE SaveIssuePlan
  BY <1>11 DEF SaveIssuePlan, Goto, Offered, OfferedPatchWasReviewed, StatusInv
<1>12. CASE ValidatePlanPaths
  BY <1>12, OfferKept DEF ValidatePlanPaths, Goto, SetStatus, Offered, StatusInv, TypeOK, Row, work
<1>13. CASE ApplyRuffFixes
  BY <1>13, OfferKept DEF ApplyRuffFixes, Goto, SetStatus, Offered, StatusInv, TypeOK, Row, work
<1>14. CASE SavePatch
  BY <1>14 DEF SavePatch, Goto, Offered, OfferedPatchWasReviewed, StatusInv, TypeOK, Row
<1>15. CASE StartValidating
  BY <1>15, OfferKept DEF StartValidating, Goto, SetStatus, Offered, StatusInv, TypeOK, Row, work
<1>16. CASE RunChecks
  BY <1>16 DEF RunChecks, Goto, Offered, OfferedPatchWasReviewed, StatusInv
<1>17. CASE Decide
  BY <1>17, OfferKept DEF Decide, Goto, SetStatus, Offered, StatusInv, TypeOK, Row, work
<1>18. CASE RepairsMade
  BY <1>18, OfferKept DEF RepairsMade, Goto, SetStatus, Offered, StatusInv, TypeOK, Row, work
<1>19. CASE AfterRepair
  BY <1>19, OfferKept DEF AfterRepair, Goto, SetStatus, Offered, StatusInv, TypeOK, Row, work
<1>20. CASE SaveReviewedPatch
  BY <1>20 DEF SaveReviewedPatch, Goto, Offered, OfferedPatchWasReviewed, StatusInv, TypeOK, Row
<1>21. CASE SaveIssueResults
  BY <1>21 DEF SaveIssueResults, Goto, Offered, OfferedPatchWasReviewed, StatusInv, TypeOK, Row
<1>22. CASE SaveValidation
  BY <1>22, OfferKept DEF SaveValidation, Goto, SetStatus, Offered, StatusInv, TypeOK, Row, work
<1>23. CASE OfferPatch
  <2>1. /\ row.diff = reviewed /\ row.changed = ChangedFiles(reviewed)
        /\ row.results = [i \in Issues |-> IssueVerdict(i)]
        /\ reviewed # BaseTree
    BY <1>23 DEF OfferPatch, Goto, ReviewInv
  <2>2. row.changed # {}
    BY <2>1, UnchangedIsBase DEF TypeOK
  <2>3. /\ UNCHANGED <<row.diff, row.changed, row.results, plans, check, judged, reviewed>>
    BY <1>23 DEF OfferPatch, SetStatus, TypeOK, Row, work
  <2>. QED
    BY <2>1, <2>2, <2>3 DEF OfferedPatchWasReviewed, IssueVerdict
<1>24. CASE Finish
  BY <1>24, OfferKept DEF Finish, Goto, SetStatus, Offered, StatusInv, TypeOK, Row, work
<1>25. CASE Raise
  BY <1>25, OfferKept DEF Raise, Goto, SetStatus, Offered, StatusInv, TypeOK, Row, work
<1>26. CASE RecheckJob
  BY <1>26, OfferKept DEF RecheckJob, Goto, SetStatus, Offered, StatusInv, TypeOK, Row, work
<1>27. CASE MarkFailed
  BY <1>27, OfferKept DEF MarkFailed, Goto, SetStatus, Offered, StatusInv, TypeOK, Row, work
<1>28. CASE Crash
  BY <1>28, OfferKept DEF Crash, Offered, work
<1>29. CASE UNCHANGED vars
  BY <1>29, OfferKept DEF vars, Goto, SetStatus, Offered, StatusInv, TypeOK, Row, work
<1>30. ASSUME NEW g \in todo, RequestPlans(g) PROVE OfferedPatchWasReviewed'
  BY <1>30 DEF RequestPlans, Offered, OfferedPatchWasReviewed, StatusInv
<1>31. ASSUME NEW g \in todo, RequestPatch(g, "editing") PROVE OfferedPatchWasReviewed'
  BY <1>31, OfferKept DEF RequestPatch, Offered
<1>32. ASSUME NEW g \in todo, RequestVerdicts(g) PROVE OfferedPatchWasReviewed'
  BY <1>32 DEF RequestVerdicts, Offered, OfferedPatchWasReviewed, StatusInv
<1>33. ASSUME NEW g \in todo, RequestPatch(g, "repairing") PROVE OfferedPatchWasReviewed'
  BY <1>33, OfferKept DEF RequestPatch, Offered
<1>. QED
  BY <1>1, <1>2, <1>3, <1>4, <1>5, <1>6, <1>7, <1>8, <1>9, <1>10, <1>11,
     <1>12, <1>13, <1>14, <1>15, <1>16, <1>17, <1>18, <1>19, <1>20, <1>21,
     <1>22, <1>23, <1>24, <1>25, <1>26, <1>27, <1>28, <1>29, <1>30, <1>31,
     <1>32, <1>33 DEF Next, User, ApiStep, WorkerStep, Ask, GenerateFix,
     RepairFix

-----------------------------------------------------------------------------
(* The invariant and the theorems.                                         *)

(***************************************************************************)
(* A job that does not exist yet satisfies the invariant.                  *)
(***************************************************************************)
LEMMA InitInv == Init => IInv
<1>. SUFFICES ASSUME Init PROVE IInv
  OBVIOUS
<1>1. TypeOK
  <2>1. row \in Row /\ pc \in Step
    BY DEF Init, Row, Status, Step
  <2>2. plans \in [Issues -> Plan] /\ BaseTree \in Trees
    BY ConstantsAssumption DEF Init, NoPlan, Plan, PlanStatus, Trees, BaseTree
  <2>3. check \in [Issues -> Verdict] /\ judged \in [Issues -> Verdict]
    BY DEF Init, Verdict
  <2>4. /\ todo \subseteq SUBSET Issues /\ try \in 0..1 /\ changed \subseteq Paths
        /\ round \in 0..MaxRepairs /\ crashes \in 0..MaxCrashes
    BY ConstantsAssumption DEF Init
  <2>5. grouped \in BOOLEAN
    BY Zenon DEF Init
  <2>. QED
    BY <2>1, <2>2, <2>3, <2>4, <2>5 DEF Init, TypeOK
<1>2. StatusInv /\ PlanInv /\ ReviewInv
  BY DEF Init, StatusInv, PlanInv, ReviewInv, BeforeEdits
<1>3. EditsStayInPlan
  BY DEF Init, EditsStayInPlan, ChangedFiles, BaseTree
<1>4. OfferedPatchWasReviewed
  BY DEF Init, OfferedPatchWasReviewed, Offered
<1>. QED
  BY <1>1, <1>2, <1>3, <1>4 DEF IInv

(***************************************************************************)
(* The inductive invariant always holds.                                   *)
(***************************************************************************)
THEOREM IInvAlways == Spec => []IInv
<1>1. IInv /\ [Next]_vars => IInv'
  BY TypeStep, StatusStep, PlanStep, ReviewStep, EditsStep, OfferedStep DEF IInv
<1>. QED
  BY InitInv, <1>1, PTL DEF Spec

(***************************************************************************)
(* Every variable keeps its type: in particular the number of repairs      *)
(* stays within its bound.                                                 *)
(***************************************************************************)
THEOREM TypeCorrect == Spec => []TypeOK
<1>1. IInv => TypeOK
  BY DEF IInv
<1>. QED
  BY IInvAlways, <1>1, PTL

(***************************************************************************)
(* A patch is offered only with the verdicts of a verification of itself.  *)
(***************************************************************************)
THEOREM PatchReviewedCorrect == Spec => []OfferedPatchWasReviewed
<1>1. IInv => OfferedPatchWasReviewed
  BY DEF IInv
<1>. QED
  BY IInvAlways, <1>1, PTL

(***************************************************************************)
(* "fixed" needs a plan and every check there is.                          *)
(***************************************************************************)
THEOREM FixedCorrect == Spec => []FixedByEveryCheck
<1>1. IInv => FixedByEveryCheck
  <2>. SUFFICES ASSUME IInv, Offered, NEW i \in Issues, row.results[i] = "fixed"
                PROVE  /\ plans[i].status = "planned"
                       /\ judged[i] = "fixed"
                       /\ i \in Checked => check[i] = "fixed"
    BY DEF FixedByEveryCheck
  <2>1. TypeOK /\ row.results = [j \in Issues |-> IssueVerdict(j)]
    BY DEF IInv, OfferedPatchWasReviewed
  <2>2. IssueVerdict(i) = "fixed"
    BY <2>1
  <2>. QED
    BY <2>1, <2>2, VerdictOfIssue
<1>. QED
  BY IInvAlways, <1>1, PTL

(***************************************************************************)
(* Files are edited only where a plan or Ruff may, and tests never.        *)
(***************************************************************************)
THEOREM EditsCorrect == Spec => []EditsStayInPlan
<1>1. IInv => EditsStayInPlan
  BY DEF IInv
<1>. QED
  BY IInvAlways, <1>1, PTL

(***************************************************************************)
(* A step that leaves the row alone is not seen by the client.             *)
(***************************************************************************)
LEMMA SameJob ==
  ASSUME row' = row, pc = "new" <=> pc' = "new"
  PROVE  UNCHANGED <<JobStatus, JobOffer>>
BY DEF JobStatus, JobOffer, Offered

(***************************************************************************)
(* Each step of the pipeline is one of FixLifecycle, or none.              *)
(***************************************************************************)
LEMMA LifecycleStep ==
  TypeOK /\ StatusInv /\ OfferedPatchWasReviewed' /\ [Next]_vars
    => [Lifecycle!Next]_<<JobStatus, JobOffer>>
<1>. SUFFICES ASSUME TypeOK, StatusInv, OfferedPatchWasReviewed', [Next]_vars
                PROVE  [Lifecycle!Next]_<<JobStatus, JobOffer>>
  OBVIOUS
<1>1. CASE CreateFix
  <2>1. JobStatus = "NONE" /\ JobStatus' = "PENDING"
    BY <1>1 DEF CreateFix, Goto, JobStatus, TypeOK, Row, StatusInv
  <2>2. JobOffer = None /\ JobOffer' = None
    BY <1>1 DEF CreateFix, Goto, JobOffer, Offered, TypeOK, Row, StatusInv
  <2>. QED
    BY <2>1, <2>2 DEF Lifecycle!Next, Lifecycle!Advance, Lifecycle!After
<1>2. CASE DeleteReview
  <2>1. JobStatus \notin {"NONE", "DELETED"} /\ JobStatus' = "DELETED"
    BY <1>2 DEF DeleteReview, JobStatus, TypeOK, Row, Status, StatusInv
  <2>2. JobOffer' = None
    BY <1>2 DEF DeleteReview, JobOffer, Offered, TypeOK, Row
  <2>. QED
    BY <2>1, <2>2 DEF Lifecycle!Next, Lifecycle!Delete
<1>3. CASE Publish
  <2>1. JobStatus = "WAITING_APPROVAL" /\ JobStatus' = "APPROVED"
    BY <1>3 DEF Publish, SetStatus, JobStatus, TypeOK, Row, StatusInv
  <2>2. JobOffer' = JobOffer
    BY <1>3 DEF Publish, SetStatus, JobOffer, Offered, TypeOK, Row
  <2>. QED
    BY <2>1, <2>2 DEF Lifecycle!Next, Lifecycle!Publish
<1>4. CASE AppendAuditLog
  BY <1>4, SameJob DEF AppendAuditLog, Goto
<1>5. CASE Enqueue
  BY <1>5, SameJob DEF Enqueue, Goto
<1>6. CASE PickUp
  BY <1>6, SameJob DEF PickUp, Goto
<1>7. CASE MarkStarted
  <2>1. JobStatus = "PENDING" /\ JobStatus' = "PREPARING"
    BY <1>7 DEF MarkStarted, Goto, SetStatus, JobStatus, TypeOK, Row, StatusInv
  <2>2. JobOffer = None /\ JobOffer' = None
    BY <2>1 DEF JobStatus, JobOffer, Offered
  <2>. QED
    BY <2>1, <2>2 DEF Lifecycle!Next, Lifecycle!Advance, Lifecycle!After
<1>8. CASE PrepareWorkspace
  BY <1>8, SameJob DEF PrepareWorkspace, Goto
<1>9. CASE StartGenerating
  <2>1. JobStatus = "PREPARING" /\ JobStatus' = "GENERATING_PATCH"
    BY <1>9 DEF StartGenerating, Goto, SetStatus, JobStatus, TypeOK, Row, StatusInv
  <2>2. JobOffer = None /\ JobOffer' = None
    BY <2>1 DEF JobStatus, JobOffer, Offered
  <2>. QED
    BY <2>1, <2>2 DEF Lifecycle!Next, Lifecycle!Advance, Lifecycle!After
<1>10. CASE LoadSelectedIssues
  BY <1>10, SameJob DEF LoadSelectedIssues, Goto
<1>11. CASE SaveIssuePlan
  BY <1>11, SameJob DEF SaveIssuePlan, Goto
<1>12. CASE ValidatePlanPaths
  BY <1>12, SameJob DEF ValidatePlanPaths, Goto
<1>13. CASE ApplyRuffFixes
  BY <1>13, SameJob DEF ApplyRuffFixes, Goto
<1>14. CASE SavePatch
  <2>1. row.status = row'.status /\ row.exists = row'.exists /\ pc # "new" /\ pc' # "new"
    BY <1>14 DEF SavePatch, Goto, TypeOK, Row
  <2>2. ~Offered
    BY <1>14 DEF SavePatch, Goto, Offered, StatusInv
  <2>. QED
    BY <2>1, <2>2 DEF JobStatus, JobOffer, Offered
<1>15. CASE StartValidating
  <2>1. JobStatus = "GENERATING_PATCH" /\ JobStatus' = "VALIDATING"
    BY <1>15 DEF StartValidating, Goto, SetStatus, JobStatus, TypeOK, Row, StatusInv
  <2>2. JobOffer = None /\ JobOffer' = None
    BY <2>1 DEF JobStatus, JobOffer, Offered
  <2>. QED
    BY <2>1, <2>2 DEF Lifecycle!Next, Lifecycle!Advance, Lifecycle!After
<1>16. CASE RunChecks
  BY <1>16, SameJob DEF RunChecks, Goto
<1>17. CASE Decide
  BY <1>17, SameJob DEF Decide, Goto
<1>18. CASE RepairsMade
  BY <1>18, SameJob DEF RepairsMade, Goto
<1>19. CASE AfterRepair
  BY <1>19, SameJob DEF AfterRepair, Goto
<1>20. CASE SaveReviewedPatch
  <2>1. row.status = row'.status /\ row.exists = row'.exists /\ pc # "new" /\ pc' # "new"
    BY <1>20 DEF SaveReviewedPatch, Goto, TypeOK, Row
  <2>2. ~Offered
    BY <1>20 DEF SaveReviewedPatch, Goto, Offered, StatusInv
  <2>. QED
    BY <2>1, <2>2 DEF JobStatus, JobOffer, Offered
<1>21. CASE SaveIssueResults
  <2>1. row.status = row'.status /\ row.exists = row'.exists /\ pc # "new" /\ pc' # "new"
    BY <1>21 DEF SaveIssueResults, Goto, TypeOK, Row
  <2>2. ~Offered
    BY <1>21 DEF SaveIssueResults, Goto, Offered, StatusInv
  <2>. QED
    BY <2>1, <2>2 DEF JobStatus, JobOffer, Offered
<1>22. CASE SaveValidation
  BY <1>22, SameJob DEF SaveValidation, Goto
<1>23. CASE OfferPatch
  <2>1. JobStatus = "VALIDATING" /\ JobStatus' = "WAITING_APPROVAL" /\ Offered'
    BY <1>23 DEF OfferPatch, Goto, SetStatus, JobStatus, Offered, TypeOK, Row, StatusInv
  <2>2. row'.diff \in Trees /\ row'.results \in [Issues -> Verdict]
    <3>1. row'.diff = reviewed' /\ row'.results = [i \in Issues |-> IssueVerdict(i)']
      BY <2>1 DEF OfferedPatchWasReviewed
    <3>2. reviewed' \in Trees
      BY <1>23 DEF OfferPatch, TypeOK, work
    <3>3. \A i \in Issues : IssueVerdict(i)' = IssueVerdict(i)
      BY <1>23 DEF OfferPatch, IssueVerdict, work
    <3>4. \A i \in Issues : IssueVerdict(i) \in Verdict
      BY VerdictOfIssue
    <3>. QED
      BY <3>1, <3>2, <3>3, <3>4
  <2>3. JobOffer' # None
    BY <2>1, <2>2, ConstantsAssumption DEF JobOffer
  <2>. QED
    BY <2>1, <2>3 DEF Lifecycle!Next, Lifecycle!Offer
<1>24. CASE Finish
  BY <1>24, SameJob DEF Finish, Goto
<1>25. CASE Raise
  BY <1>25, SameJob DEF Raise, TrySteps
<1>26. CASE RecheckJob
  BY <1>26, SameJob DEF RecheckJob, Goto
<1>27. CASE MarkFailed
  <2>1. CASE row.exists
    <3>1. JobStatus \notin {"NONE", "DELETED"} /\ JobStatus' = "FAILED"
      BY <1>27, <2>1 DEF MarkFailed, Goto, JobStatus, TypeOK, Row, Status
    <3>2. JobOffer' = None
      BY <3>1 DEF JobStatus, JobOffer, Offered
    <3>. QED
      BY <3>1, <3>2 DEF Lifecycle!Next, Lifecycle!Fail
  <2>2. CASE ~row.exists
    BY <1>27, <2>2, SameJob DEF MarkFailed, Goto
  <2>. QED
    BY <2>1, <2>2
<1>28. CASE Crash
  BY <1>28, SameJob DEF Crash, Running, ApiSteps, TrySteps, FailureSteps
<1>29. CASE UNCHANGED vars
  BY <1>29, SameJob DEF vars, Goto
<1>30. ASSUME NEW g \in todo, RequestPlans(g) PROVE [Lifecycle!Next]_<<JobStatus, JobOffer>>
  BY <1>30, SameJob DEF RequestPlans
<1>31. ASSUME NEW g \in todo, RequestPatch(g, "editing") PROVE [Lifecycle!Next]_<<JobStatus, JobOffer>>
  BY <1>31, SameJob DEF RequestPatch
<1>32. ASSUME NEW g \in todo, RequestVerdicts(g) PROVE [Lifecycle!Next]_<<JobStatus, JobOffer>>
  BY <1>32, SameJob DEF RequestVerdicts
<1>33. ASSUME NEW g \in todo, RequestPatch(g, "repairing") PROVE [Lifecycle!Next]_<<JobStatus, JobOffer>>
  BY <1>33, SameJob DEF RequestPatch
<1>. QED
  BY <1>1, <1>2, <1>3, <1>4, <1>5, <1>6, <1>7, <1>8, <1>9, <1>10, <1>11,
     <1>12, <1>13, <1>14, <1>15, <1>16, <1>17, <1>18, <1>19, <1>20, <1>21,
     <1>22, <1>23, <1>24, <1>25, <1>26, <1>27, <1>28, <1>29, <1>30, <1>31,
     <1>32, <1>33 DEF Next, User, ApiStep, WorkerStep, Ask, GenerateFix,
     RepairFix

(***************************************************************************)
(* The pipeline implements the lifecycle its clients rely on.              *)
(***************************************************************************)
THEOREM LifecycleCorrect == Spec => KeepsLifecycle
<1>1. Init => Lifecycle!Init
  BY DEF Init, Lifecycle!Init, JobStatus, JobOffer, Offered
<1>2. IInv /\ IInv' /\ [Next]_vars => [Lifecycle!Next]_<<JobStatus, JobOffer>>
  BY LifecycleStep DEF IInv
<1>3. []IInv /\ [][Next]_vars => [][Lifecycle!Next]_<<JobStatus, JobOffer>>
  BY <1>2, PTL
<1>. QED
  BY IInvAlways, <1>1, <1>3, PTL DEF Spec, KeepsLifecycle, Lifecycle!Spec, Lifecycle!vars

==============================================================================
