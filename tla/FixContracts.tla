---------------------------- MODULE FixContracts ----------------------------
(***************************************************************************)
(* The contracts the fix pipeline holds its model calls to, as operators:  *)
(* which plans, patches and verdicts it accepts, which files a patch may   *)
(* touch, and how independent verdicts are combined.  A plan, a patch and  *)
(* a verdict are what the model returned for one issue after parsing.      *)
(***************************************************************************)
EXTENDS Naturals, FiniteSets

CONSTANTS Issues,       \* the findings selected for the fix
          Paths,        \* the files of the repository
          Known,        \* Known[i]: source_files collected for issue i
          Truncated,    \* issues whose context was cut or is incomplete
          Support,      \* manifests and configuration templates
          ReadOnly,     \* instruction files: AGENTS.md
          Tests,        \* test files
          Contents,     \* what a file may contain
          Base          \* what it contains at the reviewed commit

PlanStatus == {"planned", "not_fixable", "uncertain"}

Plan == [status   : PlanStatus,
         editable : SUBSET Paths,
         context  : SUBSET Paths,
         complete : BOOLEAN]   \* contracts and both kinds of scenarios are there

Verdict == {"fixed", "unresolved", "uncertain"}

Trees == [Paths -> Contents]

BaseTree == [p \in Paths |-> Base]

-----------------------------------------------------------------------------
(***************************************************************************)
(* Slips (see README): contracts with a mistake.                           *)
(***************************************************************************)

\* Whatever the plans mention may be edited.
AcceptableIfMentioned(plans, g, edit) ==
  edit[1] \in UNION {plans[i].editable \cup plans[i].context : i \in g} \ Tests

\* The first of the two verdicts decides unless it is uncertain.
FirstCertain(a, b) == IF a = "uncertain" THEN b ELSE a

-----------------------------------------------------------------------------

Planned(plans) == {i \in Issues : plans[i].status = "planned"}

\* A plan that gives up is acceptable; one made on half the context is not.
PlanSatisfiesContract(i, plan) ==
  plan.status = "planned" =>
    i \notin Truncated /\ plan.complete /\ plan.editable \cap ReadOnly = {}

\* Generation and verification always see the project's manifests.
WithSupportContext(i, plan) ==
  [plan EXCEPT !.context = @ \cup (Known[i] \cap Support)]

ValidPlanPaths(plans) ==
  \A i \in Issues :
    /\ plans[i].editable \cup plans[i].context \subseteq UNION {Known[j] : j \in Issues}
    /\ plans[i].status = "planned" => plans[i].editable # {}
    /\ plans[i].editable \cap ReadOnly = {}

PlanPaths(plan) == plan.editable \cup plan.context

EditablePaths(plans, g) == UNION {plans[i].editable : i \in g}

Overlap(plans, i, j) == PlanPaths(plans[i]) \cap PlanPaths(plans[j]) # {}

(***************************************************************************)
(* Plans that share a file are patched together: from one plan the code    *)
(* adds overlapping plans until none is left, which gives the smallest set *)
(* that has it and every plan of S overlapping one of its own.             *)
(***************************************************************************)
Closed(plans, S) ==
  {C \in SUBSET S : \A h \in C, j \in S : Overlap(plans, h, j) => j \in C}

Component(plans, S, i) ==
  {j \in S : \A C \in Closed(plans, S) : i \in C => j \in C}

Components(plans, S) == {Component(plans, S, i) : i \in S}

\* Repair covers the failed plans and those that share a file with one.
PlansToRepair(plans, failed) ==
  {i \in Planned(plans) : i \in failed \/ \E j \in failed : Overlap(plans, i, j)}

-----------------------------------------------------------------------------
(***************************************************************************)
(* A patch is a set of <<path, content>> pairs.  The code applies them in  *)
(* the order returned until one is refused, so a refused patch leaves any  *)
(* part of its acceptable pairs behind.                                    *)
(***************************************************************************)

Patches == {e \in SUBSET (Paths \X Contents) : Cardinality(e) <= 2}

NoDuplicates(patch) == \A x, y \in patch : x[1] = y[1] => x = y

Acceptable(plans, g, edit) == edit[1] \in EditablePaths(plans, g) \ Tests

Write(tree, patch) ==
  [p \in Paths |-> IF \E x \in patch : x[1] = p
                     THEN (CHOOSE x \in patch : x[1] = p)[2]
                     ELSE tree[p]]

ChangedFiles(tree) == {p \in Paths : tree[p] # Base}

-----------------------------------------------------------------------------
(***************************************************************************)
(* Verdicts.  The semantic verifier must cite a file of the plan for every *)
(* "fixed"; of two independent checks the less optimistic one counts.      *)
(***************************************************************************)

Answer == [verdict : Verdict, evidence : {"none", "known", "unknown"}]

ValidAnswer(a) ==
  /\ a.verdict = "fixed" => a.evidence # "none"
  /\ a.evidence # "unknown"

Priority == [fixed |-> 0, uncertain |-> 1, unresolved |-> 2]

CombineLogicResults(a, b) == IF Priority[a] >= Priority[b] THEN a ELSE b

=============================================================================
