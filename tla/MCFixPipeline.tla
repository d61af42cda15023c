--------------------------- MODULE MCFixPipeline ---------------------------
(***************************************************************************)
(* Model checking instance of FixPipeline: two issues in two source files  *)
(* next to a test and an instruction file.  The first is a Ruff finding    *)
(* with an automatic fix, the second only the model can judge.  The        *)
(* assumptions check the operators of FixVerifiers over bounded inputs.    *)
(***************************************************************************)
EXTENDS FixPipeline

CONSTANTS i1, i2, a, b, t, r

MCFile == [i \in Issues |-> IF i = i1 THEN a ELSE b]

\* The context of i1 is its file and the test that mentions it.
MCKnown == [i \in Issues |-> IF i = i1 THEN {a, t} ELSE {b, r}]

Planning(E, C) == [status |-> "planned", editable |-> E, context |-> C, complete |-> TRUE]

MCOffers == {Planning({a}, {b}), Planning({b}, {a}), Planning({b, t}, {}),
             Planning({r}, {}), [NoPlan EXCEPT !.context = {b}]}

MCSights == {[probe |-> "rule", exit |-> n] : n \in 0..2}

-----------------------------------------------------------------------------

ScenarioSets == {{x, y, z} : x, y, z \in Scenario}

(***************************************************************************)
(* _enforce_scenario_contract says "fixed" exactly when an exploit was     *)
(* reproduced on the reviewed commit and stopped by the patch, a behaviour *)
(* to preserve passed on both, nothing was skipped and nothing regressed,  *)
(* and the verdict so far was not "unresolved".                            *)
(***************************************************************************)
Stopped(x) == x.base = "failed" /\ x.patched = "passed"
Kept(x)    == x.base = "passed" /\ x.patched = "passed"

ASSUME ScenarioContract ==
  \A S \in ScenarioSets, v \in Verdict :
    EnforceScenarioContract(v, S) = "fixed" <=>
      /\ v # "unresolved"
      /\ \E x \in S : x.kind = "exploit"
      /\ \E x \in S : x.kind = "preserved"
      /\ \A x \in S : /\ x.kind = "exploit" => Stopped(x)
                      /\ x.kind = "preserved" => Kept(x)
                      /\ x.base # "skipped" /\ x.patched # "skipped"
                      /\ ~(x.base = "passed" /\ x.patched = "failed")

(***************************************************************************)
(* More findings of the dangerous kind never turn a verdict into "fixed".  *)
(***************************************************************************)
ASSUME RiskIsMonotone ==
  /\ \A c \in SUBSET {"allowlist", "none", "missing"}, bad \in {"none", "missing"}, h \in BOOLEAN :
       Verify([probe |-> "jwt", calls |-> c \cup {bad}, handled |-> h]) = "unresolved"
  /\ \A R \in SUBSET Route, x \in Route, p \in {"response", "rbac"} :
       x.sensitive /\ ~x.admin =>
         Verify([probe |-> p, routes |-> R \cup {x}]) = "unresolved"
  /\ \A S \in SUBSET RequestModel, m \in RequestModel :
       m.sensitive /\ m.request /\ ~m.internal =>
         Verify([probe |-> "mass_assignment", models |-> S \cup {m}]) = "unresolved"

(***************************************************************************)
(* For every small cap, set of support files and graph of two              *)
(* mentions: a context that is not marked truncated holds every requested  *)
(* file and everything within two hops of one, and the cap never pushes a  *)
(* requested file out for another.                                         *)
(***************************************************************************)
ASSUME ContextIsComplete ==
  \A requested \in {{a}, {a, b}}, files \in {Paths, Paths \ {b}, Paths \ {t}}, cap \in 2..3,
     support \in SUBSET {r}, mentions \in {{e, f} : e, f \in Paths \X Paths} :
    \A c \in Contexts(requested, files, support, mentions, cap) :
      /\ Cardinality(c.files) <= cap
      /\ requested \cap files \subseteq c.files \/ c.files \subseteq requested
      /\ ~c.truncated =>
           /\ requested \cup support \subseteq c.files
           /\ \A f \in files, g \in requested, h \in files :
                {<<f, h>>, <<h, g>>} \subseteq mentions \/ <<f, g>> \in mentions
                  => f \in c.files

\* The instance's contexts are contexts the code builds of these files.
ASSUME KnownIsAContext ==
  /\ [files |-> MCKnown[i1], truncated |-> FALSE]
       \in Contexts({a}, Paths, {}, {<<t, a>>}, 4)
  /\ [files |-> MCKnown[i2], truncated |-> FALSE]
       \in Contexts({b}, Paths, {}, {<<r, b>>}, 4)

=============================================================================
