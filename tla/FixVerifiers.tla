---------------------------- MODULE FixVerifiers ----------------------------
(***************************************************************************)
(* The deterministic half of fix verification, as operators: what each     *)
(* dedicated verifier concludes from what it finds in the files of a plan, *)
(* what an analyzer's exit code says, and what executed scenarios decide.  *)
(*                                                                         *)
(* An observation is what a verifier collects from the parsed sources: for *)
(* instance the JWT decode calls by how they restrict algorithms.  Also    *)
(* here: which files the context of an issue is made of.                   *)
(***************************************************************************)
EXTENDS Naturals, FiniteSets

Route == [sensitive : BOOLEAN, admin : BOOLEAN]   \* one route handler in context

RequestModel == [internal : BOOLEAN, request : BOOLEAN, sensitive : BOOLEAN]

Observation ==
  [probe : {"jwt"}, calls : SUBSET {"allowlist", "none", "missing"}, handled : BOOLEAN]
  \cup [probe : {"mass_assignment"}, models : SUBSET RequestModel]
  \cup [probe : {"inventory"}, mutation : BOOLEAN, lower : BOOLEAN, guard : BOOLEAN]
  \cup [probe : {"response", "rbac"}, routes : SUBSET Route]
  \cup [probe : {"randomness"}, predictable : BOOLEAN, secure : BOOLEAN]
  \cup [probe : {"redirect"}, sink : BOOLEAN, parsed : BOOLEAN,
        relative : BOOLEAN, backslash : BOOLEAN]
  \cup [probe : {"rule"}, exit : 0..2]

-----------------------------------------------------------------------------
(***************************************************************************)
(* Dedicated verifiers, each in the order of its returns.                  *)
(***************************************************************************)

VerifyJwt(o) ==
  IF o.calls = {} THEN "uncertain"
  ELSE IF o.calls \cap {"none", "missing"} # {} \/ ~o.handled THEN "unresolved"
  ELSE "fixed"

VerifyMassAssignment(o) ==
  LET inspected == {m \in o.models : m.request /\ ~m.internal} IN
  IF \E m \in inspected : m.sensitive THEN "unresolved"
  ELSE IF inspected = {} THEN "uncertain" ELSE "fixed"

VerifyInventory(o) ==
  IF ~o.mutation THEN "uncertain"
  ELSE IF ~(o.lower /\ o.guard) THEN "unresolved" ELSE "fixed"

VerifySensitiveResponse(o) ==
  IF \E x \in o.routes : x.sensitive /\ ~x.admin THEN "unresolved"
  ELSE IF o.routes = {} THEN "uncertain" ELSE "fixed"

VerifyRandomness(o) ==
  IF o.predictable THEN "unresolved" ELSE IF ~o.secure THEN "uncertain" ELSE "fixed"

VerifyOpenRedirect(o) ==
  IF ~o.sink THEN "uncertain"
  ELSE IF ~(o.parsed /\ o.relative /\ o.backslash) THEN "unresolved" ELSE "fixed"

VerifyRbac(o) ==
  LET sensitive == {x \in o.routes : x.sensitive} IN
  IF \E x \in sensitive : ~x.admin THEN "unresolved"
  ELSE IF sensitive = {} THEN "uncertain" ELSE "fixed"

RunStaticRuleCheck(o) ==
  CASE o.exit = 0 -> "fixed"
    [] o.exit = 1 -> "unresolved"
    [] OTHER      -> "uncertain"

Verify(o) ==
  CASE o.probe = "jwt"             -> VerifyJwt(o)
    [] o.probe = "mass_assignment" -> VerifyMassAssignment(o)
    [] o.probe = "inventory"       -> VerifyInventory(o)
    [] o.probe = "response"        -> VerifySensitiveResponse(o)
    [] o.probe = "rbac"            -> VerifyRbac(o)
    [] o.probe = "randomness"      -> VerifyRandomness(o)
    [] o.probe = "redirect"        -> VerifyOpenRedirect(o)
    [] o.probe = "rule"            -> RunStaticRuleCheck(o)

-----------------------------------------------------------------------------
(***************************************************************************)
(* Scenario evidence: one result per executed scenario, on the reviewed    *)
(* commit (base) and on the patch.                                         *)
(***************************************************************************)

Unrun == {"skipped", "not_run"}

Scenario == [kind    : {"exploit", "preserved", "related"},
             base    : {"passed", "failed", "skipped"},
             patched : {"passed", "failed", "skipped"}]

Required(scenarios) == {s \in scenarios : s.kind \in {"exploit", "preserved"}}

Unavailable(scenarios) ==
  \/ Required(scenarios) = {}
  \/ \E s \in scenarios : s.base \in Unrun \/ s.patched \in Unrun

Regressed(scenarios) ==
  \E s \in scenarios : s.kind = "related" /\ s.base = "passed" /\ s.patched = "failed"

\* The first decision that applies replaces the verdict.
EnforceScenarioContract(verdict, scenarios) ==
  LET exploits  == {s \in scenarios : s.kind = "exploit"}
      preserved == {s \in scenarios : s.kind = "preserved"}
  IN IF \/ Unavailable(scenarios) \/ exploits = {} \/ preserved = {}
        \/ \E s \in exploits : s.base # "failed"
        \/ \E s \in preserved : s.base # "passed"
       THEN "uncertain"
     ELSE IF \/ \E s \in Required(scenarios) : s.patched # "passed"
             \/ Regressed(scenarios)
       THEN "unresolved"
     ELSE IF verdict = "unresolved" THEN verdict ELSE "fixed"

-----------------------------------------------------------------------------
(***************************************************************************)
(* The context of an issue: the files it names, the manifests next to      *)
(* them, the files that mention them and the files that mention those, cut *)
(* at a limit in this order (within a class, by score).                    *)
(***************************************************************************)

IsTruncated(requested, existing, all, cap) ==
  Cardinality(existing) < Cardinality(requested) \/ Cardinality(all) > cap

\* mentions: pairs <<f, g>> where file f mentions a module or symbol of g.
FirstHop(files, mentions, seeds) ==
  {f \in files \ seeds : \E g \in seeds : <<f, g>> \in mentions}

RelatedSourcePaths(files, mentions, seeds) ==
  LET first == FirstHop(files, mentions, seeds)
  IN first \cup FirstHop(files \ first, mentions, seeds \cup first)

\* Every context the code may build of these files, with its truncation flag.
Contexts(requested, files, support, mentions, cap) ==
  LET existing == requested \cap files
      first    == FirstHop(files, mentions, existing)
      all      == existing \cup support \cup RelatedSourcePaths(files, mentions, existing)
      class(f) == CASE f \in existing -> 1 [] f \in support -> 2
                    [] f \in first -> 3 [] OTHER -> 4
  IN {[files     |-> chosen,
       truncated |-> IsTruncated(requested, existing, all, cap)] :
        chosen \in {c \in SUBSET all :
          /\ Cardinality(c) = IF Cardinality(all) < cap THEN Cardinality(all) ELSE cap
          /\ \A f \in c, g \in all \ c : class(f) <= class(g)}}

=============================================================================
