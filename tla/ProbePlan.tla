------------------------------- MODULE ProbePlan -------------------------------
(***************************************************************************)
(* Which probes a review asks: the baseline probes, one for each of the    *)
(* files most worth a look of their own, and one for each roadmap rule.    *)
(*                                                                         *)
(* Paths are listed in alphabetical order.  A rule has a rank: its place   *)
(* among the rules sorted by skill group, check type and id.               *)
(***************************************************************************)
EXTENDS Selection

CONSTANTS NoValue,
          Paths,        \* the files of the repository, in order of their paths
          Hints,        \* what the path of a file contains, as words
          Slug,         \* the slug of a path or of the id of a rule
          Baseline,     \* BASELINE_PROBES, a sequence
          MaxFileAudits \* MAX_FILE_AUDIT_ITEMS

ASSUME PlanAssumption ==
  /\ Paths \in Seq(ToSet(Paths)) /\ NoValue \notin ToSet(Paths)
  /\ Baseline \in Seq(ToSet(Baseline))
  /\ \A probe \in ToSet(Baseline) :
       probe.lane = "defect" /\ probe.scope = NoValue /\ probe.topK \in Nat
  /\ MaxFileAudits \in Nat

CategoryTopK ==
  [security |-> 6, bug |-> 5, performance |-> 5, maintainability |-> 4, style |-> 3]

\* _baseline
BaselineProbe(id, category, priority, risk) ==
  [id |-> id, lane |-> "defect", category |-> category, priority |-> priority,
   risk |-> IF risk = NoValue THEN category ELSE risk,
   topK |-> CategoryTopK[category], scope |-> NoValue, symbolic |-> FALSE]

-----------------------------------------------------------------------------
(***************************************************************************)
(* Files worth reviewing: those the structure analysis marked and those    *)
(* with chunks.                                                            *)
(***************************************************************************)

RisksOf(file, docs) == {docs[k].risk : k \in {j \in DOMAIN docs : docs[j].file = file}}

IsSecurityPath(file) == Hints[file] \cap {"auth", "security", "crypto", "middleware"} # {}

FilePriority(file, risks) ==
  IF risks \cap {"security", "api"} # {} \/ IsSecurityPath(file) THEN "high"
  ELSE IF risks \cap {"database", "config"} # {} THEN "medium" ELSE "low"

FileRiskArea(file, risks) ==
  LET areas == Chosen(<<"security", "database", "api", "config">>, LAMBDA a :
        a \in risks \/ (a = "security" /\ IsSecurityPath(file)))
  IN IF areas = <<>> THEN "general" ELSE areas[1]

FilesToReview(marked, docs) ==
  Chosen(Paths, LAMBDA f : f \in marked \cup {docs[k].file : k \in DOMAIN docs})

CategoryForRisk(risk) ==
  CASE risk \in DOMAIN CategoryTopK -> risk
    [] risk = "api"      -> "bug"
    [] risk = "database" -> "performance"
    [] risk = "config"   -> "security"
    [] OTHER             -> "maintainability"

CoverageProbe(file, risks) ==
  [id |-> "coverage." \o Slug[file], lane |-> "coverage",
   category |-> CategoryForRisk(FileRiskArea(file, risks)),
   priority |-> FilePriority(file, risks), risk |-> FileRiskArea(file, risks),
   topK |-> 6, scope |-> file, symbolic |-> FALSE]

\* Files of high priority first, of each priority in order of their paths.
CoverageProbes(marked, docs) ==
  LET files == FilesToReview(marked, docs)
      of(priority) == Chosen(files, LAMBDA f : FilePriority(f, RisksOf(f, docs)) = priority)
      audited == of("high") \o of("medium")
  IN [k \in 1..Min({Len(audited), MaxFileAudits}) |->
        CoverageProbe(audited[k], RisksOf(audited[k], docs))]

-----------------------------------------------------------------------------
(***************************************************************************)
(* Roadmap rules.                                                          *)
(***************************************************************************)

\* The rules of the weeks a profile includes; NoValue: of all weeks.
Applicable(rules, profile) ==
  IF profile = NoValue THEN {}
  ELSE {r \in rules : r.week = "GEN" \/ profile.weeks = NoValue \/ r.week \in profile.weeks}

\* terms: the words of its skill group, requirement, hint and check type.
ReviewCategory(rule) ==
  LET says(words) == rule.terms \cap words # {} IN
  IF says({"jwt", "auth", "password", "token", "secret"}) THEN "security"
  ELSE IF says({"cache", "ttl", "redis", "performance"}) THEN "performance"
  ELSE IF says({"websocket", "sse", "pub/sub", "realtime"}) THEN "realtime"
  ELSE IF says({"rag", "llm", "memory", "retriev", "chatbot"}) THEN "ai"
  ELSE IF rule.check \in {"required_dependency", "required_folder", "required_file",
                          "required_config_key", "min_file_count"} THEN "structure"
  ELSE "requirement"

\* _priority
RulePriority(stated) ==
  CASE stated \in {"p0", "critical", "high"} -> "high"
    [] stated \in {"p1", "medium"}           -> "medium"
    [] OTHER                                 -> "low"

PriorityRank(priority) == CASE priority = "high" -> 0 [] priority = "medium" -> 1 [] OTHER -> 2

RuleBefore(a, b) ==
  LET place(r) == <<IF r.needsAi THEN 0 ELSE 1, PriorityRank(RulePriority(r.priority)), r.rank>>
      p == place(a)
      q == place(b)
  IN \E k \in 1..3 : p[k] < q[k] /\ \A j \in 1..(k-1) : p[j] = q[j]

RoadmapProbe(rule) ==
  [id |-> "roadmap." \o Slug[rule.id], lane |-> "roadmap", category |-> ReviewCategory(rule),
   priority |-> RulePriority(rule.priority), risk |-> CategoryForRisk(ReviewCategory(rule)),
   topK |-> 2, scope |-> NoValue, symbolic |-> FALSE]

\* By category; every rule has an id and something to verify.
RoadmapProbes(rules) ==
  LET categories == Chosen(<<"ai", "performance", "realtime", "requirement", "security",
                                "structure">>, LAMBDA c : \E r \in rules : ReviewCategory(r) = c)
      ordered(c) == Sorted(SetToSeq({r \in rules : ReviewCategory(r) = c}), RuleBefore)
  IN FlattenSeq([k \in DOMAIN categories |->
       [j \in DOMAIN ordered(categories[k]) |-> RoadmapProbe(ordered(categories[k])[j])]])

\* build_semantic_audit_plan: static findings are kept out of it.
Plan(marked, docs, rules, profile) ==
  Baseline \o CoverageProbes(marked, docs) \o RoadmapProbes(Applicable(rules, profile))

=============================================================================
