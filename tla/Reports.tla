------------------------------ MODULE Reports ------------------------------
(***************************************************************************)
(* The report of a review job and the views of it the API serves: the      *)
(* report of the static analysis, the final report the review replaces it  *)
(* with, the refresh on every read, and the grouped list and detail of     *)
(* issues.                                                                 *)
(***************************************************************************)
EXTENDS Findings

CONSTANTS TopFiles,         \* length of top_risky_files
          TopPriorities,    \* FALLBACK_TOP_PRIORITY_LIMIT
          ContextRadius     \* lines of context around an issue

Severities == DOMAIN SeverityOrder

CategoryOrder == [security |-> 1, bug |-> 2, performance |-> 3,
                  maintainability |-> 4, requirement |-> 5, style |-> 6]

ReportPriority(i) == IF i.p0 THEN 0 ELSE CategoryOrder[i.category]

-----------------------------------------------------------------------------
(***************************************************************************)
(* Files by risk.  Ties, which the code leaves in the order of the rows,   *)
(* go by file.  An entry names a file or, from a draft, any text.          *)
(***************************************************************************)
InFile(rows, f) == {i \in rows : NormalizeFindingPath(i.path) = f}

WorstSeverity(rows) ==
  CHOOSE s \in Severities : /\ \E i \in rows : i.severity = s
                            /\ \A i \in rows : SeverityOrder[s] <= SeverityOrder[i.severity]

FileRisk(rows, f) ==
  <<Min({ReportPriority(i) : i \in InFile(rows, f)}),
    SeverityOrder[WorstSeverity(InFile(rows, f))], -Cardinality(InFile(rows, f)), f>>

Shortened(seq, limit) == SubSeq(seq, 1, Min({limit, Len(seq)}))

TopRiskyFiles(rows) ==
  LET files == {NormalizeFindingPath(i.path) : i \in rows}
      order == SetToSortSeq(files, LAMBDA f, g : LexLess(FileRisk(rows, f), FileRisk(rows, g)))
      ranked == [n \in DOMAIN order |->
                   [path     |-> <<"file", order[n]>>,
                    count    |-> Cardinality(InFile(rows, order[n])),
                    severity |-> WorstSeverity(InFile(rows, order[n]))]]
  IN Shortened(ranked, TopFiles)

\* The files the draft puts first fill the places the risky files leave.
PrioritizedFiles(rows, priorities) ==
  LET risky == TopRiskyFiles(rows)
      added == SelectSeq(priorities, LAMBDA p : \A n \in DOMAIN risky : risky[n].path # p)
  IN Shortened(risky \o [n \in DOMAIN added |->
                           [path |-> added[n], count |-> 0, severity |-> "info"]], TopFiles)

-----------------------------------------------------------------------------
(***************************************************************************)
(* Reports.                                                                *)
(***************************************************************************)
BuildStaticReport(rows, analyzed) ==
  [total    |-> Cardinality(rows),
   counts   |-> [s \in Severities |-> Cardinality({i \in rows : i.severity = s})],
   analyzed |-> analyzed,
   top      |-> TopRiskyFiles(rows),
   overview |-> "none"]

(***************************************************************************)
(* What the model answers is parsed into a draft; an overview that states  *)
(* numbers or is a placeholder is discarded.  When there is no answer or   *)
(* it does not parse, the draft lists the findings by priority.            *)
(***************************************************************************)
ValidateOverview(overview) == IF overview = "qualitative" THEN overview ELSE "none"

ContextTopPriorities(aggregate) ==
  LET Before(i, j) == LexLess(<<ReportPriority(i), SeverityOrder[i.severity], i.id>>,
                              <<ReportPriority(j), SeverityOrder[j.severity], j.id>>)
      issues == SetToSortSeq(Range(aggregate.findings), Before)
  IN [n \in 1..Min({TopPriorities, Len(issues)}) |-> <<"text", issues[n].id>>]

BuildFinalReportDraft(answer, aggregate) ==
  IF answer.parses
  THEN [overview |-> ValidateOverview(answer.overview), priorities |-> answer.priorities]
  ELSE [overview |-> "none", priorities |-> ContextTopPriorities(aggregate)]

Counted(aggregate) == [s \in Severities |-> SeverityCount(aggregate, s)]

PersistFinalReport(rows, existing, draft) ==
  LET aggregate == BuildReportAggregate(rows)
  IN [total    |-> Cardinality(DOMAIN aggregate.findings),
      counts   |-> Counted(aggregate),
      analyzed |-> existing.analyzed,
      top      |-> PrioritizedFiles(aggregate.occurrences, draft.priorities),
      overview |-> draft.overview]

\* Every read of the report or its summary.
RefreshReportAggregates(report, rows) ==
  LET aggregate == BuildReportAggregate(rows)
  IN [report EXCEPT !.total  = Cardinality(DOMAIN aggregate.findings),
                    !.counts = Counted(aggregate),
                    !.top    = TopRiskyFiles(aggregate.occurrences)]

-----------------------------------------------------------------------------
(***************************************************************************)
(* The list of issues and one issue in detail.                             *)
(***************************************************************************)
NoFilter == "any"

IssueGroupResponse(rows) ==
  LET occurrences == CanonicalOccurrences(rows)
  IN [representative |-> RepresentativeIssue(rows),
      raw            |-> Cardinality(rows),
      files          |-> {NormalizeFindingPath(RepresentativeIssue(o).path) : o \in occurrences},
      fixIds         |-> {RepresentativeIssue(o).id : o \in occurrences},
      occurrences    |-> {[id |-> RepresentativeIssue(o).id, rawIds |-> {i.id : i \in o},
                           sources |-> {i.source : i \in o},
                           first |-> FirstLine(o), last |-> LastLine(o)] : o \in occurrences}]

\* filter.files: the files whose path and the filter's contain one another.
GroupMatchesFilters(rows, filter) ==
  /\ filter.severity \in {NoFilter, RepresentativeIssue(rows).severity}
  /\ filter.category \in {NoFilter, RepresentativeIssue(rows).category}
  /\ \/ filter.source = NoFilter
     \/ \E i \in rows : i.source \in IF filter.source = "ai_review"
                                     THEN {"ai_review", "KB"} ELSE {filter.source}
  /\ \E i \in rows : i.path.file \in filter.files

SortKey(i, field) ==
  CASE field = "severity"   -> <<SeverityOrder[i.severity], i.created>>
    [] field = "file_path"  -> <<i.path.file, i.created>>
    [] field = "created_at" -> <<i.created, i.created>>

ListIssues(rows, filter, field, descending, page, perPage) ==
  LET groups  == GroupIssues(rows)
      shown   == {groups[key] : key \in {k \in DOMAIN groups : GroupMatchesFilters(groups[k], filter)}}
      Key(g)  == SortKey(RepresentativeIssue(g), field)
      sorted  == SetToSortSeq(shown, LAMBDA g, h : IF descending THEN LexLess(Key(h), Key(g))
                                                   ELSE LexLess(Key(g), Key(h)))
  IN [total  |-> Cardinality(shown),
      issues |-> [n \in 1..Max({0, Min({perPage, Len(sorted) - (page - 1) * perPage})}) |->
                    IssueGroupResponse(sorted[(page - 1) * perPage + n])]]

\* The detail looks at every row with the key, those of README files too.
GetIssue(rows, i) ==
  IssueGroupResponse({r \in rows : ReviewIssueFindingKey(r) = ReviewIssueFindingKey(i)})

-----------------------------------------------------------------------------
(***************************************************************************)
(* The lines shown with an issue: its own and some around it, as far as    *)
(* the chunks that overlap it reach; a line no chunk holds is shown empty. *)
(***************************************************************************)
ContainingChunks(chunks, i) ==
  {c \in chunks : c.file = i.path.file /\ c.first <= i.last /\ c.last >= i.first}

SourceContext(chunks, i) ==
  LET held == UNION {c.first..c.last : c \in ContainingChunks(chunks, i)}
  IN [n \in Max({Min(held), i.first - ContextRadius})..Min({Max(held), i.last + ContextRadius}) |->
        n \in held]

=============================================================================
