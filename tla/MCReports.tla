------------------------------ MODULE MCReports ------------------------------
(***************************************************************************)
(* Findings and reports checked against what they promise, over all small  *)
(* sets of rows and an excerpt of the claim tables.                        *)
(***************************************************************************)
EXTENDS Integers, Sequences, FiniteSets

LOCAL INSTANCE TLC

SqlInjection == <<"sql", "injection">>
Exposure  == <<"otp", "exposure">>
Secret    == <<"hardcoded", "secret">>
Default   == <<"insecure", "default", "credentials">>
Weak      == <<"weak", "cryptography">>
Random    == <<"otp", "weak", "randomness">>
Broad     == <<"security", "finding">>

MCAliases == <<"otp", "leakage">> :> Exposure @@ <<"otp", "random", "module">> :> Random

MCWordPatterns ==
  << [words |-> {"otp", "weak", "random"}, claim |-> Random],
     [words |-> {"default", "admin", "password"}, claim |-> Default] >>

MCPhrasePatterns ==
  << [phrases |-> {"debug_otp"}, claim |-> Exposure],
     [phrases |-> {"jwt secret"}, claim |-> Secret],
     [phrases |-> {"sql injection"}, claim |-> SqlInjection] >>

R == INSTANCE Reports WITH
  Aliases <- MCAliases, WordPatterns <- MCWordPatterns, PhrasePatterns <- MCPhrasePatterns,
  GenericClaims <- {Broad, <<"review", "finding">>}, PasswordHashClaims <- {Weak},
  RandomnessClaims <- {<<"weak", "randomness">>},
  StaticRules <- ("B608" :> SqlInjection @@ "B324" :> Weak),
  ProbeClaims <- ("security.sql_nosql_injection" :> SqlInjection),
  CategoryOverrides <- (SqlInjection :> "security"),
  TopFiles <- 2, TopPriorities <- 2, ContextRadius <- 1

-----------------------------------------------------------------------------
(***************************************************************************)
(* Claims.                                                                 *)
(***************************************************************************)
Text(name, phrases) == [name |-> name, phrases |-> phrases]

Titles ==
  {Text(name, phrases) :
     name \in {<<>>, <<"otp", "leakage">>, <<"default", "admin", "password">>, <<"bug">>},
     phrases \in SUBSET {"debug_otp", "jwt secret", "sql injection"}}

Claims ==
  {<<>>, Broad, Default, Weak, <<"otp", "leakage">>, <<"otp", "random", "module">>,
   <<"weak", "random", "otp", "code">>, <<"race">>}

Contexts ==
  {[phrases |-> phrases, words |-> words] :
     phrases \in SUBSET {"debug_otp", "jwt secret"},
     words \in {{}, {"otp", "predictable"}, {"password", "md5"}, {"insecure", "random", "otp"}}}

(***************************************************************************)
(* The key is built from a claim that was normalised before: normalising   *)
(* and resolving it once more changes nothing, so that a row and the probe *)
(* result it was stored from have one key.                                 *)
(***************************************************************************)
ASSUME ClaimsAreStable ==
  \A claim \in Claims, title \in Titles, context \in Contexts :
    LET once == R!ContextualClaimType(R!NormalizeClaimType(claim, title), context)
    IN /\ once # <<>>
       /\ R!NormalizeClaimType(once, title) = once
       /\ R!ContextualClaimType(once, context) = once
       /\ R!CanonicalProbeClaimType("other", claim, title, context) = once

-----------------------------------------------------------------------------
(***************************************************************************)
(* Rows.  The detectors of one SQL injection disagree on its category and  *)
(* severity; a requirement and a defect of no known kind go their own way. *)
(***************************************************************************)
Row(n, file, first, last, severity, source, category, rule, probe, roadmap) ==
  [id |-> n, path |-> [file |-> file, readme |-> file = 3], first |-> first, last |-> last,
   severity |-> severity, source |-> source, category |-> category, rule |-> rule,
   probe |-> probe, roadmap |-> roadmap, probeClaim |-> <<>>, rawClaim |-> <<>>,
   storedClaim |-> <<>>, title |-> Text(<<"bug">>, {}), context |-> [phrases |-> {}, words |-> {}],
   rich |-> FALSE, confidence |-> n, p0 |-> FALSE, created |-> n]

Bandit(n, f, a, z, severity) == Row(n, f, a, z, severity, "bandit", "bug", "B608", "", "")
Probe(n, f, a, z, severity)  ==
  Row(n, f, a, z, severity, "ai_review", "security", "", "security.sql_nosql_injection", "")
Kb(n, f, a, z, severity)     == Row(n, f, a, z, severity, "KB", "requirement", "", "other", "r1")

Detected(n) ==
  {Bandit(n, f, 1, 2, "high") : f \in 1..2} \cup
  {Probe(n, f, a, a + 1, s) : f \in {1, 3}, a \in 2..3, s \in {"high", "low"}} \cup
  {Kb(n, f, 2, 2, "critical") : f \in {1, 3}}

RowSets == {{x, y, z} : x \in Detected(1), y \in Detected(2), z \in Detected(3)}

Lines == {r \in (1..5) \X (1..5) : r[1] <= r[2]}

(***************************************************************************)
(* The merge, one row after the other, puts two rows of a file together    *)
(* exactly when no line boundary between them is free of rows: occurrences *)
(* are the connected groups of overlapping rows, each row is in one.       *)
(***************************************************************************)
ASSUME OccurrencesAreConnected ==
  \A lines \in [1..3 -> Lines] :
    LET rows  == {Probe(n, 1, lines[n][1], lines[n][2], "low")  : n \in 1..3}
        found == R!CanonicalOccurrences(rows)
        Crossed(x) == \E r \in rows : r.first <= x /\ x < r.last
        Apart(r, s) == \E x \in 1..5 : r.last <= x /\ x < s.first /\ ~Crossed(x)
    IN /\ UNION found = rows
       /\ \A o, p \in found : o = p \/ o \cap p = {}
       /\ \A r, s \in rows : (\E o \in found : {r, s} \subseteq o) <=> ~Apart(r, s) /\ ~Apart(s, r)

(***************************************************************************)
(* What a report counts is what the list of issues shows: as many findings *)
(* of every severity, as many in all, no more of them than occurrences and *)
(* no more of those than rows; and a finding is as severe as its worst     *)
(* row.  Rows of README files do not count.                                *)
(***************************************************************************)
OfSeverity(severity) == [severity |-> severity, category |-> "any", source |-> "any", files |-> 1..3]

ASSUME CountsAgreeWithList ==
  \A rows \in RowSets :
    LET aggregate == R!BuildReportAggregate(rows)
        report    == R!RefreshReportAggregates(R!BuildStaticReport(rows, 2), rows)
        Listed(s) == R!ListIssues(rows, OfSeverity(s), "severity", FALSE, 1, 9)
    IN /\ report.total = Listed("any").total
       /\ \A s \in {"critical", "high", "low"} : report.counts[s] = Listed(s).total
       /\ report.total <= Cardinality(aggregate.occurrences)
       /\ Cardinality(aggregate.occurrences) <= aggregate.raw
       /\ \A key \in DOMAIN aggregate.findings : \A i \in R!GroupIssues(rows)[key] :
            R!SeverityOrder[aggregate.findings[key].severity] <= R!SeverityOrder[i.severity]

(***************************************************************************)
(* The pages of the list, in either direction, hold every group once; the  *)
(* detail of an issue is the group it is listed with, unless a row of a    *)
(* README file has its key; and every occurrence can be fixed from it.     *)
(***************************************************************************)
ASSUME ListAndDetailAgree ==
  \A rows \in RowSets :
    LET all(descending) == R!ListIssues(rows, OfSeverity("any"), "created_at", descending, 1, 9).issues
        page(n)         == R!ListIssues(rows, OfSeverity("any"), "created_at", FALSE, n, 1).issues
    IN /\ \A n \in 1..4 : page(n) = IF n <= Len(all(FALSE)) THEN <<all(FALSE)[n]>> ELSE <<>>
       /\ {all(TRUE)[n] : n \in DOMAIN all(TRUE)} = {all(FALSE)[n] : n \in DOMAIN all(FALSE)}
       /\ (\A i \in rows : R!IsReviewTarget(i)) =>
            {all(FALSE)[n] : n \in DOMAIN all(FALSE)} = {R!GetIssue(rows, i) : i \in rows}
       /\ \A n \in DOMAIN all(FALSE) :
            Cardinality(all(FALSE)[n].fixIds) = Cardinality(all(FALSE)[n].occurrences)

(***************************************************************************)
(* Reading the final report changes none of its numbers, whatever the      *)
(* model answered, and reading it again changes nothing at all; only the   *)
(* files the draft put first are lost.  The overview never states numbers. *)
(***************************************************************************)
DraftAnswers ==
  {[parses |-> parses, overview |-> overview, priorities |-> priorities] :
     parses \in BOOLEAN, overview \in {"none", "placeholder", "counts", "qualitative"},
     priorities \in {<<>>, << <<"file", 2>>, <<"text", 9>> >>}}

ASSUME ReadingKeepsTheReport ==
  \A rows \in {S \in RowSets : \E i \in S : i.source = "bandit"}, answer \in DraftAnswers :
    LET draft  == R!BuildFinalReportDraft(answer, R!BuildReportAggregate(rows))
        final  == R!PersistFinalReport(rows, R!BuildStaticReport(rows, 2), draft)
        read   == R!RefreshReportAggregates(final, rows)
    IN /\ [read EXCEPT !.top = final.top] = final
       /\ R!RefreshReportAggregates(read, rows) = read
       /\ draft.priorities = <<>> => read = final
       /\ final.overview \in {"none", "qualitative"} /\ Len(final.top) <= 2

(***************************************************************************)
(* The snippet of an issue holds all of its lines that some chunk holds.   *)
(***************************************************************************)
ASSUME SnippetShowsTheIssue ==
  \A a, b \in Lines, i \in {Probe(1, 1, 2, 3, "low"), Probe(1, 1, 1, 1, "low")} :
    LET chunks  == {[file |-> 1, first |-> a[1], last |-> a[2]],
                    [file |-> 1, first |-> b[1], last |-> b[2]]}
        snippet == R!SourceContext(chunks, i)
    IN R!ContainingChunks(chunks, i) # {} =>
         \A n \in i.first..i.last :
           (\E c \in chunks : c.first <= n /\ n <= c.last) => n \in DOMAIN snippet /\ snippet[n]

=============================================================================
