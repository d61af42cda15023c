----------------------------- MODULE ReviewPlan -----------------------------
(***************************************************************************)
(* Which chunks a review has to look at, and how many of them it did: the  *)
(* full audit takes every chunk, the smart mode the risky ones up to a     *)
(* number, and the traces of the probe retrieval say what was delivered.   *)
(*                                                                         *)
(* A chunk is its file, its index in the file and what the plan asks about *)
(* it; no two chunks of a job share file and index.                        *)
(***************************************************************************)
EXTENDS Integers, Sequences, FiniteSetsExt, SequencesExt

CONSTANTS SoftChunksPerFile,  \* SMART_SOFT_CHUNKS_PER_FILE
          BreadthFiles,       \* SMART_MIN_BREADTH_FILES
          SmartDefault,       \* DEFAULT_SMART_REVIEW_MAX_CHUNKS
          SmartLowest,        \* the least smart_review_max_chunks may be
          SmartHighest        \* and the most

NoOption == -1

GetReviewMode(option) == IF option = "unset" THEN "full_audit" ELSE option

GetSmartReviewMaxChunks(option) ==
  IF option = NoOption THEN SmartDefault
  ELSE Max({SmartLowest, Min({SmartHighest, option})})

PlanKey(c) == <<c.file, c.index>>

Earlier(a, b) == \E n \in DOMAIN a : a[n] < b[n] /\ \A m \in 1..(n - 1) : a[m] = b[m]

FilesOf(chunks) == {c.file : c \in chunks}

-----------------------------------------------------------------------------
(***************************************************************************)
(* The smart selection.  A risk area decides the rank before the path and  *)
(* the file name do.                                                       *)
(***************************************************************************)
AreaRank == [security |-> 0, api |-> 2, database |-> 3, config |-> 4]

Unranked == 10

SelectionRank(c) ==
  CASE c.area \in DOMAIN AreaRank -> AreaRank[c.area]
    [] c.area \notin DOMAIN AreaRank /\ c.riskPath -> 1
    [] c.area \notin DOMAIN AreaRank /\ ~c.riskPath /\ c.config -> 5
    [] OTHER -> Unranked

FallbackRank(c) ==
  CASE c.area \in DOMAIN AreaRank -> 0
    [] c.area \notin DOMAIN AreaRank /\ c.riskPath -> 1
    [] c.area \notin DOMAIN AreaRank /\ ~c.riskPath /\ c.config -> 2
    [] OTHER -> 3

SoftSelection(chunks, max) ==
  LET Before(c, d) == Earlier(<<SelectionRank(c)>> \o PlanKey(c), <<SelectionRank(d)>> \o PlanKey(d))
      Take(selected, c) ==
        IF /\ Cardinality(selected) < max
           /\ Cardinality({d \in selected : d.file = c.file}) < SoftChunksPerFile
        THEN selected \cup {c} ELSE selected
  IN FoldLeft(Take, {}, SetToSortSeq({c \in chunks : SelectionRank(c) # Unranked}, Before))

\* Too few files: the first chunks of others are added.
BreadthFallback(selected, chunks, max) ==
  LET Before(c, d) == Earlier(<<FallbackRank(c), c.file>>, <<FallbackRank(d), d.file>>)
      Sample(found, c) ==
        IF Cardinality(found) < max /\ Cardinality(FilesOf(found)) < BreadthFiles
        THEN found \cup {c} ELSE found
  IN FoldLeft(Sample, selected, SetToSortSeq({c \in chunks : c.index = 0}, Before))

SelectSmartChunks(chunks, max) ==
  IF Cardinality(chunks) <= max THEN chunks
  ELSE BreadthFallback(SoftSelection(chunks, max), chunks, max)

-----------------------------------------------------------------------------
(***************************************************************************)
(* The plan: for each file the indexes to look at, functions first, then   *)
(* classes.  README files are left out before anything else.               *)
(***************************************************************************)
ChunkReviewRank(c) == CASE c.type = "function" -> 0 [] c.type = "class" -> 1 [] OTHER -> 2

BuildChunkReviewPlan(documents, mode, max) ==
  LET chunks   == {c \in documents : ~c.readme}
      selected == IF mode = "full_audit" THEN chunks ELSE SelectSmartChunks(chunks, max)
      Before(c, d) == Earlier(<<ChunkReviewRank(c), c.index>>, <<ChunkReviewRank(d), d.index>>)
      Required(f)  == SetToSortSeq({c \in selected : c.file = f}, Before)
  IN [f \in FilesOf(selected) |-> [n \in DOMAIN Required(f) |-> Required(f)[n].index]]

ExpectedChunkKeys(plan) ==
  UNION {{<<f, plan[f][n]>> : n \in DOMAIN plan[f]} : f \in DOMAIN plan}

-----------------------------------------------------------------------------
(***************************************************************************)
(* What was delivered.  A trace is an entry of the tool call log.          *)
(***************************************************************************)
SourceChunkEvidence(traces) ==
  UNION {t.results : t \in {u \in traces : u.status = "ok" /\ u.tool = "probe_retrieval"}}

SourceChunkKeys(traces) == {PlanKey(c) : c \in SourceChunkEvidence(traces)}

LoadChunkReviewCoverage(documents, mode, max, traces) ==
  LET expected == ExpectedChunkKeys(BuildChunkReviewPlan(documents, mode, max))
      reviewed == SourceChunkKeys(traces)
  IN [reviewed |-> Cardinality(reviewed \cap expected),
      total    |-> Cardinality(expected),
      missing  |-> expected \ reviewed]

\* The trace of the review counts deliveries of chunks outside the plan as well.
TraceCoverage(documents, mode, max, traces) ==
  LET plan == BuildChunkReviewPlan(documents, mode, max)
      read == SourceChunkKeys(traces)
      wide == UNION {t.results : t \in {u \in traces : u.tool = "probe_retrieval" /\ u.lane = "coverage"}}
  IN [targetFiles  |-> Cardinality(DOMAIN plan),
      targetChunks |-> Cardinality(ExpectedChunkKeys(plan)),
      readFiles    |-> Cardinality({key[1] : key \in read}),
      readChunks   |-> Cardinality(read),
      readTargets  |-> Cardinality(read \cap ExpectedChunkKeys(plan)),
      broadAudited |-> Cardinality({PlanKey(c) : c \in wide})]

(***************************************************************************)
(* Whether the delivered chunks cover a range without a gap: by rising     *)
(* first line, each may reach at most one line past what is covered.       *)
(***************************************************************************)
LineRangeIsCovered(evidence, file, first, last) ==
  LET near == {<<c.first, c.last>> : c \in {d \in evidence :
                 d.file = file /\ d.last >= first /\ d.first <= last}}
      Reach(uncovered, r) ==
        IF uncovered <= last /\ r[1] <= uncovered THEN Max({uncovered, r[2] + 1}) ELSE uncovered
  IN FoldLeft(Reach, first, SetToSortSeq(near, Earlier)) > last

=============================================================================
