---------------------------- MODULE ProbeEvidence ----------------------------
(***************************************************************************)
(* What the review does with the answers of the probe judge, as operators: *)
(* when an answer names exactly one verdict for each probe asked about,    *)
(* whether an issue is backed by the source chunks the judge was shown,    *)
(* and which issues are duplicates.                                        *)
(*                                                                         *)
(* A chunk is a range of lines of a file; evidence is a chunk the judge    *)
(* cites together with the lines it means.                                 *)
(***************************************************************************)
EXTENDS Naturals, FiniteSets, Sequences, SequencesExt, FiniteSetsExt

CONSTANTS MinConfidence,  \* MIN_PROBE_ISSUE_CONFIDENCE
          NoValue         \* None

Overlap(a, b) == a.first <= b.last /\ b.first <= a.last

Inside(line, c) == c.first <= line /\ line <= c.last

ChunkKey(c) == <<c.file, c.index>>

-----------------------------------------------------------------------------
(***************************************************************************)
(* Slips (see README).                                                     *)
(***************************************************************************)

\* Several results for one probe are as good as one.
DisputedIfMissing(answer, ids) == {p \in ids : answer.said[p].verdict = "none"}

\* A second question is asked only about the probes without a result.
RetryMissing(answer, ids) ==
  LET missing == DisputedIfMissing(answer, ids)
  IN IF missing = {} THEN ids ELSE missing

\* An overlapping issue is kept as well if it is the more certain one.
KeepStrongerToo(kept, issue) ==
  LET rivals == {k \in DOMAIN kept : Overlap(issue, kept[k])} IN
  IF \A k \in rivals : issue.confidence > kept[k].confidence
    THEN Append(kept, issue) ELSE kept

-----------------------------------------------------------------------------
(***************************************************************************)
(* Batches: bundles with evidence, in order, per lane and within limits.   *)
(***************************************************************************)

ChunkCount(batch) == FoldLeft(LAMBDA n, b : n + Cardinality(b.chunks), 0, batch)

StartsBatch(current, bundle, maxProbes, maxChunks) ==
  /\ current # <<>>
  /\ \/ bundle.lane # Last(current).lane
     \/ Len(current) >= maxProbes
     \/ ChunkCount(current) + Cardinality(bundle.chunks) > maxChunks

JudgeBatches(bundles, maxProbes, maxChunks) ==
  LET add(batches, bundle) ==
        IF bundle.chunks = {} THEN batches
        ELSE IF StartsBatch(Last(batches), bundle, maxProbes, maxChunks)
          THEN Append(batches, <<bundle>>)
          ELSE Append(Front(batches), Append(Last(batches), bundle))
  IN SelectSeq(FoldLeft(add, << <<>> >>, bundles), LAMBDA b : b # <<>>)

-----------------------------------------------------------------------------
(***************************************************************************)
(* The verdict contract.  said[p] is the result an answer has on probe p,  *)
(* its verdict "none" or "several" unless there is exactly one; stray      *)
(* stands for an unknown probe id or a malformed result that cannot be     *)
(* attributed to a probe.                                                  *)
(***************************************************************************)

Disputed(answer, ids) == {p \in ids : answer.said[p].verdict \in {"none", "several"}}

ValidContract(answer, ids) == Disputed(answer, ids) = {} /\ ~answer.stray

ValidResults(answer, ids) == ids \ Disputed(answer, ids)

\* Ask again about the probes in dispute, about all if only strays were found.
ToRetry(answer, ids) ==
  IF Disputed(answer, ids) = {} THEN ids ELSE Disputed(answer, ids)

-----------------------------------------------------------------------------
(***************************************************************************)
(* Issues.  An issue has a location, cited evidence, and a key made of its *)
(* category, claim type and rule.                                          *)
(***************************************************************************)

\* The chunks a citation stands for, if the lines it means were shown.
Resolved(e, chunks) ==
  LET touched == {c \in chunks : c.file = e.file /\ Overlap(c, e)} IN
  IF /\ \E c \in touched : ChunkKey(c) = ChunkKey(e)
     /\ \E c \in touched : Inside(e.first, c)
     /\ \E c \in touched : Inside(e.last, c)
  THEN touched ELSE {}

SupportingChunks(issue, chunks) ==
  LET about   == {c \in chunks : c.file = issue.file /\ Overlap(c, issue)}
      anchors == {e \in issue.evidence : e.file = issue.file /\ Overlap(issue, e)}
  IN IF /\ \A e \in issue.evidence : Resolved(e, chunks) # {}
        /\ anchors # {}
        /\ \E c \in about : Inside(issue.first, c)
        /\ \E c \in about : Inside(issue.last, c)
     THEN UNION {Resolved(e, chunks) : e \in issue.evidence} ELSE {}

\* An issue without a confidence of its own has that of its result.
Confidence(issue, result) ==
  IF issue.confidence = NoValue THEN result.confidence ELSE issue.confidence

IsEligible(issue, confidence) ==
  /\ confidence # NoValue /\ confidence >= MinConfidence
  /\ issue.complete                  \* a title and a description
  /\ issue.first <= issue.last

\* The first target package that the manifest lists decides.  installed[p] is
\* NoValue for a package it does not list; a version, or a constraint, whose
\* text holds no number has NoValue for its major and agrees with anything.
ManifestContradicts(rule, installed) ==
  /\ rule # NoValue
  /\ \E k \in DOMAIN rule.packages :
       LET version == installed[rule.packages[k]] IN
       /\ version # NoValue
       /\ \A j \in 1..(k-1) : installed[rule.packages[j]] = NoValue
       /\ NoValue \in {rule.major, version.major} \/ version.major = rule.major

AcceptedIssue(issue, result, chunks) ==
  /\ IsEligible(issue, Confidence(issue, result))
  /\ SupportingChunks(issue, chunks) # {}
  /\ issue.reviewable                \* is_review_target_path
  /\ issue.allowed                   \* its claim type is one the probe may make
  /\ ~issue.contradicted             \* by a manifest among its chunks

\* The accepted issues of a result are added, each with its confidence.
AddAccepted(issues, result, chunks) ==
  LET add(sofar, issue) ==
        IF AcceptedIssue(issue, result, chunks)
          THEN Append(sofar, [issue EXCEPT !.confidence = Confidence(issue, result)])
          ELSE sofar
  IN FoldLeft(add, issues, result.issues)

-----------------------------------------------------------------------------
(***************************************************************************)
(* Duplicates: issues with one key in one file, by first line and then by  *)
(* falling confidence; an issue that overlaps one already kept replaces it *)
(* if it is more certain and is dropped otherwise.                         *)
(***************************************************************************)

IssueBefore(a, b) ==
  \/ a.first < b.first
  \/ a.first = b.first /\ a.confidence > b.confidence

SortedIn(sorted, issue) ==
  LET before == {k \in DOMAIN sorted : ~IssueBefore(issue, sorted[k])}
  IN InsertAt(sorted, Cardinality(before) + 1, issue)

Keep(kept, issue) ==
  LET rivals == {k \in DOMAIN kept : Overlap(issue, kept[k])} IN
  IF rivals = {} THEN Append(kept, issue)
  ELSE IF issue.confidence > kept[Min(rivals)].confidence
    THEN [kept EXCEPT ![Min(rivals)] = issue]
    ELSE kept

Twins(a, b) == a.key = b.key /\ a.file = b.file

\* The twins of an issue with this key and file, sorted.
Group(issues, key, file) ==
  LET add(sorted, issue) ==
        IF issue.key = key /\ issue.file = file THEN SortedIn(sorted, issue) ELSE sorted
  IN FoldLeft(add, <<>>, issues)

\* What is left of the issues, given in the order in which they came in.
Deduplicated(issues) ==
  UNION {ToSet(FoldLeft(Keep, <<>>, Group(issues, i.key, i.file))) : i \in ToSet(issues)}

=============================================================================
