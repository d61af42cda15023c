----------------------------- MODULE MCProbeJudge -----------------------------
(***************************************************************************)
(* Two probes about one file in a batch, two more in batches of their own: *)
(* one more batch than the tasks that run at a time.                       *)
(***************************************************************************)
EXTENDS ProbeJudge, MCReports

Chunk(f, n, a, z) == [file |-> f, index |-> n, first |-> a, last |-> z]

Model == Chunk("m", 0, 1, 4)
Route == Chunk("m", 1, 5, 8)

Issue(key, a, z, confidence, cited) ==
  [key |-> key, file |-> "m", first |-> a, last |-> z, confidence |-> confidence,
   evidence |-> cited, complete |-> TRUE, reviewable |-> TRUE, allowed |-> TRUE,
   contradicted |-> FALSE]

MCBundles == <<
  [probe |-> "p1", lane |-> "defect", chunks |-> {Model, Route}],
  [probe |-> "p2", lane |-> "defect", chunks |-> {Route}],
  [probe |-> "p3", lane |-> "roadmap", chunks |-> {Model}],
  [probe |-> "p4", lane |-> "coverage", chunks |-> {Route}] >>

\* Written out, for TLC to evaluate them once.
MCBatches == << <<MCBundles[1], MCBundles[2]>>, <<MCBundles[3]>>, <<MCBundles[4]>> >>

ASSUME BatchesAreBuilt == MCBatches = JudgeBatches(MCBundles, 2, 4)

\* Two overlapping issues, the second more certain, and one made up; or one
\* between two chunks.
MCIssueResults ==
  { [verdict |-> "issue", confidence |-> 3,
     issues |-> <<Issue("k", 4, 7, NoValue, {Model, Route})>>],
    [verdict |-> "issue", confidence |-> 2,
     issues |-> <<Issue("k", 2, 6, NoValue, {Chunk("m", 0, 2, 6)}),
                  Issue("k", 3, 4, 3, {Model}),
                  Issue("k", 7, 9, 3, {Chunk("m", 1, 7, 9)})>>] }

=============================================================================
