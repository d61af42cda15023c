----------------------------- MODULE MCReviewPlan -----------------------------
(***************************************************************************)
(* The review plan checked against what it promises, over small            *)
(* repositories: three files, five chunks, one of them in a README.        *)
(***************************************************************************)
EXTENDS Integers, Sequences, FiniteSets

Audit == INSTANCE ReviewPlan WITH
  SoftChunksPerFile <- 1, BreadthFiles <- 2, SmartDefault <- 160,
  SmartLowest <- 120, SmartHighest <- 240

Places == << <<1, 0>>, <<1, 1>>, <<2, 0>>, <<2, 1>>, <<3, 0>> >>

Kinds == {"security", "api", "general", "path", "config"}

PlanChunk(n, kind) ==
  [file |-> Places[n][1], index |-> Places[n][2], readme |-> FALSE,
   area |-> IF kind \in {"security", "api"} THEN kind ELSE "general",
   riskPath |-> kind = "path", config |-> kind = "config",
   type |-> IF n = 2 THEN "function" ELSE "module"]

Repositories == {{PlanChunk(n, kinds[n]) : n \in 1..5} : kinds \in [1..5 -> Kinds]}

Readme == [PlanChunk(5, "security") EXCEPT !.readme = TRUE, !.file = 4]

Size(S, P(_)) == Cardinality({x \in S : P(x)})

(***************************************************************************)
(* The smart plan keeps to its size, takes no more risky chunks of a file  *)
(* than it may, never leaves out a riskier chunk for a less risky one of   *)
(* another file, and has chunks of enough files when there is room.        *)
(***************************************************************************)
ASSUME SmartPlanIsFair ==
  \A chunks \in Repositories, max \in 1..4 :
    LET risky    == Audit!SoftSelection(chunks, max)
        selected == Audit!SelectSmartChunks(chunks, max)
    IN /\ Cardinality(selected) <= max /\ risky \subseteq selected
       /\ \A c \in risky : Size(risky, LAMBDA d : d.file = c.file) <= 1
       /\ \A c \in chunks \ risky, d \in risky :
            Audit!SelectionRank(c) < Audit!SelectionRank(d) => \E e \in risky : e.file = c.file
       /\ Cardinality(selected) < max => Cardinality(Audit!FilesOf(selected)) >= 2

(***************************************************************************)
(* The full audit asks for every chunk but those of README files, and what *)
(* is asked for is either delivered or missing, whatever else the traces   *)
(* hold.                                                                   *)
(***************************************************************************)
Deliveries(chunks) ==
  {{[tool |-> "probe_retrieval", status |-> status, lane |-> lane, results |-> some],
    [tool |-> "probe_retrieval", status |-> "ok", lane |-> "defect", results |-> {Readme}]} :
     some \in SUBSET chunks, status \in {"ok", "error"}, lane \in {"coverage", "defect"}}

ASSUME CoverageAddsUp ==
  \A chunks \in {{PlanChunk(n, kinds[n]) : n \in 1..5} : kinds \in [1..5 -> {"api", "general"}]} :
    \A mode \in {"full_audit", "smart"}, traces \in Deliveries(chunks) :
      LET coverage == Audit!LoadChunkReviewCoverage(chunks \cup {Readme}, mode, 3, traces)
          trace    == Audit!TraceCoverage(chunks \cup {Readme}, mode, 3, traces)
      IN /\ coverage.reviewed + Cardinality(coverage.missing) = coverage.total
         /\ mode = "full_audit" => coverage.total = 5
         /\ trace.readTargets = coverage.reviewed /\ trace.targetChunks = coverage.total
         /\ trace.readTargets <= trace.readChunks

(***************************************************************************)
(* The sweep over sorted chunks says a range is covered exactly when each  *)
(* of its lines is in a delivered chunk of the file.                       *)
(***************************************************************************)
ASSUME SweepFindsEveryGap ==
  LET Lines(a, b, f) == [file |-> f, first |-> a, last |-> b]
      ranges == {Lines(a, b, 1) : a, b \in 1..4} \cup {Lines(1, 4, 2)}
      valid  == {r \in ranges : r.first <= r.last}
  IN \A x, y, z \in valid, want \in {r \in valid : r.file = 1} :
       Audit!LineRangeIsCovered({x, y, z}, 1, want.first, want.last) <=>
         \A n \in want.first..want.last :
           \E r \in {x, y, z} : r.file = 1 /\ r.first <= n /\ n <= r.last

=============================================================================
