----------------------------- MODULE CodeChunks -----------------------------
(***************************************************************************)
(* Which files of a cloned repository are looked at, and the chunks their  *)
(* text is cut into before it is stored, embedded and searched.            *)
(*                                                                         *)
(* A file is a record: what the filters look at, its lines and, for Python *)
(* that parses, the ranges of its top-level classes and functions.  A line *)
(* is what the chunker asks about it; its text stands for its content.     *)
(***************************************************************************)
EXTENDS Naturals, Sequences, FiniteSets, FiniteSetsExt, Functions

CONSTANTS MaxTokens,    \* MAX_TOKENS_PER_CHUNK
          WindowLines,  \* FALLBACK_CHUNK_LINES
          OverlapLines  \* FALLBACK_OVERLAP_LINES

ASSUME ChunkAssumption ==
  /\ MaxTokens \in Nat \ {0}
  /\ WindowLines \in Nat /\ OverlapLines \in Nat /\ OverlapLines < WindowLines

Directory == {"source", "ignored", "generated"}

-----------------------------------------------------------------------------
(***************************************************************************)
(* Selection.                                                              *)
(***************************************************************************)

\* regular: a file inside the sandbox, not a link out of it.
BuildFileManifest(files) ==
  {f \in files : f.regular /\ f.directory # "ignored" /\ ~f.big /\ ~f.binary}

ShouldIndexSemanticFile(f) == f.directory # "generated" /\ ~f.lockfile

ShouldChunkPlainFile(f) == ~f.documentation /\ ShouldIndexSemanticFile(f)

Chunked(files) ==
  {f \in BuildFileManifest(files) :
     ShouldIndexSemanticFile(f) /\ (f.python \/ ShouldChunkPlainFile(f))}

-----------------------------------------------------------------------------
(***************************************************************************)
(* Ranges of lines.                                                        *)
(***************************************************************************)

CountTokens(lines, first, last) == MapThenSumSet(LAMBDA n : lines[n].tokens, first..last)

Blank(lines, first, last) == \A n \in first..last : lines[n].blank

\* Windows of WindowLines lines, each OverlapLines into the one before it.
LineWindows(first, last) ==
  LET stride     == WindowLines - OverlapLines
      end(start) == Min({last, start + WindowLines - 1})
      starts     == {s \in first..last : /\ (s - first) % stride = 0
                                         /\ s > first => end(s - stride) < last}
  IN {<<s, end(s)>> : s \in starts}

(***************************************************************************)
(* A window of plain text grows line by line until it holds MaxTokens or   *)
(* the next line would not fit; one line always fits.                      *)
(***************************************************************************)
PlainEnd(lines, start) ==
  Min({e \in start..Len(lines) :
         \/ e = Len(lines)
         \/ CountTokens(lines, start, e) >= MaxTokens
         \/ CountTokens(lines, start, e + 1) > MaxTokens})

\* The next one starts OverlapLines back, but never at or before this start.
NextStart(lines, start) == Max({start + 1, PlainEnd(lines, start) - OverlapLines + 1})

PlainLineWindows(lines) ==
  LET reached[s \in 1..Len(lines)] ==
        \/ s = 1
        \/ \E p \in 1..(s - 1) : /\ reached[p]
                                 /\ PlainEnd(lines, p) < Len(lines)
                                 /\ NextStart(lines, p) = s
  IN {<<s, PlainEnd(lines, s)>> : s \in {x \in 1..Len(lines) :
        reached[x] /\ ~Blank(lines, x, PlainEnd(lines, x))}}

-----------------------------------------------------------------------------
(***************************************************************************)
(* Python: a chunk for every top-level class, for every function directly  *)
(* in one, for every top-level function, and for every run of lines that   *)
(* none of the top-level ones covers.                                      *)
(***************************************************************************)

Covered(nodes, n) == \E x \in nodes : n \in x.first..x.last

ModuleCandidates(size, nodes) ==
  {r \in (1..size) \X (1..size) :
     /\ r[1] <= r[2] /\ \A n \in r[1]..r[2] : ~Covered(nodes, n)
     /\ r[1] = 1 \/ Covered(nodes, r[1] - 1)
     /\ r[2] = size \/ Covered(nodes, r[2] + 1)}

AstCandidates(f) ==
  {<<x.first, x.last>> : x \in f.nodes} \cup (UNION {x.functions : x \in f.nodes})
    \cup ModuleCandidates(Len(f.lines), f.nodes)

Candidates(f) ==
  IF f.parses THEN AstCandidates(f) ELSE LineWindows(1, Len(f.lines))

\* Pairs of a candidate and a range of it: the whole, or windows if too long.
EnforceTokenLimit(f) ==
  UNION {IF CountTokens(f.lines, c[1], c[2]) <= MaxTokens
           THEN {<<c, c>>} ELSE {c} \X LineWindows(c[1], c[2]) : c \in Candidates(f)}

Ranges(f) ==
  IF f.lines = <<>> THEN {}
  ELSE IF f.python THEN {x \in EnforceTokenLimit(f) : ~Blank(f.lines, x[2][1], x[2][2])}
  ELSE {<<r, r>> : r \in PlainLineWindows(f.lines)}

-----------------------------------------------------------------------------
(***************************************************************************)
(* The documents of a snapshot.  Candidates are in the order of their      *)
(* first, then last lines, the windows of one in the order of their lines. *)
(***************************************************************************)

Before(x, y) ==
  \/ x[1][1] < y[1][1]
  \/ x[1][1] = y[1][1] /\ x[1][2] < y[1][2]
  \/ x[1] = y[1] /\ x[2][1] < y[2][1]

ChunkIndex(f, x) == Cardinality({y \in Ranges(f) : Before(y, x)})

Document(f, x) ==
  [file  |-> f.path, index |-> ChunkIndex(f, x), first |-> x[2][1], last |-> x[2][2],
   text   |-> [n \in 1..(x[2][2] - x[2][1] + 1) |-> f.lines[x[2][1] + n - 1].text],
   tokens |-> CountTokens(f.lines, x[2][1], x[2][2]),
   secret |-> \E n \in x[2][1]..x[2][2] : f.lines[n].secret]

BuildSourceChunkDocuments(files) ==
  UNION {{Document(f, x) : x \in Ranges(f)} : f \in Chunked(files)}

=============================================================================
