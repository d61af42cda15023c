----------------------------- MODULE MCCodeIndex -----------------------------
(***************************************************************************)
(* Model checking instance of CodeIndex: two reviews of one branch, of the *)
(* same or of different commits.  The second commit adds a line on top of  *)
(* the Python file, so that its chunks move, one keeps its text and two    *)
(* have the same text.  The text file holds a secret.                      *)
(* The assumptions check the chunker over bounded files, and the batches   *)
(* and the results of a search against the loops of the code.              *)
(***************************************************************************)
EXTENDS CodeIndex, SequencesExt

CONSTANTS j1, j2

Line(text) ==
  [text |-> text, tokens |-> IF text = 0 THEN 0 ELSE 1, blank |-> text = 0,
   secret |-> text = 9]

File(path, python, lines, nodes) ==
  [path |-> path, regular |-> TRUE, directory |-> "source", big |-> FALSE,
   binary |-> FALSE, lockfile |-> FALSE, documentation |-> FALSE, python |-> python,
   parses |-> TRUE, lines |-> [n \in 1..Len(lines) |-> Line(lines[n])], nodes |-> nodes]

Function(first, last) == [first |-> first, last |-> last, functions |-> {}]

MCSnapshots == {<<"main", 1>>, <<"main", 2>>}

MCFiles ==
  <<{File(1, TRUE, <<1, 2>>, {Function(1, 1), Function(2, 2)}), File(2, FALSE, <<9>>, {})},
    {File(1, TRUE, <<1, 1, 2>>, {Function(1, 1), Function(2, 2)}), File(2, FALSE, <<3>>, {})}>>

-----------------------------------------------------------------------------

LineSeqs == UNION {[1..n -> {0, 1, 2}] : n \in 0..5}

Source(s) == [n \in 1..Len(s) |->
  [text |-> n, tokens |-> s[n], blank |-> s[n] = 0, secret |-> FALSE]]

(***************************************************************************)
(* No line with content is left out of the chunks of a plain file, every   *)
(* chunk keeps to the limit unless it is a single line, and chunks that    *)
(* follow each other do not repeat one another as a whole.                 *)
(***************************************************************************)
ASSUME PlainFilesAreCovered ==
  \A s \in LineSeqs :
    LET lines == Source(s)
        windows == IF s = <<>> THEN {} ELSE PlainLineWindows(lines)
    IN /\ \A n \in 1..Len(s) : s[n] > 0 => \E w \in windows : n \in w[1]..w[2]
       /\ \A w \in windows : w[1] = w[2] \/ CountTokens(lines, w[1], w[2]) <= MaxTokens
       /\ \A w, x \in windows : w[1] = x[1] => w = x

(***************************************************************************)
(* For every way to place up to two definitions in a file: each line with  *)
(* content is in a chunk, and no chunk of a run of module lines overlaps a *)
(* definition.                                                             *)
(***************************************************************************)
Placements == {N \in SUBSET {Function(a, b) : a, b \in 1..5} :
                 /\ Cardinality(N) <= 2
                 /\ \A x \in N : x.first <= x.last
                 /\ \A x, y \in N : x = y \/ x.last < y.first \/ y.last < x.first}

ASSUME PythonFilesAreCovered ==
  \A s \in [1..5 -> {0, 2}], N \in Placements, parses \in BOOLEAN :
    LET f == [File(1, TRUE, <<>>, N) EXCEPT !.lines = Source(s), !.parses = parses]
    IN /\ \A n \in 1..5 : s[n] > 0 => \E x \in Ranges(f) : n \in x[2][1]..x[2][2]
       /\ \A r \in ModuleCandidates(5, N), x \in N : x.last < r[1] \/ r[2] < x.first

-----------------------------------------------------------------------------
(***************************************************************************)
(* The loops of the code, over bounded inputs.                             *)
(***************************************************************************)

TokenLimitedBatches(docs) ==
  LET add(batches, d) ==
        IF batches = <<>> THEN <<<<d>>>>
        ELSE LET batch == Last(batches) IN
             IF \/ Len(batch) >= BatchItems
                \/ BatchSize(ToSet(batch)) + ItemSize(d) > BatchTokens
               THEN Append(batches, <<d>>)
               ELSE Append(Front(batches), Append(batch, d))
  IN FoldLeft(add, <<>>, docs)

SelectDiverseLoop(ranked, topK) ==
  LET inFile(chosen, v) == Cardinality({k \in DOMAIN chosen : chosen[k].doc.file = v.doc.file})
      first(acc, v) ==
        IF Len(acc.chosen) >= topK THEN acc
        ELSE IF inFile(acc.chosen, v) >= Max({1, topK \div 2})
          THEN [acc EXCEPT !.deferred = Append(@, v)]
        ELSE [acc EXCEPT !.chosen = Append(@, v)]
      passed == FoldLeft(first, [chosen |-> <<>>, deferred |-> <<>>], ranked)
      fill(chosen, v) ==
        IF Len(chosen) >= topK \/ \E x \in ToSet(chosen) : Key(x) = Key(v)
          THEN chosen ELSE Append(chosen, v)
  IN FoldLeft(fill, passed.chosen, passed.deferred)

(***************************************************************************)
(* Taking the first batch of what is left, again and again, gives the      *)
(* batches that the code makes of all documents in advance.                *)
(***************************************************************************)
ASSUME BatchesAreThoseOfTheLoop ==
  \A sizes \in UNION {[1..n -> 0..3] : n \in 1..5} :
    LET docs == [n \in DOMAIN sizes |-> [file |-> 1, index |-> n, tokens |-> sizes[n]]]
        batches == TokenLimitedBatches(docs)
        after(n) == UNION {ToSet(batches[k]) : k \in n..Len(batches)}
    IN /\ after(1) = ToSet(docs)
       /\ \A n \in DOMAIN batches : TokenLimitedBatch(after(n)) = ToSet(batches[n])

(***************************************************************************)
(* The results are those the loop selects, with a chunk among the          *)
(* candidates once or twice.                                               *)
(***************************************************************************)
Ranked == UNION {[1..n -> {[doc |-> [file |-> f, index |-> k]] : f \in 1..2, k \in 1..2}] :
                   n \in 0..4}

ASSUME ResultsAreThoseOfTheLoop ==
  \A ranked \in Ranked, topK \in 1..4 :
    LET places == SelectDiverse(ranked, topK)
        loop == SelectDiverseLoop(ranked, topK)
    IN Cardinality(places) = Len(loop) /\ {ranked[k] : k \in places} = ToSet(loop)

=============================================================================
