---------------------------- MODULE CodeIndexProofs ----------------------------
(***************************************************************************)
(* Proofs about CodeIndex, for any jobs, any clones of finitely many       *)
(* files, any sizes of chunks and batches, and any number of retries,      *)
(* results and crashes.                                                    *)
(***************************************************************************)
EXTENDS CodeIndex, FiniteSetTheorems, TLAPS

-----------------------------------------------------------------------------
(***************************************************************************)
(* Numbers and cardinalities.                                              *)
(***************************************************************************)

(***************************************************************************)
(* A set of natural numbers has a least one.                               *)
(***************************************************************************)
LEMMA MinFacts ==
  ASSUME NEW S \in SUBSET Nat, S # {}
  PROVE  Min(S) \in S /\ \A y \in S : Min(S) <= y
<1>. DEFINE R == OpToRel(<, Nat)
<1>1. IsWellFoundedOn(R, Nat)
  BY NatLessThanWellFounded
<1>2. \A x, y \in Nat : x < y => <<x, y>> \in R
  BY DEF OpToRel
<1>. HIDE DEF R
<1>3. PICK x \in S : \A y \in S : ~(<<y, x>> \in R)
  BY <1>1, WFMin
<1>4. ASSUME NEW y \in S PROVE x <= y
  <2>1. x \in Nat /\ y \in Nat
    OBVIOUS
  <2>2. ~(y < x)
    BY <1>2, <1>3, <2>1
  <2>. QED BY <2>1, <2>2
<1>. QED BY <1>4 DEF Min

(***************************************************************************)
(* The lesser, and the greater, of two numbers.                            *)
(***************************************************************************)
LEMMA MinPair ==
  ASSUME NEW a \in Nat, NEW b \in Nat
  PROVE  Min({a, b}) = IF a <= b THEN a ELSE b
<1>1. {a, b} \in SUBSET Nat /\ {a, b} # {}
  OBVIOUS
<1>2. Min({a, b}) \in {a, b} /\ \A y \in {a, b} : Min({a, b}) <= y
  BY <1>1, MinFacts
<1>. QED BY <1>2

(***************************************************************************)
(* The larger of two numbers.                                              *)
(***************************************************************************)
LEMMA MaxPair ==
  ASSUME NEW a \in Nat, NEW b \in Nat
  PROVE  Max({a, b}) = IF a <= b THEN b ELSE a
<1>1. \E x \in {a, b} : \A y \in {a, b} : x >= y
  OBVIOUS
<1>2. Max({a, b}) \in {a, b} /\ \A y \in {a, b} : Max({a, b}) >= y
  BY <1>1 DEF Max
<1>. QED BY <1>2

(***************************************************************************)
(* The places of a finite set of numbers are told apart by how many are    *)
(* before them, so the first n of them are n, or all.                      *)
(***************************************************************************)
LEMMA LeadingFacts ==
  ASSUME NEW P \in SUBSET Nat, IsFiniteSet(P), NEW n \in Nat
  PROVE  /\ Leading(P, n) \subseteq P
         /\ IsFiniteSet(Leading(P, n))
         /\ Cardinality(Leading(P, n)) = IF n <= Cardinality(P) THEN n ELSE Cardinality(P)
<1>. DEFINE size == Cardinality(P)
            ahead(k) == {i \in P : i < k}
            rank == [k \in P |-> Cardinality(ahead(k))]
<1>1. size \in Nat
  BY FS_CardinalityType
<1>2. \A k \in P : IsFiniteSet(ahead(k)) /\ Cardinality(ahead(k)) \in Nat
  <2>. TAKE k \in P
  <2>1. ahead(k) \in SUBSET P
    OBVIOUS
  <2>2. IsFiniteSet(ahead(k))
    BY <2>1, FS_Subset
  <2>. QED BY <2>2, FS_CardinalityType
<1>3. ASSUME NEW k \in P PROVE Cardinality(ahead(k)) \in 0 .. size - 1
  <2>1. ahead(k) \in SUBSET P /\ ahead(k) # P
    OBVIOUS
  <2>2. Cardinality(ahead(k)) <= size /\ Cardinality(ahead(k)) # size
    BY <2>1, FS_Subset
  <2>. QED BY <1>1, <1>2, <2>2
<1>4. ASSUME NEW k \in P, NEW l \in P, k < l
      PROVE  Cardinality(ahead(k)) < Cardinality(ahead(l))
  <2>a. k \in Nat /\ l \in Nat /\ \A i \in P : i \in Nat
    OBVIOUS
  <2>b. \A i \in P : i < k => i < l
    BY <1>4, <2>a
  <2>c. k \in ahead(l) /\ k \notin ahead(k)
    BY <1>4, <2>a
  <2>1. ahead(k) \in SUBSET ahead(l) /\ ahead(k) # ahead(l)
    BY <2>b, <2>c
  <2>2. Cardinality(ahead(k)) <= Cardinality(ahead(l)) /\ Cardinality(ahead(k)) # Cardinality(ahead(l))
    BY <1>2, <2>1, FS_Subset
  <2>. QED BY <1>2, <2>2
<1>5. rank \in Injection(P, 0 .. size - 1)
  <2>1. rank \in [P -> 0 .. size - 1]
    BY <1>3
  <2>2. \A k, l \in P : rank[k] = rank[l] => k = l
    BY <1>2, <1>4
  <2>. QED BY <2>1, <2>2 DEF Injection, IsInjective
<1>6. IsFiniteSet(0 .. size - 1) /\ Cardinality(0 .. size - 1) = size
  <2>. HIDE DEF size
  <2>1. /\ IsFiniteSet(0 .. size - 1)
        /\ Cardinality(0 .. size - 1) = IF 0 > size - 1 THEN 0 ELSE size - 1 - 0 + 1
    BY <1>1, FS_Interval
  <2>. QED BY <1>1, <2>1
<1>7. rank \in Surjection(P, 0 .. size - 1)
  BY <1>5, <1>6, FS_Injection
<1>. DEFINE lead == Leading(P, n)
            m == IF n <= size THEN n ELSE size
            front == [k \in lead |-> rank[k]]
<1>8. lead = {k \in P : rank[k] < n}
  BY DEF Leading
<1>9. lead \subseteq P /\ IsFiniteSet(lead)
  BY <1>8, FS_Subset
<1>. HIDE DEF rank, lead, size
<1>10. front \in Bijection(lead, 0 .. m - 1)
  <2>1. \A k \in P : rank[k] \in 0 .. size - 1
    BY <1>5 DEF Injection
  <2>2. \A k, l \in P : rank[k] = rank[l] => k = l
    BY <1>5 DEF Injection, IsInjective
  <2>3. front \in [lead -> 0 .. m - 1]
    <3>1. ASSUME NEW k \in lead PROVE rank[k] \in 0 .. m - 1
      <4>1. rank[k] \in 0 .. size - 1 /\ rank[k] < n
        BY <1>8, <2>1
      <4>. QED BY <1>1, <4>1
    <3>. QED BY <3>1
  <2>4. \A r \in 0 .. m - 1 : \E k \in lead : front[k] = r
    <3>. TAKE r \in 0 .. m - 1
    <3>1. r \in 0 .. size - 1 /\ r < n
      BY <1>1
    <3>2. PICK k \in P : rank[k] = r
      BY <1>7, <3>1 DEF Surjection
    <3>. QED BY <1>8, <3>1, <3>2
  <2>. QED BY <1>9, <2>2, <2>3, <2>4 DEF Bijection, Injection, Surjection, IsInjective
<1>11. Cardinality(0 .. m - 1) = m
  <2>. m \in Nat
    BY <1>1
  <2>. HIDE DEF m
  <2>1. Cardinality(0 .. m - 1) = IF 0 > m - 1 THEN 0 ELSE m - 1 - 0 + 1
    BY FS_Interval
  <2>. QED BY <2>1
<1>12. Cardinality(lead) = m
  <2>1. ExistsBijection(lead, 0 .. m - 1)
    BY <1>10 DEF ExistsBijection
  <2>. QED BY <1>9, <1>11, <2>1, FS_Bijection
<1>. QED BY <1>9, <1>12 DEF lead, size

(***************************************************************************)
(* A part of a finite set has fewer elements.                              *)
(***************************************************************************)
LEMMA FewerInPart ==
  ASSUME NEW T, IsFiniteSet(T), NEW S \in SUBSET T, S # T
  PROVE  /\ IsFiniteSet(S) /\ Cardinality(S) \in Nat /\ Cardinality(T) \in Nat
         /\ Cardinality(S) < Cardinality(T)
<1>1. IsFiniteSet(S) /\ Cardinality(S) <= Cardinality(T) /\ Cardinality(S) # Cardinality(T)
  BY FS_Subset
<1>2. Cardinality(S) \in Nat /\ Cardinality(T) \in Nat
  BY <1>1, FS_CardinalityType
<1>. QED BY <1>1, <1>2

-----------------------------------------------------------------------------
(***************************************************************************)
(* The chunks of a file.                                                   *)
(***************************************************************************)

(***************************************************************************)
(* Windows lie within the lines they are made for, one for each start.     *)
(***************************************************************************)
LEMMA WindowFacts ==
  ASSUME NEW first \in Nat, NEW last \in Nat
  PROVE  /\ LineWindows(first, last) \subseteq (first..last) \X (first..last)
         /\ \A w, x \in LineWindows(first, last) : w[1] = x[1] => w = x
<1>. DEFINE end(start) == Min({last, start + WindowLines - 1})
<1>1. WindowLines \in Nat \ {0}
  BY ChunkAssumption
<1>2. ASSUME NEW n \in first..last PROVE end(n) \in first..last
  <2>1. n + WindowLines - 1 \in Nat /\ n <= n + WindowLines - 1
    BY <1>1
  <2>2. end(n) = IF last <= n + WindowLines - 1 THEN last ELSE n + WindowLines - 1
    BY <2>1, MinPair
  <2>. QED BY <2>1, <2>2
<1>3. ASSUME NEW w \in LineWindows(first, last)
      PROVE  \E n \in first..last : w = <<n, end(n)>>
  BY <1>3 DEF LineWindows
<1>. HIDE DEF end
<1>4. ASSUME NEW w \in LineWindows(first, last)
      PROVE  w \in (first..last) \X (first..last) /\ w = <<w[1], end(w[1])>>
  BY <1>2, <1>3
<1>. QED BY <1>4

(***************************************************************************)
(* The windows of a plain file lie within it, at most one for each start.  *)
(***************************************************************************)
LEMMA PlainFacts ==
  ASSUME NEW lines, Len(lines) \in Nat
  PROVE  /\ PlainLineWindows(lines) \subseteq (1..Len(lines)) \X (1..Len(lines))
         /\ \A w, x \in PlainLineWindows(lines) : w[1] = x[1] => w = x
<1>. DEFINE n == Len(lines)
<1>1. ASSUME NEW start \in 1..n PROVE PlainEnd(lines, start) \in 1..n
  <2>. DEFINE ends == {e \in start..n :
                         \/ e = n
                         \/ CountTokens(lines, start, e) >= MaxTokens
                         \/ CountTokens(lines, start, e + 1) > MaxTokens}
  <2>1. n \in ends /\ ends \in SUBSET Nat
    BY <1>1
  <2>2. Min(ends) \in ends
    BY <2>1, MinFacts
  <2>3. PlainEnd(lines, start) = Min(ends)
    BY DEF PlainEnd
  <2>. QED BY <2>2, <2>3
<1>2. ASSUME NEW w \in PlainLineWindows(lines)
      PROVE  \E start \in 1..n : w = <<start, PlainEnd(lines, start)>>
  BY <1>2 DEF PlainLineWindows
<1>3. ASSUME NEW w \in PlainLineWindows(lines)
      PROVE  w \in (1..n) \X (1..n) /\ w = <<w[1], PlainEnd(lines, w[1])>>
  BY <1>1, <1>2
<1>. QED BY <1>3

(***************************************************************************)
(* What the clone of a snapshot says of one of its files.                  *)
(***************************************************************************)
IsFile(f) ==
  /\ Len(f.lines) \in Nat
  /\ \A x \in f.nodes :
       {<<x.first, x.last>>} \cup x.functions \subseteq (1..Len(f.lines)) \X (1..Len(f.lines))

(***************************************************************************)
(* Chunks are ranges of lines of ranges of lines, and no two of them have  *)
(* the same candidate and the same start.                                  *)
(***************************************************************************)
LEMMA RangeFacts ==
  ASSUME NEW f, IsFile(f)
  PROVE  LET N == 1..Len(f.lines) IN
         /\ Ranges(f) \subseteq (N \X N) \X (N \X N)
         /\ \A x, y \in Ranges(f) : x[1] = y[1] /\ x[2][1] = y[2][1] => x = y
<1>. DEFINE n == Len(f.lines)
            N == 1..n
<1>1. n \in Nat
  BY DEF IsFile
<1>2. Candidates(f) \subseteq N \X N
  <2>1. LineWindows(1, n) \subseteq N \X N
    BY <1>1, WindowFacts
  <2>2. {<<x.first, x.last>> : x \in f.nodes} \subseteq N \X N
    BY DEF IsFile
  <2>3. UNION {x.functions : x \in f.nodes} \subseteq N \X N
    BY DEF IsFile
  <2>4. ModuleCandidates(n, f.nodes) \subseteq N \X N
    BY DEF ModuleCandidates
  <2>5. AstCandidates(f) \subseteq N \X N
    <3>. DEFINE heads == {<<x.first, x.last>> : x \in f.nodes}
                bodies == UNION {x.functions : x \in f.nodes}
                others == ModuleCandidates(n, f.nodes)
    <3>1. AstCandidates(f) = heads \cup bodies \cup others
      BY DEF AstCandidates
    <3>. HIDE DEF heads, bodies, others
    <3>2. heads \subseteq N \X N /\ bodies \subseteq N \X N /\ others \subseteq N \X N
      BY <2>2, <2>3, <2>4 DEF heads, bodies, others
    <3>. QED BY <3>1, <3>2
  <2>. QED BY <2>1, <2>5 DEF Candidates
<1>. DEFINE long(c) == ~(CountTokens(f.lines, c[1], c[2]) <= MaxTokens)
<1>3. ASSUME NEW x \in EnforceTokenLimit(f)
      PROVE  /\ x \in (N \X N) \X (N \X N)
             /\ x[1] \in Candidates(f)
             /\ IF long(x[1]) THEN x[2] \in LineWindows(x[1][1], x[1][2]) ELSE x[2] = x[1]
  <2>1. PICK c \in Candidates(f) :
          x \in IF CountTokens(f.lines, c[1], c[2]) <= MaxTokens
                  THEN {<<c, c>>} ELSE {c} \X LineWindows(c[1], c[2])
    BY <1>3 DEF EnforceTokenLimit
  <2>2. c \in N \X N /\ c[1] \in N /\ c[2] \in N
    BY <1>2
  <2>3. CASE long(c)
    <3>1. x \in {c} \X LineWindows(c[1], c[2])
      BY <2>1, <2>3
    <3>2. x[1] = c /\ x[2] \in LineWindows(c[1], c[2]) /\ x = <<x[1], x[2]>>
      BY <3>1
    <3>3. LineWindows(c[1], c[2]) \subseteq (c[1]..c[2]) \X (c[1]..c[2])
      BY <1>1, <2>2, WindowFacts
    <3>4. c[1]..c[2] \subseteq N
      BY <1>1, <2>2
    <3>5. x[2] \in N \X N
      BY <3>2, <3>3, <3>4
    <3>. QED BY <2>2, <2>3, <3>2, <3>5
  <2>4. CASE ~long(c)
    <3>1. x = <<c, c>>
      BY <2>1, <2>4
    <3>. QED BY <2>2, <2>4, <3>1
  <2>. QED BY <2>3, <2>4
<1>4. ASSUME NEW x \in EnforceTokenLimit(f), NEW y \in EnforceTokenLimit(f),
             x[1] = y[1], x[2][1] = y[2][1]
      PROVE  x = y
  <2>1. x = <<x[1], x[2]>> /\ y = <<y[1], y[2]>>
    BY <1>3
  <2>2. x[2] = y[2]
    <3>1. CASE long(x[1])
      <4>1. x[1][1] \in Nat /\ x[1][2] \in Nat
        BY <1>1, <1>3
      <4>2. /\ x[2] \in LineWindows(x[1][1], x[1][2])
            /\ y[2] \in LineWindows(x[1][1], x[1][2])
        BY <1>3, <1>4, <3>1
      <4>. QED BY <1>4, <4>1, <4>2, WindowFacts
    <3>2. CASE ~long(x[1])
      BY <1>3, <1>4, <3>2
    <3>. QED BY <3>1, <3>2
  <2>. QED BY <1>4, <2>1, <2>2
<1>5. CASE f.lines = <<>>
  BY <1>5 DEF Ranges
<1>6. CASE f.lines # <<>> /\ f.python
  <2>1. Ranges(f) \subseteq EnforceTokenLimit(f)
    BY <1>6 DEF Ranges
  <2>. QED BY <1>3, <1>4, <2>1
<1>7. CASE f.lines # <<>> /\ ~f.python
  <2>1. Ranges(f) = {<<r, r>> : r \in PlainLineWindows(f.lines)}
    BY <1>7 DEF Ranges
  <2>2. PlainLineWindows(f.lines) \subseteq N \X N
    BY <1>1, PlainFacts
  <2>. QED BY <2>1, <2>2
<1>. QED BY <1>5, <1>6, <1>7

(***************************************************************************)
(* The chunks of a file are finitely many, and no two have one index.      *)
(***************************************************************************)
LEMMA IndexFacts ==
  ASSUME NEW f, IsFile(f)
  PROVE  /\ IsFiniteSet(Ranges(f))
         /\ \A x \in Ranges(f) : ChunkIndex(f, x) \in Nat
         /\ \A x, y \in Ranges(f) : ChunkIndex(f, x) = ChunkIndex(f, y) => x = y
<1>. DEFINE N == 1..Len(f.lines)
            R == Ranges(f)
            ahead(x) == {y \in R : Before(y, x)}
<1>1. R \subseteq (N \X N) \X (N \X N)
  BY RangeFacts
<1>2. \A x, y \in R : x[1] = y[1] /\ x[2][1] = y[2][1] => x = y
  BY RangeFacts
<1>3. IsFiniteSet(R)
  <2>1. IsFiniteSet(N)
    BY FS_Interval DEF IsFile
  <2>2. IsFiniteSet(N \X N)
    BY <2>1, FS_Product
  <2>3. IsFiniteSet((N \X N) \X (N \X N))
    BY <2>2, FS_Product
  <2>. QED BY <1>1, <2>3, FS_Subset
<1>4. ASSUME NEW x \in R
      PROVE  /\ x[1][1] \in Nat /\ x[1][2] \in Nat /\ x[2][1] \in Nat
             /\ x[1] = <<x[1][1], x[1][2]>>
  <2>1. x \in (N \X N) \X (N \X N)
    BY <1>1
  <2>2. x[1] \in N \X N /\ x[2] \in N \X N
    BY <2>1
  <2>. QED BY <2>2
<1>. HIDE DEF N, R
\* Before is a strict total order of the ranges.
<1>5. \A x, y \in R : x = y \/ Before(x, y) \/ Before(y, x)
  <2>. SUFFICES ASSUME NEW x \in R, NEW y \in R, ~Before(x, y), ~Before(y, x)
                PROVE  x = y
    OBVIOUS
  <2>1. x[1][1] = y[1][1]
    BY <1>4 DEF Before
  <2>2. x[1][2] = y[1][2]
    BY <1>4, <2>1 DEF Before
  <2>3. x[1] = y[1]
    BY <1>4, <2>1, <2>2
  <2>4. x[2][1] = y[2][1]
    BY <1>4, <2>3 DEF Before
  <2>. QED BY <1>2, <2>3, <2>4
<1>6. \A x \in R : ~Before(x, x)
  BY <1>4 DEF Before
<1>7. \A x, y, z \in R : Before(x, y) /\ Before(y, z) => Before(x, z)
  <2>. SUFFICES ASSUME NEW x \in R, NEW y \in R, NEW z \in R, Before(x, y), Before(y, z)
                PROVE  Before(x, z)
    OBVIOUS
  <2>. DEFINE x1 == x[1][1]  y1 == y[1][1]  z1 == z[1][1]
              x2 == x[1][2]  y2 == y[1][2]  z2 == z[1][2]
              x3 == x[2][1]  y3 == y[2][1]  z3 == z[2][1]
  <2>1. x1 < y1 \/ (x1 = y1 /\ x2 < y2) \/ (x[1] = y[1] /\ x3 < y3)
    BY DEF Before
  <2>2. y1 < z1 \/ (y1 = z1 /\ y2 < z2) \/ (y[1] = z[1] /\ y3 < z3)
    BY DEF Before
  <2>3. /\ x[1] = y[1] => x1 = y1 /\ x2 = y2
        /\ y[1] = z[1] => y1 = z1 /\ y2 = z2
    OBVIOUS
  <2>4. /\ x1 \in Nat /\ y1 \in Nat /\ z1 \in Nat /\ x2 \in Nat /\ y2 \in Nat /\ z2 \in Nat
        /\ x3 \in Nat /\ y3 \in Nat /\ z3 \in Nat
    BY <1>4
  <2>. HIDE DEF x1, y1, z1, x2, y2, z2, x3, y3, z3
  <2>5. x1 < z1 \/ (x1 = z1 /\ x2 < z2) \/ (x[1] = z[1] /\ x3 < z3)
    BY <2>1, <2>2, <2>3, <2>4
  <2>. QED BY <2>5 DEF Before, x1, z1, x2, z2, x3, z3
<1>8. ASSUME NEW x \in R PROVE IsFiniteSet(ahead(x)) /\ Cardinality(ahead(x)) \in Nat
  <2>1. IsFiniteSet(ahead(x))
    BY <1>3, FS_Subset
  <2>. QED BY <2>1, FS_CardinalityType
<1>9. ASSUME NEW x \in R, NEW y \in R, Before(x, y)
      PROVE  Cardinality(ahead(x)) < Cardinality(ahead(y))
  <2>1. ahead(x) \in SUBSET ahead(y)
    BY <1>7, <1>9
  <2>2. x \in ahead(y) /\ x \notin ahead(x)
    BY <1>6, <1>9
  <2>. QED BY <1>8, <2>1, <2>2, FewerInPart
<1>10. \A x \in R : ChunkIndex(f, x) = Cardinality(ahead(x))
  BY DEF ChunkIndex, R
<1>11. ASSUME NEW x \in R, NEW y \in R, ChunkIndex(f, x) = ChunkIndex(f, y)
       PROVE  x = y
  <2>1. Cardinality(ahead(x)) = Cardinality(ahead(y)) /\ Cardinality(ahead(x)) \in Nat
    BY <1>8, <1>10, <1>11
  <2>2. Before(x, y) => Cardinality(ahead(x)) < Cardinality(ahead(y))
    BY <1>9
  <2>3. Before(y, x) => Cardinality(ahead(y)) < Cardinality(ahead(x))
    BY <1>9
  <2>. HIDE DEF ahead
  <2>4. ~Before(x, y) /\ ~Before(y, x)
    BY <2>1, <2>2, <2>3
  <2>. QED BY <1>5, <2>4
<1>. QED BY <1>3, <1>8, <1>10, <1>11 DEF R

(***************************************************************************)
(* The documents of a clone are finitely many, and each is known by its    *)
(* file and its index.                                                     *)
(***************************************************************************)
LEMMA DocumentFacts ==
  ASSUME NEW files, IsClone(files)
  PROVE  LET docs == BuildSourceChunkDocuments(files) IN
         /\ IsFiniteSet(docs)
         /\ \A d \in docs : d.index \in Nat
         /\ \A d, e \in docs : d.file = e.file /\ d.index = e.index => d = e
<1>. DEFINE of(f) == {Document(f, x) : x \in Ranges(f)}
            chunked == Chunked(files)
            docs == UNION {of(f) : f \in chunked}
<1>1. chunked \subseteq files
  BY DEF Chunked, BuildFileManifest
<1>2. \A f \in chunked : IsFile(f)
  BY <1>1 DEF IsClone, IsFile
<1>3. ASSUME NEW f \in chunked PROVE IsFiniteSet(of(f))
  <2>. DEFINE g == [x \in Ranges(f) |-> Document(f, x)]
  <2>1. g \in Surjection(Ranges(f), of(f))
    BY DEF Surjection
  <2>. HIDE DEF g
  <2>. QED BY <1>2, <2>1, IndexFacts, FS_Surjection
<1>4. IsFiniteSet({of(f) : f \in chunked})
  <2>. DEFINE g == [f \in chunked |-> of(f)]
              T == {of(f) : f \in chunked}
  <2>1. IsFiniteSet(chunked)
    BY <1>1, FS_Subset DEF IsClone
  <2>2. g \in Surjection(chunked, T)
    BY DEF Surjection
  <2>. HIDE DEF g
  <2>. QED BY <2>1, <2>2, FS_Surjection
<1>5. IsFiniteSet(docs)
  BY <1>3, <1>4, FS_UNION
<1>6. \A d \in docs : \E f \in chunked : \E x \in Ranges(f) :
        d = Document(f, x) /\ d.file = f.path /\ d.index = ChunkIndex(f, x)
  BY DEF Document
<1>. HIDE DEF chunked, docs, of
<1>7. \A d \in docs : d.index \in Nat
  BY <1>2, <1>6, IndexFacts
<1>8. ASSUME NEW d \in docs, NEW e \in docs, d.file = e.file, d.index = e.index
      PROVE  d = e
  <2>1. PICK f \in chunked : \E x \in Ranges(f) :
          d = Document(f, x) /\ d.file = f.path /\ d.index = ChunkIndex(f, x)
    BY <1>6
  <2>a. PICK x \in Ranges(f) : d = Document(f, x) /\ d.file = f.path /\ d.index = ChunkIndex(f, x)
    BY <2>1
  <2>2. PICK g \in chunked : \E y \in Ranges(g) :
          e = Document(g, y) /\ e.file = g.path /\ e.index = ChunkIndex(g, y)
    BY <1>6
  <2>b. PICK y \in Ranges(g) : e = Document(g, y) /\ e.file = g.path /\ e.index = ChunkIndex(g, y)
    BY <2>2
  <2>3. f = g
    BY <1>1, <1>8, <2>a, <2>b DEF IsClone
  <2>4. x = y
    BY <1>2, <1>8, <2>a, <2>b, <2>3, IndexFacts
  <2>. QED BY <2>a, <2>b, <2>3, <2>4
<1>9. BuildSourceChunkDocuments(files) = docs
  BY DEF BuildSourceChunkDocuments, docs, chunked, of
<1>. QED BY <1>5, <1>7, <1>8, <1>9

(***************************************************************************)
(* The id of a vector says which snapshot and which document of it it is.  *)
(***************************************************************************)
LEMMA IdFacts ==
  ASSUME NEW s \in Snapshots, NEW t, NEW d \in DocumentsOf(s), NEW e \in DocumentsOf(t),
         CacheId(s, DocumentsOf(s), d) = CacheId(t, DocumentsOf(t), e)
  PROVE  s = t /\ d = e
<1>. DEFINE docs == DocumentsOf(s)
            ahead(x) == {y \in docs : y.file = x.file /\ y.text = x.text /\ y.index < x.index}
<1>1. s = t /\ d.file = e.file /\ d.text = e.text /\ OccurrenceIndex(docs, d) = OccurrenceIndex(docs, e)
  BY DEF CacheId, IndexGenerationKey
<1>2. /\ IsFiniteSet(docs)
      /\ \A x \in docs : x.index \in Nat
      /\ \A x, y \in docs : x.file = y.file /\ x.index = y.index => x = y
  BY IndexAssumption, DocumentFacts DEF DocumentsOf
<1>3. d \in docs /\ e \in docs
  BY <1>1
<1>. HIDE DEF docs
<1>4. ASSUME NEW x \in docs, NEW y \in docs, x.file = y.file, x.text = y.text, x.index < y.index
      PROVE  OccurrenceIndex(docs, x) < OccurrenceIndex(docs, y)
  <2>1. x.index \in Nat /\ y.index \in Nat
    BY <1>2
  <2>2. ahead(x) \in SUBSET ahead(y)
    BY <1>2, <1>4, <2>1
  <2>3. x \in ahead(y) /\ x \notin ahead(x)
    BY <1>4, <2>1
  <2>4. IsFiniteSet(ahead(y))
    BY <1>2, FS_Subset
  <2>5. Cardinality(ahead(x)) < Cardinality(ahead(y))
    BY <2>2, <2>3, <2>4, FewerInPart
  <2>. QED BY <2>5 DEF OccurrenceIndex
<1>5. \A x \in docs : OccurrenceIndex(docs, x) \in Nat
  <2>. SUFFICES ASSUME NEW x \in docs PROVE Cardinality(ahead(x)) \in Nat
    BY DEF OccurrenceIndex
  <2>1. IsFiniteSet(ahead(x))
    BY <1>2, FS_Subset
  <2>. QED BY <2>1, FS_CardinalityType
<1>6. ~(d.index < e.index) /\ ~(e.index < d.index)
  BY <1>1, <1>3, <1>4, <1>5
<1>7. d.index = e.index
  BY <1>2, <1>3, <1>6
<1>. QED BY <1>1, <1>2, <1>3, <1>7

-----------------------------------------------------------------------------
(***************************************************************************)
(* The vectors.                                                            *)
(***************************************************************************)

(***************************************************************************)
(* A batch is taken from what is left.                                     *)
(***************************************************************************)
LEMMA BatchFacts ==
  ASSUME NEW docs
  PROVE  /\ \A n : First(docs, n) \subseteq docs
         /\ TokenLimitedBatch(docs) \subseteq docs
BY DEF TokenLimitedBatch, First

(***************************************************************************)
(* What a job writes for a chunk of its own stands for that chunk.         *)
(***************************************************************************)
LEMMA MetadataFacts ==
  ASSUME IndexTypeOK, NEW j \in Jobs, NEW d \in Prepared(j)
  PROVE  StandsFor(Metadata(j, d), Id(j, d))
<1>1. snapshot[j] \in Snapshots
  BY DEF IndexTypeOK
<1>2. d \in DocumentsOf(snapshot[j]) /\ CanSendToRemote(d)
  BY DEF Prepared, Documents
<1>3. Id(j, d) = CacheId(snapshot[j], DocumentsOf(snapshot[j]), d)
  BY DEF Id, Documents
<1>4. /\ Metadata(j, d).doc = d /\ Metadata(j, d).generation = snapshot[j]
      /\ Metadata(j, d).branch = snapshot[j][1]
  BY DEF Metadata, IndexGenerationKey, RepoBranchKey
<1>. QED BY <1>1, <1>2, <1>3, <1>4 DEF StandsFor

(***************************************************************************)
(* Embedding a batch, whatever is in the collection: the vectors of its    *)
(* chunks are written, the others are left alone.                          *)
(***************************************************************************)
LEMMA UpsertFacts ==
  ASSUME IndexTypeOK, VectorsInv, NEW j \in Jobs,
         NEW docs \in SUBSET Prepared(j), Upsert(j, docs)
  PROVE  /\ VectorsInv'
         /\ DOMAIN vectors' = DOMAIN vectors \cup {Id(j, d) : d \in docs}
<1>. DEFINE ids == {Id(j, d) : d \in docs}
            writer(i) == CHOOSE d \in docs : Id(j, d) = i
<1>1. vectors' = [i \in DOMAIN vectors \cup ids |->
                    IF i \in ids THEN Metadata(j, writer(i)) ELSE vectors[i]]
  BY DEF Upsert
<1>2. ASSUME NEW i \in ids PROVE StandsFor(Metadata(j, writer(i)), i)
  <2>1. writer(i) \in docs /\ Id(j, writer(i)) = i
    OBVIOUS
  <2>. QED BY <2>1, MetadataFacts
<1>. HIDE DEF ids, writer
<1>3. ASSUME NEW i \in DOMAIN vectors' PROVE StandsFor(vectors'[i], i)
  BY <1>1, <1>2, <1>3 DEF VectorsInv
<1>4. VectorsInv'
  BY <1>3 DEF VectorsInv, StandsFor
<1>. QED BY <1>1, <1>4 DEF ids

(***************************************************************************)
(* Refreshing rewrites what is there.                                      *)
(***************************************************************************)
LEMMA RefreshFacts ==
  ASSUME IndexTypeOK, VectorsInv, NEW j \in Jobs, RefreshCached(j)
  PROVE  VectorsInv' /\ DOMAIN vectors' = DOMAIN vectors
<1>. DEFINE cached == {d \in Prepared(j) : Id(j, d) \in existing[j] \cap DOMAIN vectors}
            writer(i) == CHOOSE d \in cached : Id(j, d) = i
            isCached(i) == \E d \in cached : Id(j, d) = i
<1>1. vectors' = [i \in DOMAIN vectors |->
                    IF isCached(i) THEN Metadata(j, writer(i)) ELSE vectors[i]]
  BY DEF RefreshCached
<1>2. ASSUME NEW i, isCached(i) PROVE StandsFor(Metadata(j, writer(i)), i)
  <2>1. writer(i) \in cached /\ Id(j, writer(i)) = i
    BY <1>2
  <2>2. writer(i) \in Prepared(j)
    BY <2>1
  <2>. QED BY <2>1, <2>2, MetadataFacts
<1>. HIDE DEF isCached, writer
<1>3. ASSUME NEW i \in DOMAIN vectors' PROVE StandsFor(vectors'[i], i)
  BY <1>1, <1>2, <1>3 DEF VectorsInv
<1>. QED BY <1>1, <1>3 DEF VectorsInv, StandsFor

(***************************************************************************)
(* Pruning never drops a chunk that some job counts as embedded: what it   *)
(* drops was looked up for one snapshot and is not among its chunks.       *)
(***************************************************************************)
LEMMA PruneFacts ==
  ASSUME IndexTypeOK, VectorsInv, ScopeInv, NEW j \in Jobs, PruneStale(j)
  PROVE  /\ VectorsInv'
         /\ \A k \in Jobs : \A d \in Prepared(k) :
              Id(k, d) \in DOMAIN vectors => Id(k, d) \in DOMAIN vectors'
<1>. DEFINE stale == existing[j] \ CurrentIds(j)
<1>1. vectors' = [i \in DOMAIN vectors \ stale |-> vectors[i]]
  BY DEF PruneStale
<1>2. ASSUME NEW k \in Jobs, NEW d \in Prepared(k) PROVE Id(k, d) \notin stale
  <2>. SUFFICES ASSUME Id(k, d) \in existing[j] PROVE Id(k, d) \in CurrentIds(j)
    OBVIOUS
  <2>1. Id(k, d).generation = snapshot[k]
    BY DEF Id, CacheId, IndexGenerationKey
  <2>2. snapshot[k] = snapshot[j]
    BY <2>1 DEF ScopeInv
  <2>3. Prepared(k) = Prepared(j) /\ Id(k, d) = Id(j, d)
    BY <2>2 DEF Prepared, Id, Documents
  <2>. QED BY <2>3 DEF CurrentIds
<1>. HIDE DEF stale
<1>3. VectorsInv'
  BY <1>1 DEF VectorsInv, StandsFor
<1>. QED BY <1>1, <1>2, <1>3

(***************************************************************************)
(* What is made of the snapshot of a job stays what it is.                 *)
(***************************************************************************)
LEMMA SameSnapshot ==
  ASSUME snapshot' = snapshot
  PROVE  \A k : /\ Documents(k)' = Documents(k)
                /\ Prepared(k)' = Prepared(k)
                /\ \A d : Id(k, d)' = Id(k, d)
<1>1. \A k : Documents(k)' = Documents(k)
  BY DEF Documents, DocumentsOf
<1>. QED BY <1>1 DEF Prepared, Id, CacheId

(***************************************************************************)
(* No step changes what a job reviews.                                     *)
(***************************************************************************)
LEMMA SnapshotStep ==
  ASSUME [Next]_vars
  PROVE  snapshot' = snapshot
<1>1. CASE UNCHANGED vars
  BY <1>1 DEF vars
<1>2. ASSUME NEW j \in Jobs,
             \/ StartIndex(j) \/ DeleteChunks(j) \/ InsertBatch(j)
             \/ ReadExisting(j) \/ RefreshCached(j) \/ EmbedBatch(j) \/ RetryBatch(j)
             \/ PruneStale(j) \/ MarkIndexed(j)
             \/ Fail(j) \/ FailThreaded(j) \/ MarkIndexFailed(j) \/ Crash(j)
             \/ Search(j)
      PROVE  snapshot' = snapshot
  BY <1>2 DEF StartIndex, DeleteChunks, InsertBatch, ReadExisting, RefreshCached, EmbedBatch,
              RetryBatch, PruneStale, MarkIndexed, Fail, FailThreaded, MarkIndexFailed, Crash, Search
<1>. QED BY <1>1, <1>2 DEF Next

(***************************************************************************)
(* Every step keeps vectors in place for the chunks that have one, and     *)
(* embedding a batch gives one to each of its chunks.                      *)
(***************************************************************************)
LEMMA VectorStep ==
  ASSUME IndexTypeOK, VectorsInv, ScopeInv, ProgressInv, [Next]_vars
  PROVE  /\ VectorsInv'
         /\ \A k \in Jobs : Embedded(k) \subseteq Embedded(k)'
         /\ \A j \in Jobs : EmbedBatch(j) => TokenLimitedBatch(todo[j]) \subseteq Embedded(j)'
<1>1. snapshot' = snapshot
  BY SnapshotStep
<1>2. \A k : Embedded(k)' = {d \in Prepared(k) : Id(k, d) \in DOMAIN vectors'}
  BY <1>1, SameSnapshot DEF Embedded
<1>3. ASSUME VectorsInv', \A k \in Jobs : \A d \in Prepared(k) :
                            Id(k, d) \in DOMAIN vectors => Id(k, d) \in DOMAIN vectors'
      PROVE  VectorsInv' /\ \A k \in Jobs : Embedded(k) \subseteq Embedded(k)'
  BY <1>2, <1>3 DEF Embedded
<1>4. ASSUME vectors' = vectors
      PROVE  VectorsInv' /\ \A k \in Jobs : Embedded(k) \subseteq Embedded(k)'
  <2>1. \A i \in DOMAIN vectors' : StandsFor(vectors'[i], i)
    BY <1>4 DEF VectorsInv
  <2>2. VectorsInv'
    BY <2>1 DEF VectorsInv, StandsFor
  <2>. QED BY <1>3, <1>4, <2>2
<1>5. ASSUME NEW j \in Jobs, RefreshCached(j)
      PROVE  VectorsInv' /\ \A k \in Jobs : Embedded(k) \subseteq Embedded(k)'
  BY <1>3, <1>5, RefreshFacts
<1>6. ASSUME NEW j \in Jobs, EmbedBatch(j)
      PROVE  /\ VectorsInv' /\ \A k \in Jobs : Embedded(k) \subseteq Embedded(k)'
             /\ TokenLimitedBatch(todo[j]) \subseteq Embedded(j)'
  <2>1. pc[j] \in Threaded
    BY <1>6 DEF EmbedBatch, Threaded
  <2>2. todo[j] \subseteq Prepared(j)
    BY <2>1 DEF ProgressInv, Progress
  <2>3. TokenLimitedBatch(todo[j]) \in SUBSET Prepared(j)
    BY <2>2, BatchFacts
  <2>4. Upsert(j, TokenLimitedBatch(todo[j]))
    BY <1>6 DEF EmbedBatch
  <2>5. /\ VectorsInv'
        /\ DOMAIN vectors' = DOMAIN vectors \cup {Id(j, d) : d \in TokenLimitedBatch(todo[j])}
    BY <2>3, <2>4, UpsertFacts
  <2>6. TokenLimitedBatch(todo[j]) \subseteq Embedded(j)'
    BY <1>2, <2>3, <2>5
  <2>. QED BY <1>3, <2>5, <2>6
<1>7. ASSUME NEW j \in Jobs, PruneStale(j)
      PROVE  VectorsInv' /\ \A k \in Jobs : Embedded(k) \subseteq Embedded(k)'
  BY <1>3, <1>7, PruneFacts
<1>8. ASSUME NEW j \in Jobs,
             \/ StartIndex(j) \/ DeleteChunks(j) \/ InsertBatch(j)
             \/ ReadExisting(j) \/ RetryBatch(j) \/ MarkIndexed(j)
             \/ Fail(j) \/ FailThreaded(j) \/ MarkIndexFailed(j) \/ Crash(j)
             \/ Search(j)
      PROVE  vectors' = vectors
  BY <1>8 DEF StartIndex, DeleteChunks, InsertBatch, ReadExisting, RetryBatch, MarkIndexed, Fail,
              FailThreaded, MarkIndexFailed, Crash, Search
<1>9. UNCHANGED vars => vectors' = vectors
  BY DEF vars
<1>10. VectorsInv' /\ \A k \in Jobs : Embedded(k) \subseteq Embedded(k)'
  BY <1>4, <1>5, <1>6, <1>7, <1>8, <1>9 DEF Next
<1>. QED BY <1>6, <1>10

(***************************************************************************)
(* What a job reads of the cache is of its own snapshot.                   *)
(***************************************************************************)
LEMMA ScopeStep ==
  ASSUME IndexTypeOK, VectorsInv, ScopeInv, [Next]_vars
  PROVE  ScopeInv'
<1>1. snapshot' = snapshot
  BY SnapshotStep
<1>2. CASE existing' = existing
  BY <1>1, <1>2 DEF ScopeInv
<1>3. ASSUME NEW j \in Jobs, ReadExisting(j) PROVE ScopeInv'
  <2>1. \A k \in Jobs \ {j} : existing'[k] = existing[k]
    BY <1>3 DEF ReadExisting, IndexTypeOK
  <2>2. ASSUME NEW i \in existing'[j] PROVE i.generation = snapshot[j]
    <3>1. i \in DOMAIN vectors /\ InScope(vectors[i], snapshot[j])
      BY <1>3, <2>2 DEF ReadExisting, IndexTypeOK
    <3>2. vectors[i].generation = snapshot[j]
      BY <3>1 DEF InScope, IndexGenerationKey
    <3>3. StandsFor(vectors[i], i)
      BY <3>1 DEF VectorsInv
    <3>4. i.generation = vectors[i].generation
      BY <3>3 DEF StandsFor, CacheId, IndexGenerationKey
    <3>. QED BY <3>2, <3>4
  <2>. QED BY <1>1, <2>1, <2>2 DEF ScopeInv
<1>4. ASSUME NEW j \in Jobs,
             \/ StartIndex(j) \/ DeleteChunks(j) \/ InsertBatch(j)
             \/ RefreshCached(j) \/ EmbedBatch(j) \/ RetryBatch(j)
             \/ PruneStale(j) \/ MarkIndexed(j)
             \/ Fail(j) \/ FailThreaded(j) \/ MarkIndexFailed(j) \/ Crash(j)
             \/ Search(j)
      PROVE  existing' = existing
  BY <1>4 DEF StartIndex, DeleteChunks, InsertBatch, RefreshCached, EmbedBatch,
              RetryBatch, PruneStale, MarkIndexed, Fail, FailThreaded, MarkIndexFailed, Crash, Search
<1>5. UNCHANGED vars => existing' = existing
  BY DEF vars
<1>. QED BY <1>2, <1>3, <1>4, <1>5 DEF Next

-----------------------------------------------------------------------------
(***************************************************************************)
(* The course of a job.                                                    *)
(***************************************************************************)

Advances(j) ==
  \/ StartIndex(j) \/ DeleteChunks(j) \/ InsertBatch(j)
  \/ ReadExisting(j) \/ RefreshCached(j) \/ EmbedBatch(j) \/ RetryBatch(j)
  \/ PruneStale(j) \/ MarkIndexed(j)
  \/ Fail(j) \/ FailThreaded(j) \/ MarkIndexFailed(j) \/ Crash(j)
  \/ Search(j)

(***************************************************************************)
(* A step of one job leaves what is kept for the others alone.             *)
(***************************************************************************)
LEMMA OthersStep ==
  ASSUME IndexTypeOK, NEW j \in Jobs, Advances(j), NEW k \in Jobs, k # j
  PROVE  /\ pc'[k] = pc[k] /\ manifest'[k] = manifest[k]
         /\ stored'[k] = stored[k] /\ todo'[k] = todo[k]
         /\ found'[k] = found[k]
<1>1. pc'[k] = pc[k]
  BY DEF Advances, StartIndex, DeleteChunks, InsertBatch, ReadExisting, RefreshCached, EmbedBatch,
         RetryBatch, PruneStale, MarkIndexed, Fail, FailThreaded, MarkIndexFailed, Crash, Search,
         Goto, IndexTypeOK
<1>2. manifest'[k] = manifest[k]
  BY DEF Advances, StartIndex, DeleteChunks, InsertBatch, ReadExisting, RefreshCached, EmbedBatch,
         RetryBatch, PruneStale, MarkIndexed, Fail, FailThreaded, MarkIndexFailed, Crash, Search,
         WriteManifest, IndexTypeOK
<1>3. stored'[k] = stored[k]
  BY DEF Advances, StartIndex, DeleteChunks, InsertBatch, ReadExisting, RefreshCached, EmbedBatch,
         RetryBatch, PruneStale, MarkIndexed, Fail, FailThreaded, MarkIndexFailed, Crash, Search,
         IndexTypeOK
<1>4. todo'[k] = todo[k]
  BY DEF Advances, StartIndex, DeleteChunks, InsertBatch, ReadExisting, RefreshCached, EmbedBatch,
         RetryBatch, PruneStale, MarkIndexed, Fail, FailThreaded, MarkIndexFailed, Crash, Search,
         IndexTypeOK
<1>5. found'[k] = found[k]
  BY DEF Advances, StartIndex, DeleteChunks, InsertBatch, ReadExisting, RefreshCached, EmbedBatch,
         RetryBatch, PruneStale, MarkIndexed, Fail, FailThreaded, MarkIndexFailed, Crash, Search,
         IndexTypeOK
<1>. QED BY <1>1, <1>2, <1>3, <1>4, <1>5

(***************************************************************************)
(* A job keeps its place as long as it does not move and no vector of its  *)
(* chunks is lost.                                                         *)
(***************************************************************************)
LEMMA Kept ==
  ASSUME NEW k \in Jobs, Progress(k), snapshot' = snapshot, Embedded(k) \subseteq Embedded(k)',
         pc'[k] = pc[k], manifest'[k] = manifest[k], stored'[k] = stored[k], todo'[k] = todo[k]
  PROVE  Progress(k)'
<1>1. Documents(k)' = Documents(k) /\ Prepared(k)' = Prepared(k)
  BY SameSnapshot
<1>2. Embedded(k)' \subseteq Prepared(k)
  BY <1>1 DEF Embedded
<1>. QED BY <1>1, <1>2 DEF Progress

(***************************************************************************)
(* The course of the job that takes the step.                              *)
(***************************************************************************)
LEMMA OwnStep ==
  ASSUME IndexTypeOK, VectorsInv, ScopeInv, ProgressInv, NEW j \in Jobs, Advances(j)
  PROVE  Progress(j)'
<1>1. [Next]_vars
  BY DEF Advances, Next
<1>2. snapshot' = snapshot
  BY <1>1, SnapshotStep
<1>3. Documents(j)' = Documents(j) /\ Prepared(j)' = Prepared(j)
  BY <1>2, SameSnapshot
<1>4. Embedded(j) \subseteq Embedded(j)'
  BY <1>1, VectorStep
<1>5. Embedded(j)' \subseteq Prepared(j)
  BY <1>3 DEF Embedded
<1>6. Progress(j)
  BY DEF ProgressInv
<1>7. /\ j \in DOMAIN pc /\ j \in DOMAIN manifest
      /\ j \in DOMAIN stored /\ j \in DOMAIN todo
      /\ stored[j] \subseteq Documents(j) /\ todo[j] \subseteq Documents(j)
  BY DEF IndexTypeOK
<1>8. Prepared(j) \subseteq Documents(j)
  BY DEF Prepared
<1>9. CASE StartIndex(j)
  BY <1>3, <1>6, <1>7, <1>9 DEF StartIndex, Goto, WriteManifest, Progress, Threaded
<1>10. CASE DeleteChunks(j)
  BY <1>3, <1>6, <1>7, <1>10 DEF DeleteChunks, Goto, Progress, Threaded
<1>11. CASE InsertBatch(j)
  <2>1. First(todo[j], MongoBatch) \subseteq todo[j]
    BY BatchFacts
  <2>2. stored'[j] \cup todo'[j] = stored[j] \cup todo[j]
    BY <1>7, <1>11, <2>1 DEF InsertBatch
  <2>. QED BY <1>3, <1>6, <1>7, <1>11, <2>2 DEF InsertBatch, Progress, Threaded
<1>12. CASE ReadExisting(j)
  <2>1. todo'[j] \subseteq Prepared(j) /\ \A d \in Prepared(j) \ todo'[j] : Id(j, d) \in DOMAIN vectors
    BY <1>7, <1>12 DEF ReadExisting
  <2>2. Embedded(j) \cup todo'[j] = Prepared(j)
    BY <2>1 DEF Embedded
  <2>3. Embedded(j)' \cup todo'[j] = Prepared(j)
    BY <1>4, <1>5, <2>2
  <2>. QED BY <1>3, <1>6, <1>7, <1>12, <2>3 DEF ReadExisting, Goto, Progress, Threaded
<1>13. CASE RefreshCached(j)
  <2>1. Embedded(j)' \cup todo[j] = Prepared(j)
    BY <1>4, <1>5, <1>6, <1>13 DEF RefreshCached, Goto, Progress, Threaded
  <2>. QED BY <1>3, <1>6, <1>7, <1>13, <2>1 DEF RefreshCached, Goto, Progress, Threaded
<1>14. CASE EmbedBatch(j)
  <2>1. TokenLimitedBatch(todo[j]) \subseteq Embedded(j)'
    BY <1>1, <1>14, VectorStep
  <2>2. Embedded(j) \cup todo[j] = Prepared(j)
    BY <1>6, <1>14 DEF EmbedBatch, Progress, Threaded
  <2>3. todo'[j] = todo[j] \ TokenLimitedBatch(todo[j])
    BY <1>7, <1>14 DEF EmbedBatch
  <2>4. Embedded(j)' \cup todo'[j] = Prepared(j)
    BY <1>4, <1>5, <2>1, <2>2, <2>3
  <2>. QED BY <1>3, <1>6, <1>7, <1>14, <2>4 DEF EmbedBatch, Progress, Threaded
<1>15. CASE RetryBatch(j)
  BY <1>2, <1>4, <1>6, <1>15, Kept DEF RetryBatch
<1>16. CASE PruneStale(j)
  <2>1. Embedded(j)' = Prepared(j)
    BY <1>4, <1>5, <1>6, <1>16 DEF PruneStale, Goto, Progress, Threaded
  <2>. QED BY <1>3, <1>6, <1>7, <1>16, <2>1 DEF PruneStale, Goto, Progress, Threaded
<1>17. CASE MarkIndexed(j)
  <2>1. Embedded(j)' = Prepared(j)
    BY <1>4, <1>5, <1>6, <1>17 DEF MarkIndexed, Goto, Progress
  <2>. QED BY <1>3, <1>6, <1>7, <1>17, <2>1 DEF MarkIndexed, Goto, WriteManifest, Progress, Threaded
<1>18. CASE Fail(j)
  BY <1>3, <1>6, <1>7, <1>18 DEF Fail, Progress, Threaded
<1>19. CASE FailThreaded(j)
  BY <1>3, <1>6, <1>7, <1>19 DEF FailThreaded, Progress, Threaded
<1>20. CASE MarkIndexFailed(j)
  BY <1>3, <1>6, <1>7, <1>20 DEF MarkIndexFailed, Goto, WriteManifest, Progress, Threaded
<1>21. CASE Crash(j)
  <2>1. manifest[j] = "INDEXED" => Embedded(j)' = Prepared(j)
    BY <1>4, <1>5, <1>6 DEF Progress
  <2>. QED BY <1>3, <1>6, <1>7, <1>21, <2>1 DEF Crash, Progress, Threaded
<1>22. CASE Search(j)
  BY <1>2, <1>4, <1>6, <1>22, Kept DEF Search
<1>. QED BY <1>9, <1>10, <1>11, <1>12, <1>13, <1>14, <1>15, <1>16, <1>17, <1>18, <1>19, <1>20,
            <1>21, <1>22 DEF Advances

(***************************************************************************)
(* Every step keeps account of every document of a job: what is embedded   *)
(* and what is left to do make up what was prepared, and nothing is left   *)
(* once the manifest says INDEXED.                                         *)
(***************************************************************************)
LEMMA ProgressStep ==
  ASSUME IndexTypeOK, VectorsInv, ScopeInv, ProgressInv, [Next]_vars
  PROVE  ProgressInv'
<1>1. snapshot' = snapshot
  BY SnapshotStep
<1>2. \A k \in Jobs : Embedded(k) \subseteq Embedded(k)'
  BY VectorStep
<1>3. ASSUME NEW j \in Jobs, Advances(j), NEW k \in Jobs PROVE Progress(k)'
  <2>1. CASE k = j
    BY <1>3, <2>1, OwnStep
  <2>2. CASE k # j
    BY <1>1, <1>2, <1>3, <2>2, OthersStep, Kept DEF ProgressInv
  <2>. QED BY <2>1, <2>2
<1>4. ASSUME UNCHANGED vars, NEW k \in Jobs PROVE Progress(k)'
  BY <1>1, <1>2, <1>4, Kept DEF ProgressInv, vars
<1>5. ASSUME NEW k \in Jobs PROVE Progress(k)'
  BY <1>3, <1>4, <1>5 DEF Next, Advances
<1>. QED BY <1>5 DEF ProgressInv

(***************************************************************************)
(* Types, one variable at a time.                                          *)
(***************************************************************************)
LEMMA TypeStep ==
  ASSUME IndexTypeOK, ProgressInv, [Next]_vars
  PROVE  IndexTypeOK'
<1>1. snapshot' = snapshot
  BY SnapshotStep
<1>2. \A k : Documents(k)' = Documents(k)
  BY <1>1, SameSnapshot
<1>3. \A k \in Jobs : Prepared(k) \subseteq Documents(k)
  BY DEF Prepared
<1>4. CASE UNCHANGED vars
  BY <1>2, <1>4 DEF vars, IndexTypeOK
<1>5. ASSUME NEW j \in Jobs, Advances(j) PROVE IndexTypeOK'
  <2>. DEFINE PC == {"cloned", "building", "inserting", "pruned", "indexed", "failing", "over",
                     "refreshing", "embedding"}
  <2>1. pc' \in [Jobs -> PC]
    <3>1. pc \in [Jobs -> PC]
      BY DEF IndexTypeOK, Threaded
    <3>. QED BY <1>5, <3>1
      DEF Advances, StartIndex, DeleteChunks, InsertBatch, ReadExisting, RefreshCached, EmbedBatch,
          RetryBatch, PruneStale, MarkIndexed, Fail, FailThreaded, MarkIndexFailed, Crash, Search,
          Goto
  <2>2. manifest' \in [Jobs -> {"NONE", "BUILDING", "INDEXED", "FAILED"}]
    <3>1. manifest \in [Jobs -> {"NONE", "BUILDING", "INDEXED", "FAILED"}]
      BY DEF IndexTypeOK
    <3>. QED BY <1>5, <3>1
      DEF Advances, StartIndex, DeleteChunks, InsertBatch, ReadExisting, RefreshCached, EmbedBatch,
          RetryBatch, PruneStale, MarkIndexed, Fail, FailThreaded, MarkIndexFailed, Crash, Search,
          WriteManifest
  <2>3. /\ DOMAIN stored' = Jobs /\ DOMAIN todo' = Jobs
        /\ DOMAIN existing' = Jobs /\ DOMAIN found' = Jobs
    BY <1>5
      DEF Advances, StartIndex, DeleteChunks, InsertBatch, ReadExisting, RefreshCached, EmbedBatch,
          RetryBatch, PruneStale, MarkIndexed, Fail, FailThreaded, MarkIndexFailed, Crash, Search,
          IndexTypeOK
  <2>4. attempt' \in [Jobs -> 0..MaxRetries]
    <3>1. attempt \in [Jobs -> 0..MaxRetries]
      BY DEF IndexTypeOK
    <3>2. MaxRetries \in Nat
      BY IndexAssumption
    <3>3. CASE RetryBatch(j)
      <4>1. attempt[j] + 1 \in 0..MaxRetries
        BY <3>1, <3>2, <3>3 DEF RetryBatch
      <4>. QED BY <3>1, <3>3, <4>1 DEF RetryBatch
    <3>4. CASE EmbedBatch(j)
      BY <3>1, <3>2, <3>4 DEF EmbedBatch
    <3>5. CASE UNCHANGED attempt
      BY <3>1, <3>5
    <3>. QED BY <1>5, <3>3, <3>4, <3>5
      DEF Advances, StartIndex, DeleteChunks, InsertBatch, ReadExisting, RefreshCached,
          PruneStale, MarkIndexed, Fail, FailThreaded, MarkIndexFailed, Crash, Search
  <2>5. crashes' \in 0..MaxCrashes
    <3>1. crashes \in 0..MaxCrashes /\ MaxCrashes \in Nat
      BY IndexAssumption DEF IndexTypeOK
    <3>2. CASE Crash(j)
      BY <3>1, <3>2 DEF Crash
    <3>3. CASE UNCHANGED crashes
      BY <3>1, <3>3
    <3>. QED BY <1>5, <3>2, <3>3
      DEF Advances, StartIndex, DeleteChunks, InsertBatch, ReadExisting, RefreshCached, EmbedBatch,
          RetryBatch, PruneStale, MarkIndexed, Fail, FailThreaded, MarkIndexFailed, Search
  <2>6. stored'[j] \subseteq Documents(j) /\ todo'[j] \subseteq Documents(j)
    <3>1. /\ j \in DOMAIN stored /\ j \in DOMAIN todo
          /\ stored[j] \subseteq Documents(j) /\ todo[j] \subseteq Documents(j)
      BY DEF IndexTypeOK
    <3>2. CASE DeleteChunks(j)
      BY <3>1, <3>2 DEF DeleteChunks
    <3>3. CASE InsertBatch(j)
      <4>1. First(todo[j], MongoBatch) \subseteq todo[j]
        BY BatchFacts
      <4>. QED BY <3>1, <3>3, <4>1 DEF InsertBatch
    <3>4. CASE ReadExisting(j)
      BY <1>3, <3>1, <3>4 DEF ReadExisting
    <3>5. CASE EmbedBatch(j)
      BY <3>1, <3>5 DEF EmbedBatch
    <3>6. CASE stored' = stored /\ todo' = todo
      BY <3>1, <3>6
    <3>. QED BY <1>5, <3>2, <3>3, <3>4, <3>5, <3>6
      DEF Advances, StartIndex, RefreshCached, RetryBatch,
          PruneStale, MarkIndexed, Fail, FailThreaded, MarkIndexFailed, Crash, Search
  <2>7. \A k \in Jobs : stored'[k] \subseteq Documents(k) /\ todo'[k] \subseteq Documents(k)
    BY <1>5, <2>6, OthersStep DEF IndexTypeOK
  <2>. QED BY <1>1, <1>2, <2>1, <2>2, <2>3, <2>4, <2>5, <2>7 DEF IndexTypeOK, Threaded
<1>. QED BY <1>4, <1>5 DEF Next, Advances

-----------------------------------------------------------------------------
(***************************************************************************)
(* Searching.                                                              *)
(***************************************************************************)

(***************************************************************************)
(* The smallest of three numbers.                                          *)
(***************************************************************************)
LEMMA MinTriple ==
  ASSUME NEW a \in Nat, NEW b \in Nat, NEW c \in Nat
  PROVE  LET m == IF b <= c THEN b ELSE c
         IN  Min({a, b, c}) = IF a <= m THEN a ELSE m
<1>1. {a, b, c} \in SUBSET Nat /\ {a, b, c} # {}
  OBVIOUS
<1>2. Min({a, b, c}) \in {a, b, c} /\ \A y \in {a, b, c} : Min({a, b, c}) <= y
  BY <1>1, MinFacts
<1>. QED BY <1>2

(***************************************************************************)
(* With every chunk ranked once, the results are as many as asked for, or  *)
(* all: what the cap on a file puts off comes back at the end.             *)
(***************************************************************************)
LEMMA DiverseFacts ==
  ASSUME NEW n \in Nat, NEW ranked, DOMAIN ranked = 1..n,
         \A a, b \in 1..n : Key(ranked[a]) = Key(ranked[b]) => a = b
  PROVE  LET P == SelectDiverse(ranked, TopK) IN
         /\ P \subseteq 1..n /\ IsFiniteSet(P)
         /\ Cardinality(P) = IF TopK <= n THEN TopK ELSE n
<1>. DEFINE places == 1..n
            ahead(k) == {i \in places : i < k /\ ranked[i].doc.file = ranked[k].doc.file}
            best == {k \in places : Cardinality(ahead(k)) < Max({1, TopK \div 2})}
            deferred == {k \in places \ best : \A i \in places :
                           i < k \/ i \in best => Key(ranked[i]) # Key(ranked[k])}
            selected == Leading(best, TopK)
            rest == Leading(deferred, TopK - Cardinality(selected))
<1>1. SelectDiverse(ranked, TopK) = selected \cup rest
  BY DEF SelectDiverse
<1>2. best \subseteq places
  OBVIOUS
<1>. HIDE DEF best
<1>3. deferred = places \ best
  <2>1. ASSUME NEW k \in places \ best, NEW i \in places, i < k \/ i \in best
        PROVE  Key(ranked[i]) # Key(ranked[k])
    <3>1. i # k
      BY <2>1
    <3>. QED BY <2>1, <3>1
  <2>. QED BY <2>1
<1>4. IsFiniteSet(places) /\ Cardinality(places) = n
  <2>1. IsFiniteSet(1..n) /\ Cardinality(1..n) = IF 1 > n THEN 0 ELSE n - 1 + 1
    BY FS_Interval
  <2>. QED BY <2>1
<1>5. TopK \in Nat \ {0}
  BY IndexAssumption
<1>6. best \in SUBSET Nat /\ deferred \in SUBSET Nat
  BY <1>2, <1>3
<1>. HIDE DEF places, deferred
<1>7. /\ IsFiniteSet(best) /\ IsFiniteSet(deferred)
      /\ Cardinality(best) \in Nat /\ Cardinality(deferred) \in Nat
  <2>1. IsFiniteSet(best) /\ IsFiniteSet(deferred)
    BY <1>2, <1>3, <1>4, FS_Subset
  <2>. QED BY <2>1, FS_CardinalityType
<1>8. Cardinality(best) + Cardinality(deferred) = n
  <2>1. /\ IsFiniteSet(best \cup deferred)
        /\ Cardinality(best \cup deferred)
             = Cardinality(best) + Cardinality(deferred) - Cardinality(best \cap deferred)
    BY <1>7, FS_Union
  <2>2. best \cup deferred = places /\ best \cap deferred = {}
    BY <1>2, <1>3
  <2>3. Cardinality(best \cup deferred) = n
    BY <1>4, <2>2
  <2>4. Cardinality(best \cap deferred) = 0
    BY <2>2, FS_EmptySet
  <2>. QED BY <1>7, <2>1, <2>3, <2>4
<1>9. /\ selected \subseteq best /\ IsFiniteSet(selected)
      /\ Cardinality(selected) = IF TopK <= Cardinality(best) THEN TopK ELSE Cardinality(best)
  BY <1>5, <1>6, <1>7, LeadingFacts
<1>. DEFINE left == TopK - Cardinality(selected)
<1>. HIDE DEF selected
<1>10. left \in Nat
  BY <1>5, <1>7, <1>9
<1>. HIDE DEF left
<1>11. /\ Leading(deferred, left) \subseteq deferred /\ IsFiniteSet(Leading(deferred, left))
       /\ Cardinality(Leading(deferred, left))
            = IF left <= Cardinality(deferred) THEN left ELSE Cardinality(deferred)
  BY <1>6, <1>7, <1>10, LeadingFacts
<1>12. rest = Leading(deferred, left)
  BY DEF left
<1>. HIDE DEF rest
<1>13. /\ IsFiniteSet(selected \cup rest)
       /\ Cardinality(selected \cup rest)
            = Cardinality(selected) + Cardinality(rest) - Cardinality(selected \cap rest)
  BY <1>9, <1>11, <1>12, FS_Union
<1>14. Cardinality(selected \cap rest) = 0
  <2>1. selected \cap rest = {}
    BY <1>3, <1>9, <1>11, <1>12
  <2>. QED BY <2>1, FS_EmptySet
<1>15. Cardinality(selected \cup rest) = IF TopK <= n THEN TopK ELSE n
  <2>1. Cardinality(selected \cup rest) = Cardinality(selected) + Cardinality(rest)
    <3>1. Cardinality(selected) \in Nat /\ Cardinality(rest) \in Nat
      BY <1>9, <1>11, <1>12, FS_CardinalityType
    <3>. QED BY <1>13, <1>14, <3>1
  <2>2. left = TopK - Cardinality(selected)
    BY DEF left
  <2>. QED BY <1>5, <1>7, <1>8, <1>9, <1>11, <1>12, <2>1, <2>2
<1>16. selected \cup rest \subseteq places
  BY <1>2, <1>3, <1>9, <1>11, <1>12
<1>. QED BY <1>1, <1>13, <1>15, <1>16 DEF places

(***************************************************************************)
(* The vector of a chunk says what the chunk is.                           *)
(***************************************************************************)
LEMMA VectorFacts ==
  ASSUME IndexTypeOK, VectorsInv, NEW j \in Jobs, NEW d \in Prepared(j),
         Id(j, d) \in DOMAIN vectors
  PROVE  vectors[Id(j, d)].doc = d /\ vectors[Id(j, d)].generation = snapshot[j]
<1>1. snapshot[j] \in Snapshots
  BY DEF IndexTypeOK
<1>2. d \in DocumentsOf(snapshot[j])
  BY DEF Prepared, Documents
<1>3. Id(j, d) = CacheId(snapshot[j], DocumentsOf(snapshot[j]), d)
  BY DEF Id, Documents
<1>4. StandsFor(vectors[Id(j, d)], Id(j, d))
  BY DEF VectorsInv
<1>5. PICK s \in Snapshots : \E e \in DocumentsOf(s) :
        /\ Id(j, d) = CacheId(s, DocumentsOf(s), e)
        /\ vectors[Id(j, d)].doc = e /\ vectors[Id(j, d)].generation = s
  BY <1>4 DEF StandsFor
<1>6. PICK e \in DocumentsOf(s) :
        /\ Id(j, d) = CacheId(s, DocumentsOf(s), e)
        /\ vectors[Id(j, d)].doc = e /\ vectors[Id(j, d)].generation = s
  BY <1>5
<1>7. CacheId(snapshot[j], DocumentsOf(snapshot[j]), d) = CacheId(s, DocumentsOf(s), e)
  BY <1>3, <1>6
<1>8. snapshot[j] = s /\ d = e
  BY <1>1, <1>2, <1>7, IdFacts
<1>. QED BY <1>6, <1>8

(***************************************************************************)
(* Once indexed, the candidates of a search are the chunks of the          *)
(* snapshot, one vector each.                                              *)
(***************************************************************************)
LEMMA CandidateFacts ==
  ASSUME IndexTypeOK, VectorsInv, NEW j \in Jobs, Embedded(j) = Prepared(j)
  PROVE  LET C == {v \in {vectors[i] : i \in DOMAIN vectors} : WhereFilter(v, snapshot[j])} IN
         /\ \A v \in C : v.doc \in Prepared(j)
         /\ \A v, w \in C : Key(v) = Key(w) => v = w
         /\ IsFiniteSet(C) /\ Cardinality(C) = Cardinality(Prepared(j))
<1>. DEFINE C == {v \in {vectors[i] : i \in DOMAIN vectors} : WhereFilter(v, snapshot[j])}
            vector(d) == vectors[Id(j, d)]
            f == [d \in Prepared(j) |-> vector(d)]
<1>1. ASSUME NEW v \in C PROVE v.doc \in Prepared(j) /\ v = vector(v.doc)
  <2>1. PICK i \in DOMAIN vectors : v = vectors[i]
    OBVIOUS
  <2>2. v.generation = snapshot[j]
    BY DEF WhereFilter, IndexGenerationKey
  <2>3. StandsFor(v, i)
    BY <2>1 DEF VectorsInv
  <2>4. PICK d \in DocumentsOf(snapshot[j]) :
          /\ CanSendToRemote(d) /\ v.doc = d
          /\ i = CacheId(snapshot[j], DocumentsOf(snapshot[j]), d)
    BY <2>2, <2>3 DEF StandsFor
  <2>5. d \in Prepared(j) /\ i = Id(j, d)
    BY <2>4 DEF Prepared, Documents, Id
  <2>. QED BY <2>1, <2>4, <2>5
<1>2. ASSUME NEW d \in Prepared(j) PROVE vector(d) \in C /\ vector(d).doc = d
  <2>1. Id(j, d) \in DOMAIN vectors
    BY DEF Embedded
  <2>2. vectors[Id(j, d)].doc = d /\ vectors[Id(j, d)].generation = snapshot[j]
    BY <2>1, VectorFacts
  <2>. QED BY <2>1, <2>2 DEF WhereFilter, IndexGenerationKey
<1>3. /\ IsFiniteSet(Prepared(j))
      /\ \A d, e \in Prepared(j) : d.file = e.file /\ d.index = e.index => d = e
  <2>1. IsClone(Files[snapshot[j][2]])
    BY IndexAssumption DEF IndexTypeOK
  <2>2. /\ IsFiniteSet(Documents(j))
        /\ \A d, e \in Documents(j) : d.file = e.file /\ d.index = e.index => d = e
    BY <2>1, DocumentFacts DEF Documents, DocumentsOf
  <2>3. Prepared(j) \subseteq Documents(j)
    BY DEF Prepared
  <2>. QED BY <2>2, <2>3, FS_Subset
<1>. HIDE DEF C, vector
<1>4. ASSUME NEW v \in C, NEW w \in C, Key(v) = Key(w) PROVE v = w
  <2>1. v.doc = w.doc
    BY <1>1, <1>3, <1>4 DEF Key
  <2>. QED BY <1>1, <2>1
<1>5. f \in Bijection(Prepared(j), C)
  <2>1. f \in [Prepared(j) -> C]
    BY <1>2
  <2>2. \A d, e \in Prepared(j) : f[d] = f[e] => d = e
    BY <1>2
  <2>3. \A v \in C : \E d \in Prepared(j) : f[d] = v
    BY <1>1
  <2>. QED BY <2>1, <2>2, <2>3 DEF Bijection, Injection, Surjection, IsInjective
<1>6. IsFiniteSet(C) /\ Cardinality(C) = Cardinality(Prepared(j))
  <2>1. ExistsBijection(Prepared(j), C)
    BY <1>5 DEF ExistsBijection
  <2>. QED BY <1>3, <2>1, FS_Bijection
<1>. QED BY <1>1, <1>4, <1>6 DEF C

(***************************************************************************)
(* The answer of a search: chunks of the snapshot, as many as asked for,   *)
(* as were ranked or as there are.                                         *)
(***************************************************************************)
LEMMA AnswerFacts ==
  ASSUME IndexTypeOK, VectorsInv, ProgressInv, NEW j \in Jobs, Search(j)
  PROVE  /\ \A v \in found'[j] : v.doc \in Prepared(j)
         /\ Cardinality(found'[j]) = Min({TopK, MaxCandidates, Cardinality(Prepared(j))})
<1>. DEFINE C == {v \in {vectors[i] : i \in DOMAIN vectors} : WhereFilter(v, snapshot[j])}
            size == Cardinality(Prepared(j))
            n == Min({MaxCandidates, Cardinality(C)})
<1>1. Embedded(j) = Prepared(j)
  BY DEF Search, ProgressInv, Progress
<1>2. /\ \A v \in C : v.doc \in Prepared(j)
      /\ \A v, w \in C : Key(v) = Key(w) => v = w
      /\ IsFiniteSet(C) /\ Cardinality(C) = size
  BY <1>1, CandidateFacts
<1>3. PICK ranked \in Rankings(C) :
        found' = [found EXCEPT ![j] = {ranked[k] : k \in SelectDiverse(ranked, TopK)}]
  BY DEF Search
<1>4. found'[j] = {ranked[k] : k \in SelectDiverse(ranked, TopK)}
  BY <1>3 DEF IndexTypeOK
<1>5. /\ ranked \in [1..n -> C]
      /\ \A a, b \in 1..n : ranked[a] = ranked[b] => a = b
  BY <1>3 DEF Rankings
<1>6. size \in Nat /\ MaxCandidates \in Nat /\ TopK \in Nat
  BY <1>2, FS_CardinalityType, IndexAssumption
<1>7. n \in Nat /\ n = IF MaxCandidates <= size THEN MaxCandidates ELSE size
  <2>. HIDE DEF C, size
  <2>1. n = IF MaxCandidates <= size THEN MaxCandidates ELSE size
    BY <1>2, <1>6, MinPair
  <2>. QED BY <1>6, <2>1
<1>. HIDE DEF C, n, size
<1>8. \A a, b \in 1..n : Key(ranked[a]) = Key(ranked[b]) => a = b
  BY <1>2, <1>5
<1>. DEFINE P == SelectDiverse(ranked, TopK)
            g == [k \in P |-> ranked[k]]
<1>9. /\ P \subseteq 1..n /\ IsFiniteSet(P)
      /\ Cardinality(P) = IF TopK <= n THEN TopK ELSE n
  <2>1. DOMAIN ranked = 1..n
    BY <1>5
  <2>. QED BY <1>7, <1>8, <2>1, DiverseFacts
<1>. HIDE DEF P
<1>10. Cardinality(found'[j]) = Cardinality(P)
  <2>. DEFINE answer == {ranked[k] : k \in P}
  <2>1. g \in [P -> answer]
    OBVIOUS
  <2>2. \A a, b \in P : g[a] = g[b] => a = b
    BY <1>5, <1>9
  <2>3. \A v \in answer : \E k \in P : g[k] = v
    OBVIOUS
  <2>4. ExistsBijection(P, answer)
    BY <2>1, <2>2, <2>3 DEF ExistsBijection, Bijection, Injection, Surjection, IsInjective
  <2>5. found'[j] = answer
    BY <1>4 DEF P
  <2>. HIDE DEF answer
  <2>. QED BY <1>9, <2>4, <2>5, FS_Bijection
<1>11. \A v \in found'[j] : v.doc \in Prepared(j)
  BY <1>2, <1>4, <1>5, <1>9 DEF P
<1>12. Min({TopK, MaxCandidates, size}) = IF TopK <= n THEN TopK ELSE n
  BY <1>6, <1>7, MinTriple
<1>. QED BY <1>9, <1>10, <1>11, <1>12 DEF size

(***************************************************************************)
(* Every step keeps a search within the snapshot it was asked of.          *)
(***************************************************************************)
LEMMA SearchStep ==
  ASSUME IndexInv, [Next]_vars
  PROVE  SearchStaysInSnapshot'
<1>. USE DEF IndexInv
<1>1. \A k : Prepared(k)' = Prepared(k)
  BY SnapshotStep, SameSnapshot
<1>2. ASSUME found' = found PROVE SearchStaysInSnapshot'
  BY <1>1, <1>2 DEF SearchStaysInSnapshot
<1>3. ASSUME NEW j \in Jobs, Search(j) PROVE SearchStaysInSnapshot'
  <2>1. \A k \in Jobs \ {j} : found'[k] = found[k]
    BY <1>3, OthersStep DEF Advances
  <2>2. /\ \A v \in found'[j] : v.doc \in Prepared(j)
        /\ Cardinality(found'[j]) = Min({TopK, MaxCandidates, Cardinality(Prepared(j))})
    BY <1>3, AnswerFacts
  <2>3. ASSUME NEW k \in Jobs
        PROVE  /\ \A v \in found'[k] : v.doc \in Prepared(k)
               /\ Cardinality(found'[k])
                    \in {0, Min({TopK, MaxCandidates, Cardinality(Prepared(k))})}
    <3>1. CASE k = j
      BY <2>2, <3>1
    <3>2. CASE k # j
      BY <2>1, <3>2 DEF SearchStaysInSnapshot
    <3>. QED BY <3>1, <3>2
  <2>. QED BY <1>1, <2>3 DEF SearchStaysInSnapshot
<1>4. ASSUME NEW j \in Jobs,
             \/ StartIndex(j) \/ DeleteChunks(j) \/ InsertBatch(j)
             \/ ReadExisting(j) \/ RefreshCached(j) \/ EmbedBatch(j) \/ RetryBatch(j)
             \/ PruneStale(j) \/ MarkIndexed(j)
             \/ Fail(j) \/ FailThreaded(j) \/ MarkIndexFailed(j) \/ Crash(j)
      PROVE  found' = found
  BY <1>4 DEF StartIndex, DeleteChunks, InsertBatch, ReadExisting, RefreshCached, EmbedBatch,
              RetryBatch, PruneStale, MarkIndexed, Fail, FailThreaded, MarkIndexFailed, Crash
<1>5. UNCHANGED vars => found' = found
  BY DEF vars
<1>. QED BY <1>2, <1>3, <1>4, <1>5 DEF Next

-----------------------------------------------------------------------------

(***************************************************************************)
(* The first state meets the inductive invariant.                          *)
(***************************************************************************)
LEMMA IndexInit ==
  ASSUME Init
  PROVE  IndexInv
<1>1. IndexTypeOK
  BY IndexAssumption DEF Init, IndexTypeOK
<1>2. VectorsInv /\ ScopeInv
  BY DEF Init, VectorsInv, ScopeInv
<1>3. ProgressInv
  BY DEF Init, ProgressInv, Progress, Threaded
<1>4. SearchStaysInSnapshot
  BY FS_EmptySet DEF Init, SearchStaysInSnapshot
<1>. QED BY <1>1, <1>2, <1>3, <1>4 DEF IndexInv

(***************************************************************************)
(* The inductive invariant: a vector stands for the document its id is     *)
(* made of, what a job may drop is of its own snapshot, and what a job has *)
(* behind it is in MongoDB and in the collection.                          *)
(***************************************************************************)
THEOREM IndexInvAlways == Spec => []IndexInv
<1>1. Init => IndexInv
  BY IndexInit
<1>2. IndexInv /\ [Next]_vars => IndexInv'
  <2>. SUFFICES ASSUME IndexInv, [Next]_vars PROVE IndexInv'
    OBVIOUS
  <2>1. IndexTypeOK'
    BY TypeStep DEF IndexInv
  <2>2. VectorsInv'
    BY VectorStep DEF IndexInv
  <2>3. ScopeInv'
    BY ScopeStep DEF IndexInv
  <2>4. ProgressInv'
    BY ProgressStep DEF IndexInv
  <2>5. SearchStaysInSnapshot'
    BY SearchStep
  <2>. QED BY <2>1, <2>2, <2>3, <2>4, <2>5 DEF IndexInv
<1>. QED BY <1>1, <1>2, PTL DEF Spec

(***************************************************************************)
(* The manifest of a job says INDEXED only while MongoDB holds all its     *)
(* chunks and the collection a vector with this snapshot's lines for each  *)
(* chunk that may be sent, whatever the other jobs do.                     *)
(***************************************************************************)
THEOREM IndexedCorrect == Spec => []IndexedIsSearchable
<1>1. IndexInv => IndexedIsSearchable
  <2>. SUFFICES ASSUME IndexInv, NEW j \in Jobs, manifest[j] = "INDEXED"
                PROVE  /\ stored[j] = Documents(j)
                       /\ \A d \in Prepared(j) : \E i \in DOMAIN vectors :
                            WhereFilter(vectors[i], snapshot[j]) /\ vectors[i].doc = d
    BY DEF IndexedIsSearchable
  <2>1. stored[j] = Documents(j) /\ Embedded(j) = Prepared(j)
    BY DEF IndexInv, ProgressInv, Progress
  <2>2. ASSUME NEW d \in Prepared(j)
        PROVE  \E i \in DOMAIN vectors :
                 WhereFilter(vectors[i], snapshot[j]) /\ vectors[i].doc = d
    <3>1. Id(j, d) \in DOMAIN vectors
      BY <2>1 DEF Embedded
    <3>2. vectors[Id(j, d)].doc = d /\ vectors[Id(j, d)].generation = snapshot[j]
      BY <3>1, VectorFacts DEF IndexInv
    <3>. QED BY <3>1, <3>2 DEF WhereFilter, IndexGenerationKey
  <2>. QED BY <2>1, <2>2
<1>. QED BY <1>1, IndexInvAlways, PTL

(***************************************************************************)
(* A search answers with chunks of the snapshot under review that hold no  *)
(* secret, and with as many as it was asked for, could rank or has.        *)
(***************************************************************************)
THEOREM SearchCorrect == Spec => []SearchStaysInSnapshot
<1>1. IndexInv => SearchStaysInSnapshot
  BY DEF IndexInv
<1>. QED BY <1>1, IndexInvAlways, PTL

=============================================================================
