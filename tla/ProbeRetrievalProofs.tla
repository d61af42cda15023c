-------------------------- MODULE ProbeRetrievalProofs --------------------------
(***************************************************************************)
(* Proofs about ProbeRetrieval, for any chunks, probes, rules and results  *)
(* of searches, and any caps.  The order chunks are ranked in plays no     *)
(* part in them: sorting is a permutation whatever it sorts by.            *)
(***************************************************************************)
EXTENDS ProbeRetrieval, FiniteSetTheorems, SequenceTheorems, TLAPS

-----------------------------------------------------------------------------
(***************************************************************************)
(* Folds over sequences, one element at a time.                            *)
(***************************************************************************)

(***************************************************************************)
(* Induction up to n, for a set that stands for the predicate.             *)
(***************************************************************************)
LEMMA Induction ==
  ASSUME NEW n \in Nat, NEW S, 0 \in S, \A k \in 1..n : k - 1 \in S => k \in S
  PROVE  \A k \in 0..n : k \in S
<1>. DEFINE R == OpToRel(<, Nat)
            others == {k \in 0..n : k \notin S}
<1>1. IsWellFoundedOn(R, Nat)
  BY NatLessThanWellFounded
<1>2. \A x, y \in Nat : x < y => <<x, y>> \in R
  BY DEF OpToRel
<1>. HIDE DEF R
<1>. SUFFICES ASSUME others # {} PROVE FALSE
  OBVIOUS
<1>3. others \in SUBSET Nat
  OBVIOUS
<1>4. PICK x \in others : \A y \in others : ~(<<y, x>> \in R)
  BY <1>1, <1>3, WFMin
<1>5. x \in 1..n /\ x \notin S
  OBVIOUS
<1>6. x \in Nat /\ x - 1 \in Nat /\ x - 1 < x /\ x - 1 \in 0..n
  BY <1>5
<1>7. <<x - 1, x>> \in R
  BY <1>2, <1>6
<1>8. x - 1 \notin others
  BY <1>4, <1>7
<1>9. x - 1 \in S
  BY <1>6, <1>8
<1>. QED BY <1>5, <1>9

Inductive(S, n) == 0 \in S /\ \A k \in 1..n : k - 1 \in S => k \in S

\* What such a set holds at the end of the induction.
LEMMA Reached == ASSUME NEW n \in Nat, NEW S, Inductive(S, n) PROVE n \in S
<1>1. 0 \in S /\ \A k \in 1..n : k - 1 \in S => k \in S
  BY DEF Inductive
<1>2. \A k \in 0..n : k \in S
  BY <1>1, Induction
<1>. QED BY <1>2

(***************************************************************************)
(* A set of some of the numbers up to n has a greatest and a least one.    *)
(***************************************************************************)
LEMMA MaxFacts ==
  ASSUME NEW n \in Nat, NEW T \in SUBSET (0..n), T # {}
  PROVE  Max(T) \in T /\ \A y \in T : y <= Max(T)
<1>. DEFINE hasMax(k) == \A U \in SUBSET (0..k) :
              U # {} => \E x \in U : \A y \in U : x >= y
            S == {k \in 0..n : hasMax(k)}
<1>1. 0 \in S
  <2>1. 0..0 = {0}
    OBVIOUS
  <2>2. ASSUME NEW U \in SUBSET (0..0), U # {} PROVE 0 \in U /\ \A y \in U : 0 >= y
    <3>1. \A y \in U : y = 0 /\ 0 >= y
      BY <2>1
    <3>2. PICK y \in U : TRUE
      BY <2>2
    <3>. QED BY <3>1, <3>2
  <2>3. hasMax(0)
    BY <2>2
  <2>. HIDE DEF hasMax
  <2>. QED BY <2>3
<1>2. ASSUME NEW k \in 1..n, k - 1 \in S PROVE k \in S
  <2>. SUFFICES ASSUME NEW U \in SUBSET (0..k), U # {}
                PROVE  \E x \in U : \A y \in U : x >= y
    OBVIOUS
  <2>1. CASE k \in U
    BY <2>1
  <2>2. CASE k \notin U
    <3>1. U \in SUBSET (0..(k - 1))
      BY <2>2
    <3>. QED BY <1>2, <3>1
  <2>. QED BY <2>1, <2>2
<1>. HIDE DEF S
<1>3. n \in S
  BY <1>1, <1>2, Induction
<1>4. \E x \in T : \A y \in T : x >= y
  BY <1>3 DEF S
<1>5. Max(T) \in T /\ \A y \in T : Max(T) >= y
  BY <1>4 DEF Max
<1>. QED BY <1>5

\* Min of a finite, nonempty set of integers.
LEMMA MinFacts ==
  ASSUME NEW n \in Nat, NEW T \in SUBSET (0..n), T # {}
  PROVE  Min(T) \in T /\ \A y \in T : Min(T) <= y
<1>. DEFINE U == {n - y : y \in T}
<1>1. U \in SUBSET (0..n) /\ U # {} /\ \A y \in T : n - y \in U
  <2>1. \A y \in T : n - y \in 0..n
    OBVIOUS
  <2>. QED BY <2>1
<1>. HIDE DEF U
<1>2. Max(U) \in U /\ \A y \in U : y <= Max(U)
  BY <1>1, MaxFacts
<1>3. PICK x \in T : Max(U) = n - x
  BY <1>2 DEF U
<1>4. \A y \in T : x <= y
  BY <1>1, <1>2, <1>3
<1>5. Min(T) \in T /\ \A y \in T : y >= Min(T)
  BY <1>4 DEF Min
<1>. QED BY <1>5

\* The greater and the lesser of two numbers.
LEMMA OfTwo ==
  ASSUME NEW a \in Int, NEW b \in Int
  PROVE  /\ Max({a, b}) \in {a, b} /\ a <= Max({a, b}) /\ b <= Max({a, b})
         /\ Min({a, b}) \in {a, b} /\ Min({a, b}) <= a /\ Min({a, b}) <= b
<1>1. \E x \in {a, b} : \A y \in {a, b} : x >= y
  OBVIOUS
<1>2. Max({a, b}) \in {a, b} /\ \A y \in {a, b} : Max({a, b}) >= y
  BY <1>1 DEF Max
<1>3. \E x \in {a, b} : \A y \in {a, b} : y >= x
  OBVIOUS
<1>4. Min({a, b}) \in {a, b} /\ \A y \in {a, b} : y >= Min({a, b})
  BY <1>3 DEF Min
<1>. QED BY <1>2, <1>4

(***************************************************************************)
(* An initial segment of the positions ends in its largest element, and    *)
(* without it is the segment before.                                       *)
(***************************************************************************)
LEMMA Segments ==
  ASSUME NEW n \in Nat, NEW k \in 1..n
  PROVE  /\ 1..k \in SUBSET (1..n) /\ 1..k # {}
         /\ Max(1..k) = k /\ (1..k) \ {Max(1..k)} = 1..(k - 1)
<1>1. 1..k \in SUBSET (0..k) /\ 1..k \in SUBSET (1..n) /\ 1..k # {} /\ k \in 1..k
  OBVIOUS
<1>2. Max(1..k) \in 1..k /\ k <= Max(1..k)
  <2>1. k \in Nat
    OBVIOUS
  <2>. QED BY <1>1, <2>1, MaxFacts
<1>. QED BY <1>1, <1>2

(***************************************************************************)
(* The function a fold is defined by, when each step stays in A.           *)
(***************************************************************************)
IsFold(g, n, base, step) == \A T \in SUBSET (1..n) :
  /\ T = {} => g[T] = base
  /\ T # {} => Max(T) \in 1..n /\ g[T] = step[<<g[T \ {Max(T)}], Max(T)>>]

(***************************************************************************)
(* A function that folds a step over the sets of positions, largest last,  *)
(* exists whatever the step: by induction on the number of positions.      *)
(***************************************************************************)
LEMMA FoldExists ==
  ASSUME NEW A, NEW n \in Nat, NEW base \in A, NEW step \in [A \X (1..n) -> A]
  PROVE  \E g \in [SUBSET (1..n) -> A] : IsFold(g, n, base, step)
<1>. DEFINE isFold(g, m) == IsFold(g, m, base, step)
            S == {m \in 0..n : \E g \in [SUBSET (1..m) -> A] : isFold(g, m)}
<1>1. 0 \in S
  <2>. DEFINE g == [T \in SUBSET (1..0) |-> base]
  <2>1. \A T \in SUBSET (1..0) : T = {}
    OBVIOUS
  <2>2. g \in [SUBSET (1..0) -> A] /\ \A T \in SUBSET (1..0) : g[T] = base
    OBVIOUS
  <2>. HIDE DEF g
  <2>3. isFold(g, 0)
    BY <2>1, <2>2 DEF IsFold
  <2>. HIDE DEF isFold
  <2>. QED BY <2>2, <2>3
<1>2. ASSUME NEW m \in 1..n, m - 1 \in S PROVE m \in S
  <2>1. PICK g \in [SUBSET (1..(m - 1)) -> A] : isFold(g, m - 1)
    BY <1>2
  <2>. DEFINE rest(T) == T \ {m}
              h == [T \in SUBSET (1..m) |-> IF m \in T THEN step[<<g[rest(T)], m>>] ELSE g[T]]
  <2>2. \A T \in SUBSET (1..m) : rest(T) \in SUBSET (1..(m - 1)) /\ (m \notin T => rest(T) = T)
    OBVIOUS
  <2>3. h \in [SUBSET (1..m) -> A]
    <3>1. ASSUME NEW T \in SUBSET (1..m)
          PROVE  (IF m \in T THEN step[<<g[rest(T)], m>>] ELSE g[T]) \in A
      <4>1. g[rest(T)] \in A /\ (m \notin T => g[T] \in A)
        BY <2>2
      <4>2. <<g[rest(T)], m>> \in A \X (1..n)
        BY <4>1
      <4>. QED BY <4>1, <4>2
    <3>. QED BY <3>1
  <2>4. ASSUME NEW T \in SUBSET (1..m)
        PROVE  /\ T = {} => h[T] = base
               /\ T # {} => Max(T) \in 1..m /\ h[T] = step[<<h[T \ {Max(T)}], Max(T)>>]
    <3>1. CASE m \in T
      <4>a. m \in Nat /\ T # {} /\ T \in SUBSET (0..m)
        BY <3>1
      <4>1. Max(T) \in T /\ \A y \in T : y <= Max(T)
        BY <4>a, MaxFacts
      <4>b. Max(T) \in 1..m /\ m <= Max(T)
        BY <3>1, <4>1
      <4>2. Max(T) = m
        BY <4>b
      <4>3. h[rest(T)] = g[rest(T)]
        BY <2>2
      <4>. QED BY <3>1, <4>2, <4>3
    <3>2. CASE m \notin T
      <4>1. T \in SUBSET (1..(m - 1)) /\ h[T] = g[T]
        BY <2>2, <3>2
      <4>2. T # {} => h[T \ {Max(T)}] = g[T \ {Max(T)}]
        BY <3>2
      <4>3. T = {} => g[T] = base
        BY <2>1, <4>1 DEF IsFold
      <4>4. T # {} => Max(T) \in 1..(m - 1) /\ g[T] = step[<<g[T \ {Max(T)}], Max(T)>>]
        BY <2>1, <4>1 DEF IsFold
      <4>5. \A k \in 1..(m - 1) : k \in 1..m
        OBVIOUS
      <4>. HIDE DEF h
      <4>. QED BY <4>1, <4>2, <4>3, <4>4, <4>5
    <3>. QED BY <3>1, <3>2
  <2>. HIDE DEF h
  <2>5. isFold(h, m)
    BY <2>4 DEF IsFold
  <2>. HIDE DEF isFold
  <2>. QED BY <2>3, <2>5
<1>. HIDE DEF S
<1>3. n \in S
  BY <1>1, <1>2, Induction
<1>. QED BY <1>3 DEF S

(***************************************************************************)
(* A fold is the end of a run of steps, one for each element.              *)
(***************************************************************************)
IsRun(run, n, base, step) ==
  run[0] = base /\ \A k \in 1..n : run[k] = step[<<run[k - 1], k>>]

Ends(run, n, iter) == run[n] = iter[1..n]

Follows(iter, A, n, base, step) ==
  /\ iter[{}] = base
  /\ \A k \in 1..n : iter[1..(k - 1)] \in A => iter[1..k] = step[<<iter[1..(k - 1)], k>>]

\* A fold over a segment is the last of a run of values.
LEMMA FoldRuns ==
  ASSUME NEW A, NEW n \in Nat, NEW base \in A, NEW step \in [A \X (1..n) -> A], NEW iter,
         Follows(iter, A, n, base, step)
  PROVE  \E run \in [0..n -> A] : IsRun(run, n, base, step) /\ Ends(run, n, iter)
<1>. DEFINE run == [k \in 0..n |-> iter[1..k]]
            S == {k \in 0..n : iter[1..k] \in A}
<1>1. 1..0 = {}
  OBVIOUS
<1>2. 0 \in S
  BY <1>1 DEF Follows
<1>3. ASSUME NEW k \in 1..n, k - 1 \in S PROVE k \in S
  <2>1. iter[1..(k - 1)] \in A /\ iter[1..k] = step[<<iter[1..(k - 1)], k>>]
    BY <1>3 DEF Follows
  <2>2. <<iter[1..(k - 1)], k>> \in A \X (1..n)
    BY <2>1
  <2>. QED BY <2>1, <2>2
<1>. HIDE DEF S
<1>4. \A k \in 0..n : k \in S
  BY <1>2, <1>3, Induction
<1>5. \A k \in 0..n : iter[1..k] \in A
  BY <1>4 DEF S
<1>6. run \in [0..n -> A] /\ run[n] = iter[1..n] /\ run[0] = base
  BY <1>1, <1>5 DEF Follows
<1>7. \A k \in 1..n : run[k] = step[<<run[k - 1], k>>]
  BY <1>5 DEF Follows
<1>. HIDE DEF run
<1>. QED BY <1>6, <1>7 DEF IsRun, Ends

-----------------------------------------------------------------------------
(***************************************************************************)
(* Selecting and sorting.                                                  *)
(***************************************************************************)

\* Functions on the positions up to n are sequences of that length.
LEMMA Listed ==
  ASSUME NEW S, NEW n \in Nat, NEW s \in [1..n -> S]
  PROVE  s \in Seq(S) /\ Len(s) = n
<1>1. s \in Seq(S)
  BY SeqDef
<1>2. DOMAIN s = 1..n /\ DOMAIN s = 1..Len(s) /\ Len(s) \in Nat
  BY <1>1, LenProperties
<1>. QED BY <1>1, <1>2

(***************************************************************************)
(* The positions at are numbered without gaps.                             *)
(***************************************************************************)
LEMMA NthFacts ==
  ASSUME NEW n \in Nat, NEW at \in SUBSET (1..n)
  PROVE  /\ IsFiniteSet(at) /\ Cardinality(at) \in 0..n
         /\ \A k \in 1..Cardinality(at) : Nth(at, k) \in at
         /\ \A p \in at : \E k \in 1..Cardinality(at) : Nth(at, k) = p
<1>. DEFINE upTo(p) == {q \in at : q <= p}
            rank(p) == Cardinality(upTo(p))
            m == Cardinality(at)
<1>1. IsFiniteSet(at) /\ m \in 0..n
  <2>1. IsFiniteSet(1..n) /\ Cardinality(1..n) = n
    BY FS_Interval
  <2>2. IsFiniteSet(at) /\ Cardinality(at) <= Cardinality(1..n)
    BY <2>1, FS_Subset
  <2>3. Cardinality(at) \in Nat
    BY <2>2, FS_CardinalityType
  <2>. QED BY <2>1, <2>2, <2>3
<1>2. ASSUME NEW p \in at PROVE rank(p) \in 1..m
  <2>1. upTo(p) \in SUBSET at /\ p \in upTo(p)
    OBVIOUS
  <2>2. IsFiniteSet(upTo(p)) /\ rank(p) <= m
    BY <1>1, <2>1, FS_Subset
  <2>3. rank(p) \in Nat /\ rank(p) # 0
    BY <2>1, <2>2, FS_CardinalityType, FS_EmptySet
  <2>. HIDE DEF rank, m
  <2>. QED BY <1>1, <2>2, <2>3
<1>3. ASSUME NEW p \in at, NEW q \in at, p < q PROVE rank(p) # rank(q)
  <2>a. p \in Nat /\ q \in Nat /\ \A x \in at : x \in Nat
    OBVIOUS
  <2>1. upTo(q) \in SUBSET at /\ upTo(p) \in SUBSET upTo(q) /\ q \in upTo(q) /\ q \notin upTo(p)
    <3>1. \A x \in at : x <= p => x <= q
      BY <1>3, <2>a
    <3>2. ~(q <= p) /\ q <= q
      BY <1>3, <2>a
    <3>. QED BY <3>1, <3>2
  <2>2. IsFiniteSet(upTo(q))
    BY <1>1, <2>1, FS_Subset
  <2>. QED BY <2>1, <2>2, FS_Subset
<1>. DEFINE place == [p \in at |-> rank(p)]
<1>4. place \in Injection(at, 1..m)
  <2>1. place \in [at -> 1..m]
    BY <1>2
  <2>2. \A p, q \in at : place[p] = place[q] => p = q
    <3>1. \A p, q \in at : p \in Nat /\ q \in Nat /\ (p = q \/ p < q \/ q < p)
      OBVIOUS
    <3>. HIDE DEF rank
    <3>. QED BY <1>3, <3>1
  <2>. HIDE DEF place
  <2>. QED BY <2>1, <2>2 DEF Injection, IsInjective
<1>5. place \in Surjection(at, 1..m)
  <2>1. IsFiniteSet(1..m) /\ Cardinality(1..m) = m
    BY <1>1, FS_Interval
  <2>. HIDE DEF place, m
  <2>2. Cardinality(at) = Cardinality(1..m)
    BY <2>1 DEF m
  <2>. QED BY <1>4, <2>1, <2>2, FS_Injection
<1>6. \A k \in 1..m : \E p \in at : rank(p) = k
  <2>. HIDE DEF rank, m
  <2>. QED BY <1>5 DEF Surjection
<1>7. ASSUME NEW k \in 1..m PROVE Nth(at, k) \in at /\ rank(Nth(at, k)) = k
  <2>1. \E p \in at : Cardinality({q \in at : q <= p}) = k
    BY <1>6
  <2>. HIDE DEF m
  <2>. QED BY <2>1 DEF Nth
<1>8. ASSUME NEW p \in at PROVE \E k \in 1..m : Nth(at, k) = p
  <2>. DEFINE k == rank(p)
  <2>1. k \in 1..m
    BY <1>2
  <2>2. Nth(at, k) \in at /\ rank(Nth(at, k)) = k
    BY <1>7, <2>1
  <2>3. \A q \in at : rank(q) = rank(p) => q = p
    <3>. HIDE DEF rank
    <3>. QED BY <1>3
  <2>. HIDE DEF rank, m
  <2>. QED BY <2>1, <2>2, <2>3
<1>. HIDE DEF m, rank
<1>. QED BY <1>1, <1>7, <1>8 DEF m

\* The elements of a sequence at some positions, in its order.
LEMMA ElementsFacts ==
  ASSUME NEW S, NEW seq \in Seq(S), NEW at, at \subseteq DOMAIN seq
  PROVE  /\ ElementsAt(seq, at) \in Seq(S)
         /\ Len(ElementsAt(seq, at)) <= Len(seq)
         /\ \A k \in 1..Len(ElementsAt(seq, at)) : \E p \in at : ElementsAt(seq, at)[k] = seq[p]
         /\ \A p \in at : \E k \in 1..Len(ElementsAt(seq, at)) : ElementsAt(seq, at)[k] = seq[p]
<1>. DEFINE t == ElementsAt(seq, at)
            m == Cardinality(at)
<1>1. Len(seq) \in Nat /\ DOMAIN seq = 1..Len(seq) /\ \A p \in 1..Len(seq) : seq[p] \in S
  BY LenProperties
<1>2. /\ m \in 0..Len(seq)
      /\ \A k \in 1..m : Nth(at, k) \in at
      /\ \A p \in at : \E k \in 1..m : Nth(at, k) = p
  BY <1>1, NthFacts
<1>3. t = [k \in 1..m |-> seq[Nth(at, k)]]
  BY DEF ElementsAt
<1>. HIDE DEF t, m
<1>4. t \in [1..m -> S]
  BY <1>1, <1>2, <1>3
<1>5. t \in Seq(S) /\ Len(t) = m
  BY <1>2, <1>4, Listed
<1>. QED BY <1>1, <1>2, <1>3, <1>5 DEF t

(***************************************************************************)
(* Sorting is a permutation, whatever it sorts by.                         *)
(***************************************************************************)

\* t has the elements of s, and x.
Gains(t, s, x) ==
  /\ Len(t) = Len(s) + 1
  /\ \A k \in 1..(Len(s) + 1) : t[k] = x \/ \E j \in 1..Len(s) : t[k] = s[j]
  /\ \E k \in 1..(Len(s) + 1) : t[k] = x
  /\ \A j \in 1..Len(s) : \E k \in 1..(Len(s) + 1) : t[k] = s[j]

\* Inserting adds one element, and nothing else.
LEMMA InsertFacts ==
  ASSUME NEW S, NEW s \in Seq(S), NEW x \in S, NEW order
  PROVE  Insert(s, x, order) \in Seq(S) /\ Gains(Insert(s, x, order), s, x)
<1>. DEFINE n == Len(s)
            at == {k \in DOMAIN s : <<x, s[k]>> \notin order}
            c == Cardinality(at)
            low == SubSeq(s, 1, c)
            high == SubSeq(s, c + 1, n)
            mid == <<x>>
            start == low \o mid
            t == start \o high
<1>1. n \in Nat /\ DOMAIN s = 1..n /\ \A k \in 1..n : s[k] \in S
  BY LenProperties
<1>2. c \in 0..n
  <2>1. at \in SUBSET (1..n)
    BY <1>1
  <2>. HIDE DEF at, n
  <2>. QED BY <1>1, <2>1, NthFacts
<1>3. Insert(s, x, order) = t
  <2>1. Insert(s, x, order) = InsertAt(s, c + 1, x)
    BY DEF Insert
  <2>2. (c + 1) - 1 = c
    BY <1>1, <1>2
  <2>. DEFINE k == c + 1
  <2>. HIDE DEF c, k
  <2>3. InsertAt(s, k, x) = (SubSeq(s, 1, k - 1) \o <<x>>) \o SubSeq(s, k, Len(s))
    BY DEF InsertAt
  <2>4. InsertAt(s, k, x) = (SubSeq(s, 1, c) \o <<x>>) \o SubSeq(s, k, Len(s))
    BY <2>2, <2>3 DEF k
  <2>. QED BY <2>1, <2>4, Zenon DEF k
<1>. HIDE DEF c, at
<1>4. low \in Seq(S) /\ Len(low) = c /\ \A i \in 1..c : low[i] = s[i]
  <2>1. \A i \in 1..c : s[i] \in S
    BY <1>1, <1>2
  <2>2. /\ low \in Seq(S) /\ Len(low) = IF 1 <= c THEN c - 1 + 1 ELSE 0
        /\ \A i \in 1..(c - 1 + 1) : low[i] = s[1 + i - 1]
    BY <1>2, <2>1, SubSeqProperties
  <2>. HIDE DEF low
  <2>. QED BY <1>2, <2>2
<1>5. high \in Seq(S) /\ Len(high) = n - c /\ \A i \in 1..(n - c) : high[i] = s[c + i]
  <2>1. \A i \in (c + 1)..n : s[i] \in S
    BY <1>1, <1>2
  <2>2. /\ high \in Seq(S) /\ Len(high) = IF c + 1 <= n THEN n - (c + 1) + 1 ELSE 0
        /\ \A i \in 1..(n - (c + 1) + 1) : high[i] = s[(c + 1) + i - 1]
    BY <1>1, <1>2, <2>1, SubSeqProperties
  <2>. HIDE DEF high, n
  <2>. QED BY <1>1, <1>2, <2>2
<1>. HIDE DEF low, high, n
<1>6. mid \in Seq(S) /\ Len(mid) = 1 /\ mid[1] = x
  OBVIOUS
<1>. HIDE DEF mid
<1>7. /\ start \in Seq(S) /\ Len(start) = c + 1
      /\ \A i \in 1..(c + 1) : start[i] = IF i <= c THEN low[i] ELSE mid[i - c]
  <2>1. /\ low \o mid \in Seq(S) /\ Len(low \o mid) = Len(low) + Len(mid)
        /\ \A i \in 1..Len(low) + Len(mid) : (low \o mid)[i] =
              IF i <= Len(low) THEN low[i] ELSE mid[i - Len(low)]
    BY <1>4, <1>6, ConcatProperties
  <2>. QED BY <1>4, <1>6, <2>1
<1>. HIDE DEF start
<1>8. /\ t \in Seq(S) /\ Len(t) = (c + 1) + (n - c)
      /\ \A i \in 1..((c + 1) + (n - c)) :
           t[i] = IF i <= c + 1 THEN start[i] ELSE high[i - (c + 1)]
  <2>1. /\ start \o high \in Seq(S) /\ Len(start \o high) = Len(start) + Len(high)
        /\ \A i \in 1..Len(start) + Len(high) : (start \o high)[i] =
              IF i <= Len(start) THEN start[i] ELSE high[i - Len(start)]
    BY <1>5, <1>7, ConcatProperties
  <2>. QED BY <1>5, <1>7, <2>1
<1>. HIDE DEF t
<1>9. \A i \in 1..(n + 1) : t[i] = IF i <= c THEN s[i] ELSE IF i = c + 1 THEN x ELSE s[i - 1]
  <2>. SUFFICES ASSUME NEW i \in 1..(n + 1)
                PROVE  t[i] = IF i <= c THEN s[i] ELSE IF i = c + 1 THEN x ELSE s[i - 1]
    OBVIOUS
  <2>0. i \in 1..((c + 1) + (n - c))
    BY <1>1, <1>2
  <2>1. CASE i <= c
    BY <1>1, <1>2, <1>4, <1>7, <1>8, <2>0, <2>1
  <2>2. CASE i = c + 1
    BY <1>1, <1>2, <1>6, <1>7, <1>8, <2>0, <2>2
  <2>3. CASE i > c + 1
    <3>1. i - (c + 1) \in 1..(n - c) /\ c + (i - (c + 1)) = i - 1 /\ ~(i <= c + 1)
      BY <1>1, <1>2, <2>3
    <3>2. t[i] = high[i - (c + 1)]
      BY <1>8, <2>0, <3>1
    <3>3. high[i - (c + 1)] = s[i - 1]
      BY <1>5, <3>1
    <3>. QED BY <1>1, <1>2, <2>3, <3>2, <3>3
  <2>. QED BY <1>1, <1>2, <2>1, <2>2, <2>3
<1>10. Len(t) = n + 1
  BY <1>1, <1>2, <1>8
<1>11. \A k \in 1..(n + 1) : t[k] = x \/ \E j \in 1..n : t[k] = s[j]
  BY <1>1, <1>2, <1>9
<1>12. c + 1 \in 1..(n + 1) /\ t[c + 1] = x
  BY <1>1, <1>2, <1>9
<1>13. ASSUME NEW j \in 1..n PROVE \E k \in 1..(n + 1) : t[k] = s[j]
  <2>1. CASE j <= c
    BY <1>1, <1>2, <1>9, <2>1
  <2>2. CASE ~(j <= c)
    <3>1. j + 1 \in 1..(n + 1) /\ (j + 1) - 1 = j /\ ~(j + 1 <= c) /\ j + 1 # c + 1
      BY <1>1, <1>2, <2>2
    <3>2. t[j + 1] = s[j]
      BY <1>9, <3>1
    <3>. QED BY <3>1, <3>2
  <2>. QED BY <2>1, <2>2
<1>14. Gains(t, s, x)
  BY <1>10, <1>11, <1>12, <1>13 DEF n, Gains
<1>. QED BY <1>3, <1>8, <1>14

InsertRun(run, S, seq, order) ==
  /\ run \in [0..Len(seq) -> Seq(S)]
  /\ run[0] = <<>> /\ run[Len(seq)] = InOrder(seq, order)
  /\ \A k \in 1..Len(seq) : run[k] = Insert(run[k - 1], seq[k], order)

\* Insertion sort, as a run of insertions.
LEMMA InOrderRuns ==
  ASSUME NEW S, NEW seq \in Seq(S), NEW order
  PROVE  \E run : InsertRun(run, S, seq, order)
<1>. DEFINE n == Len(seq)
            A == Seq(S)
            base == <<>>
            next(a, k) == Insert(a, seq[k], order)
            iter == CHOOSE g : g = [T \in SUBSET (1..n) |->
                      IF T = {} THEN base ELSE next(g[T \ {Max(T)}], Max(T))]
            step == [p \in A \X (1..n) |-> next(p[1], p[2])]
<1>1. InOrder(seq, order) = iter[1..n]
  <2>1. DOMAIN seq = 1..n
    BY LenProperties
  <2>. QED BY <2>1 DEF InOrder, FoldLeft, MapThenFoldSet
<1>2. n \in Nat /\ base \in A
  BY LenProperties
<1>3. ASSUME NEW a \in A, NEW k \in 1..n PROVE next(a, k) \in A
  <2>1. seq[k] \in S
    BY LenProperties
  <2>. QED BY <2>1, InsertFacts
<1>. HIDE DEF next, A, n, base
<1>4. /\ step \in [A \X (1..n) -> A]
      /\ \A a \in A, k \in 1..n : step[<<a, k>>] = next(a, k)
  BY <1>3
<1>. HIDE DEF step
<1>5. iter = [T \in SUBSET (1..n) |-> IF T = {} THEN base ELSE next(iter[T \ {Max(T)}], Max(T))]
  <2>1. PICK g \in [SUBSET (1..n) -> A] : IsFold(g, n, base, step)
    BY <1>2, <1>4, FoldExists
  <2>2. g = [T \in SUBSET (1..n) |-> IF T = {} THEN base ELSE next(g[T \ {Max(T)}], Max(T))]
    BY <1>4, <2>1 DEF IsFold
  <2>. QED BY <2>2
<1>. HIDE DEF iter
<1>6. iter[{}] = base /\ \A k \in 1..n : iter[1..k] = next(iter[1..(k - 1)], k)
  <2>1. {} \in SUBSET (1..n)
    OBVIOUS
  <2>2. iter[{}] = base
    BY <1>5, <2>1
  <2>3. ASSUME NEW k \in 1..n PROVE iter[1..k] = next(iter[1..(k - 1)], k)
    <3>1. 1..k \in SUBSET (1..n) /\ 1..k # {} /\ Max(1..k) = k /\ (1..k) \ {Max(1..k)} = 1..(k - 1)
      BY <1>2, Segments
    <3>2. iter[1..k] = next(iter[(1..k) \ {Max(1..k)}], Max(1..k))
      BY <1>5, <3>1
    <3>. QED BY <3>1, <3>2
  <2>. QED BY <2>2, <2>3
<1>7. Follows(iter, A, n, base, step)
  BY <1>4, <1>6 DEF Follows
<1>8. PICK run \in [0..n -> A] : IsRun(run, n, base, step) /\ Ends(run, n, iter)
  BY <1>2, <1>4, <1>7, FoldRuns
<1>9. \A k \in 1..n : run[k] = next(run[k - 1], k)
  <2>1. \A k \in 1..n : k - 1 \in 0..n
    BY <1>2
  <2>. QED BY <1>4, <1>8, <2>1 DEF IsRun
<1>10. run[0] = base /\ run[n] = iter[1..n]
  BY <1>8 DEF IsRun, Ends
<1>11. InsertRun(run, S, seq, order)
  BY <1>1, <1>8, <1>9, <1>10 DEF InsertRun, n, A, next, base
<1>. QED BY <1>11

\* What is sorted has the elements it had.
SameElements(s, t) ==
  /\ Len(s) = Len(t)
  /\ \A k \in 1..Len(t) : \E j \in 1..Len(t) : s[k] = t[j]
  /\ \A j \in 1..Len(t) : \E k \in 1..Len(t) : s[k] = t[j]

\* Insertion sort is a permutation, in whatever order.
LEMMA InOrderFacts ==
  ASSUME NEW S, NEW seq \in Seq(S), NEW order
  PROVE  InOrder(seq, order) \in Seq(S) /\ SameElements(InOrder(seq, order), seq)
<1>. DEFINE n == Len(seq)
<1>1. n \in Nat /\ \A k \in 1..n : seq[k] \in S
  BY LenProperties
<1>a. PICK run : InsertRun(run, S, seq, order)
  BY InOrderRuns
<1>2. /\ run \in [0..n -> Seq(S)] /\ run[0] = <<>> /\ run[n] = InOrder(seq, order)
      /\ \A k \in 1..n : run[k] = Insert(run[k - 1], seq[k], order)
  BY <1>a DEF InsertRun
<1>. DEFINE same(k) == /\ Len(run[k]) = k
                       /\ \A i \in 1..k : \E j \in 1..k : run[k][i] = seq[j]
                       /\ \A j \in 1..k : \E i \in 1..k : run[k][i] = seq[j]
            D == {k \in 0..n : same(k)}
<1>. HIDE DEF n
<1>3. 0 \in D
  <2>1. Len(<<>>) = 0 /\ 1..0 = {}
    OBVIOUS
  <2>. QED BY <1>1, <1>2, <2>1
<1>4. ASSUME NEW k \in 1..n, k - 1 \in D PROVE k \in D
  <2>. DEFINE s == run[k - 1]
              t == Insert(s, seq[k], order)
              m == k - 1
  <2>1. m \in 0..n /\ m + 1 = k /\ s \in Seq(S) /\ seq[k] \in S /\ Len(s) = m
    BY <1>1, <1>2, <1>4
  <2>2. /\ \A i \in 1..m : \E j \in 1..m : s[i] = seq[j]
        /\ \A j \in 1..m : \E i \in 1..m : s[i] = seq[j]
    BY <1>4
  <2>3. run[k] = t
    BY <1>2
  <2>. HIDE DEF s
  <2>4. /\ Len(t) = m + 1
        /\ \A i \in 1..(m + 1) : t[i] = seq[k] \/ \E j \in 1..m : t[i] = s[j]
        /\ \E i \in 1..(m + 1) : t[i] = seq[k]
        /\ \A j \in 1..m : \E i \in 1..(m + 1) : t[i] = s[j]
    <3>1. Gains(t, s, seq[k])
      BY <2>1, InsertFacts
    <3>. HIDE DEF t
    <3>. QED BY <2>1, <3>1 DEF Gains
  <2>. HIDE DEF t
  <2>5. /\ Len(t) = k
        /\ \A i \in 1..k : t[i] = seq[k] \/ \E j \in 1..m : t[i] = s[j]
        /\ \E i \in 1..k : t[i] = seq[k]
        /\ \A j \in 1..m : \E i \in 1..k : t[i] = s[j]
    BY <2>1, <2>4
  <2>6. (\A j \in 1..m : j \in 1..k) /\ k \in 1..k /\ (\A j \in 1..k : j = k \/ j \in 1..m)
    BY <2>1
  <2>. HIDE DEF m
  <2>7. \A i \in 1..k : \E j \in 1..k : t[i] = seq[j]
    <3>1. ASSUME NEW j \in 1..m PROVE \E q \in 1..k : s[j] = seq[q]
      BY <2>2, <2>6
    <3>2. ASSUME NEW i \in 1..k PROVE \E q \in 1..k : t[i] = seq[q]
      <4>1. CASE t[i] = seq[k]
        BY <2>6, <4>1
      <4>2. CASE t[i] # seq[k]
        <5>1. PICK j \in 1..m : t[i] = s[j]
          BY <2>5, <4>2
        <5>2. \E q \in 1..k : s[j] = seq[q]
          BY <3>1
        <5>. QED BY <5>1, <5>2
      <4>. QED BY <4>1, <4>2
    <3>. QED BY <3>2
  <2>8. \A j \in 1..k : \E i \in 1..k : t[i] = seq[j]
    <3>1. ASSUME NEW j \in 1..m PROVE \E i \in 1..k : t[i] = seq[j]
      <4>1. PICK q \in 1..m : s[q] = seq[j]
        BY <2>2
      <4>2. PICK i \in 1..k : t[i] = s[q]
        BY <2>5
      <4>. QED BY <4>1, <4>2
    <3>. QED BY <2>5, <2>6, <3>1
  <2>9. same(k)
    BY <2>3, <2>5, <2>7, <2>8
  <2>. HIDE DEF same
  <2>. QED BY <2>9
<1>. HIDE DEF D
<1>5. n \in D
  <2>1. n \in Nat
    BY <1>1
  <2>2. \A k \in 1..n : k - 1 \in D => k \in D
    BY <1>4
  <2>3. Inductive(D, n)
    BY <1>3, <2>2 DEF Inductive
  <2>. QED BY <2>1, <2>3, Reached
<1>6. same(n)
  BY <1>5 DEF D
<1>7. SameElements(InOrder(seq, order), seq)
  BY <1>2, <1>6 DEF SameElements, n
<1>. QED BY <1>1, <1>2, <1>7

-----------------------------------------------------------------------------
(***************************************************************************)
(* Other operators on sequences.                                           *)
(***************************************************************************)

\* The first elements of a sequence.
LEMMA FirstFacts ==
  ASSUME NEW S, NEW s \in Seq(S), NEW n \in Nat
  PROVE  /\ First(n, s) \in Seq(S)
         /\ Len(First(n, s)) = IF n <= Len(s) THEN n ELSE Len(s)
         /\ \A k \in 1..Len(First(n, s)) : First(n, s)[k] = s[k]
<1>. DEFINE m == Min({n, Len(s)})
            t == SubSeq(s, 1, m)
<1>1. Len(s) \in Nat /\ \A k \in 1..Len(s) : s[k] \in S
  BY LenProperties
<1>2. m = IF n <= Len(s) THEN n ELSE Len(s)
  <2>1. n \in Int /\ Len(s) \in Int
    BY <1>1
  <2>2. m \in {n, Len(s)} /\ m <= n /\ m <= Len(s)
    BY <2>1, OfTwo
  <2>. HIDE DEF m
  <2>. QED BY <2>1, <2>2
<1>3. m \in Nat /\ m <= Len(s)
  BY <1>1, <1>2
<1>4. First(n, s) = t
  BY DEF First
<1>. HIDE DEF m
<1>5. \A i \in 1..m : s[i] \in S
  BY <1>1, <1>3
<1>6. /\ t \in Seq(S) /\ Len(t) = IF 1 <= m THEN m - 1 + 1 ELSE 0
      /\ \A i \in 1..(m - 1 + 1) : t[i] = s[1 + i - 1]
  BY <1>3, <1>5, SubSeqProperties
<1>. HIDE DEF t
<1>7. Len(t) = m /\ \A i \in 1..m : t[i] = s[i]
  BY <1>3, <1>6
<1>. QED BY <1>2, <1>4, <1>6, <1>7

(***************************************************************************)
(* A flattened sequence has the elements of its parts.                     *)
(***************************************************************************)

\* t has the elements of the first n of these sequences.
Joins(t, seqs, n) ==
  /\ \A k \in 1..n : \A i \in 1..Len(seqs[k]) : \E j \in 1..Len(t) : t[j] = seqs[k][i]
  /\ \A j \in 1..Len(t) : \E k \in 1..n : \E i \in 1..Len(seqs[k]) : t[j] = seqs[k][i]

\* Sequences one after the other have the elements of each.
LEMMA FlattenFacts ==
  ASSUME NEW S, NEW seqs \in Seq(Seq(S))
  PROVE  FlattenSeq(seqs) \in Seq(S) /\ Joins(FlattenSeq(seqs), seqs, Len(seqs))
<1>. DEFINE n == Len(seqs)
            flat == CHOOSE f : f = [i \in 1..n |->
                      IF i = 1 THEN seqs[i] ELSE f[i - 1] \o seqs[i]]
<1>1. n \in Nat /\ \A k \in 1..n : seqs[k] \in Seq(S)
  BY LenProperties
<1>2. CASE n = 0
  <2>1. seqs = <<>> /\ FlattenSeq(seqs) = seqs
    BY <1>2, EmptySeq DEF FlattenSeq
  <2>2. <<>> \in Seq(S) /\ Len(<<>>) = 0 /\ 1..0 = {}
    OBVIOUS
  <2>. QED BY <2>1, <2>2 DEF Joins
<1>3. CASE n # 0
  <2>1. FlattenSeq(seqs) = flat[n]
    BY <1>3 DEF FlattenSeq
  <2>. DEFINE A == Seq(S)
              step == [p \in A \X (1..n) |-> IF p[2] = 1 THEN seqs[1] ELSE p[1] \o seqs[p[2]]]
  <2>2. /\ step \in [A \X (1..n) -> A]
        /\ \A a \in A, k \in 1..n : step[<<a, k>>] = IF k = 1 THEN seqs[1] ELSE a \o seqs[k]
    <3>1. ASSUME NEW a \in A, NEW k \in 1..n
          PROVE  (IF k = 1 THEN seqs[1] ELSE a \o seqs[k]) \in A
      <4>1. seqs[k] \in Seq(S)
        BY <1>1
      <4>2. a \o seqs[k] \in Seq(S)
        BY <4>1, ConcatProperties
      <4>. QED BY <4>1, <4>2
    <3>. HIDE DEF A, n
    <3>. QED BY <3>1
  <2>. HIDE DEF step, n
  <2>3. flat = [i \in 1..n |-> IF i = 1 THEN seqs[i] ELSE flat[i - 1] \o seqs[i]]
    <3>1. <<>> \in A
      OBVIOUS
    <3>. HIDE DEF A
    <3>2. PICK g \in [SUBSET (1..n) -> A] : IsFold(g, n, <<>>, step)
      BY <1>1, <2>2, <3>1, FoldExists
    <3>. DEFINE h == [i \in 1..n |-> g[1..i]]
    <3>3. \A i \in 1..n : h[i] = step[<<g[1..(i - 1)], i>>] /\ g[1..(i - 1)] \in A
      <4>. SUFFICES ASSUME NEW i \in 1..n
                    PROVE  h[i] = step[<<g[1..(i - 1)], i>>] /\ g[1..(i - 1)] \in A
        OBVIOUS
      <4>1. /\ 1..i \in SUBSET (1..n) /\ 1..i # {}
            /\ Max(1..i) = i /\ (1..i) \ {Max(1..i)} = 1..(i - 1)
        BY <1>1, Segments
      <4>2. 1..(i - 1) \in SUBSET (1..n)
        BY <4>1
      <4>. QED BY <3>2, <4>1, <4>2 DEF IsFold
    <3>4. \A i \in 1..n : h[i] = IF i = 1 THEN seqs[i] ELSE h[i - 1] \o seqs[i]
      <4>1. \A i \in 1..n : h[i] = IF i = 1 THEN seqs[1] ELSE g[1..(i - 1)] \o seqs[i]
        <5>. HIDE DEF h
        <5>. QED BY <2>2, <3>3
      <4>2. \A i \in 1..n : i # 1 => i - 1 \in 1..n
        BY <1>1
      <4>. QED BY <4>1, <4>2
    <3>5. h = [i \in 1..n |-> IF i = 1 THEN seqs[i] ELSE h[i - 1] \o seqs[i]]
      <4>1. DOMAIN h = 1..n /\ h = [i \in 1..n |-> h[i]]
        OBVIOUS
      <4>. HIDE DEF h
      <4>. QED BY <3>4, <4>1
    <3>. HIDE DEF h
    <3>. QED BY <3>5
  <2>. HIDE DEF flat
  <2>4. \A i \in 1..n : flat[i] = IF i = 1 THEN seqs[i] ELSE flat[i - 1] \o seqs[i]
    BY <2>3
  <2>. DEFINE has(i) == flat[i] \in Seq(S) /\ Joins(flat[i], seqs, i)
              D == {i \in 0..n : i # 0 => has(i)}
  <2>5. 0 \in D
    BY <1>1
  <2>6. ASSUME NEW i \in 1..n, i - 1 \in D PROVE i \in D
    <3>. SUFFICES has(i)
      OBVIOUS
    <3>1. CASE i = 1
      <4>1. flat[i] = seqs[1] /\ seqs[1] \in Seq(S) /\ 1..1 = {1}
        BY <1>1, <2>4, <3>1
      <4>. QED BY <3>1, <4>1 DEF Joins
    <3>2. CASE i # 1
      <4>. DEFINE s == flat[i - 1]
                  t == seqs[i]
                  u == s \o t
      <4>1. i - 1 \in 1..n /\ has(i - 1) /\ flat[i] = u
        <5>1. i - 1 \in 1..n /\ i - 1 # 0
          BY <1>1, <3>2
        <5>2. flat[i] = u
          BY <2>4, <3>2
        <5>. HIDE DEF has
        <5>. QED BY <2>6, <5>1, <5>2
      <4>2. s \in Seq(S) /\ t \in Seq(S)
        BY <1>1, <4>1
      <4>3. Len(s) \in Nat /\ Len(t) \in Nat
        BY <4>2, LenProperties
      <4>a. /\ \A k \in 1..(i - 1) : \A x \in 1..Len(seqs[k]) :
                  \E j \in 1..Len(s) : s[j] = seqs[k][x]
            /\ \A j \in 1..Len(s) : \E k \in 1..(i - 1) :
                  \E x \in 1..Len(seqs[k]) : s[j] = seqs[k][x]
        BY <4>1 DEF Joins
      <4>. HIDE DEF s, t
      <4>4. /\ u \in Seq(S) /\ Len(u) = Len(s) + Len(t)
            /\ \A j \in 1..Len(s) + Len(t) :
                 u[j] = IF j <= Len(s) THEN s[j] ELSE t[j - Len(s)]
        BY <4>2, ConcatProperties
      <4>. HIDE DEF u
      <4>5. ASSUME NEW j \in 1..Len(s) PROVE j \in 1..Len(u) /\ u[j] = s[j]
        <5>1. j \in 1..Len(s) + Len(t) /\ j <= Len(s)
          BY <4>3
        <5>. QED BY <4>4, <5>1
      <4>6. ASSUME NEW x \in 1..Len(t)
            PROVE  Len(s) + x \in 1..Len(u) /\ u[Len(s) + x] = t[x]
        <5>1. Len(s) + x \in 1..Len(s) + Len(t) /\ ~(Len(s) + x <= Len(s)) /\ (Len(s) + x) - Len(s) = x
          BY <4>3
        <5>. QED BY <4>4, <5>1
      <4>7. \A j \in 1..Len(u) : j \in 1..Len(s) \/ \E x \in 1..Len(t) : u[j] = t[x]
        <5>. SUFFICES ASSUME NEW j \in 1..Len(u), j \notin 1..Len(s)
                      PROVE  \E x \in 1..Len(t) : u[j] = t[x]
          OBVIOUS
        <5>1. j - Len(s) \in 1..Len(t) /\ ~(j <= Len(s))
          BY <4>3, <4>4
        <5>. QED BY <4>4, <5>1
      <4>8. \A k \in 1..i : k = i \/ k \in 1..(i - 1)
        BY <1>1
      <4>9. i \in 1..i /\ \A k \in 1..(i - 1) : k \in 1..i
        BY <1>1
      <4>10. \A k \in 1..i : \A x \in 1..Len(seqs[k]) : \E j \in 1..Len(u) : u[j] = seqs[k][x]
        <5>1. ASSUME NEW k \in 1..(i - 1), NEW x \in 1..Len(seqs[k])
              PROVE  \E j \in 1..Len(u) : u[j] = seqs[k][x]
          BY <4>5, <4>a
        <5>2. ASSUME NEW x \in 1..Len(seqs[i]) PROVE \E j \in 1..Len(u) : u[j] = seqs[i][x]
          BY <4>6 DEF t
        <5>. QED BY <4>8, <5>1, <5>2
      <4>11. \A j \in 1..Len(u) : \E k \in 1..i : \E x \in 1..Len(seqs[k]) : u[j] = seqs[k][x]
        <5>1. ASSUME NEW j \in 1..Len(s)
              PROVE  \E k \in 1..i : \E x \in 1..Len(seqs[k]) : u[j] = seqs[k][x]
          <6>1. PICK k \in 1..(i - 1) : \E x \in 1..Len(seqs[k]) : s[j] = seqs[k][x]
            BY <4>a
          <6>2. u[j] = s[j] /\ k \in 1..i
            BY <4>5, <4>9
          <6>. QED BY <6>1, <6>2
        <5>2. ASSUME NEW j \in 1..Len(u), NEW x \in 1..Len(t), u[j] = t[x]
              PROVE  \E k \in 1..i : \E y \in 1..Len(seqs[k]) : u[j] = seqs[k][y]
          BY <4>9, <5>2 DEF t
        <5>. QED BY <4>7, <5>1, <5>2
      <4>12. Joins(u, seqs, i)
        BY <4>10, <4>11 DEF Joins
      <4>. QED BY <4>1, <4>4, <4>12
    <3>. QED BY <3>1, <3>2
  <2>. HIDE DEF D
  <2>7. n \in D
    <3>1. n \in Nat
      BY <1>1
    <3>2. \A i \in 1..n : i - 1 \in D => i \in D
      BY <2>6
    <3>3. Inductive(D, n)
      BY <2>5, <3>2 DEF Inductive
    <3>. QED BY <3>1, <3>3, Reached
  <2>8. has(n)
    <3>. HIDE DEF has
    <3>. QED BY <1>3, <2>7 DEF D
  <2>. QED BY <2>1, <2>8 DEF n
<1>. QED BY <1>2, <1>3

-----------------------------------------------------------------------------
(***************************************************************************)
(* The same facts, about the sets of elements.                             *)
(***************************************************************************)

\* A sequence and the set of its elements.
LEMMA ToSetFacts ==
  ASSUME NEW S, NEW s \in Seq(S)
  PROVE  /\ ToSet(s) \subseteq S /\ s \in Seq(ToSet(s))
         /\ DOMAIN s = 1..Len(s) /\ Len(s) \in Nat
         /\ (ToSet(s) = {} <=> s = <<>>) /\ (s = <<>> <=> Len(s) = 0)
<1>1. Len(s) \in Nat /\ DOMAIN s = 1..Len(s) /\ \A k \in 1..Len(s) : s[k] \in S
  BY LenProperties
<1>2. s \in [1..Len(s) -> ToSet(s)]
  <2>1. s = [k \in 1..Len(s) |-> s[k]]
    BY LenProperties
  <2>2. \A k \in 1..Len(s) : s[k] \in ToSet(s)
    BY <1>1 DEF ToSet
  <2>. QED BY <2>1, <2>2
<1>3. s \in Seq(ToSet(s))
  BY <1>1, <1>2, Listed
<1>4. ToSet(s) \subseteq S
  BY <1>1 DEF ToSet
<1>5. s = <<>> <=> Len(s) = 0
  BY EmptySeq
<1>6. ToSet(s) = {} <=> Len(s) = 0
  <2>1. CASE Len(s) = 0
    <3>1. 1..0 = {}
      OBVIOUS
    <3>. QED BY <1>1, <2>1, <3>1 DEF ToSet
  <2>2. CASE Len(s) # 0
    <3>1. 1 \in DOMAIN s
      BY <1>1, <2>2
    <3>. QED BY <2>2, <3>1 DEF ToSet
  <2>. QED BY <2>1, <2>2
<1>. QED BY <1>1, <1>3, <1>4, <1>5, <1>6

\* A sequence of elements of a smaller set.
LEMMA InSeq == ASSUME NEW S, NEW T, NEW s \in Seq(S), ToSet(s) \subseteq T PROVE s \in Seq(T)
BY ToSetFacts, SeqMonotonic

\* What is chosen of a sequence, as a set.
LEMMA ChosenFacts ==
  ASSUME NEW S, NEW seq \in Seq(S), NEW at, at \subseteq DOMAIN seq
  PROVE  /\ ElementsAt(seq, at) \in Seq(S)
         /\ ToSet(ElementsAt(seq, at)) = {seq[p] : p \in at}
         /\ Len(ElementsAt(seq, at)) <= Len(seq)
<1>1. ElementsAt(seq, at) \in Seq(S) /\ Len(ElementsAt(seq, at)) <= Len(seq)
  BY ElementsFacts
<1>2. \A k \in 1..Len(ElementsAt(seq, at)) : \E p \in at : ElementsAt(seq, at)[k] = seq[p]
  BY ElementsFacts
<1>3. \A p \in at : \E k \in 1..Len(ElementsAt(seq, at)) : ElementsAt(seq, at)[k] = seq[p]
  BY ElementsFacts
<1>. DEFINE t == ElementsAt(seq, at)
<1>4. /\ t \in Seq(S)
      /\ \A k \in 1..Len(t) : \E p \in at : t[k] = seq[p]
      /\ \A p \in at : \E k \in 1..Len(t) : t[k] = seq[p]
  BY <1>1, <1>2, <1>3, Zenon
<1>. HIDE DEF t
<1>5. DOMAIN t = 1..Len(t)
  BY <1>4, LenProperties
<1>6. \A p \in at : seq[p] \in ToSet(t)
  BY <1>4, <1>5 DEF ToSet
<1>7. \A k \in DOMAIN t : \E p \in at : t[k] = seq[p]
  BY <1>4, <1>5
<1>8. \A x \in ToSet(t) : \E p \in at : x = seq[p]
  BY <1>7 DEF ToSet
<1>9. ToSet(t) = {seq[p] : p \in at}
  BY <1>6, <1>8
<1>. QED BY <1>1, <1>9 DEF t

\* What is sorted has the same elements.
LEMMA SortedFacts ==
  ASSUME NEW S, NEW seq \in Seq(S), NEW order
  PROVE  /\ InOrder(seq, order) \in Seq(S)
         /\ ToSet(InOrder(seq, order)) = ToSet(seq)
         /\ Len(InOrder(seq, order)) = Len(seq)
<1>. DEFINE t == InOrder(seq, order)
<1>1. t \in Seq(S) /\ SameElements(t, seq)
  BY InOrderFacts
<1>. HIDE DEF t
<1>2. DOMAIN t = 1..Len(t) /\ DOMAIN seq = 1..Len(seq)
  BY <1>1, LenProperties
<1>3. Len(t) = Len(seq)
  BY <1>1 DEF SameElements
<1>4. \A x : x \in ToSet(t) <=> \E k \in 1..Len(seq) : x = t[k]
  BY <1>2, <1>3 DEF ToSet
<1>5. \A x : x \in ToSet(seq) <=> \E k \in 1..Len(seq) : x = seq[k]
  BY <1>2 DEF ToSet
<1>6. ASSUME NEW x \in ToSet(t) PROVE x \in ToSet(seq)
  BY <1>1, <1>4, <1>5 DEF SameElements
<1>7. ASSUME NEW x \in ToSet(seq) PROVE x \in ToSet(t)
  BY <1>1, <1>4, <1>5 DEF SameElements
<1>. QED BY <1>1, <1>3, <1>6, <1>7 DEF t

\* The elements of sequences one after the other.
LEMMA FlatFacts ==
  ASSUME NEW S, NEW seqs \in Seq(Seq(S))
  PROVE  /\ FlattenSeq(seqs) \in Seq(S)
         /\ \A x : x \in ToSet(FlattenSeq(seqs)) <=> \E k \in DOMAIN seqs : x \in ToSet(seqs[k])
<1>. DEFINE t == FlattenSeq(seqs)
<1>1. t \in Seq(S) /\ Joins(t, seqs, Len(seqs))
  BY FlattenFacts
<1>. HIDE DEF t
<1>2. DOMAIN t = 1..Len(t) /\ DOMAIN seqs = 1..Len(seqs)
  BY <1>1, LenProperties
<1>3. \A k \in 1..Len(seqs) : DOMAIN seqs[k] = 1..Len(seqs[k])
  BY LenProperties
<1>4. ASSUME NEW x \in ToSet(t) PROVE \E k \in DOMAIN seqs : x \in ToSet(seqs[k])
  <2>1. PICK j \in 1..Len(t) : x = t[j]
    BY <1>2, <1>4 DEF ToSet
  <2>2. PICK k \in 1..Len(seqs) : \E i \in 1..Len(seqs[k]) : t[j] = seqs[k][i]
    BY <1>1 DEF Joins
  <2>. QED BY <1>2, <1>3, <2>1, <2>2 DEF ToSet
<1>5. ASSUME NEW k \in DOMAIN seqs, NEW x \in ToSet(seqs[k]) PROVE x \in ToSet(t)
  <2>1. PICK i \in 1..Len(seqs[k]) : x = seqs[k][i]
    BY <1>2, <1>3 DEF ToSet
  <2>2. \E j \in 1..Len(t) : t[j] = seqs[k][i]
    BY <1>1, <1>2 DEF Joins
  <2>. QED BY <1>2, <2>1, <2>2 DEF ToSet
<1>. QED BY <1>1, <1>4, <1>5 DEF t

\* The elements of two sequences, one after the other.
LEMMA JoinFacts ==
  ASSUME NEW S, NEW s \in Seq(S), NEW t \in Seq(S)
  PROVE  s \o t \in Seq(S) /\ ToSet(s \o t) = ToSet(s) \cup ToSet(t)
<1>. DEFINE u == s \o t
<1>1. /\ u \in Seq(S) /\ Len(u) = Len(s) + Len(t)
      /\ \A i \in 1..Len(s) + Len(t) : u[i] = IF i <= Len(s) THEN s[i] ELSE t[i - Len(s)]
  BY ConcatProperties
<1>. HIDE DEF u
<1>2. /\ DOMAIN s = 1..Len(s) /\ DOMAIN t = 1..Len(t) /\ DOMAIN u = 1..Len(u)
      /\ Len(s) \in Nat /\ Len(t) \in Nat
  BY <1>1, LenProperties
<1>3. ASSUME NEW i \in DOMAIN s PROVE s[i] \in ToSet(u)
  <2>1. i \in 1..Len(s) + Len(t) /\ i <= Len(s)
    BY <1>2
  <2>. QED BY <1>1, <1>2, <2>1 DEF ToSet
<1>4. ASSUME NEW i \in DOMAIN t PROVE t[i] \in ToSet(u)
  <2>1. Len(s) + i \in 1..Len(s) + Len(t) /\ ~(Len(s) + i <= Len(s)) /\ (Len(s) + i) - Len(s) = i
    BY <1>2
  <2>2. u[Len(s) + i] = t[i]
    BY <1>1, <2>1
  <2>. QED BY <1>1, <1>2, <2>1, <2>2 DEF ToSet
<1>5. ASSUME NEW i \in DOMAIN u PROVE u[i] \in ToSet(s) \cup ToSet(t)
  <2>1. CASE i <= Len(s)
    <3>1. i \in DOMAIN s /\ u[i] = s[i]
      BY <1>1, <1>2, <2>1
    <3>. QED BY <3>1 DEF ToSet
  <2>2. CASE ~(i <= Len(s))
    <3>1. i - Len(s) \in DOMAIN t /\ u[i] = t[i - Len(s)]
      BY <1>1, <1>2, <2>2
    <3>. QED BY <3>1 DEF ToSet
  <2>. QED BY <2>1, <2>2
<1>6. ToSet(u) = ToSet(s) \cup ToSet(t)
  <2>1. ToSet(s) \subseteq ToSet(u)
    BY <1>3 DEF ToSet
  <2>2. ToSet(t) \subseteq ToSet(u)
    BY <1>4 DEF ToSet
  <2>3. ToSet(u) \subseteq ToSet(s) \cup ToSet(t)
    <3>1. \A x \in ToSet(u) : \E i \in DOMAIN u : x = u[i]
      BY DEF ToSet
    <3>. QED BY <1>5, <3>1
  <2>. QED BY <2>1, <2>2, <2>3
<1>. QED BY <1>1, <1>6 DEF u

\* The elements of a sequence with one more.
LEMMA AppendFacts ==
  ASSUME NEW S, NEW s \in Seq(S), NEW x \in S
  PROVE  /\ Append(s, x) \in Seq(S) /\ ToSet(Append(s, x)) = ToSet(s) \cup {x}
         /\ Len(Append(s, x)) = Len(s) + 1
<1>. DEFINE t == Append(s, x)
<1>1. /\ t \in Seq(S) /\ Len(t) = Len(s) + 1 /\ t[Len(s) + 1] = x
      /\ \A i \in 1..Len(s) : t[i] = s[i]
  BY AppendProperties
<1>. HIDE DEF t
<1>2. /\ DOMAIN s = 1..Len(s) /\ DOMAIN t = 1..Len(t) /\ Len(s) \in Nat
  BY <1>1, LenProperties
<1>3. Len(s) + 1 \in DOMAIN t /\ \A i \in DOMAIN s : i \in DOMAIN t /\ t[i] = s[i]
  BY <1>1, <1>2
<1>4. \A i \in DOMAIN t : i \in DOMAIN s \/ i = Len(s) + 1
  BY <1>1, <1>2
<1>5. x \in ToSet(t) /\ \A i \in DOMAIN s : s[i] \in ToSet(t)
  BY <1>1, <1>3 DEF ToSet
<1>6. \A i \in DOMAIN t : t[i] = x \/ t[i] \in ToSet(s)
  BY <1>1, <1>3, <1>4 DEF ToSet
<1>7. ToSet(t) = ToSet(s) \cup {x}
  <2>1. ToSet(s) \subseteq ToSet(t)
    BY <1>5 DEF ToSet
  <2>2. ToSet(t) \subseteq ToSet(s) \cup {x}
    <3>1. \A y \in ToSet(t) : \E i \in DOMAIN t : y = t[i]
      BY DEF ToSet
    <3>. QED BY <1>6, <3>1
  <2>. QED BY <1>5, <2>1, <2>2
<1>. QED BY <1>1, <1>7 DEF t

\* The positions of a sequence that pass a test, if any, have a first one.
LEMMA FirstPlace ==
  ASSUME NEW S, NEW s \in Seq(S), NEW at, at \subseteq DOMAIN s, at # {}
  PROVE  Min(at) \in at /\ \A k \in at : Min(at) <= k
<1>1. Len(s) \in Nat /\ DOMAIN s = 1..Len(s)
  BY LenProperties
<1>2. at \in SUBSET (0..Len(s))
  BY <1>1
<1>. QED BY <1>1, <1>2, MinFacts

-----------------------------------------------------------------------------
(***************************************************************************)
(* Candidates.                                                             *)
(***************************************************************************)

Strategies == {"structural", "file_scope", "semantic", "bm25", "exact", "related",
               "adjacent", "full_audit"}

\* The candidates that may be made of the documents D.
Cands(D) == [doc : D, semantic : Int, lexical : Int, path : Int, score : Int,
             strategies : SUBSET Strategies]

Places == {"/repositories/", "/services/", "/schemas/", "/security.py", "/auth.py", "/deps.py",
           "/config.py", "/api/", "/routes/", "/reports"}

\* Tuples are sequences of what they list.
LEMMA Tuples ==
  ASSUME NEW S, NEW x \in S, NEW y \in S, NEW z \in S
  PROVE  <<x, y>> \in Seq(S) /\ <<x, y, z>> \in Seq(S)
OBVIOUS

\* The score of a path is a number.
LEMMA PathScoreInt ==
  ASSUME NEW d, NEW probe, NEW named \in BOOLEAN
  PROVE  PathScore(d, probe, named) \in Int
<1>. DEFINE hints == IF CrossFile(probe) THEN ProbeHints[probe.id] ELSE <<>>
            at == {k \in DOMAIN hints : hints[k] \in d.path}
            hit == FirstWith(hints, LAMBDA h : h \in d.path)
            a == IF probe.category \in DOMAIN PathHints /\ PathHints[probe.category] \cap d.path # {}
                   THEN 20 ELSE 0
            b == IF named THEN 10 ELSE 0
            c == IF hit = 0 THEN 0 ELSE Max({12, 34 - 10 * (hit - 1)})
            e == IF d.path \cap NonRuntime # {} THEN 45 ELSE 0
<1>1. hints \in Seq(Places)
  <2>1. CASE CrossFile(probe)
    <3>1. /\ <<"/repositories/", "/services/", "/schemas/">> \in Seq(Places)
          /\ <<"/security.py", "/auth.py">> \in Seq(Places)
          /\ <<"/deps.py", "/security.py", "/config.py">> \in Seq(Places)
          /\ <<"/schemas/", "/repositories/", "/api/">> \in Seq(Places)
          /\ <<"/auth.py", "/api/", "/routes/">> \in Seq(Places)
          /\ <<"/reports", "/api/", "/services/">> \in Seq(Places)
          /\ <<"/schemas/", "/reports", "/api/">> \in Seq(Places)
      BY Tuples DEF Places
    <3>2. ASSUME NEW p \in DOMAIN ProbeHints
          PROVE  ProbeHints[p] \in {<<"/repositories/", "/services/", "/schemas/">>,
                   <<"/security.py", "/auth.py">>, <<"/deps.py", "/security.py", "/config.py">>,
                   <<"/schemas/", "/repositories/", "/api/">>, <<"/auth.py", "/api/", "/routes/">>,
                   <<"/reports", "/api/", "/services/">>, <<"/schemas/", "/reports", "/api/">>}
      BY Zenon DEF ProbeHints
    <3>. QED BY <2>1, <3>1, <3>2 DEF CrossFile
  <2>2. CASE ~CrossFile(probe)
    BY <2>2
  <2>. QED BY <2>1, <2>2
<1>2. hit = IF at = {} THEN 0 ELSE Min(at)
  BY DEF FirstWith
<1>3. at # {} => Min(at) \in at
  <2>1. at \subseteq DOMAIN hints
    OBVIOUS
  <2>. HIDE DEF at, hints
  <2>. QED BY <1>1, <2>1, FirstPlace
<1>4. DOMAIN hints = 1..Len(hints) /\ Len(hints) \in Nat
  <2>. HIDE DEF hints
  <2>. QED BY <1>1, LenProperties
<1>5. hit \in Int
  <2>1. \A k \in at : k \in Int
    <3>. HIDE DEF hints
    <3>. QED BY <1>4
  <2>. HIDE DEF hints, hit, at
  <2>. QED BY <1>2, <1>3, <2>1
<1>6. PathScore(d, probe, named) = a + b + c - e
  BY Zenon DEF PathScore
<1>. HIDE DEF hit
<1>7. c \in Int
  <2>. DEFINE x == 34 - 10 * (hit - 1)
  <2>1. x \in Int
    BY <1>5
  <2>2. c = IF hit = 0 THEN 0 ELSE Max({12, x})
    OBVIOUS
  <2>. HIDE DEF x, c
  <2>3. Max({12, x}) \in Int
    <3>1. 12 \in Int
      OBVIOUS
    <3>2. Max({12, x}) \in {12, x}
      BY <2>1, <3>1, OfTwo
    <3>. QED BY <2>1, <3>1, <3>2
  <2>. QED BY <2>2, <2>3
<1>8. a \in Int /\ b \in Int /\ e \in Int
  OBVIOUS
<1>. HIDE DEF a, b, c, e
<1>. QED BY <1>6, <1>7, <1>8

\* A candidate made of a document of D is one of D.
LEMMA CandidateFacts ==
  ASSUME NEW D, NEW d \in D, NEW probe, NEW semanticScore \in Int, NEW lexical \in Int,
         NEW exact \in Int, NEW strategy \in Strategies
  PROVE  /\ Candidate(d, probe, semanticScore, lexical, exact, strategy) \in Cands(D)
         /\ Candidate(d, probe, semanticScore, lexical, exact, strategy).doc = d
<1>. DEFINE c == Candidate(d, probe, semanticScore, lexical, exact, strategy)
            path == PathScore(d, probe, strategy # "related" /\ "query" \in d.path)
            risk == RiskScore(d, probe)
            best == Max({lexical, exact})
            score == 100 * (semanticScore * 45 + lexical * 25 + exact * 20
                              + 100 * path + 100 * risk)
<1>1. c = [doc |-> d, semantic |-> semanticScore, lexical |-> best, path |-> path,
           score |-> score, strategies |-> {strategy}]
  BY DEF Candidate
<1>2. path \in Int
  BY PathScoreInt
<1>3. risk \in Int
  BY DEF RiskScore
<1>4. best \in Int
  BY OfTwo
<1>. HIDE DEF path, risk, best
<1>5. score \in Int
  BY <1>2, <1>3
<1>. HIDE DEF score, c
<1>. QED BY <1>1, <1>2, <1>4, <1>5 DEF Cands, c

\* So is one whose score is raised.
LEMMA RaisedFacts ==
  ASSUME NEW D, NEW c \in Cands(D), NEW by \in Int
  PROVE  Raised(c, by) \in Cands(D) /\ Raised(c, by).doc = c.doc /\ Key(Raised(c, by)) = Key(c)
BY DEF Raised, Cands, Key

\* Two candidates merged are one of the document of the first.
LEMMA MergedFacts ==
  ASSUME NEW D, NEW c \in Cands(D), NEW e \in Cands(D)
  PROVE  Merged(c, e) \in Cands(D) /\ Merged(c, e).doc = c.doc
<1>1. /\ c.semantic \in Int /\ c.lexical \in Int /\ c.path \in Int /\ c.score \in Int
      /\ e.semantic \in Int /\ e.lexical \in Int /\ e.path \in Int /\ e.score \in Int
      /\ c.strategies \cup e.strategies \in SUBSET Strategies
  BY DEF Cands
<1>2. /\ Max({c.semantic, e.semantic}) \in Int /\ Max({c.lexical, e.lexical}) \in Int
      /\ Max({c.path, e.path}) \in Int /\ Max({c.score, e.score}) \in Int
  BY <1>1, OfTwo
<1>. QED BY <1>1, <1>2 DEF Merged, Cands


\* By score, as ByScore sorts, nothing is lost.
LEMMA ByScoreFacts ==
  ASSUME NEW S, NEW cs \in Seq(S)
  PROVE  ByScore(cs) \in Seq(S) /\ ToSet(ByScore(cs)) = ToSet(cs) /\ Len(ByScore(cs)) = Len(cs)
<1>1. PICK order : ByScore(cs) = InOrder(cs, order)
  BY DEF ByScore, Descending, Sorted
<1>. QED BY <1>1, SortedFacts

\* With one more, unique candidates are candidates, and some.
LEMMA AddUniqueFacts ==
  ASSUME NEW D, NEW u \in Seq(Cands(D)), NEW c \in Cands(D)
  PROVE  AddUnique(u, c) \in Seq(Cands(D)) /\ Len(AddUnique(u, c)) # 0
<1>. DEFINE same == {k \in DOMAIN u : Key(u[k]) = Key(c)}
            nested == {k \in DOMAIN u : Nested(c, u[k])}
            p == IF same = {} THEN 0 ELSE Min(same)
            q == IF nested = {} THEN 0 ELSE Min(nested)
            C == Cands(D)
<1>1. AddUnique(u, c) =
        IF p # 0 THEN [u EXCEPT ![p] = Merged(u[p], c)]
        ELSE IF q = 0 THEN Append(u, c)
        ELSE IF Span(c) >= Span(u[q]) THEN u ELSE [u EXCEPT ![q] = c]
  BY DEF AddUnique, FirstWith
<1>2. DOMAIN u = 1..Len(u) /\ Len(u) \in Nat /\ \A k \in 1..Len(u) : u[k] \in C
  BY LenProperties
<1>3. p # 0 => p \in 1..Len(u)
  <2>1. same \subseteq DOMAIN u
    OBVIOUS
  <2>. HIDE DEF same
  <2>. QED BY <1>2, <2>1, FirstPlace
<1>4. q # 0 => q \in 1..Len(u)
  <2>1. nested \subseteq DOMAIN u
    OBVIOUS
  <2>. HIDE DEF nested
  <2>. QED BY <1>2, <2>1, FirstPlace
<1>. HIDE DEF p, q
<1>5. CASE p # 0
  <2>. DEFINE e == Merged(u[p], c)
  <2>1. e \in C
    BY <1>2, <1>3, <1>5, MergedFacts
  <2>. HIDE DEF e, C
  <2>2. [u EXCEPT ![p] = e] \in Seq(C) /\ Len([u EXCEPT ![p] = e]) = Len(u)
    BY <1>3, <1>5, <2>1, ExceptSeq DEF C
  <2>3. AddUnique(u, c) = [u EXCEPT ![p] = e]
    BY <1>1, <1>5, Zenon DEF e
  <2>. QED BY <1>2, <1>3, <1>5, <2>2, <2>3 DEF C
<1>6. CASE p = 0 /\ q = 0
  <2>1. AddUnique(u, c) = Append(u, c)
    BY <1>1, <1>6
  <2>. HIDE DEF C
  <2>2. Append(u, c) \in Seq(C) /\ Len(Append(u, c)) = Len(u) + 1
    BY AppendFacts DEF C
  <2>. QED BY <1>2, <2>1, <2>2 DEF C
<1>7. CASE p = 0 /\ q # 0
  <2>. HIDE DEF C
  <2>1. [u EXCEPT ![q] = c] \in Seq(C) /\ Len([u EXCEPT ![q] = c]) = Len(u)
    BY <1>4, <1>7, ExceptSeq DEF C
  <2>2. AddUnique(u, c) \in {u, [u EXCEPT ![q] = c]}
    BY <1>1, <1>7
  <2>. QED BY <1>2, <1>4, <1>7, <2>1, <2>2 DEF C
<1>. QED BY <1>5, <1>6, <1>7

\* Unique candidates are candidates, and there are some if there were any.
LEMMA UniqueFacts ==
  ASSUME NEW D, NEW seq \in Seq(Cands(D))
  PROVE  Unique(seq) \in Seq(Cands(D)) /\ (seq # <<>> => Unique(seq) # <<>>)
<1>. DEFINE cs == ByScore(seq)
            n == Len(cs)
            A == Seq(Cands(D))
            base == <<>>
            next(a, k) == AddUnique(a, cs[k])
            iter == CHOOSE g : g = [T \in SUBSET (1..n) |->
                      IF T = {} THEN base ELSE next(g[T \ {Max(T)}], Max(T))]
            step == [p \in A \X (1..n) |-> next(p[1], p[2])]
<1>a. cs \in Seq(Cands(D)) /\ Len(cs) = Len(seq)
  BY ByScoreFacts
<1>1. Unique(seq) = ByScore(iter[1..n])
  <2>1. DOMAIN cs = 1..n
    <3>. HIDE DEF cs
    <3>. QED BY <1>a, LenProperties
  <2>. QED BY <2>1 DEF Unique, FoldLeft, MapThenFoldSet
<1>. HIDE DEF cs
<1>2. n \in Nat /\ base \in A
  BY <1>a, LenProperties
<1>b. ASSUME NEW a \in A, NEW k \in 1..n PROVE next(a, k) \in A /\ Len(next(a, k)) # 0
  <2>1. cs[k] \in Cands(D)
    BY <1>a, LenProperties
  <2>. QED BY <2>1, AddUniqueFacts
<1>3. ASSUME NEW a \in A, NEW k \in 1..n PROVE next(a, k) \in A
  BY <1>b
<1>. HIDE DEF next, A, n, base
<1>4. /\ step \in [A \X (1..n) -> A]
      /\ \A a \in A, k \in 1..n : step[<<a, k>>] = next(a, k)
  BY <1>3
<1>. HIDE DEF step
<1>5. iter = [T \in SUBSET (1..n) |-> IF T = {} THEN base ELSE next(iter[T \ {Max(T)}], Max(T))]
  <2>1. PICK g \in [SUBSET (1..n) -> A] : IsFold(g, n, base, step)
    BY <1>2, <1>4, FoldExists
  <2>2. g = [T \in SUBSET (1..n) |-> IF T = {} THEN base ELSE next(g[T \ {Max(T)}], Max(T))]
    BY <1>4, <2>1 DEF IsFold
  <2>. QED BY <2>2
<1>. HIDE DEF iter
<1>6. Follows(iter, A, n, base, step)
  <2>1. {} \in SUBSET (1..n)
    OBVIOUS
  <2>2. iter[{}] = base
    BY <1>5, <2>1
  <2>3. ASSUME NEW k \in 1..n PROVE iter[1..k] = next(iter[1..(k - 1)], k)
    <3>1. 1..k \in SUBSET (1..n) /\ 1..k # {} /\ Max(1..k) = k /\ (1..k) \ {Max(1..k)} = 1..(k - 1)
      BY <1>2, Segments
    <3>2. iter[1..k] = next(iter[(1..k) \ {Max(1..k)}], Max(1..k))
      BY <1>5, <3>1
    <3>. QED BY <3>1, <3>2
  <2>. QED BY <1>4, <2>2, <2>3 DEF Follows
<1>7. PICK run \in [0..n -> A] : IsRun(run, n, base, step) /\ Ends(run, n, iter)
  BY <1>2, <1>4, <1>6, FoldRuns
<1>8. \A k \in 1..n : run[k] = next(run[k - 1], k)
  <2>1. \A k \in 1..n : k - 1 \in 0..n
    BY <1>2
  <2>. QED BY <1>4, <1>7, <2>1 DEF IsRun
<1>9. run[0] = base /\ run[n] = iter[1..n]
  BY <1>7 DEF IsRun, Ends
<1>10. run[n] \in Seq(Cands(D))
  BY <1>2, <1>7 DEF A
<1>11. n # 0 => Len(run[n]) # 0
  <2>. SUFFICES ASSUME n # 0 PROVE Len(run[n]) # 0
    OBVIOUS
  <2>1. n \in 1..n /\ n - 1 \in 0..n
    BY <1>2
  <2>2. run[n - 1] \in A
    BY <1>7, <2>1
  <2>. QED BY <1>8, <1>b, <2>1, <2>2
<1>. DEFINE r == run[n]
<1>12. Unique(seq) = ByScore(r)
  BY <1>1, <1>9
<1>. HIDE DEF r
<1>13. ByScore(r) \in Seq(Cands(D)) /\ Len(ByScore(r)) = Len(r)
  BY <1>10, ByScoreFacts DEF r
<1>14. seq # <<>> => n # 0
  BY <1>a, EmptySeq DEF n
<1>. QED BY <1>11, <1>12, <1>13, <1>14, EmptySeq DEF r

-----------------------------------------------------------------------------
(***************************************************************************)
(* Fusion.                                                                 *)
(***************************************************************************)

\* The first elements of a sequence, as sets of elements.
LEMMA Firsts ==
  ASSUME NEW S, NEW s \in Seq(S), NEW n \in Int
  PROVE  /\ First(n, s) \in Seq(S) /\ ToSet(First(n, s)) \subseteq ToSet(s)
         /\ (n > 0 /\ s # <<>> => Len(First(n, s)) > 0 /\ First(n, s)[1] = s[1])
         /\ Len(First(n, s)) <= Len(s) /\ (n >= 0 => Len(First(n, s)) <= n)
<1>. DEFINE t == First(n, s)
<1>1. DOMAIN s = 1..Len(s) /\ Len(s) \in Nat
  BY LenProperties
<1>2. CASE n \in Nat
  <2>1. /\ t \in Seq(S) /\ Len(t) = IF n <= Len(s) THEN n ELSE Len(s)
        /\ \A k \in 1..Len(t) : t[k] = s[k]
    BY <1>2, FirstFacts
  <2>. HIDE DEF t
  <2>2. DOMAIN t = 1..Len(t) /\ Len(t) \in Nat
    BY <2>1, LenProperties
  <2>3. Len(t) <= Len(s) /\ Len(t) <= n
    BY <1>1, <1>2, <2>1
  <2>4. ASSUME NEW x \in ToSet(t) PROVE x \in ToSet(s)
    <3>1. PICK k \in 1..Len(t) : x = t[k]
      BY <2>2, <2>4 DEF ToSet
    <3>2. k \in DOMAIN s /\ x = s[k]
      BY <1>1, <2>1, <2>2, <2>3, <3>1
    <3>. QED BY <3>2 DEF ToSet
  <2>5. n > 0 /\ s # <<>> => Len(t) > 0 /\ t[1] = s[1]
    <3>1. s # <<>> => Len(s) # 0
      BY EmptySeq
    <3>. QED BY <1>1, <1>2, <2>1, <3>1
  <2>. QED BY <2>1, <2>3, <2>4, <2>5 DEF t
<1>3. CASE n \notin Nat
  <2>. DEFINE m == Min({n, Len(s)})
  <2>1. n < 0
    BY <1>3
  <2>2. m \in Int /\ m < 1
    <3>1. n \in Int /\ Len(s) \in Int
      BY <1>1
    <3>2. m \in {n, Len(s)} /\ m <= n
      BY <3>1, OfTwo
    <3>. HIDE DEF m
    <3>3. m = n \/ m = Len(s)
      BY <3>2
    <3>4. m \in Int
      BY <3>1, <3>3
    <3>. QED BY <2>1, <3>1, <3>2, <3>4
  <2>3. t = SubSeq(s, 1, m)
    BY DEF First
  <2>. HIDE DEF m, t
  <2>4. t = <<>>
    <3>1. \A i \in 1..m : FALSE
      BY <2>2
    <3>2. t \in Seq(S) /\ Len(t) = 0
      BY <2>2, <2>3, <3>1, SubSeqProperties
    <3>. QED BY <3>2, EmptySeq
  <2>5. ToSet(t) = {} /\ Len(t) = 0
    <3>1. t \in Seq(S)
      BY <2>4
    <3>. QED BY <2>4, <3>1, ToSetFacts
  <2>. QED BY <1>1, <2>1, <2>4, <2>5 DEF t
<1>. QED BY <1>2, <1>3

\* A sequence that goes on from a start has its first element.
Begins(t, s) == Len(s) # 0 => Len(t) # 0 /\ t[1] = s[1]

\* What is appended to begins as it did.
LEMMA AppendBegins ==
  ASSUME NEW S, NEW s \in Seq(S), NEW x \in S
  PROVE  Begins(Append(s, x), s)
<1>1. Len(s) \in Nat
  BY LenProperties
<1>2. Len(Append(s, x)) = Len(s) + 1 /\ \A i \in 1..Len(s) : Append(s, x)[i] = s[i]
  BY AppendProperties
<1>. QED BY <1>1, <1>2 DEF Begins

\* The candidates of Quota, in the order it adds them.
QuotaOffers(structural, lexical, semanticFound, limit) ==
  Unique(First(limit, Unique(structural))) \o Unique(First(2, lexical)) \o Unique(First(2, semanticFound))

\* The quota of each strategy begins with the structural candidates.
LEMMA QuotaFacts ==
  ASSUME NEW D, NEW E \in SUBSET D, NEW structural \in Seq(Cands(E)),
         NEW lexical \in Seq(Cands(D)), NEW semanticFound \in Seq(Cands(D)),
         NEW topK \in Nat \ {0}, NEW limit \in Nat \ {0}
  PROVE  LET quota == Quota(structural, lexical, semanticFound, topK, limit) IN
         /\ quota \in Seq(Cands(D))
         /\ structural # <<>> => Len(quota) # 0 /\ quota[1].doc \in E
<1>. DEFINE quota == Quota(structural, lexical, semanticFound, topK, limit)
            offers == QuotaOffers(structural, lexical, semanticFound, limit)
            n == Len(offers)
            A == Seq(Cands(D))
            base == <<>>
            next(a, k) == IF Len(a) < topK /\ CanAdd(a, offers[k]) THEN Append(a, offers[k]) ELSE a
            iter == CHOOSE g : g = [T \in SUBSET (1..n) |->
                      IF T = {} THEN base ELSE next(g[T \ {Max(T)}], Max(T))]
            step == [p \in A \X (1..n) |-> next(p[1], p[2])]
<1>. DEFINE s1 == Unique(First(limit, Unique(structural)))
            s2 == Unique(First(2, lexical))
            s3 == Unique(First(2, semanticFound))
<1>a. Cands(E) \subseteq Cands(D)
  BY DEF Cands
<1>b. s1 \in Seq(Cands(E)) /\ (structural # <<>> => Len(s1) # 0)
  <2>. DEFINE u == Unique(structural)
  <2>1. u \in Seq(Cands(E)) /\ (structural # <<>> => u # <<>>)
    BY UniqueFacts
  <2>. HIDE DEF u
  <2>. DEFINE f == First(limit, u)
  <2>2. f \in Seq(Cands(E)) /\ (u # <<>> => Len(f) > 0)
    <3>1. limit \in Int /\ limit > 0
      OBVIOUS
    <3>. QED BY <2>1, <3>1, Firsts
  <2>. HIDE DEF f
  <2>3. Unique(f) \in Seq(Cands(E)) /\ (f # <<>> => Unique(f) # <<>>)
    BY <2>2, UniqueFacts
  <2>4. s1 = Unique(f)
    BY DEF f, u
  <2>5. u # <<>> => f # <<>>
    BY <2>2
  <2>. QED BY <2>1, <2>3, <2>4, <2>5, EmptySeq
<1>c. s2 \in Seq(Cands(D)) /\ s3 \in Seq(Cands(D))
  <2>1. First(2, lexical) \in Seq(Cands(D)) /\ First(2, semanticFound) \in Seq(Cands(D))
    BY Firsts
  <2>. QED BY <2>1, UniqueFacts
<1>d. offers = (s1 \o s2) \o s3
  BY DEF QuotaOffers
<1>. HIDE DEF s1, s2, s3
<1>e. s1 \in Seq(Cands(D))
  BY <1>a, <1>b, SeqMonotonic
<1>f. s1 \o s2 \in Seq(Cands(D)) /\ (s1 \o s2) \o s3 \in Seq(Cands(D))
  <2>1. s1 \o s2 \in Seq(Cands(D))
    BY <1>c, <1>e, JoinFacts
  <2>. QED BY <1>c, <2>1, JoinFacts
<1>g. structural # <<>> => n # 0 /\ offers[1] = s1[1] /\ s1[1].doc \in E
  <2>. SUFFICES ASSUME structural # <<>> PROVE n # 0 /\ offers[1] = s1[1] /\ s1[1].doc \in E
    OBVIOUS
  <2>1. Len(s1) \in Nat /\ Len(s2) \in Nat /\ Len(s3) \in Nat /\ Len(s1) # 0
    BY <1>b, <1>c, LenProperties
  <2>. DEFINE s12 == s1 \o s2
              s == s12 \o s3
  <2>2. Len(s12) = Len(s1) + Len(s2) /\ s12[1] = s1[1]
    <3>1. 1 \in 1..Len(s1) + Len(s2) /\ 1 <= Len(s1)
      BY <2>1
    <3>. QED BY <1>c, <1>e, <3>1, ConcatProperties
  <2>3. s12 \in Seq(Cands(D))
    BY <1>f
  <2>. HIDE DEF s12
  <2>4. Len(s) = Len(s12) + Len(s3) /\ s[1] = s12[1]
    <3>1. 1 \in 1..Len(s12) + Len(s3) /\ 1 <= Len(s12)
      BY <2>1, <2>2
    <3>. QED BY <1>c, <2>3, <3>1, ConcatProperties
  <2>5. offers = s
    BY <1>d DEF s12
  <2>6. s1[1].doc \in E
    <3>1. s1[1] \in Cands(E)
      BY <1>b, <2>1, LenProperties
    <3>. QED BY <3>1 DEF Cands
  <2>. HIDE DEF s
  <2>. QED BY <2>1, <2>2, <2>4, <2>5, <2>6
<1>1. quota = iter[1..n]
  <2>1. DOMAIN offers = 1..n
    <3>. HIDE DEF offers
    <3>. QED BY <1>d, <1>f, LenProperties
  <2>. QED BY <2>1 DEF Quota, QuotaOffers, FoldLeft, MapThenFoldSet
<1>. HIDE DEF offers
<1>2. n \in Nat /\ base \in A
  BY <1>d, <1>f, LenProperties
<1>h. \A k \in 1..n : offers[k] \in Cands(D)
  BY <1>d, <1>f, LenProperties
<1>3. ASSUME NEW a \in A, NEW k \in 1..n PROVE next(a, k) \in A
  BY <1>h, AppendFacts
<1>i. ASSUME NEW a \in A, NEW k \in 1..n PROVE Begins(next(a, k), a)
  <2>1. Begins(a, a) /\ Begins(Append(a, offers[k]), a)
    BY <1>h, AppendBegins DEF Begins
  <2>. QED BY <2>1
<1>j. n # 0 => Len(next(<<>>, 1)) # 0 /\ next(<<>>, 1)[1] = offers[1]
  <2>. SUFFICES ASSUME n # 0 PROVE Len(next(<<>>, 1)) # 0 /\ next(<<>>, 1)[1] = offers[1]
    OBVIOUS
  <2>1. 1 \in 1..n /\ offers[1] \in Cands(D)
    BY <1>2, <1>h
  <2>2. Len(<<>>) = 0 /\ Len(<<>>) < topK /\ DOMAIN <<>> = {} /\ <<>> \in Seq(Cands(D))
    OBVIOUS
  <2>3. CanAdd(<<>>, offers[1])
    BY <2>2 DEF CanAdd
  <2>4. next(<<>>, 1) = Append(<<>>, offers[1])
    BY <2>2, <2>3
  <2>5. Len(Append(<<>>, offers[1])) = 0 + 1 /\ Append(<<>>, offers[1])[0 + 1] = offers[1]
    BY <2>1, <2>2, AppendProperties
  <2>. QED BY <2>4, <2>5
<1>. HIDE DEF next, A, n, base
<1>4. /\ step \in [A \X (1..n) -> A]
      /\ \A a \in A, k \in 1..n : step[<<a, k>>] = next(a, k)
  BY <1>3
<1>. HIDE DEF step
<1>5. iter = [T \in SUBSET (1..n) |-> IF T = {} THEN base ELSE next(iter[T \ {Max(T)}], Max(T))]
  <2>1. PICK g \in [SUBSET (1..n) -> A] : IsFold(g, n, base, step)
    BY <1>2, <1>4, FoldExists
  <2>2. g = [T \in SUBSET (1..n) |-> IF T = {} THEN base ELSE next(g[T \ {Max(T)}], Max(T))]
    BY <1>4, <2>1 DEF IsFold
  <2>. QED BY <2>2
<1>. HIDE DEF iter
<1>6. Follows(iter, A, n, base, step)
  <2>1. {} \in SUBSET (1..n)
    OBVIOUS
  <2>2. iter[{}] = base
    BY <1>5, <2>1
  <2>3. ASSUME NEW k \in 1..n PROVE iter[1..k] = next(iter[1..(k - 1)], k)
    <3>1. 1..k \in SUBSET (1..n) /\ 1..k # {} /\ Max(1..k) = k /\ (1..k) \ {Max(1..k)} = 1..(k - 1)
      BY <1>2, Segments
    <3>2. iter[1..k] = next(iter[(1..k) \ {Max(1..k)}], Max(1..k))
      BY <1>5, <3>1
    <3>. QED BY <3>1, <3>2
  <2>. QED BY <1>4, <2>2, <2>3 DEF Follows
<1>7. PICK run \in [0..n -> A] : IsRun(run, n, base, step) /\ Ends(run, n, iter)
  BY <1>2, <1>4, <1>6, FoldRuns
<1>8. \A k \in 1..n : run[k] = next(run[k - 1], k)
  <2>1. \A k \in 1..n : k - 1 \in 0..n
    BY <1>2
  <2>. QED BY <1>4, <1>7, <2>1 DEF IsRun
<1>9. run[0] = base /\ run[n] = iter[1..n]
  BY <1>7 DEF IsRun, Ends
<1>10. n # 0 => Len(run[n]) # 0 /\ run[n][1] = offers[1]
  <2>. SUFFICES ASSUME n # 0 PROVE Len(run[n]) # 0 /\ run[n][1] = offers[1]
    OBVIOUS
  <2>. DEFINE ok(k) == k # 0 => Len(run[k]) # 0 /\ run[k][1] = offers[1]
              T == {k \in 0..n : ok(k)}
  <2>1. 0 \in T
    BY <1>2
  <2>2. ASSUME NEW k \in 1..n, k - 1 \in T PROVE k \in T
    <3>1. CASE k = 1
      <4>1. run[k] = next(<<>>, 1)
        BY <1>8, <1>9, <3>1 DEF base
      <4>. QED BY <1>j, <3>1, <4>1
    <3>2. CASE k # 1
      <4>1. k - 1 \in 0..n /\ k - 1 # 0 /\ run[k - 1] \in A
        BY <1>2, <1>7, <3>2
      <4>2. Begins(run[k], run[k - 1])
        BY <1>8, <1>i, <4>1
      <4>. QED BY <2>2, <4>1, <4>2 DEF Begins
    <3>. QED BY <3>1, <3>2
  <2>. HIDE DEF T
  <2>3. Inductive(T, n)
    BY <2>1, <2>2 DEF Inductive
  <2>4. n \in T
    BY <1>2, <2>3, Reached
  <2>. QED BY <2>4 DEF T
<1>11. run[n] \in Seq(Cands(D))
  BY <1>2, <1>7 DEF A
<1>12. structural # <<>> => Len(quota) # 0 /\ quota[1].doc \in E
  BY <1>1, <1>9, <1>10, <1>g
<1>. QED BY <1>1, <1>9, <1>11, <1>12

\* The two passes of Filled: by rank, then what was put off.
TakenFirst(reserved, ranked, topK) ==
  LET perFile == Max({1, topK \div 2})
      take(s, c) ==
        IF Len(s.selected) >= topK \/ ~CanAdd(s.selected, c) THEN s
        ELSE IF OfFile(c.doc.file, s.selected) >= perFile
          THEN [s EXCEPT !.deferred = Append(@, c)]
          ELSE [s EXCEPT !.selected = Append(@, c)]
  IN FoldLeft(take, [selected |-> reserved, deferred |-> <<>>], ranked)

TakenLate(first, deferred, topK) ==
  LET late(selected, c) ==
        IF Len(selected) >= topK \/ Key(c) \in Keys(selected) THEN selected
        ELSE Append(selected, c)
  IN FoldLeft(late, first, deferred)

\* Filling up to a limit begins with what the quota took.
LEMMA TakenFirstFacts ==
  ASSUME NEW D, NEW reserved \in Seq(Cands(D)), NEW ranked \in Seq(Cands(D)), NEW topK
  PROVE  TakenFirst(reserved, ranked, topK) \in
           [selected : {s \in Seq(Cands(D)) : Begins(s, reserved)}, deferred : Seq(Cands(D))]
<1>. DEFINE n == Len(ranked)
            C == Cands(D)
            A == [selected : {s \in Seq(C) : Begins(s, reserved)}, deferred : Seq(C)]
            base == [selected |-> reserved, deferred |-> <<>>]
            perFile == Max({1, topK \div 2})
            next(a, k) ==
              IF Len(a.selected) >= topK \/ ~CanAdd(a.selected, ranked[k]) THEN a
              ELSE IF OfFile(ranked[k].doc.file, a.selected) >= perFile
                THEN [a EXCEPT !.deferred = Append(@, ranked[k])]
                ELSE [a EXCEPT !.selected = Append(@, ranked[k])]
            iter == CHOOSE g : g = [T \in SUBSET (1..n) |->
                      IF T = {} THEN base ELSE next(g[T \ {Max(T)}], Max(T))]
            step == [p \in A \X (1..n) |-> next(p[1], p[2])]
<1>1. TakenFirst(reserved, ranked, topK) = iter[1..n]
  <2>1. DOMAIN ranked = 1..n
    BY LenProperties
  <2>. QED BY <2>1 DEF TakenFirst, FoldLeft, MapThenFoldSet
<1>2. n \in Nat /\ base \in A
  <2>1. Begins(reserved, reserved)
    BY DEF Begins
  <2>. QED BY <2>1, LenProperties
<1>. HIDE DEF C, perFile
<1>3. ASSUME NEW a \in A, NEW k \in 1..n PROVE next(a, k) \in A
  <2>. DEFINE c == ranked[k]
  <2>1. c \in C
    BY LenProperties DEF C
  <2>. HIDE DEF c
  <2>2. a.selected \in Seq(C) /\ a.deferred \in Seq(C) /\ Begins(a.selected, reserved)
    OBVIOUS
  <2>. DEFINE s == Append(a.selected, c)
              d == Append(a.deferred, c)
  <2>3. s \in Seq(C) /\ d \in Seq(C)
    BY <2>1, <2>2, AppendFacts
  <2>4. Begins(s, reserved)
    <3>1. Begins(s, a.selected)
      BY <2>1, <2>2, AppendBegins
    <3>. QED BY <2>2, <3>1 DEF Begins
  <2>5. next(a, k) \in {a, [a EXCEPT !.deferred = d], [a EXCEPT !.selected = s]}
    BY DEF c
  <2>. HIDE DEF s, d, next
  <2>6. [a EXCEPT !.deferred = d] \in A /\ [a EXCEPT !.selected = s] \in A
    BY <2>2, <2>3, <2>4
  <2>. QED BY <2>5, <2>6
<1>. HIDE DEF next, A, n, base
<1>4. /\ step \in [A \X (1..n) -> A]
      /\ \A a \in A, k \in 1..n : step[<<a, k>>] = next(a, k)
  BY <1>3
<1>. HIDE DEF step
<1>5. iter = [T \in SUBSET (1..n) |-> IF T = {} THEN base ELSE next(iter[T \ {Max(T)}], Max(T))]
  <2>1. PICK g \in [SUBSET (1..n) -> A] : IsFold(g, n, base, step)
    BY <1>2, <1>4, FoldExists
  <2>2. g = [T \in SUBSET (1..n) |-> IF T = {} THEN base ELSE next(g[T \ {Max(T)}], Max(T))]
    BY <1>4, <2>1 DEF IsFold
  <2>. QED BY <2>2
<1>. HIDE DEF iter
<1>6. Follows(iter, A, n, base, step)
  <2>1. {} \in SUBSET (1..n)
    OBVIOUS
  <2>2. iter[{}] = base
    BY <1>5, <2>1
  <2>3. ASSUME NEW k \in 1..n PROVE iter[1..k] = next(iter[1..(k - 1)], k)
    <3>1. 1..k \in SUBSET (1..n) /\ 1..k # {} /\ Max(1..k) = k /\ (1..k) \ {Max(1..k)} = 1..(k - 1)
      BY <1>2, Segments
    <3>2. iter[1..k] = next(iter[(1..k) \ {Max(1..k)}], Max(1..k))
      BY <1>5, <3>1
    <3>. QED BY <3>1, <3>2
  <2>. QED BY <1>4, <2>2, <2>3 DEF Follows
<1>7. PICK run \in [0..n -> A] : IsRun(run, n, base, step) /\ Ends(run, n, iter)
  BY <1>2, <1>4, <1>6, FoldRuns
<1>8. \A k \in 1..n : run[k] = next(run[k - 1], k)
  <2>1. \A k \in 1..n : k - 1 \in 0..n
    BY <1>2
  <2>. QED BY <1>4, <1>7, <2>1 DEF IsRun
<1>9. run[0] = base /\ run[n] = iter[1..n]
  BY <1>7 DEF IsRun, Ends
<1>10. run[n] \in A
  BY <1>2, <1>7
<1>. QED BY <1>1, <1>9, <1>10 DEF A, C

\* So does filling up without a limit on files.
LEMMA TakenLateFacts ==
  ASSUME NEW D, NEW first \in Seq(Cands(D)), NEW deferred \in Seq(Cands(D)), NEW topK
  PROVE  /\ TakenLate(first, deferred, topK) \in Seq(Cands(D))
         /\ Begins(TakenLate(first, deferred, topK), first)
<1>. DEFINE n == Len(deferred)
            C == Cands(D)
            A == {s \in Seq(C) : Begins(s, first)}
            base == first
            next(a, k) == IF Len(a) >= topK \/ Key(deferred[k]) \in Keys(a) THEN a
                          ELSE Append(a, deferred[k])
            iter == CHOOSE g : g = [T \in SUBSET (1..n) |->
                      IF T = {} THEN base ELSE next(g[T \ {Max(T)}], Max(T))]
            step == [p \in A \X (1..n) |-> next(p[1], p[2])]
<1>1. TakenLate(first, deferred, topK) = iter[1..n]
  <2>1. DOMAIN deferred = 1..n
    BY LenProperties
  <2>. QED BY <2>1 DEF TakenLate, FoldLeft, MapThenFoldSet
<1>2. n \in Nat /\ base \in A
  <2>1. Begins(first, first)
    BY DEF Begins
  <2>. QED BY <2>1, LenProperties
<1>. HIDE DEF C
<1>3. ASSUME NEW a \in A, NEW k \in 1..n PROVE next(a, k) \in A
  <2>. DEFINE s == Append(a, deferred[k])
  <2>1. deferred[k] \in C
    BY LenProperties DEF C
  <2>2. s \in Seq(C) /\ Begins(s, a)
    BY <2>1, AppendFacts, AppendBegins
  <2>3. Begins(s, first)
    BY <2>2 DEF Begins
  <2>4. next(a, k) \in {a, s}
    OBVIOUS
  <2>. HIDE DEF s, next
  <2>. QED BY <2>2, <2>3, <2>4
<1>. HIDE DEF next, A, n, base
<1>4. /\ step \in [A \X (1..n) -> A]
      /\ \A a \in A, k \in 1..n : step[<<a, k>>] = next(a, k)
  BY <1>3
<1>. HIDE DEF step
<1>5. iter = [T \in SUBSET (1..n) |-> IF T = {} THEN base ELSE next(iter[T \ {Max(T)}], Max(T))]
  <2>1. PICK g \in [SUBSET (1..n) -> A] : IsFold(g, n, base, step)
    BY <1>2, <1>4, FoldExists
  <2>2. g = [T \in SUBSET (1..n) |-> IF T = {} THEN base ELSE next(g[T \ {Max(T)}], Max(T))]
    BY <1>4, <2>1 DEF IsFold
  <2>. QED BY <2>2
<1>. HIDE DEF iter
<1>6. Follows(iter, A, n, base, step)
  <2>1. {} \in SUBSET (1..n)
    OBVIOUS
  <2>2. iter[{}] = base
    BY <1>5, <2>1
  <2>3. ASSUME NEW k \in 1..n PROVE iter[1..k] = next(iter[1..(k - 1)], k)
    <3>1. 1..k \in SUBSET (1..n) /\ 1..k # {} /\ Max(1..k) = k /\ (1..k) \ {Max(1..k)} = 1..(k - 1)
      BY <1>2, Segments
    <3>2. iter[1..k] = next(iter[(1..k) \ {Max(1..k)}], Max(1..k))
      BY <1>5, <3>1
    <3>. QED BY <3>1, <3>2
  <2>. QED BY <1>4, <2>2, <2>3 DEF Follows
<1>7. PICK run \in [0..n -> A] : IsRun(run, n, base, step) /\ Ends(run, n, iter)
  BY <1>2, <1>4, <1>6, FoldRuns
<1>8. \A k \in 1..n : run[k] = next(run[k - 1], k)
  <2>1. \A k \in 1..n : k - 1 \in 0..n
    BY <1>2
  <2>. QED BY <1>4, <1>7, <2>1 DEF IsRun
<1>9. run[0] = base /\ run[n] = iter[1..n]
  BY <1>7 DEF IsRun, Ends
<1>10. run[n] \in A
  BY <1>2, <1>7
<1>. QED BY <1>1, <1>9, <1>10 DEF A, C

\* Filled candidates begin as the quota does.
LEMMA FilledFacts ==
  ASSUME NEW D, NEW reserved \in Seq(Cands(D)), NEW ranked \in Seq(Cands(D)), NEW topK
  PROVE  /\ Filled(reserved, ranked, topK) \in Seq(Cands(D))
         /\ Begins(Filled(reserved, ranked, topK), reserved)
<1>. DEFINE taken == TakenFirst(reserved, ranked, topK)
            late == TakenLate(taken.selected, taken.deferred, topK)
<1>1. Filled(reserved, ranked, topK) = late
  BY DEF Filled, TakenFirst, TakenLate
<1>2. taken.selected \in Seq(Cands(D)) /\ taken.deferred \in Seq(Cands(D))
      /\ Begins(taken.selected, reserved)
  BY TakenFirstFacts
<1>. HIDE DEF taken
<1>3. late \in Seq(Cands(D)) /\ Begins(late, taken.selected)
  BY <1>2, TakenLateFacts
<1>. HIDE DEF late
<1>. QED BY <1>1, <1>2, <1>3 DEF Begins

Fusing(D) == [c : Cands(D), rrf : Int]

\* Adding the weight of one rank leaves candidates of D.
LEMMA FuseOneFacts ==
  ASSUME NEW D, NEW a \in Seq(Fusing(D)), NEW e \in Cands(D), NEW g \in Int
  PROVE  FuseOne(a, e, g) \in Seq(Fusing(D))
<1>. DEFINE F == Fusing(D)
            places == {i \in DOMAIN a : Key(a[i].c) = Key(e)}
            q == IF places = {} THEN 0 ELSE Min(places)
            s == [c |-> e, rrf |-> g]
            t == [c |-> Merged(a[q].c, e), rrf |-> a[q].rrf + g]
            r == FuseOne(a, e, g)
<1>1. r = IF q = 0 THEN Append(a, s) ELSE [a EXCEPT ![q] = t]
  BY DEF FuseOne, FirstWith
<1>2. DOMAIN a = 1..Len(a) /\ Len(a) \in Nat /\ \A i \in 1..Len(a) : a[i] \in F
  BY LenProperties
<1>3. q # 0 => q \in 1..Len(a)
  <2>1. places \subseteq DOMAIN a
    OBVIOUS
  <2>. HIDE DEF places
  <2>. QED BY <1>2, <2>1, FirstPlace
<1>. HIDE DEF places, q, r
<1>4. s \in F
  BY DEF Fusing
<1>5. q # 0 => t \in F
  <2>. SUFFICES ASSUME q # 0 PROVE t \in F
    OBVIOUS
  <2>1. a[q] \in F
    BY <1>2, <1>3
  <2>2. a[q].c \in Cands(D) /\ a[q].rrf \in Int
    BY <2>1 DEF Fusing
  <2>3. Merged(a[q].c, e) \in Cands(D)
    BY <2>2, MergedFacts
  <2>. QED BY <2>2, <2>3 DEF Fusing
<1>. HIDE DEF s, t, F
<1>6. CASE q = 0
  <2>1. Append(a, s) \in Seq(F)
    BY <1>4, AppendFacts DEF F
  <2>2. r = Append(a, s)
    BY <1>1, <1>6
  <2>. QED BY <2>1, <2>2 DEF r, F
<1>7. CASE q # 0
  <2>1. [a EXCEPT ![q] = t] \in Seq(F)
    BY <1>3, <1>5, <1>7, ExceptSeq DEF F
  <2>2. r = [a EXCEPT ![q] = t]
    BY <1>1, <1>7
  <2>. QED BY <2>1, <2>2 DEF r, F
<1>. QED BY <1>6, <1>7

\* So does adding those of one strategy.
LEMMA FuseInFacts ==
  ASSUME NEW D, NEW weight \in Nat,
         NEW merged \in Seq(Fusing(D)), NEW cs \in Seq(Cands(D))
  PROVE  FuseIn(merged, cs, weight) \in Seq(Fusing(D))
<1>. DEFINE ranks == [k \in DOMAIN cs |-> k]
            n == Len(cs)
            A == Seq(Fusing(D))
            base == merged
            gain(rank) == (weight * 10000) \div (RRFK + rank)
            next(a, k) == FuseOne(a, cs[ranks[k]], gain(ranks[k]))
            iter == CHOOSE g : g = [T \in SUBSET (1..n) |->
                      IF T = {} THEN base ELSE next(g[T \ {Max(T)}], Max(T))]
            step == [p \in A \X (1..n) |-> next(p[1], p[2])]
<1>a. DOMAIN cs = 1..n /\ n \in Nat /\ \A k \in 1..n : cs[k] \in Cands(D)
  BY LenProperties
<1>1. FuseIn(merged, cs, weight) = iter[1..n]
  <2>1. DOMAIN ranks = 1..n
    BY <1>a
  <2>. QED BY <2>1 DEF FuseIn, FoldLeftDomain, FoldLeft, MapThenFoldSet
<1>2. n \in Nat /\ base \in A
  BY <1>a
<1>c. \A k \in 1..n : ranks[k] = k /\ ranks[k] \in 1..n
  BY <1>a
<1>e. ASSUME NEW a \in A, NEW k \in 1..n
      PROVE  FuseOne(a, cs[k], gain(k)) \in A
  <2>1. cs[k] \in Cands(D) /\ gain(k) \in Int
    BY <1>a DEF RRFK
  <2>. HIDE DEF gain
  <2>. QED BY <2>1, FuseOneFacts
<1>. HIDE DEF ranks, gain
<1>3. ASSUME NEW a \in A, NEW k \in 1..n PROVE next(a, k) \in A
  <2>1. ranks[k] = k
    BY <1>c
  <2>2. next(a, k) = FuseOne(a, cs[k], gain(k))
    BY <2>1
  <2>3. FuseOne(a, cs[k], gain(k)) \in A
    BY <1>e
  <2>. QED BY <2>2, <2>3
<1>. HIDE DEF next, A, n, base
<1>4. /\ step \in [A \X (1..n) -> A]
      /\ \A a \in A, k \in 1..n : step[<<a, k>>] = next(a, k)
  BY <1>3
<1>. HIDE DEF step
<1>5. iter = [T \in SUBSET (1..n) |-> IF T = {} THEN base ELSE next(iter[T \ {Max(T)}], Max(T))]
  <2>1. PICK g \in [SUBSET (1..n) -> A] : IsFold(g, n, base, step)
    BY <1>2, <1>4, FoldExists
  <2>2. g = [T \in SUBSET (1..n) |-> IF T = {} THEN base ELSE next(g[T \ {Max(T)}], Max(T))]
    BY <1>4, <2>1 DEF IsFold
  <2>. QED BY <2>2
<1>. HIDE DEF iter
<1>6. Follows(iter, A, n, base, step)
  <2>1. {} \in SUBSET (1..n)
    OBVIOUS
  <2>2. iter[{}] = base
    BY <1>5, <2>1
  <2>3. ASSUME NEW k \in 1..n PROVE iter[1..k] = next(iter[1..(k - 1)], k)
    <3>1. 1..k \in SUBSET (1..n) /\ 1..k # {} /\ Max(1..k) = k /\ (1..k) \ {Max(1..k)} = 1..(k - 1)
      BY <1>2, Segments
    <3>2. iter[1..k] = next(iter[(1..k) \ {Max(1..k)}], Max(1..k))
      BY <1>5, <3>1
    <3>. QED BY <3>1, <3>2
  <2>. QED BY <1>4, <2>2, <2>3 DEF Follows
<1>7. PICK run \in [0..n -> A] : IsRun(run, n, base, step) /\ Ends(run, n, iter)
  BY <1>2, <1>4, <1>6, FoldRuns
<1>8. \A k \in 1..n : run[k] = next(run[k - 1], k)
  <2>1. \A k \in 1..n : k - 1 \in 0..n
    BY <1>2
  <2>. QED BY <1>4, <1>7, <2>1 DEF IsRun
<1>9. run[0] = base /\ run[n] = iter[1..n]
  BY <1>7 DEF IsRun, Ends
<1>10. run[n] \in A
  BY <1>2, <1>7
<1>. QED BY <1>1, <1>9, <1>10 DEF A

\* The candidates each strategy merged.
Groups(C) == [semantic : Seq(C), bm25 : Seq(C), exact : Seq(C), structural : Seq(C)]

\* The weights of the strategies are numbers.
LEMMA WeightsFacts ==
  ASSUME NEW probe
  PROVE  Weights(probe) \in [semantic : Nat, bm25 : Nat, exact : Nat, structural : Nat]
BY DEF Weights

\* The greater and the smaller of two numbers are numbers.
LEMMA TwoInt ==
  ASSUME NEW a \in Int, NEW b \in Int
  PROVE  Min({a, b}) \in Int /\ Max({a, b}) \in Int
<1>1. Min({a, b}) \in {a, b} /\ Max({a, b}) \in {a, b}
  BY OfTwo
<1>. QED BY <1>1

\* What its own scores add to the rank of a candidate is a number.
LEMMA PriorInt == ASSUME NEW D, NEW c \in Cands(D) PROVE Prior(c) \in Int
<1>. DEFINE s == Min({c.semantic, 100})
            l == Min({c.lexical, 100})
            x == c.path * 25 + 2 * s + 2 * l
            y == Min({1800, x})
            z == Max({-1200, y})
<1>1. c.semantic \in Int /\ c.lexical \in Int /\ c.path \in Int
  BY DEF Cands
<1>2. s \in Int /\ l \in Int
  BY <1>1, TwoInt
<1>. HIDE DEF s, l
<1>3. x \in Int
  BY <1>1, <1>2
<1>. HIDE DEF x
<1>4. y \in Int
  BY <1>3, TwoInt
<1>. HIDE DEF y
<1>5. z \in Int
  BY <1>4, TwoInt
<1>6. Prior(c) = 100 * z
  BY DEF Prior, z, y, x, s, l
<1>. HIDE DEF z
<1>. QED BY <1>5, <1>6

FusedFound(groups, probe) ==
  LET add(merged, strategy) ==
        FuseIn(merged, Unique(groups[strategy]), Weights(probe)[strategy])
  IN FoldLeft(add, <<>>, <<"semantic", "bm25", "exact", "structural">>)

\* What the fusion of all strategies finds is of D.
LEMMA FusedFoundFacts ==
  ASSUME NEW D, NEW groups \in Groups(Cands(D)), NEW probe
  PROVE  FusedFound(groups, probe) \in Seq(Fusing(D))
<1>. DEFINE order == <<"semantic", "bm25", "exact", "structural">>
            n == 4
            A == Seq(Fusing(D))
            base == <<>>
            next(a, k) == FuseIn(a, Unique(groups[order[k]]), Weights(probe)[order[k]])
            iter == CHOOSE g : g = [T \in SUBSET (1..n) |->
                      IF T = {} THEN base ELSE next(g[T \ {Max(T)}], Max(T))]
            step == [p \in A \X (1..n) |-> next(p[1], p[2])]
<1>1. FusedFound(groups, probe) = iter[1..n]
  <2>1. DOMAIN order = 1..n
    OBVIOUS
  <2>. QED BY <2>1 DEF FusedFound, FoldLeft, MapThenFoldSet
<1>2. n \in Nat /\ base \in A
  OBVIOUS
<1>3. ASSUME NEW a \in A, NEW k \in 1..n PROVE next(a, k) \in A
  <2>. DEFINE s == order[k]
              w == Weights(probe)[s]
              u == Unique(groups[s])
  <2>1. s \in {"semantic", "bm25", "exact", "structural"}
    OBVIOUS
  <2>. HIDE DEF s
  <2>2. w \in Nat /\ groups[s] \in Seq(Cands(D))
    BY <2>1, WeightsFacts DEF Groups
  <2>3. u \in Seq(Cands(D))
    BY <2>2, UniqueFacts
  <2>. HIDE DEF w, u
  <2>4. FuseIn(a, u, w) \in A
    BY <2>2, <2>3, FuseInFacts
  <2>. QED BY <2>4 DEF u, w, s
<1>. HIDE DEF order
<1>. HIDE DEF next, A, n, base
<1>4. /\ step \in [A \X (1..n) -> A]
      /\ \A a \in A, k \in 1..n : step[<<a, k>>] = next(a, k)
  BY <1>3
<1>. HIDE DEF step
<1>5. iter = [T \in SUBSET (1..n) |-> IF T = {} THEN base ELSE next(iter[T \ {Max(T)}], Max(T))]
  <2>1. PICK g \in [SUBSET (1..n) -> A] : IsFold(g, n, base, step)
    BY <1>2, <1>4, FoldExists
  <2>2. g = [T \in SUBSET (1..n) |-> IF T = {} THEN base ELSE next(g[T \ {Max(T)}], Max(T))]
    BY <1>4, <2>1 DEF IsFold
  <2>. QED BY <2>2
<1>. HIDE DEF iter
<1>6. Follows(iter, A, n, base, step)
  <2>1. {} \in SUBSET (1..n)
    OBVIOUS
  <2>2. iter[{}] = base
    BY <1>5, <2>1
  <2>3. ASSUME NEW k \in 1..n PROVE iter[1..k] = next(iter[1..(k - 1)], k)
    <3>1. 1..k \in SUBSET (1..n) /\ 1..k # {} /\ Max(1..k) = k /\ (1..k) \ {Max(1..k)} = 1..(k - 1)
      BY <1>2, Segments
    <3>2. iter[1..k] = next(iter[(1..k) \ {Max(1..k)}], Max(1..k))
      BY <1>5, <3>1
    <3>. QED BY <3>1, <3>2
  <2>. QED BY <1>4, <2>2, <2>3 DEF Follows
<1>7. PICK run \in [0..n -> A] : IsRun(run, n, base, step) /\ Ends(run, n, iter)
  BY <1>2, <1>4, <1>6, FoldRuns
<1>8. \A k \in 1..n : run[k] = next(run[k - 1], k)
  <2>1. \A k \in 1..n : k - 1 \in 0..n
    BY <1>2
  <2>. QED BY <1>4, <1>7, <2>1 DEF IsRun
<1>9. run[0] = base /\ run[n] = iter[1..n]
  BY <1>7 DEF IsRun, Ends
<1>10. run[n] \in A
  BY <1>2, <1>7
<1>. QED BY <1>1, <1>9, <1>10 DEF A

\* Fused candidates are of D, and begin with structural evidence if there is any.
LEMMA FusedFacts ==
  ASSUME NEW D, NEW E \in SUBSET D, NEW groups \in Groups(Cands(D)),
         groups.structural \in Seq(Cands(E)), NEW probe, NEW topK \in Nat \ {0}
  PROVE  /\ Fused(groups, probe, topK) \in Seq(Cands(D))
         /\ groups.structural # <<>> => /\ Len(Fused(groups, probe, topK)) # 0
                                       /\ Fused(groups, probe, topK)[1].doc \in E
<1>. DEFINE merged == FusedFound(groups, probe)
            score(k) == [merged[k].c EXCEPT !.score = merged[k].rrf + Prior(merged[k].c)]
            list == [k \in DOMAIN merged |-> score(k)]
            ranked == ByScore(list)
            limit == IF probe.id = Otp THEN topK ELSE 2
            lexical == groups.bm25 \o groups.exact
            quota == Quota(groups.structural, lexical, groups.semantic, topK, limit)
            fused == Filled(quota, ranked, topK)
<1>1. Fused(groups, probe, topK) = fused
  BY DEF Fused, FusedFound
<1>2. merged \in Seq(Fusing(D))
  BY FusedFoundFacts
<1>. HIDE DEF merged
<1>3. DOMAIN merged = 1..Len(merged) /\ Len(merged) \in Nat /\ \A k \in 1..Len(merged) : merged[k] \in Fusing(D)
  BY <1>2, LenProperties
<1>4. ASSUME NEW k \in 1..Len(merged) PROVE score(k) \in Cands(D)
  <2>1. merged[k].c \in Cands(D) /\ merged[k].rrf \in Int
    BY <1>3 DEF Fusing
  <2>2. Prior(merged[k].c) \in Int
    BY <2>1, PriorInt
  <2>3. merged[k].rrf + Prior(merged[k].c) \in Int
    BY <2>1, <2>2
  <2>. QED BY <2>1, <2>3 DEF Cands
<1>. HIDE DEF score
<1>5. list \in Seq(Cands(D))
  <2>1. list \in [1..Len(merged) -> Cands(D)]
    BY <1>3, <1>4
  <2>. HIDE DEF list
  <2>. QED BY <1>3, <2>1, Listed
<1>. HIDE DEF list
<1>6. ranked \in Seq(Cands(D))
  BY <1>5, ByScoreFacts
<1>7. lexical \in Seq(Cands(D)) /\ groups.semantic \in Seq(Cands(D))
  BY JoinFacts DEF Groups
<1>8. limit \in Nat \ {0}
  OBVIOUS
<1>. HIDE DEF lexical, limit, ranked
<1>9. quota \in Seq(Cands(D)) /\ (groups.structural # <<>> => Len(quota) # 0 /\ quota[1].doc \in E)
  BY <1>7, <1>8, QuotaFacts
<1>. HIDE DEF quota
<1>10. fused \in Seq(Cands(D)) /\ Begins(fused, quota)
  BY <1>6, <1>9, FilledFacts
<1>. HIDE DEF fused
<1>. QED BY <1>1, <1>9, <1>10 DEF Begins

-----------------------------------------------------------------------------
(***************************************************************************)
(* Related chunks.                                                         *)
(***************************************************************************)

\* The documents that are not to be kept away from.
Reach(docs, keysOut) == {d \in ToSet(docs) : <<d.file, d.index>> \notin keysOut}

\* The share of the first.
Most == Share(1)

\* The share of a rank is no more than that of the first.
LEMMA ShareFacts == Most \in Nat /\ \A k \in Nat \ {0} : Share(k) \in 0..Most
<1>1. Most \in Nat /\ Most = 2000000
  BY SMT DEF Share, Most
<1>2. Most \in Nat
  BY <1>1, SMT
<1>3. ASSUME NEW k \in Nat \ {0} PROVE Share(k) \in 0..Most
  <2>. DEFINE q == Share(k)
  <2>1. q \in Int /\ q >= 0 /\ q <= 2000000
    BY SMT DEF Share
  <2>. HIDE DEF q
  <2>2. q <= Most
    BY <1>1, <2>1, SMT
  <2>3. q \in Int /\ 0 <= q
    BY <2>1, SMT
  <2>. QED BY <1>2, <2>2, <2>3, SMT DEF q
<1>. QED BY <1>2, <1>3

\* The priority of a symbol is between 0 and the greatest share.
LEMMA PriorityFacts ==
  ASSUME NEW S, NEW anchors \in Seq(S), NEW name \in Symbols(anchors)
  PROVE  SymbolPriority(name, anchors) \in 0..Most
<1>. DEFINE at == {k \in DOMAIN anchors : name \in anchors[k].doc.mentions}
<1>1. at # {} /\ at \subseteq DOMAIN anchors
  BY DEF Symbols
<1>2. SymbolPriority(name, anchors) = Share(Min(at))
  BY <1>1 DEF SymbolPriority, FirstWith
<1>. HIDE DEF at
<1>3. Min(at) \in at
  BY <1>1, FirstPlace
<1>4. Min(at) \in Nat \ {0}
  BY <1>1, <1>3, LenProperties
<1>. QED BY <1>2, <1>4, ShareFacts

\* Related candidates are made of documents in reach.
LEMMA RelatedFacts ==
  ASSUME NEW S, NEW corpusOf \in Seq(S), NEW T, NEW anchors \in Seq(T),
         NEW selected, NEW probe, NEW keysOut
  PROVE  Related(selected, corpusOf, probe, anchors, keysOut) \in Seq(Cands(Reach(corpusOf, keysOut)))
<1>. DEFINE names == Symbols(anchors)
            related(d) ==
              /\ probe.scope \in {NoValue, d.file}
              /\ \/ d.function \in names \ Private
                 \/ d.class \in names \cap Private
                 \/ d.words \cap names # {}
              /\ <<d.file, d.index>> \notin Taken(selected, keysOut)
            at == {k \in DOMAIN corpusOf : related(corpusOf[k])}
            docs == ElementsAt(corpusOf, at)
            cand(d) == Candidate(d, probe, 0, 100, IF d.function = NoValue THEN 0 ELSE 100, "related")
            best(d) == Max({0} \cup {SymbolPriority(m, anchors) : m \in d.words \cap names})
            list == [k \in DOMAIN docs |-> Raised(cand(docs[k]), best(docs[k]))]
            R == Reach(corpusOf, keysOut)
<1>1. Related(selected, corpusOf, probe, anchors, keysOut) = list
  BY DEF Related, Chosen
<1>2. docs \in Seq(S) /\ ToSet(docs) = {corpusOf[p] : p \in at}
  <2>1. at \subseteq DOMAIN corpusOf
    OBVIOUS
  <2>. HIDE DEF at
  <2>. QED BY <2>1, ChosenFacts
<1>3. ToSet(docs) \subseteq R
  <2>1. \A p \in at : corpusOf[p] \in R
    BY DEF Reach, Taken, ToSet
  <2>. HIDE DEF at, docs, R
  <2>. QED BY <1>2, <2>1
<1>. HIDE DEF docs
<1>4. DOMAIN docs = 1..Len(docs) /\ Len(docs) \in Nat /\ \A k \in 1..Len(docs) : docs[k] \in R
  BY <1>2, <1>3, LenProperties DEF ToSet
<1>5. ASSUME NEW d \in R PROVE Raised(cand(d), best(d)) \in Cands(R)
  <2>1. cand(d) \in Cands(R)
    <3>. DEFINE e == IF d.function = NoValue THEN 0 ELSE 100
    <3>1. e \in Int /\ 0 \in Int /\ 100 \in Int /\ "related" \in Strategies
      BY DEF Strategies
    <3>. HIDE DEF e
    <3>. QED BY <3>1, CandidateFacts DEF e
  <2>2. best(d) \in Int
    <3>. DEFINE U == {0} \cup {SymbolPriority(m, anchors) : m \in d.words \cap names}
    <3>0. Most \in Nat
      BY ShareFacts
    <3>1. U \in SUBSET (0..Most) /\ U # {}
      <4>1. ASSUME NEW m \in names PROVE SymbolPriority(m, anchors) \in 0..Most
        BY PriorityFacts
      <4>. HIDE DEF names
      <4>. QED BY <3>0, <4>1
    <3>. HIDE DEF U
    <3>2. Max(U) \in U
      BY <3>0, <3>1, MaxFacts
    <3>3. Max(U) \in 0..Most
      BY <3>1, <3>2
    <3>4. best(d) = Max(U)
      BY DEF U
    <3>. QED BY <3>3, <3>4
  <2>. HIDE DEF cand, best, R
  <2>. QED BY <2>1, <2>2, RaisedFacts
<1>. HIDE DEF cand, best, R
<1>6. list \in [1..Len(docs) -> Cands(R)]
  BY <1>4, <1>5
<1>. HIDE DEF list
<1>7. list \in Seq(Cands(R))
  BY <1>4, <1>6, Listed
<1>. QED BY <1>1, <1>7 DEF R

\* So are those next to a route.
LEMMA AdjacentFacts ==
  ASSUME NEW S, NEW corpusOf \in Seq(S), NEW T, NEW near \in Seq(T),
         NEW probe, NEW exact \in [ToSet(corpusOf) -> Nat], NEW keysOut
  PROVE  Adjacent(near, corpusOf, probe, exact, keysOut) \in Seq(Cands(Reach(corpusOf, keysOut)))
<1>. DEFINE sides(d) == {k \in DOMAIN near : IsRoute(near[k]) /\ near[k].doc.file = d.file
                           /\ near[k].doc.index - d.index \in {1, -1}}
            adjacent(d) == sides(d) # {} /\ <<d.file, d.index>> \notin Taken(near, keysOut)
            at == {k \in DOMAIN corpusOf : adjacent(corpusOf[k])}
            docs == ElementsAt(corpusOf, at)
            cand(d) == Candidate(d, probe, 0, 100, exact[d], "adjacent")
            list == [k \in DOMAIN docs |-> Raised(cand(docs[k]), Share(Max(sides(docs[k]))))]
            R == Reach(corpusOf, keysOut)
<1>1. Adjacent(near, corpusOf, probe, exact, keysOut) = list
  BY DEF Adjacent, Chosen
<1>2. docs \in Seq(S) /\ ToSet(docs) = {corpusOf[p] : p \in at}
  <2>1. at \subseteq DOMAIN corpusOf
    OBVIOUS
  <2>. HIDE DEF at
  <2>. QED BY <2>1, ChosenFacts
<1>. DEFINE Q == {d \in R : sides(d) # {}}
<1>3. ToSet(docs) \subseteq Q
  <2>1. \A p \in at : corpusOf[p] \in R
    BY DEF Reach, Taken, ToSet
  <2>2. \A p \in at : sides(corpusOf[p]) # {}
    OBVIOUS
  <2>. HIDE DEF at, docs, R, sides
  <2>. QED BY <1>2, <2>1, <2>2
<1>. HIDE DEF docs, Q
<1>4. DOMAIN docs = 1..Len(docs) /\ Len(docs) \in Nat /\ \A k \in 1..Len(docs) : docs[k] \in Q
  BY <1>2, <1>3, LenProperties DEF ToSet
<1>5. ASSUME NEW d \in Q PROVE Raised(cand(d), Share(Max(sides(d)))) \in Cands(R)
  <2>1. cand(d) \in Cands(R)
    <3>1. exact[d] \in Int /\ 0 \in Int /\ 100 \in Int /\ "adjacent" \in Strategies
      BY DEF Strategies, Q, Reach
    <3>2. d \in R
      BY DEF Q
    <3>. HIDE DEF R
    <3>. QED BY <3>1, <3>2, CandidateFacts
  <2>2. Share(Max(sides(d))) \in Int
    <3>. DEFINE U == sides(d)
    <3>1. U \in SUBSET (1..Len(near)) /\ U # {} /\ Len(near) \in Nat
      BY LenProperties DEF Q
    <3>. HIDE DEF U
    <3>2. Max(U) \in U
      <4>1. U \in SUBSET (0..Len(near))
        BY <3>1
      <4>. QED BY <3>1, <4>1, MaxFacts
    <3>3. Max(U) \in Nat \ {0}
      <4>1. Max(U) \in 1..Len(near)
        BY <3>1, <3>2
      <4>. QED BY <3>1, <4>1
    <3>4. Share(Max(U)) \in 0..Most
      BY <3>3, ShareFacts
    <3>. QED BY <3>4 DEF U
  <2>. HIDE DEF cand, sides, R
  <2>. DEFINE by == Share(Max(sides(d)))
  <2>. HIDE DEF by
  <2>3. by \in Int
    BY <2>2 DEF by
  <2>4. Raised(cand(d), by) \in Cands(R)
    BY <2>1, <2>3, RaisedFacts
  <2>. QED BY <2>4 DEF by
<1>. HIDE DEF cand, sides, R
<1>6. list \in [1..Len(docs) -> Cands(R)]
  BY <1>4, <1>5
<1>. HIDE DEF list
<1>7. list \in Seq(Cands(R))
  BY <1>4, <1>6, Listed
<1>. QED BY <1>1, <1>7 DEF R

\* The two passes of RankedRelated: the best of each kind, then by rank.
BestOfKinds(ranked) ==
  LET best(selected, strategy) ==
        LET at == FirstWith(ranked, LAMBDA c :
                    strategy \in c.strategies /\ Key(c) \notin Keys(selected))
        IN IF at = 0 THEN selected ELSE Append(selected, ranked[at])
  IN FoldLeft(best, <<>>, <<"related", "adjacent">>)

AddRelated(bests, ranked) ==
  LET count(file, selected) ==
        OfFile(file, selected) - (IF OfFile(file, bests) = 2 THEN 1 ELSE 0)
      add(selected, c) ==
        IF /\ Len(selected) < MaxRelated
           /\ Key(c) \notin Keys(selected)
           /\ count(c.doc.file, selected) < MaxRelatedPerFile
        THEN Append(selected, c) ELSE selected
  IN FoldLeft(add, bests, ranked)

\* The best related candidates of each kind are some of them.
LEMMA BestFacts ==
  ASSUME NEW D, NEW ranked \in Seq(Cands(D))
  PROVE  BestOfKinds(ranked) \in Seq(Cands(D))
<1>. DEFINE kinds == <<"related", "adjacent">>
            n == 2
            A == Seq(Cands(D))
            base == <<>>
            at(a, k) == {i \in DOMAIN ranked :
                          kinds[k] \in ranked[i].strategies /\ Key(ranked[i]) \notin Keys(a)}
            spot(a, k) == IF at(a, k) = {} THEN 0 ELSE Min(at(a, k))
            next(a, k) == IF spot(a, k) = 0 THEN a ELSE Append(a, ranked[spot(a, k)])
            iter == CHOOSE g : g = [T \in SUBSET (1..n) |->
                      IF T = {} THEN base ELSE next(g[T \ {Max(T)}], Max(T))]
            step == [p \in A \X (1..n) |-> next(p[1], p[2])]
<1>1. BestOfKinds(ranked) = iter[1..n]
  <2>1. DOMAIN kinds = 1..n
    OBVIOUS
  <2>. QED BY <2>1 DEF BestOfKinds, FirstWith, FoldLeft, MapThenFoldSet
<1>2. n \in Nat /\ base \in A
  OBVIOUS
<1>. HIDE DEF kinds
<1>3. ASSUME NEW a \in A, NEW k \in 1..n PROVE next(a, k) \in A
  <2>. DEFINE places == at(a, k)
              q == IF places = {} THEN 0 ELSE Min(places)
  <2>1. next(a, k) = IF q = 0 THEN a ELSE Append(a, ranked[q])
    OBVIOUS
  <2>2. q # 0 => ranked[q] \in Cands(D)
    <3>1. places \subseteq DOMAIN ranked
      OBVIOUS
    <3>. HIDE DEF places
    <3>2. places # {} => Min(places) \in DOMAIN ranked
      BY <3>1, FirstPlace
    <3>3. \A i \in DOMAIN ranked : ranked[i] \in Cands(D)
      BY LenProperties
    <3>. QED BY <3>2, <3>3
  <2>. HIDE DEF next, q
  <2>3. q # 0 => Append(a, ranked[q]) \in A
    BY <2>2, AppendFacts
  <2>. QED BY <2>1, <2>3
<1>. HIDE DEF next, A, n, base
<1>4. /\ step \in [A \X (1..n) -> A]
      /\ \A a \in A, k \in 1..n : step[<<a, k>>] = next(a, k)
  BY <1>3
<1>. HIDE DEF step
<1>5. iter = [T \in SUBSET (1..n) |-> IF T = {} THEN base ELSE next(iter[T \ {Max(T)}], Max(T))]
  <2>1. PICK g \in [SUBSET (1..n) -> A] : IsFold(g, n, base, step)
    BY <1>2, <1>4, FoldExists
  <2>2. g = [T \in SUBSET (1..n) |-> IF T = {} THEN base ELSE next(g[T \ {Max(T)}], Max(T))]
    BY <1>4, <2>1 DEF IsFold
  <2>. QED BY <2>2
<1>. HIDE DEF iter
<1>6. Follows(iter, A, n, base, step)
  <2>1. {} \in SUBSET (1..n)
    OBVIOUS
  <2>2. iter[{}] = base
    BY <1>5, <2>1
  <2>3. ASSUME NEW k \in 1..n PROVE iter[1..k] = next(iter[1..(k - 1)], k)
    <3>1. 1..k \in SUBSET (1..n) /\ 1..k # {} /\ Max(1..k) = k /\ (1..k) \ {Max(1..k)} = 1..(k - 1)
      BY <1>2, Segments
    <3>2. iter[1..k] = next(iter[(1..k) \ {Max(1..k)}], Max(1..k))
      BY <1>5, <3>1
    <3>. QED BY <3>1, <3>2
  <2>. QED BY <1>4, <2>2, <2>3 DEF Follows
<1>7. PICK run \in [0..n -> A] : IsRun(run, n, base, step) /\ Ends(run, n, iter)
  BY <1>2, <1>4, <1>6, FoldRuns
<1>8. \A k \in 1..n : run[k] = next(run[k - 1], k)
  <2>1. \A k \in 1..n : k - 1 \in 0..n
    BY <1>2
  <2>. QED BY <1>4, <1>7, <2>1 DEF IsRun
<1>9. run[0] = base /\ run[n] = iter[1..n]
  BY <1>7 DEF IsRun, Ends
<1>10. run[n] \in A
  BY <1>2, <1>7
<1>. QED BY <1>1, <1>9, <1>10 DEF A

\* Adding a related candidate keeps to documents in reach.
LEMMA AddRelatedFacts ==
  ASSUME NEW D, NEW bests \in Seq(Cands(D)), NEW ranked \in Seq(Cands(D))
  PROVE  AddRelated(bests, ranked) \in Seq(Cands(D))
<1>. DEFINE n == Len(ranked)
            A == Seq(Cands(D))
            base == bests
            count(file, a) == OfFile(file, a) - (IF OfFile(file, bests) = 2 THEN 1 ELSE 0)
            may(a, c) == /\ Len(a) < MaxRelated
                         /\ Key(c) \notin Keys(a)
                         /\ count(c.doc.file, a) < MaxRelatedPerFile
            next(a, k) == IF may(a, ranked[k]) THEN Append(a, ranked[k]) ELSE a
            iter == CHOOSE g : g = [T \in SUBSET (1..n) |->
                      IF T = {} THEN base ELSE next(g[T \ {Max(T)}], Max(T))]
            step == [p \in A \X (1..n) |-> next(p[1], p[2])]
<1>1. AddRelated(bests, ranked) = iter[1..n]
  <2>1. DOMAIN ranked = 1..n
    BY LenProperties
  <2>. QED BY <2>1 DEF AddRelated, FoldLeft, MapThenFoldSet
<1>2. n \in Nat /\ base \in A
  BY LenProperties
<1>. HIDE DEF may
<1>3. ASSUME NEW a \in A, NEW k \in 1..n PROVE next(a, k) \in A
  <2>1. ranked[k] \in Cands(D)
    BY LenProperties
  <2>. QED BY <2>1, AppendFacts
<1>. HIDE DEF next, A, n, base
<1>4. /\ step \in [A \X (1..n) -> A]
      /\ \A a \in A, k \in 1..n : step[<<a, k>>] = next(a, k)
  BY <1>3
<1>. HIDE DEF step
<1>5. iter = [T \in SUBSET (1..n) |-> IF T = {} THEN base ELSE next(iter[T \ {Max(T)}], Max(T))]
  <2>1. PICK g \in [SUBSET (1..n) -> A] : IsFold(g, n, base, step)
    BY <1>2, <1>4, FoldExists
  <2>2. g = [T \in SUBSET (1..n) |-> IF T = {} THEN base ELSE next(g[T \ {Max(T)}], Max(T))]
    BY <1>4, <2>1 DEF IsFold
  <2>. QED BY <2>2
<1>. HIDE DEF iter
<1>6. Follows(iter, A, n, base, step)
  <2>1. {} \in SUBSET (1..n)
    OBVIOUS
  <2>2. iter[{}] = base
    BY <1>5, <2>1
  <2>3. ASSUME NEW k \in 1..n PROVE iter[1..k] = next(iter[1..(k - 1)], k)
    <3>1. 1..k \in SUBSET (1..n) /\ 1..k # {} /\ Max(1..k) = k /\ (1..k) \ {Max(1..k)} = 1..(k - 1)
      BY <1>2, Segments
    <3>2. iter[1..k] = next(iter[(1..k) \ {Max(1..k)}], Max(1..k))
      BY <1>5, <3>1
    <3>. QED BY <3>1, <3>2
  <2>. QED BY <1>4, <2>2, <2>3 DEF Follows
<1>7. PICK run \in [0..n -> A] : IsRun(run, n, base, step) /\ Ends(run, n, iter)
  BY <1>2, <1>4, <1>6, FoldRuns
<1>8. \A k \in 1..n : run[k] = next(run[k - 1], k)
  <2>1. \A k \in 1..n : k - 1 \in 0..n
    BY <1>2
  <2>. QED BY <1>4, <1>7, <2>1 DEF IsRun
<1>9. run[0] = base /\ run[n] = iter[1..n]
  BY <1>7 DEF IsRun, Ends
<1>10. run[n] \in A
  BY <1>2, <1>7
<1>. QED BY <1>1, <1>9, <1>10 DEF A

\* So do related candidates, ranked.
LEMMA RankedRelatedFacts ==
  ASSUME NEW D, NEW cs \in Seq(Cands(D))
  PROVE  RankedRelated(cs) \in Seq(Cands(D))
<1>. DEFINE ranked == Unique(cs)
            bests == BestOfKinds(ranked)
<1>1. RankedRelated(cs) = AddRelated(bests, ranked)
  BY DEF RankedRelated, BestOfKinds, AddRelated
<1>2. ranked \in Seq(Cands(D))
  BY UniqueFacts
<1>. HIDE DEF ranked
<1>3. bests \in Seq(Cands(D))
  BY <1>2, BestFacts
<1>. HIDE DEF bests
<1>. QED BY <1>1, <1>2, <1>3, AddRelatedFacts

\* Two sequences one after the other begin with the first.
LEMMA JoinBegins ==
  ASSUME NEW S, NEW s \in Seq(S), NEW t \in Seq(S)
  PROVE  Begins(s \o t, s)
<1>. SUFFICES ASSUME Len(s) # 0 PROVE Len(s \o t) # 0 /\ (s \o t)[1] = s[1]
  BY DEF Begins
<1>1. Len(s) \in Nat /\ Len(t) \in Nat
  BY LenProperties
<1>2. 1 \in 1..Len(s) + Len(t) /\ 1 <= Len(s) /\ Len(s) + Len(t) # 0
  BY <1>1
<1>3. /\ Len(s \o t) = Len(s) + Len(t)
      /\ \A i \in 1..Len(s) + Len(t) : (s \o t)[i] = IF i <= Len(s) THEN s[i] ELSE t[i - Len(s)]
  BY ConcatProperties
<1>. QED BY <1>2, <1>3

\* The first elements begin as the sequence does.
LEMMA FirstBegins ==
  ASSUME NEW S, NEW s \in Seq(S), NEW n \in Int, n > 0
  PROVE  Begins(First(n, s), s)
<1>1. Len(s) # 0 => s # <<>>
  BY EmptySeq
<1>2. s # <<>> => Len(First(n, s)) > 0 /\ First(n, s)[1] = s[1]
  BY Firsts
<1>3. First(n, s) \in Seq(S)
  BY Firsts
<1>4. Len(First(n, s)) \in Nat
  BY <1>3, LenProperties
<1>. QED BY <1>1, <1>2, <1>4 DEF Begins

\* A limit of at least one.
LEMMA AtLeastOne == ASSUME NEW n \in Int PROVE Max({1, n}) \in Nat \ {0}
<1>1. 1 \in Int
  OBVIOUS
<1>2. Max({1, n}) \in {1, n} /\ 1 <= Max({1, n})
  BY <1>1, OfTwo
<1>3. Max({1, n}) \in Int
  BY <1>2
<1>. QED BY <1>2, <1>3

\* Expanding leaves the candidates it starts with in front.
LEMMA ExpandedFacts ==
  ASSUME NEW S, NEW docs \in Seq(S), NEW keysOut,
         NEW selected \in Seq(Cands(Reach(docs, keysOut))), NEW probe, NEW topK \in Nat \ {0},
         NEW exact \in [ToSet(docs) -> Nat]
  PROVE  /\ Expanded(selected, docs, probe, topK, exact, keysOut) \in Seq(Cands(Reach(docs, keysOut)))
         /\ Begins(Expanded(selected, docs, probe, topK, exact, keysOut), selected)
<1>. DEFINE C == Cands(Reach(docs, keysOut))
            some == Max({1, topK - MaxRelated})
            anchors  == First(some, selected)
            related  == Related(selected, docs, probe, anchors, keysOut)
            near == anchors \o related
            adjacent == Adjacent(near, docs, probe, exact, keysOut)
            extra    == RankedRelated(adjacent \o related)
            slots    == Min({Len(extra), MaxRelated, topK - 1})
            one == First(topK, selected)
            two == selected \o First(topK - Len(selected), extra)
            three == First(topK - slots, selected) \o First(slots, extra)
<1>1. Expanded(selected, docs, probe, topK, exact, keysOut) \in {one, two, three}
  BY DEF Expanded
<1>2. selected \in Seq(C)
  OBVIOUS
<1>3. anchors \in Seq(C)
  <2>1. some \in Int
    <3>. DEFINE x == topK - MaxRelated
    <3>1. x \in Int
      BY DEF MaxRelated
    <3>. HIDE DEF x
    <3>2. Max({1, x}) \in Int
      BY <3>1, AtLeastOne
    <3>. QED BY <3>2 DEF x
  <2>. HIDE DEF some
  <2>. QED BY <2>1, Firsts
<1>. HIDE DEF anchors
<1>4. related \in Seq(C)
  BY <1>3, RelatedFacts
<1>. HIDE DEF related
<1>5. near \in Seq(C)
  BY <1>3, <1>4, JoinFacts
<1>. HIDE DEF near
<1>6. adjacent \in Seq(C)
  BY <1>5, AdjacentFacts
<1>. HIDE DEF adjacent
<1>7. extra \in Seq(C)
  <2>. DEFINE both == adjacent \o related
  <2>1. both \in Seq(C)
    BY <1>4, <1>6, JoinFacts
  <2>. HIDE DEF both
  <2>2. RankedRelated(both) \in Seq(C)
    BY <2>1, RankedRelatedFacts
  <2>. QED BY <2>2 DEF both
<1>. HIDE DEF extra
<1>8. slots \in Int /\ slots <= topK - 1
  <2>. DEFINE U == {Len(extra), MaxRelated, topK - 1}
  <2>1. U \in SUBSET Nat /\ U # {} /\ topK - 1 \in U /\ Len(extra) \in Nat
    BY <1>7, LenProperties DEF MaxRelated
  <2>2. \E b \in Nat : U \in SUBSET (0..b)
    <3>1. U \in SUBSET (0..(Len(extra) + topK + MaxRelated))
      BY <2>1 DEF MaxRelated
    <3>2. Len(extra) + topK + MaxRelated \in Nat
      BY <2>1 DEF MaxRelated
    <3>. QED BY <3>1, <3>2
  <2>. HIDE DEF U
  <2>3. Min(U) \in U /\ \A y \in U : Min(U) <= y
    BY <2>1, <2>2, MinFacts
  <2>4. slots = Min(U)
    BY DEF U
  <2>. HIDE DEF slots
  <2>5. Min(U) \in Nat /\ Min(U) <= topK - 1
    BY <2>1, <2>3
  <2>. QED BY <2>4, <2>5
<1>. HIDE DEF slots, C
<1>9. one \in Seq(C) /\ Begins(one, selected)
  <2>1. topK \in Int /\ topK > 0
    OBVIOUS
  <2>. QED BY <1>2, <2>1, Firsts, FirstBegins
<1>10. two \in Seq(C) /\ Begins(two, selected)
  <2>. DEFINE rest == First(topK - Len(selected), extra)
  <2>1. topK - Len(selected) \in Int
    BY <1>2, LenProperties
  <2>2. rest \in Seq(C)
    BY <1>7, <2>1, Firsts
  <2>. HIDE DEF rest
  <2>3. selected \o rest \in Seq(C) /\ Begins(selected \o rest, selected)
    BY <1>2, <2>2, JoinFacts, JoinBegins
  <2>. QED BY <2>3 DEF rest
<1>11. three \in Seq(C) /\ Begins(three, selected)
  <2>. DEFINE s == First(topK - slots, selected)
              t == First(slots, extra)
  <2>1. topK - slots \in Int /\ topK - slots > 0
    BY <1>8
  <2>2. s \in Seq(C) /\ Begins(s, selected)
    BY <1>2, <2>1, Firsts, FirstBegins
  <2>3. t \in Seq(C)
    BY <1>7, <1>8, Firsts
  <2>. HIDE DEF s, t
  <2>4. s \o t \in Seq(C) /\ Begins(s \o t, s)
    BY <2>2, <2>3, JoinFacts, JoinBegins
  <2>5. three = s \o t
    BY DEF s, t
  <2>6. Begins(three, selected)
    BY <2>2, <2>4, <2>5 DEF Begins
  <2>. QED BY <2>4, <2>5, <2>6
<1>. HIDE DEF one, two, three
<1>12. Expanded(selected, docs, probe, topK, exact, keysOut) \in Seq(C)
  BY <1>1, <1>9, <1>10, <1>11
<1>13. Begins(Expanded(selected, docs, probe, topK, exact, keysOut), selected)
  BY <1>1, <1>9, <1>10, <1>11
<1>. QED BY <1>12, <1>13 DEF C

-----------------------------------------------------------------------------
(***************************************************************************)
(* What is collected for a probe.                                          *)
(***************************************************************************)

Scores == [semantic : Nat, bm25 : Nat, exact : Nat]

MadeOf(list, docs, at, make) ==
  \E some : some = ElementsAt(docs, at) /\ list = [k \in DOMAIN some |-> make[some[k]]]

\* Something made of each of the documents at these positions.
LEMMA MadeFacts ==
  ASSUME NEW S, NEW docs \in Seq(S), NEW at, at \subseteq DOMAIN docs,
         NEW C, NEW make \in [{docs[p] : p \in at} -> C],
         NEW list, MadeOf(list, docs, at, make)
  PROVE  list \in Seq(C) /\ (at # {} => list # <<>>)
<1>. PICK some : some = ElementsAt(docs, at) /\ list = [k \in DOMAIN some |-> make[some[k]]]
  BY DEF MadeOf
<1>1. some \in Seq(S) /\ ToSet(some) = {docs[p] : p \in at}
  BY ChosenFacts
<1>2. DOMAIN some = 1..Len(some) /\ Len(some) \in Nat /\ (ToSet(some) = {} <=> Len(some) = 0)
  BY <1>1, ToSetFacts
<1>3. \A k \in 1..Len(some) : some[k] \in {docs[p] : p \in at}
  BY <1>1, <1>2 DEF ToSet
<1>4. list \in [1..Len(some) -> C]
  BY <1>2, <1>3
<1>5. list \in Seq(C) /\ Len(list) = Len(some)
  BY <1>2, <1>4, Listed
<1>6. at # {} => ToSet(some) # {}
  BY <1>1
<1>7. at # {} => Len(list) # 0
  BY <1>2, <1>5, <1>6
<1>8. Len(<<>>) = 0
  OBVIOUS
<1>. QED BY <1>5, <1>7, <1>8

\* The bonus of a shape is a number.
LEMMA BonusFacts ==
  ASSUME NEW probe, NEW t, NEW type, NEW path
  PROVE  ShapeBonus(probe, t, type, path) \in Int
<1>. DEFINE signals == Cardinality({k \in DOMAIN OtpSignals : Says(t, OtpSignals[k])})
            some == {k \in DOMAIN OtpSignals : Says(t, OtpSignals[k])}
<1>1. signals \in Nat
  <2>1. DOMAIN OtpSignals = 1..7
    BY DEF OtpSignals
  <2>2. some \in SUBSET (1..7) /\ 7 \in Nat
    BY <2>1
  <2>. HIDE DEF some
  <2>3. Cardinality(some) \in 0..7
    BY <2>2, NthFacts
  <2>. QED BY <2>3 DEF some
<1>. DEFINE a == IF SaysAll(t, {"@router.", "/otp"}) THEN 40 ELSE 0
            b == IF type = "function" /\ signals > 0 THEN 40 ELSE 0
            c == IF signals > 5 THEN 60 ELSE 12 * signals
<1>2. OtpBonus(t, type) = a + b + c
  BY DEF OtpBonus
<1>. HIDE DEF signals
<1>3. a \in Int /\ b \in Int /\ c \in Int
  BY <1>1
<1>. HIDE DEF a, b, c
<1>4. OtpBonus(t, type) \in Int
  BY <1>2, <1>3
<1>5. ShapeBonus(probe, t, type, path) \in {0, 40, 80, OtpBonus(t, type)}
  BY DEF ShapeBonus
<1>. QED BY <1>4, <1>5

\* The documents that match a probe's pattern, and those of its file.
Matching(probe) == {d \in ToSet(corpus) : IsStructural(d, probe)}
InFile(probe) == {d \in ToSet(corpus) : d.file = probe.scope}

\* Structural candidates are what matches, and there are some if anything does.
LEMMA StructuralFacts ==
  ASSUME NEW S, corpus \in Seq(S), NEW probe, NEW hit \in [ToSet(corpus) -> Scores]
  PROVE  /\ Structural(probe, hit) \in Seq(Cands(Matching(probe)))
         /\ Matching(probe) # {} => Structural(probe, hit) # <<>>
<1>. DEFINE at == {k \in DOMAIN corpus : IsStructural(corpus[k], probe)}
            docs == ElementsAt(corpus, at)
            M == Matching(probe)
            by(d) == 500000 + 10000 * ShapeBonus(probe.id, d.text, d.type, d.path)
            cand(d) == Raised(Candidate(d, probe, 0, 100, hit[d].exact, "structural"), by(d))
            make == [d \in {corpus[p] : p \in at} |-> cand(d)]
            list == [k \in DOMAIN docs |-> make[docs[k]]]
            raw == [k \in DOMAIN docs |-> cand(docs[k])]
<1>1. Collect(LAMBDA d : IsStructural(d, probe), cand) = raw
  BY SMT DEF Collect, Chosen
<1>2. Structural(probe, hit) = Sorted(raw, StructuralRank)
  BY SMT DEF Structural, Collect, Chosen
<1>. DEFINE order == {p \in ToSet(raw) \X ToSet(raw) : StructuralRank(p[1], p[2])}
<1>. HIDE DEF raw
<1>3. Sorted(raw, StructuralRank) = InOrder(raw, order)
  BY SMT DEF Sorted
<1>4. ASSUME NEW d \in M PROVE cand(d) \in Cands(M)
  <2>. DEFINE c == Candidate(d, probe, 0, 100, hit[d].exact, "structural")
              b == ShapeBonus(probe.id, d.text, d.type, d.path)
  <2>1. hit[d].exact \in Int /\ 0 \in Int /\ 100 \in Int /\ "structural" \in Strategies
    BY DEF Strategies, Scores, Matching
  <2>. HIDE DEF M
  <2>2. c \in Cands(M)
    BY <2>1, CandidateFacts
  <2>3. b \in Int
    BY BonusFacts
  <2>. HIDE DEF b, c
  <2>. DEFINE x == 500000 + 10000 * b
  <2>4. x \in Int
    BY <2>3, SMT
  <2>5. cand(d) = Raised(c, x)
    BY SMT DEF c, b, x
  <2>. HIDE DEF x
  <2>6. Raised(c, x) \in Cands(M)
    BY <2>2, <2>4, RaisedFacts
  <2>. HIDE DEF cand
  <2>. QED BY <2>5, <2>6
<1>. HIDE DEF cand, order
<1>5. at \subseteq DOMAIN corpus /\ \A p \in at : corpus[p] \in M
  BY DEF Matching, ToSet
<1>6. M # {} => at # {}
  BY DEF Matching, ToSet
<1>7. ToSet(docs) = {corpus[p] : p \in at} /\ docs \in Seq(S)
  <2>. HIDE DEF at
  <2>. QED BY <1>5, ChosenFacts
<1>. HIDE DEF M, at
<1>8. make \in [{corpus[p] : p \in at} -> Cands(M)]
  BY <1>4, <1>5
<1>9. list \in Seq(Cands(M)) /\ (at # {} => list # <<>>)
  <2>. HIDE DEF make
  <2>1. MadeOf(list, corpus, at, make)
    BY DEF MadeOf
  <2>. HIDE DEF list
  <2>. QED BY <1>5, <1>8, <2>1, MadeFacts
<1>10. raw = list
  <2>1. \A k \in DOMAIN docs : docs[k] \in {corpus[p] : p \in at}
    BY <1>7 DEF ToSet
  <2>. HIDE DEF docs
  <2>2. \A k \in DOMAIN docs : make[docs[k]] = cand(docs[k])
    BY <2>1
  <2>. HIDE DEF make
  <2>. QED BY <2>2 DEF raw
<1>. DEFINE sorted == InOrder(raw, order)
<1>11. /\ sorted \in Seq(Cands(M)) /\ Len(sorted) = Len(raw)
  <2>1. raw \in Seq(Cands(M))
    BY <1>9, <1>10
  <2>. QED BY <2>1, SortedFacts
<1>12. Len(raw) # 0 <=> raw # <<>>
  BY <1>9, <1>10, EmptySeq
<1>13. Len(sorted) # 0 => sorted # <<>>
  BY <1>11, EmptySeq
<1>. HIDE DEF sorted, list
<1>14. Structural(probe, hit) = sorted
  BY <1>2, <1>3 DEF sorted
<1>. QED BY <1>6, <1>9, <1>10, <1>11, <1>12, <1>13, <1>14 DEF M

MadeIn(list, docs, at, C) == \E some : 
  /\ some = ElementsAt(docs, at) /\ list = [k \in DOMAIN some |-> list[k]]
  /\ \A k \in DOMAIN some : some[k] \in {docs[p] : p \in at} => list[k] \in C

\* The same, whatever is made of them.
LEMMA MadeInFacts ==
  ASSUME NEW S, NEW docs \in Seq(S), NEW at, at \subseteq DOMAIN docs,
         NEW C, NEW list, MadeIn(list, docs, at, C)
  PROVE  list \in Seq(C)
<1>. PICK some : /\ some = ElementsAt(docs, at) /\ list = [k \in DOMAIN some |-> list[k]]
                 /\ \A k \in DOMAIN some : some[k] \in {docs[p] : p \in at} => list[k] \in C
  BY DEF MadeIn
<1>1. some \in Seq(S) /\ ToSet(some) = {docs[p] : p \in at}
  BY ChosenFacts
<1>2. DOMAIN some = 1..Len(some) /\ Len(some) \in Nat
  BY <1>1, ToSetFacts
<1>3. \A k \in 1..Len(some) : some[k] \in {docs[p] : p \in at}
  BY <1>1, <1>2 DEF ToSet
<1>4. list \in [1..Len(some) -> C]
  BY <1>2, <1>3
<1>. QED BY <1>2, <1>4, Listed

\* A score raised for being of the file of the probe.
LEMMA FileScopeFacts ==
  ASSUME NEW S, corpus \in Seq(S), NEW probe, NEW hit \in [ToSet(corpus) -> Scores]
  PROVE  FileScope(probe, hit) \in Seq(Cands(InFile(probe)))
<1>. DEFINE at == {k \in DOMAIN corpus : corpus[k].file = probe.scope}
            docs == ElementsAt(corpus, at)
            M == InFile(probe)
            cand(d) == Raised(Candidate(d, probe, 0, hit[d].exact, hit[d].exact, "file_scope"), 400000)
            raw == [k \in DOMAIN docs |-> cand(docs[k])]
            all == ByScore(raw)
            long == ElementsAt(all, {k \in DOMAIN all : Span(all[k]) > 0})
            short == ElementsAt(all, {k \in DOMAIN all : Span(all[k]) = 0})
<1>1. FileScope(probe, hit) = long \o short
  BY SMT DEF FileScope, Collect, Chosen
<1>2. ASSUME NEW d \in M PROVE cand(d) \in Cands(M)
  <2>. DEFINE c == Candidate(d, probe, 0, hit[d].exact, hit[d].exact, "file_scope")
  <2>1. hit[d].exact \in Int /\ 0 \in Int /\ "file_scope" \in Strategies
    BY DEF Strategies, Scores, InFile
  <2>. HIDE DEF M
  <2>2. c \in Cands(M)
    BY <2>1, CandidateFacts
  <2>. HIDE DEF c
  <2>. DEFINE x == 400000
  <2>3. x \in Int
    BY SMT
  <2>4. cand(d) = Raised(c, x)
    BY SMT DEF c, x
  <2>. HIDE DEF x
  <2>5. Raised(c, x) \in Cands(M)
    BY <2>2, <2>3, RaisedFacts
  <2>. HIDE DEF cand
  <2>. QED BY <2>4, <2>5
<1>. HIDE DEF cand
<1>3. at \subseteq DOMAIN corpus /\ \A p \in at : corpus[p] \in M
  BY DEF InFile, ToSet
<1>. HIDE DEF M, at
<1>4. raw \in Seq(Cands(M))
  <2>1. MadeIn(raw, corpus, at, Cands(M))
    BY <1>2, <1>3 DEF MadeIn
  <2>. HIDE DEF raw
  <2>. QED BY <1>3, <2>1, MadeInFacts
<1>. HIDE DEF raw
<1>5. all \in Seq(Cands(M))
  BY <1>4, ByScoreFacts
<1>. HIDE DEF all
<1>6. long \in Seq(Cands(M)) /\ short \in Seq(Cands(M))
  BY <1>5, ChosenFacts
<1>. HIDE DEF long, short
<1>. QED BY <1>1, <1>6, JoinFacts DEF M

\* What each of the searches finds is made of documents of the corpus.
LEMMA SearchFacts ==
  ASSUME NEW S, corpus \in Seq(S), NEW probe, NEW hit \in [ToSet(corpus) -> Scores]
  PROVE  /\ Collected(probe, hit).semantic \in Seq(Cands(ToSet(corpus)))
         /\ Collected(probe, hit).bm25 \in Seq(Cands(ToSet(corpus)))
         /\ Collected(probe, hit).exact \in Seq(Cands(ToSet(corpus)))
<1>. DEFINE D == ToSet(corpus)
<1>1. Collected(probe, hit).semantic \in Seq(Cands(D))
  <2>. DEFINE at == {k \in DOMAIN corpus : hit[corpus[k]].semantic > 0}
              docs == ElementsAt(corpus, at)
              cand(d) == Candidate(d, probe, hit[d].semantic, 0, hit[d].exact, "semantic")
              raw == [k \in DOMAIN docs |-> cand(docs[k])]
  <2>1. Collected(probe, hit).semantic = IF ~semantic THEN <<>> ELSE Descending(raw, LAMBDA c : c.semantic)
    BY DEF Collected, Collect, Chosen
  <2>2. ASSUME NEW d \in D PROVE cand(d) \in Cands(D)
    <3>1. hit[d].exact \in Int /\ hit[d].semantic \in Int /\ 0 \in Int /\ "semantic" \in Strategies
      BY DEF Strategies, Scores
    <3>. HIDE DEF D
    <3>. QED BY <3>1, CandidateFacts
  <2>. HIDE DEF cand
  <2>3. at \subseteq DOMAIN corpus /\ \A p \in at : corpus[p] \in D
    BY DEF ToSet
  <2>. HIDE DEF D, at
  <2>4. raw \in Seq(Cands(D))
    <3>1. MadeIn(raw, corpus, at, Cands(D))
      BY <2>2, <2>3 DEF MadeIn
    <3>. HIDE DEF raw
    <3>. QED BY <2>3, <3>1, MadeInFacts
  <2>. HIDE DEF raw
  <2>5. PICK order : Descending(raw, LAMBDA c : c.semantic) = InOrder(raw, order)
    BY DEF Descending, Sorted
  <2>6. InOrder(raw, order) \in Seq(Cands(D))
    BY <2>4, SortedFacts
  <2>. QED BY <2>1, <2>5, <2>6, EmptySeq
<1>2. Collected(probe, hit).bm25 \in Seq(Cands(D))
  <2>. DEFINE at == {k \in DOMAIN corpus : TRUE}
              docs == ElementsAt(corpus, at)
              cand(d) == Candidate(d, probe, 0, hit[d].bm25, hit[d].exact, "bm25")
              raw == [k \in DOMAIN docs |-> cand(docs[k])]
  <2>1. Collected(probe, hit).bm25 = Descending(raw, LAMBDA c : hit[c.doc].bm25)
    BY DEF Collected, Collect, Chosen
  <2>2. ASSUME NEW d \in D PROVE cand(d) \in Cands(D)
    <3>1. hit[d].exact \in Int /\ hit[d].bm25 \in Int /\ 0 \in Int /\ "bm25" \in Strategies
      BY DEF Strategies, Scores
    <3>. HIDE DEF D
    <3>. QED BY <3>1, CandidateFacts
  <2>. HIDE DEF cand
  <2>3. at \subseteq DOMAIN corpus /\ \A p \in at : corpus[p] \in D
    BY DEF ToSet
  <2>. HIDE DEF D, at
  <2>4. raw \in Seq(Cands(D))
    <3>1. MadeIn(raw, corpus, at, Cands(D))
      BY <2>2, <2>3 DEF MadeIn
    <3>. HIDE DEF raw
    <3>. QED BY <2>3, <3>1, MadeInFacts
  <2>. HIDE DEF raw
  <2>5. PICK order : Descending(raw, LAMBDA c : hit[c.doc].bm25) = InOrder(raw, order)
    BY DEF Descending, Sorted
  <2>6. InOrder(raw, order) \in Seq(Cands(D))
    BY <2>4, SortedFacts
  <2>. QED BY <2>1, <2>5, <2>6
<1>3. Collected(probe, hit).exact \in Seq(Cands(D))
  <2>. DEFINE at == {k \in DOMAIN corpus : hit[corpus[k]].exact > 0}
              docs == ElementsAt(corpus, at)
              cand(d) == Candidate(d, probe, 0, hit[d].exact, hit[d].exact, "exact")
              raw == [k \in DOMAIN docs |-> cand(docs[k])]
  <2>1. Collected(probe, hit).exact = ByScore(raw)
    BY DEF Collected, Collect, Chosen
  <2>2. ASSUME NEW d \in D PROVE cand(d) \in Cands(D)
    <3>1. hit[d].exact \in Int /\ 0 \in Int /\ "exact" \in Strategies
      BY DEF Strategies, Scores
    <3>. HIDE DEF D
    <3>. QED BY <3>1, CandidateFacts
  <2>. HIDE DEF cand
  <2>3. at \subseteq DOMAIN corpus /\ \A p \in at : corpus[p] \in D
    BY DEF ToSet
  <2>. HIDE DEF D, at
  <2>4. raw \in Seq(Cands(D))
    <3>1. MadeIn(raw, corpus, at, Cands(D))
      BY <2>2, <2>3 DEF MadeIn
    <3>. HIDE DEF raw
    <3>. QED BY <2>3, <3>1, MadeInFacts
  <2>. HIDE DEF raw
  <2>. QED BY <2>1, <2>4, ByScoreFacts
<1>. QED BY <1>1, <1>2, <1>3

\* Without a file of its own a probe has what matches its pattern first.
LEMMA CollectedFacts ==
  ASSUME NEW S, corpus \in Seq(S), NEW probe, NEW hit \in [ToSet(corpus) -> Scores]
  PROVE  /\ Collected(probe, hit) \in Groups(Cands(ToSet(corpus)))
         /\ InFile(probe) = {} => Collected(probe, hit).structural \in Seq(Cands(Matching(probe)))
         /\ Matching(probe) # {} => Collected(probe, hit).structural # <<>>
<1>. DEFINE D == ToSet(corpus)
            g == Collected(probe, hit)
            s == FileScope(probe, hit)
            t == Structural(probe, hit)
<1>1. g.structural = s \o t
  BY DEF Collected
<1>2. g = [semantic |-> g.semantic, bm25 |-> g.bm25, exact |-> g.exact, structural |-> g.structural]
  BY DEF Collected
<1>3. g.semantic \in Seq(Cands(D)) /\ g.bm25 \in Seq(Cands(D)) /\ g.exact \in Seq(Cands(D))
  BY SearchFacts
<1>4. s \in Seq(Cands(InFile(probe)))
  BY FileScopeFacts
<1>5. t \in Seq(Cands(Matching(probe))) /\ (Matching(probe) # {} => t # <<>>)
  BY StructuralFacts
<1>. HIDE DEF g, s, t
<1>6. Cands(InFile(probe)) \subseteq Cands(D) /\ Cands(Matching(probe)) \subseteq Cands(D)
  BY DEF Cands, InFile, Matching
<1>7. s \in Seq(Cands(D)) /\ t \in Seq(Cands(D))
  BY <1>4, <1>5, <1>6, SeqMonotonic
<1>8. s \o t \in Seq(Cands(D))
  BY <1>7, JoinFacts
<1>9. ASSUME InFile(probe) = {} PROVE s \o t \in Seq(Cands(Matching(probe)))
  <2>1. Cands(InFile(probe)) \subseteq Cands(Matching(probe))
    BY <1>9 DEF Cands
  <2>2. s \in Seq(Cands(Matching(probe)))
    BY <1>4, <2>1, SeqMonotonic
  <2>. QED BY <1>5, <2>2, JoinFacts
<1>10. t # <<>> => s \o t # <<>>
  <2>1. Len(s \o t) = Len(s) + Len(t) /\ Len(s) \in Nat /\ Len(t) \in Nat
    BY <1>7, ConcatProperties, LenProperties
  <2>2. t # <<>> => Len(t) # 0
    BY <1>7, EmptySeq
  <2>. QED BY <2>1, <2>2, EmptySeq
<1>11. g \in Groups(Cands(D))
  BY <1>1, <1>2, <1>3, <1>8 DEF Groups
<1>. QED BY <1>1, <1>5, <1>9, <1>10, <1>11 DEF g

\* What is left of one strategy.
LEMMA FilteredFacts ==
  ASSUME NEW D, NEW cs \in Seq(Cands(D)), NEW at, at \subseteq DOMAIN cs,
         NEW E, \A p \in at : cs[p].doc \in E
  PROVE  ElementsAt(cs, at) \in Seq(Cands(E))
<1>1. ElementsAt(cs, at) \in Seq(Cands(D)) /\ ToSet(ElementsAt(cs, at)) = {cs[p] : p \in at}
  BY ChosenFacts
<1>2. \A p \in at : cs[p] \in Cands(E)
  <2>1. \A p \in at : cs[p] \in Cands(D)
    BY LenProperties
  <2>2. ASSUME NEW c \in Cands(D), c.doc \in E PROVE c \in Cands(E)
    BY <2>2 DEF Cands
  <2>. QED BY <2>1, <2>2
<1>. QED BY <1>1, <1>2, InSeq

\* What a probe may look at, strategy by strategy.
LEMMA InScopeFacts ==
  ASSUME NEW S, corpus \in Seq(S), NEW groups \in Groups(Cands(ToSet(corpus))), NEW probe
  PROVE  /\ InScope(groups, probe) \in Groups(Cands(Reach(corpus, excluded)))
         /\ probe.scope = NoValue /\ excluded = {} =>
              /\ \A E : groups.structural \in Seq(Cands(E)) =>
                   InScope(groups, probe).structural \in Seq(Cands(E \cap Reach(corpus, excluded)))
              /\ groups.structural # <<>> => InScope(groups, probe).structural # <<>>
<1>. DEFINE D == ToSet(corpus)
            R == Reach(corpus, excluded)
            g == InScope(groups, probe)
            test(c) == probe.scope \in {NoValue, c.doc.file} /\ Key(c) \notin excluded
            at(s) == {k \in DOMAIN groups[s] : test(groups[s][k])}
<1>1. DOMAIN groups = {"semantic", "bm25", "exact", "structural"}
  BY DEF Groups
<1>2. g = [s \in DOMAIN groups |-> ElementsAt(groups[s], at(s))]
  BY DEF InScope, Chosen
<1>3. \A s \in DOMAIN groups : groups[s] \in Seq(Cands(D))
  BY <1>1 DEF Groups
<1>4. ASSUME NEW s \in DOMAIN groups
      PROVE  /\ at(s) \subseteq DOMAIN groups[s]
             /\ \A p \in at(s) : groups[s][p].doc \in R
  <2>1. \A p \in DOMAIN groups[s] : groups[s][p] \in Cands(D)
    BY <1>3, LenProperties
  <2>2. \A p \in DOMAIN groups[s] : groups[s][p].doc \in D
    BY <2>1 DEF Cands
  <2>. QED BY <2>2 DEF Reach, Key
<1>. HIDE DEF at, R, D
<1>5. \A s \in DOMAIN groups : ElementsAt(groups[s], at(s)) \in Seq(Cands(R))
  BY <1>3, <1>4, FilteredFacts
<1>6. g \in Groups(Cands(R))
  <2>1. g = [semantic |-> g.semantic, bm25 |-> g.bm25, exact |-> g.exact, structural |-> g.structural]
    BY <1>1, <1>2
  <2>2. /\ g.semantic \in Seq(Cands(R)) /\ g.bm25 \in Seq(Cands(R)) /\ g.exact \in Seq(Cands(R))
        /\ g.structural \in Seq(Cands(R))
    BY <1>1, <1>2, <1>5
  <2>. HIDE DEF g
  <2>. QED BY <2>1, <2>2 DEF Groups
<1>7. g.structural = ElementsAt(groups.structural, at("structural"))
  BY <1>1, <1>2
<1>8. ASSUME probe.scope = NoValue, excluded = {} PROVE at("structural") = DOMAIN groups.structural
  BY <1>1, <1>8 DEF at
<1>9. ASSUME probe.scope = NoValue, excluded = {}, NEW E, groups.structural \in Seq(Cands(E))
      PROVE  g.structural \in Seq(Cands(E \cap R))
  <2>1. \A p \in at("structural") : groups.structural[p].doc \in R
    BY <1>1, <1>4
  <2>2. \A p \in DOMAIN groups.structural : groups.structural[p] \in Cands(E)
    BY <1>9, LenProperties
  <2>3. \A p \in at("structural") : groups.structural[p].doc \in E \cap R
    BY <1>8, <1>9, <2>1, <2>2 DEF Cands
  <2>. QED BY <1>1, <1>4, <1>7, <1>9, <2>3, FilteredFacts
<1>10. ASSUME probe.scope = NoValue, excluded = {}, groups.structural # <<>>
       PROVE  g.structural # <<>>
  <2>. DEFINE s == groups.structural
              t == ElementsAt(s, DOMAIN s)
  <2>1. s \in Seq(Cands(D)) /\ g.structural = t
    BY <1>1, <1>3, <1>7, <1>8, <1>10
  <2>2. s # <<>>
    BY <1>10
  <2>. HIDE DEF s, g
  <2>3. t \in Seq(Cands(D)) /\ ToSet(t) = {s[p] : p \in DOMAIN s}
    BY <2>1, ChosenFacts
  <2>4. ToSet(t) = ToSet(s)
    BY <2>3 DEF ToSet
  <2>. HIDE DEF t
  <2>. QED BY <2>1, <2>2, <2>3, <2>4, ToSetFacts
<1>. QED BY <1>6, <1>9, <1>10 DEF R

Between(topK) == Min({Max({topK, 1}), 10})

\* The number of candidates of a probe is positive.
LEMMA BetweenFacts == ASSUME NEW topK \in Int PROVE Between(topK) \in Nat \ {0}
<1>. DEFINE m == Max({topK, 1})
<1>1. m \in Int /\ 1 <= m
  BY OfTwo
<1>. HIDE DEF m
<1>2. Min({m, 10}) \in {m, 10}
  BY <1>1, OfTwo
<1>. QED BY <1>1, <1>2 DEF Between, m

(***************************************************************************)
(* What is retrieved for a probe is of documents not kept away from, and   *)
(* first what matches its pattern, if it has no file of its own.           *)
(***************************************************************************)
LEMMA RetrievedFacts ==
  ASSUME NEW S, corpus \in Seq(S), NEW probe, probe.topK \in Int,
         NEW hit \in [ToSet(corpus) -> Scores]
  PROVE  \E chunks \in Seq(Cands(Reach(corpus, excluded))) :
           /\ Retrieved(probe, hit) = Bundle(probe, chunks)
           /\ /\ probe.scope = NoValue /\ InFile(probe) = {} /\ excluded = {}
              /\ Matching(probe) # {}
              => Len(chunks) # 0 /\ chunks[1].doc \in Matching(probe)
<1>. DEFINE R == Reach(corpus, excluded)
            topK == Between(probe.topK)
            g == Collected(probe, hit)
            h == InScope(g, probe)
            fused == Fused(h, probe, topK)
            exact == [d \in ToSet(corpus) |-> hit[d].exact]
            chunks == Expanded(fused, corpus, probe, topK, exact, excluded)
            easy == probe.scope = NoValue /\ InFile(probe) = {} /\ excluded = {}
            E == IF easy THEN Matching(probe) \cap R ELSE R
<1>1. Retrieved(probe, hit) = Bundle(probe, chunks)
  BY DEF Retrieved, Between
<1>2. topK \in Nat \ {0}
  BY BetweenFacts
<1>. HIDE DEF topK
<1>3. /\ g \in Groups(Cands(ToSet(corpus)))
      /\ InFile(probe) = {} => g.structural \in Seq(Cands(Matching(probe)))
      /\ Matching(probe) # {} => g.structural # <<>>
  BY CollectedFacts
<1>. HIDE DEF g
<1>4. /\ h \in Groups(Cands(R))
      /\ probe.scope = NoValue /\ excluded = {} =>
              /\ \A F : g.structural \in Seq(Cands(F)) => h.structural \in Seq(Cands(F \cap R))
              /\ g.structural # <<>> => h.structural # <<>>
  BY <1>3, InScopeFacts
<1>. HIDE DEF h
<1>5. h.structural \in Seq(Cands(E))
  <2>1. CASE easy
    <3>1. h.structural \in Seq(Cands(Matching(probe) \cap R))
      BY <1>3, <1>4, <2>1
    <3>. QED BY <2>1, <3>1
  <2>2. CASE ~easy
    <3>1. h.structural \in Seq(Cands(R))
      BY <1>4 DEF Groups
    <3>. QED BY <2>2, <3>1
  <2>. QED BY <2>1, <2>2
<1>6. E \in SUBSET R /\ (easy => E \subseteq Matching(probe))
  OBVIOUS
<1>7. easy /\ Matching(probe) # {} => h.structural # <<>>
  BY <1>3, <1>4
<1>. HIDE DEF E, R, easy
<1>8. /\ fused \in Seq(Cands(R))
      /\ h.structural # <<>> => Len(fused) # 0 /\ fused[1].doc \in E
  BY <1>2, <1>4, <1>5, <1>6, FusedFacts
<1>. HIDE DEF fused
<1>9. exact \in [ToSet(corpus) -> Nat]
  BY DEF Scores
<1>. HIDE DEF exact
<1>10. chunks \in Seq(Cands(R)) /\ Begins(chunks, fused)
  BY <1>2, <1>8, <1>9, ExpandedFacts DEF R
<1>. HIDE DEF chunks
<1>11. ASSUME easy, Matching(probe) # {} PROVE Len(chunks) # 0 /\ chunks[1].doc \in Matching(probe)
  BY <1>6, <1>7, <1>8, <1>10, <1>11 DEF Begins
<1>. QED BY <1>1, <1>10, <1>11 DEF easy, R

-----------------------------------------------------------------------------
(***************************************************************************)
(* Trimming.                                                               *)
(***************************************************************************)

Statuses == {"ok", "no_candidate_evidence", "trimmed_by_global_cap"}

\* Bundles of these probes, of chunks of these documents.
BundleSet(P, D) ==
  [probe : P, chunks : Seq(Cands(D)), selected : Nat, trimmed : Nat, status : Statuses]

DocKeys(D) == {<<d.file, d.index>> : d \in D}

Ids(bs) == {bs[k].probe.id : k \in DOMAIN bs}

\* Which key is kept for which id.
Held(keys) == UNION {{<<id, key>> : key \in keys[id]} : id \in DOMAIN keys}

\* What may be kept when no more than max was, and nothing of start given up.
KeptAfter(start, ids, U, max) ==
  {k \in [keys : [ids -> SUBSET U], slots : Nat] :
     /\ IsFiniteSet(Held(k.keys)) /\ Cardinality(Held(k.keys)) + k.slots <= max
     /\ \A id \in ids : start.keys[id] \subseteq k.keys[id]}

\* Keeping one more uses at most a slot, and keeps it if there is one.
LEMMA KeepOneFacts ==
  ASSUME NEW ids, NEW U, NEW max \in Nat, NEW start, NEW k \in KeptAfter(start, ids, U, max),
         NEW id \in ids, NEW key \in U
  PROVE  /\ KeepOne(k, id, key) \in KeptAfter(start, ids, U, max)
         /\ KeepOne(k, id, key) \in KeptAfter(k, ids, U, max)
         /\ KeepOne(k, id, key).slots >= k.slots - 1
         /\ k.slots # 0 => key \in KeepOne(k, id, key).keys[id]
<1>1. /\ k \in [keys : [ids -> SUBSET U], slots : Nat]
      /\ IsFiniteSet(Held(k.keys)) /\ Cardinality(Held(k.keys)) + k.slots <= max
      /\ \A i \in ids : start.keys[i] \subseteq k.keys[i]
  BY DEF KeptAfter
<1>2. CASE k.slots = 0
  <2>1. KeepOne(k, id, key) = k
    BY <1>2 DEF KeepOne
  <2>2. k.slots >= k.slots - 1
    BY <1>1
  <2>3. k \in KeptAfter(k, ids, U, max)
    BY <1>1 DEF KeptAfter
  <2>. QED BY <1>2, <2>1, <2>2, <2>3
<1>3. CASE k.slots # 0
  <2>. DEFINE e == [keys |-> [k.keys EXCEPT ![id] = @ \cup {key}], slots |-> k.slots - 1]
  <2>1. KeepOne(k, id, key) = e
    <3>. DEFINE m == [k.keys EXCEPT ![id] = k.keys[id] \cup {key}]
                s == k.slots - 1
    <3>1. KeepOne(k, id, key) = [k EXCEPT !.keys = m, !.slots = s]
      BY <1>3 DEF KeepOne
    <3>2. e = [keys |-> m, slots |-> s]
      OBVIOUS
    <3>. HIDE DEF m, s, e
    <3>. QED BY <1>1, <3>1, <3>2
  <2>2. e.keys \in [ids -> SUBSET U] /\ e.slots = k.slots - 1 /\ e.slots \in Nat
    BY <1>1, <1>3
  <2>3. e \in [keys : [ids -> SUBSET U], slots : Nat]
    BY <2>2
  <2>4. \A i \in ids : e.keys[i] = IF i = id THEN k.keys[id] \cup {key} ELSE k.keys[i]
    BY <1>1
  <2>. HIDE DEF e
  <2>5. DOMAIN e.keys = ids /\ DOMAIN k.keys = ids
    BY <1>1, <2>2
  <2>6. Held(e.keys) = Held(k.keys) \cup {<<id, key>>}
    BY <2>4, <2>5 DEF Held
  <2>7. /\ IsFiniteSet(Held(e.keys))
        /\ Cardinality(Held(e.keys)) <= Cardinality(Held(k.keys)) + 1
        /\ Cardinality(Held(e.keys)) \in Nat /\ Cardinality(Held(k.keys)) \in Nat
    <3>. DEFINE H == Held(k.keys)
                x == <<id, key>>
    <3>1. IsFiniteSet(H)
      BY <1>1
    <3>. HIDE DEF H, x
    <3>2. /\ IsFiniteSet(H \cup {x})
          /\ Cardinality(H \cup {x}) = IF x \in H THEN Cardinality(H) ELSE Cardinality(H) + 1
      BY <3>1, FS_AddElement
    <3>3. Cardinality(H) \in Nat /\ Cardinality(H \cup {x}) \in Nat
      BY <3>1, <3>2, FS_CardinalityType
    <3>4. Cardinality(H \cup {x}) <= Cardinality(H) + 1
      BY <3>2, <3>3
    <3>. QED BY <2>6, <3>2, <3>3, <3>4 DEF H, x
  <2>8. Cardinality(Held(e.keys)) + e.slots <= max
    BY <1>1, <2>2, <2>7
  <2>9. \A i \in ids : k.keys[i] \subseteq e.keys[i]
    BY <2>4
  <2>10. \A i \in ids : start.keys[i] \subseteq e.keys[i]
    BY <1>1, <2>9
  <2>11. e \in KeptAfter(start, ids, U, max) /\ e \in KeptAfter(k, ids, U, max)
    BY <2>3, <2>7, <2>8, <2>9, <2>10 DEF KeptAfter
  <2>12. key \in e.keys[id]
    BY <2>4
  <2>13. e.slots >= k.slots - 1
    BY <1>1, <2>2
  <2>. QED BY <2>1, <2>11, <2>12, <2>13
<1>. QED BY <1>2, <1>3

\* What is kept, and the slots left, have their types.
LEMMA KeptType ==
  ASSUME NEW ids, NEW U, NEW max, NEW start, NEW k \in KeptAfter(start, ids, U, max)
  PROVE  k.slots \in Nat /\ k.keys \in [ids -> SUBSET U]
<1>1. k \in [keys : [ids -> SUBSET U], slots : Nat]
  BY DEF KeptAfter
<1>. QED BY <1>1

\* Nothing is given up in two steps, if not in one.
LEMMA KeptTransitive ==
  ASSUME NEW ids, NEW U, NEW max, NEW start, NEW k \in KeptAfter(start, ids, U, max),
         NEW e \in KeptAfter(k, ids, U, max)
  PROVE  e \in KeptAfter(start, ids, U, max)
BY DEF KeptAfter

\* Nothing is given up by doing nothing.
LEMMA KeptSelf ==
  ASSUME NEW ids, NEW U, NEW max, NEW start, NEW k \in KeptAfter(start, ids, U, max)
  PROVE  k \in KeptAfter(k, ids, U, max)
BY DEF KeptAfter

\* The key of a candidate is that of its document.
LEMMA KeyFacts ==
  ASSUME NEW D, NEW c \in Cands(D)
  PROVE  Key(c) \in DocKeys(D)
BY DEF Key, DocKeys, Cands

\* Keeping several uses no more than the slots.
LEMMA KeepAllFacts ==
  ASSUME NEW ids, NEW D, NEW max \in Nat, NEW start, NEW k0 \in KeptAfter(start, ids, DocKeys(D), max),
         NEW id \in ids, NEW cs \in Seq(Cands(D))
  PROVE  KeepAll(k0, id, cs) \in KeptAfter(start, ids, DocKeys(D), max)
<1>. DEFINE n == Len(cs)
            U == DocKeys(D)
            A == KeptAfter(start, ids, U, max)
            base == k0
            next(a, k) == KeepOne(a, id, Key(cs[k]))
            iter == CHOOSE g : g = [T \in SUBSET (1..n) |->
                      IF T = {} THEN base ELSE next(g[T \ {Max(T)}], Max(T))]
            step == [p \in A \X (1..n) |-> next(p[1], p[2])]
<1>1. KeepAll(k0, id, cs) = iter[1..n]
  <2>1. DOMAIN cs = 1..n
    BY LenProperties
  <2>. QED BY <2>1 DEF KeepAll, FoldLeft, MapThenFoldSet
<1>2. n \in Nat /\ base \in A
  BY LenProperties
<1>3. ASSUME NEW a \in A, NEW k \in 1..n PROVE next(a, k) \in A
  <2>1. cs[k] \in Cands(D)
    BY LenProperties
  <2>2. Key(cs[k]) \in U
    BY <2>1, KeyFacts
  <2>. HIDE DEF U
  <2>. QED BY <2>2, KeepOneFacts
<1>. HIDE DEF next, A, n, base
<1>4. /\ step \in [A \X (1..n) -> A]
      /\ \A a \in A, k \in 1..n : step[<<a, k>>] = next(a, k)
  BY <1>3
<1>. HIDE DEF step
<1>5. iter = [T \in SUBSET (1..n) |-> IF T = {} THEN base ELSE next(iter[T \ {Max(T)}], Max(T))]
  <2>1. PICK g \in [SUBSET (1..n) -> A] : IsFold(g, n, base, step)
    BY <1>2, <1>4, FoldExists
  <2>2. g = [T \in SUBSET (1..n) |-> IF T = {} THEN base ELSE next(g[T \ {Max(T)}], Max(T))]
    BY <1>4, <2>1 DEF IsFold
  <2>. QED BY <2>2
<1>. HIDE DEF iter
<1>6. Follows(iter, A, n, base, step)
  <2>1. {} \in SUBSET (1..n)
    OBVIOUS
  <2>2. iter[{}] = base
    BY <1>5, <2>1
  <2>3. ASSUME NEW k \in 1..n PROVE iter[1..k] = next(iter[1..(k - 1)], k)
    <3>1. 1..k \in SUBSET (1..n) /\ 1..k # {} /\ Max(1..k) = k /\ (1..k) \ {Max(1..k)} = 1..(k - 1)
      BY <1>2, Segments
    <3>2. iter[1..k] = next(iter[(1..k) \ {Max(1..k)}], Max(1..k))
      BY <1>5, <3>1
    <3>. QED BY <3>1, <3>2
  <2>. QED BY <1>4, <2>2, <2>3 DEF Follows
<1>7. PICK run \in [0..n -> A] : IsRun(run, n, base, step) /\ Ends(run, n, iter)
  BY <1>2, <1>4, <1>6, FoldRuns
<1>8. \A k \in 1..n : run[k] = next(run[k - 1], k)
  <2>1. \A k \in 1..n : k - 1 \in 0..n
    BY <1>2
  <2>. QED BY <1>4, <1>7, <2>1 DEF IsRun
<1>9. run[0] = base /\ run[n] = iter[1..n]
  BY <1>7 DEF IsRun, Ends
<1>10. run[n] \in A
  BY <1>2, <1>7
<1>. QED BY <1>1, <1>9, <1>10 DEF A, U

UpTo(bs) == IF NonEmpty(bs) = Len(bs) THEN Len(bs)
            ELSE FirstWith(bs, LAMBDA b : b.chunks = <<>>) - 1

\* The bundles up to the first empty one; they are not more than those with chunks.
LEMMA UpToFacts ==
  ASSUME NEW P, NEW D, NEW bs \in Seq(BundleSet(P, D))
  PROVE  /\ UpTo(bs) \in 0..Len(bs) /\ NonEmpty(bs) \in Nat /\ UpTo(bs) <= NonEmpty(bs)
         /\ \A j \in 1..UpTo(bs) : bs[j].chunks # <<>>
         /\ \A k \in DOMAIN bs : (\A j \in 1..k : bs[j].chunks # <<>>) => k <= UpTo(bs)
<1>. DEFINE n == Len(bs)
            full == {k \in DOMAIN bs : bs[k].chunks # <<>>}
            empty == {k \in DOMAIN bs : bs[k].chunks = <<>>}
            u == UpTo(bs)
<1>1. n \in Nat /\ DOMAIN bs = 1..n
  BY LenProperties
<1>2. NonEmpty(bs) = Cardinality(full)
  BY DEF NonEmpty
<1>3. IsFiniteSet(1..n) /\ Cardinality(1..n) = n
  <2>. HIDE DEF n, full, empty, u
  <2>1. n \in Nat
    BY <1>1
  <2>2. 1 \in Int /\ n \in Int
    BY <2>1
  <2>3. IsFiniteSet(1..n) /\ Cardinality(1..n) = IF 1 > n THEN 0 ELSE n - 1 + 1
    BY <2>2, FS_Interval
  <2>. QED BY <2>1, <2>3
<1>4. /\ full \in SUBSET (1..n) /\ IsFiniteSet(full) /\ Cardinality(full) \in Nat
      /\ Cardinality(full) <= n /\ (Cardinality(full) = n => full = 1..n)
  <2>1. full \in SUBSET (1..n)
    BY <1>1
  <2>. HIDE DEF full
  <2>. QED BY <1>3, <2>1, FS_Subset, FS_CardinalityType
<1>5. CASE NonEmpty(bs) = n
  <2>1. u = n
    BY <1>5 DEF UpTo
  <2>2. full = 1..n
    BY <1>2, <1>4, <1>5
  <2>3. \A j \in 1..n : bs[j].chunks # <<>>
    BY <2>2
  <2>. HIDE DEF u
  <2>. QED BY <1>1, <1>5, <2>1, <2>3 DEF u
<1>6. CASE NonEmpty(bs) # n
  <2>1. empty # {} /\ empty \subseteq DOMAIN bs
    <3>1. full # 1..n
      BY <1>2, <1>3, <1>6
    <3>. QED BY <1>1, <3>1
  <2>2. u = Min(empty) - 1
    BY <1>6, <2>1 DEF UpTo, FirstWith
  <2>3. Min(empty) \in empty /\ \A k \in empty : Min(empty) <= k
    <3>. HIDE DEF empty
    <3>. QED BY <2>1, FirstPlace
  <2>. DEFINE m == Min(empty)
  <2>4. m \in 1..n /\ bs[m].chunks = <<>>
    BY <1>1, <2>3
  <2>5. \A k \in 1..n : bs[k].chunks = <<>> => m <= k
    BY <1>1, <2>3
  <2>. HIDE DEF m, u
  <2>6. u = m - 1
    BY <2>2 DEF m
  <2>7. \A j \in 1..u : bs[j].chunks # <<>>
    BY <1>1, <2>4, <2>5, <2>6
  <2>8. \A k \in DOMAIN bs : (\A j \in 1..k : bs[j].chunks # <<>>) => k <= u
    BY <1>1, <2>4, <2>6
  <2>9. u \in 0..n
    BY <1>1, <2>4, <2>6
  <2>10. u <= Cardinality(full)
    <3>1. 1..u \in SUBSET full
      BY <1>1, <2>7, <2>9
    <3>. HIDE DEF full
    <3>2. Cardinality(1..u) <= Cardinality(full)
      BY <1>4, <3>1, FS_Subset
    <3>3. Cardinality(1..u) = u
      BY <2>9, FS_Interval
    <3>. QED BY <3>2, <3>3
  <2>. QED BY <1>1, <1>2, <1>4, <2>7, <2>8, <2>9, <2>10 DEF u
<1>. QED BY <1>5, <1>6

\* With a slot for each the first chunk of all of them is kept.
LEMMA ReserveFirstFacts ==
  ASSUME NEW P, NEW D, NEW bs \in Seq(BundleSet(P, D)), NEW max \in Nat, NEW start,
         NEW k0 \in KeptAfter(start, Ids(bs), DocKeys(D), max), k0.slots >= UpTo(bs)
  PROVE  /\ ReserveFirst(k0, bs) \in KeptAfter(start, Ids(bs), DocKeys(D), max)
         /\ \A j \in 1..UpTo(bs) :
              Key(bs[j].chunks[1]) \in ReserveFirst(k0, bs).keys[bs[j].probe.id]
<1>. DEFINE cs == First(UpTo(bs), bs)
            n == Len(cs)
            U == DocKeys(D)
            ids == Ids(bs)
            A == KeptAfter(start, ids, U, max)
            base == k0
            next(a, k) == KeepOne(a, cs[k].probe.id, Key(cs[k].chunks[1]))
            iter == CHOOSE g : g = [T \in SUBSET (1..n) |->
                      IF T = {} THEN base ELSE next(g[T \ {Max(T)}], Max(T))]
            step == [p \in A \X (1..n) |-> next(p[1], p[2])]
<1>a. UpTo(bs) \in 0..Len(bs) /\ (\A j \in 1..UpTo(bs) : bs[j].chunks # <<>>)
      /\ DOMAIN bs = 1..Len(bs) /\ Len(bs) \in Nat
  BY UpToFacts, LenProperties
<1>b. UpTo(bs) \in Nat /\ UpTo(bs) <= Len(bs)
  BY <1>a
<1>c. n = UpTo(bs) /\ DOMAIN cs = 1..n /\ \A k \in 1..n : cs[k] = bs[k]
  <2>1. cs \in Seq(BundleSet(P, D)) /\ Len(cs) = UpTo(bs) /\ \A k \in 1..Len(cs) : cs[k] = bs[k]
    BY <1>b, FirstFacts
  <2>. HIDE DEF cs
  <2>. QED BY <2>1, LenProperties
<1>1. ReserveFirst(k0, bs) = iter[1..n]
  BY <1>c DEF ReserveFirst, UpTo, FoldLeft, MapThenFoldSet
<1>. HIDE DEF cs
<1>2. n \in Nat /\ base \in A
  BY <1>b, <1>c
<1>d. ASSUME NEW k \in 1..n
      PROVE  /\ cs[k] = bs[k] /\ cs[k].probe.id \in ids
             /\ Key(cs[k].chunks[1]) \in U
  <2>1. cs[k] = bs[k] /\ k \in DOMAIN bs /\ bs[k].chunks # <<>>
    BY <1>a, <1>b, <1>c
  <2>2. bs[k] \in BundleSet(P, D)
    BY <2>1
  <2>3. bs[k].chunks \in Seq(Cands(D))
    BY <2>2 DEF BundleSet
  <2>4. bs[k].chunks[1] \in Cands(D)
    <3>1. Len(bs[k].chunks) \in Nat /\ Len(bs[k].chunks) # 0 
      BY <2>1, <2>3, EmptySeq, LenProperties
    <3>. QED BY <2>3, <3>1, LenProperties
  <2>. QED BY <2>1, <2>4, KeyFacts DEF Ids
<1>. HIDE DEF U, ids
<1>e. ASSUME NEW a \in A, NEW k \in 1..n
      PROVE  /\ next(a, k) \in A /\ next(a, k).slots >= a.slots - 1
             /\ next(a, k) \in KeptAfter(a, ids, U, max)
             /\ a.slots # 0 => Key(cs[k].chunks[1]) \in next(a, k).keys[cs[k].probe.id]
  BY <1>d, KeepOneFacts
<1>3. ASSUME NEW a \in A, NEW k \in 1..n PROVE next(a, k) \in A
  BY <1>e
<1>. HIDE DEF next, A, n, base
<1>4. /\ step \in [A \X (1..n) -> A]
      /\ \A a \in A, k \in 1..n : step[<<a, k>>] = next(a, k)
  BY <1>3
<1>. HIDE DEF step
<1>5. iter = [T \in SUBSET (1..n) |-> IF T = {} THEN base ELSE next(iter[T \ {Max(T)}], Max(T))]
  <2>1. PICK g \in [SUBSET (1..n) -> A] : IsFold(g, n, base, step)
    BY <1>2, <1>4, FoldExists
  <2>2. g = [T \in SUBSET (1..n) |-> IF T = {} THEN base ELSE next(g[T \ {Max(T)}], Max(T))]
    BY <1>4, <2>1 DEF IsFold
  <2>. QED BY <2>2
<1>. HIDE DEF iter
<1>6. Follows(iter, A, n, base, step)
  <2>1. {} \in SUBSET (1..n)
    OBVIOUS
  <2>2. iter[{}] = base
    BY <1>5, <2>1
  <2>3. ASSUME NEW k \in 1..n PROVE iter[1..k] = next(iter[1..(k - 1)], k)
    <3>1. 1..k \in SUBSET (1..n) /\ 1..k # {} /\ Max(1..k) = k /\ (1..k) \ {Max(1..k)} = 1..(k - 1)
      BY <1>2, Segments
    <3>2. iter[1..k] = next(iter[(1..k) \ {Max(1..k)}], Max(1..k))
      BY <1>5, <3>1
    <3>. QED BY <3>1, <3>2
  <2>. QED BY <1>4, <2>2, <2>3 DEF Follows
<1>7. PICK run \in [0..n -> A] : IsRun(run, n, base, step) /\ Ends(run, n, iter)
  BY <1>2, <1>4, <1>6, FoldRuns
<1>8. \A k \in 1..n : run[k] = next(run[k - 1], k)
  <2>1. \A k \in 1..n : k - 1 \in 0..n
    BY <1>2
  <2>. QED BY <1>4, <1>7, <2>1 DEF IsRun
<1>9. run[0] = base /\ run[n] = iter[1..n]
  BY <1>7 DEF IsRun, Ends
<1>10. run[n] \in A
  BY <1>2, <1>7
<1>11. ASSUME NEW k \in 1..n
       PROVE  /\ run[k - 1] \in A /\ run[k] \in A /\ run[k].slots >= run[k - 1].slots - 1
              /\ run[k] \in KeptAfter(run[k - 1], ids, U, max)
              /\ run[k - 1].slots # 0 => Key(cs[k].chunks[1]) \in run[k].keys[cs[k].probe.id]
  <2>1. k - 1 \in 0..n /\ k \in 0..n
    BY <1>2
  <2>2. run[k - 1] \in A /\ run[k] \in A
    BY <1>7, <2>1
  <2>. QED BY <1>8, <1>e, <2>2
<1>12. \A a \in A : a.slots \in Nat /\ a.keys \in [ids -> SUBSET U]
  BY KeptType DEF A
<1>13. k0.slots >= n
  BY <1>c
<1>. DEFINE good(k) == /\ run[k].slots >= n - k
                       /\ \A j \in 1..k : Key(cs[j].chunks[1]) \in run[k].keys[cs[j].probe.id]
            G == {k \in 0..n : good(k)}
<1>. HIDE DEF next, A
<1>14. 0 \in G
  <2>1. run[0].slots >= n - 0
    BY <1>2, <1>9, <1>12, <1>13 DEF base
  <2>2. \A j \in 1..0 : Key(cs[j].chunks[1]) \in run[0].keys[cs[j].probe.id]
    OBVIOUS
  <2>. QED BY <1>2, <2>1, <2>2
<1>15. ASSUME NEW k \in 1..n, k - 1 \in G PROVE k \in G
  <2>1. good(k - 1)
    BY <1>15
  <2>2. run[k - 1].slots \in Nat /\ run[k].slots \in Nat
    BY <1>11, <1>12
  <2>3. run[k - 1].slots # 0 /\ run[k].slots >= n - k
    BY <1>2, <1>11, <2>1, <2>2
  <2>4. \A i \in ids : run[k - 1].keys[i] \subseteq run[k].keys[i]
    BY <1>11 DEF KeptAfter
  <2>5. ASSUME NEW j \in 1..k PROVE Key(cs[j].chunks[1]) \in run[k].keys[cs[j].probe.id]
    <3>1. CASE j = k
      BY <1>11, <2>3, <3>1
    <3>2. CASE j # k
      <4>1. j \in 1..(k - 1) /\ j \in 1..n
        BY <1>2, <3>2
      <4>2. cs[j].probe.id \in ids
        BY <1>d, <4>1
      <4>. QED BY <2>1, <2>4, <4>1, <4>2
    <3>. QED BY <3>1, <3>2
  <2>. QED BY <1>2, <2>3, <2>5
<1>16. n \in G
  <2>. HIDE DEF G
  <2>1. Inductive(G, n)
    BY <1>14, <1>15 DEF Inductive
  <2>. QED BY <1>2, <2>1, Reached
<1>17. \A j \in 1..n : Key(bs[j].chunks[1]) \in run[n].keys[bs[j].probe.id]
  BY <1>16, <1>d
<1>. QED BY <1>1, <1>9, <1>10, <1>17, <1>c DEF A, U, ids

\* What is kept for the structure of the chunks takes nothing away.
LEMMA ReserveStructuralFacts ==
  ASSUME NEW P, \A p \in P : p.topK \in Int, NEW D, NEW bs \in Seq(BundleSet(P, D)),
         NEW max \in Nat, NEW start, NEW k0 \in KeptAfter(start, Ids(bs), DocKeys(D), max)
  PROVE  ReserveStructural(k0, bs) \in KeptAfter(start, Ids(bs), DocKeys(D), max)
<1>. DEFINE n == Len(bs)
            U == DocKeys(D)
            ids == Ids(bs)
            A == KeptAfter(start, ids, U, max)
            base == k0
            mine(c) == "structural" \in c.strategies
            have(a, b) == Cardinality({j \in DOMAIN b.chunks :
                      mine(b.chunks[j]) /\ Key(b.chunks[j]) \in a.keys[b.probe.id]})
            target(b) == IF b.probe.id = Otp THEN b.probe.topK ELSE 2
            rest(a, b) == ElementsAt(b.chunks, {j \in DOMAIN b.chunks :
                      mine(b.chunks[j]) /\ Key(b.chunks[j]) \notin a.keys[b.probe.id]})
            some(a, b) == First(Max({0, target(b) - have(a, b)}), rest(a, b))
            next(a, k) == KeepAll(a, bs[k].probe.id, some(a, bs[k]))
            iter == CHOOSE g : g = [T \in SUBSET (1..n) |->
                      IF T = {} THEN base ELSE next(g[T \ {Max(T)}], Max(T))]
            step == [p \in A \X (1..n) |-> next(p[1], p[2])]
<1>1. ReserveStructural(k0, bs) = iter[1..n]
  <2>1. DOMAIN bs = 1..n
    BY LenProperties
  <2>. QED BY <2>1 DEF ReserveStructural, FoldLeft, MapThenFoldSet, Chosen
<1>2. n \in Nat /\ base \in A
  BY LenProperties
<1>3. ASSUME NEW a \in A, NEW k \in 1..n PROVE next(a, k) \in A
  <2>. DEFINE b == bs[k]
  <2>1. k \in DOMAIN bs /\ b \in BundleSet(P, D) /\ b.probe.id \in ids
    BY LenProperties DEF Ids
  <2>2. b.chunks \in Seq(Cands(D)) /\ b.probe \in P
    BY <2>1 DEF BundleSet
  <2>. HIDE DEF b
  <2>. DEFINE cs == b.chunks
              at == {j \in DOMAIN cs : mine(cs[j]) /\ Key(cs[j]) \in a.keys[b.probe.id]}
              off == {j \in DOMAIN cs : mine(cs[j]) /\ Key(cs[j]) \notin a.keys[b.probe.id]}
              h == Cardinality(at)
              t == target(b)
              r == ElementsAt(cs, off)
              m == Max({0, t - h})
  <2>3. cs \in Seq(Cands(D)) /\ DOMAIN cs = 1..Len(cs) /\ Len(cs) \in Nat
    BY <2>2, LenProperties
  <2>4. at \subseteq 1..Len(cs) /\ off \subseteq DOMAIN cs
    BY <2>3
  <2>5. some(a, b) = First(m, r)
    OBVIOUS
  <2>6. next(a, k) = KeepAll(a, b.probe.id, some(a, b))
    BY DEF b
  <2>7. t \in Int
    BY <2>2
  <2>. HIDE DEF some, next, at, off, cs, t
  <2>8. h \in Nat
    BY <2>3, <2>4, NthFacts
  <2>. HIDE DEF h
  <2>. DEFINE x == t - h
  <2>9. x \in Int
    BY <2>7, <2>8
  <2>10. m = Max({0, x})
    OBVIOUS
  <2>. HIDE DEF x, m
  <2>11. m \in Int
    <3>1. 0 \in Int
      OBVIOUS
    <3>2. Max({0, x}) \in Int
      BY <2>9, <3>1, TwoInt
    <3>. QED BY <2>10, <3>2
  <2>12. r \in Seq(Cands(D))
    BY <2>3, <2>4, ChosenFacts
  <2>. HIDE DEF r
  <2>13. First(m, r) \in Seq(Cands(D))
    BY <2>11, <2>12, Firsts
  <2>. HIDE DEF ids
  <2>14. KeepAll(a, b.probe.id, First(m, r)) \in A
    BY <2>1, <2>13, KeepAllFacts
  <2>. QED BY <2>5, <2>6, <2>14
<1>. HIDE DEF some, have, rest, target
<1>. HIDE DEF next, A, n, base
<1>4. /\ step \in [A \X (1..n) -> A]
      /\ \A a \in A, k \in 1..n : step[<<a, k>>] = next(a, k)
  BY <1>3
<1>. HIDE DEF step
<1>5. iter = [T \in SUBSET (1..n) |-> IF T = {} THEN base ELSE next(iter[T \ {Max(T)}], Max(T))]
  <2>1. PICK g \in [SUBSET (1..n) -> A] : IsFold(g, n, base, step)
    BY <1>2, <1>4, FoldExists
  <2>2. g = [T \in SUBSET (1..n) |-> IF T = {} THEN base ELSE next(g[T \ {Max(T)}], Max(T))]
    BY <1>4, <2>1 DEF IsFold
  <2>. QED BY <2>2
<1>. HIDE DEF iter
<1>6. Follows(iter, A, n, base, step)
  <2>1. {} \in SUBSET (1..n)
    OBVIOUS
  <2>2. iter[{}] = base
    BY <1>5, <2>1
  <2>3. ASSUME NEW k \in 1..n PROVE iter[1..k] = next(iter[1..(k - 1)], k)
    <3>1. 1..k \in SUBSET (1..n) /\ 1..k # {} /\ Max(1..k) = k /\ (1..k) \ {Max(1..k)} = 1..(k - 1)
      BY <1>2, Segments
    <3>2. iter[1..k] = next(iter[(1..k) \ {Max(1..k)}], Max(1..k))
      BY <1>5, <3>1
    <3>. QED BY <3>1, <3>2
  <2>. QED BY <1>4, <2>2, <2>3 DEF Follows
<1>7. PICK run \in [0..n -> A] : IsRun(run, n, base, step) /\ Ends(run, n, iter)
  BY <1>2, <1>4, <1>6, FoldRuns
<1>8. \A k \in 1..n : run[k] = next(run[k - 1], k)
  <2>1. \A k \in 1..n : k - 1 \in 0..n
    BY <1>2
  <2>. QED BY <1>4, <1>7, <2>1 DEF IsRun
<1>9. run[0] = base /\ run[n] = iter[1..n]
  BY <1>7 DEF IsRun, Ends
<1>10. run[n] \in A
  BY <1>2, <1>7
<1>. QED BY <1>1, <1>9, <1>10 DEF A, U, ids

\* Nothing is held yet.
LEMMA NoneFacts ==
  ASSUME NEW ids, NEW U, NEW max \in Nat, NEW none,
         none = [keys |-> [id \in ids |-> {}], slots |-> max]
  PROVE  none \in KeptAfter(none, ids, U, max) /\ none.slots = max
<1>1. none.keys \in [ids -> SUBSET U] /\ none.slots = max
  OBVIOUS
<1>2. Held(none.keys) = {}
  BY DEF Held
<1>3. Cardinality(Held(none.keys)) = 0 /\ IsFiniteSet(Held(none.keys))
  BY <1>2, FS_EmptySet
<1>4. none \in [keys : [ids -> SUBSET U], slots : Nat]
  BY <1>1
<1>5. Cardinality(Held(none.keys)) + none.slots <= max
  BY <1>1, <1>3
<1>. QED BY <1>1, <1>3, <1>4, <1>5 DEF KeptAfter

\* The reserved keys fit, and have the first chunk of each leading bundle.
LEMMA ReservedFacts ==
  ASSUME NEW P, \A p \in P : p.topK \in Int, NEW D, NEW bs \in Seq(BundleSet(P, D)),
         NEW max \in Nat, max >= NonEmpty(bs)
  PROVE  \E none : /\ Reserved(bs, max) \in KeptAfter(none, Ids(bs), DocKeys(D), max)
                   /\ \A j \in 1..UpTo(bs) :
                        Key(bs[j].chunks[1]) \in Reserved(bs, max).keys[bs[j].probe.id]
<1>. DEFINE ids == Ids(bs)
            U == DocKeys(D)
            none == [keys |-> [id \in ids |-> {}], slots |-> max]
            first == ReserveFirst(none, bs)
            all == ReserveStructural(first, bs)
<1>1. Reserved(bs, max) = all
  BY DEF Reserved, Ids
<1>2. none \in KeptAfter(none, ids, U, max) /\ none.slots = max
  <2>. HIDE DEF ids
  <2>. QED BY NoneFacts
<1>. HIDE DEF none
<1>3. none.slots >= UpTo(bs)
  BY <1>2, UpToFacts
<1>4. /\ first \in KeptAfter(none, ids, U, max)
      /\ \A j \in 1..UpTo(bs) : Key(bs[j].chunks[1]) \in first.keys[bs[j].probe.id]
  BY <1>2, <1>3, ReserveFirstFacts
<1>. HIDE DEF first
<1>5. first \in KeptAfter(first, ids, U, max)
  BY <1>4, KeptSelf
<1>6. all \in KeptAfter(first, ids, U, max)
  BY <1>5, ReserveStructuralFacts
<1>. HIDE DEF all
<1>7. all \in KeptAfter(none, ids, U, max)
  BY <1>4, <1>6, KeptTransitive
<1>8. \A i \in ids : first.keys[i] \subseteq all.keys[i]
  BY <1>6 DEF KeptAfter
<1>9. \A j \in 1..UpTo(bs) : bs[j].probe.id \in ids
  <2>1. \A j \in 1..UpTo(bs) : j \in DOMAIN bs
    BY UpToFacts, LenProperties
  <2>. QED BY <2>1 DEF Ids
<1>. QED BY <1>1, <1>4, <1>7, <1>8, <1>9

\* Which chunk is shown for which probe of these bundles.
Pairs(bs) == UNION {{<<bs[k].probe.id, key>> : key \in Keys(bs[k].chunks)} : k \in DOMAIN bs}

\* The same bundles with fewer of their chunks, counted.
Shrunk(new, old) ==
  /\ DOMAIN new = DOMAIN old /\ Len(new) = Len(old)
  /\ \A k \in DOMAIN old :
       /\ new[k].probe = old[k].probe /\ new[k].selected = old[k].selected
       /\ ToSet(new[k].chunks) \subseteq ToSet(old[k].chunks)
       /\ Len(new[k].chunks) + new[k].trimmed = Len(old[k].chunks) + old[k].trimmed

\* What has one of these keys leaves something.
Spares(new, old, keys) == \A c \in ToSet(old.chunks) : Key(c) \in keys => new.chunks # <<>>

\* A bundle trimmed to some keys has those of its chunks, and counts the others.
LEMMA TrimmedToFacts ==
  ASSUME NEW P, NEW D, NEW b \in BundleSet(P, D), NEW keys
  PROVE  /\ TrimmedTo(b, keys) \in BundleSet(P, D)
         /\ TrimmedTo(b, keys).probe = b.probe /\ TrimmedTo(b, keys).selected = b.selected
         /\ ToSet(TrimmedTo(b, keys).chunks) \subseteq ToSet(b.chunks)
         /\ Len(TrimmedTo(b, keys).chunks) + TrimmedTo(b, keys).trimmed = Len(b.chunks) + b.trimmed
         /\ Keys(TrimmedTo(b, keys).chunks) \subseteq keys
         /\ Spares(TrimmedTo(b, keys), b, keys)
<1>. DEFINE cs == b.chunks
            at == {k \in DOMAIN cs : Key(cs[k]) \in keys}
            left == ElementsAt(cs, at)
            gone == b.trimmed + Len(cs) - Len(left)
            status == IF cs # <<>> /\ left = <<>> THEN "trimmed_by_global_cap" ELSE b.status
            t == TrimmedTo(b, keys)
<1>1. t = [b EXCEPT !.chunks = left, !.trimmed = gone, !.status = status]
  BY DEF TrimmedTo, Chosen
<1>2. b \in [probe : P, chunks : Seq(Cands(D)), selected : Nat, trimmed : Nat, status : Statuses]
  BY DEF BundleSet
<1>3. cs \in Seq(Cands(D)) /\ b.trimmed \in Nat /\ b.status \in Statuses
  BY <1>2
<1>4. at \subseteq DOMAIN cs /\ {cs[k] : k \in at} \subseteq ToSet(cs)
      /\ \A k \in at : Key(cs[k]) \in keys
  BY DEF ToSet
<1>5. \A c \in ToSet(cs) : Key(c) \in keys => at # {}
  BY DEF ToSet
<1>. HIDE DEF at, cs
<1>6. left \in Seq(Cands(D)) /\ ToSet(left) = {cs[k] : k \in at} /\ Len(left) <= Len(cs)
  BY <1>3, <1>4, ChosenFacts
<1>. HIDE DEF left
<1>7. Len(cs) \in Nat /\ Len(left) \in Nat
  BY <1>3, <1>6, LenProperties
<1>8. gone \in Nat /\ Len(left) + gone = Len(cs) + b.trimmed
  BY <1>3, <1>6, <1>7
<1>9. status \in Statuses
  BY <1>3 DEF Statuses
<1>. HIDE DEF gone, status, t
<1>10. /\ t.probe = b.probe /\ t.selected = b.selected /\ t.chunks = left /\ t.trimmed = gone
       /\ t \in BundleSet(P, D)
  BY <1>1, <1>2, <1>6, <1>8, <1>9 DEF BundleSet
<1>11. ToSet(left) \subseteq ToSet(cs)
  BY <1>4, <1>6
<1>12. Keys(left) \subseteq keys
  <2>1. \A k \in DOMAIN left : left[k] \in ToSet(left)
    BY DEF ToSet
  <2>. QED BY <1>4, <1>6, <2>1 DEF Keys
<1>13. at # {} => left # <<>>
  BY <1>6, ToSetFacts
<1>. QED BY <1>5, <1>8, <1>10, <1>11, <1>12, <1>13 DEF t, cs, Spares

\* The keys of a sequence of candidates.
LEMMA KeysFacts ==
  ASSUME NEW s
  PROVE  Keys(s) = {Key(c) : c \in ToSet(s)}
BY DEF Keys, ToSet

\* What is put in order after the reserved chunks.
Offered(bs, reserved) ==
  LET scored(b) == LET rest == Chosen(b.chunks, LAMBDA c : Key(c) \notin reserved.keys[b.probe.id])
                   IN [k \in DOMAIN rest |-> [probe |-> b.probe, c |-> rest[k]]]
  IN Sorted(FlattenSeq([k \in DOMAIN bs |-> scored(bs[k])]), TrimBefore)

KeptOf(bs, max) ==
  LET reserved == Reserved(bs, max)
  IN FoldLeft(LAMBDA k, s : KeepOne(k, s.probe.id, Key(s.c)), reserved, Offered(bs, reserved))

\* What is offered after the reserved chunks are chunks of the bundles.
LEMMA OfferedFacts ==
  ASSUME NEW P, NEW D, NEW bs \in Seq(BundleSet(P, D)), NEW reserved
  PROVE  Offered(bs, reserved) \in Seq([probe : {bs[k].probe : k \in DOMAIN bs}, c : Cands(D)])
<1>. DEFINE rest(k) == ElementsAt(bs[k].chunks, {j \in DOMAIN bs[k].chunks :
                         Key(bs[k].chunks[j]) \notin reserved.keys[bs[k].probe.id]})
            T == [probe : {bs[k].probe : k \in DOMAIN bs}, c : Cands(D)]
            scored(k) == [j \in DOMAIN rest(k) |-> [probe |-> bs[k].probe, c |-> rest(k)[j]]]
            seqs == [k \in DOMAIN bs |-> scored(k)]
            flat == FlattenSeq(seqs)
<1>1. Offered(bs, reserved) = Sorted(flat, TrimBefore)
  BY DEF Offered, Chosen
<1>2. ASSUME NEW k \in DOMAIN bs PROVE rest(k) \in Seq(Cands(D))
  <2>. DEFINE cs == bs[k].chunks
              at == {j \in DOMAIN cs : Key(cs[j]) \notin reserved.keys[bs[k].probe.id]}
  <2>1. bs[k] \in BundleSet(P, D)
    BY LenProperties
  <2>2. cs \in Seq(Cands(D)) /\ at \subseteq DOMAIN cs
    BY <2>1 DEF BundleSet
  <2>3. rest(k) = ElementsAt(cs, at)
    OBVIOUS
  <2>. HIDE DEF cs, at, rest
  <2>. QED BY <2>2, <2>3, ChosenFacts
<1>. HIDE DEF rest
<1>3. ASSUME NEW k \in DOMAIN bs PROVE scored(k) \in Seq(T)
  <2>. DEFINE r == rest(k)
              l == scored(k)
  <2>1. r \in Seq(Cands(D))
    BY <1>2
  <2>2. l = [j \in DOMAIN r |-> [probe |-> bs[k].probe, c |-> r[j]]]
    OBVIOUS
  <2>. HIDE DEF r, l
  <2>3. DOMAIN r = 1..Len(r) /\ Len(r) \in Nat /\ \A j \in 1..Len(r) : r[j] \in Cands(D)
    BY <2>1, LenProperties
  <2>4. l \in [1..Len(r) -> T]
    BY <2>2, <2>3
  <2>. HIDE DEF T
  <2>5. l \in Seq(T)
    BY <2>3, <2>4, Listed
  <2>. QED BY <2>5 DEF l
<1>. HIDE DEF scored, T
<1>4. seqs \in Seq(Seq(T))
  <2>1. DOMAIN bs = 1..Len(bs) /\ Len(bs) \in Nat
    BY LenProperties
  <2>2. seqs \in [1..Len(bs) -> Seq(T)]
    BY <1>3, <2>1
  <2>. HIDE DEF seqs
  <2>. QED BY <2>1, <2>2, Listed
<1>. HIDE DEF seqs
<1>5. flat \in Seq(T)
  BY <1>4, FlatFacts
<1>. HIDE DEF flat
<1>. DEFINE order == {p \in ToSet(flat) \X ToSet(flat) : TrimBefore(p[1], p[2])}
<1>6. Sorted(flat, TrimBefore) = InOrder(flat, order)
  BY SMT DEF Sorted
<1>. HIDE DEF order
<1>7. InOrder(flat, order) \in Seq(T)
  BY <1>5, SortedFacts
<1>. QED BY <1>1, <1>6, <1>7 DEF T

\* In the end no more is kept than there were slots, and all that was reserved.
LEMMA KeptFacts ==
  ASSUME NEW P, \A p \in P : p.topK \in Int, NEW D, NEW bs \in Seq(BundleSet(P, D)),
         NEW max \in Nat, max >= NonEmpty(bs)
  PROVE  \E none : /\ KeptOf(bs, max) \in KeptAfter(none, Ids(bs), DocKeys(D), max)
                   /\ \A j \in 1..UpTo(bs) :
                        Key(bs[j].chunks[1]) \in KeptOf(bs, max).keys[bs[j].probe.id]
<1>. DEFINE reserved == Reserved(bs, max)
            offered == Offered(bs, reserved)
            n == Len(offered)
            U == DocKeys(D)
            ids == Ids(bs)
            A == KeptAfter(reserved, ids, U, max)
            base == reserved
            next(a, k) == KeepOne(a, offered[k].probe.id, Key(offered[k].c))
            iter == CHOOSE g : g = [T \in SUBSET (1..n) |->
                      IF T = {} THEN base ELSE next(g[T \ {Max(T)}], Max(T))]
            step == [p \in A \X (1..n) |-> next(p[1], p[2])]
<1>a. PICK none : /\ reserved \in KeptAfter(none, ids, U, max)
                  /\ \A j \in 1..UpTo(bs) :
                        Key(bs[j].chunks[1]) \in reserved.keys[bs[j].probe.id]
  BY ReservedFacts
<1>. HIDE DEF reserved
<1>b. offered \in Seq([probe : {bs[k].probe : k \in DOMAIN bs}, c : Cands(D)])
  BY OfferedFacts
<1>. HIDE DEF offered
<1>c. DOMAIN offered = 1..n /\ n \in Nat
  BY <1>b, LenProperties
<1>1. KeptOf(bs, max) = iter[1..n]
  BY <1>c DEF KeptOf, FoldLeft, MapThenFoldSet, offered, reserved
<1>2. n \in Nat /\ base \in A
  BY <1>a, <1>c, KeptSelf
<1>3. ASSUME NEW a \in A, NEW k \in 1..n PROVE next(a, k) \in A
  <2>. DEFINE s == offered[k]
  <2>1. s \in [probe : {bs[i].probe : i \in DOMAIN bs}, c : Cands(D)]
    BY <1>b, <1>c, LenProperties
  <2>. HIDE DEF s
  <2>2. s.c \in Cands(D) /\ s.probe.id \in ids
    BY <2>1 DEF Ids
  <2>3. Key(s.c) \in U
    BY <2>2, KeyFacts
  <2>. HIDE DEF U, ids
  <2>4. KeepOne(a, s.probe.id, Key(s.c)) \in A
    BY <2>2, <2>3, KeepOneFacts
  <2>. QED BY <2>4 DEF s
<1>. HIDE DEF next, A, n, base
<1>4. /\ step \in [A \X (1..n) -> A]
      /\ \A a \in A, k \in 1..n : step[<<a, k>>] = next(a, k)
  BY <1>3
<1>. HIDE DEF step
<1>5. iter = [T \in SUBSET (1..n) |-> IF T = {} THEN base ELSE next(iter[T \ {Max(T)}], Max(T))]
  <2>1. PICK g \in [SUBSET (1..n) -> A] : IsFold(g, n, base, step)
    BY <1>2, <1>4, FoldExists
  <2>2. g = [T \in SUBSET (1..n) |-> IF T = {} THEN base ELSE next(g[T \ {Max(T)}], Max(T))]
    BY <1>4, <2>1 DEF IsFold
  <2>. QED BY <2>2
<1>. HIDE DEF iter
<1>6. Follows(iter, A, n, base, step)
  <2>1. {} \in SUBSET (1..n)
    OBVIOUS
  <2>2. iter[{}] = base
    BY <1>5, <2>1
  <2>3. ASSUME NEW k \in 1..n PROVE iter[1..k] = next(iter[1..(k - 1)], k)
    <3>1. 1..k \in SUBSET (1..n) /\ 1..k # {} /\ Max(1..k) = k /\ (1..k) \ {Max(1..k)} = 1..(k - 1)
      BY <1>2, Segments
    <3>2. iter[1..k] = next(iter[(1..k) \ {Max(1..k)}], Max(1..k))
      BY <1>5, <3>1
    <3>. QED BY <3>1, <3>2
  <2>. QED BY <1>4, <2>2, <2>3 DEF Follows
<1>7. PICK run \in [0..n -> A] : IsRun(run, n, base, step) /\ Ends(run, n, iter)
  BY <1>2, <1>4, <1>6, FoldRuns
<1>8. \A k \in 1..n : run[k] = next(run[k - 1], k)
  <2>1. \A k \in 1..n : k - 1 \in 0..n
    BY <1>2
  <2>. QED BY <1>4, <1>7, <2>1 DEF IsRun
<1>9. run[0] = base /\ run[n] = iter[1..n]
  BY <1>7 DEF IsRun, Ends
<1>10. run[n] \in A
  BY <1>2, <1>7
<1>11. run[n] \in KeptAfter(none, ids, U, max)
  BY <1>a, <1>10, KeptTransitive DEF A
<1>12. \A i \in ids : reserved.keys[i] \subseteq run[n].keys[i]
  BY <1>10 DEF A, KeptAfter
<1>13. \A j \in 1..UpTo(bs) : bs[j].probe.id \in ids
  <2>1. \A j \in 1..UpTo(bs) : j \in DOMAIN bs
    BY UpToFacts, LenProperties
  <2>. QED BY <2>1 DEF Ids
<1>14. \A j \in 1..UpTo(bs) : Key(bs[j].chunks[1]) \in run[n].keys[bs[j].probe.id]
  BY <1>a, <1>12, <1>13
<1>. HIDE DEF U, ids
<1>15. KeptOf(bs, max) = run[n]
  BY <1>1, <1>9
<1>. QED BY <1>11, <1>14, <1>15 DEF U, ids

\* A list with at most so many elements.
LEMMA ImageFacts ==
  ASSUME NEW n \in Nat, NEW S, NEW f \in [1..n -> S]
  PROVE  LET image == {f[j] : j \in 1..n} IN IsFiniteSet(image) /\ Cardinality(image) <= n
                                             /\ Cardinality(image) \in Nat
<1>. DEFINE image == {f[j] : j \in 1..n}
<1>1. f \in [1..n -> image]
  OBVIOUS
<1>2. f \in Surjection(1..n, image)
  BY <1>1 DEF Surjection
<1>3. IsFiniteSet(1..n) /\ Cardinality(1..n) = n
  BY FS_Interval
<1>. HIDE DEF image
<1>4. IsFiniteSet(image) /\ Cardinality(image) <= n
  BY <1>2, <1>3, FS_Surjection
<1>5. Cardinality(image) \in Nat
  BY <1>4, FS_CardinalityType
<1>. QED BY <1>4, <1>5 DEF image

OfBundle(b) == {<<b.probe.id, key>> : key \in Keys(b.chunks)}

\* A bundle shows no more chunks than it has.
LEMMA OfBundleFacts ==
  ASSUME NEW P, NEW D, NEW b \in BundleSet(P, D)
  PROVE  /\ IsFiniteSet(OfBundle(b)) /\ Cardinality(OfBundle(b)) <= Len(b.chunks)
         /\ Len(b.chunks) \in Nat /\ Cardinality(OfBundle(b)) \in Nat
<1>. DEFINE cs == b.chunks
            n == Len(cs)
            f == [j \in 1..n |-> <<b.probe.id, Key(cs[j])>>]
            S == OfBundle(b)
<1>1. n \in Nat /\ DOMAIN cs = 1..n
  BY LenProperties DEF BundleSet
<1>2. S = {f[j] : j \in 1..n}
  BY <1>1 DEF OfBundle, Keys
<1>3. f \in [1..n -> S]
  BY <1>2
<1>. HIDE DEF f, S, n
<1>. QED BY <1>1, <1>2, <1>3, ImageFacts DEF n, S

\* All bundles show no more chunks than they have.
LEMMA PairsCount ==
  ASSUME NEW P, NEW D, NEW bs \in Seq(BundleSet(P, D))
  PROVE  /\ IsFiniteSet(Pairs(bs)) /\ ChunksIn(bs) \in Nat
         /\ Cardinality(Pairs(bs)) <= ChunksIn(bs)
<1>. DEFINE n == Len(bs)
            A == Nat
            base == 0
            next(a, k) == a + Len(bs[k].chunks)
            iter == CHOOSE g : g = [T \in SUBSET (1..n) |->
                      IF T = {} THEN base ELSE next(g[T \ {Max(T)}], Max(T))]
            step == [p \in A \X (1..n) |-> next(p[1], p[2])]
<1>1. ChunksIn(bs) = iter[1..n]
  <2>1. DOMAIN bs = 1..n
    BY LenProperties
  <2>. QED BY <2>1 DEF ChunksIn, FoldLeft, MapThenFoldSet
<1>2. n \in Nat /\ base \in A
  BY LenProperties
<1>a. ASSUME NEW k \in 1..n
      PROVE  /\ IsFiniteSet(OfBundle(bs[k])) /\ Cardinality(OfBundle(bs[k])) <= Len(bs[k].chunks)
             /\ Len(bs[k].chunks) \in Nat /\ Cardinality(OfBundle(bs[k])) \in Nat
  <2>1. bs[k] \in BundleSet(P, D)
    BY LenProperties
  <2>. QED BY <2>1, OfBundleFacts
<1>3. ASSUME NEW a \in A, NEW k \in 1..n PROVE next(a, k) \in A
  BY <1>a
<1>. HIDE DEF next, A, n, base
<1>4. /\ step \in [A \X (1..n) -> A]
      /\ \A a \in A, k \in 1..n : step[<<a, k>>] = next(a, k)
  BY <1>3
<1>. HIDE DEF step
<1>5. iter = [T \in SUBSET (1..n) |-> IF T = {} THEN base ELSE next(iter[T \ {Max(T)}], Max(T))]
  <2>1. PICK g \in [SUBSET (1..n) -> A] : IsFold(g, n, base, step)
    BY <1>2, <1>4, FoldExists
  <2>2. g = [T \in SUBSET (1..n) |-> IF T = {} THEN base ELSE next(g[T \ {Max(T)}], Max(T))]
    BY <1>4, <2>1 DEF IsFold
  <2>. QED BY <2>2
<1>. HIDE DEF iter
<1>6. Follows(iter, A, n, base, step)
  <2>1. {} \in SUBSET (1..n)
    OBVIOUS
  <2>2. iter[{}] = base
    BY <1>5, <2>1
  <2>3. ASSUME NEW k \in 1..n PROVE iter[1..k] = next(iter[1..(k - 1)], k)
    <3>1. 1..k \in SUBSET (1..n) /\ 1..k # {} /\ Max(1..k) = k /\ (1..k) \ {Max(1..k)} = 1..(k - 1)
      BY <1>2, Segments
    <3>2. iter[1..k] = next(iter[(1..k) \ {Max(1..k)}], Max(1..k))
      BY <1>5, <3>1
    <3>. QED BY <3>1, <3>2
  <2>. QED BY <1>4, <2>2, <2>3 DEF Follows
<1>7. PICK run \in [0..n -> A] : IsRun(run, n, base, step) /\ Ends(run, n, iter)
  BY <1>2, <1>4, <1>6, FoldRuns
<1>8. \A k \in 1..n : run[k] = next(run[k - 1], k)
  <2>1. \A k \in 1..n : k - 1 \in 0..n
    BY <1>2
  <2>. QED BY <1>4, <1>7, <2>1 DEF IsRun
<1>9. run[0] = base /\ run[n] = iter[1..n]
  BY <1>7 DEF IsRun, Ends
<1>. DEFINE upto(k) == UNION {OfBundle(bs[i]) : i \in 1..k}
            G == {k \in 0..n : IsFiniteSet(upto(k)) /\ Cardinality(upto(k)) <= run[k]}
<1>10. 0 \in G
  <2>1. upto(0) = {}
    OBVIOUS
  <2>2. IsFiniteSet({}) /\ Cardinality({}) = 0
    BY FS_EmptySet
  <2>3. run[0] = 0
    BY <1>9 DEF base
  <2>. QED BY <1>2, <2>1, <2>2, <2>3
<1>11. ASSUME NEW k \in 1..n, k - 1 \in G PROVE k \in G
  <2>. DEFINE S == upto(k - 1)
              T == OfBundle(bs[k])
  <2>1. upto(k) = S \cup T
    <3>1. 1..k = 1..(k - 1) \cup {k}
      BY <1>2
    <3>. QED BY <3>1
  <2>2. IsFiniteSet(S) /\ Cardinality(S) <= run[k - 1]
    BY <1>11
  <2>3. /\ IsFiniteSet(T) /\ Cardinality(T) <= Len(bs[k].chunks) /\ Cardinality(T) \in Nat
        /\ Len(bs[k].chunks) \in Nat
    BY <1>a
  <2>4. run[k] = run[k - 1] + Len(bs[k].chunks)
    BY <1>8 DEF next
  <2>5. run[k - 1] \in Nat
    BY <1>2, <1>7 DEF A
  <2>. HIDE DEF S, T
  <2>6. /\ IsFiniteSet(S \cup T) /\ Cardinality(S \cap T) \in Nat /\ Cardinality(S) \in Nat
        /\ Cardinality(S \cup T) = Cardinality(S) + Cardinality(T) - Cardinality(S \cap T)
    BY <2>2, <2>3, FS_Union, FS_Intersection, FS_CardinalityType
  <2>7. Cardinality(S \cup T) <= run[k]
    BY <2>2, <2>3, <2>4, <2>5, <2>6
  <2>8. k \in 0..n
    BY <1>2
  <2>. HIDE DEF upto
  <2>. QED BY <2>1, <2>6, <2>7, <2>8
<1>12. n \in G
  <2>. HIDE DEF G
  <2>1. Inductive(G, n)
    BY <1>10, <1>11 DEF Inductive
  <2>. QED BY <1>2, <2>1, Reached
<1>13. Pairs(bs) = upto(n)
  BY LenProperties DEF Pairs, OfBundle, n
<1>14. run[n] \in Nat
  BY <1>2, <1>7 DEF A
<1>. HIDE DEF upto
<1>15. IsFiniteSet(upto(n)) /\ Cardinality(upto(n)) <= run[n]
  BY <1>12
<1>. QED BY <1>1, <1>9, <1>13, <1>14, <1>15

\* Trimming to a cap: fewer chunks of the same bundles, no more than the cap,
\* and one for each of the bundles before the first empty one.
LEMMA TrimmedFacts ==
  ASSUME NEW P, \A p \in P : p.topK \in Int, NEW D, NEW bs \in Seq(BundleSet(P, D)),
         NEW max \in Nat, max >= NonEmpty(bs)
  PROVE  /\ Trimmed(bs, max) \in Seq(BundleSet(P, D)) /\ Shrunk(Trimmed(bs, max), bs)
         /\ IsFiniteSet(Pairs(Trimmed(bs, max))) /\ Cardinality(Pairs(Trimmed(bs, max))) <= max
         /\ \A k \in DOMAIN bs : (\A j \in 1..k : bs[j].chunks # <<>>)
                                  => Trimmed(bs, max)[k].chunks # <<>>
<1>1. CASE ChunksIn(bs) <= max
  <2>1. Trimmed(bs, max) = bs
    BY <1>1 DEF Trimmed
  <2>2. \A k \in DOMAIN bs : k \in 1..k
    BY LenProperties
  <2>3. Shrunk(bs, bs)
    BY DEF Shrunk
  <2>4. IsFiniteSet(Pairs(bs)) /\ Cardinality(Pairs(bs)) <= max
    BY <1>1, PairsCount, FS_CardinalityType
  <2>. QED BY <2>1, <2>2, <2>3, <2>4
<1>2. CASE ~(ChunksIn(bs) <= max)
  <2>. DEFINE kept == KeptOf(bs, max).keys
              t == [k \in DOMAIN bs |-> TrimmedTo(bs[k], kept[bs[k].probe.id])]
              n == Len(bs)
  <2>1. Trimmed(bs, max) = t
    BY <1>2 DEF Trimmed, KeptOf, Offered
  <2>2. PICK none : /\ KeptOf(bs, max) \in KeptAfter(none, Ids(bs), DocKeys(D), max)
                    /\ \A j \in 1..UpTo(bs) :
                        Key(bs[j].chunks[1]) \in KeptOf(bs, max).keys[bs[j].probe.id]
    BY KeptFacts
  <2>3. /\ IsFiniteSet(Held(kept)) /\ Cardinality(Held(kept)) <= max
        /\ kept \in [Ids(bs) -> SUBSET DocKeys(D)]
        /\ \A j \in 1..UpTo(bs) : Key(bs[j].chunks[1]) \in kept[bs[j].probe.id]
    <3>. DEFINE k == KeptOf(bs, max)
    <3>1. k \in [keys : [Ids(bs) -> SUBSET DocKeys(D)], slots : Nat]
          /\ IsFiniteSet(Held(k.keys)) /\ Cardinality(Held(k.keys)) + k.slots <= max
      BY <2>2 DEF KeptAfter
    <3>2. k.slots \in Nat /\ Cardinality(Held(k.keys)) \in Nat
          /\ k.keys \in [Ids(bs) -> SUBSET DocKeys(D)]
      <4>. HIDE DEF k
      <4>. QED BY <3>1, FS_CardinalityType
    <3>. HIDE DEF k
    <3>3. Cardinality(Held(k.keys)) <= max
      BY <3>1, <3>2
    <3>. QED BY <2>2, <3>1, <3>2, <3>3 DEF k
  <2>. HIDE DEF kept
  <2>4. n \in Nat /\ DOMAIN bs = 1..n /\ \A k \in 1..n : bs[k] \in BundleSet(P, D)
    BY LenProperties
  <2>5. ASSUME NEW k \in 1..n
        PROVE  /\ t[k] = TrimmedTo(bs[k], kept[bs[k].probe.id])
               /\ t[k] \in BundleSet(P, D)
               /\ t[k].probe = bs[k].probe /\ t[k].selected = bs[k].selected
               /\ ToSet(t[k].chunks) \subseteq ToSet(bs[k].chunks)
               /\ Len(t[k].chunks) + t[k].trimmed = Len(bs[k].chunks) + bs[k].trimmed
               /\ Keys(t[k].chunks) \subseteq kept[bs[k].probe.id]
               /\ \A c \in ToSet(bs[k].chunks) : Key(c) \in kept[bs[k].probe.id] => t[k].chunks # <<>>
    <3>. DEFINE b == bs[k]
                keys == kept[b.probe.id]
    <3>1. b \in BundleSet(P, D) /\ t[k] = TrimmedTo(b, keys)
      BY <2>4
    <3>. HIDE DEF b, keys, t
    <3>. DEFINE x == TrimmedTo(b, keys)
    <3>2. /\ x \in BundleSet(P, D)
          /\ x.probe = b.probe /\ x.selected = b.selected
          /\ ToSet(x.chunks) \subseteq ToSet(b.chunks)
          /\ Len(x.chunks) + x.trimmed = Len(b.chunks) + b.trimmed
          /\ Keys(x.chunks) \subseteq keys
          /\ Spares(x, b, keys)
      <4>1. b \in BundleSet(P, D)
        BY <3>1
      <4>. QED BY <4>1, TrimmedToFacts
    <3>. HIDE DEF x
    <3>3. t[k] = x
      BY <3>1 DEF x
    <3>. QED BY <3>1, <3>2, <3>3 DEF b, keys, x, Spares
  <2>6. DOMAIN t = 1..n
    BY <2>4
  <2>. HIDE DEF t
  <2>7. t \in Seq(BundleSet(P, D)) /\ Len(t) = n
    <3>1. t \in [1..n -> BundleSet(P, D)]
      <4>1. t = [k \in 1..n |-> t[k]]
        BY <2>4 DEF t
      <4>. QED BY <2>5, <4>1
    <3>. QED BY <2>4, <3>1, Listed
  <2>8. Shrunk(t, bs)
    BY <2>4, <2>5, <2>6, <2>7 DEF Shrunk
  <2>9. Pairs(t) \in SUBSET Held(kept)
    <3>1. ASSUME NEW k \in 1..n, NEW key \in Keys(t[k].chunks)
          PROVE  <<t[k].probe.id, key>> \in Held(kept)
      <4>1. bs[k].probe.id \in DOMAIN kept
        BY <2>3, <2>4 DEF Ids
      <4>2. key \in kept[bs[k].probe.id] /\ t[k].probe.id = bs[k].probe.id
        BY <2>5
      <4>. QED BY <4>1, <4>2 DEF Held
    <3>. QED BY <2>6, <3>1 DEF Pairs
  <2>10. IsFiniteSet(Pairs(t)) /\ Cardinality(Pairs(t)) <= max
    <3>1. IsFiniteSet(Pairs(t)) /\ Cardinality(Pairs(t)) <= Cardinality(Held(kept))
      BY <2>3, <2>9, FS_Subset
    <3>. QED BY <2>3, <3>1, FS_CardinalityType
  <2>11. ASSUME NEW k \in DOMAIN bs, \A j \in 1..k : bs[j].chunks # <<>>
         PROVE  t[k].chunks # <<>>
    <3>1. k \in 1..UpTo(bs) /\ k \in 1..n
      <4>1. k <= UpTo(bs) /\ UpTo(bs) \in Int
        BY <2>11, UpToFacts
      <4>. QED BY <2>4, <4>1
    <3>2. Key(bs[k].chunks[1]) \in kept[bs[k].probe.id]
      BY <2>3, <3>1
    <3>3. bs[k].chunks[1] \in ToSet(bs[k].chunks)
      <4>1. bs[k].chunks \in Seq(Cands(D)) /\ bs[k].chunks # <<>>
        <5>1. k \in 1..k
          BY <3>1
        <5>. QED BY <2>4, <2>11, <3>1, <5>1 DEF BundleSet
      <4>. DEFINE cs == bs[k].chunks
      <4>. HIDE DEF cs
      <4>2. cs \in Seq(Cands(D)) /\ cs # <<>>
        BY <4>1 DEF cs
      <4>3. Len(cs) \in Nat /\ Len(cs) # 0 /\ DOMAIN cs = 1..Len(cs)
        BY <4>2, EmptySeq, LenProperties
      <4>4. 1 \in DOMAIN cs
        BY <4>3
      <4>. QED BY <4>4 DEF ToSet, cs
    <3>. QED BY <2>5, <3>1, <3>2, <3>3
  <2>. QED BY <2>1, <2>7, <2>8, <2>10, <2>11
<1>. QED BY <1>1, <1>2

\* The three lanes.
LEMMA LanesFacts ==
  /\ DOMAIN Lanes = 1..3 /\ ToSet(Lanes) = {"defect", "coverage", "roadmap"}
  /\ \A k \in 1..3 : Lanes[k] \in ToSet(Lanes)
  /\ Lanes[1] = "defect" /\ Lanes[2] = "coverage" /\ Lanes[3] = "roadmap"
<1>1. DOMAIN Lanes = 1..3
  BY DEF Lanes
<1>2. Lanes[1] = "defect" /\ Lanes[2] = "coverage" /\ Lanes[3] = "roadmap"
  BY DEF Lanes
<1>. QED BY <1>1, <1>2 DEF ToSet

\* The cap of a lane is a number.
LEMMA LaneCapFacts == ASSUME NEW l \in ToSet(Lanes) PROVE LaneCap(l) \in Nat
<1>1. LaneMax[l] \in Nat /\ MaxChunks \in Nat
  BY RetrievalAssumption
<1>2. CallBudget(l) \in Nat
  BY LanesFacts DEF CallBudget
<1>. DEFINE x == CallBudget(l) * MaxChunks
            m == LaneMax[l]
<1>3. x \in Int /\ x >= 0
  BY <1>1, <1>2
<1>4. LaneCap(l) \in {m, Min({m, x})}
  BY DEF LaneCap
<1>5. m \in Int
  BY <1>1
<1>. HIDE DEF x, m
<1>6. Min({m, x}) \in {m, x}
  BY <1>3, <1>5, OfTwo
<1>. QED BY <1>1, <1>3, <1>4, <1>6 DEF m

Capped(t, b, cap) ==
  t = [b EXCEPT !.chunks = First(cap, b.chunks),
                !.trimmed = b.trimmed + Max({0, Len(b.chunks) - cap})]

\* Capping one bundle.
LEMMA CapFacts ==
  ASSUME NEW P, NEW D, NEW b \in BundleSet(P, D), NEW cap \in Nat \ {0},
         NEW t, Capped(t, b, cap)
  PROVE  /\ t \in BundleSet(P, D) /\ t.probe = b.probe /\ t.selected = b.selected
         /\ ToSet(t.chunks) \subseteq ToSet(b.chunks)
         /\ Len(t.chunks) + t.trimmed = Len(b.chunks) + b.trimmed
         /\ t.chunks = <<>> <=> b.chunks = <<>>
<1>. DEFINE cs == b.chunks
            left == First(cap, cs)
            x == Len(cs) - cap
            gone == b.trimmed + Max({0, x})
<1>1. b \in [probe : P, chunks : Seq(Cands(D)), selected : Nat, trimmed : Nat, status : Statuses]
  BY DEF BundleSet
<1>2. cs \in Seq(Cands(D)) /\ b.trimmed \in Nat
  BY <1>1
<1>3. t = [b EXCEPT !.chunks = left, !.trimmed = gone]
  BY DEF Capped
<1>. HIDE DEF cs
<1>4. /\ left \in Seq(Cands(D)) /\ ToSet(left) \subseteq ToSet(cs)
      /\ Len(left) = IF cap <= Len(cs) THEN cap ELSE Len(cs)
  <2>1. cap \in Nat /\ cap \in Int
    OBVIOUS
  <2>2. left \in Seq(Cands(D)) /\ ToSet(left) \subseteq ToSet(cs)
    BY <1>2, <2>1, Firsts
  <2>. QED BY <1>2, <2>1, <2>2, FirstFacts
<1>. HIDE DEF left
<1>5. Len(cs) \in Nat /\ (Len(cs) = 0 <=> cs = <<>>) /\ (Len(left) = 0 <=> left = <<>>)
  BY <1>2, <1>4, LenProperties, EmptySeq
<1>6. x \in Int
  BY <1>5
<1>7. 0 \in Int
  OBVIOUS
<1>8. Max({0, x}) = IF x <= 0 THEN 0 ELSE x
  <2>. HIDE DEF x
  <2>1. Max({0, x}) \in {0, x} /\ 0 <= Max({0, x}) /\ x <= Max({0, x})
    BY <1>6, <1>7, OfTwo
  <2>. QED BY <1>6, <2>1
<1>9. gone \in Nat /\ Len(left) + gone = Len(cs) + b.trimmed
  BY <1>2, <1>4, <1>5, <1>8
<1>. HIDE DEF gone
<1>10. /\ t \in BundleSet(P, D) /\ t.probe = b.probe /\ t.selected = b.selected
       /\ t.chunks = left /\ t.trimmed = gone
  BY <1>1, <1>3, <1>4, <1>9 DEF BundleSet
<1>11. left = <<>> <=> cs = <<>>
  BY <1>4, <1>5
<1>. QED BY <1>4, <1>9, <1>10, <1>11 DEF cs

\* The cap of each probe takes chunks away, but never the last.
LEMMA PerProbeFacts ==
  ASSUME NEW P, NEW D, NEW bs \in Seq(BundleSet(P, D)), NEW l
  PROVE  /\ PerProbe(bs, l) \in Seq(BundleSet(P, D)) /\ Shrunk(PerProbe(bs, l), bs)
         /\ \A k \in DOMAIN bs : PerProbe(bs, l)[k].chunks = <<>> <=> bs[k].chunks = <<>>
<1>. DEFINE cap == Max({1, MaxChunks \div MaxProbes})
            t == [k \in DOMAIN bs |->
                   [bs[k] EXCEPT !.chunks = First(cap, bs[k].chunks),
                       !.trimmed = bs[k].trimmed + Max({0, Len(bs[k].chunks) - cap})]]
            n == Len(bs)
<1>1. PerProbe(bs, l) = bs \/ PerProbe(bs, l) = t
  BY DEF PerProbe
<1>2. Shrunk(bs, bs)
  BY DEF Shrunk
<1>3. cap \in Nat \ {0}
  <2>. DEFINE x == MaxChunks \div MaxProbes
  <2>1. x \in Int
    BY RetrievalAssumption
  <2>2. cap = Max({1, x})
    OBVIOUS
  <2>. HIDE DEF x, cap
  <2>. QED BY <2>1, <2>2, AtLeastOne
<1>. HIDE DEF cap
<1>4. n \in Nat /\ DOMAIN bs = 1..n /\ \A k \in 1..n : bs[k] \in BundleSet(P, D)
  BY LenProperties
<1>5. ASSUME NEW k \in 1..n
      PROVE  /\ t[k] \in BundleSet(P, D) /\ t[k].probe = bs[k].probe /\ t[k].selected = bs[k].selected
             /\ ToSet(t[k].chunks) \subseteq ToSet(bs[k].chunks)
             /\ Len(t[k].chunks) + t[k].trimmed = Len(bs[k].chunks) + bs[k].trimmed
             /\ t[k].chunks = <<>> <=> bs[k].chunks = <<>>
  <2>. DEFINE b == bs[k]
              u == t[k]
  <2>1. b \in BundleSet(P, D)
    BY <1>4
  <2>2. Capped(u, b, cap)
    BY <1>4 DEF Capped
  <2>. HIDE DEF b, u
  <2>3. /\ u \in BundleSet(P, D) /\ u.probe = b.probe /\ u.selected = b.selected
        /\ ToSet(u.chunks) \subseteq ToSet(b.chunks)
        /\ Len(u.chunks) + u.trimmed = Len(b.chunks) + b.trimmed
        /\ u.chunks = <<>> <=> b.chunks = <<>>
    BY <1>3, <2>1, <2>2, CapFacts
  <2>. HIDE DEF t
  <2>. QED BY <2>3 DEF b, u
<1>6. DOMAIN t = 1..n /\ t = [k \in 1..n |-> t[k]]
  BY <1>4
<1>. HIDE DEF t
<1>7. t \in Seq(BundleSet(P, D)) /\ Len(t) = n
  <2>1. t \in [1..n -> BundleSet(P, D)]
    BY <1>5, <1>6
  <2>. QED BY <1>4, <2>1, Listed
<1>8. Shrunk(t, bs)
  BY <1>4, <1>5, <1>6, <1>7 DEF Shrunk
<1>9. \A k \in DOMAIN bs : t[k].chunks = <<>> <=> bs[k].chunks = <<>>
  BY <1>4, <1>5
<1>. QED BY <1>1, <1>2, <1>7, <1>8, <1>9

\* Trimming twice is trimming.
LEMMA ShrunkTransitive ==
  ASSUME NEW r, NEW s, NEW t, Shrunk(t, s), Shrunk(s, r)
  PROVE  Shrunk(t, r)
BY DEF Shrunk

\* A lane after trimming.
LEMMA TrimmedLaneFacts ==
  ASSUME NEW P, \A p \in P : p.topK \in Int, NEW D, NEW bs \in Seq(BundleSet(P, D)),
         NEW l \in ToSet(Lanes)
  PROVE  /\ TrimmedLane(bs, l) \in Seq(BundleSet(P, D)) /\ Shrunk(TrimmedLane(bs, l), bs)
         /\ IsFiniteSet(Pairs(TrimmedLane(bs, l)))
         /\ Cardinality(Pairs(TrimmedLane(bs, l))) <= Max({LaneCap(l), NonEmpty(bs)})
         /\ \A k \in DOMAIN bs : (\A j \in 1..k : bs[j].chunks # <<>>)
                                  => TrimmedLane(bs, l)[k].chunks # <<>>
<1>. DEFINE capped == PerProbe(bs, l)
            max == Max({LaneCap(l), NonEmpty(capped)})
            t == Trimmed(capped, max)
<1>1. TrimmedLane(bs, l) = t
  BY DEF TrimmedLane
<1>2. /\ capped \in Seq(BundleSet(P, D)) /\ Shrunk(capped, bs)
      /\ \A k \in DOMAIN bs : capped[k].chunks = <<>> <=> bs[k].chunks = <<>>
  BY PerProbeFacts
<1>. HIDE DEF capped
<1>3. DOMAIN capped = DOMAIN bs
  BY <1>2 DEF Shrunk
<1>4. NonEmpty(capped) = NonEmpty(bs)
  BY <1>2, <1>3 DEF NonEmpty
<1>5. NonEmpty(capped) \in Nat /\ LaneCap(l) \in Nat
  BY <1>2, UpToFacts, LaneCapFacts
<1>6. max \in Nat /\ max >= NonEmpty(capped)
  <2>. DEFINE x == LaneCap(l)
              y == NonEmpty(capped)
  <2>1. x \in Int /\ y \in Int /\ y \in Nat /\ x \in Nat
    BY <1>5
  <2>. HIDE DEF x, y
  <2>2. Max({x, y}) \in {x, y} /\ y <= Max({x, y})
    BY <2>1, OfTwo
  <2>. QED BY <2>1, <2>2 DEF x, y
<1>. HIDE DEF max
<1>7. /\ t \in Seq(BundleSet(P, D)) /\ Shrunk(t, capped)
      /\ IsFiniteSet(Pairs(t)) /\ Cardinality(Pairs(t)) <= max
      /\ \A k \in DOMAIN capped : (\A j \in 1..k : capped[j].chunks # <<>>)
                                  => t[k].chunks # <<>>
  BY <1>2, <1>6, TrimmedFacts
<1>. HIDE DEF t
<1>8. Shrunk(t, bs)
  BY <1>2, <1>7, ShrunkTransitive
<1>9. ASSUME NEW k \in DOMAIN bs, \A j \in 1..k : bs[j].chunks # <<>>
      PROVE  t[k].chunks # <<>>
  <2>1. \A j \in 1..k : j \in DOMAIN bs
    BY LenProperties
  <2>. QED BY <1>2, <1>3, <1>7, <1>9, <2>1
<1>. QED BY <1>1, <1>4, <1>7, <1>8, <1>9 DEF max

-----------------------------------------------------------------------------
(***************************************************************************)
(* The full audit.                                                         *)
(***************************************************************************)

\* The n-th slice of what is left of a file, and how many there are.
Slices(ds) == (Len(ds) + FullAuditPerProbe - 1) \div FullAuditPerProbe

SliceOf(ds, n) == SubSeq(ds, n * FullAuditPerProbe + 1, Min({Len(ds), (n + 1) * FullAuditPerProbe}))

AuditOf(probe, ds) ==
  Bundle(probe, [k \in DOMAIN ds |-> Candidate(ds[k], AuditProbe(ds[k], 0), 0, 100, 0, "full_audit")])

\* A slice is not empty, and each document is in one of them.
LEMMA SliceFacts ==
  ASSUME NEW S, NEW ds \in Seq(S)
  PROVE  /\ Slices(ds) \in Nat
         /\ \A n \in 1..Slices(ds) : SliceOf(ds, n - 1) \in Seq(S) /\ Len(SliceOf(ds, n - 1)) # 0
         /\ \A p \in 1..Len(ds) : \E n \in 1..Slices(ds) :
              \E k \in 1..Len(SliceOf(ds, n - 1)) : SliceOf(ds, n - 1)[k] = ds[p]
<1>. DEFINE L == Len(ds)
            m == Slices(ds)
            to(n) == Min({L, n * 6})
<1>1. L \in Nat /\ ds \in [1..L -> S]
  BY LenProperties
<1>2. m = (L + 5) \div 6
  BY <1>1 DEF Slices, FullAuditPerProbe
<1>3. m \in Nat /\ 6 * m <= L + 5 /\ L <= 6 * m
  BY <1>1, <1>2
<1>. HIDE DEF m
<1>4. ASSUME NEW n \in 1..m
      PROVE  /\ SliceOf(ds, n - 1) \in Seq(S)
             /\ 6 * (n - 1) + 1 <= to(n) /\ to(n) \in {L, 6 * n} /\ to(n) <= L /\ to(n) <= 6 * n
             /\ Len(SliceOf(ds, n - 1)) = to(n) - 6 * (n - 1)
             /\ \A k \in 1..Len(SliceOf(ds, n - 1)) : SliceOf(ds, n - 1)[k] = ds[6 * (n - 1) + k]
  <2>. DEFINE x == n * 6
              a == (n - 1) * 6 + 1
              b == Min({L, x})
              s == SubSeq(ds, a, b)
  <2>1. n \in Int /\ n >= 1 /\ n <= m
    BY <1>3
  <2>2. x \in Int /\ L \in Int /\ a \in Int /\ a = x - 5 /\ a >= 1
    BY <1>1, <2>1
  <2>3. SliceOf(ds, n - 1) = s
    <3>1. (n - 1) + 1 = n
      BY <2>1
    <3>. QED BY <3>1 DEF SliceOf, FullAuditPerProbe
  <2>4. x = 6 * n /\ 6 * (n - 1) = a - 1
    BY <2>1
  <2>5. x <= 6 * m
    BY <1>3, <2>1, <2>4
  <2>6. to(n) = b
    OBVIOUS
  <2>. HIDE DEF x, a, L
  <2>7. b \in {L, x} /\ b <= L /\ b <= x
    BY <2>2, OfTwo
  <2>. HIDE DEF b, to
  <2>8. a <= b
    BY <1>3, <2>2, <2>5, <2>7
  <2>9. a \in 1..(L + 1) /\ b \in 0..L /\ b \in Int
    BY <1>1, <2>2, <2>7, <2>8
  <2>10. /\ s \in Seq(S) /\ Len(s) = IF a <= b THEN b - a + 1 ELSE 0
         /\ \A i \in 1..(b - a + 1) : s[i] = ds[a + i - 1]
    BY <2>9, SubSeqProperties DEF L
  <2>. HIDE DEF s
  <2>11. Len(s) = b - 6 * (n - 1)
    BY <2>2, <2>4, <2>8, <2>9, <2>10
  <2>12. ASSUME NEW k \in 1..Len(s) PROVE s[k] = ds[6 * (n - 1) + k]
    <3>1. k \in 1..(b - a + 1) /\ a + k - 1 = 6 * (n - 1) + k
      BY <2>2, <2>4, <2>8, <2>9, <2>10
    <3>. QED BY <2>10, <3>1
  <2>. QED BY <2>3, <2>4, <2>6, <2>7, <2>8, <2>10, <2>11, <2>12, <2>2
<1>. HIDE DEF L, to
<1>5. ASSUME NEW n \in 1..m
      PROVE  SliceOf(ds, n - 1) \in Seq(S) /\ Len(SliceOf(ds, n - 1)) # 0
  <2>. DEFINE x == to(n)
              s == SliceOf(ds, n - 1)
  <2>1. s \in Seq(S) /\ 6 * (n - 1) + 1 <= x /\ x \in {L, 6 * n} /\ Len(s) = x - 6 * (n - 1)
    BY <1>4
  <2>. HIDE DEF x, s
  <2>2. n \in Int /\ x \in Int
    BY <1>1, <1>3, <2>1
  <2>3. Len(s) # 0
    BY <2>1, <2>2
  <2>. QED BY <2>1, <2>3 DEF s
<1>6. ASSUME NEW p \in 1..L
      PROVE  \E n \in 1..m : \E k \in 1..Len(SliceOf(ds, n - 1)) : SliceOf(ds, n - 1)[k] = ds[p]
  <2>. DEFINE q == (p - 1) \div 6
              n == q + 1
              k == p - 6 * q
  <2>1. p \in Int /\ 1 <= p /\ p <= L
    BY <1>1
  <2>2. q \in Int /\ 0 <= q /\ 6 * q <= p - 1 /\ p - 1 <= 6 * q + 5
    BY <2>1
  <2>. HIDE DEF q
  <2>3. n \in 1..m /\ n - 1 = q
    BY <1>1, <1>3, <2>1, <2>2
  <2>4. k \in 1..6 /\ 6 * q + k = p
    BY <2>1, <2>2
  <2>5. Len(SliceOf(ds, n - 1)) = to(n) - 6 * (n - 1) /\ to(n) \in {L, 6 * n}
    BY <1>4, <2>3
  <2>6. k <= Len(SliceOf(ds, n - 1)) /\ Len(SliceOf(ds, n - 1)) \in Int
    <3>1. 6 * n = 6 * q + 6 /\ 6 * (n - 1) = 6 * q
      BY <2>2
    <3>. HIDE DEF n, k
    <3>. QED BY <1>1, <2>1, <2>2, <2>4, <2>5, <3>1
  <2>7. SliceOf(ds, n - 1)[k] = ds[6 * (n - 1) + k]
    <3>1. k \in Int /\ 1 <= k
      BY <2>4
    <3>. HIDE DEF n, k
    <3>2. k \in 1..Len(SliceOf(ds, n - 1))
      BY <2>6, <3>1
    <3>. QED BY <1>4, <2>3, <3>2
  <2>8. 6 * (n - 1) + k = p
    BY <2>3, <2>4
  <2>. HIDE DEF n, k
  <2>9. k \in 1..Len(SliceOf(ds, n - 1))
    BY <2>4, <2>6
  <2>. QED BY <2>3, <2>7, <2>8, <2>9
<1>. QED BY <1>3, <1>5, <1>6 DEF m, L

\* What an audit shows of a slice.
LEMMA AuditOfFacts ==
  ASSUME NEW S, NEW ds \in Seq(S), Len(ds) # 0, NEW probe
  PROVE  /\ AuditOf(probe, ds).probe = probe /\ AuditOf(probe, ds).chunks # <<>>
         /\ AuditOf(probe, ds).selected = Len(AuditOf(probe, ds).chunks) + AuditOf(probe, ds).trimmed
         /\ \A k \in 1..Len(ds) : <<ds[k].file, ds[k].index>> \in Keys(AuditOf(probe, ds).chunks)
<1>. DEFINE cand(k) == Candidate(ds[k], AuditProbe(ds[k], 0), 0, 100, 0, "full_audit")
            cs == [k \in DOMAIN ds |-> cand(k)]
            b == AuditOf(probe, ds)
            n == Len(ds)
<1>1. /\ b.probe = probe /\ b.chunks = cs /\ b.selected = Len(cs) /\ b.trimmed = 0
  BY DEF AuditOf, Bundle
<1>2. n \in Nat /\ DOMAIN ds = 1..n
  BY LenProperties
<1>3. \A k \in 1..n : cand(k).doc = ds[k]
  BY DEF Candidate
<1>. HIDE DEF cand, b
<1>4. cs \in [1..n -> {cand(k) : k \in 1..n}]
  BY <1>2
<1>5. \A k \in 1..n : cs[k] = cand(k)
  BY <1>2
<1>. HIDE DEF cs
<1>6. cs \in Seq({cand(k) : k \in 1..n}) /\ Len(cs) = n
  <2>. DEFINE C == {cand(k) : k \in 1..n}
  <2>1. n \in Nat /\ cs \in [1..n -> C]
    BY <1>2, <1>4
  <2>. HIDE DEF C, n
  <2>2. cs \in Seq(C) /\ Len(cs) = n
    BY <2>1, Listed
  <2>. QED BY <2>2 DEF C
<1>7. DOMAIN cs = 1..n
  BY <1>4
<1>8. \A k \in 1..n : <<ds[k].file, ds[k].index>> \in Keys(cs)
  BY <1>3, <1>5, <1>7 DEF Keys, Key
<1>9. cs # <<>> /\ n = n + 0
  BY <1>2, <1>6, EmptySeq
<1>. QED BY <1>1, <1>6, <1>8, <1>9 DEF b, n

\* What coverage bundles show.
SeenBroadly(bs) ==
  UNION {Keys(bs[k].chunks) : k \in {j \in DOMAIN bs : bs[j].probe.lane = "coverage"}}

\* An audit shows what the coverage bundles do not.
LEMMA AuditFacts ==
  ASSUME NEW S, NEW docs \in Seq(S), \A d \in ToSet(docs) : d.file \in ToSet(Paths), NEW bs
  PROVE  /\ AuditBundles(docs, bs) \in Seq(ToSet(AuditBundles(docs, bs)))
         /\ \A b \in ToSet(AuditBundles(docs, bs)) :
              /\ b.probe.lane = "coverage" /\ b.chunks # <<>>
              /\ b.selected = Len(b.chunks) + b.trimmed
         /\ \A d \in ToSet(docs) : <<d.file, d.index>> \notin SeenBroadly(bs) =>
              \E b \in ToSet(AuditBundles(docs, bs)) : <<d.file, d.index>> \in Keys(b.chunks)
<1>. DEFINE at == {k \in DOMAIN docs : <<docs[k].file, docs[k].index>> \notin SeenBroadly(bs)}
            left == ElementsAt(docs, at)
            of(file) == ElementsAt(left, {k \in DOMAIN left : left[k].file = file})
            slice(file, n) == AuditOf(AuditProbe(of(file)[1], n), SliceOf(of(file), n))
            seqs == [f \in DOMAIN Paths |-> [n \in 1..Slices(of(Paths[f])) |-> slice(Paths[f], n - 1)]]
            B == UNION {{slice(Paths[f], n - 1) : n \in 1..Slices(of(Paths[f]))} : f \in DOMAIN Paths}
            audit == AuditBundles(docs, bs)
<1>1. audit = FlattenSeq(seqs)
  BY DEF AuditBundles, SeenBroadly, Unseen, Chosen, Slices, SliceOf, AuditOf
<1>2. at \subseteq DOMAIN docs
  OBVIOUS
<1>3. \A d \in ToSet(docs) : <<d.file, d.index>> \notin SeenBroadly(bs) =>
         \E p \in at : docs[p] = d
  BY DEF ToSet
<1>. HIDE DEF at, audit
<1>4. left \in Seq(S) /\ ToSet(left) = {docs[p] : p \in at}
  BY <1>2, ChosenFacts
<1>. HIDE DEF left
<1>5. ASSUME NEW file
      PROVE  of(file) \in Seq(S) /\ ToSet(of(file)) = {d \in ToSet(left) : d.file = file}
  <2>. DEFINE on == {k \in DOMAIN left : left[k].file = file}
              o == of(file)
  <2>1. on \subseteq DOMAIN left /\ o = ElementsAt(left, on)
    OBVIOUS
  <2>2. {left[k] : k \in on} = {d \in ToSet(left) : d.file = file}
    BY DEF ToSet
  <2>. HIDE DEF on, o
  <2>3. o \in Seq(S) /\ ToSet(o) = {left[k] : k \in on}
    BY <1>4, <2>1, ChosenFacts
  <2>. QED BY <2>2, <2>3 DEF o
<1>. HIDE DEF of
<1>6. ASSUME NEW file
      PROVE  /\ Slices(of(file)) \in Nat
             /\ \A n \in 1..Slices(of(file)) :
                  SliceOf(of(file), n - 1) \in Seq(S) /\ Len(SliceOf(of(file), n - 1)) # 0
             /\ \A p \in 1..Len(of(file)) : \E n \in 1..Slices(of(file)) :
                  \E k \in 1..Len(SliceOf(of(file), n - 1)) : SliceOf(of(file), n - 1)[k] = of(file)[p]
  BY <1>5, SliceFacts
<1>7. ASSUME NEW file, NEW n \in 1..Slices(of(file))
      PROVE  LET b == slice(file, n - 1) IN
             /\ b.probe.lane = "coverage" /\ b.chunks # <<>>
             /\ b.selected = Len(b.chunks) + b.trimmed
             /\ \A k \in 1..Len(SliceOf(of(file), n - 1)) :
                  <<SliceOf(of(file), n - 1)[k].file, SliceOf(of(file), n - 1)[k].index>> \in Keys(b.chunks)
  <2>. DEFINE ds == SliceOf(of(file), n - 1)
              probe == AuditProbe(of(file)[1], n - 1)
              b == AuditOf(probe, ds)
  <2>1. ds \in Seq(S) /\ Len(ds) # 0
    BY <1>6
  <2>2. probe.lane = "coverage"
    BY DEF AuditProbe
  <2>. HIDE DEF ds, probe
  <2>3. /\ b.probe = probe /\ b.chunks # <<>> /\ b.selected = Len(b.chunks) + b.trimmed
        /\ \A k \in 1..Len(ds) : <<ds[k].file, ds[k].index>> \in Keys(b.chunks)
    BY <2>1, AuditOfFacts
  <2>4. slice(file, n - 1) = b
    BY DEF ds, probe
  <2>. HIDE DEF b, slice
  <2>. QED BY <2>2, <2>3, <2>4 DEF ds
<1>. HIDE DEF slice
<1>8. DOMAIN Paths = 1..Len(Paths) /\ Len(Paths) \in Nat
  BY PlanAssumption, LenProperties
<1>9. ASSUME NEW f \in DOMAIN Paths
      PROVE  /\ seqs[f] \in Seq(B)
             /\ ToSet(seqs[f]) = {slice(Paths[f], n - 1) : n \in 1..Slices(of(Paths[f]))}
  <2>. DEFINE s == seqs[f]
              m == Slices(of(Paths[f]))
  <2>1. s = [n \in 1..m |-> slice(Paths[f], n - 1)] /\ m \in Nat
    BY <1>6
  <2>2. s \in [1..m -> B]
    BY <2>1
  <2>3. ToSet(s) = {slice(Paths[f], n - 1) : n \in 1..m}
    BY <2>1 DEF ToSet
  <2>. HIDE DEF s, m, B
  <2>4. s \in Seq(B)
    BY <2>1, <2>2, Listed
  <2>. QED BY <2>3, <2>4 DEF s, m
<1>10. seqs \in Seq(Seq(B)) /\ DOMAIN seqs = DOMAIN Paths
  <2>1. seqs \in [1..Len(Paths) -> Seq(B)]
    <3>1. seqs = [f \in 1..Len(Paths) |-> seqs[f]]
      BY <1>8
    <3>. HIDE DEF seqs, B
    <3>. QED BY <1>8, <1>9, <3>1
  <2>2. DOMAIN seqs = DOMAIN Paths
    OBVIOUS
  <2>. HIDE DEF seqs
  <2>. QED BY <1>8, <2>1, <2>2, Listed
<1>. HIDE DEF B, seqs
<1>11. /\ audit \in Seq(B)
       /\ \A x : x \in ToSet(audit) <=> \E k \in DOMAIN seqs : x \in ToSet(seqs[k])
  BY <1>1, <1>10, FlatFacts
<1>12. audit \in Seq(ToSet(audit))
  BY <1>11, ToSetFacts
<1>13. \A b \in ToSet(audit) : /\ b.probe.lane = "coverage" /\ b.chunks # <<>>
                               /\ b.selected = Len(b.chunks) + b.trimmed
  BY <1>7, <1>9, <1>10, <1>11
<1>14. ASSUME NEW d \in ToSet(docs), <<d.file, d.index>> \notin SeenBroadly(bs)
       PROVE  \E b \in ToSet(audit) : <<d.file, d.index>> \in Keys(b.chunks)
  <2>1. d \in ToSet(left)
    BY <1>3, <1>4, <1>14
  <2>2. PICK f \in DOMAIN Paths : Paths[f] = d.file
    BY DEF ToSet
  <2>. DEFINE o == of(Paths[f])
  <2>3. d \in ToSet(o) /\ o \in Seq(S)
    BY <1>5, <2>1, <2>2
  <2>4. PICK p \in 1..Len(o) : o[p] = d
    <3>. HIDE DEF o
    <3>. QED BY <2>3, LenProperties DEF ToSet
  <2>5. PICK n \in 1..Slices(o) : \E k \in 1..Len(SliceOf(o, n - 1)) : SliceOf(o, n - 1)[k] = o[p]
    BY <1>6
  <2>6. <<d.file, d.index>> \in Keys(slice(Paths[f], n - 1).chunks)
    BY <1>7, <2>4, <2>5
  <2>7. slice(Paths[f], n - 1) \in ToSet(audit)
    BY <1>9, <1>10, <1>11
  <2>. QED BY <2>6, <2>7
<1>. QED BY <1>12, <1>13, <1>14 DEF audit

-----------------------------------------------------------------------------
(***************************************************************************)
(* The plan.                                                               *)
(***************************************************************************)

\* A probe of a plan: only coverage probes have a file of their own.
IsProbe(p) ==
  p.lane \in ToSet(Lanes) /\ p.topK \in Int /\ (p.lane # "coverage" => p.scope = NoValue)

\* A finite set, listed.
LEMMA SetToSeqFacts ==
  ASSUME NEW T, IsFiniteSet(T)
  PROVE  SetToSeq(T) \in Seq(T)
<1>. DEFINE n == Cardinality(T)
<1>1. n \in Nat /\ ExistsBijection(1..n, T)
  BY FS_CardinalityType
<1>. HIDE DEF n
<1>2. \E f \in [1..n -> T] : IsInjective(f)
  BY <1>1 DEF ExistsBijection, Bijection, Injection
<1>3. SetToSeq(T) \in [1..n -> T]
  <2>. DEFINE s == CHOOSE f \in [1..n -> T] : IsInjective(f)
  <2>1. s \in [1..n -> T]
    <3>. HIDE DEF IsInjective
    <3>. QED BY <1>2
  <2>2. SetToSeq(T) = s
    BY DEF SetToSeq, n
  <2>. QED BY <2>1, <2>2
<1>. QED BY <1>1, <1>3, Listed

\* Probes of files: of that lane, with six chunks.
LEMMA CoverageProbesFacts ==
  ASSUME NEW docs
  PROVE  \E B : CoverageProbes(Marked, docs) \in Seq(B) /\ \A p \in B : IsProbe(p)
<1>. DEFINE files == FilesToReview(Marked, docs)
            of(priority) == ElementsAt(files, {k \in DOMAIN files :
                              FilePriority(files[k], RisksOf(files[k], docs)) = priority})
            audited == of("high") \o of("medium")
            m == Min({Len(audited), MaxFileAudits})
            probe(f) == CoverageProbe(f, RisksOf(f, docs))
            B == {probe(audited[k]) : k \in 1..m}
            probes == [k \in 1..m |-> probe(audited[k])]
<1>1. CoverageProbes(Marked, docs) = probes
  BY DEF CoverageProbes, Chosen
<1>2. files \in Seq(ToSet(Paths))
  <2>. DEFINE at == {k \in DOMAIN Paths : Paths[k] \in Marked \cup {docs[j].file : j \in DOMAIN docs}}
  <2>1. files = ElementsAt(Paths, at) /\ at \subseteq DOMAIN Paths
    BY DEF FilesToReview, Chosen
  <2>. HIDE DEF files, at
  <2>. QED BY <2>1, PlanAssumption, ChosenFacts
<1>. HIDE DEF files
<1>3. \A priority : of(priority) \in Seq(ToSet(Paths))
  BY <1>2, ChosenFacts
<1>. HIDE DEF of
<1>4. audited \in Seq(ToSet(Paths))
  BY <1>3, JoinFacts
<1>. HIDE DEF audited
<1>5. m \in Nat
  <2>. DEFINE x == Len(audited)
  <2>1. x \in Nat /\ MaxFileAudits \in Nat /\ x \in Int /\ MaxFileAudits \in Int
    BY <1>4, LenProperties, PlanAssumption
  <2>. HIDE DEF x
  <2>2. Min({x, MaxFileAudits}) \in {x, MaxFileAudits}
    BY <2>1, OfTwo
  <2>. QED BY <2>1, <2>2 DEF x
<1>6. \A f : IsProbe(probe(f))
  BY LanesFacts DEF IsProbe, CoverageProbe
<1>. HIDE DEF m, probe
<1>7. probes \in [1..m -> B]
  OBVIOUS
<1>8. \A p \in B : IsProbe(p)
  BY <1>6
<1>. HIDE DEF B, probes
<1>9. probes \in Seq(B)
  BY <1>5, <1>7, Listed
<1>. QED BY <1>1, <1>8, <1>9

\* Probes of rules: no file of their own, two chunks.
LEMMA RoadmapProbesFacts ==
  ASSUME NEW rules, IsFiniteSet(rules)
  PROVE  \E B : RoadmapProbes(rules) \in Seq(B) /\ \A p \in B : IsProbe(p)
<1>. DEFINE names == <<"ai", "performance", "realtime", "requirement", "security", "structure">>
            categories == ElementsAt(names, {k \in DOMAIN names : \E r \in rules : ReviewCategory(r) = names[k]})
            of(c) == {r \in rules : ReviewCategory(r) = c}
            ordered(c) == Sorted(SetToSeq(of(c)), RuleBefore)
            B == {RoadmapProbe(r) : r \in rules}
            seqs == [k \in DOMAIN categories |->
                      [j \in DOMAIN ordered(categories[k]) |-> RoadmapProbe(ordered(categories[k])[j])]]
<1>1. RoadmapProbes(rules) = FlattenSeq(seqs)
  BY DEF RoadmapProbes, Chosen
<1>2. DOMAIN categories = 1..Len(categories) /\ Len(categories) \in Nat
  <2>. DEFINE at == {k \in DOMAIN names : \E r \in rules : ReviewCategory(r) = names[k]}
              N == {"ai", "performance", "realtime", "requirement", "security", "structure"}
  <2>1. names \in Seq(N) /\ at \subseteq DOMAIN names /\ categories = ElementsAt(names, at)
    <3>1. names \in Seq(N)
      OBVIOUS
    <3>. QED BY <3>1
  <2>. HIDE DEF names, at, N, categories
  <2>2. categories \in Seq(N)
    BY <2>1, ChosenFacts
  <2>. QED BY <2>2, LenProperties
<1>. HIDE DEF names, categories
<1>3. ASSUME NEW c PROVE ordered(c) \in Seq(rules)
  <2>. DEFINE raw == SetToSeq(of(c))
              order == {p \in ToSet(raw) \X ToSet(raw) : RuleBefore(p[1], p[2])}
  <2>1. of(c) \in SUBSET rules
    OBVIOUS
  <2>. HIDE DEF of
  <2>2. IsFiniteSet(of(c))
    BY <2>1, FS_Subset
  <2>3. raw \in Seq(of(c))
    BY <2>2, SetToSeqFacts
  <2>4. raw \in Seq(rules)
    BY <2>1, <2>3, SeqMonotonic
  <2>. HIDE DEF raw
  <2>5. Sorted(raw, RuleBefore) = InOrder(raw, order)
    BY SMT DEF Sorted
  <2>6. InOrder(raw, order) \in Seq(rules)
    BY <2>4, SortedFacts
  <2>. QED BY <2>5, <2>6 DEF raw
<1>. HIDE DEF ordered
<1>4. ASSUME NEW k \in DOMAIN categories PROVE seqs[k] \in Seq(B)
  <2>. DEFINE o == ordered(categories[k])
              s == seqs[k]
  <2>1. o \in Seq(rules) /\ s = [j \in DOMAIN o |-> RoadmapProbe(o[j])]
    BY <1>3
  <2>. HIDE DEF o, s
  <2>2. DOMAIN o = 1..Len(o) /\ Len(o) \in Nat /\ \A j \in 1..Len(o) : o[j] \in rules
    BY <2>1, LenProperties
  <2>3. s \in [1..Len(o) -> B]
    BY <2>1, <2>2
  <2>. HIDE DEF B
  <2>4. s \in Seq(B)
    BY <2>2, <2>3, Listed
  <2>. QED BY <2>4 DEF s
<1>5. \A p \in B : IsProbe(p)
  BY LanesFacts DEF IsProbe, RoadmapProbe
<1>6. seqs = [k \in 1..Len(categories) |-> seqs[k]]
  BY <1>2
<1>. HIDE DEF B, seqs
<1>7. seqs \in [1..Len(categories) -> Seq(B)]
  BY <1>2, <1>4, <1>6
<1>8. seqs \in Seq(Seq(B))
  BY <1>2, <1>7, Listed
<1>9. FlattenSeq(seqs) \in Seq(B)
  BY <1>8, FlatFacts
<1>. QED BY <1>1, <1>5, <1>9

PlanOK(probes) == probes \in Seq(ToSet(probes)) /\ \A p \in ToSet(probes) : IsProbe(p)

\* A plan is a sequence of probes of the three lanes.
LEMMA PlanFacts ==
  ASSUME NEW docs, NEW profile
  PROVE  PlanOK(Plan(Marked, docs, Rules, profile))
<1>. DEFINE coverage == CoverageProbes(Marked, docs)
            roadmap == RoadmapProbes(Applicable(Rules, profile))
            both == Baseline \o coverage
            all == both \o roadmap
<1>1. Plan(Marked, docs, Rules, profile) = all
  BY DEF Plan
<1>2. PICK C : coverage \in Seq(C) /\ \A p \in C : IsProbe(p)
  BY CoverageProbesFacts
<1>3. PICK R : roadmap \in Seq(R) /\ \A p \in R : IsProbe(p)
  <2>1. Applicable(Rules, profile) \in SUBSET Rules
    BY DEF Applicable
  <2>2. IsFiniteSet(Applicable(Rules, profile))
    BY <2>1, RetrievalAssumption, FS_Subset
  <2>. QED BY <2>2, RoadmapProbesFacts
<1>. HIDE DEF coverage, roadmap
<1>4. /\ Baseline \in Seq(ToSet(Baseline)) /\ \A p \in ToSet(Baseline) : IsProbe(p)
  BY PlanAssumption, LanesFacts DEF IsProbe
<1>. DEFINE T == ToSet(Baseline) \cup C \cup R
<1>5. Baseline \in Seq(T) /\ coverage \in Seq(T) /\ roadmap \in Seq(T)
  BY <1>2, <1>3, <1>4, SeqMonotonic
<1>6. \A p \in T : IsProbe(p)
  BY <1>2, <1>3, <1>4
<1>. HIDE DEF T
<1>7. both \in Seq(T)
  BY <1>5, JoinFacts
<1>. HIDE DEF both
<1>8. all \in Seq(T)
  BY <1>5, <1>7, JoinFacts
<1>. HIDE DEF all
<1>9. all \in Seq(ToSet(all)) /\ ToSet(all) \subseteq T
  BY <1>8, ToSetFacts
<1>. QED BY <1>1, <1>6, <1>9 DEF PlanOK

-----------------------------------------------------------------------------
(***************************************************************************)
(* The inductive invariant.                                                *)
(***************************************************************************)

ProbesFor(lanes) == {p \in ToSet(plan) : p.lane \in lanes}

Before(l) == {Lanes[i] : i \in 1..(l - 1)}

RetrievalTypeOK ==
  /\ corpus \in Corpora /\ fullAudit \in BOOLEAN /\ semantic \in BOOLEAN /\ done \in BOOLEAN
  /\ lane \in 0..4 /\ (done => lane = 4) /\ PlanOK(plan)
  /\ lane \in 1..3 => /\ todo \in Seq(ProbesFor({Lanes[lane]}))
                      /\ found \in Seq(BundleSet(ProbesFor({Lanes[lane]}), ToSet(corpus)))
  /\ lane \notin 1..3 => todo = <<>> /\ found = <<>>
  /\ ~done => bundles \in Seq(BundleSet(ProbesFor(Before(lane)), ToSet(corpus)))

\* Nothing is trimmed away from what was just found.
FreshInv ==
  \A k \in DOMAIN found : found[k].selected = Len(found[k].chunks) /\ found[k].trimmed = 0

Disjoint(b, c) == Keys(b.chunks) \cap Keys(c.chunks) = {}

\* The coverage lane keeps away from all it has seen, the others from nothing.
ApartInv ==
  /\ lane # 2 => excluded = {}
  /\ lane = 2 /\ ~fullAudit =>
       /\ \A k \in DOMAIN bundles : Keys(bundles[k].chunks) \subseteq excluded
       /\ \A k \in DOMAIN found : Keys(found[k].chunks) \subseteq excluded
       /\ \A k \in DOMAIN found : \A j \in DOMAIN bundles : Disjoint(found[k], bundles[j])
       /\ \A k, j \in DOMAIN found : k # j => Disjoint(found[k], found[j])

RetrievalInv ==
  /\ RetrievalTypeOK /\ FreshInv /\ ApartInv
  /\ EveryChunkIsAudited /\ CoverageLooksElsewhere /\ EvidenceSurvives /\ StructuralEvidenceKept

\* EvidenceSurvives, of any bundles.
ShownOf(bs, lanes) ==
  UNION {{<<bs[k].probe.id, key>> : key \in Keys(bs[k].chunks)} :
           k \in {j \in DOMAIN bs : bs[j].probe.lane \in lanes}}

EvidenceOf(bs, lanes) == {k \in DOMAIN bs : bs[k].probe.lane \in lanes /\ bs[k].selected > 0}

FitsOf(bs, lanes, max) ==
  Cardinality(ShownOf(bs, lanes)) <= Max({max, Cardinality(EvidenceOf(bs, lanes))})

CountedOf(bs) == \A k \in DOMAIN bs : bs[k].selected = Len(bs[k].chunks) + bs[k].trimmed

LeadingOf(bs) ==
  \A k \in DOMAIN bs : (\A j \in 1..k : bs[j].selected > 0) => bs[k].chunks # <<>>

\* EvidenceSurvives, in these terms.
LEMMA SurvivesDef ==
  EvidenceSurvives <=>
    /\ CountedOf(bundles) /\ LeadingOf(bundles)
    /\ ~(done /\ fullAudit) => \A l \in 1..(lane - 1) : FitsOf(bundles, {Lanes[l]}, LaneCap(Lanes[l]))
    /\ done /\ ~fullAudit => FitsOf(bundles, ToSet(Lanes), MaxTotal)
BY DEF EvidenceSurvives, CountedOf, LeadingOf, FitsOf, ShownOf, EvidenceOf, Fits, Shown, WithEvidence

\* What fits still fits with less shown, or with more evidence.
LEMMA LessFits ==
  ASSUME NEW X, NEW Y, IsFiniteSet(X), NEW E, IsFiniteSet(E), NEW F, IsFiniteSet(F), NEW max \in Nat,
         Y \subseteq X, Cardinality(E) <= Cardinality(F),
         Cardinality(X) <= Max({max, Cardinality(E)})
  PROVE  Cardinality(Y) <= Max({max, Cardinality(F)})
<1>. DEFINE x == Cardinality(X)
            y == Cardinality(Y)
            e == Cardinality(E)
            f == Cardinality(F)
<1>1. x \in Int /\ y \in Int /\ e \in Int /\ f \in Int /\ y <= x /\ e <= f
  <2>1. Y \in SUBSET X
    OBVIOUS
  <2>. QED BY <2>1, FS_Subset, FS_CardinalityType
<1>2. x <= Max({max, e})
  OBVIOUS
<1>. HIDE DEF x, y, e, f
<1>3. Max({max, e}) \in {max, e}
  BY <1>1, OfTwo
<1>4. Max({max, f}) \in Int /\ max <= Max({max, f}) /\ f <= Max({max, f})
  <2>1. max \in Int
    OBVIOUS
  <2>2. Max({max, f}) \in {max, f} /\ max <= Max({max, f}) /\ f <= Max({max, f})
    BY <1>1, <2>1, OfTwo
  <2>. QED BY <1>1, <2>1, <2>2
<1>5. y <= Max({max, f})
  BY <1>1, <1>2, <1>3, <1>4
<1>. QED BY <1>5 DEF y, f

\* What bundles of some lanes show is of what all show.
LEMMA ShownFacts ==
  ASSUME NEW P, NEW D, NEW bs \in Seq(BundleSet(P, D)), NEW lanes
  PROVE  /\ ShownOf(bs, lanes) \subseteq Pairs(bs) /\ IsFiniteSet(ShownOf(bs, lanes))
         /\ IsFiniteSet(EvidenceOf(bs, lanes))
<1>1. ShownOf(bs, lanes) \in SUBSET Pairs(bs)
  BY DEF ShownOf, Pairs
<1>2. IsFiniteSet(Pairs(bs))
  BY PairsCount
<1>3. EvidenceOf(bs, lanes) \in SUBSET (1..Len(bs)) /\ IsFiniteSet(1..Len(bs))
  <2>1. DOMAIN bs = 1..Len(bs) /\ Len(bs) \in Int
    BY LenProperties
  <2>2. IsFiniteSet(1..Len(bs))
    BY <2>1, FS_Interval
  <2>. QED BY <2>1, <2>2 DEF EvidenceOf
<1>. QED BY <1>1, <1>2, <1>3, FS_Subset

\* Fewer chunks of the same bundles fit as well as they did.
LEMMA ShrunkFits ==
  ASSUME NEW P, NEW D, NEW bs \in Seq(BundleSet(P, D)), NEW t \in Seq(BundleSet(P, D)),
         Shrunk(t, bs), NEW lanes, NEW max \in Nat, FitsOf(bs, lanes, max)
  PROVE  FitsOf(t, lanes, max)
<1>1. EvidenceOf(t, lanes) = EvidenceOf(bs, lanes)
  BY DEF Shrunk, EvidenceOf
<1>2. ShownOf(t, lanes) \subseteq ShownOf(bs, lanes)
  <2>1. \A k \in DOMAIN bs : Keys(t[k].chunks) \subseteq Keys(bs[k].chunks)
    BY KeysFacts DEF Shrunk
  <2>2. DOMAIN t = DOMAIN bs /\ \A k \in DOMAIN bs : t[k].probe = bs[k].probe
    BY DEF Shrunk
  <2>. QED BY <2>1, <2>2 DEF ShownOf
<1>3. IsFiniteSet(ShownOf(bs, lanes)) /\ IsFiniteSet(EvidenceOf(bs, lanes))
  BY ShownFacts
<1>4. Cardinality(EvidenceOf(bs, lanes)) <= Cardinality(EvidenceOf(bs, lanes))
  BY <1>3, FS_CardinalityType
<1>. QED BY <1>1, <1>2, <1>3, <1>4, LessFits DEF FitsOf

\* What was trimmed away stays counted.
LEMMA ShrunkCounted ==
  ASSUME NEW t, NEW bs, Shrunk(t, bs), CountedOf(bs)
  PROVE  CountedOf(t)
BY DEF Shrunk, CountedOf

\* The positions of two sequences, one after the other.
LEMMA JoinPlaces ==
  ASSUME NEW S, NEW s \in Seq(S), NEW t \in Seq(S)
  PROVE  /\ Len(s) \in Nat /\ Len(t) \in Nat /\ DOMAIN s = 1..Len(s) /\ DOMAIN t = 1..Len(t)
         /\ DOMAIN (s \o t) = 1..(Len(s) + Len(t))
         /\ \A k \in 1..Len(s) : k \in DOMAIN (s \o t) /\ (s \o t)[k] = s[k]
         /\ \A k \in 1..Len(t) : Len(s) + k \in DOMAIN (s \o t) /\ (s \o t)[Len(s) + k] = t[k]
         /\ \A k \in DOMAIN (s \o t) : k \in 1..Len(s) \/ k - Len(s) \in 1..Len(t)
<1>1. Len(s) \in Nat /\ Len(t) \in Nat /\ DOMAIN s = 1..Len(s) /\ DOMAIN t = 1..Len(t)
  BY LenProperties
<1>. DEFINE n == Len(s)
            m == Len(t)
            u == s \o t
<1>2. /\ u \in Seq(S) /\ Len(u) = n + m
      /\ \A i \in 1..(n + m) : u[i] = IF i <= n THEN s[i] ELSE t[i - n]
  BY ConcatProperties
<1>3. DOMAIN u = 1..(n + m)
  BY <1>2, LenProperties
<1>. HIDE DEF n, m, u
<1>4. n \in Nat /\ m \in Nat
  BY <1>1 DEF n, m
<1>5. \A k \in 1..n : k \in 1..(n + m) /\ u[k] = s[k]
  BY <1>2, <1>4
<1>6. \A k \in 1..m : n + k \in 1..(n + m) /\ u[n + k] = t[k]
  <2>. SUFFICES ASSUME NEW k \in 1..m PROVE n + k \in 1..(n + m) /\ u[n + k] = t[k]
    OBVIOUS
  <2>1. n + k \in 1..(n + m) /\ ~(n + k <= n) /\ (n + k) - n = k
    BY <1>4
  <2>. QED BY <1>2, <2>1
<1>7. \A k \in 1..(n + m) : k \in 1..n \/ k - n \in 1..m
  BY <1>4
<1>. QED BY <1>1, <1>3, <1>5, <1>6, <1>7 DEF n, m, u

\* More bundles of other lanes show nothing more of these.
LEMMA JoinOthers ==
  ASSUME NEW S, NEW s \in Seq(S), NEW t \in Seq(S), NEW lanes,
         \A k \in DOMAIN t : t[k].probe.lane \notin lanes
  PROVE  /\ ShownOf(s \o t, lanes) = ShownOf(s, lanes)
         /\ EvidenceOf(s \o t, lanes) = EvidenceOf(s, lanes)
<1>. DEFINE u == s \o t
            n == Len(s)
<1>1. /\ n \in Nat /\ DOMAIN s = 1..n /\ DOMAIN t = 1..Len(t)
      /\ \A k \in 1..n : k \in DOMAIN u /\ u[k] = s[k]
      /\ \A k \in 1..Len(t) : n + k \in DOMAIN u /\ u[n + k] = t[k]
      /\ \A k \in DOMAIN u : k \in 1..n \/ k - n \in 1..Len(t)
      /\ DOMAIN u = 1..(n + Len(t)) /\ Len(t) \in Nat
  BY JoinPlaces
<1>. HIDE DEF u, n
<1>2. ASSUME NEW k \in DOMAIN u, u[k].probe.lane \in lanes PROVE k \in 1..n
  <2>1. CASE k - n \in 1..Len(t)
    <3>1. n + (k - n) = k
      BY <1>1
    <3>2. u[k] = t[k - n]
      BY <1>1, <2>1, <3>1
    <3>. QED BY <1>1, <1>2, <2>1, <3>2
  <2>. QED BY <1>1, <2>1
<1>3. {j \in DOMAIN u : u[j].probe.lane \in lanes} = {j \in DOMAIN s : s[j].probe.lane \in lanes}
  BY <1>1, <1>2
<1>4. EvidenceOf(u, lanes) = EvidenceOf(s, lanes)
  BY <1>1, <1>2 DEF EvidenceOf
<1>5. ShownOf(u, lanes) = ShownOf(s, lanes)
  BY <1>1, <1>3 DEF ShownOf
<1>. QED BY <1>4, <1>5 DEF u

\* More bundles of these lanes, after others.
LEMMA JoinOwn ==
  ASSUME NEW S, NEW s \in Seq(S), NEW t \in Seq(S), NEW lanes,
         \A k \in DOMAIN s : s[k].probe.lane \notin lanes,
         \A k \in DOMAIN t : t[k].probe.lane \in lanes
  PROVE  /\ ShownOf(s \o t, lanes) = Pairs(t)
         /\ IsFiniteSet(EvidenceOf(s \o t, lanes))
         /\ Cardinality({k \in DOMAIN t : t[k].selected > 0}) <= Cardinality(EvidenceOf(s \o t, lanes))
<1>. DEFINE u == s \o t
            n == Len(s)
            m == Len(t)
            E == EvidenceOf(u, lanes)
            F == {k \in DOMAIN t : t[k].selected > 0}
            f == [k \in F |-> n + k]
<1>1. /\ n \in Nat /\ DOMAIN s = 1..n /\ DOMAIN t = 1..m
      /\ \A k \in 1..n : k \in DOMAIN u /\ u[k] = s[k]
      /\ \A k \in 1..m : n + k \in DOMAIN u /\ u[n + k] = t[k]
      /\ \A k \in DOMAIN u : k \in 1..n \/ k - n \in 1..m
      /\ DOMAIN u = 1..(n + m) /\ m \in Nat
  BY JoinPlaces
<1>. HIDE DEF u, n, m
<1>2. ASSUME NEW k \in DOMAIN u, u[k].probe.lane \in lanes
      PROVE  k - n \in 1..m /\ n + (k - n) = k /\ u[k] = t[k - n]
  <2>1. k \notin 1..n
    BY <1>1, <1>2
  <2>2. k - n \in 1..m /\ n + (k - n) = k
    BY <1>1, <2>1
  <2>3. u[n + (k - n)] = t[k - n]
    BY <1>1, <2>2
  <2>. QED BY <2>2, <2>3
<1>3. \A k \in 1..m : n + k \in DOMAIN u /\ u[n + k] = t[k] /\ u[n + k].probe.lane \in lanes
  BY <1>1
<1>4. ShownOf(u, lanes) = Pairs(t)
  <2>1. ASSUME NEW x \in ShownOf(u, lanes) PROVE x \in Pairs(t)
    <3>1. PICK k \in DOMAIN u : u[k].probe.lane \in lanes
                                /\ x \in {<<u[k].probe.id, key>> : key \in Keys(u[k].chunks)}
      BY DEF ShownOf
    <3>2. k - n \in DOMAIN t /\ u[k] = t[k - n]
      BY <1>1, <1>2, <3>1
    <3>. QED BY <3>1, <3>2 DEF Pairs
  <2>2. ASSUME NEW x \in Pairs(t) PROVE x \in ShownOf(u, lanes)
    <3>1. PICK k \in 1..m : x \in {<<t[k].probe.id, key>> : key \in Keys(t[k].chunks)}
      BY <1>1 DEF Pairs
    <3>. QED BY <1>3, <3>1 DEF ShownOf
  <2>. QED BY <2>1, <2>2
<1>5. IsFiniteSet(E)
  <2>1. E \in SUBSET (1..(n + m)) /\ IsFiniteSet(1..(n + m))
    BY <1>1, FS_Interval DEF EvidenceOf
  <2>. HIDE DEF E
  <2>. QED BY <2>1, FS_Subset
<1>6. f \in Injection(F, E)
  <2>1. \A k \in F : n + k \in E
    BY <1>1, <1>3 DEF EvidenceOf
  <2>2. F \subseteq Int
    BY <1>1
  <2>. HIDE DEF E, F
  <2>3. f \in [F -> E]
    BY <2>1
  <2>4. \A a, b \in F : n + a = n + b => a = b
    BY <1>1, <2>2
  <2>5. \A a, b \in DOMAIN f : f[a] = f[b] => a = b
    BY <2>4
  <2>. HIDE DEF f
  <2>6. IsInjective(f)
    BY <2>5 DEF IsInjective
  <2>. QED BY <2>3, <2>6 DEF Injection
<1>. HIDE DEF E, F, f
<1>7. Cardinality(F) <= Cardinality(E)
  BY <1>5, <1>6, FS_Injection
<1>. QED BY <1>4, <1>5, <1>7 DEF E, F, u

\* What is counted in two sequences is in both.
LEMMA JoinCounted ==
  ASSUME NEW S, NEW s \in Seq(S), NEW t \in Seq(S), CountedOf(s), CountedOf(t)
  PROVE  CountedOf(s \o t)
<1>. DEFINE u == s \o t
            n == Len(s)
            counted(b) == b.selected = Len(b.chunks) + b.trimmed
<1>1. /\ n \in Nat /\ DOMAIN s = 1..n /\ DOMAIN t = 1..Len(t)
      /\ \A k \in 1..n : k \in DOMAIN u /\ u[k] = s[k]
      /\ \A k \in 1..Len(t) : n + k \in DOMAIN u /\ u[n + k] = t[k]
      /\ \A k \in DOMAIN u : k \in 1..n \/ k - n \in 1..Len(t)
      /\ DOMAIN u = 1..(n + Len(t)) /\ Len(t) \in Nat
  BY JoinPlaces
<1>2. (\A k \in DOMAIN s : counted(s[k])) /\ (\A k \in DOMAIN t : counted(t[k]))
  BY DEF CountedOf
<1>3. CountedOf(u) <=> \A k \in DOMAIN u : counted(u[k])
  BY DEF CountedOf
<1>. HIDE DEF u, n, counted
<1>4. ASSUME NEW k \in DOMAIN u PROVE counted(u[k])
  <2>1. CASE k \in 1..n
    BY <1>1, <1>2, <2>1
  <2>2. CASE k - n \in 1..Len(t)
    <3>1. n + (k - n) = k
      BY <1>1
    <3>2. u[k] = t[k - n]
      BY <1>1, <2>2, <3>1
    <3>. QED BY <1>1, <1>2, <2>2, <3>2
  <2>. QED BY <1>1, <2>1, <2>2
<1>. QED BY <1>3, <1>4 DEF u

\* Leading bundles keep a chunk in both, one after the other.
LEMMA JoinLeading ==
  ASSUME NEW S, NEW s \in Seq(S), NEW t \in Seq(S), LeadingOf(s), LeadingOf(t)
  PROVE  LeadingOf(s \o t)
<1>. DEFINE u == s \o t
            n == Len(s)
<1>1. /\ n \in Nat /\ DOMAIN s = 1..n /\ DOMAIN t = 1..Len(t)
      /\ \A k \in 1..n : k \in DOMAIN u /\ u[k] = s[k]
      /\ \A k \in 1..Len(t) : n + k \in DOMAIN u /\ u[n + k] = t[k]
      /\ \A k \in DOMAIN u : k \in 1..n \/ k - n \in 1..Len(t)
      /\ DOMAIN u = 1..(n + Len(t)) /\ Len(t) \in Nat
  BY JoinPlaces
<1>. HIDE DEF u, n
<1>2. ASSUME NEW k \in DOMAIN u, \A j \in 1..k : u[j].selected > 0
      PROVE  u[k].chunks # <<>>
  <2>1. CASE k \in 1..n
    <3>1. \A j \in 1..k : j \in 1..n
      BY <1>1, <2>1
    <3>2. \A j \in 1..k : s[j].selected > 0
      BY <1>1, <1>2, <3>1
    <3>. QED BY <1>1, <2>1, <3>2 DEF LeadingOf
  <2>2. CASE k - n \in 1..Len(t)
    <3>. DEFINE i == k - n
    <3>1. n + i = k /\ k \in Int /\ i \in 1..Len(t)
      BY <1>1, <2>2
    <3>. HIDE DEF i
    <3>2. \A j \in 1..i : j \in 1..Len(t) /\ n + j \in 1..k
      BY <1>1, <3>1
    <3>3. \A j \in 1..i : t[j].selected > 0
      BY <1>1, <1>2, <3>2
    <3>4. u[k] = t[i]
      BY <1>1, <3>1
    <3>. QED BY <1>1, <3>1, <3>3, <3>4 DEF LeadingOf
  <2>. QED BY <1>1, <2>1, <2>2
<1>. QED BY <1>2 DEF LeadingOf, u

\* The positions of a sequence with one more.
LEMMA AppendPlaces ==
  ASSUME NEW S, NEW s \in Seq(S), NEW x \in S
  PROVE  /\ DOMAIN s = 1..Len(s) /\ Len(s) \in Nat /\ DOMAIN Append(s, x) = 1..(Len(s) + 1)
         /\ \A k \in 1..Len(s) : Append(s, x)[k] = s[k]
         /\ Append(s, x)[Len(s) + 1] = x
<1>1. Append(s, x) \in Seq(S)
  BY AppendFacts
<1>. QED BY <1>1, LenProperties, AppendProperties

\* Bundles of fewer probes are bundles of more.
LEMMA BundlesMonotonic ==
  ASSUME NEW P, NEW Q, P \subseteq Q, NEW D, NEW s \in Seq(BundleSet(P, D))
  PROVE  s \in Seq(BundleSet(Q, D))
<1>1. BundleSet(P, D) \subseteq BundleSet(Q, D)
  BY DEF BundleSet
<1>. QED BY <1>1, SeqMonotonic

\* The probes of one lane.
LEMMA ProbesOfFacts ==
  ASSUME NEW probes, PlanOK(probes), NEW l
  PROVE  ProbesOf(probes, l) \in Seq({p \in ToSet(probes) : p.lane \in {l}})
<1>. DEFINE at == {k \in DOMAIN probes : probes[k].lane = l}
            T == {p \in ToSet(probes) : p.lane \in {l}}
            some == ProbesOf(probes, l)
<1>1. some = ElementsAt(probes, at) /\ at \subseteq DOMAIN probes
  BY DEF ProbesOf, Chosen
<1>2. {probes[k] : k \in at} \subseteq T
  BY DEF ToSet
<1>. HIDE DEF at, T, some
<1>3. some \in Seq(ToSet(probes)) /\ ToSet(some) = {probes[k] : k \in at}
  BY <1>1, ChosenFacts DEF PlanOK
<1>4. some \in Seq(T)
  BY <1>2, <1>3, InSeq
<1>. QED BY <1>4 DEF T, some

\* The next state's EvidenceSurvives.
LEMMA SurvivesNext ==
  EvidenceSurvives' <=>
    /\ CountedOf(bundles') /\ LeadingOf(bundles')
    /\ ~(done' /\ fullAudit') =>
         \A l \in 1..(lane' - 1) : FitsOf(bundles', {Lanes[l]}, LaneCap(Lanes[l])')
    /\ done' /\ ~fullAudit' => FitsOf(bundles', ToSet(Lanes), MaxTotal)
BY DEF EvidenceSurvives, CountedOf, LeadingOf, FitsOf, ShownOf, EvidenceOf, Fits, Shown, WithEvidence

\* Caps depend on the plan and the mode only.
LEMMA CapUnchanged ==
  ASSUME UNCHANGED <<plan, fullAudit>>
  PROVE  \A l : LaneCap(l)' = LaneCap(l)
BY DEF LaneCap, CallBudget, HasRoadmap

\* Without probes there are no bundles.
LEMMA NoBundles == ASSUME NEW D, NEW s \in Seq(BundleSet({}, D)) PROVE s = <<>>
<1>1. BundleSet({}, D) = {}
  BY DEF BundleSet
<1>2. s \in Seq({})
  BY <1>1
<1>3. Len(s) \in Nat /\ \A k \in 1..Len(s) : s[k] \in {}
  BY <1>2, LenProperties
<1>4. Len(s) = 0
  BY <1>3
<1>. QED BY <1>2, <1>4, EmptySeq

-----------------------------------------------------------------------------

\* A review starts with nothing found.
LEMMA InitInv == Init => RetrievalInv
<1>. SUFFICES ASSUME Init PROVE RetrievalInv
  OBVIOUS
<1>1. /\ corpus \in Corpora /\ fullAudit \in BOOLEAN /\ semantic = FALSE
      /\ plan = <<>> /\ lane = 0 /\ todo = <<>> /\ found = <<>> /\ excluded = {}
      /\ bundles = <<>> /\ done = FALSE
  BY DEF Init
<1>2. PlanOK(plan)
  BY <1>1, EmptySeq DEF PlanOK, ToSet
<1>3. bundles \in Seq(BundleSet(ProbesFor(Before(lane)), ToSet(corpus)))
  BY <1>1, EmptySeq
<1>4. RetrievalTypeOK
  <2>1. lane \in 0..4 /\ lane \notin 1..3
    BY <1>1
  <2>2. semantic \in BOOLEAN
    BY <1>1
  <2>3. done \in BOOLEAN
    BY <1>1
  <2>. QED BY <1>1, <1>2, <1>3, <2>1, <2>2, <2>3 DEF RetrievalTypeOK
<1>5. DOMAIN bundles = {} /\ DOMAIN found = {}
  BY <1>1
<1>6. FreshInv /\ ApartInv
  BY <1>1, <1>5 DEF FreshInv, ApartInv
<1>7. EveryChunkIsAudited /\ CoverageLooksElsewhere /\ StructuralEvidenceKept
  BY <1>1, <1>5 DEF EveryChunkIsAudited, CoverageLooksElsewhere, StructuralEvidenceKept
<1>8. CountedOf(bundles) /\ LeadingOf(bundles)
  BY <1>5 DEF CountedOf, LeadingOf
<1>9. EvidenceSurvives
  BY <1>1, <1>8, SurvivesDef
<1>. QED BY <1>4, <1>6, <1>7, <1>9 DEF RetrievalInv

\* The plan is built while nothing is found.
LEMMA PrepareInv == ASSUME RetrievalInv, Prepare PROVE RetrievalInv'
<1>1. /\ lane = 0 /\ lane' = 1 /\ semantic' \in BOOLEAN /\ todo' = ProbesOf(plan', Lanes[1])
      /\ UNCHANGED <<corpus, fullAudit, found, excluded, bundles, done>>
  BY DEF Prepare
<1>2. PICK profile \in Profiles : plan' = Plan(Marked, corpus, Rules, profile)
  BY DEF Prepare
<1>3. RetrievalTypeOK /\ excluded = {} /\ done = FALSE /\ found = <<>>
  BY <1>1 DEF RetrievalInv, ApartInv, RetrievalTypeOK
<1>4. PlanOK(plan')
  <2>1. PlanOK(Plan(Marked, corpus, Rules, profile))
    BY PlanFacts
  <2>. QED BY <1>2, <2>1
<1>5. bundles = <<>>
  <2>1. Before(lane) = {}
    BY <1>1 DEF Before
  <2>2. ProbesFor(Before(lane)) = {}
    BY <2>1 DEF ProbesFor
  <2>3. bundles \in Seq(BundleSet({}, ToSet(corpus)))
    BY <1>3, <2>2 DEF RetrievalTypeOK
  <2>. QED BY <2>3, NoBundles
<1>6. todo' \in Seq(ProbesFor({Lanes[1]})')
  BY <1>1, <1>4, ProbesOfFacts DEF ProbesFor
<1>7. RetrievalTypeOK'
  <2>1. found' = <<>> /\ bundles' = <<>>
    BY <1>1, <1>3, <1>5
  <2>2. \A S : <<>> \in Seq(S)
    BY EmptySeq
  <2>3. /\ corpus' \in Corpora /\ fullAudit' \in BOOLEAN /\ semantic' \in BOOLEAN
        /\ done' \in BOOLEAN /\ lane' \in 0..4 /\ (done' => lane' = 4)
    BY <1>1, <1>3 DEF RetrievalTypeOK
  <2>4. /\ todo' \in Seq(ProbesFor({Lanes[lane]})')
        /\ found' \in Seq(BundleSet(ProbesFor({Lanes[lane]}), ToSet(corpus))')
        /\ bundles' \in Seq(BundleSet(ProbesFor(Before(lane)), ToSet(corpus))')
    BY <1>1, <1>6, <2>1, <2>2 DEF ProbesFor
  <2>5. lane' \in 1..3
    BY <1>1
  <2>. QED BY <1>4, <2>3, <2>4, <2>5 DEF RetrievalTypeOK, PlanOK, IsProbe
<1>8. DOMAIN bundles' = {} /\ DOMAIN found' = {}
  BY <1>1, <1>3, <1>5
<1>9. FreshInv' /\ ApartInv'
  BY <1>1, <1>3, <1>8 DEF FreshInv, ApartInv
<1>10. EveryChunkIsAudited' /\ CoverageLooksElsewhere' /\ StructuralEvidenceKept'
  BY <1>1, <1>3, <1>8 DEF EveryChunkIsAudited, CoverageLooksElsewhere, StructuralEvidenceKept
<1>11. CountedOf(bundles') /\ LeadingOf(bundles')
  BY <1>8 DEF CountedOf, LeadingOf
<1>12. EvidenceSurvives'
  BY <1>1, <1>3, <1>11, SurvivesNext
<1>. QED BY <1>7, <1>9, <1>10, <1>12 DEF RetrievalInv

-----------------------------------------------------------------------------

\* A new bundle holds what was retrieved for it.
LEMMA BundleFacts ==
  ASSUME NEW P, NEW probe \in P, NEW D, NEW cs \in Seq(Cands(D))
  PROVE  /\ Bundle(probe, cs) \in BundleSet(P, D)
         /\ Bundle(probe, cs).probe = probe /\ Bundle(probe, cs).chunks = cs
         /\ Bundle(probe, cs).selected = Len(cs) /\ Bundle(probe, cs).trimmed = 0
<1>. DEFINE status == IF cs = <<>> THEN "no_candidate_evidence" ELSE "ok"
            n == Len(cs)
<1>1. n \in Nat
  BY LenProperties
<1>2. status \in Statuses
  BY DEF Statuses
<1>3. Bundle(probe, cs) = [probe |-> probe, chunks |-> cs, selected |-> n, trimmed |-> 0,
                           status |-> status]
  BY DEF Bundle
<1>. HIDE DEF n, status
<1>. QED BY <1>1, <1>2, <1>3 DEF BundleSet, n

\* StructuralEvidenceKept, of one bundle.
EvidenceKept(b) ==
  b.probe.lane # "coverage" /\ Matching(b.probe) # {}
    => \E j \in DOMAIN b.chunks : IsStructural(b.chunks[j].doc, b.probe)

\* What a retrieval adds.
NewBundle(b) ==
  /\ b \in BundleSet(ProbesFor({Lanes[lane]}), ToSet(corpus))
  /\ b.selected = Len(b.chunks) /\ b.trimmed = 0
  /\ Keys(b.chunks) \cap excluded = {} /\ EvidenceKept(b)

\* One retrieval adds such a bundle.
LEMMA NewBundleFacts ==
  ASSUME RetrievalInv, RetrieveProbe
  PROVE  /\ \E b : NewBundle(b) /\ found' = Append(found, b)
                   /\ excluded' = ExcludedAfter(b.probe, b.chunks)
         /\ todo' \in Seq(ProbesFor({Lanes[lane]}))
<1>. DEFINE T == ProbesFor({Lanes[lane]})
            probe == Head(todo)
<1>1. lane \in 1..3 /\ todo # <<>> /\ todo' = Tail(todo)
  BY LanesFacts DEF RetrieveProbe
<1>2. RetrievalTypeOK /\ ApartInv
  BY DEF RetrievalInv
<1>3. todo \in Seq(T)
  BY <1>1, <1>2 DEF RetrievalTypeOK
<1>4. PICK hit \in Hits :
        LET b == Retrieved(probe, [d \in ToSet(corpus) |-> hit[d.index]]) IN
        found' = Append(found, b) /\ excluded' = ExcludedAfter(probe, b.chunks)
  BY DEF RetrieveProbe
<1>. DEFINE h == [d \in ToSet(corpus) |-> hit[d.index]]
<1>5. corpus \in Corpora
  BY <1>2 DEF RetrievalTypeOK
<1>6. corpus \in Seq(ToSet(corpus)) /\ h \in [ToSet(corpus) -> Scores]
  BY <1>5, RetrievalAssumption DEF Scores
<1>7. found' = Append(found, Retrieved(probe, h))
      /\ excluded' = ExcludedAfter(probe, Retrieved(probe, h).chunks)
  BY <1>4
<1>8. probe \in T /\ Tail(todo) \in Seq(T)
  BY <1>1, <1>3, HeadTailProperties
<1>9. IsProbe(probe) /\ probe.lane = Lanes[lane]
  BY <1>2, <1>8 DEF ProbesFor, RetrievalTypeOK, PlanOK
<1>. HIDE DEF h, probe
<1>10. probe.topK \in Int /\ (probe.lane # "coverage" => probe.scope = NoValue)
  BY <1>9 DEF IsProbe
<1>11. probe.scope = NoValue => InFile(probe) = {}
  BY <1>5, RetrievalAssumption, PlanAssumption DEF InFile
<1>12. PICK chunks \in Seq(Cands(Reach(corpus, excluded))) :
        /\ Retrieved(probe, h) = Bundle(probe, chunks)
        /\ probe.scope = NoValue /\ InFile(probe) = {} /\ excluded = {} /\ Matching(probe) # {}
           => Len(chunks) # 0 /\ chunks[1].doc \in Matching(probe)
  BY <1>6, <1>10, RetrievedFacts
<1>13. chunks \in Seq(Cands(ToSet(corpus)))
  <2>1. Cands(Reach(corpus, excluded)) \subseteq Cands(ToSet(corpus))
    BY DEF Cands, Reach
  <2>. QED BY <2>1, SeqMonotonic
<1>. DEFINE b == Bundle(probe, chunks)
<1>14. b \in BundleSet(T, ToSet(corpus)) /\ b.probe = probe /\ b.chunks = chunks
       /\ b.selected = Len(chunks) /\ b.trimmed = 0
  BY <1>8, <1>13, BundleFacts
<1>. HIDE DEF b
<1>15. DOMAIN chunks = 1..Len(chunks) /\ Len(chunks) \in Nat
       /\ \A k \in DOMAIN chunks : chunks[k] \in Cands(Reach(corpus, excluded))
  BY LenProperties
<1>16. Keys(chunks) \cap excluded = {}
  BY <1>15 DEF Keys, Key, Cands, Reach
<1>17. EvidenceKept(b)
  <2>. SUFFICES ASSUME probe.lane # "coverage", Matching(probe) # {}
                PROVE  \E j \in DOMAIN chunks : IsStructural(chunks[j].doc, probe)
    BY <1>14 DEF EvidenceKept
  <2>1. lane # 2
    BY <1>9, LanesFacts
  <2>2. excluded = {}
    BY <1>2, <2>1 DEF ApartInv
  <2>3. Len(chunks) # 0 /\ chunks[1].doc \in Matching(probe)
    BY <1>10, <1>11, <1>12, <2>2
  <2>4. 1 \in DOMAIN chunks
    BY <1>15, <2>3
  <2>. QED BY <2>3, <2>4 DEF Matching
<1>18. NewBundle(b)
  BY <1>14, <1>16, <1>17 DEF NewBundle
<1>19. found' = Append(found, b) /\ excluded' = ExcludedAfter(b.probe, b.chunks)
  BY <1>7, <1>12, <1>14 DEF b
<1>20. todo' \in Seq(T)
  BY <1>1, <1>8
<1>. QED BY <1>18, <1>19, <1>20

\* StructuralEvidenceKept, bundle by bundle, now and next.
LEMMA EvidenceKeptDef ==
  StructuralEvidenceKept <=> \A k \in DOMAIN found : EvidenceKept(found[k])
BY DEF StructuralEvidenceKept, EvidenceKept, Matching

\* The same of the next state.
LEMMA EvidenceKeptNext ==
  ASSUME corpus' = corpus
  PROVE  StructuralEvidenceKept' <=> \A k \in DOMAIN found' : EvidenceKept(found'[k])
BY DEF StructuralEvidenceKept, EvidenceKept, Matching

\* What holds of each element holds with one more.
LEMMA AppendAll ==
  ASSUME NEW S, NEW s \in Seq(S), NEW x \in S, NEW T,
         \A k \in DOMAIN s : s[k] \in T, x \in T
  PROVE  \A k \in DOMAIN Append(s, x) : Append(s, x)[k] \in T
<1>. DEFINE n == Len(s)
<1>1. /\ DOMAIN s = 1..n /\ n \in Nat /\ DOMAIN Append(s, x) = 1..(n + 1)
      /\ \A k \in 1..n : Append(s, x)[k] = s[k]
      /\ Append(s, x)[n + 1] = x
  BY AppendPlaces
<1>. HIDE DEF n
<1>2. \A k \in 1..(n + 1) : k \in 1..n \/ k = n + 1
  BY <1>1
<1>. QED BY <1>1, <1>2

\* What was found stays apart from the earlier lanes and from each other.
LEMMA ApartNext ==
  ASSUME RetrievalInv, RetrieveProbe, NEW b, NewBundle(b), found' = Append(found, b),
         excluded' = ExcludedAfter(b.probe, b.chunks)
  PROVE  ApartInv'
<1>1. lane \in 1..3 /\ UNCHANGED <<fullAudit, lane, bundles>>
  BY LanesFacts DEF RetrieveProbe
<1>2. RetrievalTypeOK /\ ApartInv
  BY DEF RetrievalInv
<1>3. b.probe.lane = Lanes[lane]
  BY DEF NewBundle, BundleSet, ProbesFor
<1>4. CASE lane # 2
  <2>1. b.probe.lane # "coverage"
    BY <1>1, <1>3, <1>4, LanesFacts
  <2>2. excluded' = {}
    BY <1>2, <1>4, <2>1 DEF ApartInv, ExcludedAfter
  <2>. QED BY <1>1, <1>4, <2>2 DEF ApartInv
<1>5. CASE lane = 2 /\ fullAudit
  BY <1>1, <1>5 DEF ApartInv
<1>6. CASE lane = 2 /\ ~fullAudit
  <2>. DEFINE T == BundleSet(ProbesFor({Lanes[lane]}), ToSet(corpus))
              new == Append(found, b)
              n == Len(found)
  <2>1. excluded' = excluded \cup Keys(b.chunks)
    BY <1>3, <1>6, LanesFacts DEF ExcludedAfter
  <2>2. found \in Seq(T) /\ b \in T
    BY <1>1, <1>2 DEF RetrievalTypeOK, NewBundle
  <2>. HIDE DEF T
  <2>3. /\ DOMAIN found = 1..n /\ n \in Nat /\ DOMAIN new = 1..(n + 1)
        /\ \A k \in 1..n : new[k] = found[k]
        /\ new[n + 1] = b
    BY <2>2, AppendPlaces
  <2>. HIDE DEF n, new
  <2>4. \A k \in 1..(n + 1) : k \in 1..n \/ k = n + 1
    BY <2>3
  <2>5. /\ \A k \in DOMAIN bundles : Keys(bundles[k].chunks) \subseteq excluded
        /\ \A k \in 1..n : Keys(new[k].chunks) \subseteq excluded
        /\ \A k \in 1..n : \A j \in DOMAIN bundles : Disjoint(new[k], bundles[j])
        /\ \A k, j \in 1..n : k # j => Disjoint(new[k], new[j])
    BY <1>2, <1>6, <2>3 DEF ApartInv
  <2>6. Keys(b.chunks) \cap excluded = {}
    BY DEF NewBundle
  <2>7. /\ \A j \in DOMAIN bundles : Disjoint(b, bundles[j])
        /\ \A j \in 1..n : Disjoint(b, new[j]) /\ Disjoint(new[j], b)
    BY <2>5, <2>6 DEF Disjoint
  <2>8. \A k \in DOMAIN bundles : Keys(bundles[k].chunks) \subseteq excluded'
    BY <2>1, <2>5
  <2>9. \A k \in DOMAIN new : Keys(new[k].chunks) \subseteq excluded'
    BY <2>1, <2>3, <2>4, <2>5
  <2>10. \A k \in DOMAIN new : \A j \in DOMAIN bundles : Disjoint(new[k], bundles[j])
    BY <2>3, <2>4, <2>5, <2>7
  <2>11. \A k, j \in DOMAIN new : k # j => Disjoint(new[k], new[j])
    BY <2>3, <2>4, <2>5, <2>7
  <2>12. found' = new
    BY DEF new
  <2>. QED BY <1>1, <1>6, <2>8, <2>9, <2>10, <2>11, <2>12 DEF ApartInv, Disjoint
<1>. QED BY <1>4, <1>5, <1>6

\* A retrieval preserves the invariant.
LEMMA RetrieveProbeInv == ASSUME RetrievalInv, RetrieveProbe PROVE RetrievalInv'
<1>1. lane \in 1..3 /\ UNCHANGED <<corpus, fullAudit, semantic, plan, lane, bundles, done>>
  BY LanesFacts DEF RetrieveProbe
<1>2. PICK b : NewBundle(b) /\ found' = Append(found, b)
               /\ excluded' = ExcludedAfter(b.probe, b.chunks)
  BY NewBundleFacts
<1>3. todo' \in Seq(ProbesFor({Lanes[lane]}))
  BY NewBundleFacts
<1>4. RetrievalTypeOK
  BY DEF RetrievalInv
<1>. DEFINE T == BundleSet(ProbesFor({Lanes[lane]}), ToSet(corpus))
<1>5. found \in Seq(T) /\ b \in T
  BY <1>1, <1>2, <1>4 DEF RetrievalTypeOK, NewBundle
<1>6. found' \in Seq(T)
  BY <1>2, <1>5, AppendFacts
<1>7. RetrievalTypeOK'
  <2>1. ProbesFor({Lanes[lane]})' = ProbesFor({Lanes[lane]})
        /\ ProbesFor(Before(lane))' = ProbesFor(Before(lane))
    BY <1>1 DEF ProbesFor, Before
  <2>2. BundleSet(ProbesFor({Lanes[lane]}), ToSet(corpus))' = T
        /\ BundleSet(ProbesFor(Before(lane)), ToSet(corpus))'
             = BundleSet(ProbesFor(Before(lane)), ToSet(corpus))
    BY <1>1, <2>1 DEF BundleSet, Cands
  <2>3. PlanOK(plan)'
    BY <1>1, <1>4 DEF RetrievalTypeOK, PlanOK, IsProbe
  <2>4. ~done' => bundles' \in Seq(BundleSet(ProbesFor(Before(lane)), ToSet(corpus))')
    BY <1>1, <1>4, <2>2 DEF RetrievalTypeOK
  <2>. QED BY <1>1, <1>3, <1>4, <1>6, <2>1, <2>2, <2>3, <2>4 DEF RetrievalTypeOK
<1>8. FreshInv'
  <2>. DEFINE U == {x \in T : x.selected = Len(x.chunks) /\ x.trimmed = 0}
  <2>1. \A k \in DOMAIN found : found[k] \in U
    BY <1>5, LenProperties DEF RetrievalInv, FreshInv
  <2>2. b \in U
    BY <1>2, <1>5 DEF NewBundle
  <2>. HIDE DEF U, T
  <2>3. \A k \in DOMAIN found' : found'[k] \in U
    BY <1>2, <1>5, <2>1, <2>2, AppendAll
  <2>. QED BY <2>3 DEF FreshInv, U
<1>9. ApartInv'
  BY <1>2, ApartNext
<1>10. StructuralEvidenceKept'
  <2>. DEFINE U == {x \in T : EvidenceKept(x)}
  <2>1. \A k \in DOMAIN found : found[k] \in U
    BY <1>5, LenProperties, EvidenceKeptDef DEF RetrievalInv
  <2>2. b \in U
    BY <1>2, <1>5 DEF NewBundle
  <2>. HIDE DEF U, T
  <2>3. \A k \in DOMAIN found' : found'[k] \in U
    BY <1>2, <1>5, <2>1, <2>2, AppendAll
  <2>. QED BY <1>1, <2>3, EvidenceKeptNext DEF U
<1>11. EveryChunkIsAudited' /\ CoverageLooksElsewhere'
  BY <1>1 DEF RetrievalInv, EveryChunkIsAudited, CoverageLooksElsewhere, Keys, Key
<1>12. EvidenceSurvives'
  <2>1. EvidenceSurvives
    BY DEF RetrievalInv
  <2>2. \A l : LaneCap(l)' = LaneCap(l)
    BY <1>1, CapUnchanged
  <2>. QED BY <1>1, <2>1, <2>2, SurvivesDef, SurvivesNext
<1>. QED BY <1>7, <1>8, <1>9, <1>10, <1>11, <1>12 DEF RetrievalInv

\* What is kept of what was found in this lane.
KeptLane(kept) ==
  /\ kept \in Seq(BundleSet(ProbesFor({Lanes[lane]}), ToSet(corpus))) /\ Shrunk(kept, found)
  /\ CountedOf(kept) /\ LeadingOf(kept)
  /\ IsFiniteSet(Pairs(kept))
  /\ Cardinality(Pairs(kept))
       <= Max({LaneCap(Lanes[lane]), Cardinality({k \in DOMAIN kept : kept[k].selected > 0})})

\* Trimming a lane keeps such bundles.
LEMMA KeptLaneFacts ==
  ASSUME RetrievalInv, lane \in 1..3
  PROVE  KeptLane(TrimmedLane(found, Lanes[lane]))
<1>. DEFINE P == ProbesFor({Lanes[lane]})
            D == ToSet(corpus)
            l == Lanes[lane]
            kept == TrimmedLane(found, l)
<1>1. RetrievalTypeOK /\ FreshInv
  BY DEF RetrievalInv
<1>2. found \in Seq(BundleSet(P, D)) /\ l \in ToSet(Lanes)
  BY <1>1, LanesFacts DEF RetrievalTypeOK
<1>3. \A p \in P : p.topK \in Int
  BY <1>1 DEF ProbesFor, RetrievalTypeOK, PlanOK, IsProbe
<1>. HIDE DEF P, D, l
<1>4. /\ kept \in Seq(BundleSet(P, D)) /\ Shrunk(kept, found)
      /\ IsFiniteSet(Pairs(kept))
      /\ Cardinality(Pairs(kept)) <= Max({LaneCap(l), NonEmpty(found)})
      /\ \A k \in DOMAIN found : (\A j \in 1..k : found[j].chunks # <<>>) => kept[k].chunks # <<>>
  BY <1>2, <1>3, TrimmedLaneFacts
<1>. HIDE DEF kept
<1>5. DOMAIN found = 1..Len(found) /\ Len(found) \in Nat /\ DOMAIN kept = DOMAIN found
  BY <1>2, <1>4, LenProperties DEF Shrunk
<1>6. \A k \in DOMAIN found : found[k].chunks # <<>> <=> found[k].selected > 0
  <2>. SUFFICES ASSUME NEW k \in DOMAIN found
                PROVE  found[k].chunks # <<>> <=> found[k].selected > 0
    OBVIOUS
  <2>1. found[k] \in BundleSet(P, D)
    BY <1>2, LenProperties
  <2>2. found[k].chunks \in Seq(Cands(D))
    BY <2>1 DEF BundleSet
  <2>3. Len(found[k].chunks) \in Nat /\ (found[k].chunks = <<>> <=> Len(found[k].chunks) = 0)
    BY <2>2, ToSetFacts
  <2>4. found[k].selected = Len(found[k].chunks)
    BY <1>1 DEF FreshInv
  <2>. QED BY <2>3, <2>4
<1>7. \A k \in DOMAIN found : kept[k].selected = found[k].selected
  BY <1>4 DEF Shrunk
<1>8. CountedOf(kept)
  <2>1. \A k \in DOMAIN found : found[k].chunks \in Seq(Cands(D))
    <3>1. \A k \in DOMAIN found : found[k] \in BundleSet(P, D)
      BY <1>2, LenProperties
    <3>. QED BY <3>1 DEF BundleSet
  <2>2. \A k \in DOMAIN found : Len(found[k].chunks) \in Nat
    BY <2>1, LenProperties
  <2>3. CountedOf(found)
    BY <1>1, <2>2 DEF FreshInv, CountedOf
  <2>. QED BY <1>4, <2>3, ShrunkCounted
<1>9. LeadingOf(kept)
  <2>. SUFFICES ASSUME NEW k \in DOMAIN kept, \A j \in 1..k : kept[j].selected > 0
                PROVE  kept[k].chunks # <<>>
    BY DEF LeadingOf
  <2>1. \A j \in 1..k : j \in DOMAIN found
    BY <1>5
  <2>2. \A j \in 1..k : found[j].chunks # <<>>
    BY <1>6, <1>7, <2>1
  <2>. QED BY <1>4, <1>5, <2>2
<1>10. NonEmpty(found) = Cardinality({k \in DOMAIN kept : kept[k].selected > 0})
  <2>1. {k \in DOMAIN found : found[k].chunks # <<>>} = {k \in DOMAIN kept : kept[k].selected > 0}
    BY <1>5, <1>6, <1>7
  <2>. QED BY <2>1 DEF NonEmpty
<1>. QED BY <1>4, <1>8, <1>9, <1>10 DEF KeptLane, kept, l, P, D

\* CoverageLooksElsewhere, of any bundles.
Elsewhere(bs) ==
  \A k, j \in DOMAIN bs :
    k # j /\ bs[k].probe.lane = "coverage" /\ bs[j].probe.lane # "roadmap" => Disjoint(bs[k], bs[j])

\* CoverageLooksElsewhere, in these terms.
LEMMA ElsewhereDef == CoverageLooksElsewhere <=> (~fullAudit => Elsewhere(bundles))
BY DEF CoverageLooksElsewhere, Elsewhere, Disjoint

\* The same of the next state.
LEMMA ElsewhereNext == CoverageLooksElsewhere' <=> (~fullAudit' => Elsewhere(bundles'))
BY DEF CoverageLooksElsewhere, Elsewhere, Disjoint, Keys, Key

\* Of which of these two bundles something is asked.
Meet(b, c) == b.probe.lane = "coverage" /\ c.probe.lane # "roadmap"

\* Bundles that look elsewhere, with others that do and look elsewhere than them.
LEMMA JoinElsewhere ==
  ASSUME NEW S, NEW s \in Seq(S), NEW t \in Seq(S), Elsewhere(s), Elsewhere(t),
         \A k \in DOMAIN t, j \in DOMAIN s :
           Meet(t[k], s[j]) \/ Meet(s[j], t[k]) => Disjoint(t[k], s[j])
  PROVE  Elsewhere(s \o t)
<1>. DEFINE u == s \o t
            n == Len(s)
            m == Len(t)
<1>1. /\ n \in Nat /\ DOMAIN s = 1..n /\ DOMAIN t = 1..m
      /\ \A k \in 1..n : k \in DOMAIN u /\ u[k] = s[k]
      /\ \A k \in 1..m : n + k \in DOMAIN u /\ u[n + k] = t[k]
      /\ \A k \in DOMAIN u : k \in 1..n \/ k - n \in 1..m
      /\ DOMAIN u = 1..(n + m) /\ m \in Nat
  BY JoinPlaces
<1>. HIDE DEF u, n, m
<1>2. \A k \in DOMAIN u : k - n \in 1..m => u[k] = t[k - n]
  <2>. SUFFICES ASSUME NEW k \in DOMAIN u, k - n \in 1..m PROVE u[k] = t[k - n]
    OBVIOUS
  <2>1. n + (k - n) = k
    BY <1>1
  <2>2. u[n + (k - n)] = t[k - n]
    BY <1>1
  <2>. QED BY <2>1, <2>2
<1>3. \A b, c : Disjoint(b, c) <=> Disjoint(c, b)
  BY DEF Disjoint
<1>4. ASSUME NEW k \in DOMAIN u, NEW j \in DOMAIN u, k # j, Meet(u[k], u[j])
      PROVE  Disjoint(u[k], u[j])
  <2>1. CASE k \in 1..n /\ j \in 1..n
    BY <1>1, <1>4, <2>1 DEF Elsewhere, Meet
  <2>2. CASE k - n \in 1..m /\ j - n \in 1..m
    <3>1. k - n # j - n
      BY <1>1, <1>4
    <3>2. u[k] = t[k - n] /\ u[j] = t[j - n]
      BY <1>2, <2>2
    <3>. QED BY <1>1, <1>4, <2>2, <3>1, <3>2 DEF Elsewhere, Meet
  <2>3. CASE k - n \in 1..m /\ j \in 1..n
    <3>1. u[k] = t[k - n] /\ u[j] = s[j]
      BY <1>1, <1>2, <2>3
    <3>. QED BY <1>1, <1>4, <2>3, <3>1
  <2>4. CASE k \in 1..n /\ j - n \in 1..m
    <3>1. u[k] = s[k] /\ u[j] = t[j - n]
      BY <1>1, <1>2, <2>4
    <3>. QED BY <1>1, <1>3, <1>4, <2>4, <3>1
  <2>. QED BY <1>1, <2>1, <2>2, <2>3, <2>4
<1>. QED BY <1>4 DEF Elsewhere, Meet, u

\* The lanes of the bundles, and those of what is kept.
LEMMA LaneOf ==
  ASSUME NEW lanes, NEW D, NEW s \in Seq(BundleSet(ProbesFor(lanes), D))
  PROVE  \A k \in DOMAIN s : s[k].probe.lane \in lanes
<1>1. \A k \in DOMAIN s : s[k] \in BundleSet(ProbesFor(lanes), D)
  BY LenProperties
<1>. QED BY <1>1 DEF BundleSet, ProbesFor

\* The lanes before the next one are this one and those before.
LEMMA BeforeFacts ==
  ASSUME NEW l \in 1..3
  PROVE  /\ Before(l + 1) = Before(l) \cup {Lanes[l]} /\ Lanes[l] \notin Before(l)
         /\ \A i \in 1..(l - 1) : Lanes[i] # Lanes[l]
<1>1. Lanes[1] # Lanes[2] /\ Lanes[1] # Lanes[3] /\ Lanes[2] # Lanes[3]
  BY LanesFacts
<1>2. \A i \in 1..(l - 1) : i \in 1..3 /\ i # l
  OBVIOUS
<1>3. 1..l = 1..(l - 1) \cup {l} /\ (l + 1) - 1 = l
  OBVIOUS
<1>4. \A i, j \in 1..3 : i # j => Lanes[i] # Lanes[j]
  <2>1. \A i \in 1..3 : i = 1 \/ i = 2 \/ i = 3
    OBVIOUS
  <2>. QED BY <1>1, <2>1
<1>5. \A i \in 1..(l - 1) : Lanes[i] # Lanes[l]
  BY <1>2, <1>4
<1>. QED BY <1>3, <1>5 DEF Before

\* The bundles of one more lane look elsewhere.
LEMMA EndElsewhere ==
  ASSUME RetrievalInv, lane \in 1..3, ~done, ~fullAudit, NEW kept, KeptLane(kept)
  PROVE  Elsewhere(bundles \o kept)
<1>. DEFINE D == ToSet(corpus)
            all == BundleSet(ProbesFor(Before(lane + 1)), D)
<1>1. RetrievalTypeOK /\ ApartInv /\ CoverageLooksElsewhere
  BY DEF RetrievalInv
<1>2. /\ bundles \in Seq(BundleSet(ProbesFor(Before(lane)), D))
      /\ kept \in Seq(BundleSet(ProbesFor({Lanes[lane]}), D))
  BY <1>1 DEF RetrievalTypeOK, KeptLane
<1>3. /\ \A k \in DOMAIN bundles : bundles[k].probe.lane \in Before(lane)
      /\ \A k \in DOMAIN kept : kept[k].probe.lane = Lanes[lane]
  BY <1>2, LaneOf
<1>4. bundles \in Seq(all) /\ kept \in Seq(all)
  <2>1. ProbesFor(Before(lane)) \subseteq ProbesFor(Before(lane + 1))
        /\ ProbesFor({Lanes[lane]}) \subseteq ProbesFor(Before(lane + 1))
    BY BeforeFacts DEF ProbesFor
  <2>. QED BY <1>2, <2>1, BundlesMonotonic
<1>. HIDE DEF all, D
<1>5. Elsewhere(bundles)
  BY <1>1, ElsewhereDef
<1>6. CASE lane # 2
  <2>1. \A k \in DOMAIN kept : kept[k].probe.lane # "coverage"
    BY <1>3, <1>6, LanesFacts
  <2>2. Elsewhere(kept)
    BY <2>1 DEF Elsewhere
  <2>3. \A k \in DOMAIN kept, j \in DOMAIN bundles :
          ~Meet(kept[k], bundles[j]) /\ ~Meet(bundles[j], kept[k])
    <3>1. CASE lane = 1
      <4>1. Before(lane) = {}
        BY <3>1 DEF Before
      <4>. QED BY <1>3, <4>1
    <3>2. CASE lane = 3
      <4>1. \A k \in DOMAIN kept : kept[k].probe.lane = "roadmap"
        BY <1>3, <3>2, LanesFacts
      <4>. QED BY <2>1, <4>1 DEF Meet
    <3>. QED BY <1>6, <3>1, <3>2
  <2>. QED BY <1>4, <1>5, <2>2, <2>3, JoinElsewhere
<1>7. CASE lane = 2
  <2>1. DOMAIN kept = DOMAIN found
        /\ \A k \in DOMAIN kept : Keys(kept[k].chunks) \subseteq Keys(found[k].chunks)
    BY KeysFacts DEF KeptLane, Shrunk
  <2>2. /\ \A k \in DOMAIN found : \A j \in DOMAIN bundles : Disjoint(found[k], bundles[j])
        /\ \A k, j \in DOMAIN found : k # j => Disjoint(found[k], found[j])
    BY <1>1, <1>7 DEF ApartInv
  <2>3. /\ \A k \in DOMAIN kept : \A j \in DOMAIN bundles : Disjoint(kept[k], bundles[j])
        /\ \A k, j \in DOMAIN kept : k # j => Disjoint(kept[k], kept[j])
    BY <2>1, <2>2 DEF Disjoint
  <2>4. Elsewhere(kept)
    BY <2>3 DEF Elsewhere
  <2>. QED BY <1>4, <1>5, <2>3, <2>4, JoinElsewhere
<1>. QED BY <1>6, <1>7

\* The lanes fit, with what is kept of one more.
LEMMA EndFits ==
  ASSUME RetrievalInv, lane \in 1..3, ~done, NEW kept, KeptLane(kept)
  PROVE  \A l \in 1..lane : FitsOf(bundles \o kept, {Lanes[l]}, LaneCap(Lanes[l]))
<1>. DEFINE D == ToSet(corpus)
            all == BundleSet(ProbesFor(Before(lane + 1)), D)
<1>1. RetrievalTypeOK /\ EvidenceSurvives
  BY DEF RetrievalInv
<1>2. /\ bundles \in Seq(BundleSet(ProbesFor(Before(lane)), D))
      /\ kept \in Seq(BundleSet(ProbesFor({Lanes[lane]}), D))
  BY <1>1 DEF RetrievalTypeOK, KeptLane
<1>3. /\ \A k \in DOMAIN bundles : bundles[k].probe.lane \in Before(lane)
      /\ \A k \in DOMAIN kept : kept[k].probe.lane = Lanes[lane]
  BY <1>2, LaneOf
<1>4. bundles \in Seq(all) /\ kept \in Seq(all)
  <2>1. ProbesFor(Before(lane)) \subseteq ProbesFor(Before(lane + 1))
        /\ ProbesFor({Lanes[lane]}) \subseteq ProbesFor(Before(lane + 1))
    BY BeforeFacts DEF ProbesFor
  <2>. QED BY <1>2, <2>1, BundlesMonotonic
<1>. HIDE DEF all, D
<1>5. ASSUME NEW l \in 1..(lane - 1)
      PROVE  FitsOf(bundles \o kept, {Lanes[l]}, LaneCap(Lanes[l]))
  <2>1. FitsOf(bundles, {Lanes[l]}, LaneCap(Lanes[l]))
    BY <1>1, SurvivesDef
  <2>2. \A k \in DOMAIN kept : kept[k].probe.lane \notin {Lanes[l]}
    BY <1>3, BeforeFacts
  <2>3. /\ ShownOf(bundles \o kept, {Lanes[l]}) = ShownOf(bundles, {Lanes[l]})
        /\ EvidenceOf(bundles \o kept, {Lanes[l]}) = EvidenceOf(bundles, {Lanes[l]})
    BY <1>4, <2>2, JoinOthers
  <2>. QED BY <2>1, <2>3 DEF FitsOf
<1>6. FitsOf(bundles \o kept, {Lanes[lane]}, LaneCap(Lanes[lane]))
  <2>. DEFINE E == {k \in DOMAIN kept : kept[k].selected > 0}
              F == EvidenceOf(bundles \o kept, {Lanes[lane]})
              max == LaneCap(Lanes[lane])
  <2>1. \A k \in DOMAIN bundles : bundles[k].probe.lane \notin {Lanes[lane]}
    BY <1>3, BeforeFacts
  <2>2. \A k \in DOMAIN kept : kept[k].probe.lane \in {Lanes[lane]}
    BY <1>3
  <2>3. /\ ShownOf(bundles \o kept, {Lanes[lane]}) = Pairs(kept)
        /\ IsFiniteSet(F) /\ Cardinality(E) <= Cardinality(F)
    BY <1>4, <2>1, <2>2, JoinOwn
  <2>4. IsFiniteSet(E)
    <3>1. DOMAIN kept = 1..Len(kept) /\ Len(kept) \in Int
      BY <1>2, LenProperties
    <3>2. IsFiniteSet(1..Len(kept)) /\ E \in SUBSET (1..Len(kept))
      BY <3>1, FS_Interval
    <3>. QED BY <3>2, FS_Subset
  <2>5. IsFiniteSet(Pairs(kept)) /\ Cardinality(Pairs(kept)) <= Max({max, Cardinality(E)})
    BY DEF KeptLane
  <2>6. max \in Nat
    BY LanesFacts, LaneCapFacts
  <2>. HIDE DEF E, F, max
  <2>7. Cardinality(Pairs(kept)) <= Max({max, Cardinality(F)})
    BY <2>3, <2>4, <2>5, <2>6, LessFits
  <2>. QED BY <2>3, <2>7 DEF FitsOf, F, max
<1>7. \A l \in 1..lane : l \in 1..(lane - 1) \/ l = lane
  OBVIOUS
<1>. QED BY <1>5, <1>6, <1>7

\* The end of a lane preserves the invariant.
LEMMA EndLaneInv == ASSUME RetrievalInv, EndLane PROVE RetrievalInv'
<1>. DEFINE D == ToSet(corpus)
            kept == TrimmedLane(found, Lanes[lane])
            all == ProbesFor(Before(lane + 1))
<1>1. /\ lane \in 1..3 /\ lane' = lane + 1 /\ found' = <<>> /\ bundles' = bundles \o kept
      /\ excluded' = IF lane = 1 /\ ~fullAudit
                       THEN UNION {Keys(kept[k].chunks) : k \in DOMAIN kept} ELSE {}
      /\ todo' = IF lane = 3 THEN <<>> ELSE ProbesOf(plan, Lanes[lane + 1])
      /\ UNCHANGED <<corpus, fullAudit, semantic, plan, done>>
  BY LanesFacts DEF EndLane
<1>2. RetrievalTypeOK /\ EvidenceSurvives
  BY DEF RetrievalInv
<1>3. KeptLane(kept)
  BY <1>1, KeptLaneFacts
<1>. HIDE DEF kept
<1>4. ~done
  BY <1>1, <1>2 DEF RetrievalTypeOK
<1>5. bundles \in Seq(BundleSet(all, D)) /\ kept \in Seq(BundleSet(all, D))
  <2>1. /\ bundles \in Seq(BundleSet(ProbesFor(Before(lane)), D))
        /\ kept \in Seq(BundleSet(ProbesFor({Lanes[lane]}), D))
    BY <1>2, <1>3, <1>4 DEF RetrievalTypeOK, KeptLane
  <2>2. ProbesFor(Before(lane)) \subseteq all /\ ProbesFor({Lanes[lane]}) \subseteq all
    BY <1>1, BeforeFacts DEF ProbesFor
  <2>. HIDE DEF all, D
  <2>. QED BY <2>1, <2>2, BundlesMonotonic
<1>6. bundles' \in Seq(BundleSet(all, D))
  <2>. HIDE DEF all, D
  <2>. QED BY <1>1, <1>5, JoinFacts
<1>7. RetrievalTypeOK'
  <2>1. all = ProbesFor(Before(lane))' /\ D = ToSet(corpus)'
    BY <1>1 DEF ProbesFor, Before
  <2>2. BundleSet(all, D) = BundleSet(ProbesFor(Before(lane)), ToSet(corpus))'
    BY <1>1, <2>1 DEF BundleSet, Cands
  <2>3. lane' \in 1..3 => todo' \in Seq(ProbesFor({Lanes[lane]})')
    <3>1. PlanOK(plan)
      BY <1>2 DEF RetrievalTypeOK
    <3>2. ProbesOf(plan, Lanes[lane + 1]) \in Seq({p \in ToSet(plan) : p.lane \in {Lanes[lane + 1]}})
      BY <3>1, ProbesOfFacts
    <3>3. {p \in ToSet(plan) : p.lane \in {Lanes[lane + 1]}} = ProbesFor({Lanes[lane]})'
      <4>1. ProbesFor({Lanes[lane]})' = {p \in ToSet(plan') : p.lane \in {Lanes[lane']}}
        BY DEF ProbesFor
      <4>2. plan' = plan /\ lane' = lane + 1
        BY <1>1
      <4>. QED BY <4>1, <4>2
    <3>4. lane' \in 1..3 => todo' = ProbesOf(plan, Lanes[lane + 1])
      <4>1. lane' \in 1..3 => lane # 3
        BY <1>1
      <4>. QED BY <1>1, <4>1
    <3>5. ProbesOf(plan, Lanes[lane + 1]) \in Seq(ProbesFor({Lanes[lane]})')
      BY <3>2, <3>3
    <3>. QED BY <3>4, <3>5
  <2>4. lane' \notin 1..3 => todo' = <<>> /\ found' = <<>>
    BY <1>1
  <2>5. lane' \in 0..4 /\ done' \in BOOLEAN /\ (done' => lane' = 4)
    BY <1>1, <1>2, <1>4 DEF RetrievalTypeOK
  <2>6. /\ corpus' \in Corpora /\ fullAudit' \in BOOLEAN /\ semantic' \in BOOLEAN
    BY <1>1, <1>2 DEF RetrievalTypeOK
  <2>7. PlanOK(plan)'
    BY <1>1, <1>2 DEF RetrievalTypeOK, PlanOK, IsProbe
  <2>8. found' \in Seq(BundleSet(ProbesFor({Lanes[lane]}), ToSet(corpus))')
    BY <1>1, EmptySeq
  <2>. HIDE DEF all, D
  <2>. QED BY <1>6, <2>2, <2>3, <2>4, <2>5, <2>6, <2>7, <2>8 DEF RetrievalTypeOK
<1>8. DOMAIN found' = {}
  BY <1>1
<1>9. ApartInv'
  <2>1. lane' # 2 => excluded' = {}
    BY <1>1
  <2>2. ASSUME lane' = 2, ~fullAudit'
        PROVE  \A k \in DOMAIN bundles' : Keys(bundles'[k].chunks) \subseteq excluded'
    <3>1. lane = 1 /\ ~fullAudit /\ excluded' = UNION {Keys(kept[k].chunks) : k \in DOMAIN kept}
      BY <1>1, <2>2
    <3>2. bundles = <<>>
      <4>1. Before(lane) = {}
        BY <3>1 DEF Before
      <4>2. ProbesFor(Before(lane)) = {}
        BY <4>1 DEF ProbesFor
      <4>3. bundles \in Seq(BundleSet({}, D))
        BY <1>2, <1>4, <4>2 DEF RetrievalTypeOK
      <4>. QED BY <4>3, NoBundles
    <3>3. bundles' = kept
      <4>. HIDE DEF all, D
      <4>. QED BY <1>1, <1>5, <3>2, ConcatEmptySeq
    <3>. QED BY <3>1, <3>3
  <2>. QED BY <1>8, <2>1, <2>2 DEF ApartInv, Keys, Key
<1>10. FreshInv'
  BY <1>8 DEF FreshInv
<1>11. EveryChunkIsAudited' /\ StructuralEvidenceKept'
  BY <1>1, <1>4, <1>8 DEF EveryChunkIsAudited, StructuralEvidenceKept
<1>12. CoverageLooksElsewhere'
  BY <1>1, <1>3, <1>4, EndElsewhere, ElsewhereNext
<1>13. EvidenceSurvives'
  <2>1. CountedOf(bundles) /\ LeadingOf(bundles) /\ CountedOf(kept) /\ LeadingOf(kept)
    BY <1>2, <1>3, SurvivesDef DEF KeptLane
  <2>2. CountedOf(bundles') /\ LeadingOf(bundles')
    <3>. HIDE DEF all, D
    <3>. QED BY <1>1, <1>5, <2>1, JoinCounted, JoinLeading
  <2>3. \A l \in 1..lane : FitsOf(bundles', {Lanes[l]}, LaneCap(Lanes[l]))
    BY <1>1, <1>3, <1>4, EndFits
  <2>4. \A l \in 1..(lane' - 1) : FitsOf(bundles', {Lanes[l]}, LaneCap(Lanes[l])')
    <3>1. \A l : LaneCap(l)' = LaneCap(l)
      BY <1>1, CapUnchanged
    <3>2. lane' - 1 = lane
      BY <1>1
    <3>. QED BY <2>3, <3>1, <3>2
  <2>. QED BY <1>1, <1>4, <2>2, <2>4, SurvivesNext
<1>. QED BY <1>7, <1>9, <1>10, <1>11, <1>12, <1>13 DEF RetrievalInv

\* The bundles of a full audit, with those of its last step.
LEMMA AuditInv ==
  ASSUME RetrievalInv, Finalize, fullAudit
  PROVE  EveryChunkIsAudited' /\ EvidenceSurvives'
<1>. DEFINE audit == AuditBundles(corpus, bundles)
            S == ToSet(bundles) \cup ToSet(audit)
            u == bundles \o audit
<1>1. /\ lane = 4 /\ ~done /\ done' = TRUE /\ bundles' = u
      /\ UNCHANGED <<corpus, fullAudit, semantic, plan, lane, todo, found, excluded>>
  BY DEF Finalize
<1>2. RetrievalTypeOK /\ EvidenceSurvives
  BY DEF RetrievalInv
<1>3. bundles \in Seq(BundleSet(ProbesFor(Before(lane)), ToSet(corpus))) /\ corpus \in Corpora
  BY <1>1, <1>2 DEF RetrievalTypeOK
<1>4. corpus \in Seq(ToSet(corpus)) /\ \A d \in ToSet(corpus) : d.file \in ToSet(Paths)
  BY <1>3, RetrievalAssumption
<1>5. /\ audit \in Seq(ToSet(audit))
      /\ \A b \in ToSet(audit) : /\ b.probe.lane = "coverage" /\ b.chunks # <<>>
                                 /\ b.selected = Len(b.chunks) + b.trimmed
      /\ \A d \in ToSet(corpus) : <<d.file, d.index>> \notin SeenBroadly(bundles) =>
           \E b \in ToSet(audit) : <<d.file, d.index>> \in Keys(b.chunks)
  BY <1>4, AuditFacts
<1>6. bundles \in Seq(ToSet(bundles))
  BY <1>3, ToSetFacts
<1>. HIDE DEF audit
<1>7. bundles \in Seq(S) /\ audit \in Seq(S)
  <2>1. ToSet(bundles) \subseteq S /\ ToSet(audit) \subseteq S
    OBVIOUS
  <2>. HIDE DEF S
  <2>. QED BY <1>5, <1>6, <2>1, SeqMonotonic
<1>. HIDE DEF S
<1>8. /\ DOMAIN bundles = 1..Len(bundles) /\ DOMAIN audit = 1..Len(audit)
      /\ \A k \in 1..Len(bundles) : k \in DOMAIN u /\ u[k] = bundles[k]
      /\ \A k \in 1..Len(audit) : Len(bundles) + k \in DOMAIN u /\ u[Len(bundles) + k] = audit[k]
  BY <1>7, JoinPlaces
<1>9. \A k \in DOMAIN audit : audit[k] \in ToSet(audit)
  BY DEF ToSet
<1>10. CountedOf(u) /\ LeadingOf(u)
  <2>1. CountedOf(bundles) /\ LeadingOf(bundles)
    BY <1>2, SurvivesDef
  <2>2. CountedOf(audit) /\ LeadingOf(audit)
    BY <1>5, <1>9 DEF CountedOf, LeadingOf
  <2>. QED BY <1>7, <2>1, <2>2, JoinCounted, JoinLeading
<1>. HIDE DEF u
<1>11. \A d \in ToSet(corpus) : \E k \in DOMAIN u :
         u[k].probe.lane = "coverage" /\ <<d.file, d.index>> \in Keys(u[k].chunks)
  <2>. SUFFICES ASSUME NEW d \in ToSet(corpus)
                PROVE  \E k \in DOMAIN u : u[k].probe.lane = "coverage"
                                           /\ <<d.file, d.index>> \in Keys(u[k].chunks)
    OBVIOUS
  <2>1. CASE <<d.file, d.index>> \in SeenBroadly(bundles)
    <3>1. PICK k \in DOMAIN bundles : bundles[k].probe.lane = "coverage"
                                      /\ <<d.file, d.index>> \in Keys(bundles[k].chunks)
      BY <2>1 DEF SeenBroadly
    <3>. QED BY <1>8, <3>1
  <2>2. CASE <<d.file, d.index>> \notin SeenBroadly(bundles)
    <3>1. PICK b \in ToSet(audit) : <<d.file, d.index>> \in Keys(b.chunks)
      BY <1>5, <2>2
    <3>2. PICK k \in DOMAIN audit : audit[k] = b
      BY DEF ToSet
    <3>3. b.probe.lane = "coverage"
      BY <1>5
    <3>. QED BY <1>8, <3>1, <3>2, <3>3
  <2>. QED BY <2>1, <2>2
<1>12. EveryChunkIsAudited'
  BY <1>1, <1>11 DEF EveryChunkIsAudited, Keys, Key
<1>13. EvidenceSurvives'
  BY <1>1, <1>10, SurvivesNext
<1>. QED BY <1>12, <1>13

\* The bundles of another review, trimmed together.
LEMMA TrimInv ==
  ASSUME RetrievalInv, Finalize, ~fullAudit
  PROVE  CoverageLooksElsewhere' /\ EvidenceSurvives'
<1>. DEFINE P == ProbesFor(Before(lane))
            D == ToSet(corpus)
            m == NonEmpty(bundles)
            max == Max({MaxTotal, m})
            t == Trimmed(bundles, max)
<1>1. /\ lane = 4 /\ ~done /\ done' = TRUE /\ bundles' = t
      /\ UNCHANGED <<corpus, fullAudit, semantic, plan, lane, todo, found, excluded>>
  BY DEF Finalize
<1>2. RetrievalTypeOK /\ EvidenceSurvives /\ CoverageLooksElsewhere
  BY DEF RetrievalInv
<1>3. bundles \in Seq(BundleSet(P, D))
  BY <1>1, <1>2 DEF RetrievalTypeOK
<1>4. \A p \in P : p.topK \in Int
  BY <1>2 DEF ProbesFor, RetrievalTypeOK, PlanOK, IsProbe
<1>. HIDE DEF P, D
<1>5. m \in Nat
  BY <1>3, UpToFacts
<1>. HIDE DEF m
<1>6. max \in Nat /\ m <= max /\ max \in {MaxTotal, m}
  <2>1. MaxTotal \in Int /\ MaxTotal \in Nat /\ m \in Int
    BY <1>5, RetrievalAssumption
  <2>2. max \in {MaxTotal, m} /\ m <= max
    BY <2>1, OfTwo
  <2>. QED BY <1>5, <2>1, <2>2
<1>. HIDE DEF max
<1>7. /\ t \in Seq(BundleSet(P, D)) /\ Shrunk(t, bundles)
      /\ IsFiniteSet(Pairs(t)) /\ Cardinality(Pairs(t)) <= max
      /\ \A k \in DOMAIN bundles : (\A j \in 1..k : bundles[j].chunks # <<>>) => t[k].chunks # <<>>
  <2>1. max >= NonEmpty(bundles)
    BY <1>5, <1>6 DEF m
  <2>. QED BY <1>3, <1>4, <1>6, <2>1, TrimmedFacts
<1>. HIDE DEF t
<1>8. DOMAIN bundles = 1..Len(bundles) /\ Len(bundles) \in Nat /\ DOMAIN t = DOMAIN bundles
      /\ \A k \in DOMAIN bundles : t[k].selected = bundles[k].selected /\ t[k].probe = bundles[k].probe
  BY <1>3, <1>7, LenProperties DEF Shrunk
<1>9. CountedOf(bundles) /\ LeadingOf(bundles)
      /\ \A l \in 1..3 : FitsOf(bundles, {Lanes[l]}, LaneCap(Lanes[l]))
  BY <1>1, <1>2, SurvivesDef
<1>10. CountedOf(t)
  BY <1>7, <1>9, ShrunkCounted
<1>11. LeadingOf(t)
  <2>. SUFFICES ASSUME NEW k \in DOMAIN t, \A j \in 1..k : t[j].selected > 0
                PROVE  t[k].chunks # <<>>
    BY DEF LeadingOf
  <2>1. \A j \in 1..k : j \in DOMAIN bundles /\ (\A i \in 1..j : i \in 1..k)
    BY <1>8
  <2>2. \A j \in 1..k : bundles[j].selected > 0
    BY <1>8, <2>1
  <2>3. \A j \in 1..k : bundles[j].chunks # <<>>
    BY <1>9, <2>1, <2>2 DEF LeadingOf
  <2>. QED BY <1>7, <1>8, <2>3
<1>12. \A l \in 1..3 : FitsOf(t, {Lanes[l]}, LaneCap(Lanes[l]))
  <2>. SUFFICES ASSUME NEW l \in 1..3 PROVE FitsOf(t, {Lanes[l]}, LaneCap(Lanes[l]))
    OBVIOUS
  <2>1. LaneCap(Lanes[l]) \in Nat
    BY LanesFacts, LaneCapFacts
  <2>2. FitsOf(bundles, {Lanes[l]}, LaneCap(Lanes[l]))
    BY <1>9
  <2>. QED BY <1>3, <1>7, <2>1, <2>2, ShrunkFits
<1>13. FitsOf(t, ToSet(Lanes), MaxTotal)
  <2>. DEFINE lanes == ToSet(Lanes)
              E == {k \in DOMAIN bundles : bundles[k].chunks # <<>>}
              F == EvidenceOf(t, lanes)
  <2>1. \A k \in DOMAIN t : t[k].probe.lane \in lanes
    <3>1. \A k \in DOMAIN t : t[k] \in BundleSet(P, D)
      BY <1>7, LenProperties
    <3>2. \A p \in P : p.lane \in lanes
      BY <1>2 DEF P, ProbesFor, RetrievalTypeOK, PlanOK, IsProbe
    <3>. QED BY <3>1, <3>2 DEF BundleSet
  <2>2. \A k \in DOMAIN bundles : bundles[k].chunks # <<>> => bundles[k].selected > 0
    <3>. SUFFICES ASSUME NEW k \in DOMAIN bundles, bundles[k].chunks # <<>>
                  PROVE  bundles[k].selected > 0
      OBVIOUS
    <3>1. bundles[k] \in BundleSet(P, D)
      BY <1>3, LenProperties
    <3>2. bundles[k].chunks \in Seq(Cands(D)) /\ bundles[k].trimmed \in Nat
      BY <3>1 DEF BundleSet
    <3>3. Len(bundles[k].chunks) \in Nat /\ Len(bundles[k].chunks) # 0
      BY <3>2, ToSetFacts
    <3>4. bundles[k].selected = Len(bundles[k].chunks) + bundles[k].trimmed
      BY <1>9 DEF CountedOf
    <3>. QED BY <3>2, <3>3, <3>4
  <2>3. E \in SUBSET F
    BY <1>8, <2>1, <2>2 DEF EvidenceOf
  <2>4. ShownOf(t, lanes) \in SUBSET Pairs(t) /\ IsFiniteSet(F)
    BY <1>7, ShownFacts
  <2>. HIDE DEF F, E, lanes
  <2>5. Cardinality(E) <= Cardinality(F) /\ IsFiniteSet(E)
    BY <2>3, <2>4, FS_Subset
  <2>6. m = Cardinality(E)
    BY DEF m, NonEmpty, E
  <2>7. Cardinality(Pairs(t)) <= Max({MaxTotal, Cardinality(E)})
    BY <1>7, <2>6 DEF max
  <2>8. MaxTotal \in Nat
    BY RetrievalAssumption
  <2>9. Cardinality(ShownOf(t, lanes)) <= Max({MaxTotal, Cardinality(F)})
    BY <1>7, <2>4, <2>5, <2>7, <2>8, LessFits
  <2>. QED BY <2>9 DEF FitsOf, F, lanes
<1>14. CoverageLooksElsewhere'
  <2>1. Elsewhere(bundles)
    BY <1>2, ElsewhereDef
  <2>2. \A k \in DOMAIN bundles : Keys(t[k].chunks) \subseteq Keys(bundles[k].chunks)
    BY <1>7, KeysFacts DEF Shrunk
  <2>3. Elsewhere(t)
    <3>. SUFFICES ASSUME NEW k \in DOMAIN t, NEW j \in DOMAIN t, k # j,
                         t[k].probe.lane = "coverage", t[j].probe.lane # "roadmap"
                  PROVE  Disjoint(t[k], t[j])
      BY DEF Elsewhere
    <3>1. k \in DOMAIN bundles /\ j \in DOMAIN bundles
          /\ t[k].probe = bundles[k].probe /\ t[j].probe = bundles[j].probe
      BY <1>8
    <3>2. Disjoint(bundles[k], bundles[j])
      BY <2>1, <3>1 DEF Elsewhere
    <3>. QED BY <2>2, <3>1, <3>2 DEF Disjoint
  <2>. QED BY <1>1, <2>3, ElsewhereNext
<1>15. EvidenceSurvives'
  <2>1. \A l : LaneCap(l)' = LaneCap(l)
    BY <1>1, CapUnchanged
  <2>2. lane' - 1 = 3
    BY <1>1
  <2>. QED BY <1>1, <1>10, <1>11, <1>12, <1>13, <2>1, <2>2, SurvivesNext
<1>. QED BY <1>14, <1>15

\* The end of the retrieval preserves it.
LEMMA FinalizeInv == ASSUME RetrievalInv, Finalize PROVE RetrievalInv'
<1>1. /\ lane = 4 /\ ~done /\ done' = TRUE
      /\ UNCHANGED <<corpus, fullAudit, semantic, plan, lane, todo, found, excluded>>
  BY DEF Finalize
<1>2. RetrievalTypeOK /\ FreshInv /\ ApartInv /\ StructuralEvidenceKept
  BY DEF RetrievalInv
<1>3. RetrievalTypeOK'
  <2>1. PlanOK(plan)'
    BY <1>1, <1>2 DEF RetrievalTypeOK, PlanOK, IsProbe
  <2>2. done' \in BOOLEAN
    BY <1>1
  <2>3. lane' \in 0..4 /\ lane' = 4 /\ lane' \notin 1..3
    BY <1>1
  <2>. QED BY <1>1, <1>2, <2>1, <2>2, <2>3 DEF RetrievalTypeOK
<1>4. FreshInv' /\ ApartInv' /\ StructuralEvidenceKept'
  BY <1>1, <1>2 DEF FreshInv, ApartInv, StructuralEvidenceKept
<1>5. EveryChunkIsAudited'
  BY <1>1, AuditInv DEF EveryChunkIsAudited
<1>6. CoverageLooksElsewhere'
  BY <1>1, TrimInv DEF CoverageLooksElsewhere
<1>7. EvidenceSurvives'
  BY AuditInv, TrimInv
<1>. QED BY <1>3, <1>4, <1>5, <1>6, <1>7 DEF RetrievalInv

\* And a step that changes nothing.
LEMMA StutterInv == ASSUME RetrievalInv, UNCHANGED vars PROVE RetrievalInv'
<1>1. UNCHANGED <<corpus, fullAudit, semantic, plan, lane, todo, found, excluded, bundles, done>>
  BY DEF vars
<1>2. RetrievalTypeOK /\ FreshInv /\ ApartInv /\ EveryChunkIsAudited /\ CoverageLooksElsewhere
      /\ EvidenceSurvives /\ StructuralEvidenceKept
  BY DEF RetrievalInv
<1>3. RetrievalTypeOK'
  <2>1. ProbesFor({Lanes[lane]})' = ProbesFor({Lanes[lane]})
        /\ ProbesFor(Before(lane))' = ProbesFor(Before(lane))
    BY <1>1 DEF ProbesFor, Before
  <2>2. BundleSet(ProbesFor({Lanes[lane]}), ToSet(corpus))'
          = BundleSet(ProbesFor({Lanes[lane]}), ToSet(corpus))
        /\ BundleSet(ProbesFor(Before(lane)), ToSet(corpus))'
             = BundleSet(ProbesFor(Before(lane)), ToSet(corpus))
    BY <1>1, <2>1 DEF BundleSet, Cands
  <2>3. PlanOK(plan)'
    BY <1>1, <1>2 DEF RetrievalTypeOK, PlanOK, IsProbe
  <2>. QED BY <1>1, <1>2, <2>1, <2>2, <2>3 DEF RetrievalTypeOK
<1>4. FreshInv' /\ ApartInv' /\ StructuralEvidenceKept'
  BY <1>1, <1>2 DEF FreshInv, ApartInv, StructuralEvidenceKept, Disjoint, Keys, Key
<1>5. EveryChunkIsAudited' /\ CoverageLooksElsewhere'
  BY <1>1, <1>2 DEF EveryChunkIsAudited, CoverageLooksElsewhere, Keys, Key
<1>6. EvidenceSurvives'
  <2>1. \A l : LaneCap(l)' = LaneCap(l)
    BY <1>1, CapUnchanged
  <2>. QED BY <1>1, <1>2, <2>1, SurvivesDef, SurvivesNext
<1>. QED BY <1>3, <1>4, <1>5, <1>6 DEF RetrievalInv

-----------------------------------------------------------------------------

(***************************************************************************)
(* In any review, whatever was indexed, planned and found, and whatever    *)
(* the caps: the four properties of collecting evidence, together with     *)
(* what they rest on.                                                      *)
(***************************************************************************)
THEOREM RetrievalInvAlways == Spec => []RetrievalInv
<1>1. Init => RetrievalInv
  BY InitInv
<1>2. RetrievalInv /\ [Next]_vars => RetrievalInv'
  <2>. SUFFICES ASSUME RetrievalInv, [Next]_vars PROVE RetrievalInv'
    OBVIOUS
  <2>1. CASE Prepare
    BY <2>1, PrepareInv
  <2>2. CASE RetrieveProbe
    BY <2>2, RetrieveProbeInv
  <2>3. CASE EndLane
    BY <2>3, EndLaneInv
  <2>4. CASE Finalize
    BY <2>4, FinalizeInv
  <2>5. CASE UNCHANGED vars
    BY <2>5, StutterInv
  <2>. QED BY <2>1, <2>2, <2>3, <2>4, <2>5 DEF Next
<1>. QED BY <1>1, <1>2, PTL DEF Spec

\* A full audit ends with every indexed chunk shown to a broad probe.
THEOREM AllAudited == Spec => []EveryChunkIsAudited
<1>1. RetrievalInv => EveryChunkIsAudited
  BY DEF RetrievalInv
<1>. QED BY <1>1, RetrievalInvAlways, PTL

\* Coverage probes get no chunk that a defect or another coverage probe has.
THEOREM LooksElsewhere == Spec => []CoverageLooksElsewhere
<1>1. RetrievalInv => CoverageLooksElsewhere
  BY DEF RetrievalInv
<1>. QED BY <1>1, RetrievalInvAlways, PTL

(***************************************************************************)
(* Trimming fits each lane and the review into its cap, leaves evidence to *)
(* every probe before the first without, and counts what it takes.         *)
(***************************************************************************)
THEOREM TrimmingLeavesEvidence == Spec => []EvidenceSurvives
<1>1. RetrievalInv => EvidenceSurvives
  BY DEF RetrievalInv
<1>. QED BY <1>1, RetrievalInvAlways, PTL

\* A defect or roadmap probe gets a chunk that matches its pattern, if any does.
THEOREM PatternsGetEvidence == Spec => []StructuralEvidenceKept
<1>1. RetrievalInv => StructuralEvidenceKept
  BY DEF RetrievalInv
<1>. QED BY <1>1, RetrievalInvAlways, PTL
=============================================================================
