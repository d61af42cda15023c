------------------------------- MODULE Selection -------------------------------
(***************************************************************************)
(* Selecting from a sequence and sorting it, as list comprehensions and    *)
(* sorted() do: the elements that pass a test, in their order; and all     *)
(* elements by a strict order, those it does not tell apart in the order   *)
(* they had.  Both come down to operators whose arguments are values: a    *)
(* set of positions, and an order as a set of pairs.                       *)
(***************************************************************************)
EXTENDS Integers, SequencesExt, FiniteSetsExt

\* The position that k of the positions at, itself included, do not exceed.
Nth(at, k) == CHOOSE p \in at : Cardinality({q \in at : q <= p}) = k

\* What seq has at these positions.
ElementsAt(seq, at) == [k \in 1..Cardinality(at) |-> seq[Nth(at, k)]]

\* [x for x in seq if Test(x)]
Chosen(seq, Test(_)) == ElementsAt(seq, {k \in DOMAIN seq : Test(seq[k])})

\* After all of s it does not precede.
Insert(s, x, order) ==
  InsertAt(s, Cardinality({k \in DOMAIN s : <<x, s[k]>> \notin order}) + 1, x)

InOrder(seq, order) == FoldLeft(LAMBDA s, x : Insert(s, x, order), <<>>, seq)

\* sorted(seq, key = ...): Before compares keys.
Sorted(seq, Before(_, _)) ==
  InOrder(seq, {p \in ToSet(seq) \X ToSet(seq) : Before(p[1], p[2])})

=============================================================================
