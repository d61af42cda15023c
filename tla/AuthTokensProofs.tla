---------------------------- MODULE AuthTokensProofs ----------------------------
(***************************************************************************)
(* Proofs about AuthTokens, for any sets of users and requests, any life   *)
(* of the tokens, any resolution of the clock, and any bounds on the pairs *)
(* and the time.                                                           *)
(***************************************************************************)
EXTENDS AuthTokens, FiniteSetTheorems, SequenceTheorems, TLAPS

(***************************************************************************)
(* A second begins at or before the ticks it counts, and seconds follow    *)
(* the order of ticks; so an access token issued by now expires within the *)
(* life of a cutoff set now.                                               *)
(***************************************************************************)
LEMMA SecondFacts ==
  ASSUME NEW t \in Nat
  PROVE  /\ Second(t) \in Nat
         /\ Ticks(Second(t)) <= t
         /\ \A u \in Nat : t <= u => Second(t) <= Second(u)
<1>. USE AuthAssumption DEF Second, Ticks
<1>1. Second(t) \in Nat /\ Ticks(Second(t)) <= t
  OBVIOUS
<1>2. ASSUME NEW u \in Nat, t <= u PROVE Second(t) <= Second(u)
  BY <1>2
<1>. QED BY <1>1, <1>2

(***************************************************************************)
(* Seconds are as many ticks, whichever way they are added.                *)
(***************************************************************************)
LEMMA TicksFacts ==
  ASSUME NEW s \in Nat, NEW life \in Nat
  PROVE  /\ Ticks(s) \in Nat
         /\ Ticks(s + life) = Ticks(s) + Ticks(life)
BY AuthAssumption DEF Ticks

(***************************************************************************)
(* The pairs issued so far, and what is known of each.                     *)
(***************************************************************************)
LEMMA PairFacts ==
  ASSUME AuthTypeOK
  PROVE  /\ Len(pairs) \in 0 .. MaxPairs /\ Pairs = 1 .. Len(pairs)
         /\ \A n \in Pairs : /\ n \in 1 .. MaxPairs /\ pairs[n] \in PairRecord
                            /\ pairs[n].session \in Pairs
                            /\ pairs[n].issued \in Nat /\ pairs[n].user \in Users
<1>1. pairs \in Seq(PairRecord) /\ Len(pairs) <= MaxPairs /\ MaxPairs \in Nat
  BY AuthAssumption DEF AuthTypeOK
<1>2. Len(pairs) \in 0 .. MaxPairs /\ Pairs = 1 .. Len(pairs)
  BY <1>1, LenProperties DEF Pairs
<1>3. ASSUME NEW n \in Pairs
      PROVE  /\ n \in 1 .. MaxPairs /\ pairs[n] \in PairRecord
             /\ pairs[n].session \in Pairs
             /\ pairs[n].issued \in Nat /\ pairs[n].user \in Users
  <2>1. pairs[n] \in PairRecord
    BY <1>1, <1>2, ElementOfSeq
  <2>2. pairs[n].session <= n
    BY DEF AuthTypeOK
  <2>3. pairs[n].session \in 1 .. MaxPairs /\ pairs[n].issued \in 0 .. MaxTime
    BY <2>1 DEF PairRecord
  <2>. QED BY <1>1, <1>2, <2>1, <2>2, <2>3, AuthAssumption DEF PairRecord
<1>. QED BY <1>2, <1>3

(***************************************************************************)
(* Expiry times; an access token expires within its life from now.         *)
(***************************************************************************)
LEMMA ExpFacts ==
  ASSUME AuthTypeOK, NEW n \in Pairs
  PROVE  /\ Ticks(AccessExp(n)) \in Nat /\ Ticks(RefreshExp(n)) \in Nat
         /\ AccessExp(n) \in Nat /\ RefreshExp(n) \in Nat /\ Ticks(AccessLife) \in Nat
         /\ Ticks(AccessExp(n)) <= pairs[n].issued + Ticks(AccessLife)
<1>1. pairs[n].issued \in Nat /\ AccessLife \in Nat /\ RefreshLife \in Nat
  BY PairFacts, AuthAssumption
<1>. DEFINE s == Second(pairs[n].issued)
<1>2. s \in Nat /\ Ticks(s) <= pairs[n].issued
  BY <1>1, SecondFacts
<1>3. AccessExp(n) = s + AccessLife /\ RefreshExp(n) = s + RefreshLife
  BY DEF AccessExp, RefreshExp
<1>. HIDE DEF s
<1>4. AccessExp(n) \in Nat /\ RefreshExp(n) \in Nat
  BY <1>1, <1>2, <1>3
<1>5. Ticks(AccessExp(n)) \in Nat /\ Ticks(RefreshExp(n)) \in Nat /\ Ticks(AccessLife) \in Nat
  BY <1>1, <1>4, TicksFacts
<1>6. Ticks(s + AccessLife) = Ticks(s) + Ticks(AccessLife) /\ Ticks(s) \in Nat
  BY <1>1, <1>2, TicksFacts
<1>. QED BY <1>1, <1>2, <1>3, <1>4, <1>5, <1>6

(***************************************************************************)
(* A request that is at a step is being served.                            *)
(***************************************************************************)
LEMMA Serving ==
  ASSUME AuthTypeOK, NEW p \in Requests, req[p].step # "idle"
  PROVE  req[p] \in Request /\ Active(p)
<1>1. Idle.step = "idle"
  BY DEF Idle
<1>2. req[p] \in {Idle} \cup Request
  BY DEF AuthTypeOK
<1>. QED BY <1>1, <1>2 DEF Active

(***************************************************************************)
(* What the type invariant says of a request that is being served.         *)
(***************************************************************************)
LEMMA ActiveRequest ==
  ASSUME AuthTypeOK, NEW p \in Requests, Active(p)
  PROVE  /\ req[p] \in Request /\ req[p].pair \in Pairs /\ req[p].user = pairs[req[p].pair].user
         /\ req[p].refresh \in Delivered \cup {None}
BY DEF AuthTypeOK, Active

(***************************************************************************)
(* What login does to the pairs.                                           *)
(***************************************************************************)
LEMMA LoginEffect ==
  ASSUME AuthTypeOK, NEW u \in Users, Login(u)
  PROVE  LET new == Len(pairs) + 1 IN
         /\ new \in 1 .. MaxPairs /\ new \notin Pairs /\ Pairs' = Pairs \cup {new}
         /\ Len(pairs') = new /\ pairs' \in Seq(PairRecord)
         /\ \A n \in Pairs : n < new /\ pairs'[n] = pairs[n]
         /\ pairs'[new] = NewPair(u, new, TRUE)
<1>. DEFINE new == Len(pairs) + 1
<1>1. new \in 1 .. MaxPairs /\ new \notin Pairs /\ \A n \in Pairs : n < new
  BY PairFacts, AuthAssumption DEF Login
<1>2. NewPair(u, new, TRUE) \in PairRecord
  BY <1>1, AuthAssumption DEF NewPair, PairRecord, AuthTypeOK
<1>3. pairs \in Seq(PairRecord) /\ pairs' = Append(pairs, NewPair(u, new, TRUE))
  BY DEF AuthTypeOK, Login
<1>4. /\ Len(pairs') = new /\ pairs' \in Seq(PairRecord)
      /\ \A n \in 1 .. Len(pairs) : pairs'[n] = pairs[n]
      /\ pairs'[new] = NewPair(u, new, TRUE)
  <2>1. /\ Append(pairs, NewPair(u, new, TRUE)) \in Seq(PairRecord)
        /\ Len(Append(pairs, NewPair(u, new, TRUE))) = Len(pairs) + 1
    BY <1>2, <1>3, AppendProperties
  <2>2. /\ \A n \in 1 .. Len(pairs) : Append(pairs, NewPair(u, new, TRUE))[n] = pairs[n]
        /\ Append(pairs, NewPair(u, new, TRUE))[Len(pairs) + 1] = NewPair(u, new, TRUE)
    BY <1>2, <1>3, AppendProperties, ZenonT(30)
  <2>3. Len(pairs') = new /\ pairs' \in Seq(PairRecord)
    BY <1>3, <2>1
  <2>4. /\ \A n \in 1 .. Len(pairs) : pairs'[n] = pairs[n]
        /\ pairs'[new] = NewPair(u, new, TRUE)
    BY <1>3, <2>2
  <2>. QED BY <2>3, <2>4
<1>5. Pairs' = 1 .. new /\ Pairs = 1 .. Len(pairs) /\ Len(pairs) \in Nat
  BY <1>4, PairFacts DEF Pairs
<1>. QED BY <1>1, <1>4, <1>5

(***************************************************************************)
(* What a rotation does to the pairs.                                      *)
(***************************************************************************)
LEMMA RotateEffect ==
  ASSUME AuthTypeOK, NEW p \in Requests, Rotate(p)
  PROVE  LET old == req[p].pair
             new == Len(pairs) + 1 IN
         /\ old \in Pairs /\ req[p] \in Request
         /\ new \in 1 .. MaxPairs /\ new \notin Pairs /\ Pairs' = Pairs \cup {new}
         /\ Len(pairs') = new /\ pairs' \in Seq(PairRecord)
         /\ \A n \in Pairs : n < new
         /\ \A n \in Pairs \ {old} : pairs'[n] = pairs[n]
         /\ pairs'[old] = [pairs[old] EXCEPT !.revoked = TRUE, !.by = new]
         /\ \E delivered \in BOOLEAN :
              pairs'[new] = NewPair(pairs[old].user, pairs[old].session, delivered)
<1>. DEFINE old == req[p].pair
            new == Len(pairs) + 1
            marked == [pairs EXCEPT ![old].revoked = TRUE, ![old].by = new]
<1>1. req[p] \in Request /\ old \in Pairs
  BY DEF AuthTypeOK, Rotate, Idle
<1>2. new \in 1 .. MaxPairs /\ new \notin Pairs /\ \A n \in Pairs : n < new
  BY PairFacts, AuthAssumption DEF Rotate
<1>3. PICK delivered \in BOOLEAN :
        pairs' = Append(marked, NewPair(pairs[old].user, pairs[old].session, delivered))
  BY DEF Rotate
<1>4. NewPair(pairs[old].user, pairs[old].session, delivered) \in PairRecord
  BY <1>1, PairFacts, AuthAssumption DEF NewPair, PairRecord, AuthTypeOK
<1>5. /\ marked \in Seq(PairRecord) /\ Len(marked) = Len(pairs)
      /\ \A n \in Pairs \ {old} : marked[n] = pairs[n]
      /\ marked[old] = [pairs[old] EXCEPT !.revoked = TRUE, !.by = new]
  <2>1. pairs \in Seq(PairRecord) /\ Pairs = 1 .. Len(pairs) /\ pairs[old] \in PairRecord
    BY <1>1, PairFacts DEF AuthTypeOK
  <2>2. [pairs[old] EXCEPT !.revoked = TRUE, !.by = new] \in PairRecord
    BY <1>2, <2>1 DEF PairRecord
  <2>3. marked = [pairs EXCEPT ![old] = [pairs[old] EXCEPT !.revoked = TRUE, !.by = new]]
    BY <1>1, <2>1 DEF Pairs
  <2>. DEFINE e == [pairs[old] EXCEPT !.revoked = TRUE, !.by = new]
  <2>4. old \in 1 .. Len(pairs) /\ e \in PairRecord /\ marked = [pairs EXCEPT ![old] = e]
    BY <1>1, <2>1, <2>2, <2>3
  <2>. HIDE DEF e, marked
  <2>5. /\ [pairs EXCEPT ![old] = e] \in Seq(PairRecord)
        /\ Len([pairs EXCEPT ![old] = e]) = Len(pairs)
        /\ \A j \in 1 .. Len(pairs) : [pairs EXCEPT ![old] = e][j] = IF j = old THEN e ELSE pairs[j]
    BY <2>1, <2>4, ExceptSeq
  <2>. QED BY <1>1, <2>1, <2>4, <2>5 DEF e
<1>. HIDE DEF marked
<1>6. /\ Len(pairs') = new /\ pairs' \in Seq(PairRecord)
      /\ \A n \in 1 .. Len(pairs) : pairs'[n] = marked[n]
      /\ pairs'[new] = NewPair(pairs[old].user, pairs[old].session, delivered)
  BY <1>3, <1>4, <1>5, AppendProperties, PairFacts
<1>7. Pairs' = 1 .. new /\ Pairs = 1 .. Len(pairs) /\ Len(pairs) \in Nat
  BY <1>6, PairFacts DEF Pairs
<1>. QED BY <1>1, <1>2, <1>5, <1>6, <1>7

(***************************************************************************)
(* Requests that revoke rows write nothing else of the pairs.              *)
(***************************************************************************)
LEMMA RevokeEffect ==
  ASSUME AuthTypeOK, NEW p \in Requests, RevokeAll(p) \/ RevokeRow(p)
  PROVE  /\ req[p] \in Request
         /\ Pairs' = Pairs /\ Len(pairs') = Len(pairs) /\ pairs' \in Seq(PairRecord)
         /\ \A n \in Pairs :
              /\ \E b \in BOOLEAN : pairs'[n] = [pairs[n] EXCEPT !.revoked = b]
              /\ pairs[n].revoked => pairs'[n] = pairs[n]
         /\ RevokeAll(p) => \A n \in Pairs :
              IF pairs[n].user = req[p].user THEN pairs'[n].revoked ELSE pairs'[n] = pairs[n]
         /\ RevokeRow(p) => \A n \in Pairs :
              n # req[p].refresh => pairs'[n] = pairs[n]
         /\ RevokeRow(p) /\ req[p].refresh \in Pairs =>
              \/ pairs'[req[p].refresh].revoked
              \/ now >= Ticks(RefreshExp(req[p].refresh))
<1>. USE PairFacts
<1>1. req[p] \in Request
  <2>1. req[p].step \in {"revoke all", "revoke row"}
    BY DEF RevokeAll, RevokeRow
  <2>. QED BY <2>1, Serving
<1>2. pairs \in Seq(PairRecord)
  BY DEF AuthTypeOK
<1>3. CASE RevokeAll(p)
  <2>1. pairs' = [n \in Pairs |-> [pairs[n] EXCEPT !.revoked = @ \/ pairs[n].user = req[p].user]]
    BY <1>3 DEF RevokeAll, Pairs
  <2>2. ASSUME NEW n \in Pairs
        PROVE  /\ [pairs[n] EXCEPT !.revoked = @ \/ pairs[n].user = req[p].user] \in PairRecord
               /\ \E b \in BOOLEAN : pairs'[n] = [pairs[n] EXCEPT !.revoked = b]
               /\ pairs[n].revoked => pairs'[n] = pairs[n]
               /\ IF pairs[n].user = req[p].user
                    THEN pairs'[n].revoked ELSE pairs'[n] = pairs[n]
    <3>1. pairs[n] \in PairRecord
      OBVIOUS
    <3>. DEFINE b == pairs[n].revoked \/ pairs[n].user = req[p].user
    <3>2. pairs'[n] = [pairs[n] EXCEPT !.revoked = b]
      BY <2>1
    <3>3. b \in BOOLEAN /\ pairs[n].revoked \in BOOLEAN
      BY <3>1 DEF PairRecord
    <3>4. [pairs[n] EXCEPT !.revoked = b] \in PairRecord
      BY <3>1, <3>3 DEF PairRecord
    <3>5. pairs[n].revoked => b = pairs[n].revoked
      BY <3>3
    <3>6. IF pairs[n].user = req[p].user THEN b ELSE b = pairs[n].revoked
      BY <3>3
    <3>. HIDE DEF b
    <3>7. b = pairs[n].revoked => [pairs[n] EXCEPT !.revoked = b] = pairs[n]
      BY <3>1 DEF PairRecord
    <3>8. [pairs[n] EXCEPT !.revoked = b].revoked = b
      BY <3>1 DEF PairRecord
    <3>. QED BY <3>2, <3>3, <3>4, <3>5, <3>6, <3>7, <3>8 DEF b
  <2>3. pairs' \in [1 .. Len(pairs) -> PairRecord] /\ Len(pairs) \in Nat
    BY <2>1, <2>2, AuthAssumption, SMTT(30)
  <2>4. pairs' \in Seq(PairRecord) /\ Len(pairs') = Len(pairs)
    BY <2>3
  <2>5. Pairs' = Pairs
    BY <2>1 DEF Pairs
  <2>6. ~RevokeRow(p)
    BY <1>3 DEF RevokeAll, RevokeRow
  <2>. QED BY <1>1, <2>2, <2>4, <2>5, <2>6
<1>4. CASE RevokeRow(p)
  <2>. DEFINE m == req[p].refresh
  <2>1. ~RevokeAll(p)
    BY <1>4 DEF RevokeAll, RevokeRow
  <2>2. CASE now < Ticks(RefreshExp(m)) /\ m \in Pairs
    <3>1. pairs' = [pairs EXCEPT ![m] = [pairs[m] EXCEPT !.revoked = TRUE]]
      BY <1>4, <2>2 DEF RevokeRow, Pairs
    <3>2. [pairs[m] EXCEPT !.revoked = TRUE] \in PairRecord /\ pairs[m] \in PairRecord
      <4>1. pairs[m] \in PairRecord
        BY <2>2
      <4>. QED BY <4>1 DEF PairRecord
    <3>3. pairs[m].revoked => [pairs[m] EXCEPT !.revoked = TRUE] = pairs[m]
      BY <3>2 DEF PairRecord
    <3>4. \A n \in Pairs : [pairs[n] EXCEPT !.revoked = pairs[n].revoked] = pairs[n]
                           /\ pairs[n].revoked \in BOOLEAN
      BY DEF PairRecord
    <3>5. /\ pairs' \in Seq(PairRecord) /\ Len(pairs') = Len(pairs)
          /\ \A n \in Pairs \ {m} : pairs'[n] = pairs[n]
          /\ pairs'[m] = [pairs[m] EXCEPT !.revoked = TRUE]
      <4>. DEFINE e == [pairs[m] EXCEPT !.revoked = TRUE]
      <4>1. m \in 1 .. Len(pairs) /\ e \in PairRecord /\ pairs' = [pairs EXCEPT ![m] = e]
        BY <2>2, <3>1, <3>2
      <4>. HIDE DEF e
      <4>2. /\ [pairs EXCEPT ![m] = e] \in Seq(PairRecord)
            /\ Len([pairs EXCEPT ![m] = e]) = Len(pairs)
            /\ \A j \in 1 .. Len(pairs) : [pairs EXCEPT ![m] = e][j] = IF j = m THEN e ELSE pairs[j]
        BY <1>2, <4>1, ExceptSeq
      <4>. QED BY <2>2, <4>1, <4>2 DEF e
    <3>6. Pairs' = Pairs
      BY <3>1 DEF Pairs
    <3>7. pairs'[m].revoked
      BY <3>2, <3>5 DEF PairRecord
    <3>. QED BY <1>1, <2>1, <3>3, <3>4, <3>5, <3>6, <3>7
  <2>3. CASE ~(now < Ticks(RefreshExp(m)))
    <3>1. pairs' = pairs
      BY <1>4, <2>3 DEF RevokeRow
    <3>2. \A n \in Pairs : [pairs[n] EXCEPT !.revoked = pairs[n].revoked] = pairs[n]
                           /\ pairs[n].revoked \in BOOLEAN
      BY DEF PairRecord
    <3>3. m \in Pairs => now >= Ticks(RefreshExp(m))
      <4>. SUFFICES ASSUME m \in Pairs PROVE now >= Ticks(RefreshExp(m))
        OBVIOUS
      <4>1. pairs[m].issued \in Nat /\ now \in Nat /\ RefreshLife \in Nat
        BY AuthAssumption DEF AuthTypeOK
      <4>2. Second(pairs[m].issued) \in Nat
        BY <4>1, SecondFacts
      <4>3. RefreshExp(m) \in Nat
        BY <4>1, <4>2 DEF RefreshExp
      <4>4. Ticks(RefreshExp(m)) \in Nat
        BY <4>3, TicksFacts
      <4>. QED BY <2>3, <4>1, <4>4
    <3>. QED BY <1>1, <1>2, <2>1, <3>1, <3>2, <3>3 DEF Pairs
  <2>4. CASE now < Ticks(RefreshExp(m)) /\ m \notin Pairs
    <3>1. pairs' = [pairs EXCEPT ![m].revoked = TRUE]
      BY <1>4, <2>4 DEF RevokeRow
    <3>2. Pairs' = Pairs /\ \A n \in Pairs : pairs'[n] = pairs[n]
      BY <2>4, <3>1 DEF Pairs
    <3>3. pairs \in [1 .. Len(pairs) -> PairRecord] /\ DOMAIN pairs' = DOMAIN pairs
      BY <1>2, <3>1, LenProperties
    <3>4. pairs' = pairs
      BY <2>4, <3>1, <3>3 DEF Pairs
    <3>5. \A n \in Pairs : [pairs[n] EXCEPT !.revoked = pairs[n].revoked] = pairs[n]
                           /\ pairs[n].revoked \in BOOLEAN
      BY DEF PairRecord
    <3>. QED BY <1>1, <1>2, <2>1, <2>4, <3>4, <3>5 DEF Pairs
  <2>. QED BY <2>2, <2>3, <2>4
<1>. QED BY <1>3, <1>4

(***************************************************************************)
(* A request begins: it knows of the others of its user, and they of it.   *)
(***************************************************************************)
LEMMA BeginEffect ==
  ASSUME AuthTypeOK, NEW p \in Requests, ~Active(p), NEW n \in Pairs, NEW r \in Request,
         r.pair = n, r.user = pairs[n].user, r.alone <=> Others(p, pairs[n].user) = {},
         req' = [q \in Requests |->
                   IF q = p THEN r
                   ELSE IF q \in Others(p, pairs[n].user) THEN [req[q] EXCEPT !.alone = FALSE]
                   ELSE req[q]]
  PROVE  /\ req' \in [Requests -> {Idle} \cup Request] /\ Active(p)' /\ req'[p] = r
         /\ r.alone => \A q \in Requests \ {p} : ~(Active(q) /\ req[q].user = pairs[n].user)
         /\ \A q \in Requests \ {p} : Active(q)' =>
              /\ Active(q) /\ req'[q].step = req[q].step /\ req'[q].pair = req[q].pair
              /\ req'[q].user = req[q].user /\ req'[q].refresh = req[q].refresh
              /\ req'[q].at = req[q].at /\ req'[q].all = req[q].all
              /\ req'[q].alone => req[q].alone /\ req[q].user # pairs[n].user
<1>. DEFINE others == Others(p, pairs[n].user)
<1>1. req' = [q \in Requests |-> IF q = p THEN r
                                ELSE IF q \in others THEN [req[q] EXCEPT !.alone = FALSE]
                                ELSE req[q]]
  OBVIOUS
<1>2. \A x \in Request : x # Idle
  <2>1. Idle.step = "idle" /\ \A x \in Request : x.step # "idle"
    BY DEF Idle, Request
  <2>. QED BY <2>1
<1>3. ASSUME NEW q \in Requests
      PROVE  q \in others <=> q # p /\ Active(q) /\ req[q].user = pairs[n].user
  BY DEF Others, Active
<1>. HIDE DEF others
<1>4. req'[p] = r /\ Active(p)'
  BY <1>1, <1>2 DEF Active
<1>5. ASSUME NEW q \in Requests \ {p}, ~Active(q)
      PROVE  req'[q] = Idle /\ ~Active(q)'
  BY <1>1, <1>3, <1>5 DEF Active
<1>6. ASSUME NEW q \in Requests \ {p}, Active(q)
      PROVE  /\ req'[q] \in Request
             /\ req'[q].step = req[q].step /\ req'[q].pair = req[q].pair
             /\ req'[q].user = req[q].user /\ req'[q].refresh = req[q].refresh
             /\ req'[q].at = req[q].at /\ req'[q].all = req[q].all
             /\ req'[q].alone => req[q].alone /\ req[q].user # pairs[n].user
  <2>1. req[q] \in Request
    BY <1>6, ActiveRequest
  <2>2. CASE q \in others
    <3>1. req'[q] = [req[q] EXCEPT !.alone = FALSE]
      BY <1>1, <2>2
    <3>. QED BY <2>1, <3>1 DEF Request
  <2>3. CASE q \notin others
    <3>1. req'[q] = req[q] /\ req[q].user # pairs[n].user
      BY <1>1, <1>3, <1>6, <2>3
    <3>. QED BY <2>1, <3>1
  <2>. QED BY <2>2, <2>3
<1>7. req' \in [Requests -> {Idle} \cup Request]
  BY <1>1, <1>4, <1>5, <1>6
<1>8. r.alone => \A q \in Requests \ {p} : ~(Active(q) /\ req[q].user = pairs[n].user)
  BY <1>3 DEF others
<1>. QED BY <1>4, <1>5, <1>6, <1>7, <1>8

(***************************************************************************)
(* What the beginning of a request sets in that request, and what it       *)
(* leaves to the others.                                                   *)
(***************************************************************************)
BegunOwn(p, k) ==
  /\ UNCHANGED <<now, pairs, revoked, black, cut, ended, raced>> /\ ~Active(p)
  /\ k \in Pairs /\ req'[p].pair = k /\ req'[p].user = pairs[k].user
  /\ req'[p].refresh \in Delivered \cup {None}
  /\ \/ /\ ValidRow(k) /\ req'[p].step = "user"
        /\ req'[p].refresh = None /\ req'[p].at = None /\ ~req'[p].all
     \/ /\ req'[p].step = "blacklist" /\ req'[p].at = None /\ ~req'[p].all
        /\ req'[p].refresh # None =>
             pairs[req'[p].refresh].session = pairs[k].session /\ Current(req'[p].refresh)
     \/ /\ req'[p].step = "revoke all"
        /\ req'[p].refresh = None /\ req'[p].at = now /\ req'[p].all

BegunAside(p, k) ==
  /\ req' \in [Requests -> {Idle} \cup Request]
  /\ req'[p].alone => \A q \in Requests \ {p} : ~(Active(q) /\ req[q].user = pairs[k].user)
  /\ \A q \in Requests \ {p} : Active(q)' =>
       /\ Active(q) /\ req'[q].step = req[q].step /\ req'[q].pair = req[q].pair
       /\ req'[q].user = req[q].user /\ req'[q].refresh = req[q].refresh
       /\ req'[q].at = req[q].at /\ req'[q].all = req[q].all
       /\ req'[q].alone => req[q].alone /\ req[q].user # pairs[k].user

(***************************************************************************)
(* A request that begins takes a delivered pair and touches nothing but    *)
(* itself, and the others of its user, which are no longer alone.          *)
(***************************************************************************)
LEMMA Begins ==
  ASSUME AuthTypeOK, NEW p \in Requests, NEW k \in Delivered,
         RefreshReadsRow(p, k) \/ LogoutBegins(p, k) \/ LogoutAllBegins(p, k)
  PROVE  BegunOwn(p, k) /\ BegunAside(p, k)
<1>1. UNCHANGED <<now, pairs, revoked, black, cut, ended, raced>> /\ ~Active(p)
  BY DEF RefreshReadsRow, LogoutBegins, LogoutAllBegins, Active
<1>2. k \in Pairs /\ k \in 1 .. MaxPairs /\ pairs[k].user \in Users /\ Delivered \subseteq 1 .. MaxPairs
  BY PairFacts DEF Delivered, Pairs
<1>3. now \in 0 .. MaxTime /\ None \notin 0 .. MaxTime
  BY AuthAssumption DEF AuthTypeOK
<1>. DEFINE Begun(r) ==
       /\ req' \in [Requests -> {Idle} \cup Request] /\ Active(p)' /\ req'[p] = r
       /\ r.alone => \A q \in Requests \ {p} : ~(Active(q) /\ req[q].user = pairs[k].user)
       /\ \A q \in Requests \ {p} : Active(q)' =>
            /\ Active(q) /\ req'[q].step = req[q].step /\ req'[q].pair = req[q].pair
            /\ req'[q].user = req[q].user /\ req'[q].refresh = req[q].refresh
            /\ req'[q].at = req[q].at /\ req'[q].all = req[q].all
            /\ req'[q].alone => req[q].alone /\ req[q].user # pairs[k].user
<1>. HIDE DEF Begun
<1>4. CASE RefreshReadsRow(p, k)
  <2>. DEFINE r == NewRequest("user", k, None, None, FALSE, Others(p, pairs[k].user) = {})
  <2>2. /\ r.step = "user" /\ r.pair = k /\ r.user = pairs[k].user /\ r.refresh = None
        /\ r.at = None /\ r.all = FALSE /\ (r.alone <=> Others(p, pairs[k].user) = {})
    BY DEF NewRequest
  <2>3. r \in Request
    BY <1>2, <1>3 DEF NewRequest, Request
  <2>4. req' = [q \in Requests |->
                  IF q = p THEN r
                  ELSE IF q \in Others(p, pairs[k].user) THEN [req[q] EXCEPT !.alone = FALSE]
                  ELSE req[q]]
    BY <1>4 DEF RefreshReadsRow, Begin
  <2>. HIDE DEF r
  <2>5. Begun(r)
    <3>1. r.pair = k /\ r.user = pairs[k].user /\ (r.alone <=> Others(p, pairs[k].user) = {})
      BY <2>2
    <3>. QED BY <1>1, <1>2, <2>3, <2>4, <3>1, BeginEffect, SMTT(30) DEF Begun
  <2>6. BegunAside(p, k)
    BY <2>2, <2>5 DEF Begun, BegunAside
  <2>7. BegunOwn(p, k)
    BY <1>1, <1>2, <1>4, <2>2, <2>5 DEF Begun, BegunOwn, RefreshReadsRow
  <2>. QED BY <2>6, <2>7
<1>5. CASE LogoutBegins(p, k)
  <2>1. PICK m \in Delivered \cup {None} :
          /\ m # None => pairs[m].session = pairs[k].session /\ Current(m)
          /\ Begin(p, "blacklist", k, m, None, FALSE)
    BY <1>5 DEF LogoutBegins
  <2>. DEFINE r == NewRequest("blacklist", k, m, None, FALSE, Others(p, pairs[k].user) = {})
  <2>2. /\ r.step = "blacklist" /\ r.pair = k /\ r.user = pairs[k].user /\ r.refresh = m
        /\ r.at = None /\ r.all = FALSE /\ (r.alone <=> Others(p, pairs[k].user) = {})
    BY DEF NewRequest
  <2>3. r \in Request
    BY <1>2, <1>3 DEF NewRequest, Request
  <2>4. req' = [q \in Requests |->
                  IF q = p THEN r
                  ELSE IF q \in Others(p, pairs[k].user) THEN [req[q] EXCEPT !.alone = FALSE]
                  ELSE req[q]]
    BY <2>1 DEF Begin
  <2>. HIDE DEF r
  <2>5. Begun(r)
    <3>1. r.pair = k /\ r.user = pairs[k].user /\ (r.alone <=> Others(p, pairs[k].user) = {})
      BY <2>2
    <3>. QED BY <1>1, <1>2, <2>3, <2>4, <3>1, BeginEffect, SMTT(30) DEF Begun
  <2>6. BegunAside(p, k)
    BY <2>2, <2>5 DEF Begun, BegunAside
  <2>7. BegunOwn(p, k)
    BY <1>1, <1>2, <2>1, <2>2, <2>5 DEF Begun, BegunOwn
  <2>. QED BY <2>6, <2>7
<1>6. CASE LogoutAllBegins(p, k)
  <2>. DEFINE r == NewRequest("revoke all", k, None, now, TRUE, Others(p, pairs[k].user) = {})
  <2>2. /\ r.step = "revoke all" /\ r.pair = k /\ r.user = pairs[k].user /\ r.refresh = None
        /\ r.at = now /\ r.all = TRUE /\ (r.alone <=> Others(p, pairs[k].user) = {})
    BY DEF NewRequest
  <2>3. r \in Request
    BY <1>2, <1>3 DEF NewRequest, Request
  <2>4. req' = [q \in Requests |->
                  IF q = p THEN r
                  ELSE IF q \in Others(p, pairs[k].user) THEN [req[q] EXCEPT !.alone = FALSE]
                  ELSE req[q]]
    BY <1>6 DEF LogoutAllBegins, Begin
  <2>. HIDE DEF r
  <2>5. Begun(r)
    <3>1. r.pair = k /\ r.user = pairs[k].user /\ (r.alone <=> Others(p, pairs[k].user) = {})
      BY <2>2
    <3>. QED BY <1>1, <1>2, <2>3, <2>4, <3>1, BeginEffect, SMTT(30) DEF Begun
  <2>6. BegunAside(p, k)
    BY <2>2, <2>5 DEF Begun, BegunAside
  <2>7. BegunOwn(p, k)
    BY <1>1, <1>2, <2>2, <2>5 DEF Begun, BegunOwn
  <2>. QED BY <2>6, <2>7
<1>. QED BY <1>4, <1>5, <1>6

(***************************************************************************)
(* The same, of one other request being served after it.                   *)
(***************************************************************************)
LEMMA BeginsAside ==
  ASSUME AuthTypeOK, NEW p \in Requests, NEW k \in Delivered,
         RefreshReadsRow(p, k) \/ LogoutBegins(p, k) \/ LogoutAllBegins(p, k),
         NEW q \in Requests, q # p, Active(q)'
  PROVE  /\ Active(q) /\ req'[q].step = req[q].step /\ req'[q].pair = req[q].pair
         /\ req'[q].user = req[q].user /\ req'[q].refresh = req[q].refresh
         /\ req'[q].at = req[q].at /\ req'[q].all = req[q].all
         /\ req'[q].alone => req[q].alone /\ req[q].user # pairs[k].user
<1>1. BegunAside(p, k)
  BY Begins
<1>. QED BY <1>1 DEF BegunAside

(***************************************************************************)
(* A request goes on to another step, or ends; no other request notices.   *)
(***************************************************************************)
LEMMA GotoEffect ==
  ASSUME AuthTypeOK, NEW p \in Requests, Active(p),
         NEW step \in {"rotate", "blacklist", "cutoff", "revoke row"}, Goto(p, step)
  PROVE  /\ req' \in [Requests -> {Idle} \cup Request]
         /\ req'[p] = [req[p] EXCEPT !.step = step] /\ req'[p] \in Request /\ Active(p)'
         /\ req'[p].step = step /\ req'[p].pair = req[p].pair /\ req'[p].user = req[p].user
         /\ req'[p].refresh = req[p].refresh /\ req'[p].at = req[p].at
         /\ req'[p].all = req[p].all /\ req'[p].alone = req[p].alone
         /\ \A q \in Requests \ {p} : req'[q] = req[q]
<1>1. req[p] \in Request /\ req \in [Requests -> {Idle} \cup Request]
  BY ActiveRequest DEF AuthTypeOK
<1>2. req' = [req EXCEPT ![p] = [req[p] EXCEPT !.step = step]]
  BY DEF Goto
<1>3. [req[p] EXCEPT !.step = step] \in Request
  BY <1>1 DEF Request
<1>4. req'[p] = [req[p] EXCEPT !.step = step]
  BY <1>1, <1>2
<1>5. req'[p].step # "idle"
  BY <1>1, <1>4 DEF Request
<1>6. Active(p)'
  <2>1. Idle.step = "idle"
    BY DEF Idle
  <2>. QED BY <1>5, <2>1 DEF Active
<1>7. /\ req'[p].step = step /\ req'[p].pair = req[p].pair /\ req'[p].user = req[p].user
      /\ req'[p].refresh = req[p].refresh /\ req'[p].at = req[p].at
      /\ req'[p].all = req[p].all /\ req'[p].alone = req[p].alone
  BY <1>1, <1>4 DEF Request
<1>. QED BY <1>1, <1>2, <1>3, <1>4, <1>6, <1>7

(***************************************************************************)
(* A request ends.                                                         *)
(***************************************************************************)
LEMMA FinishEffect ==
  ASSUME AuthTypeOK, NEW p \in Requests, Finish(p)
  PROVE  /\ req' \in [Requests -> {Idle} \cup Request]
         /\ req'[p] = Idle /\ ~Active(p)'
         /\ \A q \in Requests \ {p} : req'[q] = req[q]
BY DEF AuthTypeOK, Finish, Active

(***************************************************************************)
(* The step that blacklists takes the time of the cutoff, if there is      *)
(* none.                                                                   *)
(***************************************************************************)
LEMMA BlacklistEffect ==
  ASSUME AuthTypeOK, NEW p \in Requests, Blacklist(p)
  PROVE  /\ req[p] \in Request /\ Active(p)
         /\ req' \in [Requests -> {Idle} \cup Request]
         /\ req'[p] \in Request /\ Active(p)'
         /\ req'[p] = [req[p] EXCEPT !.step = "cutoff",
                                    !.at = IF req[p].at = None THEN now ELSE req[p].at]
         /\ req'[p].step = "cutoff" /\ req'[p].pair = req[p].pair /\ req'[p].user = req[p].user
         /\ req'[p].refresh = req[p].refresh /\ req'[p].all = req[p].all
         /\ req'[p].at = (IF req[p].at = None THEN now ELSE req[p].at)
         /\ req'[p].alone = req[p].alone
         /\ \A q \in Requests \ {p} : req'[q] = req[q]
<1>1. req[p].step = "blacklist"
  BY DEF Blacklist
<1>2. req[p] \in Request /\ Active(p) /\ req \in [Requests -> {Idle} \cup Request]
  BY <1>1, Serving DEF AuthTypeOK
<1>. DEFINE r == [req[p] EXCEPT !.step = "cutoff",
                               !.at = IF req[p].at = None THEN now ELSE req[p].at]
<1>3. req' = [req EXCEPT ![p] = r]
  BY <1>2 DEF Blacklist
<1>4. r \in Request
  BY <1>2 DEF Request, AuthTypeOK
<1>5. r.step # "idle"
  BY <1>2 DEF Request
<1>6. /\ r.step = "cutoff" /\ r.pair = req[p].pair /\ r.user = req[p].user
      /\ r.refresh = req[p].refresh /\ r.all = req[p].all /\ r.alone = req[p].alone
      /\ r.at = (IF req[p].at = None THEN now ELSE req[p].at)
  BY <1>2 DEF Request
<1>. HIDE DEF r
<1>7. Active(p)'
  BY <1>2, <1>3, <1>5 DEF Active, Idle
<1>8. req'[p] = r /\ \A q \in Requests \ {p} : req'[q] = req[q]
  BY <1>2, <1>3
<1>9. req' \in [Requests -> {Idle} \cup Request]
  BY <1>2, <1>3, <1>4
<1>. QED BY <1>2, <1>4, <1>6, <1>7, <1>8, <1>9 DEF r

(***************************************************************************)
(* A step that leaves the pairs alone keeps what the type invariant says   *)
(* of them; the same for the requests.                                     *)
(***************************************************************************)
LEMMA SamePairs ==
  ASSUME AuthTypeOK, pairs' = pairs, now' \in Nat, now <= now'
  PROVE  /\ Pairs' = Pairs /\ Delivered' = Delivered
         /\ pairs' \in Seq(PairRecord) /\ Len(pairs') <= MaxPairs
         /\ \A n \in Pairs' :
              /\ pairs'[n].session <= n /\ pairs'[n].issued <= now'
              /\ pairs'[n].by # None =>
                   /\ pairs'[n].revoked /\ pairs'[n].by \in n + 1 .. Len(pairs')
                   /\ pairs'[pairs'[n].by].session = pairs'[n].session
<1>1. Pairs' = Pairs /\ Delivered' = Delivered
  BY DEF Pairs, Delivered
<1>2. ASSUME NEW n \in Pairs PROVE pairs'[n].issued <= now'
  <2>1. pairs[n].issued <= now /\ pairs[n].issued \in Nat /\ now \in Nat
    BY PairFacts, AuthAssumption DEF AuthTypeOK
  <2>. QED BY <2>1
<1>. QED BY <1>1, <1>2 DEF AuthTypeOK

(***************************************************************************)
(* Requests go on belonging to pairs when the pairs grow.                  *)
(***************************************************************************)
LEMMA GrownPairs ==
  ASSUME AuthTypeOK, Pairs \subseteq Pairs', req' \in [Requests -> {Idle} \cup Request],
         \A n \in Pairs : pairs'[n].user = pairs[n].user /\ pairs'[n].delivered = pairs[n].delivered,
         \A q \in Requests : Active(q)' =>
           /\ Active(q) /\ req'[q].pair = req[q].pair /\ req'[q].user = req[q].user
           /\ req'[q].refresh = req[q].refresh
  PROVE  \A q \in Requests : Active(q)' =>
           /\ req'[q].pair \in Pairs' /\ req'[q].user = pairs'[req'[q].pair].user
           /\ req'[q].refresh \in Delivered' \cup {None}
<1>1. Delivered \subseteq Delivered'
  BY DEF Delivered, Pairs
<1>. QED BY <1>1, ActiveRequest

(***************************************************************************)
(* What a logout ends are sessions.                                        *)
(***************************************************************************)
LEMMA EndedType ==
  ASSUME AuthTypeOK, NEW p \in Requests, Active(p)
  PROVE  Ended(p) \subseteq Pairs
BY ActiveRequest, PairFacts DEF Ended, Pairs

(***************************************************************************)
(* Requests that revoke rows leave all but the revocation as it is.        *)
(***************************************************************************)
LEMMA RevokeKeeps ==
  ASSUME AuthTypeOK, NEW p \in Requests, RevokeAll(p) \/ RevokeRow(p), NEW n \in Pairs
  PROVE  /\ pairs'[n].session = pairs[n].session /\ pairs'[n].issued = pairs[n].issued
         /\ pairs'[n].user = pairs[n].user /\ pairs'[n].delivered = pairs[n].delivered
         /\ pairs'[n].by = pairs[n].by /\ (pairs[n].revoked => pairs'[n].revoked)
<1>1. PICK b \in BOOLEAN : pairs'[n] = [pairs[n] EXCEPT !.revoked = b]
  BY RevokeEffect
<1>2. pairs[n].revoked => pairs'[n] = pairs[n]
  BY RevokeEffect
<1>3. pairs[n] \in PairRecord
  BY PairFacts
<1>. QED BY <1>1, <1>2, <1>3 DEF PairRecord

(***************************************************************************)
(* Every step keeps the variables in their domains.                        *)
(***************************************************************************)
LEMMA AuthTypeStep ==
  AuthTypeOK /\ StepInv /\ [Next]_vars
    => AuthTypeOK'
<1>. SUFFICES ASSUME AuthTypeOK, StepInv, [Next]_vars
              PROVE  AuthTypeOK'
  OBVIOUS
<1>. DEFINE PairsOK ==
       /\ pairs' \in Seq(PairRecord) /\ Len(pairs') <= MaxPairs
       /\ \A n \in Pairs' :
            /\ pairs'[n].session <= n /\ pairs'[n].issued <= now'
            /\ pairs'[n].by # None =>
                 /\ pairs'[n].revoked /\ pairs'[n].by \in n + 1 .. Len(pairs')
                 /\ pairs'[pairs'[n].by].session = pairs'[n].session
            RequestsOK ==
       /\ req' \in [Requests -> {Idle} \cup Request]
       /\ \A q \in Requests : Active(q)' =>
            /\ req'[q].pair \in Pairs' /\ req'[q].user = pairs'[req'[q].pair].user
            /\ req'[q].refresh \in Delivered' \cup {None}
            StoresOK ==
       /\ revoked' \in [Users -> 0 .. MaxTime \cup {None}]
       /\ black' \in [1 .. MaxPairs -> Nat]
       /\ cut' \in [Users -> [second : Nat, until : Nat]]
            OthersOK == now' \in 0 .. MaxTime /\ ended' \cup raced' \subseteq Pairs'
<1>a. PairsOK /\ RequestsOK /\ StoresOK /\ OthersOK => AuthTypeOK'
  BY DEF AuthTypeOK, Active
<1>b. now \in 0 .. MaxTime /\ now \in Nat /\ MaxTime \in Nat
  BY AuthAssumption DEF AuthTypeOK
<1>c. now' = now /\ UNCHANGED <<revoked, black, cut>> => StoresOK
  BY DEF AuthTypeOK
<1>d. now' = now /\ pairs' = pairs => PairsOK /\ Pairs' = Pairs /\ Delivered' = Delivered
  BY <1>b, SamePairs
<1>e. UNCHANGED <<now, ended, raced>> /\ Pairs \subseteq Pairs' => OthersOK
  BY DEF AuthTypeOK
<1>f. UNCHANGED req /\ pairs' = pairs => RequestsOK
  BY DEF AuthTypeOK, Active, Pairs, Delivered
<1>g. pairs' = pairs => Pairs' = Pairs
  BY DEF Pairs
<1>. HIDE DEF PairsOK, RequestsOK, StoresOK, OthersOK
<1>1. CASE Tick
  <2>1. now' \in 0 .. MaxTime /\ now <= now' /\ now' \in Nat
    BY <1>1, <1>b DEF Tick
  <2>2. PairsOK /\ RequestsOK
    BY <1>1, <1>f, <2>1, SamePairs DEF Tick, PairsOK
  <2>3. StoresOK
    <3>1. black' \in [1 .. MaxPairs -> Nat]
      BY <1>1 DEF Tick, AuthTypeOK
    <3>2. cut' \in [Users -> [second : Nat, until : Nat]]
      BY <1>1 DEF Tick, AuthTypeOK, NoCutoff
    <3>. QED BY <1>1, <3>1, <3>2 DEF Tick, AuthTypeOK, StoresOK
  <2>4. OthersOK
    BY <1>1, <1>g, <2>1 DEF Tick, AuthTypeOK, OthersOK
  <2>. QED BY <1>a, <2>2, <2>3, <2>4
<1>2. ASSUME NEW u \in Users, Login(u) PROVE AuthTypeOK'
  <2>. DEFINE new == Len(pairs) + 1
  <2>1. UNCHANGED <<now, revoked, black, cut, req, ended, raced>>
    BY <1>2 DEF Login
  <2>2. /\ new \in 1 .. MaxPairs /\ new \notin Pairs /\ Pairs' = Pairs \cup {new}
        /\ Len(pairs') = new /\ pairs' \in Seq(PairRecord)
        /\ \A n \in Pairs : n < new /\ pairs'[n] = pairs[n]
        /\ pairs'[new] = NewPair(u, new, TRUE)
    BY <1>2, LoginEffect
  <2>3. PairsOK
    <3>1. ASSUME NEW n \in Pairs
          PROVE  /\ pairs'[n].session <= n /\ pairs'[n].issued <= now'
                 /\ pairs'[n].by # None =>
                      /\ pairs'[n].revoked /\ pairs'[n].by \in n + 1 .. Len(pairs')
                      /\ pairs'[pairs'[n].by].session = pairs'[n].session
      <4>1. /\ pairs[n].session <= n /\ pairs[n].issued <= now
            /\ pairs[n].by # None =>
                 /\ pairs[n].revoked /\ pairs[n].by \in n + 1 .. Len(pairs)
                 /\ pairs[pairs[n].by].session = pairs[n].session
        BY DEF AuthTypeOK
      <4>2. Pairs = 1 .. Len(pairs) /\ Len(pairs) \in Nat
        BY PairFacts
      <4>3. pairs[n].by # None => pairs[n].by \in Pairs /\ pairs[n].by \in n + 1 .. new
        BY <4>1, <4>2
      <4>. QED BY <2>1, <2>2, <4>1, <4>3
    <3>2. new <= new /\ NewPair(u, new, TRUE).session = new
          /\ NewPair(u, new, TRUE).issued = now /\ NewPair(u, new, TRUE).by = None
      BY <2>2 DEF NewPair
    <3>3. Len(pairs') <= MaxPairs
      BY <2>2
    <3>4. pairs'[new].session <= new /\ pairs'[new].issued <= now' /\ pairs'[new].by = None
      <4>1. pairs'[new] = NewPair(u, new, TRUE) /\ now' = now /\ now <= now
        BY <1>b, <2>1, <2>2
      <4>. QED BY <3>2, <4>1
    <3>. QED BY <2>2, <3>1, <3>3, <3>4 DEF PairsOK
  <2>4. RequestsOK
    BY <2>1, <2>2, GrownPairs DEF AuthTypeOK, Active, RequestsOK
  <2>. QED BY <1>a, <1>c, <1>e, <2>1, <2>2, <2>3, <2>4
<1>3. ASSUME NEW p \in Requests, NEW k \in Delivered,
             RefreshReadsRow(p, k) \/ LogoutBegins(p, k) \/ LogoutAllBegins(p, k)
      PROVE  AuthTypeOK'
  <2>1. /\ UNCHANGED <<now, pairs, revoked, black, cut, ended, raced>>
        /\ k \in Pairs /\ req'[p].pair = k /\ req'[p].user = pairs[k].user
        /\ req'[p].refresh \in Delivered \cup {None}
    BY <1>3, Begins DEF BegunOwn
  <2>2. req' \in [Requests -> {Idle} \cup Request]
    BY <1>3, Begins DEF BegunAside
  <2>3. ASSUME NEW q \in Requests, q # p, Active(q)'
        PROVE  /\ Active(q) /\ req'[q].pair = req[q].pair /\ req'[q].user = req[q].user
               /\ req'[q].refresh = req[q].refresh
    BY <1>3, <2>3, BeginsAside
  <2>4. RequestsOK
    BY <1>d, <2>1, <2>2, <2>3, ActiveRequest DEF RequestsOK
  <2>. QED BY <1>a, <1>c, <1>d, <1>e, <2>1, <2>4
<1>4. ASSUME NEW p \in Requests, RefreshReadsUser(p) PROVE AuthTypeOK'
  <2>1. UNCHANGED <<now, pairs, revoked, black, cut, ended, raced>> /\ Active(p)
    BY <1>4, Serving DEF RefreshReadsUser
  <2>2. Finish(p) \/ Goto(p, "rotate")
    BY <1>4 DEF RefreshReadsUser
  <2>3. /\ req' \in [Requests -> {Idle} \cup Request]
        /\ \A q \in Requests : Active(q)' =>
             /\ Active(q) /\ req'[q].pair = req[q].pair /\ req'[q].user = req[q].user
             /\ req'[q].refresh = req[q].refresh
    <3>1. CASE Finish(p)
      BY <3>1, FinishEffect DEF Active
    <3>2. CASE Goto(p, "rotate")
      BY <2>1, <3>2, GotoEffect DEF Active
    <3>. QED BY <2>2, <3>1, <3>2
  <2>4. RequestsOK
    BY <1>d, <2>1, <2>3, GrownPairs DEF RequestsOK
  <2>. QED BY <1>a, <1>c, <1>d, <1>e, <2>1, <2>4
<1>5. ASSUME NEW p \in Requests, Rotate(p) PROVE AuthTypeOK'
  <2>. DEFINE old == req[p].pair
              new == Len(pairs) + 1
  <2>1. UNCHANGED <<now, revoked, black, cut, ended>> /\ raced' \in {raced, raced \cup {new}} /\ Finish(p)
    BY <1>5 DEF Rotate
  <2>2. /\ req' \in [Requests -> {Idle} \cup Request]
        /\ \A q \in Requests : Active(q)' => Active(q) /\ req'[q] = req[q]
    BY <1>5, FinishEffect DEF Active, Rotate
  <2>3. PICK delivered \in BOOLEAN :
          /\ old \in Pairs /\ req[p] \in Request
          /\ new \in 1 .. MaxPairs /\ new \notin Pairs /\ Pairs' = Pairs \cup {new}
          /\ Len(pairs') = new /\ pairs' \in Seq(PairRecord)
          /\ \A n \in Pairs : n < new
          /\ \A n \in Pairs \ {old} : pairs'[n] = pairs[n]
          /\ pairs'[old] = [pairs[old] EXCEPT !.revoked = TRUE, !.by = new]
          /\ pairs'[new] = NewPair(pairs[old].user, pairs[old].session, delivered)
    BY <1>5, RotateEffect
  <2>. DEFINE row == NewPair(pairs[old].user, pairs[old].session, delivered)
  <2>4. /\ pairs'[old].session = pairs[old].session /\ pairs'[old].issued = pairs[old].issued
        /\ pairs'[old].user = pairs[old].user /\ pairs'[old].delivered = pairs[old].delivered
        /\ pairs'[old].revoked /\ pairs'[old].by = new
    BY <2>3, PairFacts DEF PairRecord
  <2>5. row.session = pairs[old].session /\ row.issued = now /\ row.by = None
    BY DEF NewPair
  <2>6. pairs[old].session <= old /\ old < new /\ pairs[old].issued <= now
        /\ old \in Nat /\ new \in Nat /\ pairs[old].session \in Nat
    BY <2>3, PairFacts DEF AuthTypeOK
  <2>. HIDE DEF row
  <2>7. PairsOK
    <3>1. ASSUME NEW n \in Pairs, n # old
          PROVE  /\ pairs'[n].session <= n /\ pairs'[n].issued <= now'
                 /\ pairs'[n].by # None =>
                      /\ pairs'[n].revoked /\ pairs'[n].by \in n + 1 .. Len(pairs')
                      /\ pairs'[pairs'[n].by].session = pairs'[n].session
      <4>1. /\ pairs[n].session <= n /\ pairs[n].issued <= now
            /\ pairs[n].by # None =>
                 /\ pairs[n].revoked /\ pairs[n].by \in n + 1 .. Len(pairs)
                 /\ pairs[pairs[n].by].session = pairs[n].session
        BY DEF AuthTypeOK
      <4>2. Pairs = 1 .. Len(pairs) /\ Len(pairs) \in Nat
        BY PairFacts
      <4>3. pairs[n].by # None => pairs[n].by \in Pairs /\ pairs[n].by \in n + 1 .. new
        BY <4>1, <4>2
      <4>4. pairs'[n] = pairs[n] /\ now' = now /\ Len(pairs') = new
        BY <2>1, <2>3, <3>1
      <4>5. pairs[n].by # None => pairs'[pairs[n].by].session = pairs[pairs[n].by].session
        BY <2>3, <2>4, <4>3
      <4>. QED BY <4>1, <4>3, <4>4, <4>5
    <3>2. new \in old + 1 .. new /\ pairs'[new].session = pairs[old].session
      BY <2>3, <2>5, <2>6 DEF row
    <3>3. pairs'[new].session <= new /\ pairs'[new].issued <= now' /\ pairs'[new].by = None
      BY <1>b, <2>1, <2>3, <2>5, <2>6 DEF row
    <3>4. pairs'[old].session <= old /\ pairs'[old].issued <= now' /\ pairs'[old].by # None
          /\ pairs'[old].revoked /\ pairs'[old].by \in old + 1 .. Len(pairs')
          /\ pairs'[pairs'[old].by].session = pairs'[old].session
      BY <2>1, <2>3, <2>4, <2>6, <3>2, AuthAssumption
    <3>5. Len(pairs') <= MaxPairs
      BY <2>3
    <3>. QED BY <2>3, <3>1, <3>3, <3>4, <3>5 DEF PairsOK
  <2>8. \A n \in Pairs : pairs'[n].user = pairs[n].user /\ pairs'[n].delivered = pairs[n].delivered
    BY <2>3, <2>4
  <2>9. RequestsOK
    BY <2>2, <2>3, <2>8, GrownPairs DEF RequestsOK
  <2>10. OthersOK
    BY <1>b, <2>1, <2>3 DEF OthersOK, AuthTypeOK
  <2>. QED BY <1>a, <1>c, <2>1, <2>7, <2>9, <2>10
<1>8. ASSUME NEW p \in Requests, RevokeAll(p) PROVE AuthTypeOK'
  <2>1. /\ UNCHANGED <<now, black, cut, ended, raced>> /\ Active(p) /\ Goto(p, "blacklist")
        /\ revoked' = [revoked EXCEPT ![req[p].user] = req[p].at] /\ req[p].step = "revoke all"
    BY <1>8, Serving DEF RevokeAll
  <2>2. /\ req' \in [Requests -> {Idle} \cup Request]
        /\ \A q \in Requests : Active(q)' =>
             /\ Active(q) /\ req'[q].pair = req[q].pair /\ req'[q].user = req[q].user
             /\ req'[q].refresh = req[q].refresh
    BY <2>1, GotoEffect DEF Active
  <2>3. /\ Pairs' = Pairs /\ Len(pairs') = Len(pairs) /\ pairs' \in Seq(PairRecord)
        /\ \A n \in Pairs : /\ \E b \in BOOLEAN : pairs'[n] = [pairs[n] EXCEPT !.revoked = b]
                           /\ pairs[n].revoked => pairs'[n] = pairs[n]
    BY <1>8, RevokeEffect
  <2>4. \A n \in Pairs :
          /\ pairs'[n].session = pairs[n].session /\ pairs'[n].issued = pairs[n].issued
          /\ pairs'[n].user = pairs[n].user /\ pairs'[n].delivered = pairs[n].delivered
          /\ pairs'[n].by = pairs[n].by /\ (pairs[n].revoked => pairs'[n].revoked)
    BY <1>8, RevokeKeeps
  <2>5. PairsOK
    <3>1. ASSUME NEW n \in Pairs
          PROVE  /\ pairs'[n].session <= n /\ pairs'[n].issued <= now'
                 /\ pairs'[n].by # None =>
                      /\ pairs'[n].revoked /\ pairs'[n].by \in n + 1 .. Len(pairs')
                      /\ pairs'[pairs'[n].by].session = pairs'[n].session
      <4>1. /\ pairs[n].session <= n /\ pairs[n].issued <= now
            /\ pairs[n].by # None =>
                 /\ pairs[n].revoked /\ pairs[n].by \in n + 1 .. Len(pairs)
                 /\ pairs[pairs[n].by].session = pairs[n].session
        BY DEF AuthTypeOK
      <4>2. pairs[n].by # None => pairs[n].by \in Pairs
        BY <4>1, PairFacts
      <4>. QED BY <2>1, <2>3, <2>4, <4>1, <4>2
    <3>. QED BY <2>3, <3>1, PairFacts DEF PairsOK
  <2>6. RequestsOK
    BY <2>2, <2>3, <2>4, GrownPairs DEF RequestsOK
  <2>7. StoresOK
    <3>1. req[p].at \in 0 .. MaxTime /\ req[p].user \in Users
      BY <2>1, ActiveRequest DEF StepInv, Request
    <3>2. revoked' \in [Users -> 0 .. MaxTime \cup {None}]
      BY <2>1, <3>1 DEF AuthTypeOK
    <3>. QED BY <2>1, <3>2 DEF AuthTypeOK, StoresOK
  <2>. QED BY <1>a, <1>e, <2>1, <2>3, <2>5, <2>6, <2>7
<1>9. ASSUME NEW p \in Requests, Blacklist(p) PROVE AuthTypeOK'
  <2>1. /\ UNCHANGED <<now, pairs, revoked, cut, ended, raced>>
        /\ \E t \in Nat : black' \in {black, [black EXCEPT ![req[p].pair] = t]}
    <3>. DEFINE ttl == Second(Ticks(AccessExp(req[p].pair)) - now)
    <3>1. req[p].pair \in Pairs
      BY <1>9, BlacklistEffect, ActiveRequest
    <3>3. Ticks(AccessExp(req[p].pair)) \in Nat
      BY <3>1, ExpFacts
    <3>4. Ticks(AccessExp(req[p].pair)) - now \in Int
      BY <1>b, <3>3
    <3>5. ttl \in Int
      BY <3>4, AuthAssumption DEF Second
    <3>6. ttl > 0 => ttl \in Nat
      BY <3>5
    <3>7. ttl > 0 => now + Ticks(ttl) \in Nat
      <4>1. \A t \in Nat : Ticks(t) \in Nat
        BY AuthAssumption DEF Ticks
      <4>. QED BY <1>b, <3>6, <4>1
    <3>8. black' = IF ttl > 0 THEN [black EXCEPT ![req[p].pair] = now + Ticks(ttl)] ELSE black
      BY <1>9 DEF Blacklist
    <3>. HIDE DEF ttl
    <3>9. UNCHANGED <<now, pairs, revoked, cut, ended, raced>>
      BY <1>9 DEF Blacklist
    <3>. QED BY <3>7, <3>8, <3>9
  <2>2. /\ req' \in [Requests -> {Idle} \cup Request]
        /\ \A q \in Requests : Active(q)' =>
             /\ Active(q) /\ req'[q].pair = req[q].pair /\ req'[q].user = req[q].user
             /\ req'[q].refresh = req[q].refresh
    BY <1>9, BlacklistEffect DEF Active
  <2>3. RequestsOK
    BY <1>d, <2>1, <2>2, GrownPairs DEF RequestsOK
  <2>4. StoresOK
    <3>1. black' \in [1 .. MaxPairs -> Nat]
      BY <2>1 DEF AuthTypeOK
    <3>. QED BY <2>1, <3>1 DEF AuthTypeOK, StoresOK
  <2>. QED BY <1>a, <1>d, <1>e, <2>1, <2>3, <2>4
<1>10. ASSUME NEW p \in Requests, Cutoff(p) PROVE AuthTypeOK'
  <2>1. /\ UNCHANGED <<now, pairs, revoked, black, raced>> /\ Active(p)
        /\ cut' = [cut EXCEPT ![req[p].user] = [second |-> Second(req[p].at),
                                                until |-> now + Ticks(AccessLife)]]
        /\ (Goto(p, "revoke row") /\ ended' = ended) \/ (Finish(p) /\ ended' = ended \cup Ended(p))
        /\ req[p].step = "cutoff"
    BY <1>10, Serving DEF Cutoff
  <2>2. /\ req' \in [Requests -> {Idle} \cup Request]
        /\ \A q \in Requests : Active(q)' =>
             /\ Active(q) /\ req'[q].pair = req[q].pair /\ req'[q].user = req[q].user
             /\ req'[q].refresh = req[q].refresh
    <3>1. CASE Goto(p, "revoke row")
      BY <2>1, <3>1, GotoEffect DEF Active
    <3>2. CASE Finish(p)
      BY <3>2, FinishEffect DEF Active
    <3>. QED BY <2>1, <3>1, <3>2
  <2>3. RequestsOK
    BY <1>d, <2>1, <2>2, GrownPairs DEF RequestsOK
  <2>4. StoresOK
    <3>1. req[p].at \in 0 .. MaxTime
      BY <2>1, ActiveRequest DEF StepInv, Request
    <3>2. Second(req[p].at) \in Nat /\ now + Ticks(AccessLife) \in Nat
      <4>1. req[p].at \in Nat /\ AccessLife \in Nat
        BY <1>b, <3>1, AuthAssumption
      <4>2. Ticks(AccessLife) \in Nat
        BY <4>1, AuthAssumption DEF Ticks
      <4>. QED BY <1>b, <4>1, <4>2, SecondFacts
    <3>3. cut' \in [Users -> [second : Nat, until : Nat]]
      BY <2>1, <3>2 DEF AuthTypeOK
    <3>. QED BY <2>1, <3>3 DEF AuthTypeOK, StoresOK
  <2>5. OthersOK
    BY <1>b, <1>g, <2>1, EndedType DEF AuthTypeOK, OthersOK
  <2>. QED BY <1>a, <1>d, <2>1, <2>3, <2>4, <2>5
<1>11. ASSUME NEW p \in Requests, RevokeRow(p) PROVE AuthTypeOK'
  <2>1. /\ UNCHANGED <<now, revoked, black, cut, raced>> /\ Active(p) /\ Finish(p)
        /\ ended' = ended \cup Ended(p) /\ req[p].step = "revoke row"
    BY <1>11, Serving DEF RevokeRow
  <2>2. /\ req' \in [Requests -> {Idle} \cup Request]
        /\ \A q \in Requests : Active(q)' =>
             /\ Active(q) /\ req'[q].pair = req[q].pair /\ req'[q].user = req[q].user
             /\ req'[q].refresh = req[q].refresh
    BY <2>1, FinishEffect DEF Active
  <2>3. /\ Pairs' = Pairs /\ Len(pairs') = Len(pairs) /\ pairs' \in Seq(PairRecord)
        /\ \A n \in Pairs : /\ \E b \in BOOLEAN : pairs'[n] = [pairs[n] EXCEPT !.revoked = b]
                           /\ pairs[n].revoked => pairs'[n] = pairs[n]
    BY <1>11, RevokeEffect
  <2>4. \A n \in Pairs :
          /\ pairs'[n].session = pairs[n].session /\ pairs'[n].issued = pairs[n].issued
          /\ pairs'[n].user = pairs[n].user /\ pairs'[n].delivered = pairs[n].delivered
          /\ pairs'[n].by = pairs[n].by /\ (pairs[n].revoked => pairs'[n].revoked)
    BY <1>11, RevokeKeeps
  <2>5. PairsOK
    <3>1. ASSUME NEW n \in Pairs
          PROVE  /\ pairs'[n].session <= n /\ pairs'[n].issued <= now'
                 /\ pairs'[n].by # None =>
                      /\ pairs'[n].revoked /\ pairs'[n].by \in n + 1 .. Len(pairs')
                      /\ pairs'[pairs'[n].by].session = pairs'[n].session
      <4>1. /\ pairs[n].session <= n /\ pairs[n].issued <= now
            /\ pairs[n].by # None =>
                 /\ pairs[n].revoked /\ pairs[n].by \in n + 1 .. Len(pairs)
                 /\ pairs[pairs[n].by].session = pairs[n].session
        BY DEF AuthTypeOK
      <4>2. pairs[n].by # None => pairs[n].by \in Pairs
        BY <4>1, PairFacts
      <4>. QED BY <2>1, <2>3, <2>4, <4>1, <4>2
    <3>. QED BY <2>3, <3>1, PairFacts DEF PairsOK
  <2>6. RequestsOK
    BY <2>2, <2>3, <2>4, GrownPairs DEF RequestsOK
  <2>7. OthersOK
    BY <1>b, <2>1, <2>3, EndedType DEF AuthTypeOK, OthersOK
  <2>. QED BY <1>a, <1>c, <2>1, <2>5, <2>6, <2>7
<1>12. ASSUME NEW p \in Requests, Fail(p) PROVE AuthTypeOK'
  <2>1. UNCHANGED <<now, pairs, revoked, black, cut, ended, raced>> /\ Finish(p)
    BY <1>12 DEF Fail
  <2>2. /\ req' \in [Requests -> {Idle} \cup Request]
        /\ \A q \in Requests : Active(q)' => Active(q) /\ req'[q] = req[q]
    BY <1>12, FinishEffect DEF Active, Fail
  <2>3. RequestsOK
    BY <1>d, <2>1, <2>2, GrownPairs DEF RequestsOK
  <2>. QED BY <1>a, <1>c, <1>d, <1>e, <2>1, <2>3
<1>13. CASE UNCHANGED vars
  <2>1. UNCHANGED <<now, pairs, revoked, black, cut, ended, raced, req>>
    BY <1>13 DEF vars
  <2>. QED BY <1>a, <1>c, <1>d, <1>e, <1>f, <2>1
<1>. QED
  BY <1>1, <1>2, <1>3, <1>4, <1>5, <1>8, <1>9, <1>10, <1>11, <1>12, <1>13
     DEF Next, Serve

(***************************************************************************)
(* No step takes a pair away, or changes more of it than its revocation;   *)
(* time does not go back, and what ended or raced stays so.                *)
(***************************************************************************)
LEMMA PairsKeep ==
  ASSUME AuthTypeOK, [Next]_vars
  PROVE  /\ now <= now' /\ ended \subseteq ended' /\ raced \subseteq raced'
         /\ \A n \in Pairs :
              /\ n \in Pairs' /\ pairs'[n].session = pairs[n].session
              /\ pairs'[n].issued = pairs[n].issued /\ pairs'[n].user = pairs[n].user
              /\ pairs'[n].delivered = pairs[n].delivered
              /\ pairs[n].revoked => pairs'[n].revoked
<1>. DEFINE Kept ==
       /\ now <= now' /\ ended \subseteq ended' /\ raced \subseteq raced'
       /\ \A n \in Pairs :
            /\ n \in Pairs' /\ pairs'[n].session = pairs[n].session
            /\ pairs'[n].issued = pairs[n].issued /\ pairs'[n].user = pairs[n].user
            /\ pairs'[n].delivered = pairs[n].delivered
            /\ pairs[n].revoked => pairs'[n].revoked
<1>1. now \in Nat /\ (now' = now \/ now' = now + 1 => now <= now')
  BY AuthAssumption DEF AuthTypeOK
<1>2. CASE UNCHANGED pairs
  <2>1. now' = now \/ now' = now + 1
    BY <1>2 DEF Next, Serve, Tick, Login, RefreshReadsRow, LogoutBegins, LogoutAllBegins,
                RefreshReadsUser, Rotate, RevokeAll, Blacklist, Cutoff, RevokeRow, Fail, vars
  <2>2. ended \subseteq ended' /\ raced \subseteq raced'
    BY <1>2 DEF Next, Serve, Tick, Login, RefreshReadsRow, LogoutBegins, LogoutAllBegins,
                RefreshReadsUser, Rotate, RevokeAll, Blacklist, Cutoff, RevokeRow, Fail, vars
  <2>. QED BY <1>1, <1>2, <2>1, <2>2 DEF Pairs
<1>3. ASSUME NEW u \in Users, Login(u) PROVE Kept
  <2>1. UNCHANGED <<now, ended, raced>>
    BY <1>3 DEF Login
  <2>. QED BY <1>1, <1>3, <2>1, LoginEffect
<1>4. ASSUME NEW p \in Requests, Rotate(p) PROVE Kept
  <2>. DEFINE old == req[p].pair
  <2>1. UNCHANGED <<now, ended>> /\ raced \subseteq raced'
    BY <1>4 DEF Rotate
  <2>2. /\ old \in Pairs /\ Pairs \subseteq Pairs'
        /\ \A n \in Pairs \ {old} : pairs'[n] = pairs[n]
        /\ pairs'[old] = [pairs[old] EXCEPT !.revoked = TRUE, !.by = Len(pairs) + 1]
    BY <1>4, RotateEffect
  <2>3. /\ pairs'[old].session = pairs[old].session /\ pairs'[old].issued = pairs[old].issued
        /\ pairs'[old].user = pairs[old].user /\ pairs'[old].delivered = pairs[old].delivered
        /\ pairs'[old].revoked
    BY <2>2, PairFacts DEF PairRecord
  <2>. QED BY <1>1, <2>1, <2>2, <2>3
<1>5. ASSUME NEW p \in Requests, RevokeAll(p) \/ RevokeRow(p) PROVE Kept
  <2>1. now' = now /\ ended \subseteq ended' /\ raced \subseteq raced'
    BY <1>5 DEF RevokeAll, RevokeRow
  <2>2. Pairs' = Pairs
    BY <1>5, RevokeEffect
  <2>. QED BY <1>1, <1>5, <2>1, <2>2, RevokeKeeps
<1>. HIDE DEF Kept
<1>6. CASE ~UNCHANGED pairs
  <2>1. \/ \E u \in Users : Login(u)
        \/ \E p \in Requests : Rotate(p) \/ RevokeAll(p) \/ RevokeRow(p)
    BY <1>6 DEF Next, Serve, Tick, RefreshReadsRow, LogoutBegins, LogoutAllBegins,
                RefreshReadsUser, Blacklist, Cutoff, Fail, vars
  <2>2. CASE \E u \in Users : Login(u)
    BY <1>3, <2>2 DEF Kept
  <2>3. CASE \E p \in Requests : Rotate(p) \/ RevokeAll(p) \/ RevokeRow(p)
    BY <1>4, <1>5, <2>3 DEF Kept
  <2>. QED BY <2>1, <2>2, <2>3
<1>. QED BY <1>2, <1>6 DEF Kept

(***************************************************************************)
(* Where a new pair comes from: a login, or the rotation of an older one.  *)
(***************************************************************************)
LEMMA NewPairs ==
  ASSUME AuthTypeOK, [Next]_vars, NEW n \in Pairs', n \notin Pairs
  PROVE  /\ n = Len(pairs) + 1 /\ Pairs' = Pairs \cup {n} /\ \A k \in Pairs : k < n
         /\ pairs'[n].issued = now /\ ~pairs'[n].revoked /\ UNCHANGED <<now, cut, ended>>
         /\ \/ \E u \in Users : Login(u) /\ pairs'[n].session = n /\ UNCHANGED <<req, raced>>
            \/ \E p \in Requests :
                 /\ Rotate(p) /\ Active(p) /\ ~Active(p)' /\ req[p].pair \in Pairs
                 /\ req[p].step = "rotate"
                 /\ \A q \in Requests \ {p} : req'[q] = req[q]
                 /\ pairs'[n].user = pairs[req[p].pair].user
                 /\ pairs'[n].session = pairs[req[p].pair].session
                 /\ pairs'[req[p].pair].revoked
                 /\ raced' = IF pairs[req[p].pair].revoked THEN raced \cup {n} ELSE raced
                 /\ \A k \in Pairs \ {req[p].pair} : pairs'[k] = pairs[k]
<1>1. ~UNCHANGED pairs
  BY DEF Pairs
<1>2. ASSUME NEW p \in Requests PROVE ~RevokeAll(p) /\ ~RevokeRow(p)
  BY RevokeEffect
<1>3. CASE \E u \in Users : Login(u)
  <2>1. PICK u \in Users : Login(u)
    BY <1>3
  <2>2. n = Len(pairs) + 1 /\ Pairs' = Pairs \cup {n} /\ (\A k \in Pairs : k < n)
        /\ pairs'[n] = NewPair(u, n, TRUE)
    BY <2>1, LoginEffect
  <2>3. UNCHANGED <<now, cut, ended, req, raced>>
    BY <2>1 DEF Login
  <2>. QED BY <2>1, <2>2, <2>3 DEF NewPair
<1>4. CASE \E p \in Requests : Rotate(p)
  <2>1. PICK p \in Requests : Rotate(p)
    BY <1>4
  <2>. DEFINE old == req[p].pair
  <2>a. /\ old \in Pairs /\ Pairs' = Pairs \cup {Len(pairs) + 1}
        /\ \A k \in Pairs : k < Len(pairs) + 1
    BY <2>1, RotateEffect
  <2>b. n = Len(pairs) + 1
    BY <2>a
  <2>c. /\ \A k \in Pairs \ {old} : pairs'[k] = pairs[k]
        /\ pairs'[old] = [pairs[old] EXCEPT !.revoked = TRUE, !.by = Len(pairs) + 1]
        /\ \E delivered \in BOOLEAN :
              pairs'[Len(pairs) + 1] = NewPair(pairs[old].user, pairs[old].session, delivered)
    BY <2>1, RotateEffect
  <2>2. PICK delivered \in BOOLEAN :
          /\ old \in Pairs /\ n = Len(pairs) + 1 /\ Pairs' = Pairs \cup {n}
          /\ \A k \in Pairs : k < n
          /\ \A k \in Pairs \ {old} : pairs'[k] = pairs[k]
          /\ pairs'[old] = [pairs[old] EXCEPT !.revoked = TRUE, !.by = n]
          /\ pairs'[n] = NewPair(pairs[old].user, pairs[old].session, delivered)
    BY <2>a, <2>b, <2>c
  <2>3. /\ UNCHANGED <<now, cut, ended>> /\ Finish(p) /\ req[p].step = "rotate"
        /\ raced' = IF pairs[old].revoked THEN raced \cup {n} ELSE raced
    BY <2>1, <2>2 DEF Rotate
  <2>4. Active(p) /\ ~Active(p)' /\ \A q \in Requests \ {p} : req'[q] = req[q]
    BY <2>3, FinishEffect, Serving
  <2>5. pairs'[old].revoked
    BY <2>2, PairFacts DEF PairRecord
  <2>6. /\ pairs'[n].user = pairs[old].user /\ pairs'[n].session = pairs[old].session
        /\ pairs'[n].issued = now /\ ~pairs'[n].revoked
    BY <2>2 DEF NewPair
  <2>. QED BY <2>1, <2>2, <2>3, <2>4, <2>5, <2>6
<1>. QED BY <1>1, <1>2, <1>3, <1>4
     DEF Next, Serve, Tick, RefreshReadsRow, LogoutBegins, LogoutAllBegins,
         RefreshReadsUser, Blacklist, Cutoff, Fail, vars

(***************************************************************************)
(* A request that is being served after a step, and was not before, has    *)
(* begun in it.                                                            *)
(***************************************************************************)
LEMMA Starts ==
  ASSUME AuthTypeOK, [Next]_vars, NEW q \in Requests, Active(q)', ~Active(q)
  PROVE  \E k \in Delivered :
           RefreshReadsRow(q, k) \/ LogoutBegins(q, k) \/ LogoutAllBegins(q, k)
<1>1. ASSUME UNCHANGED req PROVE FALSE
  BY <1>1 DEF Active
<1>2. ASSUME NEW p \in Requests, NEW k \in Delivered,
             RefreshReadsRow(p, k) \/ LogoutBegins(p, k) \/ LogoutAllBegins(p, k), p # q
      PROVE  FALSE
  BY <1>2, BeginsAside
<1>3. ASSUME NEW p \in Requests, Finish(p) PROVE FALSE
  BY <1>3, FinishEffect DEF Active
<1>4. ASSUME NEW p \in Requests, RefreshReadsUser(p) PROVE FALSE
  <2>1. Active(p) /\ (Finish(p) \/ Goto(p, "rotate"))
    BY <1>4, Serving DEF RefreshReadsUser
  <2>. QED BY <1>3, <2>1, GotoEffect DEF Active
<1>5. ASSUME NEW p \in Requests, RevokeAll(p) PROVE FALSE
  <2>1. Active(p) /\ Goto(p, "blacklist")
    BY <1>5, Serving DEF RevokeAll
  <2>. QED BY <2>1, GotoEffect DEF Active
<1>6. ASSUME NEW p \in Requests, Blacklist(p) PROVE FALSE
  BY <1>6, BlacklistEffect DEF Active
<1>7. ASSUME NEW p \in Requests, Cutoff(p) PROVE FALSE
  <2>1. Active(p) /\ (Finish(p) \/ Goto(p, "revoke row"))
    BY <1>7, Serving DEF Cutoff
  <2>. QED BY <1>3, <2>1, GotoEffect DEF Active
<1>. QED BY <1>1, <1>2, <1>3, <1>4, <1>5, <1>6, <1>7
     DEF Next, Serve, Tick, Login, Rotate, RevokeRow, Fail, vars

(***************************************************************************)
(* A request that goes on stays the same but for its step, and the time of *)
(* its cutoff once it is taken.                                            *)
(***************************************************************************)
LEMMA Continues ==
  ASSUME AuthTypeOK, [Next]_vars, NEW q \in Requests, Active(q)', Active(q)
  PROVE  /\ req'[q].pair = req[q].pair /\ req'[q].user = req[q].user
         /\ req'[q].refresh = req[q].refresh /\ req'[q].all = req[q].all
         /\ req'[q].alone => req[q].alone
         /\ ~Rotate(q) /\ ~RevokeRow(q)
         /\ \/ /\ req'[q].step = req[q].step /\ req'[q].at = req[q].at
               /\ ~RevokeAll(q) /\ ~Cutoff(q)
            \/ /\ RefreshReadsUser(q) /\ req[q].step = "user" /\ req'[q].step = "rotate"
               /\ req'[q].at = req[q].at /\ ~RevokeAll(q) /\ ~Cutoff(q)
            \/ /\ RevokeAll(q) /\ req[q].step = "revoke all" /\ req'[q].step = "blacklist"
               /\ req'[q].at = req[q].at /\ ~Cutoff(q)
            \/ /\ Blacklist(q) /\ req[q].step = "blacklist" /\ req'[q].step = "cutoff"
               /\ req'[q].at = (IF req[q].at = None THEN now ELSE req[q].at)
               /\ ~RevokeAll(q) /\ ~Cutoff(q)
            \/ /\ Cutoff(q) /\ req[q].step = "cutoff" /\ req'[q].step = "revoke row"
               /\ req'[q].at = req[q].at /\ req[q].refresh # None /\ ~RevokeAll(q)
<1>. DEFINE Same == /\ req'[q].pair = req[q].pair /\ req'[q].user = req[q].user
                    /\ req'[q].refresh = req[q].refresh /\ req'[q].all = req[q].all
                    /\ req'[q].alone => req[q].alone
            Stays == req'[q].step = req[q].step /\ req'[q].at = req[q].at
<1>1. /\ RefreshReadsUser(q) => req[q].step = "user"
      /\ RevokeAll(q) => req[q].step = "revoke all"
      /\ Blacklist(q) => req[q].step = "blacklist"
      /\ Cutoff(q) => req[q].step = "cutoff"
  BY DEF RefreshReadsUser, RevokeAll, Blacklist, Cutoff
<1>2. ~Rotate(q) /\ ~RevokeRow(q) /\ ~Fail(q) /\ ~Finish(q)
  BY FinishEffect DEF Rotate, RevokeRow, Fail
<1>3. CASE req'[q] = req[q]
  <2>1. ~RevokeAll(q) /\ ~Cutoff(q)
    BY <1>1, <1>2, <1>3, GotoEffect DEF RevokeAll, Cutoff
  <2>. QED BY <1>2, <1>3, <2>1
<1>4. ASSUME NEW p \in Requests, NEW k \in Delivered,
             RefreshReadsRow(p, k) \/ LogoutBegins(p, k) \/ LogoutAllBegins(p, k)
      PROVE  Same /\ Stays /\ ~RevokeAll(q) /\ ~Cutoff(q)
  <2>1. p # q
    BY <1>4, Begins DEF BegunOwn
  <2>3. Same /\ Stays
    BY <1>4, <2>1, BeginsAside
  <2>2. (~Goto(q, "blacklist") /\ ~Goto(q, "revoke row")) \/ req[q].step \notin {"revoke all", "cutoff"}
    BY <2>1, <2>3, GotoEffect
  <2>. QED BY <1>1, <1>2, <2>1, <2>2, <2>3 DEF RevokeAll, Cutoff
<1>5. CASE RefreshReadsUser(q)
  <2>1. Goto(q, "rotate")
    BY <1>2, <1>5 DEF RefreshReadsUser
  <2>. QED BY <1>1, <1>2, <1>5, <2>1, GotoEffect
<1>6. CASE RevokeAll(q)
  <2>1. Goto(q, "blacklist")
    BY <1>6 DEF RevokeAll
  <2>. QED BY <1>1, <1>2, <1>6, <2>1, GotoEffect
<1>7. CASE Blacklist(q)
  BY <1>1, <1>2, <1>7, BlacklistEffect
<1>8. CASE Cutoff(q)
  <2>1. Goto(q, "revoke row") /\ req[q].refresh # None
    BY <1>2, <1>8 DEF Cutoff
  <2>. QED BY <1>1, <1>2, <1>8, <2>1, GotoEffect
<1>9. ASSUME NEW p \in Requests \ {q},
             \/ RefreshReadsUser(p) \/ Rotate(p) \/ RevokeAll(p) \/ Blacklist(p)
             \/ Cutoff(p) \/ RevokeRow(p) \/ Fail(p)
      PROVE  req'[q] = req[q]
  <2>1. CASE Finish(p)
    BY <2>1, FinishEffect
  <2>2. CASE Blacklist(p)
    BY <2>2, BlacklistEffect
  <2>3. CASE RefreshReadsUser(p) /\ ~Finish(p)
    BY <2>3, GotoEffect, Serving DEF RefreshReadsUser
  <2>4. CASE RevokeAll(p) \/ (Cutoff(p) /\ ~Finish(p))
    BY <2>4, GotoEffect, Serving DEF RevokeAll, Cutoff
  <2>. QED BY <1>9, <2>1, <2>2, <2>3, <2>4 DEF Rotate, RevokeRow, Fail
<1>. QED BY <1>2, <1>3, <1>4, <1>5, <1>6, <1>7, <1>8, <1>9
     DEF Next, Serve, Tick, Login, vars

(***************************************************************************)
(* A session keeps its user: a rotation passes on both.                    *)
(***************************************************************************)
LEMMA SessionStep ==
  ASSUME AuthTypeOK, SessionInv, [Next]_vars
  PROVE  SessionInv'
<1>. SUFFICES ASSUME NEW n \in Pairs' PROVE pairs'[n].user = pairs'[pairs'[n].session].user
  BY DEF SessionInv
<1>1. ASSUME NEW k \in Pairs
      PROVE  /\ pairs[k].session \in Pairs /\ pairs'[k].session = pairs[k].session
             /\ pairs'[k].user = pairs'[pairs[k].session].user
  BY PairFacts, PairsKeep DEF SessionInv
<1>2. CASE n \in Pairs
  BY <1>1, <1>2
<1>3. CASE n \notin Pairs
  <2>1. \/ pairs'[n].session = n
        \/ \E p \in Requests :
             /\ req[p].pair \in Pairs /\ pairs'[n].user = pairs[req[p].pair].user
             /\ pairs'[n].session = pairs[req[p].pair].session
    BY <1>3, NewPairs
  <2>2. CASE pairs'[n].session = n
    BY <2>2
  <2>3. ASSUME NEW k \in Pairs, pairs'[n].user = pairs[k].user, pairs'[n].session = pairs[k].session
        PROVE  pairs'[n].user = pairs'[pairs'[n].session].user
    BY <1>1, <2>3, PairsKeep
  <2>. QED BY <2>1, <2>2, <2>3
<1>. QED BY <1>2, <1>3

(***************************************************************************)
(* Races are not forgotten: a session without any has had none.            *)
(***************************************************************************)
LEMMA UnracedBefore ==
  ASSUME AuthTypeOK, [Next]_vars, NEW s, \A k \in raced' : pairs'[k].session # s
  PROVE  Unraced(s)
<1>. SUFFICES ASSUME NEW k \in raced PROVE pairs[k].session # s
  BY DEF Unraced
<1>1. k \in Pairs /\ k \in raced'
  BY PairsKeep DEF AuthTypeOK
<1>. QED BY <1>1, PairsKeep

(***************************************************************************)
(* A rotation revokes the refresh token it was given.  If that was not the *)
(* last of its session, it was revoked before, and the rotation a race.    *)
(***************************************************************************)
LEMMA ChainStep ==
  ASSUME AuthTypeOK, ChainInv, [Next]_vars
  PROVE  ChainInv'
<1>. SUFFICES ASSUME NEW n \in Pairs', NEW m \in Pairs', n < m,
                     pairs'[n].session = pairs'[m].session,
                     \A k \in raced' : pairs'[k].session # pairs'[n].session
              PROVE  pairs'[n].revoked
  BY DEF ChainInv, Unraced
<1>1. \A k \in Pairs : k \in Nat /\ pairs[k].session \in Pairs
  BY PairFacts
<1>2. CASE n \in Pairs /\ m \in Pairs
  <2>1. pairs[n].session = pairs[m].session /\ pairs'[n].session = pairs[n].session
    BY <1>2, PairsKeep
  <2>2. Unraced(pairs[n].session)
    BY <2>1, UnracedBefore
  <2>3. pairs[n].revoked
    BY <1>2, <2>1, <2>2 DEF ChainInv
  <2>. QED BY <1>2, <2>3, PairsKeep
<1>3. CASE n \notin Pairs
  <2>1. Pairs' = Pairs \cup {n} /\ \A k \in Pairs : k < n
    BY <1>3, NewPairs
  <2>2. n = Len(pairs) + 1 /\ Len(pairs) \in Nat
    BY <1>3, NewPairs, PairFacts
  <2>. QED BY <1>1, <2>1, <2>2
<1>4. CASE n \in Pairs /\ m \notin Pairs
  <2>1. Pairs' = Pairs \cup {m} /\ \A k \in Pairs : k < m
    BY <1>4, NewPairs
  <2>2. pairs'[n].session = pairs[n].session /\ pairs'[m].session # m
    <3>1. pairs'[n].session = pairs[n].session /\ pairs[n].session \in Pairs
      BY <1>1, <1>4, PairsKeep
    <3>. QED BY <1>4, <3>1
  <2>3. PICK p \in Requests :
          /\ req[p].pair \in Pairs /\ pairs'[m].session = pairs[req[p].pair].session
          /\ pairs'[req[p].pair].revoked
          /\ raced' = IF pairs[req[p].pair].revoked THEN raced \cup {m} ELSE raced
    BY <1>4, <2>2, NewPairs
  <2>. DEFINE old == req[p].pair
  <2>4. pairs[old].session = pairs[n].session /\ Unraced(pairs[n].session)
    BY <2>2, <2>3, UnracedBefore
  <2>5. m \notin raced'
    OBVIOUS
  <2>6. ~pairs[old].revoked
    BY <2>3, <2>5
  <2>7. ~(old < n)
    BY <1>4, <2>3, <2>4, <2>6 DEF ChainInv
  <2>8. n < old => pairs[n].revoked
    BY <1>4, <2>3, <2>4 DEF ChainInv
  <2>9. n < old \/ n = old
    BY <1>1, <1>4, <2>3, <2>7
  <2>. QED BY <1>4, <2>3, <2>8, <2>9, PairsKeep
<1>. QED BY <1>2, <1>3, <1>4

(***************************************************************************)
(* Requests are made with what their kind needs, and keep it.              *)
(***************************************************************************)
LEMMA StepStep ==
  ASSUME AuthTypeOK, StepInv, [Next]_vars
  PROVE  StepInv'
<1>. DEFINE Fits(r) ==
       /\ r.step \in {"user", "rotate"} => ~r.all /\ r.refresh = None
       /\ r.step = "revoke all" => r.all
       /\ r.step = "revoke row" => r.refresh # None
       /\ r.step = "cutoff" \/ r.step = "revoke row" \/ r.all => r.at # None
       /\ r.all => r.refresh = None
<1>. SUFFICES ASSUME NEW q \in Requests, Active(q)'
              PROVE  /\ Fits(req'[q])
                     /\ req'[q].at # None => req'[q].at <= now'
                     /\ req'[q].refresh # None =>
                          pairs'[req'[q].refresh].session = pairs'[req'[q].pair].session
  BY DEF StepInv
<1>1. now \in Nat /\ now' \in Nat /\ now <= now' /\ now # None
  BY AuthTypeStep, PairsKeep, AuthAssumption DEF AuthTypeOK
<1>2. CASE Active(q)
  <2>1. Fits(req[q]) /\ (req[q].at # None => req[q].at <= now)
        /\ (req[q].refresh # None => pairs[req[q].refresh].session = pairs[req[q].pair].session)
    BY <1>2 DEF StepInv
  <2>2. /\ req[q].at \in Nat \cup {None} /\ req[q].pair \in Pairs
        /\ req[q].refresh \in Pairs \cup {None}
    <3>1. req[q] \in Request /\ req[q].pair \in Pairs /\ req[q].refresh \in Delivered \cup {None}
      BY <1>2, ActiveRequest
    <3>2. req[q].at \in 0 .. MaxTime \cup {None}
      BY <3>1 DEF Request
    <3>3. req[q].at \in Nat \cup {None}
      BY <3>2
    <3>4. Delivered \subseteq Pairs
      BY DEF Delivered, Pairs
    <3>. QED BY <3>1, <3>3, <3>4
  <2>3. /\ req'[q].pair = req[q].pair /\ req'[q].refresh = req[q].refresh
        /\ req'[q].all = req[q].all
        /\ \/ req'[q].step = req[q].step /\ req'[q].at = req[q].at
           \/ req[q].step = "user" /\ req'[q].step = "rotate" /\ req'[q].at = req[q].at
           \/ req[q].step = "revoke all" /\ req'[q].step = "blacklist" /\ req'[q].at = req[q].at
           \/ /\ req[q].step = "blacklist" /\ req'[q].step = "cutoff"
              /\ req'[q].at = (IF req[q].at = None THEN now ELSE req[q].at)
           \/ /\ req[q].step = "cutoff" /\ req'[q].step = "revoke row"
              /\ req'[q].at = req[q].at /\ req[q].refresh # None
    BY <1>2, Continues
  <2>4. Fits(req'[q])
    BY <1>1, <2>1, <2>3
  <2>5. req'[q].at \in {req[q].at, now}
    BY <2>3
  <2>6. req'[q].at # None => req'[q].at <= now'
    <3>1. CASE req'[q].at = now
      BY <1>1, <3>1
    <3>2. CASE req'[q].at = req[q].at /\ req[q].at # None
      <4>1. req[q].at \in Nat /\ req[q].at <= now
        BY <2>1, <2>2, <3>2
      <4>. QED BY <1>1, <3>2, <4>1
    <3>. QED BY <2>5, <3>1, <3>2
  <2>. QED BY <2>1, <2>2, <2>3, <2>4, <2>6, PairsKeep
<1>3. CASE ~Active(q)
  <2>1. PICK k \in Delivered :
          RefreshReadsRow(q, k) \/ LogoutBegins(q, k) \/ LogoutAllBegins(q, k)
    BY <1>3, Starts
  <2>2. pairs' = pairs /\ now' = now /\ req'[q].pair = k
    BY <2>1, Begins DEF BegunOwn
  <2>3. \/ /\ req'[q].step = "user"
           /\ req'[q].refresh = None /\ req'[q].at = None /\ ~req'[q].all
        \/ /\ req'[q].step = "blacklist" /\ req'[q].at = None /\ ~req'[q].all
           /\ req'[q].refresh # None => pairs[req'[q].refresh].session = pairs[k].session
        \/ /\ req'[q].step = "revoke all"
           /\ req'[q].refresh = None /\ req'[q].at = now /\ req'[q].all
    BY <2>1, Begins DEF BegunOwn
  <2>. QED BY <1>1, <2>2, <2>3
<1>. QED BY <1>2, <1>3

(***************************************************************************)
(* A request that begins knows of the others, and they come to know of it. *)
(***************************************************************************)
LEMMA AloneStep ==
  ASSUME AuthTypeOK, AloneInv, [Next]_vars
  PROVE  AloneInv'
<1>. SUFFICES ASSUME NEW p \in Requests, NEW q \in Requests, p # q, Active(p)', Active(q)',
                     req'[p].user = req'[q].user
              PROVE  ~req'[p].alone
  BY DEF AloneInv
<1>1. CASE Active(p) /\ Active(q)
  <2>1. req'[p].user = req[p].user /\ req'[q].user = req[q].user /\ (req'[p].alone => req[p].alone)
    BY <1>1, Continues
  <2>. QED BY <1>1, <2>1 DEF AloneInv
<1>2. CASE ~Active(p)
  <2>1. PICK k \in Delivered :
          RefreshReadsRow(p, k) \/ LogoutBegins(p, k) \/ LogoutAllBegins(p, k)
    BY <1>2, Starts
  <2>2. Active(q) /\ req'[q].user = req[q].user
    BY <2>1, BeginsAside
  <2>3. req'[p].user = pairs[k].user
    BY <2>1, Begins DEF BegunOwn
  <2>4. req'[p].alone => \A r \in Requests \ {p} : ~(Active(r) /\ req[r].user = pairs[k].user)
    BY <2>1, Begins DEF BegunAside
  <2>. QED BY <2>2, <2>3, <2>4
<1>3. CASE ~Active(q)
  <2>1. PICK k \in Delivered :
          RefreshReadsRow(q, k) \/ LogoutBegins(q, k) \/ LogoutAllBegins(q, k)
    BY <1>3, Starts
  <2>2. req'[q].user = pairs[k].user
    BY <2>1, Begins DEF BegunOwn
  <2>3. Active(p) /\ req'[p].user = req[p].user /\ (req'[p].alone => req[p].user # pairs[k].user)
    BY <2>1, BeginsAside
  <2>. QED BY <2>2, <2>3
<1>. QED BY <1>1, <1>2, <1>3

(***************************************************************************)
(* A cutoff covers every access token of its user issued until the time it *)
(* was taken: it lasts as long as they do.                                 *)
(***************************************************************************)
LEMMA CutoffCovers ==
  ASSUME AuthTypeOK, StepInv, NEW p \in Requests, Cutoff(p),
         NEW n \in Pairs, pairs[n].user = req[p].user, pairs[n].issued <= req[p].at
  PROVE  CutOff(n)'
<1>. DEFINE u == pairs[n].user
            exp == Ticks(AccessExp(n))
<1>1. /\ pairs' = pairs /\ now' = now /\ cut \in [Users -> [second : Nat, until : Nat]]
      /\ cut' = [cut EXCEPT ![u] = [second |-> Second(req[p].at),
                                   until |-> now + Ticks(AccessLife)]]
  BY DEF Cutoff, AuthTypeOK
<1>2. req[p].at \in Nat /\ now \in Nat /\ pairs[n].issued \in Nat /\ u \in Users
      /\ pairs[n].issued <= now
  <2>1. Active(p) /\ req[p] \in Request /\ req[p].step = "cutoff"
    BY Serving DEF Cutoff
  <2>2. req[p].at # None /\ req[p].at \in 0 .. MaxTime \cup {None}
    BY <2>1 DEF StepInv, Request
  <2>3. now \in Nat
    BY DEF AuthTypeOK
  <2>. QED BY <2>2, <2>3, PairFacts DEF AuthTypeOK
<1>3. exp \in Nat /\ Ticks(AccessLife) \in Nat /\ exp <= pairs[n].issued + Ticks(AccessLife)
  BY ExpFacts
<1>4. Second(pairs[n].issued) <= Second(req[p].at)
  BY <1>2, SecondFacts
<1>5. cut'[u] = [second |-> Second(req[p].at), until |-> now + Ticks(AccessLife)]
  BY <1>1, <1>2
<1>6. cut'[u].second = Second(req[p].at) /\ cut'[u].until = now + Ticks(AccessLife)
  BY <1>5
<1>7. exp <= cut'[u].until
  BY <1>2, <1>3, <1>6
<1>8. Second(pairs[n].issued) \in Nat /\ Second(req[p].at) \in Nat
  BY <1>2, SecondFacts
<1>9. cut'[u].second >= Second(pairs[n].issued) /\ cut'[u].until >= exp
  BY <1>2, <1>3, <1>4, <1>6, <1>7, <1>8
<1>. QED BY <1>1, <1>9 DEF CutOff, AccessExp

(***************************************************************************)
(* A token stays cut off, if no request is about to take a cutoff of its   *)
(* user from before the token: the entry in Redis outlives it.             *)
(***************************************************************************)
LEMMA CutKeeps ==
  ASSUME AuthTypeOK, StepInv, [Next]_vars, NEW n \in Pairs, CutOff(n),
         \A p \in Requests : Cutoff(p) /\ req[p].user = pairs[n].user
                               => pairs[n].issued <= req[p].at
  PROVE  CutOff(n)'
<1>. DEFINE u == pairs[n].user
            exp == Ticks(AccessExp(n))
            second == Second(pairs[n].issued)
<1>1. /\ exp \in Nat /\ now \in Nat /\ now' \in Nat /\ now <= now' /\ u \in Users
      /\ pairs'[n].issued = pairs[n].issued /\ pairs'[n].user = u
      /\ cut \in [Users -> [second : Nat, until : Nat]]
  <2>1. exp \in Nat /\ u \in Users
    BY ExpFacts, PairFacts
  <2>2. AuthTypeOK'
    BY AuthTypeStep
  <2>3. now \in Nat /\ now' \in Nat /\ cut \in [Users -> [second : Nat, until : Nat]]
    BY <2>2 DEF AuthTypeOK
  <2>4. now <= now' /\ pairs'[n].issued = pairs[n].issued /\ pairs'[n].user = u
    BY PairsKeep
  <2>. QED BY <2>1, <2>3, <2>4
<1>2. exp' = exp /\ second' = second
  BY <1>1 DEF AccessExp
<1>3. CutOff(n)' <=> exp <= now' \/ (cut'[u].second >= second /\ cut'[u].until >= exp)
  BY <1>1, <1>2 DEF CutOff
<1>4. exp <= now \/ (cut[u].second >= second /\ cut[u].until >= exp)
  BY DEF CutOff
<1>. HIDE DEF exp, second
<1>5. CASE exp <= now
  BY <1>1, <1>3, <1>5
<1>6. CASE cut'[u] = cut[u]
  <2>1. exp <= now => exp <= now'
    BY <1>1
  <2>. QED BY <1>3, <1>4, <1>6, <2>1
<1>7. ASSUME Tick, ~(exp <= now) PROVE CutOff(n)'
  <2>1. cut'[u] = IF cut[u].until > now' THEN cut[u] ELSE NoCutoff
    BY <1>1, <1>7 DEF Tick
  <2>2. CASE cut[u].until > now'
    BY <1>6, <2>1, <2>2
  <2>3. CASE ~(cut[u].until > now')
    <3>1. cut[u].until \in Nat /\ cut[u].until >= exp
      BY <1>1, <1>4, <1>7
    <3>. QED BY <1>1, <1>3, <2>3, <3>1
  <2>. QED BY <2>2, <2>3
<1>8. ASSUME NEW p \in Requests, Cutoff(p) PROVE CutOff(n)'
  <2>1. CASE req[p].user = u
    BY <1>8, <2>1, CutoffCovers
  <2>2. CASE req[p].user # u
    BY <1>1, <1>6, <1>8, <2>2 DEF Cutoff
  <2>. QED BY <2>1, <2>2
<1>9. UNCHANGED cut => CutOff(n)'
  BY <1>6
<1>. QED BY <1>5, <1>7, <1>8, <1>9
     DEF Next, Serve, Login, RefreshReadsRow, LogoutBegins, LogoutAllBegins,
         RefreshReadsUser, Rotate, RevokeAll, Blacklist, RevokeRow, Fail, vars

(***************************************************************************)
(* A rotation belongs to a request of the user of its session.             *)
(***************************************************************************)
LEMMA SessionUser ==
  ASSUME AuthTypeOK, SessionInv, NEW n \in Pairs, NEW m \in Pairs,
         pairs[n].session = pairs[m].session
  PROVE  pairs[n].user = pairs[m].user
BY DEF SessionInv

(***************************************************************************)
(* While a logout is alone, nothing is issued in its session, so that the  *)
(* refresh token it brought stays the last, and its cutoff stays after     *)
(* the session's access tokens.                                            *)
(***************************************************************************)
LEMMA LogoutStep ==
  ASSUME AuthTypeOK, SessionInv, StepInv, AloneInv, LogoutInv, [Next]_vars
  PROVE  LogoutInv'
<1>. SUFFICES ASSUME NEW p \in Requests, Active(p)', req'[p].alone, req'[p].refresh # None,
                     NEW n \in Pairs', pairs'[n].delivered,
                     pairs'[n].session = pairs'[req'[p].pair].session
              PROVE  /\ n <= req'[p].refresh
                     /\ req'[p].at # None => pairs'[n].issued <= req'[p].at
                     /\ req'[p].step = "revoke row" => CutOff(n)'
  BY DEF LogoutInv, Delivered, Pairs
<1>1. CASE ~Active(p)
  <2>1. PICK k \in Delivered :
          RefreshReadsRow(p, k) \/ LogoutBegins(p, k) \/ LogoutAllBegins(p, k)
    BY <1>1, Starts
  <2>2. pairs' = pairs /\ req'[p].pair = k /\ req'[p].refresh \in Delivered \cup {None}
    BY <2>1, Begins DEF BegunOwn
  <2>3. /\ req'[p].step = "blacklist" /\ req'[p].at = None
        /\ pairs[req'[p].refresh].session = pairs[k].session /\ Current(req'[p].refresh)
    <3>1. \/ req'[p].refresh = None
          \/ /\ req'[p].step = "blacklist"
             /\ req'[p].refresh # None =>
                  pairs[req'[p].refresh].session = pairs[k].session /\ Current(req'[p].refresh)
             /\ req'[p].at = None
      BY <2>1, Begins DEF BegunOwn
    <3>. QED BY <3>1
  <2>4. n \in Delivered /\ pairs[n].session = pairs[req'[p].refresh].session
    BY <2>2, <2>3 DEF Delivered, Pairs
  <2>. QED BY <2>3, <2>4 DEF Current
<1>2. CASE Active(p)
  <2>1. /\ req'[p].pair = req[p].pair /\ req'[p].user = req[p].user
        /\ req'[p].refresh = req[p].refresh /\ req[p].alone
        /\ \/ req'[p].step = req[p].step /\ req'[p].at = req[p].at
           \/ req'[p].step # "revoke row" /\ req'[p].at = req[p].at
           \/ /\ Blacklist(p) /\ req'[p].step = "cutoff"
              /\ req'[p].at = (IF req[p].at = None THEN now ELSE req[p].at)
           \/ Cutoff(p) /\ req'[p].step = "revoke row" /\ req'[p].at = req[p].at
    BY <1>2, Continues
  <2>2. req[p].pair \in Pairs /\ req[p].user = pairs[req[p].pair].user
    BY <1>2, ActiveRequest
  <2>3. ASSUME NEW q \in Requests \ {p}, Active(q), req[q].user = req[p].user PROVE FALSE
    BY <1>2, <2>1, <2>3 DEF AloneInv
  <2>4. n \in Pairs
    <3>. SUFFICES ASSUME n \notin Pairs PROVE FALSE
      OBVIOUS
    <3>1. pairs'[n].session \in Pairs
      BY <2>1, <2>2, PairFacts, PairsKeep
    <3>2. PICK q \in Requests :
            /\ Active(q) /\ ~Active(q)' /\ req[q].pair \in Pairs
            /\ pairs'[n].session = pairs[req[q].pair].session
      BY <3>1, NewPairs
    <3>3. pairs[req[q].pair].session = pairs[req[p].pair].session
      BY <2>1, <2>2, <3>2, PairsKeep
    <3>4. req[q].user = req[p].user
      BY <2>2, <3>2, <3>3, SessionUser, ActiveRequest
    <3>. QED BY <2>3, <3>2, <3>4
  <2>5. /\ pairs[n].delivered /\ pairs[n].session = pairs[req[p].pair].session
        /\ pairs[n].user = req[p].user /\ pairs'[n].issued = pairs[n].issued
    <3>1. /\ pairs'[n].delivered = pairs[n].delivered /\ pairs'[n].session = pairs[n].session
          /\ pairs'[n].issued = pairs[n].issued
          /\ pairs'[req[p].pair].session = pairs[req[p].pair].session
      BY <2>2, <2>4, PairsKeep
    <3>2. pairs[n].session = pairs[req[p].pair].session
      BY <2>1, <3>1
    <3>. QED BY <2>2, <2>4, <3>1, <3>2, SessionUser
  <2>6. n \in Delivered
    BY <2>4, <2>5 DEF Delivered, Pairs
  <2>7. /\ n <= req[p].refresh
        /\ req[p].at # None => pairs[n].issued <= req[p].at
        /\ req[p].step = "revoke row" => CutOff(n)
    BY <1>2, <2>1, <2>5, <2>6 DEF LogoutInv
  <2>8. pairs[n].issued <= now
    BY <2>4 DEF AuthTypeOK
  <2>9. req'[p].at # None => pairs'[n].issued <= req'[p].at
    BY <2>1, <2>5, <2>7, <2>8
  <2>10. ASSUME Cutoff(p) PROVE CutOff(n)'
    <3>1. req[p].step = "cutoff"
      BY <2>10 DEF Cutoff
    <3>2. req[p].at # None
      BY <1>2, <3>1 DEF StepInv
    <3>. QED BY <2>4, <2>5, <2>7, <2>10, <3>2, CutoffCovers
  <2>11. ASSUME req[p].step = "revoke row" PROVE CutOff(n)'
    <3>1. \A q \in Requests : Cutoff(q) /\ req[q].user = pairs[n].user => q = p
      <4>1. \A q \in Requests : Cutoff(q) => Active(q)
        BY Serving DEF Cutoff
      <4>. QED BY <2>3, <2>5, <4>1
    <3>2. ~Cutoff(p)
      BY <2>11 DEF Cutoff
    <3>. QED BY <2>4, <2>7, <2>11, <3>1, <3>2, CutKeeps
  <2>. QED BY <2>1, <2>7, <2>9, <2>10, <2>11
<1>. QED BY <1>1, <1>2

(***************************************************************************)
(* While a logout everywhere is alone, the sessions of its user stay all   *)
(* before or all after it, and all revoked or all not by its transaction.  *)
(***************************************************************************)
LEMMA LogoutAllStep ==
  ASSUME AuthTypeOK, SessionInv, StepInv, AloneInv, LogoutAllInv, [Next]_vars
  PROVE  LogoutAllInv'
<1>. SUFFICES ASSUME NEW p \in Requests, Active(p)', req'[p].alone, req'[p].all,
                     NEW n \in Pairs', NEW m \in Pairs',
                     pairs'[n].user = req'[p].user, pairs'[n].session = pairs'[m].session
              PROVE  /\ pairs'[n].issued <= req'[p].at => pairs'[m].issued <= req'[p].at
                     /\ req'[p].step # "revoke all" /\ pairs'[n].revoked => pairs'[m].revoked
  BY DEF LogoutAllInv
<1>1. CASE ~Active(p)
  <2>1. PICK k \in Delivered :
          RefreshReadsRow(p, k) \/ LogoutBegins(p, k) \/ LogoutAllBegins(p, k)
    BY <1>1, Starts
  <2>2. pairs' = pairs /\ req'[p].at = now /\ req'[p].step = "revoke all"
    BY <2>1, Begins DEF BegunOwn
  <2>3. m \in Pairs
    BY <2>2 DEF Pairs
  <2>4. pairs[m].issued <= now
    BY <2>3 DEF AuthTypeOK
  <2>. QED BY <2>2, <2>4
<1>2. CASE Active(p)
  <2>1. /\ req'[p].user = req[p].user /\ req[p].alone /\ req[p].all
        /\ \/ req'[p].step = req[p].step /\ req'[p].at = req[p].at /\ ~RevokeAll(p)
           \/ RevokeAll(p) /\ req'[p].at = req[p].at
           \/ /\ req[p].step # "revoke all" /\ ~RevokeAll(p)
              /\ req'[p].at = (IF req[p].at = None THEN now ELSE req[p].at)
           \/ req[p].step # "revoke all" /\ req'[p].at = req[p].at /\ ~RevokeAll(p)
    BY <1>2, Continues
  <2>2. req[p].at # None /\ req[p].refresh = None
    BY <1>2, <2>1 DEF StepInv
  <2>3. ASSUME NEW q \in Requests \ {p}, Active(q), req[q].user = req[p].user PROVE FALSE
    BY <1>2, <2>1, <2>3 DEF AloneInv
  <2>4. ASSUME NEW q \in Requests, Active(q), ~Active(q)', NEW k \in Pairs,
               pairs[k].session = pairs[req[q].pair].session, pairs[k].user = req[p].user
        PROVE  FALSE
    BY <2>3, <2>4, SessionUser, ActiveRequest
  <2>5. CASE n \in Pairs /\ m \in Pairs
    <3>1. /\ pairs[n].user = req[p].user /\ pairs[n].session = pairs[m].session
          /\ pairs[m].user = req[p].user
          /\ pairs'[n].issued = pairs[n].issued /\ pairs'[m].issued = pairs[m].issued
      BY <2>1, <2>5, PairsKeep, SessionUser
    <3>2. /\ pairs[n].issued <= req[p].at => pairs[m].issued <= req[p].at
          /\ req[p].step # "revoke all" /\ pairs[n].revoked => pairs[m].revoked
      BY <1>2, <2>1, <2>5, <3>1 DEF LogoutAllInv
    <3>3. CASE RevokeAll(p)
      BY <2>1, <2>5, <3>1, <3>2, <3>3, RevokeEffect
    <3>4. CASE ~RevokeAll(p)
      <4>1. ASSUME pairs'[n].revoked PROVE pairs[n].revoked
        <5>. SUFFICES ASSUME ~pairs[n].revoked PROVE FALSE
          OBVIOUS
        <5>1. pairs' # pairs
          BY <4>1
        <5>2. ASSUME NEW u \in Users, Login(u) PROVE FALSE
          BY <2>5, <4>1, <5>2, LoginEffect
        <5>3. ASSUME NEW q \in Requests, Rotate(q) PROVE FALSE
          <6>1. Active(q) /\ ~Active(q)'
            BY <5>3, FinishEffect, Serving DEF Rotate
          <6>2. n = req[q].pair
            BY <2>5, <4>1, <5>3, RotateEffect
          <6>. QED BY <2>4, <2>5, <3>1, <6>1, <6>2
        <5>4. ASSUME NEW q \in Requests, RevokeAll(q) PROVE FALSE
          <6>1. Active(q) /\ q # p
            BY <3>4, <5>4, Serving DEF RevokeAll
          <6>2. pairs[n].user = req[q].user
            BY <2>5, <4>1, <5>4, RevokeEffect
          <6>. QED BY <2>3, <3>1, <6>1, <6>2
        <5>5. ASSUME NEW q \in Requests, RevokeRow(q) PROVE FALSE
          <6>1. Active(q) /\ ~Active(q)'
            BY <5>5, FinishEffect, Serving DEF RevokeRow
          <6>2. n = req[q].refresh
            BY <2>5, <4>1, <5>5, RevokeEffect
          <6>3. n # None
            BY <2>5, PairFacts, AuthAssumption
          <6>4. pairs[n].session = pairs[req[q].pair].session
            BY <6>1, <6>2, <6>3 DEF StepInv
          <6>. QED BY <2>4, <2>5, <3>1, <6>1, <6>4
        <5>. QED BY <5>1, <5>2, <5>3, <5>4, <5>5
             DEF Next, Serve, Tick, RefreshReadsRow, LogoutBegins, LogoutAllBegins,
                 RefreshReadsUser, Blacklist, Cutoff, Fail, vars
      <4>. QED BY <2>1, <2>2, <2>5, <3>1, <3>2, <3>4, <4>1, PairsKeep
    <3>. QED BY <3>3, <3>4
  <2>6. CASE n \notin Pairs \/ m \notin Pairs
    <3>1. PICK new \in {n, m} : new \notin Pairs
      BY <2>6
    <3>2. Pairs' = Pairs \cup {new}
      BY <3>1, NewPairs
    <3>3. CASE pairs'[new].session = new
      <4>1. \A k \in Pairs : pairs'[k].session # new
        BY <3>1, PairFacts, PairsKeep
      <4>. QED BY <3>2, <3>3, <4>1
    <3>4. ASSUME NEW q \in Requests, Active(q), ~Active(q)', req[q].pair \in Pairs,
                 pairs'[new].user = pairs[req[q].pair].user,
                 pairs'[new].session = pairs[req[q].pair].session
          PROVE  FALSE
      <4>1. pairs'[n].session = pairs[req[q].pair].session
        BY <3>1, <3>4
      <4>2. n \in Pairs => pairs[n].session = pairs[req[q].pair].session /\ pairs[n].user = req[p].user
        BY <2>1, <4>1, PairsKeep
      <4>3. n \notin Pairs => pairs[req[q].pair].user = req[p].user
        BY <2>1, <3>1, <3>2, <3>4
      <4>. QED BY <2>4, <3>4, <4>2, <4>3
    <3>5. new \in Pairs' /\ new \notin Pairs
      BY <3>1, <3>2
    <3>6. \/ pairs'[new].session = new
          \/ \E q \in Requests :
               /\ Active(q) /\ ~Active(q)' /\ req[q].pair \in Pairs
               /\ pairs'[new].user = pairs[req[q].pair].user
               /\ pairs'[new].session = pairs[req[q].pair].session
      BY <3>5, NewPairs
    <3>. QED BY <3>3, <3>4, <3>6
  <2>. QED BY <2>5, <2>6
<1>. QED BY <1>1, <1>2

(***************************************************************************)
(* A logout ends its session when it returns, if it was alone.             *)
(***************************************************************************)
LEMMA NewlyEnded ==
  ASSUME AuthTypeOK, [Next]_vars, NEW s, s \in ended', s \notin ended
  PROVE  \E p \in Requests :
           /\ Active(p) /\ ~Active(p)' /\ s \in Ended(p) /\ req[p].alone
           /\ UNCHANGED <<now, raced>>
           /\ \/ Cutoff(p) /\ req[p].refresh = None /\ UNCHANGED pairs
              \/ RevokeRow(p)
<1>1. PICK p \in Requests : Cutoff(p) \/ RevokeRow(p)
  BY DEF Next, Serve, Tick, Login, RefreshReadsRow, LogoutBegins, LogoutAllBegins,
         RefreshReadsUser, Rotate, RevokeAll, Blacklist, Fail, vars
<1>2. Active(p)
  BY <1>1, Serving DEF Cutoff, RevokeRow
<1>3. Finish(p) /\ ended' = ended \cup Ended(p) /\ (Cutoff(p) => req[p].refresh = None)
  BY <1>1 DEF Cutoff, RevokeRow
<1>4. s \in Ended(p) /\ ~Active(p)'
  BY <1>3, FinishEffect
<1>5. req[p].alone
  BY <1>4 DEF Ended
<1>6. UNCHANGED <<now, raced>> /\ (Cutoff(p) => UNCHANGED pairs)
  BY <1>1 DEF Cutoff, RevokeRow
<1>. QED BY <1>1, <1>2, <1>3, <1>4, <1>5, <1>6

(***************************************************************************)
(* What a logout that was alone ends is over: its cutoff covers the access *)
(* tokens, and the refresh tokens are revoked, or have expired.            *)
(***************************************************************************)
LEMMA EndedIsOver ==
  ASSUME AuthInv, [Next]_vars, NEW n \in Pairs, pairs[n].session \in ended',
         pairs[n].session \notin ended, Unraced(pairs[n].session)
  PROVE  /\ pairs[n].delivered => ~ValidRow(n)' /\ CutOff(n)'
         /\ \A q \in Requests : ~(Active(q)' /\ req'[q].user = pairs[n].user)
<1>. USE DEF AuthInv
<1>. DEFINE s == pairs[n].session
<1>1. PICK p \in Requests :
        /\ Active(p) /\ ~Active(p)' /\ s \in Ended(p) /\ req[p].alone
        /\ UNCHANGED <<now, raced>>
        /\ \/ Cutoff(p) /\ req[p].refresh = None /\ UNCHANGED pairs
           \/ RevokeRow(p)
  BY NewlyEnded
<1>2. pairs'[n].revoked => ~ValidRow(n)'
  BY DEF ValidRow
<1>3. /\ req[p] \in Request /\ req[p].pair \in Pairs /\ req[p].user = pairs[req[p].pair].user
  BY <1>1, ActiveRequest
<1>4. pairs[n].user = req[p].user /\ (pairs[n].delivered => ~ValidRow(n)' /\ CutOff(n)')
  <2>1. CASE Cutoff(p) /\ req[p].refresh = None /\ UNCHANGED pairs
    <3>1. PICK j \in Pairs :
            /\ s = pairs[j].session /\ req[p].all /\ pairs[j].user = req[p].user
            /\ pairs[j].revoked /\ pairs[j].issued <= req[p].at
      BY <1>1, <2>1 DEF Ended, Pairs
    <3>2. req[p].step = "cutoff"
      BY <2>1 DEF Cutoff
    <3>3. pairs[n].issued <= req[p].at /\ pairs[n].revoked
      BY <1>1, <3>1, <3>2 DEF LogoutAllInv
    <3>4. pairs[n].user = req[p].user
      BY <3>1, SessionUser
    <3>5. CutOff(n)'
      BY <2>1, <3>3, <3>4, CutoffCovers
    <3>. QED BY <1>2, <2>1, <3>3, <3>4, <3>5
  <2>2. CASE RevokeRow(p)
    <3>1. req[p].step = "revoke row" /\ UNCHANGED <<now, cut>>
      BY <2>2 DEF RevokeRow
    <3>2. req[p].refresh # None
      BY <1>1, <3>1 DEF StepInv
    <3>3. s = pairs[req[p].pair].session
      BY <1>1, <3>2 DEF Ended
    <3>4. req[p].refresh \in Delivered /\ req[p].refresh \in Pairs
          /\ pairs[req[p].refresh].session = s
      BY <1>1, <3>2, <3>3, ActiveRequest DEF StepInv, Delivered, Pairs
    <3>5. pairs[n].user = req[p].user
      BY <1>3, <3>3, SessionUser
    <3>. SUFFICES ASSUME pairs[n].delivered PROVE ~ValidRow(n)' /\ CutOff(n)'
      BY <3>5
    <3>6. n \in Delivered
      BY DEF Delivered, Pairs
    <3>7. n <= req[p].refresh /\ CutOff(n)
      BY <1>1, <3>1, <3>2, <3>3, <3>6 DEF LogoutInv
    <3>8. CutOff(n)'
      <4>1. \A q \in Requests : ~Cutoff(q)
        <5>. SUFFICES ASSUME NEW q \in Requests, Cutoff(q) PROVE FALSE
          OBVIOUS
        <5>1. req[q].step = "cutoff" /\ Active(q)
          BY Serving DEF Cutoff
        <5>2. q # p
          BY <3>1, <5>1
        <5>3. Goto(q, "revoke row") \/ Finish(q)
          BY DEF Cutoff
        <5>. QED BY <1>1, <5>1, <5>2, <5>3, GotoEffect, FinishEffect DEF Active
      <4>. QED BY <3>7, <4>1, CutKeeps
    <3>9. CASE n < req[p].refresh
      <4>1. pairs[n].revoked
        BY <3>4, <3>9 DEF ChainInv
      <4>. QED BY <1>2, <3>8, <4>1, PairsKeep
    <3>10. CASE n = req[p].refresh
      <4>1. pairs'[n].revoked \/ now >= Ticks(RefreshExp(n))
        BY <2>2, <3>4, <3>10, RevokeEffect
      <4>2. now >= Ticks(RefreshExp(n)) => ~ValidRow(n)'
        <5>1. pairs'[n].issued = pairs[n].issued /\ now' = now
          BY <3>1, PairsKeep
        <5>2. RefreshExp(n)' = RefreshExp(n)
          BY <5>1 DEF RefreshExp
        <5>3. Ticks(RefreshExp(n)) \in Nat /\ now \in Nat
          BY ExpFacts DEF AuthTypeOK
        <5>. QED BY <5>1, <5>2, <5>3 DEF ValidRow
      <4>. QED BY <1>2, <3>8, <4>1, <4>2
    <3>11. n < req[p].refresh \/ n = req[p].refresh
      BY <3>4, <3>7, PairFacts
    <3>. QED BY <3>9, <3>10, <3>11
  <2>. QED BY <1>1, <2>1, <2>2
<1>5. ASSUME NEW q \in Requests, Active(q)', req'[q].user = pairs[n].user PROVE FALSE
  <2>1. p # q
    BY <1>1, <1>5
  <2>2. Active(q)
    <3>. SUFFICES ASSUME ~Active(q) PROVE FALSE
      OBVIOUS
    <3>1. PICK k \in Delivered :
            RefreshReadsRow(q, k) \/ LogoutBegins(q, k) \/ LogoutAllBegins(q, k)
      BY <1>5, Starts
    <3>2. ended' = ended
      BY <3>1, Begins DEF BegunOwn
    <3>. QED BY <3>2
  <2>3. req[q].user = req[p].user
    BY <1>4, <1>5, <2>2, Continues
  <2>. QED BY <1>1, <2>1, <2>2, <2>3 DEF AloneInv
<1>. QED BY <1>4, <1>5

(***************************************************************************)
(* Nothing brings a session back that has ended.                           *)
(***************************************************************************)
LEMMA EndedStep ==
  ASSUME AuthInv, [Next]_vars
  PROVE  EndedInv'
<1>. USE DEF AuthInv
<1>. SUFFICES ASSUME NEW n \in Pairs', pairs'[n].session \in ended',
                     \A k \in raced' : pairs'[k].session # pairs'[n].session
              PROVE  /\ pairs'[n].delivered => ~ValidRow(n)' /\ CutOff(n)'
                     /\ \A q \in Requests : Active(q)' /\ req'[q].user = pairs'[n].user =>
                          /\ req'[q].step \in {"user", "rotate"} =>
                               pairs'[req'[q].pair].session # pairs'[n].session
                          /\ req'[q].at # None /\ pairs'[n].delivered
                               => pairs'[n].issued <= req'[q].at
  BY DEF EndedInv, Unraced
<1>1. Unraced(pairs'[n].session)
  BY UnracedBefore
<1>2. n \in Pairs
  <2>. SUFFICES ASSUME n \notin Pairs PROVE FALSE
    OBVIOUS
  <2>1. ended' = ended /\ ended \subseteq Pairs
    BY NewPairs DEF AuthTypeOK
  <2>2. pairs'[n].session # n
    BY <2>1
  <2>3. PICK p \in Requests :
          /\ Active(p) /\ req[p].pair \in Pairs /\ req[p].step = "rotate"
          /\ pairs'[n].session = pairs[req[p].pair].session
    BY <2>2, NewPairs
  <2>4. req[p].user = pairs[req[p].pair].user
    BY <2>3, ActiveRequest
  <2>5. pairs[req[p].pair].session \in ended /\ Unraced(pairs[req[p].pair].session)
    BY <1>1, <2>1, <2>3
  <2>. QED BY <2>3, <2>4, <2>5 DEF EndedInv
<1>3. /\ pairs'[n].session = pairs[n].session /\ pairs'[n].issued = pairs[n].issued
      /\ pairs'[n].user = pairs[n].user /\ pairs'[n].delivered = pairs[n].delivered
      /\ pairs[n].revoked => pairs'[n].revoked
  BY <1>2, PairsKeep
<1>4. Unraced(pairs[n].session)
  BY <1>1, <1>3
<1>5. CASE pairs[n].session \notin ended
  BY <1>2, <1>3, <1>4, <1>5, EndedIsOver
<1>6. CASE pairs[n].session \in ended
  <2>1. /\ pairs[n].delivered => ~ValidRow(n) /\ CutOff(n)
        /\ \A q \in Requests : Active(q) /\ req[q].user = pairs[n].user =>
             /\ req[q].step \in {"user", "rotate"} =>
                  pairs[req[q].pair].session # pairs[n].session
             /\ req[q].at # None /\ pairs[n].delivered => pairs[n].issued <= req[q].at
    BY <1>2, <1>4, <1>6 DEF EndedInv
  <2>2. ASSUME pairs[n].delivered PROVE ~ValidRow(n)'
    <3>1. ~(now < Ticks(RefreshExp(n))) \/ pairs[n].revoked
      BY <2>1, <2>2 DEF ValidRow
    <3>2. Ticks(RefreshExp(n))' = Ticks(RefreshExp(n)) /\ Ticks(RefreshExp(n)) \in Nat
      BY <1>2, <1>3, ExpFacts DEF RefreshExp
    <3>3. now \in Nat /\ now' \in Nat /\ now <= now'
      BY AuthTypeStep, PairsKeep DEF AuthTypeOK
    <3>4. ~(now < Ticks(RefreshExp(n))) => ~(now' < Ticks(RefreshExp(n))')
      BY <3>2, <3>3
    <3>. QED BY <1>3, <3>1, <3>4 DEF ValidRow
  <2>3. ASSUME pairs[n].delivered PROVE CutOff(n)'
    <3>1. ASSUME NEW q \in Requests, Cutoff(q), req[q].user = pairs[n].user
          PROVE  pairs[n].issued <= req[q].at
      <4>1. req[q].step = "cutoff" /\ Active(q)
        BY <3>1, Serving DEF Cutoff
      <4>2. req[q].at # None
        BY <4>1 DEF StepInv
      <4>. QED BY <2>1, <2>3, <3>1, <4>1, <4>2
    <3>. QED BY <1>2, <2>1, <2>3, <3>1, CutKeeps
  <2>4. ASSUME NEW q \in Requests, Active(q)', req'[q].user = pairs[n].user
        PROVE  /\ req'[q].step \in {"user", "rotate"} =>
                    pairs'[req'[q].pair].session # pairs[n].session
               /\ req'[q].at # None /\ pairs[n].delivered => pairs[n].issued <= req'[q].at
    <3>1. pairs[n].issued <= now
      BY <1>2 DEF AuthTypeOK
    <3>2. CASE Active(q)
      <4>1. /\ req'[q].pair = req[q].pair /\ req[q].user = pairs[n].user
            /\ req'[q].step \in {"user", "rotate"} => req[q].step \in {"user", "rotate"}
            /\ req'[q].at # None => req'[q].at = req[q].at \/ req'[q].at = now
        <5>1. /\ req'[q].pair = req[q].pair /\ req'[q].user = req[q].user
              /\ \/ req'[q].step = req[q].step /\ req'[q].at = req[q].at
                 \/ req[q].step = "user" /\ req'[q].at = req[q].at
                 \/ req'[q].step \in {"blacklist", "revoke row"} /\ req'[q].at = req[q].at
                 \/ /\ req'[q].step = "cutoff"
                    /\ req'[q].at = (IF req[q].at = None THEN now ELSE req[q].at)
          BY <2>4, <3>2, Continues
        <5>. QED BY <2>4, <5>1
      <4>2. pairs'[req[q].pair].session = pairs[req[q].pair].session
        BY <3>2, ActiveRequest, PairsKeep
      <4>. QED BY <2>1, <3>1, <3>2, <4>1, <4>2
    <3>3. CASE ~Active(q)
      <4>1. PICK k \in Delivered :
              RefreshReadsRow(q, k) \/ LogoutBegins(q, k) \/ LogoutAllBegins(q, k)
        BY <2>4, <3>3, Starts
      <4>2. pairs' = pairs /\ req'[q].pair = k /\ k \in Pairs
        BY <4>1, Begins DEF BegunOwn
      <4>3. \/ ValidRow(k) /\ req'[q].step = "user" /\ req'[q].at = None
            \/ req'[q].step = "blacklist" /\ req'[q].at = None
            \/ req'[q].step = "revoke all" /\ req'[q].at = now
        BY <4>1, Begins DEF BegunOwn
      <4>4. ASSUME ValidRow(k), pairs[k].session = pairs[n].session PROVE FALSE
        <5>1. pairs[k].delivered
          BY DEF Delivered
        <5>. QED BY <1>4, <1>6, <4>2, <4>4, <5>1 DEF EndedInv
      <4>. QED BY <3>1, <4>2, <4>3, <4>4
    <3>. QED BY <3>2, <3>3
  <2>. QED BY <1>3, <2>2, <2>3, <2>4
<1>. QED BY <1>5, <1>6

(***************************************************************************)
(* The invariant holds in every reachable state.                           *)
(***************************************************************************)
LEMMA AuthInvInit ==
  Init => AuthInv
<1>. SUFFICES ASSUME Init PROVE AuthInv
  OBVIOUS
<1>1. Pairs = {} /\ Delivered = {} /\ pairs \in Seq(PairRecord) /\ Len(pairs) = 0
  BY DEF Init, Pairs, Delivered
<1>2. \A p \in Requests : ~Active(p)
  BY DEF Init, Active
<1>3. AuthTypeOK
  <2>1. /\ now \in 0 .. MaxTime /\ revoked \in [Users -> 0 .. MaxTime \cup {None}]
        /\ black \in [1 .. MaxPairs -> Nat] /\ req \in [Requests -> {Idle} \cup Request]
        /\ ended \cup raced \subseteq Pairs
    BY AuthAssumption DEF Init
  <2>2. cut \in [Users -> [second : Nat, until : Nat]]
    BY DEF Init, NoCutoff
  <2>3. Len(pairs) <= MaxPairs
    BY <1>1, AuthAssumption
  <2>4. \A p \in Requests : req[p] = Idle
    BY DEF Init
  <2>. QED BY <1>1, <2>1, <2>2, <2>3, <2>4 DEF AuthTypeOK
<1>. QED BY <1>1, <1>2, <1>3 DEF AuthInv, SessionInv, ChainInv, StepInv, AloneInv,
                                LogoutInv, LogoutAllInv, EndedInv

(***************************************************************************)
(* The invariant is inductive.                                             *)
(***************************************************************************)
LEMMA AuthInvStep ==
  AuthInv /\ [Next]_vars => AuthInv'
<1>. SUFFICES ASSUME AuthInv, [Next]_vars PROVE AuthInv'
  OBVIOUS
<1>1. /\ AuthTypeOK /\ SessionInv /\ ChainInv /\ StepInv /\ AloneInv
      /\ LogoutInv /\ LogoutAllInv /\ EndedInv
  BY DEF AuthInv
<1>2. AuthTypeOK' /\ SessionInv' /\ ChainInv' /\ StepInv' /\ AloneInv'
  BY <1>1, AuthTypeStep, SessionStep, ChainStep, StepStep, AloneStep
<1>3. LogoutInv' /\ LogoutAllInv' /\ EndedInv'
  BY <1>1, LogoutStep, LogoutAllStep, EndedStep
<1>. QED BY <1>2, <1>3 DEF AuthInv

(***************************************************************************)
(* What is known of the pairs, the requests and the ended sessions holds   *)
(* in every reachable state.                                               *)
(***************************************************************************)
THEOREM AuthInvAlways ==
  Spec => []AuthInv
<1>. QED BY AuthInvInit, AuthInvStep, PTL DEF Spec

(***************************************************************************)
(* The variables keep to their domains.                                    *)
(***************************************************************************)
THEOREM AuthTypeCorrect ==
  Spec => []AuthTypeOK
<1>1. AuthInv => AuthTypeOK
  BY DEF AuthInv
<1>. QED BY <1>1, AuthInvAlways, PTL

(***************************************************************************)
(* Logging out ends the session, for any number of users, requests and     *)
(* tokens, and any lives of the tokens: what a logout that was alone has   *)
(* ended stays ended when the entries in Redis expire.                     *)
(***************************************************************************)
THEOREM LogoutCorrect ==
  Spec => []LogoutEndsSession
<1>1. AuthInv => LogoutEndsSession
  <2>. SUFFICES ASSUME AuthInv, NEW n \in Delivered, pairs[n].session \in ended,
                       Unraced(pairs[n].session)
                PROVE  ~Authorized(n) /\ ~ValidRow(n)
    BY DEF LogoutEndsSession
  <2>1. n \in Pairs /\ pairs[n].delivered /\ AuthTypeOK /\ EndedInv
    BY DEF AuthInv, Delivered, Pairs
  <2>2. ~ValidRow(n) /\ CutOff(n)
    BY <2>1 DEF EndedInv
  <2>3. /\ Ticks(AccessExp(n)) \in Nat /\ now \in Nat /\ Second(pairs[n].issued) \in Nat
        /\ cut[pairs[n].user] \in [second : Nat, until : Nat]
    <3>1. pairs[n].user \in Users /\ pairs[n].issued \in Nat
      BY <2>1, PairFacts
    <3>2. Ticks(AccessExp(n)) \in Nat /\ Second(pairs[n].issued) \in Nat
      BY <2>1, <3>1, ExpFacts, SecondFacts
    <3>. QED BY <2>1, <3>1, <3>2 DEF AuthTypeOK
  <2>4. CASE Ticks(AccessExp(n)) <= now
    BY <2>2, <2>3, <2>4 DEF Authorized
  <2>5. CASE ~(Ticks(AccessExp(n)) <= now)
    <3>1. /\ cut[pairs[n].user].second >= Second(pairs[n].issued)
          /\ cut[pairs[n].user].until >= Ticks(AccessExp(n))
      BY <2>2, <2>5 DEF CutOff
    <3>2. UserTokenInvalid(n)
      BY <2>3, <2>5, <3>1 DEF UserTokenInvalid
    <3>. QED BY <2>2, <3>2 DEF Authorized
  <2>. QED BY <2>4, <2>5
<1>. QED BY <1>1, AuthInvAlways, PTL

(***************************************************************************)
(* The refresh tokens of a session that are not revoked, and those made in *)
(* a race.                                                                 *)
(***************************************************************************)
Live(s) == {n \in Pairs : pairs[n].session = s /\ ~pairs[n].revoked}

Races(s) == {n \in raced : pairs[n].session = s}

(***************************************************************************)
(* Both are finite sets of pairs.                                          *)
(***************************************************************************)
LEMMA SessionSets ==
  ASSUME AuthTypeOK, NEW s
  PROVE  /\ IsFiniteSet(Live(s)) /\ IsFiniteSet(Races(s))
         /\ Cardinality(Live(s)) \in Nat /\ Cardinality(Races(s)) \in Nat
<1>1. IsFiniteSet(Pairs)
  BY PairFacts, FS_Interval
<1>2. Live(s) \subseteq Pairs /\ Races(s) \subseteq Pairs
  BY DEF Live, Races, AuthTypeOK
<1>3. IsFiniteSet(Live(s)) /\ IsFiniteSet(Races(s))
  BY <1>1, <1>2, FS_Subset
<1>. QED BY <1>3, FS_CardinalityType

(***************************************************************************)
(* A rotation gives a session a refresh token and revokes one, unless that *)
(* was revoked: then a token made in a race is added to both sets.         *)
(***************************************************************************)
LEMMA GrowStep ==
  ASSUME AuthTypeOK, StepInv, SessionsGrowOnlyByRaces, [Next]_vars
  PROVE  SessionsGrowOnlyByRaces'
<1>1. AuthTypeOK'
  BY AuthTypeStep
<1>. SUFFICES ASSUME NEW s \in Pairs'
              PROVE  Cardinality(Live(s)') <= 1 + Cardinality(Races(s)')
  BY DEF SessionsGrowOnlyByRaces, Live, Races
<1>2. /\ IsFiniteSet(Live(s)) /\ IsFiniteSet(Races(s))
      /\ Cardinality(Live(s)) \in Nat /\ Cardinality(Races(s)) \in Nat
  BY SessionSets
<1>3. /\ IsFiniteSet(Live(s)') /\ IsFiniteSet(Races(s)')
      /\ Cardinality(Live(s)') \in Nat /\ Cardinality(Races(s)') \in Nat
  <2>1. pairs' \in Seq(PairRecord) /\ raced' \subseteq Pairs'
    BY <1>1 DEF AuthTypeOK
  <2>2. Pairs' = 1 .. Len(pairs') /\ Len(pairs') \in Nat
    BY <2>1, LenProperties DEF Pairs
  <2>3. IsFiniteSet(Pairs')
    BY <2>2, FS_Interval
  <2>4. Live(s)' \subseteq Pairs' /\ Races(s)' \subseteq Pairs'
    BY <2>1 DEF Live, Races
  <2>5. IsFiniteSet(Live(s)') /\ IsFiniteSet(Races(s)')
    BY <2>3, <2>4, FS_Subset
  <2>. QED BY <2>5, FS_CardinalityType
<1>4. s \in Pairs => Cardinality(Live(s)) <= 1 + Cardinality(Races(s))
  BY DEF SessionsGrowOnlyByRaces, Live, Races
<1>5. Races(s) \subseteq Races(s)'
  BY PairsKeep DEF Races, AuthTypeOK
<1>6. Cardinality(Races(s)) <= Cardinality(Races(s)')
  BY <1>3, <1>5, FS_Subset
<1>7. \A n \in Pairs : n \in Live(s)' => n \in Live(s)
  BY PairsKeep DEF Live
<1>8. Live(s)' \subseteq Pairs'
  BY DEF Live
<1>9. CASE s \in Pairs /\ Live(s)' \subseteq Pairs
  <2>1. Live(s)' \subseteq Live(s)
    BY <1>7, <1>9
  <2>2. Cardinality(Live(s)') <= Cardinality(Live(s))
    BY <1>2, <2>1, FS_Subset
  <2>. QED BY <1>2, <1>3, <1>4, <1>6, <1>9, <2>2
<1>10. ASSUME NEW n \in Live(s)', n \notin Pairs, s \in Pairs
       PROVE  Cardinality(Live(s)') <= 1 + Cardinality(Races(s)')
  <2>1. n \in Pairs' /\ pairs'[n].session = s
    BY <1>8 DEF Live
  <2>2. Pairs' = Pairs \cup {n}
    BY <1>10, <2>1, NewPairs
  <2>3. PICK p \in Requests :
          /\ req[p].pair \in Pairs /\ s = pairs[req[p].pair].session
          /\ pairs'[req[p].pair].revoked
          /\ raced' = IF pairs[req[p].pair].revoked THEN raced \cup {n} ELSE raced
    BY <1>10, <2>1, NewPairs
  <2>. DEFINE old == req[p].pair
  <2>4. CASE pairs[old].revoked
    <3>1. Live(s)' \subseteq Live(s) \cup {n}
      BY <1>7, <1>8, <2>2
    <3>2. Cardinality(Live(s)') <= Cardinality(Live(s)) + 1
      <4>1. IsFiniteSet(Live(s) \cup {n})
        BY <1>2, FS_AddElement
      <4>2. Cardinality(Live(s)') <= Cardinality(Live(s) \cup {n})
        BY <3>1, <4>1, FS_Subset
      <4>a. n \notin Live(s)
        BY <1>10 DEF Live
      <4>3. Cardinality(Live(s) \cup {n}) = Cardinality(Live(s)) + 1
        BY <1>2, <4>a, FS_AddElement
      <4>4. Cardinality(Live(s) \cup {n}) \in Nat
        BY <4>1, FS_CardinalityType
      <4>. QED BY <1>2, <1>3, <4>2, <4>3, <4>4
    <3>3. n \notin Races(s) /\ Races(s) \cup {n} \subseteq Races(s)'
      BY <1>5, <1>10, <2>1, <2>3, <2>4 DEF Races, AuthTypeOK
    <3>4. Cardinality(Races(s)) + 1 <= Cardinality(Races(s)')
      <4>1. Cardinality(Races(s) \cup {n}) = Cardinality(Races(s)) + 1
        BY <1>2, <3>3, FS_AddElement
      <4>. QED BY <1>3, <3>3, <4>1, FS_Subset
    <3>. QED BY <1>2, <1>3, <1>4, <1>10, <3>2, <3>4
  <2>5. CASE ~pairs[old].revoked
    <3>1. old \in Live(s) /\ old \notin Live(s)'
      BY <2>3, <2>5 DEF Live
    <3>2. Live(s)' \subseteq (Live(s) \ {old}) \cup {n}
      BY <1>7, <1>8, <2>2, <3>1
    <3>. DEFINE rest == Live(s) \ {old}
    <3>3. IsFiniteSet(rest) /\ Cardinality(rest) = Cardinality(Live(s)) - 1
      BY <1>2, <3>1, FS_RemoveElement
    <3>. HIDE DEF rest
    <3>4. IsFiniteSet(rest \cup {n}) /\ Cardinality(rest) \in Nat
          /\ Cardinality(rest \cup {n}) = Cardinality(rest) + 1
      <4>1. Cardinality(rest) \in Nat
        BY <3>3, FS_CardinalityType
      <4>2. n \notin rest
        BY <1>10 DEF Live, rest
      <4>. QED BY <3>3, <4>1, <4>2, FS_AddElement
    <3>5. Cardinality(rest \cup {n}) \in Nat
      BY <3>4, FS_CardinalityType
    <3>6. Cardinality(Live(s)') <= Cardinality(rest \cup {n})
      BY <3>2, <3>4, FS_Subset DEF rest
    <3>. QED BY <1>2, <1>3, <1>4, <1>6, <1>10, <3>3, <3>4, <3>5, <3>6
  <2>. QED BY <2>4, <2>5
<1>11. CASE s \notin Pairs
  <2>1. Pairs' = Pairs \cup {s}
    BY <1>11, NewPairs
  <2>2. \A k \in Pairs : pairs'[k].session # s
    BY <1>11, PairFacts, PairsKeep
  <2>3. Live(s)' \subseteq {s}
    BY <2>1, <2>2 DEF Live
  <2>4. IsFiniteSet({s}) /\ Cardinality({s}) = 1
    BY FS_Singleton
  <2>5. Cardinality(Live(s)') <= 1
    BY <2>3, <2>4, FS_Subset
  <2>. QED BY <1>3, <2>5
<1>. QED BY <1>8, <1>9, <1>10, <1>11

(***************************************************************************)
(* Rotation replaces: a session has one refresh token that is not revoked, *)
(* and one more for each race of two refreshes, for any number of them.    *)
(***************************************************************************)
THEOREM SessionsCorrect ==
  Spec => []SessionsGrowOnlyByRaces
<1>1. Init => SessionsGrowOnlyByRaces
  BY DEF Init, SessionsGrowOnlyByRaces, Pairs
<1>2. AuthInv /\ SessionsGrowOnlyByRaces /\ [Next]_vars => SessionsGrowOnlyByRaces'
  BY GrowStep DEF AuthInv
<1>. QED BY <1>1, <1>2, AuthInvAlways, PTL DEF Spec

=============================================================================
