---------------------------- MODULE ProbeRetrieval ----------------------------
(***************************************************************************)
(* Collecting the evidence of a review: the plan of probes is built from   *)
(* the indexed chunks, then lane after lane the probes are retrieved one   *)
(* by one, the lane is trimmed to its share of the judge's budget, and at  *)
(* the end all bundles are trimmed together or, in a full audit, completed *)
(* with the chunks that no broad probe has seen.                           *)
(***************************************************************************)
EXTENDS ProbeRanking

CONSTANTS Corpora,      \* sequences of documents a job may have indexed
          Marked,       \* files the structure analysis marked for review
          Rules,        \* roadmap rules
          Profiles,     \* roadmap profiles of a job; NoValue: none
          Hits,         \* what a search may find: for each chunk
                        \* index its [semantic, bm25, exact], in hundredths
          IdOrder,      \* ids of probes, in alphabetical order
          MaxTotal,     \* max_chunks
          LaneMax,      \* lane_max_chunks
          MaxProbes,    \* max_probes_per_batch
          MaxChunks     \* max_chunks_per_batch

Lanes == <<"defect", "coverage", "roadmap">>

ASSUME RetrievalAssumption ==
  /\ \A docs \in Corpora : docs \in Seq(ToSet(docs)) /\ \A d \in ToSet(docs) :
       /\ d.file \in ToSet(Paths)
       /\ \A hit \in Hits : hit[d.index] \in [semantic : Nat, bm25 : Nat, exact : Nat]
  /\ IsFiniteSet(Rules)
  /\ \A n \in {MaxTotal, MaxProbes, MaxChunks} : n \in Nat \ {0}
  /\ LaneMax \in [ToSet(Lanes) -> Nat \ {0}]

FullAuditPerProbe == 6

VARIABLES
  corpus,     \* chunk_documents
  fullAudit,  \* the review mode
  semantic,   \* whether the batch of semantic searches succeeded
  plan,       \* the probes
  lane,       \* the lane being retrieved: 1 to 3, 0 before, 4 after
  todo,       \* its probes still to retrieve
  found,      \* its bundles so far
  excluded,   \* excluded_keys of the lane
  bundles,    \* the trimmed bundles of the lanes before
  done        \* the bundles are final

vars == <<corpus, fullAudit, semantic, plan, lane, todo, found, excluded, bundles, done>>

-----------------------------------------------------------------------------
(***************************************************************************)
(* Slips (see README).                                                     *)
(***************************************************************************)

\* No slot is reserved: the best chunks win, whosever they are.
ReserveNone(bs, max) ==
  [keys |-> [id \in {bs[k].probe.id : k \in DOMAIN bs} |-> {}], slots |-> max]

\* A file of which some chunk was audited counts as audited.
UnseenFiles(docs, seen) ==
  Chosen(docs, LAMBDA d : \A key \in seen : key[1] # d.file)

-----------------------------------------------------------------------------
(***************************************************************************)
(* Candidates of one probe.                                                *)
(***************************************************************************)

\* The documents d for which Test(d), as candidates Make(d).
Collect(Test(_), Make(_)) ==
  LET docs == Chosen(corpus, Test) IN [k \in DOMAIN docs |-> Make(docs[k])]

Place(seq, x) == FirstWith(seq, LAMBDA y : y = x)

\* p is greater than q, as tuples of n numbers.
Greater(p, q, n) == \E k \in 1..n : p[k] > q[k] /\ \A j \in 1..(k-1) : p[j] = q[j]

StructuralRank(c, e) ==
  LET place(x) == <<x.score, -Span(x), Place(Paths, x.doc.file), -x.doc.index>>
  IN Greater(place(c), place(e), 4)

IsStructural(d, probe) == d.language = "python" /\ Matches(probe.id, d.text)

Structural(probe, hit) ==
  LET make(d) == Raised(Candidate(d, probe, 0, 100, hit[d].exact, "structural"),
                        500000 + 10000 * ShapeBonus(probe.id, d.text, d.type, d.path))
  IN Sorted(Collect(LAMBDA d : IsStructural(d, probe), make), StructuralRank)

\* Longer ones first, for they may be functions.
FileScope(probe, hit) ==
  LET make(d) == Raised(Candidate(d, probe, 0, hit[d].exact, hit[d].exact, "file_scope"), 400000)
      all == ByScore(Collect(LAMBDA d : d.file = probe.scope, make))
  IN Chosen(all, LAMBDA c : Span(c) > 0) \o Chosen(all, LAMBDA c : Span(c) = 0)

\* A keyword search returns every chunk, however little it matches.
Collected(probe, hit) ==
  [semantic   |-> IF ~semantic THEN <<>> ELSE
                  Descending(Collect(LAMBDA d : hit[d].semantic > 0, LAMBDA d :
                    Candidate(d, probe, hit[d].semantic, 0, hit[d].exact, "semantic")),
                    LAMBDA c : c.semantic),
   bm25       |-> Descending(Collect(LAMBDA d : TRUE, LAMBDA d :
                    Candidate(d, probe, 0, hit[d].bm25, hit[d].exact, "bm25")),
                    LAMBDA c : hit[c.doc].bm25),
   exact      |-> ByScore(Collect(LAMBDA d : hit[d].exact > 0, LAMBDA d :
                    Candidate(d, probe, 0, hit[d].exact, hit[d].exact, "exact"))),
   structural |-> FileScope(probe, hit) \o Structural(probe, hit)]

\* _filter_probe_candidates
InScope(groups, probe) ==
  [strategy \in DOMAIN groups |-> Chosen(groups[strategy], LAMBDA c :
     probe.scope \in {NoValue, c.doc.file} /\ Key(c) \notin excluded)]

Bundle(probe, chunks) ==
  [probe |-> probe, chunks |-> chunks, selected |-> Len(chunks), trimmed |-> 0,
   status |-> IF chunks = <<>> THEN "no_candidate_evidence" ELSE "ok"]

Retrieved(probe, hit) ==
  LET topK  == Min({Max({probe.topK, 1}), 10})
      fused == Fused(InScope(Collected(probe, hit), probe), probe, topK)
      exact == [d \in ToSet(corpus) |-> hit[d].exact]
  IN Bundle(probe, Expanded(fused, corpus, probe, topK, exact, excluded))

\* Only the probes of the coverage lane are kept out of each other's way.
ExcludedAfter(probe, chunks) ==
  IF probe.lane = "coverage" THEN excluded \cup Keys(chunks) ELSE excluded

-----------------------------------------------------------------------------
(***************************************************************************)
(* Trimming.  Probes with one id share what is kept for them.              *)
(***************************************************************************)

NonEmpty(bs) == Cardinality({k \in DOMAIN bs : bs[k].chunks # <<>>})

ChunksIn(bs) == FoldLeft(LAMBDA n, b : n + Len(b.chunks), 0, bs)

\* Kept: the keys kept for each id, and the slots that remain.
KeepOne(kept, id, key) ==
  IF kept.slots = 0 THEN kept
  ELSE [kept EXCEPT !.keys[id] = @ \cup {key}, !.slots = @ - 1]

\* As many of these chunks as there are slots.
KeepAll(kept, id, cs) == FoldLeft(LAMBDA k, c : KeepOne(k, id, Key(c)), kept, cs)

\* The first chunk of every bundle, up to the first empty one.
ReserveFirst(kept, bs) ==
  LET upTo == IF NonEmpty(bs) = Len(bs) THEN Len(bs)
              ELSE FirstWith(bs, LAMBDA b : b.chunks = <<>>) - 1
  IN FoldLeft(LAMBDA k, b : KeepOne(k, b.probe.id, Key(b.chunks[1])), kept, First(upTo, bs))

\* Two structural chunks of each, for OTP as many as it may have.
ReserveStructural(kept, bs) ==
  LET one(k, b) ==
        LET mine(c) == "structural" \in c.strategies
            have == Cardinality({j \in DOMAIN b.chunks :
                      mine(b.chunks[j]) /\ Key(b.chunks[j]) \in k.keys[b.probe.id]})
            target == IF b.probe.id = Otp THEN b.probe.topK ELSE 2
            rest == Chosen(b.chunks, LAMBDA c : mine(c) /\ Key(c) \notin k.keys[b.probe.id])
        IN KeepAll(k, b.probe.id, First(Max({0, target - have}), rest))
  IN FoldLeft(one, kept, bs)

Reserved(bs, max) ==
  LET none == [keys |-> [id \in {bs[k].probe.id : k \in DOMAIN bs} |-> {}], slots |-> max]
  IN ReserveStructural(ReserveFirst(none, bs), bs)

TrimRank(probe) ==
  LET category == CASE probe.category = "security"    -> 4
                    [] probe.category = "bug"         -> 3
                    [] probe.category = "performance" -> 2
                    [] probe.category = "style"       -> 0
                    [] probe.category = "maintainability" /\ probe.priority = "low" -> 0
                    [] OTHER                          -> 1
  IN category + 3 - PriorityRank(probe.priority)

\* Whether chunk s of a bundle is kept before chunk t.
TrimBefore(s, t) ==
  LET place(x) == <<TrimRank(x.probe), x.c.score, Place(IdOrder, x.probe.id),
                    Place(Paths, x.c.doc.file), x.c.doc.index>>
  IN Greater(place(s), place(t), 5)

TrimmedTo(b, keys) ==
  LET chunks == Chosen(b.chunks, LAMBDA c : Key(c) \in keys)
  IN [b EXCEPT !.chunks = chunks, !.trimmed = @ + Len(b.chunks) - Len(chunks),
               !.status = IF b.chunks # <<>> /\ chunks = <<>> THEN "trimmed_by_global_cap" ELSE @]

\* _trim_bundles
Trimmed(bs, max) ==
  LET reserved == Reserved(bs, max)
      scored(b) == LET rest == Chosen(b.chunks, LAMBDA c : Key(c) \notin reserved.keys[b.probe.id])
                   IN [k \in DOMAIN rest |-> [probe |-> b.probe, c |-> rest[k]]]
      ordered == Sorted(FlattenSeq([k \in DOMAIN bs |-> scored(bs[k])]), TrimBefore)
      kept == FoldLeft(LAMBDA k, s : KeepOne(k, s.probe.id, Key(s.c)), reserved, ordered).keys
  IN IF ChunksIn(bs) <= max THEN bs
     ELSE [k \in DOMAIN bs |-> TrimmedTo(bs[k], kept[bs[k].probe.id])]

HasRoadmap == \E k \in DOMAIN plan : plan[k].lane = "roadmap"

\* Judge calls a lane may cost, in a review that is not a full audit.
CallBudget(l) ==
  CASE l = "defect"   -> IF HasRoadmap THEN 4 ELSE 8
    [] l = "coverage" -> 1
    [] l = "roadmap"  -> IF HasRoadmap THEN 4 ELSE 0

LaneCap(l) ==
  IF fullAudit \/ CallBudget(l) = 0 THEN LaneMax[l]
  ELSE Min({LaneMax[l], CallBudget(l) * MaxChunks})

\* _apply_smart_per_probe_cap
PerProbe(bs, l) ==
  LET cap == Max({1, MaxChunks \div MaxProbes}) IN
  IF fullAudit \/ ~HasRoadmap \/ l # "defect" THEN bs
  ELSE [k \in DOMAIN bs |->
         [bs[k] EXCEPT !.chunks = First(cap, @),
                       !.trimmed = @ + Max({0, Len(bs[k].chunks) - cap})]]

TrimmedLane(bs, l) ==
  LET capped == PerProbe(bs, l) IN Trimmed(capped, Max({LaneCap(l), NonEmpty(capped)}))

-----------------------------------------------------------------------------
(***************************************************************************)
(* Full audit.                                                             *)
(***************************************************************************)

Unseen(docs, seen) == Chosen(docs, LAMBDA d : <<d.file, d.index>> \notin seen)

AuditProbe(d, n) ==
  [id |-> "coverage.full_audit." \o Slug[d.file] \o "." \o ToString(n), lane |-> "coverage",
   category |-> CASE d.risk = "security" -> "security"
                  [] d.risk = "api"      -> "bug"
                  [] d.risk = "database" -> "performance"
                  [] OTHER               -> "maintainability",
   priority |-> "medium", risk |-> d.risk, topK |-> FullAuditPerProbe,
   scope |-> d.file, symbolic |-> FALSE]

\* What no coverage bundle holds, file by file, a few chunks per probe.
AuditBundles(docs, bs) ==
  LET seen == UNION {Keys(bs[k].chunks) : k \in {j \in DOMAIN bs : bs[j].probe.lane = "coverage"}}
      left == Unseen(docs, seen)
      of(file) == Chosen(left, LAMBDA d : d.file = file)
      slices(file) == (Len(of(file)) + FullAuditPerProbe - 1) \div FullAuditPerProbe
      slice(file, n) ==
        LET ds == SubSeq(of(file), n * FullAuditPerProbe + 1,
                         Min({Len(of(file)), (n + 1) * FullAuditPerProbe}))
        IN Bundle(AuditProbe(of(file)[1], n),
                  [k \in DOMAIN ds |->
                     Candidate(ds[k], AuditProbe(ds[k], 0), 0, 100, 0, "full_audit")])
  IN FlattenSeq([f \in DOMAIN Paths |->
       [n \in 1..slices(Paths[f]) |-> slice(Paths[f], n - 1)]])

-----------------------------------------------------------------------------

Init ==
  /\ corpus \in Corpora /\ fullAudit \in BOOLEAN /\ semantic = FALSE
  /\ plan = <<>> /\ lane = 0 /\ todo = <<>> /\ found = <<>> /\ excluded = {}
  /\ bundles = <<>> /\ done = FALSE

ProbesOf(probes, l) == Chosen(probes, LAMBDA p : p.lane = l)

\* The plan is built and all semantic searches are made in one batch, or none.
Prepare ==
  /\ lane = 0
  /\ \E profile \in Profiles : plan' = Plan(Marked, corpus, Rules, profile)
  /\ semantic' \in BOOLEAN
  /\ lane' = 1 /\ todo' = ProbesOf(plan', Lanes[1])
  /\ UNCHANGED <<corpus, fullAudit, found, excluded, bundles, done>>

RetrieveProbe ==
  /\ lane \in DOMAIN Lanes /\ todo # <<>>
  /\ \E hit \in Hits :
       LET b == Retrieved(Head(todo), [d \in ToSet(corpus) |-> hit[d.index]]) IN
       /\ found' = Append(found, b)
       /\ excluded' = ExcludedAfter(Head(todo), b.chunks)
  /\ todo' = Tail(todo)
  /\ UNCHANGED <<corpus, fullAudit, semantic, plan, lane, bundles, done>>

\* Coverage keeps away from what the defect probes kept.
EndLane ==
  /\ lane \in DOMAIN Lanes /\ todo = <<>>
  /\ LET kept == TrimmedLane(found, Lanes[lane]) IN
     /\ bundles' = bundles \o kept
     /\ excluded' = IF lane = 1 /\ ~fullAudit
                      THEN UNION {Keys(kept[k].chunks) : k \in DOMAIN kept} ELSE {}
  /\ lane' = lane + 1
  /\ todo' = IF lane = 3 THEN <<>> ELSE ProbesOf(plan, Lanes[lane + 1])
  /\ found' = <<>>
  /\ UNCHANGED <<corpus, fullAudit, semantic, plan, done>>

Finalize ==
  /\ lane = 4 /\ ~done
  /\ bundles' = IF fullAudit THEN bundles \o AuditBundles(corpus, bundles)
                ELSE Trimmed(bundles, Max({MaxTotal, NonEmpty(bundles)}))
  /\ done' = TRUE
  /\ UNCHANGED <<corpus, fullAudit, semantic, plan, lane, todo, found, excluded>>

Next == Prepare \/ RetrieveProbe \/ EndLane \/ Finalize

Spec == Init /\ [][Next]_vars

-----------------------------------------------------------------------------

(***************************************************************************)
(* A full audit shows every indexed chunk to a broad probe, whatever was   *)
(* found or trimmed away before: "Return broad-audit bundles for chunks    *)
(* not already audited broadly."                                           *)
(***************************************************************************)
EveryChunkIsAudited ==
  done /\ fullAudit => \A d \in ToSet(corpus) : \E k \in DOMAIN bundles :
    bundles[k].probe.lane = "coverage" /\ <<d.file, d.index>> \in Keys(bundles[k].chunks)

(***************************************************************************)
(* Otherwise the coverage probes look elsewhere: not at a chunk the judge  *)
(* already gets with a defect probe, nor at one of another coverage probe, *)
(* not even for related chunks.                                            *)
(***************************************************************************)
CoverageLooksElsewhere ==
  ~fullAudit => \A k, j \in DOMAIN bundles :
    /\ k # j /\ bundles[k].probe.lane = "coverage" /\ bundles[j].probe.lane # "roadmap"
    => Keys(bundles[k].chunks) \cap Keys(bundles[j].chunks) = {}

\* The chunks shown to the probes of these lanes: which chunk, for which probe.
Shown(lanes) ==
  UNION {{<<bundles[k].probe.id, key>> : key \in Keys(bundles[k].chunks)} :
           k \in {j \in DOMAIN bundles : bundles[j].probe.lane \in lanes}}

\* The probes of these lanes that found a chunk.
WithEvidence(lanes) ==
  {k \in DOMAIN bundles : bundles[k].probe.lane \in lanes /\ bundles[k].selected > 0}

Fits(lanes, max) == Cardinality(Shown(lanes)) <= Max({max, Cardinality(WithEvidence(lanes))})

(***************************************************************************)
(* Each lane and all lanes together fit their caps, and trimming to fit    *)
(* leaves a chunk to every probe before the first without evidence; what   *)
(* was trimmed away is counted.                                            *)
(***************************************************************************)
EvidenceSurvives ==
  /\ \A k \in DOMAIN bundles :
       bundles[k].selected = Len(bundles[k].chunks) + bundles[k].trimmed
  /\ \A k \in DOMAIN bundles : (\A j \in 1..k : bundles[j].selected > 0)
                                => bundles[k].chunks # <<>>
  /\ ~(done /\ fullAudit) => \A l \in 1..(lane - 1) : Fits({Lanes[l]}, LaneCap(Lanes[l]))
  /\ done /\ ~fullAudit => Fits(ToSet(Lanes), MaxTotal)

(***************************************************************************)
(* The judge gets no more chunks than the cap (or than probes found any):  *)
(* what the tests of _trim_bundles count.                                  *)
(***************************************************************************)
ReviewFitsCap ==
  done /\ ~fullAudit => ChunksIn(bundles)
                          <= Max({MaxTotal, Cardinality(WithEvidence(ToSet(Lanes)))})

(***************************************************************************)
(* A probe whose pattern some chunk in its reach matches gets a chunk that *)
(* matches it, however many others its searches find.                      *)
(***************************************************************************)
StructuralEvidenceKept ==
  \A k \in DOMAIN found :
    LET b == found[k] IN
    /\ b.probe.lane # "coverage"
    /\ \E d \in ToSet(corpus) : IsStructural(d, b.probe)
    => \E j \in DOMAIN b.chunks : IsStructural(b.chunks[j].doc, b.probe)

=============================================================================
