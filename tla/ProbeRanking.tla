----------------------------- MODULE ProbeRanking -----------------------------
(***************************************************************************)
(* How the chunks found for one probe are ranked, fused and filled up with *)
(* related ones, as operators on sequences of candidates.                  *)
(*                                                                         *)
(* A document is a chunk as it was indexed: its file and index, its lines, *)
(* path (the hints its path contains), risk, language, type, text, and the *)
(* names it defines (function, class) and mentions.  A candidate is a      *)
(* document with its scores and the strategies that found it.  Scores are  *)
(* in millionths, the factors they are made of in hundredths.              *)
(***************************************************************************)
EXTENDS ProbePlan, ProbePatterns

CONSTANT Private      \* names that begin with an underscore

Key(c) == <<c.doc.file, c.doc.index>>
Keys(cs) == {Key(cs[k]) : k \in DOMAIN cs}

\* sorted(..., key = Score, reverse = True)
Descending(seq, Score(_)) == Sorted(seq, LAMBDA a, b : Score(a) > Score(b))

ByScore(cs) == Descending(cs, LAMBDA c : c.score)

First(n, seq) == SubSeq(seq, 1, Min({n, Len(seq)}))

FirstWith(cs, Test(_)) ==
  LET found == {k \in DOMAIN cs : Test(cs[k])} IN IF found = {} THEN 0 ELSE Min(found)

OfFile(file, cs) == Cardinality({k \in DOMAIN cs : cs[k].doc.file = file})

-----------------------------------------------------------------------------
(***************************************************************************)
(* Scores.                                                                 *)
(***************************************************************************)

PathHints == [
  security        |-> {"auth", "security", "jwt", "token", "session", "middleware"},
  bug             |-> {"service", "worker", "task", "route", "api"},
  performance     |-> {"repository", "database", "db", "cache", "query"},
  maintainability |-> {"service", "utils", "helper", "common", "core"},
  style           |-> {"api", "schema", "model", "config"},
  requirement     |-> {"app", "src", "backend", "frontend", "config"}]

\* PATH_HINTS_BY_PROBE; its keys are CROSS_FILE_PROBE_IDS.
ProbeHints == [p \in {"bug.inventory_invariant", "security.insecure_randomness",
    "security.jwt_algorithm_allowlist", "security.mass_assignment", "security.open_redirect",
    "security.role_authorization", "security.sensitive_response_exposure"} |->
  CASE p = "bug.inventory_invariant"          -> <<"/repositories/", "/services/", "/schemas/">>
    [] p = "security.insecure_randomness"     -> <<"/security.py", "/auth.py">>
    [] p = "security.jwt_algorithm_allowlist" -> <<"/deps.py", "/security.py", "/config.py">>
    [] p = "security.mass_assignment"         -> <<"/schemas/", "/repositories/", "/api/">>
    [] p = "security.open_redirect"           -> <<"/auth.py", "/api/", "/routes/">>
    [] p = "security.role_authorization"      -> <<"/reports", "/api/", "/services/">>
    [] OTHER                                  -> <<"/schemas/", "/reports", "/api/">>]

CrossFile(probe) == probe.id \in DOMAIN ProbeHints

NonRuntime == {"/tests/", "/test/", "/docs/", "test_", ".md", ".rst"}

\* named: a word of the query is in the path.
PathScore(d, probe, named) ==
  LET hints == IF CrossFile(probe) THEN ProbeHints[probe.id] ELSE <<>>
      hit   == FirstWith(hints, LAMBDA h : h \in d.path)
  IN (IF probe.category \in DOMAIN PathHints /\ PathHints[probe.category] \cap d.path # {}
        THEN 20 ELSE 0)
       + (IF named THEN 10 ELSE 0)
       + (IF hit = 0 THEN 0 ELSE Max({12, 34 - 10 * (hit - 1)}))
       - (IF d.path \cap NonRuntime # {} THEN 45 ELSE 0)

RiskScore(d, probe) ==
  IF \/ probe.risk = d.risk
     \/ probe.category = "security" /\ d.risk \in {"security", "config", "api"} THEN 12
  ELSE IF probe.category = "performance" /\ d.risk \in {"database", "api"} THEN 10 ELSE 0

\* _candidate_from_document; exact: how much of the query path and text contain,
\* the query being that of the probe or, for what is related, a function's name.
Candidate(d, probe, semantic, lexical, exact, strategy) ==
  LET path == PathScore(d, probe, strategy # "related" /\ "query" \in d.path)
  IN [doc |-> d, semantic |-> semantic, lexical |-> Max({lexical, exact}), path |-> path,
      score |-> 100 * (semantic * 45 + lexical * 25 + exact * 20
                         + 100 * path + 100 * RiskScore(d, probe)),
      strategies |-> {strategy}]

Raised(c, by) == [c EXCEPT !.score = @ + by]

-----------------------------------------------------------------------------
(***************************************************************************)
(* One candidate per chunk; of two chunks one inside the other, the        *)
(* smaller one.                                                            *)
(***************************************************************************)

Covers(a, b) == a.first <= b.first /\ b.last <= a.last

Nested(c, e) ==
  c.doc.file = e.doc.file /\ (Covers(c.doc, e.doc) \/ Covers(e.doc, c.doc))

Span(c) == c.doc.last - c.doc.first

\* _merge_candidate
Merged(c, e) ==
  [c EXCEPT !.semantic = Max({@, e.semantic}), !.lexical = Max({@, e.lexical}),
            !.path = Max({@, e.path}), !.score = Max({@, e.score}),
            !.strategies = @ \cup e.strategies]

AddUnique(unique, c) ==
  LET same   == FirstWith(unique, LAMBDA u : Key(u) = Key(c))
      nested == FirstWith(unique, LAMBDA u : Nested(c, u))
  IN IF same # 0 THEN [unique EXCEPT ![same] = Merged(@, c)]
     ELSE IF nested = 0 THEN Append(unique, c)
     ELSE IF Span(c) >= Span(unique[nested]) THEN unique
     ELSE [unique EXCEPT ![nested] = c]

Unique(cs) == ByScore(FoldLeft(AddUnique, <<>>, ByScore(cs)))

CanAdd(selected, c) ==
  \A k \in DOMAIN selected : Key(selected[k]) # Key(c) /\ ~Nested(c, selected[k])

-----------------------------------------------------------------------------
(***************************************************************************)
(* Slips (see README).                                                     *)
(***************************************************************************)

\* What other probes have is not kept from related chunks.
TakenBySelf(selected, excluded) == Keys(selected)

\* Nothing is reserved for what matches the structure.
QuotaOfSearches(structural, lexical, semantic, topK, limit) ==
  First(topK, Unique(First(2, lexical) \o First(2, semantic)))

-----------------------------------------------------------------------------
(***************************************************************************)
(* Fusion of the strategies.                                               *)
(***************************************************************************)

RRFK == 60

Weights(probe) ==
  CASE probe.symbolic -> [semantic |-> 25, bm25 |-> 35, exact |-> 20, structural |-> 50]
    [] ~probe.symbolic /\ probe.category \in {"security", "requirement"} ->
         [semantic |-> 30, bm25 |-> 30, exact |-> 20, structural |-> 55]
    [] OTHER -> [semantic |-> 35, bm25 |-> 30, exact |-> 20, structural |-> 45]

\* _bounded_code_prior
Prior(c) ==
  100 * Max({-1200, Min({1800, c.path * 25 + 2 * Min({c.semantic, 100}) + 2 * Min({c.lexical, 100})})})

\* Two of every strategy, but for OTP all that is structural.
Quota(structural, lexical, semantic, topK, limit) ==
  LET add(selected, c) ==
        IF Len(selected) < topK /\ CanAdd(selected, c) THEN Append(selected, c) ELSE selected
  IN FoldLeft(add, <<>>, Unique(First(limit, Unique(structural)))
                           \o Unique(First(2, lexical)) \o Unique(First(2, semantic)))

\* _fill_diverse_candidates: by rank, at most half from one file at first.
Filled(reserved, ranked, topK) ==
  LET perFile == Max({1, topK \div 2})
      take(s, c) ==
        IF Len(s.selected) >= topK \/ ~CanAdd(s.selected, c) THEN s
        ELSE IF OfFile(c.doc.file, s.selected) >= perFile
          THEN [s EXCEPT !.deferred = Append(@, c)]
          ELSE [s EXCEPT !.selected = Append(@, c)]
      taken == FoldLeft(take, [selected |-> reserved, deferred |-> <<>>], ranked)
      late(selected, c) ==
        IF Len(selected) >= topK \/ Key(c) \in Keys(selected) THEN selected
        ELSE Append(selected, c)
  IN FoldLeft(late, taken.selected, taken.deferred)

\* A candidate and what its rank is worth, added to what was found before.
FuseOne(found, c, gain) ==
  LET at == FirstWith(found, LAMBDA x : Key(x.c) = Key(c)) IN
  IF at = 0 THEN Append(found, [c |-> c, rrf |-> gain])
  ELSE [found EXCEPT ![at] = [c |-> Merged(@.c, c), rrf |-> @.rrf + gain]]

\* All of one strategy, the first of them worth most.
FuseIn(found, cs, weight) ==
  LET one(f, rank) == FuseOne(f, cs[rank], (weight * 10000) \div (RRFK + rank))
  IN FoldLeftDomain(one, found, cs)

\* groups: the candidates of each strategy.
Fused(groups, probe, topK) ==
  LET add(found, strategy) ==
        FuseIn(found, Unique(groups[strategy]), Weights(probe)[strategy])
      found  == FoldLeft(add, <<>>, <<"semantic", "bm25", "exact", "structural">>)
      ranked == ByScore([k \in DOMAIN found |->
                  [found[k].c EXCEPT !.score = found[k].rrf + Prior(found[k].c)]])
  IN Filled(Quota(groups.structural, groups.bm25 \o groups.exact, groups.semantic, topK,
                  IF probe.id = Otp THEN topK ELSE 2),
            ranked, topK)

-----------------------------------------------------------------------------
(***************************************************************************)
(* Related chunks: those that mention a name mentioned by one of the first *)
(* chunks or define one it calls, and the neighbours of routes.            *)
(***************************************************************************)

MaxRelated == 3
MaxRelatedPerFile == 2

Share(index) == 2000000 \div index

\* _reference_symbol_priorities
SymbolPriority(name, anchors) ==
  Share(FirstWith(anchors, LAMBDA a : name \in a.doc.mentions))

\* Keys that are not to be found again.
Taken(selected, excluded) == Keys(selected) \cup excluded

Symbols(anchors) == UNION {anchors[k].doc.mentions : k \in DOMAIN anchors}

IsRoute(c) ==
  "@router." \in c.doc.text.words \/ SaysAll(c.doc.text, {"depends(", "def "})

\* The first chunks are the anchors.
Related(selected, corpus, probe, anchors, excluded) ==
  LET names == Symbols(anchors)
      isRelated(d) ==
        /\ probe.scope \in {NoValue, d.file}
        /\ \/ d.function \in names \ Private
           \/ d.class \in names \cap Private
           \/ d.words \cap names # {}
        /\ <<d.file, d.index>> \notin Taken(selected, excluded)
      docs == Chosen(corpus, isRelated)
      found(d) == Candidate(d, probe, 0, 100, IF d.function = NoValue THEN 0 ELSE 100, "related")
  IN [k \in DOMAIN docs |->
        Raised(found(docs[k]),
               Max({0} \cup {SymbolPriority(n, anchors) : n \in docs[k].words \cap names}))]

\* near: the anchors and what is related to them.
Adjacent(near, corpus, probe, exact, excluded) ==
  LET sides(d) == {k \in DOMAIN near :
        IsRoute(near[k]) /\ near[k].doc.file = d.file /\ near[k].doc.index - d.index \in {1, -1}}
      docs == Chosen(corpus, LAMBDA d :
        sides(d) # {} /\ <<d.file, d.index>> \notin Taken(near, excluded))
  IN [k \in DOMAIN docs |->
        Raised(Candidate(docs[k], probe, 0, 100, exact[docs[k]], "adjacent"),
               Share(Max(sides(docs[k]))))]

\* _rank_related_candidates: the best of each kind, then by rank.
RankedRelated(cs) ==
  LET ranked == Unique(cs)
      best(selected, strategy) ==
        LET at == FirstWith(ranked, LAMBDA c :
                    strategy \in c.strategies /\ Key(c) \notin Keys(selected))
        IN IF at = 0 THEN selected ELSE Append(selected, ranked[at])
      bests == FoldLeft(best, <<>>, <<"related", "adjacent">>)
      \* Two of the best from one file count as one.
      count(file, selected) ==
        OfFile(file, selected) - (IF OfFile(file, bests) = 2 THEN 1 ELSE 0)
      add(selected, c) ==
        IF /\ Len(selected) < MaxRelated
           /\ Key(c) \notin Keys(selected)
           /\ count(c.doc.file, selected) < MaxRelatedPerFile
        THEN Append(selected, c) ELSE selected
  IN FoldLeft(add, bests, ranked)

\* _expand_related_candidates
Expanded(selected, corpus, probe, topK, exact, excluded) ==
  LET anchors  == First(Max({1, topK - MaxRelated}), selected)
      related  == Related(selected, corpus, probe, anchors, excluded)
      adjacent == Adjacent(anchors \o related, corpus, probe, exact, excluded)
      extra    == RankedRelated(adjacent \o related)
      slots    == Min({Len(extra), MaxRelated, topK - 1})
  IN IF \/ Symbols(anchors) = {} /\ ~\E k \in DOMAIN anchors : IsRoute(anchors[k])
        \/ Len(selected) >= topK /\ ~CrossFile(probe)
        \/ related \o adjacent = <<>>
       THEN First(topK, selected)
     ELSE IF Len(selected) < topK
       THEN selected \o First(topK - Len(selected), extra)
     ELSE First(topK - slots, selected) \o First(slots, extra)

=============================================================================
