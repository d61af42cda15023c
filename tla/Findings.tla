------------------------------ MODULE Findings ------------------------------
(***************************************************************************)
(* From the rows the detectors leave behind to the findings of a report:   *)
(* the claim a row makes, the key that puts rows of different detectors    *)
(* together, the occurrences overlapping rows are merged into and the row  *)
(* that speaks for each of them.                                           *)
(*                                                                         *)
(* A claim is the sequence of words of its snake_case name, <<>> where     *)
(* there is none.  A text is the words of its snake_case form, the words   *)
(* that occur in it and the phrases of the tables it contains.  A path is  *)
(* a file and the way a detector spelled it.  The tables are constants.    *)
(***************************************************************************)
EXTENDS Integers, Sequences, FiniteSetsExt, SequencesExt

CONSTANTS Aliases,            \* CLAIM_TYPE_ALIASES
          WordPatterns,       \* CLAIM_TOKEN_PATTERNS: <<[words, claim], ...>>
          PhrasePatterns,     \* TITLE_CLAIM_PATTERNS: <<[phrases, claim], ...>>
          GenericClaims,      \* GENERIC_CLAIM_TYPES
          PasswordHashClaims, \* CONTEXTUAL_PASSWORD_HASH_CLAIMS
          RandomnessClaims,   \* CONTEXTUAL_OTP_WEAK_RANDOMNESS_CLAIMS
          StaticRules,        \* STATIC_RULE_CLAIM_TYPES
          ProbeClaims,        \* PROBE_CLAIM_TYPES
          CategoryOverrides   \* CLAIM_CATEGORY_OVERRIDES

NoClaim == <<>>
NoRule  == ""

Lookup(table, key, default) == IF key \in DOMAIN table THEN table[key] ELSE default

FirstClaim(claims) ==
  LET known == {n \in DOMAIN claims : claims[n] # NoClaim}
  IN IF known = {} THEN NoClaim ELSE claims[Min(known)]

FirstMatch(patterns, Matches(_)) ==
  FirstClaim([n \in DOMAIN patterns |->
                IF Matches(patterns[n]) THEN patterns[n].claim ELSE NoClaim])

ClaimTypeFromTitle(phrases) ==
  FirstMatch(PhrasePatterns, LAMBDA p : p.phrases \cap phrases # {})

-----------------------------------------------------------------------------
(***************************************************************************)
(* The claim of a row.                                                     *)
(***************************************************************************)

NormalizeClaimType(claim, title) ==
  LET name    == FirstClaim(<<claim, title.name, <<"review", "finding">> >>)
      aliased == Lookup(Aliases, name, name)
      titled  == IF aliased \in GenericClaims
                 THEN ClaimTypeFromTitle(title.phrases) ELSE NoClaim
  IN FirstClaim(<<FirstMatch(WordPatterns, LAMBDA p : p.words \subseteq Range(aliased)),
                  titled, aliased>>)

IsPasswordHashContext(words) ==
  /\ words \cap {"credential", "password", "passwords"} # {}
  /\ words \cap {"hash", "hashed", "hashing", "hashlib", "md5", "sha1"} # {}

IsInsecureOtpRandomnessContext(words) ==
  /\ "otp" \in words \/ {"one", "time", "password"} \subseteq words
  /\ \/ words \cap {"randint", "predictable"} # {}
     \/ \E hint \in {{"pseudo"}, {"non", "cryptographic"}, {"weak"}, {"insecure"}} :
          hint \cup {"random"} \subseteq words

ContextualClaimType(claim, context) ==
  IF /\ claim = <<"insecure", "default", "credentials">>
     /\ ClaimTypeFromTitle(context.phrases) = <<"hardcoded", "secret">>
  THEN <<"hardcoded", "secret">>
  ELSE IF claim \in PasswordHashClaims /\ IsPasswordHashContext(context.words)
  THEN <<"weak", "password", "hash">>
  ELSE IF claim \in RandomnessClaims /\ IsInsecureOtpRandomnessContext(context.words)
  THEN <<"otp", "weak", "randomness">>
  ELSE claim

\* A probe's result, when it is judged: context is the title and the source.
CanonicalProbeClaimType(probe, claim, title, context) ==
  ContextualClaimType(
    FirstClaim(<<Lookup(ProbeClaims, probe, NoClaim), NormalizeClaimType(claim, title)>>),
    context)

(***************************************************************************)
(* The rule of a static analyzer, then the probe, then the claim the judge *)
(* or the detector wrote, then the key stored with the row.                *)
(***************************************************************************)
DetectorClaimType(i) ==
  FirstClaim(<<Lookup(StaticRules, i.rule, NoClaim), Lookup(ProbeClaims, i.probe, NoClaim),
               i.probeClaim, i.rawClaim, i.storedClaim>>)

ReviewIssueClaimType(i) ==
  LET named == IF i.rule # NoRule THEN <<i.source, i.rule>> ELSE i.title.name
      claim == FirstClaim(<<DetectorClaimType(i), ClaimTypeFromTitle(i.title.phrases), named>>)
  IN ContextualClaimType(NormalizeClaimType(claim, i.title), i.context)

RoadmapRuleId(i) == IF i.source = "KB" THEN i.roadmap ELSE NoRule

BuildFindingKey(category, claim, title, roadmap) ==
  LET normal == NormalizeClaimType(claim, title)
  IN IF roadmap # NoRule THEN <<"roadmap", <<roadmap>> >>
     ELSE <<Lookup(CategoryOverrides, normal, category), normal>>

ReviewIssueFindingKey(i) ==
  BuildFindingKey(i.category, ReviewIssueClaimType(i), i.title, RoadmapRuleId(i))

-----------------------------------------------------------------------------
(***************************************************************************)
(* Occurrences and representatives.  Rows of different files never meet,   *)
(* so the rows are sorted by their lines alone.                            *)
(***************************************************************************)

NormalizeFindingPath(path) == path.file
IsReviewTarget(i)          == ~i.path.readme

SeverityOrder == [critical |-> 0, high |-> 1, medium |-> 2, low |-> 3, info |-> 4]
SourceOrder   == [KB |-> 0, ai_review |-> 1, secret_scanner |-> 2, bandit |-> 3,
                  eslint |-> 4, ruff |-> 5]

LexLess(a, b) ==
  \E n \in DOMAIN a : a[n] < b[n] /\ \A m \in 1..(n - 1) : a[m] = b[m]

RepresentativeKey(i) ==
  <<SeverityOrder[i.severity], IF i.rich THEN 0 ELSE 1, SourceOrder[i.source],
    -i.confidence, i.id>>

RepresentativeIssue(rows) ==
  CHOOSE r \in rows : \A s \in rows \ {r} : LexLess(RepresentativeKey(r), RepresentativeKey(s))

FirstLine(rows) == Min({r.first : r \in rows})
LastLine(rows)  == Max({r.last : r \in rows})

Overlaps(rows, i) ==
  /\ \A r \in rows : NormalizeFindingPath(r.path) = NormalizeFindingPath(i.path)
  /\ FirstLine(rows) <= i.last /\ LastLine(rows) >= i.first

Merge(groups, i) ==
  LET met == {n \in DOMAIN groups : Overlaps(groups[n], i)}
  IN IF met = {} THEN Append(groups, {i}) ELSE [groups EXCEPT ![Min(met)] = @ \cup {i}]

CanonicalOccurrences(rows) ==
  LET Before(i, j) == LexLess(<<i.first, i.last, i.id>>, <<j.first, j.last, j.id>>)
  IN Range(FoldLeft(Merge, <<>>, SetToSortSeq(rows, Before)))

(***************************************************************************)
(* The aggregate of a job's rows: the rows of every key and what is        *)
(* counted of them.                                                        *)
(***************************************************************************)
GroupIssues(rows) ==
  LET targets == {i \in rows : IsReviewTarget(i)}
  IN [key \in {ReviewIssueFindingKey(i) : i \in targets} |->
        {i \in targets : ReviewIssueFindingKey(i) = key}]

BuildReportAggregate(rows) ==
  LET groups        == GroupIssues(rows)
      occurrences   == UNION {CanonicalOccurrences(groups[key]) : key \in DOMAIN groups}
      Speaks(group) == RepresentativeIssue({RepresentativeIssue(o) : o \in CanonicalOccurrences(group)})
  IN [findings    |-> [key \in DOMAIN groups |-> Speaks(groups[key])],
      occurrences |-> {RepresentativeIssue(o) : o \in occurrences},
      raw         |-> Cardinality({i \in rows : IsReviewTarget(i)})]

SeverityCount(aggregate, severity) ==
  Cardinality({key \in DOMAIN aggregate.findings :
                 aggregate.findings[key].severity = severity})

=============================================================================
