------------------------------ MODULE CodeIndex ------------------------------
(***************************************************************************)
(* Indexing the code of review jobs and searching it.                      *)
(*                                                                         *)
(* Every job stores the chunks of the commit it cloned in MongoDB, under   *)
(* its own id.  The vectors of the chunks live in one collection for all   *)
(* jobs, addressed by an id made of branch, commit, file, content and      *)
(* occurrence: a review of a snapshot that was indexed before embeds only  *)
(* what is missing, refreshes the rest and drops what it does not know.    *)
(* Jobs run side by side in worker processes that may crash.               *)
(***************************************************************************)
EXTENDS CodeChunks

CONSTANTS Jobs,
          Snapshots,      \* pairs <<branch, commit>> that may be reviewed
          Files,          \* Files[commit]: the files of the clone
          MongoBatch,     \* mongodb_chunk_batch_size
          BatchItems,     \* code_embedding_batch_size
          BatchTokens,    \* code_embedding_max_batch_tokens
          ItemTokens,     \* code_embedding_max_item_tokens
          MaxRetries,     \* code_embedding_max_retries
          TopK,           \* top_k of a search request
          MaxCandidates,  \* candidate_count
          MaxCrashes

\* Finitely many files, each with a path and with definitions on its lines.
IsClone(files) ==
  /\ IsFiniteSet(files)
  /\ \A f, g \in files : f.path = g.path => f = g
  /\ \A f \in files :
       /\ Len(f.lines) \in Nat
       /\ \A x \in f.nodes :
            {<<x.first, x.last>>} \cup x.functions \subseteq (1..Len(f.lines)) \X (1..Len(f.lines))

ASSUME IndexAssumption ==
  /\ {MongoBatch, BatchItems, BatchTokens, ItemTokens, TopK} \subseteq Nat \ {0}
  /\ {MaxRetries, MaxCandidates, MaxCrashes} \subseteq Nat
  /\ \A s \in Snapshots : IsClone(Files[s[2]])

VARIABLES
  pc,         \* where each job is
  snapshot,   \* the branch and commit each job reviews
  manifest,   \* code_index_manifests, by job
  stored,     \* chunk_metadata: the documents stored for each job
  todo,       \* documents the job has still to store, then to embed
  existing,   \* existing_cache_ids of the job
  attempt,    \* requests made for the embedding batch at hand
  vectors,    \* the Chroma collection: from ids to what is stored for them
  found,      \* the answer to the last search of each job
  crashes

vars == <<pc, snapshot, manifest, stored, todo, existing, attempt, vectors, found, crashes>>

Init ==
  /\ pc = [j \in Jobs |-> "cloned"]
  /\ snapshot \in [Jobs -> Snapshots]
  /\ manifest = [j \in Jobs |-> "NONE"]
  /\ stored = [j \in Jobs |-> {}]
  /\ todo = [j \in Jobs |-> {}]
  /\ existing = [j \in Jobs |-> {}]
  /\ attempt = [j \in Jobs |-> 0]
  /\ vectors = <<>>
  /\ found = [j \in Jobs |-> {}]
  /\ crashes = 0

-----------------------------------------------------------------------------

IndexGenerationKey(s) == s

RepoBranchKey(s) == s[1]

-----------------------------------------------------------------------------
(***************************************************************************)
(* Slips: definitions with a mistake this code could have had.             *)
(***************************************************************************)

\* The cache is looked up, and pruned, by branch.
InScopeOfBranch(v, s) == v.branch = RepoBranchKey(s)

\* A search is restricted to the branch.
WhereBranch(v, s) == v.branch = RepoBranchKey(s)

-----------------------------------------------------------------------------
(***************************************************************************)
(* Identity and scope of vectors.                                          *)
(***************************************************************************)

DocumentsOf(s) == BuildSourceChunkDocuments(Files[s[2]])

Documents(j) == DocumentsOf(snapshot[j])

\* How many chunks of the file with the same text come before it.
OccurrenceIndex(docs, d) ==
  Cardinality({x \in docs : x.file = d.file /\ x.text = d.text /\ x.index < d.index})

CacheId(s, docs, d) ==
  [generation |-> IndexGenerationKey(s), file |-> d.file,
   text |-> d.text, occurrence |-> OccurrenceIndex(docs, d)]

Metadata(j, d) ==
  [job |-> j, generation |-> IndexGenerationKey(snapshot[j]),
   branch |-> RepoBranchKey(snapshot[j]), doc |-> d]

\* Chunks with a high-confidence secret are not sent to the provider.
CanSendToRemote(d) == ~d.secret

Prepared(j) == {d \in Documents(j) : CanSendToRemote(d)}

Id(j, d) == CacheId(snapshot[j], Documents(j), d)

CurrentIds(j) == {Id(j, d) : d \in Prepared(j)}

\* The vectors this job looks up, and may later drop.
InScope(v, s) == v.generation = IndexGenerationKey(s)

\* What a search is restricted to.
WhereFilter(v, s) == v.generation = IndexGenerationKey(s)

-----------------------------------------------------------------------------
(***************************************************************************)
(* Batches: the first documents of those left, in the order in which they  *)
(* were chunked.                                                           *)
(***************************************************************************)

Precedes(x, y) == x.file < y.file \/ (x.file = y.file /\ x.index < y.index)

First(docs, n) == {d \in docs : Cardinality({x \in docs : Precedes(x, d)}) < n}

ItemSize(d) == Min({Max({d.tokens, 1}), ItemTokens})

BatchSize(batch) == MapThenSumSet(ItemSize, batch)

\* As many as fit, and one in any case.
TokenLimitedBatch(docs) ==
  LET fits(n) == n <= BatchItems /\ BatchSize(First(docs, n)) <= BatchTokens
  IN First(docs, Max({1} \cup {n \in 1..Cardinality(docs) : fits(n)}))

-----------------------------------------------------------------------------
(***************************************************************************)
(* Indexing: the manifest, then MongoDB.                                   *)
(***************************************************************************)

Goto(j, from, to) == pc[j] = from /\ pc' = [pc EXCEPT ![j] = to]

\* Without chunks no manifest is written.
WriteManifest(j, status) ==
  manifest' = IF Documents(j) = {} THEN manifest ELSE [manifest EXCEPT ![j] = status]

StartIndex(j) ==
  /\ Goto(j, "cloned", "building")
  /\ WriteManifest(j, "BUILDING")
  /\ UNCHANGED <<snapshot, stored, todo, existing, attempt, vectors, found, crashes>>

DeleteChunks(j) ==
  /\ Goto(j, "building", "inserting")
  /\ stored' = [stored EXCEPT ![j] = {}]
  /\ todo' = [todo EXCEPT ![j] = Documents(j)]
  /\ UNCHANGED <<snapshot, manifest, existing, attempt, vectors, found, crashes>>

InsertBatch(j) ==
  /\ pc[j] = "inserting" /\ todo[j] # {}
  /\ stored' = [stored EXCEPT ![j] = @ \cup First(todo[j], MongoBatch)]
  /\ todo' = [todo EXCEPT ![j] = @ \ First(@, MongoBatch)]
  /\ UNCHANGED <<pc, snapshot, manifest, existing, attempt, vectors, found, crashes>>

-----------------------------------------------------------------------------
(***************************************************************************)
(* index_chunks, in a thread: each call of Chroma and of the provider may  *)
(* have those of other jobs before and after it.                           *)
(***************************************************************************)

\* With nothing to index, or nothing that may be sent, the cache is not read.
ReadExisting(j) ==
  /\ Goto(j, "inserting", "refreshing")
  /\ todo[j] = {}
  /\ LET ids == IF Prepared(j) = {} THEN {}
                ELSE {i \in DOMAIN vectors : InScope(vectors[i], snapshot[j])}
     IN /\ existing' = [existing EXCEPT ![j] = ids]
        /\ todo' = [todo EXCEPT ![j] = {d \in Prepared(j) : Id(j, d) \notin ids}]
  /\ UNCHANGED <<snapshot, manifest, stored, attempt, vectors, found, crashes>>

\* Chroma's update leaves out ids that are not there any more.
RefreshCached(j) ==
  /\ Goto(j, "refreshing", "embedding")
  /\ LET cached == {d \in Prepared(j) : Id(j, d) \in existing[j] \cap DOMAIN vectors}
     IN vectors' = [i \in DOMAIN vectors |->
          IF \E d \in cached : Id(j, d) = i
            THEN Metadata(j, CHOOSE d \in cached : Id(j, d) = i)
            ELSE vectors[i]]
  /\ UNCHANGED <<snapshot, manifest, stored, todo, existing, attempt, found, crashes>>

Upsert(j, docs) ==
  LET ids == {Id(j, d) : d \in docs}
  IN vectors' = [i \in DOMAIN vectors \cup ids |->
       IF i \in ids THEN Metadata(j, CHOOSE d \in docs : Id(j, d) = i) ELSE vectors[i]]

EmbedBatch(j) ==
  /\ pc[j] = "embedding" /\ todo[j] # {}
  /\ Upsert(j, TokenLimitedBatch(todo[j]))
  /\ todo' = [todo EXCEPT ![j] = @ \ TokenLimitedBatch(@)]
  /\ attempt' = [attempt EXCEPT ![j] = 0]
  /\ UNCHANGED <<pc, snapshot, manifest, stored, existing, found, crashes>>

\* HTTP 429 or 5xx: the request is made again after a delay.
RetryBatch(j) ==
  /\ pc[j] = "embedding" /\ todo[j] # {}
  /\ attempt[j] < MaxRetries
  /\ attempt' = [attempt EXCEPT ![j] = @ + 1]
  /\ UNCHANGED <<pc, snapshot, manifest, stored, todo, existing, vectors, found, crashes>>

PruneStale(j) ==
  /\ Goto(j, "embedding", "pruned")
  /\ todo[j] = {}
  /\ LET stale == existing[j] \ CurrentIds(j)
     IN vectors' = [i \in DOMAIN vectors \ stale |-> vectors[i]]
  /\ UNCHANGED <<snapshot, manifest, stored, todo, existing, attempt, found, crashes>>

\* The store is CodeEmbeddingStore; with semantic search off a disabled one
\* embeds nothing and the manifest says INDEXED all the same (README).
MarkIndexed(j) ==
  /\ Goto(j, "pruned", "indexed")
  /\ WriteManifest(j, "INDEXED")
  /\ UNCHANGED <<snapshot, stored, todo, existing, attempt, vectors, found, crashes>>

-----------------------------------------------------------------------------
(***************************************************************************)
(* Failures: of MongoDB or on the way to Chroma the job just ends, inside  *)
(* index_chunks the manifest says so first.  The cache keeps what is done. *)
(***************************************************************************)

Threaded == {"refreshing", "embedding"}

Fail(j) ==
  /\ pc[j] \in {"cloned", "building", "inserting", "pruned", "failing"}
  /\ pc' = [pc EXCEPT ![j] = "over"]
  /\ UNCHANGED <<snapshot, manifest, stored, todo, existing, attempt, vectors, found, crashes>>

FailThreaded(j) ==
  /\ pc[j] \in Threaded
  /\ pc' = [pc EXCEPT ![j] = "failing"]
  /\ UNCHANGED <<snapshot, manifest, stored, todo, existing, attempt, vectors, found, crashes>>

MarkIndexFailed(j) ==
  /\ Goto(j, "failing", "over")
  /\ WriteManifest(j, "FAILED")
  /\ UNCHANGED <<snapshot, stored, todo, existing, attempt, vectors, found, crashes>>

Crash(j) ==
  /\ pc[j] \notin {"cloned", "over"}
  /\ crashes < MaxCrashes
  /\ crashes' = crashes + 1
  /\ pc' = [pc EXCEPT ![j] = "over"]
  /\ UNCHANGED <<snapshot, manifest, stored, todo, existing, attempt, vectors, found>>

-----------------------------------------------------------------------------
(***************************************************************************)
(* Searching.  Ranking is left open: any order of the candidates.          *)
(***************************************************************************)

Key(v) == <<v.doc.file, v.doc.index>>

\* The first n of these places.
Leading(places, n) == {k \in places : Cardinality({i \in places : i < k}) < n}

(***************************************************************************)
(* The places of the results: the best of every file first, then, up to    *)
(* topK, what was put off, unless its chunk is there already.              *)
(***************************************************************************)
SelectDiverse(ranked, topK) ==
  LET places == DOMAIN ranked
      ahead(k) == {i \in places : i < k /\ ranked[i].doc.file = ranked[k].doc.file}
      best == {k \in places : Cardinality(ahead(k)) < Max({1, topK \div 2})}
      deferred == {k \in places \ best : \A i \in places :
                     i < k \/ i \in best => Key(ranked[i]) # Key(ranked[k])}
      selected == Leading(best, topK)
  IN selected \cup Leading(deferred, topK - Cardinality(selected))

Rankings(candidates) ==
  LET n == Min({MaxCandidates, Cardinality(candidates)})
  IN {r \in [1..n -> candidates] : \A a, b \in 1..n : r[a] = r[b] => a = b}

Search(j) ==
  /\ pc[j] = "indexed"
  /\ LET candidates == {v \in {vectors[i] : i \in DOMAIN vectors} :
                          WhereFilter(v, snapshot[j])}
     IN \E ranked \in Rankings(candidates) :
          found' = [found EXCEPT ![j] = {ranked[k] : k \in SelectDiverse(ranked, TopK)}]
  /\ UNCHANGED <<pc, snapshot, manifest, stored, todo, existing, attempt, vectors, crashes>>

-----------------------------------------------------------------------------

Next ==
  \E j \in Jobs :
    \/ StartIndex(j) \/ DeleteChunks(j) \/ InsertBatch(j)
    \/ ReadExisting(j) \/ RefreshCached(j) \/ EmbedBatch(j) \/ RetryBatch(j)
    \/ PruneStale(j) \/ MarkIndexed(j)
    \/ Fail(j) \/ FailThreaded(j) \/ MarkIndexFailed(j) \/ Crash(j)
    \/ Search(j)

Spec == Init /\ [][Next]_vars

-----------------------------------------------------------------------------

(***************************************************************************)
(* With semantic search on, an INDEXED manifest is true and stays true:    *)
(* every chunk of the job's snapshot that may leave the machine has its    *)
(* vector, with this snapshot's lines, whatever reviews of this or of      *)
(* other commits of the branch index, refresh, prune, fail or crash        *)
(* before, meanwhile or later; and MongoDB holds every chunk.              *)
(***************************************************************************)
IndexedIsSearchable ==
  \A j \in Jobs : manifest[j] = "INDEXED" =>
    /\ stored[j] = Documents(j)
    /\ \A d \in Prepared(j) : \E i \in DOMAIN vectors :
         WhereFilter(vectors[i], snapshot[j]) /\ vectors[i].doc = d

(***************************************************************************)
(* A search answers from the snapshot under review: each result is a chunk *)
(* of that commit at the lines it has there, none holds a secret, and the  *)
(* cap on results per file never makes the answer shorter than asked for.  *)
(***************************************************************************)
SearchStaysInSnapshot ==
  \A j \in Jobs :
    /\ \A v \in found[j] : v.doc \in Prepared(j)
    /\ Cardinality(found[j]) \in {0, Min({TopK, MaxCandidates, Cardinality(Prepared(j))})}

-----------------------------------------------------------------------------
(***************************************************************************)
(* The inductive invariant that both rest on.                              *)
(***************************************************************************)

IndexTypeOK ==
  /\ pc \in [Jobs -> {"cloned", "building", "inserting", "pruned", "indexed", "failing", "over"}
                      \cup Threaded]
  /\ snapshot \in [Jobs -> Snapshots]
  /\ manifest \in [Jobs -> {"NONE", "BUILDING", "INDEXED", "FAILED"}]
  /\ DOMAIN stored = Jobs /\ DOMAIN todo = Jobs /\ DOMAIN existing = Jobs /\ DOMAIN found = Jobs
  /\ \A j \in Jobs : stored[j] \subseteq Documents(j) /\ todo[j] \subseteq Documents(j)
  /\ attempt \in [Jobs -> 0..MaxRetries]
  /\ crashes \in 0..MaxCrashes

StandsFor(v, i) ==
  \E s \in Snapshots : \E d \in DocumentsOf(s) :
    /\ CanSendToRemote(d) /\ i = CacheId(s, DocumentsOf(s), d)
    /\ v.doc = d /\ v.generation = s /\ v.branch = s[1]

\* Whichever job wrote it last, a vector stands for the document its id is made of.
VectorsInv == \A i \in DOMAIN vectors : StandsFor(vectors[i], i)

\* What a job looked up are ids of its own snapshot, the only ones it may drop.
ScopeInv == \A j \in Jobs : \A i \in existing[j] : i.generation = snapshot[j]

Embedded(j) == {d \in Prepared(j) : Id(j, d) \in DOMAIN vectors}

Progress(j) ==
  /\ pc[j] = "inserting" => stored[j] \cup todo[j] = Documents(j)
  /\ pc[j] \in Threaded => Embedded(j) \cup todo[j] = Prepared(j)
  /\ pc[j] \in {"pruned", "indexed"} => Embedded(j) = Prepared(j)
  /\ pc[j] \in {"pruned", "indexed"} \cup Threaded => stored[j] = Documents(j)
  /\ manifest[j] = "INDEXED" =>
       pc[j] \in {"indexed", "over"} /\ stored[j] = Documents(j) /\ Embedded(j) = Prepared(j)

ProgressInv == \A j \in Jobs : Progress(j)

IndexInv == IndexTypeOK /\ VectorsInv /\ ScopeInv /\ ProgressInv /\ SearchStaysInSnapshot

=============================================================================
