------------------------ MODULE SearchDuringIndexing ------------------------
(***************************************************************************)
(* Searches that run while RepositoryIndexing swaps the index under them:  *)
(* RepositoryIndexStore with its cache of loaded indexes, and the steps    *)
(* of SearchService.search that read shared state.  A search holds no      *)
(* lock between the repository row, the manifest, the index files and the  *)
(* chunk rows.                                                             *)
(***************************************************************************)
EXTENDS RepositoryIndexing, FiniteSets

CONSTANTS
  Searches,   \* threads that serve a search
  CacheSize   \* _CACHE_SIZE

ASSUME CacheHoldsSomething == CacheSize \in Nat \ {0}

VARIABLES
  builtAt,    \* the run whose build the installed index is; built_at names it
  cache,      \* loaded indexes, least recently used first
  spc,        \* where a search is
  srepo,      \* its repository
  srow,       \* the commit_sha it read from the row
  smanifest,  \* the built_at it read from the manifest
  sids,       \* the commit of the chunk ids it holds
  sbm25       \* the commit of the BM25 index it holds

searchVars == <<spc, srepo, srow, smanifest, sids, sbm25>>
storeVars == <<builtAt, cache>>
allVars == <<vars, storeVars, searchVars>>

SearchSteps ==
  {"idle", "manifest", "look_up", "chunk_ids", "bm25", "put", "hydrate"}

CacheEntries ==
  [repo : Repos, builtAt : Jobs, ids : Commits, bm25 : Commits]

SearchInit ==
  /\ Init
  /\ builtAt = [r \in Repos |-> None]
  /\ cache = <<>>
  /\ spc = [s \in Searches |-> "idle"]
  /\ srepo = [s \in Searches |-> None]
  /\ srow = [s \in Searches |-> None]
  /\ smanifest = [s \in Searches |-> None]
  /\ sids = [s \in Searches |-> None]
  /\ sbm25 = [s \in Searches |-> None]

-----------------------------------------------------------------------------
(* One search.                                                             *)

SearchEnds(s) ==
  /\ spc' = [spc EXCEPT ![s] = "idle"]
  /\ srepo' = [srepo EXCEPT ![s] = None]
  /\ srow' = [srow EXCEPT ![s] = None]
  /\ smanifest' = [smanifest EXCEPT ![s] = None]
  /\ sids' = [sids EXCEPT ![s] = None]
  /\ sbm25' = [sbm25 EXCEPT ![s] = None]

SearchContinues(s, step) == spc' = [spc EXCEPT ![s] = step]

(* The row: 404 without one, 409 without a local_path.                     *)
SearchBegins(s, r) ==
  /\ proc = "up"
  /\ spc[s] = "idle"
  /\ Registered(r)
  /\ commit[r] # None
  /\ SearchContinues(s, "manifest")
  /\ srepo' = [srepo EXCEPT ![s] = r]
  /\ srow' = [srow EXCEPT ![s] = commit[r]]
  /\ UNCHANGED <<smanifest, sids, sbm25, vars, storeVars>>

\* Mutant of ReadManifest: the commit of the manifest is not compared.
ReadAnyManifest(s) ==
  /\ spc[s] = "manifest"
  /\ \/ /\ index[srepo[s]] \in Commits
        /\ SearchContinues(s, "look_up")
        /\ smanifest' = [smanifest EXCEPT ![s] = builtAt[srepo[s]]]
        /\ UNCHANGED <<srepo, srow, sids, sbm25>>
     \/ /\ index[srepo[s]] \notin Commits
        /\ SearchEnds(s)
  /\ UNCHANGED <<vars, storeVars>>

(* The manifest: index_not_built without one, index_out_of_date when it    *)
(* names another commit than the row.                                      *)
ReadManifest(s) ==
  /\ spc[s] = "manifest"
  /\ \/ /\ index[srepo[s]] = srow[s]
        /\ SearchContinues(s, "look_up")
        /\ smanifest' = [smanifest EXCEPT ![s] = builtAt[srepo[s]]]
        /\ UNCHANGED <<srepo, srow, sids, sbm25>>
     \/ /\ index[srepo[s]] # srow[s]
        /\ SearchEnds(s)
  /\ UNCHANGED <<vars, storeVars>>

IsKeyOf(entry, s) == entry.repo = srepo[s] /\ entry.builtAt = smanifest[s]

(* The entries of the cache at some of its places, in their order.         *)
Kept(places) ==
  {[n \in DOMAIN at |-> cache[at[n]]] :
     at \in {f \in [1..Cardinality(places) -> places] :
              \A m, n \in DOMAIN f : m < n => f[m] < f[n]}}
Others(s) == Kept({i \in DOMAIN cache : ~IsKeyOf(cache[i], s)})

(* The cache under its lock: a hit becomes the most recently used entry.   *)
LookUp(s) ==
  /\ spc[s] = "look_up"
  /\ \/ \E i \in DOMAIN cache :
          /\ IsKeyOf(cache[i], s)
          /\ \E others \in Others(s) : cache' = Append(others, cache[i])
          /\ SearchContinues(s, "hydrate")
          /\ sids' = [sids EXCEPT ![s] = cache[i].ids]
          /\ sbm25' = [sbm25 EXCEPT ![s] = cache[i].bm25]
     \/ /\ \A i \in DOMAIN cache : ~IsKeyOf(cache[i], s)
        /\ SearchContinues(s, "chunk_ids")
        /\ UNCHANGED <<cache, sids, sbm25>>
  /\ UNCHANGED <<builtAt, srepo, srow, smanifest, vars>>

(* _load_from_disk reads chunk_ids.json and the BM25 files one after the   *)
(* other, outside the lock; a missing file is index_unreadable.            *)
ReadChunkIds(s) ==
  /\ spc[s] = "chunk_ids"
  /\ \/ /\ index[srepo[s]] \in Commits
        /\ SearchContinues(s, "bm25")
        /\ sids' = [sids EXCEPT ![s] = index[srepo[s]]]
        /\ UNCHANGED <<srepo, srow, smanifest, sbm25>>
     \/ /\ index[srepo[s]] \notin Commits
        /\ SearchEnds(s)
  /\ UNCHANGED <<vars, storeVars>>

ReadBm25(s) ==
  /\ spc[s] = "bm25"
  /\ \/ /\ index[srepo[s]] \in Commits
        /\ SearchContinues(s, "put")
        /\ sbm25' = [sbm25 EXCEPT ![s] = index[srepo[s]]]
        /\ UNCHANGED <<srepo, srow, smanifest, sids>>
     \/ /\ index[srepo[s]] \notin Commits
        /\ SearchEnds(s)
  /\ UNCHANGED <<vars, storeVars>>

\* Mutant of Newest: eviction starts one entry too late.
NewestAndOneMore(entries) ==
  IF Len(entries) <= CacheSize + 1 THEN entries
  ELSE SubSeq(entries, Len(entries) - CacheSize, Len(entries))

(* Least recently used entries are evicted beyond the size of the cache.   *)
Newest(entries) ==
  IF Len(entries) <= CacheSize THEN entries
  ELSE SubSeq(entries, Len(entries) - CacheSize + 1, Len(entries))

\* Mutant of PutInCache: the key is computed after the files are read.
PutUnderCurrentKey(s) ==
  /\ spc[s] = "put"
  /\ \E others \in Others(s) :
       cache' = Newest(Append(others,
                  [repo |-> srepo[s], builtAt |-> builtAt[srepo[s]],
                   ids |-> sids[s], bm25 |-> sbm25[s]]))
  /\ SearchContinues(s, "hydrate")
  /\ UNCHANGED <<builtAt, srepo, srow, smanifest, sids, sbm25, vars>>

(* The lock again: put the entry under the key computed from the manifest, *)
(* evict the least recently used.                                          *)
PutInCache(s) ==
  /\ spc[s] = "put"
  /\ \E others \in Others(s) :
       cache' = Newest(Append(others,
                  [repo |-> srepo[s], builtAt |-> smanifest[s],
                   ids |-> sids[s], bm25 |-> sbm25[s]]))
  /\ SearchContinues(s, "hydrate")
  /\ UNCHANGED <<builtAt, srepo, srow, smanifest, sids, sbm25, vars>>

(* The engine scores the loaded index and _hydrate looks its chunk ids up  *)
(* in the rows, skipping those that are missing; the answer is sent.       *)
Hydrate(s) ==
  /\ spc[s] = "hydrate"
  /\ SearchEnds(s)
  /\ UNCHANGED <<vars, storeVars>>

SearchStep(s) ==
  \/ ReadManifest(s) \/ LookUp(s) \/ ReadChunkIds(s) \/ ReadBm25(s)
  \/ PutInCache(s) \/ Hydrate(s)

-----------------------------------------------------------------------------
(* What the indexing side does to the store.                               *)

(* _invalidate.  It runs right after the rename: a search between the two  *)
(* finds the new manifest and so misses the entries that are about to go.  *)
Invalidate(r) ==
  cache' \in Kept({i \in DOMAIN cache : cache[i].repo # r})

InstallIndex(w) ==
  /\ PlaceIndex(w)
  /\ builtAt' = [builtAt EXCEPT ![RepoOf(w)] = work[w]]
  /\ Invalidate(RepoOf(w))
  /\ UNCHANGED searchVars

(* index_store.remove invalidates before it removes the directory, so the  *)
(* index can be loaded again in between.                                   *)
DropIndex(q) ==
  /\ RemoveCheckout(q)
  /\ Invalidate(rrepo[q])
  /\ UNCHANGED <<builtAt, searchVars>>

(* The process goes and its memory with it.                                *)
ProcessEnds ==
  /\ Crash \/ Exit
  /\ cache' = <<>>
  /\ spc' = [s \in Searches |-> "idle"]
  /\ srepo' = [s \in Searches |-> None]
  /\ srow' = [s \in Searches |-> None]
  /\ smanifest' = [s \in Searches |-> None]
  /\ sids' = [s \in Searches |-> None]
  /\ sbm25' = [s \in Searches |-> None]
  /\ UNCHANGED builtAt

ProcessStops ==
  /\ Shutdown
  /\ \A s \in Searches : spc[s] = "idle"
  /\ UNCHANGED <<storeVars, searchVars>>

(* Every other step of RepositoryIndexing leaves the store's memory alone. *)
IndexingElsewhere ==
  /\ \/ \E r \in Repos : Register(r)
     \/ \E q \in Requests, r \in Repos, j \in Jobs : StartRead(q, r, j)
     \/ \E q \in Requests, r \in Repos : DeleteCheck(q, r)
     \/ \E q \in Requests :
          \/ StartCheck(q) \/ StartCommit(q) \/ StartRollback(q)
          \/ Enqueue(q) \/ EnqueueRaises(q) \/ RecordEnqueueFailure(q)
          \/ DeleteCommit(q) \/ DeleteRollback(q) \/ RemoveIndex(q)
     \/ \E w \in Workers :
          \/ TakeJob(w) \/ CloneBegins(w) \/ \E c \in Commits : CloneEnds(w, c)
          \/ StageEnds(w) \/ SkipSearchIndex(w) \/ BuildBegins(w)
          \/ BuildEnds(w) \/ StageRaises(w)
          \/ RemoveOldCheckout(w) \/ PlaceCheckout(w) \/ RemoveOldIndex(w)
          \/ Complete(w) \/ InstallRaises(w) \/ Discard(w) \/ RecordFailure(w)
     \/ SkipJob \/ RecoverJobs \/ ClearTemp \/ RecoveryRaises
  /\ UNCHANGED <<storeVars, searchVars>>

SearchNext ==
  \/ \E s \in Searches, r \in Repos : SearchBegins(s, r)
  \/ \E s \in Searches : SearchStep(s)
  \/ \E w \in Workers : InstallIndex(w)
  \/ \E q \in Requests : DropIndex(q)
  \/ ProcessEnds \/ ProcessStops \/ IndexingElsewhere

SearchSpec == SearchInit /\ [][SearchNext]_allVars

-----------------------------------------------------------------------------
(* Properties.                                                             *)

(* The store and the searches keep their types, and the cache its bound.   *)
SearchTypeOK ==
  /\ builtAt \in [Repos -> Jobs \cup {None}]
  /\ \A i \in DOMAIN cache : cache[i] \in CacheEntries
  /\ Len(cache) <= CacheSize
  /\ spc \in [Searches -> SearchSteps]
  /\ srepo \in [Searches -> Repos \cup {None}]
  /\ srow \in [Searches -> Commits \cup {None}]
  /\ smanifest \in [Searches -> Jobs \cup {None}]
  /\ sids \in [Searches -> Commits \cup {None}]
  /\ sbm25 \in [Searches -> Commits \cup {None}]

(* The cache is never poisoned: an index loaded across a swap is put in    *)
(* the cache after the swap invalidated it, but what is cached under the   *)
(* key of the installed index is the installed index.                      *)
CacheHoldsTheInstalledIndex ==
  \A i \in DOMAIN cache : LET e == cache[i] IN
    index[e.repo] \in Commits /\ e.builtAt = builtAt[e.repo] =>
      e.ids = index[e.repo] /\ e.bm25 = index[e.repo]

(* When the index a search found in the manifest is still the installed    *)
(* one as it answers, the answer comes from that index alone and from the  *)
(* commit the search read in the repository row, cached or not.            *)
UndisturbedSearchIsExact ==
  \A s \in Searches :
    /\ spc[s] = "hydrate"
    /\ index[srepo[s]] \in Commits
    /\ builtAt[srepo[s]] = smanifest[s]
    => sids[s] = srow[s] /\ sbm25[s] = srow[s]

(* docs/retrieval.md: a search refuses an index built from a different     *)
(* commit.  An answer would then come from the commit of the row.          *)
SearchAnswersFromItsCommit ==
  \A s \in Searches : spc[s] = "hydrate" => sids[s] = srow[s] /\ sbm25[s] = srow[s]

(* docs/development.md: a search answers 409 when RETRIEVAL_ENABLED was     *)
(* false as the repository finished indexing.  Without chunk rows every hit *)
(* would be dropped, so a search starting now must not find an index.       *)
SearchNeedsChunks ==
  \A r \in Repos :
    status[r] = "completed" /\ chunks[r] = None => index[r] # commit[r]

=============================================================================
