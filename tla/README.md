# CodeSage: specification and proofs

CodeSage registers GitHub or local repositories, clones and indexes them in
background jobs, and serves their files, symbols, dependency graph and a search
over their chunks. This directory holds TLA+ modules translated from the source
under `src/`, TLC configurations that model-check them on small instances, and
theorems that TLAPS checks for every value of the constants. Paths below are
relative to `src/backend/app/` unless they start with `src/`.

## 1. Inventory

| Component | State it keeps | Operations | Talks to |
| --- | --- | --- | --- |
| Repository service (`services/repository_service.py`, `api/v1/endpoints/repositories.py`) | none of its own; a database session per request | register, start indexing, delete, list, get | rows, job queue, storage, index store, git |
| Job queue (`jobs/`) and process (`main.py`) | the executor's queue, its threads, the cancel event: memory only | enqueue, run a job, shut down, recover at startup | indexer |
| Indexing pipeline (`ingestion/indexer.py`) | locals of `run`: source, temporary checkout, built index | the stages, install, `_complete`, `_fail`, `_update`, recovery | git, storage, index store, rows |
| Checkout storage (`ingestion/storage.py`) | `<storage>/<id>` and `<storage>/.tmp/*` | create_temp_dir, install, remove, discard, clear_temp | file system |
| Index store (`retrieval/index_store.py`, `builder.py`) | `<indexes>/<id>`, `<indexes>/.tmp/*`, an LRU cache of loaded indexes | the same, and load | file system, embeddings |
| Search (`services/search_service.py`) | locals of a request | row, load, rank, hydrate | index store, rows |
| Rows (`models/`, `db/`, `repositories/`) | projects, repositories, indexing_jobs, files, symbols, relationships, chunks | one transaction per commit; a partial unique index and foreign keys with cascade | everyone |
| Git client (`ingestion/git.py`) | a process group, a deadline, the cancel event | clone with timeout and cancel event, ls-remote, log | indexer, repository service |
| Code reads (`services/code_service.py`) | a sequence of statements, each with a snapshot of its own | file list, file content, file detail, symbols, symbol search, relationships | rows, checkout |
| Registration (`project_service.py`, `create_repository`, `ingestion/sources.py`) | an open transaction with an uncommitted default project | check, remote call, insert | rows, git |
| Chunking (`retrieval/chunking.py`) | the cursor of a loop | pieces of symbols, gaps, sections, windows that overlap | indexer |
| Ranking (`retrieval/bm25.py`, `fusion.py`, `engine.py`, `rerankers.py`) | the lists of one request | retrieve, fuse, rerank, cut, hydrate | search |
| Code analysis (`analysis/`) | the stack of a walk, the configuration cache, the edges so far | per-language walk, import resolution, graph | indexer |
| Scanner (`ingestion/scanner.py`) and the stages that read files again | `ScanResult`, the files each stage took | walk with limits, index, parse, chunk | indexer |
| Web interface (`src/frontend/src/`) | React state per component: the settled answer, requests in flight | `useApi`, reload, polling, the index button | HTTP API |

**How they interact.** A request thread checks and commits rows, then hands a job
id to the executor. A worker thread takes the id, marks the job running and goes
through the stages, each announced by a transaction of its own. At the end it
replaces three things one after the other, without a lock: the checkout directory,
the index directory, and, in one transaction, every row of the repository.
Deletions commit first and remove the two directories afterwards. Searches read
the row, the manifest, the cache, the index files and the chunk rows at different
moments. Everything in memory is lost with the process; the next start fails the
jobs that were active and clears the temporary directories.

**What is hard here.** Check-then-act across transactions (start against start,
start against deletion); a sequence of installs that can stop anywhere; an ORM
session that compares an assignment with a value loaded earlier; jobs that exist
both as a row and as a queue item; readers that span a swap of a directory; a
cache filled outside its lock; crash, shutdown and restart between any two steps.
Around that core: a unique key held by an uncommitted row while git runs; a process
group that outlives its leader; answers put together from several snapshots and a
directory; answers in the browser that arrive late; walks that carry context on a
stack; caches and limits in pure algorithms that make a result depend on an order.
`PROJECT.json` lists each of these hazards at its line.

**What makes each component correct.**

- *Service, queue, pipeline, storage together:* one pipeline per repository; the
  status shown is true; a completed repository serves the commit of its row; no
  job is lost; every job ends; a client sees only the steps of a simple service.
- *Index store and search:* the cache never holds a foreign index under the key
  of the installed one; a search whose index stays in place answers from the
  commit it read; the cache keeps its bound.
- *Git client:* a command ends as output, error, timeout or cancellation, each only
  when it is true, with no process left; and every command ends.
- *Registration:* one row per project and repository; a request is answered with
  what happened; the default project is not left behind by a refusal.
- *Code reads:* an answer is of one run; undisturbed it is complete and true;
  contents are never older than their row.
- *Scanner and stages:* the counts add up although each stage reads the files anew.
- *Code analysis:* scopes and exports are those of the language, an import resolves
  to the same file in whichever way it is written, a name is provided exactly when
  a chain of re-exports provides it, and every edge is of a resolved reference and
  counts it once.
- *Chunking:* every line that is neither blank nor looks like a comment is in a
  chunk, chunks fit, and the loop ends.
- *Ranking:* a response is a ranking, refusals are true, agreement is kept.
- *Web interface:* what is shown is fresh, never goes back, and settles; running
  work is polled.

## 2. Modules and the code

### RepositoryIndexing

The core: service, queue, workers, storage and the rows they share. One action is
one database transaction, one directory operation or one call into the executor;
what a thread does between two of those is local to it.

| State | Code |
| --- | --- |
| `status`, `commit`, `chunks` | `repositories.status`; `commit_sha`, `local_path`, metadata, file and symbol rows, which one transaction replaces together; the commit the `code_chunks` rows were cut from |
| `jobStatus`, `jobRepo` | `indexing_jobs.status`, `repository_id` |
| `checkout`, `index` | content of `<storage>/<id>`, `<indexes>/<id>`: a commit, nothing, or `Partial` after a removal that stopped half way |
| `tmpCheckout`, `tmpIndex` | the jobs whose temporary directories exist |
| `queue`, `proc`, `retrieval` | the executor's queue, the phase of the process, `settings.retrieval_enabled` of this process |
| `pc`, `work`, `tip`, `built` | a worker: where in `run`, its job, `commit_sha`, whether the local `retrieval` is set |
| `rpc`, `rrepo`, `rjob`, `sawQueued` | a request: where in the handler, its repository, its job, whether the session loaded the status `queued` |

| Actions | Code |
| --- | --- |
| `Register` | `create_repository` |
| `StartRead` `StartCheck` `StartCommit` `StartRollback` `Enqueue` `EnqueueRaises` `RecordEnqueueFailure` | `start_indexing`, statement by statement |
| `DeleteCheck` `DeleteCommit` `DeleteRollback` `RemoveCheckout` `RemoveIndex` | `delete_repository` |
| `TakeJob` `SkipJob` | an idle thread and `_start` |
| `CloneBegins` `CloneEnds` `StageEnds` `SkipSearchIndex` `BuildBegins` `BuildEnds` `StageRaises` | the stages of `run` |
| `RemoveOldCheckout` `PlaceCheckout` | `storage.install` |
| `RemoveOldIndex` `PlaceIndex` `Complete` `InstallRaises` | `_complete` |
| `Discard` `RecordFailure` | the `except` block of `run`, `_fail` |
| `Shutdown` `Exit` `Crash` `RecoverJobs` `ClearTemp` `RecoveryRaises` | `lifespan`, `ThreadJobQueue.shutdown`, `recover_interrupted_jobs` |

Decisions a reader should know:

- `Faults` says which faults of the environment happen: `"crash"`, `"database"`
  (any transaction may be refused), `"filesystem"` (a removal or rename may fail,
  a removal may stop half way). Without faults a stage may still raise (git, a
  limit, a defect in an analyzer), and so may the submission to the executor.
- `sawQueued` is there because sessions use `expire_on_commit=False` and SQLAlchemy
  leaves a column out of the UPDATE when the value assigned equals the one loaded.
- The temporary names are random, so a job id stands for its directory.
- `job.stage`, `job.commit_sha` and the progress counters are written together
  with columns that are modelled and are left out, as is the content of files.
- A crash in the middle of a removal leaves what a removal that stopped half way
  and a crash after it leave, so the runs that have both faults cover it.
- The server finishes accepted requests before it runs the shutdown part of
  `lifespan` (the behaviour of the ASGI server; external).
- A submission that raises has not queued its item. `ThreadPoolExecutor.submit`
  can queue the item and then fail to start a thread; this exhaustion of the
  operating system is outside the model.
- A row that was deleted does not come back under the same id, since ids are
  random; a new registration is another element of `Repos`.

### IndexingService

What a client may rely on, without disk, queue and threads: repositories are
registered, runs are accepted one at a time per repository, each ends once, and
what is served changes only with a success or a deletion. `RepositoryIndexing`
refines it through `Service` (`row`, `run`, `repoOf` and `served` are functions of
the rows); the property is `ImplementsService`.

### SearchDuringIndexing

Extends the core with searches and the memory of the index store. `builtAt` is
the `built_at` of the installed manifest, with the run that wrote it for the
timestamp; `cache` is the `OrderedDict`, least recently used first. A search goes
row - manifest - cache - `chunk_ids.json` - BM25 files - cache - rows, one action
each, and holds no lock between them. `InstallIndex` and `DropIndex` add the
invalidation to the core's own actions; every other step of the core is taken as
it is. The models are fixed, so the model part of the cache key is left out; a
directory removed half way is unreadable to a search.

### GitClient

`_run`, `_wait` and `_kill` of one operation per caller; time is counted in poll
intervals.

| State | Code |
| --- | --- |
| `command`, `gpc`, `elapsed`, `reason`, `outcome` | the arguments, where the caller is in `_wait`, `deadline`, why it kills, what the operation returned or raised |
| `leader`, `helper` | the git process and the helpers it starts in its group |
| `cancelled` | the cancel event |

`Call` is `_command` with `Popen`; `CommunicateReturns` the end of `communicate`,
which needs the pipes closed by the whole group; `PollExpires` `TimeoutExpired`;
`Check` the tests after a poll, the event before the deadline; `KillGroup` and
`Drain` are `_kill`. `GitExits`, `HelperStarts`, `HelperExits` belong to git, which
need not do any of them. A clone goes on with `rev-parse` (`head_sha`).

### Registration

Extends `GitClient`: `create_repository`, `create_project` and `sources.py`, one
action per statement, with the transaction of the request left open in between.
`projects` and `rows` are committed; `inserted` is the request that has inserted the
default project and not committed it. Another INSERT of that name waits for it, as
the unique index of PostgreSQL makes it. `Answer` is the end of the request together
with the commit or the rollback of `get_db`; `CheckUrl` validates, looks for a row
and calls `ls-remote`; `InsertRepository` commits, or meets the unique constraint. A
URL is a record of its parts and `CanonicalUrl` what `parse_github_url` makes of it.

### WebClient

The page of a repository. `settled` is the state of `useApi`: the key, the attempt
and the answer kept last; `flights` are the requests whose callbacks may still run;
`server` is the row. Attempt numbers are only ever compared with the present one,
so `current` says whether they are equal. `Reload`, `Navigate` and `Retry` run the
cleanup of the effect (`Aborted`) and send; `ServerReads` and `AnswerArrives` may be
far apart; `CallbackRuns` is `setSettled`; `Tick` is the interval with its test of
`isRefreshing`; `PressIndex`, `PostArrives`, `PostReturns` are the button;
`ServerAdvances` the pipeline. `StepStates` and `ReachedIndex` translate the progress
display.

### CodeReads

`CodeService` while a run, an installation or a deletion goes on. `Statements` gives
each operation as its sequence of statements, in the order of the code; each one
sees the rows committed when it runs, and `read_text_file` sees the checkout. Rows
and checkout carry the number of the run that wrote them; identifiers are new in
each run, which is what `FoundById` says. The writer is the core reduced to what a
reader sees: `RunBegins`, `RemoveCheckoutOfLastRun`, `MoveCheckout`, `Complete`,
`RunFails`, `DeleteRows`, `RemoveFiles`. Filters, paging and a request for
relationships by file *and* symbol are left out.

### RepositoryContents

`scan_repository`, `index_file`, the loop of `analyze_repository` and
`_chunk_repository`. `at` is the position of the loop of a stage, `scan` the
`ScanResult`, `misread` remembers which reads failed although the file was readable.
The loops are one action per file (`WalkEntry`, `IndexFile`, `AnalyzeFile`,
`ChunkSource`, `ChunkText`, `SkipFile`), `NextStage` is the order of `run`.

### SourceAnalysis, PythonExtractor, EcmaScriptExtractor, Extraction

Both extractors are stack walks without recursion. A tree is built by `PyGrows` or
`EsGrows`, which allow what the grammar allows, and stands for what tree-sitter
delivers; a node stands for a construct (a definition with its decorators, a
declarator with its value). What stands around the body of a definition and is not
walked (the annotation of a result, type parameters, the heritage and the decorators
of an ECMAScript class) is in the field `header`, and a call whose callee is no name
has the name `""`: `ScopesAreRight` says of both that they are not recorded
(`CallNodes`), and of everything else that it is. The walk pops one node at a time: one action for each
branch of `_walk`, with the owner and the context that the code pushes. `ApplyExports`
and `Finalize` are the ends of the two analyses. `Extraction` chooses the language
and states the properties against `PyScope` and `EsScope`, which read scopes off the
tree and know nothing of the stack. Signatures, docstrings, metrics, HTTP calls and
hooks are left out.

### ImportResolver and DependencyGraph

`ImportResolver` resolves Python imports (absolute, relative, submodules, stubs) and
TypeScript ones (relative, aliases, `baseUrl`); `loaded` and `frames` are the
configuration cache and the recursion of `_load_ts_config`, an entry being in the
cache while its parents are read, so reading a chain of `extends` is a sequence of
actions. `Identifiers` are the names that may be part of a dotted name: the module
index takes no others (`isidentifier`). `Upwards` and `Levels` say what a chain of
`extends` holds, independently of the order in which it is loaded.
`DependencyGraph` takes analysed files and works off their references one by one:
`AddImport`, `AddCall`, `AddBase` end in `Connect`, which keeps weight and best
confidence; `Provided` is the lookup of a name through re-exports (`_lookup_export`),
and the lookup of a member through the bases of a class (`_class_member`) is the same
limited search, `DepthFirst`. The properties know nothing of it: `Within` are the
places a limited chain reaches, level by level, and `IsFirstWay` is the way along which
at each place the first base that leads to a member is taken. `IsAnalysed` says what the analyzers and the resolver
deliver: an owner comes before what it owns, a target is one of the files, and
exports stand at the top level of their module, as the language requires.

### Chunking

`CodeChunker`: `KeepSymbol`, `SplitSymbol` and `SplitContainer` are the three ways of
`_chunk_symbol`; with `Gaps`, `MarkdownPieces` and `TextPieces` they leave chunks, and
pieces that must be cut. `CutWindow` is one turn of the loop of `_windows` with
`_keep`: the piece begins where the cursor of the loop is. A line has a kind (blank,
marked, code) and an end; a marked line begins like a comment (`IsSeparator`) and may be
code (`*args,`). The end is the number of characters of the file up to it. Symbols
and pieces are sets, worked off in any order, since no order changes the chunks.

### Ranking

One search of `RetrievalEngine` and `SearchService._hydrate`: `CheckReranker`,
`RetrieveBM25`, `RetrieveDense`, `Fuse`, `Rerank` or `RerankerRaises`, `Hydrate`.
`available` is what a search finds: a dense index, a provider that can embed the query,
the rerankers registered and those whose model loads, each with the refusal that its
absence leads to. What a retriever scores is
an input, what numpy and FAISS leave open in a tie is a choice (`BestFirst`), and
fractions are counted in units of 1/`Scale`, a multiple of every divisor that occurs;
`Rounded` is `round(score, 6)`, with `Digit` for the last digit. Where the code sorts,
by score and then by chunk id, `Ordered` is the set that holds the one list so sorted.

### How they are composed

`SearchDuringIndexing` extends the core, `Registration` extends `GitClient`, and
`RepositoryIndexing` refines `IndexingService`. The other components meet only
through finished results: an extractor gets a file, a ranking gets lists. `MCServing`
and `MCAnswers` therefore put several of them into one model in which each
behaviour exercises one, its `focus`, while the others rest; no state is lost by
that, since no action of one reads a variable of another.

### Proof modules and MC modules

| Proof module | About |
| --- | --- |
| `RepositoryIndexingProofs` | the core: its inductive invariant and what follows from it |
| `ServiceProofs` | the refinement of `IndexingService`; what becomes of jobs and of temporary clones; `SearchDuringIndexing` |
| `ServingProofs` | `GitClient`, `Registration`, `WebClient` |
| `CheckoutProofs` | `RepositoryContents`, `CodeReads` |
| `RetrievalProofs` | `Chunking`, `Ranking` |
| `AnalysisProofs` | `DependencyGraph`, `ImportResolver` |
| `ExtractionProofs` | `Extraction` with both extractors |
| `DataLemmas` | facts about numbers, functions and sequences that the last three rest on |

`MCRepositoryIndexing` and `MCSearchDuringIndexing` add the symmetry sets for TLC,
`MCServing` and `MCAnswers` the instances and the focus.

## 3. Runs

| Run | Bounds | Shows |
| --- | --- | --- |
| `indexing_faults` | 1 repository, 3 jobs, 2 commits, 2 workers, 2 requests, retrieval on or off, all faults | `TypeOK`, `OnePipelinePerRepository`, `StatusFollowsPipeline`, `CompletedServesItsCommit`, and `IndInv`, the invariant the proofs use |
| `indexing_recovery` | 2 repositories, 2 jobs, 1 commit, 1 worker, 2 requests, crashes | `NoLostJob`, `TempCheckoutsHaveOwners`, the refinement `ImplementsService`, and under fairness `EveryJobEnds` |
| `search_cache` | 2 repositories, 2 jobs, 2 commits, 1 worker, 1 request, 2 searches, a cache of 1, all faults | `SearchTypeOK`, `CacheHoldsTheInstalledIndex`, `UndisturbedSearchIsExact` |
| `serving` | 2 requests, 4 sources (one repository in two spellings, a path with and one without a checkout), 1 further project name, 1 worker; 1, 2 and 1 poll intervals for `ls-remote`, `clone` and the rest; a page with 2 keys, 7 changes of the row, 1 navigation | `RegistrationTypeOK`, `OneRegistrationPerRepository`, `DefaultProjectIsWanted`, `AnswersAreTrue`, `OutcomeIsTrue`, `WebTypeOK`, `ShownIsFresh`, `ProgressIsPolled`, `ShownNeverGoesBack`; under fairness `EveryRequestAnswered`, `EveryOperationEnds`, `PageSettles` |
| `answers` | reads: 2 runs; syntax trees of up to 4 nodes, 2 symbols per file; files of 0, 1 and 6 lines with 4 configurations; 3 chunks with scores 0..2, 9 kinds of search and 5 of what is available; 2^9 Python checkouts and all chains of 3 `tsconfig` files; 3 modules that re-export or inherit in every way, and 4 classes in a diamond; checkouts of 3 entries against limits of 2 files, size 2 and size 1 | `AnswerOfOneRun`, `UndisturbedAnswerIsTrue`, `ContentIsNeverOlderThanItsRow`, `ContentsAddUp`, `ScopesAreRight`, `ExportsAgree`, `RelativeAgreesWithAbsolute`, `LoadedAsWritten`, `ProvidedByExport`, `EdgesAreReal`, `EveryCodeLineIsChunked`, `ChunksFit`, `WindowsAdvance`, `ResponseIsARanking`, `RefusalsAreTrue`, `AgreementIsKept` |

Three jobs on one repository are enough for a success, a re-index that fails and a
third run that meets what it left, with two of them overlapping through a
deletion; the number of jobs is the only bound on the length of a behaviour. Two
workers and two requests are enough for every race of two actors, and the theorems
remove the bound. Two repositories are needed for a queue longer than the free
threads and for a cache with a foreign entry. A cache of one entry makes every
second load evict. `indexing_recovery` uses no symmetry, as its liveness property
requires. Ids carry no order in the code, so symmetry is sound elsewhere. The runs
of the core keep TLC's deadlock check: the process can always be stopped or started.
`serving` and `answers` switch it off, because every behaviour of a request, a page
whose row has changed as often as the bound allows, or an algorithm ends.

`serving`: two requests are enough for every race about one row or one name; the
four sources give an equal canonical URL, a refusal and a path. Timeouts of one and two
polls let a command end before, at and after each test of the deadline and the
event. Seven changes of the row are one whole run. One navigation leaves a request
of an earlier key behind; the liveness check does not allow more, but the theorems
about the page have no such bound.

`answers`: each bound is the smallest at which the interesting cases occur. Two runs
give a reader a generation to mix up; two symbols let the limit strike inside a nested
definition, and four nodes hold a definition in a default value in a definition; six
lines hold a window that backs up to a blank line, and the configurations include
a width of one line with an overlap of two; three chunks make ties and cuts;
`MaxExtendsDepth` is 1 so that a chain of three is longer than the limit, and
`MaxReexportDepth` is 2, the depth at which a diamond has its common base; two files and size limits of two and one are met from both sides.
`TreeIsSmall` and `ScoresMatter` leave out trees and scores that differ only in what
nothing looks at.

`NoLostJob` and `EveryJobEnds` are checked without database errors because the
code gives them up then: `_fail` and `lifespan` log the error and go on, and the
job stays active until a later start of the process.

**Fairness** (`FairSpec`): a request the server accepted runs to its end; a thread
that has a job keeps running, because every git call is bounded by a timeout and
every loop by the files of the checkout; an idle thread takes the next item; the
supervisor restarts a process that is down, and its recovery finishes. All of it
is weak fairness. Clients, crashes and shutdowns get none.

In `serving` a thread that calls git runs (`GitFairness`), and so does a request
(`Fairness`); git and its helpers need never end, so an operation ends only because
of the deadline and the kill of the group. A page (`WebFairness`) has what a browser
and a server give it: the timer fires while it runs, a request ends by its timeout at
the latest, callbacks run, the answer of the button comes, and the pipeline goes on.
The user need not do anything, and a server may be slower than the timer.

### Where the code disagrees with its documentation

Each of these runs checks one sentence of the documentation and TLC finds a
behaviour of the code against it.

| Run | Claim | What happens |
| --- | --- | --- |
| `reindex_not_safe` | a failed re-index leaves the previous index untouched (`src/docs/ingestion.md:63-66`) | the new checkout is in place when the read of the repository id before the installation of the index (`ingestion/indexer.py:320`) is refused by the database: the repository is failed, rows and search index are of the old commit, the checkout of the new one |
| `temp_index_leaks` | if any stage fails the temporary directories are deleted (same) | a build that raises has a directory `run` does not know of |
| `delete_leaves_files` | deleting removes the index and the checkout (`src/README.md:32-33`) | a start between the check and the commit of a deletion puts them back afterwards |
| `lost_status_update` | a start commits `status = queued` (`src/docs/ingestion.md:110`) | not when the session loaded `queued` and the other job ended since |
| `torn_search` | a search refuses an index of another commit (`src/docs/retrieval.md:123-124`) | the manifest is checked before the files are read |
| `polling_stops_early` | polling stops once the status settles (`src/docs/architecture.md:219-220`) | a poll that fails replaces the data by an error, and nothing polls any more although the run goes on |
| `empty_search` | search answers 409 when retrieval was off at the last indexing (`src/docs/development.md:220`) | the old index stays and still names the commit, and every hit is dropped |

## 4. Proofs

Every theorem holds for all values of the constants that satisfy the named assumption
of its module; none assumes a bound of a run. What a theorem needs beyond that is in its
statement.

### The core

Theorems about `Spec` hold for every set of repositories, jobs, commits, workers and
requests, every combination of faults and every setting of retrieval, from the three
assumptions in `RepositoryIndexing`: the sentinels are distinct from ids, settings are
Booleans, faults are the known ones.

| Theorem | Statement |
| --- | --- |
| `Invariance` | `Spec => []IndInv` |
| `TypesHold` | `Spec => []TypeOK` |
| `PipelinesAreExclusive` | `Spec => []OnePipelinePerRepository` |
| `ShownStatusIsTrue` | `Spec => []StatusFollowsPipeline` |
| `CompletedIsServed` | `Spec => []CompletedServesItsCommit` |
| `Refinement` | `Spec => ImplementsService` |
| `JobsAreNotLost` | `Spec => []NoLostJob`, if `~DatabaseMayFail` |
| `ClonesAreOwned` | `Spec => []TempCheckoutsHaveOwners`, if `~DatabaseMayFail` and `~FilesystemMayFail` |

The last two exclude the faults under which the code gives the property up; crashes,
shutdowns, stages and submissions that raise stay in.

None of these properties is inductive. `IndInv` adds what the first ones rest on:

- `ProcessInv`: a process that is not up has no requests and no queue; one that is
  down has no threads. Recovery may fail every active job only because of this.
- `RowInv`: foreign key, cascade and the partial unique index, kept by every step.
- `QueueInv`, `WorkInv`, `RequestInv`: a job id is with one holder at a time: the
  request that drew it, the queue, one thread. What is queued or running was never
  marked failed. That is why a thread never meets another thread's repository:
  two running pipelines of one repository would be two active jobs, or one of a
  repository that is deleted and can get no new job.
- `StageInv`: while a thread works for a repository that exists, its status is a
  stage. So no transaction marks it completed while its directories move.
- `InstallInv`: what the installation has put on disk when it reaches its
  transaction. With `OnePipelinePerRepository` nobody else moves it meanwhile.

For each part there is one lemma `Step...` that shows that a step keeps it, split by action, and
`StepIndInv` puts them together. Lemmas ending in `Frame` say what a family of
actions leaves alone, so that a step of the proof looks only at what an action can
disturb. TLC checks `IndInv` in `indexing_faults` as well.

`ServiceProofs` adds `NothingWithoutRow` (a job id that is not drawn has no
repository, a repository without a row serves nothing) and `KnownRepositories` (the
repository of a request was registered once). One lemma, `UnseenStutters`, covers
the steps a client does not see; each of the others maps to one abstract action in
a lemma of its own. A success maps to `Succeed` only because the transaction of
`_complete` finds the run still open, which `WorkInv` says, and a start maps to
`Accept` only because no other run of the repository is open when it commits,
which is the unique index.

It strengthens `NoLostJob` to `HeldInv`, the same statement in terms
of holders, and `TempCheckoutsHaveOwners` to `CloneInv`, which also covers a
process that is stopping and the steps in which a thread still has the clone.

### Search

`ServiceProofs` also has the proofs about `SearchSpec`, for any number of repositories, jobs, searches and
cache entries and every fault.

| Theorem | Statement |
| --- | --- |
| `CompletedIsServedToSearches` | `SearchSpec => []CompletedServesItsCommit` |
| `SearchKeepsTypes` | `SearchSpec => []SearchTypeOK` |
| `CacheIsNeverPoisoned` | `SearchSpec => []CacheHoldsTheInstalledIndex` |
| `UndisturbedSearchesAreExact` | `SearchSpec => []UndisturbedSearchIsExact` |

The composition keeps `IndInv`, and `SearchInv` is added: `StoreOK`, `CacheOK` and
`SearchOK` say what the manifest, an entry and a search in progress hold. The idea is
`Spent`: a key of the cache names the run that built the index; when that run has
ended it is final, so no later build has the key, and an entry put late under it
cannot be taken for another index.

### Registration and git

`ServingProofs`, for any set of requests, sources and timeouts.

| Theorem | Statement |
| --- | --- |
| `GitOutcomesAreTrue` | `GitSpec => []OutcomeIsTrue` |
| `RemoteOutcomesAreTrue` | `Spec => []OutcomeIsTrue`, of `Registration` |
| `RegistrationKeepsTypes` | `Spec => []RegistrationTypeOK` |
| `RepositoriesAreRegisteredOnce` | `Spec => []OneRegistrationPerRepository` |
| `DefaultProjectIsNeverLeftBehind` | `Spec => []DefaultProjectIsWanted` |
| `AnswersTellWhatHappened` | `Spec => AnswersAreTrue` |

`GitInv` follows a process group through its caller: what a killed, drained or
finished leader means at each `gpc`. `RegistrationInv` adds what a request may have
inserted at each step, that rows hold canonical sources, and that the default
project is uncommitted only while its request runs. The action property is proved
from the two, one step per action.

### Reads of the code

`CheckoutProofs`, for any number of runs.

| Theorem | Statement |
| --- | --- |
| `ReadsKeepTypes` | `ReadsSpec => []ReadsTypeOK` |
| `ContentsAreNotOlder` | `ReadsSpec => []ContentIsNeverOlderThanItsRow` |
| `AnswersAreOfOneRun` | `ReadsSpec => []AnswerOfOneRun` |
| `UndisturbedAnswersAreTrue` | `ReadsSpec => []UndisturbedAnswerIsTrue` |

`ReadsInv` has five parts: `DiskInv` (the checkout, if there is one, is never older
than the rows), `ProgressInv` (a read has executed the statements before the next),
`OneRunInv` (what is shown together was found under the id the read holds),
`UndisturbedInv` and `ContentInv` (the properties for a read under way). The lemma
`Order` collects what the sequences of statements must satisfy for it: an id is
taken before anything is shown, and not again afterwards.

### Contents of a checkout

`CheckoutProofs`, for any set of trees, any limits and any reads that fail.

| Theorem | Statement |
| --- | --- |
| `StoredContentsAddUp` | `ContentsSpec => []ContentsAddUp` |

`ContentsAddUp` speaks of the end of the stages, so it is not inductive. `ContentsInv`
says of each loop what holds of the files before its position: `WalkInv` (the counters
are the cardinalities of what was walked), `IndexInv`, `ParseInv` and `ChunkInv` (a file
before the position is indexed, parsed or chunked unless a read of it failed). The
theorem needs no induction over a tree: the position of the loop does it. The lemma
`OneEntry` has one case for each kind of entry.

### The page

`ServingProofs`, for any number of keys, changes and moves.

| Theorem | Statement |
| --- | --- |
| `WebKeepsTypes` | `WebSpec => []WebTypeOK` |
| `PagesShowFreshRows` | `WebSpec => []ShownIsFresh` |
| `RunningWorkIsPolled` | `WebSpec => []ProgressIsPolled` |
| `PagesNeverGoBack` | `WebSpec => ShownNeverGoesBack` |

`WebInv` is `WebTypeOK` with `RunIsBounded` (a run that was accepted fits the bound),
`OneAnswer` (at most one answer waits for its callback),
`PresentIsFresh` (a request of the present attempt reads the row no earlier than the
reload) and `KeptInOrder` (an answer not aborted is not older than the one kept).

### Chunks and rankings

`RetrievalProofs`: chunking for any file, any outline within it and any configuration
with positive limits; rankings for any finite set of chunks, any scores, weights,
depths and rerankers, as long as `Scale` makes every fraction exact.

| Theorem | Statement |
| --- | --- |
| `NoCodeIsLost` | `ChunkingSpec => []EveryCodeLineIsChunked` |
| `ChunksAreWithinLimits` | `ChunkingSpec => []ChunksFit` |
| `WindowsAlwaysAdvance` | `ChunkingSpec => WindowsAdvance` |
| `TheResponseIsARanking` | `RankingSpec => []ResponseIsARanking` |
| `RefusalsAreAlwaysTrue` | `RankingSpec => []RefusalsAreTrue` |
| `AgreementIsAlwaysKept` | `RankingSpec => []AgreementIsKept` |

The properties of chunking speak of the end, so `ChunkingInv` says the same of each
step: a line of code is in a chunk, in a symbol not chunked yet, or in a piece not cut
yet (`CoverageInv`), and what is left lies in the file (`WorkOK`). Each way to chunk a
symbol passes its lines on (`SymbolGaps` for the code between members), and each turn
of the loop either keeps a window or drops one without code.

`RankingInv` follows a search: `ListsOK` (a list holds no chunk twice and is best
first), `ChecksOK` (a search that goes on was found to have what the steps behind it
needed, and one that was refused to lack it), `RankingOK`
(order, ties, and why a chunk that was retrieved is missing), `HitsOK`. What
`AgreementIsKept` adds is a fact about fusion: with both ways to fuse, a better place
in every list with a weight makes a larger sum (`ContributionOrder`).

### Extraction

`ExtractionProofs`, for every Python or ECMAScript file: any set of constructs that
`PyFormsAssumption` and `EsFormsAssumption` admit (they say of a construct what the
grammar says: a definition has a name, only declarations are exported), a tree of them
of any size, and any positive limit on symbols.

| Theorem | Statement |
| --- | --- |
| `ScopesAreRightAlways` | `ExtractionSpec => []ScopesAreRight` |
| `ExportsAgreeAlways` | `ExtractionSpec => []ExportsAgree` |

Both speak of the end of a walk. `ExtractionInv` has one part for each language, `PyInv`
and `EsInv`, and each says what holds of the tree while it grows, of the walk
(`PyWalk`, `EsWalk`) and of what it leaves (`PyVisited`, `EsVisited`). A walk is
described by the set `V` of nodes visited and the set `D` of those dropped at the limit.
The next nodes, those whose parent is in `V` and not in `D`, are exactly the ones on the
stack, so that a walk with an empty stack has seen everything that was not dropped; and
an entry carries the key of the scope that the tree gives its node, which is what
makes the order of the visits irrelevant.

Of ECMAScript the invariant needs more. A variable is recorded with its declaration and
visited later, so `X` is the set of variables that the limit kept out, whose
children have the module for their owner, and `M` the declarators that a declaration has
still to take within its one step. A function value waits with a name exactly if it is a
symbol, short of the limit, and what waits as exported is already on the list of exports
(`WillBeListed`). `EsVisitStep` has one lemma for each action of the walk.
There is no induction over trees: scopes are unfolded from a node to its parent, and
that all nodes outside a header are reached is shown by climbing through their numbers, a parent
before its children (`Climb` of `DataLemmas`).

### The dependency graph

`AnalysisProofs`, for every project that `IsAnalysed` admits, every set of names and
every limit on re-exports.

| Theorem | Statement |
| --- | --- |
| `ReExportsAreFollowed` | `GraphSpec => []ProvidedByExport` |
| `EdgesStandForReferences` | `GraphSpec => []EdgesAreReal` |

`DepthFirstFinds` says what a limited search finds: something exactly when a place
within the limit has something, the place's own first, and nothing that is not the own
of some such place. `DepthFirstLeads` says which: there is a first way to it
(`IsFirstWay`). Both are proved once, by climbing from depth 0 to the limit (`Climb`
of `DataLemmas`); re-exports use the one, inherited members both. `EdgesAreReal`
speaks of the end, when no reference is pending. `GraphInv` says it of every step: the
pending references are the last ones of the project, the edges are those of the
references worked off, and each has their number for its weight and is confirmed if
one of them is.

### Imports

`AnalysisProofs`, for every set of checkouts whose tsconfig files extend one another
in whatever way, every set of imports and every limit.

| Theorem | Statement |
| --- | --- |
| `TsConfigsAreLoadedAsWritten` | `ResolverSpec => []LoadedAsWritten` |
| `RelativeAndAbsoluteImportsAgree` | `ResolverSpec => []RelativeAgreesWithAbsolute` |

`LoadedAsWritten` is not inductive: a tsconfig whose parent is in the cache without a
value inherits nothing, and that is right only if the parent cannot be read.
`LoadingInv` adds that the calls under way form one chain of parents, no longer than
the limit allows, and that a readable tsconfig is without a value only while such a
call loads it. In a checkout without cycles and without longer chains (`Tame`, the
hypothesis of the property) no tsconfig is above itself, so a parent is never one that
is being loaded; and the value of a tsconfig is what it says itself with what `Upwards`
of its parent say. The other theorem is about one answer: `TargetsAre` says what
`_resolve_python` collects, `StartIs` where a relative import starts, and
`AnswersAgree` compares the two ways to write an import.

### Only model-checked

Liveness under fairness, which the prover does not handle: `EveryJobEnds`,
`EveryRequestAnswered`, `EveryOperationEnds`, `PageSettles`.

Every invariant and every action property of a run is stated by a theorem.

Where a proof needs induction over numbers it uses a least counterexample
(`LeastExists`, from the well-foundedness of the naturals), in `Climb`; the induction
theorems of the library themselves take an operator, which the provers cannot
instantiate.

## 5. What reading and checking showed

Besides the disagreements above, these facts of the code came up. No run is about them
(the models simply do what the code does), and a reader may stumble over them.

- *Reads.* `file_not_analyzed` can be wrong when a run commits between the two
  statements of `_code_file`; the total of a page may be of another run than its
  items; contents may be newer than the row that gives their language.
- *ECMAScript.* A class expression with a name of its own that is exported under
  another one is marked as exported although no export names it.
- *Chunking.* The header of a large symbol is never cut, whatever its length, while
  the docstring of the module (`retrieval/chunking.py:5-14`) speaks of symbols split
  when they exceed the limits. A fragment of up to three lines that all begin like
  comments (`#`, `*`, `--`, `//` and the like) is dropped as a separator, whatever it is
  (`retrieval/chunking.py:334-345`): a heading in Markdown, but also code such as `*args,`,
  `--i;` or `#x = 0;`. `CHUNK_MIN_LINES` does nothing: "Fragments smaller than this are not
  chunked" (`src/docs/retrieval.md:285`), but the setting only reaches a field that
  nothing reads (`ingestion/indexer.py:265`, `retrieval/chunking.py:106`), and a fragment of
  one line is chunked. `EveryCodeLineIsChunked` holds for this reason too.
- *Ranking.* A request for `hybrid_rerank` whose reranker is the empty name takes neither
  the default one nor a refusal (`services/search_service.py:145-153`); its list is not
  reranked, although "Nothing silently falls back to an unreranked list"
  (`src/docs/retrieval.md:196-197`).
- *Imports.* A relative import of `__init__` itself, or from a directory whose name is no
  identifier, resolves although no absolute import of that name does
  (`analysis/resolver.py:67-147`). A relative import that climbs above the root starts at the root and counts
  as confirmed. Ties between candidates are decided by the iteration order of a set. A
  chain of `extends` that is cyclic or longer than the limit is cut at a place that
  depends on the file met first. `paths` without a `baseUrl` take the base of the
  parent configuration. `import "."` at the root finds no index file. A package
  that has only a stub is found by absolute imports alone, and a relative import
  prefers a module to a package of its name.
- *Extraction.* Some calls are in no list: of a callee that is no name or path of names
  (`f()()`, `d[k]()`, `super()`), in the annotation of a result or in type parameters, in
  the heritage and the decorators of an ECMAScript class
  (`analysis/python.py:94-99`, `345-351`, `analysis/ecmascript.py:288-304`, `682-687`). Nor
  are there nodes in the model for what is walked just as little: what a field that holds
  a function has besides the function, the later arguments of a component wrapper, the
  pattern a declarator binds, the members of an enum
  (`analysis/ecmascript.py:260-281`, `321-367`).
- *Graph.* A member of `self` is searched depth first along the bases
  (`analysis/graph.py:309-324`). For `D(B, C)`, `B(A)`, `C(A)` that finds the member of `A`
  through `B` although `C` overrides it, where Python's own order would find that of `C`;
  `EdgesAreReal` states the order of the code, and the diamond is among the graphs of
  `answers`. An explicit re-export does not win over an earlier `export *`; a symbol that is
  exported under another name is also found by its own.

## 6. Not modelled

Path containment; the arguments and the environment of git; the grammars behind the
syntax trees, and what an analyzer extracts besides symbols, scopes, calls, imports
and exports (signatures, docstrings, metrics, HTTP calls, hooks); term statistics,
embeddings and reranker models, whose scores are inputs of `Ranking`; listings, filters
and paging; pages other than that of a repository, and rendering; configuration,
logging, middleware and health checks; migrations, schemas and the benchmark.
`PROJECT.json` lists them with reasons. The faults left out are named with the modules
above: an operating system that cannot start a thread, and, for `NoLostJob` and
`EveryJobEnds`, a database that is down.

To run: `tlc -config <run>.cfg <module>.tla` for a run of `PROJECT.json`, and
`tlapm <module>.tla` for a proof module.
