------------------------- MODULE RepositoryIndexing -------------------------
(***************************************************************************)
(* The life of a repository in the CodeSage backend: the HTTP requests     *)
(* that register, index and delete it, the in-process job queue and its    *)
(* worker threads, the indexing pipeline, and the three places that hold   *)
(* its state: the database rows, the directories on disk and the memory of *)
(* the process, which a crash or a restart clears.                         *)
(*                                                                         *)
(* One action is one database transaction, one directory operation or one  *)
(* call into the executor.  Everything a thread does between two of those  *)
(* is local to it.                                                         *)
(***************************************************************************)
EXTENDS Naturals, Sequences

CONSTANTS
  Repos,              \* repository ids
  Jobs,               \* indexing job ids (the bound on runs of the pipeline)
  Commits,            \* commits the remote branch can point to
  Workers,            \* threads of the executor (JOB_WORKERS)
  Requests,           \* concurrent HTTP requests
  RetrievalSettings,  \* values RETRIEVAL_ENABLED may have at a start
  Faults,             \* which faults of the environment happen
  None,               \* "no commit", "no directory", "no job"
  Partial             \* a directory whose removal stopped half way

ASSUME ConstantsAreDistinct ==
  /\ None \notin Jobs \cup Repos \cup Commits
  /\ Partial \notin Commits \cup {None}
ASSUME SettingsAreBooleans == RetrievalSettings \subseteq BOOLEAN
ASSUME FaultsAreKnown ==
  Faults \subseteq {"crash", "database", "filesystem"}

VARIABLES
  status,       \* repositories.status, or why there is no row
  commit,       \* repositories.commit_sha, local_path, metadata and file rows
  chunks,       \* the commit the code_chunks rows were cut from
  jobStatus,    \* indexing_jobs.status, or why there is no row
  jobRepo,      \* indexing_jobs.repository_id
  checkout,     \* content of <storage>/<repository id>
  index,        \* content of <indexes>/<repository id>
  tmpCheckout,  \* jobs whose directory in <storage>/.tmp exists
  tmpIndex,     \* jobs whose directory in <indexes>/.tmp exists
  queue,        \* the executor's work queue
  proc,         \* the API process
  retrieval,    \* settings.retrieval_enabled of this process
  pc, work, tip, built,        \* a worker thread and its locals
  rpc, rrepo, rjob, sawQueued  \* a request thread and its locals

dbVars      == <<status, commit, chunks, jobStatus, jobRepo>>
diskVars    == <<checkout, index, tmpCheckout, tmpIndex>>
procVars    == <<queue, proc, retrieval>>
workerVars  == <<pc, work, tip, built>>
requestVars == <<rpc, rrepo, rjob, sawQueued>>
vars == <<dbVars, diskVars, procVars, workerVars, requestVars>>

-----------------------------------------------------------------------------
(* Statuses.                                                               *)

PipelineStages == {"cloning", "analyzing", "indexing", "parsing", "embedding"}
ActiveStatuses == {"queued"} \cup PipelineStages
RepositoryStatus == ActiveStatuses \cup {"pending", "completed", "failed"}
ActiveJobStatuses == {"queued", "running"}
JobStatus == ActiveJobStatuses \cup {"succeeded", "failed"}

NoRow == {"absent", "deleted"}
WorkerSteps ==
  PipelineStages \cup
  {"idle", "remove_old_checkout", "place_checkout", "remove_old_index",
   "place_index", "complete", "discard", "fail"}
RequestSteps ==
  {"idle", "start_read", "start_checked", "enqueue", "enqueue_failed",
   "delete_checked", "remove_checkout", "remove_index"}

Trees == Commits \cup {None, Partial}

Registered(r) == status[r] \in RepositoryStatus
JobExists(j)  == jobStatus[j] \in JobStatus
Active(j)     == jobStatus[j] \in ActiveJobStatuses
HasActiveJob(r) == \E j \in Jobs : Active(j) /\ jobRepo[j] = r
Cancelled == proc = "stopping"

\* The repository a worker or a request is about.
RepoOf(w) == jobRepo[work[w]]

DatabaseMayFail   == "database" \in Faults
FilesystemMayFail == "filesystem" \in Faults
ProcessMayCrash   == "crash" \in Faults

-----------------------------------------------------------------------------
Init ==
  /\ status = [r \in Repos |-> "absent"]
  /\ commit = [r \in Repos |-> None]
  /\ chunks = [r \in Repos |-> None]
  /\ jobStatus = [j \in Jobs |-> "absent"]
  /\ jobRepo = [j \in Jobs |-> None]
  /\ checkout = [r \in Repos |-> None]
  /\ index = [r \in Repos |-> None]
  /\ tmpCheckout = {}
  /\ tmpIndex = {}
  /\ queue = <<>>
  /\ proc = "down"
  /\ retrieval \in RetrievalSettings
  /\ pc = [w \in Workers |-> "idle"]
  /\ work = [w \in Workers |-> None]
  /\ tip = [w \in Workers |-> None]
  /\ built = [w \in Workers |-> FALSE]
  /\ rpc = [q \in Requests |-> "idle"]
  /\ rrepo = [q \in Requests |-> None]
  /\ rjob = [q \in Requests |-> None]
  /\ sawQueued = [q \in Requests |-> FALSE]

-----------------------------------------------------------------------------
(* Requests: each runs in a thread of its own with its own session.        *)

RequestEnds(q) ==
  /\ rpc' = [rpc EXCEPT ![q] = "idle"]
  /\ rrepo' = [rrepo EXCEPT ![q] = None]
  /\ rjob' = [rjob EXCEPT ![q] = None]
  /\ sawQueued' = [sawQueued EXCEPT ![q] = FALSE]

RequestContinues(q, step) ==
  /\ rpc' = [rpc EXCEPT ![q] = step]
  /\ UNCHANGED <<rrepo, rjob, sawQueued>>

(* POST /repositories commits the new row.                                 *)
Register(r) ==
  /\ proc = "up"
  /\ status[r] = "absent"
  /\ status' = [status EXCEPT ![r] = "pending"]
  /\ UNCHANGED <<commit, chunks, jobStatus, jobRepo,
                 diskVars, procVars, workerVars, requestVars>>

(* start_indexing loads the repository row into the session.  The value of *)
(* status it loads is what the session later compares an assignment with.  *)
(* The id of the job to insert is drawn here.                              *)
StartRead(q, r, j) ==
  /\ proc = "up"
  /\ rpc[q] = "idle"
  /\ Registered(r)
  /\ jobStatus[j] = "absent"
  /\ \A p \in Requests : rjob[p] # j
  /\ rpc' = [rpc EXCEPT ![q] = "start_read"]
  /\ rrepo' = [rrepo EXCEPT ![q] = r]
  /\ rjob' = [rjob EXCEPT ![q] = j]
  /\ sawQueued' = [sawQueued EXCEPT ![q] = (status[r] = "queued")]
  /\ UNCHANGED <<dbVars, diskVars, procVars, workerVars>>

(* The second SELECT: 409 when a job is active.                            *)
StartCheck(q) ==
  /\ rpc[q] = "start_read"
  /\ \/ /\ ~HasActiveJob(rrepo[q])
        /\ RequestContinues(q, "start_checked")
     \/ /\ HasActiveJob(rrepo[q])
        /\ RequestEnds(q)
  /\ UNCHANGED <<dbVars, diskVars, procVars, workerVars>>

\* Mutant of StartCommit: the partial unique index is missing.
StartCommitUnindexed(q) ==
  LET r == rrepo[q]
  IN /\ rpc[q] = "start_checked"
     /\ Registered(r)
     /\ jobStatus' = [jobStatus EXCEPT ![rjob[q]] = "queued"]
     /\ jobRepo' = [jobRepo EXCEPT ![rjob[q]] = r]
     /\ status' = [status EXCEPT ![r] = "queued"]
     /\ RequestContinues(q, "enqueue")
     /\ UNCHANGED <<commit, chunks, diskVars, procVars, workerVars>>

(* INSERT the queued job, UPDATE the repository, COMMIT.  The foreign key  *)
(* needs the repository row, the partial unique index no other active job. *)
(* The session leaves a column out of the UPDATE when the assigned value   *)
(* equals the loaded one, so a status loaded as queued is not written.     *)
StartCommit(q) ==
  LET r == rrepo[q]
      j == rjob[q]
  IN /\ rpc[q] = "start_checked"
     /\ Registered(r)
     /\ ~HasActiveJob(r)
     /\ jobStatus' = [jobStatus EXCEPT ![j] = "queued"]
     /\ jobRepo' = [jobRepo EXCEPT ![j] = r]
     /\ status' = IF sawQueued[q] THEN status
                  ELSE [status EXCEPT ![r] = "queued"]
     /\ RequestContinues(q, "enqueue")
     /\ UNCHANGED <<commit, chunks, diskVars, procVars, workerVars>>

(* The transaction is refused by a constraint, or the database is down.    *)
StartRollback(q) ==
  /\ rpc[q] = "start_checked"
  /\ ~Registered(rrepo[q]) \/ HasActiveJob(rrepo[q]) \/ DatabaseMayFail
  /\ RequestEnds(q)
  /\ UNCHANGED <<dbVars, diskVars, procVars, workerVars>>

\* Mutant of Enqueue: the submission is retried although it succeeded.
EnqueueTwice(q) ==
  /\ rpc[q] = "enqueue"
  /\ queue' = queue \o <<rjob[q], rjob[q]>>
  /\ RequestEnds(q)
  /\ UNCHANGED <<proc, retrieval, dbVars, diskVars, workerVars>>

(* The executor takes the item.                                            *)
Enqueue(q) ==
  /\ rpc[q] = "enqueue"
  /\ queue' = Append(queue, rjob[q])
  /\ RequestEnds(q)
  /\ UNCHANGED <<proc, retrieval, dbVars, diskVars, workerVars>>

(* The executor refuses the item.                                          *)
EnqueueRaises(q) ==
  /\ rpc[q] = "enqueue"
  /\ RequestContinues(q, "enqueue_failed")
  /\ UNCHANGED <<dbVars, diskVars, procVars, workerVars>>

\* Mutant of RecordEnqueueFailure: the handler answers 500 and no more.
IgnoreEnqueueFailure(q) ==
  /\ rpc[q] = "enqueue_failed"
  /\ RequestEnds(q)
  /\ UNCHANGED <<dbVars, diskVars, procVars, workerVars>>

(* The handler of that exception; with the row gone the UPDATE matches no  *)
(* row and the session rolls back.                                         *)
RecordEnqueueFailure(q) ==
  LET r == rrepo[q]
      j == rjob[q]
  IN /\ rpc[q] = "enqueue_failed"
     /\ \/ /\ JobExists(j)
           /\ jobStatus' = [jobStatus EXCEPT ![j] = "failed"]
           /\ status' = [status EXCEPT ![r] = "failed"]
        \/ /\ ~JobExists(j) \/ DatabaseMayFail
           /\ UNCHANGED <<jobStatus, status>>
     /\ RequestEnds(q)
     /\ UNCHANGED <<commit, chunks, jobRepo, diskVars, procVars, workerVars>>

(* delete_repository: the row exists and no job is active.                 *)
DeleteCheck(q, r) ==
  /\ proc = "up"
  /\ rpc[q] = "idle"
  /\ Registered(r)
  /\ ~HasActiveJob(r)
  /\ rpc' = [rpc EXCEPT ![q] = "delete_checked"]
  /\ rrepo' = [rrepo EXCEPT ![q] = r]
  /\ UNCHANGED <<rjob, sawQueued, dbVars, diskVars, procVars, workerVars>>

\* Mutant of DeleteCommit: the cascade does not reach the file rows.
DeleteKeepingFiles(q) ==
  LET r == rrepo[q]
  IN /\ rpc[q] = "delete_checked"
     /\ status' = [status EXCEPT ![r] = "deleted"]
     /\ jobStatus' = [j \in Jobs |-> IF JobExists(j) /\ jobRepo[j] = r
                                     THEN "deleted" ELSE jobStatus[j]]
     /\ RequestContinues(q, "remove_checkout")
     /\ UNCHANGED <<commit, chunks, jobRepo, diskVars, procVars, workerVars>>

(* DELETE cascades to the jobs, files and chunks of the repository.        *)
DeleteCommit(q) ==
  LET r == rrepo[q]
  IN /\ rpc[q] = "delete_checked"
     /\ status' = [status EXCEPT ![r] = "deleted"]
     /\ commit' = [commit EXCEPT ![r] = None]
     /\ chunks' = [chunks EXCEPT ![r] = None]
     /\ jobStatus' = [j \in Jobs |-> IF JobExists(j) /\ jobRepo[j] = r
                                     THEN "deleted" ELSE jobStatus[j]]
     /\ RequestContinues(q, "remove_checkout")
     /\ UNCHANGED <<jobRepo, diskVars, procVars, workerVars>>

DeleteRollback(q) ==
  /\ rpc[q] = "delete_checked"
  /\ DatabaseMayFail
  /\ RequestEnds(q)
  /\ UNCHANGED <<dbVars, diskVars, procVars, workerVars>>

(* What removing a directory tree leaves: nothing, or part of it when the  *)
(* file system refuses.                                                    *)
Removals(tree) ==
  {None} \cup (IF FilesystemMayFail /\ tree # None THEN {tree, Partial} ELSE {})

RemoveCheckout(q) ==
  /\ rpc[q] = "remove_checkout"
  /\ \E tree \in Removals(checkout[rrepo[q]]) :
       checkout' = [checkout EXCEPT ![rrepo[q]] = tree]
  /\ RequestContinues(q, "remove_index")
  /\ UNCHANGED <<index, tmpCheckout, tmpIndex, dbVars, procVars, workerVars>>

RemoveIndex(q) ==
  /\ rpc[q] = "remove_index"
  /\ \E tree \in Removals(index[rrepo[q]]) :
       index' = [index EXCEPT ![rrepo[q]] = tree]
  /\ RequestEnds(q)
  /\ UNCHANGED <<checkout, tmpCheckout, tmpIndex, dbVars, procVars, workerVars>>

RequestStep(q) ==
  \/ StartCheck(q) \/ StartCommit(q) \/ StartRollback(q)
  \/ Enqueue(q) \/ EnqueueRaises(q) \/ RecordEnqueueFailure(q)
  \/ DeleteCommit(q) \/ DeleteRollback(q)
  \/ RemoveCheckout(q) \/ RemoveIndex(q)

-----------------------------------------------------------------------------
(* Worker threads: RepositoryIndexer.run.                                  *)

WorkerEnds(w) ==
  /\ pc' = [pc EXCEPT ![w] = "idle"]
  /\ work' = [work EXCEPT ![w] = None]
  /\ tip' = [tip EXCEPT ![w] = None]
  /\ built' = [built EXCEPT ![w] = FALSE]

WorkerContinues(w, step) ==
  /\ pc' = [pc EXCEPT ![w] = step]
  /\ UNCHANGED <<work, tip, built>>

(* A thread takes the oldest item and _start marks the job running; a job  *)
(* that is gone or no longer queued is skipped.                            *)
TakeJob(w) ==
  LET j == Head(queue)
  IN /\ proc = "up"
     /\ pc[w] = "idle"
     /\ queue # <<>>
     /\ jobStatus[j] = "queued"
     /\ queue' = Tail(queue)
     /\ jobStatus' = [jobStatus EXCEPT ![j] = "running"]
     /\ status' = [status EXCEPT ![jobRepo[j]] = "cloning"]
     /\ pc' = [pc EXCEPT ![w] = "cloning"]
     /\ work' = [work EXCEPT ![w] = j]
     /\ UNCHANGED <<tip, built, proc, retrieval, commit, chunks, jobRepo,
                    diskVars, requestVars>>

SkipJob ==
  /\ proc = "up"
  /\ \E w \in Workers : pc[w] = "idle"
  /\ queue # <<>>
  /\ jobStatus[Head(queue)] # "queued" \/ DatabaseMayFail
  /\ queue' = Tail(queue)
  /\ UNCHANGED <<proc, retrieval, dbVars, diskVars, workerVars, requestVars>>

(* git starts to write into the temporary directory.                       *)
CloneBegins(w) ==
  /\ pc[w] = "cloning"
  /\ work[w] \notin tmpCheckout
  /\ tmpCheckout' = tmpCheckout \cup {work[w]}
  /\ UNCHANGED <<checkout, index, tmpIndex, dbVars, procVars, workerVars,
                 requestVars>>

(* _update: refused when the process is stopping or the job row is gone,   *)
(* otherwise job.stage and repository.status become the new stage.         *)
Update(w, stage) ==
  /\ ~Cancelled
  /\ JobExists(work[w])
  /\ status' = [status EXCEPT ![RepoOf(w)] = stage]
  /\ UNCHANGED <<commit, chunks, jobStatus, jobRepo>>

CloneEnds(w, c) ==
  /\ pc[w] = "cloning"
  /\ work[w] \in tmpCheckout
  /\ Update(w, "analyzing")
  /\ pc' = [pc EXCEPT ![w] = "analyzing"]
  /\ tip' = [tip EXCEPT ![w] = c]
  /\ UNCHANGED <<work, built, diskVars, procVars, requestVars>>

\* Mutant of StageAfter: the last stage announces the end of the run.
StageAfterTooEarly ==
  [analyzing |-> "indexing", indexing |-> "parsing", parsing |-> "completed"]

(* The order of the stages in run.                                         *)
StageAfter ==
  [analyzing |-> "indexing", indexing |-> "parsing", parsing |-> "embedding"]

StageEnds(w) ==
  /\ pc[w] \in {"analyzing", "indexing", "parsing"}
  /\ pc[w] = "parsing" => retrieval
  /\ Update(w, StageAfter[pc[w]])
  /\ WorkerContinues(w, StageAfter[pc[w]])
  /\ UNCHANGED <<diskVars, procVars, requestVars>>

(* _build_search_index returns None at once when retrieval is disabled.    *)
SkipSearchIndex(w) ==
  /\ pc[w] = "parsing"
  /\ ~retrieval
  /\ WorkerContinues(w, "remove_old_checkout")
  /\ UNCHANGED <<dbVars, diskVars, procVars, requestVars>>

(* build_retrieval_index creates its directory, fills it and returns; the  *)
(* local variable `retrieval` of run is set only by the return.            *)
BuildBegins(w) ==
  /\ pc[w] = "embedding"
  /\ work[w] \notin tmpIndex
  /\ tmpIndex' = tmpIndex \cup {work[w]}
  /\ UNCHANGED <<checkout, index, tmpCheckout, dbVars, procVars, workerVars,
                 requestVars>>

BuildEnds(w) ==
  /\ pc[w] = "embedding"
  /\ work[w] \in tmpIndex
  /\ pc' = [pc EXCEPT ![w] = "remove_old_checkout"]
  /\ built' = [built EXCEPT ![w] = TRUE]
  /\ UNCHANGED <<work, tip, dbVars, diskVars, procVars, requestVars>>

(* Any stage may raise: a git error or timeout, a limit, a cancelled or    *)
(* missing job, an I/O error, a defect in an analyzer.                     *)
StageRaises(w) ==
  /\ pc[w] \in PipelineStages
  /\ WorkerContinues(w, "discard")
  /\ UNCHANGED <<dbVars, diskVars, procVars, requestVars>>

(* storage.install: remove the previous checkout, rename the new one.      *)
RemoveOldCheckout(w) ==
  /\ pc[w] = "remove_old_checkout"
  /\ \E tree \in Removals(checkout[RepoOf(w)]) :
       /\ checkout' = [checkout EXCEPT ![RepoOf(w)] = tree]
       /\ WorkerContinues(w, IF tree = None THEN "place_checkout" ELSE "discard")
  /\ UNCHANGED <<index, tmpCheckout, tmpIndex, dbVars, procVars, requestVars>>

PlaceCheckout(w) ==
  /\ pc[w] = "place_checkout"
  /\ checkout[RepoOf(w)] = None
  /\ checkout' = [checkout EXCEPT ![RepoOf(w)] = tip[w]]
  /\ tmpCheckout' = tmpCheckout \ {work[w]}
  /\ WorkerContinues(w, IF built[w] THEN "remove_old_index" ELSE "complete")
  /\ UNCHANGED <<index, tmpIndex, dbVars, procVars, requestVars>>

(* _complete: _repository_id needs the job row, then index_store.install   *)
(* removes the previous index, ignoring errors, and renames the new one.   *)
RemoveOldIndex(w) ==
  /\ pc[w] = "remove_old_index"
  /\ JobExists(work[w])
  /\ \E tree \in Removals(index[RepoOf(w)]) :
       index' = [index EXCEPT ![RepoOf(w)] = tree]
  /\ WorkerContinues(w, "place_index")
  /\ UNCHANGED <<checkout, tmpCheckout, tmpIndex, dbVars, procVars, requestVars>>

PlaceIndex(w) ==
  /\ pc[w] = "place_index"
  /\ index[RepoOf(w)] = None
  /\ index' = [index EXCEPT ![RepoOf(w)] = tip[w]]
  /\ tmpIndex' = tmpIndex \ {work[w]}
  /\ WorkerContinues(w, "complete")
  /\ UNCHANGED <<checkout, tmpCheckout, dbVars, procVars, requestVars>>

\* Mutant of Complete: chunk rows are replaced only when an index was built.
CompleteKeepingChunks(w) ==
  LET r == RepoOf(w)
  IN /\ pc[w] = "complete"
     /\ JobExists(work[w])
     /\ commit' = [commit EXCEPT ![r] = tip[w]]
     /\ chunks' = [chunks EXCEPT ![r] = IF built[w] THEN tip[w] ELSE @]
     /\ status' = [status EXCEPT ![r] = "completed"]
     /\ jobStatus' = [jobStatus EXCEPT ![work[w]] = "succeeded"]
     /\ WorkerEnds(w)
     /\ UNCHANGED <<jobRepo, diskVars, procVars, requestVars>>

(* The closing transaction of _complete.                                   *)
Complete(w) ==
  LET r == RepoOf(w)
      j == work[w]
  IN /\ pc[w] = "complete"
     /\ JobExists(j)
     /\ commit' = [commit EXCEPT ![r] = tip[w]]
     /\ chunks' = [chunks EXCEPT ![r] = IF built[w] THEN tip[w] ELSE None]
     /\ status' = [status EXCEPT ![r] = "completed"]
     /\ jobStatus' = [jobStatus EXCEPT ![j] = "succeeded"]
     /\ WorkerEnds(w)
     /\ UNCHANGED <<jobRepo, diskVars, procVars, requestVars>>

(* What can raise once every stage has ended: a rename onto something that *)
(* is still there, a job row deleted meanwhile, the database.              *)
InstallRaises(w) ==
  /\ \/ /\ pc[w] = "place_checkout"
        /\ checkout[RepoOf(w)] # None \/ FilesystemMayFail
     \/ /\ pc[w] = "place_index"
        /\ index[RepoOf(w)] # None \/ FilesystemMayFail
     \/ /\ pc[w] \in {"remove_old_index", "complete"}
        /\ ~JobExists(work[w]) \/ DatabaseMayFail
  /\ WorkerContinues(w, "discard")
  /\ UNCHANGED <<dbVars, diskVars, procVars, requestVars>>

(* The except block deletes the temporary directories run knows about.     *)
Discard(w) ==
  /\ pc[w] = "discard"
  /\ tmpCheckout' \in {tmpCheckout \ {work[w]}} \cup
                      (IF FilesystemMayFail THEN {tmpCheckout} ELSE {})
  /\ tmpIndex' \in (IF built[w] THEN {tmpIndex \ {work[w]}} ELSE {tmpIndex}) \cup
                   (IF FilesystemMayFail THEN {tmpIndex} ELSE {})
  /\ WorkerContinues(w, "fail")
  /\ UNCHANGED <<checkout, index, dbVars, procVars, requestVars>>

(* _fail, which swallows its own exceptions.                               *)
RecordFailure(w) ==
  LET j == work[w]
  IN /\ pc[w] = "fail"
     /\ \/ /\ JobExists(j)
           /\ jobStatus' = [jobStatus EXCEPT ![j] = "failed"]
           /\ status' = [status EXCEPT ![jobRepo[j]] = "failed"]
        \/ /\ ~JobExists(j) \/ DatabaseMayFail
           /\ UNCHANGED <<jobStatus, status>>
     /\ WorkerEnds(w)
     /\ UNCHANGED <<commit, chunks, jobRepo, diskVars, procVars, requestVars>>

PipelineStep(w) ==
  \/ CloneBegins(w) \/ \E c \in Commits : CloneEnds(w, c)
  \/ StageEnds(w) \/ SkipSearchIndex(w) \/ BuildBegins(w) \/ BuildEnds(w)
  \/ StageRaises(w)
  \/ RemoveOldCheckout(w) \/ PlaceCheckout(w)
  \/ RemoveOldIndex(w) \/ PlaceIndex(w)
  \/ Complete(w) \/ InstallRaises(w) \/ Discard(w) \/ RecordFailure(w)

-----------------------------------------------------------------------------
(* The process: lifespan in main.py, and what kills it.                    *)

(* The server stops accepting requests and finishes the accepted ones      *)
(* before it runs the shutdown part of lifespan, which sets the cancel     *)
(* event and drops the jobs no thread has taken.  (A job taken between the *)
(* two is one taken just before: TakeJob does not look at the event.)      *)
Shutdown ==
  /\ proc = "up"
  /\ \A q \in Requests : rpc[q] = "idle"
  /\ proc' = "stopping"
  /\ queue' = <<>>
  /\ UNCHANGED <<retrieval, dbVars, diskVars, workerVars, requestVars>>

Exit ==
  /\ proc = "stopping"
  /\ \A w \in Workers : pc[w] = "idle"
  /\ proc' = "down"
  /\ UNCHANGED <<queue, retrieval, dbVars, diskVars, workerVars, requestVars>>

Crash ==
  /\ ProcessMayCrash
  /\ proc # "down"
  /\ proc' = "down"
  /\ queue' = <<>>
  /\ pc' = [w \in Workers |-> "idle"]
  /\ work' = [w \in Workers |-> None]
  /\ tip' = [w \in Workers |-> None]
  /\ built' = [w \in Workers |-> FALSE]
  /\ rpc' = [q \in Requests |-> "idle"]
  /\ rrepo' = [q \in Requests |-> None]
  /\ rjob' = [q \in Requests |-> None]
  /\ sawQueued' = [q \in Requests |-> FALSE]
  /\ UNCHANGED <<retrieval, dbVars, diskVars>>

\* Mutant of RecoverJobs: only the jobs that were running are recovered.
RecoverRunningJobs ==
  /\ proc = "down"
  /\ proc' = "recovering"
  /\ jobStatus' = [j \in Jobs |-> IF jobStatus[j] = "running" THEN "failed"
                                  ELSE jobStatus[j]]
  /\ status' = [r \in Repos |->
                  IF HasActiveJob(r) /\ status[r] \in ActiveStatuses
                  THEN "failed" ELSE status[r]]
  /\ retrieval' \in RetrievalSettings
  /\ UNCHANGED <<queue, commit, chunks, jobRepo, diskVars, workerVars,
                 requestVars>>

\* Mutant of RecoverJobs: the repositories keep the stage they showed.
RecoverJobsOnly ==
  /\ proc = "down"
  /\ proc' = "recovering"
  /\ jobStatus' = [j \in Jobs |-> IF Active(j) THEN "failed" ELSE jobStatus[j]]
  /\ retrieval' \in RetrievalSettings
  /\ UNCHANGED <<queue, status, commit, chunks, jobRepo, diskVars, workerVars,
                 requestVars>>

(* Startup: recover_interrupted_jobs fails every active job and every      *)
(* repository of one whose status is active, in one transaction.           *)
RecoverJobs ==
  /\ proc = "down"
  /\ proc' = "recovering"
  /\ jobStatus' = [j \in Jobs |-> IF Active(j) THEN "failed" ELSE jobStatus[j]]
  /\ status' = [r \in Repos |->
                  IF HasActiveJob(r) /\ status[r] \in ActiveStatuses
                  THEN "failed" ELSE status[r]]
  /\ retrieval' \in RetrievalSettings
  /\ UNCHANGED <<queue, commit, chunks, jobRepo, diskVars, workerVars,
                 requestVars>>

\* Mutant of ClearTemp: only the index store clears its temporary root.
ClearTempIndexes ==
  /\ proc = "recovering"
  /\ proc' = "up"
  /\ tmpIndex' = {}
  /\ UNCHANGED <<queue, retrieval, checkout, index, tmpCheckout, dbVars,
                 workerVars, requestVars>>

(* It then clears both temporary roots and the server starts to listen.    *)
(* An error in the first leaves the second alone, one in the second is     *)
(* ignored.                                                                *)
ClearTemp ==
  /\ proc = "recovering"
  /\ proc' = "up"
  /\ \/ tmpCheckout' = {} /\ tmpIndex' = {}
     \/ /\ FilesystemMayFail
        /\ tmpCheckout' \in SUBSET tmpCheckout
        /\ UNCHANGED tmpIndex
     \/ /\ FilesystemMayFail
        /\ tmpCheckout' = {}
        /\ tmpIndex' \in SUBSET tmpIndex
  /\ UNCHANGED <<queue, retrieval, checkout, index, dbVars, workerVars,
                 requestVars>>

(* lifespan swallows an exception of the recovery and serves anyway.       *)
RecoveryRaises ==
  /\ proc = "down"
  /\ DatabaseMayFail
  /\ proc' = "up"
  /\ retrieval' \in RetrievalSettings
  /\ UNCHANGED <<queue, dbVars, diskVars, workerVars, requestVars>>

-----------------------------------------------------------------------------
Next ==
  \/ \E r \in Repos : Register(r)
  \/ \E q \in Requests, r \in Repos, j \in Jobs : StartRead(q, r, j)
  \/ \E q \in Requests, r \in Repos : DeleteCheck(q, r)
  \/ \E q \in Requests : RequestStep(q)
  \/ \E w \in Workers : TakeJob(w) \/ PipelineStep(w)
  \/ SkipJob
  \/ Shutdown \/ Exit \/ Crash
  \/ RecoverJobs \/ ClearTemp \/ RecoveryRaises

Spec == Init /\ [][Next]_vars

(* A request the server accepted runs to its end, a thread that has a job  *)
(* keeps running (every git call and model call is bounded by a timeout),  *)
(* an idle thread takes a queued job, and the supervisor restarts a        *)
(* process that is down.  Clients, crashes and shutdowns owe nothing.      *)
Fairness ==
  /\ \A q \in Requests : WF_vars(RequestStep(q))
  /\ \A w \in Workers : WF_vars(PipelineStep(w))
  /\ WF_vars(SkipJob \/ \E w \in Workers : TakeJob(w))
  /\ WF_vars(Exit)
  /\ WF_vars(RecoverJobs)
  /\ WF_vars(ClearTemp)

FairSpec == Spec /\ Fairness

-----------------------------------------------------------------------------
(* Types.                                                                  *)

(* Every variable keeps its type: statuses are those of the enums or the   *)
(* absence of a row, locals are ids or None.                               *)
TypeOK ==
  /\ status \in [Repos -> RepositoryStatus \cup NoRow]
  /\ commit \in [Repos -> Commits \cup {None}]
  /\ chunks \in [Repos -> Commits \cup {None}]
  /\ jobStatus \in [Jobs -> JobStatus \cup NoRow]
  /\ jobRepo \in [Jobs -> Repos \cup {None}]
  /\ checkout \in [Repos -> Trees]
  /\ index \in [Repos -> Trees]
  /\ tmpCheckout \subseteq Jobs
  /\ tmpIndex \subseteq Jobs
  /\ queue \in Seq(Jobs)
  /\ proc \in {"up", "stopping", "down", "recovering"}
  /\ retrieval \in BOOLEAN
  /\ pc \in [Workers -> WorkerSteps]
  /\ work \in [Workers -> Jobs \cup {None}]
  /\ tip \in [Workers -> Commits \cup {None}]
  /\ built \in [Workers -> BOOLEAN]
  /\ rpc \in [Requests -> RequestSteps]
  /\ rrepo \in [Requests -> Repos \cup {None}]
  /\ rjob \in [Requests -> Jobs \cup {None}]
  /\ sawQueued \in [Requests -> BOOLEAN]

-----------------------------------------------------------------------------
(* Safety.                                                                 *)

Queued(j) == \E i \in 1..Len(queue) : queue[i] = j

(* The database holds at most one active job of a repository, but nothing  *)
(* on disk or in memory is locked: two pipelines of one repository would   *)
(* interleave their removals and renames in storage.install.  They never   *)
(* coexist, through re-indexing, deletion, shutdown and restart.           *)
OnePipelinePerRepository ==
  \A v, w \in Workers :
    v # w /\ pc[v] # "idle" /\ pc[w] # "idle" => RepoOf(v) # RepoOf(w)

(* What the UI polls is the truth: a repository shown as being indexed has *)
(* an active job, and while a thread is in a stage the repository shows    *)
(* that stage and the job is running.                                      *)
StatusFollowsPipeline ==
  /\ \A r \in Repos : status[r] \in ActiveStatuses => HasActiveJob(r)
  /\ \A w \in Workers :
       pc[w] \in PipelineStages /\ JobExists(work[w]) =>
         jobStatus[work[w]] = "running" /\ status[RepoOf(w)] = pc[w]

(* A repository shown as completed has on disk exactly what its row says:  *)
(* the checkout of commit_sha and, when it has chunk rows, the search      *)
(* index of the same commit, although directories and rows are changed by  *)
(* separate steps that can fail one by one.                                *)
CompletedServesItsCommit ==
  \A r \in Repos : status[r] = "completed" =>
    /\ commit[r] # None
    /\ checkout[r] = commit[r]
    /\ chunks[r] # None => chunks[r] = commit[r] /\ index[r] = commit[r]

(* A job that is queued or running always has someone who will finish it:  *)
(* the request that created it, the work queue, a thread, or the recovery  *)
(* of the next start.  Otherwise the repository could be neither indexed   *)
(* nor deleted: both answer 409 while a job is active.                     *)
NoLostJob ==
  \A j \in Jobs : Active(j) =>
    \/ \E q \in Requests : rpc[q] \in {"enqueue", "enqueue_failed"} /\ rjob[q] = j
    \/ Queued(j)
    \/ \E w \in Workers : pc[w] # "idle" /\ work[w] = j
    \/ proc \in {"stopping", "down"}

(* Temporary clones do not pile up: while the process serves, each one     *)
(* belongs to a thread that will rename or discard it.                     *)
TempCheckoutsHaveOwners ==
  proc \in {"up", "stopping"} =>
    \A j \in tmpCheckout : \E w \in Workers : work[w] = j

(* What the API promises, without the disk, the queue and the threads.     *)
Service == INSTANCE IndexingService WITH
  row    <- [r \in Repos |-> IF Registered(r) THEN "present" ELSE status[r]],
  run    <- [j \in Jobs |-> IF Active(j) THEN "active" ELSE jobStatus[j]],
  repoOf <- jobRepo,
  served <- commit

(* Every step of the pipeline, of a request or of a restart is a step of   *)
(* the abstract service or none: at most one run of a repository is open,  *)
(* its outcome is final, and the rows a reader sees change only when that  *)
(* very run succeeds or the repository is deleted.                         *)
ImplementsService == Service!Spec

(* Liveness: every run ends, whatever stage raises and however often the   *)
(* process is restarted, so a repository never stays locked.               *)
EveryJobEnds == \A j \in Jobs : Active(j) ~> ~Active(j)

-----------------------------------------------------------------------------
(* The inductive invariant behind the safety properties, part by part.     *)

Started(w) == pc[w] # "idle"

(* A process that does not serve has neither requests nor queued jobs, and *)
(* one that is down has no threads either.                                 *)
ProcessInv ==
  /\ proc # "up" => queue = <<>> /\ \A q \in Requests : rpc[q] = "idle"
  /\ proc \in {"down", "recovering"} => \A w \in Workers : ~Started(w)

(* Foreign key, cascade and partial unique index of indexing_jobs.         *)
RowInv ==
  /\ \A j \in Jobs : JobExists(j) => jobRepo[j] \in Repos /\ Registered(jobRepo[j])
  /\ \A j \in Jobs : jobStatus[j] = "deleted" =>
       jobRepo[j] \in Repos /\ status[jobRepo[j]] = "deleted"
  /\ \A i, j \in Jobs : Active(i) /\ Active(j) /\ jobRepo[i] = jobRepo[j] => i = j

(* A job is handed from a request to the queue to one thread: it is with   *)
(* one of them at a time, and what is queued or started was never failed.  *)
QueueInv ==
  /\ \A j \in Jobs : Queued(j) => jobStatus[j] \in {"queued", "deleted"}
  /\ \A i, k \in 1..Len(queue) : queue[i] = queue[k] => i = k

WorkInv ==
  \A w \in Workers : Started(w) =>
    /\ work[w] \in Jobs
    /\ jobStatus[work[w]] \in {"running", "deleted"}
    /\ ~Queued(work[w])

Starting(q)  == rpc[q] \in {"start_read", "start_checked"}
Enqueuing(q) == rpc[q] \in {"enqueue", "enqueue_failed"}
Removing(q)  == rpc[q] \in {"remove_checkout", "remove_index"}

RequestOK(q) ==
  /\ rpc[q] # "idle" => rrepo[q] \in Repos
  /\ ~Starting(q) /\ ~Enqueuing(q) => rjob[q] = None
  /\ Starting(q) => rjob[q] \in Jobs /\ jobStatus[rjob[q]] = "absent"
  /\ Enqueuing(q) =>
       /\ rjob[q] \in Jobs
       /\ jobRepo[rjob[q]] = rrepo[q]
       /\ jobStatus[rjob[q]] \in {"queued", "deleted"}
       /\ ~Queued(rjob[q])
       /\ \A w \in Workers : Started(w) => work[w] # rjob[q]
  /\ Removing(q) => status[rrepo[q]] = "deleted"

RequestInv ==
  /\ \A q \in Requests : RequestOK(q)
  /\ \A p, q \in Requests : rjob[q] # None /\ rjob[p] = rjob[q] => p = q

(* While a thread works for a repository that exists, its status is a      *)
(* stage of the pipeline, so neither completed nor failed.                 *)
StageInv ==
  \A w \in Workers : Started(w) /\ JobExists(work[w]) =>
    status[RepoOf(w)] \in PipelineStages

(* What the installation has put on disk when it reaches its transaction.  *)
InstallInv ==
  \A w \in Workers :
    /\ pc[w] \notin {"idle", "cloning", "discard", "fail"} => tip[w] \in Commits
    /\ /\ pc[w] \in {"remove_old_index", "place_index", "complete"}
       /\ JobExists(work[w])
       => checkout[RepoOf(w)] = tip[w]
    /\ pc[w] = "complete" /\ built[w] /\ JobExists(work[w]) =>
         index[RepoOf(w)] = tip[w]

IndInv ==
  /\ TypeOK /\ ProcessInv /\ RowInv
  /\ QueueInv /\ WorkInv /\ RequestInv
  /\ OnePipelinePerRepository /\ StatusFollowsPipeline
  /\ StageInv /\ InstallInv /\ CompletedServesItsCommit

-----------------------------------------------------------------------------
(* What the documentation says and the code does not keep.                 *)

(* docs/ingestion.md: if any stage fails, the previous successful index -  *)
(* checkout, search index, commit SHA, rows - is left untouched.           *)
FailedReindexKeepsIndex ==
  \A r \in Repos : status[r] = "failed" /\ commit[r] # None =>
    /\ checkout[r] = commit[r]
    /\ chunks[r] # None => index[r] = chunks[r]

(* docs/ingestion.md: all work happens in temporary directories, checkout  *)
(* and index alike; if any stage fails they are deleted.                   *)
FailureDeletesTemp ==
  \A j \in Jobs : jobStatus[j] = "failed" => j \notin tmpCheckout \cup tmpIndex

(* README.md: deleting removes the repository, its index and its checkout. *)
(* Once no request and no thread works on a deleted repository, nothing of *)
(* it is on disk.                                                          *)
DeletionLeavesNothing ==
  \A r \in Repos :
    /\ status[r] = "deleted"
    /\ \A q \in Requests : rrepo[q] # r
    /\ \A w \in Workers : work[w] # None => RepoOf(w) # r
    => checkout[r] = None /\ index[r] = None

(* docs/ingestion.md: a start commits the queued job together with         *)
(* repository.status = queued, which shows until a thread takes the job.   *)
QueuedJobShowsQueued ==
  \A j \in Jobs : jobStatus[j] = "queued" => status[jobRepo[j]] = "queued"

=============================================================================
