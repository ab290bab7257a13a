---------------------- MODULE RepositoryIndexingProofs ----------------------
(***************************************************************************)
(* Proofs about RepositoryIndexing, for any sets of repositories, jobs,    *)
(* commits, threads and requests and any faults.                           *)
(***************************************************************************)
EXTENDS RepositoryIndexing, TLAPS

-----------------------------------------------------------------------------
(* Type correctness.                                                       *)

(* The initial state is well typed.                                        *)
LEMMA InitTypeOK == Init => TypeOK
  BY ConstantsAreDistinct, SettingsAreBooleans
  DEF Init, TypeOK, NoRow, Trees, WorkerSteps, RequestSteps

(* A step of a request keeps the types.                                    *)
LEMMA RequestTypeOK ==
  ASSUME TypeOK, RequestInv,
         NEW q \in Requests, RequestStep(q)
  PROVE  TypeOK'
<1> USE DEF TypeOK, dbVars, diskVars, procVars, workerVars
<1>1. CASE StartCheck(q)
  BY <1>1 DEF StartCheck, RequestEnds, RequestContinues, RequestSteps
<1>2. CASE StartCommit(q)
  BY <1>2 DEF StartCommit, RequestInv, RequestOK, Starting, Enqueuing, RequestContinues, RequestSteps,
              RepositoryStatus, ActiveStatuses, JobStatus, ActiveJobStatuses
<1>3. CASE StartRollback(q)
  BY <1>3 DEF StartRollback, RequestEnds, RequestSteps
<1>4. CASE Enqueue(q)
  BY <1>4 DEF Enqueue, RequestInv, RequestOK, Starting, Enqueuing, RequestEnds, RequestSteps
<1>5. CASE EnqueueRaises(q)
  BY <1>5 DEF EnqueueRaises, RequestContinues, RequestSteps
<1>6. CASE RecordEnqueueFailure(q)
  BY <1>6 DEF RecordEnqueueFailure, RequestEnds, RequestSteps,
              RepositoryStatus, JobStatus
<1>7. CASE DeleteCommit(q)
  BY <1>7 DEF DeleteCommit, RequestContinues, RequestSteps, NoRow
<1>8. CASE DeleteRollback(q)
  BY <1>8 DEF DeleteRollback, RequestEnds, RequestSteps
<1>9. CASE RemoveCheckout(q)
  BY <1>9 DEF RemoveCheckout, Removals, Trees, RequestInv, RequestOK, Starting, Enqueuing, RequestContinues,
              RequestSteps
<1>10. CASE RemoveIndex(q)
  BY <1>10 DEF RemoveIndex, Removals, Trees, RequestInv, RequestOK, Starting, Enqueuing, RequestEnds, RequestSteps
<1> QED
  BY <1>1, <1>2, <1>3, <1>4, <1>5, <1>6, <1>7, <1>8, <1>9, <1>10 DEF RequestStep

(* A thread that has started a job knows an existing repository id.        *)
LEMMA WorkerHasRepository ==
  ASSUME TypeOK, RowInv, WorkInv, NEW w \in Workers, Started(w)
  PROVE  work[w] \in Jobs /\ RepoOf(w) \in Repos
BY DEF TypeOK, RowInv, WorkInv, RepoOf, JobExists, JobStatus, ActiveJobStatuses

(* A step of a worker thread keeps the types.                              *)
LEMMA WorkerTypeOK ==
  ASSUME TypeOK, RowInv, WorkInv, InstallInv,
         NEW w \in Workers, TakeJob(w) \/ PipelineStep(w)
  PROVE  TypeOK'
<1> USE DEF TypeOK, dbVars, diskVars, procVars, requestVars
<1>1. CASE TakeJob(w)
  <2>1. Head(queue) \in Jobs /\ Tail(queue) \in Seq(Jobs)
    BY <1>1 DEF TakeJob
  <2> QED
    BY <1>1, <2>1 DEF TakeJob, WorkerSteps, PipelineStages,
                      RepositoryStatus, ActiveStatuses, JobStatus,
                      ActiveJobStatuses
<1>2. CASE CloneBegins(w)
  BY <1>2 DEF CloneBegins, WorkInv, Started, workerVars
<1>3. ASSUME NEW c \in Commits, CloneEnds(w, c) PROVE TypeOK'
  BY <1>3 DEF CloneEnds, Update, WorkerSteps, PipelineStages,
              RepositoryStatus, ActiveStatuses
<1>4. CASE StageEnds(w)
  <2>1. StageAfter[pc[w]] \in PipelineStages
    BY <1>4 DEF StageEnds, StageAfter, PipelineStages
  <2> QED
    BY <1>4, <2>1 DEF StageEnds, Update, WorkerContinues, WorkerSteps,
                      RepositoryStatus, ActiveStatuses
<1>5. CASE SkipSearchIndex(w)
  BY <1>5 DEF SkipSearchIndex, WorkerContinues, WorkerSteps
<1>6. CASE BuildBegins(w)
  BY <1>6 DEF BuildBegins, WorkInv, Started, workerVars
<1>7. CASE BuildEnds(w)
  BY <1>7 DEF BuildEnds, WorkerSteps
<1>8. CASE StageRaises(w)
  BY <1>8 DEF StageRaises, WorkerContinues, WorkerSteps
<1>9. CASE RemoveOldCheckout(w)
  BY <1>9, WorkerHasRepository DEF RemoveOldCheckout, Started, Removals, Trees,
              WorkerContinues, WorkerSteps
<1>10. CASE PlaceCheckout(w)
  BY <1>10 DEF PlaceCheckout, InstallInv, Trees, WorkerContinues, WorkerSteps
<1>11. CASE RemoveOldIndex(w)
  BY <1>11, WorkerHasRepository DEF RemoveOldIndex, Started, Removals, Trees,
               WorkerContinues, WorkerSteps
<1>12. CASE PlaceIndex(w)
  BY <1>12 DEF PlaceIndex, InstallInv, Trees, WorkerContinues, WorkerSteps
<1>13. CASE Complete(w)
  BY <1>13 DEF Complete, InstallInv, WorkerEnds, WorkerSteps,
               RepositoryStatus, JobStatus
<1>14. CASE InstallRaises(w)
  BY <1>14 DEF InstallRaises, WorkerContinues, WorkerSteps
<1>15. CASE Discard(w)
  BY <1>15 DEF Discard, WorkerContinues, WorkerSteps
<1>16. CASE RecordFailure(w)
  BY <1>16 DEF RecordFailure, WorkerEnds, WorkerSteps, RepositoryStatus, JobStatus
<1> QED
  BY <1>1, <1>2, <1>3, <1>4, <1>5, <1>6, <1>7, <1>8, <1>9, <1>10, <1>11, <1>12,
     <1>13, <1>14, <1>15, <1>16 DEF PipelineStep

(* So does every step of the system.                                       *)
LEMMA StepTypeOK ==
  ASSUME TypeOK, RowInv, WorkInv, RequestInv, InstallInv, [Next]_vars
  PROVE  TypeOK'
<1> USE DEF TypeOK, dbVars, diskVars, procVars, workerVars, requestVars
<1>1. ASSUME NEW r \in Repos, Register(r) PROVE TypeOK'
  BY <1>1 DEF Register, RepositoryStatus
<1>2. ASSUME NEW q \in Requests, NEW r \in Repos, NEW j \in Jobs, StartRead(q, r, j)
      PROVE TypeOK'
  BY <1>2 DEF StartRead, RequestSteps
<1>3. ASSUME NEW q \in Requests, NEW r \in Repos, DeleteCheck(q, r) PROVE TypeOK'
  BY <1>3 DEF DeleteCheck, RequestSteps
<1>4. ASSUME NEW q \in Requests, RequestStep(q) PROVE TypeOK'
  BY <1>4, RequestTypeOK
<1>5. ASSUME NEW w \in Workers, TakeJob(w) \/ PipelineStep(w) PROVE TypeOK'
  BY <1>5, WorkerTypeOK
<1>6. CASE SkipJob
  BY <1>6 DEF SkipJob
<1>7. CASE Shutdown
  BY <1>7 DEF Shutdown
<1>8. CASE Exit
  BY <1>8 DEF Exit
<1>9. CASE Crash
  BY <1>9 DEF Crash, WorkerSteps, RequestSteps
<1>10. CASE RecoverJobs
  BY <1>10, SettingsAreBooleans DEF RecoverJobs, RepositoryStatus, JobStatus
<1>11. CASE ClearTemp
  BY <1>11 DEF ClearTemp
<1>12. CASE RecoveryRaises
  BY <1>12, SettingsAreBooleans DEF RecoveryRaises
<1>13. CASE UNCHANGED vars
  BY <1>13 DEF vars
<1> QED
  BY <1>1, <1>2, <1>3, <1>4, <1>5, <1>6, <1>7, <1>8, <1>9, <1>10, <1>11, <1>12,
     <1>13 DEF Next

-----------------------------------------------------------------------------
(* What the steps of requests and threads leave alone.                     *)

(* A request that takes a step leaves the threads and the process alone.   *)
LEMMA RequestFrame ==
  ASSUME NEW q \in Requests, RequestStep(q)
  PROVE  rpc[q] # "idle" /\ UNCHANGED <<proc, pc, work, tip, built>>
<1>1. RequestStep(q) => UNCHANGED <<proc, pc, work, tip, built>>
  BY DEF RequestStep, StartCheck, StartCommit, StartRollback, Enqueue,
         EnqueueRaises, RecordEnqueueFailure, DeleteCommit, DeleteRollback,
         RemoveCheckout, RemoveIndex, procVars, workerVars
<1>2. RequestStep(q) => rpc[q] # "idle"
  BY DEF RequestStep, StartCheck, StartCommit, StartRollback, Enqueue,
         EnqueueRaises, RecordEnqueueFailure, DeleteCommit, DeleteRollback,
         RemoveCheckout, RemoveIndex
<1> QED
  BY <1>1, <1>2

(* A thread in the pipeline keeps its job until it ends, and leaves the    *)
(* requests, the queue and the other threads alone.                        *)
LEMMA PipelineFrame ==
  ASSUME TypeOK, NEW w \in Workers, PipelineStep(w)
  PROVE  /\ Started(w)
         /\ UNCHANGED <<queue, proc, jobRepo, requestVars>>
         /\ \A v \in Workers \ {w} :
              /\ pc'[v] = pc[v] /\ work'[v] = work[v]
              /\ tip'[v] = tip[v] /\ built'[v] = built[v]
         /\ Started(w)' => work'[w] = work[w]
<1> USE DEF Started, TypeOK
<1>1. ASSUME NEW c \in Commits, CloneEnds(w, c)
      PROVE  /\ Started(w)
             /\ UNCHANGED <<queue, proc, jobRepo, requestVars>>
             /\ \A v \in Workers \ {w} :
                  /\ pc'[v] = pc[v] /\ work'[v] = work[v]
                  /\ tip'[v] = tip[v] /\ built'[v] = built[v]
             /\ Started(w)' => work'[w] = work[w]
  BY <1>1 DEF CloneEnds, Update, procVars, dbVars
<1>2. CASE CloneBegins(w) \/ BuildBegins(w)
  BY <1>2 DEF CloneBegins, BuildBegins, procVars, dbVars, workerVars
<1>3. CASE StageEnds(w) \/ SkipSearchIndex(w) \/ StageRaises(w)
  BY <1>3 DEF StageEnds, SkipSearchIndex, StageRaises, WorkerContinues, Update,
              PipelineStages, procVars, dbVars
<1>4. CASE BuildEnds(w)
  BY <1>4 DEF BuildEnds, procVars, dbVars
<1>5. CASE RemoveOldCheckout(w) \/ PlaceCheckout(w) \/ RemoveOldIndex(w)
  BY <1>5 DEF RemoveOldCheckout, PlaceCheckout, RemoveOldIndex,
              WorkerContinues, procVars, dbVars
<1>6. CASE PlaceIndex(w) \/ InstallRaises(w) \/ Discard(w)
  BY <1>6 DEF PlaceIndex, InstallRaises, Discard, WorkerContinues, procVars, dbVars
<1>7. CASE Complete(w) \/ RecordFailure(w)
  BY <1>7 DEF Complete, RecordFailure, WorkerEnds, procVars
<1> QED
  BY <1>1, <1>2, <1>3, <1>4, <1>5, <1>6, <1>7 DEF PipelineStep

(* A thread takes the oldest queued job and nothing else.                  *)
LEMMA TakeJobFrame ==
  ASSUME TypeOK, NEW w \in Workers, TakeJob(w)
  PROVE  /\ ~Started(w) /\ Started(w)'
         /\ proc = "up"
         /\ UNCHANGED <<proc, jobRepo, requestVars>>
         /\ Head(queue) \in Jobs /\ queue' = Tail(queue)
         /\ jobStatus[Head(queue)] = "queued"
         /\ jobStatus' = [jobStatus EXCEPT ![Head(queue)] = "running"]
         /\ status' = [status EXCEPT ![jobRepo[Head(queue)]] = "cloning"]
         /\ pc' = [pc EXCEPT ![w] = "cloning"]
         /\ work' = [work EXCEPT ![w] = Head(queue)]
         /\ work'[w] = Head(queue) /\ pc'[w] = "cloning"
         /\ tip' = tip /\ built' = built
         /\ \A v \in Workers \ {w} : pc'[v] = pc[v] /\ work'[v] = work[v]
BY DEF TypeOK, TakeJob, Started

-----------------------------------------------------------------------------
(* The process serves, stops or is down together with its threads.         *)
LEMMA StepProcessInv ==
  ASSUME TypeOK, ProcessInv, [Next]_vars
  PROVE  ProcessInv'
<1> USE DEF ProcessInv
<1>1. ASSUME NEW r \in Repos, Register(r) PROVE ProcessInv'
  BY <1>1 DEF Register, procVars, workerVars, requestVars, Started
<1>2. ASSUME NEW q \in Requests, NEW r \in Repos, NEW j \in Jobs, StartRead(q, r, j)
      PROVE ProcessInv'
  BY <1>2 DEF StartRead, procVars, workerVars, Started
<1>3. ASSUME NEW q \in Requests, NEW r \in Repos, DeleteCheck(q, r) PROVE ProcessInv'
  BY <1>3 DEF DeleteCheck, procVars, workerVars, Started
<1>4. ASSUME NEW q \in Requests, RequestStep(q) PROVE ProcessInv'
  BY <1>4, RequestFrame
<1>5. ASSUME NEW w \in Workers, TakeJob(w) PROVE ProcessInv'
  BY <1>5, TakeJobFrame
<1>6. ASSUME NEW w \in Workers, PipelineStep(w) PROVE ProcessInv'
  BY <1>6, PipelineFrame DEF requestVars
<1>7. CASE SkipJob
  BY <1>7 DEF SkipJob, workerVars, requestVars, Started
<1>8. CASE Shutdown
  BY <1>8 DEF Shutdown, workerVars, requestVars, Started
<1>9. CASE Exit
  BY <1>9 DEF Exit, workerVars, requestVars, Started
<1>10. CASE Crash
  BY <1>10 DEF Crash, Started
<1>11. CASE RecoverJobs
  BY <1>11 DEF RecoverJobs, workerVars, requestVars, Started
<1>12. CASE ClearTemp \/ RecoveryRaises
  BY <1>12 DEF ClearTemp, RecoveryRaises
<1>13. CASE UNCHANGED vars
  BY <1>13 DEF vars, procVars, workerVars, requestVars, Started
<1> QED
  BY <1>1, <1>2, <1>3, <1>4, <1>5, <1>6, <1>7, <1>8, <1>9, <1>10, <1>11, <1>12,
     <1>13 DEF Next

-----------------------------------------------------------------------------
(* What a step of the pipeline does to the rows.                           *)

(* A thread writes only the rows of its own job and repository, only while *)
(* the job exists, and ends the job only as the last thing it does.        *)
LEMMA PipelineRows ==
  ASSUME TypeOK, RowInv, WorkInv, NEW w \in Workers, PipelineStep(w)
  PROVE  /\ work[w] \in Jobs /\ RepoOf(w) \in Repos
         /\ jobRepo' = jobRepo
         /\ \A j \in Jobs : j # work[w] => jobStatus'[j] = jobStatus[j]
         /\ \A r \in Repos : r # RepoOf(w) => status'[r] = status[r]
         /\ \/ jobStatus'[work[w]] = jobStatus[work[w]]
            \/ /\ JobExists(work[w])
               /\ jobStatus'[work[w]] \in {"succeeded", "failed"}
               /\ ~Started(w)'
         /\ \/ status'[RepoOf(w)] = status[RepoOf(w)]
            \/ JobExists(work[w]) /\ status'[RepoOf(w)] \in RepositoryStatus
<1> DEFINE Goal ==
         /\ jobRepo' = jobRepo
         /\ \A j \in Jobs : j # work[w] => jobStatus'[j] = jobStatus[j]
         /\ \A r \in Repos : r # RepoOf(w) => status'[r] = status[r]
         /\ \/ jobStatus'[work[w]] = jobStatus[work[w]]
            \/ /\ JobExists(work[w])
               /\ jobStatus'[work[w]] \in {"succeeded", "failed"}
               /\ ~Started(w)'
         /\ \/ status'[RepoOf(w)] = status[RepoOf(w)]
            \/ JobExists(work[w]) /\ status'[RepoOf(w)] \in RepositoryStatus
<1>0. work[w] \in Jobs /\ RepoOf(w) \in Repos
  BY PipelineFrame, WorkerHasRepository
<1>1. ASSUME NEW c \in Commits, CloneEnds(w, c) PROVE Goal
  BY <1>0, <1>1 DEF CloneEnds, Update, RepositoryStatus, ActiveStatuses,
                    PipelineStages, TypeOK
<1>2. CASE StageEnds(w)
  <2>1. StageAfter[pc[w]] \in PipelineStages
    BY <1>2 DEF StageEnds, StageAfter, PipelineStages
  <2> QED
    BY <1>0, <1>2, <2>1 DEF StageEnds, Update, RepositoryStatus,
                            ActiveStatuses, TypeOK
<1>3. CASE UNCHANGED dbVars
  BY <1>0, <1>3 DEF dbVars
<1>4. CASE Complete(w)
  <2>1. /\ JobExists(work[w])
        /\ jobRepo' = jobRepo
        /\ status' = [status EXCEPT ![RepoOf(w)] = "completed"]
        /\ jobStatus' = [jobStatus EXCEPT ![work[w]] = "succeeded"]
        /\ pc' = [pc EXCEPT ![w] = "idle"]
    BY <1>4 DEF Complete, WorkerEnds
  <2> QED
    BY <1>0, <2>1 DEF Started, RepositoryStatus, TypeOK
<1>5. CASE RecordFailure(w)
  BY <1>0, <1>5 DEF RecordFailure, RepoOf, WorkerEnds, Started,
                    RepositoryStatus, TypeOK
<1>6. CASE CloneBegins(w) \/ BuildBegins(w) \/ BuildEnds(w) \/ StageRaises(w)
  BY <1>3, <1>6 DEF CloneBegins, BuildBegins, BuildEnds, StageRaises
<1>7. CASE SkipSearchIndex(w) \/ InstallRaises(w) \/ Discard(w)
  BY <1>3, <1>7 DEF SkipSearchIndex, InstallRaises, Discard
<1>8. CASE RemoveOldCheckout(w) \/ PlaceCheckout(w) \/ RemoveOldIndex(w) \/ PlaceIndex(w)
  BY <1>3, <1>8 DEF RemoveOldCheckout, PlaceCheckout, RemoveOldIndex, PlaceIndex
<1>9. Goal
  BY <1>1, <1>2, <1>4, <1>5, <1>6, <1>7, <1>8 DEF PipelineStep
<1> QED
  BY <1>0, <1>9

-----------------------------------------------------------------------------
(* The constraints of the database.                                        *)

(* What keeps the constraints: no row appears, none is revived, and what   *)
(* is deleted stays deleted.                                               *)
RowsKept ==
  /\ jobRepo' = jobRepo
  /\ \A r \in Repos : Registered(r) => Registered(r)'
  /\ \A r \in Repos : status[r] = "deleted" => status'[r] = "deleted"
  /\ \A j \in Jobs : JobExists(j)' => JobExists(j)
  /\ \A j \in Jobs : Active(j)' => Active(j)
  /\ \A j \in Jobs : jobStatus'[j] = "deleted" => jobStatus[j] = "deleted"

(* Such a step keeps them.                                                 *)
LEMMA RowFrame ==
  ASSUME TypeOK, RowInv, RowsKept
  PROVE  RowInv'
BY DEF TypeOK, RowInv, RowsKept

(* Every step keeps the constraints.                                       *)
LEMMA StepRowInv ==
  ASSUME TypeOK, RowInv, WorkInv, RequestInv, QueueInv, [Next]_vars
  PROVE  RowInv'
<1>1. CASE UNCHANGED dbVars
  BY <1>1, RowFrame DEF RowsKept, dbVars, Registered, JobExists, Active
<1>2. ASSUME NEW r \in Repos, Register(r) PROVE RowInv'
  BY <1>2, RowFrame DEF Register, RowsKept, Registered, JobExists, Active,
                        RepositoryStatus, TypeOK
<1>3. ASSUME NEW q \in Requests, StartCommit(q) PROVE RowInv'
  <2>1. rrepo[q] \in Repos /\ rjob[q] \in Jobs /\ jobStatus[rjob[q]] = "absent"
    BY <1>3 DEF StartCommit, RequestInv, RequestOK, Starting
  <2>2. status' = status \/ status' = [status EXCEPT ![rrepo[q]] = "queued"]
    BY <1>3 DEF StartCommit
  <2>3. status[rrepo[q]] \in RepositoryStatus /\ status'[rrepo[q]] \in RepositoryStatus
    BY <1>3, <2>1, <2>2 DEF StartCommit, Registered, RepositoryStatus, ActiveStatuses, TypeOK
  <2>4. \A r \in Repos : r # rrepo[q] => status'[r] = status[r]
    BY <2>1, <2>2 DEF TypeOK
  <2>7. "deleted" \notin RepositoryStatus
    BY DEF RepositoryStatus, ActiveStatuses, PipelineStages
  <2>5. /\ jobStatus'[rjob[q]] = "queued" /\ jobRepo'[rjob[q]] = rrepo[q]
        /\ \A j \in Jobs : j # rjob[q] =>
             jobStatus'[j] = jobStatus[j] /\ jobRepo'[j] = jobRepo[j]
    BY <1>3, <2>1 DEF StartCommit, TypeOK
  <2>6. \A j \in Jobs : Active(j) => jobRepo[j] # rrepo[q]
    BY <1>3 DEF StartCommit, HasActiveJob
  <2> QED
    BY <2>1, <2>3, <2>4, <2>5, <2>6, <2>7 DEF RowInv, JobExists, Active, Registered
<1>4. ASSUME NEW q \in Requests, RecordEnqueueFailure(q) PROVE RowInv'
  <2>1. /\ rrepo[q] \in Repos /\ rjob[q] \in Jobs
        /\ jobRepo[rjob[q]] = rrepo[q]
    BY <1>4 DEF RecordEnqueueFailure, RequestInv, RequestOK, Enqueuing
  <2>2. JobExists(rjob[q]) => status[rrepo[q]] # "deleted"
    BY <2>1 DEF RowInv, Registered, RepositoryStatus, ActiveStatuses, PipelineStages
  <2> QED
    BY <1>4, <2>1, <2>2, RowFrame
    DEF RecordEnqueueFailure, RowsKept, Registered, JobExists, Active,
        JobStatus, ActiveJobStatuses, RepositoryStatus, TypeOK
<1>5. ASSUME NEW q \in Requests, DeleteCommit(q) PROVE RowInv'
  <2>1. rrepo[q] \in Repos
    BY <1>5 DEF DeleteCommit, RequestInv, RequestOK
  <2>2. /\ status'[rrepo[q]] = "deleted" /\ jobRepo' = jobRepo
        /\ \A r \in Repos : r # rrepo[q] => status'[r] = status[r]
        /\ \A j \in Jobs : IF JobExists(j) /\ jobRepo[j] = rrepo[q]
                           THEN jobStatus'[j] = "deleted"
                           ELSE jobStatus'[j] = jobStatus[j]
    BY <1>5, <2>1 DEF DeleteCommit, TypeOK
  <2>3. \A j \in Jobs : JobExists(j)' =>
          JobExists(j) /\ jobRepo[j] # rrepo[q] /\ jobStatus'[j] = jobStatus[j]
    BY <2>2 DEF JobExists, JobStatus, ActiveJobStatuses
  <2>4. \A j \in Jobs : Active(j)' => Active(j)
    BY <2>2 DEF Active, ActiveJobStatuses
  <2> QED
    BY <2>1, <2>2, <2>3, <2>4 DEF RowInv, Registered
<1>6. ASSUME NEW w \in Workers, TakeJob(w) PROVE RowInv'
  <2>1. Head(queue) \in Jobs /\ jobStatus[Head(queue)] = "queued"
    BY <1>6, TakeJobFrame
  <2>2. jobRepo[Head(queue)] \in Repos /\ status[jobRepo[Head(queue)]] \in RepositoryStatus
    BY <2>1 DEF RowInv, Registered, JobExists, JobStatus, ActiveJobStatuses
  <2> QED
    BY <1>6, <2>1, <2>2, TakeJobFrame, RowFrame
    DEF RowsKept, Registered, JobExists, Active,
        JobStatus, ActiveJobStatuses, RepositoryStatus, ActiveStatuses,
        PipelineStages, TypeOK
<1>7. ASSUME NEW w \in Workers, PipelineStep(w) PROVE RowInv'
  <2>1. work[w] \in Jobs /\ RepoOf(w) \in Repos
    BY <1>7, PipelineRows
  <2>2. JobExists(work[w]) => status[RepoOf(w)] \in RepositoryStatus
    BY <2>1 DEF RowInv, RepoOf, Registered
  <2>3. "deleted" \notin RepositoryStatus
    BY DEF RepositoryStatus, ActiveStatuses, PipelineStages
  <2>0. /\ jobRepo' = jobRepo
        /\ \A j \in Jobs : j # work[w] => jobStatus'[j] = jobStatus[j]
        /\ \A r \in Repos : r # RepoOf(w) => status'[r] = status[r]
    BY <1>7, PipelineRows
  <2>4. \A j \in Jobs :
          \/ jobStatus'[j] = jobStatus[j]
          \/ JobExists(j) /\ jobStatus'[j] \in {"succeeded", "failed"}
    BY <1>7, <2>0, PipelineRows
  <2>5. \A r \in Repos :
          \/ status'[r] = status[r]
          \/ status[r] \in RepositoryStatus /\ status'[r] \in RepositoryStatus
    <3>1. \/ status'[RepoOf(w)] = status[RepoOf(w)]
          \/ JobExists(work[w]) /\ status'[RepoOf(w)] \in RepositoryStatus
      BY <1>7, PipelineRows
    <3> QED
      BY <2>0, <2>1, <2>2, <3>1
  <2>6. RowsKept
    BY <2>0, <2>3, <2>4, <2>5
    DEF RowsKept, Registered, JobExists, Active, JobStatus, ActiveJobStatuses
  <2> QED
    BY <2>6, RowFrame
<1>8. CASE RecoverJobs
  BY <1>8, RowFrame DEF RecoverJobs, RowsKept, Registered, JobExists, Active,
        JobStatus, ActiveJobStatuses, RepositoryStatus, ActiveStatuses,
        PipelineStages, TypeOK
<1>9. ASSUME NEW q \in Requests, RequestStep(q) PROVE RowInv'
  <2>1. \/ StartCommit(q) \/ RecordEnqueueFailure(q) \/ DeleteCommit(q)
        \/ UNCHANGED dbVars
    BY <1>9 DEF RequestStep, StartCheck, StartRollback, Enqueue, EnqueueRaises,
                DeleteRollback, RemoveCheckout, RemoveIndex
  <2> QED
    BY <2>1, <1>1, <1>3, <1>4, <1>5
<1>10. CASE \E q \in Requests, r \in Repos :
              DeleteCheck(q, r) \/ \E j \in Jobs : StartRead(q, r, j)
  BY <1>10, <1>1 DEF DeleteCheck, StartRead
<1>11. CASE SkipJob \/ Shutdown \/ Exit \/ Crash \/ ClearTemp \/ RecoveryRaises
  BY <1>11, <1>1 DEF SkipJob, Shutdown, Exit, Crash, ClearTemp, RecoveryRaises
<1>12. CASE UNCHANGED vars
  BY <1>12, <1>1 DEF vars
<1> QED
  BY <1>2, <1>6, <1>7, <1>8, <1>9, <1>10, <1>11, <1>12 DEF Next

-----------------------------------------------------------------------------
(* The work queue.                                                         *)

(* After an Append the queue holds what it held and the new job.           *)
LEMMA QueuedAfterAppend ==
  ASSUME queue \in Seq(Jobs), NEW k \in Jobs, queue' = Append(queue, k)
  PROVE  \A j \in Jobs : Queued(j)' <=> Queued(j) \/ j = k
<1>1. /\ Len(queue) \in Nat /\ Len(queue') = Len(queue) + 1
      /\ queue'[Len(queue) + 1] = k
      /\ \A i \in 1..Len(queue) : queue'[i] = queue[i]
  OBVIOUS
<1> QED
  BY <1>1 DEF Queued

(* After a Tail it holds what it held without the first one, because no    *)
(* job is in it twice.                                                     *)
LEMMA QueuedAfterTail ==
  ASSUME queue \in Seq(Jobs), queue # <<>>, QueueInv, queue' = Tail(queue)
  PROVE  /\ Head(queue) \in Jobs /\ Queued(Head(queue))
         /\ \A j \in Jobs : Queued(j)' => Queued(j) /\ j # Head(queue)
         /\ \A i, k \in 1..Len(queue') : queue'[i] = queue'[k] => i = k
<1>1. /\ Len(queue) \in Nat \ {0} /\ Len(queue') = Len(queue) - 1
      /\ Head(queue) = queue[1] /\ Head(queue) \in Jobs
      /\ \A i \in 1..Len(queue') : queue'[i] = queue[i + 1]
  OBVIOUS
<1>2. \A i, k \in 1..Len(queue) : queue[i] = queue[k] => i = k
  BY DEF QueueInv
<1>3. Queued(Head(queue))
  BY <1>1 DEF Queued
<1>4. \A j \in Jobs : Queued(j)' => Queued(j) /\ j # Head(queue)
  <2>1. \A i \in 1..Len(queue') : queue'[i] # queue[1]
    BY <1>1, <1>2
  <2> QED
    BY <1>1, <2>1 DEF Queued
<1>5. \A i, k \in 1..Len(queue') : queue'[i] = queue'[k] => i = k
  BY <1>1, <1>2
<1> QED
  BY <1>1, <1>3, <1>4, <1>5

(* A step that leaves the queue alone keeps its invariant when the rows of *)
(* the queued jobs stay or are deleted.                                    *)
LEMMA QueueFrame ==
  ASSUME QueueInv, queue' = queue,
         \A j \in Jobs : Queued(j) => jobStatus'[j] \in {jobStatus[j], "deleted"}
  PROVE  QueueInv'
BY DEF QueueInv, Queued

(* Every step keeps the queue free of duplicates and of jobs that were     *)
(* started or failed.                                                      *)
LEMMA StepQueueInv ==
  ASSUME TypeOK, ProcessInv, RowInv, QueueInv, WorkInv, RequestInv, [Next]_vars
  PROVE  QueueInv'
<1>1. CASE UNCHANGED <<queue, jobStatus>>
  BY <1>1, QueueFrame
<1>2. CASE queue' = <<>>
  BY <1>2 DEF QueueInv, Queued
<1>3. ASSUME NEW q \in Requests, StartCommit(q) PROVE QueueInv'
  <2>1. rjob[q] \in Jobs /\ jobStatus[rjob[q]] = "absent"
    BY <1>3 DEF StartCommit, RequestInv, RequestOK, Starting
  <2>2. ~Queued(rjob[q])
    BY <2>1 DEF QueueInv
  <2> QED
    BY <1>3, <2>1, <2>2, QueueFrame DEF StartCommit, procVars, TypeOK
<1>4. ASSUME NEW q \in Requests, Enqueue(q) PROVE QueueInv'
  <2>1. /\ rjob[q] \in Jobs /\ ~Queued(rjob[q])
        /\ jobStatus[rjob[q]] \in {"queued", "deleted"}
    BY <1>4 DEF Enqueue, RequestInv, RequestOK, Enqueuing
  <2>2. queue' = Append(queue, rjob[q]) /\ jobStatus' = jobStatus /\ queue \in Seq(Jobs)
    BY <1>4 DEF Enqueue, dbVars, TypeOK
  <2>3. \A j \in Jobs : Queued(j)' => jobStatus'[j] \in {"queued", "deleted"}
    BY <2>1, <2>2, QueuedAfterAppend DEF QueueInv
  <2>4. \A i, k \in 1..Len(queue') : queue'[i] = queue'[k] => i = k
    <3>1. /\ Len(queue) \in Nat /\ Len(queue') = Len(queue) + 1
          /\ queue'[Len(queue) + 1] = rjob[q]
          /\ \A i \in 1..Len(queue) : queue'[i] = queue[i]
      BY <2>1, <2>2
    <3>2. \A i \in 1..Len(queue) : queue[i] # rjob[q]
      BY <2>1 DEF Queued
    <3> QED
      BY <3>1, <3>2 DEF QueueInv
  <2> QED
    BY <2>3, <2>4 DEF QueueInv
<1>5. ASSUME NEW q \in Requests, RecordEnqueueFailure(q) PROVE QueueInv'
  <2>1. rjob[q] \in Jobs /\ ~Queued(rjob[q])
    BY <1>5 DEF RecordEnqueueFailure, RequestInv, RequestOK, Enqueuing
  <2> QED
    BY <1>5, <2>1, QueueFrame DEF RecordEnqueueFailure, procVars, TypeOK
<1>6. ASSUME NEW q \in Requests, DeleteCommit(q) PROVE QueueInv'
  BY <1>6, QueueFrame DEF DeleteCommit, procVars
<1>7. ASSUME NEW q \in Requests, RequestStep(q) PROVE QueueInv'
  <2>1. \/ StartCommit(q) \/ RecordEnqueueFailure(q) \/ DeleteCommit(q) \/ Enqueue(q)
        \/ UNCHANGED <<queue, jobStatus>>
    BY <1>7 DEF RequestStep, StartCheck, StartRollback, EnqueueRaises,
                DeleteRollback, RemoveCheckout, RemoveIndex, dbVars, procVars
  <2> QED
    BY <2>1, <1>1, <1>3, <1>4, <1>5, <1>6
<1>8. ASSUME NEW w \in Workers, TakeJob(w) PROVE QueueInv'
  <2>1. queue \in Seq(Jobs) /\ queue # <<>> /\ queue' = Tail(queue)
    BY <1>8 DEF TakeJob, TypeOK
  <2>2. jobStatus' = [jobStatus EXCEPT ![Head(queue)] = "running"]
    BY <1>8, TakeJobFrame
  <2>3. \A j \in Jobs : Queued(j)' => j # Head(queue) /\ Queued(j)
    BY <2>1, QueuedAfterTail
  <2>4. \A j \in Jobs : Queued(j)' => jobStatus'[j] \in {"queued", "deleted"}
    BY <2>2, <2>3 DEF QueueInv, TypeOK
  <2> QED
    BY <2>1, <2>4, QueuedAfterTail DEF QueueInv
<1>9. ASSUME NEW w \in Workers, PipelineStep(w) PROVE QueueInv'
  <2>1. work[w] \in Jobs /\ ~Queued(work[w]) /\ queue' = queue
    BY <1>9, PipelineFrame DEF WorkInv
  <2>2. \A j \in Jobs : j # work[w] => jobStatus'[j] = jobStatus[j]
    BY <1>9, PipelineRows
  <2> QED
    BY <2>1, <2>2, QueueFrame
<1>10. CASE SkipJob
  <2>1. queue \in Seq(Jobs) /\ queue # <<>> /\ queue' = Tail(queue) /\ jobStatus' = jobStatus
    BY <1>10 DEF SkipJob, TypeOK, dbVars
  <2> QED
    BY <2>1, QueuedAfterTail DEF QueueInv
<1>11. CASE Shutdown \/ Crash
  BY <1>11, <1>2 DEF Shutdown, Crash
<1>12. CASE RecoverJobs
  BY <1>12, <1>2 DEF RecoverJobs, ProcessInv
<1>13. CASE Exit \/ ClearTemp \/ RecoveryRaises
  BY <1>13, <1>1 DEF Exit, ClearTemp, RecoveryRaises, dbVars
<1>14. CASE \E r \in Repos : Register(r) \/ \E q \in Requests :
              DeleteCheck(q, r) \/ \E j \in Jobs : StartRead(q, r, j)
  BY <1>14, <1>1 DEF Register, DeleteCheck, StartRead, dbVars, procVars
<1>15. CASE UNCHANGED vars
  BY <1>15, <1>1 DEF vars, dbVars, procVars
<1> QED
  BY <1>7, <1>8, <1>9, <1>10, <1>11, <1>12, <1>13, <1>14, <1>15 DEF Next

-----------------------------------------------------------------------------
(* The jobs of the threads.                                                *)

(* Every step keeps the job of a started thread running, or deleted, and   *)
(* out of the queue.                                                       *)
LEMMA StepWorkInv ==
  ASSUME TypeOK, ProcessInv, RowInv, QueueInv, WorkInv, RequestInv,
         OnePipelinePerRepository, [Next]_vars
  PROVE  WorkInv'
<1>1. CASE UNCHANGED <<queue, jobStatus, pc, work>>
  BY <1>1 DEF WorkInv, Started, Queued
<1>2. CASE \A w \in Workers : ~Started(w)'
  BY <1>2 DEF WorkInv
<1>3. ASSUME NEW q \in Requests, StartCommit(q) PROVE WorkInv'
  <2>1. rjob[q] \in Jobs /\ jobStatus[rjob[q]] = "absent"
    BY <1>3 DEF StartCommit, RequestInv, RequestOK, Starting
  <2>2. /\ jobStatus' = [jobStatus EXCEPT ![rjob[q]] = "queued"]
        /\ queue' = queue /\ pc' = pc /\ work' = work
    BY <1>3 DEF StartCommit, procVars, workerVars
  <2>3. \A w \in Workers : Started(w) => jobStatus'[work[w]] = jobStatus[work[w]]
    BY <2>1, <2>2 DEF WorkInv, TypeOK
  <2> QED
    BY <2>2, <2>3 DEF WorkInv, Started, Queued
<1>4. ASSUME NEW q \in Requests, Enqueue(q) PROVE WorkInv'
  <2>1. /\ rjob[q] \in Jobs
        /\ \A w \in Workers : Started(w) => work[w] # rjob[q]
    BY <1>4 DEF Enqueue, RequestInv, RequestOK, Enqueuing
  <2>2. /\ queue \in Seq(Jobs) /\ queue' = Append(queue, rjob[q])
        /\ jobStatus' = jobStatus /\ pc' = pc /\ work' = work
    BY <1>4 DEF Enqueue, dbVars, workerVars, TypeOK
  <2>3. \A j \in Jobs : Queued(j)' <=> Queued(j) \/ j = rjob[q]
    BY <2>1, <2>2, QueuedAfterAppend
  <2>5. \A w \in Workers : Started(w)' =>
          /\ work[w] \in Jobs /\ work[w] # rjob[q]
          /\ jobStatus[work[w]] \in {"running", "deleted"} /\ ~Queued(work[w])
    BY <2>1, <2>2 DEF WorkInv, Started
  <2> QED
    BY <2>2, <2>3, <2>5 DEF WorkInv
<1>5. ASSUME NEW q \in Requests, RecordEnqueueFailure(q) PROVE WorkInv'
  <2>1. /\ rjob[q] \in Jobs
        /\ \A w \in Workers : Started(w) => work[w] # rjob[q]
    BY <1>5 DEF RecordEnqueueFailure, RequestInv, RequestOK, Enqueuing
  <2>2. /\ \A j \in Jobs : j # rjob[q] => jobStatus'[j] = jobStatus[j]
        /\ queue' = queue /\ pc' = pc /\ work' = work
    BY <1>5, <2>1 DEF RecordEnqueueFailure, procVars, workerVars, TypeOK
  <2>3. \A w \in Workers : Started(w) => jobStatus'[work[w]] = jobStatus[work[w]]
    BY <2>1, <2>2 DEF WorkInv
  <2> QED
    BY <2>2, <2>3 DEF WorkInv, Started, Queued
<1>6. ASSUME NEW q \in Requests, DeleteCommit(q) PROVE WorkInv'
  <2>1. /\ \A j \in Jobs : jobStatus'[j] \in {jobStatus[j], "deleted"}
        /\ queue' = queue /\ pc' = pc /\ work' = work
    BY <1>6 DEF DeleteCommit, procVars, workerVars
  <2> QED
    BY <2>1 DEF WorkInv, Started, Queued
<1>7. ASSUME NEW q \in Requests, RequestStep(q) PROVE WorkInv'
  <2>1. \/ StartCommit(q) \/ RecordEnqueueFailure(q) \/ DeleteCommit(q) \/ Enqueue(q)
        \/ UNCHANGED <<queue, jobStatus, pc, work>>
    BY <1>7 DEF RequestStep, StartCheck, StartRollback, EnqueueRaises,
                DeleteRollback, RemoveCheckout, RemoveIndex, dbVars, procVars,
                workerVars
  <2> QED
    BY <2>1, <1>1, <1>3, <1>4, <1>5, <1>6
<1>8. ASSUME NEW w \in Workers, TakeJob(w) PROVE WorkInv'
  <2>1. queue \in Seq(Jobs) /\ queue # <<>> /\ queue' = Tail(queue)
    BY <1>8 DEF TakeJob, TypeOK
  <2>2. /\ Head(queue) \in Jobs /\ Queued(Head(queue))
        /\ \A j \in Jobs : Queued(j)' => Queued(j) /\ j # Head(queue)
    BY <2>1, QueuedAfterTail
  <2>3. /\ jobStatus'[Head(queue)] = "running"
        /\ \A j \in Jobs : j # Head(queue) => jobStatus'[j] = jobStatus[j]
        /\ work'[w] = Head(queue)
        /\ \A v \in Workers \ {w} : pc'[v] = pc[v] /\ work'[v] = work[v]
    BY <1>8, <2>2, TakeJobFrame DEF TypeOK
  <2>4. \A v \in Workers \ {w} : Started(v)' =>
          /\ work'[v] \in Jobs /\ work'[v] = work[v] /\ work[v] # Head(queue)
          /\ jobStatus[work[v]] \in {"running", "deleted"} /\ ~Queued(work[v])
    BY <2>2, <2>3 DEF WorkInv, Started
  <2>5. \A v \in Workers : Started(v)' =>
          /\ work'[v] \in Jobs
          /\ jobStatus'[work'[v]] \in {"running", "deleted"}
          /\ ~Queued(work[v])'
    BY <2>2, <2>3, <2>4
  <2> QED
    BY <2>5 DEF WorkInv
<1>9. ASSUME NEW w \in Workers, PipelineStep(w) PROVE WorkInv'
  <2>1. /\ Started(w) /\ queue' = queue
        /\ \A v \in Workers \ {w} : pc'[v] = pc[v] /\ work'[v] = work[v]
        /\ Started(w)' => work'[w] = work[w]
    BY <1>9, PipelineFrame
  <2>2. /\ \A j \in Jobs : j # work[w] => jobStatus'[j] = jobStatus[j]
        /\ Started(w)' => jobStatus'[work[w]] = jobStatus[work[w]]
    BY <1>9, PipelineRows
  <2>3. \A v \in Workers \ {w} : Started(v) => work[v] # work[w]
    BY <2>1 DEF OnePipelinePerRepository, RepoOf, Started
  <2>4. \A v \in Workers : Started(v)' =>
          /\ Started(v) /\ work'[v] = work[v]
          /\ jobStatus'[work[v]] = jobStatus[work[v]]
    BY <2>1, <2>2, <2>3 DEF WorkInv, Started
  <2> QED
    BY <2>1, <2>4 DEF WorkInv, Queued
<1>10. CASE SkipJob
  <2>1. /\ queue \in Seq(Jobs) /\ queue # <<>> /\ queue' = Tail(queue)
        /\ jobStatus' = jobStatus /\ pc' = pc /\ work' = work
    BY <1>10 DEF SkipJob, TypeOK, dbVars, workerVars
  <2>2. \A j \in Jobs : Queued(j)' => Queued(j)
    BY <2>1, QueuedAfterTail
  <2>3. \A w \in Workers : Started(w)' =>
          /\ work'[w] \in Jobs
          /\ jobStatus'[work'[w]] \in {"running", "deleted"}
          /\ ~Queued(work[w])'
    BY <2>1, <2>2 DEF WorkInv, Started
  <2> QED
    BY <2>3 DEF WorkInv
<1>11. CASE Crash
  BY <1>11, <1>2 DEF Crash, Started
<1>12. CASE RecoverJobs
  BY <1>12, <1>2 DEF RecoverJobs, ProcessInv, workerVars, Started
<1>13. CASE Shutdown
  BY <1>13 DEF Shutdown, dbVars, workerVars, WorkInv, Started, Queued
<1>14. CASE Exit \/ ClearTemp \/ RecoveryRaises
  BY <1>14, <1>1 DEF Exit, ClearTemp, RecoveryRaises, dbVars, workerVars
<1>15. CASE \E r \in Repos : Register(r) \/ \E q \in Requests :
              DeleteCheck(q, r) \/ \E j \in Jobs : StartRead(q, r, j)
  BY <1>15, <1>1 DEF Register, DeleteCheck, StartRead, dbVars, procVars, workerVars
<1>16. CASE UNCHANGED vars
  BY <1>16, <1>1 DEF vars, dbVars, procVars, workerVars
<1> QED
  BY <1>7, <1>8, <1>9, <1>10, <1>11, <1>12, <1>13, <1>14, <1>15, <1>16 DEF Next

-----------------------------------------------------------------------------
(* One pipeline per repository.                                            *)

(* The repository of a started thread never changes.                       *)
LEMMA RepoOfStarted ==
  ASSUME TypeOK, RowInv, WorkInv, RequestInv, [Next]_vars,
         NEW w \in Workers, Started(w)
  PROVE  jobRepo'[work[w]] = jobRepo[work[w]]
<1>1. work[w] \in Jobs /\ jobStatus[work[w]] # "absent"
  BY DEF WorkInv
<1>2. jobRepo' = jobRepo \/ \E q \in Requests : StartCommit(q)
  <2>1. ASSUME NEW q \in Requests, RequestStep(q)
        PROVE  jobRepo' = jobRepo \/ StartCommit(q)
    BY <2>1 DEF RequestStep, StartCheck, StartRollback, Enqueue, EnqueueRaises,
                RecordEnqueueFailure, DeleteCommit, DeleteRollback,
                RemoveCheckout, RemoveIndex, dbVars
  <2>2. ASSUME NEW v \in Workers, TakeJob(v) \/ PipelineStep(v) PROVE jobRepo' = jobRepo
    BY <2>2, TakeJobFrame, PipelineFrame
  <2>3. CASE SkipJob \/ Shutdown \/ Exit \/ Crash \/ RecoverJobs \/ ClearTemp \/ RecoveryRaises
    BY <2>3 DEF SkipJob, Shutdown, Exit, Crash, RecoverJobs, ClearTemp, RecoveryRaises, dbVars
  <2>4. CASE \E r \in Repos : Register(r) \/ \E q \in Requests :
               DeleteCheck(q, r) \/ \E j \in Jobs : StartRead(q, r, j)
    BY <2>4 DEF Register, DeleteCheck, StartRead, dbVars
  <2>5. CASE UNCHANGED vars
    BY <2>5 DEF vars, dbVars
  <2> QED
    BY <2>1, <2>2, <2>3, <2>4, <2>5 DEF Next
<1>3. ASSUME NEW q \in Requests, StartCommit(q) PROVE jobRepo'[work[w]] = jobRepo[work[w]]
  <2>1. rjob[q] \in Jobs /\ jobStatus[rjob[q]] = "absent"
    BY <1>3 DEF StartCommit, RequestInv, RequestOK, Starting
  <2> QED
    BY <1>1, <1>3, <2>1 DEF StartCommit, TypeOK
<1> QED
  BY <1>2, <1>3

(* The threads move on only by taking a job, by a step of the pipeline, or *)
(* all together in a crash.                                                *)
LEMMA ThreadsMove ==
  ASSUME [Next]_vars
  PROVE  \/ \E w \in Workers : TakeJob(w) \/ PipelineStep(w)
         \/ Crash
         \/ UNCHANGED workerVars
<1>1. ASSUME NEW q \in Requests, RequestStep(q) PROVE UNCHANGED workerVars
  BY <1>1, RequestFrame DEF workerVars
<1>2. CASE SkipJob \/ Shutdown \/ Exit \/ RecoverJobs \/ ClearTemp \/ RecoveryRaises
  BY <1>2 DEF SkipJob, Shutdown, Exit, RecoverJobs, ClearTemp, RecoveryRaises
<1>3. CASE \E r \in Repos : Register(r) \/ \E q \in Requests :
             DeleteCheck(q, r) \/ \E j \in Jobs : StartRead(q, r, j)
  BY <1>3 DEF Register, DeleteCheck, StartRead
<1>4. CASE UNCHANGED vars
  BY <1>4 DEF vars
<1> QED
  BY <1>1, <1>2, <1>3, <1>4 DEF Next

(* A job a thread takes belongs to a repository no thread works for: the   *)
(* partial unique index allows no other active job, and a deleted          *)
(* repository has no queued one.                                           *)
LEMMA TakenRepositoryIsFree ==
  ASSUME TypeOK, RowInv, QueueInv, WorkInv,
         NEW w \in Workers, TakeJob(w), NEW v \in Workers, Started(v)
  PROVE  jobRepo[Head(queue)] # RepoOf(v)
<1>1. Head(queue) \in Jobs /\ jobStatus[Head(queue)] = "queued"
  BY TakeJobFrame
<1>2. work[v] \in Jobs /\ jobStatus[work[v]] \in {"running", "deleted"}
  BY DEF WorkInv
<1>3. SUFFICES ASSUME jobRepo[Head(queue)] = jobRepo[work[v]] PROVE FALSE
  BY DEF RepoOf
<1>4. CASE jobStatus[work[v]] = "running"
  BY <1>1, <1>2, <1>3, <1>4 DEF RowInv, Active, ActiveJobStatuses
<1>5. CASE jobStatus[work[v]] = "deleted"
  <2>1. status[jobRepo[work[v]]] = "deleted"
    BY <1>2, <1>5 DEF RowInv
  <2>2. status[jobRepo[Head(queue)]] \in RepositoryStatus
    BY <1>1 DEF RowInv, JobExists, JobStatus, ActiveJobStatuses, Registered
  <2> QED
    BY <1>3, <2>1, <2>2 DEF RepositoryStatus, ActiveStatuses, PipelineStages
<1> QED
  BY <1>2, <1>4, <1>5

(* So no step lets two threads work for the same repository.               *)
LEMMA StepOnePipeline ==
  ASSUME TypeOK, RowInv, QueueInv, WorkInv, RequestInv,
         OnePipelinePerRepository, [Next]_vars
  PROVE  OnePipelinePerRepository'
<1>1. \A w \in Workers : Started(w) => jobRepo'[work[w]] = jobRepo[work[w]]
  BY RepoOfStarted
<1>2. CASE UNCHANGED workerVars
  BY <1>1, <1>2 DEF OnePipelinePerRepository, RepoOf, Started, workerVars
<1>3. CASE Crash
  BY <1>3 DEF Crash, OnePipelinePerRepository
<1>4. ASSUME NEW w \in Workers, PipelineStep(w) PROVE OnePipelinePerRepository'
  <2>1. \A v \in Workers : Started(v)' => Started(v) /\ work'[v] = work[v]
    BY <1>4, PipelineFrame DEF Started
  <2> QED
    BY <1>1, <2>1 DEF OnePipelinePerRepository, RepoOf, Started
<1>5. ASSUME NEW w \in Workers, TakeJob(w) PROVE OnePipelinePerRepository'
  <2>1. /\ jobRepo' = jobRepo /\ work'[w] = Head(queue)
        /\ \A v \in Workers \ {w} : pc'[v] = pc[v] /\ work'[v] = work[v]
    BY <1>5, TakeJobFrame
  <2>2. \A v \in Workers \ {w} : Started(v) => jobRepo'[work'[w]] # jobRepo'[work'[v]]
    BY <1>5, <2>1, TakenRepositoryIsFree DEF RepoOf
  <2>3. \A u, v \in Workers \ {w} :
          u # v /\ Started(u) /\ Started(v) => jobRepo'[work'[u]] # jobRepo'[work'[v]]
    BY <2>1 DEF OnePipelinePerRepository, RepoOf, Started
  <2> QED
    BY <2>1, <2>2, <2>3 DEF OnePipelinePerRepository, RepoOf, Started
<1> QED
  BY <1>2, <1>3, <1>4, <1>5, ThreadsMove

-----------------------------------------------------------------------------
(* The requests.                                                           *)

(* What a step must leave to a request that does not take it: the row of   *)
(* the job it is about to insert or has inserted, and the deletion it has  *)
(* made.                                                                   *)
KeptFor(q) ==
  /\ rpc'[q] = rpc[q] /\ rrepo'[q] = rrepo[q] /\ rjob'[q] = rjob[q]
  /\ Starting(q) => jobStatus'[rjob[q]] = jobStatus[rjob[q]]
  /\ Enqueuing(q) =>
       /\ jobRepo'[rjob[q]] = jobRepo[rjob[q]]
       /\ jobStatus'[rjob[q]] \in {jobStatus[rjob[q]], "deleted"}
       /\ Queued(rjob[q])' => Queued(rjob[q])
       /\ \A w \in Workers : Started(w)' /\ work'[w] = rjob[q] =>
                             Started(w) /\ work[w] = rjob[q]
  /\ Removing(q) => status'[rrepo[q]] = status[rrepo[q]]

(* It then stays as it was.                                                *)
LEMMA KeptRequestOK ==
  ASSUME NEW q \in Requests, RequestOK(q), KeptFor(q)
  PROVE  RequestOK(q)'
<1>1. (Starting(q)' <=> Starting(q)) /\ (Enqueuing(q)' <=> Enqueuing(q))
        /\ (Removing(q)' <=> Removing(q))
  BY DEF KeptFor, Starting, Enqueuing, Removing
<1>2. rjob'[q] = rjob[q] /\ rrepo'[q] = rrepo[q] /\ rpc'[q] = rpc[q]
  BY DEF KeptFor
<1>3. Queued(rjob[q])' <=> \E i \in 1..Len(queue') : queue'[i] = rjob[q]
  BY <1>2 DEF Queued
<1> QED
  BY <1>1, <1>2, <1>3 DEF RequestOK, KeptFor

(* A step of a request that only moves it on, or ends it.                  *)
LEMMA QuietRequestStep ==
  ASSUME TypeOK, RequestInv, NEW q \in Requests,
         UNCHANGED <<dbVars, queue, pc, work>>,
         RequestOK(q)', rjob'[q] \in {rjob[q], None},
         \A p \in Requests \ {q} :
           rpc'[p] = rpc[p] /\ rrepo'[p] = rrepo[p] /\ rjob'[p] = rjob[p]
  PROVE  RequestInv'
<1>1. \A p \in Requests \ {q} : KeptFor(p)
  BY DEF KeptFor, dbVars, Queued, Started
<1>2. \A p \in Requests : RequestOK(p)'
  BY <1>1, KeptRequestOK DEF RequestInv
<1> QED
  BY <1>2 DEF RequestInv

(* A step of a request keeps the bookkeeping of all requests.              *)
LEMMA RequestRequestInv ==
  ASSUME TypeOK, RowInv, QueueInv, WorkInv, RequestInv,
         NEW q \in Requests, RequestStep(q)
  PROVE  RequestInv'
<1>0. /\ RequestOK(q)
      /\ \A p \in Requests \ {q} : rjob[q] # None => rjob[p] # rjob[q]
  BY DEF RequestInv
<1> DEFINE Alone ==
      \A p \in Requests \ {q} :
        rpc'[p] = rpc[p] /\ rrepo'[p] = rrepo[p] /\ rjob'[p] = rjob[p]
<1>1. ASSUME UNCHANGED <<dbVars, queue, pc, work>>,
             \/ RequestEnds(q)
             \/ RequestContinues(q, "start_checked") /\ rpc[q] = "start_read"
             \/ RequestContinues(q, "enqueue_failed") /\ rpc[q] = "enqueue"
             \/ RequestContinues(q, "remove_index") /\ rpc[q] = "remove_checkout"
      PROVE  RequestInv'
  <2>1. Alone
    BY <1>1 DEF RequestEnds, RequestContinues, TypeOK
  <2>2. rjob'[q] \in {rjob[q], None}
    BY <1>1 DEF RequestEnds, RequestContinues, TypeOK
  <2>3. CASE RequestEnds(q)
    <3>1. rpc'[q] = "idle" /\ rjob'[q] = None
      BY <2>3 DEF RequestEnds, TypeOK
    <3> QED
      BY <1>1, <2>1, <2>2, <3>1, QuietRequestStep
      DEF RequestOK, Starting, Enqueuing, Removing
  <2>4. CASE ~RequestEnds(q)
    <3>1. /\ rrepo' = rrepo /\ rjob' = rjob
          /\ \/ rpc[q] = "start_read" /\ rpc'[q] = "start_checked"
             \/ rpc[q] = "enqueue" /\ rpc'[q] = "enqueue_failed"
             \/ rpc[q] = "remove_checkout" /\ rpc'[q] = "remove_index"
      BY <1>1, <2>4 DEF RequestContinues, TypeOK
    <3>2. RequestOK(q)'
      BY <1>0, <1>1, <3>1 DEF RequestOK, Starting, Enqueuing, Removing, dbVars,
                              Queued, Started
    <3> QED
      BY <1>1, <2>1, <2>2, <3>2, QuietRequestStep
  <2> QED
    BY <2>3, <2>4
<1>2. CASE StartCommit(q)
  <2>1. /\ rrepo[q] \in Repos /\ rjob[q] \in Jobs
        /\ jobStatus[rjob[q]] = "absent" /\ Registered(rrepo[q])
    BY <1>0, <1>2 DEF StartCommit, RequestOK, Starting
  <2>2. /\ rpc' = [rpc EXCEPT ![q] = "enqueue"] /\ rrepo' = rrepo /\ rjob' = rjob
        /\ queue' = queue /\ pc' = pc /\ work' = work
    BY <1>2 DEF StartCommit, RequestContinues, procVars, workerVars
  <2>3. /\ jobStatus'[rjob[q]] = "queued" /\ jobRepo'[rjob[q]] = rrepo[q]
        /\ \A j \in Jobs : j # rjob[q] =>
             jobStatus'[j] = jobStatus[j] /\ jobRepo'[j] = jobRepo[j]
    BY <1>2, <2>1 DEF StartCommit, TypeOK
  <2>4. \A r \in Repos : status[r] = "deleted" => status'[r] = "deleted"
    <3>1. status' = status \/ status' = [status EXCEPT ![rrepo[q]] = "queued"]
      BY <1>2 DEF StartCommit
    <3>2. status[rrepo[q]] # "deleted"
      BY <2>1 DEF Registered, RepositoryStatus, ActiveStatuses, PipelineStages
    <3> QED
      BY <2>1, <3>1, <3>2 DEF TypeOK
  <2>5. ~Queued(rjob[q]) /\ \A w \in Workers : Started(w) => work[w] # rjob[q]
    BY <2>1 DEF QueueInv, WorkInv
  <2>6. RequestOK(q)'
    <3>1. rpc'[q] = "enqueue"
      BY <2>2 DEF TypeOK
    <3> QED
      BY <2>1, <2>2, <2>3, <2>5, <3>1
      DEF RequestOK, Starting, Enqueuing, Removing, Queued, Started
  <2>7. ASSUME NEW p \in Requests \ {q} PROVE RequestOK(p)'
    <3>1. RequestOK(p) /\ rjob[p] # rjob[q]
      BY <1>0, <2>1, ConstantsAreDistinct DEF RequestInv
    <3>2. KeptFor(p)
      BY <2>2, <2>3, <2>4, <3>1
      DEF KeptFor, RequestOK, Starting, Enqueuing, Removing, Queued, Started, TypeOK
    <3> QED
      BY <3>1, <3>2, KeptRequestOK
  <2> QED
    BY <2>2, <2>6, <2>7 DEF RequestInv
<1>3. CASE Enqueue(q)
  <2>1. /\ rjob[q] \in Jobs /\ queue \in Seq(Jobs) /\ queue' = Append(queue, rjob[q])
        /\ UNCHANGED dbVars /\ pc' = pc /\ work' = work
    BY <1>0, <1>3 DEF Enqueue, RequestOK, Enqueuing, workerVars, TypeOK
  <2>2. /\ rpc'[q] = "idle" /\ rjob'[q] = None /\ Alone
    BY <1>3 DEF Enqueue, RequestEnds, TypeOK
  <2>3. RequestOK(q)'
    BY <2>2 DEF RequestOK, Starting, Enqueuing, Removing
  <2>4. ASSUME NEW p \in Requests \ {q} PROVE RequestOK(p)'
    <3>1. RequestOK(p) /\ rjob[p] # rjob[q]
      BY <1>0, <2>1, ConstantsAreDistinct DEF RequestInv
    <3>2. Enqueuing(p) => rjob[p] \in Jobs
      BY <3>1 DEF RequestOK
    <3>3. \A j \in Jobs : Queued(j)' <=> Queued(j) \/ j = rjob[q]
      BY <2>1, QueuedAfterAppend
    <3>4. rjob'[p] = rjob[p]
      BY <2>2
    <3>5. Enqueuing(p) => (Queued(rjob[p])' => Queued(rjob[p]))
      <4>1. SUFFICES ASSUME Enqueuing(p), NEW j \in Jobs, j = rjob[p], Queued(j)'
                     PROVE  Queued(j)
        BY <3>2, <3>4
      <4> QED
        BY <4>1, <3>1, <3>3
    <3>6. KeptFor(p)
      BY <2>1, <2>2, <3>5 DEF KeptFor, Started, dbVars
    <3> QED
      BY <3>1, <3>6, KeptRequestOK
  <2> QED
    BY <2>2, <2>3, <2>4 DEF RequestInv
<1>4. CASE RecordEnqueueFailure(q)
  <2>1. /\ rjob[q] \in Jobs /\ rrepo[q] \in Repos /\ jobRepo[rjob[q]] = rrepo[q]
    BY <1>0, <1>4 DEF RecordEnqueueFailure, RequestOK, Enqueuing
  <2>2. /\ queue' = queue /\ pc' = pc /\ work' = work /\ jobRepo' = jobRepo
        /\ rpc'[q] = "idle" /\ rjob'[q] = None /\ Alone
    BY <1>4 DEF RecordEnqueueFailure, RequestEnds, procVars, workerVars, TypeOK
  <2>3. \A j \in Jobs : j # rjob[q] => jobStatus'[j] = jobStatus[j]
    BY <1>4, <2>1 DEF RecordEnqueueFailure, TypeOK
  <2>4. \A r \in Repos : status[r] = "deleted" => status'[r] = "deleted"
    <3>1. CASE JobExists(rjob[q])
      <4>1. status[rrepo[q]] # "deleted"
        BY <2>1, <3>1 DEF RowInv, Registered, RepositoryStatus, ActiveStatuses,
                          PipelineStages
      <4> QED
        BY <1>4, <2>1, <4>1 DEF RecordEnqueueFailure, TypeOK
    <3>2. CASE ~JobExists(rjob[q])
      BY <1>4, <3>2 DEF RecordEnqueueFailure
    <3> QED
      BY <3>1, <3>2
  <2>5. RequestOK(q)'
    BY <2>2 DEF RequestOK, Starting, Enqueuing, Removing
  <2>6. ASSUME NEW p \in Requests \ {q} PROVE RequestOK(p)'
    <3>1. RequestOK(p) /\ rjob[p] # rjob[q]
      BY <1>0, <2>1, ConstantsAreDistinct DEF RequestInv
    <3>2. KeptFor(p)
      BY <2>2, <2>3, <2>4, <3>1
      DEF KeptFor, RequestOK, Starting, Enqueuing, Removing, Queued, Started
    <3> QED
      BY <3>1, <3>2, KeptRequestOK
  <2> QED
    BY <2>2, <2>5, <2>6 DEF RequestInv
<1>5. CASE DeleteCommit(q)
  <2>1. rrepo[q] \in Repos /\ rjob[q] = None /\ rpc'[q] = "remove_checkout"
        /\ status'[rrepo[q]] = "deleted"
    BY <1>0, <1>5 DEF DeleteCommit, RequestContinues, RequestOK, Starting,
                      Enqueuing, TypeOK
  <2>2. /\ queue' = queue /\ pc' = pc /\ work' = work /\ jobRepo' = jobRepo
        /\ rrepo' = rrepo /\ rjob' = rjob /\ Alone
    BY <1>5 DEF DeleteCommit, RequestContinues, procVars, workerVars, TypeOK
  <2>3. /\ \A j \in Jobs : jobStatus'[j] \in {jobStatus[j], "deleted"}
        /\ \A j \in Jobs : jobStatus[j] = "absent" => jobStatus'[j] = "absent"
    BY <1>5 DEF DeleteCommit, JobExists, JobStatus, ActiveJobStatuses
  <2>4. \A r \in Repos : status[r] = "deleted" => status'[r] = "deleted"
    BY <1>5 DEF DeleteCommit, TypeOK
  <2>5. RequestOK(q)'
    BY <2>1, <2>2 DEF RequestOK, Starting, Enqueuing, Removing
  <2>6. ASSUME NEW p \in Requests \ {q} PROVE RequestOK(p)'
    <3>1. RequestOK(p)
      BY DEF RequestInv
    <3>2. KeptFor(p)
      BY <2>2, <2>3, <2>4, <3>1
      DEF KeptFor, RequestOK, Starting, Enqueuing, Removing, Queued, Started
    <3> QED
      BY <3>1, <3>2, KeptRequestOK
  <2> QED
    BY <2>2, <2>5, <2>6 DEF RequestInv
<1>6. CASE \/ StartCheck(q) \/ StartRollback(q) \/ EnqueueRaises(q) \/ DeleteRollback(q)
           \/ RemoveCheckout(q) \/ RemoveIndex(q)
  BY <1>1, <1>6 DEF StartCheck, StartRollback, EnqueueRaises, DeleteRollback,
                    RemoveCheckout, RemoveIndex, dbVars, procVars, workerVars
<1> QED
  BY <1>2, <1>3, <1>4, <1>5, <1>6 DEF RequestStep

(* Every step does.                                                        *)
LEMMA StepRequestInv ==
  ASSUME TypeOK, ProcessInv, RowInv, QueueInv, WorkInv, RequestInv, [Next]_vars
  PROVE  RequestInv'
<1>1. ASSUME requestVars' = requestVars, \A p \in Requests : KeptFor(p)
      PROVE  RequestInv'
  BY <1>1, KeptRequestOK DEF RequestInv, requestVars
<1>2. ASSUME UNCHANGED <<dbVars, queue, pc, work, requestVars>> PROVE RequestInv'
  BY <1>1, <1>2 DEF KeptFor, dbVars, requestVars, Queued, Started
<1>3. ASSUME \A q \in Requests : rpc'[q] = "idle" /\ rjob'[q] = None
      PROVE  RequestInv'
  BY <1>3 DEF RequestInv, RequestOK, Starting, Enqueuing, Removing
<1>4. ASSUME \A q \in Requests : rpc[q] = "idle", requestVars' = requestVars
      PROVE  RequestInv'
  <2>1. \A q \in Requests : rjob[q] = None
    BY <1>4 DEF RequestInv, RequestOK, Starting, Enqueuing
  <2> QED
    BY <1>3, <1>4, <2>1 DEF requestVars
<1>5. ASSUME NEW r \in Repos, Register(r) PROVE RequestInv'
  <2>1. \A s \in Repos : status[s] = "deleted" => status'[s] = "deleted"
    BY <1>5 DEF Register, TypeOK
  <2>2. ASSUME NEW p \in Requests PROVE KeptFor(p)
    <3>1. RequestOK(p)
      BY DEF RequestInv
    <3> QED
      BY <1>5, <2>1, <3>1
      DEF Register, KeptFor, RequestOK, Removing, requestVars, procVars, workerVars,
          Queued, Started
  <2> QED
    BY <1>1, <1>5, <2>2 DEF Register
<1>6. ASSUME NEW q \in Requests, NEW r \in Repos, NEW j \in Jobs, StartRead(q, r, j)
      PROVE RequestInv'
  <2>1. /\ rpc'[q] = "start_read" /\ rrepo'[q] = r /\ rjob'[q] = j
        /\ jobStatus[j] = "absent" /\ \A p \in Requests : rjob[p] # j
        /\ \A p \in Requests \ {q} :
             rpc'[p] = rpc[p] /\ rrepo'[p] = rrepo[p] /\ rjob'[p] = rjob[p]
        /\ UNCHANGED <<dbVars, queue, pc, work>>
    BY <1>6 DEF StartRead, procVars, workerVars, TypeOK
  <2>2. RequestOK(q)'
    BY <2>1 DEF RequestOK, Starting, Enqueuing, Removing, dbVars
  <2>3. ASSUME NEW p \in Requests \ {q} PROVE RequestOK(p)'
    <3>1. KeptFor(p)
      BY <2>1 DEF KeptFor, dbVars, Queued, Started
    <3> QED
      BY <3>1, KeptRequestOK DEF RequestInv
  <2> QED
    BY <2>1, <2>2, <2>3 DEF RequestInv
<1>7. ASSUME NEW q \in Requests, NEW r \in Repos, DeleteCheck(q, r) PROVE RequestInv'
  <2>1. rjob[q] = None
    BY <1>7 DEF DeleteCheck, RequestInv, RequestOK, Starting, Enqueuing
  <2>2. /\ rpc'[q] = "delete_checked" /\ rrepo'[q] = r /\ rjob' = rjob
        /\ \A p \in Requests \ {q} :
             rpc'[p] = rpc[p] /\ rrepo'[p] = rrepo[p] /\ rjob'[p] = rjob[p]
        /\ UNCHANGED <<dbVars, queue, pc, work>>
    BY <1>7 DEF DeleteCheck, procVars, workerVars, TypeOK
  <2>3. RequestOK(q)'
    BY <2>1, <2>2 DEF RequestOK, Starting, Enqueuing, Removing
  <2> QED
    BY <2>2, <2>3, QuietRequestStep
<1>8. ASSUME NEW w \in Workers, TakeJob(w) PROVE RequestInv'
  <2>1. queue \in Seq(Jobs) /\ queue # <<>> /\ queue' = Tail(queue)
    BY <1>8 DEF TakeJob, TypeOK
  <2>2. /\ Head(queue) \in Jobs /\ Queued(Head(queue))
        /\ \A j \in Jobs : Queued(j)' => Queued(j)
    BY <2>1, QueuedAfterTail
  <2>3. /\ jobStatus[Head(queue)] = "queued" /\ jobRepo' = jobRepo
        /\ \A j \in Jobs : j # Head(queue) => jobStatus'[j] = jobStatus[j]
        /\ work'[w] = Head(queue) /\ requestVars' = requestVars
        /\ status' = [status EXCEPT ![jobRepo[Head(queue)]] = "cloning"]
        /\ \A v \in Workers \ {w} : pc'[v] = pc[v] /\ work'[v] = work[v]
    BY <1>8, <2>2, TakeJobFrame DEF TypeOK
  <2>4. \A r \in Repos : status[r] = "deleted" => status'[r] = "deleted"
    <3>1. jobRepo[Head(queue)] \in Repos /\ status[jobRepo[Head(queue)]] # "deleted"
      BY <2>2, <2>3 DEF RowInv, JobExists, JobStatus, ActiveJobStatuses, Registered,
                        RepositoryStatus, ActiveStatuses, PipelineStages
    <3> QED
      BY <2>3, <3>1 DEF TypeOK
  <2>5. ASSUME NEW p \in Requests PROVE KeptFor(p)
    <3>1. RequestOK(p)
      BY DEF RequestInv
    <3>2. UNCHANGED <<rpc, rrepo, rjob>>
      BY <2>3 DEF requestVars
    <3>3. Enqueuing(p) => rjob[p] \in Jobs /\ rjob[p] # Head(queue)
      BY <2>2, <3>1 DEF RequestOK
    <3>4. Starting(p) => rjob[p] \in Jobs /\ rjob[p] # Head(queue)
      BY <2>3, <3>1 DEF RequestOK
    <3>5. Enqueuing(p) => (Queued(rjob[p])' => Queued(rjob[p]))
      <4>1. SUFFICES ASSUME Enqueuing(p), NEW j \in Jobs, j = rjob[p], Queued(j)'
                     PROVE  Queued(j)
        BY <3>2, <3>3
      <4> QED
        BY <4>1, <2>2
    <3>6. Removing(p) => status'[rrepo[p]] = status[rrepo[p]]
      BY <2>4, <3>1 DEF RequestOK, Removing
    <3> QED
      BY <2>3, <3>2, <3>3, <3>4, <3>5, <3>6 DEF KeptFor, Started
  <2> QED
    BY <1>1, <2>3, <2>5
<1>9. ASSUME NEW w \in Workers, PipelineStep(w) PROVE RequestInv'
  <2>1. /\ Started(w) /\ UNCHANGED <<queue, jobRepo, requestVars>>
        /\ \A v \in Workers : Started(v)' => Started(v) /\ work'[v] = work[v]
    BY <1>9, PipelineFrame DEF Started
  <2>2. /\ work[w] \in Jobs /\ jobStatus[work[w]] \in {"running", "deleted"}
    BY <2>1 DEF WorkInv
  <2>3. /\ \A j \in Jobs : j # work[w] => jobStatus'[j] = jobStatus[j]
        /\ \A r \in Repos : r # RepoOf(w) => status'[r] = status[r]
        /\ status'[RepoOf(w)] = status[RepoOf(w)] \/ JobExists(work[w])
    BY <1>9, PipelineRows
  <2>4. \A r \in Repos : status[r] = "deleted" => status'[r] = "deleted"
    <3>1. JobExists(work[w]) => status[RepoOf(w)] # "deleted"
      BY <2>2 DEF RowInv, RepoOf, Registered, RepositoryStatus, ActiveStatuses,
                  PipelineStages
    <3> QED
      BY <2>3, <3>1
  <2>5. ASSUME NEW p \in Requests PROVE KeptFor(p)
    <3>1. RequestOK(p)
      BY DEF RequestInv
    <3>2. UNCHANGED <<rpc, rrepo, rjob, queue>>
      BY <2>1 DEF requestVars
    <3>3. Starting(p) \/ Enqueuing(p) => rjob[p] \in Jobs /\ rjob[p] # work[w]
      BY <2>1, <2>2, <3>1 DEF RequestOK
    <3>4. Removing(p) => status'[rrepo[p]] = status[rrepo[p]]
      BY <2>4, <3>1 DEF RequestOK, Removing
    <3> QED
      BY <2>1, <2>3, <3>2, <3>3, <3>4 DEF KeptFor, Queued
  <2> QED
    BY <1>1, <2>1, <2>5
<1>10. CASE SkipJob
  <2>1. /\ queue \in Seq(Jobs) /\ queue # <<>> /\ queue' = Tail(queue)
        /\ UNCHANGED <<dbVars, pc, work, requestVars>>
    BY <1>10 DEF SkipJob, workerVars, TypeOK
  <2>2. \A j \in Jobs : Queued(j)' => Queued(j)
    BY <2>1, QueuedAfterTail
  <2>3. ASSUME NEW p \in Requests PROVE KeptFor(p)
    <3>1. UNCHANGED <<rpc, rrepo, rjob>>
      BY <2>1 DEF requestVars
    <3>2. Enqueuing(p) => (Queued(rjob[p])' => Queued(rjob[p]))
      <4>1. SUFFICES ASSUME Enqueuing(p), NEW j \in Jobs, j = rjob[p], Queued(j)'
                     PROVE  Queued(j)
        BY <3>1 DEF RequestInv, RequestOK
      <4> QED
        BY <4>1, <2>2
    <3> QED
      BY <2>1, <3>1, <3>2 DEF KeptFor, Started, dbVars
  <2> QED
    BY <1>1, <2>1, <2>3
<1>11. ASSUME NEW q \in Requests, RequestStep(q) PROVE RequestInv'
  BY <1>11, RequestRequestInv
<1>12. CASE Crash
  BY <1>12, <1>3 DEF Crash
<1>13. CASE Shutdown \/ RecoverJobs
  BY <1>13, <1>4 DEF Shutdown, RecoverJobs, ProcessInv
<1>14. CASE Exit \/ ClearTemp \/ RecoveryRaises
  BY <1>14, <1>2 DEF Exit, ClearTemp, RecoveryRaises, workerVars
<1>15. CASE UNCHANGED vars
  BY <1>15, <1>2 DEF vars, procVars, workerVars
<1> QED
  BY <1>5, <1>6, <1>7, <1>8, <1>9, <1>10, <1>11, <1>12, <1>13, <1>14, <1>15 DEF Next

-----------------------------------------------------------------------------
(* The status that is shown.                                               *)

ActiveShown(r) == status[r] \in ActiveStatuses => HasActiveJob(r)

ThreadShown(w) ==
  Started(w) /\ JobExists(work[w]) =>
    /\ status[RepoOf(w)] \in PipelineStages
    /\ pc[w] \in PipelineStages => status[RepoOf(w)] = pc[w]

(* The two properties, repository by repository and thread by thread.      *)
LEMMA ShownPerThread ==
  ASSUME TypeOK, WorkInv
  PROVE  StatusFollowsPipeline /\ StageInv <=>
         (\A r \in Repos : ActiveShown(r)) /\ (\A w \in Workers : ThreadShown(w))
<1>1. \A w \in Workers : pc[w] \in PipelineStages => Started(w)
  BY DEF PipelineStages, Started
<1>2. \A w \in Workers : Started(w) /\ JobExists(work[w]) => jobStatus[work[w]] = "running"
  BY DEF WorkInv, JobExists, JobStatus, ActiveJobStatuses
<1> QED
  BY <1>1, <1>2 DEF StatusFollowsPipeline, StageInv, ActiveShown, ThreadShown

(* A step about repository R changes no row of another repository.         *)
OthersKept(R) ==
  /\ \A r \in Repos : r # R => status'[r] = status[r]
  /\ \A j \in Jobs : JobExists(j) /\ jobRepo[j] # R =>
       jobStatus'[j] = jobStatus[j] /\ jobRepo'[j] = jobRepo[j]

(* The others are then shown as before.                                    *)
LEMMA OthersShown ==
  ASSUME NEW R, OthersKept(R), NEW r \in Repos, r # R, ActiveShown(r)
  PROVE  ActiveShown(r)'
<1>1. ASSUME NEW j \in Jobs, Active(j), jobRepo[j] = r
      PROVE  Active(j)' /\ jobRepo'[j] = r
  BY <1>1 DEF OthersKept, Active, JobExists, JobStatus
<1> QED
  BY <1>1 DEF OthersKept, ActiveShown, HasActiveJob

(* So are the threads of other repositories that do not move.              *)
LEMMA OtherThreadsShown ==
  ASSUME NEW R, OthersKept(R), RowInv, WorkInv,
         NEW w \in Workers, ThreadShown(w),
         pc'[w] = pc[w], work'[w] = work[w],
         Started(w) => jobRepo'[work[w]] = jobRepo[work[w]],
         Started(w) /\ JobExists(work[w])' => JobExists(work[w]) /\ RepoOf(w) # R
  PROVE  ThreadShown(w)'
<1>1. SUFFICES ASSUME Started(w), JobExists(work[w])'
               PROVE  /\ status'[jobRepo'[work'[w]]] \in PipelineStages
                      /\ pc'[w] \in PipelineStages => status'[jobRepo'[work'[w]]] = pc'[w]
  BY DEF ThreadShown, RepoOf, Started
<1>2. JobExists(work[w]) /\ RepoOf(w) # R /\ RepoOf(w) \in Repos
  BY <1>1 DEF RowInv, RepoOf, WorkInv
<1>3. status'[RepoOf(w)] = status[RepoOf(w)]
  BY <1>2 DEF OthersKept
<1> QED
  BY <1>1, <1>2, <1>3 DEF ThreadShown, RepoOf

(* A stage of the pipeline shows itself; the steps after the stages leave  *)
(* the status of the last one.                                             *)
LEMMA PipelineShows ==
  ASSUME TypeOK, RowInv, WorkInv, NEW w \in Workers, PipelineStep(w), ThreadShown(w)
  PROVE  /\ ThreadShown(w)'
         /\ status'[RepoOf(w)] \in ActiveStatuses =>
              \/ jobStatus'[work[w]] = "running"
              \/ UNCHANGED <<status, jobStatus>>
<1> USE DEF Started, ThreadShown
<1>0. work[w] \in Jobs /\ RepoOf(w) \in Repos /\ PipelineStages \subseteq ActiveStatuses
  BY PipelineRows DEF ActiveStatuses
<1>1. ASSUME UNCHANGED dbVars, UNCHANGED work,
             pc'[w] \in PipelineStages => pc'[w] = pc[w],
             Started(w)
      PROVE  /\ ThreadShown(w)'
             /\ UNCHANGED <<status, jobStatus>>
  BY <1>1 DEF dbVars, RepoOf, JobExists
<1>2. ASSUME NEW stage \in PipelineStages, Update(w, stage), Started(w),
             pc' = [pc EXCEPT ![w] = stage], UNCHANGED work
      PROVE  /\ ThreadShown(w)'
             /\ jobStatus'[work[w]] = "running"
  <2>1. JobExists(work[w]) /\ jobRepo' = jobRepo /\ jobStatus' = jobStatus
        /\ status' = [status EXCEPT ![RepoOf(w)] = stage]
    BY <1>2 DEF Update
  <2>2. jobStatus[work[w]] = "running"
    BY <1>2, <2>1 DEF WorkInv, JobExists, JobStatus, ActiveJobStatuses
  <2>3. status'[RepoOf(w)] = stage /\ pc'[w] = stage
    BY <1>0, <1>2, <2>1 DEF TypeOK
  <2>4. RepoOf(w)' = RepoOf(w)
    BY <1>2, <2>1 DEF RepoOf
  <2> QED
    BY <1>2, <2>1, <2>2, <2>3, <2>4
<1>3. ASSUME NEW c \in Commits, CloneEnds(w, c)
      PROVE  /\ ThreadShown(w)'
             /\ jobStatus'[work[w]] = "running"
  BY <1>3, <1>2 DEF CloneEnds, PipelineStages
<1>4. CASE StageEnds(w)
  <2>1. StageAfter[pc[w]] \in PipelineStages
    BY <1>4 DEF StageEnds, StageAfter, PipelineStages
  <2> QED
    BY <1>2, <1>4, <2>1 DEF StageEnds, WorkerContinues
<1>5. CASE CloneBegins(w) \/ BuildBegins(w)
  BY <1>1, <1>5 DEF CloneBegins, BuildBegins, workerVars
<1>6. CASE BuildEnds(w)
  BY <1>1, <1>6 DEF BuildEnds, PipelineStages, TypeOK
<1>7. CASE StageRaises(w) \/ SkipSearchIndex(w) \/ InstallRaises(w) \/ Discard(w)
  <2>1. /\ UNCHANGED dbVars /\ UNCHANGED work /\ Started(w)
        /\ pc'[w] \in {"discard", "remove_old_checkout", "fail"}
    BY <1>7 DEF StageRaises, SkipSearchIndex, InstallRaises, Discard,
                WorkerContinues, PipelineStages, TypeOK
  <2> QED
    BY <1>1, <2>1 DEF PipelineStages
<1>8. CASE RemoveOldCheckout(w) \/ PlaceCheckout(w) \/ RemoveOldIndex(w) \/ PlaceIndex(w)
  <2>1. /\ UNCHANGED dbVars /\ UNCHANGED work /\ Started(w)
        /\ pc'[w] \in {"discard", "place_checkout", "remove_old_index", "complete",
                       "place_index"}
    BY <1>8 DEF RemoveOldCheckout, PlaceCheckout, RemoveOldIndex, PlaceIndex,
                WorkerContinues, TypeOK
  <2> QED
    BY <1>1, <2>1 DEF PipelineStages
<1>9. CASE Complete(w)
  <2>1. pc'[w] = "idle" /\ status' = [status EXCEPT ![RepoOf(w)] = "completed"]
    BY <1>9 DEF Complete, WorkerEnds, TypeOK
  <2> QED
    BY <1>0, <2>1 DEF ActiveStatuses, PipelineStages, TypeOK
<1>10. CASE RecordFailure(w)
  <2>1. pc'[w] = "idle"
    BY <1>10 DEF RecordFailure, WorkerEnds, TypeOK
  <2>2. \/ status' = [status EXCEPT ![RepoOf(w)] = "failed"]
        \/ UNCHANGED <<status, jobStatus>>
    BY <1>10 DEF RecordFailure, RepoOf
  <2> QED
    BY <1>0, <2>1, <2>2 DEF ActiveStatuses, PipelineStages, TypeOK
<1> QED
  BY <1>3, <1>4, <1>5, <1>6, <1>7, <1>8, <1>9, <1>10 DEF PipelineStep

(* Every step keeps what is shown in line with the pipeline.               *)
LEMMA StepShown ==
  ASSUME TypeOK, ProcessInv, RowInv, QueueInv, WorkInv, RequestInv,
         OnePipelinePerRepository, StatusFollowsPipeline, StageInv,
         WorkInv', [Next]_vars
  PROVE  StatusFollowsPipeline' /\ StageInv'
<1> DEFINE Shown == (\A r \in Repos : ActiveShown(r)) /\ (\A w \in Workers : ThreadShown(w))
<1>0. Shown
  BY ShownPerThread
<1>1. \A w \in Workers : Started(w) => jobRepo'[work[w]] = jobRepo[work[w]]
  BY RepoOfStarted
<1>2. ASSUME UNCHANGED <<dbVars, pc, work>> PROVE Shown'
  BY <1>0, <1>2 DEF dbVars, ActiveShown, HasActiveJob, Active, ThreadShown, Started,
                    JobExists, RepoOf
<1>3. ASSUME NEW R \in Repos, OthersKept(R), ActiveShown(R)', pc' = pc, work' = work,
             \A w \in Workers : Started(w) /\ JobExists(work[w])' =>
               JobExists(work[w]) /\ RepoOf(w) # R
      PROVE  Shown'
  <2>1. \A r \in Repos : ActiveShown(r)'
    BY <1>0, <1>3, OthersShown
  <2>2. \A w \in Workers : ThreadShown(w)'
    BY <1>0, <1>1, <1>3, OtherThreadsShown
  <2> QED
    BY <2>1, <2>2
<1>4. ASSUME NEW r \in Repos, Register(r) PROVE Shown'
  <2>1. /\ status' = [status EXCEPT ![r] = "pending"] /\ status[r] = "absent"
        /\ UNCHANGED <<jobStatus, jobRepo, pc, work>>
    BY <1>4 DEF Register, workerVars
  <2>2. OthersKept(r) /\ status'[r] = "pending"
    BY <2>1 DEF OthersKept, TypeOK
  <2>3. ActiveShown(r)'
    BY <2>2 DEF ActiveShown, ActiveStatuses, PipelineStages
  <2>4. \A w \in Workers : Started(w) /\ JobExists(work[w]) => RepoOf(w) # r
    BY <2>1 DEF RowInv, WorkInv, RepoOf, Registered, RepositoryStatus, ActiveStatuses,
                PipelineStages
  <2> QED
    BY <1>3, <2>1, <2>2, <2>3, <2>4 DEF JobExists
<1>5. ASSUME NEW q \in Requests, StartCommit(q) PROVE Shown'
  <2>0. PICK R \in Repos : R = rrepo[q]
    BY <1>5 DEF StartCommit, RequestInv, RequestOK
  <2>1. /\ rjob[q] \in Jobs /\ jobStatus[rjob[q]] = "absent"
        /\ ~HasActiveJob(R)
    BY <1>5, <2>0 DEF StartCommit, RequestInv, RequestOK, Starting
  <2>2. /\ jobStatus'[rjob[q]] = "queued" /\ jobRepo'[rjob[q]] = R
        /\ \A j \in Jobs : j # rjob[q] =>
             jobStatus'[j] = jobStatus[j] /\ jobRepo'[j] = jobRepo[j]
        /\ pc' = pc /\ work' = work
    BY <1>5, <2>0, <2>1 DEF StartCommit, workerVars, TypeOK
  <2>3. \A r \in Repos : r # R => status'[r] = status[r]
    <3>1. status' = status \/ status' = [status EXCEPT ![R] = "queued"]
      BY <1>5, <2>0 DEF StartCommit
    <3> QED
      BY <2>1, <3>1 DEF TypeOK
  <2>4. OthersKept(R)
    BY <2>1, <2>2, <2>3 DEF OthersKept, JobExists, JobStatus, ActiveJobStatuses
  <2>6. ASSUME NEW w \in Workers, Started(w), JobExists(work[w])'
        PROVE  JobExists(work[w]) /\ RepoOf(w) # R
    <3>1. work[w] \in Jobs /\ jobStatus[work[w]] \in {"running", "deleted"}
      BY <2>6 DEF WorkInv
    <3>2. jobStatus'[work[w]] = jobStatus[work[w]]
      BY <2>1, <2>2, <3>1
    <3>3. JobExists(work[w])
      BY <2>2, <2>6, <3>2 DEF JobExists
    <3>4. Active(work[w])
      BY <3>1, <3>3 DEF JobExists, JobStatus, Active, ActiveJobStatuses
    <3> QED
      BY <2>1, <3>1, <3>3, <3>4 DEF HasActiveJob, RepoOf
  <2>7. ActiveShown(R)'
    BY <2>0, <2>1, <2>2 DEF ActiveShown, HasActiveJob, Active, ActiveJobStatuses
  <2> QED
    BY <1>3, <2>2, <2>4, <2>6, <2>7
<1>6. ASSUME NEW q \in Requests, RecordEnqueueFailure(q) PROVE Shown'
  <2>1. /\ rrepo[q] \in Repos /\ rjob[q] \in Jobs /\ jobRepo[rjob[q]] = rrepo[q]
        /\ jobStatus[rjob[q]] \in {"queued", "deleted"}
        /\ \A w \in Workers : Started(w) => work[w] # rjob[q]
    BY <1>6 DEF RecordEnqueueFailure, RequestInv, RequestOK, Enqueuing
  <2>2. jobRepo' = jobRepo /\ pc' = pc /\ work' = work
    BY <1>6 DEF RecordEnqueueFailure, workerVars
  <2>3. CASE UNCHANGED <<status, jobStatus>>
    BY <1>0, <2>2, <2>3 DEF ActiveShown, HasActiveJob, Active, ThreadShown, Started,
                            JobExists, RepoOf
  <2>4. ASSUME JobExists(rjob[q]), jobStatus' = [jobStatus EXCEPT ![rjob[q]] = "failed"],
               status' = [status EXCEPT ![rrepo[q]] = "failed"]
        PROVE  Shown'
    <3>1. PICK R \in Repos : R = rrepo[q]
      BY <2>1
    <3>2. OthersKept(R) /\ status'[R] = "failed"
      BY <2>1, <2>2, <2>4, <3>1 DEF OthersKept, TypeOK
    <3>3. ActiveShown(R)'
      BY <3>2 DEF ActiveShown, ActiveStatuses, PipelineStages
    <3>4. ASSUME NEW w \in Workers, Started(w), JobExists(work[w])'
          PROVE  JobExists(work[w]) /\ RepoOf(w) # R
      <4>1. /\ work[w] \in Jobs /\ jobStatus[work[w]] \in {"running", "deleted"}
            /\ work[w] # rjob[q]
        BY <2>1, <3>4 DEF WorkInv
      <4>2. jobStatus'[work[w]] = jobStatus[work[w]]
        BY <2>4, <4>1 DEF TypeOK
      <4>3. JobExists(work[w])
        BY <2>2, <3>4, <4>2 DEF JobExists
      <4>4. Active(work[w]) /\ Active(rjob[q])
        BY <2>1, <2>4, <4>1, <4>3 DEF JobExists, JobStatus, Active, ActiveJobStatuses
      <4> QED
        BY <2>1, <3>1, <4>1, <4>3, <4>4 DEF RowInv, RepoOf
    <3> QED
      BY <1>3, <2>2, <3>2, <3>3, <3>4
  <2> QED
    BY <1>6, <2>3, <2>4 DEF RecordEnqueueFailure
<1>7. ASSUME NEW q \in Requests, DeleteCommit(q) PROVE Shown'
  <2>1. PICK R \in Repos : R = rrepo[q]
    BY <1>7 DEF DeleteCommit, RequestInv, RequestOK
  <2>2. /\ status' = [status EXCEPT ![R] = "deleted"] /\ jobRepo' = jobRepo
        /\ \A j \in Jobs : jobStatus'[j] = IF JobExists(j) /\ jobRepo[j] = R
                                          THEN "deleted" ELSE jobStatus[j]
        /\ pc' = pc /\ work' = work
    BY <1>7, <2>1 DEF DeleteCommit, workerVars
  <2>3. OthersKept(R) /\ status'[R] = "deleted"
    BY <2>2 DEF OthersKept, TypeOK
  <2>4. ActiveShown(R)'
    BY <2>3 DEF ActiveShown, ActiveStatuses, PipelineStages
  <2>5. ASSUME NEW w \in Workers, Started(w), JobExists(work[w])'
        PROVE  JobExists(work[w]) /\ RepoOf(w) # R
    <3>1. work[w] \in Jobs /\ jobStatus'[work[w]] \in JobStatus
      BY <2>2, <2>5 DEF WorkInv, JobExists
    <3> QED
      BY <2>2, <3>1 DEF JobExists, JobStatus, ActiveJobStatuses, RepoOf
  <2> QED
    BY <1>3, <2>2, <2>3, <2>4, <2>5
<1>8. ASSUME NEW q \in Requests, RequestStep(q) PROVE Shown'
  <2>1. \/ StartCommit(q) \/ RecordEnqueueFailure(q) \/ DeleteCommit(q)
        \/ UNCHANGED <<dbVars, pc, work>>
    BY <1>8 DEF RequestStep, StartCheck, StartRollback, Enqueue, EnqueueRaises,
                DeleteRollback, RemoveCheckout, RemoveIndex, workerVars
  <2> QED
    BY <2>1, <1>2, <1>5, <1>6, <1>7
<1>9. ASSUME NEW w \in Workers, TakeJob(w) PROVE Shown'
  <2>1. Head(queue) \in Jobs /\ jobStatus[Head(queue)] = "queued"
    BY <1>9, TakeJobFrame
  <2>2. PICK R \in Repos : R = jobRepo[Head(queue)]
    BY <2>1 DEF RowInv, JobExists, JobStatus, ActiveJobStatuses
  <2>3. /\ status'[R] = "cloning" /\ \A r \in Repos : r # R => status'[r] = status[r]
        /\ jobStatus'[Head(queue)] = "running"
        /\ \A j \in Jobs : j # Head(queue) => jobStatus'[j] = jobStatus[j]
        /\ jobRepo' = jobRepo
        /\ work'[w] = Head(queue) /\ pc'[w] = "cloning"
        /\ \A v \in Workers \ {w} : pc'[v] = pc[v] /\ work'[v] = work[v]
    BY <1>9, <2>1, <2>2, TakeJobFrame DEF TypeOK
  <2>4. OthersKept(R)
    BY <2>2, <2>3 DEF OthersKept
  <2>5. ActiveShown(R)'
    BY <2>1, <2>2, <2>3 DEF ActiveShown, HasActiveJob, Active, ActiveJobStatuses
  <2>6. ASSUME NEW v \in Workers \ {w} PROVE ThreadShown(v)'
    <3>1. Started(v) => RepoOf(v) # R /\ work[v] \in Jobs /\ work[v] # Head(queue)
      BY <1>9, <2>1, <2>2, TakenRepositoryIsFree DEF WorkInv
    <3>2. Started(v) /\ JobExists(work[v])' => JobExists(work[v])
      BY <2>3, <3>1 DEF JobExists
    <3> QED
      BY <1>0, <1>1, <2>3, <2>4, <3>1, <3>2, OtherThreadsShown
  <2>7. ThreadShown(w)'
    BY <2>2, <2>3 DEF ThreadShown, RepoOf, PipelineStages
  <2> QED
    BY <1>0, <2>4, <2>5, <2>6, <2>7, OthersShown
<1>10. ASSUME NEW w \in Workers, PipelineStep(w) PROVE Shown'
  <2>1. /\ Started(w) /\ jobRepo' = jobRepo
        /\ \A v \in Workers \ {w} : pc'[v] = pc[v] /\ work'[v] = work[v]
    BY <1>10, PipelineFrame
  <2>2. /\ work[w] \in Jobs
        /\ \A j \in Jobs : j # work[w] => jobStatus'[j] = jobStatus[j]
        /\ \A r \in Repos : r # RepoOf(w) => status'[r] = status[r]
    BY <1>10, PipelineRows
  <2>3. PICK R \in Repos : R = RepoOf(w)
    BY <1>10, PipelineRows
  <2>4. OthersKept(R)
    BY <2>1, <2>2, <2>3 DEF OthersKept, RepoOf
  <2>5. ThreadShown(w)'
    BY <1>0, <1>10, PipelineShows
  <2>6. ActiveShown(R)'
    <3>1. status'[R] \in ActiveStatuses =>
            jobStatus'[work[w]] = "running" \/ UNCHANGED <<status, jobStatus>>
      BY <1>0, <1>10, <2>3, PipelineShows
    <3>2. ActiveShown(R)
      BY <1>0
    <3> QED
      BY <2>1, <2>2, <2>3, <3>1, <3>2 DEF ActiveShown, HasActiveJob, Active,
                                          ActiveJobStatuses, RepoOf
  <2>7. ASSUME NEW v \in Workers \ {w} PROVE ThreadShown(v)'
    <3>1. Started(v) => RepoOf(v) # R /\ work[v] \in Jobs /\ work[v] # work[w]
      BY <2>1, <2>3 DEF OnePipelinePerRepository, WorkInv, Started, RepoOf
    <3>2. Started(v) /\ JobExists(work[v])' => JobExists(work[v])
      BY <2>1, <2>2, <3>1 DEF JobExists
    <3> QED
      BY <1>0, <1>1, <2>1, <2>4, <3>1, <3>2, OtherThreadsShown
  <2> QED
    BY <1>0, <2>4, <2>5, <2>6, <2>7, OthersShown
<1>11. ASSUME RecoverJobs PROVE Shown'
  <2>1. \A w \in Workers : ~Started(w)'
    BY <1>11 DEF RecoverJobs, ProcessInv, workerVars, Started
  <2>2. \A r \in Repos : status'[r] \notin ActiveStatuses
    BY <1>0, <1>11 DEF RecoverJobs, ActiveShown, ActiveStatuses, PipelineStages
  <2> QED
    BY <2>1, <2>2 DEF ActiveShown, ThreadShown
<1>12. ASSUME Crash PROVE Shown'
  <2>1. UNCHANGED dbVars /\ \A w \in Workers : ~Started(w)'
    BY <1>12 DEF Crash, Started
  <2> QED
    BY <1>0, <2>1 DEF dbVars, ActiveShown, HasActiveJob, Active, ThreadShown
<1>13. ASSUME SkipJob \/ Shutdown \/ Exit \/ ClearTemp \/ RecoveryRaises PROVE Shown'
  BY <1>2, <1>13 DEF SkipJob, Shutdown, Exit, ClearTemp, RecoveryRaises, workerVars
<1>14. ASSUME \E q \in Requests, r \in Repos :
                DeleteCheck(q, r) \/ \E j \in Jobs : StartRead(q, r, j)
       PROVE  Shown'
  BY <1>2, <1>14 DEF DeleteCheck, StartRead, workerVars
<1>15. ASSUME UNCHANGED vars PROVE Shown'
  BY <1>2, <1>15 DEF vars, workerVars
<1>16. Shown'
  BY <1>4, <1>8, <1>9, <1>10, <1>11, <1>12, <1>13, <1>14, <1>15 DEF Next
<1>17. \A w \in Workers : Started(w)' /\ JobExists(work[w])' =>
         jobStatus'[work'[w]] = "running"
  BY DEF WorkInv, JobExists, JobStatus, ActiveJobStatuses
<1>18. \A w \in Workers : pc'[w] \in PipelineStages => Started(w)'
  BY DEF PipelineStages, Started
<1> QED
  BY <1>16, <1>17, <1>18 DEF StatusFollowsPipeline, StageInv, ActiveShown, ThreadShown

-----------------------------------------------------------------------------
(* The directories.                                                        *)

(* A step of the pipeline touches the directories of its repository only.  *)
LEMMA PipelineTrees ==
  ASSUME TypeOK, RowInv, WorkInv, NEW w \in Workers, PipelineStep(w),
         NEW r \in Repos, r # RepoOf(w)
  PROVE  checkout'[r] = checkout[r] /\ index'[r] = index[r]
<1>1. CASE \/ CloneBegins(w) \/ (\E c \in Commits : CloneEnds(w, c)) \/ StageEnds(w)
           \/ SkipSearchIndex(w) \/ BuildBegins(w) \/ BuildEnds(w) \/ StageRaises(w)
  BY <1>1 DEF CloneBegins, CloneEnds, StageEnds, SkipSearchIndex, BuildBegins,
              BuildEnds, StageRaises, diskVars
<1>2. CASE Complete(w) \/ InstallRaises(w) \/ Discard(w) \/ RecordFailure(w)
  BY <1>2 DEF Complete, InstallRaises, Discard, RecordFailure, diskVars
<1>3. CASE RemoveOldCheckout(w) \/ PlaceCheckout(w)
  BY <1>3 DEF RemoveOldCheckout, PlaceCheckout, TypeOK
<1>4. CASE RemoveOldIndex(w) \/ PlaceIndex(w)
  BY <1>4 DEF RemoveOldIndex, PlaceIndex, TypeOK
<1> QED
  BY <1>1, <1>2, <1>3, <1>4 DEF PipelineStep

(* Only threads touch the directories of a repository that is registered:  *)
(* requests remove those of deleted ones.                                  *)
LEMMA OnlyThreadsTouchTrees ==
  ASSUME TypeOK, RequestInv, [Next]_vars, ~\E w \in Workers : PipelineStep(w),
         NEW r \in Repos, status[r] # "deleted"
  PROVE  checkout'[r] = checkout[r] /\ index'[r] = index[r]
<1>1. ASSUME NEW q \in Requests, RequestStep(q)
      PROVE  checkout'[r] = checkout[r] /\ index'[r] = index[r]
  <2>1. CASE RemoveCheckout(q) \/ RemoveIndex(q)
    <3>1. rrepo[q] # r
      BY <2>1 DEF RemoveCheckout, RemoveIndex, RequestInv, RequestOK, Removing
    <3> QED
      BY <2>1, <3>1 DEF RemoveCheckout, RemoveIndex, TypeOK
  <2>2. CASE UNCHANGED diskVars
    BY <2>2 DEF diskVars
  <2> QED
    BY <1>1, <2>1, <2>2
    DEF RequestStep, StartCheck, StartCommit, StartRollback, Enqueue, EnqueueRaises,
        RecordEnqueueFailure, DeleteCommit, DeleteRollback
<1>2. CASE UNCHANGED <<checkout, index>>
  BY <1>2
<1>3. CASE \/ \E w \in Workers : TakeJob(w)
           \/ SkipJob \/ Shutdown \/ Exit \/ Crash
           \/ RecoverJobs \/ ClearTemp \/ RecoveryRaises
  BY <1>3, <1>2 DEF TakeJob, SkipJob, Shutdown, Exit, Crash, RecoverJobs, ClearTemp,
                    RecoveryRaises, diskVars
<1>4. CASE \E s \in Repos : Register(s) \/ \E q \in Requests :
             DeleteCheck(q, s) \/ \E j \in Jobs : StartRead(q, s, j)
  BY <1>4, <1>2 DEF Register, DeleteCheck, StartRead, diskVars
<1>5. CASE UNCHANGED vars
  BY <1>5, <1>2 DEF vars, diskVars
<1> QED
  BY <1>1, <1>3, <1>4, <1>5 DEF Next

(* The job of a started thread is not revived once it is deleted.          *)
LEMMA DeletedJobStays ==
  ASSUME TypeOK, RowInv, WorkInv, WorkInv', RequestInv, QueueInv, [Next]_vars,
         NEW w \in Workers, Started(w), work'[w] = work[w], pc'[w] # "idle",
         JobExists(work[w])'
  PROVE  JobExists(work[w])
<1>1. SUFFICES ASSUME jobStatus[work[w]] = "deleted" PROVE FALSE
  BY DEF WorkInv, JobExists, JobStatus, ActiveJobStatuses
<1>2. work[w] \in Jobs /\ jobStatus'[work[w]] # "deleted"
  BY DEF WorkInv, JobExists, JobStatus, ActiveJobStatuses
<1>3. ASSUME NEW q \in Requests, RequestStep(q) PROVE jobStatus'[work[w]] = "deleted"
  <2>1. CASE StartCommit(q)
    BY <1>1, <1>2, <2>1 DEF StartCommit, RequestInv, RequestOK, Starting, TypeOK
  <2>2. CASE RecordEnqueueFailure(q)
    BY <1>1, <1>2, <2>2 DEF RecordEnqueueFailure, JobExists, JobStatus,
                            ActiveJobStatuses, TypeOK
  <2>3. CASE DeleteCommit(q)
    BY <1>1, <1>2, <2>3 DEF DeleteCommit
  <2>4. CASE UNCHANGED dbVars
    BY <1>1, <2>4 DEF dbVars
  <2> QED
    BY <1>3, <2>1, <2>2, <2>3, <2>4
    DEF RequestStep, StartCheck, StartRollback, Enqueue, EnqueueRaises,
        DeleteRollback, RemoveCheckout, RemoveIndex
<1>4. ASSUME NEW v \in Workers, TakeJob(v) PROVE jobStatus'[work[w]] = "deleted"
  BY <1>1, <1>2, <1>4, TakeJobFrame DEF TypeOK
<1>5. ASSUME NEW v \in Workers, PipelineStep(v) PROVE jobStatus'[work[w]] = "deleted"
  <2>1. \/ jobStatus'[work[w]] = jobStatus[work[w]]
        \/ work[v] = work[w] /\ JobExists(work[v])
    BY <1>2, <1>5, PipelineRows
  <2> QED
    BY <1>1, <2>1 DEF JobExists, JobStatus, ActiveJobStatuses
<1>6. CASE RecoverJobs
  BY <1>1, <1>2, <1>6 DEF RecoverJobs, Active, ActiveJobStatuses
<1>7. CASE UNCHANGED dbVars
  BY <1>1, <1>2, <1>7 DEF dbVars
<1>8. CASE SkipJob \/ Shutdown \/ Exit \/ Crash \/ ClearTemp \/ RecoveryRaises
  BY <1>7, <1>8 DEF SkipJob, Shutdown, Exit, Crash, ClearTemp, RecoveryRaises
<1>9. CASE \E r \in Repos : Register(r) \/ \E q \in Requests :
             DeleteCheck(q, r) \/ \E j \in Jobs : StartRead(q, r, j)
  BY <1>1, <1>2, <1>9 DEF Register, DeleteCheck, StartRead, dbVars
<1>10. CASE UNCHANGED vars
  BY <1>7, <1>10 DEF vars
<1> QED
  BY <1>2, <1>3, <1>4, <1>5, <1>6, <1>8, <1>9, <1>10 DEF Next

(* InstallInv for one thread.                                              *)
Installed(w) ==
  /\ pc[w] \notin {"idle", "cloning", "discard", "fail"} => tip[w] \in Commits
  /\ /\ pc[w] \in {"remove_old_index", "place_index", "complete"}
     /\ JobExists(work[w])
     => checkout[RepoOf(w)] = tip[w]
  /\ pc[w] = "complete" /\ built[w] /\ JobExists(work[w]) =>
       index[RepoOf(w)] = tip[w]

(* A thread that does not move keeps what it has installed.                *)
LEMMA InstalledKept ==
  ASSUME NEW w \in Workers, Installed(w),
         pc'[w] = pc[w], work'[w] = work[w], tip'[w] = tip[w], built'[w] = built[w],
         Started(w) =>
           /\ jobRepo'[work[w]] = jobRepo[work[w]]
           /\ JobExists(work[w])' => JobExists(work[w])
           /\ JobExists(work[w]) =>
                /\ checkout'[RepoOf(w)] = checkout[RepoOf(w)]
                /\ index'[RepoOf(w)] = index[RepoOf(w)]
  PROVE  Installed(w)'
<1>1. CASE ~Started(w)
  BY <1>1 DEF Installed, Started
<1>2. CASE Started(w)
  <2>1. RepoOf(w)' = RepoOf(w)
    BY <1>2 DEF RepoOf
  <2>2. JobExists(work[w])' <=> jobStatus'[work[w]] \in JobStatus
    BY DEF JobExists
  <2> QED
    BY <1>2, <2>1, <2>2 DEF Installed
<1> QED
  BY <1>1, <1>2

(* A step of the pipeline installs what it says.                           *)
LEMMA PipelineInstalls ==
  ASSUME TypeOK, RowInv, WorkInv, NEW w \in Workers, PipelineStep(w), Installed(w)
  PROVE  Installed(w)'
<1> DEFINE Placed == {"remove_old_index", "place_index", "complete"}
           NoTip == {"idle", "cloning", "discard", "fail"}
<1>0. work[w] \in Jobs /\ RepoOf(w) \in Repos
  BY PipelineRows
<1>1. ASSUME pc'[w] \in NoTip PROVE Installed(w)'
  BY <1>1 DEF Installed
<1>2. ASSUME pc'[w] \notin Placed, tip'[w] \in Commits PROVE Installed(w)'
  BY <1>2 DEF Installed
<1>3. ASSUME NEW c \in Commits, CloneEnds(w, c) PROVE Installed(w)'
  BY <1>2, <1>3 DEF CloneEnds, TypeOK
<1>4. CASE CloneBegins(w) \/ StageRaises(w) \/ InstallRaises(w) \/ Discard(w)
           \/ Complete(w) \/ RecordFailure(w)
  BY <1>1, <1>4 DEF CloneBegins, StageRaises, InstallRaises, Discard, Complete,
                    RecordFailure, WorkerContinues, WorkerEnds, workerVars, TypeOK
<1>5. CASE StageEnds(w)
  <2>1. pc'[w] \in {"indexing", "parsing", "embedding"} /\ tip'[w] = tip[w]
    BY <1>5 DEF StageEnds, StageAfter, WorkerContinues, TypeOK
  <2>2. tip[w] \in Commits
    BY <1>5 DEF StageEnds, Installed
  <2> QED
    BY <1>2, <2>1, <2>2
<1>6. CASE SkipSearchIndex(w) \/ BuildBegins(w) \/ BuildEnds(w)
  BY <1>2, <1>6 DEF SkipSearchIndex, BuildBegins, BuildEnds, WorkerContinues,
                    workerVars, Installed, TypeOK
<1>7. CASE RemoveOldCheckout(w)
  <2>1. pc'[w] \in {"place_checkout", "discard"} /\ tip'[w] = tip[w]
    BY <1>7 DEF RemoveOldCheckout, WorkerContinues, TypeOK
  <2> QED
    BY <1>2, <1>7, <2>1 DEF RemoveOldCheckout, Installed
<1>8. CASE PlaceCheckout(w)
  <2>1. /\ tip[w] \in Commits /\ UNCHANGED <<work, tip, built, jobRepo>>
        /\ checkout'[RepoOf(w)] = tip[w]
        /\ pc'[w] = IF built[w] THEN "remove_old_index" ELSE "complete"
    BY <1>0, <1>8 DEF PlaceCheckout, WorkerContinues, dbVars, Installed, TypeOK
  <2>2. RepoOf(w)' = RepoOf(w)
    BY <2>1 DEF RepoOf
  <2> QED
    BY <2>1, <2>2 DEF Installed
<1>9. CASE RemoveOldIndex(w)
  <2>1. /\ tip[w] \in Commits /\ UNCHANGED <<work, tip, built, checkout, jobRepo>>
        /\ pc'[w] = "place_index" /\ checkout[RepoOf(w)] = tip[w]
    BY <1>9 DEF RemoveOldIndex, WorkerContinues, dbVars, Installed, TypeOK
  <2>2. RepoOf(w)' = RepoOf(w)
    BY <2>1 DEF RepoOf
  <2> QED
    BY <2>1, <2>2 DEF Installed
<1>10. CASE PlaceIndex(w)
  <2>1. /\ tip[w] \in Commits /\ UNCHANGED <<work, tip, built, checkout, jobStatus, jobRepo>>
        /\ pc'[w] = "complete" /\ index'[RepoOf(w)] = tip[w]
        /\ JobExists(work[w]) => checkout[RepoOf(w)] = tip[w]
    BY <1>0, <1>10 DEF PlaceIndex, WorkerContinues, dbVars, Installed, TypeOK
  <2>2. RepoOf(w)' = RepoOf(w)
    BY <2>1 DEF RepoOf
  <2> QED
    BY <2>1, <2>2 DEF Installed, JobExists
<1> QED
  BY <1>3, <1>4, <1>5, <1>6, <1>7, <1>8, <1>9, <1>10 DEF PipelineStep

(* Every step keeps what the threads have installed.                       *)
LEMMA StepInstallInv ==
  ASSUME TypeOK, RowInv, QueueInv, WorkInv, WorkInv', RequestInv,
         OnePipelinePerRepository, InstallInv, [Next]_vars
  PROVE  InstallInv'
<1>1. \A w \in Workers : Installed(w)
  BY DEF InstallInv, Installed
<1>2. \A w \in Workers : Started(w) =>
        /\ work[w] \in Jobs /\ jobRepo'[work[w]] = jobRepo[work[w]]
        /\ JobExists(work[w]) => RepoOf(w) \in Repos /\ status[RepoOf(w)] # "deleted"
  BY RepoOfStarted DEF WorkInv, RowInv, RepoOf, Registered, RepositoryStatus,
                       ActiveStatuses, PipelineStages
<1>3. ASSUME NEW w \in Workers, PipelineStep(w), NEW v \in Workers PROVE Installed(v)'
  <2>1. CASE v = w
    BY <1>1, <1>3, <2>1, PipelineInstalls
  <2>2. CASE v # w
    <3>1. /\ pc'[v] = pc[v] /\ work'[v] = work[v]
          /\ tip'[v] = tip[v] /\ built'[v] = built[v] /\ Started(w)
      BY <1>3, <2>2, PipelineFrame
    <3>2. Started(v) => RepoOf(v) # RepoOf(w)
      BY <2>2, <3>1 DEF OnePipelinePerRepository, Started
    <3>3. Started(v) /\ JobExists(work[v]) =>
            checkout'[RepoOf(v)] = checkout[RepoOf(v)] /\ index'[RepoOf(v)] = index[RepoOf(v)]
      BY <1>2, <1>3, <3>2, PipelineTrees
    <3>4. Started(v) /\ JobExists(work[v])' => JobExists(work[v])
      BY <3>1, DeletedJobStays DEF Started
    <3> QED
      BY <1>1, <1>2, <3>1, <3>3, <3>4, InstalledKept
  <2> QED
    BY <2>1, <2>2
<1>4. ASSUME ~\E w \in Workers : PipelineStep(w), NEW v \in Workers,
             pc'[v] = pc[v], work'[v] = work[v], tip'[v] = tip[v], built'[v] = built[v]
      PROVE  Installed(v)'
  <2>1. Started(v) /\ JobExists(work[v]) =>
          checkout'[RepoOf(v)] = checkout[RepoOf(v)] /\ index'[RepoOf(v)] = index[RepoOf(v)]
    BY <1>2, <1>4, OnlyThreadsTouchTrees
  <2>2. Started(v) /\ JobExists(work[v])' => JobExists(work[v])
    BY <1>4, DeletedJobStays DEF Started
  <2> QED
    BY <1>1, <1>2, <1>4, <2>1, <2>2, InstalledKept
<1>5. ASSUME ~\E w \in Workers : PipelineStep(w), NEW w \in Workers, TakeJob(w),
             NEW v \in Workers
      PROVE  Installed(v)'
  <2>1. CASE v = w
    BY <1>5, <2>1, TakeJobFrame DEF Installed
  <2>2. CASE v # w
    BY <1>4, <1>5, <2>2, TakeJobFrame
  <2> QED
    BY <2>1, <2>2
<1>6. ASSUME Crash, NEW v \in Workers PROVE Installed(v)'
  BY <1>6 DEF Crash, Installed
<1>7. ASSUME ~\E w \in Workers : PipelineStep(w), UNCHANGED workerVars, NEW v \in Workers
      PROVE  Installed(v)'
  BY <1>4, <1>7 DEF workerVars
<1>8. \A v \in Workers : Installed(v)'
  BY <1>3, <1>5, <1>6, <1>7, ThreadsMove
<1> QED
  BY <1>8 DEF InstallInv, Installed

-----------------------------------------------------------------------------
(* What a completed repository serves.                                     *)

(* Only the closing transaction leaves a repository of a thread completed. *)
LEMMA OnlyCompleteCompletes ==
  ASSUME TypeOK, RowInv, WorkInv, StageInv, NEW w \in Workers, PipelineStep(w),
         status'[RepoOf(w)] = "completed"
  PROVE  Complete(w)
<1>0. work[w] \in Jobs /\ RepoOf(w) \in Repos /\ Started(w)
  BY PipelineRows, PipelineFrame
<1>1. status[RepoOf(w)] # "completed"
  <2>1. CASE JobExists(work[w])
    BY <1>0, <2>1 DEF StageInv, PipelineStages
  <2>2. CASE ~JobExists(work[w])
    BY <1>0, <2>2 DEF RowInv, WorkInv, RepoOf, JobExists, JobStatus, ActiveJobStatuses
  <2> QED
    BY <2>1, <2>2
<1>2. ASSUME UNCHANGED dbVars PROVE FALSE
  BY <1>1, <1>2 DEF dbVars
<1>3. ASSUME NEW stage \in PipelineStages, Update(w, stage) PROVE FALSE
  BY <1>0, <1>3 DEF Update, PipelineStages, TypeOK
<1>4. ASSUME NEW c \in Commits, CloneEnds(w, c) PROVE FALSE
  BY <1>3, <1>4 DEF CloneEnds, PipelineStages
<1>5. ASSUME StageEnds(w) PROVE FALSE
  <2>1. StageAfter[pc[w]] \in PipelineStages
    BY <1>5 DEF StageEnds, StageAfter, PipelineStages
  <2> QED
    BY <1>3, <1>5, <2>1 DEF StageEnds
<1>6. ASSUME RecordFailure(w) PROVE FALSE
  <2>1. status' = [status EXCEPT ![RepoOf(w)] = "failed"] \/ status' = status
    BY <1>6 DEF RecordFailure, RepoOf
  <2> QED
    BY <1>0, <1>1, <2>1 DEF TypeOK
<1>7. ASSUME CloneBegins(w) \/ SkipSearchIndex(w) \/ BuildBegins(w) \/ BuildEnds(w)
             \/ StageRaises(w)
      PROVE  FALSE
  BY <1>2, <1>7 DEF CloneBegins, SkipSearchIndex, BuildBegins, BuildEnds, StageRaises
<1>8. ASSUME RemoveOldCheckout(w) \/ PlaceCheckout(w) \/ RemoveOldIndex(w)
             \/ PlaceIndex(w) \/ InstallRaises(w) \/ Discard(w)
      PROVE  FALSE
  BY <1>2, <1>8 DEF RemoveOldCheckout, PlaceCheckout, RemoveOldIndex, PlaceIndex,
                    InstallRaises, Discard
<1> QED
  BY <1>4, <1>5, <1>6, <1>7, <1>8 DEF PipelineStep

(* The transaction records the commit of the checkout and of the index     *)
(* that its thread has installed.                                          *)
LEMMA CompleteServes ==
  ASSUME TypeOK, RowInv, WorkInv, InstallInv, NEW w \in Workers, Complete(w)
  PROVE  LET r == RepoOf(w) IN
           /\ commit'[r] # None
           /\ checkout'[r] = commit'[r]
           /\ chunks'[r] # None => chunks'[r] = commit'[r] /\ index'[r] = commit'[r]
<1>1. /\ RepoOf(w) \in Repos /\ JobExists(work[w]) /\ pc[w] = "complete"
      /\ checkout' = checkout /\ index' = index
    BY WorkerHasRepository DEF Complete, Started, diskVars
<1>2. /\ tip[w] \in Commits /\ checkout[RepoOf(w)] = tip[w]
      /\ built[w] => index[RepoOf(w)] = tip[w]
    BY <1>1 DEF InstallInv
<1>3. /\ commit'[RepoOf(w)] = tip[w]
      /\ chunks'[RepoOf(w)] = IF built[w] THEN tip[w] ELSE None
    BY <1>1 DEF Complete, TypeOK
<1> QED
  BY <1>1, <1>2, <1>3, ConstantsAreDistinct

(* Otherwise a completed repository was completed before, and neither its  *)
(* row nor its chunk rows change.                                          *)
LEMMA RowsOfCompleted ==
  ASSUME TypeOK, RowInv, WorkInv, RequestInv, [Next]_vars,
         ~\E w \in Workers : PipelineStep(w),
         NEW r \in Repos, status'[r] = "completed"
  PROVE  status[r] = "completed" /\ commit'[r] = commit[r] /\ chunks'[r] = chunks[r]
<1> DEFINE Kept == status[r] = "completed" /\ commit'[r] = commit[r] /\ chunks'[r] = chunks[r]
<1>1. CASE UNCHANGED dbVars
  BY <1>1 DEF dbVars
<1>2. ASSUME NEW q \in Requests, RequestStep(q) PROVE Kept
  <2>1. rpc[q] # "idle" => rrepo[q] \in Repos
    BY DEF RequestInv, RequestOK
  <2>2. CASE StartCommit(q)
    <3>1. status' = status \/ status' = [status EXCEPT ![rrepo[q]] = "queued"]
      BY <2>2 DEF StartCommit
    <3> QED
      BY <2>2, <3>1 DEF StartCommit, TypeOK
  <2>3. CASE RecordEnqueueFailure(q)
    <3>1. status' = status \/ status' = [status EXCEPT ![rrepo[q]] = "failed"]
      BY <2>3 DEF RecordEnqueueFailure
    <3> QED
      BY <2>3, <3>1 DEF RecordEnqueueFailure, TypeOK
  <2>4. CASE DeleteCommit(q)
    BY <2>1, <2>4 DEF DeleteCommit, TypeOK
  <2> QED
    BY <1>1, <1>2, <2>2, <2>3, <2>4
    DEF RequestStep, StartCheck, StartRollback, Enqueue, EnqueueRaises,
        DeleteRollback, RemoveCheckout, RemoveIndex
<1>3. ASSUME NEW w \in Workers, TakeJob(w) PROVE Kept
  <2>1. /\ status' = [status EXCEPT ![jobRepo[Head(queue)]] = "cloning"]
        /\ UNCHANGED <<commit, chunks>>
    BY <1>3 DEF TakeJob
  <2> QED
    BY <2>1 DEF TypeOK
<1>4. ASSUME NEW s \in Repos, Register(s) PROVE Kept
  BY <1>4 DEF Register, TypeOK
<1>5. CASE RecoverJobs
  <2>1. /\ status'[r] \in {status[r], "failed"}
        /\ UNCHANGED <<commit, chunks>>
    BY <1>5 DEF RecoverJobs
  <2> QED
    BY <2>1
<1>6. CASE SkipJob \/ Shutdown \/ Exit \/ Crash \/ ClearTemp \/ RecoveryRaises
  BY <1>1, <1>6 DEF SkipJob, Shutdown, Exit, Crash, ClearTemp, RecoveryRaises
<1>7. CASE \E q \in Requests, s \in Repos :
             DeleteCheck(q, s) \/ \E j \in Jobs : StartRead(q, s, j)
  BY <1>1, <1>7 DEF DeleteCheck, StartRead
<1>8. CASE UNCHANGED vars
  BY <1>1, <1>8 DEF vars
<1> QED
  BY <1>2, <1>3, <1>4, <1>5, <1>6, <1>7, <1>8 DEF Next

(* A step of the pipeline changes the rows of its repository only.         *)
LEMMA PipelineCommits ==
  ASSUME TypeOK, NEW w \in Workers, PipelineStep(w), NEW r \in Repos, r # RepoOf(w)
  PROVE  commit'[r] = commit[r] /\ chunks'[r] = chunks[r]
<1>1. CASE UNCHANGED <<commit, chunks>>
  BY <1>1
<1>2. CASE Complete(w)
  BY <1>2 DEF Complete, TypeOK
<1>3. CASE \/ CloneBegins(w) \/ (\E c \in Commits : CloneEnds(w, c)) \/ StageEnds(w)
           \/ SkipSearchIndex(w) \/ BuildBegins(w) \/ BuildEnds(w) \/ StageRaises(w)
  BY <1>1, <1>3 DEF CloneBegins, CloneEnds, StageEnds, SkipSearchIndex, BuildBegins,
                    BuildEnds, StageRaises, Update, dbVars
<1>4. CASE \/ RemoveOldCheckout(w) \/ PlaceCheckout(w) \/ RemoveOldIndex(w)
           \/ PlaceIndex(w) \/ InstallRaises(w) \/ Discard(w) \/ RecordFailure(w)
  BY <1>1, <1>4 DEF RemoveOldCheckout, PlaceCheckout, RemoveOldIndex, PlaceIndex,
                    InstallRaises, Discard, RecordFailure, dbVars
<1> QED
  BY <1>2, <1>3, <1>4 DEF PipelineStep

(* So every step keeps what a completed repository serves.                 *)
LEMMA StepCompletedServes ==
  ASSUME TypeOK, RowInv, QueueInv, WorkInv, RequestInv, StageInv, InstallInv,
         CompletedServesItsCommit, [Next]_vars
  PROVE  CompletedServesItsCommit'
<1> DEFINE Serves(r) ==
      /\ commit[r] # None
      /\ checkout[r] = commit[r]
      /\ chunks[r] # None => chunks[r] = commit[r] /\ index[r] = commit[r]
<1>1. SUFFICES ASSUME NEW r \in Repos, status'[r] = "completed" PROVE Serves(r)'
  BY DEF CompletedServesItsCommit
<1>2. status[r] = "completed" => Serves(r)
  BY DEF CompletedServesItsCommit
<1>3. ASSUME NEW w \in Workers, PipelineStep(w), RepoOf(w) = r PROVE Serves(r)'
  BY <1>1, <1>3, OnlyCompleteCompletes, CompleteServes
<1>4. ASSUME NEW w \in Workers, PipelineStep(w), RepoOf(w) # r PROVE Serves(r)'
  <2>1. status'[r] = status[r]
    BY <1>4, PipelineRows
  <2>2. commit'[r] = commit[r] /\ chunks'[r] = chunks[r]
    BY <1>4, PipelineCommits
  <2>3. checkout'[r] = checkout[r] /\ index'[r] = index[r]
    BY <1>4, PipelineTrees
  <2> QED
    BY <1>1, <1>2, <2>1, <2>2, <2>3
<1>5. ASSUME ~\E w \in Workers : PipelineStep(w) PROVE Serves(r)'
  <2>1. status[r] = "completed" /\ commit'[r] = commit[r] /\ chunks'[r] = chunks[r]
    BY <1>1, <1>5, RowsOfCompleted
  <2>2. checkout'[r] = checkout[r] /\ index'[r] = index[r]
    BY <1>5, <2>1, OnlyThreadsTouchTrees
  <2> QED
    BY <1>2, <2>1, <2>2
<1> QED
  BY <1>3, <1>4, <1>5

-----------------------------------------------------------------------------
(* The theorems.                                                           *)

(* The initial state satisfies the inductive invariant.                    *)
LEMMA InitIndInv == Init => IndInv
<1>1. SUFFICES ASSUME Init PROVE IndInv
  OBVIOUS
<1>2. TypeOK
  BY <1>1, InitTypeOK
<1>3. ProcessInv
  BY <1>1 DEF Init, ProcessInv, Started
<1>4. RowInv
  BY <1>1 DEF Init, RowInv, JobExists, Active, JobStatus, ActiveJobStatuses
<1>5. QueueInv /\ WorkInv
  BY <1>1 DEF Init, QueueInv, WorkInv, Started, Queued
<1>6. RequestInv
  BY <1>1 DEF Init, RequestInv, RequestOK, Starting, Enqueuing, Removing
<1>7. OnePipelinePerRepository
  BY <1>1 DEF Init, OnePipelinePerRepository
<1>8. StatusFollowsPipeline /\ StageInv
  BY <1>1 DEF Init, StatusFollowsPipeline, StageInv, Started, ActiveStatuses, PipelineStages
<1>9. InstallInv
  BY <1>1 DEF Init, InstallInv
<1>10. CompletedServesItsCommit
  BY <1>1 DEF Init, CompletedServesItsCommit
<1> QED
  BY <1>2, <1>3, <1>4, <1>5, <1>6, <1>7, <1>8, <1>9, <1>10 DEF IndInv

(* Every step keeps it: each part from the parts the step lemmas name.     *)
LEMMA StepIndInv == IndInv /\ [Next]_vars => IndInv'
<1>1. SUFFICES ASSUME IndInv, [Next]_vars PROVE IndInv'
  OBVIOUS
<1>2. /\ TypeOK /\ ProcessInv /\ RowInv /\ QueueInv /\ WorkInv /\ RequestInv
      /\ OnePipelinePerRepository /\ StatusFollowsPipeline
      /\ StageInv /\ InstallInv /\ CompletedServesItsCommit
  BY <1>1 DEF IndInv
<1>3. TypeOK' /\ ProcessInv' /\ RowInv' /\ QueueInv'
  BY <1>1, <1>2, StepTypeOK, StepProcessInv, StepRowInv, StepQueueInv
<1>4. WorkInv' /\ RequestInv' /\ OnePipelinePerRepository'
  BY <1>1, <1>2, StepWorkInv, StepRequestInv, StepOnePipeline
<1>5. StatusFollowsPipeline' /\ StageInv'
  BY <1>1, <1>2, <1>4, StepShown
<1>6. InstallInv' /\ CompletedServesItsCommit'
  BY <1>1, <1>2, <1>4, StepInstallInv, StepCompletedServes
<1> QED
  BY <1>3, <1>4, <1>5, <1>6 DEF IndInv

(* The inductive invariant holds in every reachable state.                 *)
THEOREM Invariance == Spec => []IndInv
BY InitIndInv, StepIndInv, PTL DEF Spec

(* Types: no row, queue entry, directory or local variable ever holds      *)
(* anything else than what the code puts there.                            *)
THEOREM TypesHold == Spec => []TypeOK
<1>1. IndInv => TypeOK
  BY DEF IndInv
<1> QED
  BY <1>1, Invariance, PTL

(* The partial unique index on jobs is enough to keep two pipelines from   *)
(* working on the same repository, whatever requests, workers, crashes and *)
(* failures do, although neither the disk nor the queue is locked.         *)
THEOREM PipelinesAreExclusive == Spec => []OnePipelinePerRepository
<1>1. IndInv => OnePipelinePerRepository
  BY DEF IndInv
<1> QED
  BY <1>1, Invariance, PTL

(* The status a client polls follows the pipeline.                         *)
THEOREM ShownStatusIsTrue == Spec => []StatusFollowsPipeline
<1>1. IndInv => StatusFollowsPipeline
  BY DEF IndInv
<1> QED
  BY <1>1, Invariance, PTL

(* A repository shown as completed has the checkout and the search index   *)
(* of the commit in its row.                                               *)
THEOREM CompletedIsServed == Spec => []CompletedServesItsCommit
<1>1. IndInv => CompletedServesItsCommit
  BY DEF IndInv
<1> QED
  BY <1>1, Invariance, PTL

=============================================================================
