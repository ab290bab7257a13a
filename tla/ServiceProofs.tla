---------------------------- MODULE ServiceProofs ----------------------------
(***************************************************************************)
(* What RepositoryIndexing owes to its clients.                            *)
(*                                                                         *)
(* First, that no job and no temporary clone is left behind.  The code     *)
(* gives this up when the database or the file system refuses to record a  *)
(* failure or to remove a directory, so each theorem names the faults it   *)
(* excludes; crashes, shutdowns and failures of every stage stay in.       *)
(*                                                                         *)
(* Then, that it implements IndexingService: under the mapping of Service  *)
(* every step is a step of the abstract service or none.                   *)
(*                                                                         *)
(* Last, what searches find that run while indexes are swapped, for any    *)
(* number of searches and any size of the cache (SearchDuringIndexing).    *)
(***************************************************************************)
EXTENDS SearchDuringIndexing, RepositoryIndexingProofs, FiniteSetTheorems

-----------------------------------------------------------------------------
(* Jobs.                                                                   *)

\* A request, the queue or a thread has the job.
WithRequest(j) == \E q \in Requests : Enqueuing(q) /\ rjob[q] = j
WithThread(j)  == \E w \in Workers : Started(w) /\ work[w] = j
Held(j) == WithRequest(j) \/ Queued(j) \/ WithThread(j) \/ proc \in {"stopping", "down"}

\* NoLostJob in these words.
HeldInv == \A j \in Jobs : Active(j) => Held(j)

(* A step of a request hands its job to the queue or fails it.             *)
LEMMA RequestHolds ==
  ASSUME ~DatabaseMayFail, TypeOK, RequestInv, HeldInv,
         NEW q \in Requests, RequestStep(q)
  PROVE  HeldInv'
<1>1. SUFFICES ASSUME NEW j \in Jobs, Active(j)' PROVE Held(j)'
  BY DEF HeldInv
<1>2. UNCHANGED <<proc, pc, work>>
  BY DEF RequestStep, StartCheck, StartCommit, StartRollback, Enqueue, EnqueueRaises,
         RecordEnqueueFailure, DeleteCommit, DeleteRollback, RemoveCheckout, RemoveIndex,
         procVars, workerVars
<1>3. CASE Enqueue(q)
  <2>1. queue' = Append(queue, rjob[q]) /\ rjob[q] \in Jobs /\ queue \in Seq(Jobs)
    BY <1>3 DEF Enqueue, RequestInv, RequestOK, Enqueuing, TypeOK
  <2>2. Queued(j)' <=> Queued(j) \/ j = rjob[q]
    BY <2>1, QueuedAfterAppend DEF Queued
  <2>3. \A p \in Requests : p # q => rpc'[p] = rpc[p] /\ rjob'[p] = rjob[p]
    BY <1>3 DEF Enqueue, RequestEnds, TypeOK
  <2>4. Active(j)
    BY <1>1, <1>3 DEF Enqueue, dbVars, Active
  <2> QED
    BY <1>2, <2>2, <2>3, <2>4
    DEF HeldInv, Held, WithRequest, WithThread, Enqueuing, Started
<1>4. CASE ~Enqueue(q)
  <2>1. Queued(j)' <=> Queued(j)
    BY <1>4 DEF RequestStep, StartCheck, StartCommit, StartRollback, EnqueueRaises,
                RecordEnqueueFailure, DeleteCommit, DeleteRollback, RemoveCheckout,
                RemoveIndex, procVars, Queued
  <2>2. \A p \in Requests : p # q => rpc'[p] = rpc[p] /\ rjob'[p] = rjob[p]
    BY <1>4
    DEF RequestStep, StartCheck, StartCommit, StartRollback, EnqueueRaises,
        RecordEnqueueFailure, DeleteCommit, DeleteRollback, RemoveCheckout, RemoveIndex,
        RequestEnds, RequestContinues, TypeOK
  <2>3. ASSUME Active(j), ~Enqueuing(q) \/ rjob[q] # j PROVE Held(j)'
    BY <1>2, <2>1, <2>2, <2>3
    DEF HeldInv, Held, WithRequest, WithThread, Enqueuing, Started
  <2>4. CASE StartCommit(q)
    <3>1. rjob' = rjob /\ rpc'[q] = "enqueue"
      BY <2>4 DEF StartCommit, RequestContinues, TypeOK
    <3>2. ~Enqueuing(q)
      BY <2>4 DEF StartCommit, Enqueuing
    <3>3. CASE j = rjob[q]
      BY <3>1, <3>3 DEF Held, WithRequest, Enqueuing
    <3>4. CASE j # rjob[q]
      BY <1>1, <2>3, <2>4, <3>2, <3>4 DEF StartCommit, Active, TypeOK
    <3> QED
      BY <3>3, <3>4
  <2>5. CASE EnqueueRaises(q)
    <3>1. rjob' = rjob /\ rpc'[q] = "enqueue_failed" /\ Active(j)
      BY <1>1, <2>5 DEF EnqueueRaises, RequestContinues, TypeOK, dbVars, Active
    <3>2. CASE j = rjob[q]
      BY <3>1, <3>2 DEF Held, WithRequest, Enqueuing
    <3> QED
      BY <2>3, <3>1, <3>2
  <2>6. CASE RecordEnqueueFailure(q)
    <3>1. j # rjob[q] /\ Active(j)
      BY <1>1, <2>6
      DEF RecordEnqueueFailure, TypeOK, Active, JobExists, JobStatus, ActiveJobStatuses
    <3> QED
      BY <2>3, <3>1
  <2>7. CASE \/ StartCheck(q) \/ StartRollback(q) \/ DeleteCommit(q) \/ DeleteRollback(q)
             \/ RemoveCheckout(q) \/ RemoveIndex(q)
    <3>1. ~Enqueuing(q)
      BY <2>7 DEF StartCheck, StartRollback, DeleteCommit, DeleteRollback, RemoveCheckout,
                  RemoveIndex, Enqueuing
    <3>2. Active(j)
      BY <1>1, <2>7 DEF StartCheck, StartRollback, DeleteCommit, DeleteRollback,
                        RemoveCheckout, RemoveIndex, dbVars, Active, ActiveJobStatuses
    <3> QED
      BY <2>3, <3>1, <3>2
  <2> QED
    BY <1>4, <2>4, <2>5, <2>6, <2>7 DEF RequestStep
<1> QED
  BY <1>3, <1>4

(* What is behind the head of the queue stays in the queue.                *)
LEMMA StillQueuedAfterTail ==
  ASSUME queue \in Seq(Jobs), queue # <<>>, queue' = Tail(queue),
         NEW j \in Jobs, Queued(j), j # Head(queue)
  PROVE  Queued(j)'
<1>1. /\ Len(queue) \in Nat \ {0} /\ Len(queue') = Len(queue) - 1
      /\ Head(queue) = queue[1]
      /\ \A i \in 1..Len(queue') : queue'[i] = queue[i + 1]
  OBVIOUS
<1>2. PICK i \in 1..Len(queue) : queue[i] = j
  BY DEF Queued
<1>3. i - 1 \in 1..Len(queue') /\ queue'[i - 1] = j
  BY <1>1, <1>2
<1> QED
  BY <1>3 DEF Queued

(* A thread ends its job before it lets go of it.                          *)
LEMMA PipelineHolds ==
  ASSUME ~DatabaseMayFail, TypeOK, WorkInv, HeldInv,
         NEW w \in Workers, PipelineStep(w)
  PROVE  HeldInv'
<1>1. SUFFICES ASSUME NEW j \in Jobs, Active(j)' PROVE Held(j)'
  BY DEF HeldInv
<1>2. /\ Started(w) /\ UNCHANGED <<queue, proc, requestVars>>
      /\ \A v \in Workers \ {w} : pc'[v] = pc[v] /\ work'[v] = work[v]
      /\ Started(w)' => work'[w] = work[w]
  BY PipelineFrame
<1>3. Active(j)
  <2>1. CASE Complete(w)
    BY <1>1, <2>1 DEF Complete, TypeOK, Active, ActiveJobStatuses
  <2>2. CASE RecordFailure(w)
    BY <1>1, <2>2 DEF RecordFailure, TypeOK, Active, ActiveJobStatuses
  <2>3. CASE jobStatus' = jobStatus
    BY <1>1, <2>3 DEF Active
  <2> QED
    BY <2>1, <2>2, <2>3
    DEF PipelineStep, CloneBegins, CloneEnds, Update, StageEnds, SkipSearchIndex,
        BuildBegins, BuildEnds, StageRaises, RemoveOldCheckout, PlaceCheckout,
        RemoveOldIndex, PlaceIndex, InstallRaises, Discard, dbVars
<1>4. CASE Started(w)' \/ work[w] # j
  BY <1>2, <1>3, <1>4
  DEF HeldInv, Held, WithRequest, WithThread, Enqueuing, Started, Queued, requestVars
<1>5. CASE ~Started(w)' /\ work[w] = j
  <2>1. CASE Complete(w)
    BY <1>1, <1>5, <2>1 DEF Complete, TypeOK, Active, ActiveJobStatuses
  <2>2. CASE RecordFailure(w)
    BY <1>1, <1>3, <1>5, <2>2
    DEF RecordFailure, TypeOK, Active, JobExists, JobStatus, ActiveJobStatuses
  <2>3. CASE ~Complete(w) /\ ~RecordFailure(w)
    <3>1. pc'[w] # "idle"
      BY <1>2, <2>3
      DEF PipelineStep, CloneBegins, CloneEnds, StageEnds, StageAfter, SkipSearchIndex,
          BuildBegins, BuildEnds, StageRaises, RemoveOldCheckout, PlaceCheckout,
          RemoveOldIndex, PlaceIndex, InstallRaises, Discard, WorkerContinues,
          workerVars, TypeOK, Started
    <3> QED
      BY <1>5, <3>1 DEF Started
  <2> QED
    BY <2>1, <2>2, <2>3
<1> QED
  BY <1>4, <1>5

(* Every step keeps every active job in somebody's hands.                  *)
LEMMA StepHeld ==
  ASSUME ~DatabaseMayFail, IndInv, HeldInv, [Next]_vars
  PROVE  HeldInv'
<1>1. TypeOK /\ ProcessInv /\ RowInv /\ QueueInv /\ WorkInv /\ RequestInv
  BY DEF IndInv
<1>2. ASSUME NEW q \in Requests, RequestStep(q) PROVE HeldInv'
  BY <1>1, <1>2, RequestHolds
<1>3. ASSUME NEW w \in Workers, PipelineStep(w) PROVE HeldInv'
  BY <1>1, <1>3, PipelineHolds
<1>4. ASSUME NEW w \in Workers, TakeJob(w) PROVE HeldInv'
  <2>1. SUFFICES ASSUME NEW j \in Jobs, Active(j)' PROVE Held(j)'
    BY DEF HeldInv
  <2>2. /\ ~Started(w) /\ Started(w)' /\ work'[w] = Head(queue)
        /\ UNCHANGED <<proc, requestVars>>
        /\ Head(queue) \in Jobs /\ queue' = Tail(queue)
        /\ jobStatus' = [jobStatus EXCEPT ![Head(queue)] = "running"]
        /\ \A v \in Workers \ {w} : pc'[v] = pc[v] /\ work'[v] = work[v]
    BY <1>1, <1>4, TakeJobFrame
  <2>3. CASE j = Head(queue)
    BY <2>2, <2>3 DEF Held, WithThread
  <2>4. CASE j # Head(queue)
    <3>1. Active(j)
      BY <1>1, <2>1, <2>2, <2>4 DEF TypeOK, Active
    <3>2. Queued(j) => Queued(j)'
      BY <1>1, <1>4, <2>2, <2>4, StillQueuedAfterTail DEF TypeOK, TakeJob
    <3> QED
      BY <2>2, <3>1, <3>2
      DEF HeldInv, Held, WithRequest, WithThread, Enqueuing, Started, requestVars
  <2> QED
    BY <2>3, <2>4
<1>5. CASE SkipJob
  <2>1. SUFFICES ASSUME NEW j \in Jobs, Active(j)' PROVE Held(j)'
    BY DEF HeldInv
  <2>2. /\ queue # <<>> /\ jobStatus[Head(queue)] # "queued" /\ queue' = Tail(queue)
        /\ UNCHANGED <<proc, dbVars, workerVars, requestVars>>
    BY <1>5 DEF SkipJob
  <2>3. Queued(Head(queue)) /\ Head(queue) \in Jobs
    BY <1>1, <2>2, QueuedAfterTail DEF TypeOK
  <2>4. Active(j) /\ j # Head(queue)
    BY <1>1, <2>1, <2>2, <2>3 DEF dbVars, Active, QueueInv, ActiveJobStatuses
  <2>5. Queued(j) => Queued(j)'
    BY <1>1, <2>2, <2>4, StillQueuedAfterTail DEF TypeOK
  <2> QED
    BY <2>2, <2>4, <2>5
    DEF HeldInv, Held, WithRequest, WithThread, Enqueuing, Started, workerVars, requestVars
<1>6. CASE RecoverJobs
  BY <1>6 DEF RecoverJobs, HeldInv, Active, ActiveJobStatuses
<1>7. CASE Shutdown \/ Exit \/ Crash
  BY <1>7 DEF Shutdown, Exit, Crash, HeldInv, Held
<1>8. CASE ClearTemp
  <2>1. \A j \in Jobs : ~Held(j)
    BY <1>1, <1>8 DEF ClearTemp, ProcessInv, Held, WithRequest, WithThread, Enqueuing, Queued
  <2> QED
    BY <1>8, <2>1 DEF ClearTemp, dbVars, HeldInv, Active
<1>9. ~RecoveryRaises
  BY DEF RecoveryRaises
<1>10. ASSUME UNCHANGED <<jobStatus, queue, proc, workerVars>>,
              \A q \in Requests : Enqueuing(q) => rpc'[q] = rpc[q] /\ rjob'[q] = rjob[q]
       PROVE  HeldInv'
  BY <1>10 DEF HeldInv, Held, WithRequest, WithThread, Queued, Active, Enqueuing, Started,
               workerVars
<1>11. ASSUME NEW q \in Requests, NEW r \in Repos, NEW j \in Jobs, StartRead(q, r, j)
       PROVE  HeldInv'
  BY <1>1, <1>10, <1>11 DEF StartRead, dbVars, procVars, Enqueuing, TypeOK
<1>12. ASSUME NEW q \in Requests, NEW r \in Repos, DeleteCheck(q, r) PROVE HeldInv'
  BY <1>1, <1>10, <1>12 DEF DeleteCheck, dbVars, procVars, Enqueuing, TypeOK
<1>13. CASE (\E r \in Repos : Register(r)) \/ UNCHANGED vars
  BY <1>10, <1>13 DEF Register, vars, dbVars, procVars, requestVars
<1> QED
  BY <1>2, <1>3, <1>4, <1>5, <1>6, <1>7, <1>8, <1>9, <1>11, <1>12, <1>13 DEF Next

(* Without database errors an active job is always with the request that   *)
(* created it, in the queue, with a thread, or about to be recovered.      *)
THEOREM JobsAreNotLost ==
  ASSUME ~DatabaseMayFail
  PROVE  Spec => []NoLostJob
<1>1. Init => HeldInv
  BY DEF Init, HeldInv, Active, ActiveJobStatuses
<1>2. IndInv /\ HeldInv /\ [Next]_vars => HeldInv'
  BY StepHeld
<1>3. HeldInv => NoLostJob
  BY DEF HeldInv, Held, WithRequest, WithThread, Enqueuing, Started, NoLostJob
<1> QED
  BY <1>1, <1>2, <1>3, Invariance, PTL DEF Spec

-----------------------------------------------------------------------------
(* Temporary clones.                                                       *)

\* Where a thread still has its clone to rename or to discard.
CloneSteps == PipelineStages \cup {"remove_old_checkout", "place_checkout", "discard"}

\* Every clone belongs to such a thread once the recovery has cleared the rest.
CloneInv ==
  proc \in {"up", "stopping"} =>
    \A j \in tmpCheckout : \E w \in Workers : work[w] = j /\ pc[w] \in CloneSteps

(* A step of a thread keeps its clone with it until it is gone.            *)
LEMMA PipelineKeepsClone ==
  ASSUME ~FilesystemMayFail, TypeOK, CloneInv, NEW w \in Workers, PipelineStep(w)
  PROVE  CloneInv'
<1>1. SUFFICES ASSUME proc \in {"up", "stopping"}, NEW j \in tmpCheckout'
               PROVE  \E v \in Workers : work'[v] = j /\ pc'[v] \in CloneSteps
  BY PipelineFrame DEF CloneInv
<1>2. /\ Started(w)
      /\ \A v \in Workers \ {w} : pc'[v] = pc[v] /\ work'[v] = work[v]
      /\ Started(w)' => work'[w] = work[w]
  BY PipelineFrame
<1>3. ASSUME pc'[w] \in CloneSteps, j \in tmpCheckout \/ j = work[w]
      PROVE  \E v \in Workers : work'[v] = j /\ pc'[v] \in CloneSteps
  <2>1. work'[w] = work[w]
    BY <1>2, <1>3 DEF Started, CloneSteps, PipelineStages
  <2> QED
    BY <1>1, <1>2, <1>3, <2>1 DEF CloneInv
<1>4. ASSUME pc[w] \notin CloneSteps, j \in tmpCheckout
      PROVE  \E v \in Workers : work'[v] = j /\ pc'[v] \in CloneSteps
  BY <1>1, <1>2, <1>4 DEF CloneInv
<1>5. ASSUME j \in tmpCheckout, j # work[w]
      PROVE  \E v \in Workers : work'[v] = j /\ pc'[v] \in CloneSteps
  BY <1>1, <1>2, <1>5 DEF CloneInv
<1>6. CASE CloneBegins(w)
  BY <1>1, <1>3, <1>6 DEF CloneBegins, workerVars, CloneSteps, PipelineStages
<1>7. ASSUME NEW c \in Commits, CloneEnds(w, c)
      PROVE  \E v \in Workers : work'[v] = j /\ pc'[v] \in CloneSteps
  BY <1>1, <1>3, <1>7 DEF CloneEnds, diskVars, TypeOK, CloneSteps, PipelineStages
<1>8. CASE StageEnds(w) \/ SkipSearchIndex(w) \/ StageRaises(w) \/ RemoveOldCheckout(w)
  BY <1>1, <1>3, <1>8 DEF StageEnds, StageAfter, SkipSearchIndex, StageRaises,
     RemoveOldCheckout, WorkerContinues, diskVars, TypeOK, CloneSteps, PipelineStages
<1>9. CASE BuildBegins(w) \/ BuildEnds(w)
  BY <1>1, <1>3, <1>9 DEF BuildBegins, BuildEnds, workerVars, diskVars, TypeOK, CloneSteps,
     PipelineStages
<1>10. CASE PlaceCheckout(w)
  BY <1>1, <1>5, <1>10 DEF PlaceCheckout
<1>11. CASE RemoveOldIndex(w) \/ PlaceIndex(w) \/ Complete(w) \/ RecordFailure(w)
  BY <1>1, <1>4, <1>11 DEF RemoveOldIndex, PlaceIndex, Complete, RecordFailure, diskVars,
     CloneSteps, PipelineStages
<1>12. CASE InstallRaises(w)
  BY <1>1, <1>3, <1>12 DEF InstallRaises, WorkerContinues, diskVars, TypeOK, CloneSteps
<1>13. CASE Discard(w)
  BY <1>1, <1>5, <1>13 DEF Discard
<1> QED
  BY <1>6, <1>7, <1>8, <1>9, <1>10, <1>11, <1>12, <1>13 DEF PipelineStep

(* So does every other step.                                               *)
LEMMA StepCloneInv ==
  ASSUME ~DatabaseMayFail, ~FilesystemMayFail, TypeOK, CloneInv, [Next]_vars
  PROVE  CloneInv'
<1>1. ASSUME NEW w \in Workers, PipelineStep(w) PROVE CloneInv'
  BY <1>1, PipelineKeepsClone
<1>2. ASSUME NEW w \in Workers, TakeJob(w) PROVE CloneInv'
  <2>1. /\ ~Started(w) /\ proc' = proc
        /\ \A v \in Workers \ {w} : pc'[v] = pc[v] /\ work'[v] = work[v]
    BY <1>2, TakeJobFrame
  <2>2. tmpCheckout' = tmpCheckout
    BY <1>2 DEF TakeJob, diskVars
  <2>3. pc[w] \notin CloneSteps
    BY <2>1 DEF Started, CloneSteps, PipelineStages
  <2> QED
    BY <2>1, <2>2, <2>3 DEF CloneInv
<1>3. CASE UNCHANGED <<tmpCheckout, pc, work>> /\ (proc' = "stopping" => proc \in {"up", "stopping"})
           /\ (proc' = "up" => proc = "up")
  BY <1>3 DEF CloneInv
<1>4. ASSUME NEW q \in Requests, RequestStep(q) PROVE CloneInv'
  BY <1>3, <1>4 DEF RequestStep, StartCheck, StartCommit, StartRollback, Enqueue,
     EnqueueRaises, RecordEnqueueFailure, DeleteCommit, DeleteRollback, RemoveCheckout,
     RemoveIndex, diskVars, workerVars, procVars
<1>5. CASE Crash \/ Exit \/ RecoverJobs
  BY <1>5 DEF Crash, Exit, RecoverJobs, CloneInv
<1>6. CASE ClearTemp
  BY <1>6 DEF ClearTemp, CloneInv
<1>7. ~RecoveryRaises
  BY DEF RecoveryRaises
<1>8. CASE Shutdown \/ SkipJob \/ (\E r \in Repos : Register(r))
  BY <1>3, <1>8 DEF Shutdown, SkipJob, Register, diskVars, workerVars, procVars
<1>9. CASE \E q \in Requests, r \in Repos :
             DeleteCheck(q, r) \/ \E j \in Jobs : StartRead(q, r, j)
  BY <1>3, <1>9 DEF DeleteCheck, StartRead, diskVars, workerVars, procVars
<1>10. CASE UNCHANGED vars
  BY <1>3, <1>10 DEF vars, diskVars, workerVars, procVars
<1> QED
  BY <1>1, <1>2, <1>4, <1>5, <1>6, <1>7, <1>8, <1>9, <1>10 DEF Next

(* Without database and file system errors no temporary clone is left      *)
(* behind while the process serves, through crashes and restarts.          *)
THEOREM ClonesAreOwned ==
  ASSUME ~DatabaseMayFail, ~FilesystemMayFail
  PROVE  Spec => []TempCheckoutsHaveOwners
<1>1. Init => CloneInv
  BY DEF Init, CloneInv
<1>2. TypeOK /\ CloneInv /\ [Next]_vars => CloneInv'
  BY StepCloneInv
<1>3. CloneInv => TempCheckoutsHaveOwners
  BY DEF CloneInv, TempCheckoutsHaveOwners
<1> QED
  BY <1>1, <1>2, <1>3, TypesHold, PTL DEF Spec

-----------------------------------------------------------------------------

\* The mapping of Service, by name.
Row == [r \in Repos |-> IF Registered(r) THEN "present" ELSE status[r]]
Run == [j \in Jobs |-> IF Active(j) THEN "active" ELSE jobStatus[j]]

-----------------------------------------------------------------------------
(* What the mapping needs beyond IndInv.                                   *)

\* A job without a row has no repository yet, and a repository without a
\* row serves nothing.
NothingWithoutRow ==
  /\ \A j \in Jobs : jobStatus[j] = "absent" => jobRepo[j] = None
  /\ \A r \in Repos : ~Registered(r) => commit[r] = None

\* The repository of a request was registered at some time.
KnownRepositories ==
  \A q \in Requests : rrepo[q] # None => status[rrepo[q]] # "absent"

-----------------------------------------------------------------------------
(* Steps a client does not see.                                            *)

\* Which rows exist, which jobs are active, and what is served stay.
Unseen ==
  /\ UNCHANGED <<commit, jobRepo>>
  /\ \A r \in Repos :
       /\ Registered(r)' <=> Registered(r)
       /\ ~Registered(r) => status'[r] = status[r]
  /\ \A j \in Jobs :
       /\ Active(j)' <=> Active(j)
       /\ ~Active(j) => jobStatus'[j] = jobStatus[j]

(* Such a step leaves the abstract state and the extra invariant alone.    *)
LEMMA UnseenStutters ==
  ASSUME Unseen
  PROVE  UNCHANGED Service!vars /\ (NothingWithoutRow => NothingWithoutRow')
<1>1. Row' = Row /\ Run' = Run
  BY DEF Unseen, Row, Run
<1>2. UNCHANGED Service!vars
  BY <1>1 DEF Service!vars, Row, Run, Unseen
<1>3. ASSUME NothingWithoutRow PROVE NothingWithoutRow'
  <2>1. \A j \in Jobs : jobStatus'[j] = "absent" => jobStatus[j] = "absent"
    BY DEF Unseen, Active, ActiveJobStatuses
  <2> QED
    BY <1>3, <2>1 DEF Unseen, NothingWithoutRow
<1> QED
  BY <1>2, <1>3

(* Writing a status of the enum into an existing row is not seen.          *)
LEMMA StatusWrite ==
  ASSUME TypeOK, NEW r \in Repos, Registered(r), NEW s \in RepositoryStatus,
         status' = [status EXCEPT ![r] = s],
         UNCHANGED <<commit, jobRepo>>,
         \A j \in Jobs : /\ Active(j)' <=> Active(j)
                         /\ ~Active(j) => jobStatus'[j] = jobStatus[j]
  PROVE  Unseen
BY DEF Unseen, TypeOK, Registered

(* Steps that leave the rows alone are not seen.                           *)
LEMMA RowsAlone ==
  ASSUME UNCHANGED <<status, commit, jobStatus, jobRepo>>
  PROVE  Unseen
BY DEF Unseen, Registered, Active

(* The job of a worker thread, while its row exists, is active, and the    *)
(* repository of a job whose row exists is registered.                     *)
LEMMA WorkIsActive ==
  ASSUME TypeOK, RowInv, WorkInv, NEW w \in Workers, Started(w), JobExists(work[w])
  PROVE  /\ work[w] \in Jobs /\ jobStatus[work[w]] = "running"
         /\ RepoOf(w) \in Repos /\ Registered(RepoOf(w))
BY DEF WorkInv, RowInv, JobExists, JobStatus, ActiveJobStatuses, RepoOf

(* Entering a stage is not seen.                                           *)
LEMMA UpdateUnseen ==
  ASSUME TypeOK, RowInv, WorkInv, NEW w \in Workers, Started(w),
         NEW stage \in PipelineStages, Update(w, stage)
  PROVE  Unseen
<1>1. /\ JobExists(work[w])
      /\ status' = [status EXCEPT ![RepoOf(w)] = stage]
      /\ UNCHANGED <<commit, jobStatus, jobRepo>>
  BY DEF Update
<1>2. RepoOf(w) \in Repos /\ Registered(RepoOf(w))
  BY <1>1, WorkIsActive
<1>3. stage \in RepositoryStatus
  BY DEF RepositoryStatus, ActiveStatuses
<1> QED
  BY <1>1, <1>2, <1>3, StatusWrite DEF Active

(* Taking a job changes its status from queued to running, both active.    *)
LEMMA TakeJobUnseen ==
  ASSUME TypeOK, RowInv, NEW w \in Workers, TakeJob(w)
  PROVE  Unseen
<1> DEFINE j == Head(queue)
<1>1. j \in Jobs /\ jobStatus[j] = "queued"
  BY DEF TakeJob, TypeOK
<1>2. jobRepo[j] \in Repos /\ Registered(jobRepo[j])
  BY <1>1 DEF RowInv, JobExists, JobStatus, ActiveJobStatuses
<1>3. \A i \in Jobs : /\ Active(i)' <=> Active(i)
                      /\ ~Active(i) => jobStatus'[i] = jobStatus[i]
  BY <1>1 DEF TakeJob, TypeOK, Active, ActiveJobStatuses
<1>4. status' = [status EXCEPT ![jobRepo[j]] = "cloning"] /\ UNCHANGED <<commit, jobRepo>>
  BY DEF TakeJob
<1>5. "cloning" \in RepositoryStatus
  BY DEF RepositoryStatus, ActiveStatuses, PipelineStages
<1> QED
  BY <1>2, <1>3, <1>4, <1>5, StatusWrite

-----------------------------------------------------------------------------
(* Steps a client sees.  Each keeps the extra invariant too.               *)

(* One active job is failed together with its repository.                  *)
LEMMA JobFails ==
  ASSUME TypeOK, RowInv, NothingWithoutRow, NEW j \in Jobs, Active(j),
         jobStatus' = [jobStatus EXCEPT ![j] = "failed"],
         status' = [status EXCEPT ![jobRepo[j]] = "failed"],
         UNCHANGED <<commit, jobRepo>>
  PROVE  Service!Fail({j}) /\ NothingWithoutRow'
<1>1. jobRepo[j] \in Repos /\ Registered(jobRepo[j])
  BY DEF RowInv, Active, JobExists, JobStatus
<1>2. \A r \in Repos : /\ Registered(r)' <=> Registered(r)
                       /\ ~Registered(r) => status'[r] = status[r]
  BY <1>1 DEF TypeOK, Registered, RepositoryStatus
<1>3. Row' = Row
  BY <1>2 DEF Row
<1>4. \A i \in Jobs : /\ Active(i)' <=> Active(i) /\ i # j
                      /\ i # j => jobStatus'[i] = jobStatus[i]
                      /\ jobStatus'[j] = "failed"
  BY DEF TypeOK, Active, ActiveJobStatuses
<1>5. Run' = [i \in Jobs |-> IF i \in {j} THEN "failed" ELSE Run[i]]
  BY <1>4 DEF Run
<1>6. Service!Fail({j})
  BY <1>3, <1>5 DEF Service!Fail, Row, Run
<1>7. NothingWithoutRow'
  BY <1>2, <1>4 DEF NothingWithoutRow
<1> QED
  BY <1>6, <1>7

(* Registration.                                                           *)
LEMMA RegisterServes ==
  ASSUME TypeOK, NothingWithoutRow, NEW r \in Repos, Register(r)
  PROVE  Service!Register(r) /\ NothingWithoutRow'
<1>1. /\ status[r] = "absent" /\ status' = [status EXCEPT ![r] = "pending"]
      /\ UNCHANGED <<commit, jobStatus, jobRepo>>
  BY DEF Register
<1>2. ~Registered(r) /\ Registered(r)'
  BY <1>1 DEF Registered, RepositoryStatus, ActiveStatuses, PipelineStages, TypeOK
<1>3. \A s \in Repos : s # r => status'[s] = status[s]
  BY <1>1 DEF TypeOK
<1>4. Row[r] = "absent" /\ Row' = [Row EXCEPT ![r] = "present"]
  BY <1>1, <1>2, <1>3 DEF Row, Registered
<1>5. Run' = Run
  BY <1>1 DEF Run, Active
<1>6. Service!Register(r)
  BY <1>1, <1>4, <1>5 DEF Service!Register, Row, Run
<1>7. NothingWithoutRow'
  BY <1>1, <1>2, <1>3 DEF NothingWithoutRow, Registered
<1> QED
  BY <1>6, <1>7

(* The commit of a new job: nothing else of the repository is open.        *)
LEMMA StartAccepts ==
  ASSUME TypeOK, RequestInv, NothingWithoutRow, NEW q \in Requests, StartCommit(q)
  PROVE  /\ \E r \in Repos, j \in Jobs : Service!Accept(r, j)
         /\ NothingWithoutRow'
<1>0. rrepo[q] \in Repos /\ rjob[q] \in Jobs /\ jobStatus[rjob[q]] = "absent"
  BY DEF StartCommit, RequestInv, RequestOK, Starting
<1>1. PICK r \in Repos, j \in Jobs :
        r = rrepo[q] /\ j = rjob[q] /\ jobStatus[j] = "absent"
  BY <1>0
<1>2. /\ Registered(r) /\ ~HasActiveJob(r)
      /\ jobStatus' = [jobStatus EXCEPT ![j] = "queued"]
      /\ jobRepo' = [jobRepo EXCEPT ![j] = r]
      /\ status' = status \/ status' = [status EXCEPT ![r] = "queued"]
      /\ UNCHANGED commit
  BY <1>1 DEF StartCommit
<1>3. \A s \in Repos : /\ Registered(s)' <=> Registered(s)
                       /\ ~Registered(s) => status'[s] = status[s]
  BY <1>1, <1>2 DEF TypeOK, Registered, RepositoryStatus, ActiveStatuses
<1>4. Row' = Row /\ Row[r] = "present"
  BY <1>1, <1>2, <1>3 DEF Row
<1>5. ~Active(j) /\ Active(j)'
  BY <1>1, <1>2 DEF Active, ActiveJobStatuses, TypeOK
<1>6. \A i \in Jobs : i # j => jobStatus'[i] = jobStatus[i] /\ (Active(i)' <=> Active(i))
  BY <1>2 DEF TypeOK, Active
<1>7. Run[j] = "absent" /\ Run' = [Run EXCEPT ![j] = "active"]
  BY <1>1, <1>5, <1>6 DEF Run
<1>8. Service!Open(r) = {}
  BY <1>2 DEF Service!Open, HasActiveJob, Active, JobStatus, ActiveJobStatuses, TypeOK, NoRow
<1>9. Service!Accept(r, j)
  BY <1>2, <1>4, <1>7, <1>8 DEF Service!Accept, Row, Run
<1>10. NothingWithoutRow'
  BY <1>1, <1>2, <1>3, <1>5, <1>6
  DEF NothingWithoutRow, Active, ActiveJobStatuses, TypeOK
<1> QED
  BY <1>9, <1>10

(* The commit of a deletion; a second one of the same repository finds     *)
(* nothing left.                                                           *)
LEMMA DeleteServes ==
  ASSUME TypeOK, RowInv, RequestInv, NothingWithoutRow, KnownRepositories,
         NEW q \in Requests, DeleteCommit(q)
  PROVE  /\ Unseen \/ \E r \in Repos : Service!Delete(r)
         /\ NothingWithoutRow'
<1>0. rrepo[q] \in Repos
  BY DEF DeleteCommit, RequestInv, RequestOK
<1>1. PICK r \in Repos : r = rrepo[q] /\ status[r] # "absent"
  BY <1>0, ConstantsAreDistinct DEF KnownRepositories
<1>2. /\ status' = [status EXCEPT ![r] = "deleted"]
      /\ commit' = [commit EXCEPT ![r] = None]
      /\ jobStatus' = [j \in Jobs |-> IF JobExists(j) /\ jobRepo[j] = r
                                      THEN "deleted" ELSE jobStatus[j]]
      /\ UNCHANGED jobRepo
  BY <1>1 DEF DeleteCommit
<1>3. ~Registered(r)' /\ \A s \in Repos : s # r => status'[s] = status[s]
  BY <1>1, <1>2 DEF TypeOK, Registered, RepositoryStatus, ActiveStatuses, PipelineStages
<1>4. NothingWithoutRow'
  BY <1>1, <1>2, <1>3 DEF NothingWithoutRow, Registered, TypeOK
<1>5. CASE Registered(r)
  <2>1. Row[r] = "present" /\ Row' = [Row EXCEPT ![r] = "deleted"]
    BY <1>1, <1>2, <1>3, <1>5 DEF Row, Registered, TypeOK
  <2>2. ASSUME NEW j \in Jobs
        PROVE  Run'[j] = IF jobRepo[j] = r THEN "deleted" ELSE Run[j]
    <3>1. CASE jobRepo[j] = r
      <4>1. JobExists(j) \/ jobStatus[j] = "deleted"
        BY <1>1, <3>1, ConstantsAreDistinct
        DEF NothingWithoutRow, TypeOK, NoRow, JobExists
      <4> QED
        BY <1>2, <3>1, <4>1 DEF Run, Active, ActiveJobStatuses
    <3>2. CASE jobRepo[j] # r
      BY <1>2, <3>2 DEF Run, Active
    <3> QED
      BY <3>1, <3>2
  <2>3. Run' = [j \in Jobs |-> IF jobRepo[j] = r THEN "deleted" ELSE Run[j]]
    BY <2>2 DEF Run
  <2> QED
    BY <1>1, <1>2, <1>4, <2>1, <2>3 DEF Service!Delete, Row, Run
<1>6. CASE ~Registered(r)
  <2>1. status[r] = "deleted" /\ commit[r] = None
    BY <1>1, <1>6 DEF NothingWithoutRow, TypeOK, Registered, NoRow
  <2>2. \A j \in Jobs : JobExists(j) => jobRepo[j] # r
    BY <1>6 DEF RowInv
  <2>3. commit' = commit /\ jobStatus' = jobStatus
    BY <1>1, <1>2, <2>1, <2>2 DEF TypeOK
  <2>4. status' = status
    BY <1>1, <1>2, <2>1 DEF TypeOK
  <2> QED
    BY <1>2, <1>4, <2>3, <2>4, RowsAlone
<1> QED
  BY <1>5, <1>6

(* The closing transaction of a run.                                       *)
LEMMA CompleteSucceeds ==
  ASSUME TypeOK, RowInv, WorkInv, InstallInv, NothingWithoutRow,
         NEW w \in Workers, Complete(w)
  PROVE  /\ \E j \in Jobs, c \in Commits : Service!Succeed(j, c)
         /\ NothingWithoutRow'
<1>0. Started(w) /\ JobExists(work[w]) /\ tip[w] \in Commits
  BY DEF Complete, Started, InstallInv
<1>1. PICK j \in Jobs, r \in Repos, c \in Commits :
        /\ j = work[w] /\ r = RepoOf(w) /\ c = tip[w]
        /\ jobStatus[j] = "running" /\ Registered(r)
  BY <1>0, WorkIsActive
<1>2. /\ r = jobRepo[j]
      /\ commit' = [commit EXCEPT ![r] = c]
      /\ status' = [status EXCEPT ![r] = "completed"]
      /\ jobStatus' = [jobStatus EXCEPT ![j] = "succeeded"]
      /\ UNCHANGED jobRepo
  BY <1>1 DEF Complete, RepoOf
<1>3. \A s \in Repos : /\ Registered(s)' <=> Registered(s)
                       /\ ~Registered(s) => status'[s] = status[s]
  BY <1>1, <1>2 DEF TypeOK, Registered, RepositoryStatus
<1>4. Row' = Row
  BY <1>3 DEF Row
<1>5. \A i \in Jobs : i # j => jobStatus'[i] = jobStatus[i] /\ (Active(i)' <=> Active(i))
  BY <1>2 DEF TypeOK, Active
<1>6. Active(j) /\ ~Active(j)' /\ jobStatus'[j] = "succeeded"
  BY <1>1, <1>2 DEF TypeOK, Active, ActiveJobStatuses
<1>7. Run[j] = "active" /\ Run' = [Run EXCEPT ![j] = "succeeded"]
  BY <1>1, <1>5, <1>6 DEF Run
<1>8. Service!Succeed(j, c)
  BY <1>2, <1>4, <1>7 DEF Service!Succeed, Row, Run
<1>9. NothingWithoutRow'
  BY <1>1, <1>2, <1>3, <1>5, <1>6 DEF NothingWithoutRow, TypeOK
<1> QED
  BY <1>8, <1>9

(* The recovery fails every active job at once.                            *)
LEMMA RecoveryFails ==
  ASSUME TypeOK, RowInv, NothingWithoutRow, RecoverJobs
  PROVE  /\ \E js \in SUBSET Jobs : Service!Fail(js)
         /\ NothingWithoutRow'
<1>0. PICK js \in SUBSET Jobs : \A j \in Jobs : j \in js <=> Active(j)
  <2>1. {j \in Jobs : Active(j)} \in SUBSET Jobs
    OBVIOUS
  <2> QED
    BY <2>1
<1>1. /\ jobStatus' = [j \in Jobs |-> IF Active(j) THEN "failed" ELSE jobStatus[j]]
      /\ status' = [r \in Repos |->
                      IF HasActiveJob(r) /\ status[r] \in ActiveStatuses
                      THEN "failed" ELSE status[r]]
      /\ UNCHANGED <<commit, jobRepo>>
  BY DEF RecoverJobs
<1>2. \A r \in Repos : /\ Registered(r)' <=> Registered(r)
                       /\ ~Registered(r) => status'[r] = status[r]
  BY <1>1 DEF Registered, RepositoryStatus
<1>3. Row' = Row
  BY <1>2 DEF Row
<1>4. \A j \in Jobs : ~Active(j)' /\ jobStatus'[j] = IF Active(j) THEN "failed" ELSE jobStatus[j]
  BY <1>1 DEF Active, ActiveJobStatuses
<1>5. Run' = [j \in Jobs |-> IF j \in js THEN "failed" ELSE Run[j]]
  BY <1>0, <1>4 DEF Run
<1>6. \A j \in js : Run[j] = "active"
  BY <1>0 DEF Run
<1>7. Service!Fail(js)
  BY <1>1, <1>3, <1>5, <1>6 DEF Service!Fail, Row, Run
<1>8. NothingWithoutRow'
  BY <1>1, <1>2, <1>4 DEF NothingWithoutRow
<1> QED
  BY <1>7, <1>8

-----------------------------------------------------------------------------
(* Every step.                                                             *)

(* What a step must show: an abstract step or none, and the extra          *)
(* invariant again.                                                        *)
Maps == [Service!Next]_(Service!vars) /\ NothingWithoutRow'

(* A step of a request.                                                    *)
LEMMA RequestMaps ==
  ASSUME TypeOK, RowInv, RequestInv, NothingWithoutRow, KnownRepositories,
         NEW q \in Requests, RequestStep(q)
  PROVE  Maps
<1>1. CASE Unseen
  BY <1>1, UnseenStutters DEF Maps
<1>2. CASE \/ StartCheck(q) \/ StartRollback(q) \/ Enqueue(q) \/ EnqueueRaises(q)
           \/ DeleteRollback(q) \/ RemoveCheckout(q) \/ RemoveIndex(q)
  <2>1. UNCHANGED <<status, commit, jobStatus, jobRepo>>
    BY <1>2 DEF StartCheck, StartRollback, Enqueue, EnqueueRaises, DeleteRollback,
                RemoveCheckout, RemoveIndex, dbVars
  <2> QED
    BY <1>1, <2>1, RowsAlone
<1>3. CASE StartCommit(q)
  BY <1>3, StartAccepts DEF Maps, Service!Next
<1>4. CASE DeleteCommit(q)
  BY <1>1, <1>4, DeleteServes DEF Maps, Service!Next
<1>5. CASE RecordEnqueueFailure(q)
  <2>1. /\ rjob[q] \in Jobs /\ jobRepo[rjob[q]] = rrepo[q]
        /\ jobStatus[rjob[q]] \in {"queued", "deleted"}
    BY <1>5 DEF RecordEnqueueFailure, RequestInv, RequestOK, Enqueuing
  <2>2. PICK j \in Jobs : j = rjob[q]
    BY <2>1
  <2>3. CASE UNCHANGED <<status, jobStatus>>
    BY <1>1, <1>5, <2>3, RowsAlone DEF RecordEnqueueFailure
  <2>4. CASE ~UNCHANGED <<status, jobStatus>>
    <3>1. /\ JobExists(j)
          /\ jobStatus' = [jobStatus EXCEPT ![j] = "failed"]
          /\ status' = [status EXCEPT ![jobRepo[j]] = "failed"]
          /\ UNCHANGED <<commit, jobRepo>>
      BY <1>5, <2>1, <2>2, <2>4 DEF RecordEnqueueFailure
    <3>2. Active(j)
      BY <2>1, <2>2, <3>1 DEF JobExists, JobStatus, Active, ActiveJobStatuses
    <3>3. Service!Fail({j}) /\ NothingWithoutRow'
      BY <3>1, <3>2, JobFails
    <3> QED
      BY <3>3 DEF Maps, Service!Next
  <2> QED
    BY <2>3, <2>4
<1> QED
  BY <1>2, <1>3, <1>4, <1>5 DEF RequestStep

(* A step of a worker thread.                                              *)
LEMMA PipelineMaps ==
  ASSUME TypeOK, RowInv, WorkInv, InstallInv, NothingWithoutRow,
         NEW w \in Workers, PipelineStep(w)
  PROVE  Maps
<1>1. CASE Unseen
  BY <1>1, UnseenStutters DEF Maps
<1>2. CASE \/ CloneBegins(w) \/ SkipSearchIndex(w) \/ BuildBegins(w) \/ BuildEnds(w)
           \/ StageRaises(w) \/ RemoveOldCheckout(w) \/ PlaceCheckout(w)
           \/ RemoveOldIndex(w) \/ PlaceIndex(w) \/ InstallRaises(w) \/ Discard(w)
  <2>1. UNCHANGED <<status, commit, jobStatus, jobRepo>>
    BY <1>2 DEF CloneBegins, SkipSearchIndex, BuildBegins, BuildEnds, StageRaises,
                RemoveOldCheckout, PlaceCheckout, RemoveOldIndex, PlaceIndex,
                InstallRaises, Discard, dbVars
  <2> QED
    BY <1>1, <2>1, RowsAlone
<1>3. CASE \E c \in Commits : CloneEnds(w, c)
  <2>1. Started(w) /\ Update(w, "analyzing")
    BY <1>3 DEF CloneEnds, Started
  <2>2. "analyzing" \in PipelineStages
    BY DEF PipelineStages
  <2> QED
    BY <1>1, <2>1, <2>2, UpdateUnseen
<1>4. CASE StageEnds(w)
  <2>1. Started(w) /\ Update(w, StageAfter[pc[w]])
    BY <1>4 DEF StageEnds, Started
  <2>2. PICK stage \in PipelineStages : stage = StageAfter[pc[w]]
    BY <1>4 DEF StageEnds, StageAfter, PipelineStages
  <2>3. Update(w, stage)
    BY <2>1, <2>2 DEF Update
  <2> QED
    BY <1>1, <2>1, <2>3, UpdateUnseen
<1>5. CASE Complete(w)
  BY <1>5, CompleteSucceeds DEF Maps, Service!Next
<1>6. CASE RecordFailure(w)
  <2>1. CASE UNCHANGED <<status, jobStatus>>
    BY <1>1, <1>6, <2>1, RowsAlone DEF RecordFailure
  <2>2. CASE ~UNCHANGED <<status, jobStatus>>
    <3>1. Started(w) /\ JobExists(work[w])
      BY <1>6, <2>2 DEF RecordFailure, Started
    <3>2. PICK j \in Jobs : j = work[w] /\ Active(j)
      BY <3>1, WorkIsActive DEF Active, ActiveJobStatuses
    <3>3. /\ jobStatus' = [jobStatus EXCEPT ![j] = "failed"]
          /\ status' = [status EXCEPT ![jobRepo[j]] = "failed"]
          /\ UNCHANGED <<commit, jobRepo>>
      BY <1>6, <2>2, <3>2 DEF RecordFailure
    <3>4. Service!Fail({j}) /\ NothingWithoutRow'
      BY <3>2, <3>3, JobFails
    <3> QED
      BY <3>4 DEF Maps, Service!Next
  <2> QED
    BY <2>1, <2>2
<1> QED
  BY <1>2, <1>3, <1>4, <1>5, <1>6 DEF PipelineStep

(* Every step of the system is one of the service or none.                 *)
LEMMA StepMaps ==
  ASSUME IndInv, NothingWithoutRow, KnownRepositories, [Next]_vars
  PROVE  Maps
<1>1. TypeOK /\ RowInv /\ RequestInv /\ WorkInv /\ InstallInv
  BY DEF IndInv
<1>2. CASE Unseen
  BY <1>2, UnseenStutters DEF Maps
<1>3. CASE UNCHANGED <<status, commit, jobStatus, jobRepo>>
  BY <1>2, <1>3, RowsAlone
<1>4. CASE \E r \in Repos : Register(r)
  BY <1>1, <1>4, RegisterServes DEF Maps, Service!Next
<1>5. CASE \E q \in Requests : RequestStep(q)
  BY <1>1, <1>5, RequestMaps
<1>6. CASE \E w \in Workers : PipelineStep(w)
  BY <1>1, <1>6, PipelineMaps
<1>7. CASE \E w \in Workers : TakeJob(w)
  BY <1>1, <1>2, <1>7, TakeJobUnseen
<1>8. CASE RecoverJobs
  BY <1>1, <1>8, RecoveryFails DEF Maps, Service!Next
<1>9. CASE \E q \in Requests, r \in Repos :
             DeleteCheck(q, r) \/ \E j \in Jobs : StartRead(q, r, j)
  BY <1>3, <1>9 DEF DeleteCheck, StartRead, dbVars
<1>10. CASE SkipJob \/ Shutdown \/ Exit \/ Crash \/ ClearTemp \/ RecoveryRaises
  BY <1>3, <1>10 DEF SkipJob, Shutdown, Exit, Crash, ClearTemp, RecoveryRaises, dbVars
<1>11. CASE UNCHANGED vars
  BY <1>3, <1>11 DEF vars, dbVars
<1> QED
  BY <1>4, <1>5, <1>6, <1>7, <1>8, <1>9, <1>10, <1>11 DEF Next

(* A row that existed leaves a trace in every abstract step.               *)
LEMMA RowsAreRemembered ==
  ASSUME TypeOK, [Service!Next]_(Service!vars), NEW r \in Repos, status[r] # "absent"
  PROVE  status'[r] # "absent"
<1>1. Row[r] # "absent"
  BY DEF Row
<1>2. Row'[r] # "absent"
  <2>1. ASSUME NEW s \in Repos, Service!Register(s) \/ Service!Delete(s) PROVE Row'[r] # "absent"
    BY <1>1, <2>1 DEF Service!Register, Service!Delete, Row
  <2>2. CASE Row' = Row
    BY <1>1, <2>2
  <2>3. ASSUME NEW s \in Repos, NEW j \in Jobs, Service!Accept(s, j) PROVE Row' = Row
    BY <2>3 DEF Service!Accept, Row
  <2>4. ASSUME NEW j \in Jobs, NEW c \in Commits, Service!Succeed(j, c) PROVE Row' = Row
    BY <2>4 DEF Service!Succeed, Row
  <2>5. ASSUME NEW js \in SUBSET Jobs, Service!Fail(js) PROVE Row' = Row
    BY <2>5 DEF Service!Fail, Row
  <2>6. CASE UNCHANGED Service!vars
    BY <2>2, <2>6 DEF Service!vars, Row
  <2> QED
    BY <2>1, <2>2, <2>3, <2>4, <2>5, <2>6 DEF Service!Next
<1> QED
  BY <1>2 DEF Row, Registered, RepositoryStatus, ActiveStatuses, PipelineStages

(* A request learns of a repository only by reading its row.               *)
LEMMA RequestsReadRows ==
  ASSUME TypeOK, [Next]_vars, NEW q \in Requests, rrepo'[q] # None
  PROVE  \/ rrepo'[q] = rrepo[q]
         \/ rrepo'[q] \in Repos /\ status[rrepo'[q]] # "absent"
<1>1. CASE UNCHANGED rrepo
  BY <1>1
<1>2. ASSUME NEW p \in Requests, NEW r \in Repos, rrepo' = [rrepo EXCEPT ![p] = r], Registered(r)
      PROVE  \/ rrepo'[q] = rrepo[q]
             \/ rrepo'[q] \in Repos /\ status[rrepo'[q]] # "absent"
  BY <1>2 DEF TypeOK, Registered, RepositoryStatus, ActiveStatuses, PipelineStages
<1>3. CASE \E p \in Requests, r \in Repos :
             DeleteCheck(p, r) \/ \E j \in Jobs : StartRead(p, r, j)
  BY <1>2, <1>3 DEF DeleteCheck, StartRead
<1>4. ASSUME NEW p \in Requests, RequestStep(p) PROVE rrepo'[q] = rrepo[q]
  <2>1. CASE UNCHANGED rrepo
    BY <2>1
  <2>2. CASE RequestEnds(p)
    BY <2>2 DEF RequestEnds, TypeOK
  <2> QED
    BY <1>4, <2>1, <2>2
    DEF RequestStep, StartCheck, StartCommit, StartRollback, Enqueue, EnqueueRaises,
        RecordEnqueueFailure, DeleteCommit, DeleteRollback, RemoveCheckout, RemoveIndex,
        RequestContinues
<1>5. ASSUME NEW w \in Workers, TakeJob(w) \/ PipelineStep(w) PROVE UNCHANGED rrepo
  BY <1>5
  DEF TakeJob, PipelineStep, CloneBegins, CloneEnds, StageEnds, SkipSearchIndex,
      BuildBegins, BuildEnds, StageRaises, RemoveOldCheckout, PlaceCheckout,
      RemoveOldIndex, PlaceIndex, Complete, InstallRaises, Discard, RecordFailure,
      requestVars
<1>6. CASE (\E r \in Repos : Register(r)) \/ SkipJob \/ Shutdown \/ Exit \/ RecoverJobs
           \/ ClearTemp \/ RecoveryRaises \/ UNCHANGED vars
  BY <1>1, <1>6 DEF Register, SkipJob, Shutdown, Exit, RecoverJobs, ClearTemp,
                    RecoveryRaises, vars, requestVars
<1>7. CASE Crash
  BY <1>7 DEF Crash
<1> QED
  BY <1>1, <1>3, <1>4, <1>5, <1>6, <1>7 DEF Next

(* So the repositories of the requests stay known.                         *)
LEMMA StepKnown ==
  ASSUME TypeOK, KnownRepositories, [Next]_vars, [Service!Next]_(Service!vars)
  PROVE  KnownRepositories'
<1>1. SUFFICES ASSUME NEW q \in Requests, rrepo'[q] # None
               PROVE  status'[rrepo'[q]] # "absent"
  BY DEF KnownRepositories
<1>2. rrepo'[q] \in Repos /\ status[rrepo'[q]] # "absent"
  BY <1>1, RequestsReadRows DEF TypeOK, KnownRepositories
<1> QED
  BY <1>2, RowsAreRemembered

-----------------------------------------------------------------------------
(* The initial state maps to the initial state of the service.             *)
LEMMA InitMaps == Init => Service!Init /\ NothingWithoutRow /\ KnownRepositories
BY DEF Init, Service!Init, NothingWithoutRow, KnownRepositories, Registered, Active,
       RepositoryStatus, ActiveStatuses, PipelineStages, ActiveJobStatuses

(* Refinement: with any number of repositories, jobs, threads and requests *)
(* and any faults, what a client sees of the system is a behaviour of the  *)
(* abstract service.                                                       *)
THEOREM Refinement == Spec => ImplementsService
<1> DEFINE Inv == IndInv /\ NothingWithoutRow /\ KnownRepositories
<1>1. Init => Inv /\ Service!Init
  BY InitIndInv, InitMaps
<1>2. Inv /\ [Next]_vars => Inv' /\ [Service!Next]_(Service!vars)
  <2>1. SUFFICES ASSUME Inv, [Next]_vars PROVE Inv' /\ [Service!Next]_(Service!vars)
    OBVIOUS
  <2>2. IndInv'
    BY <2>1, StepIndInv
  <2>3. Maps
    BY <2>1, StepMaps
  <2>4. TypeOK
    BY <2>1 DEF IndInv
  <2>5. KnownRepositories'
    BY <2>1, <2>3, <2>4, StepKnown DEF Maps
  <2> QED
    BY <2>2, <2>3, <2>5 DEF Maps
<1> QED
  BY <1>1, <1>2, PTL DEF Spec, ImplementsService, Service!Spec

-----------------------------------------------------------------------------
(* The step of the indexing side.                                          *)

(* A step of the composition is a step of RepositoryIndexing or none.      *)
LEMMA SearchNextRefines ==
  ASSUME [SearchNext]_allVars
  PROVE  [Next]_vars
<1>1. CASE \E s \in Searches, r \in Repos : SearchBegins(s, r)
  BY <1>1 DEF SearchBegins
<1>2. CASE \E s \in Searches : SearchStep(s)
  BY <1>2 DEF SearchStep, ReadManifest, LookUp, ReadChunkIds, ReadBm25, PutInCache, Hydrate
<1>3. CASE \E w \in Workers : InstallIndex(w)
  BY <1>3 DEF InstallIndex, Next, PipelineStep
<1>4. CASE \E q \in Requests : DropIndex(q)
  BY <1>4 DEF DropIndex, Next, RequestStep
<1>5. CASE ProcessEnds \/ ProcessStops
  BY <1>5 DEF ProcessEnds, ProcessStops, Next
<1>6. CASE IndexingElsewhere
  BY <1>6 DEF IndexingElsewhere, Next, RequestStep, PipelineStep
<1>7. CASE UNCHANGED allVars
  BY <1>7 DEF allVars
<1> QED
  BY <1>1, <1>2, <1>3, <1>4, <1>5, <1>6, <1>7 DEF SearchNext

(* Other steps than the rename of an index remove indexes, or leave them.  *)
IndexesOnlyGo == \A r \in Repos : index'[r] \in {index[r], None, Partial}

LEMMA OnlyInstallPlaces ==
  ASSUME TypeOK, WorkInv, RowInv, RequestInv,
         \/ IndexingElsewhere \/ ProcessEnds \/ ProcessStops
         \/ \E q \in Requests : DropIndex(q)
  PROVE  IndexesOnlyGo
<1>1. CASE UNCHANGED index
  BY <1>1 DEF IndexesOnlyGo
<1>2. ASSUME NEW q \in Requests, RemoveIndex(q) PROVE IndexesOnlyGo
  BY <1>2 DEF RemoveIndex, Removals, IndexesOnlyGo, TypeOK
<1>3. ASSUME NEW w \in Workers, RemoveOldIndex(w) PROVE IndexesOnlyGo
  BY <1>3 DEF RemoveOldIndex, Removals, IndexesOnlyGo, TypeOK
<1>4. ASSUME NEW q \in Requests,
             \/ StartCheck(q) \/ StartCommit(q) \/ StartRollback(q)
             \/ Enqueue(q) \/ EnqueueRaises(q) \/ RecordEnqueueFailure(q)
             \/ DeleteCommit(q) \/ DeleteRollback(q) \/ RemoveCheckout(q)
      PROVE  UNCHANGED index
  BY <1>4 DEF StartCheck, StartCommit, StartRollback, Enqueue, EnqueueRaises,
     RecordEnqueueFailure, DeleteCommit, DeleteRollback, RemoveCheckout, diskVars
<1>5. ASSUME NEW w \in Workers,
             \/ TakeJob(w) \/ CloneBegins(w) \/ (\E c \in Commits : CloneEnds(w, c))
             \/ StageEnds(w) \/ SkipSearchIndex(w) \/ BuildBegins(w)
             \/ BuildEnds(w) \/ StageRaises(w) \/ RemoveOldCheckout(w)
             \/ PlaceCheckout(w) \/ Complete(w) \/ InstallRaises(w) \/ Discard(w)
             \/ RecordFailure(w)
      PROVE  UNCHANGED index
  BY <1>5 DEF TakeJob, CloneBegins, CloneEnds, StageEnds, SkipSearchIndex, BuildBegins,
     BuildEnds, StageRaises, RemoveOldCheckout, PlaceCheckout, Complete, InstallRaises,
     Discard, RecordFailure, diskVars
<1>6. CASE \/ Crash \/ Exit \/ Shutdown \/ SkipJob \/ RecoverJobs \/ ClearTemp
           \/ RecoveryRaises \/ \E r \in Repos : Register(r)
           \/ \E q \in Requests, r \in Repos, j \in Jobs : StartRead(q, r, j)
           \/ \E q \in Requests, r \in Repos : DeleteCheck(q, r)
  BY <1>1, <1>6 DEF Crash, Exit, Shutdown, SkipJob, RecoverJobs, ClearTemp, RecoveryRaises,
     Register, StartRead, DeleteCheck, diskVars
<1>7. CASE ProcessEnds \/ ProcessStops
  BY <1>6, <1>7 DEF ProcessEnds, ProcessStops
<1>8. CASE \E q \in Requests : DropIndex(q)
  BY <1>1, <1>4, <1>8 DEF DropIndex
<1>9. CASE IndexingElsewhere
  BY <1>1, <1>2, <1>3, <1>4, <1>5, <1>6, <1>9 DEF IndexingElsewhere
<1> QED
  BY <1>7, <1>8, <1>9

-----------------------------------------------------------------------------
(* A key of the cache is never used for two builds.                        *)

(* A run that has placed its index, or never will.                         *)
Spent(j) ==
  /\ jobStatus[j] \notin {"absent", "queued"}
  /\ \A w \in Workers : Started(w) /\ work[w] = j => pc[w] \in {"complete", "discard", "fail"}

(* A job that was started is never new or queued again.                    *)
LEMMA StartedJobStays ==
  ASSUME TypeOK, RowInv, WorkInv, RequestInv, [Next]_vars, NEW j \in Jobs,
         jobStatus[j] \notin {"absent", "queued"}
  PROVE  jobStatus'[j] \notin {"absent", "queued"}
<1>1. ASSUME NEW q \in Requests, RequestStep(q) PROVE jobStatus'[j] \notin {"absent", "queued"}
  <2>1. CASE StartCommit(q)
    BY <2>1 DEF StartCommit, RequestInv, RequestOK, Starting, TypeOK
  <2>2. CASE RecordEnqueueFailure(q)
    BY <2>2 DEF RecordEnqueueFailure, TypeOK
  <2>3. CASE DeleteCommit(q)
    BY <2>3 DEF DeleteCommit
  <2>4. CASE UNCHANGED dbVars
    BY <2>4 DEF dbVars
  <2> QED
    BY <1>1, <2>1, <2>2, <2>3, <2>4
    DEF RequestStep, StartCheck, StartRollback, Enqueue, EnqueueRaises,
        DeleteRollback, RemoveCheckout, RemoveIndex
<1>2. ASSUME NEW w \in Workers, TakeJob(w) PROVE jobStatus'[j] \notin {"absent", "queued"}
  BY <1>2, TakeJobFrame DEF TypeOK
<1>3. ASSUME NEW w \in Workers, PipelineStep(w) PROVE jobStatus'[j] \notin {"absent", "queued"}
  BY <1>3, PipelineRows
<1>4. CASE RecoverJobs
  BY <1>4 DEF RecoverJobs
<1>5. CASE UNCHANGED dbVars
  BY <1>5 DEF dbVars
<1>6. CASE SkipJob \/ Shutdown \/ Exit \/ Crash \/ ClearTemp \/ RecoveryRaises
  BY <1>5, <1>6 DEF SkipJob, Shutdown, Exit, Crash, ClearTemp, RecoveryRaises
<1>7. CASE \E r \in Repos : Register(r) \/ \E q \in Requests :
             DeleteCheck(q, r) \/ \E i \in Jobs : StartRead(q, r, i)
  BY <1>7 DEF Register, DeleteCheck, StartRead, dbVars
<1>8. CASE UNCHANGED vars
  BY <1>5, <1>8 DEF vars
<1> QED
  BY <1>1, <1>2, <1>3, <1>4, <1>6, <1>7, <1>8 DEF Next

(* Once spent, a run stays spent.                                          *)
LEMMA SpentStays ==
  ASSUME IndInv, [Next]_vars, NEW j \in Jobs, Spent(j)
  PROVE  Spent(j)'
<1> USE DEF IndInv
<1>1. jobStatus'[j] \notin {"absent", "queued"}
  BY StartedJobStays DEF Spent
<1>2. ASSUME NEW w \in Workers, Started(w)', work'[w] = j
      PROVE  pc'[w] \in {"complete", "discard", "fail"}
  <2>1. CASE UNCHANGED workerVars
    BY <1>2, <2>1 DEF Spent, Started, workerVars
  <2>2. CASE Crash
    BY <1>2, <2>2 DEF Crash, Started
  <2>3. ASSUME NEW v \in Workers, TakeJob(v) PROVE pc'[w] \in {"complete", "discard", "fail"}
    <3>1. v # w
      BY <1>2, <2>3, TakeJobFrame DEF Spent
    <3> QED
      BY <1>2, <2>3, <3>1, TakeJobFrame DEF Spent, Started
  <2>4. ASSUME NEW v \in Workers, PipelineStep(v), v # w
        PROVE  pc'[w] \in {"complete", "discard", "fail"}
    BY <1>2, <2>4, PipelineFrame DEF Spent, Started
  <2>5. CASE PipelineStep(w)
    <3>1. Started(w) /\ work[w] = j
      BY <1>2, <2>5, PipelineFrame
    <3>2. pc[w] \in {"complete", "discard", "fail"}
      BY <3>1 DEF Spent
    <3>3. Complete(w) \/ InstallRaises(w) \/ Discard(w) \/ RecordFailure(w)
      BY <2>5, <3>2 DEF PipelineStep, CloneBegins, CloneEnds, StageEnds, SkipSearchIndex,
         BuildBegins, BuildEnds, StageRaises, RemoveOldCheckout, PlaceCheckout,
         RemoveOldIndex, PlaceIndex, PipelineStages
    <3> QED
      BY <1>2, <3>3 DEF Complete, InstallRaises, Discard, RecordFailure, WorkerEnds,
         WorkerContinues, Started, TypeOK
  <2> QED
    BY <2>1, <2>2, <2>3, <2>4, <2>5, ThreadsMove
<1> QED
  BY <1>1, <1>2 DEF Spent

(* The rename of an index spends its run, which was not spent before.      *)
LEMMA PlacingSpends ==
  ASSUME IndInv, NEW w \in Workers, PlaceIndex(w)
  PROVE  /\ work[w] \in Jobs /\ RepoOf(w) \in Repos /\ tip[w] \in Commits
         /\ ~Spent(work[w]) /\ Spent(work[w])'
         /\ index' = [index EXCEPT ![RepoOf(w)] = tip[w]]
<1> USE DEF IndInv
<1>1. pc[w] = "place_index" /\ Started(w)
  BY DEF PlaceIndex, Started
<1>2. work[w] \in Jobs /\ RepoOf(w) \in Repos
  BY <1>1, WorkerHasRepository
<1>3. ~Spent(work[w])
  BY <1>1 DEF Spent
<1>4. jobStatus[work[w]] \notin {"absent", "queued"}
  BY <1>1 DEF WorkInv
<1>5. /\ UNCHANGED <<jobStatus, work>>
      /\ pc' = [pc EXCEPT ![w] = "complete"]
      /\ index' = [index EXCEPT ![RepoOf(w)] = tip[w]]
  BY DEF PlaceIndex, WorkerContinues, dbVars
<1>6. \A v \in Workers : v # w /\ Started(v) => work[v] # work[w]
  BY <1>1 DEF OnePipelinePerRepository, RepoOf, Started
<1>7. Spent(work[w])'
  BY <1>4, <1>5, <1>6 DEF Spent, Started, TypeOK
<1> QED
  BY <1>1, <1>2, <1>3, <1>5, <1>7 DEF InstallInv

-----------------------------------------------------------------------------
(* The inductive invariant of the store and the searches.                  *)

HasManifest(s) == spc[s] \in {"look_up", "chunk_ids", "bm25", "put", "hydrate"}
HasIds(s)      == spc[s] \in {"bm25", "put", "hydrate"}
HasBm25(s)     == spc[s] \in {"put", "hydrate"}

\* What a search holds has been read, its key names a build that is final,
\* and while that build is installed all of it comes from this build.
SearchOK(s) ==
  /\ spc[s] # "idle" => srepo[s] \in Repos /\ srow[s] \in Commits
  /\ HasManifest(s) => smanifest[s] \in Jobs
  /\ HasIds(s) => sids[s] \in Commits
  /\ HasBm25(s) => sbm25[s] \in Commits
  /\ smanifest[s] # None => Spent(smanifest[s])
  /\ HasManifest(s) /\ index[srepo[s]] \in Commits /\ builtAt[srepo[s]] = smanifest[s] =>
       /\ index[srepo[s]] = srow[s]
       /\ HasIds(s) => sids[s] = index[srepo[s]]
       /\ HasBm25(s) => sbm25[s] = index[srepo[s]]

\* An entry of the cache: the same for what was loaded.
EntryOK(e) ==
  /\ Spent(e.builtAt)
  /\ index[e.repo] \in Commits /\ e.builtAt = builtAt[e.repo] =>
       e.ids = index[e.repo] /\ e.bm25 = index[e.repo]

CacheOK ==
  /\ cache \in Seq(CacheEntries)
  /\ \A i \in DOMAIN cache : EntryOK(cache[i])

StoreOK ==
  /\ \A r \in Repos : builtAt[r] # None => Spent(builtAt[r])
  /\ \A r \in Repos : index[r] \in Commits => builtAt[r] \in Jobs

SearchInv == SearchTypeOK /\ StoreOK /\ CacheOK /\ \A s \in Searches : SearchOK(s)

LEMMA InitSearchInv == SearchInit => SearchInv
<1> SUFFICES ASSUME SearchInit PROVE SearchInv
  OBVIOUS
<1>1. SearchTypeOK
  BY CacheHoldsSomething DEF SearchInit, SearchTypeOK, SearchSteps
<1>2. StoreOK
  BY ConstantsAreDistinct DEF SearchInit, Init, StoreOK
<1>3. CacheOK
  BY DEF SearchInit, CacheOK
<1>4. \A s \in Searches : SearchOK(s)
  BY DEF SearchInit, SearchOK, HasManifest, HasIds, HasBm25
<1> QED
  BY <1>1, <1>2, <1>3, <1>4 DEF SearchInv

-----------------------------------------------------------------------------
(* The cache as a sequence.                                                *)

\* What is kept is no longer than the places, and was there before.
LEMMA KeptEntries ==
  ASSUME cache \in Seq(CacheEntries), NEW P \in SUBSET DOMAIN cache, NEW t \in Kept(P)
  PROVE  /\ t \in Seq(CacheEntries)
         /\ Len(t) <= Len(cache)
         /\ \A i \in DOMAIN cache : i \notin P => Len(t) < Len(cache)
         /\ \A n \in DOMAIN t : \E i \in P : t[n] = cache[i]
<1>1. DOMAIN cache = 1..Len(cache) /\ Len(cache) \in Nat
  OBVIOUS
<1>2. IsFiniteSet(DOMAIN cache) /\ Cardinality(DOMAIN cache) = Len(cache)
  <2>1. /\ IsFiniteSet(1..Len(cache))
        /\ Cardinality(1..Len(cache)) = IF 1 > Len(cache) THEN 0 ELSE Len(cache) - 1 + 1
    BY <1>1, FS_Interval
  <2> QED
    BY <1>1, <2>1
<1>3. /\ IsFiniteSet(P) /\ Cardinality(P) \in Nat /\ Cardinality(P) <= Len(cache)
      /\ Cardinality(DOMAIN cache) = Cardinality(P) => DOMAIN cache = P
  BY <1>2, FS_Subset, FS_CardinalityType
<1>4. PICK at \in [1..Cardinality(P) -> P] : t = [n \in DOMAIN at |-> cache[at[n]]]
  BY DEF Kept
<1>5. /\ t \in [1..Cardinality(P) -> CacheEntries]
      /\ \A n \in DOMAIN t : at[n] \in P /\ t[n] = cache[at[n]]
  BY <1>1, <1>4
<1>6. t \in Seq(CacheEntries) /\ Len(t) = Cardinality(P)
  BY <1>3, <1>5
<1> QED
  BY <1>1, <1>2, <1>3, <1>5, <1>6

\* Eviction keeps the bound and adds nothing.
LEMMA NewestEntries ==
  ASSUME NEW entries \in Seq(CacheEntries)
  PROVE  /\ Newest(entries) \in Seq(CacheEntries)
         /\ Len(Newest(entries)) <= CacheSize
         /\ \A n \in DOMAIN Newest(entries) :
              \E i \in DOMAIN entries : Newest(entries)[n] = entries[i]
<1>1. CASE Len(entries) <= CacheSize
  BY <1>1 DEF Newest
<1>2. CASE ~(Len(entries) <= CacheSize)
  <2> DEFINE first == Len(entries) - CacheSize + 1
  <2>1. /\ Len(entries) \in Nat /\ CacheSize \in Nat \ {0} /\ first \in 1..Len(entries)
        /\ Newest(entries) = SubSeq(entries, first, Len(entries))
        /\ Len(entries) - first + 1 = CacheSize
    BY <1>2, CacheHoldsSomething DEF Newest
  <2>2. /\ Newest(entries) \in Seq(CacheEntries)
        /\ Len(Newest(entries)) = CacheSize
        /\ \A n \in 1..CacheSize : Newest(entries)[n] = entries[first + n - 1]
    BY <2>1
  <2>3. \A n \in 1..CacheSize : first + n - 1 \in 1..Len(entries)
    BY <2>1
  <2> QED
    BY <2>1, <2>2, <2>3
<1> QED
  BY <1>1, <1>2

-----------------------------------------------------------------------------
(* Steps of the indexing side.                                             *)

\* The rest of the indexing side only removes indexes and cached entries.
LEMMA ElsewhereKeeps ==
  ASSUME IndInv, IndInv', [Next]_vars, SearchInv, IndexesOnlyGo,
         UNCHANGED <<builtAt, searchVars>>,
         \/ cache' = cache
         \/ \E P \in SUBSET DOMAIN cache : cache' \in Kept(P)
  PROVE  SearchInv'
<1> USE DEF SearchInv
<1>1. /\ cache' \in Seq(CacheEntries) /\ Len(cache') <= CacheSize
      /\ \A n \in DOMAIN cache' : \E i \in DOMAIN cache : cache'[n] = cache[i]
  <2>1. cache \in Seq(CacheEntries) /\ Len(cache) <= CacheSize /\ CacheSize \in Nat
    BY CacheHoldsSomething DEF CacheOK, SearchTypeOK
  <2>2. CASE cache' = cache
    BY <2>1, <2>2
  <2>3. ASSUME NEW P \in SUBSET DOMAIN cache, cache' \in Kept(P)
        PROVE  /\ cache' \in Seq(CacheEntries) /\ Len(cache') <= Len(cache)
               /\ \A n \in DOMAIN cache' : \E i \in DOMAIN cache : cache'[n] = cache[i]
    BY <2>1, <2>3, KeptEntries
  <2>4. Len(cache) \in Nat
    BY <2>1
  <2> QED
    BY <2>1, <2>2, <2>3, <2>4
<1>2. SearchTypeOK'
  BY <1>1 DEF SearchTypeOK, searchVars
<1>3. \A j \in Jobs : Spent(j) => Spent(j)'
  BY SpentStays
<1>4. \A r \in Repos : index'[r] \in Commits => index[r] = index'[r]
  BY ConstantsAreDistinct DEF IndexesOnlyGo
<1>5. StoreOK'
  BY <1>3, <1>4 DEF StoreOK, SearchTypeOK
<1>6. CacheOK'
  <2>1. ASSUME NEW n \in DOMAIN cache' PROVE EntryOK(cache[n])'
    <3>1. PICK e \in CacheEntries : e = cache'[n] /\ EntryOK(e)
      BY <1>1 DEF CacheOK, SearchTypeOK
    <3>2. e.repo \in Repos /\ e.builtAt \in Jobs
      BY DEF CacheEntries
    <3>3. Spent(e.builtAt)'
      BY <1>3, <3>1, <3>2 DEF EntryOK
    <3>4. EntryOK(e)'
      BY <1>4, <3>1, <3>2, <3>3 DEF EntryOK
    <3> QED
      BY <3>1, <3>4
  <2> QED
    BY <1>1, <2>1 DEF CacheOK
<1>7. ASSUME NEW s \in Searches PROVE SearchOK(s)'
  <2>1. /\ spc'[s] = spc[s] /\ srepo'[s] = srepo[s] /\ srow'[s] = srow[s]
        /\ smanifest'[s] = smanifest[s] /\ sids'[s] = sids[s] /\ sbm25'[s] = sbm25[s]
    BY DEF searchVars
  <2>2. PICK m \in Jobs \cup {None} : m = smanifest[s] /\ SearchOK(s)
    BY DEF SearchTypeOK
  <2>3. m # None => Spent(m)'
    BY <1>3, <2>2 DEF SearchOK
  <2> QED
    BY <1>4, <2>1, <2>2, <2>3 DEF SearchOK, HasManifest, HasIds, HasBm25
<1> QED
  BY <1>2, <1>5, <1>6, <1>7

\* The process takes its searches and its cache with it.
LEMMA EndKeeps ==
  ASSUME IndInv, IndInv', [Next]_vars, SearchInv, IndexesOnlyGo, ProcessEnds
  PROVE  SearchInv'
<1> USE DEF SearchInv
<1>1. /\ cache' = <<>> /\ builtAt' = builtAt
      /\ \A s \in Searches : spc'[s] = "idle" /\ smanifest'[s] = None
  BY DEF ProcessEnds
<1>2. SearchTypeOK'
  BY CacheHoldsSomething DEF ProcessEnds, SearchTypeOK, SearchSteps
<1>3. \A j \in Jobs : Spent(j) => Spent(j)'
  BY SpentStays
<1>4. \A r \in Repos : index'[r] \in Commits => index[r] = index'[r]
  BY ConstantsAreDistinct DEF IndexesOnlyGo
<1>5. StoreOK'
  BY <1>1, <1>3, <1>4 DEF StoreOK, SearchTypeOK
<1>6. CacheOK'
  BY <1>1 DEF CacheOK
<1>7. \A s \in Searches : SearchOK(s)'
  BY <1>1 DEF SearchOK, HasManifest, HasIds, HasBm25
<1> QED
  BY <1>2, <1>5, <1>6, <1>7

\* An installed index has a key that nobody holds yet.
LEMMA InstallKeeps ==
  ASSUME IndInv, IndInv', [Next]_vars, SearchInv, NEW w \in Workers, InstallIndex(w)
  PROVE  SearchInv'
<1> USE DEF SearchInv
<1>1. PICK r \in Repos, j \in Jobs :
        /\ r = RepoOf(w) /\ j = work[w] /\ tip[w] \in Commits
        /\ ~Spent(j) /\ Spent(j)'
        /\ index' = [index EXCEPT ![r] = tip[w]]
  <2>1. work' = work
    BY DEF InstallIndex, PlaceIndex, WorkerContinues
  <2> QED
    BY <2>1, PlacingSpends DEF InstallIndex
<1>2. UNCHANGED searchVars /\ builtAt' = [builtAt EXCEPT ![r] = j]
  BY <1>1 DEF InstallIndex
<1>3. cache' \in Kept({i \in DOMAIN cache : cache[i].repo # r})
  BY <1>1 DEF InstallIndex, Invalidate
<1>4. /\ cache' \in Seq(CacheEntries) /\ Len(cache') <= CacheSize
      /\ \A n \in DOMAIN cache' : \E i \in DOMAIN cache : cache'[n] = cache[i]
  <2>1. cache \in Seq(CacheEntries) /\ Len(cache) <= CacheSize /\ CacheSize \in Nat
    BY CacheHoldsSomething DEF CacheOK, SearchTypeOK
  <2>2. /\ cache' \in Seq(CacheEntries) /\ Len(cache') <= Len(cache)
        /\ \A n \in DOMAIN cache' : \E i \in DOMAIN cache : cache'[n] = cache[i]
    BY <1>3, <2>1, KeptEntries
  <2> QED
    BY <2>1, <2>2
<1>5. index \in [Repos -> Trees] /\ builtAt \in [Repos -> Jobs \cup {None}]
  BY DEF IndInv, TypeOK, SearchTypeOK
<1>6. /\ builtAt'[r] = j /\ \A q \in Repos \ {r} : builtAt'[q] = builtAt[q]
      /\ \A q \in Repos \ {r} : index'[q] = index[q]
  BY <1>1, <1>2, <1>5
<1>7. SearchTypeOK'
  BY <1>2, <1>4 DEF SearchTypeOK, searchVars
<1>8. \A i \in Jobs : Spent(i) => Spent(i)' /\ i # j
  BY <1>1, SpentStays
<1>9. StoreOK'
  <2>1. ASSUME NEW q \in Repos, builtAt'[q] # None PROVE Spent(builtAt[q])'
    <3>1. PICK i \in Jobs : i = builtAt'[q] /\ (i = j \/ Spent(i))
      BY <1>5, <1>6, <2>1 DEF StoreOK
    <3>2. Spent(i)'
      BY <1>1, <1>8, <3>1
    <3> QED
      BY <3>1, <3>2
  <2>2. \A q \in Repos : index'[q] \in Commits => builtAt'[q] \in Jobs
    BY <1>6 DEF StoreOK
  <2> QED
    BY <2>1, <2>2 DEF StoreOK
<1>10. CacheOK'
  <2>1. ASSUME NEW n \in DOMAIN cache' PROVE EntryOK(cache[n])'
    <3>1. PICK e \in CacheEntries : e = cache'[n] /\ EntryOK(e)
      BY <1>4 DEF CacheOK, SearchTypeOK
    <3>2. e.repo \in Repos /\ e.builtAt \in Jobs
      BY DEF CacheEntries
    <3>3. Spent(e.builtAt)' /\ e.builtAt # j
      BY <1>8, <3>1, <3>2 DEF EntryOK
    <3>4. EntryOK(e)'
      BY <1>6, <3>1, <3>2, <3>3 DEF EntryOK
    <3> QED
      BY <3>1, <3>4
  <2> QED
    BY <1>4, <2>1 DEF CacheOK
<1>11. ASSUME NEW s \in Searches PROVE SearchOK(s)'
  <2>1. /\ spc'[s] = spc[s] /\ srepo'[s] = srepo[s] /\ srow'[s] = srow[s]
        /\ smanifest'[s] = smanifest[s] /\ sids'[s] = sids[s] /\ sbm25'[s] = sbm25[s]
    BY <1>2 DEF searchVars
  <2>2. PICK m \in Jobs \cup {None} : m = smanifest[s] /\ SearchOK(s)
    BY DEF SearchTypeOK
  <2>3. m # None => Spent(m)' /\ m # j
    BY <1>8, <2>2 DEF SearchOK
  <2>4. j # None
    BY ConstantsAreDistinct
  <2>5. HasManifest(s) => srepo[s] \in Repos /\ smanifest[s] # j
    BY <2>2, <2>3, <2>4, ConstantsAreDistinct DEF SearchOK, HasManifest
  <2> QED
    BY <1>6, <2>1, <2>2, <2>3, <2>5 DEF SearchOK, HasManifest, HasIds, HasBm25
<1> QED
  BY <1>7, <1>9, <1>10, <1>11

-----------------------------------------------------------------------------
(* Steps of a search.                                                      *)

\* The indexing side stands still, and so do the other searches.
LEMMA SearcherKeeps ==
  ASSUME SearchInv, UNCHANGED <<vars, builtAt>>, NEW s \in Searches,
         SearchTypeOK', CacheOK', SearchOK(s)',
         \A t \in Searches \ {s} :
           /\ spc'[t] = spc[t] /\ srepo'[t] = srepo[t] /\ srow'[t] = srow[t]
           /\ smanifest'[t] = smanifest[t] /\ sids'[t] = sids[t] /\ sbm25'[t] = sbm25[t]
  PROVE  SearchInv'
<1>1. UNCHANGED <<index, jobStatus, pc, work>>
  BY DEF vars, dbVars, diskVars, workerVars
<1>2. \A j : Spent(j)' <=> Spent(j)
  BY <1>1 DEF Spent, Started
<1>3. StoreOK'
  BY <1>1, <1>2 DEF SearchInv, StoreOK
<1>4. ASSUME NEW t \in Searches \ {s} PROVE SearchOK(t)'
  <2>1. SearchOK(t)
    BY DEF SearchInv
  <2> QED
    BY <1>1, <1>2, <2>1 DEF SearchOK, HasManifest, HasIds, HasBm25
<1> QED
  BY <1>3, <1>4 DEF SearchInv

\* So does what is in the cache when it does not change.
LEMMA CacheStays ==
  ASSUME SearchInv, UNCHANGED <<vars, storeVars>>
  PROVE  CacheOK'
<1>1. UNCHANGED <<index, jobStatus, pc, work, builtAt, cache>>
  BY DEF vars, dbVars, diskVars, workerVars, storeVars
<1> QED
  BY <1>1 DEF SearchInv, CacheOK, EntryOK, Spent, Started

\* The locals of the other searches stay, whatever this one does to its own.
LEMMA EndsAlone ==
  ASSUME SearchTypeOK, NEW s \in Searches, SearchEnds(s), UNCHANGED storeVars
  PROVE  /\ SearchTypeOK'
         /\ spc'[s] = "idle" /\ smanifest'[s] = None
         /\ \A t \in Searches \ {s} :
              /\ spc'[t] = spc[t] /\ srepo'[t] = srepo[t] /\ srow'[t] = srow[t]
              /\ smanifest'[t] = smanifest[t] /\ sids'[t] = sids[t] /\ sbm25'[t] = sbm25[t]
BY DEF SearchTypeOK, SearchEnds, SearchSteps, storeVars

LEMMA EndingKeeps ==
  ASSUME SearchInv, UNCHANGED <<vars, storeVars>>, NEW s \in Searches, SearchEnds(s)
  PROVE  SearchInv'
<1>1. SearchTypeOK
  BY DEF SearchInv
<1>2. SearchOK(s)'
  BY <1>1, EndsAlone DEF SearchOK, HasManifest, HasIds, HasBm25
<1> QED
  BY <1>1, <1>2, EndsAlone, CacheStays, SearcherKeeps DEF storeVars

\* The row, then the manifest: the installed build is of the commit read.
LEMMA BeginKeeps ==
  ASSUME IndInv, SearchInv, NEW s \in Searches, NEW r \in Repos, SearchBegins(s, r)
  PROVE  SearchInv'
<1>1. SearchTypeOK /\ commit[r] \in Commits
  BY DEF SearchInv, IndInv, TypeOK, SearchBegins
<1>2. SearchTypeOK'
  BY <1>1 DEF SearchTypeOK, SearchBegins, SearchContinues, SearchSteps, storeVars
<1>3. \A t \in Searches \ {s} :
        /\ spc'[t] = spc[t] /\ srepo'[t] = srepo[t] /\ srow'[t] = srow[t]
        /\ smanifest'[t] = smanifest[t] /\ sids'[t] = sids[t] /\ sbm25'[t] = sbm25[t]
  BY <1>1 DEF SearchTypeOK, SearchBegins, SearchContinues
<1>4. SearchOK(s)'
  <2>1. /\ spc'[s] = "manifest" /\ srepo'[s] \in Repos /\ srow'[s] \in Commits
        /\ smanifest'[s] = smanifest[s]
    BY <1>1 DEF SearchTypeOK, SearchBegins, SearchContinues
  <2>2. SearchOK(s) /\ UNCHANGED <<jobStatus, pc, work>>
    BY DEF SearchInv, SearchBegins, vars, dbVars, workerVars
  <2>3. smanifest'[s] # None => Spent(smanifest[s])'
    BY <2>1, <2>2 DEF SearchOK, Spent, Started
  <2> QED
    BY <2>1, <2>3 DEF SearchOK, HasManifest, HasIds, HasBm25
<1> QED
  BY <1>2, <1>3, <1>4, CacheStays, SearcherKeeps DEF SearchBegins, storeVars

LEMMA ManifestKeeps ==
  ASSUME SearchInv, NEW s \in Searches, ReadManifest(s)
  PROVE  SearchInv'
<1>1. CASE SearchEnds(s)
  BY <1>1, EndingKeeps DEF ReadManifest
<1>2. CASE /\ index[srepo[s]] = srow[s]
           /\ SearchContinues(s, "look_up")
           /\ smanifest' = [smanifest EXCEPT ![s] = builtAt[srepo[s]]]
           /\ UNCHANGED <<srepo, srow, sids, sbm25>>
  <2>1. SearchTypeOK /\ SearchOK(s) /\ StoreOK
    BY DEF SearchInv
  <2>2. srepo[s] \in Repos /\ srow[s] \in Commits /\ spc[s] = "manifest"
    BY <2>1 DEF SearchOK, ReadManifest
  <2>3. PICK m \in Jobs : m = builtAt[srepo[s]] /\ Spent(m)
    BY <1>2, <2>1, <2>2, ConstantsAreDistinct DEF StoreOK
  <2>4. SearchTypeOK'
    BY <1>2, <2>1, <2>3 DEF SearchTypeOK, ReadManifest, SearchContinues, SearchSteps, storeVars
  <2>5. \A t \in Searches \ {s} :
          /\ spc'[t] = spc[t] /\ srepo'[t] = srepo[t] /\ srow'[t] = srow[t]
          /\ smanifest'[t] = smanifest[t] /\ sids'[t] = sids[t] /\ sbm25'[t] = sbm25[t]
    BY <1>2, <2>1 DEF SearchTypeOK, SearchContinues
  <2>6. /\ spc'[s] = "look_up" /\ smanifest'[s] = m
        /\ srepo'[s] = srepo[s] /\ srow'[s] = srow[s]
        /\ UNCHANGED <<index, builtAt, jobStatus, pc, work>>
    BY <1>2, <2>1, <2>3 DEF SearchTypeOK, SearchContinues, ReadManifest, vars, dbVars,
       diskVars, workerVars, storeVars
  <2>7. Spent(smanifest[s])'
    BY <2>3, <2>6 DEF Spent, Started
  <2>8. SearchOK(s)'
    BY <1>2, <2>2, <2>6, <2>7 DEF SearchOK, HasManifest, HasIds, HasBm25
  <2> QED
    BY <2>4, <2>5, <2>8, CacheStays, SearcherKeeps DEF ReadManifest, storeVars
<1> QED
  BY <1>1, <1>2 DEF ReadManifest

\* A hit holds what is cached under the key of the manifest.
LEMMA LookUpKeeps ==
  ASSUME SearchInv, NEW s \in Searches, LookUp(s)
  PROVE  SearchInv'
<1>1. /\ SearchTypeOK /\ SearchOK(s) /\ CacheOK
      /\ srepo[s] \in Repos /\ srow[s] \in Commits /\ smanifest[s] \in Jobs
      /\ UNCHANGED <<index, builtAt, jobStatus, pc, work, srepo, srow, smanifest>>
  BY DEF SearchInv, SearchOK, HasManifest, LookUp, vars, dbVars, diskVars, workerVars
<1>2. \A j : Spent(j)' <=> Spent(j)
  BY <1>1 DEF Spent, Started
<1>3. \A e : EntryOK(e)' <=> EntryOK(e)
  BY <1>1, <1>2 DEF EntryOK
<1>4. Spent(smanifest[s])'
  BY <1>1, <1>2, ConstantsAreDistinct DEF SearchOK
<1>5. ASSUME NEW i \in DOMAIN cache, IsKeyOf(cache[i], s),
             NEW others \in Others(s), cache' = Append(others, cache[i]),
             SearchContinues(s, "hydrate"),
             sids' = [sids EXCEPT ![s] = cache[i].ids],
             sbm25' = [sbm25 EXCEPT ![s] = cache[i].bm25]
      PROVE  SearchInv'
  <2>1. cache \in Seq(CacheEntries) /\ Len(cache) \in Nat /\ cache[i] \in CacheEntries
    BY <1>1, <1>5 DEF CacheOK
  <2>2. /\ others \in Seq(CacheEntries) /\ Len(others) < Len(cache)
        /\ \A n \in DOMAIN others : \E k \in DOMAIN cache : others[n] = cache[k]
    BY <1>5, <2>1, KeptEntries DEF Others
  <2>3. /\ cache' \in Seq(CacheEntries) /\ Len(cache') <= Len(cache)
        /\ \A n \in DOMAIN cache' : \E k \in DOMAIN cache : cache'[n] = cache[k]
    <3>1. /\ cache' \in Seq(CacheEntries) /\ Len(cache') = Len(others) + 1
          /\ DOMAIN cache' = 1..(Len(others) + 1) /\ DOMAIN others = 1..Len(others)
          /\ cache'[Len(others) + 1] = cache[i]
          /\ \A n \in 1..Len(others) : cache'[n] = others[n]
          /\ Len(others) \in Nat
      BY <1>5, <2>1, <2>2
    <3>2. \A n \in 1..(Len(others) + 1) : n \in 1..Len(others) \/ n = Len(others) + 1
      BY <3>1
    <3> QED
      BY <1>5, <2>1, <2>2, <3>1, <3>2
  <2>4. Len(cache') <= CacheSize
    BY <1>1, <2>1, <2>3, CacheHoldsSomething DEF SearchTypeOK
  <2>5. cache[i].ids \in Commits /\ cache[i].bm25 \in Commits /\ EntryOK(cache[i])
        /\ cache[i].repo = srepo[s] /\ cache[i].builtAt = smanifest[s]
    BY <1>1, <1>5, <2>1 DEF CacheOK, CacheEntries, IsKeyOf
  <2>6. SearchTypeOK'
    BY <1>1, <1>5, <2>3, <2>4, <2>5 DEF SearchTypeOK, SearchContinues, SearchSteps
  <2>7. CacheOK'
    <3>1. ASSUME NEW n \in DOMAIN cache' PROVE EntryOK(cache[n])'
      <4>1. PICK e \in CacheEntries : e = cache'[n] /\ EntryOK(e)
        BY <1>1, <2>3 DEF CacheOK, SearchTypeOK
      <4>2. EntryOK(e)'
        BY <1>3, <4>1
      <4> QED
        BY <4>1, <4>2
    <3> QED
      BY <2>3, <3>1 DEF CacheOK
  <2>8. /\ spc'[s] = "hydrate" /\ sids'[s] = cache[i].ids /\ sbm25'[s] = cache[i].bm25
        /\ \A t \in Searches \ {s} :
             spc'[t] = spc[t] /\ sids'[t] = sids[t] /\ sbm25'[t] = sbm25[t]
    BY <1>1, <1>5 DEF SearchTypeOK, SearchContinues
  <2>9. SearchOK(s)'
    <3>1. index[srepo[s]] \in Commits /\ builtAt[srepo[s]] = smanifest[s] =>
            /\ index[srepo[s]] = srow[s]
            /\ cache[i].ids = index[srepo[s]] /\ cache[i].bm25 = index[srepo[s]]
      BY <1>1, <2>5 DEF EntryOK, SearchOK, HasManifest, LookUp
    <3> QED
      BY <1>1, <1>4, <2>5, <2>8, <3>1 DEF SearchOK, HasManifest, HasIds, HasBm25
  <2> QED
    BY <1>1, <2>6, <2>7, <2>8, <2>9, SearcherKeeps DEF LookUp
<1>6. CASE /\ SearchContinues(s, "chunk_ids")
           /\ UNCHANGED <<cache, sids, sbm25>>
  <2>1. SearchTypeOK'
    BY <1>1, <1>6 DEF SearchTypeOK, SearchContinues, SearchSteps
  <2>2. CacheOK'
    BY <1>6, CacheStays DEF LookUp, storeVars
  <2>3. /\ spc'[s] = "chunk_ids"
        /\ \A t \in Searches \ {s} : spc'[t] = spc[t]
    BY <1>1, <1>6 DEF SearchTypeOK, SearchContinues
  <2>4. SearchOK(s)'
    BY <1>1, <1>4, <1>6, <2>3 DEF SearchOK, HasManifest, HasIds, HasBm25, LookUp
  <2> QED
    BY <1>1, <1>6, <2>1, <2>2, <2>3, <2>4, SearcherKeeps DEF LookUp
<1> QED
  BY <1>5, <1>6 DEF LookUp

\* The two reads of the index files.
LEMMA LoadKeeps ==
  ASSUME SearchInv, NEW s \in Searches, ReadChunkIds(s) \/ ReadBm25(s)
  PROVE  SearchInv'
<1>1. /\ SearchTypeOK /\ SearchOK(s) /\ UNCHANGED <<vars, storeVars>>
      /\ srepo[s] \in Repos /\ srow[s] \in Commits /\ smanifest[s] \in Jobs
      /\ UNCHANGED <<index, builtAt, jobStatus, pc, work>>
  BY DEF SearchInv, SearchOK, HasManifest, ReadChunkIds, ReadBm25, storeVars,
     vars, dbVars, diskVars, workerVars
<1>2. CASE SearchEnds(s)
  BY <1>1, <1>2, EndingKeeps
<1>3. CASE /\ spc[s] = "chunk_ids" /\ index[srepo[s]] \in Commits
           /\ SearchContinues(s, "bm25")
           /\ sids' = [sids EXCEPT ![s] = index[srepo[s]]]
           /\ UNCHANGED <<srepo, srow, smanifest, sbm25>>
  <2>1. SearchTypeOK'
    BY <1>1, <1>3 DEF SearchTypeOK, SearchContinues, SearchSteps, storeVars
  <2>2. /\ spc'[s] = "bm25" /\ sids'[s] = index[srepo[s]]
        /\ \A t \in Searches \ {s} : spc'[t] = spc[t] /\ sids'[t] = sids[t]
    BY <1>1, <1>3 DEF SearchTypeOK, SearchContinues
  <2>3. Spent(smanifest[s])'
    BY <1>1, <1>3, ConstantsAreDistinct DEF SearchOK, Spent, Started
  <2>4. SearchOK(s)'
    BY <1>1, <1>3, <2>2, <2>3 DEF SearchOK, HasManifest, HasIds, HasBm25
  <2> QED
    BY <1>1, <1>3, <2>1, <2>2, <2>4, CacheStays, SearcherKeeps DEF storeVars
<1>4. CASE /\ spc[s] = "bm25" /\ index[srepo[s]] \in Commits
           /\ SearchContinues(s, "put")
           /\ sbm25' = [sbm25 EXCEPT ![s] = index[srepo[s]]]
           /\ UNCHANGED <<srepo, srow, smanifest, sids>>
  <2>1. SearchTypeOK'
    BY <1>1, <1>4 DEF SearchTypeOK, SearchContinues, SearchSteps, storeVars
  <2>2. /\ spc'[s] = "put" /\ sbm25'[s] = index[srepo[s]]
        /\ \A t \in Searches \ {s} : spc'[t] = spc[t] /\ sbm25'[t] = sbm25[t]
    BY <1>1, <1>4 DEF SearchTypeOK, SearchContinues
  <2>3. Spent(smanifest[s])'
    BY <1>1, <1>4, ConstantsAreDistinct DEF SearchOK, Spent, Started
  <2>4. SearchOK(s)'
    BY <1>1, <1>4, <2>2, <2>3 DEF SearchOK, HasManifest, HasIds, HasBm25
  <2> QED
    BY <1>1, <1>4, <2>1, <2>2, <2>4, CacheStays, SearcherKeeps DEF storeVars
<1> QED
  BY <1>2, <1>3, <1>4 DEF ReadChunkIds, ReadBm25

\* What is put in the cache satisfies what is asked of an entry, although
\* the index may have been replaced since it was loaded.
LEMMA PutKeeps ==
  ASSUME SearchInv, NEW s \in Searches, PutInCache(s)
  PROVE  SearchInv'
<1>1. /\ SearchTypeOK /\ SearchOK(s) /\ CacheOK
      /\ srepo[s] \in Repos /\ smanifest[s] \in Jobs
      /\ sids[s] \in Commits /\ sbm25[s] \in Commits
      /\ UNCHANGED <<index, builtAt, jobStatus, pc, work, srepo, srow, smanifest, sids, sbm25>>
  BY DEF SearchInv, SearchOK, HasManifest, HasIds, HasBm25, PutInCache, vars, dbVars,
     diskVars, workerVars
<1> DEFINE new == [repo |-> srepo[s], builtAt |-> smanifest[s],
                   ids |-> sids[s], bm25 |-> sbm25[s]]
<1>2. PICK others \in Others(s) : cache' = Newest(Append(others, new))
  BY DEF PutInCache
<1>3. new \in CacheEntries /\ EntryOK(new)
  <2>1. new \in CacheEntries
    BY <1>1 DEF CacheEntries
  <2>2. Spent(smanifest[s])
    BY <1>1, ConstantsAreDistinct DEF SearchOK
  <2>3. index[srepo[s]] \in Commits /\ smanifest[s] = builtAt[srepo[s]] =>
          sids[s] = index[srepo[s]] /\ sbm25[s] = index[srepo[s]]
    BY <1>1 DEF SearchOK, HasManifest, HasIds, HasBm25, PutInCache
  <2> QED
    BY <2>1, <2>2, <2>3 DEF EntryOK
<1> HIDE DEF new
<1>4. /\ others \in Seq(CacheEntries)
      /\ \A n \in DOMAIN others : \E k \in DOMAIN cache : others[n] = cache[k]
  BY <1>1, KeptEntries DEF Others, CacheOK
<1> DEFINE all == Append(others, new)
<1>5. /\ all \in Seq(CacheEntries)
      /\ \A n \in DOMAIN all : EntryOK(all[n])
  <2>1. /\ all \in Seq(CacheEntries) /\ DOMAIN all = 1..(Len(others) + 1)
        /\ DOMAIN others = 1..Len(others) /\ Len(others) \in Nat
        /\ all[Len(others) + 1] = new
        /\ \A n \in 1..Len(others) : all[n] = others[n]
    BY <1>3, <1>4
  <2>2. \A n \in 1..(Len(others) + 1) : n \in 1..Len(others) \/ n = Len(others) + 1
    BY <2>1
  <2>3. \A n \in 1..Len(others) : EntryOK(others[n])
    BY <1>1, <1>4, <2>1 DEF CacheOK
  <2> HIDE DEF all
  <2> QED
    BY <1>3, <2>1, <2>2, <2>3
<1> HIDE DEF all
<1>6. cache' = Newest(all)
  BY <1>2 DEF all
<1>7. /\ cache' \in Seq(CacheEntries) /\ Len(cache') <= CacheSize
      /\ \A n \in DOMAIN cache' : \E i \in DOMAIN all : cache'[n] = all[i]
  BY <1>5, <1>6, NewestEntries
<1>8. \A e : EntryOK(e)' <=> EntryOK(e)
  BY <1>1 DEF EntryOK, Spent, Started
<1>9. CacheOK'
  <2>1. ASSUME NEW n \in DOMAIN cache' PROVE EntryOK(cache[n])'
    <3>1. PICK e : e = cache'[n] /\ EntryOK(e)
      BY <1>5, <1>7
    <3>2. EntryOK(e)'
      BY <1>8, <3>1
    <3> QED
      BY <3>1, <3>2
  <2> QED
    BY <1>7, <2>1 DEF CacheOK
<1>10. SearchTypeOK'
  BY <1>1, <1>7 DEF SearchTypeOK, PutInCache, SearchContinues, SearchSteps
<1>11. /\ spc'[s] = "hydrate" /\ spc[s] = "put"
       /\ \A t \in Searches \ {s} : spc'[t] = spc[t]
  BY <1>1 DEF SearchTypeOK, PutInCache, SearchContinues
<1>12. SearchOK(s)'
  <2>1. Spent(smanifest[s])'
    BY <1>1, ConstantsAreDistinct DEF SearchOK, Spent, Started
  <2> QED
    BY <1>1, <1>11, <2>1 DEF SearchOK, HasManifest, HasIds, HasBm25
<1> QED
  BY <1>1, <1>9, <1>10, <1>11, <1>12, SearcherKeeps DEF PutInCache

-----------------------------------------------------------------------------
(* The theorems.                                                           *)

LEMMA StepSearchInv ==
  ASSUME IndInv, IndInv', SearchInv, [SearchNext]_allVars
  PROVE  SearchInv'
<1>1. [Next]_vars
  BY SearchNextRefines
<1>2. CASE \E s \in Searches, r \in Repos : SearchBegins(s, r)
  BY <1>2, BeginKeeps
<1>3. ASSUME NEW s \in Searches, SearchStep(s) PROVE SearchInv'
  <2>1. CASE Hydrate(s)
    BY <2>1, EndingKeeps DEF Hydrate
  <2> QED
    BY <1>3, <2>1, ManifestKeeps, LookUpKeeps, LoadKeeps, PutKeeps DEF SearchStep
<1>4. CASE \E w \in Workers : InstallIndex(w)
  BY <1>1, <1>4, InstallKeeps
<1>5. CASE ProcessEnds
  BY <1>1, <1>5, OnlyInstallPlaces, EndKeeps DEF IndInv
<1>6. CASE \/ IndexingElsewhere \/ ProcessStops
           \/ \E q \in Requests : DropIndex(q)
  <2>1. IndexesOnlyGo
    BY <1>6, OnlyInstallPlaces DEF IndInv
  <2>2. /\ UNCHANGED <<builtAt, searchVars>>
        /\ \/ cache' = cache
           \/ \E P \in SUBSET DOMAIN cache : cache' \in Kept(P)
    BY <1>6 DEF IndexingElsewhere, ProcessStops, DropIndex, Invalidate, storeVars
  <2> QED
    BY <1>1, <2>1, <2>2, ElsewhereKeeps
<1>7. CASE UNCHANGED allVars
  <2>1. UNCHANGED <<builtAt, searchVars, cache, index>>
    BY <1>7 DEF allVars, storeVars, vars, diskVars
  <2> QED
    BY <1>1, <2>1, ElsewhereKeeps DEF IndexesOnlyGo
<1> QED
  BY <1>2, <1>3, <1>4, <1>5, <1>6, <1>7 DEF SearchNext

(* Indexing and searching together keep both inductive invariants.         *)
LEMMA SearchInvariance == SearchSpec => [](IndInv /\ SearchInv)
<1>1. SearchInit => IndInv /\ SearchInv
  BY InitIndInv, InitSearchInv DEF SearchInit
<1>2. IndInv /\ SearchInv /\ [SearchNext]_allVars => (IndInv /\ SearchInv)'
  <2>1. IndInv /\ [SearchNext]_allVars => IndInv'
    BY SearchNextRefines, StepIndInv
  <2> QED
    BY <2>1, StepSearchInv
<1> QED
  BY <1>1, <1>2, PTL DEF SearchSpec

(* The cache keeps its bound and a search its types (index_store.py:144-156). *)
THEOREM SearchKeepsTypes == SearchSpec => []SearchTypeOK
<1>1. SearchInv => SearchTypeOK
  BY DEF SearchInv
<1> QED
  BY <1>1, SearchInvariance, PTL

(* What is cached under the key of the installed index is that index,      *)
(* although load puts it there without looking whether the directory it    *)
(* read was replaced meanwhile (index_store.py:150-156).                   *)
THEOREM CacheIsNeverPoisoned == SearchSpec => []CacheHoldsTheInstalledIndex
<1>1. SearchInv => CacheHoldsTheInstalledIndex
  BY DEF SearchInv, CacheOK, EntryOK, CacheHoldsTheInstalledIndex
<1> QED
  BY <1>1, SearchInvariance, PTL

(* A search whose index was not replaced answers from the commit it read   *)
(* in the row, cached or not (search_service.py:79-130).                   *)
THEOREM UndisturbedSearchesAreExact == SearchSpec => []UndisturbedSearchIsExact
<1>1. SearchInv => UndisturbedSearchIsExact
  BY DEF SearchInv, SearchOK, HasManifest, HasIds, HasBm25, UndisturbedSearchIsExact
<1> QED
  BY <1>1, SearchInvariance, PTL

(* Searches do not disturb the indexing: what is proved of                 *)
(* RepositoryIndexing holds while searches run.                            *)
THEOREM CompletedIsServedToSearches == SearchSpec => []CompletedServesItsCommit
<1>1. IndInv => CompletedServesItsCommit
  BY DEF IndInv
<1> QED
  BY <1>1, SearchInvariance, PTL

=============================================================================
