--------------------------- MODULE IndexingService ---------------------------
(***************************************************************************)
(* What a client of the API may rely on: a repository is registered, runs  *)
(* of the indexing pipeline are accepted for it one at a time, each run    *)
(* ends once, and what the repository serves changes only with a success.  *)
(***************************************************************************)
CONSTANTS Repos, Jobs, Commits, None

VARIABLES
  row,     \* is the repository registered
  run,     \* the state of each run
  repoOf,  \* the repository of each run
  served   \* the commit whose files, symbols and chunks are served

vars == <<row, run, repoOf, served>>

Open(r) == {j \in Jobs : run[j] = "active" /\ repoOf[j] = r}

Init ==
  /\ row = [r \in Repos |-> "absent"]
  /\ run = [j \in Jobs |-> "absent"]
  /\ repoOf = [j \in Jobs |-> None]
  /\ served = [r \in Repos |-> None]

Register(r) ==
  /\ row[r] = "absent"
  /\ row' = [row EXCEPT ![r] = "present"]
  /\ UNCHANGED <<run, repoOf, served>>

Accept(r, j) ==
  /\ row[r] = "present"
  /\ Open(r) = {}
  /\ run[j] = "absent"
  /\ run' = [run EXCEPT ![j] = "active"]
  /\ repoOf' = [repoOf EXCEPT ![j] = r]
  /\ UNCHANGED <<row, served>>

Succeed(j, c) ==
  /\ run[j] = "active"
  /\ run' = [run EXCEPT ![j] = "succeeded"]
  /\ served' = [served EXCEPT ![repoOf[j]] = c]
  /\ UNCHANGED <<row, repoOf>>

(* One run fails, or a restart fails all the open ones.                    *)
Fail(js) ==
  /\ \A j \in js : run[j] = "active"
  /\ run' = [j \in Jobs |-> IF j \in js THEN "failed" ELSE run[j]]
  /\ UNCHANGED <<row, repoOf, served>>

Delete(r) ==
  /\ row[r] = "present"
  /\ row' = [row EXCEPT ![r] = "deleted"]
  /\ run' = [j \in Jobs |-> IF repoOf[j] = r THEN "deleted" ELSE run[j]]
  /\ served' = [served EXCEPT ![r] = None]
  /\ UNCHANGED repoOf

Next ==
  \/ \E r \in Repos : Register(r) \/ Delete(r) \/ \E j \in Jobs : Accept(r, j)
  \/ \E j \in Jobs, c \in Commits : Succeed(j, c)
  \/ \E js \in SUBSET Jobs : Fail(js)

Spec == Init /\ [][Next]_vars

=============================================================================
