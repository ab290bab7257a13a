------------------------------ MODULE MCServing ------------------------------
(***************************************************************************)
(* What happens around an indexing job: two requests that register         *)
(* repositories, a worker that runs git, and a page that shows a           *)
(* repository.  The three only meet in components that other modules       *)
(* compose, so each behaviour exercises one of them, the focus, while the  *)
(* others rest.                                                            *)
(***************************************************************************)
EXTENDS Registration, WebClient

CONSTANT Worker    \* the thread of the indexing worker

VARIABLE focus

vars == <<focus, registrationVars, webVars>>

GitHub(host, capitals, suffix) ==
  [source |-> "github", scheme |-> "https", host |-> host, extras |-> FALSE,
   segments |-> 2, repo |-> "codesage", capitals |-> capitals, suffix |-> suffix]

\* One repository spelled in two ways, a path without a repository and one
\* with.
MCUrls == {GitHub("github.com", FALSE, FALSE), GitHub("www.github.com", TRUE, TRUE),
           [source |-> "local", inside |-> TRUE, checkout |-> FALSE, resolved |-> "p"],
           [source |-> "local", inside |-> TRUE, checkout |-> TRUE, resolved |-> "r"]}

\* A page that has loaded a repository nobody indexes.
WebRests ==
  /\ server = NewRow /\ flights = {} /\ asked = 0 /\ busy = "none" /\ moves = 0
  /\ key = CHOOSE k \in Keys : TRUE
  /\ settled = [key |-> key, current |-> TRUE, ok |-> TRUE, row |-> NewRow]

ServingInit ==
  /\ focus \in {"registration", "worker", "page"}
  /\ Init
  /\ IF focus = "page" THEN WebInit ELSE WebRests

WorkerNext ==
  \/ \E name \in Operations : Call(Worker, name)
  \/ CallerStep(Worker) \/ GroupStep(Worker) \/ SetCancelEvent

ServingNext ==
  /\ UNCHANGED focus
  /\ \/ focus = "registration" /\ Next /\ UNCHANGED webVars
     \/ focus = "worker" /\ WorkerNext /\ UNCHANGED <<rowVars, inserted, requestVars, webVars>>
     \/ focus = "page" /\ WebNext /\ UNCHANGED registrationVars

ServingSpec == ServingInit /\ [][ServingNext]_vars /\ Fairness /\ WebFairness

=============================================================================
