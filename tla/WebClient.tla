------------------------------ MODULE WebClient ------------------------------
(***************************************************************************)
(* The pages of the web interface that show a repository: useApi and       *)
(* useInterval fetch it and poll while it is being indexed, apiRequest     *)
(* turns every failure into an error, the details page starts indexing.    *)
(* An attempt number is only ever compared with the present one: the flag  *)
(* "current" of a request or an answer says whether they are equal.        *)
(***************************************************************************)
EXTENDS Naturals, Sequences

CONSTANTS
  Keys,        \* requests a page may make: repository ids, list offsets
  NoAnswer,    \* nothing has settled yet
  MaxChanges,  \* bound: status changes of the repository
  MaxMoves     \* bound: times the user navigates or retries

ASSUME WebAssumption == MaxChanges \in Nat /\ MaxMoves \in Nat

VARIABLES
  server,   \* the repository row: its status, the stage of its last job, its changes
  key,      \* what the page shows
  flights,  \* requests that were not aborted, or whose data was already there
  settled,  \* the last answer that useApi kept
  asked,    \* the changes of the repository at the last reload of this key
  busy,     \* the request of the "Start indexing" button
  moves

webVars == <<server, key, flights, settled, asked, busy, moves>>

-----------------------------------------------------------------------------
(* Statuses and the progress display.                                      *)

Steps == <<"cloning", "analyzing", "indexing", "parsing", "embedding", "completed">>
Stages == {Steps[i] : i \in 1..5}
Statuses == {"pending", "queued", "failed", "completed"} \cup Stages

\* A status that the list of active ones misses.
IsActiveStatusBut(status) == status \in {"queued", "cloning", "analyzing", "indexing", "parsing"}

\* ACTIVE_STATUSES of lib/repositories.ts.
IsActiveStatus(status) == status \in {"queued"} \cup Stages

\* The step that IndexingProgress has reached; findIndex gives the first one
\* for a stage that is no step.
ReachedIndex(row) ==
  LET reached == IF row.status = "failed" THEN row.stage ELSE row.status
  IN IF \E i \in DOMAIN Steps : Steps[i] = reached
     THEN CHOOSE i \in DOMAIN Steps : Steps[i] = reached ELSE 1

StepStates(row) ==
  [i \in DOMAIN Steps |->
     CASE row.status = "completed" -> "done"
       [] row.status \in {"queued", "pending"} -> "upcoming"
       [] row.status \notin {"completed", "queued", "pending"} /\ i < ReachedIndex(row) -> "done"
       [] row.status \notin {"completed", "queued", "pending"} /\ i > ReachedIndex(row) -> "upcoming"
       [] row.status = "failed" /\ i = ReachedIndex(row) -> "failed"
       [] OTHER -> "current"]

ProgressActive(row) ==
  row.status = "queued" \/ \E i \in DOMAIN Steps : StepStates(row)[i] = "current"

-----------------------------------------------------------------------------
(* useApi.                                                                 *)

Row == [status : Statuses, stage : Stages \cup {"queued", "completed"}, changes : 0..MaxChanges]
\* A request is sent, the server reads the row, its answer arrives.
Waiting == {"sent", "read"}
Flight == [key : Keys, tag : {0, 1}, current : BOOLEAN,
           phase : Waiting \cup {"data", "error"}, row : Row]

NewRow == [status |-> "pending", stage |-> "queued", changes |-> 0]

WebInit ==
  /\ server = NewRow
  /\ key \in Keys
  /\ flights = {[key |-> key, tag |-> 0, current |-> TRUE, phase |-> "sent", row |-> NewRow]}
  /\ settled = NoAnswer
  /\ asked = 0 /\ busy = "none" /\ moves = 0

\* The state that a page sees.
ApiStatus ==
  CASE settled = NoAnswer -> "loading"
    [] settled # NoAnswer /\ settled.key # key -> "loading"
    [] settled # NoAnswer /\ settled.key = key /\ ~settled.ok -> "error"
    [] OTHER -> "success"
IsRefreshing == ApiStatus # "loading" /\ ~settled.current

\* No cleanup.
NotAborted(fs) == fs

\* The cleanup of the effect aborts its request: what had failed or had no
\* answer yet is ignored, data that was there is still kept.
Aborted(fs) == {f \in fs : f.phase = "data"}

\* The effect sends a request; the tag tells it from the one before.
Request(k) ==
  [key |-> k, tag |-> IF \E f \in flights : f.phase \in Waiting /\ f.tag = 0 THEN 1 ELSE 0,
   current |-> TRUE, phase |-> "sent", row |-> NewRow]

\* A new attempt.
Reload ==
  /\ settled' = IF settled = NoAnswer THEN settled ELSE [settled EXCEPT !.current = FALSE]
  /\ flights' = {[f EXCEPT !.current = FALSE] : f \in Aborted(flights)} \cup {Request(key)}
  /\ asked' = server.changes
  /\ UNCHANGED key

\* The page changes; the attempt does not.
Navigate(k) ==
  /\ k # key /\ moves < MaxMoves
  /\ key' = k /\ moves' = moves + 1
  /\ flights' = Aborted(flights) \cup {Request(k)}
  /\ asked' = 0
  /\ UNCHANGED <<server, settled, busy>>

Retry ==
  /\ ApiStatus = "error" /\ moves < MaxMoves
  /\ moves' = moves + 1
  /\ Reload
  /\ UNCHANGED <<server, busy>>

\* The timer of useInterval runs while an active repository is shown.
Polling == ApiStatus = "success" /\ IsActiveStatus(settled.row.status)

\* The timer does not look whether a refresh is under way.
TickAlways == Polling /\ Reload /\ UNCHANGED <<server, busy, moves>>

Tick ==
  /\ Polling /\ ~IsRefreshing
  /\ Reload
  /\ UNCHANGED <<server, busy, moves>>

\* The server reads the row for a request.
ServerReads ==
  /\ \E f \in flights :
       /\ f.phase = "sent"
       /\ flights' = (flights \ {f}) \cup {[f EXCEPT !.phase = "read", !.row = server]}
  /\ UNCHANGED <<server, key, settled, asked, busy, moves>>

\* apiRequest ends: with the row the server read some time ago, or, after its
\* timeout at the latest, with an error.  Callbacks run before the next
\* answer comes.
AnswerArrives(tag) ==
  /\ \A f \in flights : f.phase \in Waiting
  /\ \E f \in flights :
       /\ f.tag = tag
       /\ \/ f.phase = "read" /\ flights' = (flights \ {f}) \cup {[f EXCEPT !.phase = "data"]}
          \/ flights' = (flights \ {f}) \cup {[f EXCEPT !.phase = "error"]}
  /\ UNCHANGED <<server, key, settled, asked, busy, moves>>

\* The attempt is the one of the moment the answer comes.
KeepsAsLatest(f) ==
  settled' = [key |-> f.key, current |-> TRUE, ok |-> f.phase = "data", row |-> f.row]

\* setSettled with the key and the attempt of the request.
Keeps(f) ==
  settled' = [key |-> f.key, current |-> f.current, ok |-> f.phase = "data", row |-> f.row]

CallbackRuns ==
  /\ \E f \in flights :
       /\ f.phase \notin Waiting
       /\ Keeps(f)
       /\ flights' = flights \ {f}
  /\ UNCHANGED <<server, key, asked, busy, moves>>

-----------------------------------------------------------------------------
(* The button and the server.                                              *)

Changes(status, stage) ==
  server' = [status |-> status, stage |-> stage, changes |-> server.changes + 1]

\* handleIndex; the button is disabled while something runs.
PressIndex ==
  /\ ApiStatus = "success" /\ busy = "none" /\ ~IsActiveStatus(settled.row.status)
  /\ busy' = "sent"
  /\ UNCHANGED <<server, key, flights, settled, asked, moves>>

\* The bound leaves room for a whole run.
RunFits == server.changes + Len(Steps) + 1 <= MaxChanges

\* The POST is accepted, or refused because a job is active.
PostArrives ==
  /\ busy = "sent"
  /\ \/ /\ ~IsActiveStatus(server.status) /\ RunFits
        /\ Changes("queued", "queued")
        /\ busy' = "accepted"
     \/ /\ IsActiveStatus(server.status) \/ ~RunFits
        /\ busy' = "refused"
        /\ UNCHANGED server
  /\ UNCHANGED <<key, flights, settled, asked, moves>>

\* Its answer reloads the page; an error, or an answer that came too late,
\* only shows a message.
PostReturns ==
  /\ busy \in {"accepted", "refused"}
  /\ busy' = "none"
  /\ \/ busy = "accepted" /\ Reload
     \/ UNCHANGED <<key, flights, settled, asked>>
  /\ UNCHANGED <<server, moves>>

\* The pipeline moves on, or fails in its present stage.
ServerAdvances ==
  /\ IsActiveStatus(server.status)
  /\ \/ server.status = "queued" /\ Changes("cloning", "cloning")
     \/ \E i \in 1..5 : server.status = Steps[i] /\ Changes(Steps[i + 1], Steps[i + 1])
     \/ Changes("failed", server.stage)
  /\ UNCHANGED <<key, flights, settled, asked, busy, moves>>

WebNext ==
  \/ \E k \in Keys : Navigate(k)
  \/ Retry \/ Tick
  \/ ServerReads \/ \E tag \in {0, 1} : AnswerArrives(tag)
  \/ CallbackRuns \/ PressIndex \/ PostArrives \/ PostReturns \/ ServerAdvances

\* A timer fires; every request ends, in its timeout if need be, unless a
\* later one aborts it; an indexing job ends.
WebFairness ==
  /\ WF_webVars(Tick) /\ WF_webVars(CallbackRuns) /\ WF_webVars(ServerAdvances)
  /\ WF_webVars(PostReturns)
  /\ \A tag \in {0, 1} : WF_webVars(AnswerArrives(tag))

WebSpec == WebInit /\ [][WebNext]_webVars /\ WebFairness

-----------------------------------------------------------------------------
(* Properties.                                                             *)

WebTypeOK ==
  /\ server \in Row /\ key \in Keys
  /\ \A f \in flights : f \in Flight
  /\ \A f, g \in flights : f.phase \in Waiting /\ g.phase \in Waiting => f = g
  /\ settled = NoAnswer \/ settled \in [key : Keys, current : BOOLEAN, ok : BOOLEAN, row : Row]
  /\ asked \in 0..MaxChanges
  /\ busy \in {"none", "sent", "accepted", "refused"}
  /\ moves \in 0..MaxMoves

\* After a reload, a page that says it is not refreshing shows the repository
\* as it was when the reload was asked for, or later (use-api.ts:61).
ShownIsFresh ==
  ApiStatus = "success" /\ ~IsRefreshing => settled.row.changes >= asked

\* What a page shows of a repository never goes back to an earlier state: an
\* answer to an earlier request cannot replace a later one (use-api.ts:45-53).
ShownNeverGoesBack ==
  [][settled # NoAnswer /\ settled'.key = settled.key /\ settled.ok /\ settled'.ok
       => settled'.row.changes >= settled.row.changes]_webVars

\* The timer runs exactly while the progress display shows running work
\* (repository-details.tsx:522-529, indexing-progress.tsx:155).
ProgressIsPolled == ApiStatus = "success" => (Polling <=> ProgressActive(settled.row))

\* A page stops loading, and a page that shows running work comes to show
\* its end or an error: polls never abort each other for ever
\* (repository-details.tsx:526) and no late answer of an earlier key hides
\* the present one (use-api.ts:58).
PageSettles ==
  (ApiStatus = "loading" \/ Polling) ~> (ApiStatus # "loading" /\ ~Polling)

\* "polling stops once the status settles" (docs/architecture.md:219-220):
\* a page that shows running work polls until it shows the end of it.
PollingStopsOnlyWhenSettled ==
  [][Polling /\ key' = key /\ ~Polling' =>
       settled'.ok /\ ~IsActiveStatus(settled'.row.status)]_webVars

=============================================================================
