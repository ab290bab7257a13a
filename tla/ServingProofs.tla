---------------------------- MODULE ServingProofs ----------------------------
(***************************************************************************)
(* Proofs about GitClient and Registration, for any number of requests,    *)
(* URLs, names and timeouts, and about the page of a repository, for any   *)
(* set of keys and any bounds on what server and user do.                  *)
(***************************************************************************)
EXTENDS Registration, WebClient, TLAPS

-----------------------------------------------------------------------------
(* The git client.                                                         *)

GitTypes ==
  /\ command \in [Callers -> CommandNames \cup {"none"}]
  /\ gpc \in [Callers -> {"none", "poll", "check", "kill", "drain"}]
  /\ leader \in [Callers -> {"none", "running", "exit0", "exit1", "killed"}]
  /\ helper \in [Callers -> BOOLEAN]
  /\ elapsed \in [Callers -> Nat]
  /\ reason \in [Callers -> {"none", "cancelled", "git_timeout"}]
  /\ outcome \in [Callers -> Outcomes]
  /\ cancelled \in BOOLEAN

\* A command is within its time, one poll interval less while it is polled.
TimeIsKept(c) ==
  /\ gpc[c] # "none" => elapsed[c] <= Timeout(command[c])
  /\ gpc[c] = "poll" => elapsed[c] < Timeout(command[c])

\* A group is killed for the reason that was found.
ReasonIsTrue(c) ==
  gpc[c] \in {"kill", "drain"} =>
    /\ reason[c] \in {"cancelled", "git_timeout"}
    /\ reason[c] = "cancelled" => cancelled
    /\ reason[c] = "git_timeout" => elapsed[c] >= Timeout(command[c])

\* OutcomeIsTrue of one caller.
OutcomeOf(c) == Idle(c) =>
  /\ leader[c] # "running" /\ ~helper[c]
  /\ outcome[c] = "output" => leader[c] = "exit0"
  /\ outcome[c] \in Errors =>
       leader[c] = "exit1" \/ (command[c] = "rev-parse" /\ outcome[c] = "git_failed")
  /\ outcome[c] = "cancelled" => cancelled
  /\ outcome[c] = "git_timeout" => elapsed[c] >= Timeout(command[c])

CallerInv(c) == TimeIsKept(c) /\ ReasonIsTrue(c) /\ OutcomeOf(c)
GitInv == GitTypes /\ \A c \in Callers : CallerInv(c)

LEMMA TimeoutIsPositive == \A name : Timeout(name) \in Nat \ {0}
BY TimeoutAssumption DEF Timeout

LEMMA ClassifyIsAnError == \A text : Classify(text) \in Errors
BY DEF Classify, Errors

LEMMA InitGitInv == GitInit => GitInv
<1> SUFFICES ASSUME GitInit PROVE GitInv
  OBVIOUS
<1>1. GitTypes
  BY DEF GitInit, GitTypes, Outcomes
<1>2. ASSUME NEW c \in Callers PROVE CallerInv(c)
  <2>1. gpc[c] = "none" /\ leader[c] = "none" /\ helper[c] = FALSE /\ outcome[c] = "none"
    BY DEF GitInit
  <2> QED
    BY <2>1 DEF CallerInv, TimeIsKept, ReasonIsTrue, OutcomeOf, Idle, Errors
<1> QED
  BY <1>1, <1>2 DEF GitInv

\* Steps of another caller and the cancel event keep what holds of a caller.
LEMMA OtherCaller ==
  ASSUME NEW c, CallerInv(c), cancelled => cancelled',
         command'[c] = command[c], gpc'[c] = gpc[c], leader'[c] = leader[c],
         helper'[c] = helper[c], elapsed'[c] = elapsed[c], reason'[c] = reason[c],
         outcome'[c] = outcome[c]
  PROVE  CallerInv(c)'
BY DEF CallerInv, TimeIsKept, ReasonIsTrue, OutcomeOf, Idle, Timeout

(* A step of the caller itself.                                            *)
LEMMA CallerKeepsInv ==
  ASSUME GitInv, NEW c \in Callers, CallerStep(c)
  PROVE  GitTypes' /\ CallerInv(c)'
<1> USE DEF GitInv, GitTypes, CallerInv
<1>1. CASE CommunicateReturns(c)
  <2>1. CASE Spawn(c, "rev-parse") /\ UNCHANGED <<reason, outcome>>
    <3>1. GitTypes'
      BY <1>1, <2>1 DEF CommunicateReturns, Spawn, CommandNames
    <3>2. command'[c] = "rev-parse" /\ gpc'[c] = "poll" /\ elapsed'[c] = 0
      BY <2>1 DEF Spawn
    <3> QED
      BY <3>1, <3>2, TimeoutIsPositive DEF TimeIsKept, ReasonIsTrue, OutcomeOf, Idle
  <2>2. CASE \E result \in {"output"} \cup Errors :
               /\ Finish(c, result) /\ UNCHANGED <<leader, elapsed>>
               /\ result = "output" => leader[c] = "exit0"
               /\ result \in Errors =>
                    leader[c] = "exit1" \/ (command[c] = "rev-parse" /\ result = "git_failed")
    <3>1. PICK result \in {"output"} \cup Errors :
               /\ Finish(c, result) /\ UNCHANGED <<leader, elapsed>>
               /\ result = "output" => leader[c] = "exit0"
               /\ result \in Errors =>
                    leader[c] = "exit1" \/ (command[c] = "rev-parse" /\ result = "git_failed")
      BY <2>2
    <3>2. GitTypes'
      BY <1>1, <3>1 DEF CommunicateReturns, Finish, Outcomes
    <3>3. gpc'[c] = "none" /\ outcome'[c] = result /\ command' = command
      BY <3>1 DEF Finish
    <3>4. leader'[c] # "running" /\ ~helper'[c]
      BY <1>1, <3>1 DEF CommunicateReturns, PipesClosed
    <3>5. result \notin {"cancelled", "git_timeout"}
      BY <3>1 DEF Errors
    <3> QED
      BY <3>1, <3>2, <3>3, <3>4, <3>5 DEF TimeIsKept, ReasonIsTrue, OutcomeOf, Idle, Errors
  <2> QED
    BY <1>1, <2>1, <2>2, ClassifyIsAnError DEF CommunicateReturns, Errors
<1>2. CASE PollExpires(c)
  <2>1. GitTypes' /\ gpc'[c] = "check" /\ elapsed'[c] = elapsed[c] + 1
    BY <1>2 DEF PollExpires
  <2>2. elapsed[c] < Timeout(command[c]) /\ command' = command
    BY <1>2 DEF PollExpires, TimeIsKept
  <2> QED
    BY <2>1, <2>2, TimeoutIsPositive DEF TimeIsKept, ReasonIsTrue, OutcomeOf, Idle
<1>3. CASE Check(c)
  <2>1. GitTypes' /\ UNCHANGED <<command, elapsed, cancelled>>
    BY <1>3 DEF Check
  <2>2. CASE Stopping(c)
    <3>1. gpc'[c] = "kill" /\ reason'[c] = "cancelled" /\ cancelled
      BY <1>3, <2>2 DEF Check, Stopping
    <3> QED
      BY <1>3, <2>1, <3>1 DEF Check, TimeIsKept, ReasonIsTrue, OutcomeOf, Idle
  <2>3. CASE ~Stopping(c) /\ Overdue(c)
    <3>1. gpc'[c] = "kill" /\ reason'[c] = "git_timeout"
      BY <1>3, <2>3 DEF Check
    <3> QED
      BY <1>3, <2>1, <2>3, <3>1 DEF Check, Overdue, TimeIsKept, ReasonIsTrue, OutcomeOf, Idle
  <2>4. CASE ~Stopping(c) /\ ~Overdue(c)
    <3>1. gpc'[c] = "poll" /\ reason'[c] = "none"
      BY <1>3, <2>4 DEF Check
    <3>2. elapsed[c] < Timeout(command[c])
      BY <2>4, TimeoutIsPositive DEF Overdue
    <3> QED
      BY <2>1, <3>1, <3>2, TimeoutIsPositive DEF TimeIsKept, ReasonIsTrue, OutcomeOf, Idle
  <2> QED
    BY <2>2, <2>3, <2>4
<1>4. CASE KillGroup(c)
  BY <1>4 DEF KillGroup, TimeIsKept, ReasonIsTrue, OutcomeOf, Idle
<1>5. CASE Drain(c)
  <2>1. reason[c] \in {"cancelled", "git_timeout"} /\ UNCHANGED <<command, elapsed, cancelled>>
    BY <1>5 DEF Drain, Finish, ReasonIsTrue
  <2>2. GitTypes'
    BY <1>5, <2>1 DEF Drain, Finish, Outcomes
  <2>3. gpc'[c] = "none" /\ outcome'[c] = reason[c] /\ leader'[c] # "running" /\ ~helper'[c]
    BY <1>5 DEF Drain, Finish, PipesClosed
  <2>4. /\ reason[c] = "cancelled" => cancelled
        /\ reason[c] = "git_timeout" => elapsed[c] >= Timeout(command[c])
    BY <1>5 DEF Drain, ReasonIsTrue
  <2>5. TimeIsKept(c)' /\ ReasonIsTrue(c)'
    BY <2>3 DEF TimeIsKept, ReasonIsTrue
  <2>6. OutcomeOf(c)'
    <3>1. outcome'[c] \notin Errors \cup {"output"}
      BY <2>1, <2>3 DEF Errors
    <3>2. /\ outcome'[c] = "cancelled" => cancelled'
          /\ outcome'[c] = "git_timeout" => elapsed'[c] >= Timeout(command'[c])
      BY <2>1, <2>3, <2>4
    <3> QED
      BY <2>3, <3>1, <3>2 DEF OutcomeOf
  <2> QED
    BY <2>2, <2>5, <2>6
<1> QED
  BY <1>1, <1>2, <1>3, <1>4, <1>5 DEF CallerStep

(* A call, a step of the process group, the cancel event.                  *)
LEMMA CallKeepsInv ==
  ASSUME GitInv, NEW c \in Callers, NEW name \in Operations, Call(c, name)
  PROVE  GitTypes' /\ CallerInv(c)'
<1> USE DEF GitInv, GitTypes, CallerInv
<1>1. CASE Spawn(c, name) /\ outcome' = [outcome EXCEPT ![c] = "none"]
  <2>1. GitTypes'
    BY <1>1 DEF Call, Spawn, CommandNames, Outcomes
  <2>2. command'[c] = name /\ gpc'[c] = "poll" /\ elapsed'[c] = 0
    BY <1>1 DEF Spawn
  <2> QED
    BY <2>1, <2>2, TimeoutIsPositive DEF TimeIsKept, ReasonIsTrue, OutcomeOf, Idle
<1>2. CASE /\ outcome' = [outcome EXCEPT ![c] = "git_unavailable"]
           /\ UNCHANGED <<command, gpc, leader, elapsed>>
  BY <1>2 DEF Call, TimeIsKept, ReasonIsTrue, OutcomeOf, Idle, Outcomes, Errors
<1> QED
  BY <1>1, <1>2 DEF Call

LEMMA GroupKeepsInv ==
  ASSUME GitInv, NEW c \in Callers, GroupStep(c)
  PROVE  GitTypes' /\ CallerInv(c)'
<1> USE DEF GitInv, GitTypes, CallerInv, TimeIsKept, ReasonIsTrue, OutcomeOf, Idle
<1>1. CASE \E status \in {"exit0", "exit1"} : GitExits(c, status)
  BY <1>1 DEF GitExits
<1>2. CASE HelperStarts(c)
  BY <1>2 DEF HelperStarts
<1>3. CASE HelperExits(c)
  BY <1>3 DEF HelperExits
<1> QED
  BY <1>1, <1>2, <1>3 DEF GroupStep

\* A step of one caller or of its process group leaves the others alone.
LEMMA StepIsLocal ==
  ASSUME GitTypes, NEW c \in Callers, NEW d \in Callers, c # d,
         \/ CallerStep(c) \/ GroupStep(c) \/ \E name \in Operations : Call(c, name)
  PROVE  /\ cancelled' = cancelled
         /\ command'[d] = command[d] /\ gpc'[d] = gpc[d] /\ leader'[d] = leader[d]
         /\ helper'[d] = helper[d] /\ elapsed'[d] = elapsed[d]
         /\ reason'[d] = reason[d] /\ outcome'[d] = outcome[d]
<1> USE DEF GitTypes
<1>1. CASE CommunicateReturns(c)
  BY <1>1 DEF CommunicateReturns, Spawn, Finish
<1>2. CASE PollExpires(c) \/ Check(c) \/ KillGroup(c)
  BY <1>2 DEF PollExpires, Check, KillGroup
<1>3. CASE Drain(c)
  BY <1>3 DEF Drain, Finish
<1>4. CASE GroupStep(c)
  BY <1>4 DEF GroupStep, GitExits, HelperStarts, HelperExits
<1>5. CASE \E name \in Operations : Call(c, name)
  BY <1>5 DEF Call, Spawn
<1> QED
  BY <1>1, <1>2, <1>3, <1>4, <1>5 DEF CallerStep

LEMMA StepGitInv == GitInv /\ [GitNext]_gitVars => GitInv'
<1> SUFFICES ASSUME GitInv, [GitNext]_gitVars PROVE GitInv'
  OBVIOUS
<1>1. ASSUME NEW c \in Callers,
             \/ CallerStep(c) \/ GroupStep(c) \/ \E name \in Operations : Call(c, name)
      PROVE  GitInv'
  <2>1. GitTypes' /\ CallerInv(c)'
    BY <1>1, CallerKeepsInv, GroupKeepsInv, CallKeepsInv
  <2>2. ASSUME NEW d \in Callers, c # d PROVE CallerInv(d)'
    BY <1>1, <2>2, StepIsLocal, OtherCaller DEF GitInv
  <2> QED
    BY <2>1, <2>2 DEF GitInv
<1>2. CASE SetCancelEvent
  <2>1. GitTypes' /\ UNCHANGED <<command, gpc, leader, helper, elapsed, reason, outcome>>
    BY <1>2 DEF SetCancelEvent, GitInv, GitTypes
  <2> QED
    BY <1>2, <2>1, OtherCaller DEF SetCancelEvent, GitInv
<1>3. CASE UNCHANGED gitVars
  BY <1>3, OtherCaller DEF gitVars, GitInv, GitTypes
<1> QED
  BY <1>1, <1>2, <1>3 DEF GitNext

LEMMA GitInvIsEnough == GitInv => GitTypeOK /\ OutcomeIsTrue
BY DEF GitInv, GitTypes, CallerInv, TimeIsKept, OutcomeOf, GitTypeOK, OutcomeIsTrue, Idle

(* However the end of git, the expiry of its time and the cancel event     *)
(* race, the outcome of an operation is true of the process, and nothing   *)
(* of its process group is left (_wait and _kill of git.py).               *)
THEOREM GitOutcomesAreTrue == GitSpec => []OutcomeIsTrue
<1>1. GitSpec => []GitInv
  BY InitGitInv, StepGitInv, PTL DEF GitSpec
<1> QED
  BY <1>1, GitInvIsEnough, PTL

-----------------------------------------------------------------------------
(* Requests.                                                               *)

RegistrationTypes ==
  /\ projects \subseteq AllNames
  /\ inserted \in Submitters \cup {Nobody}
  /\ rstep \in [Submitters -> RequestSteps]
  /\ form \in [Submitters -> Forms \cup {NoForm}]
  /\ answer \in [Submitters -> Answers]

\* A request is in the steps of what it was sent, and its project is
\* committed or in its own open transaction.
RepositorySteps == {"resolve_project", "insert_default", "check_url", "remote", "insert"}
WithProject == {"check_url", "remote", "insert"}
RequestOf(q) ==
  /\ rstep[q] \in RepositorySteps => form[q].kind = "repository"
  /\ rstep[q] \in {"check_name", "insert_project"} => form[q].kind = "project"
  /\ rstep[q] \in RequestSteps \ {"idle"} => form[q] \in Forms
  /\ rstep[q] = "insert_default" => form[q].project = Nobody
  /\ rstep[q] \in WithProject => ProjectOf(q) \in projects \/ inserted = q
  /\ rstep[q] # "answered" => answer[q] = "none"

\* Only a request that goes on has the default project inserted.
InsertedIsOpen ==
  inserted # Nobody => rstep[inserted] \in WithProject /\ ProjectOf(inserted) = Default

\* The constraints of the tables.
RowsOK ==
  /\ \A row \in rows : row.project \in projects /\ row.by \in Submitters
  /\ \A row \in rows : \E url \in Urls : row.url = StoredUrl(url)
  /\ \A r1, r2 \in rows : r1.project = r2.project /\ r1.url = r2.url => r1 = r2

RegistrationInv ==
  /\ RegistrationTypes
  /\ \A q \in Submitters : RequestOf(q)
  /\ InsertedIsOpen
  /\ RowsOK
  /\ DefaultProjectIsWanted

LEMMA FormFacts ==
  /\ NoForm \notin Forms
  /\ \A f \in Forms : f.kind \in {"repository", "project"}
  /\ \A f \in Forms : f.kind = "repository" => f.url \in Urls /\ f.project \in Names \cup {Nobody}
  /\ \A f \in Forms : f.kind = "project" =>
       f.name \in AllNames /\ f = [kind |-> "project", name |-> f.name]
BY DEF Forms, NoForm

LEMMA InitRegistrationInv == Init => RegistrationInv
BY RegistrationAssumption
DEF Init, RegistrationInv, RegistrationTypes, RequestOf, InsertedIsOpen, RowsOK,
    DefaultProjectIsWanted, RequestSteps, RepositorySteps, WithProject, Answers

\* What holds of the requests, apart from the rows.
RequestsOK == RegistrationTypes /\ (\A q \in Submitters : RequestOf(q)) /\ InsertedIsOpen

LEMMA ProjectIsAName ==
  ASSUME NEW q \in Submitters, form[q] \in Forms, form[q].kind = "repository"
  PROVE  ProjectOf(q) \in AllNames
BY FormFacts DEF ProjectOf, AllNames

\* A request that is answered lets the others go on.
LEMMA AnswerKeepsRequests ==
  ASSUME RequestsOK, NEW q \in Submitters, rstep[q] \in RequestSteps \ {"idle", "answered"},
         NEW code \in Answers, Answer(q, code), form' = form,
         projects \subseteq projects', projects' \subseteq AllNames
  PROVE  RequestsOK'
<1> USE DEF RequestsOK, RegistrationTypes
<1>1. RegistrationTypes'
  BY DEF Answer, Goes, RequestSteps
<1>2. /\ rstep'[q] = "answered" /\ inserted' # q
      /\ inserted # q => inserted' = inserted
      /\ \A d \in Submitters : d # q => rstep'[d] = rstep[d] /\ answer'[d] = answer[d]
  BY RegistrationAssumption DEF Answer, Goes
<1>3. ASSUME NEW d \in Submitters PROVE RequestOf(d)'
  <2>1. CASE d = q
    BY <1>2, <2>1 DEF RequestOf, RepositorySteps, WithProject
  <2>2. CASE d # q
    BY <1>2, <2>2 DEF RequestOf, ProjectOf
  <2> QED
    BY <2>1, <2>2
<1>4. InsertedIsOpen'
  <2>1. CASE inserted = q
    BY <2>1, RegistrationAssumption DEF Answer, InsertedIsOpen
  <2>2. CASE inserted # q
    BY <1>2, <2>2 DEF InsertedIsOpen, ProjectOf
  <2> QED
    BY <2>1, <2>2
<1> QED
  BY <1>1, <1>3, <1>4

\* A request that goes on.
LEMMA ContinueKeepsRequests ==
  ASSUME RequestsOK, NEW q \in Submitters, NEW where \in RequestSteps, Continue(q, where),
         UNCHANGED <<form, projects>>, RequestOf(q)', inserted = q => where \in WithProject
  PROVE  RequestsOK'
<1> USE DEF RequestsOK, RegistrationTypes
<1>1. RegistrationTypes'
  BY DEF Continue, Goes
<1>2. /\ rstep'[q] = where /\ UNCHANGED <<answer, inserted>>
      /\ \A d \in Submitters : d # q => rstep'[d] = rstep[d]
  BY DEF Continue, Goes
<1>3. ASSUME NEW d \in Submitters, d # q PROVE RequestOf(d)'
  BY <1>2, <1>3 DEF RequestOf, ProjectOf
<1>4. InsertedIsOpen'
  BY <1>2 DEF InsertedIsOpen, ProjectOf
<1> QED
  BY <1>1, <1>3, <1>4

\* Where no row is added, the constraints and the default project stay.
LEMMA QuietRows ==
  ASSUME RegistrationInv, UNCHANGED rowVars,
         \A d \in Submitters : answer[d] = "created" => answer'[d] = "created" /\ form'[d] = form[d]
  PROVE  RowsOK' /\ DefaultProjectIsWanted'
BY DEF RegistrationInv, RowsOK, DefaultProjectIsWanted, rowVars

LEMMA AnsweredStays ==
  ASSUME RegistrationInv, NEW q \in Submitters, rstep[q] # "answered", form' = form,
         \A d \in Submitters : d # q => answer'[d] = answer[d]
  PROVE  \A d \in Submitters : answer[d] = "created" => answer'[d] = "created" /\ form'[d] = form[d]
BY DEF RegistrationInv, RequestOf

\* The same two cases with the rows.
LEMMA QuietAnswer ==
  ASSUME RegistrationInv, NEW q \in Submitters, rstep[q] \in RequestSteps \ {"idle", "answered"},
         NEW code \in Answers, Answer(q, code), UNCHANGED <<form, rowVars>>
  PROVE  RegistrationInv'
<1>1. RequestsOK'
  BY AnswerKeepsRequests DEF RegistrationInv, RequestsOK, RegistrationTypes, rowVars
<1>2. \A d \in Submitters : d # q => answer'[d] = answer[d]
  BY DEF Answer, RegistrationInv, RegistrationTypes
<1> QED
  BY <1>1, <1>2, AnsweredStays, QuietRows DEF RegistrationInv, RequestsOK

LEMMA QuietContinue ==
  ASSUME RegistrationInv, NEW q \in Submitters, NEW where \in RequestSteps, Continue(q, where),
         UNCHANGED <<form, rowVars>>, RequestOf(q)', inserted = q => where \in WithProject
  PROVE  RegistrationInv'
<1>1. RequestsOK'
  BY ContinueKeepsRequests DEF RegistrationInv, RequestsOK, rowVars
<1>2. answer' = answer
  BY DEF Continue
<1> QED
  BY <1>1, <1>2, QuietRows DEF RegistrationInv, RequestsOK

LEMMA AppErrorFacts ==
  \A error : /\ AppError(error) \in {"upstream_error", "internal_error", "unprocessable"}
             /\ AppError(error) = "upstream_error" => error \in {"network_error", "git_timeout"}
BY DEF AppError

LEMMA RefusalFacts ==
  \A url : Refusal(url) \in {"none", "forbidden", "invalid_source"}
BY DEF Refusal

(* Each step of a request.                                                 *)
LEMMA StepRequest ==
  ASSUME RegistrationInv, NEW q \in Submitters, RequestStep(q)
  PROVE  RegistrationInv'
<1> USE DEF RegistrationInv
<1>1. /\ rstep[q] \in RequestSteps \ {"idle", "answered"}
      /\ RequestOf(q) /\ form[q] \in Forms
      /\ inserted = q => rstep[q] \in WithProject
  BY RegistrationAssumption
  DEF RequestStep, ResolveProject, InsertDefault, CheckUrl, RemoteAnswers, InsertRepository,
      CheckName, InsertProject, RequestSteps, RequestOf, InsertedIsOpen
<1>2. CASE ResolveProject(q)
  <2>1. CASE ProjectOf(q) \in projects
    <3>1. Continue(q, "check_url") /\ UNCHANGED <<form, rowVars>>
      BY <1>2, <2>1 DEF ResolveProject
    <3>2. RequestOf(q)'
      BY <1>1, <1>2, <2>1, <3>1
      DEF RequestOf, Continue, Goes, ResolveProject, RepositorySteps, RequestSteps, WithProject,
          ProjectOf, rowVars, RegistrationTypes
    <3> QED
      BY <1>1, <3>1, <3>2, QuietContinue DEF WithProject, RequestSteps
  <2>2. CASE ProjectOf(q) \notin projects /\ form[q].project = Nobody
    <3>1. Continue(q, "insert_default") /\ UNCHANGED <<form, rowVars>>
      BY <1>2, <2>2 DEF ResolveProject
    <3>2. RequestOf(q)'
      BY <1>1, <1>2, <2>2, <3>1
      DEF RequestOf, Continue, Goes, ResolveProject, RepositorySteps, RequestSteps, WithProject,
          RegistrationTypes
    <3> QED
      BY <1>1, <1>2, <3>1, <3>2, QuietContinue DEF WithProject, RequestSteps, ResolveProject
  <2>3. CASE ProjectOf(q) \notin projects /\ form[q].project # Nobody
    BY <1>1, <1>2, <2>3, QuietAnswer DEF ResolveProject, Answers
  <2> QED
    BY <2>1, <2>2, <2>3
<1>3. CASE InsertDefault(q)
  <2>1. CASE Answer(q, "conflict")
    BY <1>1, <1>3, <2>1, QuietAnswer DEF InsertDefault, Answers
  <2>2. CASE inserted' = q /\ Goes(q, "check_url") /\ UNCHANGED answer
    <3>1. /\ rstep' = [rstep EXCEPT ![q] = "check_url"]
          /\ UNCHANGED <<form, answer, projects, rows>> /\ inserted = Nobody
      BY <1>3, <2>2 DEF InsertDefault, Goes, rowVars
    <3>2. RegistrationTypes'
      BY <2>2, <3>1 DEF RegistrationTypes, RequestSteps
    <3>3. ASSUME NEW d \in Submitters PROVE RequestOf(d)'
      BY <1>1, <1>3, <2>2, <3>1, RegistrationAssumption
      DEF RequestOf, InsertDefault, RepositorySteps, RequestSteps, WithProject, ProjectOf,
          RegistrationTypes
    <3>4. InsertedIsOpen'
      BY <1>1, <1>3, <2>2, <3>1
      DEF InsertedIsOpen, WithProject, ProjectOf, RequestOf, InsertDefault, RegistrationTypes
    <3> QED
      BY <3>1, <3>2, <3>3, <3>4, QuietRows DEF rowVars
  <2> QED
    BY <1>3, <2>1, <2>2 DEF InsertDefault
<1>4. CASE CheckUrl(q)
  <2>1. CASE \E code \in {"repository_exists", "forbidden", "invalid_source"} : Answer(q, code)
    BY <1>1, <1>4, <2>1, QuietAnswer DEF CheckUrl, Answers
  <2>2. CASE Continue(q, "remote")
    <3>1. RequestOf(q)'
      BY <1>1, <1>4, <2>2
      DEF RequestOf, Continue, Goes, CheckUrl, RepositorySteps, RequestSteps, WithProject,
          ProjectOf, rowVars, RegistrationTypes
    <3> QED
      BY <1>4, <2>2, <3>1, QuietContinue DEF CheckUrl, RequestSteps, WithProject
  <2> QED
    BY <1>4, <2>1, <2>2, RefusalFacts DEF CheckUrl
<1>5. CASE RemoteAnswers(q)
  <2>1. CASE Continue(q, "insert")
    <3>1. RequestOf(q)'
      BY <1>1, <1>5, <2>1
      DEF RequestOf, Continue, Goes, RemoteAnswers, RepositorySteps, RequestSteps, WithProject,
          ProjectOf, rowVars, RegistrationTypes
    <3> QED
      BY <1>5, <2>1, <3>1, QuietContinue DEF RemoteAnswers, RequestSteps, WithProject
  <2>2. CASE \E code \in {"upstream_error", "internal_error", "unprocessable"} : Answer(q, code)
    BY <1>1, <1>5, <2>2, QuietAnswer DEF RemoteAnswers, Answers
  <2> QED
    BY <1>5, <2>1, <2>2, AppErrorFacts DEF RemoteAnswers
<1>6. CASE InsertRepository(q)
  <2>1. CASE SameUrl(q) # {}
    BY <1>1, <1>6, <2>1, QuietAnswer DEF InsertRepository, Answers
  <2>2. CASE SameUrl(q) = {}
    <3> DEFINE new == [project |-> ProjectOf(q), url |-> StoredUrl(form[q].url), by |-> q]
    <3>1. /\ rows' = rows \cup {new} /\ projects' = projects \cup {ProjectOf(q)}
          /\ Answer(q, "created") /\ form' = form
      BY <1>6, <2>2 DEF InsertRepository
    <3>2. form[q].kind = "repository" /\ form[q].url \in Urls /\ ProjectOf(q) \in AllNames
      BY <1>1, <1>6, FormFacts, ProjectIsAName DEF InsertRepository, RequestOf, RepositorySteps
    <3>3. RequestsOK'
      BY <1>1, <3>1, <3>2, AnswerKeepsRequests DEF RequestsOK, RegistrationTypes, Answers
    <3>4. RowsOK'
      <4>1. \A row \in rows : ~(row.project = new.project /\ row.url = new.url)
        BY <2>2 DEF SameUrl
      <4>2. \A row \in rows' : row.project \in projects' /\ row.by \in Submitters
        BY <3>1 DEF RowsOK
      <4>3. \A row \in rows' : \E url \in Urls : row.url = StoredUrl(url)
        BY <3>1, <3>2 DEF RowsOK
      <4>4. \A r1, r2 \in rows' : r1.project = r2.project /\ r1.url = r2.url => r1 = r2
        BY <3>1, <4>1 DEF RowsOK
      <4> QED
        BY <4>2, <4>3, <4>4 DEF RowsOK, StoredUrl, CanonicalUrl
    <3>5. DefaultProjectIsWanted'
      <4>1. CASE ProjectOf(q) = Default
        <5>1. new \in rows' /\ new.project = Default
          BY <3>1, <4>1
        <5> QED
          BY <5>1 DEF DefaultProjectIsWanted
      <4>2. CASE ProjectOf(q) # Default
        <5>1. \A d \in Submitters : d # q => answer'[d] = answer[d]
          BY <3>1 DEF Answer, RegistrationTypes
        <5> QED
          BY <1>1, <3>1, <4>2, <5>1, AnsweredStays DEF DefaultProjectIsWanted
      <4> QED
        BY <4>1, <4>2
    <3> QED
      BY <3>3, <3>4, <3>5 DEF RequestsOK
  <2> QED
    BY <2>1, <2>2
<1>7. CASE CheckName(q)
  <2>1. CASE form[q].name \in projects
    BY <1>1, <1>7, <2>1, QuietAnswer DEF CheckName, Answers
  <2>2. CASE form[q].name \notin projects
    <3>1. Continue(q, "insert_project") /\ UNCHANGED <<form, rowVars>>
      BY <1>7, <2>2 DEF CheckName
    <3>2. RequestOf(q)'
      BY <1>1, <1>7, <3>1
      DEF RequestOf, Continue, Goes, CheckName, RepositorySteps, RequestSteps, WithProject,
          RegistrationTypes
    <3> QED
      BY <1>1, <1>7, <3>1, <3>2, QuietContinue DEF CheckName, RequestSteps, WithProject
  <2> QED
    BY <2>1, <2>2
<1>8. CASE InsertProject(q)
  <2>1. CASE form[q].name \in projects
    BY <1>1, <1>8, <2>1, QuietAnswer DEF InsertProject, Answers, rowVars
  <2>2. CASE form[q].name \notin projects
    <3>1. /\ projects' = projects \cup {form[q].name} /\ Answer(q, "created")
          /\ UNCHANGED <<form, rows>>
      BY <1>8, <2>2 DEF InsertProject
    <3>2. form[q].name \in AllNames /\ form[q] = [kind |-> "project", name |-> form[q].name]
      BY <1>1, <1>8, FormFacts DEF InsertProject, RequestOf
    <3>3. RequestsOK'
      BY <1>1, <3>1, <3>2, AnswerKeepsRequests DEF RequestsOK, RegistrationTypes, Answers
    <3>4. RowsOK'
      BY <3>1 DEF RowsOK
    <3>5. /\ answer'[q] = "created"
          /\ \A d \in Submitters : d # q => answer'[d] = answer[d]
      BY <3>1 DEF Answer, RegistrationTypes
    <3>6. DefaultProjectIsWanted'
      <4>1. CASE form[q].name = Default
        BY <3>1, <3>2, <3>5, <4>1 DEF DefaultProjectIsWanted
      <4>2. CASE form[q].name # Default
        BY <1>1, <3>1, <3>5, <4>2, AnsweredStays DEF DefaultProjectIsWanted
      <4> QED
        BY <4>1, <4>2
    <3> QED
      BY <3>3, <3>4, <3>6 DEF RequestsOK
  <2> QED
    BY <2>1, <2>2
<1> QED
  BY <1>2, <1>3, <1>4, <1>5, <1>6, <1>7, <1>8 DEF RequestStep

(* A new request, and the steps of git.                                    *)
LEMMA StepSubmit ==
  ASSUME RegistrationInv, NEW q \in Submitters, NEW f \in Forms, Submit(q, f)
  PROVE  RegistrationInv'
<1> USE DEF RegistrationInv
<1>1. /\ rstep' = [rstep EXCEPT ![q] = IF f.kind = "project" THEN "check_name" ELSE "resolve_project"]
      /\ form' = [form EXCEPT ![q] = f] /\ UNCHANGED <<answer, inserted, projects, rows>>
      /\ rstep[q] = "idle"
  BY DEF Submit, Continue, Goes, rowVars
<1>2. RegistrationTypes'
  BY <1>1 DEF RegistrationTypes, RequestSteps
<1>3. inserted # q /\ answer[q] = "none"
  BY <1>1, RegistrationAssumption DEF InsertedIsOpen, WithProject, RequestOf
<1>4. ASSUME NEW d \in Submitters PROVE RequestOf(d)'
  <2>1. CASE d = q
    BY <1>1, <1>3, <2>1, FormFacts
    DEF RequestOf, RepositorySteps, WithProject, RegistrationTypes
  <2>2. CASE d # q
    BY <1>1, <2>2 DEF RequestOf, ProjectOf, RegistrationTypes
  <2> QED
    BY <2>1, <2>2
<1>5. InsertedIsOpen'
  BY <1>1, <1>3 DEF InsertedIsOpen, ProjectOf, RegistrationTypes
<1>6. \A d \in Submitters : answer[d] = "created" => answer'[d] = "created" /\ form'[d] = form[d]
  BY <1>1, <1>3 DEF RegistrationTypes
<1> QED
  BY <1>1, <1>2, <1>4, <1>5, <1>6, QuietRows DEF rowVars

LEMMA StepGit ==
  ASSUME RegistrationInv, UNCHANGED <<rowVars, inserted, requestVars>>
  PROVE  RegistrationInv'
BY DEF RegistrationInv, RegistrationTypes, RequestOf, InsertedIsOpen, RowsOK, ProjectOf,
       DefaultProjectIsWanted, rowVars, requestVars

LEMMA StepRegistrationInv == RegistrationInv /\ [Next]_registrationVars => RegistrationInv'
<1> SUFFICES ASSUME RegistrationInv, [Next]_registrationVars PROVE RegistrationInv'
  OBVIOUS
<1>1. CASE \E q \in Submitters : RequestStep(q)
  BY <1>1, StepRequest
<1>2. CASE \E q \in Submitters, f \in Forms : Submit(q, f)
  BY <1>2, StepSubmit
<1>3. CASE UNCHANGED <<rowVars, inserted, requestVars>>
  BY <1>3, StepGit
<1> QED
  BY <1>1, <1>2, <1>3 DEF Next, GitStep, registrationVars

(* A step of the registrations is one of the git client or leaves it.      *)
LEMMA StepIsOfGit ==
  ASSUME [Next]_registrationVars PROVE [GitNext]_gitVars
<1>1. CASE \E q \in Submitters : RequestStep(q)
  <2>1. PICK q \in Submitters : RequestStep(q)
    BY <1>1
  <2>2. UNCHANGED gitVars \/ Call(q, "ls-remote")
    BY <2>1
    DEF RequestStep, ResolveProject, InsertDefault, CheckUrl, RemoteAnswers, InsertRepository,
        CheckName, InsertProject
  <2>3. q \in Callers /\ "ls-remote" \in Operations
    BY RegistrationAssumption DEF Operations
  <2> QED
    BY <2>2, <2>3 DEF GitNext
<1>2. CASE \E q \in Submitters, f \in Forms : Submit(q, f)
  BY <1>2 DEF Submit
<1>3. CASE \E q \in Submitters : CallerStep(q) \/ GroupStep(q)
  BY <1>3, RegistrationAssumption DEF GitNext
<1> QED
  BY <1>1, <1>2, <1>3 DEF Next, GitStep, registrationVars

(* The constraints of the tables, the open transaction and the git         *)
(* commands together.                                                      *)
IInv == GitInv /\ RegistrationInv

LEMMA RegistrationInvariance == Spec => []IInv
<1>1. Init => IInv
  BY InitGitInv, InitRegistrationInv DEF Init, IInv
<1>2. IInv /\ [Next]_registrationVars => IInv'
  BY StepIsOfGit, StepGitInv, StepRegistrationInv DEF IInv
<1> QED
  BY <1>1, <1>2, PTL DEF Spec

-----------------------------------------------------------------------------
(* Theorems.                                                               *)

(* Requests, rows and git commands keep their types; a committed row       *)
(* belongs to a committed project although the project of a registration   *)
(* may only exist in its open transaction (repository_service.py:101).     *)
THEOREM RegistrationKeepsTypes == Spec => []RegistrationTypeOK
<1>1. IInv => RegistrationTypeOK
  BY GitInvIsEnough
  DEF IInv, RegistrationInv, RegistrationTypes, RowsOK, RegistrationTypeOK
<1> QED
  BY <1>1, RegistrationInvariance, PTL

(* However many requests register a repository at once, and however they   *)
(* spell its URL, a project has it once: canonical_url makes one spelling  *)
(* of all of them and the unique constraint does the rest.                 *)
THEOREM RepositoriesAreRegisteredOnce == Spec => []OneRegistrationPerRepository
<1>1. IInv => OneRegistrationPerRepository
  <2> SUFFICES ASSUME RowsOK, NEW r1 \in rows, NEW r2 \in rows, r1.project = r2.project,
                      "repo" \in DOMAIN r1.url, "repo" \in DOMAIN r2.url,
                      r1.url.repo = r2.url.repo
               PROVE  r1 = r2
    BY DEF IInv, RegistrationInv, OneRegistrationPerRepository
  <2>1. \A row \in rows : "repo" \in DOMAIN row.url =>
          row.url = [repo |-> row.url.repo, suffix |-> FALSE, capitals |-> FALSE]
    <3> SUFFICES ASSUME NEW row \in rows, "repo" \in DOMAIN row.url
                 PROVE  row.url = [repo |-> row.url.repo, suffix |-> FALSE, capitals |-> FALSE]
      OBVIOUS
    <3>1. PICK url \in Urls : row.url = StoredUrl(url)
      BY DEF RowsOK
    <3>2. row.url # [path |-> url.resolved]
      <4>1. DOMAIN [path |-> url.resolved] = {"path"}
        OBVIOUS
      <4> QED
        BY <4>1
    <3>3. row.url = CanonicalUrl(url)
      BY <3>1, <3>2 DEF StoredUrl
    <3>4. row.url = [repo |-> url.repo, suffix |-> FALSE, capitals |-> FALSE]
      BY <3>3 DEF CanonicalUrl
    <3>5. row.url.repo = url.repo
      BY <3>4
    <3> QED
      BY <3>4, <3>5
  <2>2. r1.url = r2.url
    BY <2>1
  <2> QED
    BY <2>2 DEF RowsOK
<1> QED
  BY <1>1, RegistrationInvariance, PTL

(* A refused source or a failed git command leaves no default project      *)
(* behind, whoever else asks for it meanwhile.                             *)
THEOREM DefaultProjectIsNeverLeftBehind == Spec => []DefaultProjectIsWanted
<1>1. IInv => DefaultProjectIsWanted
  BY DEF IInv, RegistrationInv
<1> QED
  BY <1>1, RegistrationInvariance, PTL

(* The git commands of registrations report what their processes did.      *)
THEOREM RemoteOutcomesAreTrue == Spec => []OutcomeIsTrue
<1>1. IInv => OutcomeIsTrue
  BY GitInvIsEnough DEF IInv
<1> QED
  BY <1>1, RegistrationInvariance, PTL

\* AnswersAreTrue of one request and one step.
AnswerIsTrue(q) == answer'[q] # answer[q] =>
  /\ answer'[q] = "created" <=> rowVars' # rowVars
  /\ answer'[q] = "created" /\ form[q].kind = "repository" =>
       \E row \in rows' \ rows : row.by = q
  /\ answer'[q] \in {"conflict", "repository_exists"} =>
       IF form[q].kind = "project" THEN form[q].name \in projects
       ELSE SameUrl(q) # {} \/ (rstep[q] = "insert_default" /\ Default \in projects)
  /\ answer'[q] = "upstream_error" => outcome[q] \in {"network_error", "git_timeout"}

LEMMA AnswerGives ==
  ASSUME RegistrationTypes, NEW q \in Submitters, NEW code, Answer(q, code)
  PROVE  answer'[q] = code
BY DEF Answer, RegistrationTypes

(* A request that is answered without a change.                            *)
LEMMA RefusalsAreReported ==
  ASSUME RegistrationInv, NEW q \in Submitters, RequestStep(q), rowVars' = rowVars,
         answer'[q] # answer[q]
  PROVE  AnswerIsTrue(q)
<1>1. RequestOf(q) /\ RegistrationTypes /\ \A f \in Forms : f.kind \in {"repository", "project"}
  BY FormFacts DEF RegistrationInv
<1>2. CASE ResolveProject(q)
  BY <1>1, <1>2, AnswerGives DEF ResolveProject, Continue, AnswerIsTrue
<1>3. CASE InsertDefault(q)
  <2>1. CASE Answer(q, "conflict") /\ Default \in projects
    <3>1. answer'[q] = "conflict" /\ rstep[q] = "insert_default" /\ form[q].kind = "repository"
      BY <1>1, <1>3, <2>1, AnswerGives DEF InsertDefault, RequestOf, RepositorySteps
    <3> QED
      BY <2>1, <3>1 DEF AnswerIsTrue
  <2> QED
    BY <1>3, <2>1 DEF InsertDefault
<1>4. CASE CheckUrl(q)
  <2>1. form[q].kind = "repository"
    BY <1>1, <1>4 DEF CheckUrl, RequestOf, RepositorySteps
  <2>2. \/ answer'[q] \in {"forbidden", "invalid_source"}
        \/ answer'[q] = "repository_exists" /\ SameUrl(q) # {}
    BY <1>1, <1>4, AnswerGives, RefusalFacts DEF CheckUrl, Continue
  <2> QED
    BY <2>1, <2>2 DEF AnswerIsTrue
<1>5. CASE RemoteAnswers(q)
  <2>1. /\ answer'[q] \in {"upstream_error", "internal_error", "unprocessable"}
        /\ answer'[q] = "upstream_error" => outcome[q] \in {"network_error", "git_timeout"}
    BY <1>1, <1>5, AnswerGives, AppErrorFacts DEF RemoteAnswers, Continue
  <2> QED
    BY <2>1 DEF AnswerIsTrue
<1>6. CASE InsertRepository(q)
  <2>1. form[q].kind = "repository"
    BY <1>1, <1>6 DEF InsertRepository, RequestOf, RepositorySteps
  <2>2. SameUrl(q) # {}
    <3>1. ASSUME SameUrl(q) = {} PROVE FALSE
      <4> DEFINE new == [project |-> ProjectOf(q), url |-> StoredUrl(form[q].url), by |-> q]
      <4>1. new \in rows' /\ new.project = ProjectOf(q) /\ new.url = StoredUrl(form[q].url)
        BY <1>6, <3>1 DEF InsertRepository
      <4> HIDE DEF new
      <4>2. new \in rows
        BY <4>1 DEF rowVars
      <4> QED
        BY <3>1, <4>1, <4>2 DEF SameUrl
    <3> QED
      BY <3>1
  <2>3. answer'[q] = "conflict"
    BY <1>1, <1>6, <2>2, AnswerGives DEF InsertRepository
  <2> QED
    BY <2>1, <2>2, <2>3 DEF AnswerIsTrue
<1>7. CASE CheckName(q)
  BY <1>1, <1>7, AnswerGives DEF CheckName, Continue, AnswerIsTrue, RequestOf
<1>8. CASE InsertProject(q)
  <2>1. form[q].kind = "project"
    BY <1>1, <1>8 DEF InsertProject, RequestOf
  <2>2. form[q].name \in projects /\ answer'[q] = "conflict"
    BY <1>1, <1>8, AnswerGives DEF InsertProject, rowVars
  <2> QED
    BY <2>1, <2>2 DEF AnswerIsTrue
<1> QED
  BY <1>2, <1>3, <1>4, <1>5, <1>6, <1>7, <1>8 DEF RequestStep

(* A request that adds a row or a project is answered "created".           *)
LEMMA AdditionsAreReported ==
  ASSUME RegistrationInv, NEW q \in Submitters, RequestStep(q), rowVars' # rowVars
  PROVE  AnswerIsTrue(q)
<1>1. RegistrationTypes /\ RequestOf(q)
  BY DEF RegistrationInv
<1>2. CASE InsertRepository(q)
  <2> DEFINE new == [project |-> ProjectOf(q), url |-> StoredUrl(form[q].url), by |-> q]
  <2>1. SameUrl(q) = {} /\ rows' = rows \cup {new} /\ answer'[q] = "created"
    BY <1>1, <1>2, AnswerGives DEF InsertRepository
  <2>2. new \notin rows
    BY <2>1 DEF SameUrl
  <2>3. \E row \in rows' \ rows : row.by = q
    BY <2>1, <2>2
  <2> QED
    BY <2>1, <2>3 DEF AnswerIsTrue
<1>3. CASE InsertProject(q)
  <2>1. answer'[q] = "created" /\ form[q].kind = "project"
    BY <1>1, <1>3, AnswerGives DEF InsertProject, rowVars, RequestOf
  <2> QED
    BY <2>1 DEF AnswerIsTrue
<1> QED
  BY <1>2, <1>3
  DEF RequestStep, ResolveProject, InsertDefault, CheckUrl, RemoteAnswers, CheckName

(* A step of one request answers no other.                                 *)
LEMMA OthersAreNotAnswered ==
  ASSUME RegistrationTypes, NEW q \in Submitters, RequestStep(q),
         NEW d \in Submitters, d # q
  PROVE  answer'[d] = answer[d]
BY DEF RequestStep, ResolveProject, InsertDefault, CheckUrl, RemoteAnswers, InsertRepository,
       CheckName, InsertProject, Answer, Continue, RegistrationTypes

(* "created" means a row or project of one's own, any other answer means   *)
(* no change, and a conflict means that the name or source is taken or     *)
(* that the default project appeared meanwhile (repository_service.py,     *)
(* project_service.py, the handler of IntegrityError in exceptions.py).    *)
THEOREM AnswersTellWhatHappened == Spec => AnswersAreTrue
<1>1. ASSUME RegistrationInv, [Next]_registrationVars, NEW d \in Submitters
      PROVE  AnswerIsTrue(d)
  <2> SUFFICES ASSUME answer'[d] # answer[d] PROVE AnswerIsTrue(d)
    BY DEF AnswerIsTrue
  <2>1. RegistrationTypes
    BY <1>1 DEF RegistrationInv
  <2>2. PICK q \in Submitters : RequestStep(q)
    BY <1>1 DEF Next, Submit, Continue, GitStep, requestVars, registrationVars
  <2>3. d = q
    BY <2>1, <2>2, OthersAreNotAnswered
  <2> QED
    BY <1>1, <2>2, <2>3, RefusalsAreReported, AdditionsAreReported
<1>2. RegistrationInv /\ [Next]_registrationVars =>
        [\A q \in Submitters : AnswerIsTrue(q)]_registrationVars
  BY <1>1
<1>3. Spec => []RegistrationInv
  BY RegistrationInvariance, PTL DEF IInv
<1>4. Spec => [][\A q \in Submitters : AnswerIsTrue(q)]_registrationVars
  BY <1>2, <1>3, PTL DEF Spec
<1> QED
  BY <1>4 DEF AnswersAreTrue, AnswerIsTrue

-----------------------------------------------------------------------------
(* The progress display.                                                   *)

LEMMA StepsAre ==
  /\ DOMAIN Steps = 1..6
  /\ Steps[1] = "cloning" /\ Steps[2] = "analyzing" /\ Steps[3] = "indexing"
  /\ Steps[4] = "parsing" /\ Steps[5] = "embedding" /\ Steps[6] = "completed"
  /\ Len(Steps) = 6
BY DEF Steps

LEMMA StagesAre == Stages = {"cloning", "analyzing", "indexing", "parsing", "embedding"}
<1>1. 1..5 = {1, 2, 3, 4, 5}
  OBVIOUS
<1> QED
  BY <1>1, StepsAre DEF Stages

LEMMA ReachedIsAStep == \A row : ReachedIndex(row) \in 1..6
BY StepsAre DEF ReachedIndex

\* The display shows running work exactly for the active statuses.
LEMMA ActiveIsShown ==
  ASSUME NEW row \in Row
  PROVE  IsActiveStatus(row.status) <=> ProgressActive(row)
<1> DEFINE at == ReachedIndex(row)
<1>1. at \in 1..6
  BY ReachedIsAStep
<1>2. row.status \in {"pending", "queued", "failed", "completed"} \cup Stages
  BY DEF Row, Statuses
<1>3. CASE row.status \in Stages
  <2>1. StepStates(row)[at] = "current"
    <3>1. row.status \notin {"completed", "queued", "pending", "failed"}
      BY <1>3, StagesAre
    <3> QED
      BY <1>1, <3>1, StepsAre DEF StepStates
  <2> QED
    BY <1>1, <1>3, <2>1, StepsAre DEF ProgressActive, IsActiveStatus
<1>4. CASE row.status = "queued"
  BY <1>4 DEF ProgressActive, IsActiveStatus
<1>5. CASE row.status \in {"pending", "completed"}
  <2>1. ASSUME NEW i \in DOMAIN Steps PROVE StepStates(row)[i] # "current"
    BY <1>5 DEF StepStates
  <2> QED
    BY <1>5, <2>1, StagesAre DEF ProgressActive, IsActiveStatus
<1>6. CASE row.status = "failed"
  <2>1. ASSUME NEW i \in DOMAIN Steps PROVE StepStates(row)[i] # "current"
    <3>1. i \in Nat /\ at \in Nat
      BY <1>1, StepsAre
    <3>2. i < at \/ i > at \/ i = at
      BY <3>1
    <3> QED
      BY <1>6, <3>2 DEF StepStates
  <2> QED
    BY <1>6, <2>1, StagesAre DEF ProgressActive, IsActiveStatus
<1> QED
  BY <1>2, <1>3, <1>4, <1>5, <1>6

-----------------------------------------------------------------------------
(* The inductive invariant.                                                *)

\* A run that was accepted fits the bound.
RunIsBounded ==
  /\ server.status = "queued" => server.changes + 6 <= MaxChanges
  /\ \A i \in 1..5 : server.status = Steps[i] => server.changes + (6 - i) <= MaxChanges

\* One request waits and one answer is about to be kept, at most.
OneAnswer == \A f, g \in flights : f.phase \notin Waiting /\ g.phase \notin Waiting => f = g

\* What belongs to the present attempt was read after the reload.
PresentIsFresh ==
  /\ asked <= server.changes
  /\ \A f \in flights : f.phase \in {"read", "data"} /\ f.current => f.row.changes >= asked
  /\ settled # NoAnswer /\ settled.ok /\ settled.current => settled.row.changes >= asked

\* What waits to be kept is not older than what is kept, and the server is ahead.
KeptInOrder ==
  /\ settled # NoAnswer /\ settled.ok => settled.row.changes <= server.changes
  /\ \A f \in flights : f.phase \in {"read", "data"} =>
       /\ f.row.changes <= server.changes
       /\ settled # NoAnswer /\ settled.ok => f.row.changes >= settled.row.changes
  /\ \A f, g \in flights : f.phase = "data" /\ g.phase = "read" =>
       f.row.changes <= g.row.changes

WebInv == WebTypeOK /\ RunIsBounded /\ OneAnswer /\ PresentIsFresh /\ KeptInOrder

SettledType == [key : Keys, current : BOOLEAN, ok : BOOLEAN, row : Row]

LEMMA NewRowIsARow == NewRow \in Row
BY WebAssumption DEF NewRow, Row, Statuses

LEMMA RequestIsAFlight ==
  ASSUME NEW k \in Keys
  PROVE  Request(k) \in Flight /\ Request(k).phase = "sent"
BY NewRowIsARow DEF Request, Flight, Waiting

LEMMA InitWebInv == WebInit => WebInv
<1> SUFFICES ASSUME WebInit PROVE WebInv
  OBVIOUS
<1>1. \A f \in flights : f = [key |-> key, tag |-> 0, current |-> TRUE, phase |-> "sent", row |-> NewRow]
  BY DEF WebInit
<1>2. WebTypeOK
  BY <1>1, NewRowIsARow, WebAssumption DEF WebInit, WebTypeOK, Flight, Waiting
<1>3. RunIsBounded
  BY StepsAre DEF WebInit, RunIsBounded, NewRow
<1>4. OneAnswer
  BY <1>1 DEF OneAnswer
<1>5. settled = NoAnswer /\ asked = 0 /\ server.changes = 0 /\ \A f \in flights : f.phase = "sent"
  BY <1>1 DEF WebInit, NewRow
<1>6. PresentIsFresh /\ KeptInOrder
  BY <1>5 DEF PresentIsFresh, KeptInOrder
<1> QED
  BY <1>2, <1>3, <1>4, <1>6 DEF WebInv

(* A new attempt marks all that there is as not current.                   *)
LEMMA ReloadKeeps ==
  ASSUME WebInv, Reload, UNCHANGED server, busy' \in {"none", "sent", "accepted", "refused"},
         moves' \in 0..MaxMoves
  PROVE  WebInv'
<1> USE DEF WebInv
<1>1. \A g \in flights' : \/ g = Request(key)
                          \/ \E f \in flights : f.phase = "data" /\ g = [f EXCEPT !.current = FALSE]
  BY DEF Reload, Aborted
<1>2. key' = key /\ asked' = server.changes /\ key \in Keys /\ server \in Row
  BY DEF Reload, WebTypeOK
<1>3. Request(key) \in Flight /\ Request(key).phase = "sent"
  BY <1>2, RequestIsAFlight
<1>4. ASSUME NEW f \in flights, f.phase = "data"
      PROVE  LET g == [f EXCEPT !.current = FALSE]
             IN g \in Flight /\ g.phase = "data" /\ g.current = FALSE /\ g.row = f.row
  BY <1>4 DEF WebTypeOK, Flight
<1>5. \A g \in flights' :
        /\ g \in Flight
        /\ \/ g = Request(key) /\ g.phase = "sent"
           \/ /\ g.phase = "data" /\ g.current = FALSE
              /\ \E f \in flights : f.phase = "data" /\ g.row = f.row
                                    /\ g = [f EXCEPT !.current = FALSE]
  BY <1>1, <1>3, <1>4
<1>6. \/ settled' = NoAnswer /\ settled = NoAnswer
      \/ /\ settled \in SettledType /\ settled' \in SettledType /\ settled # NoAnswer
         /\ settled'.ok = settled.ok /\ settled'.row = settled.row /\ settled'.current = FALSE
  BY DEF Reload, WebTypeOK, SettledType
<1>7. WebTypeOK'
  <2>1. \A f, g \in flights' : f.phase \in Waiting /\ g.phase \in Waiting => f = g
    BY <1>5 DEF Waiting
  <2>2. asked' \in 0..MaxChanges
    BY <1>2 DEF Row
  <2> QED
    BY <1>2, <1>5, <1>6, <2>1, <2>2 DEF WebTypeOK, SettledType
<1>8. RunIsBounded'
  BY DEF RunIsBounded
<1>9. OneAnswer'
  <2>1. ASSUME NEW g \in flights', NEW h \in flights', g.phase \notin Waiting, h.phase \notin Waiting
        PROVE  g = h
    <3>1. PICK e \in flights : e.phase = "data" /\ g = [e EXCEPT !.current = FALSE]
      BY <1>5, <2>1 DEF Waiting
    <3>2. PICK f \in flights : f.phase = "data" /\ h = [f EXCEPT !.current = FALSE]
      BY <1>5, <2>1 DEF Waiting
    <3>3. e = f
      BY <3>1, <3>2 DEF OneAnswer, Waiting
    <3> QED
      BY <3>1, <3>2, <3>3
  <2> QED
    BY <2>1 DEF OneAnswer
<1>10. PresentIsFresh'
  <2>1. asked' <= server'.changes
    BY <1>2 DEF Row
  <2> QED
    BY <1>5, <1>6, <2>1 DEF PresentIsFresh
<1>11. KeptInOrder'
  BY <1>5, <1>6 DEF KeptInOrder
<1> QED
  BY <1>7, <1>8, <1>9, <1>10, <1>11

LEMMA NavigateKeeps ==
  ASSUME WebInv, NEW k \in Keys, Navigate(k)
  PROVE  WebInv'
<1> USE DEF WebInv
<1>1. \A g \in flights' : g = Request(k) \/ (g \in flights /\ g.phase = "data")
  BY DEF Navigate, Aborted
<1>2. key' = k /\ asked' = 0 /\ moves' \in 0..MaxMoves /\ UNCHANGED <<server, settled, busy>>
  BY WebAssumption DEF Navigate, WebTypeOK
<1>3. \A g \in flights' :
        /\ g \in Flight
        /\ g.phase \in Waiting => g = Request(k) /\ g.phase = "sent"
        /\ g.phase \notin Waiting => g \in flights /\ g.phase = "data"
  BY <1>1, RequestIsAFlight DEF WebTypeOK, Waiting
<1>4. WebTypeOK' /\ RunIsBounded' /\ OneAnswer' /\ KeptInOrder'
  BY <1>2, <1>3, WebAssumption DEF WebTypeOK, RunIsBounded, OneAnswer, KeptInOrder
<1>5. PresentIsFresh'
  <2>1. \A f \in flights' : f.row.changes \in Nat
    BY <1>3 DEF Flight, Row
  <2>2. settled = NoAnswer \/ settled.row.changes \in Nat
    BY DEF WebTypeOK, Row
  <2>3. server.changes \in Nat
    BY DEF WebTypeOK, Row
  <2> QED
    BY <1>2, <2>1, <2>2, <2>3 DEF PresentIsFresh
<1> QED
  BY <1>4, <1>5

(* The server reads the row; the answer arrives.                           *)
LEMMA ReadKeeps ==
  ASSUME WebInv, ServerReads
  PROVE  WebInv'
<1> USE DEF WebInv
<1>1. PICK f \in flights :
        /\ f.phase = "sent"
        /\ flights' = (flights \ {f}) \cup {[f EXCEPT !.phase = "read", !.row = server]}
  BY DEF ServerReads
<1> DEFINE new == [f EXCEPT !.phase = "read", !.row = server]
<1>2. f \in Flight /\ server \in Row /\ new \in Flight /\ new.phase = "read" /\ new.row = server
  BY <1>1 DEF WebTypeOK, Flight, Waiting
<1>3. \A g \in flights : g # f => g.phase \notin Waiting
  BY <1>1 DEF WebTypeOK, Waiting
<1>4. \A g \in flights' : g = new \/ (g \in flights /\ g.phase \notin Waiting)
  BY <1>1, <1>3
<1>5. UNCHANGED <<server, key, settled, asked, busy, moves>>
  BY DEF ServerReads
<1> HIDE DEF new
<1>6. WebTypeOK' /\ RunIsBounded' /\ OneAnswer'
  BY <1>2, <1>4, <1>5 DEF WebTypeOK, RunIsBounded, OneAnswer, Waiting
<1>7. PresentIsFresh'
  BY <1>2, <1>4, <1>5 DEF PresentIsFresh, WebTypeOK, Row
<1>8. KeptInOrder'
  BY <1>2, <1>4, <1>5 DEF KeptInOrder, Row, Waiting
<1> QED
  BY <1>6, <1>7, <1>8

LEMMA ArrivalKeeps ==
  ASSUME WebInv, NEW tag, AnswerArrives(tag)
  PROVE  WebInv'
<1> USE DEF WebInv
<1>1. PICK f \in flights :
        \/ f.phase = "read" /\ flights' = (flights \ {f}) \cup {[f EXCEPT !.phase = "data"]}
        \/ flights' = (flights \ {f}) \cup {[f EXCEPT !.phase = "error"]}
  BY DEF AnswerArrives
<1>2. flights = {f} /\ f \in Flight
  BY DEF AnswerArrives, WebTypeOK
<1>3. \A g, h \in flights' : g = h
  BY <1>1, <1>2
<1>4. \A g \in flights' :
        /\ g \in Flight /\ g.phase \in {"data", "error"}
        /\ g.phase = "data" => f.phase = "read" /\ g.row = f.row /\ g.current = f.current
  BY <1>1, <1>2 DEF Flight
<1>5. UNCHANGED <<server, key, settled, asked, busy, moves>>
  BY DEF AnswerArrives
<1>6. WebTypeOK' /\ RunIsBounded' /\ OneAnswer'
  BY <1>3, <1>4, <1>5 DEF WebTypeOK, RunIsBounded, OneAnswer
<1>7. PresentIsFresh'
  BY <1>2, <1>4, <1>5 DEF PresentIsFresh
<1>8. KeptInOrder'
  BY <1>2, <1>4, <1>5 DEF KeptInOrder
<1> QED
  BY <1>6, <1>7, <1>8

LEMMA CallbackKeeps ==
  ASSUME WebInv, CallbackRuns
  PROVE  WebInv'
<1> USE DEF WebInv
<1>1. PICK f \in flights : f.phase \notin Waiting /\ Keeps(f) /\ flights' = flights \ {f}
  BY DEF CallbackRuns
<1>2. f \in Flight /\ \A g \in flights' : g \in flights /\ g.phase \in Waiting
  BY <1>1 DEF WebTypeOK, OneAnswer
<1>3. UNCHANGED <<server, key, asked, busy, moves>>
  BY DEF CallbackRuns
<1>4. settled' \in SettledType
  BY <1>1, <1>2 DEF Keeps, SettledType, Flight
<1>5. settled'.ok => f.phase = "data" /\ settled'.row = f.row /\ settled'.current = f.current
  BY <1>1 DEF Keeps
<1>6. WebTypeOK' /\ RunIsBounded' /\ OneAnswer'
  BY <1>2, <1>3, <1>4 DEF WebTypeOK, RunIsBounded, OneAnswer, SettledType
<1>7. PresentIsFresh' /\ KeptInOrder'
  BY <1>1, <1>2, <1>3, <1>5 DEF PresentIsFresh, KeptInOrder, Waiting
<1> QED
  BY <1>6, <1>7

(* The status of the repository changes.                                   *)
LEMMA ChangeKeeps ==
  ASSUME WebInv, NEW status \in Statuses, NEW stage \in Stages \cup {"queued", "completed"},
         Changes(status, stage), server.changes + 1 <= MaxChanges, RunIsBounded',
         UNCHANGED <<key, flights, settled, asked, moves>>,
         busy' \in {"none", "sent", "accepted", "refused"}
  PROVE  WebInv'
<1> USE DEF WebInv
<1>1. /\ server'.changes = server.changes + 1 /\ server.changes \in Nat
      /\ server' \in Row
  BY WebAssumption DEF Changes, WebTypeOK, Row
<1>2. WebTypeOK' /\ OneAnswer'
  BY <1>1 DEF WebTypeOK, OneAnswer
<1>3. asked \in Nat /\ \A f \in flights : f.row.changes \in Nat
  BY DEF WebTypeOK, Flight, Row
<1>4. settled = NoAnswer \/ settled.row.changes \in Nat
  BY DEF WebTypeOK, Row
<1>5. PresentIsFresh' /\ KeptInOrder'
  BY <1>1, <1>3, <1>4 DEF PresentIsFresh, KeptInOrder
<1> QED
  BY <1>2, <1>5

LEMMA AdvanceKeeps ==
  ASSUME WebInv, ServerAdvances
  PROVE  WebInv'
<1> USE DEF WebInv
<1>1. /\ UNCHANGED <<key, flights, settled, asked, busy, moves>>
      /\ busy \in {"none", "sent", "accepted", "refused"}
      /\ server.changes \in Nat /\ server.stage \in Stages \cup {"queued", "completed"}
  BY DEF ServerAdvances, WebTypeOK, Row
<1>2. server.changes + 1 <= MaxChanges
  <2>1. CASE server.status = "queued"
    BY <1>1, <2>1, WebAssumption DEF RunIsBounded
  <2>2. CASE \E i \in 1..5 : server.status = Steps[i]
    BY <1>1, <2>2, WebAssumption DEF RunIsBounded
  <2> QED
    BY <2>1, <2>2 DEF ServerAdvances, IsActiveStatus, Stages
<1>3. CASE server.status = "queued" /\ Changes("cloning", "cloning")
  <2>1. RunIsBounded'
    BY <1>1, <1>3, StepsAre, WebAssumption DEF RunIsBounded, Changes
  <2> QED
    BY <1>1, <1>2, <1>3, <2>1, StagesAre, ChangeKeeps DEF Statuses
<1>4. CASE \E i \in 1..5 : server.status = Steps[i] /\ Changes(Steps[i + 1], Steps[i + 1])
  <2>1. PICK i \in 1..5 : server.status = Steps[i] /\ Changes(Steps[i + 1], Steps[i + 1])
    BY <1>4
  <2>2. server'.status = Steps[i + 1] /\ server'.changes = server.changes + 1
    BY <2>1 DEF Changes
  <2>3. server.changes + (6 - i) <= MaxChanges
    BY <2>1 DEF RunIsBounded
  <2>4. \A j \in 1..5 : Steps[j] = Steps[i + 1] => j = i + 1
    BY StepsAre
  <2>5. Steps[i + 1] # "queued" /\ Steps[i + 1] \in Stages \cup {"completed"}
    BY StepsAre, StagesAre
  <2>6. RunIsBounded'
    <3>1. ASSUME NEW j \in 1..5, server'.status = Steps[j]
          PROVE  server'.changes + (6 - j) <= MaxChanges
      <4>1. j = i + 1
        BY <2>2, <2>4, <3>1
      <4> QED
        BY <1>1, <2>2, <2>3, <4>1, WebAssumption
    <3> QED
      BY <2>2, <2>5, <3>1 DEF RunIsBounded
  <2> QED
    BY <1>1, <1>2, <2>1, <2>5, <2>6, ChangeKeeps DEF Statuses
<1>5. CASE Changes("failed", server.stage)
  <2>1. RunIsBounded'
    BY <1>5, StepsAre DEF RunIsBounded, Changes
  <2> QED
    BY <1>1, <1>2, <1>5, <2>1, ChangeKeeps DEF Statuses
<1> QED
  BY <1>3, <1>4, <1>5 DEF ServerAdvances

LEMMA StepWebInv == WebInv /\ [WebNext]_webVars => WebInv'
<1> SUFFICES ASSUME WebInv, [WebNext]_webVars PROVE WebInv'
  OBVIOUS
<1> USE DEF WebInv
<1>1. CASE \E k \in Keys : Navigate(k)
  BY <1>1, NavigateKeeps
<1>2. CASE Retry \/ Tick
  BY <1>2, ReloadKeeps, WebAssumption DEF Retry, Tick, WebTypeOK
<1>3. CASE ServerReads \/ \E tag \in {0, 1} : AnswerArrives(tag)
  BY <1>3, ReadKeeps, ArrivalKeeps
<1>4. CASE CallbackRuns
  BY <1>4, CallbackKeeps
<1>5. CASE UNCHANGED <<server, key, flights, settled, asked, moves>> /\
           busy' \in {"none", "sent", "accepted", "refused"}
  BY <1>5 DEF WebTypeOK, RunIsBounded, OneAnswer, PresentIsFresh, KeptInOrder
<1>6. CASE PressIndex
  BY <1>5, <1>6 DEF PressIndex
<1>7. CASE PostArrives
  <2>1. CASE RunFits /\ Changes("queued", "queued") /\ busy' = "accepted"
    <3>1. server.changes \in Nat
      BY DEF WebTypeOK, Row
    <3>2. server.changes + 7 <= MaxChanges
      BY <2>1, <3>1, StepsAre DEF RunFits
    <3>3. RunIsBounded'
      BY <2>1, <3>1, <3>2, StepsAre, WebAssumption DEF RunIsBounded, Changes
    <3>4. server.changes + 1 <= MaxChanges
      BY <3>1, <3>2, WebAssumption
    <3> QED
      BY <1>7, <2>1, <3>3, <3>4, ChangeKeeps DEF PostArrives, Statuses
  <2> QED
    BY <1>5, <1>7, <2>1 DEF PostArrives
<1>8. CASE PostReturns
  <2>1. CASE Reload
    BY <1>8, <2>1, ReloadKeeps DEF PostReturns, WebTypeOK
  <2> QED
    BY <1>5, <1>8, <2>1 DEF PostReturns
<1>9. CASE ServerAdvances
  BY <1>9, AdvanceKeeps
<1>10. CASE UNCHANGED webVars
  BY <1>5, <1>10 DEF webVars, WebTypeOK
<1> QED
  BY <1>1, <1>2, <1>3, <1>4, <1>6, <1>7, <1>8, <1>9, <1>10 DEF WebNext

LEMMA WebInvariance == WebSpec => []WebInv
BY InitWebInv, StepWebInv, PTL DEF WebSpec

-----------------------------------------------------------------------------
(* What the pages promise.                                                 *)

\* What useApi keeps, sends and shows has its type (use-api.ts:28-66).
THEOREM WebKeepsTypes == WebSpec => []WebTypeOK
BY WebInvariance, PTL DEF WebInv

\* A page that is not refreshing shows what the server held when its last
\* reload was asked for, or later (use-api.ts:57-66).
THEOREM PagesShowFreshRows == WebSpec => []ShownIsFresh
<1>1. WebInv => ShownIsFresh
  BY DEF WebInv, PresentIsFresh, ShownIsFresh, ApiStatus, IsRefreshing
<1> QED
  BY <1>1, WebInvariance, PTL

\* The timer runs exactly while the progress display shows running work: the
\* two lists of statuses agree (repository-details.tsx:522-529,
\* indexing-progress.tsx:148-168, repositories.ts:4-17).
THEOREM RunningWorkIsPolled == WebSpec => []ProgressIsPolled
<1>1. ASSUME WebInv, ApiStatus = "success"
      PROVE  Polling <=> ProgressActive(settled.row)
  <2>1. settled # NoAnswer
    BY <1>1 DEF ApiStatus
  <2>2. settled.row \in Row
    BY <1>1, <2>1 DEF WebInv, WebTypeOK
  <2> QED
    BY <1>1, <2>2, ActiveIsShown DEF Polling
<1>2. WebInv => ProgressIsPolled
  BY <1>1 DEF ProgressIsPolled
<1> QED
  BY <1>2, WebInvariance, PTL

\* A callback keeps an answer that is not older than the one before; every
\* other action keeps the row (use-api.ts:44-55).
LEMMA StepNeverGoesBack ==
  ASSUME WebInv, [WebNext]_webVars
  PROVE  [settled # NoAnswer /\ settled'.key = settled.key /\ settled.ok /\ settled'.ok
            => settled'.row.changes >= settled.row.changes]_webVars
<1> SUFFICES ASSUME settled # NoAnswer, settled.ok, settled'.ok
             PROVE  settled'.row.changes >= settled.row.changes
  OBVIOUS
<1>1. settled.row.changes \in Nat
  BY DEF WebInv, WebTypeOK, Row
<1>2. CASE CallbackRuns
  <2>1. PICK f \in flights : f.phase \notin Waiting /\ Keeps(f)
    BY <1>2 DEF CallbackRuns
  <2>2. f.phase = "data" /\ settled'.row = f.row
    BY <2>1 DEF Keeps
  <2> QED
    BY <2>2 DEF WebInv, KeptInOrder
<1>3. CASE settled'.row = settled.row
  BY <1>1, <1>3
<1>4. CASE Reload
  BY <1>3, <1>4 DEF Reload, WebInv, WebTypeOK
<1>5. CASE UNCHANGED settled
  BY <1>3, <1>5
<1> QED
  BY <1>2, <1>4, <1>5 DEF WebNext, Navigate, Retry, Tick, ServerReads, AnswerArrives,
     PressIndex, PostArrives, PostReturns, ServerAdvances, webVars

\* What a page shows of a repository never goes back to an earlier state.
THEOREM PagesNeverGoBack == WebSpec => ShownNeverGoesBack
BY WebInvariance, StepNeverGoesBack, PTL DEF WebSpec, ShownNeverGoesBack

=============================================================================
