---------------------------- MODULE Registration ----------------------------
(***************************************************************************)
(* Adding repositories and projects: create_repository of                  *)
(* repository_service.py, create_project of project_service.py and the     *)
(* validation of sources.py, with concurrent requests, the unique          *)
(* constraints of PostgreSQL and a git command between check and insert.   *)
(***************************************************************************)
EXTENDS GitClient, FiniteSets

CONSTANTS
  Submitters,    \* request threads; they call git
  Urls,          \* what a client may type: records of UrlParts or PathParts
  Names,         \* names of projects other than the default
  Default,       \* DEFAULT_PROJECT_NAME
  Nobody,        \* no request
  LocalEnabled   \* settings.local_repositories_enabled

ASSUME RegistrationAssumption ==
  /\ Submitters \subseteq Callers
  /\ Default \notin Names
  /\ Nobody \notin Submitters
  /\ LocalEnabled \in BOOLEAN

VARIABLES
  projects,  \* names of the committed projects
  rows,      \* committed repositories: project, url, and the request that added it
  inserted,  \* the request whose open transaction has inserted the default project
  rstep,     \* where a request is
  form,      \* what it was sent
  answer     \* its HTTP answer

rowVars == <<projects, rows>>
requestVars == <<rstep, form, answer>>
registrationVars == <<gitVars, rowVars, inserted, requestVars>>

AllNames == Names \cup {Default}
NoForm == [kind |-> "none"]

\* A repository form names a project, or none for the default one.
Forms == [kind : {"repository"}, url : Urls, project : Names \cup {Nobody}]
    \cup [kind : {"project"}, name : AllNames]

RequestSteps == {"idle", "resolve_project", "insert_default", "check_url", "remote",
                 "insert", "check_name", "insert_project", "answered"}
Answers == {"none", "created", "not_found", "conflict", "repository_exists", "forbidden",
            "invalid_source", "unprocessable", "upstream_error", "internal_error"}

-----------------------------------------------------------------------------
(* Sources.                                                                *)

\* The spelling of a GitHub URL: extras are credentials, a port, a query or
\* a fragment; a repository has two path segments.
AcceptedUrl(url) ==
  /\ url.scheme = "https" /\ url.host \in {"github.com", "www.github.com"}
  /\ ~url.extras /\ url.segments = 2

\* A canonical URL in the spelling of the client.
CanonicalUrlAsTyped(url) == [repo |-> url.repo, suffix |-> FALSE, capitals |-> url.capitals]

\* canonical_url: no "www.", no ".git", lower case.
CanonicalUrl(url) == [repo |-> url.repo, suffix |-> FALSE, capitals |-> FALSE]

\* A path is resolved before it is compared with the allowed roots.
AcceptedPath(url) == url.inside /\ url.checkout

\* Why a source is refused, or "none".
Refusal(url) ==
  CASE url.source = "github" /\ AcceptedUrl(url) -> "none"
    [] url.source = "local" /\ ~LocalEnabled -> "forbidden"
    [] url.source = "local" /\ LocalEnabled /\ AcceptedPath(url) -> "none"
    [] OTHER -> "invalid_source"

StoredUrl(url) ==
  IF url.source = "github" THEN CanonicalUrl(url) ELSE [path |-> url.resolved]

-----------------------------------------------------------------------------
(* The steps of a request.                                                 *)

Goes(q, where) == rstep' = [rstep EXCEPT ![q] = where]

\* A transaction that an error leaves open.
AnswerAndKeep(q, code) ==
  /\ Goes(q, "answered")
  /\ answer' = [answer EXCEPT ![q] = code]
  /\ inserted' = IF inserted = q /\ code = "created" THEN Nobody ELSE inserted

\* The handler returns or raises, and get_db ends the transaction.
Answer(q, code) ==
  /\ Goes(q, "answered")
  /\ answer' = [answer EXCEPT ![q] = code]
  /\ inserted' = IF inserted = q THEN Nobody ELSE inserted

Continue(q, where) == Goes(q, where) /\ UNCHANGED <<answer, inserted>>

ProjectOf(q) == IF form[q].project = Nobody THEN Default ELSE form[q].project
SameUrl(q) == {row \in rows : row.project = ProjectOf(q) /\ row.url = StoredUrl(form[q].url)}

Submit(q, f) ==
  /\ rstep[q] = "idle"
  /\ form' = [form EXCEPT ![q] = f]
  /\ Continue(q, IF f.kind = "project" THEN "check_name" ELSE "resolve_project")
  /\ UNCHANGED <<gitVars, rowVars>>

\* _resolve_project reads the project; the default one is created if need be.
ResolveProject(q) ==
  /\ rstep[q] = "resolve_project"
  /\ CASE ProjectOf(q) \in projects -> Continue(q, "check_url")
       [] ProjectOf(q) \notin projects /\ form[q].project = Nobody ->
            Continue(q, "insert_default")
       [] OTHER -> Answer(q, "not_found")
  /\ UNCHANGED <<gitVars, rowVars, form>>

\* The default project is committed at once.
CommitDefault(q) ==
  /\ rstep[q] = "insert_default"
  /\ projects' = projects \cup {Default}
  /\ Continue(q, "check_url")
  /\ UNCHANGED <<gitVars, rows, form>>

\* An INSERT that fails at once while another transaction holds the name.
InsertDefaultNoWait(q) ==
  /\ rstep[q] = "insert_default"
  /\ IF Default \in projects \/ inserted # Nobody THEN Answer(q, "conflict")
     ELSE inserted' = q /\ Goes(q, "check_url") /\ UNCHANGED answer
  /\ UNCHANGED <<gitVars, rowVars, form>>

\* An INSERT waits while another transaction holds the same name, and fails
\* when that one committed it.  The transaction stays open until the request
\* ends, through the git command.
InsertDefault(q) ==
  /\ rstep[q] = "insert_default" /\ inserted = Nobody
  /\ \/ /\ Default \notin projects
        /\ inserted' = q /\ Goes(q, "check_url")
        /\ UNCHANGED answer
     \/ Default \in projects /\ Answer(q, "conflict")
  /\ UNCHANGED <<gitVars, rowVars, form>>

\* The source is checked, then whether the project has it.
CheckUrl(q) ==
  /\ rstep[q] = "check_url"
  /\ \/ /\ Refusal(form[q].url) # "none"
        /\ Answer(q, Refusal(form[q].url))
        /\ UNCHANGED gitVars
     \/ /\ Refusal(form[q].url) = "none" /\ SameUrl(q) # {}
        /\ Answer(q, "repository_exists")
        /\ UNCHANGED gitVars
     \/ /\ Refusal(form[q].url) = "none" /\ SameUrl(q) = {}
        /\ Call(q, "ls-remote")
        /\ Continue(q, "remote")
  /\ UNCHANGED <<rowVars, form>>

\* to_app_error.
AppError(error) == CASE error \in {"network_error", "git_timeout"} -> "upstream_error"
                     [] error = "git_unavailable" -> "internal_error"
                     [] OTHER -> "unprocessable"

\* The refs that ls-remote printed may hold no commit or not the branch.
RemoteAnswers(q) ==
  /\ rstep[q] = "remote" /\ Idle(q)
  /\ \/ outcome[q] = "output" /\ Continue(q, "insert")
     \/ outcome[q] = "output" /\ Answer(q, "unprocessable")
     \/ outcome[q] # "output" /\ Answer(q, AppError(outcome[q]))
  /\ UNCHANGED <<gitVars, rowVars, form>>

\* Row and default project are committed together; the unique constraint
\* refuses a second row.
InsertRepository(q) ==
  /\ rstep[q] = "insert"
  /\ \/ /\ SameUrl(q) = {}
        /\ rows' = rows \cup
             {[project |-> ProjectOf(q), url |-> StoredUrl(form[q].url), by |-> q]}
        /\ projects' = projects \cup {ProjectOf(q)}
        /\ Answer(q, "created")
     \/ /\ SameUrl(q) # {}
        /\ Answer(q, "conflict")
        /\ UNCHANGED rowVars
  /\ UNCHANGED <<gitVars, form>>

\* create_project.
CheckName(q) ==
  /\ rstep[q] = "check_name"
  /\ IF form[q].name \in projects THEN Answer(q, "conflict") ELSE Continue(q, "insert_project")
  /\ UNCHANGED <<gitVars, rowVars, form>>

InsertProject(q) ==
  /\ rstep[q] = "insert_project"
  /\ form[q].name = Default => inserted = Nobody
  /\ \/ /\ form[q].name \notin projects
        /\ projects' = projects \cup {form[q].name}
        /\ Answer(q, "created")
     \/ /\ form[q].name \in projects
        /\ Answer(q, "conflict")
        /\ UNCHANGED projects
  /\ UNCHANGED <<gitVars, rows, form>>

RequestStep(q) ==
  \/ ResolveProject(q) \/ InsertDefault(q) \/ CheckUrl(q) \/ RemoteAnswers(q)
  \/ InsertRepository(q) \/ CheckName(q) \/ InsertProject(q)

Init ==
  /\ GitInit
  /\ projects = {} /\ rows = {} /\ inserted = Nobody
  /\ rstep = [q \in Submitters |-> "idle"]
  /\ form = [q \in Submitters |-> NoForm]
  /\ answer = [q \in Submitters |-> "none"]

GitStep(q) == CallerStep(q) /\ UNCHANGED <<rowVars, inserted, requestVars>>

Next ==
  \E q \in Submitters :
    \/ RequestStep(q)
    \/ \E f \in Forms : Submit(q, f)
    \/ GitStep(q)
    \/ GroupStep(q) /\ UNCHANGED <<rowVars, inserted, requestVars>>

\* Threads run; git need not.
Fairness == GitFairness /\ \A q \in Submitters : WF_registrationVars(RequestStep(q))

Spec == Init /\ [][Next]_registrationVars
FairSpec == Spec /\ Fairness

-----------------------------------------------------------------------------
(* Properties.                                                             *)

\* Every variable keeps its type, the constraints of the tables hold, and a
\* row belongs to a committed project.
RegistrationTypeOK ==
  /\ GitTypeOK
  /\ projects \subseteq AllNames
  /\ \A row \in rows : row.project \in projects /\ row.by \in Submitters
  /\ inserted \in Submitters \cup {Nobody}
  /\ rstep \in [Submitters -> RequestSteps]
  /\ form \in [Submitters -> Forms \cup {NoForm}]
  /\ answer \in [Submitters -> Answers]

\* However a GitHub repository is spelled and however requests interleave, a
\* project has it at most once (sources.py:31-33, repository_service.py:123).
OneRegistrationPerRepository ==
  \A r1, r2 \in rows :
    r1.project = r2.project /\ "repo" \in DOMAIN r1.url /\ "repo" \in DOMAIN r2.url
      /\ r1.url.repo = r2.url.repo => r1 = r2

\* The default project is committed only with something in it or by a request
\* that asked for it: a refused source or a failed git command takes it back
\* (repository_service.py:101-145, session.py:38-47).
DefaultProjectIsWanted ==
  Default \in projects =>
    \/ \E row \in rows : row.project = Default
    \/ \E q \in Submitters : answer[q] = "created" /\ form[q] = [kind |-> "project", name |-> Default]

\* An answer tells what the request did: "created" adds exactly its row or
\* project, any other answer changes nothing, and a conflict means that the
\* name or the source is taken, or that the default project appeared since
\* the request looked for it.
AnswersAreTrue ==
  [][\A q \in Submitters : answer'[q] # answer[q] =>
       /\ answer'[q] = "created" <=> rowVars' # rowVars
       /\ answer'[q] = "created" /\ form[q].kind = "repository" =>
            \E row \in rows' \ rows : row.by = q
       /\ answer'[q] \in {"conflict", "repository_exists"} =>
            IF form[q].kind = "project" THEN form[q].name \in projects
            ELSE SameUrl(q) # {} \/ (rstep[q] = "insert_default" /\ Default \in projects)
       /\ answer'[q] = "upstream_error" => outcome[q] \in {"network_error", "git_timeout"}
    ]_registrationVars

\* Every request is answered although git may hang and other requests hold
\* the name of the default project while it does.
EveryRequestAnswered ==
  \A q \in Submitters : rstep[q] # "idle" ~> rstep[q] = "answered"

=============================================================================
