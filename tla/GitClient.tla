------------------------------ MODULE GitClient ------------------------------
(***************************************************************************)
(* GitClient of ingestion/git.py: a git command is a process group that    *)
(* the calling thread polls until it ends, until its time is over or until *)
(* the server stops.  Time is counted in poll intervals.                   *)
(***************************************************************************)
EXTENDS Naturals

CONSTANTS
  Callers,          \* threads that use the client
  RemoteTimeout,    \* poll intervals of ls-remote
  CloneTimeout,     \* poll intervals of clone
  LocalTimeout      \* poll intervals of rev-parse and log

ASSUME TimeoutAssumption ==
  /\ RemoteTimeout \in Nat \ {0}
  /\ CloneTimeout \in Nat \ {0}
  /\ LocalTimeout \in Nat \ {0}

VARIABLES
  command,   \* the command a caller runs or ran last
  gpc,       \* where the caller is in _run and _wait
  leader,    \* the git process
  helper,    \* whether git-remote-https or index-pack, its children, run
  elapsed,   \* poll intervals since the command started
  reason,    \* why the caller kills the group
  outcome,   \* how the last operation of the caller ended
  cancelled  \* the cancel event, set when the server shuts down

gitVars == <<command, gpc, leader, helper, elapsed, reason, outcome, cancelled>>

Operations == {"ls-remote", "clone", "log"}
CommandNames == Operations \cup {"rev-parse"}

Timeout(name) == CASE name = "ls-remote" -> RemoteTimeout
                   [] name = "clone"     -> CloneTimeout
                   [] OTHER              -> LocalTimeout

\* Only a clone is given the cancel event.
Cancellable(name) == name = "clone"

\* _classify_failure, by what stderr contains: the words of a missing branch,
\* a marker that the repository is missing, one that the network is.
Markers == {"remote branch", "not found", "no repository", "no network"}
Classify(text) ==
  CASE {"remote branch", "not found"} \subseteq text -> "branch_not_found"
    [] ~({"remote branch", "not found"} \subseteq text) /\ "no repository" \in text ->
         "repository_not_found"
    [] ~({"remote branch", "not found"} \subseteq text) /\ "no repository" \notin text
         /\ "no network" \in text -> "network_error"
    [] OTHER -> "git_failed"

Errors == {"branch_not_found", "repository_not_found", "network_error", "git_failed"}
Outcomes == {"none", "output", "git_timeout", "cancelled", "git_unavailable"} \cup Errors

GitInit ==
  /\ command = [c \in Callers |-> "none"]
  /\ gpc = [c \in Callers |-> "none"]
  /\ leader = [c \in Callers |-> "none"]
  /\ helper = [c \in Callers |-> FALSE]
  /\ elapsed = [c \in Callers |-> 0]
  /\ reason = [c \in Callers |-> "none"]
  /\ outcome = [c \in Callers |-> "none"]
  /\ cancelled = FALSE

-----------------------------------------------------------------------------
(* The calling thread.                                                     *)

Idle(c) == gpc[c] = "none"

\* Popen in a session of its own.
Spawn(c, name) ==
  /\ command' = [command EXCEPT ![c] = name]
  /\ gpc' = [gpc EXCEPT ![c] = "poll"]
  /\ leader' = [leader EXCEPT ![c] = "running"]
  /\ elapsed' = [elapsed EXCEPT ![c] = 0]

\* An operation begins, or finds that git is not installed.
Call(c, name) ==
  /\ Idle(c)
  /\ \/ Spawn(c, name) /\ outcome' = [outcome EXCEPT ![c] = "none"]
     \/ /\ outcome' = [outcome EXCEPT ![c] = "git_unavailable"]
        /\ UNCHANGED <<command, gpc, leader, elapsed>>
  /\ UNCHANGED <<helper, reason, cancelled>>

\* The operation is over; its process has been waited for.
Finish(c, result) ==
  /\ outcome' = [outcome EXCEPT ![c] = result]
  /\ gpc' = [gpc EXCEPT ![c] = "none"]
  /\ reason' = [reason EXCEPT ![c] = "none"]
  /\ UNCHANGED command

\* wait() in the place of communicate().
LeaderEnded(c) == leader[c] # "running"

\* Nobody holds the pipes any more, so communicate() returns.
PipesClosed(c) == leader[c] # "running" /\ ~helper[c]

\* communicate() returns: an exit status other than 0 is an error, a clone
\* goes on to read the commit it checked out.
CommunicateReturns(c) ==
  /\ gpc[c] = "poll" /\ PipesClosed(c)
  /\ \/ /\ leader[c] = "exit0" /\ command[c] = "clone"
        /\ Spawn(c, "rev-parse")
        /\ UNCHANGED <<reason, outcome>>
     \/ /\ leader[c] = "exit0" /\ command[c] # "clone"
        /\ Finish(c, "output")
        /\ UNCHANGED <<leader, elapsed>>
     \/ /\ leader[c] = "exit0" /\ command[c] = "rev-parse"
        /\ Finish(c, "git_failed")      \* what it printed is no commit
        /\ UNCHANGED <<leader, elapsed>>
     \/ /\ leader[c] = "exit1"
        /\ \E text \in SUBSET Markers : Finish(c, Classify(text))
        /\ UNCHANGED <<leader, elapsed>>
  /\ UNCHANGED <<helper, cancelled>>

PollExpires(c) ==
  /\ gpc[c] = "poll"
  /\ gpc' = [gpc EXCEPT ![c] = "check"]
  /\ elapsed' = [elapsed EXCEPT ![c] = @ + 1]
  /\ UNCHANGED <<command, leader, helper, reason, outcome, cancelled>>

Stopping(c) == Cancellable(command[c]) /\ cancelled

\* The deadline is passed over once.
OverdueLate(c) == elapsed[c] > Timeout(command[c])

Overdue(c) == elapsed[c] >= Timeout(command[c])

\* After a poll the cancel event comes first, then the deadline.
Check(c) ==
  /\ gpc[c] = "check"
  /\ LET why == CASE Stopping(c) -> "cancelled"
                  [] ~Stopping(c) /\ Overdue(c) -> "git_timeout"
                  [] OTHER -> "none"
     IN /\ reason' = [reason EXCEPT ![c] = why]
        /\ gpc' = [gpc EXCEPT ![c] = IF why = "none" THEN "poll" ELSE "kill"]
  /\ UNCHANGED <<command, leader, helper, elapsed, outcome, cancelled>>

\* kill reaches git and not its helpers.
KillLeader(c) ==
  /\ gpc[c] = "kill"
  /\ leader' = [leader EXCEPT ![c] = IF @ = "running" THEN "killed" ELSE @]
  /\ gpc' = [gpc EXCEPT ![c] = "drain"]
  /\ UNCHANGED <<command, helper, elapsed, reason, outcome, cancelled>>

\* killpg reaches every process of the group that still runs.
KillGroup(c) ==
  /\ gpc[c] = "kill"
  /\ leader' = [leader EXCEPT ![c] = IF @ = "running" THEN "killed" ELSE @]
  /\ helper' = [helper EXCEPT ![c] = FALSE]
  /\ gpc' = [gpc EXCEPT ![c] = "drain"]
  /\ UNCHANGED <<command, elapsed, reason, outcome, cancelled>>

\* The communicate() after the kill has no timeout.
Drain(c) ==
  /\ gpc[c] = "drain" /\ PipesClosed(c)
  /\ Finish(c, reason[c])
  /\ UNCHANGED <<leader, helper, elapsed, cancelled>>

CallerStep(c) ==
  CommunicateReturns(c) \/ PollExpires(c) \/ Check(c) \/ KillGroup(c) \/ Drain(c)

-----------------------------------------------------------------------------
(* The process group and the server.                                       *)

GitExits(c, status) ==
  /\ leader[c] = "running"
  /\ leader' = [leader EXCEPT ![c] = status]
  /\ UNCHANGED <<command, gpc, helper, elapsed, reason, outcome, cancelled>>

HelperStarts(c) ==
  /\ leader[c] = "running" /\ ~helper[c]
  /\ helper' = [helper EXCEPT ![c] = TRUE]
  /\ UNCHANGED <<command, gpc, leader, elapsed, reason, outcome, cancelled>>

HelperExits(c) ==
  /\ helper[c]
  /\ helper' = [helper EXCEPT ![c] = FALSE]
  /\ UNCHANGED <<command, gpc, leader, elapsed, reason, outcome, cancelled>>

GroupStep(c) ==
  GitExits(c, "exit0") \/ GitExits(c, "exit1") \/ HelperStarts(c) \/ HelperExits(c)

SetCancelEvent ==
  /\ ~cancelled /\ cancelled' = TRUE
  /\ UNCHANGED <<command, gpc, leader, helper, elapsed, reason, outcome>>

GitNext ==
  \/ \E c \in Callers : CallerStep(c) \/ GroupStep(c)
  \/ \E c \in Callers, name \in Operations : Call(c, name)
  \/ SetCancelEvent

\* A thread runs; neither git nor its helpers need ever end.
GitFairness == \A c \in Callers : WF_gitVars(CallerStep(c))

GitSpec == GitInit /\ [][GitNext]_gitVars
GitFairSpec == GitSpec /\ GitFairness

-----------------------------------------------------------------------------
(* Properties.                                                             *)

GitTypeOK ==
  /\ command \in [Callers -> CommandNames \cup {"none"}]
  /\ gpc \in [Callers -> {"none", "poll", "check", "kill", "drain"}]
  /\ leader \in [Callers -> {"none", "running", "exit0", "exit1", "killed"}]
  /\ helper \in [Callers -> BOOLEAN]
  /\ elapsed \in [Callers -> Nat]
  /\ \A c \in Callers : Idle(c) \/ elapsed[c] <= Timeout(command[c])
  /\ reason \in [Callers -> {"none", "cancelled", "git_timeout"}]
  /\ outcome \in [Callers -> Outcomes]
  /\ cancelled \in BOOLEAN

\* When an operation is over, no process of its group is left, and its
\* outcome is true of the process: output means that git itself ended well,
\* an error that it ended badly, cancelled that the event was set, and a
\* timeout that the time was over (git.py:268-310).
OutcomeIsTrue ==
  \A c \in Callers : Idle(c) =>
    /\ leader[c] # "running" /\ ~helper[c]
    /\ outcome[c] = "output" => leader[c] = "exit0"
    /\ outcome[c] \in Errors =>
         leader[c] = "exit1" \/ (command[c] = "rev-parse" /\ outcome[c] = "git_failed")
    /\ outcome[c] = "cancelled" => cancelled
    /\ outcome[c] = "git_timeout" => elapsed[c] >= Timeout(command[c])

\* Every operation ends although git may hang: a helper that holds the
\* pipes is killed with the group (git.py:302-310).
EveryOperationEnds == \A c \in Callers : ~Idle(c) ~> Idle(c)

=============================================================================
