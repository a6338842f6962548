---------------------------- MODULE AgentExecutor ----------------------------
(***************************************************************************)
(* One diagnostic request at the agent: the HTTP handler, the command it   *)
(* starts, and the client that waits for the answer.                       *)
(*                                                                         *)
(*   agent/internal/executor/handler.go   ServeHTTP                        *)
(*   agent/internal/executor/actions.go   ExecuteAction, its validators    *)
(*   agent/internal/executor/sandbox.go   SafeExec: cmd.Run under a        *)
(*                                        context with a deadline          *)
(*   controller/core/tool_dispatcher.py   the client, with its own limit   *)
(*                                                                         *)
(* Handlers share no state, so that one request stands for all.  cmd.Run   *)
(* is a goroutine that watches the context and kills the command, and the  *)
(* handler's own wait: first for the process, then, because stdout and     *)
(* stderr are buffers, for everyone who holds its pipes open.  No          *)
(* WaitDelay is set.                                                       *)
(***************************************************************************)
EXTENDS Integers

CONSTANTS
  CommandTimeout,  \* SafeExec's limit (30 s)
  ClientTimeout,   \* the dispatcher's limit (35 s)
  MaxTime          \* bound: the last instant of the clock

ASSUME TimeoutsAssumption ==
  /\ CommandTimeout \in Nat \ {0}
  /\ ClientTimeout \in Nat /\ CommandTimeout < ClientTimeout
  /\ MaxTime \in Nat

VARIABLES
  now,        \* seconds since the request was sent
  client,     \* the dispatcher's end of the connection
  lost,       \* has the network failed?
  handler,    \* ServeHTTP: "waiting" in Process.Wait, "draining" the pipes
  owner,      \* who the command runs as: "root" under sudo, else "agent"
  startedAt,  \* when SafeExec made its context
  watch,      \* the goroutine that watches the context
  watchErr,   \* did it report an error to Wait?
  leader,     \* the process started; a zombie once "exited" or "killed"
  code,       \* how it ended: "zero", "other" or "signal"
  child,      \* what it started itself, holding its stdout
  reply,      \* what the response says
  \* History.
  endedAt,    \* when the leader ended by itself
  closedAt    \* when the client closed the connection

clientVars  == <<client, lost, closedAt>>
commandVars == <<owner, startedAt, leader, code, child, endedAt>>
vars == <<now, clientVars, handler, watch, watchErr, reply, commandVars>>

Absent == -1
Closed == client \in {"timedout", "gone"}

TypeOK ==
  /\ now \in 0..MaxTime
  /\ client \in {"waiting", "answered", "timedout", "gone"}
  /\ lost \in BOOLEAN
  /\ handler \in {"none", "waiting", "draining", "replied"}
  /\ owner \in {"agent", "root"}
  /\ startedAt \in Nat
  /\ watch \in {"off", "armed", "fired"}
  /\ watchErr \in BOOLEAN
  /\ leader \in {"none", "alive", "exited", "killed", "reaped"}
  /\ code \in {"none", "zero", "other", "signal"}
  /\ child \in {"none", "alive", "ended"}
  \* status "success" with exit code 0 or another one, or status "error"
  /\ reply \in {"none", "zero", "nonzero", "error"}
  /\ endedAt \in Nat \cup {Absent}
  /\ closedAt \in Nat \cup {Absent}

Init ==
  /\ now = 0
  /\ client = "waiting" /\ lost = FALSE /\ closedAt = Absent
  /\ handler = "none" /\ reply = "none"
  /\ owner = "agent" /\ startedAt = 0
  /\ watch = "off" /\ watchErr = FALSE
  /\ leader = "none" /\ code = "none" /\ child = "none" /\ endedAt = Absent
-----------------------------------------------------------------------------
(* The context. *)

\* The deadline is the client's.
BuggyDeadline == startedAt + ClientTimeout
Deadline == startedAt + CommandTimeout

\* The command runs under a context of its own, not the request's.
BuggyCtxDone == now >= Deadline
\* The server cancels the request's context when it sees the connection closed.
CtxDone == now >= Deadline \/ (Closed /\ ~lost)

\* What is due happens within the second: timers fire, zombies are reaped, and the end of
\* a connection is seen.  The request and its answer may be on the way, and the command
\* and its children may run, for any time.
Due ==
  \/ client = "waiting" /\ now >= ClientTimeout
  \/ watch = "armed" /\ CtxDone
  \/ leader \in {"exited", "killed"}
  \/ handler = "draining" /\ child # "alive"

Tick ==
  /\ now < MaxTime /\ ~Due
  /\ now' = now + 1
  /\ UNCHANGED <<clientVars, handler, watch, watchErr, reply, commandVars>>
-----------------------------------------------------------------------------
(* The client: one POST, no retry. *)

Answered ==
  /\ client = "waiting" /\ ~lost /\ handler = "replied"
  /\ client' = "answered"
  /\ UNCHANGED <<now, lost, closedAt, handler, watch, watchErr, reply, commandVars>>

TimesOut ==
  /\ client = "waiting" /\ now >= ClientTimeout
  /\ client' = "timedout" /\ closedAt' = now
  /\ UNCHANGED <<now, lost, handler, watch, watchErr, reply, commandVars>>

\* The controller is stopped while it waits.
HangsUp ==
  /\ client = "waiting"
  /\ client' = "gone" /\ closedAt' = now
  /\ UNCHANGED <<now, lost, handler, watch, watchErr, reply, commandVars>>

\* From here on nothing passes between the two hosts.
NetworkFails ==
  /\ client = "waiting" /\ ~lost
  /\ lost' = TRUE
  /\ UNCHANGED <<now, client, closedAt, handler, watch, watchErr, reply, commandVars>>
-----------------------------------------------------------------------------
(* ServeHTTP and SafeExec. *)

\* Soon, late, or when the client has given up already.
Arrives == ~lost /\ handler = "none"

\* Signature, body, action or parameters are not acceptable, or the program cannot
\* be started.
Reject ==
  /\ Arrives
  /\ handler' = "replied" /\ reply' = "error"
  /\ UNCHANGED <<now, clientVars, watch, watchErr, commandVars>>

\* smartctl and journalctl run under sudo, ping and systemctl do not.
Start ==
  /\ Arrives
  /\ handler' = "waiting" /\ startedAt' = now
  /\ owner' \in {"agent", "root"}
  /\ leader' = "alive" /\ watch' = "armed"
  /\ UNCHANGED <<now, clientVars, watchErr, reply, code, child, endedAt>>

\* The default of CommandContext: kill the process, not its group.  A process of
\* root cannot be signalled by the agent, and one already reaped is no error.
WatchFires ==
  /\ watch = "armed" /\ CtxDone
  /\ watch' = "fired"
  /\ watchErr' = (leader \in {"alive", "exited"})
  /\ IF leader = "alive" /\ owner = "agent"
     THEN leader' = "killed" /\ code' = "signal"
     ELSE UNCHANGED <<leader, code>>
  /\ UNCHANGED <<now, clientVars, handler, reply, owner, startedAt, child, endedAt>>

\* Process.Wait returns, and the watcher, if it still runs, is told to stop.
Reap ==
  /\ leader \in {"exited", "killed"}
  /\ leader' = "reaped" /\ handler' = "draining"
  /\ watch' = IF watch = "armed" THEN "off" ELSE watch
  /\ UNCHANGED <<now, clientVars, watchErr, reply, owner, startedAt, code, child,
                 endedAt>>

\* Only the exit code counts.
BuggyOutcome == IF code = "zero" THEN "zero" ELSE "nonzero"
\* An exit code other than 0 comes before the watcher's error, and is reported as
\* an executed command; -1 stands for a signal.
Outcome ==
  IF code # "zero" THEN "nonzero" ELSE IF watchErr THEN "error" ELSE "zero"

\* The pipes are not waited for.
BuggyFinish ==
  /\ handler = "draining"
  /\ handler' = "replied" /\ reply' = Outcome
  /\ UNCHANGED <<now, clientVars, watch, watchErr, commandVars>>

Finish ==
  /\ handler = "draining" /\ child # "alive"
  /\ handler' = "replied" /\ reply' = Outcome
  /\ UNCHANGED <<now, clientVars, watch, watchErr, commandVars>>
-----------------------------------------------------------------------------
(* The command. *)

Fork ==
  /\ leader = "alive" /\ child = "none"
  /\ child' = "alive"
  /\ UNCHANGED <<now, clientVars, handler, watch, watchErr, reply, owner, startedAt,
                 leader, code, endedAt>>

ChildEnds ==
  /\ child = "alive"
  /\ child' = "ended"
  /\ UNCHANGED <<now, clientVars, handler, watch, watchErr, reply, owner, startedAt,
                 leader, code, endedAt>>

LeaderExits ==
  /\ leader = "alive"
  /\ leader' = "exited" /\ code' \in {"zero", "other"} /\ endedAt' = now
  /\ UNCHANGED <<now, clientVars, handler, watch, watchErr, reply, owner, startedAt,
                 child>>

RequestStep ==
  \/ Answered \/ TimesOut \/ HangsUp \/ NetworkFails
  \/ Reject \/ Start \/ WatchFires \/ Reap \/ Finish
  \/ Fork \/ ChildEnds \/ LeaderExits

Next == Tick \/ RequestStep

Spec == Init /\ [][Next]_vars
-----------------------------------------------------------------------------
(* Properties. *)

\* The two limits work together: SafeExec's comes first, so that when the dispatcher
\* gives up, its request has been answered, unless the request came too late for that,
\* the command ran as root, or a child holds its output.
ClientOutlastsCommand ==
  client = "timedout" =>
    \/ handler = "replied"
    \/ handler = "none" \/ startedAt + CommandTimeout >= ClientTimeout
    \/ owner = "root" \/ child # "none"

\* When the handler can see that its client is gone.
GoneAt == IF closedAt < startedAt THEN startedAt ELSE closedAt

\* Exit code 0 is reported only of a command that ended before its deadline, and
\* before its client was seen to be gone: one that went on, because it could not be
\* killed or was killed too late, is never taken for a success.
SuccessInTime ==
  reply = "zero" =>
    /\ endedAt # Absent /\ endedAt <= Deadline
    /\ Closed /\ ~lost => endedAt <= GoneAt

\* A response with output is made only when nobody can add to the output: what
\* the model reads is all that was written.
OutputComplete ==
  reply \in {"zero", "nonzero"} => leader = "reaped" /\ child # "alive"

\* Once its client is gone, a command that can be killed is not left running: the
\* request's context reaches it before its own deadline.
NothingRunsForNobody ==
  Closed /\ ~lost /\ owner = "agent" /\ leader = "alive" => now = GoneAt

\* The comment at sandbox.go:26: a process group of its own, "so we can kill all
\* child processes".  When the command is killed, so are its children.
KillsAllChildren == code = "signal" => child # "alive"
=============================================================================
