------------------------------- MODULE Ingest -------------------------------
(***************************************************************************)
(* What the controller keeps of one node, and the requests that write it.  *)
(*                                                                         *)
(*   agent/cmd/pve-agent/main.go           the heartbeat and push loops    *)
(*   agent/internal/heartbeat, pusher      one request each, 5 s and 10 s  *)
(*   controller/api/middleware/auth.py     signature and age of a request  *)
(*   controller/api/routes/heartbeat.py, log_ingest.py  one session each   *)
(*                                                                         *)
(* Requests are handled at once on one event loop: a session reads the     *)
(* row, and writes it at its commit, two awaits later.  A commit is one    *)
(* SQLite transaction; the SELECT before it runs outside of it.  A request *)
(* its agent no longer waits for is handled all the same.  Rows of         *)
(* different nodes never meet, so one node is enough.                      *)
(***************************************************************************)
EXTENDS Integers, FiniteSets

CONSTANTS
  MaxRequests, \* bound: requests under way at once
  MaxCursor,   \* bound: the last journal cursor
  PushTimeout, \* of the agent's clients, in the unit of the clock
  BeatTimeout,
  Window,      \* age the middleware accepts (300 s)
  Skew         \* how much the agent's clock is ahead of the controller's

Abs(i) == IF i < 0 THEN -i ELSE i

ASSUME IngestAssumption ==
  /\ MaxRequests \in Nat /\ MaxCursor \in Nat
  /\ PushTimeout \in Nat /\ BeatTimeout \in Nat /\ Window \in Nat
  /\ Skew \in Int
  /\ PushTimeout + Abs(Skew) <= Window
  /\ BeatTimeout + Abs(Skew) <= Window

VARIABLES
  cursor,    \* JournaldCollector.cursor of the agent, 0 for none
  reqs,      \* requests on their way, in a session, or answered
  \* The database.
  row,       \* the node's row: is it there, agent_url, last_log_cursor
  stored,    \* the batches stored, each known by its since_cursor
  \* History.
  pushed,    \* the cursor of the last push that the agent heard succeed
  late,      \* the push that wrote the row's cursor was not heard in time
  beaten     \* a heartbeat was answered with success

dbVars      == <<row, stored>>
historyVars == <<pushed, late, beaten>>
vars        == <<cursor, reqs, dbVars, historyVars>>

Cursors == 0..MaxCursor
Row     == [there : BOOLEAN, url : BOOLEAN, cursor : Cursors]
View    == [there : BOOLEAN, cursor : Cursors]
Nothing == [there |-> FALSE, cursor |-> 0]
Oldest  == Window + Abs(Skew) + 1   \* no age beyond it makes a difference

\* A request: does the agent still wait for it; was there no row when it was sent
\* (first); what its session has read.
Request == [kind : {"push", "beat"}, cursor : Cursors, awaited : BOOLEAN,
            age : 0..Oldest, first : BOOLEAN, view : View,
            stage : {"sent", "accepted", "loaded", "ok", "refused"}]

TypeOK ==
  /\ cursor \in Cursors
  /\ reqs \in SUBSET Request
  /\ \A r, q \in reqs : r.awaited /\ q.awaited /\ r.kind = q.kind => r = q
  /\ row \in Row
  /\ stored \in SUBSET Cursors
  /\ pushed \in Cursors /\ late \in BOOLEAN /\ beaten \in BOOLEAN

Init ==
  /\ cursor = 0 /\ reqs = {}
  /\ row = [there |-> FALSE, url |-> FALSE, cursor |-> 0] /\ stored = {}
  /\ pushed = 0 /\ late = FALSE /\ beaten = FALSE
-----------------------------------------------------------------------------
(* The agent. *)

\* The loop does not wait for its request.
BuggySend(kind, c) ==
  /\ Cardinality(reqs) < MaxRequests
  /\ reqs' = reqs \cup {[kind |-> kind, cursor |-> c, awaited |-> TRUE, age |-> 0,
                         first |-> ~row.there, view |-> Nothing, stage |-> "sent"]}

\* Each loop waits for its request before it sends the next.
Send(kind, c) ==
  /\ Cardinality(reqs) < MaxRequests
  /\ ~\E r \in reqs : r.awaited /\ r.kind = kind
  /\ reqs' = reqs \cup {[kind |-> kind, cursor |-> c, awaited |-> TRUE, age |-> 0,
                         first |-> ~row.there, view |-> Nothing, stage |-> "sent"]}

\* A read that found entries: they end beyond the cursor.
SendPush ==
  /\ \E c \in Cursors : c > cursor /\ Send("push", c)
  /\ UNCHANGED <<cursor, dbVars, historyVars>>

\* A read all of whose lines were dropped (filtered, duplicates, the agent's own):
\* there is nothing to push, and the cursor is committed.
SkipRead ==
  /\ ~\E r \in reqs : r.awaited /\ r.kind = "push"
  /\ \E c \in Cursors : c > cursor /\ cursor' = c
  /\ UNCHANGED <<reqs, dbVars, historyVars>>

SendBeat ==
  /\ Send("beat", 0)
  /\ UNCHANGED <<cursor, dbVars, historyVars>>

\* A request that is answered and no longer awaited leaves nothing behind; what no
\* longer matters of one that is not awaited is forgotten.
Remains(r) ==
  IF r.awaited THEN {r}
  ELSE IF r.stage \in {"ok", "refused"} THEN {}
  ELSE {[r EXCEPT !.first = FALSE, !.age = IF r.stage = "sent" THEN @ ELSE 0]}

Becomes(r, new) == reqs' = (reqs \ {r}) \cup Remains(new)

\* Is there a push in R whose success the agent will not hear of?
Unheard(R) == \E r \in R : r.kind = "push" /\ r.awaited /\ r.stage = "ok"

\* The reply arrives in time.  A push that went well commits the cursor.
Hear(r) ==
  /\ r.awaited
  /\ \/ /\ r.stage = "ok" /\ r.kind = "push" /\ cursor' = r.cursor
        /\ pushed' = r.cursor
        /\ UNCHANGED <<late, beaten>>
     \/ /\ r.stage = "ok" /\ r.kind = "beat" /\ beaten' = TRUE
        /\ UNCHANGED <<cursor, pushed, late>>
     \/ r.stage = "refused" /\ UNCHANGED <<cursor, historyVars>>
  /\ reqs' = reqs \ {r}
  /\ UNCHANGED dbVars

Timeout(r) == IF r.kind = "push" THEN PushTimeout ELSE BeatTimeout

\* The client's timeout; the request goes on without it.
GiveUp(r) ==
  /\ r.awaited /\ r.age >= Timeout(r)
  /\ Becomes(r, [r EXCEPT !.awaited = FALSE])
  /\ late' = (late \/ Unheard({r}))
  /\ UNCHANGED <<cursor, dbVars, pushed, beaten>>

\* Killed and started again by systemd.  The cursor file holds the cursor, or one
\* committed before it, or none (AgentCollector has it in detail).
Restart ==
  /\ cursor' \in 0..cursor
  /\ reqs' = UNION {Remains([r EXCEPT !.awaited = FALSE]) : r \in reqs}
  /\ late' = (late \/ Unheard(reqs))
  /\ UNCHANGED <<dbVars, pushed, beaten>>

Ages(r) == (r.awaited \/ r.stage = "sent") /\ r.age < Oldest

\* A client's timer fires on time.
Tick ==
  /\ \A r \in reqs : r.awaited => r.age < Timeout(r)
  /\ reqs' = {IF Ages(r) THEN [r EXCEPT !.age = @ + 1] ELSE r : r \in reqs}
  /\ UNCHANGED <<cursor, dbVars, historyVars>>
-----------------------------------------------------------------------------
(* The controller. *)

\* The limit itself is refused.
BuggyRecentEnough(r) == Abs(r.age - Skew) < Window

\* time.time() - X-Timestamp, on two clocks.
RecentEnough(r) == Abs(r.age - Skew) <= Window

Authenticate(r) ==
  /\ r.stage = "sent"
  /\ Becomes(r, [r EXCEPT !.stage = IF RecentEnough(r) THEN "accepted" ELSE "refused"])
  /\ UNCHANGED <<cursor, dbVars, historyVars>>

\* db.get(Node, node_id).
Load(r) ==
  /\ r.stage = "accepted"
  /\ Becomes(r, [r EXCEPT !.stage = "loaded",
                          !.view = [there |-> row.there, cursor |-> row.cursor]])
  /\ UNCHANGED <<cursor, dbVars, historyVars>>

\* A session writes back the cursor it read.
BuggyWritten(r) ==
  IF r.kind = "push"
  THEN [row EXCEPT !.there = TRUE, !.cursor = r.cursor]
  ELSE [row EXCEPT !.there = TRUE, !.url = TRUE, !.cursor = r.view.cursor]

\* A push replaces the row.
BuggyWrittenAnew(r) ==
  IF r.kind = "push"
  THEN [there |-> TRUE, url |-> FALSE, cursor |-> r.cursor]
  ELSE [row EXCEPT !.there = TRUE, !.url = TRUE]

\* A heartbeat of a node with a row does not bring its URL.
BuggyWrittenNoUrl(r) ==
  IF r.kind = "push"
  THEN [row EXCEPT !.there = TRUE, !.cursor = r.cursor]
  ELSE [row EXCEPT !.there = TRUE, !.url = @ \/ ~row.there]

\* INSERT of a new row, or UPDATE of the columns whose value is not the one read.
Written(r) ==
  IF r.kind = "push"
  THEN [row EXCEPT !.there = TRUE,
                   !.cursor = IF r.view.cursor = r.cursor THEN @ ELSE r.cursor]
  ELSE [row EXCEPT !.there = TRUE, !.url = TRUE]

Done(r, answer) == Becomes(r, [r EXCEPT !.stage = answer, !.view = Nothing])

\* Whose push left the row's cursor.
Attribute(r) == late' = IF r.kind = "push" /\ row'.cursor = r.cursor THEN ~r.awaited ELSE late

\* An INSERT that finds the row there is taken for a success.
BuggyCommit(r) ==
  /\ r.stage = "loaded"
  /\ Done(r, "ok")
  /\ IF ~r.view.there /\ row.there
     THEN UNCHANGED <<dbVars, late>>
     ELSE /\ row' = Written(r) /\ Attribute(r)
          /\ stored' = IF r.kind = "push" THEN stored \cup {r.cursor} ELSE stored
  /\ UNCHANGED <<cursor, pushed, beaten>>

\* One transaction: the row and, for a push, the batch with its entries.  If the row
\* was inserted meanwhile, the INSERT violates the key: all is undone, status 500.
Commit(r) ==
  /\ r.stage = "loaded"
  /\ IF ~r.view.there /\ row.there
     THEN Done(r, "refused") /\ UNCHANGED <<dbVars, late>>
     ELSE /\ Done(r, "ok")
          /\ row' = Written(r) /\ Attribute(r)
          /\ stored' = IF r.kind = "push" THEN stored \cup {r.cursor} ELSE stored
  /\ UNCHANGED <<cursor, pushed, beaten>>

\* The request, its session or the reply ends without further effect: connection
\* lost, database error, controller killed.
Lose(r) ==
  /\ reqs' = reqs \ {r}
  /\ late' = (late \/ Unheard({r}))
  /\ UNCHANGED <<cursor, dbVars, pushed, beaten>>

Handle(r) == Authenticate(r) \/ Load(r) \/ Commit(r)

Next ==
  \/ SendPush \/ SkipRead \/ SendBeat \/ Restart \/ Tick
  \/ \E r \in reqs : Hear(r) \/ GiveUp(r) \/ Handle(r) \/ Lose(r)

Spec == Init /\ [][Next]_vars

\* The heartbeat loop runs, timers fire, sessions go on, and time and again a
\* heartbeat arrives before it is too old; connections do not break for ever.
Fairness ==
  /\ SF_vars(SendBeat)
  /\ WF_vars(\E r \in reqs : Hear(r) \/ GiveUp(r))
  /\ WF_vars(\E r \in reqs : r.kind = "push" /\ Handle(r))
  /\ WF_vars(\E r \in reqs : r.kind = "beat" /\ Authenticate(r))
  /\ WF_vars(\E r \in reqs : r.kind = "beat" /\ Load(r))
  /\ WF_vars(\E r \in reqs : r.kind = "beat" /\ Commit(r))
  /\ SF_vars(\E r \in reqs : r.kind = "beat" /\ RecentEnough(r) /\ Authenticate(r))
  /\ <>[][~\E r \in reqs : Lose(r)]_vars

FairSpec == Spec /\ Fairness
-----------------------------------------------------------------------------
(* Properties. *)

\* The row's cursor is that of the last push the agent heard succeed, or of the one
\* just answered, unless a push that the agent no longer waits for wrote it since: no
\* session that read the row before a push and commits after it sets the cursor
\* back (log_ingest.py:49).  The agent's own cursor may be ahead, after reads with
\* nothing to push (main.go:160).
RowFollowsPushes ==
  \/ late
  \/ row.cursor = pushed
  \/ \E r \in reqs : r.awaited /\ r.kind = "push" /\ r.stage = "ok" /\ row.cursor = r.cursor

\* The cursor of a push the agent heard succeed, and the one the row holds, belong to
\* a stored batch: no interleaving of the sessions acknowledges a push whose batch
\* was undone.
CursorsAreStored == {pushed, row.cursor} \subseteq stored \cup {0}

\* After a heartbeat was answered the node has a URL, for good: no session that read
\* the row before takes it away (the inspection skips nodes without one).
UrlKept == beaten => row.there /\ row.url

\* A request that the agent still waits for is refused only if, when it was sent, the
\* node had no row yet: another first request inserted it (log_ingest.py:38).
RefusalNeedsRace == \A r \in reqs : r.stage = "refused" /\ r.awaited => r.first

\* However pushes, heartbeats, restarts and timeouts interleave, the node eventually
\* has the URL that the inspection needs.
NodeGetsUrl == <>(row.there /\ row.url)
=============================================================================
