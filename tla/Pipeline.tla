------------------------------- MODULE Pipeline -------------------------------
(***************************************************************************)
(* A line from the journal of a node to the report of an analysis: the     *)
(* agent of AgentCollector pushes to a controller that handles batches as  *)
(* BatchLifecycle allows, which is what Inspection implements.             *)
(*                                                                         *)
(*   agent/internal/pusher/http_pusher.go  PushLogs                        *)
(*   controller/api/routes/log_ingest.py   ingest_logs                     *)
(*                                                                         *)
(* The two meet where a push is stored as a batch: when the agent hears of *)
(* it, and when it does not any more.                                      *)
(***************************************************************************)
EXTENDS Integers, Sequences

CONSTANTS
  Messages, Lines, PatternSets, MaxLines, TailN, TTL, MaxTime, MaxCrashes,
              \* see AgentCollector
  MaxBatches, \* bound: batches ever stored
  MaxReports  \* bound: reports until batches are no longer analyzed a second time

VARIABLES
  journal, written, now, file, pc, cursor, patterns, cache, cleanAt, pos, last,
  batch, stored, limbo, excused, unacked, entered, origin, twin, exposed,
  crashes,  
            \* see AgentCollector
  state, reports, faulty,
            \* see BatchLifecycle
  content,  \* log_entries: the lines of each batch stored, in order
  expired   \* history: batches whose entries were purged unread

Batches == 1..MaxBatches

Agent == INSTANCE AgentCollector
Controller == INSTANCE BatchLifecycle WITH Owner <- [b \in Batches |-> "node"]

\* What AgentCollector assumes of its constants, and the bounds.
ASSUME PipelineAssumption ==
  /\ Lines \subseteq Agent!Line
  /\ PatternSets \subseteq SUBSET Messages /\ PatternSets # {}
  /\ MaxLines \in Nat /\ MaxTime \in Nat /\ MaxCrashes \in Nat
  /\ TailN \in Nat \ {0}
  /\ TTL \in Nat /\ TTL >= 2
  /\ MaxBatches \in Nat /\ MaxReports \in Nat

agentVars == <<journal, written, now, file, pc, cursor, patterns, cache, cleanAt, pos,
               last, batch, stored, limbo, excused, unacked, entered, origin, twin,
               exposed, crashes>>
controllerVars == <<state, reports, faulty, content, expired>>
vars == <<agentVars, controllerVars>>

Init ==
  /\ Agent!Init /\ Controller!Init
  /\ content = <<>> /\ expired = {}
-----------------------------------------------------------------------------
\* The batch and its entries.
Store(lines) ==
  /\ Len(content) < MaxBatches
  /\ content' = Append(content, lines)
  /\ Controller!Push(Len(content'))
  /\ UNCHANGED expired

\* Answered before it is stored, and then not stored.
BuggyDeliver == Agent!PushOk /\ UNCHANGED controllerVars

\* Stored, and answered in time.
Deliver == Agent!PushOk /\ Store(batch)

\* Stored after the agent had given up or had died.
DeliverLate ==
  \E b \in limbo : /\ Agent!LateStore /\ limbo' = limbo \ {b}
                   /\ Store(b)

AgentAlone ==
  /\ \/ Agent!LogLine \/ Agent!Tick
     \/ Agent!StartAgent \/ Agent!Crash \/ Agent!Cleanup \/ Agent!UpdatePatterns
     \/ Agent!StartCollect \/ Agent!Scan \/ Agent!EndRead \/ Agent!CutRead
     \/ Agent!Stall \/ Agent!PushFails
     \/ Agent!OpenCursorFile \/ Agent!WriteCursor \/ Agent!SaveFails
  /\ UNCHANGED controllerVars

Waiting(b) == state[b] \in {"fresh", "stale"}

\* An analysis, or the marking of batches that have nothing left.
Analysis(S) ==
  /\ \/ Controller!Settle(S)
     \/ /\ (\A b \in S : Waiting(b)) \/ Len(reports) < MaxReports
        /\ \E R \in SUBSET S : Controller!Report(S, R)
  /\ UNCHANGED <<agentVars, content, expired>>

\* Entries expire.  (That analyzed batches are purged changes nothing here.)
Expiry ==
  /\ \E S \in SUBSET Batches : Controller!Cleanup(S, {}) /\ expired' = expired \cup S
  /\ UNCHANGED <<agentVars, content>>

TaskFails == Controller!Fail /\ UNCHANGED <<agentVars, content, expired>>

Next ==
  \/ AgentAlone \/ Deliver \/ DeliverLate \/ Expiry \/ TaskFails
  \/ \E S \in SUBSET Batches : Analysis(S)

Spec == Init /\ [][Next]_vars

\* The agent's fairness, and of the controller what Inspection guarantees
\* (EveryBatchMarked): a batch does not wait for ever.
Fairness ==
  /\ Agent!Fairness
  /\ \A b \in Batches :
       WF_vars(\E S \in SUBSET Batches : b \in S /\ Waiting(b) /\ Analysis(S))

FairSpec == Spec /\ Fairness
-----------------------------------------------------------------------------
(* Properties. *)

\* A stored line waits for an analysis, was read by one on record, or has expired.
Kept(p) ==
  \E b \in DOMAIN content :
    /\ p \in content[b]
    /\ \/ state[b] = "fresh" \/ b \in expired
       \/ \E i \in DOMAIN reports : b \in reports[i].read

\* From end to end: a line the agent has passed is waiting for an analysis, has been
\* read by one or has expired; or it was filtered, or was left out for a line of
\* the same message of which this is true, whose push failed, or that is the agent's.
LineFate ==
  \A p \in 1..written : p <= cursor \/ p <= file =>
    \/ p \in excused \/ Agent!Kind(p) \in {"own", "bad"} \/ Kept(p)
    \/ /\ twin[p] # 0 /\ Agent!Msg(twin[p]) = Agent!Msg(p)
       /\ Kept(twin[p]) \/ twin[p] \in unacked \/ Agent!Kind(twin[p]) = "own"

\* And only once: as long as no task fails, a line is read by one analysis, in one batch,
\* unless its push was reported as failed or the agent died before it had saved a cursor
\* beyond it.
ReadOnce ==
  ~faulty =>
    \A i, j \in DOMAIN reports : \A b \in reports[i].read, c \in reports[j].read :
      <<i, b>> # <<j, c>> => content[b] \cap content[c] \subseteq unacked \cup exposed

\* The line, or one of its message, is in a batch that is done with.
Judged(p) ==
  \E q \in 1..written :
    /\ Agent!Msg(q) = Agent!Msg(p)
    /\ \/ q \in unacked \/ Agent!Kind(q) = "own"
       \/ \E b \in DOMAIN content : q \in content[b] /\ ~Waiting(b)

\* In a journal of well-formed lines every line is passed, with the cursor beyond it
\* saved, and, unless it was filtered or its push failed, its message is analyzed,
\* whatever fails in between (not for ever) at the agent or at the controller.
EveryLineArrives ==
  \A p \in Agent!Positions :
    (p <= written /\ \A q \in Agent!Positions : Agent!Kind(q) \in {"plain", "own"})
      ~> (file >= p /\ (p \in excused \/ Judged(p)))
=============================================================================
