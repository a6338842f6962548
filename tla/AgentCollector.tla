--------------------------- MODULE AgentCollector ---------------------------
(***************************************************************************)
(* The log collection loop of the node agent: journalctl is read from a    *)
(* cursor, each line passes the regex filter and the deduplication cache,  *)
(* what is left is pushed to the controller, and the cursor is committed   *)
(* in memory and then to a file.                                           *)
(*                                                                         *)
(*   agent/cmd/pve-agent/main.go          start-up, loops, commit          *)
(*   agent/internal/collector/*.go        journald, filter, dedup          *)
(*   agent/internal/pusher/http_pusher.go one HTTP POST, 10 s timeout      *)
(*                                                                         *)
(* A journal position stands for the journal cursor of its line, and       *)
(* NoCursor for the empty cursor.  The goroutines that share state with    *)
(* the loop (cache cleanup, configuration polling) interleave with every   *)
(* line the loop scans; the process may crash between any two steps.       *)
(***************************************************************************)
EXTENDS Integers

CONSTANTS
  Messages,     \* texts of journal lines, as the agent reads them
  Lines,        \* the lines the journal of this instance may hold
  PatternSets,  \* filter settings, each given by the messages it matches
  MaxLines,     \* bound: lines the host ever logs
  TailN,        \* lines read when there is no cursor (100 in the code)
  TTL,          \* life of a cache entry (5 minutes in the code)
  MaxTime,      \* bound: the last instant of the clock
  MaxCrashes    \* bound: crashes of the agent

\* "own": logged by pve-agent.service; "bad": not JSON; "long": exceeds the
\* scanner's 64 KiB token limit.  msg is the text that journald.go:65 yields: the empty
\* one for every MESSAGE that is not a string, so that all such lines have the same msg.
Kinds == {"plain", "own", "bad", "long"}
Line  == [msg : Messages, kind : Kinds]

ASSUME ConstantsAssumption ==
  /\ Lines \subseteq Line
  /\ PatternSets \subseteq SUBSET Messages
  /\ PatternSets # {}
  /\ MaxLines \in Nat
  /\ TailN \in Nat \ {0}
  /\ TTL \in Nat /\ TTL >= 2
  /\ MaxTime \in Nat
  /\ MaxCrashes \in Nat

VARIABLES
  \* The host.
  journal,   \* what the host logs, position by position
  written,   \* how many of those lines exist so far
  now,       \* the clock
  file,      \* data/cursor.txt
  \* The agent process; lost in a crash.
  pc,        \* where the collection goroutine stands
  cursor,    \* JournaldCollector.cursor
  patterns,  \* messages the filter ignores
  cache,     \* Dedup.cache: message -> time it was entered
  cleanAt,   \* when Dedup.cleanup wakes next
  pos,       \* next line the scanner returns
  last,      \* lastCursor of the read in progress
  batch,     \* entries of the read in progress, by position
  \* The controller, seen from the agent.
  stored,    \* positions whose log entry the controller has stored
  limbo,     \* pushes the agent gave up on, which may still be stored
  \* History.
  excused,   \* positions the filter dropped, or that -n 100 left out
  unacked,   \* positions of pushes that the agent saw fail
  entered,   \* when a message last entered the cache of this process
  origin,    \* ... and the position that brought it there
  twin,      \* for a line dropped as a duplicate, the origin of its message
  exposed,   \* positions beyond the cursor file when the process died
  crashes

hostVars    == <<journal, written, now>>
processVars == <<patterns, cache, cleanAt, cursor>>
readVars    == <<pos, last, batch>>
remoteVars  == <<stored, limbo>>
historyVars == <<excused, unacked, entered, origin, twin, exposed, crashes>>
vars == <<hostVars, file, pc, processVars, readVars, remoteVars, historyVars>>

Positions == 1..MaxLines
NoCursor  == 0
Absent    == -1
Period    == TTL \div 2
Empty     == [m \in Messages |-> Absent]

Msg(p)  == journal[p].msg
Kind(p) == journal[p].kind
Cached(m) == cache[m] # Absent
\* Bugs the properties must notice are kept beside the code they would change,
\* as operators named Buggy...; nothing but the mutation runs uses them.
BuggyNextCursor == last
BuggyNextCursorTip == IF last # NoCursor THEN written ELSE cursor
NextCursor == IF last # NoCursor THEN last ELSE cursor

TypeOK ==
  /\ journal \in [Positions -> Line]
  /\ written \in 0..MaxLines
  /\ now \in 0..MaxTime
  /\ file \in 0..written
  /\ pc \in {"down", "idle", "reading", "stuck", "pushing", "saving", "writing"}
  /\ cursor \in 0..written
  /\ patterns \in SUBSET Messages
  /\ cache \in [Messages -> Nat \cup {Absent}]
  /\ cleanAt \in Nat
  /\ pos \in 1..(written + 1)
  /\ last \in 0..written
  /\ batch \in SUBSET (1..written)
  /\ stored \in SUBSET (1..written)
  /\ limbo \in SUBSET SUBSET (1..written)
  /\ excused \in SUBSET (1..written)
  /\ unacked \in SUBSET (1..written)
  /\ entered \in [Messages -> Nat \cup {Absent}]
  /\ origin \in [Messages -> 0..written]
  /\ twin \in [Positions -> 0..written]
  /\ exposed \in SUBSET (1..written)
  /\ crashes \in 0..MaxCrashes

Init ==
  /\ journal \in [Positions -> Lines]
  /\ written = 0
  /\ now = 0
  /\ file = NoCursor
  /\ pc = "down"
  /\ cursor = NoCursor
  /\ patterns \in PatternSets
  /\ cache = Empty
  /\ cleanAt = 0
  /\ pos = 1 /\ last = NoCursor /\ batch = {}
  /\ stored = {} /\ limbo = {}
  /\ excused = {} /\ unacked = {} /\ exposed = {} /\ crashes = 0
  /\ entered = Empty
  /\ origin = [m \in Messages |-> 0]
  /\ twin = [p \in Positions |-> 0]
-----------------------------------------------------------------------------
(* The host and its clock. *)

LogLine ==
  /\ written < MaxLines
  /\ written' = written + 1
  /\ UNCHANGED <<journal, now, file, pc, processVars, readVars, remoteVars,
                 historyVars>>

\* Timers fire on time at the granularity of this clock: time does not pass
\* the instant at which the cleanup goroutine of a live agent wakes.
Tick ==
  /\ now < MaxTime
  /\ pc = "down" \/ now < cleanAt
  /\ now' = now + 1
  /\ UNCHANGED <<journal, written, file, pc, processVars, readVars, remoteVars,
                 historyVars>>
-----------------------------------------------------------------------------
(* The life of the process. *)

\* The cursor file is not read.
BuggyStartAgent ==
  /\ pc = "down"
  /\ pc' = "idle"
  /\ cache' = Empty
  /\ cleanAt' = now + Period
  /\ patterns' \in PatternSets
  /\ entered' = Empty
  /\ origin' = [m \in Messages |-> 0]
  /\ UNCHANGED <<hostVars, file, cursor, readVars, remoteVars, excused, unacked, twin,
                 exposed, crashes>>

\* Filter, cache and collector are created and the cursor file is read.  The
\* configuration fetch decides which patterns are in force.
StartAgent ==
  /\ pc = "down"
  /\ pc' = "idle"
  /\ cursor' = file
  /\ cache' = Empty
  /\ cleanAt' = now + Period
  /\ patterns' \in PatternSets
  /\ entered' = Empty
  /\ origin' = [m \in Messages |-> 0]
  /\ UNCHANGED <<hostVars, file, readVars, remoteVars, excused, unacked, twin,
                 exposed, crashes>>

\* A request under way when the process dies may still reach the controller.
Crash ==
  /\ pc # "down"
  /\ crashes < MaxCrashes
  /\ pc' = "down"
  /\ crashes' = crashes + 1
  /\ exposed' = exposed \cup (file + 1)..written
  /\ cursor' = NoCursor
  /\ cache' = Empty
  /\ limbo' = IF pc = "pushing" THEN limbo \cup {batch} ELSE limbo
  /\ pos' = 1 /\ last' = NoCursor /\ batch' = {}
  /\ UNCHANGED <<hostVars, file, patterns, cleanAt, stored, excused, unacked,
                 entered, origin, twin>>

\* The cleaner sleeps a whole TTL.
BuggyCleanupLate ==
  /\ pc # "down"
  /\ now >= cleanAt
  /\ cache' = [m \in Messages |->
                 IF Cached(m) /\ now - cache[m] > TTL THEN Absent ELSE cache[m]]
  /\ cleanAt' = now + TTL
  /\ UNCHANGED <<hostVars, file, pc, cursor, patterns, readVars, remoteVars,
                 historyVars>>

\* The cleaner compares with its period.
BuggyCleanupEager ==
  /\ pc # "down"
  /\ now >= cleanAt
  /\ cache' = [m \in Messages |->
                 IF Cached(m) /\ now - cache[m] > Period THEN Absent ELSE cache[m]]
  /\ cleanAt' = now + Period
  /\ UNCHANGED <<hostVars, file, pc, cursor, patterns, readVars, remoteVars,
                 historyVars>>

\* Dedup.cleanup: every half TTL, drop what is older than the TTL.
Cleanup ==
  /\ pc # "down"
  /\ now >= cleanAt
  /\ cache' = [m \in Messages |->
                 IF Cached(m) /\ now - cache[m] > TTL THEN Absent ELSE cache[m]]
  /\ cleanAt' = now + Period
  /\ UNCHANGED <<hostVars, file, pc, cursor, patterns, readVars, remoteVars,
                 historyVars>>

\* The polling goroutine: Filter.UpdatePatterns swaps the whole list.
UpdatePatterns ==
  /\ pc # "down"
  /\ patterns' \in PatternSets \ {patterns}
  /\ UNCHANGED <<hostVars, file, pc, cursor, cache, cleanAt, readVars, remoteVars,
                 historyVars>>
-----------------------------------------------------------------------------
(* JournaldCollector.ReadLogs.  A tick may come whenever the loop is idle.   *)

BuggyFirstLine == IF cursor # NoCursor THEN cursor + 2 ELSE 1

\* Without a cursor only the last TailN lines are asked for.
FirstLine ==
  IF cursor # NoCursor THEN cursor + 1
  ELSE IF written > TailN THEN written - TailN + 1 ELSE 1

StartCollect ==
  /\ pc = "idle"
  /\ pc' = "reading"
  /\ pos' = FirstLine
  /\ excused' = IF cursor = NoCursor THEN excused \cup 1..(FirstLine - 1)
                ELSE excused
  /\ UNCHANGED <<hostVars, file, processVars, last, batch, remoteVars, unacked,
                 entered, origin, twin, exposed, crashes>>

\* The next line is there and fits in the scanner's buffer.
Scanning == pc = "reading" /\ pos <= written /\ Kind(pos) # "long"

\* Not JSON: passed over, and it does not move the cursor either.
ScanBad ==
  /\ Scanning /\ Kind(pos) = "bad"
  /\ pos' = pos + 1
  /\ UNCHANGED <<hostVars, file, pc, processVars, last, batch, remoteVars,
                 historyVars>>

ScanIgnored ==
  /\ Scanning /\ Kind(pos) # "bad" /\ Msg(pos) \in patterns
  /\ pos' = pos + 1 /\ last' = pos
  /\ excused' = excused \cup {pos}
  /\ UNCHANGED <<hostVars, file, pc, processVars, batch, remoteVars, unacked,
                 entered, origin, twin, exposed, crashes>>

ReachesDedup == Scanning /\ Kind(pos) # "bad" /\ Msg(pos) \notin patterns

ScanDuplicate ==
  /\ ReachesDedup /\ Cached(Msg(pos))
  /\ pos' = pos + 1 /\ last' = pos
  /\ twin' = [twin EXCEPT ![pos] = origin[Msg(pos)]]
  /\ UNCHANGED <<hostVars, file, pc, processVars, batch, remoteVars, excused,
                 unacked, entered, origin, exposed, crashes>>

\* IsDuplicate has entered the message before the agent's own lines are
\* dropped.
ScanFresh ==
  /\ ReachesDedup /\ ~Cached(Msg(pos))
  /\ pos' = pos + 1 /\ last' = pos
  /\ cache' = [cache EXCEPT ![Msg(pos)] = now]
  /\ entered' = [entered EXCEPT ![Msg(pos)] = now]
  /\ origin' = [origin EXCEPT ![Msg(pos)] = pos]
  /\ batch' = IF Kind(pos) = "own" THEN batch ELSE batch \cup {pos}
  /\ UNCHANGED <<hostVars, file, pc, cursor, patterns, cleanAt, remoteVars,
                 excused, unacked, twin, exposed, crashes>>

\* ReadLogs has returned, and there is nothing to push or the push went well:
\* the cursor, if there is one, is committed and will be saved.
Commit ==
  /\ pc' = IF NextCursor # NoCursor THEN "saving" ELSE "idle"
  /\ cursor' = NextCursor
  /\ pos' = 1 /\ last' = NoCursor /\ batch' = {}

\* The cursor is saved before the push.
BuggyFinishReadSavesFirst ==
  /\ file' = NextCursor
  /\ IF batch # {} THEN pc' = "pushing" /\ UNCHANGED <<cursor, readVars>>
                   ELSE Commit
  /\ UNCHANGED <<hostVars, patterns, cache, cleanAt, remoteVars, historyVars>>

\* The cursor is committed only when there was something to push.
BuggyFinishReadSkipsCommit ==
  /\ pc' = IF batch # {} THEN "pushing" ELSE "idle"
  /\ IF batch # {} THEN UNCHANGED readVars
                   ELSE pos' = 1 /\ last' = NoCursor /\ batch' = {}
  /\ UNCHANGED <<hostVars, file, processVars, remoteVars, historyVars>>

FinishRead ==
  /\ IF batch # {} THEN pc' = "pushing" /\ UNCHANGED <<cursor, readVars>>
                   ELSE Commit
  /\ UNCHANGED <<hostVars, file, patterns, cache, cleanAt, remoteVars, historyVars>>

\* The scanner ends at the end of the output or at a line it cannot hold;
\* its error is not looked at.
EndRead ==
  /\ pc = "reading"
  /\ pos <= written => Kind(pos) = "long"
  /\ FinishRead

\* journalctl ended early (killed, or it had started before the last lines
\* were logged).  The error Wait returns is ignored.
CutRead ==
  /\ pc = "reading" /\ pos <= written
  /\ FinishRead

\* The scanner gave up and nobody reads the pipe: with enough output left,
\* journalctl blocks on it and Wait never returns.
Stall ==
  /\ pc = "reading" /\ pos < written /\ Kind(pos) = "long"
  /\ pc' = "stuck"
  /\ UNCHANGED <<hostVars, file, processVars, readVars, remoteVars, historyVars>>
-----------------------------------------------------------------------------
(* Push and commit. *)

\* The cursor is not committed.
BuggyPushOk ==
  /\ pc = "pushing"
  /\ stored' = stored \cup batch
  /\ pc' = "idle"
  /\ pos' = 1 /\ last' = NoCursor /\ batch' = {}
  /\ UNCHANGED <<hostVars, file, processVars, limbo, historyVars>>

PushOk ==
  /\ pc = "pushing"
  /\ stored' = stored \cup batch
  /\ Commit
  /\ UNCHANGED <<hostVars, file, patterns, cache, cleanAt, limbo, historyVars>>

\* The error is not looked at.
BuggyPushFails ==
  /\ pc = "pushing"
  /\ limbo' = limbo \cup {batch}
  /\ Commit
  /\ UNCHANGED <<hostVars, file, patterns, cache, cleanAt, stored, historyVars>>

\* Refused, unreachable or timed out: the agent cannot tell whether the
\* controller has stored the batch, or will.
PushFails ==
  /\ pc = "pushing"
  /\ pc' = "idle"
  /\ unacked' = unacked \cup batch
  /\ limbo' = limbo \cup {batch}
  /\ pos' = 1 /\ last' = NoCursor /\ batch' = {}
  /\ UNCHANGED <<hostVars, file, processVars, stored, excused, entered, origin,
                 twin, exposed, crashes>>

LateStore ==
  /\ \E b \in limbo : stored' = stored \cup b /\ limbo' = limbo \ {b}
  /\ UNCHANGED <<hostVars, file, pc, processVars, readVars, historyVars>>

\* os.WriteFile truncates, then writes.  Either may fail; the error is logged
\* and the loop goes on.
OpenCursorFile ==
  /\ pc = "saving"
  /\ pc' = "writing" /\ file' = NoCursor
  /\ UNCHANGED <<hostVars, processVars, readVars, remoteVars, historyVars>>

WriteCursor ==
  /\ pc = "writing"
  /\ pc' = "idle" /\ file' = cursor
  /\ UNCHANGED <<hostVars, processVars, readVars, remoteVars, historyVars>>

SaveFails ==
  /\ pc \in {"saving", "writing"}
  /\ pc' = "idle"
  /\ UNCHANGED <<hostVars, file, processVars, readVars, remoteVars, historyVars>>

Scan == ScanBad \/ ScanIgnored \/ ScanDuplicate \/ ScanFresh

Next ==
  \/ LogLine \/ Tick
  \/ StartAgent \/ Crash \/ Cleanup \/ UpdatePatterns
  \/ StartCollect \/ Scan \/ EndRead \/ CutRead \/ Stall
  \/ PushOk \/ PushFails \/ LateStore
  \/ OpenCursorFile \/ WriteCursor \/ SaveFails

Spec == Init /\ [][Next]_vars

\* systemd restarts the agent, its loops run, and neither journalctl, nor the
\* network, nor the disk fails for ever.
Fairness ==
  /\ WF_vars(StartAgent) /\ WF_vars(StartCollect) /\ WF_vars(EndRead)
  /\ SF_vars(Scan) /\ SF_vars(PushOk)
  /\ SF_vars(OpenCursorFile) /\ SF_vars(WriteCursor)

FairSpec == Spec /\ Fairness
-----------------------------------------------------------------------------
(* Properties. *)

\* Where the content of q is known to be, or was deliberately left out.
Backed(q) == q \in stored \/ q \in unacked \/ Kind(q) = "own"

\* What may become of a line the cursor has passed.
Settled(p) ==
  \/ p \in stored \cup excused
  \/ Kind(p) \in {"own", "bad"}
  \/ twin[p] # 0 /\ Msg(twin[p]) = Msg(p) /\ Backed(twin[p])

\* No line is passed silently: whatever the interleaving of scanning, cache
\* cleanup, pattern updates, crashes, killed journalctl processes and lost
\* replies, a line at or before the committed or the saved cursor is stored, was
\* filtered or out of the tail, or was dropped for a line of the same message
\* that is stored, or whose push failed, or that the agent logged itself.  (Lines whose
\* MESSAGE is not a string share the empty message, whatever they say: journald.go:65.)
LossNeedsFailure ==
  \A p \in 1..written : (p <= cursor \/ p <= file) => Settled(p)

\* A line already stored is sent again only if the push that stored it was reported
\* as failed, or if the process died before a cursor beyond it was in the file:
\* commits follow acknowledgements, and a restart repeats nothing else.
NoSpuriousResend == batch \cap stored \subseteq unacked \cup exposed

\* Suppression ends: a message stays in the cache at most one TTL and
\* one cleanup period after the line that entered it, however many duplicates
\* arrive (an entry is not refreshed by them).
SuppressionBounded ==
  \A m \in Messages :
    pc # "down" /\ Cached(m) => now - cache[m] <= TTL + Period

\* The cleaner never reopens a message early: within one run of the
\* process, no message goes into a batch within a TTL of its last entry.
NoRepeatWithinTTL ==
  [][\A p \in batch' \ batch :
       entered[Msg(p)] = Absent \/ now - entered[Msg(p)] > TTL]_vars

\* The journal, seen from outside.
Delivery == INSTANCE LogDelivery WITH
  text <- [p \in Positions |-> Msg(p)],
  own  <- {p \in Positions : Kind(p) = "own"},
  left <- excused \cup {p \in Positions : Kind(p) = "bad"},
  up   <- pc # "down"

\* Whatever interleaves with a read, it does nothing that LogDelivery does not allow: the
\* cursor moves only forward, in one step with the storing of the batch it follows,
\* never over a line whose fate is open; a line goes out only while it is ahead of
\* the cursor, and what a restart reads from the file is never ahead of it.
ImplementsDelivery == Delivery!Spec

\* What main.go:153 logs of a failed push: "will retry next tick".  A line whose
\* push failed is not passed by the cursor before it is stored.
FailedPushIsRetried ==
  \A p \in unacked : p <= cursor => p \in stored
=============================================================================
