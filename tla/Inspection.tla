----------------------------- MODULE Inspection -----------------------------
(***************************************************************************)
(* The controller's periodic inspection of unanalyzed log batches, with    *)
(* the ingestion that feeds it, the alert cooldown and the daily cleanup.  *)
(*                                                                         *)
(*   controller/scheduler/tasks.py        _inspect_node, periodic_         *)
(*                                        inspection, cleanup_old_data     *)
(*   controller/api/routes/log_ingest.py  a batch and its entries          *)
(*   controller/api/routes/heartbeat.py   the agent's URL                  *)
(*   controller/core/alert_manager.py, services/email_service.py           *)
(*                                                                         *)
(* Everything runs on one asyncio event loop: a step of the model is what  *)
(* happens between two awaits.  Each node inspected in a round is a task   *)
(* with a database session of its own; the round gathers them and is over  *)
(* at the first exception, while the other tasks run on.  SQLite gives     *)
(* each SELECT the latest committed rows and each commit all or nothing.   *)
(***************************************************************************)
EXTENDS Integers, Sequences, FiniteSets

CONSTANTS
  Nodes,        \* node identifiers
  Batches,      \* bound: the batches ever pushed, each a node and a number
  Overlap,      \* bound: tasks on one node that may be alive together
  Severities,   \* what an analysis may return
  Faults,       \* bound: crashes, and nodes on which a task fails
  Interval,     \* settings.inspect_interval_sec
  Cooldown,     \* AlertManager.cooldown_minutes
  Retention,    \* seven days
  MaxTime       \* bound: the last instant of the clock

\* "" is the severity of an analysis that ran out of iterations.
High == {"ERROR", "CRITICAL"}

ASSUME InspectionAssumption ==
  /\ Severities \subseteq {"INFO", "WARNING", "ERROR", "CRITICAL", ""}
  /\ Severities # {}
  /\ Batches \subseteq Nodes \X Nat
  /\ Overlap \in Nat \ {0}
  /\ Faults \in Nat
  /\ Interval \in Nat /\ Cooldown \in Nat \ {0}
  /\ Retention \in Nat \ {0}
  /\ MaxTime \in Nat

Tasks  == Nodes \X (1..Overlap)
Absent == -1

VARIABLES
  now,       \* the clock, in units the cooldown is counted in
  \* The database.
  dated,     \* does created_at have a default (see Migration)?
  urls,      \* nodes with a row and an agent_url
  batches,   \* rows of log_batches
  analyzed,  \* those with analyzed = true
  aid,       \* analysis_id of a batch: index of its record, 0 for null
  at,        \* received_at of a batch, Absent if it was never pushed
  rows,      \* batches that have rows in log_entries
  records,   \* analysis_records, in the order they were committed
  \* The controller process.
  loop,      \* periodic_inspection: "sleeping" or "gathering"
  wake,      \* when the sleep ends
  awaited,   \* tasks the round still waits for
  task,      \* the tasks, each with its session's view
  \* History.
  lastAlert, \* when the last alert of a node was handed to the mailer
  early,     \* nodes alerted twice within the cooldown
  lost,      \* nodes with an alert since whose record was lost with its task
  overlapped,\* nodes a task was started on while another was there
  failed,    \* nodes on which a task has failed
  crashed    \* has the controller been killed?

dbVars      == <<dated, urls, batches, analyzed, aid, at, rows, records>>
loopVars    == <<loop, wake, awaited, task>>
historyVars == <<lastAlert, early, lost, overlapped, failed, crashed>>
vars == <<now, dbVars, loopVars, historyVars>>

NodeOf(b) == b[1]
Stages == {"free", "batches", "entries", "marking", "analyzing", "checking",
           "alerting", "saving"}

\* A task: the rows it loaded (snap), those whose entries it loaded (read), the
\* result, and when it looked for a recent alert.
Task == [pc : Stages, snap : SUBSET Batches, read : SUBSET Batches,
         severity : Severities \cup {"none"}, sent : BOOLEAN,
         checked : Nat \cup {Absent}]

\* An analysis record; Absent stands for a created_at that is NULL.
Record == [node : Nodes, severity : Severities, sent : BOOLEAN, at : Nat \cup {Absent},
           snap : SUBSET Batches, read : SUBSET Batches,
           checked : Nat \cup {Absent}]

Idle == [pc |-> "free", snap |-> {}, read |-> {}, severity |-> "none",
         sent |-> FALSE, checked |-> Absent]

TypeOK ==
  /\ now \in 0..MaxTime
  /\ dated \in BOOLEAN
  /\ urls \in SUBSET Nodes
  /\ batches \in SUBSET Batches
  /\ analyzed \in SUBSET batches
  /\ aid \in [Batches -> 0..Len(records)]
  /\ at \in [Batches -> Nat \cup {Absent}]
  /\ rows \in SUBSET batches
  /\ records \in Seq(Record)
  /\ loop \in {"sleeping", "gathering"} /\ wake \in 0..MaxTime
  /\ awaited \in SUBSET Tasks
  /\ task \in [Tasks -> Task]
  /\ lastAlert \in [Nodes -> Nat \cup {Absent}]
  /\ early \in SUBSET Nodes /\ lost \in SUBSET Nodes /\ overlapped \in SUBSET Nodes
  /\ failed \in SUBSET Nodes
  /\ crashed \in BOOLEAN

\* The loop sleeps first.
Later(t) == IF t + Interval < MaxTime THEN t + Interval ELSE MaxTime

Init ==
  /\ now = 0
  /\ dated \in BOOLEAN
  /\ urls = {} /\ batches = {} /\ analyzed = {} /\ rows = {} /\ records = <<>>
  /\ aid = [b \in Batches |-> 0]
  /\ at = [b \in Batches |-> Absent]
  /\ loop = "sleeping" /\ wake = Later(0) /\ awaited = {}
  /\ task = [t \in Tasks |-> Idle]
  /\ lastAlert = [n \in Nodes |-> Absent]
  /\ early = {} /\ lost = {} /\ overlapped = {} /\ failed = {} /\ crashed = FALSE
-----------------------------------------------------------------------------
(* Around the inspection. *)

Tick ==
  /\ now < MaxTime
  /\ now' = now + 1
  /\ UNCHANGED <<dbVars, loopVars, historyVars>>

\* POST /heartbeat: the node's row is made or updated, with its agent_url.
Heartbeat(n) ==
  /\ n \notin urls
  /\ urls' = urls \cup {n}
  /\ UNCHANGED <<now, dated, batches, analyzed, aid, at, rows, records, loopVars,
                 historyVars>>

\* POST /logs: the batch and its entries are committed together.
Ingest(b) ==
  /\ at[b] = Absent
  /\ at' = [at EXCEPT ![b] = now]
  /\ batches' = batches \cup {b}
  /\ rows' = rows \cup {b}
  /\ UNCHANGED <<now, dated, urls, analyzed, aid, records, loopVars, historyVars>>

\* Dates are compared as text, 'HH:MM:SS' of the row with 'HH:MM:SS.ffffff' of the
\* limit: the same second counts as before it.
Expired(b) == now - at[b] >= Retention

\* Operators named Buggy... hold bugs that the properties must notice.  Here, old
\* batches go and their entries stay.
BuggyCleanup ==
  /\ \E b \in batches : Expired(b) /\ b \in analyzed
  /\ batches' = {b \in batches : ~(Expired(b) /\ b \in analyzed)}
  /\ analyzed' = {b \in analyzed : ~Expired(b)}
  /\ UNCHANGED <<now, dated, urls, aid, at, rows, records, loopVars, historyVars>>

\* cleanup_old_data: entries go by age alone, batches only once analyzed.
Cleanup ==
  /\ \E b \in batches : Expired(b) /\ (b \in rows \/ b \in analyzed)
  /\ batches' = {b \in batches : ~(Expired(b) /\ b \in analyzed)}
  /\ analyzed' = {b \in analyzed : ~Expired(b)}
  /\ rows' = {b \in rows : ~Expired(b)}
  /\ UNCHANGED <<now, dated, urls, aid, at, records, loopVars, historyVars>>
-----------------------------------------------------------------------------
(* periodic_inspection. *)

FreeSlots(n) == {t \in Tasks : t[1] = n /\ task[t].pc = "free"}

Working(n) == {t \in Tasks : t[1] = n /\ task[t].pc # "free"}

Awake == loop = "sleeping" /\ now >= wake

\* The tasks are started and not waited for.
BuggyStartRound ==
  /\ Awake /\ urls # {}
  /\ \A n \in urls : FreeSlots(n) # {}
  /\ task' = [t \in Tasks |->
                IF t \in {CHOOSE u \in FreeSlots(n) : TRUE : n \in urls}
                THEN [Idle EXCEPT !.pc = "batches"] ELSE task[t]]
  /\ UNCHANGED <<now, dbVars, loop, wake, awaited, historyVars>>

\* One task for every node with a URL.  (Bound: a round needs a free slot for
\* each; tasks left over from earlier rounds hold theirs.)
StartRound ==
  /\ Awake /\ urls # {}
  /\ \A n \in urls : FreeSlots(n) # {}
  /\ awaited' = {CHOOSE t \in FreeSlots(n) : TRUE : n \in urls}
  /\ task' = [t \in Tasks |->
                IF t \in awaited' THEN [Idle EXCEPT !.pc = "batches"] ELSE task[t]]
  /\ loop' = "gathering" /\ wake' = 0
  /\ overlapped' = {n \in overlapped \cup urls : n \notin urls \/ Working(n) # {}}
  /\ UNCHANGED <<now, dbVars, lastAlert, early, lost, failed, crashed>>

\* No node has a URL, or the nodes cannot be read: the loop sleeps again.
SkipRound ==
  /\ Awake
  /\ wake' = Later(now)
  /\ UNCHANGED <<now, dbVars, loop, awaited, task, historyVars>>

\* The round is over and the loop sleeps.
EndRound == awaited' = {} /\ loop' = "sleeping" /\ wake' = Later(now)

\* Task t returns; the round ends with its last task.
Return(t) ==
  /\ task' = [task EXCEPT ![t] = Idle]
  /\ IF awaited = {t} THEN EndRound
                      ELSE awaited' = awaited \ {t} /\ UNCHANGED <<loop, wake>>

\* Task t raises and its session is rolled back.  gather(return_exceptions=False)
\* hands the first exception of the round to the loop and leaves the other tasks
\* running.
Raise(t) ==
  /\ task' = [task EXCEPT ![t] = Idle]
  /\ IF t \in awaited THEN EndRound ELSE UNCHANGED <<awaited, loop, wake>>
  /\ failed' = failed \cup {t[1]}
  /\ lost' = IF task[t].sent THEN lost \cup {t[1]} ELSE lost
  /\ UNCHANGED <<now, dbVars, lastAlert, early, overlapped, crashed>>

\* A batch that task t is about to mark was deleted in the meantime.
Stale(t) == task[t].pc \in {"marking", "saving"} /\ ~(task[t].snap \subseteq batches)

\* The bound leaves room for another fault.
Spare == Cardinality(failed) + (IF crashed THEN 1 ELSE 0) < Faults

\* A database error, or an exception of the analysis, once for a node.
TaskFails(t) ==
  /\ task[t].pc # "free" /\ ~Stale(t)
  /\ t[1] \notin failed /\ Spare
  /\ Raise(t)

\* The process is killed and started again: tasks and uncommitted work are gone.
Crash ==
  /\ ~crashed /\ Spare
  /\ crashed' = TRUE
  /\ EndRound
  /\ task' = [t \in Tasks |-> Idle]
  /\ lost' = lost \cup {t[1] : t \in {u \in Tasks : task[u].sent}}
  /\ UNCHANGED <<now, dbVars, lastAlert, early, overlapped, failed>>
-----------------------------------------------------------------------------
(* _inspect_node. *)

At(t, stage) == task[t].pc = stage

BuggyUnanalyzed(n) == {b \in batches : NodeOf(b) = n}
Unanalyzed(n) == {b \in batches : NodeOf(b) = n /\ b \notin analyzed}

ReadBatches(t) ==
  /\ At(t, "batches")
  /\ IF Unanalyzed(t[1]) = {}
     THEN Return(t)
     ELSE /\ task' = [task EXCEPT ![t].snap = Unanalyzed(t[1]), ![t].pc = "entries"]
          /\ UNCHANGED <<loop, wake, awaited>>
  /\ UNCHANGED <<now, dbVars, historyVars>>

ReadEntries(t) ==
  /\ At(t, "entries")
  /\ LET found == task[t].snap \cap rows IN
       task' = [task EXCEPT ![t].read = found,
                            ![t].pc = IF found = {} THEN "marking" ELSE "analyzing"]
  /\ UNCHANGED <<now, dbVars, loop, wake, awaited, historyVars>>

\* Routine logs skip the model; either way a report with a severity results.
Analyze(t) ==
  /\ At(t, "analyzing")
  /\ \E s \in Severities :
       task' = [task EXCEPT ![t].severity = s,
                            ![t].pc = IF s \in High THEN "checking" ELSE "saving"]
  /\ UNCHANGED <<now, dbVars, loop, wake, awaited, historyVars>>

BuggyRecent(r, n) == r.node = n /\ r.at # Absent /\ now - r.at < Cooldown

\* A record of an alert whose creation lies within the cooldown, as text; NULL is not.
Recent(r, n) == r.node = n /\ r.sent /\ r.at # Absent /\ now - r.at < Cooldown

CheckCooldown(t) ==
  /\ At(t, "checking")
  /\ task' = [task EXCEPT
                ![t].checked = now,
                ![t].pc = IF \E i \in DOMAIN records : Recent(records[i], t[1])
                          THEN "saving" ELSE "alerting"]
  /\ UNCHANGED <<now, dbVars, loop, wake, awaited, historyVars>>

\* Has node n been alerted within the cooldown?
Alerted(n) == lastAlert[n] # Absent /\ now - lastAlert[n] < Cooldown

\* What becomes of the mail is not looked at: email_service swallows the error.
SendAlert(t) ==
  /\ At(t, "alerting")
  /\ task' = [task EXCEPT ![t].sent = TRUE, ![t].pc = "saving"]
  /\ early' = IF Alerted(t[1]) THEN early \cup {t[1]} ELSE early
  /\ lastAlert' = [lastAlert EXCEPT ![t[1]] = now]
  /\ lost' = lost \ {t[1]}
  /\ UNCHANGED <<now, dbVars, loop, wake, awaited, overlapped, failed, crashed>>

\* alert_sent stays false.
BuggyRecordOf(t) ==
  [node |-> t[1], severity |-> task[t].severity, sent |-> FALSE,
   at |-> IF dated THEN now ELSE Absent, snap |-> task[t].snap, read |-> task[t].read,
   checked |-> task[t].checked]

\* The record a task adds.  The database dates it, if the column has a default: it has
\* none where the migration added it (main.py:80).
RecordOf(t) ==
  [node |-> t[1], severity |-> task[t].severity, sent |-> task[t].sent,
   at |-> IF dated THEN now ELSE Absent, snap |-> task[t].snap, read |-> task[t].read,
   checked |-> task[t].checked]

\* Marks whatever is unanalyzed by now.
BuggyCommit(t) ==
  /\ At(t, "saving")
  /\ records' = Append(records, RecordOf(t))
  /\ analyzed' = analyzed \cup Unanalyzed(t[1])
  /\ aid' = [b \in Batches |->
               IF b \in Unanalyzed(t[1]) THEN Len(records') ELSE aid[b]]
  /\ Return(t)
  /\ UNCHANGED <<now, dated, urls, batches, at, rows, historyVars>>

\* The record and the marks on its batches, in one transaction.
Commit(t) ==
  /\ At(t, "saving")
  /\ task[t].snap \subseteq batches
  /\ records' = Append(records, RecordOf(t))
  /\ analyzed' = analyzed \cup task[t].snap
  /\ aid' = [b \in Batches |-> IF b \in task[t].snap THEN Len(records') ELSE aid[b]]
  /\ Return(t)
  /\ UNCHANGED <<now, dated, urls, batches, at, rows, historyVars>>

\* Leaves batches without entries as they are.
BuggyMarkEmpty(t) ==
  /\ At(t, "marking")
  /\ Return(t)
  /\ UNCHANGED <<now, dbVars, historyVars>>

\* Batches without entries are marked without an analysis.
MarkEmpty(t) ==
  /\ At(t, "marking")
  /\ task[t].snap \subseteq batches
  /\ analyzed' = analyzed \cup task[t].snap
  /\ Return(t)
  /\ UNCHANGED <<now, dated, urls, batches, aid, at, rows, records, historyVars>>

\* The UPDATE of a batch that is gone misses its row: StaleDataError.
CommitStale(t) == Stale(t) /\ Raise(t)

Step(t) ==
  \/ ReadBatches(t) \/ ReadEntries(t) \/ Analyze(t) \/ CheckCooldown(t)
  \/ SendAlert(t) \/ Commit(t) \/ MarkEmpty(t) \/ CommitStale(t)

Next ==
  \/ Tick \/ Cleanup \/ StartRound \/ SkipRound \/ Crash
  \/ \E n \in Nodes : Heartbeat(n)
  \/ \E b \in Batches : Ingest(b)
  \/ \E t \in Tasks : Step(t) \/ TaskFails(t)

Spec == Init /\ [][Next]_vars

\* Time goes on, the loop wakes and time and again can read the nodes, and awaits come
\* back (the HTTP client, the mailer and SQLite have time limits).  Tasks do not fail
\* for ever: the bound Faults sees to that.
Fairness ==
  /\ WF_vars(Tick)
  /\ SF_vars(StartRound)
  /\ \A t \in Tasks : WF_vars(Step(t))

FairSpec == Spec /\ Fairness
-----------------------------------------------------------------------------
(* Properties. *)

\* A batch that is marked, and whose entries are still there, was read by the
\* analysis it points to: a batch that arrives, or entries that are purged, while
\* an analysis of the same node is under way, are never taken for analyzed.
AnalyzedWasRead ==
  \A b \in analyzed \cap rows :
    /\ aid[b] # 0
    /\ b \in records[aid[b]].read
    /\ records[aid[b]].node = NodeOf(b)

\* A high severity is not alerted only when, at the moment of the check, a record
\* of an alert of the same node lay within the cooldown.
SuppressionJustified ==
  \A i \in DOMAIN records :
    (records[i].severity \in High /\ ~records[i].sent) =>
       \E j \in 1..(i - 1) :
         /\ records[j].node = records[i].node /\ records[j].sent
         /\ records[j].at \in 0..records[i].checked
         /\ records[i].checked - records[j].at < Cooldown

\* A node is alerted again within the cooldown only if the record of the alert before
\* was lost with its task, after the mail and before the commit; or if rounds
\* overlap on the node; or if records have no date.  A restart or a failure at any
\* other point does not repeat an alert (tasks.py:85).
AlertsSpaced ==
  [][\A t \in Tasks : At(t, "alerting") /\ task'[t].sent /\ Alerted(t[1]) =>
       ~dated \/ t[1] \in lost \/ t[1] \in overlapped]_vars

\* As long as no task fails, no batch is analyzed by two committed records, even if
\* the controller is killed in the middle of an analysis.
AnalyzedOnce ==
  failed = {} =>
    \A i, j \in DOMAIN records : i # j => records[i].snap \cap records[j].snap = {}

\* Rounds overlap only after a failure.
OneTaskPerNode ==
  failed = {} =>
    \A t, u \in Tasks : t[1] = u[1] /\ task[t].pc # "free" /\ task[u].pc # "free"
                          => t = u

\* Every batch of a node with a URL is eventually marked, although rounds may overlap
\* and a task whose batch was deleted under it raises instead of marking the rest.
EveryBatchMarked ==
  \A b \in Batches :
    b \in batches /\ NodeOf(b) \in urls ~> (b \in analyzed \/ b \notin batches)

\* A batch as the outside sees it.
LifecycleOf(b) ==
  IF at[b] = Absent THEN "unknown"
  ELSE IF b \notin batches THEN "purged"
  ELSE IF b \in analyzed THEN "analyzed"
  ELSE IF b \in rows THEN "fresh" ELSE "stale"

Lifecycle == INSTANCE BatchLifecycle WITH
  Owner   <- [b \in Batches |-> NodeOf(b)],
  state   <- [b \in Batches |-> LifecycleOf(b)],
  reports <- [i \in DOMAIN records |->
                [covers |-> records[i].snap, read |-> records[i].read]],
  faulty  <- failed # {}

\* The tasks, their sessions, rounds, restarts and the cleanup together do nothing to
\* a batch that BatchLifecycle does not allow: each is analyzed at once, in one step,
\* by one report of its node that read all it still had, and only then purged.
ImplementsLifecycle == Lifecycle!Spec

\* The comment at tasks.py:114: a failure is only logged and does not affect other
\* nodes.  Without a restart, a node on which no task failed is not alerted twice
\* within the cooldown.
FailuresStayLocal == ~crashed => early \subseteq failed
=============================================================================
