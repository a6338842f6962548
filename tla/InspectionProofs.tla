-------------------------- MODULE InspectionProofs --------------------------
(***************************************************************************)
(* The safety properties of Inspection, for any number of nodes, batches   *)
(* and overlapping tasks and for every cooldown and retention.             *)
(*                                                                         *)
(* The inductive invariant has these parts: what a task knows of the       *)
(* batches it loaded (TaskInv); that marked batches were read (the         *)
(* property itself); why alerts were suppressed (JustifiedInv); that an    *)
(* alert is on record, or about to be, before the next check, or was lost  *)
(* (AlertInv); and, as long as no task failed, that a round has one task   *)
(* for each node (RoundInv) and that tasks and records share no batch      *)
(* (OnceInv).                                                              *)
(***************************************************************************)
EXTENDS Inspection, SequenceTheorems, TLAPS

Live(t)   == task[t].pc # "free"
Loaded(t) == task[t].pc \in {"marking", "analyzing", "checking", "alerting", "saving"}
Pushed    == {b \in Batches : at[b] # Absent}

\* A task holds batches of its node; those that still have entries it has read.
TaskFine(t) ==
  /\ task[t].snap \subseteq {b \in Pushed : NodeOf(b) = t[1]}
  /\ task[t].read \subseteq task[t].snap
  /\ Loaded(t) => task[t].snap \cap rows \subseteq task[t].read
  /\ task[t].pc \in {"free", "batches", "entries", "marking"} => task[t].read = {}
  /\ task[t].pc \in {"checking", "alerting"} => task[t].severity \in High
  /\ task[t].pc \in {"checking", "alerting", "saving"} =>
       task[t].severity \in Severities

TaskInv ==
  /\ batches \subseteq Pushed
  /\ \A t \in Tasks : TaskFine(t)

\* Record j tells of an alert of node n within the cooldown before instant c.
Covers(j, n, c) ==
  /\ records[j].node = n /\ records[j].sent
  /\ records[j].at \in 0..c /\ c - records[j].at < Cooldown

JustifiedInv ==
  /\ \A i \in DOMAIN records : records[i].at <= now
  /\ \A t \in Tasks :
       task[t].pc = "saving" /\ task[t].severity \in High /\ ~task[t].sent =>
         \E j \in DOMAIN records : Covers(j, t[1], task[t].checked)

RoundInv ==
  /\ loop = "sleeping" => awaited = {}
  /\ failed = {} =>
       /\ \A t \in Tasks : Live(t) => t \in awaited
       /\ \A t, u \in awaited : t[1] = u[1] => t = u

OnceInv ==
  /\ \A i \in DOMAIN records : records[i].snap \subseteq Pushed
  /\ failed = {} =>
       /\ \A i \in DOMAIN records : records[i].snap \cap batches \subseteq analyzed
       /\ \A t \in Tasks : \A i \in DOMAIN records :
            Live(t) => task[t].snap \cap records[i].snap = {}

\* The last alert of a node is on record, or its task is about to commit it.
OnRecord(n) ==
  \/ \E t \in Tasks : t[1] = n /\ task[t].pc = "saving" /\ task[t].sent
  \/ \E j \in DOMAIN records :
       records[j].node = n /\ records[j].sent /\ records[j].at >= lastAlert[n]

\* No task was started on the node while another was there: it has one at most.
Sole(n) ==
  n \notin overlapped =>
    \A t, u \in Tasks : t[1] = n /\ u[1] = n /\ Live(t) /\ Live(u) => t = u

\* With dates, the last alert can be found, unless its record was lost.
Told(n) == dated /\ lastAlert[n] # Absent => n \in lost \/ OnRecord(n)

\* Then a task alerts only if there is no alert within the cooldown.
Spaced(n) ==
  dated /\ n \notin overlapped /\ lastAlert[n] # Absent /\ n \notin lost =>
    \A t \in Tasks :
      t[1] = n /\ task[t].pc = "alerting" => now - lastAlert[n] >= Cooldown

AlertInv ==
  \A n \in Nodes : lastAlert[n] <= now /\ Sole(n) /\ Told(n) /\ Spaced(n)

IInv ==
  /\ TypeOK /\ TaskInv /\ AnalyzedWasRead
  /\ SuppressionJustified /\ JustifiedInv
  /\ RoundInv /\ OnceInv /\ AnalyzedOnce /\ AlertInv
-----------------------------------------------------------------------------
(* Types. *)

LEMMA ConstantsFact ==
  /\ Cooldown \in Nat /\ Cooldown # 0
  /\ Retention \in Nat /\ Retention # 0
  /\ Interval \in Nat /\ MaxTime \in Nat
BY Zenon, InspectionAssumption

\* A task raises: a failure of its own, or a commit that finds a batch deleted.
Broken(t) == Live(t) /\ Raise(t)

\* A step of a task, as a case for each stage of the code.
LEMMA NextCases ==
  ASSUME [Next]_vars
  PROVE  \/ Tick \/ Cleanup \/ StartRound \/ SkipRound \/ Crash \/ UNCHANGED vars
         \/ \E n \in Nodes : Heartbeat(n)
         \/ \E b \in Batches : Ingest(b)
         \/ \E t \in Tasks :
              \/ ReadBatches(t) \/ ReadEntries(t) \/ Analyze(t) \/ CheckCooldown(t)
              \/ SendAlert(t) \/ Commit(t) \/ MarkEmpty(t) \/ Broken(t)
BY DEF Next, Step, CommitStale, TaskFails, Stale, Broken, Live

LEMMA TypeInit == Init => TypeOK
<1> SUFFICES ASSUME Init PROVE TypeOK
  OBVIOUS
<1> USE ConstantsFact DEF Init, Absent
<1>1. records \in Seq(Record) /\ Len(records) = 0
  OBVIOUS
<1>2. Idle \in Task
  BY DEF Idle, Task, Stages
<1>3. crashed \in BOOLEAN /\ dated \in BOOLEAN
  OBVIOUS
<1>4. wake \in 0..MaxTime
  BY DEF Later
<1> QED
  BY <1>1, <1>2, <1>3, <1>4 DEF TypeOK

\* A free slot of a node belongs to it.
LEMMA SlotFact ==
  ASSUME NEW n \in Nodes, FreeSlots(n) # {}
  PROVE  LET t == CHOOSE u \in FreeSlots(n) : TRUE
         IN  t \in Tasks /\ t[1] = n /\ task[t].pc = "free"
BY DEF FreeSlots

LEMMA IdleFact == Idle \in Task /\ [Idle EXCEPT !.pc = "batches"] \in Task
BY DEF Idle, Task, Stages, Absent

LEMMA LaterFact == TypeOK => Later(now) \in 0..MaxTime
BY ConstantsFact DEF TypeOK, Later

LEMMA EndRoundType ==
  ASSUME TypeOK, EndRound
  PROVE  /\ awaited' \in SUBSET Tasks
         /\ loop' \in {"sleeping", "gathering"} /\ wake' \in 0..MaxTime
BY LaterFact DEF EndRound

LEMMA ReturnType ==
  ASSUME TypeOK, NEW t \in Tasks, Return(t)
  PROVE  /\ task' \in [Tasks -> Task] /\ awaited' \in SUBSET Tasks
         /\ loop' \in {"sleeping", "gathering"} /\ wake' \in 0..MaxTime
BY IdleFact, EndRoundType DEF TypeOK, Return

(* What each step does to its task. *)

\* Only task t changes, to r.
Becomes(t, r) ==
  /\ task' = [task EXCEPT ![t] = r]
  /\ r \in Task

LEMMA BecomesFact ==
  ASSUME TypeOK, NEW t \in Tasks, NEW r, Becomes(t, r)
  PROVE  /\ task' \in [Tasks -> Task]
         /\ task'[t] = r
         /\ \A u \in Tasks : u # t => task'[u] = task[u]
BY DEF Becomes, TypeOK

LEMMA ReturnEffect ==
  ASSUME TypeOK, NEW t \in Tasks, Return(t) \/ Broken(t)
  PROVE  Becomes(t, Idle)
BY IdleFact DEF Return, Broken, Raise, EndRound, Becomes

LEMMA ReadBatchesEffect ==
  ASSUME TypeOK, NEW t \in Tasks, ReadBatches(t), Unanalyzed(t[1]) # {}
  PROVE  Becomes(t, [task[t] EXCEPT !.snap = Unanalyzed(t[1]), !.pc = "entries"])
<1>1. Unanalyzed(t[1]) \in SUBSET Batches
  BY DEF Unanalyzed, TypeOK
<1>2. [task[t] EXCEPT !.snap = Unanalyzed(t[1]), !.pc = "entries"] \in Task
  BY <1>1 DEF TypeOK, Task, Stages
<1> QED
  BY <1>2 DEF ReadBatches, Becomes

LEMMA ReadEntriesEffect ==
  ASSUME TypeOK, NEW t \in Tasks, ReadEntries(t)
  PROVE  LET found == task[t].snap \cap rows IN
         Becomes(t, [task[t] EXCEPT !.read = found,
                       !.pc = IF found = {} THEN "marking" ELSE "analyzing"])
<1> DEFINE found == task[t].snap \cap rows
           new == [task[t] EXCEPT !.read = found,
                     !.pc = IF found = {} THEN "marking" ELSE "analyzing"]
<1>1. task[t] \in Task /\ found \in SUBSET Batches
  BY DEF TypeOK, Task
<1>2. new \in Task
  BY <1>1 DEF Task, Stages
<1>3. task' = [task EXCEPT ![t] = new]
  BY DEF ReadEntries
<1> QED
  BY <1>2, <1>3 DEF Becomes

LEMMA AnalyzeEffect ==
  ASSUME TypeOK, NEW t \in Tasks, Analyze(t)
  PROVE  \E s \in Severities :
           Becomes(t, [task[t] EXCEPT !.severity = s,
                         !.pc = IF s \in High THEN "checking" ELSE "saving"])
<1>1. PICK s \in Severities :
        task' = [task EXCEPT ![t] = [task[t] EXCEPT !.severity = s,
                   !.pc = IF s \in High THEN "checking" ELSE "saving"]]
  BY DEF Analyze
<1>2. [task[t] EXCEPT !.severity = s,
         !.pc = IF s \in High THEN "checking" ELSE "saving"] \in Task
  <2>1. task[t] \in Task
    BY DEF TypeOK
  <2> QED
    BY <2>1 DEF Task, Stages
<1> QED
  BY <1>1, <1>2 DEF Becomes

\* Is an alert within the cooldown on record?
Found(t) == \E i \in DOMAIN records : Recent(records[i], t[1])

LEMMA CheckEffect ==
  ASSUME TypeOK, NEW t \in Tasks, CheckCooldown(t)
  PROVE  Becomes(t, [task[t] EXCEPT !.checked = now,
                       !.pc = IF Found(t) THEN "saving" ELSE "alerting"])
<1>1. task[t] \in Task /\ now \in Nat
  BY ConstantsFact DEF TypeOK
<1>2. [task[t] EXCEPT !.checked = now,
         !.pc = IF Found(t) THEN "saving" ELSE "alerting"] \in Task
  BY <1>1 DEF Task, Stages
<1>3. task' = [task EXCEPT ![t] = [task[t] EXCEPT !.checked = now,
                 !.pc = IF Found(t) THEN "saving" ELSE "alerting"]]
  BY DEF CheckCooldown, Found
<1> QED
  BY <1>2, <1>3 DEF Becomes

LEMMA SendEffect ==
  ASSUME TypeOK, NEW t \in Tasks, SendAlert(t)
  PROVE  Becomes(t, [task[t] EXCEPT !.sent = TRUE, !.pc = "saving"])
<1>1. task[t] \in Task
  BY DEF TypeOK
<1>2. [task[t] EXCEPT !.sent = TRUE, !.pc = "saving"] \in Task
  BY <1>1 DEF Task, Stages
<1> QED
  BY <1>2 DEF SendAlert, Becomes

LEMMA TypeNext == TypeOK /\ TaskInv /\ [Next]_vars => TypeOK'
<1> SUFFICES ASSUME TypeOK, TaskInv, [Next]_vars PROVE TypeOK'
  OBVIOUS
<1> USE DEF TypeOK
<1>1. CASE Tick
  BY <1>1, ConstantsFact DEF Tick, dbVars, loopVars, historyVars
<1>2. CASE Cleanup
  BY <1>2 DEF Cleanup, loopVars, historyVars
<1>3. CASE StartRound
  <2>1. urls \subseteq Nodes /\ \A n \in urls : FreeSlots(n) # {}
    BY <1>3 DEF StartRound
  <2>2. awaited' \subseteq Tasks
    BY <1>3, <2>1, SlotFact DEF StartRound
  <2>3. task' \in [Tasks -> Task]
    BY <1>3, IdleFact DEF StartRound
  <2>4. wake' \in 0..MaxTime /\ overlapped' \subseteq Nodes
    BY <1>3, ConstantsFact DEF StartRound
  <2> QED
    BY <1>3, <2>2, <2>3, <2>4 DEF StartRound, dbVars
<1>4. CASE Crash
  <2>1. task' \in [Tasks -> Task]
    BY <1>4, IdleFact DEF Crash
  <2>2. lost' \subseteq Nodes
    BY <1>4 DEF Crash, Tasks
  <2>3. crashed' \in BOOLEAN
    BY <1>4 DEF Crash
  <2> QED
    BY <1>4, <2>1, <2>2, <2>3, EndRoundType DEF Crash, dbVars
<1>16. CASE SkipRound
  BY <1>16, LaterFact DEF SkipRound, dbVars, historyVars
<1>5. CASE UNCHANGED vars
  BY <1>5 DEF vars, dbVars, loopVars, historyVars
<1>6. ASSUME NEW n \in Nodes, Heartbeat(n) PROVE TypeOK'
  BY <1>6 DEF Heartbeat, loopVars, historyVars
<1>7. ASSUME NEW b \in Batches, Ingest(b) PROVE TypeOK'
  <2>1. now \in Nat
    BY ConstantsFact
  <2> QED
    BY <1>7, <2>1 DEF Ingest, loopVars, historyVars
<1>8. ASSUME NEW t \in Tasks, ReadBatches(t) PROVE TypeOK'
  <2>1. task' \in [Tasks -> Task] /\ awaited' \in SUBSET Tasks
        /\ loop' \in {"sleeping", "gathering"} /\ wake' \in 0..MaxTime
    <3>1. CASE Unanalyzed(t[1]) = {}
      BY <1>8, <3>1, ReturnType DEF ReadBatches
    <3>2. CASE Unanalyzed(t[1]) # {}
      BY <1>8, <3>2, ReadBatchesEffect, BecomesFact DEF ReadBatches
    <3> QED
      BY <3>1, <3>2
  <2> QED
    BY <1>8, <2>1 DEF ReadBatches, dbVars, historyVars
<1>9. ASSUME NEW t \in Tasks, ReadEntries(t) PROVE TypeOK'
  <2>1. task' \in [Tasks -> Task]
    BY <1>9, ReadEntriesEffect, BecomesFact
  <2> QED
    BY <1>9, <2>1 DEF ReadEntries, dbVars, historyVars
<1>10. ASSUME NEW t \in Tasks, Analyze(t) PROVE TypeOK'
  <2>1. task' \in [Tasks -> Task]
    BY <1>10, AnalyzeEffect, BecomesFact
  <2> QED
    BY <1>10, <2>1 DEF Analyze, dbVars, historyVars
<1>11. ASSUME NEW t \in Tasks, CheckCooldown(t) PROVE TypeOK'
  <2>1. task' \in [Tasks -> Task]
    BY <1>11, CheckEffect, BecomesFact
  <2> QED
    BY <1>11, <2>1 DEF CheckCooldown, dbVars, historyVars
<1>12. ASSUME NEW t \in Tasks, SendAlert(t) PROVE TypeOK'
  <2>1. task' \in [Tasks -> Task]
    BY <1>12, SendEffect, BecomesFact
  <2>2. /\ lastAlert' \in [Nodes -> Nat \cup {Absent}]
        /\ early' \in SUBSET Nodes /\ lost' \in SUBSET Nodes
    <3>1. t[1] \in Nodes /\ now \in Nat
      BY ConstantsFact DEF Tasks
    <3> QED
      BY <1>12, <3>1 DEF SendAlert
  <2> QED
    BY <1>12, <2>1, <2>2 DEF SendAlert, dbVars
<1>13. ASSUME NEW t \in Tasks, Commit(t) PROVE TypeOK'
  <2>1. RecordOf(t) \in Record
    <3>1. t[1] \in Nodes /\ now \in Nat
      BY ConstantsFact DEF Tasks
    <3>2. task[t].severity \in Severities /\ task[t] \in Task
      BY <1>13 DEF Commit, At, TaskInv, TaskFine
    <3> QED
      BY <3>1, <3>2 DEF RecordOf, Record, Task
  <2>2. records' \in Seq(Record) /\ Len(records') = Len(records) + 1
    BY <1>13, <2>1 DEF Commit
  <2>3. aid' \in [Batches -> 0..Len(records')]
    BY <1>13, <2>2 DEF Commit
  <2>4. analyzed' \subseteq batches'
    BY <1>13 DEF Commit
  <2> QED
    BY <1>13, <2>2, <2>3, <2>4, ReturnType DEF Commit, historyVars
<1>14. ASSUME NEW t \in Tasks, MarkEmpty(t) PROVE TypeOK'
  BY <1>14, ReturnType DEF MarkEmpty, historyVars
<1>15. ASSUME NEW t \in Tasks, Broken(t) PROVE TypeOK'
  <2>1. failed' \subseteq Nodes /\ lost' \subseteq Nodes
    BY <1>15 DEF Broken, Raise, Tasks
  <2>2. task' \in [Tasks -> Task]
    BY <1>15, IdleFact DEF Broken, Raise
  <2> QED
    BY <1>15, <2>1, <2>2, EndRoundType DEF Broken, Raise, dbVars
<1> QED
  BY <1>1, <1>2, <1>3, <1>4, <1>5, <1>6, <1>7, <1>8, <1>9, <1>10, <1>11, <1>12, <1>13,
     <1>14, <1>15, <1>16, NextCases
-----------------------------------------------------------------------------
(* What every step does to the data. *)

\* A batch is pushed once, entries and records are never added to it later.
DataKept ==
  /\ \A b \in Pushed : b \in Pushed' /\ (b \in rows' => b \in rows)
  /\ \A b \in batches' : b \in batches \/ b \in Pushed'
  /\ \A b \in batches' : b \in batches \/ b \notin Pushed

LEMMA DataNext == TypeOK /\ [Next]_vars => DataKept
<1> SUFFICES ASSUME TypeOK, [Next]_vars PROVE DataKept
  OBVIOUS
<1> USE DEF TypeOK, DataKept, Pushed
<1>1. CASE Cleanup
  BY <1>1 DEF Cleanup
<1>2. ASSUME NEW b \in Batches, Ingest(b) PROVE DataKept
  <2>1. now # Absent
    BY DEF Absent
  <2> QED
    BY <1>2, <2>1 DEF Ingest
<1>3. CASE UNCHANGED <<batches, rows, at>>
  BY <1>3
<1> QED
  BY <1>1, <1>2, <1>3, NextCases
     DEF Tick, StartRound, SkipRound, Crash, vars, dbVars, loopVars, historyVars, Heartbeat,
         ReadBatches, ReadEntries, Analyze, CheckCooldown, SendAlert, Commit,
         MarkEmpty, Broken, Raise, EndRound

\* Records are only added, and only by a commit.
LEMMA AppendFact ==
  ASSUME TypeOK, NEW r, records' = Append(records, r)
  PROVE  /\ Len(records') = Len(records) + 1
         /\ DOMAIN records' = 1..(Len(records) + 1)
         /\ DOMAIN records = 1..Len(records)
         /\ Len(records) \in Nat
         /\ records'[Len(records) + 1] = r
         /\ \A i \in DOMAIN records : i \in DOMAIN records' /\ records'[i] = records[i]
BY DEF TypeOK

\* A task that is not touched stays as it should be.
LEMMA FineKept ==
  ASSUME TypeOK, DataKept, NEW u \in Tasks, TaskFine(u), task'[u] = task[u]
  PROVE  TaskFine(u)'
<1> DEFINE k == task[u]
<1>1. task'[u] = k /\ k \in Task
  BY DEF TypeOK
<1>2. (k.snap \subseteq {b \in Pushed : NodeOf(b) = u[1]})'
  BY <1>1 DEF TaskFine, DataKept, Task
<1>3. Loaded(u)' => task'[u].snap \cap rows' \subseteq task'[u].read
  BY <1>1 DEF TaskFine, DataKept, Loaded
<1> QED
  BY <1>1, <1>2, <1>3 DEF TaskFine

LEMMA IdleFine ==
  ASSUME NEW u \in Tasks, task'[u] = Idle \/ task'[u] = [Idle EXCEPT !.pc = "batches"]
  PROVE  TaskFine(u)'
BY DEF Idle, TaskFine, Loaded

LEMMA TaskInit == Init => TaskInv
BY IdleFact DEF Init, TaskInv, TaskFine, Loaded, Idle, Pushed

LEMMA TaskNext == TypeOK /\ TaskInv /\ [Next]_vars => TaskInv'
<1> SUFFICES ASSUME TypeOK, TaskInv, [Next]_vars PROVE TaskInv'
  OBVIOUS
<1>1. DataKept
  BY DataNext
<1>2. (batches \subseteq Pushed)'
  BY <1>1 DEF DataKept, TaskInv
<1>3. \A u \in Tasks : TaskFine(u)
  BY DEF TaskInv
<1>4. SUFFICES \A u \in Tasks : TaskFine(u)'
  BY <1>2 DEF TaskInv
<1>5. CASE UNCHANGED task
  BY <1>1, <1>3, <1>5, FineKept
<1>6. CASE StartRound
  <2>1. \A u \in Tasks : task'[u] = task[u] \/ task'[u] = [Idle EXCEPT !.pc = "batches"]
    BY <1>6 DEF StartRound
  <2> QED
    BY <1>1, <1>3, <2>1, FineKept, IdleFine
<1>7. CASE Crash
  <2>1. \A u \in Tasks : task'[u] = Idle
    BY <1>7 DEF Crash, EndRound
  <2> QED
    BY <2>1, IdleFine
<1>8. ASSUME NEW t \in Tasks, NEW r, Becomes(t, r), TaskFine(t)'
      PROVE  \A u \in Tasks : TaskFine(u)'
  BY <1>1, <1>3, <1>8, FineKept, BecomesFact
<1>9. ASSUME NEW t \in Tasks, Return(t) \/ Broken(t)
      PROVE  \A u \in Tasks : TaskFine(u)'
  BY <1>8, <1>9, ReturnEffect, BecomesFact, IdleFine
<1>10. ASSUME NEW t \in Tasks, ReadBatches(t), Unanalyzed(t[1]) # {}
       PROVE  \A u \in Tasks : TaskFine(u)'
  <2> DEFINE r == [task[t] EXCEPT !.snap = Unanalyzed(t[1]), !.pc = "entries"]
  <2>1. Becomes(t, r) /\ task'[t] = r /\ task[t] \in Task
    BY <1>10, ReadBatchesEffect, BecomesFact DEF TypeOK
  <2>2. r.snap = Unanalyzed(t[1]) /\ r.pc = "entries" /\ r.read = task[t].read
    BY <2>1 DEF Task
  <2>3. task[t].read = {}
    BY <1>3, <1>10 DEF TaskFine, ReadBatches, At
  <2>4. Unanalyzed(t[1]) \subseteq {b \in Pushed' : NodeOf(b) = t[1]}
    BY <1>1 DEF Unanalyzed, TaskInv, DataKept
  <2>5. TaskFine(t)'
    BY <2>1, <2>2, <2>3, <2>4 DEF TaskFine, Loaded
  <2> QED
    BY <1>8, <2>1, <2>5
<1>11. ASSUME NEW t \in Tasks, ReadEntries(t) PROVE \A u \in Tasks : TaskFine(u)'
  <2> DEFINE found == task[t].snap \cap rows
             r == [task[t] EXCEPT !.read = found,
                     !.pc = IF found = {} THEN "marking" ELSE "analyzing"]
  <2>1. Becomes(t, r) /\ task'[t] = r /\ task[t] \in Task
    BY <1>11, ReadEntriesEffect, BecomesFact DEF TypeOK
  <2>2. r.snap = task[t].snap /\ r.read = found
        /\ r.pc \in {"marking", "analyzing"} /\ (r.pc = "marking" => found = {})
    BY <2>1 DEF Task
  <2>3. rows' = rows /\ at' = at
    BY <1>11 DEF ReadEntries, dbVars
  <2>4. TaskFine(t)'
    BY <1>3, <2>1, <2>2, <2>3 DEF TaskFine, Loaded, Pushed
  <2> QED
    BY <1>8, <2>1, <2>4
<1>12. ASSUME NEW t \in Tasks, Analyze(t) PROVE \A u \in Tasks : TaskFine(u)'
  <2>1. PICK s \in Severities :
          Becomes(t, [task[t] EXCEPT !.severity = s,
                        !.pc = IF s \in High THEN "checking" ELSE "saving"])
    BY <1>12, AnalyzeEffect
  <2> DEFINE r == [task[t] EXCEPT !.severity = s,
                     !.pc = IF s \in High THEN "checking" ELSE "saving"]
  <2>2. task'[t] = r /\ task[t] \in Task
    BY <2>1, BecomesFact DEF TypeOK
  <2>3. r.snap = task[t].snap /\ r.read = task[t].read /\ r.severity = s
        /\ r.pc \in {"checking", "saving"} /\ (r.pc = "checking" => s \in High)
    BY <2>2 DEF Task
  <2>4. rows' = rows /\ at' = at /\ task[t].pc = "analyzing"
    BY <1>12 DEF Analyze, At, dbVars
  <2>5. TaskFine(t)'
    BY <1>3, <2>2, <2>3, <2>4 DEF TaskFine, Loaded, Pushed
  <2> QED
    BY <1>8, <2>1, <2>5
<1>13. ASSUME NEW t \in Tasks, CheckCooldown(t) PROVE \A u \in Tasks : TaskFine(u)'
  <2> DEFINE r == [task[t] EXCEPT !.checked = now,
                     !.pc = IF Found(t) THEN "saving" ELSE "alerting"]
  <2>1. Becomes(t, r) /\ task'[t] = r /\ task[t] \in Task
    BY <1>13, CheckEffect, BecomesFact DEF TypeOK
  <2>2. r.snap = task[t].snap /\ r.read = task[t].read /\ r.severity = task[t].severity
        /\ r.pc \in {"saving", "alerting"}
    BY <2>1 DEF Task
  <2>3. rows' = rows /\ at' = at /\ task[t].pc = "checking"
    BY <1>13 DEF CheckCooldown, At, dbVars
  <2>4. TaskFine(t)'
    BY <1>3, <2>1, <2>2, <2>3 DEF TaskFine, Loaded, Pushed
  <2> QED
    BY <1>8, <2>1, <2>4
<1>14. ASSUME NEW t \in Tasks, SendAlert(t) PROVE \A u \in Tasks : TaskFine(u)'
  <2> DEFINE r == [task[t] EXCEPT !.sent = TRUE, !.pc = "saving"]
  <2>1. Becomes(t, r) /\ task'[t] = r /\ task[t] \in Task
    BY <1>14, SendEffect, BecomesFact DEF TypeOK
  <2>2. r.snap = task[t].snap /\ r.read = task[t].read /\ r.severity = task[t].severity
        /\ r.pc = "saving"
    BY <2>1 DEF Task
  <2>3. rows' = rows /\ at' = at /\ task[t].pc = "alerting"
    BY <1>14 DEF SendAlert, At, dbVars
  <2>4. TaskFine(t)'
    BY <1>3, <2>1, <2>2, <2>3 DEF TaskFine, Loaded, Pushed
  <2> QED
    BY <1>8, <2>1, <2>4
<1>15. ASSUME NEW t \in Tasks, ReadBatches(t), Unanalyzed(t[1]) = {}
       PROVE  Return(t)
  BY <1>15 DEF ReadBatches
<1> QED
  BY <1>5, <1>6, <1>7, <1>9, <1>10, <1>11, <1>12, <1>13, <1>14, <1>15, NextCases
     DEF Tick, Cleanup, SkipRound, vars, loopVars, Heartbeat, Ingest, Commit, MarkEmpty
-----------------------------------------------------------------------------
(* Marked batches were read. *)

LEMMA ReadNext ==
  TypeOK /\ TaskInv /\ AnalyzedWasRead /\ [Next]_vars => AnalyzedWasRead'
<1> SUFFICES ASSUME TypeOK, TaskInv, AnalyzedWasRead, [Next]_vars
             PROVE  AnalyzedWasRead'
  OBVIOUS
<1>1. DataKept
  BY DataNext
<1>2. CASE UNCHANGED <<analyzed, rows, aid, records>>
  BY <1>2 DEF AnalyzedWasRead
<1>3. CASE Cleanup
  BY <1>3 DEF Cleanup, AnalyzedWasRead
<1>4. ASSUME NEW b \in Batches, Ingest(b) PROVE AnalyzedWasRead'
  <2>1. b \notin analyzed
    BY <1>4 DEF Ingest, TypeOK, TaskInv, Pushed
  <2> QED
    BY <1>4, <2>1 DEF Ingest, AnalyzedWasRead
<1>5. ASSUME NEW t \in Tasks, MarkEmpty(t) PROVE AnalyzedWasRead'
  <2>1. task[t].snap \cap rows = {}
    BY <1>5 DEF MarkEmpty, At, TaskInv, TaskFine, Loaded
  <2> QED
    BY <1>5, <2>1 DEF MarkEmpty, AnalyzedWasRead
<1>6. ASSUME NEW t \in Tasks, Commit(t) PROVE AnalyzedWasRead'
  <2>1. /\ task[t].snap \cap rows \subseteq task[t].read
        /\ \A b \in task[t].snap : NodeOf(b) = t[1]
    BY <1>6 DEF Commit, At, TaskInv, TaskFine, Loaded
  <2> SUFFICES ASSUME NEW b \in analyzed', b \in rows'
               PROVE  aid'[b] # 0 /\ b \in records'[aid'[b]].read
                      /\ records'[aid'[b]].node = NodeOf(b)
    BY DEF AnalyzedWasRead
  <2>2. records' = Append(records, RecordOf(t)) /\ rows' = rows
        /\ analyzed' = analyzed \cup task[t].snap
        /\ \A c \in Batches : aid'[c] = IF c \in task[t].snap THEN Len(records') ELSE aid[c]
    BY <1>6 DEF Commit
  <2>3. b \in Batches
    BY <2>2, <1>6 DEF Commit, TypeOK
  <2>4. CASE b \in task[t].snap
    <3>1. aid'[b] = Len(records) + 1 /\ records'[Len(records) + 1] = RecordOf(t)
          /\ Len(records) \in Nat
      BY <2>2, <2>3, <2>4, AppendFact
    <3> QED
      BY <2>1, <2>2, <2>4, <3>1 DEF RecordOf
  <2>5. CASE b \notin task[t].snap
    <3>1. aid'[b] = aid[b] /\ b \in analyzed /\ b \in rows
      BY <2>2, <2>3, <2>5
    <3>2. aid[b] # 0 /\ b \in records[aid[b]].read /\ records[aid[b]].node = NodeOf(b)
          /\ aid[b] \in 0..Len(records)
      BY <2>3, <3>1 DEF AnalyzedWasRead, TypeOK
    <3>3. records'[aid[b]] = records[aid[b]]
      BY <2>2, <3>2, AppendFact
    <3> QED
      BY <3>1, <3>2, <3>3
  <2> QED
    BY <2>4, <2>5
<1> QED
  BY <1>2, <1>3, <1>4, <1>5, <1>6, NextCases
     DEF Tick, StartRound, SkipRound, Crash, vars, dbVars, Heartbeat, ReadBatches, ReadEntries,
         Analyze, CheckCooldown, SendAlert, Broken, Raise, EndRound
-----------------------------------------------------------------------------
(* Alerts that were not sent. *)

LEMMA RecordsNext ==
  ASSUME TypeOK, [Next]_vars
  PROVE  /\ \A i \in DOMAIN records : i \in DOMAIN records' /\ records'[i] = records[i]
         /\ now <= now'
<1>1. now' = now \/ now' = now + 1
  BY NextCases
     DEF Tick, Cleanup, StartRound, SkipRound, Crash, vars, Heartbeat, Ingest, ReadBatches,
         ReadEntries, Analyze, CheckCooldown, SendAlert, Commit, MarkEmpty, Broken,
         Raise, EndRound
<1>2. now \in Nat
  BY ConstantsFact DEF TypeOK
<1>3. ASSUME NEW t \in Tasks, Commit(t)
      PROVE  \A i \in DOMAIN records : i \in DOMAIN records' /\ records'[i] = records[i]
  BY <1>3, AppendFact DEF Commit
<1>4. \A i \in DOMAIN records : i \in DOMAIN records' /\ records'[i] = records[i]
  BY <1>3, NextCases
     DEF Tick, Cleanup, StartRound, SkipRound, Crash, vars, dbVars, Heartbeat,
         Ingest, ReadBatches,
         ReadEntries, Analyze, CheckCooldown, SendAlert, MarkEmpty, Broken, Raise, EndRound
<1> QED
  BY <1>1, <1>2, <1>4

LEMMA DatesFact ==
  TypeOK => now \in Nat /\ \A i \in DOMAIN records : records[i].at \in Nat \cup {Absent}
<1>1. TypeOK => now \in Nat /\ \A i \in DOMAIN records : records[i] \in Record
  BY ConstantsFact DEF TypeOK
<1> QED
  BY <1>1 DEF Record

\* A task that was about to save without an alert had a reason.
Justified(t) ==
  task[t].pc = "saving" /\ task[t].severity \in High /\ ~task[t].sent =>
    \E j \in DOMAIN records : Covers(j, t[1], task[t].checked)

LEMMA JustifiedKept ==
  ASSUME TypeOK, [Next]_vars, NEW u \in Tasks, Justified(u), task'[u] = task[u]
  PROVE  Justified(u)'
BY RecordsNext DEF Justified, Covers

LEMMA JustifiedStep ==
  ASSUME TypeOK, JustifiedInv, SuppressionJustified, [Next]_vars
  PROVE  \A u \in Tasks : Justified(u)'
<1>1. \A u \in Tasks : Justified(u)
  BY DEF JustifiedInv, Justified
<1>2. CASE UNCHANGED task
  BY <1>1, <1>2, JustifiedKept
<1>3. CASE StartRound
  <2>1. \A u \in Tasks : task'[u] = task[u] \/ task'[u].pc = "batches"
    BY <1>3 DEF StartRound, Idle
  <2> QED
    BY <1>1, <2>1, JustifiedKept DEF Justified
<1>4. CASE Crash
  <2>1. \A u \in Tasks : task'[u].pc = "free"
    BY <1>4 DEF Crash, EndRound, Idle
  <2> QED
    BY <2>1 DEF Justified
<1>5. ASSUME NEW t \in Tasks, NEW r, Becomes(t, r), Justified(t)'
      PROVE  \A u \in Tasks : Justified(u)'
  BY <1>1, <1>5, JustifiedKept, BecomesFact
<1>6. ASSUME NEW t \in Tasks, NEW r, Becomes(t, r), r.pc # "saving"
      PROVE  \A u \in Tasks : Justified(u)'
  BY <1>5, <1>6, BecomesFact DEF Justified
<1>7. ASSUME NEW t \in Tasks, Return(t) \/ Broken(t)
      PROVE  \A u \in Tasks : Justified(u)'
  BY <1>6, <1>7, ReturnEffect DEF Idle
<1>8. ASSUME NEW t \in Tasks, ReadBatches(t) PROVE \A u \in Tasks : Justified(u)'
  <2>1. CASE Unanalyzed(t[1]) = {}
    BY <1>7, <1>8, <2>1 DEF ReadBatches
  <2>2. CASE Unanalyzed(t[1]) # {}
    <3>1. [task[t] EXCEPT !.snap = Unanalyzed(t[1]), !.pc = "entries"].pc = "entries"
      BY DEF TypeOK, Task
    <3> QED
      BY <1>6, <1>8, <2>2, <3>1, ReadBatchesEffect
  <2> QED
    BY <2>1, <2>2
<1>9. ASSUME NEW t \in Tasks, ReadEntries(t) PROVE \A u \in Tasks : Justified(u)'
  <2> DEFINE found == task[t].snap \cap rows
             r == [task[t] EXCEPT !.read = found,
                     !.pc = IF found = {} THEN "marking" ELSE "analyzing"]
  <2>1. Becomes(t, r)
    BY <1>9, ReadEntriesEffect
  <2>2. r.pc # "saving"
    BY DEF TypeOK, Task
  <2> QED
    BY <1>6, <2>1, <2>2
<1>10. ASSUME NEW t \in Tasks, Analyze(t) PROVE \A u \in Tasks : Justified(u)'
  <2>1. PICK s \in Severities :
          Becomes(t, [task[t] EXCEPT !.severity = s,
                        !.pc = IF s \in High THEN "checking" ELSE "saving"])
    BY <1>10, AnalyzeEffect
  <2> DEFINE r == [task[t] EXCEPT !.severity = s,
                     !.pc = IF s \in High THEN "checking" ELSE "saving"]
  <2>2. task'[t] = r /\ task[t] \in Task
    BY <2>1, BecomesFact DEF TypeOK
  <2>3. r.severity = s /\ (r.pc = "saving" => s \notin High)
    BY <2>2 DEF Task
  <2>4. Justified(t)'
    BY <2>2, <2>3 DEF Justified
  <2> QED
    BY <1>5, <2>1, <2>4
<1>11. ASSUME NEW t \in Tasks, CheckCooldown(t) PROVE \A u \in Tasks : Justified(u)'
  <2> DEFINE r == [task[t] EXCEPT !.checked = now,
                     !.pc = IF Found(t) THEN "saving" ELSE "alerting"]
  <2>1. Becomes(t, r) /\ task'[t] = r /\ task[t] \in Task
    BY <1>11, CheckEffect, BecomesFact DEF TypeOK
  <2>2. r.checked = now /\ (r.pc = "saving" => Found(t))
    BY <2>1 DEF Task
  <2>3. records' = records
    BY <1>11 DEF CheckCooldown, dbVars
  <2>4. Found(t) => \E j \in DOMAIN records : Covers(j, t[1], now)
    BY DatesFact DEF Found, Recent, Covers, JustifiedInv
  <2>5. Found(t) => (\E j \in DOMAIN records : Covers(j, t[1], task[t].checked))'
    BY <2>1, <2>2, <2>3, <2>4 DEF Covers
  <2>6. Justified(t)'
    BY <2>1, <2>2, <2>5 DEF Justified
  <2> QED
    BY <1>5, <2>1, <2>6
<1>12. ASSUME NEW t \in Tasks, SendAlert(t) PROVE \A u \in Tasks : Justified(u)'
  <2>1. Becomes(t, [task[t] EXCEPT !.sent = TRUE, !.pc = "saving"])
        /\ task'[t] = [task[t] EXCEPT !.sent = TRUE, !.pc = "saving"]
    BY <1>12, SendEffect, BecomesFact
  <2>2. task'[t].sent = TRUE
    BY <2>1 DEF TypeOK, Task
  <2>3. Justified(t)'
    BY <2>2 DEF Justified
  <2> QED
    BY <1>5, <2>1, <2>3
<1> QED
  BY <1>2, <1>3, <1>4, <1>7, <1>8, <1>9, <1>10, <1>11, <1>12, NextCases
     DEF Tick, Cleanup, SkipRound, vars, loopVars, Heartbeat, Ingest, Commit, MarkEmpty

LEMMA JustifiedNext ==
  TypeOK /\ TaskInv /\ JustifiedInv /\ SuppressionJustified /\ [Next]_vars
    => JustifiedInv' /\ SuppressionJustified'
<1> SUFFICES ASSUME TypeOK, TaskInv, JustifiedInv, SuppressionJustified, [Next]_vars
             PROVE  JustifiedInv' /\ SuppressionJustified'
  OBVIOUS
<1>1. \A u \in Tasks : Justified(u)'
  BY JustifiedStep
<1>2. CASE UNCHANGED records
  <2>1. (\A i \in DOMAIN records : records[i].at <= now)'
    <3>1. now \in Nat /\ now' \in Nat /\ now <= now'
      BY TypeNext, RecordsNext, ConstantsFact DEF TypeOK
    <3>2. \A i \in DOMAIN records : records[i] \in Record
      BY DEF TypeOK
    <3>3. \A i \in DOMAIN records : records[i].at \in Int /\ records[i].at <= now
      BY <3>2 DEF JustifiedInv, Record, Absent
    <3> QED
      BY <1>2, <3>1, <3>3
  <2> QED
    BY <1>1, <1>2, <2>1 DEF JustifiedInv, Justified, SuppressionJustified
<1>3. ASSUME NEW t \in Tasks, Commit(t) PROVE JustifiedInv' /\ SuppressionJustified'
  <2>1. records' = Append(records, RecordOf(t)) /\ now' = now /\ task[t].pc = "saving"
    BY <1>3 DEF Commit, At
  <2>2. (\A i \in DOMAIN records : records[i].at <= now)'
    BY <2>1, AppendFact, ConstantsFact DEF JustifiedInv, RecordOf, TypeOK, Absent
  <2>3. Justified(t)
    BY DEF JustifiedInv, Justified
  <2>4. SuppressionJustified'
    <3> SUFFICES ASSUME NEW i \in DOMAIN records', records'[i].severity \in High,
                        ~records'[i].sent
                 PROVE  \E j \in 1..(i - 1) :
                          /\ records'[j].node = records'[i].node /\ records'[j].sent
                          /\ records'[j].at \in 0..records'[i].checked
                          /\ records'[i].checked - records'[j].at < Cooldown
      BY DEF SuppressionJustified
    <3>1. CASE i \in DOMAIN records
      <4>1. records'[i] = records[i] /\ i \in 1..Len(records) /\ Len(records) \in Nat
        BY <2>1, <3>1, AppendFact
      <4>2. PICK j \in 1..(i - 1) :
              /\ records[j].node = records[i].node /\ records[j].sent
              /\ records[j].at \in 0..records[i].checked
              /\ records[i].checked - records[j].at < Cooldown
        BY <3>1, <4>1 DEF SuppressionJustified
      <4>3. records'[j] = records[j]
        BY <2>1, <4>1, AppendFact
      <4> QED
        BY <4>1, <4>2, <4>3
    <3>2. CASE i = Len(records) + 1
      <4>1. records'[i] = RecordOf(t) /\ DOMAIN records = 1..Len(records)
            /\ Len(records) \in Nat
        BY <2>1, <3>2, AppendFact
      <4>2. PICK j \in DOMAIN records : Covers(j, t[1], task[t].checked)
        BY <2>1, <2>3, <4>1 DEF Justified, RecordOf
      <4>3. records'[j] = records[j] /\ j \in 1..(i - 1)
        BY <2>1, <3>2, <4>1, AppendFact
      <4> QED
        BY <4>1, <4>2, <4>3 DEF Covers, RecordOf
    <3>3. DOMAIN records' = 1..(Len(records) + 1) /\ DOMAIN records = 1..Len(records)
          /\ Len(records) \in Nat
      BY <2>1, AppendFact
    <3> QED
      BY <3>1, <3>2, <3>3
  <2> QED
    BY <1>1, <2>2, <2>4 DEF JustifiedInv, Justified
<1> QED
  BY <1>2, <1>3, NextCases
     DEF Tick, Cleanup, StartRound, SkipRound, Crash, vars, dbVars, Heartbeat,
         Ingest, ReadBatches,
         ReadEntries, Analyze, CheckCooldown, SendAlert, MarkEmpty, Broken, Raise, EndRound
-----------------------------------------------------------------------------
(* Rounds. *)

\* A task takes a step inside a round.
Works(t) ==
  ReadEntries(t) \/ Analyze(t) \/ CheckCooldown(t) \/ SendAlert(t)
    \/ (ReadBatches(t) /\ Unanalyzed(t[1]) # {})

LEMMA WorksFact ==
  ASSUME TypeOK, NEW t \in Tasks, Works(t)
  PROVE  /\ \E r \in Task : Becomes(t, r)
         /\ Live(t)
         /\ UNCHANGED <<now, dbVars, loop, awaited, failed, crashed>>
<1>1. \E r \in Task : Becomes(t, r)
  BY ReadBatchesEffect, ReadEntriesEffect, AnalyzeEffect, CheckEffect, SendEffect
     DEF Works, Becomes
<1>2. Live(t)
  BY DEF Works, Live, ReadEntries, Analyze, CheckCooldown, SendAlert, ReadBatches, At
<1>3. UNCHANGED <<now, dbVars, loop, awaited, failed, crashed>>
  BY DEF Works, ReadEntries, Analyze, CheckCooldown, SendAlert, ReadBatches, dbVars,
         historyVars
<1> QED
  BY <1>1, <1>2, <1>3

LEMMA TaskSteps ==
  ASSUME [Next]_vars
  PROVE  \/ UNCHANGED <<loop, awaited, task, historyVars, records, analyzed, batches>>
         \/ Cleanup \/ StartRound \/ Crash
         \/ \E b \in Batches : Ingest(b)
         \/ \E t \in Tasks :
              \/ Works(t) \/ Commit(t) \/ MarkEmpty(t) \/ Broken(t)
              \/ ReadBatches(t) /\ Return(t)
BY NextCases
   DEF Works, ReadBatches, Tick, Heartbeat, SkipRound, vars, dbVars, loopVars

LEMMA RoundNext == TypeOK /\ RoundInv /\ [Next]_vars => RoundInv'
<1> SUFFICES ASSUME TypeOK, RoundInv, [Next]_vars PROVE RoundInv'
  OBVIOUS
<1> USE DEF RoundInv, Live
<1>1. CASE UNCHANGED <<loop, awaited, task, failed>>
  BY <1>1 DEF loopVars
<1>2. CASE StartRound
  <2>1. \A n \in urls : FreeSlots(n) # {} /\ n \in Nodes
    BY <1>2 DEF StartRound, TypeOK
  <2>2. \A n \in urls : (CHOOSE u \in FreeSlots(n) : TRUE)[1] = n
    BY <2>1, SlotFact
  <2>3. \A t, u \in awaited' : t[1] = u[1] => t = u
    <3> SUFFICES ASSUME NEW t \in awaited', NEW u \in awaited', t[1] = u[1]
                 PROVE  t = u
      OBVIOUS
    <3> DEFINE Slot(n) == CHOOSE v \in FreeSlots(n) : TRUE
    <3>1. awaited' = {Slot(n) : n \in urls}
      BY <1>2 DEF StartRound
    <3>2. PICK n \in urls, m \in urls : t = Slot(n) /\ u = Slot(m)
      BY <3>1
    <3>3. Slot(n)[1] = n /\ Slot(m)[1] = m
      BY <2>2
    <3> HIDE DEF Slot
    <3> QED
      BY <3>2, <3>3
  <2>4. \A t \in Tasks : failed = {} /\ task'[t].pc # "free" => t \in awaited'
    BY <1>2 DEF StartRound, Awake, TypeOK
  <2> QED
    BY <1>2, <2>3, <2>4 DEF StartRound, historyVars
<1>3. CASE Crash
  BY <1>3 DEF Crash, EndRound, Idle
<1>4. ASSUME NEW t \in Tasks, Works(t) PROVE RoundInv'
  <2>1. PICK r \in Task : Becomes(t, r)
    BY <1>4, WorksFact
  <2>2. \A u \in Tasks : task'[u].pc # "free" => task[u].pc # "free"
    BY <1>4, <2>1, WorksFact, BecomesFact
  <2> QED
    BY <1>4, <2>2, WorksFact
<1>5. ASSUME NEW t \in Tasks, Return(t), UNCHANGED failed PROVE RoundInv'
  <2>1. \A u \in Tasks : task'[u].pc # "free" => u # t /\ task[u].pc # "free"
    BY <1>5, ReturnEffect, BecomesFact DEF Idle
  <2> QED
    BY <1>5, <2>1 DEF Return, EndRound
<1>6. ASSUME NEW t \in Tasks, Broken(t) PROVE RoundInv'
  BY <1>6 DEF Broken, Raise, EndRound
<1> QED
  BY <1>1, <1>2, <1>3, <1>4, <1>5, <1>6, TaskSteps
     DEF Cleanup, Ingest, Commit, MarkEmpty, ReadBatches, loopVars, historyVars

\* With no failure, a node has one task.
LEMMA OneTask == TypeOK /\ RoundInv => OneTaskPerNode
BY DEF RoundInv, Live, OneTaskPerNode
-----------------------------------------------------------------------------
(* Batches are analyzed once. *)

LEMMA OnceNext ==
  TypeOK /\ TaskInv /\ RoundInv /\ OnceInv /\ AnalyzedOnce /\ [Next]_vars
    => OnceInv' /\ AnalyzedOnce'
<1> SUFFICES ASSUME TypeOK, TaskInv, RoundInv, OnceInv, AnalyzedOnce, [Next]_vars
             PROVE  OnceInv' /\ AnalyzedOnce'
  OBVIOUS
<1>1. DataKept
  BY DataNext
<1>2. (\A i \in DOMAIN records : records[i].snap \subseteq Pushed)'
  <2>1. CASE UNCHANGED records
    BY <1>1, <2>1 DEF OnceInv, DataKept
  <2>2. ASSUME NEW t \in Tasks, Commit(t)
        PROVE  (\A i \in DOMAIN records : records[i].snap \subseteq Pushed)'
    <3>1. Pushed' = Pushed
      BY <2>2 DEF Commit, Pushed
    <3>2. RecordOf(t).snap \subseteq Pushed
      BY DEF RecordOf, TaskInv, TaskFine
    <3>3. records' = Append(records, RecordOf(t))
      BY <2>2 DEF Commit
    <3>4. \A i \in DOMAIN records' : i \in DOMAIN records \/ i = Len(records) + 1
      BY <3>3, AppendFact
    <3> QED
      BY <3>1, <3>2, <3>3, <3>4, AppendFact DEF OnceInv
  <2> QED
    BY <2>1, <2>2, TaskSteps
       DEF StartRound, SkipRound, Crash, Cleanup, Ingest, MarkEmpty, Broken, Raise,
           EndRound, ReadBatches, dbVars,
           Works, ReadEntries, Analyze, CheckCooldown, SendAlert
<1>3. CASE failed' # {}
  BY <1>2, <1>3 DEF OnceInv, AnalyzedOnce
<1> SUFFICES ASSUME failed' = {} PROVE OnceInv' /\ AnalyzedOnce'
  BY <1>3
<1> DEFINE Marked == \A i \in DOMAIN records : records[i].snap \cap batches \subseteq analyzed
           Apart  == \A t \in Tasks : \A i \in DOMAIN records :
                       Live(t) => task[t].snap \cap records[i].snap = {}
<1>4. failed = {} /\ ~\E t \in Tasks : Broken(t)
  BY NextCases
     DEF Tick, Cleanup, StartRound, SkipRound, Crash, vars, historyVars, Heartbeat, Ingest,
         ReadBatches, ReadEntries, Analyze, CheckCooldown, SendAlert, Commit, MarkEmpty,
         Broken, Raise, EndRound
<1>5. Marked /\ Apart
  BY <1>4 DEF OnceInv
<1>6. SUFFICES Marked' /\ Apart' /\ AnalyzedOnce'
  BY <1>2 DEF OnceInv
<1>7. ASSUME UNCHANGED records, Marked', Apart' PROVE Marked' /\ Apart' /\ AnalyzedOnce'
  BY <1>4, <1>7 DEF AnalyzedOnce
<1>8. CASE UNCHANGED <<loop, awaited, task, historyVars, records, analyzed, batches>>
  BY <1>5, <1>7, <1>8 DEF loopVars, Live
<1>9. CASE Cleanup
  <2>1. Marked' /\ Apart'
    BY <1>5, <1>9 DEF Cleanup, loopVars, Live, Expired
  <2> QED
    BY <1>7, <1>9, <2>1 DEF Cleanup
<1>10. CASE StartRound \/ Crash
  <2>1. \A t \in Tasks : task'[t] = task[t] \/ task'[t].snap = {}
    <3>1. Idle.snap = {} /\ [Idle EXCEPT !.pc = "batches"].snap = {}
      BY DEF Idle
    <3>2. \A t \in Tasks :
            task'[t] \in {task[t], Idle, [Idle EXCEPT !.pc = "batches"]}
      BY <1>10 DEF StartRound, SkipRound, Crash, EndRound
    <3> QED
      BY <3>1, <3>2
  <2>2. UNCHANGED <<records, analyzed, batches>>
    BY <1>10 DEF StartRound, SkipRound, Crash, EndRound, dbVars
  <2>3. Marked' /\ Apart'
    BY <1>5, <2>1, <2>2 DEF Live
  <2> QED
    BY <1>7, <2>2, <2>3
<1>11. ASSUME NEW b \in Batches, Ingest(b) PROVE Marked' /\ Apart' /\ AnalyzedOnce'
  <2>1. b \notin Pushed
    BY <1>11 DEF Ingest, Pushed
  <2>2. Marked' /\ Apart'
    BY <1>5, <1>11, <2>1 DEF Ingest, loopVars, Live, OnceInv
  <2> QED
    BY <1>7, <1>11, <2>2 DEF Ingest
<1>12. ASSUME NEW t \in Tasks, Works(t) PROVE Marked' /\ Apart' /\ AnalyzedOnce'
  <2>1. UNCHANGED <<records, analyzed, batches>> /\ Live(t)
    BY <1>12, WorksFact DEF dbVars
  <2>2. task'[t].snap = task[t].snap \/ task'[t].snap = Unanalyzed(t[1])
    <3>1. task[t] \in Task
      BY DEF TypeOK
    <3>2. CASE ReadEntries(t)
      <4>1. task'[t] = [task[t] EXCEPT !.read = task[t].snap \cap rows,
              !.pc = IF task[t].snap \cap rows = {} THEN "marking" ELSE "analyzing"]
        BY <3>2, ReadEntriesEffect, BecomesFact
      <4> QED
        BY <3>1, <4>1 DEF Task
    <3>3. CASE Analyze(t)
      <4>1. PICK s \in Severities :
              task'[t] = [task[t] EXCEPT !.severity = s,
                            !.pc = IF s \in High THEN "checking" ELSE "saving"]
        BY <3>3, AnalyzeEffect, BecomesFact
      <4> QED
        BY <3>1, <4>1 DEF Task
    <3>4. CASE CheckCooldown(t)
      <4>1. task'[t] = [task[t] EXCEPT !.checked = now,
                          !.pc = IF Found(t) THEN "saving" ELSE "alerting"]
        BY <3>4, CheckEffect, BecomesFact
      <4> QED
        BY <3>1, <4>1 DEF Task
    <3>5. CASE SendAlert(t)
      <4>1. task'[t] = [task[t] EXCEPT !.sent = TRUE, !.pc = "saving"]
        BY <3>5, SendEffect, BecomesFact
      <4> QED
        BY <3>1, <4>1 DEF Task
    <3>6. CASE ReadBatches(t) /\ Unanalyzed(t[1]) # {}
      <4>1. task'[t] = [task[t] EXCEPT !.snap = Unanalyzed(t[1]), !.pc = "entries"]
        BY <3>6, ReadBatchesEffect, BecomesFact
      <4> QED
        BY <3>1, <4>1 DEF Task
    <3> QED
      BY <1>12, <3>2, <3>3, <3>4, <3>5, <3>6 DEF Works
  <2>3. \A i \in DOMAIN records : Unanalyzed(t[1]) \cap records[i].snap = {}
    BY <1>5 DEF Unanalyzed
  <2>4. \A i \in DOMAIN records : task'[t].snap \cap records[i].snap = {}
    BY <1>5, <2>1, <2>2, <2>3
  <2>5. \A u \in Tasks : u # t => task'[u] = task[u]
    BY <1>12, WorksFact, BecomesFact
  <2>6. Marked' /\ Apart'
    BY <1>5, <2>1, <2>4, <2>5 DEF Live
  <2> QED
    BY <1>7, <2>1, <2>6
<1>13. ASSUME NEW t \in Tasks, Return(t), UNCHANGED <<records, batches>>,
              analyzed \subseteq analyzed'
       PROVE  Marked' /\ Apart' /\ AnalyzedOnce'
  <2>1. \A u \in Tasks : u # t => task'[u] = task[u]
    BY <1>13, ReturnEffect, BecomesFact
  <2>2. task'[t].pc = "free"
    BY <1>13, ReturnEffect, BecomesFact DEF Idle
  <2>3. Marked' /\ Apart'
    BY <1>5, <1>13, <2>1, <2>2 DEF Live
  <2> QED
    BY <1>7, <1>13, <2>3
<1>14. ASSUME NEW t \in Tasks, Commit(t) PROVE Marked' /\ Apart' /\ AnalyzedOnce'
  <2>1. /\ records' = Append(records, RecordOf(t)) /\ RecordOf(t).snap = task[t].snap
        /\ analyzed' = analyzed \cup task[t].snap /\ batches' = batches
        /\ Return(t) /\ Live(t)
    BY <1>14 DEF Commit, RecordOf, At, Live
  <2>2. \A i \in DOMAIN records' :
          \/ i \in DOMAIN records /\ records'[i].snap = records[i].snap
          \/ i = Len(records) + 1 /\ records'[i].snap = task[t].snap
    BY <2>1, AppendFact
  <2>3. \A u \in Tasks : u # t /\ Live(u) => task[u].snap \cap task[t].snap = {}
    <3>1. \A u \in Tasks : u # t /\ Live(u) => u[1] # t[1]
      BY <1>4, <2>1 DEF RoundInv
    <3> QED
      BY <3>1 DEF TaskInv, TaskFine
  <2>4. /\ \A u \in Tasks : u # t => task'[u] = task[u]
        /\ task'[t].pc = "free"
    BY <2>1, ReturnEffect, BecomesFact DEF Idle
  <2>5. Marked'
    BY <1>5, <2>1, <2>2
  <2>6. Apart'
    BY <1>5, <2>2, <2>3, <2>4 DEF Live
  <2>7. \A i \in DOMAIN records : task[t].snap \cap records[i].snap = {}
    BY <1>5, <2>1
  <2>8. AnalyzedOnce'
    BY <1>4, <2>2, <2>7 DEF AnalyzedOnce
  <2> QED
    BY <2>5, <2>6, <2>8
<1> QED
  BY <1>4, <1>8, <1>9, <1>10, <1>11, <1>12, <1>13, <1>14, TaskSteps
     DEF MarkEmpty, ReadBatches, dbVars
-----------------------------------------------------------------------------
(* Alerts are spaced. *)

\* The clock is a number, and so is the time of an alert: arithmetic works.
LEMMA TimesFact ==
  TypeOK => /\ now \in Nat /\ Cooldown \in Nat /\ Cooldown # 0
            /\ \A n \in Nodes : lastAlert[n] \in Nat \cup {Absent}
            /\ \A i \in DOMAIN records : records[i].at \in Nat \cup {Absent}
BY ConstantsFact, DatesFact DEF TypeOK

\* Whether records are dated never changes, and the clock goes on.
LEMMA ClockNext ==
  [Next]_vars => dated' = dated /\ (now' = now \/ now' = now + 1)
BY NextCases
   DEF Tick, Cleanup, StartRound, SkipRound, Crash, vars, dbVars, Heartbeat, Ingest,
       ReadBatches, ReadEntries, Analyze, CheckCooldown, SendAlert, Commit, MarkEmpty,
       Broken, Raise

Alerts(n) == lastAlert[n] <= now /\ Sole(n) /\ Told(n) /\ Spaced(n)

\* As long as neither a node's alerts nor its tasks change, nothing is lost.
LEMMA AlertKept ==
  ASSUME TypeOK, [Next]_vars, NEW n \in Nodes, Alerts(n),
         lastAlert'[n] = lastAlert[n], n \in lost <=> n \in lost',
         n \in overlapped => n \in overlapped',
         \A t \in Tasks : t[1] = n => task'[t] = task[t]
  PROVE  Alerts(n)'
<1>1. /\ now \in Nat /\ (now' = now \/ now' = now + 1) /\ dated' = dated
      /\ lastAlert[n] \in Int /\ Cooldown \in Nat
  BY ClockNext, TimesFact DEF Absent
<1>2. Told(n)'
  BY <1>1, RecordsNext DEF Alerts, Told, OnRecord
<1>3. Sole(n)'
  BY DEF Alerts, Sole, Live
<1>4. Spaced(n)'
  BY <1>1 DEF Alerts, Spaced
<1> QED
  BY <1>1, <1>2, <1>3, <1>4 DEF Alerts

\* The other tasks of the node of a live task are idle.
LEMMA Alone ==
  ASSUME NEW t \in Tasks, Live(t), Sole(t[1]), t[1] \notin overlapped
  PROVE  \A u \in Tasks : u[1] = t[1] /\ u # t => task[u].pc = "free"
BY DEF Sole, Live

\* A step of task t that does not alert and does not get ready to.
LEMMA QuietStep ==
  ASSUME TypeOK, [Next]_vars, NEW t \in Tasks, NEW r, Becomes(t, r), Live(t),
         Alerts(t[1]), UNCHANGED <<now, lastAlert, overlapped>>,
         lost \subseteq lost',
         task[t].pc = "saving" /\ task[t].sent => Told(t[1])',
         r.pc # "alerting"
  PROVE  Alerts(t[1])'
<1>1. /\ t[1] \in Nodes /\ dated' = dated /\ task'[t] = r
      /\ \A u \in Tasks : u # t => task'[u] = task[u]
  BY BecomesFact, ClockNext DEF Tasks
<1>2. Told(t[1])'
  <2>1. CASE task[t].pc = "saving" /\ task[t].sent
    BY <2>1
  <2>2. CASE ~(task[t].pc = "saving" /\ task[t].sent)
    BY <1>1, <2>2, RecordsNext DEF Alerts, Told, OnRecord
  <2> QED
    BY <2>1, <2>2
<1>3. Sole(t[1])'
  BY <1>1 DEF Alerts, Sole, Live
<1>4. Spaced(t[1])'
  BY <1>1 DEF Alerts, Spaced
<1> QED
  BY <1>2, <1>3, <1>4 DEF Alerts

\* A step of task t leaves the alerts of the other nodes alone.
LEMMA OthersKept ==
  ASSUME TypeOK, [Next]_vars, AlertInv, NEW t \in Tasks, NEW r, Becomes(t, r),
         \A n \in Nodes \ {t[1]} :
           /\ lastAlert'[n] = lastAlert[n] /\ (n \in lost <=> n \in lost')
           /\ n \in overlapped => n \in overlapped',
         Alerts(t[1])'
  PROVE  AlertInv'
<1>1. \A u \in Tasks : u # t => task'[u] = task[u]
  BY BecomesFact
<1>2. \A n \in Nodes \ {t[1]} : Alerts(n)'
  BY <1>1, AlertKept DEF AlertInv, Alerts
<1> QED
  BY <1>2 DEF AlertInv, Alerts

LEMMA AlertStart ==
  ASSUME TypeOK, [Next]_vars, AlertInv, StartRound
  PROVE  AlertInv'
<1>1. \A n \in urls : FreeSlots(n) # {} /\ n \in Nodes
  BY DEF StartRound, TypeOK
<1>2. /\ \A t \in awaited' : t \in Tasks /\ task[t].pc = "free" /\ t[1] \in urls
      /\ \A t, u \in awaited' : t[1] = u[1] => t = u
  <2> DEFINE Slot(n) == CHOOSE v \in FreeSlots(n) : TRUE
  <2>1. awaited' = {Slot(n) : n \in urls}
    BY DEF StartRound
  <2>2. \A n \in urls : Slot(n) \in Tasks /\ Slot(n)[1] = n /\ task[Slot(n)].pc = "free"
    BY <1>1, SlotFact
  <2> HIDE DEF Slot
  <2> QED
    BY <2>1, <2>2
<1>3. \A t \in Tasks : IF t \in awaited' THEN task'[t].pc = "batches"
                                       ELSE task'[t] = task[t]
  <2>1. [Idle EXCEPT !.pc = "batches"].pc = "batches"
    BY DEF Idle
  <2> QED
    BY <2>1 DEF StartRound, TypeOK
<1>4. /\ UNCHANGED <<now, dated, records, lastAlert, lost>>
      /\ overlapped' = {n \in overlapped \cup urls : n \notin urls \/ Working(n) # {}}
  BY DEF StartRound, dbVars
<1> SUFFICES ASSUME NEW n \in Nodes PROVE Alerts(n)'
  BY DEF AlertInv, Alerts
<1>5. Alerts(n)
  BY DEF AlertInv, Alerts
<1>6. CASE n \notin urls
  BY <1>2, <1>3, <1>4, <1>5, <1>6, AlertKept
<1>7. CASE n \in urls
  <2>1. Told(n)'
    BY <1>2, <1>3, <1>4, <1>5 DEF Alerts, Told, OnRecord
  <2>2. n \notin overlapped' => \A t \in Tasks : t[1] = n => task[t].pc = "free"
    BY <1>4, <1>7 DEF Working
  <2>3. Sole(n)'
    BY <1>2, <1>3, <2>2 DEF Sole, Live
  <2>4. Spaced(n)'
    BY <1>3, <2>2 DEF Spaced
  <2> QED
    BY <1>4, <1>5, <2>1, <2>3, <2>4 DEF Alerts
<1> QED
  BY <1>6, <1>7

LEMMA AlertCrash ==
  ASSUME TypeOK, [Next]_vars, AlertInv, Crash
  PROVE  AlertInv'
<1>1. /\ \A t \in Tasks : task'[t].pc = "free"
      /\ UNCHANGED <<now, dated, records, lastAlert, overlapped>>
      /\ \A t \in Tasks : task[t].sent => t[1] \in lost'
      /\ lost \subseteq lost'
  BY DEF Crash, Idle, dbVars
<1> SUFFICES ASSUME NEW n \in Nodes PROVE Alerts(n)'
  BY DEF AlertInv, Alerts
<1>2. Alerts(n)
  BY DEF AlertInv, Alerts
<1>3. Told(n)'
  BY <1>1, <1>2 DEF Alerts, Told, OnRecord
<1>4. Sole(n)' /\ Spaced(n)'
  BY <1>1 DEF Sole, Spaced, Live
<1> QED
  BY <1>1, <1>2, <1>3, <1>4 DEF Alerts

LEMMA AlertCheck ==
  ASSUME TypeOK, [Next]_vars, AlertInv, NEW t \in Tasks, CheckCooldown(t)
  PROVE  AlertInv'
<1> DEFINE r == [task[t] EXCEPT !.checked = now,
                   !.pc = IF Found(t) THEN "saving" ELSE "alerting"]
<1>1. /\ Becomes(t, r) /\ task'[t] = r /\ task[t] \in Task
      /\ \A u \in Tasks : u # t => task'[u] = task[u]
  BY CheckEffect, BecomesFact DEF TypeOK
<1>2. r.pc = (IF Found(t) THEN "saving" ELSE "alerting") /\ r.sent = task[t].sent
  BY <1>1 DEF Task
<1>3. /\ UNCHANGED <<now, dated, records, lastAlert, lost, overlapped>>
      /\ task[t].pc = "checking" /\ Live(t) /\ t[1] \in Nodes
  BY DEF CheckCooldown, historyVars, dbVars, At, Live, Tasks
<1>4. Alerts(t[1])
  BY <1>3 DEF AlertInv, Alerts
<1> HIDE DEF r
<1>5. CASE Found(t)
  <2>1. Alerts(t[1])'
    BY <1>1, <1>2, <1>3, <1>4, <1>5, QuietStep
  <2> QED
    BY <1>1, <1>3, <2>1, OthersKept
<1>6. CASE ~Found(t)
  <2>1. Told(t[1])'
    BY <1>1, <1>3, <1>4 DEF Alerts, Told, OnRecord
  <2>2. Sole(t[1])'
    BY <1>1, <1>3, <1>4 DEF Alerts, Sole, Live
  <2>3. Spaced(t[1])'
    <3> SUFFICES ASSUME dated, t[1] \notin overlapped, lastAlert[t[1]] # Absent,
                        t[1] \notin lost
                 PROVE  now - lastAlert[t[1]] >= Cooldown
      BY <1>3 DEF Spaced
    <3>1. \A u \in Tasks : u[1] = t[1] => task[u].pc # "saving"
      BY <1>3, <1>4, Alone DEF Alerts
    <3>2. PICK j \in DOMAIN records : records[j].node = t[1] /\ records[j].sent
                                      /\ records[j].at >= lastAlert[t[1]]
      BY <1>4, <3>1 DEF Alerts, Told, OnRecord
    <3>3. /\ now \in Nat /\ Cooldown \in Nat /\ lastAlert[t[1]] \in Nat
          /\ records[j].at \in Nat \cup {Absent}
      BY <1>3, <3>2, TimesFact
    <3>4. records[j].at \in Nat /\ records[j].at # Absent
      BY <3>2, <3>3 DEF Absent
    <3>5. ~(now - records[j].at < Cooldown)
      BY <1>6, <3>2, <3>4 DEF Found, Recent
    <3> QED
      BY <3>2, <3>3, <3>4, <3>5
  <2>4. Alerts(t[1])'
    BY <1>3, <1>4, <2>1, <2>2, <2>3 DEF Alerts
  <2> QED
    BY <1>1, <1>3, <2>4, OthersKept
<1> QED
  BY <1>5, <1>6

LEMMA AlertSend ==
  ASSUME TypeOK, [Next]_vars, AlertInv, NEW t \in Tasks, SendAlert(t)
  PROVE  AlertInv'
<1> DEFINE r == [task[t] EXCEPT !.sent = TRUE, !.pc = "saving"]
<1>1. /\ Becomes(t, r) /\ task'[t] = r /\ task[t] \in Task
      /\ \A u \in Tasks : u # t => task'[u] = task[u]
  BY SendEffect, BecomesFact DEF TypeOK
<1>2. r.pc = "saving" /\ r.sent
  BY <1>1 DEF Task
<1>3. /\ task[t].pc = "alerting" /\ Live(t) /\ t[1] \in Nodes
      /\ UNCHANGED <<now, overlapped>> /\ lost' = lost \ {t[1]}
      /\ \A n \in Nodes : lastAlert'[n] = IF n = t[1] THEN now ELSE lastAlert[n]
  BY DEF SendAlert, At, Live, Tasks, TypeOK
<1>4. Alerts(t[1])
  BY <1>3 DEF AlertInv, Alerts
<1> HIDE DEF r
<1>5. Told(t[1])'
  BY <1>1, <1>2 DEF Told, OnRecord
<1>6. Sole(t[1])'
  BY <1>1, <1>3, <1>4 DEF Alerts, Sole, Live
<1>7. Spaced(t[1])'
  <2>1. t[1] \notin overlapped => \A u \in Tasks : u[1] = t[1] => task'[u].pc # "alerting"
    BY <1>1, <1>2, <1>3, <1>4, Alone DEF Alerts
  <2> QED
    BY <1>3, <2>1 DEF Spaced
<1>8. lastAlert'[t[1]] <= now'
  BY <1>3, TimesFact
<1>9. Alerts(t[1])'
  BY <1>5, <1>6, <1>7, <1>8 DEF Alerts
<1> QED
  BY <1>1, <1>3, <1>9, OthersKept

LEMMA AlertCommit ==
  ASSUME TypeOK, [Next]_vars, AlertInv, NEW t \in Tasks, Commit(t)
  PROVE  AlertInv'
<1>1. /\ UNCHANGED <<now, dated, lastAlert, lost, overlapped>>
      /\ task[t].pc = "saving" /\ Live(t) /\ t[1] \in Nodes
      /\ records' = Append(records, RecordOf(t)) /\ Return(t)
  BY DEF Commit, historyVars, At, Live, Tasks
<1>2. Becomes(t, Idle) /\ Idle.pc = "free"
  BY <1>1, ReturnEffect DEF Idle
<1>3. Alerts(t[1])
  BY <1>1 DEF AlertInv, Alerts
<1>4. task[t].sent => Told(t[1])'
  <2> SUFFICES ASSUME task[t].sent, dated PROVE OnRecord(t[1])'
    BY <1>1 DEF Told
  <2>1. /\ Len(records) + 1 \in DOMAIN records'
        /\ records'[Len(records) + 1] = RecordOf(t)
    BY <1>1, AppendFact
  <2>2. RecordOf(t).node = t[1] /\ RecordOf(t).sent /\ RecordOf(t).at = now
    BY DEF RecordOf
  <2>3. now >= lastAlert'[t[1]]
    BY <1>1, <1>3, TimesFact DEF Alerts, Absent
  <2> QED
    BY <2>1, <2>2, <2>3 DEF OnRecord
<1>5. Alerts(t[1])'
  BY <1>1, <1>2, <1>3, <1>4, QuietStep
<1> QED
  BY <1>1, <1>2, <1>5, OthersKept

LEMMA AlertBroken ==
  ASSUME TypeOK, [Next]_vars, AlertInv, NEW t \in Tasks, Broken(t)
  PROVE  AlertInv'
<1>1. /\ UNCHANGED <<now, lastAlert, overlapped>> /\ Live(t) /\ t[1] \in Nodes
      /\ lost' = IF task[t].sent THEN lost \cup {t[1]} ELSE lost
  BY DEF Broken, Raise, Tasks
<1>2. Becomes(t, Idle) /\ Idle.pc = "free"
  BY ReturnEffect DEF Idle
<1>3. task[t].sent => Told(t[1])'
  BY <1>1 DEF Told
<1>4. Alerts(t[1])'
  <2>1. Alerts(t[1])
    BY <1>1 DEF AlertInv, Alerts
  <2> QED
    BY <1>1, <1>2, <1>3, <2>1, QuietStep
<1> QED
  BY <1>1, <1>2, <1>4, OthersKept

\* The other steps of a task neither look for an alert nor have sent one.
LEMMA AlertOther ==
  ASSUME TypeOK, [Next]_vars, AlertInv, NEW t \in Tasks,
         ReadBatches(t) \/ ReadEntries(t) \/ Analyze(t) \/ MarkEmpty(t)
  PROVE  AlertInv'
<1>1. /\ UNCHANGED <<now, lastAlert, lost, overlapped>> /\ Live(t) /\ t[1] \in Nodes
      /\ task[t].pc # "saving"
  BY DEF ReadBatches, ReadEntries, Analyze, MarkEmpty, historyVars, At, Live, Tasks
<1>2. task[t] \in Task
  BY DEF TypeOK
<1>3. \E r : Becomes(t, r) /\ r.pc # "alerting"
  <2>1. ASSUME Return(t) PROVE Becomes(t, Idle) /\ Idle.pc # "alerting"
    BY <2>1, ReturnEffect DEF Idle
  <2>2. CASE MarkEmpty(t) \/ (ReadBatches(t) /\ Unanalyzed(t[1]) = {})
    BY <2>1, <2>2 DEF MarkEmpty, ReadBatches
  <2>3. CASE ReadBatches(t) /\ Unanalyzed(t[1]) # {}
    <3>1. [task[t] EXCEPT !.snap = Unanalyzed(t[1]), !.pc = "entries"].pc = "entries"
      BY <1>2 DEF Task
    <3> QED
      BY <2>3, <3>1, ReadBatchesEffect
  <2>4. CASE ReadEntries(t)
    <3>1. [task[t] EXCEPT !.read = task[t].snap \cap rows,
             !.pc = IF task[t].snap \cap rows = {} THEN "marking" ELSE "analyzing"].pc
            \in {"marking", "analyzing"}
      BY <1>2 DEF Task
    <3> QED
      BY <2>4, <3>1, ReadEntriesEffect
  <2>5. CASE Analyze(t)
    <3>1. PICK s \in Severities :
            Becomes(t, [task[t] EXCEPT !.severity = s,
                          !.pc = IF s \in High THEN "checking" ELSE "saving"])
      BY <2>5, AnalyzeEffect
    <3>2. [task[t] EXCEPT !.severity = s,
             !.pc = IF s \in High THEN "checking" ELSE "saving"].pc
            \in {"checking", "saving"}
      BY <1>2 DEF Task
    <3> QED
      BY <3>1, <3>2
  <2> QED
    BY <2>2, <2>3, <2>4, <2>5
<1>4. PICK r : Becomes(t, r) /\ r.pc # "alerting"
  BY <1>3
<1>5. Alerts(t[1])'
  <2>1. Alerts(t[1])
    BY <1>1 DEF AlertInv, Alerts
  <2> QED
    BY <1>1, <1>4, <2>1, QuietStep
<1> QED
  BY <1>1, <1>4, <1>5, OthersKept

LEMMA AlertNext == TypeOK /\ AlertInv /\ [Next]_vars => AlertInv'
<1> SUFFICES ASSUME TypeOK, AlertInv, [Next]_vars PROVE AlertInv'
  OBVIOUS
<1>1. CASE UNCHANGED <<task, lastAlert, lost, overlapped>>
  BY <1>1, AlertKept DEF AlertInv, Alerts
<1> QED
  BY <1>1, AlertStart, AlertCrash, AlertCheck, AlertSend, AlertCommit, AlertBroken,
     AlertOther, NextCases
     DEF Tick, Cleanup, SkipRound, vars, loopVars, historyVars, Heartbeat, Ingest
-----------------------------------------------------------------------------
(* The invariant holds from the start and is kept by every step. *)

LEMMA InvInit == Init => IInv
<1> SUFFICES ASSUME Init PROVE IInv
  OBVIOUS
<1>1. TypeOK
  BY TypeInit
<1>2. /\ records = <<>> /\ DOMAIN records = {} /\ batches = {} /\ analyzed = {}
      /\ rows = {} /\ awaited = {} /\ failed = {} /\ early = {}
      /\ \A t \in Tasks : task[t] = Idle
      /\ \A n \in Nodes : lastAlert[n] = Absent
  BY DEF Init
<1>3. AnalyzedWasRead /\ SuppressionJustified /\ AnalyzedOnce /\ OnceInv
  BY <1>2 DEF AnalyzedWasRead, SuppressionJustified, AnalyzedOnce, OnceInv
<1>4. TaskInv
  BY <1>1, TaskInit
<1>5. JustifiedInv /\ RoundInv
  BY <1>2 DEF JustifiedInv, RoundInv, Live, Idle
<1>6. AlertInv
  <2>1. \A n \in Nodes : lastAlert[n] <= now
    BY <1>2 DEF Init, Absent
  <2> QED
    BY <1>2, <2>1 DEF AlertInv, Sole, Told, Spaced, Live, Idle
<1> QED
  BY <1>1, <1>3, <1>4, <1>5, <1>6 DEF IInv

LEMMA InvNext == IInv /\ [Next]_vars => IInv'
BY TypeNext, TaskNext, ReadNext, JustifiedNext, RoundNext, OnceNext, AlertNext DEF IInv

LEMMA InvAlways == Spec => []IInv
BY InvInit, InvNext, PTL DEF Spec

\* Every variable has its type, in every run of the inspection.
THEOREM TypeCorrect == Spec => []TypeOK
<1>1. IInv => TypeOK
  BY DEF IInv
<1> QED
  BY <1>1, InvAlways, PTL

\* A batch that is marked, and whose entries are still there, was read by the
\* analysis it points to, whatever arrives, is purged, fails or is killed while
\* the analysis is under way (tasks.py:_inspect_node).
THEOREM EveryMarkedWasRead == Spec => []AnalyzedWasRead
<1>1. IInv => AnalyzedWasRead
  BY DEF IInv
<1> QED
  BY <1>1, InvAlways, PTL

\* No alert is withheld without an alert of the same node within the cooldown on
\* record at the moment of the check (alert_manager.py).
THEOREM SuppressionsJustified == Spec => []SuppressionJustified
<1>1. IInv => SuppressionJustified
  BY DEF IInv
<1> QED
  BY <1>1, InvAlways, PTL

\* Without a failure, two rounds never work on the same node at once
\* (tasks.py:periodic_inspection).
THEOREM RoundsDoNotOverlap == Spec => []OneTaskPerNode
<1>1. IInv => OneTaskPerNode
  BY OneTask DEF IInv
<1> QED
  BY <1>1, InvAlways, PTL

\* Without a failure, no batch is part of two analyses, even across a restart
\* (the one transaction at the end of _inspect_node).
THEOREM AnalyzedAtMostOnce == Spec => []AnalyzedOnce
<1>1. IInv => AnalyzedOnce
  BY DEF IInv
<1> QED
  BY <1>1, InvAlways, PTL

\* A node is alerted again within the cooldown only if records have no date, if the
\* record of the alert before was lost with its task, or if rounds overlap on the
\* node, although check, mail and record are three steps (tasks.py:85-104).
THEOREM AlertsAreSpaced == Spec => AlertsSpaced
<1>1. ASSUME IInv, NEW t \in Tasks, At(t, "alerting"), Alerted(t[1])
      PROVE  ~dated \/ t[1] \in lost \/ t[1] \in overlapped
  <2>1. t[1] \in Nodes /\ TypeOK /\ AlertInv
    BY <1>1 DEF IInv, Tasks
  <2>2. /\ now \in Nat /\ Cooldown \in Nat /\ lastAlert[t[1]] \in Nat
        /\ now - lastAlert[t[1]] < Cooldown /\ lastAlert[t[1]] # Absent
    BY <1>1, <2>1, TimesFact DEF Alerted
  <2>3. ~(now - lastAlert[t[1]] >= Cooldown)
    BY <2>2
  <2> QED
    BY <1>1, <2>1, <2>2, <2>3 DEF AlertInv, Spaced, At
<1>2. IInv => [\A t \in Tasks : At(t, "alerting") /\ task'[t].sent /\ Alerted(t[1]) =>
                  ~dated \/ t[1] \in lost \/ t[1] \in overlapped]_vars
  BY <1>1
<1> QED
  BY <1>2, InvAlways, PTL DEF AlertsSpaced
-----------------------------------------------------------------------------
(***************************************************************************)
(* Inspection implements BatchLifecycle.  Beyond the inductive invariant   *)
(* the refinement needs to know what a task holds (HoldInv): batches, once *)
(* it has loaded them; entries, once it analyzes; and, while no task has   *)
(* failed, none that is marked already.                                    *)
(***************************************************************************)
HoldFine(t) ==
  /\ task[t].pc \in {"free", "batches"} <=> task[t].snap = {}
  /\ task[t].pc \in {"analyzing", "checking", "alerting", "saving"} => task[t].read # {}
  /\ failed = {} => task[t].snap \cap analyzed = {}

HoldInv == \A t \in Tasks : HoldFine(t)

LEMMA HoldInit == Init => HoldInv
BY DEF Init, HoldInv, HoldFine, Idle

\* A task that holds nothing is fine.
LEMMA EmptyFine ==
  ASSUME NEW u \in Tasks, task'[u] = Idle \/ task'[u] = [Idle EXCEPT !.pc = "batches"]
  PROVE  HoldFine(u)'
BY DEF Idle, HoldFine

\* A task that is left alone stays fine unless its batches are marked.
LEMMA HoldKept ==
  ASSUME NEW u \in Tasks, HoldFine(u), task'[u] = task[u],
         failed' = {} => failed = {} /\ task[u].snap \cap analyzed' = {}
  PROVE  HoldFine(u)'
BY DEF HoldFine

LEMMA FailedGrows ==
  [Next]_vars => failed \subseteq failed'
BY NextCases
   DEF Tick, Cleanup, StartRound, SkipRound, Crash, vars, historyVars, Heartbeat, Ingest,
       ReadBatches, ReadEntries, Analyze, CheckCooldown, SendAlert, Commit, MarkEmpty,
       Broken, Raise, EndRound

\* What a working task holds afterwards.
LEMMA WorksHold ==
  ASSUME TypeOK, NEW t \in Tasks, HoldFine(t), Works(t)
  PROVE  HoldFine(t)'
<1>1. UNCHANGED <<analyzed, failed>> /\ task[t] \in Task
  BY WorksFact DEF dbVars, TypeOK
<1>2. CASE ReadEntries(t)
  <2>1. task'[t] = [task[t] EXCEPT !.read = task[t].snap \cap rows,
          !.pc = IF task[t].snap \cap rows = {} THEN "marking" ELSE "analyzing"]
    BY <1>2, ReadEntriesEffect, BecomesFact
  <2>2. task[t].pc = "entries"
    BY <1>2 DEF ReadEntries, At
  <2> QED
    BY <1>1, <2>1, <2>2 DEF HoldFine, Task
<1>3. CASE Analyze(t)
  <2>1. PICK s \in Severities :
          task'[t] = [task[t] EXCEPT !.severity = s,
                        !.pc = IF s \in High THEN "checking" ELSE "saving"]
    BY <1>3, AnalyzeEffect, BecomesFact
  <2>2. task[t].pc = "analyzing"
    BY <1>3 DEF Analyze, At
  <2> QED
    BY <1>1, <2>1, <2>2 DEF HoldFine, Task
<1>4. CASE CheckCooldown(t)
  <2>1. task'[t] = [task[t] EXCEPT !.checked = now,
                      !.pc = IF Found(t) THEN "saving" ELSE "alerting"]
    BY <1>4, CheckEffect, BecomesFact
  <2>2. task[t].pc = "checking"
    BY <1>4 DEF CheckCooldown, At
  <2> QED
    BY <1>1, <2>1, <2>2 DEF HoldFine, Task
<1>5. CASE SendAlert(t)
  <2>1. task'[t] = [task[t] EXCEPT !.sent = TRUE, !.pc = "saving"]
    BY <1>5, SendEffect, BecomesFact
  <2>2. task[t].pc = "alerting"
    BY <1>5 DEF SendAlert, At
  <2> QED
    BY <1>1, <2>1, <2>2 DEF HoldFine, Task
<1>6. CASE ReadBatches(t) /\ Unanalyzed(t[1]) # {}
  <2>1. task'[t] = [task[t] EXCEPT !.snap = Unanalyzed(t[1]), !.pc = "entries"]
    BY <1>6, ReadBatchesEffect, BecomesFact
  <2>2. Unanalyzed(t[1]) \cap analyzed = {}
    BY DEF Unanalyzed
  <2> QED
    BY <1>1, <1>6, <2>1, <2>2 DEF HoldFine, Task
<1> QED
  BY <1>2, <1>3, <1>4, <1>5, <1>6 DEF Works

LEMMA HoldNext ==
  TypeOK /\ TaskInv /\ RoundInv /\ HoldInv /\ [Next]_vars => HoldInv'
<1> SUFFICES ASSUME TypeOK, TaskInv, RoundInv, HoldInv, [Next]_vars,
                    NEW u \in Tasks
             PROVE  HoldFine(u)'
  BY DEF HoldInv
<1>1. HoldFine(u)
  BY DEF HoldInv
<1>2. failed' = {} => failed = {}
  BY FailedGrows
<1>3. CASE UNCHANGED task /\ analyzed' \subseteq analyzed
  BY <1>1, <1>2, <1>3, HoldKept DEF HoldFine
<1>4. CASE UNCHANGED <<loop, awaited, task, historyVars, records, analyzed, batches>>
  BY <1>3, <1>4 DEF loopVars
<1>5. CASE Cleanup
  BY <1>3, <1>5 DEF Cleanup, loopVars
<1>6. CASE StartRound \/ Crash
  <2>1. task'[u] \in {task[u], Idle, [Idle EXCEPT !.pc = "batches"]} /\ UNCHANGED analyzed
    BY <1>6 DEF StartRound, SkipRound, Crash, EndRound, dbVars
  <2> QED
    BY <1>1, <1>2, <2>1, HoldKept, EmptyFine DEF HoldFine
<1>7. ASSUME NEW b \in Batches, Ingest(b) PROVE HoldFine(u)'
  BY <1>3, <1>7 DEF Ingest, loopVars
<1>8. ASSUME NEW t \in Tasks, Works(t) PROVE HoldFine(u)'
  <2>1. CASE u = t
    BY <1>1, <1>8, <2>1, WorksHold
  <2>2. CASE u # t
    <3>1. task'[u] = task[u] /\ UNCHANGED analyzed
      BY <1>8, <2>2, WorksFact, BecomesFact DEF dbVars
    <3> QED
      BY <1>1, <1>2, <3>1, HoldKept DEF HoldFine
  <2> QED
    BY <2>1, <2>2
<1>9. ASSUME NEW t \in Tasks, Return(t) \/ Broken(t),
             analyzed' = analyzed \/ (Live(t) /\ analyzed' = analyzed \cup task[t].snap)
      PROVE  HoldFine(u)'
  <2>1. task'[t] = Idle /\ (u # t => task'[u] = task[u])
    BY <1>9, ReturnEffect, BecomesFact
  <2>2. CASE u = t
    BY <2>1, <2>2, EmptyFine
  <2>3. CASE u # t /\ Live(u)
    <3>1. failed = {} /\ Live(t) => task[u].snap \cap task[t].snap = {}
      BY <2>3, OneTask DEF OneTaskPerNode, Live, TaskInv, TaskFine
    <3> QED
      BY <1>1, <1>2, <1>9, <2>1, <2>3, <3>1, HoldKept DEF HoldFine
  <2>4. CASE u # t /\ ~Live(u)
    <3>1. task[u].snap = {}
      BY <1>1, <2>4 DEF HoldFine, Live
    <3> QED
      BY <1>1, <1>2, <2>1, <2>4, <3>1, HoldKept
  <2> QED
    BY <2>2, <2>3, <2>4
<1> QED
  BY <1>4, <1>5, <1>6, <1>7, <1>8, <1>9, TaskSteps
     DEF Commit, MarkEmpty, ReadBatches, Broken, Raise, EndRound, dbVars, Live, At
-----------------------------------------------------------------------------
(* The refinement. *)

LEMMA LifecycleInit == Init => Lifecycle!Init
BY DEF Init, Lifecycle!Init, LifecycleOf, Absent

\* A step that leaves the database alone and has no task fail changes nothing.
LEMMA LifecycleStutter ==
  ASSUME UNCHANGED <<batches, analyzed, at, rows, records, failed>>
  PROVE  UNCHANGED Lifecycle!vars
BY DEF Lifecycle!vars, LifecycleOf

LEMMA LifecyclePush ==
  ASSUME TypeOK, TaskInv, NEW b \in Batches, Ingest(b)
  PROVE  Lifecycle!Push(b)
<1>1. at[b] = Absent /\ b \notin analyzed /\ now # Absent
  BY ConstantsFact DEF Ingest, TypeOK, Absent, TaskInv, Pushed
<1>2. \A c \in Batches : LifecycleOf(c)' = IF c = b THEN "fresh" ELSE LifecycleOf(c)
  BY <1>1 DEF Ingest, LifecycleOf, TypeOK
<1>3. UNCHANGED <<records, failed>>
  BY DEF Ingest, historyVars
<1> QED
  BY <1>1, <1>2, <1>3 DEF Lifecycle!Push, Lifecycle!Becomes, LifecycleOf

LEMMA LifecycleCleanup ==
  ASSUME TypeOK, TaskInv, Cleanup
  PROVE  Lifecycle!Next
<1> DEFINE S == {b \in Batches : LifecycleOf(b) = "fresh" /\ Expired(b)}
           P == {b \in Batches : LifecycleOf(b) = "analyzed" /\ Expired(b)}
<1>1. \A c \in Batches : LifecycleOf(c)' = IF c \in S THEN "stale"
                           ELSE IF c \in P THEN "purged" ELSE LifecycleOf(c)
  BY DEF Cleanup, LifecycleOf, TypeOK
<1>2. UNCHANGED <<records, failed>>
  BY DEF Cleanup, historyVars
<1>3. S \in SUBSET Batches /\ P \in SUBSET Batches
  OBVIOUS
<1>4. Lifecycle!Cleanup(S, P)
  BY <1>1, <1>2 DEF Lifecycle!Cleanup, Lifecycle!In
<1> HIDE DEF S, P
<1> QED
  BY <1>3, <1>4 DEF Lifecycle!Next

\* What a task is about to mark may be covered by one report.
LEMMA LifecycleCoverable ==
  ASSUME TypeOK, TaskInv, HoldInv, NEW t \in Tasks, task[t].snap \subseteq batches,
         task[t].pc \notin {"free", "batches"}
  PROVE  Lifecycle!Coverable(task[t].snap)
<1> DEFINE S == task[t].snap
<1>1. S # {} /\ S \subseteq Batches /\ (failed = {} => S \cap analyzed = {})
  BY DEF HoldInv, HoldFine, TypeOK
<1>2. \A b \in S : NodeOf(b) = t[1] /\ at[b] # Absent
  BY DEF TaskInv, TaskFine, Pushed
<1>3. \A b \in S : \/ LifecycleOf(b) \in {"fresh", "stale"}
                   \/ failed # {} /\ LifecycleOf(b) = "analyzed"
  BY <1>1, <1>2 DEF LifecycleOf
<1> HIDE DEF S
<1>4. Lifecycle!Coverable(S)
  BY <1>1, <1>2, <1>3 DEF Lifecycle!Coverable, Lifecycle!In
<1> QED
  BY <1>4 DEF S

\* What marking does to the batches of a task.
LEMMA LifecycleMarks ==
  ASSUME TypeOK, NEW t \in Tasks, TaskInv, task[t].snap \subseteq batches,
         analyzed' = analyzed \cup task[t].snap, UNCHANGED <<batches, at, rows>>
  PROVE  \A b \in Batches : LifecycleOf(b)' = IF b \in task[t].snap THEN "analyzed"
                                              ELSE LifecycleOf(b)
BY DEF LifecycleOf, TaskInv, TaskFine, Pushed

LEMMA LifecycleReport ==
  ASSUME TypeOK, TaskInv, HoldInv, NEW t \in Tasks, Commit(t)
  PROVE  Lifecycle!Next
<1> DEFINE S == task[t].snap
           R == task[t].read
<1>1. /\ task[t].pc = "saving" /\ S \subseteq batches
      /\ records' = Append(records, RecordOf(t)) /\ UNCHANGED failed
      /\ analyzed' = analyzed \cup S /\ UNCHANGED <<batches, at, rows>>
  BY DEF Commit, At, historyVars
<1>2. /\ S \subseteq Batches /\ R \subseteq S /\ R # {}
      /\ S \cap rows \subseteq R
  BY <1>1 DEF TaskInv, TaskFine, Loaded, HoldInv, HoldFine, TypeOK
<1>3. S \cap Lifecycle!In("fresh") \subseteq R
  BY <1>2 DEF Lifecycle!In, LifecycleOf
<1>4. RecordOf(t).snap = S /\ RecordOf(t).read = R
  BY DEF RecordOf
<1>5. [i \in DOMAIN records' |-> [covers |-> records'[i].snap, read |-> records'[i].read]]
        = Append([i \in DOMAIN records |->
                    [covers |-> records[i].snap, read |-> records[i].read]],
                 [covers |-> S, read |-> R])
  <2> DEFINE f(r) == [covers |-> r.snap, read |-> r.read]
             old == [i \in DOMAIN records |-> f(records[i])]
  <2>1. /\ DOMAIN records = 1..Len(records) /\ Len(records) \in Nat
        /\ DOMAIN records' = 1..(Len(records) + 1)
        /\ records'[Len(records) + 1] = RecordOf(t)
        /\ \A i \in DOMAIN records : records'[i] = records[i]
    BY <1>1, AppendFact
  <2>2. f(RecordOf(t)) = [covers |-> S, read |-> R]
    BY <1>4
  <2> HIDE DEF f
  <2>3. old \in Seq({f(records[i]) : i \in DOMAIN records}) /\ Len(old) = Len(records)
    BY <2>1
  <2>4. Append(old, f(RecordOf(t))) =
          [i \in 1..(Len(records) + 1) |-> IF i = Len(records) + 1 THEN f(RecordOf(t))
                                           ELSE old[i]]
    BY <2>1, <2>3
  <2>5. [i \in DOMAIN records' |-> f(records'[i])] = Append(old, f(RecordOf(t)))
    BY <2>1, <2>4
  <2> QED
    BY <2>2, <2>5 DEF f
<1>6. Lifecycle!Coverable(S)
  BY <1>1, LifecycleCoverable
<1>7. \A b \in Batches : LifecycleOf(b)' = IF b \in S THEN "analyzed" ELSE LifecycleOf(b)
  BY <1>1, LifecycleMarks
<1> HIDE DEF S, R
<1>8. Lifecycle!Report(S, R)
  BY <1>1, <1>2, <1>3, <1>5, <1>6, <1>7 DEF Lifecycle!Report, Lifecycle!Becomes
<1>9. \E T \in SUBSET Batches : \E Q \in SUBSET T : Lifecycle!Report(T, Q)
  <2>1. S \in SUBSET Batches /\ R \in SUBSET S
    BY <1>2
  <2>2. \E Q \in SUBSET S : Lifecycle!Report(S, Q)
    BY <1>8, <2>1 DEF Lifecycle!Report
  <2> QED
    BY <2>1, <2>2
<1> QED
  BY <1>9 DEF Lifecycle!Next

LEMMA LifecycleSettle ==
  ASSUME TypeOK, TaskInv, HoldInv, NEW t \in Tasks, MarkEmpty(t)
  PROVE  Lifecycle!Next
<1> DEFINE S == task[t].snap
<1>1. /\ task[t].pc = "marking" /\ S \subseteq batches
      /\ analyzed' = analyzed \cup S /\ UNCHANGED <<batches, at, rows, records, failed>>
  BY DEF MarkEmpty, At, historyVars
<1>2. S \subseteq Batches /\ S \cap rows = {}
  BY <1>1 DEF TaskInv, TaskFine, Loaded, TypeOK
<1>3. S \cap Lifecycle!In("fresh") = {}
  BY <1>2 DEF Lifecycle!In, LifecycleOf
<1>4. Lifecycle!Coverable(S)
  BY <1>1, LifecycleCoverable
<1>5. \A b \in Batches : LifecycleOf(b)' = IF b \in S THEN "analyzed" ELSE LifecycleOf(b)
  BY <1>1, LifecycleMarks
<1> HIDE DEF S
<1>6. Lifecycle!Settle(S)
  BY <1>1, <1>3, <1>4, <1>5 DEF Lifecycle!Settle, Lifecycle!Becomes
<1> QED
  BY <1>2, <1>6 DEF Lifecycle!Next

LEMMA LifecycleFail ==
  ASSUME NEW t \in Tasks, Broken(t)
  PROVE  Lifecycle!Fail
BY DEF Broken, Raise, EndRound, Lifecycle!Fail, LifecycleOf, dbVars

LEMMA LifecycleNext ==
  IInv /\ HoldInv /\ [Next]_vars => [Lifecycle!Next]_(Lifecycle!vars)
<1> SUFFICES ASSUME IInv, HoldInv, [Next]_vars
             PROVE  Lifecycle!Next \/ UNCHANGED Lifecycle!vars
  OBVIOUS
<1>1. TypeOK /\ TaskInv
  BY DEF IInv
<1>2. CASE Cleanup
  BY <1>1, <1>2, LifecycleCleanup
<1>3. ASSUME NEW b \in Batches, Ingest(b) PROVE Lifecycle!Next
  BY <1>1, <1>3, LifecyclePush DEF Lifecycle!Next
<1>4. ASSUME NEW t \in Tasks, Commit(t) PROVE Lifecycle!Next
  BY <1>1, <1>4, LifecycleReport
<1>5. ASSUME NEW t \in Tasks, MarkEmpty(t) PROVE Lifecycle!Next
  BY <1>1, <1>5, LifecycleSettle
<1>6. ASSUME NEW t \in Tasks, Broken(t) PROVE Lifecycle!Next
  BY <1>6, LifecycleFail DEF Lifecycle!Next
<1>7. CASE UNCHANGED <<batches, analyzed, at, rows, records, failed>>
  BY <1>7, LifecycleStutter
<1> QED
  BY <1>2, <1>3, <1>4, <1>5, <1>6, <1>7, NextCases
     DEF Tick, StartRound, SkipRound, Crash, EndRound, vars, dbVars, historyVars,
         Heartbeat, ReadBatches,
         ReadEntries, Analyze, CheckCooldown, SendAlert

\* The inspection implements the life of a batch: whatever tasks of one or of
\* several rounds do at once, whatever is purged, fails or is killed meanwhile, a
\* batch changes only as BatchLifecycle says (tasks.py:_inspect_node, log_ingest.py,
\* cleanup_old_data).
THEOREM InspectionImplementsLifecycle == Spec => ImplementsLifecycle
<1>1. Init => HoldInv /\ Lifecycle!Init
  BY HoldInit, LifecycleInit
<1>2. IInv /\ HoldInv /\ [Next]_vars => HoldInv'
  BY HoldNext DEF IInv
<1>3. IInv /\ HoldInv /\ [Next]_vars => [Lifecycle!Next]_(Lifecycle!vars)
  BY LifecycleNext
<1>4. Spec => []HoldInv
  BY <1>1, <1>2, InvAlways, PTL DEF Spec
<1> QED
  BY <1>1, <1>3, <1>4, InvAlways, PTL DEF Spec, ImplementsLifecycle, Lifecycle!Spec
-----------------------------------------------------------------------------
(* What the refinement says of a batch over time. *)

\* A batch keeps its place in its life or moves on to one that may follow.
Onward(b) ==
  <<LifecycleOf(b), LifecycleOf(b)'>> \in
    {<<s, s>> : s \in Lifecycle!States} \cup
    {<<"unknown", "fresh">>, <<"fresh", "stale">>, <<"fresh", "analyzed">>,
     <<"stale", "analyzed">>, <<"analyzed", "purged">>}

LEMMA LifecycleTyped == \A b \in Batches : LifecycleOf(b) \in Lifecycle!States
BY DEF LifecycleOf, Lifecycle!States

\* BatchLifecycle has no way back.
LEMMA OnwardNext ==
  [Lifecycle!Next]_(Lifecycle!vars) => \A b \in Batches : Onward(b)
<1> SUFFICES ASSUME [Lifecycle!Next]_(Lifecycle!vars), NEW b \in Batches PROVE Onward(b)
  OBVIOUS
<1> DEFINE state == [c \in Batches |-> LifecycleOf(c)]
<1>1. state[b] = LifecycleOf(b) /\ state'[b] = LifecycleOf(b)' /\ state[b] \in Lifecycle!States
  BY LifecycleTyped
<1>2. ASSUME NEW c \in Batches, Lifecycle!Push(c) PROVE Onward(b)
  BY <1>1, <1>2 DEF Lifecycle!Push, Lifecycle!Becomes, Onward
<1>3. ASSUME NEW S \in SUBSET Batches, Lifecycle!Coverable(S),
             \A c \in Batches : state'[c] = IF c \in S THEN "analyzed" ELSE state[c]
      PROVE  Onward(b)
  BY <1>1, <1>3 DEF Lifecycle!Coverable, Lifecycle!In, Onward
<1>4. ASSUME NEW S \in SUBSET Batches, Lifecycle!Settle(S) PROVE Onward(b)
  BY <1>3, <1>4 DEF Lifecycle!Settle, Lifecycle!Becomes
<1>5. ASSUME NEW S \in SUBSET Batches, NEW R \in SUBSET S, Lifecycle!Report(S, R)
      PROVE  Onward(b)
  BY <1>3, <1>5 DEF Lifecycle!Report, Lifecycle!Becomes
<1>6. ASSUME NEW S \in SUBSET Batches, NEW P \in SUBSET Batches, Lifecycle!Cleanup(S, P)
      PROVE  Onward(b)
  BY <1>1, <1>6 DEF Lifecycle!Cleanup, Lifecycle!In, Onward
<1>7. CASE Lifecycle!Fail \/ UNCHANGED Lifecycle!vars
  BY <1>1, <1>7 DEF Lifecycle!Fail, Lifecycle!vars, Onward
<1> QED
  BY <1>2, <1>4, <1>5, <1>6, <1>7 DEF Lifecycle!Next

\* No round, task, clean-up, failure or restart takes a batch back: one that was analyzed is
\* never pending again, and it is purged only after that (tasks.py:_inspect_node,
\* cleanup_old_data).
THEOREM BatchesMoveOn == Spec => [][\A b \in Batches : Onward(b)]_vars
<1>1. IInv /\ HoldInv /\ [Next]_vars => \A b \in Batches : Onward(b)
  BY LifecycleNext, OnwardNext
<1>2. Init => HoldInv
  BY HoldInit
<1>3. IInv /\ HoldInv /\ [Next]_vars => HoldInv'
  BY HoldNext DEF IInv
<1> QED
  BY <1>1, <1>2, <1>3, InvAlways, PTL DEF Spec
=============================================================================
