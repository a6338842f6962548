# Formal model of pvelog

pvelog watches the system logs of Proxmox nodes.  An agent on each node reads
the journal and pushes new lines to a controller.  The controller stores them,
lets a language model inspect the batches it has not seen yet (the model may
run diagnostic commands on the node), sends alert mails, and a report every day.

This directory holds TLA+ modules that model the parts of this system whose
correctness depends on the order of events, TLC configurations that check them
on small instances, and proofs, checked by TLAPS, of their safety properties
for every instance.  Line numbers refer to the files under `src/`.

    tlc -config CollectorDelivery.cfg MCAgentCollector
    tlapm AgentCollectorProofs.tla

## 1. The system

### Components

| component | state it keeps | operations | interacts with |
|---|---|---|---|
| Agent log collector (`agent/cmd/pve-agent/main.go`, `internal/collector`, `internal/pusher`) | journal cursor in memory and in `data/cursor.txt`; filter patterns; deduplication cache; the read in progress | read journalctl, filter, deduplicate, push, commit and save the cursor; clean the cache; replace the patterns | journald (pipe), controller `POST /logs`, configuration `GET` |
| Agent executor (`internal/executor`) | none between requests; process, pipes and context of each request | verify, validate, run a command, answer | tool dispatcher (HTTP), the node's commands |
| Agent heartbeat (`internal/heartbeat`) | none | POST gauges and the agent's URL | controller `POST /heartbeat` |
| Ingestion and heartbeat endpoints (`api/routes/log_ingest.py`, `heartbeat.py`) | node rows, batches, entries in SQLite | store a batch with its entries, update a node | agents, inspection |
| Periodic inspection and cleanup (`scheduler/tasks.py`) | the tasks of the round, one session each; batch marks and analysis records in SQLite | start a round, inspect a node, check the cooldown, mail, commit, delete what is old | endpoints (shared tables), analyzer, mail |
| Analyzer graph (`core/analyzer.py`, `services/llm_client.py`) | conversation, iterations, severity of one analysis | ask the model, retry, run tools, decide | model API, tool dispatcher |
| Tool dispatcher (`core/tool_dispatcher.py`) and rate limiter (`core/rate_limiter.py`) | token buckets by node; audit rows | admit, validate, send, audit | agent executor, database |
| Daily report (`scheduler/tasks.py`, `services/report_chart.py`, `api/routes/analysis.py`) | the sleep of the loop, the reports in the making | sleep until 8:40, aggregate, mail; the same by request | records, mail |
| Start-up and migration (`api/main.py`, `db/models.py`) | the schema | create tables, add columns, backfill, start the loops | all tables |
| Authentication (`internal/auth/psk.go`, `api/middleware/auth.py`) | none | sign; check signature and age | every request |
| Mail, log filter and sanitizer, settings | none | pure functions and I/O | |

### What is hard about it

* **Two places for one cursor.**  The agent commits in memory, then saves to a
  file with a truncating write; lines are read, filtered and deduplicated long
  before anyone knows whether the push will succeed.
* **Unreliable delivery.**  A push that times out may have been stored, or be stored
  later.  journalctl may be killed half-way, and its exit status is ignored.
* **Goroutines.**  The cache cleaner and the configuration poller run between any
  two lines of a read.
* **Long transactions spread over awaits.**  An inspection loads batches, then entries,
  asks a model for minutes, checks the cooldown, sends a mail, and only then
  commits; ingestion, cleanup and other tasks run in between, and a commit fails when a
  batch it marks is gone.
* **Rounds that end early.**  `gather` hands on the first exception and leaves the
  other tasks of the round running.
* **Timeouts inside timeouts.**  30 s at the agent, counted from the arrival of a request, 35 s
  at the dispatcher, counted from its sending, retries
  with back-off at the model's API, iterations of the graph around it.
* **Sessions that overlap.**  A heartbeat and a push of one node read its row, and write
  it two awaits later; either may outlive the client that sent it.
* **DDL outside of transactions.**  A column that was added stays when the UPDATE
  behind it is lost, and has no default.
* **Dates that are older than the row.**  A record is dated by its INSERT and seen after its
  COMMIT; a report in between does not have it.
* **A clock that is not monotone** under the rate limiter and the daily loop.

`PROJECT.json` lists the hazards line by line, with the properties aimed at each.

### What makes each component correct

* Collector: no line is passed by a cursor without being stored, deliberately left
  out, or replaced by the same message; nothing is repeated without a failure; the
  file never runs ahead; suppression ends, and does not end early.
* Inspection: what is marked as analyzed was read; nothing is analyzed twice without a failure;
  alerts of a node are a cooldown apart, unless the one before left no dated record or rounds
  overlap, and withheld only for an alert on record; every batch of a node with a URL is
  eventually marked.
* Analyzer and dispatcher: a conversation the API accepts; every request on record
  once, with the status the agent gave; bounded cost, and an end; no verdict from half an
  analysis.
* Executor: the limits fit together; no late success; complete output; nothing runs
  for a client that has gone.
* Rate limiter: a bound on the calls of every window; no starvation.
* Ingestion: the row's cursor is that of the last push that went well; no acknowledged push
  without its batch; a URL that was reported stays; a request is refused only in the race for the first row.
* Start-up and reports: a complete schema after a start-up without an error; each day
  reported once, none skipped, with the records inserted on it and no others, but for three
  exceptions that the code makes.
* The whole: every line of the journal waits for an analysis, was read by one, has expired,
  or is missing for a reason the modules name; and none is read twice without such a reason.

## 2. Modules

Each component has one module with its state, `Init`, one action for each handler
or step between two awaits, `Next`, `Spec`, and its properties at the end.
Operators named `Buggy...` stand beside the code they would change.  They hold
plausible bugs (a dropped guard, a swapped order) used to confirm that each property
notices one; no specification uses them.

### AgentCollector

*State.*  `journal`, `written`: the lines of the host and how many exist; a position
stands for a journal cursor and 0 for the empty one.  `file` is
`data/cursor.txt`.  `cursor`, `patterns`, `cache`, `cleanAt`, and the read in progress
(`pos`, `last`, `batch`) die with the process.  `stored` and `limbo` are the
controller as the agent sees it: batches it has stored, and pushes the agent gave
up on that it may still store.  Of the history variables, `excused`, `unacked`, `twin` and
`exposed` hold the reasons why a line may be missing or repeated: left out, in a push that
failed, left out for another line of its text, beyond the saved cursor when the process died.

*Actions.*  `StartAgent`/`Crash` (main), `Cleanup` (Dedup.cleanup, every half TTL),
`UpdatePatterns` (the poller), `StartCollect` (arguments of journalctl: from the
cursor, or the last 100 lines), `ScanBad`, `ScanIgnored`, `ScanDuplicate`,
`ScanFresh` (the branches of the scan loop, one line each), `EndRead`, `CutRead`,
`Stall` (the end of the output; a killed journalctl; the scanner's limit with
journalctl blocked on the pipe), `PushOk`, `PushFails`, `LateStore`, then
`OpenCursorFile`, `WriteCursor`, `SaveFails` (os.WriteFile in its two steps).

*Abstractions.*  A tick of the collection loop may come at any time the loop is idle.
A message is the text journald.go:65 yields and is compared as a whole (the code compares its
SHA-256).  A MESSAGE that is not a string, as journald exports binary ones, reads as the empty
text: all such lines are one message, and one of them is dropped for another as a duplicate.
The timers fire on time at the granularity of the model's clock.  journald does
not vacuum lines that have not been read.

### LogDelivery, what the collector promises

The abstract specification of a journal and its cursor.  `Pass` moves the cursor on, and not
back, over lines that are all accounted for at that moment (stored, left out, the agent's own, or left
to another line of the same message that is stored, the agent's own, or in a push that failed), and stores the last of them in the
same step, none of which it has passed before; `Save` empties the file or writes the cursor to
it; `Start` goes on from the file, whatever that is; `FailedPush` leaves the cursor where it
is and its batch to the controller, which may store it later (`LateStore`).  There is
no cache, filter, reader, stage or clock.  `AgentCollector` implements it (`ImplementsDelivery`):
the lines left out are the filtered and the malformed ones, and a process is up while `pc` is not
"down".

### Inspection

*State.*  The tables (`dated`, `urls`, `batches`, `analyzed`, `aid`, `at`, `rows`, `records`),
the loop (`loop`, `wake`, `awaited`) and the tasks (`task`: stage, loaded rows, severity,
whether the mail was sent, when the cooldown was checked).  `aid` is
`analysis_id`; `rows` are the batches that have rows in `log_entries`; `dated` says whether
`created_at` has a default, which it has not where the migration added the column (finding 4).
Of the history, `early`, `lost` and `overlapped` are the nodes alerted twice within the cooldown,
those whose last alert lost its record, and those on which rounds overlap.

*Actions.*  `Heartbeat`, `Ingest` (one transaction each), `Cleanup`
(cleanup_old_data), `StartRound` (when the sleep of tasks.py:108 is over), `SkipRound` (no node
has a URL, or the nodes cannot be read), `TaskFails` (an error from outside), `Crash`, and the stages
of `_inspect_node` between awaits: `ReadBatches`, `ReadEntries`, `Analyze`,
`CheckCooldown`, `SendAlert`, `Commit`, `MarkEmpty`, and `CommitStale`: when the cleanup has
deleted a batch that another task marked, the UPDATE of this task misses its row and the commit
raises StaleDataError.  `Return` and `Raise` are the two ways a task ends for `gather`; if it is awaited, the
second ends the round.

*Abstractions.*  The outcome of an analysis is any severity in `Severities` or a
failure; the module Analyzer says how it comes about.  Dates are compared as text
in the code, with microseconds on one side only: an instant of the model is such a
second, and the limit itself counts as before it (`Recent`, `Expired`).  The outcome of
the mail is not looked at, as in the code.  Commits are atomic and each SELECT sees
the latest committed rows, as SQLite has it.  INSERT and COMMIT of a record are one step here:
the row is not seen in between, and the date of the INSERT is in any case not before the mail, from
which the cooldown counts; Migration has the two apart.  A task may take longer
than any sleep.

### BatchLifecycle, what the inspection promises

The abstract specification of a batch: unknown, fresh, stale (its entries have
been purged unread), analyzed, purged.  `Report` covers waiting batches of one node and
reads every one that still has entries; `Settle` marks without a report only batches
that have nothing left; `Cleanup` and `Push` are the rest of its life; and only after a
`Fail` may a report cover what is analyzed already.  `Inspection` implements it
(`ImplementsLifecycle`): `LifecycleOf` computes the state of a batch from the tables,
the reports are the records, and `faulty` says whether a task ever failed.  Rounds,
tasks, sessions, snapshots and restarts are gone.

### Ingest

One node, because sessions of different nodes touch different rows.  *State:* the agent's
`cursor`; `reqs`, the pushes and heartbeats under way, each with its age, its session's
`view` of the row and its stage (sent, accepted by the middleware, row loaded,
answered); and the tables `row` and `stored`.  `pushed` remembers the last push that the agent
heard succeed, and `late` that a push nobody waited for any more wrote the row's cursor.
*Actions:* `SendPush`, `SendBeat` (one of each
at a time: both loops wait for the answer), `SkipRead` (a read whose lines were all dropped:
the cursor is committed without a push, main.go:140 and 160-162), `Hear`, `GiveUp` (the client's 10 s and
5 s), `Restart` (from the cursor file, which may be older than the cursor), `Authenticate` (the age limit of auth.py:22-26 against two clocks), `Load`
(`db.get`), `Commit` (the row as the session saw it, with the batch, in one
transaction; an INSERT of a row that is there fails and the batch with it), `Lose`.

*Abstractions.*  A request nobody waits for has no age once it is accepted, and goes
when it is answered (`Remains`).  A batch is known by its
`since_cursor`, which the agent fills with the cursor its read ended at (main.go:146).
SQLAlchemy writes only the columns that changed, which is what `Written` says: a
heartbeat's session writes the URL, never the cursor.

### Migration and DailyReport

`Migration` is `lifespan`, statement by statement: `StartUp` (create_all), `Column`
for each entry of SCHEMA_MIGRATIONS, `AddDates` and `Backfill` for the one with an UPDATE, `Serve`
(ready, or "continuing" after an error), `Stop`; and `Insert`, whose
`created_at` is the column's DEFAULT, if there is one, and `EndInsert`, the COMMIT or rollback
some time later (`pending` is the row in between; SQLite has one writer at a time).  `DailyReport` extends it with
the process's other half: `sleep`, the rest of the loop's sleep; `jobs`, the reports in
the making (of the loop and of the endpoint), each with the window it fixed at its start and
what it found; `reports`, those handed to the mailer.  `Begin` and `Crash` carry the
loop along with `Serve` and `Stop`.  `UntilReport`, `DayOf` and `Within` are the arithmetic of
dates in the code, on an integer clock.

*Abstractions.*  A row remembers when it was inserted (`made`) beside its `created_at`
(`date`); what a day's records are is said by the first, what a report finds by the second.  A
transaction is open for at most `MaxWrite`.  A day has `Day` instants; its instant 0 is the second
of midnight, whose records the text comparison of tasks.py:178 leaves out.  `SetClock` moves the wall clock
and not the sleep (asyncio sleeps on the monotonic clock); a suspended host is
the same.  A report takes at most `MaxRun`, less than a day.  Daylight saving is
left out.  The audit rows of a day are selected like its records.

### Pipeline

`Agent == INSTANCE AgentCollector` and `Controller == INSTANCE BatchLifecycle`, meeting
in `Deliver` (stored and answered in time), and `DeliverLate` (stored after the agent gave
up or died); `content` remembers which lines a batch has.  The controller is taken by its
abstract specification, which `Inspection` is proved to implement; the agent in full, because
`EveryLineArrives` needs its fairness.

### TokenBucket

`is_allowed` for every key, in exact arithmetic (`Cost` is the time one token takes;
the code's floats are not modelled), with a clock that `SetBack` may turn back.
`Grant` and `Refuse` are the two results.

### ToolDispatcher

`dispatch`: TokenBucket in front of AgentExecutor.  `Dispatch` is a call: refused, or paid for and
then either not valid or sent (`Sent`, a new request).  An analysis waits for its call to end, but
others run beside it, of other nodes or of the same one, so that a call may come at any
time.  `Second` moves both clocks, `SetBack` only the limiter's, which is the wall clock.  The
executor's variables are those of the request sent last: an earlier one that still runs is
followed in the behaviours without a further call, since requests share nothing but the limiter.

### AgentExecutor

One request, because handlers share no state: the client with its limit (`client`,
`closedAt`), the network (`lost`), the handler, the goroutine of
`exec.CommandContext` that watches the context (`watch`, `watchErr`), the process
(`leader`, `code`), a child holding its output (`child`), and the response.  `Start`
covers `ExecuteAction` up to the running process, `Reap` and `Finish` the two waits
inside `cmd.Run`.  `ping` and `systemctl` run as the agent, `smartctl` and `journalctl` under
sudo as root, which the agent's signal does not reach.

*Abstractions.*  `Tick` waits for what is due within the second (`Due`): timers,
reaping, and the end of a connection.  The request and its answer may be under way for any time, so
that the command may start late, or when the client has given up (then the handler sees at once
that it is gone, `GoneAt`).  How long commands and children take is open.
The semantics of `os/exec` is that of Go 1.20 and later without `WaitDelay`.

### Analyzer

One analysis: `attempt` and `iterations` of the two nested loops, the conversation
(`messages`, reduced to roles, the number of tool calls, and what a tool message
holds), the calls still to do (`todo`), and the audit rows.  `AskFails`,
`AskMalformed`, `AnswerHollow`, `AnswerWithTools`, `AnswerWithReport` are the results
of chat_completion and analyze_logs with the routing that follows; `NotSent`,
`ArgumentsMalformed`, `Post`, `AgentAnswers`, `PostFails`, `Logged`, `LogFails`, `Relogged`,
`RelogFails` are execute_tools and dispatch; `CallDone` ends a call with its message, or with
the KeyError of a call that came without an id (analyzer.py:137), which is outside the try; `Stop` is a killed controller or a
cancelled task.

*Abstractions.*  Whether a call is refused (rate limit, validation) is open here:
ToolDispatcher has the first, and the validators are pure.  Texts and token counts
are left out, back-off takes no time.  The conversation has a role and a call count
where the code has dictionaries; ids of calls are replaced by their order.

### MC modules and proof modules

`MCAgentCollector`, `MCInspection`, `MCToolDispatcher`, `MCDailyReport` and `MCPipeline` give the
model values and sets the configurations use.  AgentExecutor, Analyzer and Ingest have only
numbers as constants and are checked directly.  `AgentCollectorProofs`, `InspectionProofs`,
`IngestProofs`, `DailyReportProofs` (with Migration), `PipelineProofs`, `ToolDispatcherProofs` (with
TokenBucket and AgentExecutor) and `AnalyzerProofs` hold the theorems.

## 3. What the runs show

| run | instance | shows |
|---|---|---|
| `collector_delivery` | 2 lines over 2 texts and all kinds, 2 filter settings, TTL 2, 5 instants, 1 crash (about 3.4 million states) | `LossNeedsFailure`, `NoSpuriousResend`, `SuppressionBounded`, `ImplementsDelivery`, `NoRepeatWithinTTL`, types |
| `collector_retry` (violated) | 2 plain lines, no crash | finding 1 |
| `inspection` | 2 nodes, one with 2 batches, up to 2 tasks each, a low and a high severity, tables with and without dates, 1 fault (a crash or a failing task), sleep, cooldown and retention 1, 3 instants (about 370,000 states) | `AnalyzedWasRead`, `AnalyzedOnce`, `AlertsSpaced`, `OneTaskPerNode`, `SuppressionJustified`, `EveryBatchMarked`, `ImplementsLifecycle`, types |
| `inspection_isolation` (violated) | 2 nodes with a batch each, every severity high, cooldown 2 | finding 2 |
| `tool_calls` | 1 node, capacity 2, 5 instants, one step back of the clock; limits 2 and 3 of each request (about 9.4 million states) | `WindowBound`, `RefusalJustified`, `ClientOutlastsCommand`, `SuccessInTime`, `OutputComplete`, `NothingRunsForNobody` |
| `executor_group` (violated) | limits 1 and 2 | finding 3 |
| `analyzer_runs` | 3 answers, 2 attempts, 2 calls per answer (about 825,000 states) | `ConversationComplete`, `CallsAudited`, `OutputOnRecord`, `VerdictComplete`, `CostBounded`, `AlwaysNearerToEnd` |
| `tool_rounds` (violated) | 3 answers, 1 attempt, 1 call per answer | finding 5 |
| `ingest` | 3 requests at once, 2 cursors, time limits and age limit 1 (about 970,000 states) | `RowFollowsPushes`, `CursorsAreStored`, `UrlKept`, `RefusalNeedsRace`, `NodeGetsUrl`, types |
| `reporting` | two days of 3 instants and the midnight after, 3 earlier schemas, 2 records, transactions of up to 1 instant, 1 report by request, 1 clock jump of -1 or 2 (about 3.7 million states) | `MigrationComplete`, `ReportedOnce`, `DayComplete`, `NoDaySkipped`, types |
| `migration_dates` (violated) | 3 instants, no clock jump | finding 4 |
| `pipeline` | 2 lines of 1 text (the agent's own or not), 2 batches, 2 reports, 1 crash (about 144,000 states) | `LineFate`, `ReadOnce`, `EveryLineArrives` |

**Why the bounds are enough.**  Two journal lines give every relation between a line
and an earlier one (duplicate of it, behind it in the batch, behind a malformed or
oversized one), and with `TailN = 1` one of them can fall out of the tail.  Five
instants are more than a TTL and a period of the cleaner (3), so that an entry can
live, expire and be entered again, and `SuppressionBounded` reaches its bound.  One crash can hit every step; a second one
starts from states a first one reaches.  In Inspection a node `n` has two batches, of which one may
be loaded and one arrive late, or both be loaded and one be deleted under a task; the other, `m`, is there
to fail, so that the round ends while a task of `n` runs on, and the next one starts a second
task in the other slot.  That is the only way to two tasks on a node, and the case of the failing commit
needs it.  One fault is either that or a crash.  Sleep, cooldown and retention of 1 in three instants
let each of them elapse while a task is under way.
In Analyzer three answers are the code's own limit:
the first, one in the middle, and the last, whose calls are dropped; two attempts
have a failing first and a failing last.  In ToolDispatcher the limits 2 and 3 keep
the order of 30 and 35, and a request is followed for one instant beyond the later one; four seconds fill
a bucket of two tokens that take two each, so that it can be emptied, refilled and overdrawn by a clock set back.  In Ingest three requests
are a push, a heartbeat and one left over from a client that has gone; cursor 2
lets a late push be the older one, or the agent's cursor be ahead of the row's; limits of 1 let a request expire
before the middleware sees it.  In DailyReport a day of three instants has one before, at and after
8:40; two days have two reports and room for a restart before, at and after each; a transaction
of one instant can be open over midnight; the schemas are
those of a database with the dates, the URL or both missing.  In Pipeline two lines of one text
are the hard case (the second may be dropped for the first); time stands
still, because what the cache forgets is collector_delivery's question, so a message is suppressed
for as long as the process lives; a batch for each line and a report for each batch.
The safety properties of all modules are in any case proved for all values.

**Liveness and fairness.**  `EveryLineArrives` rests on the agent's `Fairness`: weak for what the process
does by itself (systemd's `Restart=on-failure` for `StartAgent`, the loop for `StartCollect`, the
end of the output for `EndRead`), strong for what an outside failure can
pre-empt again and again (a killed read, a refused push, a failed save): the failure
may happen any number of times but not for ever.  Crashes and pattern updates are
not required to stop, though crashes are bounded.  Of the controller it takes what `EveryBatchMarked`
shows, as weak fairness: a waiting batch is done with.  The property is stated for
journals of well-formed lines, because malformed ones do not move the cursor and
an oversized one stops the collection (`pc = "stuck"`).
`EveryBatchMarked` assumes weak fairness of the clock and of each stage of a task,
since HTTP client, mailer and database all have time limits, and strong fairness of `StartRound`: when the
loop wakes again and again with a node to inspect, the SELECT of the nodes succeeds in the end.  It speaks
of the batches of nodes that have a URL, and assumes nothing of heartbeats: a node without one is
never inspected (tasks.py:121), and that it gets one is Ingest's `NodeGetsUrl`.  Failures from
outside are bounded by `Faults`; those that the program brings about itself, by deleting a batch under
a task, are not.  `NodeGetsUrl` assumes that the heartbeat loop sends again and again
(strong, since it can only while none is awaited), that the stages of a session
are reached, that a request is heard of or given up, that a heartbeat is
not always too old when it is looked at, and that from some moment on none is lost.
ToolDispatcher, Analyzer and DailyReport have no liveness property: a
command may run for ever, how long the model's API takes is not the code's to
say, and that days are not skipped is a safety property on a clock.  That an analysis ends
whatever the API and the node answer, as long as they answer or time out, is stated without
fairness: `AlwaysNearerToEnd` says that each step lowers a measure.

**Deadlock** is checked except where the system may rest: behind an oversized line, and after
the end of an analysis.  (`executor_group` turns it off too: its violation comes before the end of the request.)

### Findings

1. **A failed push is not retried** (`collector_retry`).  main.go:153 says "will
   retry next tick".  The lines entered the cache while they were read
   (journald.go:76), so the next tick drops them as duplicates, finds nothing to push, and
   commits the cursor past them.
2. **The failure of one node disturbs another** (`inspection_isolation`).  tasks.py:114
   says it does not.  `gather(return_exceptions=False)` ends the round while the
   other tasks run on; the next round inspects their nodes a second time and repeats
   analysis and alert.
3. **The time limit does not kill children** (`executor_group`).  sandbox.go:26
   creates a process group "so we can kill all child processes"; nothing signals it.
4. **Records of a migrated database have no date** (`migration_dates`).  main.py:56 says
   the ORM's server_default fills it in.  A server_default is a DEFAULT of CREATE
   TABLE; the column added by ALTER has none, and the INSERT leaves created_at out.  The
   cooldown and the daily report do not see such records.
5. **Tools can be used in two rounds, not three** (`tool_rounds`).  prompts.py:12 tells the model that it
   may call tools up to three times in succession, and ai_coding_task.md:291 asks for up to
   three rounds.  analyzer.py:145 ends the graph at the third answer, before it looks for tool
   calls: a third round is dropped, and with it the verdict.  The batches are marked, and no alert is sent.

Smaller observations, each visible in a guard of a property or an assumption:

* A restart, or a failing task, between the mail and the commit of its record repeats the alert, although
  tasks.py:85 calls the cooldown persistent; so do overlapping rounds, and every round in a table
  without dates: the three exceptions of `AlertsSpaced`.
* A record inserted in the second of midnight, or committed while a report is made, is in no report:
  the exceptions of `DayComplete` beside the undated ones.
* A process that is down at 8:40 does not make up for the report: `NoDaySkipped` counts from its start.
* A kill between ALTER and UPDATE leaves the old records undated for good: an exception of `MigrationComplete`.
* A clock set ahead during the loop's sleep, or a host that was suspended, can have the loop wake
  before 8:40 and report a day twice: `ReportedOnce` excludes clock jumps.
* `POST /analysis/daily-report` answers success whatever became of the report
  (analysis.py:63): `Fail` of a request is not visible to its caller.
* The backfill dates old records with the moment of the migration, so they count in that day's
  report and in the cooldown of the next minutes.
* A line dropped for the same text that the agent itself logged is stored nowhere: it is an
  exception of `LossNeedsFailure` and of `LineFate`.

## 4. What is proved

All theorems are of the form `Spec => []P`, `Spec => [][A]_vars` or `Spec => Abstract!Spec`,
for every value of the constants that satisfies the module's named assumption.  Every invariant
and every action property of the runs is proved, and both refinements.

**AgentCollectorProofs** (assumes `ConstantsAssumption`).  `LossNeedsFailure` is not
inductive: it says nothing about lines still being read.  `DeliveryInv` adds
that lines between the cursor and the read position are settled or in the batch,
that a cached message has an origin that is settled or in the batch, and how `file`,
`cursor` and `written` are ordered at each stage.  `SuppressionBounded` needs that
an entry older than a TTL is gone after the cleaner's next visit, and
`NoRepeatWithinTTL` that an entry younger than a TTL is still in the cache.
`NoSpuriousResend` needs that whatever is stored, or may be stored late, lies behind the point where the
next read starts, in a push the agent saw fail, or among the lines that a death of the process
exposed (`ResendInv`).  With a live process that point (`Resume`) is the cursor; when there is none it is
the saved cursor: between the two lies exactly what a crash exposes.

*Refinement* (`CollectorDelivers`).  Beyond the invariants it takes two facts.  A line that is
settled in the collector's sense is accounted for in LogDelivery's (`SettledIsAccounted`), once
the batch is stored; and `PushOk`, or an `EndRead` with nothing to push, is a `Pass` from the old cursor
to the last line read (`CommitPasses`).  Reading a line is `LeaveOut`, `LeaveTo` or a stutter, by
what the line is.  Two smaller theorems are stated by themselves, because they hold of the
concrete variables at every stage: `FileBehindCursor` (the file never runs ahead of the
cursor while a process lives) and `CursorNeverBack`.

**InspectionProofs** (assumes `InspectionAssumption`).  Of its parts those that are
not properties are
`TaskInv` (a task holds batches of its node and has read the entries of those
that still have any), `JustifiedInv` (a task about to save a high severity without a
mail has its reason on record), `RoundInv` (without a failure, live tasks are
awaited, one for each node), `OnceInv` (without a failure, live tasks and records share no
batch, and batches of a record are marked) and `AlertInv` (while records have dates, and unless its record was
lost or rounds overlap on the node, the last alert of a node is on record or its task is about to commit it, and
a task about to mail has a full cooldown behind it).  `OnceInv` survives a crash
because record and marks are one transaction; the mail is outside it, which is what `lost` is for.
A crash or a failure that finds no mail without its record leaves `AlertInv` as it is.

*Refinement* (`InspectionImplementsLifecycle`).  Each step of Inspection is a step of BatchLifecycle
or a stutter; beyond the invariant it takes `HoldInv`: a task past its first query
holds batches, a task that analyzes has read some entries, and while no task has
failed none of its batches is marked already.  `Commit` is `Report`, because the batches that
still have entries are among those read; `MarkEmpty` is `Settle`.  `BatchesMoveOn` draws from it
what a batch can do over time: it never goes back in its life, so that no restart or
leftover task makes an analyzed batch pending again, and it is purged only after it was analyzed.

**IngestProofs** (assumes `IngestAssumption`: each client's limit and the skew of the clocks fit
into the middleware's window).  `RequestInv` says what a request that is awaited, loaded or
answered tells of the tables; `FollowInv` that, unless the row's cursor was written by a push nobody
waits for, `RowFollowsPushes` holds, a push that is awaited has loaded the cursor the row still has, and
one that was answered left its own there.  The agent's cursor plays no part, because it also moves without
a push.  `RefusalNeedsRace` needs the assumption: a request that is
still awaited is younger than its limit, and so passes the middleware.

**DailyReportProofs** (assumes `MigrationAssumption` and `ReportAssumption`).  `MigrationInv`: the
columns the running start-up has passed are there, a column that is there stays,
and once created_at is, an old record without a date tells of a start-up that was
cut.  `CompleteInv`: while the clock was not set back, nor a row being written when it was set, the
day of a report was over when it was begun (`Past`), so that nothing is inserted into it any more; what
was inserted on it and is not found (`Full`, over committed and pending rows) was inserted at most
`MaxWrite` before the report was begun, or has no date, or is of the second of midnight.  `PlanInv`: while the clock was not set, a sleep ends at an instant due
(`Due`), and a report was begun at the instant due for its day.  `OnceInv`: what was
reported was due before the instant the loop sleeps until.  `SkipInv`: what was due since the
start, and before that instant, was reported; a report takes less than a day, so no second
one falls due meanwhile.  The lemmas in front are about `div`: instants due are a day
apart (`DueOrder`), `UntilReport` leads to the next one (`NextDue`), and there
`DayOf` is the day it is due for (`DayOfDue`).

**PipelineProofs** (assumes `PipelineAssumption`, which contains the collector's).  Every step of
the pipeline is a step of the agent or leaves it alone, and likewise one of the controller
(`PipelineComposes`), so the theorems about the
collector, taken by instantiation, hold in it.  `PipelineInv` adds that whatever the
agent calls stored is in a batch, and that a batch is fresh, has expired, or
was read by a report; the last because `Report` may not pass over fresh batches and `Settle` may
not take any.  `ReadOnce` joins the two halves of the system: two batches share no line but for failed pushes and
crashes (`ContentInv`, which each stored batch keeps because of the collector's
`NoSpuriousResend` and of what `ResendInv` says of late batches), and while no task
has failed no batch is read by two reports (`ReadInv`).

**ToolDispatcherProofs** (assumes `BucketAssumption`, and `TimeoutsAssumption`: the agent's limit is
the shorter one).  *The limiter:* `CallsBounded` follows
from an invariant (`PaidInv`): the calls granted since `start` plus the tokens left
never exceed a full bucket and its refill up to the last update; steps back of the
clock only take tokens away.  `RefusalsJustified` needs that a bucket holds at least what was filled since
the last grant, whatever the clock did.  *A request:* the invariant ties the stages of handler, watcher
and process together (`Shape`), says when each can still be waiting (`InTime`, `Prompt`), and that a command
that ended without an error of the watcher ended in time (`EndedInTime`).  The race between
exit and kill is decided there: whoever comes first, exit code 0 is reported only
when the watcher had not fired.  *The dispatcher:* its behaviours are, seen from the limiter, the
limiter's (`UsesLimiter`), and each of its steps is one of the last request, or leaves it alone, or is the
beginning of a new one, for which the invariant holds again; so the six properties hold for any
number of calls (`CallsCorrect`).

**AnalyzerProofs** (assumes `LimitsAssumption`).  `ConversationComplete` speaks only of the
moments the model is asked; `Conversation` says what holds while tools run: a message
that is not a tool's has all its answers and an assistant's message behind them, or it
is the last one and waits for exactly the calls in `todo`.  `AuditInv` gives each
request that is done with one row, or none if it was refused twice, and the one under way
none, so that logging again after a failed commit cannot write a second row;
`StatusInv` ties the status carried to that row to what the agent said.  `CostInv` counts
posts and requests by iteration; the lemmas `Times` and `Room` are the facts about
products it needs.  `AnalysisEnds` proves that the measure of `AlwaysNearerToEnd` (iterations left,
then calls left, then what is left of the answer or call, `Effort`) falls with every step, so that
no order of failures and retries goes on for ever; `TypeOK`, which bounds its parts, makes the
order well-founded.

**Only model-checked:** the liveness properties `EveryLineArrives`, `EveryBatchMarked` and
`NodeGetsUrl`, which are outside the prover's reach under fairness.  The five violated properties are
counterexamples found by TLC.

## 5. Plan

Done: AgentCollector with LogDelivery, Inspection with BatchLifecycle, TokenBucket and AgentExecutor with ToolDispatcher,
Analyzer, Ingest, Migration, DailyReport and Pipeline, all with proofs of their safety properties.

Next, in this order:

1. Analyzer with ToolDispatcher in place of its open choices.
2. What the daily loop promises (days reported one after the other), as an abstract specification
   that DailyReport implements unless the clock is set.
3. Ingest for several agents that share a node name, which the code does not exclude.

## 6. What is not modelled, and why

* Heartbeat gauges, mail and MIME, charts and HTML, SQLite settings, installation scripts: I/O or
  layout.  A rejected or failed request appears where its caller sees it.
* Configuration files and their fetching: their result is the choice of a pattern set.  Two
  of its rules stay outside: an empty list from the controller is ignored, and an
  invalid pattern rejects the whole list.
* HMAC signatures: a pure function; the agent's requests are signed correctly.  The age limit, which
  depends on time, is in Ingest.
* Log filter and sanitizer of the controller, prompts and the parsing of a report:
  pure text functions; their result is the choice of a severity.
* The queries of the API (`api/routes/analysis.py`): SELECTs without an effect.
* Floating point in the rate limiter, hash collisions, journal vacuum, daylight saving, and
  clocks of the agent that jump.
* The delivery of mail, which the code does not look at, and the growth of a
  prompt after failed analyses.
