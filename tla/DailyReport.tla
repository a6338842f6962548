----------------------------- MODULE DailyReport -----------------------------
(***************************************************************************)
(* The daily report: a loop that sleeps until 8:40 and mails what happened *)
(* the day before, and an endpoint that does the same at once.             *)
(*                                                                         *)
(*   controller/scheduler/tasks.py        daily_report_loop,               *)
(*                                        generate_daily_report            *)
(*   controller/api/routes/analysis.py    trigger_daily_report             *)
(*                                                                         *)
(* The loop computes how long to sleep from the wall clock and then sleeps *)
(* on the monotonic one.  It lives in the process that Migration starts,   *)
(* and reads the records whose dates that start-up may have lost.          *)
(***************************************************************************)
EXTENDS Migration

CONSTANTS
  Day,       \* length of a day; its instant 0 is the second of midnight
  ReportAt,  \* 8:40
  MaxRun,    \* time a report takes at most (SQLite and SMTP have time limits)
  MaxWrite,  \* time from an INSERT to its COMMIT at most (SQLite has a busy timeout)
  Jumps,     \* how far the wall clock may be set, at once
  MaxJumps,  \* bound: how often
  Requests,  \* bound: reports mailed by request
  MaxTime    \* bound: the last instant

ASSUME ReportAssumption ==
  /\ Day \in Nat /\ Day >= 2
  /\ ReportAt \in 1..(Day - 1)
  /\ MaxRun \in 0..(Day - 1) /\ MaxWrite \in Nat
  /\ Jumps \subseteq Int
  /\ MaxJumps \in Nat /\ Requests \in Nat /\ MaxTime \in Nat

VARIABLES
  sleep,     \* what is left of the loop's sleep
  jobs,      \* reports in the making, of the loop and of a request
  reports,   \* reports handed to the mailer
  \* History.
  repeated,  \* the loop mailed a report of a day it had reported already
  since,     \* when the loop was started
  disturbed, \* since then the clock was set, or a report failed
  skewed,    \* the clock was ever set back, or set while a row was being written
  jumps

reportVars == <<sleep, jobs, reports>>
reportHistory == <<repeated, since, disturbed, skewed, jumps>>
vars == <<now, migrationVars, reportVars, reportHistory>>

Makers == {"loop", "request"}
Times  == 0..MaxTime
Days   == -1..(MaxTime \div Day)
Job    == [stage : {"none", "reading", "mailing"}, day : Days, began : Times,
           found : SUBSET Record]
NoJob  == [stage |-> "none", day |-> 0, began |-> 0, found |-> {}]

TypeOK ==
  /\ now \in Times
  /\ MigrationTypeOK
  /\ sleep \in 0..Day
  /\ jobs \in [Makers -> Job]
  /\ reports \in SUBSET [maker : Makers, day : Days, began : Times,
                        found : SUBSET Record]
  /\ repeated \in BOOLEAN
  /\ since \in Times
  /\ disturbed \in BOOLEAN /\ skewed \in BOOLEAN
  /\ jumps \in 0..MaxJumps

Init ==
  /\ now = 0
  /\ MigrationInit
  /\ sleep = 0 /\ jobs = [m \in Makers |-> NoJob] /\ reports = {}
  /\ repeated = FALSE
  /\ since = 0 /\ disturbed = FALSE /\ skewed = FALSE /\ jumps = 0
-----------------------------------------------------------------------------
(* The clocks. *)

Up        == stage = "up"
Sleeping  == Up /\ jobs["loop"].stage = "none"

\* The loop wakes on time, and reports and transactions have their limits.
Tick ==
  /\ now < MaxTime
  /\ Sleeping => sleep > 0
  /\ \A m \in Makers : jobs[m].stage # "none" => now - jobs[m].began < MaxRun
  /\ \A x \in pending : now - x.made < MaxWrite
  /\ now' = now + 1
  /\ sleep' = IF Sleeping THEN sleep - 1 ELSE sleep
  /\ UNCHANGED <<migrationVars, jobs, reports, reportHistory>>

\* The wall clock is set; a sleep under way does not notice.
SetClock ==
  /\ jumps < MaxJumps
  /\ \E d \in Jumps :
       /\ now + d \in Times
       /\ now' = now + d
       /\ skewed' = (skewed \/ d < 0 \/ pending # {})
  /\ jumps' = jumps + 1
  /\ disturbed' = TRUE
  /\ UNCHANGED <<migrationVars, reportVars, repeated, since>>
-----------------------------------------------------------------------------
(* daily_report_loop. *)

TimeOfDay(t) == t % Day

\* Wakes at the very instant, and plans it again.
BuggyUntilReport(t) ==
  ReportAt - TimeOfDay(t) + (IF TimeOfDay(t) > ReportAt THEN Day ELSE 0)

\* 8:40 of today in any case.
BuggyUntilToday(t) == ReportAt - TimeOfDay(t)

\* 8:40 of tomorrow in any case.
BuggyUntilTomorrow(t) == Day + ReportAt - TimeOfDay(t)

\* sleep_seconds: until 8:40 of today, or of tomorrow if that is not ahead.
UntilReport(t) ==
  ReportAt - TimeOfDay(t) + (IF TimeOfDay(t) >= ReportAt THEN Day ELSE 0)

\* The loop sleeps again, or a request is over.
Finished(m) ==
  /\ jobs' = [jobs EXCEPT ![m] = NoJob]
  /\ sleep' = IF m = "loop" THEN UntilReport(now) ELSE sleep

\* The start-up ends, whether or not it met an error, and starts the loop.
Begin ==
  /\ Serve
  /\ sleep' = UntilReport(now)
  /\ since' = now /\ disturbed' = FALSE
  /\ UNCHANGED <<jobs, reports, repeated, skewed, jumps>>

Crash ==
  /\ Stop
  /\ jobs' = [m \in Makers |-> NoJob] /\ sleep' = 0
  /\ UNCHANGED <<reports, reportHistory>>

\* The rest of the start-up, and the analyses, go on without the loop.
Migrate ==
  /\ StartUp \/ Column \/ AddDates \/ Backfill \/ Insert \/ EndInsert
  /\ UNCHANGED <<reportVars, reportHistory>>
-----------------------------------------------------------------------------
(* generate_daily_report. *)

\* The day that has begun.
BuggyDayOf(t) == t \div Day

\* start_local: the day before.
DayOf(t) == t \div Day - 1

\* The window is fixed at the start.
Start(m) ==
  /\ Up /\ jobs[m].stage = "none"
  /\ m = "loop" => sleep = 0
  /\ m = "request" => Cardinality({r \in reports : r.maker = m}) < Requests
  /\ jobs' = [jobs EXCEPT ![m] = [stage |-> "reading", day |-> DayOf(now),
                                  began |-> now, found |-> {}]]
  /\ UNCHANGED <<now, migrationVars, sleep, reports, reportHistory>>

\* created_at between start_utc and end_utc, as text: 'HH:MM:SS' sorts before
\* 'HH:MM:SS.000000', so the second of midnight is before its own day, and null is
\* in none.
Within(date, d) == date # Null /\ d * Day < date /\ date < (d + 1) * Day

\* The SELECT, if the columns it names are there.
Read(m) ==
  /\ jobs[m].stage = "reading" /\ missing = {}
  /\ jobs' = [jobs EXCEPT ![m].stage = "mailing",
                          ![m].found = {x \in records : Within(x.date, jobs[m].day)}]
  /\ UNCHANGED <<now, migrationVars, sleep, reports, reportHistory>>

\* By the loop, that is.
Reported(d) == \E r \in reports : r.maker = "loop" /\ r.day = d

\* What becomes of the mail is not looked at.
Mail(m) ==
  /\ jobs[m].stage = "mailing"
  /\ reports' = reports \cup {[maker |-> m, day |-> jobs[m].day,
                               began |-> jobs[m].began, found |-> jobs[m].found]}
  /\ repeated' = (repeated \/ (m = "loop" /\ Reported(jobs[m].day)))
  /\ Finished(m)
  /\ UNCHANGED <<now, migrationVars, since, disturbed, skewed, jumps>>

\* An exception is only logged; the request is answered with success.
Fail(m) ==
  /\ jobs[m].stage # "none"
  /\ Finished(m)
  /\ disturbed' = (disturbed \/ m = "loop")
  /\ UNCHANGED <<now, migrationVars, reports, repeated, since, skewed, jumps>>

Next ==
  \/ Tick \/ SetClock \/ Begin \/ Crash \/ Migrate
  \/ \E m \in Makers : Start(m) \/ Read(m) \/ Mail(m) \/ Fail(m)

Spec == Init /\ [][Next]_vars
-----------------------------------------------------------------------------
(* Properties. *)

\* Unless the clock is set, the loop does not report a day twice: not for restarts at
\* any instant, not for requests, not at 8:40 sharp (tasks.py:311).  A clock set ahead
\* while the loop sleeps, or a host that was suspended, may repeat a report: the loop
\* wakes before 8:40, reports the day before, and does so again at 8:40.
ReportedOnce == jumps = 0 => ~repeated

\* What a report of the day on which row x was inserted may lack: a row without a
\* date, one inserted in the second of midnight, and one that was perhaps not yet
\* committed when the report was begun.
MayLack(x, r) ==
  x.date = Null \/ TimeOfDay(x.made) = 0 \/ r.began \in x.made..(x.made + MaxWrite)

\* Unless the clock is set back, or set while a row is written, a report, of the loop
\* or by request, has the rows inserted on its day and no others, with three exceptions;
\* rows of an earlier version count for the day that dated them.
DayComplete ==
  ~skewed => \A r \in reports :
    /\ \A x \in r.found : ~x.old => x.made \div Day = r.day
    /\ \A x \in records :
         ~x.old /\ x.made \div Day = r.day => x \in r.found \/ MayLack(x, r)

\* 8:40 of the day after d.
Due(d) == (d + 1) * Day + ReportAt

\* Since the last start, unless the clock was set or a report failed, every day whose
\* 8:40 has come and gone was reported.
NoDaySkipped ==
  ~disturbed /\ Up => \A d \in Days :
    since < Due(d) /\ Due(d) + MaxRun < now => Reported(d)
=============================================================================
