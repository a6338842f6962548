------------------------- MODULE DailyReportProofs -------------------------
(***************************************************************************)
(* The properties of the start-up and of the daily report, for days of any *)
(* length, any report time and any clock jumps.                            *)
(*                                                                         *)
(* Days are counted with div; the first lemmas say what that means for the *)
(* instants at which reports are due.                                      *)
(***************************************************************************)
EXTENDS DailyReport, TLAPS

\* Two instants due are a day apart.
LEMMA DueOrder ==
  ASSUME NEW d \in Int, NEW e \in Int
  PROVE  /\ Due(d) \in Int
         /\ Due(d) < Due(e) <=> d < e
         /\ Due(d) < Due(e) => Due(d) + Day <= Due(e)
<1>1. Day \in Nat /\ ReportAt \in Nat /\ Day >= 2
  BY ReportAssumption
<1>2. /\ (d + 1) * Day \in Int /\ (e + 1) * Day \in Int
  BY <1>1
<1>3. d < e => (d + 1) * Day + Day <= (e + 1) * Day
  <2> SUFFICES ASSUME d < e PROVE (d + 1) * Day + Day <= (e + 1) * Day
    OBVIOUS
  <2>1. PICK n \in Nat : e = d + 1 + n
    <3>1. e - d - 1 \in Nat /\ e = d + 1 + (e - d - 1)
      OBVIOUS
    <3> QED
      BY <3>1
  <2>2. n * Day >= 0 /\ n * Day \in Int
    BY <1>1
  <2>3. (e + 1) * Day = (d + 1) * Day + Day + n * Day
    BY <1>1, <2>1
  <2> QED
    BY <1>1, <1>2, <2>2, <2>3
<1>4. e < d => (e + 1) * Day + Day <= (d + 1) * Day
  <2> SUFFICES ASSUME e < d PROVE (e + 1) * Day + Day <= (d + 1) * Day
    OBVIOUS
  <2>1. PICK n \in Nat : d = e + 1 + n
    <3>1. d - e - 1 \in Nat /\ d = e + 1 + (d - e - 1)
      OBVIOUS
    <3> QED
      BY <3>1
  <2>2. n * Day >= 0 /\ n * Day \in Int
    BY <1>1
  <2>3. (d + 1) * Day = (e + 1) * Day + Day + n * Day
    BY <1>1, <2>1
  <2> QED
    BY <1>1, <1>2, <2>2, <2>3
<1>5. Due(d) = (d + 1) * Day + ReportAt /\ Due(e) = (e + 1) * Day + ReportAt
  BY DEF Due
<1>6. d < e \/ d = e \/ e < d
  OBVIOUS
<1> QED
  BY <1>1, <1>2, <1>3, <1>4, <1>5, <1>6

LEMMA DivMod ==
  ASSUME NEW t \in Nat
  PROVE  /\ t \div Day \in Nat /\ TimeOfDay(t) \in 0..(Day - 1)
         /\ t = (t \div Day) * Day + TimeOfDay(t)
         /\ (t \div Day) * Day \in Int
BY ReportAssumption DEF TimeOfDay

\* The next instant due, and the sleep until then.
LEMMA NextDue ==
  ASSUME NEW t \in Nat
  PROVE  \E e \in Int :
           /\ UntilReport(t) \in 1..Day
           /\ t + UntilReport(t) = Due(e)
           /\ Due(e) <= t + Day
<1> DEFINE q == t \div Day
<1>1. /\ q \in Nat /\ q * Day \in Int /\ t = q * Day + TimeOfDay(t)
      /\ TimeOfDay(t) \in 0..(Day - 1)
  BY DivMod
<1>2. Day \in Nat /\ ReportAt \in 1..(Day - 1)
  BY ReportAssumption
<1>3. (q + 1) * Day = q * Day + Day
  BY <1>1, <1>2
<1> HIDE DEF q
<1>4. CASE TimeOfDay(t) >= ReportAt
  <2>1. Due(q) = q * Day + Day + ReportAt
    BY <1>3 DEF Due
  <2>2. UntilReport(t) = ReportAt - TimeOfDay(t) + Day
    BY <1>4 DEF UntilReport
  <2> QED
    BY <1>1, <1>2, <1>4, <2>1, <2>2
<1>5. CASE ~(TimeOfDay(t) >= ReportAt)
  <2>1. Due(q - 1) = q * Day + ReportAt
    BY <1>1 DEF Due
  <2>2. UntilReport(t) = ReportAt - TimeOfDay(t)
    BY <1>5, <1>1, <1>2 DEF UntilReport
  <2> QED
    BY <1>1, <1>2, <1>5, <2>1, <2>2
<1> QED
  BY <1>4, <1>5

\* At an instant due the day to report is the one it is due for.
LEMMA DayOfDue ==
  ASSUME NEW e \in Int, Due(e) \in Nat
  PROVE  DayOf(Due(e)) = e
<1> DEFINE q == Due(e) \div Day
<1>1. /\ q \in Nat /\ q * Day \in Int /\ Due(e) = q * Day + TimeOfDay(Due(e))
      /\ TimeOfDay(Due(e)) \in 0..(Day - 1)
  BY DivMod
<1>2. Day \in Nat /\ ReportAt \in 1..(Day - 1)
  BY ReportAssumption
<1>3. /\ Due(q - 1) = q * Day + ReportAt
      /\ q - 1 \in Int
  BY <1>1 DEF Due
<1>4. DayOf(Due(e)) = q - 1
  BY DEF DayOf
<1> HIDE DEF q
<1>5. /\ ~(Due(e) < Due(q - 1) /\ Due(e) + Day <= Due(q - 1))
      /\ ~(Due(q - 1) < Due(e) /\ Due(q - 1) + Day <= Due(e))
  BY <1>1, <1>2, <1>3
<1>6. ~(Due(e) < Due(q - 1)) /\ ~(Due(q - 1) < Due(e))
  BY <1>3, <1>5, DueOrder
<1>7. ~(e < q - 1) /\ ~(q - 1 < e)
  BY <1>3, <1>6, DueOrder
<1> QED
  BY <1>3, <1>4, <1>7

\* A day that can be reported is over.
LEMMA DayOver ==
  ASSUME NEW t \in Nat
  PROVE  /\ DayOf(t) \in Int /\ DayOf(t) >= -1
         /\ (DayOf(t) + 1) * Day <= t
         /\ (DayOf(t) + 1) * Day \in Int
BY DivMod DEF DayOf

LEMMA DayInRange ==
  ASSUME NEW t \in Times
  PROVE  DayOf(t) \in Days
<1>1. MaxTime \in Nat /\ t \in Nat /\ t <= MaxTime /\ Day \in Nat /\ Day >= 2
  BY ReportAssumption DEF Times
<1> DEFINE q == t \div Day  z == MaxTime \div Day
<1>2. /\ q \in Nat /\ q * Day \in Int /\ q * Day <= t
      /\ z \in Nat /\ z * Day \in Int /\ MaxTime < z * Day + Day
  <2>1. /\ q \in Nat /\ q * Day \in Int /\ t = q * Day + TimeOfDay(t)
        /\ TimeOfDay(t) \in 0..(Day - 1)
    BY <1>1, DivMod
  <2>2. /\ z \in Nat /\ z * Day \in Int /\ MaxTime = z * Day + TimeOfDay(MaxTime)
        /\ TimeOfDay(MaxTime) \in 0..(Day - 1)
    BY <1>1, DivMod
  <2> HIDE DEF q, z
  <2> QED
    BY <1>1, <2>1, <2>2
<1>3. DayOf(t) = q - 1 /\ Days = -1..z
  BY DEF DayOf, Days
<1> HIDE DEF q, z
<1>4. Due(q - 1) = q * Day + ReportAt /\ Due(z - 1) = z * Day + ReportAt /\ ReportAt \in Nat
  BY <1>2, ReportAssumption DEF Due
<1>5. ~(Due(z - 1) + Day <= Due(q - 1))
  BY <1>1, <1>2, <1>4
<1>6. ~(z - 1 < q - 1)
  <2>1. z - 1 \in Int /\ q - 1 \in Int
    BY <1>2
  <2> QED
    BY <1>5, <2>1, DueOrder
<1> QED
  BY <1>2, <1>3, <1>6
-----------------------------------------------------------------------------
(* Types. *)

LEMMA ColumnsFact ==
  /\ Len(Columns) = 5 /\ DOMAIN Columns = 1..5
  /\ Columns[1] = "agent_url" /\ Columns[2] = "cpu_usage_percent"
  /\ Columns[3] = "memory_usage_percent" /\ Columns[4] = "disk_usage"
  /\ Columns[5] = "created_at"
  /\ Names = {Columns[i] : i \in 1..5}
BY DEF Columns, Names

LEMMA LenFact == Len(Columns) = 5
BY ColumnsFact

LEMMA NumbersFact ==
  /\ Day \in Nat /\ Day >= 2 /\ ReportAt \in 1..(Day - 1) /\ MaxRun \in 0..(Day - 1)
  /\ MaxWrite \in Nat /\ Requests \in Nat
  /\ Jumps \subseteq Int /\ MaxJumps \in Nat /\ MaxTime \in Nat
BY ReportAssumption

LEMMA UntilFact ==
  ASSUME NEW t \in Nat
  PROVE  UntilReport(t) \in 1..Day
BY NextDue

LEMMA DayZero == 0 \in Days
BY DivMod, NumbersFact DEF Days

LEMMA NoJobFact == NoJob \in Job
BY DayZero, NumbersFact DEF NoJob, Job, Times

\* Dates are filled in after the last column.
DatingLast == stage = "dating" => next = Len(Columns)

TypeInv == TypeOK /\ DatingLast

\* The conjuncts of MigrationTypeOK, where an action leaves records and defaulted alone.
LEMMA FlagsType ==
  ASSUME MigrationTypeOK, defaulted' = defaulted, records' \in SUBSET Record,
         pending' \in SUBSET Record,
         missing' \in SUBSET Names, stage' \in {"down", "migrating", "dating", "up"},
         next' \in 1..(Len(Columns) + 1), cut' \in BOOLEAN, erred' \in BOOLEAN
  PROVE  MigrationTypeOK'
BY Zenon DEF MigrationTypeOK

LEMMA TypeInit == Init => TypeInv
<1> SUFFICES ASSUME Init PROVE TypeInv
  OBVIOUS
<1>1. MigrationTypeOK
  <2>1. missing \in SUBSET Names /\ defaulted \in BOOLEAN
    BY MigrationAssumption DEF Init, MigrationInit
  <2>2. records \in SUBSET Record /\ pending \in SUBSET Record
    BY DEF Init, MigrationInit, Record
  <2>3. stage \in {"down", "migrating", "dating", "up"} /\ cut \in BOOLEAN /\ erred \in BOOLEAN
    BY DEF Init, MigrationInit
  <2>4. next \in 1..(Len(Columns) + 1)
    BY LenFact DEF Init, MigrationInit
  <2> QED
    BY <2>1, <2>2, <2>3, <2>4, Zenon DEF MigrationTypeOK
<1>2. now \in Times /\ sleep \in 0..Day /\ since \in Times /\ jumps \in 0..MaxJumps
  BY NumbersFact DEF Init, Times
<1>3. jobs \in [Makers -> Job]
  BY NoJobFact DEF Init
<1>4. reports = {} /\ repeated = FALSE /\ disturbed = FALSE /\ skewed = FALSE
  BY DEF Init
<1>5. DatingLast
  BY DEF Init, MigrationInit, DatingLast
<1> QED
  BY <1>1, <1>2, <1>3, <1>4, <1>5 DEF TypeOK, TypeInv

\* What the start-up and the analyses do to the database.
LEMMA MigrateType ==
  ASSUME TypeInv,
         StartUp \/ Column \/ AddDates \/ Backfill \/ Insert \/ EndInsert \/ Serve \/ Stop
  PROVE  MigrationTypeOK' /\ now' = now /\ DatingLast'
<1>0. /\ defaulted \in BOOLEAN /\ missing \in SUBSET Names /\ records \in SUBSET Record
      /\ pending \in SUBSET Record
      /\ stage \in {"down", "migrating", "dating", "up"} /\ next \in 1..6
      /\ cut \in BOOLEAN /\ erred \in BOOLEAN /\ MigrationTypeOK
      /\ now \in Nat /\ DatingLast
  BY LenFact, NumbersFact DEF TypeInv, TypeOK, MigrationTypeOK, Times
<1>1. CASE StartUp
  <2>1. next' \in 1..(Len(Columns) + 1)
    BY <1>1, LenFact DEF StartUp
  <2>2. DatingLast' /\ now' = now
    BY <1>1 DEF StartUp, DatingLast
  <2> QED
    BY <1>0, <1>1, <2>1, <2>2, FlagsType DEF StartUp
<1>2. CASE Column
  <2>1. next' \in 1..(Len(Columns) + 1) /\ stage = "migrating" /\ missing' \in SUBSET Names
    BY <1>0, <1>2, LenFact DEF Column, Looking
  <2>2. DatingLast' /\ now' = now
    BY <1>2, <2>1 DEF Column, DatingLast
  <2> QED
    BY <1>0, <1>2, <2>1, <2>2, FlagsType DEF Column
<1>3. CASE AddDates
  <2>1. next' \in 1..(Len(Columns) + 1) /\ next' = 5 /\ missing' \in SUBSET Names
    BY <1>0, <1>3, ColumnsFact DEF AddDates, Looking
  <2>2. DatingLast' /\ now' = now
    BY <1>3, <2>1, LenFact DEF AddDates, DatingLast
  <2> QED
    BY <1>0, <1>3, <2>1, <2>2, FlagsType DEF AddDates
<1>4. CASE Backfill
  <2>1. records' \in SUBSET Record
    BY <1>0, <1>4 DEF Backfill, Record
  <2>2. next' \in 1..(Len(Columns) + 1)
    BY <1>0, <1>4, LenFact DEF Backfill, DatingLast
  <2>3. DatingLast' /\ now' = now
    BY <1>4 DEF Backfill, DatingLast
  <2> QED
    BY <1>0, <1>4, <2>1, <2>2, <2>3, FlagsType DEF Backfill
<1>5. CASE Insert
  <2>1. [old |-> FALSE, made |-> now, date |-> IF defaulted THEN now ELSE Null] \in Record
    BY <1>0 DEF Record
  <2>2. pending' \in SUBSET Record
    BY <1>0, <1>5, <2>1 DEF Insert
  <2>3. next' \in 1..(Len(Columns) + 1)
    BY <1>0, <1>5, LenFact DEF Insert
  <2>4. DatingLast' /\ now' = now
    BY <1>5 DEF Insert, DatingLast
  <2> QED
    BY <1>0, <1>5, <2>2, <2>3, <2>4, FlagsType DEF Insert
<1>8. CASE EndInsert
  <2>1. records' \in SUBSET Record /\ pending' \in SUBSET Record
    BY <1>0, <1>8 DEF EndInsert
  <2>2. next' \in 1..(Len(Columns) + 1)
    BY <1>0, <1>8, LenFact DEF EndInsert
  <2>3. DatingLast' /\ now' = now
    BY <1>0, <1>8 DEF EndInsert, DatingLast
  <2> QED
    BY <1>0, <1>8, <2>1, <2>2, <2>3, FlagsType DEF EndInsert
<1>6. CASE Serve
  <2>1. next' \in 1..(Len(Columns) + 1) /\ stage' = "up"
    BY <1>6, LenFact DEF Serve
  <2>2. DatingLast' /\ now' = now
    BY <1>6 DEF Serve, DatingLast
  <2>3. cut' \in BOOLEAN /\ erred' \in BOOLEAN
    <3>1. CASE UNCHANGED <<cut, erred>>
      BY <1>0, <3>1
    <3>2. CASE cut' = (cut \/ stage = "dating") /\ erred' = TRUE
      BY <3>2
    <3> QED
      BY <1>6, <3>1, <3>2 DEF Serve
  <2> QED
    BY <1>0, <1>6, <2>1, <2>2, <2>3, FlagsType DEF Serve
<1>7. CASE Stop
  <2>1. next' \in 1..(Len(Columns) + 1) /\ stage' = "down"
    BY <1>7, LenFact DEF Stop
  <2>2. DatingLast' /\ now' = now
    BY <1>7 DEF Stop, DatingLast
  <2>3. cut' \in BOOLEAN /\ erred' \in BOOLEAN
    BY <1>0, <1>7 DEF Stop
  <2> QED
    BY <1>0, <1>7, <2>1, <2>2, <2>3, FlagsType DEF Stop
<1> QED
  BY <1>1, <1>2, <1>3, <1>4, <1>5, <1>6, <1>7, <1>8

LEMMA TypeNext == TypeInv /\ [Next]_vars => TypeInv'
<1> SUFFICES ASSUME TypeInv, [Next]_vars PROVE TypeOK' /\ DatingLast'
  BY DEF TypeInv
<1> USE NumbersFact DEF TypeOK, TypeInv
<1>0. now \in Nat /\ NoJob \in Job /\ UntilReport(now) \in 0..Day
  BY NoJobFact, UntilFact DEF Times
<1>a. ASSUME UNCHANGED migrationVars PROVE MigrationTypeOK' /\ DatingLast'
  BY <1>a DEF MigrationTypeOK, DatingLast, migrationVars
<1>1. CASE Tick
  BY <1>1, <1>a DEF Tick, Times, reportHistory
<1>2. CASE SetClock
  BY <1>2, <1>a DEF SetClock, Times, reportVars
<1>3. CASE Begin
  BY <1>3, <1>0, MigrateType DEF Begin
<1>4. CASE Crash
  BY <1>4, <1>0, MigrateType DEF Crash, reportHistory
<1>5. CASE Migrate
  BY <1>5, MigrateType DEF Migrate, reportVars, reportHistory
<1>6. ASSUME NEW m \in Makers, Start(m) PROVE TypeOK' /\ DatingLast'
  <2>1. [stage |-> "reading", day |-> DayOf(now), began |-> now, found |-> {}] \in Job
    BY DayInRange DEF Job
  <2> QED
    BY <1>6, <1>a, <2>1 DEF Start, reportHistory
<1>7. ASSUME NEW m \in Makers, Read(m) PROVE TypeOK' /\ DatingLast'
  <2>1. jobs' = [jobs EXCEPT ![m] = [jobs[m] EXCEPT !.stage = "mailing",
                   !.found = {x \in records : Within(x.date, jobs[m].day)}]]
    BY <1>7 DEF Read
  <2>2. [jobs[m] EXCEPT !.stage = "mailing",
           !.found = {x \in records : Within(x.date, jobs[m].day)}] \in Job
    BY DEF Job, MigrationTypeOK
  <2> QED
    BY <1>7, <1>a, <2>1, <2>2 DEF Read, reportHistory
<1>8. ASSUME NEW m \in Makers, Mail(m) PROVE TypeOK' /\ DatingLast'
  <2>1. [maker |-> m, day |-> jobs[m].day, began |-> jobs[m].began, found |-> jobs[m].found]
          \in [maker : Makers, day : Days, began : Times, found : SUBSET Record]
    BY DEF Job
  <2>2. repeated' \in BOOLEAN
    BY <1>8 DEF Mail, Reported
  <2> QED
    BY <1>0, <1>8, <1>a, <2>1, <2>2 DEF Mail, Finished
<1>9. ASSUME NEW m \in Makers, Fail(m) PROVE TypeOK' /\ DatingLast'
  BY <1>0, <1>9, <1>a DEF Fail, Finished
<1>10. CASE UNCHANGED vars
  BY <1>10, <1>a DEF vars, reportVars, reportHistory
<1> QED
  BY <1>1, <1>2, <1>3, <1>4, <1>5, <1>6, <1>7, <1>8, <1>9, <1>10 DEF Next

LEMMA TypeAlways == Spec => []TypeInv
BY TypeInit, TypeNext, PTL DEF Spec

\* Type correctness of the start-up and the reports.
THEOREM TypeCorrect == Spec => []TypeOK
BY TypeAlways, PTL DEF TypeInv
-----------------------------------------------------------------------------
(***************************************************************************)
(* The start-up.  While it runs, the columns it has passed are there; a    *)
(* column that is there stays there; and once created_at is, an old record *)
(* without a date tells of a start-up that was cut short.                  *)
(***************************************************************************)
HasDates == "created_at" \notin missing

DefaultDates ==
  defaulted => HasDates /\ \A x \in records \cup pending : x.date # Null

PassedColumns ==
  /\ stage \in {"migrating", "dating"} =>
       \A i \in 1..5 : i < next => Columns[i] \notin missing
  /\ stage = "dating" => HasDates

OldDates ==
  HasDates /\ stage # "dating" => \A x \in records : x.date = Null => ~x.old \/ cut

NothingMissing == stage = "up" /\ ~erred => missing = {}

\* New rows come only when there is created_at, and are dated, if at all, when they are
\* inserted.
NewRows ==
  /\ pending # {} => stage = "up" /\ missing = {}
  /\ \A x \in pending : ~x.old
  /\ ~HasDates \/ stage = "dating" => \A x \in records : x.old
  /\ \A x \in records \cup pending : ~x.old => x.made \in Nat /\ x.date \in {x.made, Null}

MigrationInv ==
  DefaultDates /\ PassedColumns /\ OldDates /\ NothingMissing /\ NewRows

LEMMA MigrationStart == Init => MigrationInv
<1> SUFFICES ASSUME Init PROVE MigrationInv
  OBVIOUS
<1>1. defaulted = HasDates /\ pending = {} /\ stage = "down" /\ ~cut
  BY Zenon DEF Init, MigrationInit, HasDates
<1>2. records = IF defaulted THEN {} ELSE {[old |-> TRUE, made |-> Null, date |-> Null]}
  BY DEF Init, MigrationInit
<1>3. (defaulted => records = {}) /\ \A x \in records : x.old
  BY <1>2
<1> QED
  BY <1>1, <1>3 DEF MigrationInv, DefaultDates, PassedColumns, OldDates, NothingMissing, NewRows

MigrationStep == StartUp \/ Column \/ AddDates \/ Backfill \/ Insert \/ EndInsert \/ Serve \/ Stop

\* The rest of the program leaves the database's schema and records alone.
LEMMA OnlyMigration ==
  ASSUME [Next]_vars PROVE MigrationStep \/ UNCHANGED migrationVars
BY DEF Next, vars, Tick, SetClock, Begin, Crash, Migrate, Start, Read, Mail, Fail, MigrationStep

LEMMA MigrationKept == TypeInv /\ MigrationInv /\ [Next]_vars => MigrationInv'
<1> SUFFICES ASSUME TypeInv, MigrationInv, [Next]_vars PROVE MigrationInv'
  OBVIOUS
<1>0. /\ missing \in SUBSET Names /\ next \in 1..6 /\ now \in Nat /\ Null = -1
      /\ stage = "dating" => next = 5
      /\ DefaultDates /\ PassedColumns /\ OldDates /\ NothingMissing
      /\ NewRows /\ pending \in SUBSET Record
      /\ records \in SUBSET Record
  BY LenFact, NumbersFact
  DEF TypeInv, TypeOK, MigrationTypeOK, DatingLast, Times, MigrationInv, Null
<1> USE DEF HasDates
<1>1. CASE StartUp
  BY <1>0, <1>1 DEF StartUp, MigrationInv, DefaultDates, PassedColumns, OldDates, NothingMissing,
         NewRows
<1>2. CASE Column
  <2>1. PICK c \in Names : /\ Looking(c) /\ (c = "created_at" => c \notin missing)
                           /\ missing' = missing \ {c}
    BY <1>2 DEF Column
  <2>2. /\ stage = "migrating" /\ next <= 5 /\ Columns[next] = c
        /\ next' = next + 1 /\ UNCHANGED <<defaulted, records, pending, stage, cut, erred>>
        /\ (HasDates)' <=> HasDates
    BY <1>2, <2>1, LenFact DEF Column, Looking
  <2>3. DefaultDates' /\ OldDates' /\ NothingMissing'
    BY <1>0, <2>2 DEF DefaultDates, OldDates, NothingMissing
  <2>4. PassedColumns'
    BY <1>0, <2>1, <2>2 DEF PassedColumns
  <2>5. NewRows'
    BY <1>0, <2>2 DEF NewRows
  <2> QED
    BY <2>3, <2>4, <2>5 DEF MigrationInv
<1>3. CASE AddDates
  <2>1. /\ stage = "migrating" /\ stage' = "dating" /\ HasDates' /\ missing' \subseteq missing
        /\ UNCHANGED <<defaulted, records, pending, next, cut, erred>>
        /\ ~HasDates
    BY <1>3 DEF AddDates, Looking
  <2> QED
    BY <1>0, <2>1 DEF MigrationInv, DefaultDates, PassedColumns, OldDates, NothingMissing,
         NewRows
<1>4. CASE Backfill
  <2>1. \A x \in records' : x.date # Null
    BY <1>0, <1>4 DEF Backfill, Record
  <2>2. /\ stage = "dating" /\ stage' = "migrating" /\ next' = next + 1
        /\ UNCHANGED <<defaulted, missing, pending, cut, erred>>
    BY <1>4 DEF Backfill
  <2>3. PassedColumns'
    BY <1>0, <2>2, ColumnsFact DEF PassedColumns
  <2>4. \A x \in records' : x.old
    BY <1>0, <1>4, <2>2 DEF Backfill, NewRows, Record
  <2>5. pending = {}
    BY <1>0, <2>2 DEF NewRows
  <2>6. NewRows'
    BY <2>2, <2>4, <2>5 DEF NewRows
  <2> QED
    BY <1>0, <2>1, <2>2, <2>3, <2>5, <2>6
    DEF MigrationInv, DefaultDates, OldDates, NothingMissing
<1>5. CASE Insert
  <2> DEFINE y == [old |-> FALSE, made |-> now, date |-> IF defaulted THEN now ELSE Null]
  <2>1. ~y.old /\ y.made = now /\ y.date \in {now, Null} /\ (defaulted => y.date # Null)
    BY <1>0
  <2>2. /\ stage = "up" /\ missing = {} /\ pending' = {y}
        /\ UNCHANGED <<defaulted, missing, records, stage, next, cut, erred>>
    BY <1>5 DEF Insert
  <2> HIDE DEF y
  <2>3. NewRows'
    BY <1>0, <2>1, <2>2 DEF NewRows
  <2>4. DefaultDates'
    BY <1>0, <2>1, <2>2 DEF DefaultDates
  <2> QED
    BY <1>0, <2>2, <2>3, <2>4 DEF MigrationInv, PassedColumns, OldDates, NothingMissing
<1>9. CASE EndInsert
  <2>1. /\ stage = "up" /\ missing = {} /\ pending' = {}
        /\ records' \in {records, records \cup pending}
        /\ UNCHANGED <<defaulted, missing, stage, next, cut, erred>>
    BY <1>0, <1>9 DEF EndInsert, NewRows
  <2>2. NewRows' /\ DefaultDates'
    BY <1>0, <2>1 DEF NewRows, DefaultDates
  <2>3. OldDates'
    BY <1>0, <2>1 DEF NewRows, OldDates
  <2> QED
    BY <1>0, <2>1, <2>2, <2>3 DEF MigrationInv, PassedColumns, NothingMissing
<1>6. CASE Serve
  <2>1. /\ stage' = "up" /\ UNCHANGED <<defaulted, missing, records, pending>>
        /\ stage \in {"migrating", "dating"}
        /\ \/ stage = "migrating" /\ next > 5 /\ UNCHANGED <<cut, erred>>
           \/ cut' = (cut \/ stage = "dating") /\ erred'
    BY <1>6, LenFact DEF Serve
  <2>2. next > 5 => missing = {}
    <3>1. next > 5 => \A i \in 1..5 : Columns[i] \notin missing
      BY <1>0, <2>1 DEF PassedColumns
    <3> QED
      BY <1>0, <3>1, ColumnsFact
  <2>3. DefaultDates' /\ PassedColumns' /\ NothingMissing'
    BY <1>0, <2>1, <2>2 DEF DefaultDates, PassedColumns, NothingMissing
  <2>4. NewRows'
    BY <1>0, <2>1 DEF NewRows, PassedColumns
  <2>5. OldDates'
    <3>1. CASE stage = "dating"
      BY <2>1, <3>1 DEF OldDates
    <3>2. CASE stage # "dating"
      <4>1. cut => cut'
        BY <2>1
      <4> QED
        BY <1>0, <2>1, <3>2, <4>1 DEF OldDates
    <3> QED
      BY <3>1, <3>2
  <2> QED
    BY <2>3, <2>4, <2>5 DEF MigrationInv
<1>7. CASE Stop
  <2>1. /\ stage' = "down" /\ UNCHANGED <<defaulted, missing, records>> /\ pending' = {}
        /\ cut' = (cut \/ stage = "dating")
    BY <1>7 DEF Stop
  <2> QED
    BY <1>0, <2>1 DEF MigrationInv, DefaultDates, PassedColumns, OldDates, NothingMissing,
         NewRows
<1>8. CASE UNCHANGED migrationVars
  BY <1>0, <1>8
  DEF migrationVars, MigrationInv, DefaultDates, PassedColumns, OldDates, NothingMissing,
         NewRows
<1> QED
  BY <1>1, <1>2, <1>3, <1>4, <1>5, <1>6, <1>7, <1>8, <1>9, OnlyMigration DEF MigrationStep

LEMMA MigrationAlways == Spec => []MigrationInv
BY MigrationStart, MigrationKept, TypeAlways, PTL DEF Spec

\* A start-up without an error leaves the schema complete and the old records dated,
\* unless one before it ended between ALTER and UPDATE (main.py:80).
THEOREM SchemaComplete == Spec => []MigrationComplete
<1>1. MigrationInv => MigrationComplete
  BY DEF MigrationInv, DefaultDates, OldDates, NothingMissing, HasDates, MigrationComplete
<1> QED
  BY <1>1, MigrationAlways, PTL
-----------------------------------------------------------------------------
(***************************************************************************)
(* The contents of a report.  A row is dated, if at all, with the instant  *)
(* at which it is inserted, and a day that is being reported is over when  *)
(* the report is begun: while the clock does not go back, no row is        *)
(* inserted into it any more.  What the SELECT does not see is not yet     *)
(* committed, and was inserted at most MaxWrite before the report.         *)
(***************************************************************************)
Rows == records \cup pending

\* The day of a report, or of one in the making, was over when it was begun.
Past(r) == (r.day + 1) * Day <= r.began /\ r.began <= now

\* It has the rows of its day, but for those it may lack, and no others.
Full(r) ==
  /\ \A x \in r.found : ~x.old => x.made \div Day = r.day
  /\ \A x \in Rows : ~x.old /\ x.made \div Day = r.day => x \in r.found \/ MayLack(x, r)

CompleteInv ==
  ~skewed =>
    /\ \A x \in pending : x.made <= now /\ now <= x.made + MaxWrite
    /\ \A r \in reports : Past(r) /\ Full(r)
    /\ \A m \in Makers : jobs[m].stage # "none" =>
         Past(jobs[m]) /\ (jobs[m].stage = "mailing" => Full(jobs[m]))

LEMMA DaysFact == \A d \in Days : d \in Int
BY DEF Days

LEMMA JobsFact ==
  ASSUME TypeInv, NEW m \in Makers
  PROVE  jobs[m].day \in Int /\ jobs[m].began \in Nat /\ jobs[m] \in Job
BY DaysFact DEF TypeInv, TypeOK, Job, Times

\* The instants of a day.
LEMMA DayBounds ==
  ASSUME NEW t \in Nat, NEW d \in Int
  PROVE  /\ t \div Day = d <=> d * Day <= t /\ t < (d + 1) * Day
         /\ t \div Day = d => t = d * Day + TimeOfDay(t)
         /\ d * Day \in Int /\ (d + 1) * Day \in Int /\ TimeOfDay(t) \in Nat
<1> DEFINE q == t \div Day
<1>1. /\ q \in Nat /\ q * Day \in Int /\ t = q * Day + TimeOfDay(t)
      /\ TimeOfDay(t) \in 0..(Day - 1)
  BY DivMod
<1>2. /\ Day \in Nat /\ ReportAt \in Nat /\ Day >= 2
      /\ d * Day \in Int /\ (d + 1) * Day \in Int /\ (d + 1) * Day = d * Day + Day
      /\ (q + 1) * Day = q * Day + Day
  BY <1>1, NumbersFact
<1> HIDE DEF q
<1>3. /\ Due(q - 1) = q * Day + ReportAt /\ Due(d - 1) = d * Day + ReportAt
      /\ q - 1 \in Int /\ d - 1 \in Int
  BY <1>1 DEF Due
<1>4. q < d => q * Day + Day <= d * Day
  <2> SUFFICES ASSUME q < d PROVE q * Day + Day <= d * Day
    OBVIOUS
  <2>1. q - 1 < d - 1
    BY <1>1
  <2>2. Due(q - 1) + Day <= Due(d - 1)
    BY <1>3, <2>1, DueOrder
  <2> QED
    BY <1>1, <1>2, <1>3, <2>2
<1>5. d < q => d * Day + Day <= q * Day
  <2> SUFFICES ASSUME d < q PROVE d * Day + Day <= q * Day
    OBVIOUS
  <2>1. d - 1 < q - 1
    BY <1>1
  <2>2. Due(d - 1) + Day <= Due(q - 1)
    BY <1>3, <2>1, DueOrder
  <2> QED
    BY <1>1, <1>2, <1>3, <2>2
<1>6. q = t \div Day
  BY DEF q
<1>7. CASE q = d
  <2>1. d * Day <= t /\ t < (d + 1) * Day /\ t = d * Day + TimeOfDay(t)
    BY <1>1, <1>2, <1>7
  <2> QED
    BY <1>1, <1>2, <1>6, <1>7, <2>1
<1>8. CASE q < d
  BY <1>1, <1>2, <1>4, <1>6, <1>8
<1>9. CASE d < q
  BY <1>1, <1>2, <1>5, <1>6, <1>9
<1> QED
  BY <1>1, <1>7, <1>8, <1>9

\* The text comparison of the SELECT leaves out the second of midnight.
LEMMA WithinFact ==
  ASSUME NEW t \in Nat, NEW d \in Int
  PROVE  Within(t, d) <=> t \div Day = d /\ TimeOfDay(t) # 0
<1>1. t # Null
  BY DEF Null
<1>2. t \div Day = d /\ TimeOfDay(t) # 0 => Within(t, d)
  BY <1>1, DayBounds DEF Within
<1>3. Within(t, d) => t \div Day = d /\ TimeOfDay(t) # 0
  BY DayBounds DEF Within
<1> QED
  BY <1>2, <1>3

LEMMA ClockGrows ==
  ASSUME TypeInv, [Next]_vars, ~skewed'
  PROVE  /\ now \in Nat /\ now' \in Nat /\ now <= now' /\ ~skewed
         /\ now' = now \/ Tick \/ pending = {}
<1>1. now \in Nat /\ now' \in Nat
  BY TypeNext DEF TypeInv, TypeOK, Times
<1>2. CASE Tick
  BY <1>1, <1>2 DEF Tick, reportHistory
<1>3. CASE SetClock
  <2>1. PICK d \in Jumps : now' = now + d /\ skewed' = (skewed \/ d < 0 \/ pending # {})
    BY <1>3 DEF SetClock
  <2>2. ~skewed /\ ~(d < 0) /\ pending = {}
    BY <2>1
  <2>3. d \in Int
    BY NumbersFact
  <2> QED
    BY <1>1, <2>1, <2>2, <2>3
<1>4. CASE Begin \/ Crash \/ Migrate
  BY <1>1, <1>4 DEF Begin, Serve, Crash, Stop, Migrate, StartUp, Column, AddDates, Backfill,
       Insert, EndInsert, reportHistory
<1>5. CASE UNCHANGED vars
  BY <1>1, <1>5 DEF vars, reportHistory
<1>6. ASSUME NEW m \in Makers, Start(m) \/ Read(m) \/ Mail(m) \/ Fail(m)
      PROVE  now' = now /\ skewed' = skewed
  BY <1>6 DEF Start, Read, Mail, Fail, reportHistory
<1> QED
  BY <1>1, <1>2, <1>3, <1>4, <1>5, <1>6 DEF Next

\* Where the rows of the next state come from.
LEMMA RowsNext ==
  ASSUME TypeInv, MigrationInv, [Next]_vars
  PROVE  /\ \A x \in Rows' : x.old \/ x \in Rows \/ (Insert /\ x.made = now)
         /\ \A x \in pending' : x \in pending \/ (Insert /\ x.made = now)
<1>1. CASE records' \subseteq Rows /\ pending' \subseteq pending
  BY <1>1 DEF Rows
<1>2. CASE Insert
  <2> DEFINE y == [old |-> FALSE, made |-> now, date |-> IF defaulted THEN now ELSE Null]
  <2>1. records' = records /\ pending' = {y} /\ y.made = now
    BY <1>2 DEF Insert
  <2> HIDE DEF y
  <2> QED
    BY <1>2, <2>1 DEF Rows
<1>3. CASE Backfill
  <2>1. \A x \in records : x.old /\ x \in Record
    BY <1>3 DEF Backfill, MigrationInv, NewRows, TypeInv, TypeOK, MigrationTypeOK
  <2>2. \A x \in records' : x.old
    BY <1>3, <2>1 DEF Backfill, Record
  <2>3. pending' = {}
    BY <1>3 DEF Backfill, MigrationInv, NewRows
  <2> QED
    BY <2>2, <2>3 DEF Rows
<1> QED
  BY <1>1, <1>2, <1>3, OnlyMigration
  DEF MigrationStep, StartUp, Column, AddDates, EndInsert, Serve, Stop, migrationVars, Rows

\* No row is inserted into a day that is over.
LEMMA FullKept ==
  ASSUME TypeInv, MigrationInv, [Next]_vars, ~skewed',
         NEW r, r.day \in Int, r.began \in Int, Past(r)
  PROVE  (Past(r))' /\ (Full(r) => (Full(r))')
<1>1. now \in Nat /\ now' \in Nat /\ now <= now'
  BY ClockGrows
<1>2. /\ (r.day + 1) * Day \in Int /\ (r.day + 1) * Day <= r.began /\ r.began <= now
  BY NumbersFact DEF Past
<1>3. (Past(r))'
  BY <1>1, <1>2 DEF Past
<1>4. now \div Day # r.day
  BY <1>1, <1>2, DayBounds
<1>5. Full(r) => (Full(r))'
  BY <1>4, RowsNext DEF Full, MayLack
<1> QED
  BY <1>3, <1>5

\* The SELECT finds what is committed, dated, and not of the second of midnight.
LEMMA ReadFull ==
  ASSUME TypeInv, MigrationInv, NEW r, r.day \in Int, r.began \in Int, Past(r),
         r.found = {x \in records : Within(x.date, r.day)},
         \A x \in pending : x.made <= now /\ now <= x.made + MaxWrite
  PROVE  Full(r)
<1>1. \A x \in Rows : ~x.old => x.made \in Nat /\ x.date \in {x.made, Null}
  BY DEF Rows, MigrationInv, NewRows
<1>2. ASSUME NEW x \in r.found, ~x.old PROVE x.made \div Day = r.day
  <2>1. x.made \in Nat /\ x.date = x.made /\ Within(x.date, r.day)
    BY <1>1, <1>2 DEF Rows, Within
  <2> QED
    BY <2>1, WithinFact
<1>3. ASSUME NEW x \in Rows, ~x.old, x.made \div Day = r.day
      PROVE  x \in r.found \/ MayLack(x, r)
  <2>1. x.made \in Nat /\ x.date \in {x.made, Null}
    BY <1>1, <1>3
  <2>2. CASE x \in records
    BY <1>3, <2>1, <2>2, WithinFact DEF MayLack
  <2>3. CASE x \in pending
    <3>1. /\ now \in Nat /\ MaxWrite \in Nat /\ now <= x.made + MaxWrite
          /\ r.began <= now
      BY <2>3, NumbersFact DEF TypeInv, TypeOK, Times, Past
    <3>2. x.made < (r.day + 1) * Day /\ (r.day + 1) * Day \in Int
      BY <1>3, <2>1, DayBounds
    <3>3. r.began \in x.made..(x.made + MaxWrite)
      BY <2>1, <3>1, <3>2 DEF Past
    <3> QED
      BY <3>3 DEF MayLack
  <2> QED
    BY <1>3, <2>2, <2>3 DEF Rows
<1> QED
  BY <1>2, <1>3 DEF Full

LEMMA CompleteStart == Init => CompleteInv
BY DEF Init, MigrationInit, CompleteInv, NoJob

LEMMA PendingKept ==
  ASSUME TypeInv, MigrationInv, CompleteInv, [Next]_vars, ~skewed'
  PROVE  \A x \in pending' : x.made <= now' /\ now' <= x.made + MaxWrite
<1>1. /\ now \in Nat /\ ~skewed /\ (now' = now \/ Tick \/ pending = {})
      /\ MaxWrite \in Nat
  BY ClockGrows, NumbersFact
<1>2. \A x \in pending : x.made <= now /\ now <= x.made + MaxWrite /\ x.made \in Nat
  BY <1>1 DEF CompleteInv, MigrationInv, NewRows
<1>3. CASE Insert
  <2>1. now' = now /\ \A x \in pending' : x.made = now
    BY <1>3 DEF Insert
  <2> QED
    BY <1>1, <2>1
<1>4. CASE Tick
  <2>1. now' = now + 1 /\ pending' = pending /\ \A x \in pending : now - x.made < MaxWrite
    BY <1>4 DEF Tick, migrationVars
  <2> QED
    BY <1>1, <1>2, <2>1
<1>5. CASE ~Insert /\ ~Tick
  BY <1>1, <1>2, <1>5, RowsNext
<1> QED
  BY <1>3, <1>4, <1>5

LEMMA CompleteKept == TypeInv /\ MigrationInv /\ CompleteInv /\ [Next]_vars => CompleteInv'
<1> SUFFICES ASSUME TypeInv, MigrationInv, CompleteInv, [Next]_vars, ~skewed'
             PROVE  /\ \A r \in reports' : (Past(r))' /\ (Full(r))'
                    /\ \A m \in Makers : jobs'[m].stage # "none" =>
                         /\ (Past(jobs[m]))'
                         /\ jobs'[m].stage = "mailing" => (Full(jobs[m]))'
  BY PendingKept DEF CompleteInv
<1> DEFINE Typed(r) == r.day \in Int /\ r.began \in Int
           Ready(job) == Typed(job) /\
             (job.stage # "none" => Past(job) /\ (job.stage = "mailing" => Full(job)))
<1>1. /\ \A r \in reports : Typed(r) /\ Past(r) /\ Full(r)
      /\ \A m \in Makers : Ready(jobs[m])
  <2>1. \A r \in reports : Typed(r)
    BY DaysFact DEF TypeInv, TypeOK, Times
  <2> QED
    BY <2>1, ClockGrows, JobsFact DEF CompleteInv
<1>2. \A r : Typed(r) /\ Past(r) => (Past(r))' /\ (Full(r) => (Full(r))')
  BY FullKept
\* It is enough that what is new is complete as things are.
<1>3. SUFFICES /\ \A r \in reports' : Typed(r) /\ Past(r) /\ Full(r)
               /\ \A m \in Makers : Ready(jobs'[m])
  <2>1. \A r \in reports' : (Past(r))' /\ (Full(r))'
    BY <1>2, <1>3
  <2>2. ASSUME NEW m \in Makers, jobs'[m].stage # "none"
        PROVE  /\ (Past(jobs[m]))'
               /\ jobs'[m].stage = "mailing" => (Full(jobs[m]))'
    <3>1. PICK j : j = jobs'[m]
      OBVIOUS
    <3>2. (Past(j))' /\ (j.stage = "mailing" => (Full(j))')
      BY <1>2, <1>3, <2>2, <3>1
    <3> QED
      BY <3>1, <3>2 DEF Past, Full, MayLack
  <2> QED
    BY <2>1, <2>2
<1>4. Ready(NoJob)
  BY DEF NoJob
<1>5. CASE reports' = reports /\ jobs' = jobs
  BY <1>1, <1>5
<1>6. CASE Crash
  BY <1>1, <1>4, <1>6 DEF Crash
<1>7. ASSUME NEW m \in Makers, Start(m)
      PROVE  /\ \A r \in reports' : Typed(r) /\ Past(r) /\ Full(r)
             /\ \A n \in Makers : Ready(jobs'[n])
  <2> DEFINE j == [stage |-> "reading", day |-> DayOf(now), began |-> now, found |-> {}]
  <2>1. now \in Nat /\ jobs \in [Makers -> Job]
    BY ClockGrows DEF TypeInv, TypeOK
  <2>2. Ready(j)
    BY <2>1, DayOver DEF Past
  <2>3. reports' = reports /\ jobs' = [jobs EXCEPT ![m] = j]
    BY <1>7 DEF Start
  <2> HIDE DEF Ready, Typed, j
  <2> QED
    BY <1>1, <2>1, <2>2, <2>3
<1>8. ASSUME NEW m \in Makers, Read(m)
      PROVE  /\ \A r \in reports' : Typed(r) /\ Past(r) /\ Full(r)
             /\ \A n \in Makers : Ready(jobs'[n])
  <2> DEFINE j == [jobs[m] EXCEPT !.stage = "mailing",
                                  !.found = {x \in records : Within(x.date, jobs[m].day)}]
  <2>1. /\ reports' = reports /\ jobs[m].stage = "reading" /\ jobs \in [Makers -> Job]
        /\ jobs' = [jobs EXCEPT ![m] = j]
    BY <1>8 DEF Read, TypeInv, TypeOK
  <2>2. /\ j.day = jobs[m].day /\ j.began = jobs[m].began
        /\ j.found = {x \in records : Within(x.date, j.day)}
    BY <2>1 DEF Job
  <2>3. Typed(j) /\ Past(j)
    BY <1>1, <2>1, <2>2 DEF Past
  <2>4. \A x \in pending : x.made <= now /\ now <= x.made + MaxWrite
    BY ClockGrows DEF CompleteInv
  <2> HIDE DEF j
  <2>5. Full(j)
    BY <2>2, <2>3, <2>4, ReadFull
  <2>6. Ready(j)
    BY <2>3, <2>5
  <2> HIDE DEF Ready, Typed
  <2> QED
    BY <1>1, <2>1, <2>6
<1>9. ASSUME NEW m \in Makers, Mail(m) \/ Fail(m)
      PROVE  /\ \A r \in reports' : Typed(r) /\ Past(r) /\ Full(r)
             /\ \A n \in Makers : Ready(jobs'[n])
  <2>1. jobs' = [jobs EXCEPT ![m] = NoJob] /\ jobs \in [Makers -> Job]
    BY <1>9 DEF Mail, Fail, Finished, TypeInv, TypeOK
  <2>2. \A n \in Makers : Ready(jobs'[n])
    <3> HIDE DEF Ready
    <3> QED
      BY <1>1, <1>4, <2>1
  <2>3. CASE Mail(m)
    <3> DEFINE r == [maker |-> m, day |-> jobs[m].day, began |-> jobs[m].began,
                     found |-> jobs[m].found]
    <3>1. jobs[m].stage = "mailing" /\ reports' = reports \cup {r}
      BY <2>3 DEF Mail
    <3>2. Typed(r) /\ Past(r) /\ Full(r)
      BY <1>1, <3>1 DEF Past, Full, MayLack
    <3> HIDE DEF r
    <3> QED
      BY <1>1, <2>2, <3>1, <3>2
  <2>4. CASE Fail(m)
    BY <1>1, <2>2, <2>4 DEF Fail
  <2> QED
    BY <1>9, <2>3, <2>4
<1>10. \/ reports' = reports /\ jobs' = jobs
       \/ Crash \/ \E m \in Makers : Start(m) \/ Read(m) \/ Mail(m) \/ Fail(m)
  BY DEF Next, vars, reportVars, Tick, SetClock, Begin, Migrate
<1> QED
  BY <1>5, <1>6, <1>7, <1>8, <1>9, <1>10

\* Unless the clock is set back, or set while a row is written, a report has the rows
\* inserted on its day and no others, but for undated rows, rows of the second of
\* midnight, and rows inserted at most MaxWrite before the report was begun
\* (tasks.py:generate_daily_report).
THEOREM ReportsComplete == Spec => []DayComplete
<1>1. CompleteInv => DayComplete
  BY DEF CompleteInv, DayComplete, Full, Rows
<1> QED
  BY <1>1, CompleteStart, CompleteKept, TypeAlways, MigrationAlways, PTL DEF Spec
-----------------------------------------------------------------------------
(***************************************************************************)
(* The loop's plan.  While the clock was not set, a sleep ends at an       *)
(* instant due, and a report was begun at the instant due for its day and  *)
(* is not older than MaxRun.                                               *)
(***************************************************************************)
Busy == jobs["loop"].stage # "none"
Calm == jumps = 0 \/ ~disturbed

PlanInv ==
  /\ Busy => Up
  /\ Up /\ Calm /\ ~Busy => \E e \in Int : now + sleep = Due(e)
  /\ Calm /\ Busy => /\ jobs["loop"].began = Due(jobs["loop"].day)
                     /\ jobs["loop"].began <= now
                     /\ now <= jobs["loop"].began + MaxRun

\* A step that is not one of the clock or of the loop.
Aside ==
  /\ now' = now /\ sleep' = sleep /\ Up' = Up /\ jumps' = jumps /\ Busy' = Busy
  /\ since' = since /\ disturbed' = disturbed /\ repeated' = repeated
  /\ jobs'["loop"].day = jobs["loop"].day /\ jobs'["loop"].began = jobs["loop"].began
  /\ \A d \in Int : (Reported(d))' <=> Reported(d)

LoopStep == Start("loop") \/ Mail("loop") \/ Fail("loop")

LEMMA StepKinds ==
  ASSUME TypeInv, [Next]_vars
  PROVE  Tick \/ SetClock \/ Begin \/ Crash \/ LoopStep \/ Aside
<1>0. jobs \in [Makers -> Job] /\ "loop" \in Makers /\ "request" \in Makers
  BY DEF TypeInv, TypeOK, Makers
<1>1. ASSUME Migrate PROVE Aside
  <2>1. Up' = Up /\ now' = now
    BY <1>1 DEF Migrate, StartUp, Column, Looking, AddDates, Backfill, Insert, EndInsert, Up
  <2>2. UNCHANGED <<reportVars, reportHistory>>
    BY <1>1 DEF Migrate
  <2> QED
    BY <2>1, <2>2 DEF Aside, Busy, Reported, reportVars, reportHistory
<1>2. ASSUME UNCHANGED vars PROVE Aside
  BY <1>2 DEF vars, migrationVars, reportVars, reportHistory, Aside, Busy, Reported, Up
<1>3. ASSUME Start("request") \/ Mail("request") \/ Fail("request") PROVE Aside
  <2>1. jobs'["loop"] = jobs["loop"]
    BY <1>0, <1>3 DEF Start, Mail, Fail, Finished
  <2>2. \A d \in Int : (Reported(d))' <=> Reported(d)
    BY <1>3 DEF Start, Mail, Fail, Reported
  <2>3. /\ now' = now /\ stage' = stage /\ jumps' = jumps /\ since' = since
        /\ sleep' = sleep
    BY <1>3 DEF Start, Mail, Fail, Finished, migrationVars, reportHistory
  <2>4. (disturbed' = disturbed) /\ (repeated' = repeated)
    <3>1. CASE Start("request")
      BY <3>1 DEF Start, reportHistory
    <3>2. CASE Mail("request")
      BY <3>2 DEF Mail, TypeInv, TypeOK
    <3>3. CASE Fail("request")
      BY <3>3 DEF Fail, TypeInv, TypeOK
    <3> QED
      BY <1>3, <3>1, <3>2, <3>3
  <2> QED
    BY <2>1, <2>2, <2>3, <2>4 DEF Aside, Busy, Up
<1>4. ASSUME NEW m \in Makers, Read(m) PROVE Aside
  <2>1. jobs[m].stage = "reading"
        /\ jobs' = [jobs EXCEPT ![m] = [jobs[m] EXCEPT !.stage = "mailing",
                      !.found = {x \in records : Within(x.date, jobs[m].day)}]]
    BY <1>4 DEF Read
  <2>2. Busy' = Busy /\ jobs'["loop"].day = jobs["loop"].day
        /\ jobs'["loop"].began = jobs["loop"].began
    BY <1>0, <2>1 DEF Job, Busy
  <2> QED
    BY <1>4, <2>2 DEF Read, Aside, Reported, Up, migrationVars, reportHistory
<1> QED
  BY <1>1, <1>2, <1>3, <1>4 DEF Next, Makers, LoopStep

\* What Finished leaves of the loop's job: nothing, and a sleep until the next instant due.
LEMMA LoopSleeps ==
  ASSUME TypeInv, jobs' = [jobs EXCEPT !["loop"] = NoJob], sleep' = UntilReport(now), now' = now
  PROVE  /\ ~Busy'
         /\ \E e \in Int : now + sleep' = Due(e) /\ Due(e) <= now + Day /\ now < Due(e)
<1>1. ~Busy'
  BY DEF Busy, NoJob, TypeInv, TypeOK, Makers
<1>2. now \in Nat
  BY NumbersFact DEF TypeInv, TypeOK, Times
<1> QED
  BY <1>1, <1>2, NextDue, NumbersFact

LEMMA PlanStart == Init => PlanInv
BY DEF Init, MigrationInit, PlanInv, Busy, Up, NoJob, Makers

LEMMA PlanKept == TypeInv /\ PlanInv /\ [Next]_vars => PlanInv'
<1> SUFFICES ASSUME TypeInv, PlanInv, [Next]_vars PROVE PlanInv'
  OBVIOUS
<1> DEFINE job == jobs["loop"]
<1>0. /\ now \in Nat /\ sleep \in Nat /\ "loop" \in Makers /\ jobs \in [Makers -> Job]
      /\ job.day \in Int /\ job.began \in Nat /\ jumps \in Nat
  BY JobsFact, NumbersFact DEF TypeInv, TypeOK, Times, Makers
<1>1. CASE Tick
  <2>1. now' = now + 1 /\ UNCHANGED <<stage, jobs, jumps, disturbed>>
    BY <1>1 DEF Tick, migrationVars, reportHistory
  <2>2. Busy => now - job.began < MaxRun
    BY <1>0, <1>1 DEF Tick, Busy
  <2>3. Up /\ ~Busy => sleep > 0 /\ sleep' = sleep - 1
    BY <1>1 DEF Tick, Sleeping, Busy
  <2>4. Busy' = Busy /\ Up' = Up /\ Calm' = Calm
    BY <2>1 DEF Busy, Up, Calm
  <2>5. Up /\ ~Busy => now' + sleep' = now + sleep
    BY <1>0, <2>1, <2>3
  <2>6. Calm /\ Busy => job.began <= now' /\ now' <= job.began + MaxRun
    BY <1>0, <2>1, <2>2, NumbersFact DEF PlanInv
  <2> QED
    BY <2>1, <2>4, <2>5, <2>6 DEF PlanInv, Due
<1>2. CASE SetClock
  <2>1. jumps' = jumps + 1 /\ disturbed' = TRUE /\ UNCHANGED <<stage, jobs>>
    BY <1>2 DEF SetClock, migrationVars, reportVars
  <2>2. ~Calm' /\ Busy' = Busy /\ Up' = Up
    BY <1>0, <2>1 DEF Calm, Busy, Up
  <2> QED
    BY <2>2 DEF PlanInv
<1>3. CASE Begin
  <2>1. ~Up /\ now' = now /\ jobs' = jobs /\ sleep' = UntilReport(now)
    BY <1>3 DEF Begin, Serve, Up
  <2>2. ~Busy'
    BY <2>1 DEF PlanInv, Busy
  <2>3. \E e \in Int : now' + sleep' = Due(e)
    BY <1>0, <2>1, NextDue
  <2> QED
    BY <2>2, <2>3 DEF PlanInv, Due
<1>4. CASE Crash
  <2>1. ~Up' /\ ~Busy'
    BY <1>0, <1>4 DEF Crash, Stop, Up, Busy, NoJob
  <2> QED
    BY <2>1 DEF PlanInv
<1>5. CASE Start("loop")
  <2>1. /\ Up /\ ~Busy /\ sleep = 0 /\ UNCHANGED <<now, stage, jumps, disturbed>>
        /\ jobs' = [jobs EXCEPT !["loop"] = [stage |-> "reading", day |-> DayOf(now),
                                             began |-> now, found |-> {}]]
    BY <1>5 DEF Start, Busy, migrationVars, reportHistory
  <2>2. /\ Up' /\ Busy' /\ Calm' = Calm
        /\ jobs'["loop"].day = DayOf(now) /\ jobs'["loop"].began = now
    BY <1>0, <2>1 DEF Up, Busy, Calm
  <2>3. ASSUME Calm PROVE now = Due(DayOf(now))
    <3>1. PICK e \in Int : now = Due(e)
      BY <1>0, <2>1, <2>3 DEF PlanInv
    <3> QED
      BY <1>0, <3>1, DayOfDue
  <2>4. Calm => /\ jobs'["loop"].began = Due(jobs'["loop"].day)
                /\ jobs'["loop"].began <= now' /\ now' <= jobs'["loop"].began + MaxRun
    BY <1>0, <2>1, <2>2, <2>3, NumbersFact
  <2> QED
    BY <2>2, <2>4 DEF PlanInv, Due
<1>6. CASE Mail("loop") \/ Fail("loop")
  <2>1. /\ jobs' = [jobs EXCEPT !["loop"] = NoJob] /\ sleep' = UntilReport(now)
        /\ now' = now /\ stage' = stage /\ Busy
    BY <1>6 DEF Mail, Fail, Finished, migrationVars, Busy
  <2>2. ~Busy' /\ \E e \in Int : now' + sleep' = Due(e)
    BY <2>1, LoopSleeps
  <2> QED
    BY <2>2 DEF PlanInv, Due
<1>7. CASE Aside
  <2>1. Calm' = Calm
    BY <1>7 DEF Aside, Calm
  <2> QED
    BY <1>7, <2>1 DEF PlanInv, Aside, Due
<1> QED
  BY <1>1, <1>2, <1>3, <1>4, <1>5, <1>6, <1>7, StepKinds DEF LoopStep

LEMMA PlanAlways == Spec => [](TypeInv /\ PlanInv)
BY TypeInit, TypeNext, PlanStart, PlanKept, PTL DEF Spec
-----------------------------------------------------------------------------
(***************************************************************************)
(* Once: what was reported was due, and due before the instant the loop    *)
(* sleeps until, or before the day it is reporting.                        *)
(***************************************************************************)
OnceInv ==
  jumps = 0 =>
    /\ ~repeated
    /\ \A d \in Int : Reported(d) =>
         /\ Due(d) <= now
         /\ Up /\ ~Busy => Due(d) < now + sleep
         /\ Busy => d < jobs["loop"].day

LEMMA OnceStart == Init => OnceInv
BY DEF Init, OnceInv, Reported

LEMMA OnceKept == TypeInv /\ PlanInv /\ OnceInv /\ [Next]_vars => OnceInv'
<1> SUFFICES ASSUME TypeInv, PlanInv, OnceInv, [Next]_vars, jumps' = 0
             PROVE  /\ ~repeated'
                    /\ \A d \in Int : (Reported(d))' =>
                         /\ Due(d) <= now'
                         /\ Up' /\ ~Busy' => Due(d) < now' + sleep'
                         /\ Busy' => d < jobs'["loop"].day
  BY DEF OnceInv, Due
<1> DEFINE job == jobs["loop"]
<1>0. /\ now \in Nat /\ sleep \in Nat /\ "loop" \in Makers /\ jobs \in [Makers -> Job]
      /\ job.day \in Int /\ job.began \in Nat /\ jumps \in Nat
  BY JobsFact, NumbersFact DEF TypeInv, TypeOK, Times, Makers
<1>d. \A d \in Int : Due(d) \in Int
  BY DueOrder
<1>1. CASE Tick
  <2>1. /\ now' = now + 1 /\ UNCHANGED <<stage, jobs, jumps, repeated, reports>>
        /\ Up /\ ~Busy => sleep > 0 /\ sleep' = sleep - 1
    BY <1>1 DEF Tick, migrationVars, reportHistory, Sleeping, Busy
  <2>2. Busy' = Busy /\ Up' = Up /\ \A d \in Int : (Reported(d))' <=> Reported(d)
    BY <2>1 DEF Busy, Up, Reported
  <2>3. Up /\ ~Busy => now' + sleep' = now + sleep
    BY <1>0, <2>1
  <2> QED
    BY <1>0, <1>d, <2>1, <2>2, <2>3 DEF OnceInv
<1>2. CASE SetClock
  BY <1>0, <1>2 DEF SetClock
<1>3. CASE Begin
  <2>1. /\ ~Up /\ UNCHANGED <<now, jobs, jumps, repeated, reports>> /\ sleep' = UntilReport(now)
    BY <1>3 DEF Begin, Serve, Up
  <2>2. ~Busy' /\ \A d \in Int : (Reported(d))' <=> Reported(d)
    BY <2>1 DEF PlanInv, Busy, Reported
  <2>3. sleep' >= 1 /\ sleep' \in Nat
    BY <1>0, <2>1, UntilFact
  <2> QED
    BY <1>0, <1>d, <2>1, <2>2, <2>3 DEF OnceInv
<1>4. CASE Crash
  <2>1. ~Up' /\ ~Busy' /\ UNCHANGED <<now, jumps, repeated, reports>>
    BY <1>0, <1>4 DEF Crash, Stop, Up, Busy, NoJob, reportHistory
  <2>2. \A d \in Int : (Reported(d))' <=> Reported(d)
    BY <2>1 DEF Reported
  <2> QED
    BY <2>1, <2>2 DEF OnceInv
<1>5. CASE Start("loop")
  <2>1. /\ Up /\ ~Busy /\ sleep = 0 /\ UNCHANGED <<now, stage, jumps, repeated, reports>>
        /\ jobs' = [jobs EXCEPT !["loop"] = [stage |-> "reading", day |-> DayOf(now),
                                             began |-> now, found |-> {}]]
    BY <1>5 DEF Start, Busy, migrationVars, reportHistory
  <2>2. Busy' /\ jobs'["loop"].day = DayOf(now)
    BY <1>0, <2>1 DEF Busy
  <2>3. PICK e \in Int : now = Due(e)
    BY <1>0, <2>1 DEF PlanInv, Calm
  <2>4. DayOf(now) = e
    BY <1>0, <2>3, DayOfDue
  <2>5. \A d \in Int : (Reported(d))' => Due(d) < Due(e) /\ d < e
    <3>1. \A d \in Int : (Reported(d))' => Due(d) < Due(e)
      BY <1>0, <1>d, <2>1, <2>3 DEF OnceInv, Reported
    <3> QED
      BY <3>1, DueOrder
  <2>6. ~repeated'
    BY <2>1 DEF OnceInv
  <2> QED
    BY <1>0, <1>d, <2>1, <2>2, <2>3, <2>4, <2>5, <2>6
<1>6. CASE Mail("loop") \/ Fail("loop")
  <2>1. /\ jobs' = [jobs EXCEPT !["loop"] = NoJob] /\ sleep' = UntilReport(now)
        /\ now' = now /\ jumps' = jumps /\ Busy
    BY <1>6 DEF Mail, Fail, Finished, Busy
  <2>2. ~Busy' /\ sleep' >= 1 /\ sleep' \in Nat
    BY <1>0, <2>1, LoopSleeps, UntilFact
  <2>3. Due(job.day) <= now /\ ~Reported(job.day) /\ ~repeated
    BY <1>0, <2>1 DEF PlanInv, OnceInv, Calm
  <2>4. ~repeated' /\ \A d \in Int : (Reported(d))' => Reported(d) \/ d = job.day
    <3>1. CASE Mail("loop")
      <4>1. repeated' = (repeated \/ Reported(job.day))
        BY <3>1 DEF Mail
      <4>2. ~repeated'
        BY <2>3, <4>1
      <4>3. reports' = reports \cup {[maker |-> "loop", day |-> job.day,
                                       began |-> job.began, found |-> job.found]}
        BY <3>1 DEF Mail
      <4> QED
        BY <4>2, <4>3 DEF Reported
    <3>2. CASE Fail("loop")
      BY <2>3, <3>2 DEF Fail, Reported
    <3> QED
      BY <1>6, <3>1, <3>2
  <2>5. \A d \in Int : (Reported(d))' => Due(d) <= now
    BY <2>1, <2>3, <2>4 DEF OnceInv
  <2> QED
    BY <1>0, <1>d, <2>1, <2>2, <2>4, <2>5
<1>7. CASE Aside
  BY <1>7 DEF Aside, OnceInv
<1> QED
  BY <1>1, <1>2, <1>3, <1>4, <1>5, <1>6, <1>7, StepKinds DEF LoopStep

\* Unless the clock is set, the loop reports no day twice.
THEOREM OnceOnly == Spec => []ReportedOnce
<1>1. OnceInv => ReportedOnce
  BY DEF OnceInv, ReportedOnce
<1> QED
  BY <1>1, OnceStart, OnceKept, PlanAlways, PTL DEF Spec
-----------------------------------------------------------------------------
(***************************************************************************)
(* None skipped: every day due since the loop was started, and before the  *)
(* instant it sleeps until, or before it began to report, was reported.  A *)
(* report takes less than a day, so none falls due while it is made.       *)
(***************************************************************************)
SkipInv ==
  Up /\ ~disturbed =>
    /\ since <= now
    /\ \A d \in Int : since < Due(d) =>
         /\ ~Busy /\ Due(d) < now + sleep => Reported(d)
         /\ Busy /\ Due(d) < jobs["loop"].began => Reported(d)

LEMMA SkipStart == Init => SkipInv
BY DEF Init, MigrationInit, SkipInv, Up

LEMMA SkipKept == TypeInv /\ PlanInv /\ SkipInv /\ [Next]_vars => SkipInv'
<1> SUFFICES ASSUME TypeInv, PlanInv, SkipInv, [Next]_vars, Up', ~disturbed'
             PROVE  /\ since' <= now'
                    /\ \A d \in Int : since' < Due(d) =>
                         /\ ~Busy' /\ Due(d) < now' + sleep' => (Reported(d))'
                         /\ Busy' /\ Due(d) < jobs'["loop"].began => (Reported(d))'
  BY DEF SkipInv, Due
<1> DEFINE job == jobs["loop"]
<1>0. /\ now \in Nat /\ sleep \in Nat /\ "loop" \in Makers /\ jobs \in [Makers -> Job]
      /\ job.day \in Int /\ job.began \in Nat /\ since \in Nat
  BY JobsFact, NumbersFact DEF TypeInv, TypeOK, Times, Makers
<1>d. \A d \in Int : Due(d) \in Int
  BY DueOrder
<1>1. CASE Tick
  <2>1. /\ now' = now + 1 /\ UNCHANGED <<stage, jobs, since, disturbed, reports>>
        /\ Up /\ ~Busy => sleep > 0 /\ sleep' = sleep - 1
    BY <1>1 DEF Tick, migrationVars, reportHistory, Sleeping, Busy
  <2>2. Busy' = Busy /\ Up' = Up /\ \A d \in Int : (Reported(d))' <=> Reported(d)
    BY <2>1 DEF Busy, Up, Reported
  <2>3. Up /\ ~Busy => now' + sleep' = now + sleep
    BY <1>0, <2>1
  <2> QED
    BY <1>0, <1>d, <2>1, <2>2, <2>3 DEF SkipInv
<1>2. CASE SetClock
  BY <1>2 DEF SetClock
<1>3. CASE Begin
  <2>1. /\ ~Up /\ UNCHANGED <<now, jobs, reports>> /\ sleep' = UntilReport(now) /\ since' = now
    BY <1>3 DEF Begin, Serve, Up
  <2>2. ~Busy'
    BY <2>1 DEF PlanInv, Busy
  <2>3. PICK e \in Int : now + sleep' = Due(e) /\ Due(e) <= now + Day
    BY <1>0, <2>1, NextDue
  <2>4. \A d \in Int : Due(d) < Due(e) => Due(d) <= now
    BY <1>0, <1>d, <2>3, DueOrder, NumbersFact
  <2> QED
    BY <1>0, <1>d, <2>1, <2>2, <2>3, <2>4
<1>4. CASE Crash
  BY <1>4 DEF Crash, Stop, Up
<1>5. CASE Start("loop")
  <2>1. /\ Up /\ ~Busy /\ sleep = 0 /\ UNCHANGED <<now, stage, since, disturbed, reports>>
        /\ jobs' = [jobs EXCEPT !["loop"] = [stage |-> "reading", day |-> DayOf(now),
                                             began |-> now, found |-> {}]]
    BY <1>5 DEF Start, Busy, migrationVars, reportHistory
  <2>2. Busy' /\ jobs'["loop"].began = now
    BY <1>0, <2>1 DEF Busy
  <2>3. \A d \in Int : (Reported(d))' <=> Reported(d)
    BY <2>1 DEF Reported
  <2>4. now + sleep = now
    BY <1>0, <2>1
  <2> QED
    BY <1>0, <1>d, <2>1, <2>2, <2>3, <2>4 DEF SkipInv
<1>6. CASE Mail("loop")
  <2>1. /\ jobs' = [jobs EXCEPT !["loop"] = NoJob] /\ sleep' = UntilReport(now) /\ Busy
        /\ UNCHANGED <<now, stage, since, disturbed>>
        /\ reports' = reports \cup {[maker |-> "loop", day |-> job.day,
                                       began |-> job.began, found |-> job.found]}
    BY <1>6 DEF Mail, Finished, Busy, migrationVars
  <2>2. /\ ~Busy' /\ Up
    BY <2>1, LoopSleeps DEF Up
  <2>3. PICK e \in Int : now + sleep' = Due(e) /\ Due(e) <= now + Day
    BY <2>1, LoopSleeps
  <2> DEFINE r == [maker |-> "loop", day |-> job.day,
                                       began |-> job.began, found |-> job.found]
  <2>a. r \in reports' /\ r.maker = "loop" /\ r.day = job.day /\ reports \subseteq reports'
    BY <2>1
  <2>b. \A d \in Int : d = r.day => \E x \in reports' : x.maker = "loop" /\ x.day = d
    BY <2>a
  <2>4. \A d \in Int : d = job.day \/ Reported(d) => (Reported(d))'
    BY <2>a, <2>b DEF Reported
  <2>5. job.began = Due(job.day) /\ now <= job.began + MaxRun /\ MaxRun \in Nat /\ MaxRun < Day
    BY <2>1, NumbersFact DEF PlanInv, Calm
  <2>6. ASSUME NEW d \in Int, since < Due(d), Due(d) < now + sleep'
        PROVE  (Reported(d))'
    <3>1. Due(d) <= now
      BY <1>0, <1>d, <2>3, <2>6, DueOrder, NumbersFact
    <3>2. ~(Due(job.day) + Day <= Due(d))
      BY <1>0, <1>d, <2>5, <3>1, NumbersFact
    <3>3. ~(Due(job.day) < Due(d))
      BY <1>0, <3>2, DueOrder
    <3>4. CASE Due(d) < Due(job.day)
      BY <2>1, <2>2, <2>4, <2>5, <2>6, <3>4 DEF SkipInv
    <3>5. CASE ~(Due(d) < Due(job.day))
      <4>1. ~(job.day < d) /\ ~(d < job.day)
        BY <1>0, <3>3, <3>5, DueOrder
      <4>2. d = job.day
        BY <1>0, <4>1
      <4> QED
        BY <1>0, <2>4, <4>2
    <3> QED
      BY <3>4, <3>5
  <2> QED
    BY <2>1, <2>2, <2>6 DEF SkipInv
<1>7. CASE Fail("loop")
  BY <1>7 DEF Fail
<1>8. CASE Aside
  BY <1>8 DEF Aside, SkipInv
<1> QED
  BY <1>1, <1>2, <1>3, <1>4, <1>5, <1>6, <1>7, <1>8, StepKinds DEF LoopStep

\* Since the last start, unless the clock was set or a report failed, every day whose 8:40
\* has come and gone was reported.
THEOREM NoneSkipped == Spec => []NoDaySkipped
<1>1. TypeInv /\ PlanInv /\ SkipInv => NoDaySkipped
  <2> SUFFICES ASSUME TypeInv, PlanInv, SkipInv, ~disturbed, Up, NEW d \in Days,
                      since < Due(d), Due(d) + MaxRun < now
               PROVE  Reported(d)
    BY DEF NoDaySkipped
  <2>1. /\ d \in Int /\ Due(d) \in Int /\ now \in Nat /\ sleep \in Nat
        /\ MaxRun \in Nat /\ jobs["loop"].began \in Nat
    BY DaysFact, DueOrder, JobsFact, NumbersFact DEF TypeInv, TypeOK, Times, Makers
  <2>2. ~Busy => Due(d) < now + sleep
    BY <2>1
  <2>3. Busy => Due(d) < jobs["loop"].began
    BY <2>1 DEF PlanInv, Calm
  <2> QED
    BY <2>1, <2>2, <2>3 DEF SkipInv
<1> QED
  BY <1>1, SkipStart, SkipKept, PlanAlways, PTL DEF Spec
=============================================================================
