------------------------------ MODULE Migration ------------------------------
(***************************************************************************)
(* The start-up of the controller: create the tables, add the columns an   *)
(* older database lacks, date its old records, and serve in any case.      *)
(*                                                                         *)
(*   controller/api/main.py    lifespan, SCHEMA_MIGRATIONS                 *)
(*   controller/db/models.py   the tables as create_all makes them         *)
(*                                                                         *)
(* With Python's sqlite3, a DDL statement outside a transaction takes      *)
(* effect at once, and an UPDATE opens a transaction that ends with the    *)
(* block.  A crash or an error in between keeps the column and loses the   *)
(* UPDATE, and the next start-up finds the column there.                   *)
(***************************************************************************)
EXTENDS Integers, Sequences, FiniteSets

CONSTANTS
  Schemas,    \* columns that databases of earlier versions lack
  MaxRecords  \* bound: analysis records

\* SCHEMA_MIGRATIONS, in its order.
Columns == <<"agent_url", "cpu_usage_percent", "memory_usage_percent",
             "disk_usage", "created_at">>
Names == {Columns[i] : i \in DOMAIN Columns}

ASSUME MigrationAssumption ==
  /\ Schemas \subseteq SUBSET Names
  /\ MaxRecords \in Nat

VARIABLES
  now,       \* the wall clock
  \* The database.
  defaulted, \* created_at has a DEFAULT: create_all made the table
  missing,   \* columns the tables lack
  records,   \* rows of analysis_records that are committed
  pending,   \* the row that was inserted and is not committed yet, if any
  \* The process.
  stage,     \* "down", "migrating", "dating" or "up"
  next,      \* the migration to look at
  \* History.
  cut,       \* a start-up ended between ALTER and UPDATE
  erred      \* the last start-up met a database error

migrationVars == <<defaulted, missing, records, pending, stage, next, cut, erred>>

Null == -1   \* no created_at

\* A row: from the earlier version or inserted at an instant, and its created_at.
Record == [old : BOOLEAN, made : Nat \cup {Null}, date : Nat \cup {Null}]

MigrationTypeOK ==
  /\ defaulted \in BOOLEAN
  /\ missing \in SUBSET Names
  /\ records \in SUBSET Record /\ pending \in SUBSET Record
  /\ stage \in {"down", "migrating", "dating", "up"}
  /\ next \in 1..(Len(Columns) + 1)
  /\ cut \in BOOLEAN /\ erred \in BOOLEAN

\* No database yet, or one of an earlier version, with an undated record if its
\* records had no dates.
MigrationInit ==
  /\ missing \in Schemas \cup {{}}
  /\ defaulted = ("created_at" \notin missing)
  /\ records = IF defaulted THEN {} ELSE {[old |-> TRUE, made |-> Null, date |-> Null]}
  /\ pending = {}
  /\ stage = "down" /\ next = 1
  /\ cut = FALSE /\ erred = FALSE
-----------------------------------------------------------------------------
\* create_all makes the tables that do not exist, with all columns.
StartUp ==
  /\ stage = "down"
  /\ stage' = "migrating" /\ next' = 1 /\ erred' = FALSE
  /\ UNCHANGED <<now, defaulted, missing, records, pending, cut>>

Looking(c) == stage = "migrating" /\ next <= Len(Columns) /\ Columns[next] = c

\* The column exists, or its ALTER adds it.
Column ==
  /\ \E c \in Names :
       /\ Looking(c) /\ (c = "created_at" => c \notin missing)
       /\ missing' = missing \ {c}
  /\ next' = next + 1
  /\ UNCHANGED <<now, defaulted, records, pending, stage, cut, erred>>

\* The old records are left as they are.
BuggyAddDates ==
  /\ Looking("created_at") /\ "created_at" \in missing
  /\ missing' = missing \ {"created_at"}
  /\ next' = next + 1
  /\ UNCHANGED <<now, defaulted, records, pending, stage, cut, erred>>

AddDates ==
  /\ Looking("created_at") /\ "created_at" \in missing
  /\ missing' = missing \ {"created_at"}
  /\ stage' = "dating"
  /\ UNCHANGED <<now, defaulted, records, pending, next, cut, erred>>

\* UPDATE and commit.
Backfill ==
  /\ stage = "dating"
  /\ records' = {IF x.date = Null THEN [x EXCEPT !.date = now] ELSE x : x \in records}
  /\ stage' = "migrating" /\ next' = next + 1
  /\ UNCHANGED <<now, defaulted, missing, pending, cut, erred>>

\* The block is left, or gives up at a database error ("continuing").
Serve ==
  /\ \/ stage = "migrating" /\ next > Len(Columns) /\ UNCHANGED <<cut, erred>>
     \/ /\ stage \in {"migrating", "dating"}
        /\ cut' = (cut \/ stage = "dating") /\ erred' = TRUE
  /\ stage' = "up" /\ next' = 1
  /\ UNCHANGED <<now, defaulted, missing, records, pending>>

\* Killed, or shut down; what is not committed is gone.
Stop ==
  /\ stage # "down"
  /\ stage' = "down" /\ next' = 1 /\ pending' = {}
  /\ cut' = (cut \/ stage = "dating")
  /\ UNCHANGED <<now, defaulted, missing, records, erred>>

\* The INSERT of a row of analysis_records.  Its created_at is left to the table: the
\* column's DEFAULT, the time of the statement, which ALTER did not give it.  Without
\* one of the columns the SELECT of the node, or this INSERT, which asks for created_at
\* back, fails.  SQLite has one writer at a time.
Insert ==
  /\ stage = "up" /\ missing = {} /\ pending = {}
  /\ Cardinality(records) < MaxRecords
  /\ pending' = {[old |-> FALSE, made |-> now, date |-> IF defaulted THEN now ELSE Null]}
  /\ UNCHANGED <<now, defaulted, missing, records, stage, next, cut, erred>>

\* The transaction ends, and others see its row; or it is rolled back.
EndInsert ==
  /\ pending # {}
  /\ records' \in {records, records \cup pending}
  /\ pending' = {}
  /\ UNCHANGED <<now, defaulted, missing, stage, next, cut, erred>>
-----------------------------------------------------------------------------
(* Properties. *)

\* A start-up without an error leaves the schema complete, wherever earlier ones ended,
\* and the old records dated, unless one ended between ALTER and UPDATE (main.py:80);
\* new records lack a date only in a table that was migrated.
MigrationComplete ==
  stage = "up" /\ ~erred =>
    /\ missing = {}
    /\ \A x \in records : x.date = Null => ~defaulted /\ (~x.old \/ cut)

\* The comment at main.py:56: old rows are backfilled, and new ones get their
\* created_at from the server default.
NewRecordsDated == \A x \in records : ~x.old => x.date # Null
=============================================================================
