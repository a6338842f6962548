--------------------------- MODULE BatchLifecycle ---------------------------
(***************************************************************************)
(* What the controller promises about a log batch, whatever tasks, sessions *)
(* and rounds it uses: a batch waits, is analyzed by one report on its node *)
(* that read whatever entries it still had, and is purged afterwards.      *)
(* Inspection implements this.                                             *)
(***************************************************************************)
EXTENDS Naturals, Sequences

CONSTANTS
  Batches,
  Owner     \* the node of each batch

VARIABLES
  state,    \* of each batch, see States
  reports,  \* the reports, each with the batches it covers and those it read
  faulty    \* has a task ever failed?

vars == <<state, reports, faulty>>

\* A stale batch still waits, and its entries have been purged.
States == {"unknown", "fresh", "stale", "analyzed", "purged"}

In(s) == {b \in Batches : state[b] = s}

Becomes(S, s) == [b \in Batches |-> IF b \in S THEN s ELSE state[b]]

\* What one analysis may cover: waiting batches of one node.  A task that failed in
\* the eyes of its round may have a successor, and both may cover the same batches.
Coverable(S) ==
  /\ S # {}
  /\ \A b, c \in S : Owner[b] = Owner[c]
  /\ S \subseteq In("fresh") \cup In("stale") \cup (IF faulty THEN In("analyzed") ELSE {})

Init ==
  /\ state = [b \in Batches |-> "unknown"]
  /\ reports = <<>>
  /\ faulty = FALSE

Push(b) ==
  /\ state[b] = "unknown"
  /\ state' = Becomes({b}, "fresh")
  /\ UNCHANGED <<reports, faulty>>

\* One report; no entry of a batch it covers is passed over.
Report(S, R) ==
  /\ Coverable(S)
  /\ R \subseteq S /\ R # {}
  /\ S \cap In("fresh") \subseteq R
  /\ reports' = Append(reports, [covers |-> S, read |-> R])
  /\ state' = Becomes(S, "analyzed")
  /\ UNCHANGED faulty

\* Without a report only batches that have nothing left to read are settled.
Settle(S) ==
  /\ Coverable(S) /\ S \cap In("fresh") = {}
  /\ state' = Becomes(S, "analyzed")
  /\ UNCHANGED <<reports, faulty>>

\* Entries go with age, batches only once they are analyzed.
Cleanup(S, P) ==
  /\ S \subseteq In("fresh") /\ P \subseteq In("analyzed")
  /\ state' = [b \in Batches |-> IF b \in S THEN "stale"
                                 ELSE IF b \in P THEN "purged" ELSE state[b]]
  /\ UNCHANGED <<reports, faulty>>

Fail ==
  /\ faulty' = TRUE
  /\ UNCHANGED <<state, reports>>

Next ==
  \/ \E b \in Batches : Push(b)
  \/ \E S \in SUBSET Batches : Settle(S) \/ \E R \in SUBSET S : Report(S, R)
  \/ \E S, P \in SUBSET Batches : Cleanup(S, P)
  \/ Fail

Spec == Init /\ [][Next]_vars
=============================================================================
