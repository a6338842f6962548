----------------------------- MODULE LogDelivery -----------------------------
(***************************************************************************)
(* What the collector of a node promises about its journal, whatever it    *)
(* reads, caches and restarts: a cursor that moves on only over lines that *)
(* are accounted for, together with the storing of the last of them, a     *)
(* saved cursor that is never ahead of it, and nothing sent that the       *)
(* cursor has passed.  AgentCollector implements this.                     *)
(***************************************************************************)
EXTENDS Integers

CONSTANTS Messages, MaxLines   \* see AgentCollector

VARIABLES
  text,     \* the message of each line
  own,      \* the lines the agent itself logs
  written,  \* how many lines there are
  up,       \* is there a process?
  cursor,   \* lines it has passed
  file,     \* what a restart will know of it
  left,     \* lines left out: malformed, filtered or not in the tail
  twin,     \* the line for which another of its message was left out, or 0
  stored,   \* lines the controller has
  limbo,    \* batches it may get yet
  unacked   \* lines of pushes that failed

Positions == 1..MaxLines

vars == <<text, own, written, up, cursor, file, left, twin, stored, limbo, unacked>>

Init ==
  /\ text \in [Positions -> Messages]
  /\ own \subseteq Positions /\ left \subseteq Positions
  /\ written = 0 /\ cursor = 0 /\ file = 0
  /\ up = FALSE
  /\ twin = [p \in Positions |-> 0]
  /\ stored = {} /\ limbo = {} /\ unacked = {}

\* Ahead of the cursor, up to line n.
Ahead(n) == (cursor + 1)..n

Accounted(p) ==
  \/ p \in stored \cup left \cup own
  \/ /\ twin[p] # 0 /\ text[twin[p]] = text[p]
     /\ twin[p] \in stored \cup unacked \cup own

LogLine ==
  /\ written < MaxLines
  /\ written' = written + 1
  /\ UNCHANGED <<text, own, up, cursor, file, left, twin, stored, limbo, unacked>>

\* A process goes on from the saved cursor.
Start ==
  /\ ~up
  /\ up' = TRUE
  /\ cursor' = file
  /\ UNCHANGED <<text, own, written, file, left, twin, stored, limbo, unacked>>

\* Nothing but the file survives, and perhaps a push under way.
Crash ==
  /\ up
  /\ up' = FALSE
  /\ cursor' = 0
  /\ limbo' = limbo \/ \E B \in SUBSET Ahead(written) : limbo' = limbo \cup {B}
  /\ UNCHANGED <<text, own, written, file, left, twin, stored, unacked>>

LeaveOut(S) ==
  /\ up
  /\ S \subseteq Ahead(written)
  /\ left' = left \cup S
  /\ UNCHANGED <<text, own, written, up, cursor, file, twin, stored, limbo, unacked>>

\* Line p is left to a line q of its message.
LeaveTo(p, q) ==
  /\ up
  /\ p \in Ahead(written) /\ q \in 1..written /\ text[q] = text[p]
  /\ twin' = [twin EXCEPT ![p] = q]
  /\ UNCHANGED <<text, own, written, up, cursor, file, left, stored, limbo, unacked>>

\* The cursor moves on to n and not back, and B is stored with it, if there is
\* anything to store: every line up to n is then accounted for.
Pass(n, B) ==
  /\ up
  /\ n \in cursor..written /\ B \subseteq Ahead(n)
  /\ cursor' = n
  /\ stored' = stored \cup B
  /\ \A p \in Ahead(n) : Accounted(p)'
  /\ UNCHANGED <<text, own, written, up, file, left, twin, limbo, unacked>>

\* The cursor stays where it is.
FailedPush(B) ==
  /\ up
  /\ B \subseteq Ahead(written)
  /\ limbo' = limbo \cup {B}
  /\ unacked' = unacked \cup B
  /\ UNCHANGED <<text, own, written, up, cursor, file, left, twin, stored>>

LateStore(B) ==
  /\ stored' = stored \cup B
  /\ limbo' = limbo \ {B}
  /\ UNCHANGED <<text, own, written, up, cursor, file, left, twin, unacked>>

\* The file is emptied, then written.
Save ==
  /\ up
  /\ file' \in {0, cursor}
  /\ UNCHANGED <<text, own, written, up, cursor, left, twin, stored, limbo, unacked>>

Next ==
  \/ LogLine \/ Start \/ Crash \/ Save
  \/ \E S \in SUBSET Positions : LeaveOut(S) \/ FailedPush(S)
  \/ \E p, q \in Positions : LeaveTo(p, q)
  \/ \E n \in 0..MaxLines, B \in SUBSET Positions : Pass(n, B)
  \/ \E B \in limbo : LateStore(B)

Spec == Init /\ [][Next]_vars
=============================================================================
