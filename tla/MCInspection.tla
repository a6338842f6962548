---------------------------- MODULE MCInspection ----------------------------
(* Instances of Inspection for TLC. *)
EXTENDS Inspection

CONSTANTS m, n   \* two nodes

TwoNodes == {m, n}
\* Both batches are of one node; of the other there are only tasks, which may fail.
TwoBatches == {<<n, 1>>, <<n, 2>>}
OneEach    == {<<m, 1>>, <<n, 1>>}
LowAndHigh == {"INFO", "CRITICAL"}
OnlyHigh   == {"ERROR"}
=============================================================================
