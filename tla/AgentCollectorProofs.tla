------------------------ MODULE AgentCollectorProofs ------------------------
(***************************************************************************)
(* Proofs of the safety properties of AgentCollector, for every value of   *)
(* its constants.                                                          *)
(***************************************************************************)
EXTENDS AgentCollector, TLAPS

\* A read is in progress, or what it returned is being pushed.
Holding == pc \in {"reading", "stuck", "pushing"}

\* A message in the cache was brought there by a line of this message, which is
\* backed or still in the batch.
CacheInv ==
  \A m \in Messages : Cached(m) =>
    /\ origin[m] \in 1..written
    /\ Msg(origin[m]) = m
    /\ Backed(origin[m]) \/ origin[m] \in batch

\* The read is past the cursor, and the batch lies between the cursor and the
\* last line that carried one.
ReadInv ==
  /\ ~Holding => batch = {} /\ last = NoCursor
  /\ Holding => cursor < pos /\ last < pos
  /\ Holding /\ last # NoCursor => cursor < last
  /\ \A p \in batch : cursor < p /\ p <= last

\* Lines passed by this read are settled once the batch is.
Pending(p) ==
  Settled(p) \/ p \in batch
  \/ (twin[p] # 0 /\ Msg(twin[p]) = Msg(p) /\ twin[p] \in batch)

PassedInv == Holding => \A p \in 1..written : p < pos => Pending(p)

\* The cursor file never runs ahead of what the running agent committed, so
\* a restart may repeat lines and never skips any (main.go commits, then saves).
FileNotAhead == pc # "down" => file <= cursor

\* A dead process holds nothing.
DownInv == pc = "down" => cache = Empty /\ cursor = NoCursor /\ batch = {}

DeliveryInv ==
  /\ CacheInv
  /\ ReadInv
  /\ PassedInv
  /\ DownInv
  /\ FileNotAhead
  /\ LossNeedsFailure

\* Where a read begins, or will begin once the agent is started.
Resume == IF pc = "down" THEN file ELSE cursor

\* What is stored is unacknowledged, or was beyond the file in a crash, or is behind the
\* cursor; and what may be stored yet is one of the first two.
ResendInv ==
  /\ \A p \in stored : p \in unacked \cup exposed \/ p <= Resume
  /\ \A b \in limbo : b \subseteq unacked \cup exposed

\* The cleaner wakes within a period, and no entry outlives its next visit.
ClockInv ==
  pc # "down" =>
    /\ now <= cleanAt /\ cleanAt <= now + Period
    /\ \A m \in Messages :
         IF Cached(m)
         THEN /\ cache[m] <= now /\ cleanAt - cache[m] <= TTL + Period
              /\ entered[m] = cache[m]
         ELSE entered[m] = Absent \/ now - entered[m] > TTL
-----------------------------------------------------------------------------
USE DEF hostVars, processVars, readVars, remoteVars, historyVars,
        Positions, NoCursor, Absent, Period, Empty, Line, Kinds

LEMMA PeriodFact == Period \in Nat /\ Period <= TTL
BY ConstantsAssumption

\* Every variable keeps its type (all actions of the collection loop, the cache
\* cleaner, the pattern update and the crash).
LEMMA TypeInit == Init => TypeOK
BY ConstantsAssumption DEF Init, TypeOK

LEMMA TypeNext == TypeOK /\ [Next]_vars => TypeOK'
<1> SUFFICES ASSUME TypeOK, [Next]_vars PROVE TypeOK'
  OBVIOUS
<1> USE ConstantsAssumption, PeriodFact DEF TypeOK
<1>1. CASE LogLine
  BY SMTT(60), <1>1 DEF LogLine
<1>2. CASE Tick
  BY SMTT(30), <1>2 DEF Tick
<1>3. CASE StartAgent
  BY SMTT(30), <1>3 DEF StartAgent
<1>4. CASE Crash
  <2>1. limbo' \in SUBSET SUBSET (1..written) /\ written' = written
    BY <1>4 DEF Crash
  <2>2. crashes' \in 0..MaxCrashes
    BY <1>4 DEF Crash
  <2>3. /\ pc' = "down" /\ cursor' = 0 /\ cache' = [m \in Messages |-> -1]
        /\ pos' = 1 /\ last' = 0 /\ batch' = {}
        /\ UNCHANGED <<hostVars, file, patterns, cleanAt, stored, excused, unacked,
                       entered, origin, twin>>
    BY <1>4 DEF Crash
  <2>4. exposed' \in SUBSET (1..written)
    <3>1. exposed' = exposed \cup (file + 1)..written /\ file \in Nat
      BY <1>4 DEF Crash
    <3> QED
      BY <3>1
  <2> QED
    BY SMTT(30), <2>1, <2>2, <2>3, <2>4
<1>5. CASE Cleanup
  <2>1. cache' \in [Messages -> Nat \cup {Absent}]
    BY <1>5 DEF Cleanup
  <2>2. cleanAt' \in Nat
    BY <1>5 DEF Cleanup
  <2> QED
    BY <1>5, <2>1, <2>2 DEF Cleanup
<1>6. CASE UpdatePatterns
  BY <1>6 DEF UpdatePatterns
<1>7. CASE StartCollect
  BY SMTT(30), <1>7 DEF StartCollect, FirstLine
<1>8. CASE ScanBad
  BY <1>8 DEF ScanBad, Scanning
<1>9. CASE ScanIgnored
  <2>1. pos \in 1..written
    BY <1>9 DEF ScanIgnored, Scanning
  <2>2. pos' \in 1..(written + 1) /\ last' \in 0..written /\ written' = written
    BY <1>9, <2>1 DEF ScanIgnored
  <2>3. excused' \in SUBSET (1..written)
    BY <1>9, <2>1 DEF ScanIgnored
  <2> QED
    BY <1>9, <2>2, <2>3 DEF ScanIgnored
<1>10. CASE ScanDuplicate
  BY <1>10 DEF ScanDuplicate, ReachesDedup, Scanning, Msg
<1>11. CASE ScanFresh
  BY <1>11 DEF ScanFresh, ReachesDedup, Scanning, Msg
<1>12. CASE EndRead \/ CutRead
  <2>1. FinishRead
    BY <1>12 DEF EndRead, CutRead
  <2>2. CASE batch # {}
    BY <2>1, <2>2 DEF FinishRead
  <2>3. CASE batch = {}
    <3>1. NextCursor \in 0..written
      BY DEF NextCursor
    <3>2. cursor' = NextCursor /\ pc' \in {"saving", "idle"} /\ pos' = 1 /\ last' = 0
      /\ batch' = {}
      BY <2>1, <2>3 DEF FinishRead, Commit
    <3>3. UNCHANGED <<hostVars, file, patterns, cache, cleanAt, remoteVars,
                      historyVars>>
      BY <2>1 DEF FinishRead
    <3> QED
      BY SMTT(30), <3>1, <3>2, <3>3
  <2> QED
    BY <2>2, <2>3
<1>13. CASE Stall
  BY <1>13 DEF Stall
<1>14. CASE PushOk
  BY <1>14 DEF PushOk, Commit, NextCursor
<1>15. CASE PushFails
  BY <1>15 DEF PushFails
<1>16. CASE LateStore
  BY <1>16 DEF LateStore
<1>17. CASE OpenCursorFile
  BY SMTT(30), <1>17 DEF OpenCursorFile
<1>19. CASE WriteCursor
  BY <1>19 DEF WriteCursor
<1>20. CASE SaveFails
  BY <1>20 DEF SaveFails
<1>18. CASE UNCHANGED vars
  BY <1>18 DEF vars
<1> QED
  BY <1>1, <1>2, <1>3, <1>4, <1>5, <1>6, <1>7, <1>8, <1>9, <1>10, <1>11, <1>12,
     <1>13, <1>14, <1>15, <1>16, <1>17, <1>18, <1>19, <1>20 DEF Next, Scan

THEOREM TypeCorrect == Spec => []TypeOK
BY TypeInit, TypeNext, PTL DEF Spec
-----------------------------------------------------------------------------
\* What is settled stays so while the remote and history sets only grow and the
\* line is not scanned again.
LEMMA SettledStays ==
  ASSUME NEW p, Settled(p), journal' = journal, stored \subseteq stored',
         excused \subseteq excused', unacked \subseteq unacked',
         twin'[p] = twin[p]
  PROVE  Settled(p)'
BY DEF Settled, Backed, Kind, Msg

\* A line that is pending stays so when the batch may only grow or be backed.
LEMMA PendingStays ==
  ASSUME NEW p, Pending(p), journal' = journal, stored \subseteq stored',
         excused \subseteq excused', unacked \subseteq unacked',
         twin'[p] = twin[p], batch \subseteq batch'
  PROVE  Pending(p)'
BY DEF Pending, Settled, Backed, Kind, Msg

LEMMA PendingIsSettled ==
  ASSUME NEW p, Pending(p), journal' = journal,
         excused' = excused, twin'[p] = twin[p],
         \/ batch = {} /\ stored' = stored /\ unacked' = unacked
         \/ stored' = stored \cup batch /\ unacked' = unacked
  PROVE  Settled(p)'
BY DEF Pending, Settled, Backed, Kind, Msg

\* The cursor a read or a push commits is past everything it settled and not
\* before the old one.
LEMMA NextCursorFact ==
  ASSUME TypeOK, DeliveryInv, Holding
  PROVE  /\ NextCursor \in Nat /\ NextCursor < pos
         /\ cursor <= NextCursor
         /\ batch # {} => NextCursor = last
<1>1. cursor \in Nat /\ last \in Nat /\ pos \in Nat
  BY DEF TypeOK
<1>2. cursor < pos /\ last < pos /\ (last # NoCursor => cursor < last)
  BY DEF DeliveryInv, ReadInv
<1>3. ASSUME batch # {} PROVE last # NoCursor
  <2>1. PICK p \in batch : cursor < p /\ p <= last
    BY <1>3 DEF DeliveryInv, ReadInv
  <2>2. p \in Nat
    BY <2>1 DEF TypeOK
  <2> QED
    BY <1>1, <2>1, <2>2
<1> QED
  BY <1>1, <1>2, <1>3 DEF NextCursor

\* Committing keeps the invariant, once the batch is empty or stored.
LEMMA CommitKeeps ==
  ASSUME TypeOK, TypeOK', DeliveryInv, pc \in {"reading", "pushing"}, Commit,
         UNCHANGED <<hostVars, file, patterns, cache, cleanAt, limbo, historyVars>>,
         \/ batch = {} /\ stored' = stored
         \/ stored' = stored \cup batch
  PROVE  DeliveryInv'
<1> USE DEF TypeOK
<1>1. Holding /\ ~Holding' /\ pc' # "down"
  BY DEF Holding, Commit
<1>2. batch' = {} /\ cursor' = NextCursor
  BY DEF Commit
<1>3. \A p \in 1..written : p < pos => Settled(p)'
  BY <1>1, PendingIsSettled DEF DeliveryInv, PassedInv
<1>4. NextCursor \in Nat /\ NextCursor < pos /\ cursor <= NextCursor
  BY <1>1, NextCursorFact
<1>5. CacheInv'
  BY DEF DeliveryInv, CacheInv, Cached, Msg, Kind, Backed
<1>6. ReadInv' /\ PassedInv' /\ DownInv'
  BY <1>1, <1>2 DEF ReadInv, PassedInv, DownInv, Commit
<1>7. FileNotAhead'
  BY <1>2, <1>4, <1>1 DEF DeliveryInv, FileNotAhead, Holding
<1>8. LossNeedsFailure'
  BY <1>2, <1>3, <1>4, <1>7, <1>1 DEF LossNeedsFailure, FileNotAhead
<1> QED
  BY <1>5, <1>6, <1>7, <1>8 DEF DeliveryInv

LEMMA DeliveryInit == Init => DeliveryInv
BY DEF Init, DeliveryInv, CacheInv, ReadInv, PassedInv, DownInv, Cached,
       FileNotAhead, LossNeedsFailure, Holding

\* What a scanned line has to establish: it is pending, and the cache is right.
LEMMA ScanKeeps ==
  ASSUME TypeOK, TypeOK', DeliveryInv, Scanning,
         UNCHANGED <<journal, written, file, pc, cursor, stored, unacked>>,
         pos' = pos + 1, last' \in {last, pos},
         batch' \in {batch, batch \cup {pos}}, batch' # batch => last' = pos,
         excused \subseteq excused',
         \A p \in Positions : p # pos => twin'[p] = twin[p],
         NEW q \in Positions, q = pos, Pending(q)', CacheInv'
  PROVE  DeliveryInv'
<1> USE DEF TypeOK, DeliveryInv
<1>1. Holding /\ Holding' /\ pc' # "down" /\ pc # "down" /\ pos \in 1..written
  BY DEF Scanning, Holding
<1>2. cursor < pos /\ last < pos /\ (last # NoCursor => cursor < last)
  BY <1>1 DEF ReadInv
<1>3. ReadInv'
  <2>1. last' < pos' /\ cursor' < pos' /\ (last' # NoCursor => cursor' < last')
    BY <1>1, <1>2
  <2>2. \A p \in batch' : cursor' < p /\ p <= last'
    BY <1>1, <1>2 DEF ReadInv
  <2> QED
    BY <1>1, <2>1, <2>2 DEF ReadInv
<1>4. PassedInv'
  <2>1. ASSUME NEW p \in 1..written, p < pos PROVE Pending(p)'
    <3>1. p # pos /\ p \in Positions
      BY <1>1, <2>1, ConstantsAssumption
    <3>2. Pending(p) /\ twin'[p] = twin[p] /\ batch \subseteq batch'
      BY <1>1, <2>1, <3>1 DEF PassedInv
    <3> QED
      BY <3>2, PendingStays
  <2>2. ASSUME NEW p \in 1..written, p < pos' PROVE p < pos \/ p = q
    BY <1>1, <2>2
  <2> QED
    BY <1>1, <2>1, <2>2 DEF PassedInv
<1>5. DownInv' /\ FileNotAhead'
  BY <1>1 DEF DownInv, FileNotAhead
<1>6. LossNeedsFailure'
  <2>1. ASSUME NEW p \in 1..written, p <= cursor \/ p <= file PROVE Settled(p)'
    <3>1. p < pos /\ p # pos /\ p \in Positions
      <4>1. file <= cursor
        BY <1>1 DEF FileNotAhead
      <4> QED
        BY <1>1, <1>2, <2>1, <4>1, ConstantsAssumption
    <3>2. Settled(p)
      BY <2>1 DEF LossNeedsFailure
    <3> QED
      BY <3>1, <3>2, SettledStays
  <2> QED
    BY <2>1 DEF LossNeedsFailure
<1> QED
  BY <1>3, <1>4, <1>5, <1>6

LEMMA DeliveryNext == TypeOK /\ TypeOK' /\ DeliveryInv /\ [Next]_vars => DeliveryInv'
<1> SUFFICES ASSUME TypeOK, TypeOK', DeliveryInv, [Next]_vars PROVE DeliveryInv'
  OBVIOUS
<1> USE DEF TypeOK
\* Steps that change nothing the invariant speaks of, except the control state.
<1>1. ASSUME UNCHANGED <<journal, written, file, cursor, cache, readVars, stored,
                         excused, unacked, origin, twin>>,
             Holding' = Holding, (pc' = "down") = (pc = "down")
      PROVE  DeliveryInv'
  <2> USE <1>1 DEF DeliveryInv
  <2>1. CacheInv'
    BY DEF CacheInv, Cached, Msg, Kind, Backed
  <2>2. ReadInv' /\ DownInv' /\ FileNotAhead'
    BY DEF ReadInv, DownInv, FileNotAhead
  <2>3. PassedInv'
    BY PendingStays DEF PassedInv
  <2>4. LossNeedsFailure'
    BY SettledStays DEF LossNeedsFailure
  <2> QED
    BY <2>1, <2>2, <2>3, <2>4
<1>2. CASE LogLine
  <2> USE <1>2 DEF LogLine, DeliveryInv
  <2>1. CacheInv'
    BY DEF CacheInv, Cached, Msg, Kind, Backed
  <2>2. ReadInv' /\ DownInv' /\ FileNotAhead'
    BY DEF ReadInv, DownInv, FileNotAhead, Holding
  <2>3. PassedInv'
    BY PendingStays DEF PassedInv, Holding
  <2>4. LossNeedsFailure'
    BY SettledStays DEF LossNeedsFailure
  <2> QED
    BY <2>1, <2>2, <2>3, <2>4
<1>3. CASE Tick
  BY <1>1, <1>3 DEF Tick, Holding
<1>4. CASE StartAgent
  <2> USE <1>4 DEF StartAgent, DeliveryInv
  <2>1. CacheInv'
    BY DEF CacheInv, Cached
  <2>2. ~Holding /\ ~Holding' /\ ReadInv' /\ PassedInv' /\ DownInv' /\ FileNotAhead'
    BY DEF ReadInv, PassedInv, DownInv, FileNotAhead, Holding
  <2>3. LossNeedsFailure'
    BY SettledStays DEF LossNeedsFailure
  <2> QED
    BY <2>1, <2>2, <2>3
<1>5. CASE Crash
  <2> USE <1>5 DEF Crash, DeliveryInv
  <2>1. CacheInv' /\ ReadInv' /\ PassedInv' /\ DownInv' /\ FileNotAhead'
    BY DEF CacheInv, Cached, ReadInv, PassedInv, DownInv, FileNotAhead, Holding
  <2>2. LossNeedsFailure'
    BY SettledStays DEF LossNeedsFailure
  <2> QED
    BY <2>1, <2>2
<1>6. CASE Cleanup
  <2> USE <1>6 DEF Cleanup, DeliveryInv
  <2>1. \A m \in Messages : Cached(m)' => Cached(m)
    BY DEF Cached
  <2>2. CacheInv'
    BY <2>1 DEF CacheInv, Msg, Kind, Backed
  <2>3. ReadInv' /\ DownInv' /\ FileNotAhead'
    BY DEF ReadInv, DownInv, FileNotAhead, Holding
  <2>4. PassedInv'
    BY PendingStays DEF PassedInv, Holding
  <2>5. LossNeedsFailure'
    BY SettledStays DEF LossNeedsFailure
  <2> QED
    BY <2>2, <2>3, <2>4, <2>5
<1>7. CASE UpdatePatterns
  BY <1>1, <1>7 DEF UpdatePatterns, Holding
<1>8. CASE Stall
  BY <1>1, <1>8 DEF Stall, Holding
<1>9. CASE UNCHANGED vars
  BY <1>1, <1>9 DEF vars, Holding
<1>10. CASE StartCollect
  <2> USE <1>10 DEF StartCollect, DeliveryInv
  <2>1. ~Holding /\ Holding' /\ batch = {} /\ pc' # "down"
    BY DEF Holding, ReadInv
  <2>2. CacheInv'
    BY DEF CacheInv, Cached, Msg, Kind, Backed
  <2>3. cursor < pos'
    BY DEF FirstLine
  <2>4. PassedInv'
    <3>1. ASSUME NEW p \in 1..written, p < pos' PROVE Settled(p)'
      <4>1. CASE p <= cursor
        BY <4>1, SettledStays DEF LossNeedsFailure
      <4>2. CASE ~(p <= cursor)
        <5>1. cursor = NoCursor /\ p \in 1..(FirstLine - 1)
          BY <3>1, <4>2 DEF FirstLine
        <5> QED
          BY <5>1 DEF Settled
      <4> QED
        BY <4>1, <4>2
    <3> QED
      BY <3>1 DEF PassedInv, Pending
  <2>5. last = NoCursor
    BY <2>1 DEF ReadInv
  <2>6. ReadInv' /\ DownInv' /\ FileNotAhead'
    BY <2>1, <2>3, <2>5 DEF ReadInv, DownInv, FileNotAhead
  <2>7. LossNeedsFailure'
    BY SettledStays DEF LossNeedsFailure
  <2> QED
    BY <2>2, <2>4, <2>6, <2>7
<1>11. CASE EndRead \/ CutRead
  <2>1. FinishRead /\ pc = "reading"
    BY <1>11 DEF EndRead, CutRead
  <2>2. CASE batch # {}
    BY <1>1, <2>1, <2>2 DEF FinishRead, Holding
  <2>3. CASE batch = {}
    BY <2>1, <2>3, CommitKeeps DEF FinishRead
  <2> QED
    BY <2>2, <2>3
<1>12. CASE PushOk
  BY <1>12, CommitKeeps DEF PushOk
<1>13. CASE PushFails
  <2> USE <1>13 DEF PushFails, DeliveryInv
  <2>1. CacheInv'
    BY DEF CacheInv, Cached, Msg, Kind, Backed
  <2>2. ReadInv' /\ PassedInv' /\ DownInv' /\ FileNotAhead'
    BY DEF ReadInv, PassedInv, DownInv, FileNotAhead, Holding
  <2>3. LossNeedsFailure'
    BY SettledStays DEF LossNeedsFailure
  <2> QED
    BY <2>1, <2>2, <2>3
<1>14. CASE LateStore
  <2> USE <1>14 DEF LateStore, DeliveryInv
  <2>1. stored \subseteq stored'
    OBVIOUS
  <2>2. CacheInv'
    BY <2>1 DEF CacheInv, Cached, Msg, Kind, Backed
  <2>3. ReadInv' /\ DownInv' /\ FileNotAhead'
    BY DEF ReadInv, DownInv, FileNotAhead, Holding
  <2>4. PassedInv'
    BY <2>1, PendingStays DEF PassedInv, Holding
  <2>5. LossNeedsFailure'
    BY <2>1, SettledStays DEF LossNeedsFailure
  <2> QED
    BY <2>2, <2>3, <2>4, <2>5
<1>15. CASE OpenCursorFile \/ WriteCursor
  <2> USE <1>15 DEF OpenCursorFile, WriteCursor, DeliveryInv
  <2>1. file' \in {NoCursor, cursor} /\ pc # "down"
    OBVIOUS
  <2>2. CacheInv'
    BY DEF CacheInv, Cached, Msg, Kind, Backed
  <2>3. ReadInv' /\ DownInv' /\ FileNotAhead' /\ PassedInv'
    BY DEF ReadInv, DownInv, FileNotAhead, PassedInv, Holding
  <2>4. LossNeedsFailure'
    <3>1. cursor' = cursor /\ written' = written
      BY DEF hostVars, processVars
    <3>2. \A p \in 1..written' : p <= cursor' => Settled(p)'
      BY <3>1, SettledStays DEF LossNeedsFailure
    <3>3. FileNotAhead'
      BY <2>3
    <3>4. pc' # "down"
      OBVIOUS
    <3>5. cursor \in Nat /\ file' \in Nat
      BY <2>1 DEF TypeOK, NoCursor
    <3> HIDE <1>15 DEF OpenCursorFile, WriteCursor, DeliveryInv
    <3>6. file' <= cursor'
      BY <3>3, <3>4 DEF FileNotAhead
    <3> QED
      BY <3>1, <3>2, <3>5, <3>6 DEF LossNeedsFailure, TypeOK
  <2> QED
    BY <2>2, <2>3, <2>4
<1>16. CASE SaveFails
  BY <1>1, <1>16 DEF SaveFails, Holding
<1>17. CASE ScanBad
  <2>1. PICK q \in Positions : q = pos
    BY <1>17, ConstantsAssumption DEF ScanBad, Scanning
  <2>2. CacheInv'
    BY <1>17 DEF ScanBad, DeliveryInv, CacheInv, Cached, Msg, Kind, Backed
  <2>3. Pending(q)'
    BY <1>17, <2>1 DEF ScanBad, Pending, Settled, Kind
  <2> QED
    BY <1>17, <2>1, <2>2, <2>3, ScanKeeps DEF ScanBad
<1>18. CASE ScanIgnored
  <2>1. PICK q \in Positions : q = pos
    BY <1>18, ConstantsAssumption DEF ScanIgnored, Scanning
  <2>2. CacheInv'
    BY <1>18 DEF ScanIgnored, DeliveryInv, CacheInv, Cached, Msg, Kind, Backed
  <2>3. Pending(q)'
    BY <1>18, <2>1 DEF ScanIgnored, Pending, Settled
  <2> QED
    BY <1>18, <2>1, <2>2, <2>3, ScanKeeps DEF ScanIgnored
<1>19. CASE ScanDuplicate
  <2>1. PICK q \in Positions : q = pos
    BY <1>19, ConstantsAssumption DEF ScanDuplicate, ReachesDedup, Scanning
  <2>2. CacheInv'
    BY <1>19 DEF ScanDuplicate, DeliveryInv, CacheInv, Cached, Msg, Kind, Backed
  <2>3. PICK o : o = origin[Msg(q)]
    OBVIOUS
  <2>4. /\ o # 0 /\ Msg(o) = Msg(q)
        /\ Backed(o) \/ o \in batch
    BY <1>19, <2>1, <2>3 DEF ScanDuplicate, ReachesDedup, DeliveryInv, CacheInv, Msg
  <2>5. twin'[q] = o
    BY <1>19, <2>1, <2>3 DEF ScanDuplicate
  <2>6. Pending(q)'
    BY <1>19, <2>4, <2>5 DEF ScanDuplicate, Pending, Settled, Backed, Msg, Kind
  <2> QED
    BY <1>19, <2>1, <2>2, <2>6, ScanKeeps DEF ScanDuplicate, ReachesDedup
<1>20. CASE ScanFresh
  <2>1. PICK q \in Positions : q = pos
    BY <1>20, ConstantsAssumption DEF ScanFresh, ReachesDedup, Scanning
  <2>2. /\ Scanning /\ q \in 1..written /\ Msg(q) \in Messages
        /\ written' = written /\ journal' = journal
    BY <1>20, <2>1 DEF ScanFresh, ReachesDedup, Scanning, Msg
  <2>3. Kind(q) = "own" \/ q \in batch'
    BY <1>20, <2>1 DEF ScanFresh
  <2>4. CacheInv'
    <3> SUFFICES ASSUME NEW m \in Messages, Cached(m)'
                 PROVE  (/\ origin[m] \in 1..written
                         /\ Msg(origin[m]) = m
                         /\ Backed(origin[m]) \/ origin[m] \in batch)'
      BY DEF CacheInv
    <3>1. CASE m # Msg(q)
      <4>1. origin'[m] = origin[m] /\ Cached(m)
        BY <1>20, <2>1, <3>1 DEF ScanFresh, Cached
      <4>2. /\ origin[m] \in 1..written /\ Msg(origin[m]) = m
            /\ Backed(origin[m]) \/ origin[m] \in batch
        BY <4>1 DEF DeliveryInv, CacheInv
      <4> QED
        BY <1>20, <4>1, <4>2 DEF ScanFresh, Msg, Kind, Backed
    <3>2. CASE m = Msg(q)
      <4>1. origin'[m] = q
        BY <1>20, <2>1, <2>2, <3>2 DEF ScanFresh
      <4> QED
        BY <2>2, <2>3, <3>2, <4>1 DEF Msg, Kind, Backed
    <3> QED
      BY <3>1, <3>2
  <2>5. Pending(q)'
    BY <2>2, <2>3 DEF Pending, Settled, Kind
  <2> QED
    BY <1>20, <2>1, <2>2, <2>4, <2>5, ScanKeeps DEF ScanFresh
<1> QED
  BY <1>2, <1>3, <1>4, <1>5, <1>6, <1>7, <1>8, <1>9, <1>10, <1>11, <1>12, <1>13,
     <1>14, <1>15, <1>16, <1>17, <1>18, <1>19, <1>20 DEF Next, Scan

\* The delivery invariant holds for every instance.
THEOREM DeliveryCorrect == Spec => []DeliveryInv
<1>1. Spec => [](TypeOK /\ DeliveryInv)
  BY TypeInit, TypeNext, DeliveryInit, DeliveryNext, PTL DEF Spec
<1> QED
  BY <1>1, PTL

\* No line is passed silently (main.go, journald.go, dedup.go; see the property).
THEOREM NothingLostSilently == Spec => []LossNeedsFailure
BY DeliveryCorrect, PTL DEF DeliveryInv

\* The cursor file never runs ahead of the committed cursor.
THEOREM FileBehindCursor == Spec => []FileNotAhead
BY DeliveryCorrect, PTL DEF DeliveryInv

\* A running agent never forgets or moves back its cursor, so that it never falls
\* back to reading the tail: a read that returned nothing, was cut, or met
\* only malformed lines commits the old one.
CursorKept ==
  [][pc # "down" /\ pc' # "down" => cursor' >= cursor]_vars

\* A live agent never moves its cursor back.
THEOREM CursorNeverBack == Spec => CursorKept
<1>1. TypeOK /\ DeliveryInv /\ [Next]_vars
        => [pc # "down" /\ pc' # "down" => cursor' >= cursor]_vars
  <2> SUFFICES ASSUME TypeOK, DeliveryInv, Next, pc # "down", pc' # "down"
               PROVE  cursor' >= cursor
    OBVIOUS
  <2>1. cursor \in Nat
    BY DEF TypeOK
  <2>2. CASE cursor' = cursor
    BY <2>1, <2>2
  <2>3. CASE pc \in {"reading", "pushing"} /\ Commit
    BY <2>1, <2>3, NextCursorFact DEF Commit, Holding
  <2>4. cursor' = cursor \/ (pc \in {"reading", "pushing"} /\ Commit)
    BY DEF Next, LogLine, Tick, StartAgent, Crash, Cleanup, UpdatePatterns,
           StartCollect, Scan, ScanBad, ScanIgnored, ScanDuplicate, ScanFresh,
           EndRead, CutRead, FinishRead, Stall, PushOk, PushFails, LateStore,
           OpenCursorFile, WriteCursor, SaveFails
  <2> QED
    BY <2>2, <2>3, <2>4
<1> QED
  BY <1>1, TypeCorrect, DeliveryCorrect, PTL DEF Spec, CursorKept
-----------------------------------------------------------------------------
(* The deduplication cache and its cleaner. *)

LEMMA ClockInit == Init => ClockInv
BY DEF Init, ClockInv

LEMMA ClockNext == TypeOK /\ ClockInv /\ [Next]_vars => ClockInv'
<1> SUFFICES ASSUME TypeOK, ClockInv, [Next]_vars PROVE ClockInv'
  OBVIOUS
<1> USE PeriodFact DEF TypeOK
<1>1. ASSUME UNCHANGED <<now, cleanAt, cache, entered>>, (pc' = "down") = (pc = "down")
      PROVE  ClockInv'
  BY <1>1 DEF ClockInv, Cached
<1>2. CASE Tick
  BY <1>2, ConstantsAssumption DEF Tick, ClockInv, Cached
<1>3. CASE StartAgent
  <2>1. now \in Nat
    BY ConstantsAssumption
  <2> QED
    BY <1>3, <2>1 DEF StartAgent, ClockInv, Cached
<1>4. CASE Crash
  BY <1>4 DEF Crash, ClockInv
<1>5. CASE Cleanup
  <2>1. now \in Nat /\ TTL \in Nat
    BY ConstantsAssumption
  <2>2. now' = now /\ cleanAt' = now + Period /\ entered' = entered
    BY <1>5 DEF Cleanup
  <2>3. ASSUME NEW m \in Messages
        PROVE  IF Cached(m)'
               THEN /\ cache'[m] <= now /\ cleanAt' - cache'[m] <= TTL + Period
                    /\ entered[m] = cache'[m]
               ELSE entered[m] = Absent \/ now - entered[m] > TTL
    <3>1. CASE ~Cached(m)
      BY <1>5, <3>1 DEF Cleanup, ClockInv, Cached
    <3>2. CASE Cached(m) /\ now - cache[m] > TTL
      BY <1>5, <3>2 DEF Cleanup, ClockInv, Cached
    <3>3. CASE Cached(m) /\ ~(now - cache[m] > TTL)
      <4>1. cache'[m] = cache[m] /\ cache[m] \in Nat /\ Cached(m)'
        BY <1>5, <3>3 DEF Cleanup, Cached
      <4>2. cache[m] <= now /\ entered[m] = cache[m]
        BY <1>5, <3>3 DEF Cleanup, ClockInv
      <4> QED
        BY <2>1, <2>2, <3>3, <4>1, <4>2
    <3> QED
      BY <3>1, <3>2, <3>3
  <2> QED
    BY <2>1, <2>2, <2>3 DEF ClockInv, Cached
<1>6. CASE ScanFresh
  <2>1. now \in Nat /\ TTL \in Nat
    BY ConstantsAssumption
  <2>2. now' = now /\ cleanAt' = cleanAt /\ pc # "down"
    BY <1>6 DEF ScanFresh, ReachesDedup, Scanning
  <2>3. ASSUME NEW m \in Messages
        PROVE  IF Cached(m)'
               THEN /\ cache'[m] <= now /\ cleanAt - cache'[m] <= TTL + Period
                    /\ entered'[m] = cache'[m]
               ELSE entered'[m] = Absent \/ now - entered'[m] > TTL
    <3>1. CASE m = Msg(pos)
      <4>1. cache'[m] = now /\ entered'[m] = now
        BY <1>6, <3>1 DEF ScanFresh
      <4>2. cleanAt <= now + Period
        BY <2>2 DEF ClockInv
      <4>3. cleanAt - now <= TTL + Period /\ now <= now /\ now # Absent
        BY <2>1, <4>2
      <4>4. Cached(m)'
        BY <4>1, <4>3 DEF Cached
      <4> QED
        BY <4>1, <4>3, <4>4
    <3>2. CASE m # Msg(pos)
      BY <1>6, <2>2, <3>2 DEF ScanFresh, ClockInv, Cached
    <3> QED
      BY <3>1, <3>2
  <2> QED
    BY <2>2, <2>3 DEF ClockInv, Cached
<1>7. CASE \/ LogLine \/ UpdatePatterns \/ StartCollect \/ ScanBad \/ ScanIgnored
           \/ ScanDuplicate \/ EndRead \/ CutRead \/ Stall \/ PushOk \/ PushFails
           \/ LateStore \/ OpenCursorFile \/ WriteCursor \/ SaveFails
           \/ UNCHANGED vars
  <2>1. UNCHANGED <<now, cleanAt, cache, entered>> /\ (pc' = "down") = (pc = "down")
    BY <1>7 DEF LogLine, UpdatePatterns, StartCollect, ScanBad, ScanIgnored,
         ScanDuplicate, ReachesDedup, Scanning, EndRead, CutRead, FinishRead,
         Commit, Stall, PushOk, PushFails, LateStore, OpenCursorFile, WriteCursor,
         SaveFails, vars
  <2> QED
    BY <1>1, <2>1
<1> QED
  BY <1>2, <1>3, <1>4, <1>5, <1>6, <1>7 DEF Next, Scan

LEMMA ClockCorrect == Spec => []ClockInv
BY TypeInit, TypeNext, ClockInit, ClockNext, PTL DEF Spec

\* An entry lives at most a TTL and a period of the cleaner (dedup.go).
THEOREM SuppressionEnds == Spec => []SuppressionBounded
<1>1. TypeOK /\ ClockInv => SuppressionBounded
  BY PeriodFact, ConstantsAssumption DEF TypeOK, ClockInv, SuppressionBounded, Cached
<1> QED
  BY <1>1, TypeCorrect, ClockCorrect, PTL

\* A message is not sent twice within a TTL by one process (dedup.go).
THEOREM DedupHolds == Spec => NoRepeatWithinTTL
<1>1. TypeOK /\ ClockInv /\ [Next]_vars
        => [\A p \in batch' \ batch :
              entered[Msg(p)] = Absent \/ now - entered[Msg(p)] > TTL]_vars
  <2> SUFFICES ASSUME TypeOK, ClockInv, Next, NEW p \in batch' \ batch
               PROVE  entered[Msg(p)] = Absent \/ now - entered[Msg(p)] > TTL
    OBVIOUS
  <2>1. ScanFresh /\ p = pos
    BY DEF Next, LogLine, Tick, StartAgent, Crash, Cleanup, UpdatePatterns,
           StartCollect, Scan, ScanBad, ScanIgnored, ScanDuplicate, ScanFresh,
           EndRead, CutRead, FinishRead, Commit, Stall, PushOk, PushFails,
           LateStore, OpenCursorFile, WriteCursor, SaveFails
  <2>2. ~Cached(Msg(p)) /\ Msg(p) \in Messages /\ pc # "down"
    BY <2>1, ConstantsAssumption
       DEF ScanFresh, ReachesDedup, Scanning, Msg, TypeOK
  <2> QED
    BY <2>2 DEF ClockInv
<1> QED
  BY <1>1, TypeCorrect, ClockCorrect, PTL DEF Spec, NoRepeatWithinTTL
-----------------------------------------------------------------------------
(* Repeated delivery. *)

LEMMA ResendInit == Init => ResendInv
BY DEF Init, ResendInv

LEMMA ResendNext ==
  TypeOK /\ DeliveryInv /\ ResendInv /\ [Next]_vars => ResendInv'
<1> SUFFICES ASSUME TypeOK, DeliveryInv, ResendInv, [Next]_vars PROVE ResendInv'
  OBVIOUS
<1> USE DEF TypeOK
\* A step that stores at most S, and does not move the cursor back.
<1>1. ASSUME NEW S, stored' = stored \cup S, Resume <= Resume', Resume \in Nat, Resume' \in Nat,
             \A p \in S : p \in unacked \cup exposed \/ p <= Resume',
             limbo' \subseteq limbo, unacked' = unacked, exposed' = exposed
      PROVE  ResendInv'
  <2>1. ASSUME NEW p \in stored PROVE p \in unacked \cup exposed \/ p <= Resume'
    <3>1. p \in Nat
      OBVIOUS
    <3> QED
      BY <1>1, <3>1 DEF ResendInv
  <2> QED
    BY <1>1, <2>1 DEF ResendInv
<1>2. CASE Crash
  <2>1. /\ pc # "down" /\ pc' = "down" /\ file' = file /\ stored' = stored
        /\ unacked' = unacked /\ exposed' = exposed \cup (file + 1)..written
        /\ limbo' = limbo \/ limbo' = limbo \cup {batch}
    BY <1>2 DEF Crash
  <2>2. file <= cursor
    BY <2>1 DEF DeliveryInv, FileNotAhead
  <2>4. ASSUME NEW p \in batch PROVE p \in exposed'
    <3>1. p \in 1..written /\ cursor < p
      BY DEF DeliveryInv, ReadInv
    <3> QED
      BY <2>1, <2>2, <3>1
  <2>5. ASSUME NEW p \in stored, p \notin unacked', p \notin exposed' PROVE p <= file
    <3>1. p <= cursor
      BY <2>1, <2>5 DEF ResendInv, Resume
    <3>2. p \in 1..written /\ file \in Nat /\ ~(p \in (file + 1)..written)
      BY <2>1, <2>5
    <3> QED
      BY <3>2
  <2>6. Resume' = file
    BY <2>1 DEF Resume
  <2>7. ASSUME NEW b \in limbo' PROVE b \subseteq unacked' \cup exposed'
    <3>1. CASE b \in limbo
      BY <2>1, <3>1 DEF ResendInv
    <3>2. CASE b = batch
      BY <2>4, <3>2
    <3> QED
      BY <2>1, <3>1, <3>2
  <2> HIDE DEF TypeOK
  <2> QED
    BY <2>1, <2>5, <2>6, <2>7 DEF ResendInv
<1>3. CASE StartAgent
  <2>1. Resume' = Resume /\ UNCHANGED <<stored, limbo, unacked, exposed>>
    BY <1>3 DEF StartAgent, Resume
  <2> QED
    BY <2>1 DEF ResendInv
<1>4. CASE PushOk
  <2>1. Holding /\ pc' # "down" /\ pc # "down"
    BY <1>4 DEF PushOk, Holding, Commit
  <2>2. Resume = cursor /\ Resume' = NextCursor /\ cursor <= NextCursor /\ NextCursor \in Nat
    BY <1>4, <2>1, NextCursorFact DEF PushOk, Commit, Resume
  <2>3. ASSUME NEW p \in batch PROVE p <= NextCursor
    BY <2>1, <2>2, <2>3, NextCursorFact DEF DeliveryInv, ReadInv
  <2>4. stored' = stored \cup batch /\ UNCHANGED <<limbo, unacked, exposed>>
    BY <1>4 DEF PushOk
  <2>5. cursor \in Nat
    OBVIOUS
  <2> HIDE DEF TypeOK
  <2> QED
    BY <1>1, <2>2, <2>3, <2>4, <2>5
<1>5. CASE PushFails
  BY <1>5 DEF PushFails, ResendInv, Resume
<1>6. CASE LateStore
  <2>1. PICK b \in limbo : stored' = stored \cup b /\ limbo' = limbo \ {b}
    BY <1>6 DEF LateStore
  <2>2. Resume' = Resume /\ Resume \in Nat /\ unacked' = unacked /\ exposed' = exposed
    BY <1>6 DEF LateStore, Resume
  <2> QED
    BY <1>1, <2>1, <2>2 DEF ResendInv
<1>7. CASE EndRead \/ CutRead
  <2>1. Holding /\ pc' # "down" /\ pc # "down"
    BY <1>7 DEF EndRead, CutRead, FinishRead, Holding, Commit
  <2>2. UNCHANGED <<stored, unacked, limbo, exposed>>
    BY <1>7 DEF EndRead, CutRead, FinishRead
  <2>3. cursor' = cursor \/ cursor' = NextCursor
    BY <1>7 DEF EndRead, CutRead, FinishRead, Commit
  <2>4. Resume = cursor /\ Resume' = cursor' /\ cursor <= cursor' /\ cursor' \in Nat
    BY <2>1, <2>3, NextCursorFact DEF Resume
  <2>5. PICK S : S = {}
    OBVIOUS
  <2>6. /\ stored' = stored \cup S /\ limbo' \subseteq limbo
        /\ \A p \in S : p \in unacked \cup exposed \/ p <= Resume'
    BY <2>2, <2>5
  <2>7. Resume \in Nat /\ Resume' \in Nat /\ Resume <= Resume'
    BY <2>4
  <2> HIDE DEF TypeOK
  <2> QED
    BY <1>1, <2>2, <2>6, <2>7
<1>8. CASE OpenCursorFile \/ WriteCursor \/ SaveFails
  <2>1. Resume' = Resume /\ UNCHANGED <<stored, limbo, unacked, exposed>>
    BY <1>8 DEF OpenCursorFile, WriteCursor, SaveFails, Resume
  <2> QED
    BY <2>1 DEF ResendInv
<1>9. CASE \/ LogLine \/ Tick \/ Cleanup \/ UpdatePatterns \/ StartCollect \/ ScanBad
           \/ ScanIgnored \/ ScanDuplicate \/ ScanFresh \/ Stall \/ UNCHANGED vars
  <2>1. UNCHANGED <<stored, unacked, limbo, exposed, cursor, file>>
        /\ (pc' = "down") = (pc = "down")
    BY <1>9 DEF LogLine, Tick, Cleanup, UpdatePatterns, StartCollect, ScanBad,
         ScanIgnored, ScanDuplicate, ScanFresh, ReachesDedup, Scanning, Stall, vars
  <2> QED
    BY <2>1 DEF ResendInv, Resume
<1> QED
  BY <1>2, <1>3, <1>4, <1>5, <1>6, <1>7, <1>8, <1>9 DEF Next, Scan

LEMMA ResendCorrect == Spec => [](DeliveryInv /\ ResendInv)
BY TypeInit, TypeNext, DeliveryInit, DeliveryNext, ResendInit, ResendNext, PTL DEF Spec

\* A stored line is sent again only if its push failed, or if a crash came before the cursor
\* beyond it was saved: what is in the batch is past the cursor, and whatever else is
\* stored is not.
THEOREM ResendNeedsFailure == Spec => []NoSpuriousResend
<1>1. TypeOK /\ DeliveryInv /\ ResendInv => NoSpuriousResend
  <2> SUFFICES ASSUME TypeOK, DeliveryInv, ResendInv, NEW p \in batch, p \in stored
               PROVE  p \in unacked \cup exposed
    BY DEF NoSpuriousResend
  <2>1. cursor < p /\ p \in Nat /\ cursor \in Nat /\ pc # "down"
    BY DEF TypeOK, DeliveryInv, ReadInv, DownInv
  <2> QED
    BY <2>1 DEF ResendInv, Resume
<1> QED
  BY <1>1, ResendCorrect, TypeCorrect, PTL
-----------------------------------------------------------------------------
(* LogDelivery is implemented. *)

\* Settled is what LogDelivery calls accounted for.
LEMMA SettledIsAccounted ==
  ASSUME TypeOK', NEW p \in 1..written', Settled(p)'
  PROVE  Delivery!Accounted(p)'
<1>1. written' \in Nat /\ written' <= MaxLines /\ MaxLines \in Nat /\ p \in Positions
  BY ConstantsAssumption DEF TypeOK
<1>2. ASSUME twin'[p] # 0 PROVE twin'[p] \in Positions
  <2>1. twin'[p] \in 0..written'
    BY <1>1 DEF TypeOK
  <2> QED
    BY <1>1, <1>2, <2>1
<1> QED
  BY <1>1, <1>2 DEF Settled, Backed, Delivery!Accounted

LEMMA DeliveryMapsInit == Init => Delivery!Init
BY ConstantsAssumption DEF Init, Delivery!Init, Delivery!Positions, Msg, Kind

\* A commit passes the lines up to the new cursor, and the batch if it is stored.
LEMMA CommitPasses ==
  ASSUME TypeOK, TypeOK', DeliveryInv, DeliveryInv', pc \in {"reading", "pushing"}, Commit,
         UNCHANGED <<hostVars, file, patterns, cache, cleanAt, limbo, historyVars>>,
         NEW B, B \subseteq batch, stored' = stored \cup B
  PROVE  Delivery!Next
<1>1. pc # "down" /\ pc' # "down" /\ Holding
  BY DEF Commit, Holding
<1>2. cursor' = NextCursor /\ cursor' \in cursor..written /\ cursor' \in 0..MaxLines
  <2>1. /\ cursor \in Nat /\ pos \in Nat /\ pos <= written + 1 /\ written \in Nat
        /\ written <= MaxLines /\ MaxLines \in Nat
    BY ConstantsAssumption DEF TypeOK
  <2> QED
    BY <1>1, <2>1, NextCursorFact DEF Commit
<1>3. B \subseteq Delivery!Ahead(cursor') /\ B \in SUBSET Positions
  <2> SUFFICES ASSUME NEW p \in B
               PROVE  p \in (cursor + 1)..cursor' /\ p \in Positions
    BY DEF Delivery!Ahead
  <2>1. p \in batch /\ p \in 1..written /\ cursor < p /\ p <= last
    BY DEF DeliveryInv, ReadInv, TypeOK
  <2>2. cursor' = last
    BY <1>1, <1>2, <2>1, NextCursorFact
  <2> QED
    BY <2>1, <2>2, ConstantsAssumption DEF TypeOK
<1>4. ASSUME NEW p \in Delivery!Ahead(cursor') PROVE Delivery!Accounted(p)'
  <2>1. p \in 1..written' /\ p <= cursor'
    BY <1>2, <1>4 DEF Delivery!Ahead, TypeOK
  <2>2. Settled(p)'
    BY <2>1 DEF DeliveryInv, LossNeedsFailure
  <2> QED
    BY <2>1, <2>2, SettledIsAccounted
<1>5. Delivery!Pass(cursor', B)
  BY <1>1, <1>2, <1>3, <1>4 DEF Delivery!Pass, Msg, Kind
<1> QED
  BY <1>2, <1>3, <1>5 DEF Delivery!Next, Delivery!Positions

LEMMA DeliveryMapsNext ==
  TypeOK /\ TypeOK' /\ DeliveryInv /\ DeliveryInv' /\ [Next]_vars
    => [Delivery!Next]_(Delivery!vars)
<1> SUFFICES ASSUME TypeOK, TypeOK', DeliveryInv, DeliveryInv', [Next]_vars
             PROVE  Delivery!Next \/ UNCHANGED Delivery!vars
  OBVIOUS
<1>1. ASSUME UNCHANGED <<journal, written, file, cursor, excused, twin, stored, limbo, unacked>>,
             (pc' = "down") = (pc = "down")
      PROVE  UNCHANGED Delivery!vars
  BY <1>1 DEF Delivery!vars, Msg, Kind
<1>2. CASE LogLine
  BY <1>2 DEF LogLine, Delivery!Next, Delivery!LogLine, Msg, Kind
<1>3. CASE StartAgent
  BY <1>3 DEF StartAgent, Delivery!Next, Delivery!Start, Msg, Kind
<1>4. CASE Crash
  <2>1. limbo' = limbo \/ (limbo' = limbo \cup {batch} /\ batch \in SUBSET Delivery!Ahead(written))
    BY <1>4 DEF Crash, Delivery!Ahead, DeliveryInv, ReadInv, TypeOK
  <2> QED
    BY <1>4, <2>1 DEF Crash, Delivery!Next, Delivery!Crash, Msg, Kind
<1>5. CASE StartCollect
  <2> DEFINE S == 1..(FirstLine - 1)
  <2>1. CASE cursor = NoCursor
    <3>1. S \subseteq Delivery!Ahead(written) /\ S \in SUBSET Delivery!Positions
      <4>1. /\ written \in Nat /\ written <= MaxLines /\ MaxLines \in Nat
            /\ FirstLine \in Nat /\ FirstLine - 1 <= written
        BY <2>1, ConstantsAssumption DEF FirstLine, TypeOK
      <4> HIDE DEF TypeOK
      <4> QED
        BY <2>1, <4>1 DEF Delivery!Ahead, Delivery!Positions
    <3>2. Delivery!LeaveOut(S)
      BY <1>5, <2>1, <3>1 DEF StartCollect, Delivery!LeaveOut, Msg, Kind
    <3> QED
      BY <3>1, <3>2 DEF Delivery!Next
  <2>2. CASE cursor # NoCursor
    BY <1>1, <1>5, <2>2 DEF StartCollect
  <2> QED
    BY <2>1, <2>2
<1>6. CASE ScanIgnored
  <2>1. {pos} \subseteq Delivery!Ahead(written) /\ {pos} \in SUBSET Delivery!Positions
    BY <1>6, ConstantsAssumption
       DEF ScanIgnored, Scanning, Delivery!Ahead, Delivery!Positions, DeliveryInv, ReadInv,
           Holding, TypeOK
  <2>2. Delivery!LeaveOut({pos})
    BY <1>6, <2>1 DEF ScanIgnored, Scanning, Delivery!LeaveOut, Msg, Kind
  <2> QED
    BY <2>1, <2>2 DEF Delivery!Next
<1>7. CASE ScanDuplicate
  <2>1. pos \in Delivery!Ahead(written) /\ pos \in Positions
    BY <1>7, ConstantsAssumption
       DEF ScanDuplicate, ReachesDedup, Scanning, Delivery!Ahead, DeliveryInv, ReadInv,
           Holding, TypeOK
  <2>2. PICK q : q = origin[Msg(pos)]
    OBVIOUS
  <2>3. q \in 1..written /\ Msg(q) = Msg(pos) /\ q \in Positions
    BY <1>7, <2>1, <2>2, ConstantsAssumption
       DEF ScanDuplicate, ReachesDedup, DeliveryInv, CacheInv, Msg, TypeOK
  <2>4. Delivery!LeaveTo(pos, q)
    BY <1>7, <2>1, <2>2, <2>3
       DEF ScanDuplicate, ReachesDedup, Scanning, Delivery!LeaveTo, Msg, Kind
  <2> QED
    BY <2>1, <2>3, <2>4 DEF Delivery!Next, Delivery!Positions
<1>8. CASE EndRead \/ CutRead
  <2>1. CASE batch # {}
    BY <1>1, <1>8, <2>1 DEF EndRead, CutRead, FinishRead
  <2>2. CASE batch = {}
    BY <1>8, <2>2, CommitPasses DEF EndRead, CutRead, FinishRead
  <2> QED
    BY <2>1, <2>2
<1>9. CASE PushOk
  BY <1>9, CommitPasses DEF PushOk
<1>10. CASE PushFails
  <2>1. batch \subseteq Delivery!Ahead(written) /\ batch \in SUBSET Delivery!Positions
    <3>1. written \in Nat /\ written <= MaxLines /\ MaxLines \in Nat /\ cursor \in Nat
      BY ConstantsAssumption DEF TypeOK
    <3>2. \A p \in batch : p \in 1..written /\ cursor < p
      BY DEF DeliveryInv, ReadInv, TypeOK
    <3> QED
      BY <3>1, <3>2 DEF Delivery!Ahead, Delivery!Positions
  <2>2. Delivery!FailedPush(batch)
    BY <1>10, <2>1 DEF PushFails, Delivery!FailedPush, Msg, Kind
  <2> QED
    BY <2>1, <2>2 DEF Delivery!Next
<1>11. CASE LateStore
  BY <1>11 DEF LateStore, Delivery!Next, Delivery!LateStore, Msg, Kind
<1>12. CASE OpenCursorFile \/ WriteCursor
  BY <1>12 DEF OpenCursorFile, WriteCursor, Delivery!Next, Delivery!Save, Msg, Kind
<1>13. CASE \/ Tick \/ Cleanup \/ UpdatePatterns \/ ScanBad \/ ScanFresh \/ Stall
            \/ SaveFails \/ UNCHANGED vars
  BY <1>1, <1>13
     DEF Tick, Cleanup, UpdatePatterns, ScanBad, ScanFresh, ReachesDedup, Scanning, Stall,
         SaveFails, vars
<1> QED
  BY <1>2, <1>3, <1>4, <1>5, <1>6, <1>7, <1>8, <1>9, <1>10, <1>11, <1>12, <1>13
     DEF Next, Scan

\* The collection loop, its cache, its cleaner, its restarts and its lost answers together
\* deliver the journal as LogDelivery promises.
THEOREM CollectorDelivers == Spec => ImplementsDelivery
BY TypeInit, TypeNext, DeliveryInit, DeliveryNext, DeliveryMapsInit, DeliveryMapsNext, PTL
   DEF Spec, ImplementsDelivery, Delivery!Spec
=============================================================================
