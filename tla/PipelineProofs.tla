--------------------------- MODULE PipelineProofs ---------------------------
(***************************************************************************)
(* LineFate and ReadOnce, for every value of the constants.                *)
(*                                                                         *)
(* What the agent guarantees alone (NothingLostSilently) holds of it here, *)
(* since every step of the pipeline is one of the agent or leaves it as it *)
(* is.  It says "stored"; the invariant says what the controller does with *)
(* what is stored.                                                         *)
(***************************************************************************)
EXTENDS Pipeline, SequenceTheorems, TLAPS

\* The agent again, with its theorems.
AgentProofs == INSTANCE AgentCollectorProofs

LEMMA SameInit == Agent!Init => AgentProofs!Init
BY
   DEF Agent!Init, AgentProofs!Init, Agent!Positions, AgentProofs!Positions,
       Agent!NoCursor, AgentProofs!NoCursor, Agent!Empty, AgentProofs!Empty,
       Agent!Absent, AgentProofs!Absent

LEMMA SameNext == [Agent!Next]_(Agent!vars) => [AgentProofs!Next]_(AgentProofs!vars)
BY
   DEF Agent!hostVars, AgentProofs!hostVars, Agent!processVars,
       AgentProofs!processVars, Agent!readVars, AgentProofs!readVars,
       Agent!remoteVars, AgentProofs!remoteVars, Agent!historyVars,
       AgentProofs!historyVars, Agent!vars, AgentProofs!vars, Agent!Positions,
       AgentProofs!Positions, Agent!NoCursor, AgentProofs!NoCursor, Agent!Absent,
       AgentProofs!Absent, Agent!Period, AgentProofs!Period, Agent!Empty,
       AgentProofs!Empty, Agent!Msg, AgentProofs!Msg, Agent!Kind, AgentProofs!Kind,
       Agent!Cached, AgentProofs!Cached, Agent!NextCursor, AgentProofs!NextCursor,
       Agent!LogLine, AgentProofs!LogLine, Agent!Tick, AgentProofs!Tick,
       Agent!StartAgent, AgentProofs!StartAgent, Agent!Crash, AgentProofs!Crash,
       Agent!Cleanup, AgentProofs!Cleanup, Agent!UpdatePatterns,
       AgentProofs!UpdatePatterns, Agent!FirstLine, AgentProofs!FirstLine,
       Agent!StartCollect, AgentProofs!StartCollect, Agent!Scanning,
       AgentProofs!Scanning, Agent!ScanBad, AgentProofs!ScanBad, Agent!ScanIgnored,
       AgentProofs!ScanIgnored, Agent!ReachesDedup, AgentProofs!ReachesDedup,
       Agent!ScanDuplicate, AgentProofs!ScanDuplicate, Agent!ScanFresh,
       AgentProofs!ScanFresh, Agent!Commit, AgentProofs!Commit, Agent!FinishRead,
       AgentProofs!FinishRead, Agent!EndRead, AgentProofs!EndRead, Agent!CutRead,
       AgentProofs!CutRead, Agent!Stall, AgentProofs!Stall, Agent!PushOk,
       AgentProofs!PushOk, Agent!PushFails, AgentProofs!PushFails, Agent!LateStore,
       AgentProofs!LateStore, Agent!OpenCursorFile, AgentProofs!OpenCursorFile,
       Agent!WriteCursor, AgentProofs!WriteCursor, Agent!SaveFails,
       AgentProofs!SaveFails, Agent!Scan, AgentProofs!Scan, Agent!Next,
       AgentProofs!Next

\* What the pipeline needs to know of its agent.
AgentFacts ==
  /\ Agent!LossNeedsFailure
  /\ batch \subseteq Nat /\ \A b \in limbo : b \subseteq Nat
  /\ batch \cap stored \subseteq unacked \cup exposed
  /\ \A b \in limbo : b \subseteq unacked \cup exposed

LEMMA SameProperties ==
  /\ AgentProofs!TypeOK /\ AgentProofs!LossNeedsFailure /\ AgentProofs!NoSpuriousResend
  /\ AgentProofs!ResendInv
  => AgentFacts
<1> SUFFICES ASSUME AgentProofs!TypeOK, AgentProofs!LossNeedsFailure,
                    AgentProofs!NoSpuriousResend, AgentProofs!ResendInv
             PROVE  AgentFacts
  OBVIOUS
<1>1. Agent!LossNeedsFailure
  BY DEF Agent!LossNeedsFailure, AgentProofs!LossNeedsFailure, Agent!Settled,
         AgentProofs!Settled, Agent!Backed, AgentProofs!Backed, Agent!Kind,
         AgentProofs!Kind, Agent!Msg, AgentProofs!Msg
<1>2. batch \subseteq Nat /\ \A b \in limbo : b \subseteq Nat
  BY DEF AgentProofs!TypeOK
<1> QED
  BY <1>1, <1>2 DEF AgentFacts, AgentProofs!NoSpuriousResend, AgentProofs!ResendInv

LEMMA AgentAssumption == AgentProofs!ConstantsAssumption
BY PipelineAssumption DEF Agent!Line, Agent!Kinds, AgentProofs!Line, AgentProofs!Kinds

\* Every step is one of the agent's, or leaves it alone.
LEMMA AgentStep == [Next]_vars => [Agent!Next]_(Agent!vars)
<1> SUFFICES ASSUME [Next]_vars PROVE Agent!Next \/ UNCHANGED Agent!vars
  OBVIOUS
<1>1. ASSUME UNCHANGED agentVars PROVE UNCHANGED Agent!vars
  BY <1>1 DEF agentVars, Agent!vars, Agent!hostVars, Agent!processVars, Agent!readVars,
       Agent!remoteVars, Agent!historyVars
<1>2. CASE AgentAlone
  BY <1>2 DEF AgentAlone, Agent!Next
<1>3. CASE Deliver \/ DeliverLate
  BY <1>3 DEF Deliver, DeliverLate, Agent!Next
<1>4. CASE Expiry \/ TaskFails \/ UNCHANGED vars
  BY <1>1, <1>4 DEF Expiry, TaskFails, vars
<1>5. CASE \E S \in SUBSET Batches : Analysis(S)
  BY <1>1, <1>5 DEF Analysis
<1> QED
  BY <1>2, <1>3, <1>4, <1>5 DEF Next

LEMMA AgentHolds == Spec => []AgentFacts
<1>1. /\ AgentProofs!Spec => []AgentProofs!LossNeedsFailure
      /\ AgentProofs!Spec => []AgentProofs!NoSpuriousResend
      /\ AgentProofs!Spec => [](AgentProofs!DeliveryInv /\ AgentProofs!ResendInv)
      /\ AgentProofs!Spec => []AgentProofs!TypeOK
  BY AgentProofs!NothingLostSilently, AgentProofs!ResendNeedsFailure,
     AgentProofs!ResendCorrect, AgentProofs!TypeCorrect, AgentAssumption
<1>2. Init => AgentProofs!Init
  BY SameInit DEF Init
<1>3. [Next]_vars => [AgentProofs!Next]_(AgentProofs!vars)
  BY AgentStep, SameNext
<1> QED
  BY <1>1, <1>2, <1>3, SameProperties, PTL DEF Spec, AgentProofs!Spec
-----------------------------------------------------------------------------
(* The controller. *)

ControllerTypes ==
  /\ state \in [Batches -> Controller!States]
  /\ reports \in Seq([covers : SUBSET Batches, read : SUBSET Batches])
  /\ content \in Seq(SUBSET Nat) /\ Len(content) <= MaxBatches

\* The entries of a batch are there, were read, or have expired.
HandledInv ==
  \A b \in DOMAIN content :
    state[b] = "fresh" \/ b \in expired \/ \E i \in DOMAIN reports : b \in reports[i].read

\* What the agent was told is stored is stored.
StoredInv == \A p \in stored : \E b \in DOMAIN content : p \in content[b]

PipelineInv == ControllerTypes /\ HandledInv /\ StoredInv

LEMMA InvInit == Init => PipelineInv
BY PipelineAssumption DEF Init, Agent!Init, Controller!Init, PipelineInv, ControllerTypes, HandledInv,
     StoredInv, Controller!States

\* Batches keep what was done with them, and their places.
LEMMA StoreKeeps ==
  ASSUME PipelineInv, NEW S, S \subseteq Nat, Store(S), stored' = stored \cup S
  PROVE  PipelineInv'
<1>1. /\ content \in Seq(SUBSET Nat) /\ Len(content) \in Nat /\ Len(content) < MaxBatches
      /\ content' = Append(content, S) /\ UNCHANGED <<reports, expired>>
      /\ MaxBatches \in Nat
  BY PipelineAssumption DEF PipelineInv, ControllerTypes, Store, Controller!Push
<1>2. /\ content' \in Seq(SUBSET Nat) /\ Len(content') = Len(content) + 1
      /\ \A b \in 1..Len(content) : content'[b] = content[b]
      /\ content'[Len(content) + 1] = S
      /\ DOMAIN content = 1..Len(content) /\ DOMAIN content' = 1..(Len(content) + 1)
  BY <1>1
<1>3. /\ Len(content) + 1 \in Batches
      /\ state' = [b \in Batches |-> IF b = Len(content) + 1 THEN "fresh" ELSE state[b]]
  BY <1>1, <1>2 DEF Store, Controller!Push, Controller!Becomes, Batches
<1>4. ControllerTypes'
  BY <1>1, <1>2, <1>3 DEF PipelineInv, ControllerTypes, Controller!States
<1>5. HandledInv'
  BY <1>1, <1>2, <1>3 DEF PipelineInv, HandledInv, Batches
<1>6. StoredInv'
  BY <1>1, <1>2 DEF PipelineInv, StoredInv
<1> QED
  BY <1>4, <1>5, <1>6 DEF PipelineInv

LEMMA ReportKeeps ==
  ASSUME PipelineInv, NEW S \in SUBSET Batches, NEW R \in SUBSET S, Controller!Report(S, R),
         UNCHANGED <<content, expired, stored>>
  PROVE  PipelineInv'
<1> DEFINE T == [covers : SUBSET Batches, read : SUBSET Batches]
           r == [covers |-> S, read |-> R]
<1>1. reports \in Seq(T) /\ r \in T /\ reports' = Append(reports, r)
  BY DEF PipelineInv, ControllerTypes, Controller!Report
<1> HIDE DEF T
<1>2. /\ reports' \in Seq(T) /\ reports'[Len(reports) + 1] = r
      /\ Len(reports) + 1 \in DOMAIN reports' /\ DOMAIN reports \subseteq DOMAIN reports'
      /\ \A i \in DOMAIN reports : reports'[i] = reports[i]
  BY <1>1
<1>3. state' = [b \in Batches |-> IF b \in S THEN "analyzed" ELSE state[b]]
  BY DEF Controller!Report, Controller!Becomes
<1>4. ControllerTypes'
  BY <1>2, <1>3 DEF PipelineInv, ControllerTypes, Controller!States, T
<1>5. HandledInv'
  <2> SUFFICES ASSUME NEW b \in DOMAIN content, b \notin expired, b \in Batches
               PROVE  state'[b] = "fresh" \/ \E i \in DOMAIN reports' : b \in reports'[i].read
    BY PipelineAssumption DEF PipelineInv, ControllerTypes, HandledInv, Batches
  <2>1. CASE state[b] = "fresh" /\ b \in S
    <3>1. b \in R
      BY <2>1 DEF Controller!Report, Controller!In
    <3> QED
      BY <1>2, <3>1
  <2>2. CASE state[b] = "fresh" /\ b \notin S
    BY <1>3, <2>2
  <2>3. CASE \E i \in DOMAIN reports : b \in reports[i].read
    BY <1>2, <2>3
  <2> QED
    BY <2>1, <2>2, <2>3 DEF PipelineInv, HandledInv
<1>6. StoredInv'
  BY DEF PipelineInv, StoredInv
<1> QED
  BY <1>4, <1>5, <1>6 DEF PipelineInv

LEMMA InvNext ==
  ASSUME PipelineInv, [Next]_vars, batch \subseteq Nat, \A b \in limbo : b \subseteq Nat
  PROVE  PipelineInv'
<1>1. CASE UNCHANGED <<controllerVars, stored>>
  BY <1>1 DEF controllerVars, PipelineInv, ControllerTypes, HandledInv, StoredInv
<1>2. CASE AgentAlone
  BY <1>1, <1>2
  DEF AgentAlone, Agent!LogLine, Agent!Tick, Agent!StartAgent, Agent!Crash, Agent!Cleanup,
      Agent!UpdatePatterns, Agent!StartCollect, Agent!Scan, Agent!ScanBad, Agent!ScanIgnored,
      Agent!ScanDuplicate, Agent!ScanFresh, Agent!EndRead, Agent!CutRead, Agent!FinishRead,
      Agent!Stall, Agent!PushFails, Agent!OpenCursorFile, Agent!WriteCursor, Agent!SaveFails,
      Agent!remoteVars
<1>3. CASE Deliver
  BY <1>3, StoreKeeps DEF Deliver, Agent!PushOk
<1>4. CASE DeliverLate
  <2>1. PICK b \in limbo : Agent!LateStore /\ limbo' = limbo \ {b} /\ Store(b)
    BY <1>4 DEF DeliverLate
  <2>2. PICK c \in limbo : stored' = stored \cup c /\ limbo' = limbo \ {c}
    BY <2>1 DEF Agent!LateStore
  <2>3. b = c
    BY <2>1, <2>2
  <2> QED
    BY <2>1, <2>2, <2>3, StoreKeeps
<1>5. ASSUME NEW S \in SUBSET Batches, Analysis(S) PROVE PipelineInv'
  <2>1. UNCHANGED <<content, expired, stored>>
    BY <1>5 DEF Analysis, agentVars
  <2>2. CASE Controller!Settle(S)
    <3>1. reports' = reports /\ \A b \in Batches : state[b] = "fresh" => state'[b] = "fresh"
      BY <2>2 DEF Controller!Settle, Controller!Becomes, Controller!In
    <3>2. ControllerTypes'
      BY <2>1, <2>2
      DEF Controller!Settle, Controller!Becomes, PipelineInv, ControllerTypes, Controller!States
    <3>3. DOMAIN content \subseteq Batches
      BY PipelineAssumption DEF PipelineInv, ControllerTypes, Batches
    <3> QED
      BY <2>1, <3>1, <3>2, <3>3 DEF PipelineInv, HandledInv, StoredInv
  <2>3. CASE ~Controller!Settle(S)
    <3>1. PICK R \in SUBSET S : Controller!Report(S, R)
      BY <1>5, <2>3 DEF Analysis
    <3> QED
      BY <2>1, <3>1, ReportKeeps
  <2> QED
    BY <2>2, <2>3
<1>6. CASE Expiry
  <2>1. PICK S \in SUBSET Batches : Controller!Cleanup(S, {}) /\ expired' = expired \cup S
    BY <1>6 DEF Expiry
  <2>2. UNCHANGED <<content, stored, reports>>
        /\ state' = [b \in Batches |-> IF b \in S THEN "stale" ELSE state[b]]
    BY <1>6, <2>1 DEF Expiry, Controller!Cleanup, agentVars
  <2>3. ControllerTypes'
    BY <2>2 DEF PipelineInv, ControllerTypes, Controller!States
  <2>4. DOMAIN content \subseteq Batches
    BY PipelineAssumption DEF PipelineInv, ControllerTypes, Batches
  <2> QED
    BY <2>1, <2>2, <2>3, <2>4 DEF PipelineInv, HandledInv, StoredInv
<1>7. CASE TaskFails
  BY <1>1, <1>7 DEF TaskFails, Controller!Fail, agentVars, PipelineInv, ControllerTypes,
       HandledInv, StoredInv
<1>8. CASE UNCHANGED vars
  BY <1>1, <1>8 DEF vars, agentVars
<1> QED
  BY <1>2, <1>3, <1>4, <1>5, <1>6, <1>7, <1>8 DEF Next

LEMMA KeptFact == PipelineInv => \A p \in stored : Kept(p)
BY DEF PipelineInv, StoredInv, HandledInv, Kept

\* A line the agent has passed waits for an analysis, was read by one or has expired, unless
\* it was filtered, or left out for a line of its message of which this is true, whose push
\* failed, or that is the agent's own.
THEOREM FateOfEveryLine == Spec => []LineFate
<1>1. PipelineInv /\ Agent!LossNeedsFailure => LineFate
  <2> SUFFICES ASSUME PipelineInv, Agent!LossNeedsFailure, NEW p \in 1..written,
                      p <= cursor \/ p <= file
               PROVE  \/ p \in excused \/ Agent!Kind(p) \in {"own", "bad"} \/ Kept(p)
                      \/ /\ twin[p] # 0 /\ Agent!Msg(twin[p]) = Agent!Msg(p)
                         /\ \/ Kept(twin[p]) \/ twin[p] \in unacked
                            \/ Agent!Kind(twin[p]) = "own"
    BY DEF LineFate
  <2>1. Agent!Settled(p)
    BY DEF Agent!LossNeedsFailure
  <2> QED
    BY <2>1, KeptFact DEF Agent!Settled, Agent!Backed
<1>2. PipelineInv /\ AgentFacts /\ [Next]_vars => PipelineInv'
  BY InvNext DEF AgentFacts
<1> QED
  BY <1>1, <1>2, InvInit, AgentHolds, PTL DEF Spec, AgentFacts
-----------------------------------------------------------------------------
(* ReadOnce. *)

\* Batches share only lines that were sent again for a reason.
ContentInv ==
  /\ \A b \in DOMAIN content : content[b] \subseteq stored
  /\ \A b, c \in DOMAIN content :
       b # c => content[b] \cap content[c] \subseteq unacked \cup exposed

\* Only stored batches are read, and once they are, they do not wait any more.
ReadInv ==
  /\ \A b \in Batches : b \notin DOMAIN content => state[b] = "unknown"
  /\ \A i \in DOMAIN reports : reports[i].read \subseteq DOMAIN content
  /\ ~faulty =>
       /\ \A i \in DOMAIN reports : \A b \in reports[i].read : state[b] = "analyzed"
       /\ \A i, j \in DOMAIN reports : i # j => reports[i].read \cap reports[j].read = {}

OnceInv == ContentInv /\ ReadInv

LEMMA OnceInit == Init => OnceInv
BY DEF Init, Agent!Init, Controller!Init, OnceInv, ContentInv, ReadInv

\* The sets that excuse a repetition only grow.
LEMMA HistoryGrows ==
  [Next]_vars => unacked \subseteq unacked' /\ exposed \subseteq exposed'
<1> SUFFICES ASSUME [Next]_vars
             PROVE  unacked \subseteq unacked' /\ exposed \subseteq exposed'
  OBVIOUS
<1>1. Agent!Next \/ UNCHANGED Agent!vars
  BY AgentStep
<1> QED
  BY <1>1
     DEF Agent!Next, Agent!vars, Agent!historyVars, Agent!LogLine, Agent!Tick,
         Agent!StartAgent, Agent!Crash, Agent!Cleanup, Agent!UpdatePatterns,
         Agent!StartCollect, Agent!Scan, Agent!ScanBad, Agent!ScanIgnored,
         Agent!ScanDuplicate, Agent!ScanFresh, Agent!EndRead, Agent!CutRead,
         Agent!FinishRead, Agent!Stall, Agent!PushOk, Agent!PushFails, Agent!LateStore,
         Agent!OpenCursorFile, Agent!WriteCursor, Agent!SaveFails

LEMMA StoreOnce ==
  ASSUME PipelineInv, OnceInv, NEW S, S \subseteq Nat, Store(S), stored' = stored \cup S,
         unacked \subseteq unacked', exposed \subseteq exposed',
         S \cap stored \subseteq unacked \cup exposed
  PROVE  OnceInv'
<1>1. /\ content \in Seq(SUBSET Nat) /\ Len(content) \in Nat
      /\ content' = Append(content, S) /\ UNCHANGED <<reports, faulty>>
  BY DEF PipelineInv, ControllerTypes, Store, Controller!Push
<1>2. /\ \A b \in 1..Len(content) : content'[b] = content[b]
      /\ content'[Len(content) + 1] = S /\ Len(content') = Len(content) + 1
      /\ DOMAIN content = 1..Len(content) /\ DOMAIN content' = 1..(Len(content) + 1)
  BY <1>1
<1>3. state' = [b \in Batches |-> IF b = Len(content) + 1 THEN "fresh" ELSE state[b]]
  BY <1>2 DEF Store, Controller!Push, Controller!Becomes
<1>4. state[Len(content) + 1] = "unknown"
  BY <1>2 DEF Store, Controller!Push
<1>5. ContentInv'
  <2>1. ASSUME NEW b \in DOMAIN content', NEW c \in DOMAIN content', b # c
        PROVE  content'[b] \cap content'[c] \subseteq unacked' \cup exposed'
    <3>1. CASE b \in DOMAIN content /\ c \in DOMAIN content
      BY <1>2, <2>1, <3>1 DEF OnceInv, ContentInv
    <3>2. CASE b = Len(content) + 1 /\ c \in DOMAIN content
      BY <1>2, <3>2 DEF OnceInv, ContentInv
    <3>3. CASE c = Len(content) + 1 /\ b \in DOMAIN content
      BY <1>2, <3>3 DEF OnceInv, ContentInv
    <3> QED
      BY <1>1, <1>2, <2>1, <3>1, <3>2, <3>3
  <2>2. ASSUME NEW b \in DOMAIN content' PROVE content'[b] \subseteq stored'
    BY <1>1, <1>2, <2>2 DEF OnceInv, ContentInv
  <2> QED
    BY <2>1, <2>2 DEF ContentInv
<1>6. ReadInv'
  <2>1. ASSUME NEW b \in Batches, b \notin DOMAIN content' PROVE state'[b] = "unknown"
    BY <1>1, <1>2, <1>3, <2>1 DEF OnceInv, ReadInv
  <2>2. ASSUME NEW i \in DOMAIN reports PROVE reports[i].read \subseteq DOMAIN content'
    BY <1>1, <1>2, <2>2 DEF OnceInv, ReadInv
  <2>3. ASSUME ~faulty, NEW i \in DOMAIN reports, NEW b \in reports[i].read
        PROVE  state'[b] = "analyzed"
    <3>1. b \in DOMAIN content /\ b \in Batches /\ state[b] = "analyzed"
      BY <2>3, PipelineAssumption DEF OnceInv, ReadInv, PipelineInv, ControllerTypes, Batches
    <3> QED
      BY <1>3, <1>4, <3>1
  <2> QED
    BY <1>1, <2>1, <2>2, <2>3 DEF OnceInv, ReadInv
<1> QED
  BY <1>5, <1>6 DEF OnceInv

\* Without a failure a report reads batches that no report has read.
LEMMA ReportOnce ==
  ASSUME PipelineInv, OnceInv, NEW S \in SUBSET Batches, NEW R \in SUBSET S,
         Controller!Report(S, R), UNCHANGED <<content, stored>>,
         unacked \subseteq unacked', exposed \subseteq exposed'
  PROVE  OnceInv'
<1> DEFINE r == [covers |-> S, read |-> R]
<1>1. /\ reports \in Seq([covers : SUBSET Batches, read : SUBSET Batches])
      /\ r \in [covers : SUBSET Batches, read : SUBSET Batches]
      /\ reports' = Append(reports, r)
  BY DEF PipelineInv, ControllerTypes, Controller!Report
<1>2. /\ \A i \in DOMAIN reports : reports'[i] = reports[i]
      /\ reports'[Len(reports) + 1].read = R
      /\ DOMAIN reports' = DOMAIN reports \cup {Len(reports) + 1}
      /\ Len(reports) + 1 \notin DOMAIN reports
  BY <1>1
<1>3. /\ state' = [b \in Batches |-> IF b \in S THEN "analyzed" ELSE state[b]]
      /\ faulty' = faulty
      /\ \A b \in S : state[b] \in {"fresh", "stale", "analyzed"}
      /\ ~faulty => \A b \in S : state[b] # "analyzed"
  BY DEF Controller!Report, Controller!Becomes, Controller!Coverable, Controller!In
<1>4. S \subseteq DOMAIN content
  BY <1>3 DEF OnceInv, ReadInv
<1>5. ContentInv'
  BY DEF OnceInv, ContentInv
<1>6. ReadInv'
  <2>1. ASSUME NEW b \in Batches, b \notin DOMAIN content' PROVE state'[b] = "unknown"
    BY <1>3, <1>4, <2>1 DEF OnceInv, ReadInv
  <2>2. ASSUME NEW i \in DOMAIN reports' PROVE reports'[i].read \subseteq DOMAIN content'
    BY <1>2, <1>4, <2>2 DEF OnceInv, ReadInv
  <2>3. ASSUME ~faulty, NEW i \in DOMAIN reports', NEW b \in reports'[i].read
        PROVE  state'[b] = "analyzed"
    <3>1. b \in Batches
      BY <2>2, <2>3, PipelineAssumption DEF PipelineInv, ControllerTypes, Batches
    <3>2. b \in S \/ state[b] = "analyzed"
      BY <1>2, <2>3 DEF OnceInv, ReadInv
    <3> QED
      BY <1>3, <3>1, <3>2
  <2>4. ASSUME ~faulty, NEW i \in DOMAIN reports, NEW b \in reports[i].read
        PROVE  b \notin R
    BY <1>3, <2>4 DEF OnceInv, ReadInv
  <2>5. ASSUME ~faulty, NEW i \in DOMAIN reports', NEW j \in DOMAIN reports', i # j
        PROVE  reports'[i].read \cap reports'[j].read = {}
    <3>1. CASE i \in DOMAIN reports /\ j \in DOMAIN reports
      BY <1>2, <2>5, <3>1 DEF OnceInv, ReadInv
    <3>2. CASE i \in DOMAIN reports /\ j = Len(reports) + 1
      BY <1>2, <2>4, <2>5, <3>2
    <3>3. CASE j \in DOMAIN reports /\ i = Len(reports) + 1
      BY <1>2, <2>4, <2>5, <3>3
    <3> QED
      BY <1>2, <2>5, <3>1, <3>2, <3>3
  <2> QED
    BY <1>3, <2>1, <2>2, <2>3, <2>5 DEF ReadInv
<1> QED
  BY <1>5, <1>6 DEF OnceInv

LEMMA ReadsBatches == PipelineInv => \A i \in DOMAIN reports : reports[i].read \subseteq Batches
<1> SUFFICES ASSUME PipelineInv, NEW i \in DOMAIN reports PROVE reports[i].read \subseteq Batches
  OBVIOUS
<1> DEFINE T == [covers : SUBSET Batches, read : SUBSET Batches]
<1>1. reports \in Seq(T)
  BY DEF PipelineInv, ControllerTypes
<1>2. reports[i] \in T
  <2> HIDE DEF T
  <2> QED
    BY <1>1
<1> QED
  BY <1>2

LEMMA OnceNext ==
  ASSUME PipelineInv, OnceInv, AgentFacts, [Next]_vars
  PROVE  OnceInv'
<1>1. unacked \subseteq unacked' /\ exposed \subseteq exposed'
  BY HistoryGrows
<1>2. CASE UNCHANGED <<controllerVars, stored>>
  BY <1>1, <1>2 DEF controllerVars, OnceInv, ContentInv, ReadInv
<1>3. CASE AgentAlone
  BY <1>2, <1>3
  DEF AgentAlone, Agent!LogLine, Agent!Tick, Agent!StartAgent, Agent!Crash, Agent!Cleanup,
      Agent!UpdatePatterns, Agent!StartCollect, Agent!Scan, Agent!ScanBad, Agent!ScanIgnored,
      Agent!ScanDuplicate, Agent!ScanFresh, Agent!EndRead, Agent!CutRead, Agent!FinishRead,
      Agent!Stall, Agent!PushFails, Agent!OpenCursorFile, Agent!WriteCursor, Agent!SaveFails,
      Agent!remoteVars
<1>4. CASE Deliver
  BY <1>1, <1>4, StoreOnce DEF Deliver, Agent!PushOk, AgentFacts
<1>5. CASE DeliverLate
  <2>1. PICK b \in limbo : Agent!LateStore /\ limbo' = limbo \ {b} /\ Store(b)
    BY <1>5 DEF DeliverLate
  <2>2. PICK c \in limbo : stored' = stored \cup c /\ limbo' = limbo \ {c}
    BY <2>1 DEF Agent!LateStore
  <2>3. b = c /\ b \subseteq Nat /\ b \subseteq unacked \cup exposed
    BY <2>1, <2>2 DEF AgentFacts
  <2> QED
    BY <1>1, <2>1, <2>2, <2>3, StoreOnce
<1>6. ASSUME NEW S \in SUBSET Batches, Analysis(S) PROVE OnceInv'
  <2>1. UNCHANGED <<content, stored>>
    BY <1>6 DEF Analysis, agentVars
  <2>2. CASE Controller!Settle(S)
    <3>1. /\ reports' = reports /\ faulty' = faulty
          /\ state' = [b \in Batches |-> IF b \in S THEN "analyzed" ELSE state[b]]
          /\ \A b \in S : state[b] # "unknown"
      BY <2>2 DEF Controller!Settle, Controller!Becomes, Controller!Coverable, Controller!In
    <3>2. \A i \in DOMAIN reports : reports[i].read \subseteq Batches
      BY ReadsBatches
    <3> QED
      BY <1>1, <2>1, <3>1, <3>2 DEF OnceInv, ContentInv, ReadInv
  <2>3. CASE ~Controller!Settle(S)
    <3>1. PICK R \in SUBSET S : Controller!Report(S, R)
      BY <1>6, <2>3 DEF Analysis
    <3> QED
      BY <1>1, <2>1, <3>1, ReportOnce
  <2> QED
    BY <2>2, <2>3
<1>7. CASE Expiry
  <2>1. PICK S \in SUBSET Batches : Controller!Cleanup(S, {})
    BY <1>7 DEF Expiry
  <2>2. /\ UNCHANGED <<content, stored, reports, faulty>>
        /\ state' = [b \in Batches |-> IF b \in S THEN "stale" ELSE state[b]]
        /\ \A b \in S : state[b] = "fresh"
    BY <1>7, <2>1 DEF Expiry, Controller!Cleanup, Controller!In, agentVars
  <2>3. \A i \in DOMAIN reports : reports[i].read \subseteq Batches
    BY ReadsBatches
  <2> QED
    BY <1>1, <2>2, <2>3 DEF OnceInv, ContentInv, ReadInv
<1>8. CASE TaskFails
  BY <1>8 DEF TaskFails, Controller!Fail, agentVars, OnceInv, ContentInv, ReadInv
<1>9. CASE UNCHANGED vars
  BY <1>2, <1>9 DEF vars, agentVars
<1> QED
  BY <1>3, <1>4, <1>5, <1>6, <1>7, <1>8, <1>9 DEF Next

\* From the journal to the report, the agent's cursor and file and the controller's marks
\* together let no line be read twice, but for a failed push, a crash before the cursor was
\* saved, or a failed task.
THEOREM NothingReadTwice == Spec => []ReadOnce
<1>1. OnceInv => ReadOnce
  <2> SUFFICES ASSUME OnceInv, ~faulty,
                      NEW i \in DOMAIN reports, NEW j \in DOMAIN reports,
                      NEW b \in reports[i].read, NEW c \in reports[j].read,
                      <<i, b>> # <<j, c>>
               PROVE  content[b] \cap content[c] \subseteq unacked \cup exposed
    BY DEF ReadOnce
  <2>1. b # c
    BY DEF OnceInv, ReadInv
  <2>2. b \in DOMAIN content /\ c \in DOMAIN content
    BY DEF OnceInv, ReadInv
  <2> QED
    BY <2>1, <2>2 DEF OnceInv, ContentInv
<1>2. PipelineInv /\ AgentFacts /\ [Next]_vars => PipelineInv'
  BY InvNext DEF AgentFacts
<1>3. PipelineInv /\ OnceInv /\ AgentFacts /\ [Next]_vars => OnceInv'
  BY OnceNext
<1> QED
  BY <1>1, <1>2, <1>3, InvInit, OnceInit, AgentHolds, PTL DEF Spec
-----------------------------------------------------------------------------
(* The pipeline composes its parts. *)

\* Every step is one of the controller's, or leaves it alone.
LEMMA ControllerStep ==
  PipelineInv /\ [Next]_vars => [Controller!Next]_(Controller!vars)
<1> SUFFICES ASSUME PipelineInv, [Next]_vars
             PROVE  Controller!Next \/ UNCHANGED Controller!vars
  OBVIOUS
<1>1. ASSUME NEW lines, Store(lines) PROVE Controller!Next
  <2>1. Len(content) \in Nat /\ Len(content') = Len(content) + 1 /\ Len(content) < MaxBatches
    BY <1>1 DEF Store, PipelineInv, ControllerTypes
  <2>2. Len(content') \in Batches
    BY <2>1, PipelineAssumption DEF Batches
  <2> QED
    BY <1>1, <2>2 DEF Store, Controller!Next
<1>2. CASE Deliver \/ DeliverLate
  BY <1>1, <1>2 DEF Deliver, DeliverLate
<1>3. CASE Expiry
  <2>1. PICK S \in SUBSET Batches : Controller!Cleanup(S, {})
    BY <1>3 DEF Expiry
  <2>2. {} \in SUBSET Batches
    OBVIOUS
  <2> QED
    BY <2>1, <2>2 DEF Controller!Next
<1>4. CASE \E S \in SUBSET Batches : Analysis(S)
  <2>1. PICK S \in SUBSET Batches :
          Controller!Settle(S) \/ \E R \in SUBSET S : Controller!Report(S, R)
    BY <1>4 DEF Analysis
  <2> QED
    BY <2>1 DEF Controller!Next
<1>5. CASE TaskFails
  BY <1>5 DEF TaskFails, Controller!Next
<1>6. CASE AgentAlone \/ UNCHANGED vars
  BY <1>6 DEF AgentAlone, vars, controllerVars, Controller!vars
<1> QED
  BY <1>2, <1>3, <1>4, <1>5, <1>6 DEF Next

\* Seen from the agent the pipeline is AgentCollector, and seen from the batches it is
\* BatchLifecycle: joining the two adds nothing that either would not do alone, so that
\* what is proved of each holds of the pipeline too (http_pusher.go:PushLogs,
\* log_ingest.py:ingest_logs).
THEOREM PipelineComposes == Spec => Agent!Spec /\ Controller!Spec
<1>1. Init => Agent!Init /\ Controller!Init /\ PipelineInv
  BY InvInit DEF Init
<1>2. [Next]_vars => [Agent!Next]_(Agent!vars)
  BY AgentStep
<1>3. PipelineInv /\ [Next]_vars => [Controller!Next]_(Controller!vars)
  BY ControllerStep
<1>4. PipelineInv /\ AgentFacts /\ [Next]_vars => PipelineInv'
  BY InvNext DEF AgentFacts
<1> QED
  BY <1>1, <1>2, <1>3, <1>4, AgentHolds, PTL DEF Spec, Agent!Spec, Controller!Spec
=============================================================================
