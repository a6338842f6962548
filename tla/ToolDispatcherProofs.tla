------------------------ MODULE ToolDispatcherProofs ------------------------
(***************************************************************************)
(* Proofs about the tool calls: for the limiter, for every capacity, rate, *)
(* number of nodes and behaviour of the clock; for a request at the agent, *)
(* for every choice of the time limits; and for both under the dispatcher. *)
(***************************************************************************)
EXTENDS ToolDispatcher, TLAPS

(***************************************************************************)
(* The limiter: what was granted was paid for, and what is refused was not *)
(* filled up yet.                                                          *)
(***************************************************************************)
\* Calls granted since the start were paid from a full bucket and the refill.
PaidInv ==
  \A k \in Keys :
    /\ k \notin known => granted[k] = 0
    /\ k \in known => tokens[k] <= Full
    /\ granted[k] > 0 => granted[k] * Cost + tokens[k] <= Full + (last[k] - start)

\* Whatever the clock does, a bucket holds what was filled since the last grant.
FilledInv ==
  \A k \in known : grantAt[k] # Never /\ last[k] - grantAt[k] <= tokens[k]

LEMMA FullFact == Full \in Nat /\ Cost <= Full /\ Cost \in Nat /\ Cost > 0
<1>1. Capacity \in Nat /\ Capacity >= 1 /\ Cost \in Nat /\ Cost >= 1
  BY BucketAssumption
<1>2. Capacity * Cost \in Nat /\ Cost <= Capacity * Cost
  BY <1>1, Z3
<1> QED
  BY <1>1, <1>2 DEF Full

LEMMA AvailableFact ==
  ASSUME BucketTypeOK, NEW k \in Keys
  PROVE  Available(k) \in Int /\ Available(k) <= Full
BY FullFact DEF BucketTypeOK, Available, Min2

LEMMA BucketTypeInit == BucketInit => BucketTypeOK
BY BucketAssumption DEF BucketInit, BucketTypeOK, Never

LEMMA BucketTypeNext == BucketTypeOK /\ [BucketNext]_bucketVars => BucketTypeOK'
<1> SUFFICES ASSUME BucketTypeOK, [BucketNext]_bucketVars PROVE BucketTypeOK'
  OBVIOUS
<1> USE BucketAssumption DEF BucketTypeOK
<1>1. CASE ClockTick
  BY <1>1 DEF ClockTick
<1>2. CASE SetBack
  BY <1>2 DEF SetBack
<1>3. ASSUME NEW k \in Keys, Grant(k) PROVE BucketTypeOK'
  <2>1. Available(k) - Cost \in Int
    BY AvailableFact
  <2> QED
    BY <1>3, <2>1 DEF Grant
<1>4. ASSUME NEW k \in Keys, Refuse(k) PROVE BucketTypeOK'
  BY <1>4, AvailableFact DEF Refuse
<1>5. CASE UNCHANGED bucketVars
  BY <1>5 DEF bucketVars
<1> QED
  BY <1>1, <1>2, <1>3, <1>4, <1>5 DEF BucketNext

\* The buckets keep their types.
THEOREM BucketTypeCorrect == BucketSpec => []BucketTypeOK
BY BucketTypeInit, BucketTypeNext, PTL DEF BucketSpec

LEMMA PaidNext ==
  BucketTypeOK /\ PaidInv /\ WindowBound /\ [BucketNext]_bucketVars => PaidInv' /\ WindowBound'
<1> SUFFICES ASSUME BucketTypeOK, PaidInv, WindowBound, [BucketNext]_bucketVars
             PROVE  PaidInv' /\ WindowBound'
  OBVIOUS
<1> USE DEF BucketTypeOK
<1>1. CASE UNCHANGED <<known, tokens, last, start, granted, latest>>
  BY <1>1 DEF PaidInv, WindowBound, Full
<1>2. ASSUME NEW k \in Keys, Grant(k) PROVE PaidInv' /\ WindowBound'
  <2>1. /\ Available(k) \in Int /\ Available(k) <= Full /\ Cost <= Available(k)
        /\ Full \in Nat /\ Cost \in Nat /\ clock \in Nat /\ start \in Nat
    BY <1>2, FullFact, AvailableFact, BucketAssumption DEF Grant
  <2>2. /\ tokens'[k] = Available(k) - Cost /\ last'[k] = clock /\ start' = start
        /\ k \in known' /\ Full' = Full
    BY <1>2 DEF Grant, Full
  <2>3. \A j \in Keys : j # k =>
          /\ tokens'[j] = tokens[j] /\ last'[j] = last[j] /\ granted'[j] = granted[j]
          /\ latest'[j] = latest[j] /\ (j \in known' <=> j \in known)
    BY <1>2 DEF Grant
  <2>4. CASE clock >= start
    <3>1. granted'[k] = granted[k] + 1 /\ latest'[k] = clock
      BY <1>2, <2>4 DEF Grant
    <3>2. (granted[k] + 1) * Cost = granted[k] * Cost + Cost
          /\ granted[k] * Cost \in Nat
      BY <2>1, Z3
    <3>3. granted[k] * Cost + Available(k) <= Full + (clock - start)
      <4>1. CASE granted[k] = 0
        BY <2>1, <2>4, <4>1
      <4>2. CASE granted[k] > 0
        <5>1. k \in known /\ Available(k) <= tokens[k] + (clock - last[k])
          BY <2>1, <4>2 DEF PaidInv, Available, Min2
        <5>2. granted[k] * Cost + tokens[k] <= Full + (last[k] - start)
          BY <4>2 DEF PaidInv
        <5> QED
          BY <2>1, <3>2, <5>1, <5>2
      <4> QED
        BY <4>1, <4>2
    <3>4. granted'[k] * Cost + tokens'[k] <= Full + (last'[k] - start)
          /\ granted'[k] * Cost <= Full + (latest'[k] - start)
          /\ tokens'[k] <= Full
      BY <2>1, <2>2, <3>1, <3>2, <3>3
    <3> QED
      BY <2>2, <2>3, <3>4 DEF PaidInv, WindowBound
  <2>5. CASE ~(clock >= start)
    <3>1. granted'[k] = granted[k] /\ latest'[k] = latest[k]
      BY <1>2, <2>5 DEF Grant
    <3>2. tokens'[k] <= Full
      BY <2>1, <2>2
    <3>3. ASSUME granted[k] > 0
          PROVE  granted[k] * Cost + tokens'[k] <= Full + (clock - start)
      <4>1. k \in known
        BY <3>3 DEF PaidInv
      <4>2. Available(k) <= tokens[k] + (clock - last[k])
        BY <2>1, <4>1 DEF Available, Min2
      <4>3. granted[k] * Cost + tokens[k] <= Full + (last[k] - start)
            /\ granted[k] * Cost \in Int
        BY <2>1, <3>3 DEF PaidInv
      <4> QED
        BY <2>1, <2>2, <4>2, <4>3
    <3> QED
      BY <2>2, <2>3, <3>1, <3>2, <3>3 DEF PaidInv, WindowBound
  <2> QED
    BY <2>4, <2>5, <2>1
<1>3. ASSUME NEW k \in Keys, Refuse(k) PROVE PaidInv' /\ WindowBound'
  <2>1. /\ Available(k) \in Int /\ Available(k) <= Full
        /\ Full \in Nat /\ Cost \in Nat /\ clock \in Nat /\ start \in Nat
    BY FullFact, AvailableFact, BucketAssumption
  <2>2. /\ tokens'[k] = Available(k) /\ last'[k] = clock /\ start' = start
        /\ known' = known /\ granted' = granted /\ latest' = latest /\ Full' = Full
    BY <1>3 DEF Refuse, Full
  <2>3. \A j \in Keys : j # k => tokens'[j] = tokens[j] /\ last'[j] = last[j]
    BY <1>3 DEF Refuse
  <2>4. ASSUME granted[k] > 0
        PROVE  granted[k] * Cost + tokens'[k] <= Full + (clock - start)
    <3>1. k \in known /\ Available(k) <= tokens[k] + (clock - last[k])
      BY <2>1, <2>4 DEF PaidInv, Available, Min2
    <3>2. granted[k] * Cost + tokens[k] <= Full + (last[k] - start)
          /\ granted[k] * Cost \in Int
      BY <2>1, <2>4 DEF PaidInv
    <3> QED
      BY <2>1, <2>2, <3>1, <3>2
  <2> QED
    BY <2>1, <2>2, <2>3, <2>4 DEF PaidInv, WindowBound
<1>4. CASE ClockTick \/ SetBack \/ UNCHANGED bucketVars
  BY <1>1, <1>4 DEF ClockTick, SetBack, bucketVars
<1> QED
  BY <1>2, <1>3, <1>4 DEF BucketNext

\* No window holds more calls than a full bucket and its refill pay for.
THEOREM CallsBounded == BucketSpec => []WindowBound
<1>1. BucketInit => PaidInv /\ WindowBound
  BY FullFact DEF BucketInit, PaidInv, WindowBound
<1>2. BucketSpec => [](BucketTypeOK /\ PaidInv /\ WindowBound)
  BY <1>1, BucketTypeInit, BucketTypeNext, PaidNext, PTL DEF BucketSpec
<1> QED
  BY <1>2, PTL
-----------------------------------------------------------------------------
LEMMA FilledNext == BucketTypeOK /\ FilledInv /\ [BucketNext]_bucketVars => FilledInv'
<1> SUFFICES ASSUME BucketTypeOK, FilledInv, [BucketNext]_bucketVars
             PROVE  FilledInv'
  OBVIOUS
<1> USE DEF BucketTypeOK, Never
<1>1. CASE ClockTick \/ SetBack \/ UNCHANGED bucketVars
  BY <1>1 DEF ClockTick, SetBack, bucketVars, FilledInv
<1>2. ASSUME NEW k \in Keys, Grant(k) PROVE FilledInv'
  <2>1. Available(k) - Cost >= 0 /\ clock \in Nat /\ Available(k) - Cost \in Int
    BY <1>2, FullFact, AvailableFact, BucketAssumption DEF Grant
  <2> QED
    BY <1>2, <2>1 DEF Grant, FilledInv
<1>3. ASSUME NEW k \in Keys, Refuse(k) PROVE FilledInv'
  <2>1. k \in known /\ Available(k) = tokens[k] + (clock - last[k]) /\ clock \in Nat
    BY <1>3, FullFact, BucketAssumption DEF Refuse, Available, Min2
  <2>2. grantAt[k] # Never /\ last[k] - grantAt[k] <= tokens[k]
    BY <2>1 DEF FilledInv
  <2> QED
    BY <1>3, <2>1, <2>2 DEF Refuse, FilledInv
<1> QED
  BY <1>1, <1>2, <1>3 DEF BucketNext

\* Neither refused calls nor a clock set back starve a node for longer than that.
THEOREM RefusalsJustified == BucketSpec => []RefusalJustified
<1>1. BucketInit => FilledInv
  BY DEF BucketInit, FilledInv
<1>2. BucketTypeOK /\ FilledInv => RefusalJustified
  <2> SUFFICES ASSUME BucketTypeOK, FilledInv, NEW k \in Keys,
                      Available(k) < Cost
               PROVE  grantAt[k] # Never /\ clock - grantAt[k] < Cost
    BY DEF RefusalJustified
  <2>1. k \in known /\ Available(k) = tokens[k] + (clock - last[k]) /\ clock \in Nat
    BY FullFact, BucketAssumption DEF Available, Min2, BucketTypeOK
  <2>2. grantAt[k] # Never /\ last[k] - grantAt[k] <= tokens[k]
    BY <2>1 DEF FilledInv
  <2> QED
    BY <2>1, <2>2, FullFact DEF BucketTypeOK, Never
<1> QED
  BY <1>1, <1>2, BucketTypeInit, BucketTypeNext, FilledNext, PTL DEF BucketSpec

-----------------------------------------------------------------------------
(***************************************************************************)
(* A request.  The inductive invariant has a part on how the states of the *)
(* handler, the process and the watcher fit together, and one on time:     *)
(* what is due has happened before the clock moves on.                     *)
(***************************************************************************)
\* Which states of the handler, the leader and the watcher go together.
Shape ==
  /\ handler = "waiting" <=> leader \in {"alive", "exited", "killed"}
  /\ handler = "draining" => leader = "reaped"
  /\ handler = "none" => leader = "none"
  /\ leader = "none" =>
       watch = "off" /\ child = "none" /\ code = "none" /\ owner = "agent"
  /\ leader = "alive" => watch # "off" /\ code = "none"
  /\ leader = "killed" => watch = "fired"
  /\ watch = "armed" => leader \in {"alive", "exited"}
  /\ leader = "alive" /\ watch = "fired" => watchErr /\ owner = "root"
  /\ code \in {"zero", "other"} <=> endedAt # Absent

\* What a reply says of the command.
Reported ==
  /\ reply # "none" <=> handler = "replied"
  /\ reply \in {"zero", "nonzero"} => leader = "reaped" /\ child # "alive"
  /\ reply = "zero" => endedAt # Absent /\ ~watchErr

\* The clock has not passed what was due.
InTime ==
  /\ client = "waiting" => now <= ClientTimeout
  /\ client = "timedout" => ClientTimeout <= now
  /\ Closed <=> closedAt # Absent
  /\ closedAt <= now /\ endedAt <= now /\ startedAt <= now
  /\ watch = "armed" => now <= Deadline /\ (Closed /\ ~lost => now = GoneAt)
  /\ leader = "exited" => now = endedAt

\* A command that ended without an error of the watcher ended in time.
EndedInTime ==
  endedAt # Absent /\ ~watchErr =>
    /\ endedAt <= Deadline
    /\ Closed /\ ~lost => endedAt <= GoneAt

\* A command that can be stopped is not past its limit, and neither is its handler.
Prompt ==
  handler \in {"waiting", "draining"} /\ owner = "agent" /\ child = "none" =>
    now <= Deadline

IInv ==
  TypeOK /\ Shape /\ Reported /\ InTime /\ EndedInTime /\ Prompt
           /\ ClientOutlastsCommand

LEMMA InitInv == Init => IInv
<1> SUFFICES ASSUME Init PROVE IInv
  OBVIOUS
<1> USE TimeoutsAssumption DEF Init, Absent
<1>1. TypeOK
  <2>1. now \in 0..MaxTime /\ startedAt \in Nat
    OBVIOUS
  <2>2. lost \in BOOLEAN /\ watchErr \in BOOLEAN
    OBVIOUS
  <2>3. endedAt \in Nat \cup {-1} /\ closedAt \in Nat \cup {-1}
    OBVIOUS
  <2> QED
    BY <2>1, <2>2, <2>3 DEF TypeOK
<1>2. Shape
  BY DEF Shape
<1>3. Reported
  BY DEF Reported
<1>4. InTime
  BY DEF InTime, Closed
<1>5. EndedInTime
  BY DEF EndedInTime
<1>6. Prompt
  BY DEF Prompt
<1>7. ClientOutlastsCommand
  BY DEF ClientOutlastsCommand
<1> QED
  BY <1>1, <1>2, <1>3, <1>4, <1>5, <1>6, <1>7 DEF IInv

LEMMA TypeNext == TypeOK /\ [Next]_vars => TypeOK'
<1> USE TimeoutsAssumption DEF TypeOK, Absent, clientVars, commandVars
<1>1. TypeOK /\ Tick => TypeOK'
  BY DEF Tick
<1>2. TypeOK /\ Answered => TypeOK'
  BY DEF Answered
<1>3. TypeOK /\ TimesOut => TypeOK'
  BY DEF TimesOut
<1>4. TypeOK /\ HangsUp => TypeOK'
  BY DEF HangsUp
<1>5. TypeOK /\ NetworkFails => TypeOK'
  BY DEF NetworkFails
<1>6. TypeOK /\ Reject => TypeOK'
  BY DEF Reject, Arrives
<1>7. TypeOK /\ Start => TypeOK'
  BY DEF Start, Arrives
<1>8. TypeOK /\ WatchFires => TypeOK'
  BY DEF WatchFires
<1>9. TypeOK /\ Reap => TypeOK'
  BY DEF Reap
<1>10. TypeOK /\ Finish => TypeOK'
  BY DEF Finish, Outcome
<1>11. TypeOK /\ Fork => TypeOK'
  BY DEF Fork
<1>12. TypeOK /\ ChildEnds => TypeOK'
  BY DEF ChildEnds
<1>13. TypeOK /\ LeaderExits => TypeOK'
  BY DEF LeaderExits
<1>14. TypeOK /\ UNCHANGED vars => TypeOK'
  BY DEF vars
<1> QED
  BY <1>1, <1>2, <1>3, <1>4, <1>5, <1>6, <1>7, <1>8, <1>9, <1>10, <1>11, <1>12, <1>13, <1>14
  DEF Next, RequestStep

LEMMA StepInv == IInv /\ [Next]_vars => IInv'
<1> SUFFICES ASSUME IInv, [Next]_vars PROVE IInv'
  OBVIOUS
<1>0. TypeOK /\ TypeOK'
  BY TypeNext DEF IInv
<1> USE <1>0, TimeoutsAssumption
    DEF IInv, Shape, Reported, InTime, EndedInTime, Prompt, Closed, Absent, Deadline, GoneAt,
        ClientOutlastsCommand, clientVars, commandVars
<1>1. CASE Tick
  BY <1>1 DEF TypeOK, Tick, Due, CtxDone
<1>2. CASE Answered
  BY <1>2 DEF TypeOK, Answered
<1>3. CASE TimesOut
  BY <1>3 DEF TypeOK, TimesOut
<1>4. CASE HangsUp
  BY <1>4 DEF TypeOK, HangsUp
<1>5. CASE NetworkFails
  BY <1>5 DEF TypeOK, NetworkFails
<1>6. CASE Reject
  BY <1>6 DEF TypeOK, Reject, Arrives
<1>7. CASE Start
  BY <1>7 DEF TypeOK, Start, Arrives
<1>8. CASE WatchFires
  <2> USE <1>8 DEF TypeOK, WatchFires, CtxDone
  <2>1. Shape'
    OBVIOUS
  <2>2. Reported'
    OBVIOUS
  <2>3. InTime' /\ EndedInTime'
    OBVIOUS
  <2>4. Prompt' /\ ClientOutlastsCommand'
    OBVIOUS
  <2> QED
    BY <1>0, <2>1, <2>2, <2>3, <2>4
<1>9. CASE Reap
  BY <1>9 DEF TypeOK, Reap
<1>10. CASE Finish
  BY <1>10 DEF TypeOK, Finish, Outcome
<1>11. CASE Fork
  BY <1>11 DEF TypeOK, Fork
<1>12. CASE ChildEnds
  BY <1>12 DEF TypeOK, ChildEnds
<1>13. CASE LeaderExits
  BY <1>13 DEF TypeOK, LeaderExits
<1>14. CASE UNCHANGED vars
  BY <1>14 DEF TypeOK, vars
<1> QED
  BY <1>1, <1>2, <1>3, <1>4, <1>5, <1>6, <1>7, <1>8, <1>9, <1>10, <1>11, <1>12, <1>13, <1>14
  DEF Next, RequestStep

\* The state of a request is always of its type.
THEOREM TypeCorrect == Spec => []TypeOK
<1>1. IInv => TypeOK
  BY DEF IInv
<1> QED
  BY InitInv, StepInv, <1>1, PTL DEF Spec

\* The inductive invariant.
THEOREM RequestCorrect == Spec => []IInv
BY InitInv, StepInv, PTL DEF Spec

LEMMA RequestFacts ==
  IInv => ClientOutlastsCommand /\ SuccessInTime /\ OutputComplete /\ NothingRunsForNobody
<1>1. IInv => ClientOutlastsCommand
  BY DEF IInv
<1>2. IInv => SuccessInTime
  BY DEF IInv, Reported, EndedInTime, SuccessInTime
<1>3. IInv => OutputComplete
  BY DEF IInv, Reported, OutputComplete
<1>4. IInv => NothingRunsForNobody
  BY DEF IInv, TypeOK, Shape, InTime, NothingRunsForNobody
<1> QED
  BY <1>1, <1>2, <1>3, <1>4

\* The dispatcher never gives up on a command the agent could stop, if it was told in time.
THEOREM LimitsFit == Spec => []ClientOutlastsCommand
BY RequestCorrect, RequestFacts, PTL

\* A command that outlived its deadline or its client is not reported as a success.
THEOREM NoLateSuccess == Spec => []SuccessInTime
BY RequestCorrect, RequestFacts, PTL

\* Output is reported only when it is complete.
THEOREM OutputIsComplete == Spec => []OutputComplete
BY RequestCorrect, RequestFacts, PTL

\* A command that can be killed does not outlive its client.
THEOREM NothingAbandoned == Spec => []NothingRunsForNobody
BY RequestCorrect, RequestFacts, PTL

-----------------------------------------------------------------------------
(***************************************************************************)
(* The dispatcher: its steps are steps of the limiter, and steps of the    *)
(* last request or the beginning of a new one.                             *)
(***************************************************************************)
LEMMA LimiterStep == [ToolNext]_toolVars => [BucketNext]_bucketVars
BY DEF ToolNext, toolVars, Dispatch, Second, BucketNext

\* The dispatcher asks the limiter before every call and in no other way.
THEOREM UsesLimiter == ToolSpec => BucketSpec
<1>1. ToolInit => BucketInit
  BY DEF ToolInit
<1> QED
  BY <1>1, LimiterStep, PTL DEF ToolSpec, BucketSpec

LEMMA NewRequest == Sent => IInv'
<1> SUFFICES ASSUME Sent PROVE IInv'
  OBVIOUS
<1> USE TimeoutsAssumption DEF Sent, Absent
<1>1. TypeOK'
  <2>1. now' \in 0..MaxTime /\ startedAt' \in Nat
    OBVIOUS
  <2>2. lost' \in BOOLEAN /\ watchErr' \in BOOLEAN
    OBVIOUS
  <2>3. endedAt' \in Nat \cup {-1} /\ closedAt' \in Nat \cup {-1}
    OBVIOUS
  <2> QED
    BY <2>1, <2>2, <2>3 DEF TypeOK
<1>2. Shape' /\ Reported' /\ InTime'
  BY DEF Shape, Reported, InTime, Closed
<1>3. EndedInTime' /\ Prompt' /\ ClientOutlastsCommand'
  BY DEF EndedInTime, Prompt, ClientOutlastsCommand
<1> QED
  BY <1>1, <1>2, <1>3 DEF IInv

LEMMA ToolStart == ToolInit => IInv
<1> SUFFICES ASSUME ToolInit PROVE IInv
  OBVIOUS
<1> USE TimeoutsAssumption DEF ToolInit, Absent
<1>1. TypeOK
  <2>1. now \in 0..MaxTime /\ startedAt \in Nat
    OBVIOUS
  <2>2. lost \in BOOLEAN /\ watchErr \in BOOLEAN
    OBVIOUS
  <2>3. endedAt \in Nat \cup {-1} /\ closedAt \in Nat \cup {-1}
    OBVIOUS
  <2> QED
    BY <2>1, <2>2, <2>3 DEF TypeOK
<1>2. Shape /\ Reported /\ InTime
  BY DEF Shape, Reported, InTime, Closed
<1>3. EndedInTime /\ Prompt /\ ClientOutlastsCommand
  BY DEF EndedInTime, Prompt, ClientOutlastsCommand
<1> QED
  BY <1>1, <1>2, <1>3 DEF IInv

LEMMA ToolStep == IInv /\ [ToolNext]_toolVars => IInv'
<1> SUFFICES ASSUME IInv, [ToolNext]_toolVars, ~Sent PROVE IInv'
  BY NewRequest
<1>1. [Next]_vars
  BY DEF ToolNext, toolVars, Dispatch, Second, Next
<1> QED
  BY <1>1, StepInv

\* One call after the other, of any number, keeps to the limits and is reported as it
\* ended, as in the theorems on the limiter and on one request.
THEOREM CallsCorrect ==
  ToolSpec => [](/\ WindowBound /\ RefusalJustified
                 /\ ClientOutlastsCommand /\ SuccessInTime
                 /\ OutputComplete /\ NothingRunsForNobody)
<1>1. ToolSpec => [](WindowBound /\ RefusalJustified)
  BY UsesLimiter, CallsBounded, RefusalsJustified, PTL
<1>2. ToolSpec => []IInv
  BY ToolStart, ToolStep, PTL DEF ToolSpec
<1>3. IInv => ClientOutlastsCommand /\ SuccessInTime /\ OutputComplete /\ NothingRunsForNobody
  BY RequestFacts
<1> QED
  BY <1>1, <1>2, <1>3, PTL
=============================================================================
