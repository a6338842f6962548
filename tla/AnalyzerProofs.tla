--------------------------- MODULE AnalyzerProofs ---------------------------
(***************************************************************************)
(* The properties of Analyzer, for any number of answers, attempts and     *)
(* tool calls.                                                             *)
(***************************************************************************)
EXTENDS Analyzer, FiniteSetTheorems, SequenceTheorems, TLAPS

Working == pc \in {"tools", "posting", "logging", "relogging"}
Sending == pc \in {"posting", "logging", "relogging"}

\* Calls are owed while tools run, and none while the model is asked; a severity is
\* known only at the end.
Shape ==
  /\ pc = "asking" => todo = 0 /\ Last(messages).calls = 0
                      /\ Last(messages).role # "assistant"
  /\ Working => todo > 0
  /\ pc = "asking" \/ Working => iterations < MaxIterations
  /\ messages # <<>>
  /\ severity # NoSeverity => pc = "done"

\* A message that is not a tool's has all its answers and an assistant's message
\* behind them, or it is the last one and waits for the calls still to do.
Conversation ==
  \A i \in DOMAIN messages :
    LET end == i + messages[i].calls IN
    messages[i].role # "tool" =>
      \/ /\ end < Len(messages)
         /\ \A j \in (i + 1)..end : messages[j].role = "tool"
         /\ messages[end + 1].role = "assistant"
      \/ /\ end = Len(messages) + todo
         /\ \A j \in (i + 1)..Len(messages) : messages[j].role = "tool"

\* A request that is done with has one row or was refused twice, the one under
\* way has none yet.
Settled(r) == r \in 1..requests /\ (r < requests \/ pc \in {"asking", "tools", "done", "failed"})
AuditInv ==
  /\ unlogged \subseteq 1..requests
  /\ \A i \in DOMAIN audit : audit[i].req \in 1..requests
  /\ \A r \in 1..requests : Settled(r) =>
       IF r \in unlogged THEN RowsOf(r) = {} ELSE \E i \in DOMAIN audit : RowsOf(r) = {i}
  /\ Sending => requests > 0 /\ RowsOf(requests) = {} /\ requests \notin unlogged

\* What the agent said of the request under way.
StatusInv ==
  /\ Sending /\ status = "success" => answers[requests] = "success"
  /\ pc = "logging" => answers[requests] = status
  /\ pc = "posting" => status = "error"

\* What has been spent so far, in terms of the iterations.
CostInv ==
  pc = "asking" \/ Working =>
    /\ posts <= (iterations * MaxAttempts) + (IF pc = "asking" THEN attempt ELSE 0)
    /\ requests <= (iterations * MaxCalls) - (IF Working THEN todo ELSE 0)
                     + (IF Sending THEN 1 ELSE 0)

IInv ==
  /\ TypeOK /\ Shape /\ Conversation /\ AuditInv /\ StatusInv /\ CostInv
  /\ OutputOnRecord /\ VerdictComplete /\ CostBounded
-----------------------------------------------------------------------------
(* Types. *)

\* Products of the limits, as the cost properties need them.
LEMMA Times ==
  ASSUME NEW a \in Nat, NEW b \in Nat, NEW c \in Nat, a < b
  PROVE  /\ a * c \in Nat /\ (b - 1) * c \in Nat /\ b * c \in Nat
         /\ (a + 1) * c = a * c + c
         /\ (b - 1) * c + c = b * c
         /\ a * c <= (b - 1) * c
<1> DEFINE d == b - 1 - a
<1>1. d \in Nat /\ b - 1 = a + d
  OBVIOUS
<1>2. /\ a * c \in Nat /\ d * c \in Nat /\ (b - 1) * c \in Nat /\ b * c \in Nat
      /\ (a + 1) * c = a * c + c /\ (b - 1) * c + c = b * c
  BY <1>1, Z3
<1>3. (a + d) * c = a * c + d * c
  BY <1>1, Z3
<1> QED
  BY <1>1, <1>2, <1>3

\* How much is left while the analysis goes on.
LEMMA Room ==
  ASSUME TypeOK, Shape, pc = "asking" \/ Working
  PROVE  /\ iterations * MaxCalls \in Nat /\ iterations * MaxAttempts \in Nat
         /\ (iterations + 1) * MaxCalls = iterations * MaxCalls + MaxCalls
         /\ (iterations + 1) * MaxAttempts = iterations * MaxAttempts + MaxAttempts
         /\ iterations * MaxCalls <= (MaxIterations - 1) * MaxCalls
         /\ (MaxIterations - 1) * MaxCalls + MaxCalls = MaxIterations * MaxCalls
         /\ (MaxIterations - 1) * MaxCalls \in Nat
         /\ iterations * MaxAttempts + MaxAttempts <= MaxIterations * MaxAttempts
         /\ MaxIterations * MaxAttempts \in Nat
<1>1. /\ iterations \in Nat /\ MaxIterations \in Nat /\ iterations < MaxIterations
      /\ MaxCalls \in Nat /\ MaxAttempts \in Nat
  BY LimitsAssumption DEF TypeOK, Shape
<1>2. /\ iterations * MaxCalls \in Nat
      /\ (iterations + 1) * MaxCalls = iterations * MaxCalls + MaxCalls
      /\ iterations * MaxCalls <= (MaxIterations - 1) * MaxCalls
      /\ (MaxIterations - 1) * MaxCalls + MaxCalls = MaxIterations * MaxCalls
      /\ (MaxIterations - 1) * MaxCalls \in Nat
  BY <1>1, Times
<1>3. /\ iterations * MaxAttempts \in Nat
      /\ (iterations + 1) * MaxAttempts = iterations * MaxAttempts + MaxAttempts
      /\ iterations * MaxAttempts <= (MaxIterations - 1) * MaxAttempts
      /\ (MaxIterations - 1) * MaxAttempts + MaxAttempts = MaxIterations * MaxAttempts
      /\ MaxIterations * MaxAttempts \in Nat /\ (MaxIterations - 1) * MaxAttempts \in Nat
  BY <1>1, Times
<1> QED
  BY <1>1, <1>2, <1>3

LEMMA MessageFact ==
  /\ System \in Message
  /\ \A n \in 0..MaxCalls : Assistant(n) \in Message
  /\ \A c \in {"text", "output", "error", "empty"}, r \in {0} \cup Requests :
       Tool(c, r) \in Message
BY LimitsAssumption DEF System, Assistant, Tool, Message

\* A message is added behind the others.
LEMMA Added ==
  ASSUME messages \in Seq(Message), NEW e \in Message, messages' = Append(messages, e)
  PROVE  /\ messages' \in Seq(Message) /\ messages' # <<>>
         /\ Len(messages) \in Nat /\ Len(messages') = Len(messages) + 1
         /\ DOMAIN messages = 1..Len(messages)
         /\ DOMAIN messages' = 1..(Len(messages) + 1)
         /\ \A i \in DOMAIN messages : messages'[i] = messages[i]
         /\ messages'[Len(messages) + 1] = e
         /\ Last(messages') = e
BY DEF Last

\* What the end of a call does to the conversation.
LEMMA CallDoneFact ==
  ASSUME TypeOK, Shape, pc \in {"tools", "logging", "relogging"},
         NEW c \in {"output", "error", "empty"}, NEW r \in {0} \cup Requests,
         CallAnswered(c, r)
  PROVE  /\ Tool(c, r) \in Message /\ messages' = Append(messages, Tool(c, r))
         /\ todo' = todo - 1 /\ todo \in 1..MaxCalls
         /\ pc' = IF todo = 1 THEN "asking" ELSE "tools"
         /\ attempt' \in 1..MaxAttempts /\ posts' \in Nat
         /\ UNCHANGED <<iterations, severity>>
<1>1. todo \in 1..MaxCalls
  BY LimitsAssumption DEF TypeOK, Shape, Working
<1>2. Tool(c, r) \in Message
  BY MessageFact
<1> QED
  BY <1>1, <1>2, LimitsAssumption DEF CallAnswered, TypeOK

\* A request fits in the numbering.
LEMMA RequestFact ==
  ASSUME TypeOK, Shape, CostInv, pc = "tools"
  PROVE  /\ requests \in Nat /\ requests + 1 \in Requests
         /\ requests + 1 <= (MaxIterations - 1) * MaxCalls
<1>1. requests \in Nat
  BY DEF TypeOK, Requests
<1>2. todo \in 1..MaxCalls /\ MaxCalls \in Nat
  BY LimitsAssumption DEF TypeOK, Shape, Working
<1>3. requests <= iterations * MaxCalls - todo
  BY <1>1, <1>2, Room DEF CostInv, Working, Sending
<1>4. requests + 1 <= (MaxIterations - 1) * MaxCalls
      /\ (MaxIterations - 1) * MaxCalls + MaxCalls = MaxIterations * MaxCalls
      /\ (MaxIterations - 1) * MaxCalls \in Nat
  BY <1>1, <1>2, <1>3, Room DEF Working
<1>5. requests + 1 \in 1..(MaxIterations * MaxCalls)
  BY <1>1, <1>2, <1>4
<1> QED
  BY <1>1, <1>4, <1>5 DEF Requests

LEMMA TypeInit == Init => TypeOK
<1> SUFFICES ASSUME Init PROVE TypeOK
  OBVIOUS
<1>1. messages \in Seq(Message)
  BY MessageFact DEF Init
<1>2. audit \in Seq([req : Requests, status : Statuses])
  BY DEF Init
<1> QED
  BY <1>1, <1>2, LimitsAssumption DEF Init, TypeOK, Statuses

LEMMA RouteFact ==
  ASSUME NEW n, NEW s
  PROVE  Route(n, s) \in {"done", "tools"}
BY DEF Route

LEMMA TypeNext == TypeOK /\ Shape /\ AuditInv /\ CostInv /\ [Next]_vars => TypeOK'
<1> SUFFICES ASSUME TypeOK, Shape, AuditInv, CostInv, [Next]_vars PROVE TypeOK'
  OBVIOUS
<1> USE DEF TypeOK, graphVars, requestVars, Ended
<1> USE LimitsAssumption
<1>1. CASE AskFails \/ AskMalformed
  BY SMTT(30), <1>1 DEF AskFails, AskMalformed
<1>2. CASE AnswerHollow
  BY <1>2, RouteFact DEF AnswerHollow, Shape
<1>3. CASE AnswerWithTools
  <2>1. PICK n \in 1..MaxCalls : messages' = Append(messages, Assistant(n)) /\ todo' = n
    BY <1>3 DEF AnswerWithTools
  <2>2. messages' \in Seq(Message)
    BY <2>1, MessageFact, Added
  <2> QED
    BY <1>3, <2>1, <2>2, RouteFact DEF AnswerWithTools, Shape
<1>4. CASE AnswerWithReport
  <2>1. messages' \in Seq(Message)
    BY <1>4, MessageFact, Added DEF AnswerWithReport
  <2> QED
    BY <1>4, <2>1, RouteFact DEF AnswerWithReport, Shape
<1>5. CASE ArgumentsMalformed \/ PostFails \/ LogFails \/ Stop
  BY <1>5 DEF ArgumentsMalformed, PostFails, LogFails, Stop
<1>6. CASE NotSent /\ pc' # "failed"
  <2>1. PICK c \in {"empty", "error"} : CallAnswered(c, 0)
    BY <1>6 DEF NotSent, CallDone
  <2>2. messages' \in Seq(Message)
    BY <1>6, <2>1, CallDoneFact, Added DEF NotSent
  <2> QED
    BY <1>6, <2>1, <2>2, CallDoneFact DEF NotSent
<1>7. CASE Post
  BY <1>7, RequestFact DEF Post, Statuses
<1>8. CASE AgentAnswers
  BY <1>8 DEF AgentAnswers, Statuses
<1>9. ASSUME Sending PROVE requests \in Requests /\ Row \in [req : Requests, status : Statuses]
  BY <1>9 DEF AuditInv, Row
<1>10. CASE Logged /\ pc' # "failed"
  <2>1. Sending /\ pc = "logging"
    BY <1>10 DEF Logged, Sending
  <2>2. audit' \in Seq([req : Requests, status : Statuses])
    BY <1>9, <1>10, <2>1 DEF Logged
  <2>3. messages' \in Seq(Message)
    BY <1>9, <1>10, <2>1, CallDoneFact, Added DEF Logged, CallDone
  <2> QED
    BY SMTT(30), <1>9, <1>10, <2>1, <2>2, <2>3, CallDoneFact DEF Logged, CallDone
<1>11. CASE Relogged /\ pc' # "failed"
  <2>1. Sending /\ pc = "relogging"
    BY <1>11 DEF Relogged, Sending
  <2>2. audit' \in Seq([req : Requests, status : Statuses])
    BY <1>9, <1>11, <2>1 DEF Relogged
  <2>3. messages' \in Seq(Message)
    BY <1>9, <1>11, <2>1, CallDoneFact, Added DEF Relogged, CallDone
  <2> QED
    BY SMTT(30), <1>9, <1>11, <2>1, <2>2, <2>3, CallDoneFact DEF Relogged, CallDone
<1>12. CASE RelogFails /\ pc' # "failed"
  <2>1. Sending /\ pc = "relogging"
    BY <1>12 DEF RelogFails, Sending
  <2>2. messages' \in Seq(Message)
    BY <1>9, <1>12, <2>1, CallDoneFact, Added DEF RelogFails, CallDone
  <2> QED
    BY <1>9, <1>12, <2>1, <2>2, CallDoneFact DEF RelogFails, CallDone
<1>13. CASE UNCHANGED vars
  BY <1>13 DEF vars
<1>14. CASE (NotSent \/ RelogFails) /\ pc' = "failed"
  <2>1. RelogFails => Sending
    BY DEF RelogFails, Sending
  <2>2. UNCHANGED <<iterations, messages, severity, todo, attempt, posts, status, audit,
                    requests, answers>>
    BY <1>14 DEF NotSent, RelogFails, CallDone, CallAnswered
  <2>3. unlogged' \in SUBSET Requests
    BY <1>9, <1>14, <2>1 DEF NotSent, RelogFails
  <2> QED
    BY <1>14, <2>2, <2>3
<1>15. CASE (Logged \/ Relogged) /\ pc' = "failed"
  <2>1. Sending
    BY <1>15 DEF Logged, Relogged, Sending
  <2>2. audit' \in Seq([req : Requests, status : Statuses])
    <3>1. audit' = Append(audit, Row)
      BY <1>15 DEF Logged, Relogged
    <3> QED
      BY <1>9, <2>1, <3>1
  <2>3. UNCHANGED <<iterations, messages, severity, todo, attempt, posts, status,
                    requests, answers, unlogged>>
    BY <1>15 DEF Logged, Relogged, CallDone, CallAnswered
  <2> QED
    BY <1>15, <2>2, <2>3
<1> QED
  BY <1>1, <1>2, <1>3, <1>4, <1>5, <1>6, <1>7, <1>8, <1>10, <1>11, <1>12, <1>13, <1>14, <1>15
     DEF Next
-----------------------------------------------------------------------------
(* The conversation. *)

\* The steps that end a call.
EndOfCall == NotSent \/ Logged \/ Relogged \/ RelogFails

LEMMA CallSteps ==
  ASSUME TypeOK, AuditInv, EndOfCall, pc' # "failed"
  PROVE  /\ pc \in {"tools", "logging", "relogging"}
         /\ \E c \in {"output", "error", "empty"}, r \in {0} \cup Requests :
              CallAnswered(c, r)
<1>1. requests \in {0} \cup Requests
  BY DEF TypeOK
<1>2. CASE NotSent
  BY <1>2 DEF NotSent, CallDone
<1>3. CASE Logged \/ Relogged \/ RelogFails
  BY <1>1, <1>3 DEF Logged, Relogged, RelogFails, CallDone
<1> QED
  BY <1>2, <1>3 DEF EndOfCall

\* A call without an id ends the analysis.
LEMMA NoIdFact ==
  ASSUME EndOfCall, pc' = "failed"
  PROVE  pc \in {"tools", "logging", "relogging"} /\ UNCHANGED <<attempt, graphVars, posts>>
BY DEF EndOfCall, NotSent, Logged, Relogged, RelogFails, CallDone, CallAnswered

\* The answers of the model, and where the analysis goes from there.
LEMMA AnswerSteps ==
  ASSUME TypeOK, Shape, AnswerWithTools \/ AnswerWithReport
  PROVE  \E n \in 0..MaxCalls :
           /\ pc = "asking" /\ todo = 0 /\ iterations' = iterations + 1
           /\ messages' = Append(messages, Assistant(n)) /\ todo' = n
           /\ Assistant(n) \in Message /\ Last(messages') = Assistant(n)
           /\ pc' = IF iterations + 1 < MaxIterations /\ n > 0 THEN "tools" ELSE "done"
           /\ n = 0 <=> AnswerWithReport
<1>1. pc = "asking" /\ todo = 0
  BY DEF AnswerWithTools, AnswerWithReport, Shape
<1>2. ASSUME NEW n \in 0..MaxCalls, messages' = Append(messages, Assistant(n)),
             iterations' = iterations + 1, pc' = Route(iterations', messages')
      PROVE  /\ Assistant(n) \in Message /\ Last(messages') = Assistant(n)
             /\ pc' = IF iterations + 1 < MaxIterations /\ n > 0 THEN "tools" ELSE "done"
  <2>1. Assistant(n) \in Message /\ Last(messages') = Assistant(n)
    BY <1>2, MessageFact, Added DEF TypeOK
  <2>2. Last(messages').calls = n
    BY <2>1 DEF Assistant
  <2> QED
    BY <1>2, <2>1, <2>2, LimitsAssumption DEF Route, TypeOK
<1>3. CASE AnswerWithTools
  <2>1. PICK n \in 1..MaxCalls : messages' = Append(messages, Assistant(n)) /\ todo' = n
    BY <1>3 DEF AnswerWithTools
  <2>2. n \in 0..MaxCalls /\ n # 0
    OBVIOUS
  <2>3. ~AnswerWithReport
    <3>1. ASSUME AnswerWithReport PROVE FALSE
      BY <1>1, <2>1, <2>2, <3>1 DEF AnswerWithReport
    <3> QED
      BY <3>1
  <2> QED
    BY <1>1, <1>2, <1>3, <2>1, <2>2, <2>3 DEF AnswerWithTools
<1>4. CASE AnswerWithReport
  <2>1. 0 \in 0..MaxCalls
    BY LimitsAssumption
  <2> QED
    BY <1>1, <1>2, <1>4, <2>1 DEF AnswerWithReport
<1> QED
  BY <1>3, <1>4

\* An answer without a choice ends the analysis.
LEMMA HollowFact ==
  ASSUME TypeOK, Shape, AnswerHollow
  PROVE  pc = "asking" /\ pc' = "done" /\ UNCHANGED <<messages, severity, todo>>
BY DEF AnswerHollow, Shape, Route

\* The steps that leave the conversation and the verdict alone.
LEMMA OtherSteps ==
  ASSUME [Next]_vars
  PROVE  \/ UNCHANGED vars
         \/ AnswerHollow \/ AnswerWithTools \/ AnswerWithReport
         \/ EndOfCall /\ pc' # "failed"
         \/ /\ pc \notin Ended /\ pc' # "done"
            /\ pc' = "asking" => pc = "asking"
            /\ pc' \in {"tools", "posting", "logging", "relogging"} => Working
            /\ UNCHANGED graphVars
<1> USE DEF Ended, Working
<1>1. CASE AskFails \/ AskMalformed \/ ArgumentsMalformed \/ Post \/ AgentAnswers
           \/ PostFails \/ LogFails \/ Stop
  BY <1>1 DEF AskFails, AskMalformed, ArgumentsMalformed, Post, AgentAnswers, PostFails,
              LogFails, Stop, requestVars
<1>2. CASE EndOfCall /\ pc' = "failed"
  BY <1>2, NoIdFact
<1> QED
  BY <1>1, <1>2 DEF Next, EndOfCall

LEMMA ShapeInit == Init => Shape
<1> SUFFICES ASSUME Init PROVE Shape
  OBVIOUS
<1>1. Last(messages) = System /\ messages # <<>>
  BY DEF Init, Last
<1> QED
  BY <1>1, LimitsAssumption DEF Init, Shape, Working, System

LEMMA ShapeNext == TypeOK /\ Shape /\ AuditInv /\ [Next]_vars => Shape'
<1> SUFFICES ASSUME TypeOK, Shape, AuditInv, [Next]_vars PROVE Shape'
  OBVIOUS
<1>1. CASE UNCHANGED vars
  BY <1>1 DEF vars, graphVars, Shape, Working
<1>2. CASE AnswerHollow
  BY <1>2, HollowFact DEF Shape, Working
<1>3. CASE AnswerWithTools \/ AnswerWithReport
  <2>1. PICK n \in 0..MaxCalls :
          /\ pc = "asking" /\ iterations' = iterations + 1
          /\ messages' = Append(messages, Assistant(n)) /\ todo' = n
          /\ Assistant(n) \in Message
          /\ pc' = IF iterations + 1 < MaxIterations /\ n > 0 THEN "tools" ELSE "done"
          /\ n = 0 <=> AnswerWithReport
    BY <1>3, AnswerSteps
  <2>2. messages' # <<>>
    BY <2>1, Added DEF TypeOK
  <2>3. severity' # NoSeverity => pc' = "done"
    <3>1. CASE n = 0
      BY <2>1, <3>1
    <3>2. CASE n # 0
      BY <1>3, <2>1, <3>2 DEF AnswerWithTools, Shape
    <3> QED
      BY <3>1, <3>2
  <2> QED
    BY <2>1, <2>2, <2>3 DEF Shape, Working
<1>4. CASE EndOfCall /\ pc' # "failed"
  <2>1. PICK c \in {"output", "error", "empty"}, r \in {0} \cup Requests :
          CallAnswered(c, r)
    BY <1>4, CallSteps
  <2>2. /\ Tool(c, r) \in Message /\ messages' = Append(messages, Tool(c, r))
        /\ todo' = todo - 1 /\ todo \in 1..MaxCalls
        /\ pc' = IF todo = 1 THEN "asking" ELSE "tools"
        /\ UNCHANGED <<iterations, severity>>
        /\ pc \in {"tools", "logging", "relogging"}
    BY <1>4, <2>1, CallSteps, CallDoneFact
  <2>3. Last(messages') = Tool(c, r) /\ messages' # <<>>
    BY <2>2, Added DEF TypeOK
  <2>4. Last(messages').calls = 0 /\ Last(messages').role = "tool"
    BY <2>3 DEF Tool
  <2>5. iterations < MaxIterations /\ severity = NoSeverity
    BY <2>2 DEF Shape, Working
  <2>6. (todo = 1 => todo' = 0) /\ (todo # 1 => todo' > 0)
    BY <2>2
  <2> QED
    BY <2>2, <2>3, <2>4, <2>5, <2>6 DEF Shape, Working
<1>5. CASE /\ pc \notin Ended /\ pc' # "done"
           /\ pc' = "asking" => pc = "asking"
           /\ pc' \in {"tools", "posting", "logging", "relogging"} => Working
           /\ UNCHANGED graphVars
  BY <1>5 DEF graphVars, Shape, Working, Ended
<1> QED
  BY <1>1, <1>2, <1>3, <1>4, <1>5, OtherSteps

LEMMA CallsFact == TypeOK => \A i \in DOMAIN messages : messages[i].calls \in Nat
<1> SUFFICES ASSUME TypeOK, NEW i \in DOMAIN messages PROVE messages[i].calls \in Nat
  OBVIOUS
<1>1. messages[i] \in Message
  BY DEF TypeOK
<1> QED
  BY <1>1, LimitsAssumption DEF Message

\* A message of the model goes behind a complete conversation.
LEMMA AnswerAdded ==
  ASSUME TypeOK, Conversation, todo = 0, NEW n \in 0..MaxCalls,
         Assistant(n) \in Message, messages' = Append(messages, Assistant(n)), todo' = n
  PROVE  Conversation'
<1>1. /\ Len(messages) \in Nat /\ Len(messages') = Len(messages) + 1
      /\ DOMAIN messages = 1..Len(messages)
      /\ DOMAIN messages' = 1..(Len(messages) + 1)
      /\ \A i \in DOMAIN messages : messages'[i] = messages[i]
      /\ messages'[Len(messages) + 1] = Assistant(n)
  BY Added DEF TypeOK
<1>2. Assistant(n).role = "assistant" /\ Assistant(n).calls = n /\ n \in Nat
  BY LimitsAssumption DEF Assistant
<1>3. \A i \in DOMAIN messages : messages[i].calls \in Nat
  BY CallsFact
<1> SUFFICES ASSUME NEW i \in DOMAIN messages', messages'[i].role # "tool"
             PROVE  LET end == i + messages'[i].calls IN
                    \/ /\ end < Len(messages')
                       /\ \A j \in (i + 1)..end : messages'[j].role = "tool"
                       /\ messages'[end + 1].role = "assistant"
                    \/ /\ end = Len(messages') + todo'
                       /\ \A j \in (i + 1)..Len(messages') : messages'[j].role = "tool"
  BY DEF Conversation
<1>4. CASE i = Len(messages) + 1
  BY <1>1, <1>2, <1>4
<1>5. CASE i \in DOMAIN messages
  <2> DEFINE end == i + messages[i].calls
  <2>1. messages'[i] = messages[i] /\ end \in Nat /\ i \in Nat /\ i <= end
    BY <1>1, <1>3, <1>5
  <2>2. CASE /\ end < Len(messages)
             /\ \A j \in (i + 1)..end : messages[j].role = "tool"
             /\ messages[end + 1].role = "assistant"
    <3>1. end + 1 \in DOMAIN messages /\ \A j \in (i + 1)..end : j \in DOMAIN messages
      BY <1>1, <2>1, <2>2
    <3> QED
      BY <1>1, <2>1, <2>2, <3>1
  <2>3. CASE /\ end = Len(messages)
             /\ \A j \in (i + 1)..Len(messages) : messages[j].role = "tool"
    <3>1. \A j \in (i + 1)..end : j \in DOMAIN messages
      BY <1>1, <2>1, <2>3
    <3> QED
      BY <1>1, <1>2, <2>1, <2>3, <3>1
  <2>4. end = Len(messages) + todo => end = Len(messages)
    BY <1>1, <2>1
  <2> QED
    BY <1>5, <2>1, <2>2, <2>3, <2>4 DEF Conversation
<1>6. i = Len(messages) + 1 \/ i \in DOMAIN messages
  BY <1>1
<1> QED
  BY <1>4, <1>5, <1>6

\* A tool's message goes to the last message of the model.
LEMMA ToolAdded ==
  ASSUME TypeOK, Conversation, todo > 0, NEW c, NEW r, Tool(c, r) \in Message,
         messages' = Append(messages, Tool(c, r)), todo' = todo - 1
  PROVE  Conversation'
<1>1. /\ Len(messages) \in Nat /\ Len(messages') = Len(messages) + 1
      /\ DOMAIN messages = 1..Len(messages)
      /\ DOMAIN messages' = 1..(Len(messages) + 1)
      /\ \A i \in DOMAIN messages : messages'[i] = messages[i]
      /\ messages'[Len(messages) + 1] = Tool(c, r)
  BY Added DEF TypeOK
<1>2. Tool(c, r).role = "tool" /\ todo \in Nat
  BY LimitsAssumption DEF Tool, TypeOK
<1>3. \A i \in DOMAIN messages : messages[i].calls \in Nat
  BY CallsFact
<1> SUFFICES ASSUME NEW i \in DOMAIN messages', messages'[i].role # "tool"
             PROVE  LET end == i + messages'[i].calls IN
                    \/ /\ end < Len(messages')
                       /\ \A j \in (i + 1)..end : messages'[j].role = "tool"
                       /\ messages'[end + 1].role = "assistant"
                    \/ /\ end = Len(messages') + todo'
                       /\ \A j \in (i + 1)..Len(messages') : messages'[j].role = "tool"
  BY DEF Conversation
<1>4. i \in DOMAIN messages
  BY <1>1, <1>2
<1> DEFINE end == i + messages[i].calls
<1>5. messages'[i] = messages[i] /\ end \in Nat /\ i \in Nat /\ i <= end
  BY <1>1, <1>3, <1>4
<1>6. CASE /\ end < Len(messages)
           /\ \A j \in (i + 1)..end : messages[j].role = "tool"
           /\ messages[end + 1].role = "assistant"
  <2>1. end + 1 \in DOMAIN messages /\ \A j \in (i + 1)..end : j \in DOMAIN messages
    BY <1>1, <1>5, <1>6
  <2> QED
    BY <1>1, <1>5, <1>6, <2>1
<1>7. CASE /\ end = Len(messages) + todo
           /\ \A j \in (i + 1)..Len(messages) : messages[j].role = "tool"
  <2>1. end = Len(messages') + todo'
    BY <1>1, <1>2, <1>7
  <2>2. \A j \in (i + 1)..Len(messages') :
          j = Len(messages) + 1 \/ (j \in (i + 1)..Len(messages) /\ j \in DOMAIN messages)
    BY <1>1, <1>5
  <2>3. \A j \in (i + 1)..Len(messages') : messages'[j].role = "tool"
    BY <1>1, <1>2, <1>7, <2>2
  <2> QED
    BY <1>5, <2>1, <2>3
<1> QED
  BY <1>4, <1>5, <1>6, <1>7 DEF Conversation

LEMMA ConversationNext ==
  TypeOK /\ Shape /\ AuditInv /\ Conversation /\ [Next]_vars => Conversation'
<1> SUFFICES ASSUME TypeOK, Shape, AuditInv, Conversation, [Next]_vars
             PROVE  Conversation'
  OBVIOUS
<1>1. CASE UNCHANGED <<messages, todo>>
  BY <1>1 DEF Conversation
<1>2. CASE AnswerWithTools \/ AnswerWithReport
  BY <1>2, AnswerSteps, AnswerAdded
<1>3. CASE EndOfCall /\ pc' # "failed"
  <2>1. PICK c \in {"output", "error", "empty"}, r \in {0} \cup Requests :
          CallAnswered(c, r)
    BY <1>3, CallSteps
  <2>2. /\ Tool(c, r) \in Message /\ messages' = Append(messages, Tool(c, r))
        /\ todo' = todo - 1 /\ todo \in 1..MaxCalls
    BY <1>3, <2>1, CallSteps, CallDoneFact
  <2> QED
    BY <2>2, ToolAdded
<1> QED
  BY <1>1, <1>2, <1>3, HollowFact, OtherSteps DEF vars, graphVars

\* Whenever the model is asked, the conversation is complete.
LEMMA ConversationFact == TypeOK /\ Shape /\ Conversation => ConversationComplete
<1> SUFFICES ASSUME TypeOK, Shape, Conversation, pc = "asking",
                    NEW i \in DOMAIN messages, messages[i].role # "tool"
             PROVE  LET end == i + messages[i].calls IN
                    /\ end <= Len(messages)
                    /\ \A j \in (i + 1)..end : messages[j].role = "tool"
                    /\ end < Len(messages) => messages[end + 1].role = "assistant"
  BY DEF ConversationComplete
<1>1. todo = 0 /\ i \in Nat /\ messages[i].calls \in Nat /\ Len(messages) \in Nat
  BY CallsFact DEF Shape, TypeOK
<1> QED
  BY <1>1 DEF Conversation
-----------------------------------------------------------------------------
(* The audit log. *)

\* A row is added behind the others.
LEMMA RowAdded ==
  ASSUME TypeOK, NEW e, audit' = Append(audit, e)
  PROVE  /\ Len(audit) \in Nat /\ DOMAIN audit = 1..Len(audit)
         /\ DOMAIN audit' = 1..(Len(audit) + 1)
         /\ \A i \in DOMAIN audit : audit'[i] = audit[i]
         /\ audit'[Len(audit) + 1] = e
BY DEF TypeOK

LEMMA RequestsFact == TypeOK => requests \in Nat
<1> SUFFICES ASSUME TypeOK PROVE requests \in Nat
  OBVIOUS
<1> QED
  BY DEF TypeOK, Requests

\* The row of the request under way: it becomes its only one, and nothing is known
\* of another request.
LEMMA RowsAfter ==
  ASSUME TypeOK, AuditInv, Sending, audit' = Append(audit, Row)
  PROVE  /\ Len(audit) + 1 \in DOMAIN audit'
         /\ {i \in DOMAIN audit' : audit'[i].req = requests} = {Len(audit) + 1}
         /\ \A r : r # requests =>
              {i \in DOMAIN audit' : audit'[i].req = r} = RowsOf(r)
<1>1. /\ Len(audit) \in Nat /\ DOMAIN audit = 1..Len(audit)
      /\ DOMAIN audit' = 1..(Len(audit) + 1)
      /\ \A i \in DOMAIN audit : audit'[i] = audit[i]
      /\ audit'[Len(audit) + 1] = Row
  BY RowAdded
<1>2. Row.req = requests
  BY DEF Row
<1>3. \A i \in DOMAIN audit : audit[i].req # requests
  BY DEF AuditInv, RowsOf
<1>4. \A i \in DOMAIN audit' : i \in DOMAIN audit \/ i = Len(audit) + 1
  BY <1>1
<1>5. {i \in DOMAIN audit' : audit'[i].req = requests} = {Len(audit) + 1}
  BY <1>1, <1>2, <1>3, <1>4
<1>6. ASSUME NEW r, r # requests
      PROVE  {i \in DOMAIN audit' : audit'[i].req = r} = {i \in DOMAIN audit : audit[i].req = r}
  BY <1>1, <1>2, <1>4, <1>6
<1> QED
  BY <1>1, <1>5, <1>6 DEF RowsOf

LEMMA AuditNext ==
  TypeOK /\ Shape /\ AuditInv /\ [Next]_vars => AuditInv'
<1> SUFFICES ASSUME TypeOK, Shape, AuditInv, [Next]_vars PROVE AuditInv'
  OBVIOUS
<1>0. requests \in Nat
  BY RequestsFact
<1>1. CASE /\ UNCHANGED <<audit, requests, unlogged>>
           /\ Sending' => Sending
           /\ pc' \in {"asking", "tools", "done", "failed"} =>
                pc \in {"asking", "tools", "done", "failed"}
  BY <1>1 DEF AuditInv, Settled, RowsOf
<1>2. CASE Post
  <2>1. /\ pc = "tools" /\ pc' = "posting" /\ requests' = requests + 1
        /\ UNCHANGED <<audit, unlogged>>
    BY <1>2 DEF Post
  <2>2. \A r \in 1..requests : Settled(r)
    BY <2>1 DEF Settled
  <2>3. \A i \in DOMAIN audit : audit[i].req # requests + 1
    BY <1>0 DEF AuditInv
  <2>4. RowsOf(requests)' = {} /\ requests' \notin unlogged'
    BY <1>0, <2>1, <2>3 DEF RowsOf, AuditInv
  <2>5. \A r \in 1..requests' : Settled(r)' => r \in 1..requests
    BY <1>0, <2>1 DEF Settled
  <2>6. \A r \in 1..requests : RowsOf(r)' = RowsOf(r)
    BY <2>1 DEF RowsOf
  <2> QED
    BY <1>0, <2>1, <2>2, <2>4, <2>5, <2>6 DEF AuditInv, Sending
<1>3. CASE Logged \/ Relogged
  <2>1. /\ Sending /\ audit' = Append(audit, Row) /\ UNCHANGED <<requests, unlogged>>
        /\ pc' \in {"asking", "tools", "failed"}
    BY <1>3 DEF Logged, Relogged, CallDone, CallAnswered, Sending
  <2>2. /\ Len(audit) + 1 \in DOMAIN audit'
        /\ RowsOf(requests)' = {Len(audit) + 1}
    BY <2>1, RowsAfter DEF RowsOf
  <2>3. \A r \in 1..requests : r # requests =>
          {i \in DOMAIN audit' : audit'[i].req = r} = RowsOf(r)
    BY <2>1, RowsAfter
  <2>4. \A r \in 1..requests : r # requests => RowsOf(r)' = RowsOf(r)
    BY <2>3 DEF RowsOf
  <2>5. \A i \in DOMAIN audit' : audit'[i].req \in 1..requests
    <3>1. /\ DOMAIN audit = 1..Len(audit) /\ DOMAIN audit' = 1..(Len(audit) + 1)
          /\ \A i \in DOMAIN audit : audit'[i] = audit[i]
          /\ audit'[Len(audit) + 1] = Row /\ Len(audit) \in Nat
      BY <2>1, RowAdded
    <3>2. Row.req \in 1..requests
      BY <1>0, <2>1 DEF AuditInv, Row
    <3>3. \A i \in DOMAIN audit' : i \in DOMAIN audit \/ i = Len(audit) + 1
      BY <3>1
    <3> QED
      BY <3>1, <3>2, <3>3 DEF AuditInv
  <2>6. \A r \in 1..requests : r # requests => Settled(r)
    BY <1>0 DEF Settled
  <2>7. requests \notin unlogged
    BY <2>1 DEF AuditInv
  <2>8. \A r \in 1..requests :
          IF r \in unlogged THEN RowsOf(r)' = {}
          ELSE \E i \in DOMAIN audit' : RowsOf(r)' = {i}
    <3> SUFFICES ASSUME NEW r \in 1..requests
                 PROVE  IF r \in unlogged THEN RowsOf(r)' = {}
                        ELSE \E i \in DOMAIN audit' : RowsOf(r)' = {i}
      OBVIOUS
    <3>1. CASE r = requests
      <4>1. RowsOf(r)' = {Len(audit) + 1}
        BY <2>1, <2>2, <3>1
      <4> QED
        BY <2>2, <2>7, <3>1, <4>1
    <3>2. CASE r # requests
      <4>1. \A i \in DOMAIN audit : i \in DOMAIN audit'
        BY <2>1, RowAdded
      <4> QED
        BY <2>4, <2>6, <3>2, <4>1 DEF AuditInv
    <3> QED
      BY <3>1, <3>2
  <2>9. \A r \in 1..requests' :
          IF r \in unlogged' THEN RowsOf(r)' = {}
          ELSE \E i \in DOMAIN audit' : RowsOf(r)' = {i}
    BY <2>1, <2>8
  <2>10. /\ unlogged' \subseteq 1..requests' /\ ~Sending'
         /\ \A i \in DOMAIN audit' : audit'[i].req \in 1..requests'
    BY <2>1, <2>5 DEF AuditInv, Sending
  <2> QED
    BY <2>9, <2>10 DEF AuditInv
<1>4. CASE RelogFails
  <2>1. /\ Sending /\ UNCHANGED <<audit, requests>> /\ pc' \in {"asking", "tools", "failed"}
        /\ unlogged' = unlogged \cup {requests}
    BY <1>4 DEF RelogFails, CallDone, CallAnswered, Sending
  <2>2. \A r : RowsOf(r)' = RowsOf(r)
    BY <2>1 DEF RowsOf
  <2>3. RowsOf(requests) = {} /\ requests \in 1..requests
    BY <1>0, <2>1 DEF AuditInv
  <2>4. \A r \in 1..requests : r # requests => Settled(r)
    BY <1>0 DEF Settled
  <2> QED
    BY <2>1, <2>2, <2>3, <2>4 DEF AuditInv, Sending
<1>5. CASE NotSent
  BY <1>1, <1>5 DEF NotSent, CallDone, CallAnswered, requestVars, Sending
<1> QED
  BY <1>1, <1>2, <1>3, <1>4, <1>5, HollowFact, AnswerSteps
     DEF Next, vars, requestVars, AskFails, AskMalformed, AnswerHollow, AnswerWithTools,
         AnswerWithReport, ArgumentsMalformed, AgentAnswers, PostFails, LogFails, Stop,
         Sending, Ended

LEMMA AuditFact == AuditInv => CallsAudited
<1> SUFFICES ASSUME AuditInv, NEW r \in 1..requests,
                    r < requests \/ pc \in {"asking", "tools", "done", "failed"}
             PROVE  Cardinality(RowsOf(r)) = IF r \in unlogged THEN 0 ELSE 1
  BY DEF CallsAudited
<1>1. IF r \in unlogged THEN RowsOf(r) = {} ELSE \E i \in DOMAIN audit : RowsOf(r) = {i}
  BY DEF AuditInv, Settled
<1> QED
  BY <1>1, FS_EmptySet, FS_Singleton
-----------------------------------------------------------------------------
(* What the agent said. *)

LEMMA StatusNext == TypeOK /\ AuditInv /\ StatusInv /\ [Next]_vars => StatusInv'
<1> SUFFICES ASSUME TypeOK, AuditInv, StatusInv, [Next]_vars PROVE StatusInv'
  OBVIOUS
<1> USE DEF StatusInv, Sending
<1>1. CASE UNCHANGED <<pc, status, answers, requests>>
  BY <1>1
<1>2. CASE pc' \notin {"posting", "logging", "relogging"}
  BY <1>2
<1>3. CASE Post
  BY <1>3 DEF Post
<1>4. CASE AgentAnswers
  <2>1. requests \in Requests
    BY <1>4 DEF AgentAnswers, AuditInv, TypeOK
  <2> QED
    BY <1>4, <2>1 DEF AgentAnswers, TypeOK
<1>5. CASE PostFails \/ LogFails
  BY <1>5 DEF PostFails, LogFails, requestVars
<1> QED
  BY <1>1, <1>2, <1>3, <1>4, <1>5, RouteFact
     DEF Next, vars, requestVars, AskFails, AskMalformed, AnswerHollow, AnswerWithTools,
         AnswerWithReport, ArgumentsMalformed, NotSent, Logged, Relogged, RelogFails,
         CallDone, CallAnswered, Stop

\* A row that is added says what the agent said; a success is never made up.
LEMMA OutputNext ==
  TypeOK /\ Shape /\ AuditInv /\ StatusInv /\ OutputOnRecord /\ [Next]_vars
    => OutputOnRecord'
<1> SUFFICES ASSUME TypeOK, Shape, AuditInv, StatusInv, OutputOnRecord, [Next]_vars
             PROVE  OutputOnRecord'
  OBVIOUS
<1>1. CASE UNCHANGED <<messages, audit, answers>>
  BY <1>1 DEF OutputOnRecord
<1>2. ASSUME UNCHANGED <<audit, answers>>, NEW e \in Message, e.content # "output",
             messages' = Append(messages, e)
      PROVE  OutputOnRecord'
  <2>1. \A i \in DOMAIN messages' :
          messages'[i].content = "output" =>
            i \in DOMAIN messages /\ messages'[i] = messages[i]
    <3>1. /\ DOMAIN messages = 1..Len(messages)
          /\ DOMAIN messages' = 1..(Len(messages) + 1) /\ Len(messages) \in Nat
          /\ \A i \in DOMAIN messages : messages'[i] = messages[i]
          /\ messages'[Len(messages) + 1] = e
      BY <1>2, Added DEF TypeOK
    <3> QED
      BY <1>2, <3>1
  <2> QED
    BY <1>2, <2>1 DEF OutputOnRecord
<1>3. CASE AnswerWithTools \/ AnswerWithReport
  <2>1. PICK n \in 0..MaxCalls : /\ messages' = Append(messages, Assistant(n))
                                 /\ Assistant(n) \in Message
    BY <1>3, AnswerSteps
  <2>2. Assistant(n).content # "output"
    BY DEF Assistant
  <2>3. UNCHANGED <<audit, answers>>
    BY <1>3 DEF AnswerWithTools, AnswerWithReport, requestVars
  <2> QED
    BY <1>2, <2>1, <2>2, <2>3
<1>4. CASE (NotSent \/ RelogFails) /\ pc' # "failed"
  <2>1. PICK c \in {"empty", "error"}, r \in {0} \cup Requests : CallAnswered(c, r)
    BY <1>4 DEF NotSent, RelogFails, CallDone, TypeOK
  <2>2. messages' = Append(messages, Tool(c, r)) /\ Tool(c, r) \in Message
    BY <1>4, <2>1, CallDoneFact DEF NotSent, RelogFails
  <2>3. Tool(c, r).content # "output"
    BY DEF Tool
  <2>4. UNCHANGED <<audit, answers>>
    BY <1>4 DEF NotSent, RelogFails, requestVars
  <2> QED
    BY <1>2, <2>2, <2>3, <2>4
<1>5. CASE AgentAnswers
  <2>1. /\ UNCHANGED <<messages, audit>>
        /\ \A r \in Requests : r # requests => answers'[r] = answers[r]
    BY <1>5 DEF AgentAnswers, graphVars, TypeOK
  <2>2. \A j \in DOMAIN audit : audit[j].req # requests
    BY <1>5 DEF AgentAnswers, AuditInv, RowsOf, Sending
  <2>3. \A j \in DOMAIN audit : audit[j].req \in Requests
    <3> DEFINE Rows == [req : Requests, status : Statuses]
    <3>1. audit \in Seq(Rows)
      BY DEF TypeOK
    <3>2. \A row \in Rows : row.req \in Requests
      OBVIOUS
    <3> HIDE DEF Rows
    <3>3. \A j \in DOMAIN audit : audit[j] \in Rows
      BY <3>1
    <3> QED
      BY <3>2, <3>3
  <2>4. \A j \in DOMAIN audit : answers'[audit[j].req] = answers[audit[j].req]
    BY <2>1, <2>2, <2>3
  <2> QED
    BY <2>1, <2>4 DEF OutputOnRecord
<1>6. CASE Logged \/ Relogged
  <2>1. PICK c \in {"output", "error"} :
          /\ CallDone(c, requests)
          /\ c = "output" => pc = "logging"
          /\ pc \in {"logging", "relogging"}
          /\ audit' = Append(audit, Row) /\ UNCHANGED answers
    BY <1>6 DEF Logged, Relogged
  <2>2. requests \in {0} \cup Requests
    BY DEF TypeOK
  <2>3. \/ messages' = Append(messages, Tool(c, requests)) /\ Tool(c, requests) \in Message
        \/ messages' = messages
    BY <2>1, <2>2, CallDoneFact DEF CallDone, graphVars
  <2>4. /\ Len(audit) + 1 \in DOMAIN audit' /\ audit'[Len(audit) + 1] = Row
        /\ \A j \in DOMAIN audit : j \in DOMAIN audit' /\ audit'[j] = audit[j]
        /\ \A j \in DOMAIN audit' : j \in DOMAIN audit \/ j = Len(audit) + 1
    BY <2>1, RowAdded
  <2>5. \A i \in DOMAIN messages' :
          \/ i \in DOMAIN messages /\ messages'[i] = messages[i]
          \/ messages'[i] = Tool(c, requests)
    <3>1. CASE messages' = messages
      BY <3>1
    <3>2. CASE messages' = Append(messages, Tool(c, requests)) /\ Tool(c, requests) \in Message
      BY <3>2, Added DEF TypeOK
    <3> QED
      BY <2>3, <3>1, <3>2
  <2>6. Row.req = requests /\ Row.status = status
    BY DEF Row
  <2>7. Tool(c, requests).content = c /\ Tool(c, requests).req = requests
    BY DEF Tool
  <2>8. /\ pc = "logging" => status = answers[requests]
        /\ status = "success" => answers[requests] = "success"
    BY <2>1 DEF StatusInv, Sending
  <2>9. \A j \in DOMAIN audit' :
          audit'[j].status = "success" => answers'[audit'[j].req] = "success"
    BY <2>1, <2>4, <2>6, <2>8 DEF OutputOnRecord
  <2>10. ASSUME NEW i \in DOMAIN messages', messages'[i].content = "output"
         PROVE  \E j \in DOMAIN audit' : /\ audit'[j].req = messages'[i].req
                                         /\ audit'[j].status = answers'[audit'[j].req]
    <3>1. CASE i \in DOMAIN messages /\ messages'[i] = messages[i]
      BY <2>1, <2>4, <2>10, <3>1 DEF OutputOnRecord
    <3>2. CASE messages'[i] = Tool(c, requests)
      BY <2>1, <2>4, <2>6, <2>7, <2>8, <2>10, <3>2
    <3> QED
      BY <2>5, <2>10, <3>1, <3>2
  <2> QED
    BY <2>9, <2>10 DEF OutputOnRecord
<1> QED
  BY <1>1, <1>3, <1>4, <1>5, <1>6
     DEF Next, vars, graphVars, requestVars, AskFails, AskMalformed, AnswerHollow,
         ArgumentsMalformed, Post, PostFails, LogFails, Stop, NotSent, RelogFails, CallDone,
         CallAnswered
-----------------------------------------------------------------------------
(* The verdict and the cost. *)

LEMMA NoSeverityFact == NoSeverity \notin Severities
BY Zenon DEF NoSeverity, Severities

LEMMA VerdictNext ==
  TypeOK /\ Shape /\ VerdictComplete /\ [Next]_vars => VerdictComplete'
<1> SUFFICES ASSUME TypeOK, Shape, VerdictComplete, [Next]_vars, pc' = "done"
             PROVE  VerdictComplete'
  BY DEF VerdictComplete
<1>1. CASE UNCHANGED vars
  BY <1>1 DEF VerdictComplete, vars, graphVars
<1>2. CASE AnswerHollow
  <2>1. /\ severity' = NoSeverity /\ messages' = messages
        /\ Last(messages).calls = 0 /\ Last(messages).role # "assistant"
    BY <1>2, HollowFact DEF Shape
  <2> QED
    BY <2>1 DEF VerdictComplete
<1>3. CASE AnswerWithTools \/ AnswerWithReport
  <2>1. PICK n \in 0..MaxCalls :
          /\ pc = "asking" /\ iterations' = iterations + 1 /\ todo' = n
          /\ Last(messages') = Assistant(n)
          /\ pc' = IF iterations + 1 < MaxIterations /\ n > 0 THEN "tools" ELSE "done"
          /\ n = 0 <=> AnswerWithReport
    BY <1>3, AnswerSteps
  <2>2. CASE n = 0
    <3>1. severity' \in Severities
      BY <2>1, <2>2 DEF AnswerWithReport
    <3> QED
      BY <2>1, <2>2, <3>1, NoSeverityFact DEF VerdictComplete
  <2>3. CASE n # 0
    <3>1. severity' = NoSeverity
      BY <1>3, <2>1, <2>3 DEF AnswerWithTools, Shape
    <3>2. n > 0 /\ iterations < MaxIterations /\ iterations \in Nat
      BY <2>1, <2>3, LimitsAssumption DEF Shape, TypeOK
    <3>3. iterations' = MaxIterations
      BY <2>1, <3>2, LimitsAssumption
    <3>4. Last(messages').calls > 0
      BY <2>1, <3>2 DEF Assistant
    <3> QED
      BY <3>1, <3>3, <3>4 DEF VerdictComplete
  <2> QED
    BY <2>2, <2>3
<1>4. CASE EndOfCall /\ pc' # "failed"
  BY <1>4 DEF EndOfCall, NotSent, Logged, Relogged, RelogFails, CallDone, CallAnswered
<1> QED
  BY <1>1, <1>2, <1>3, <1>4, OtherSteps

LEMMA CostNext ==
  TypeOK /\ Shape /\ AuditInv /\ CostInv /\ CostBounded /\ [Next]_vars
    => CostInv' /\ CostBounded'
<1> SUFFICES ASSUME TypeOK, Shape, AuditInv, CostInv, CostBounded, [Next]_vars
             PROVE  CostInv' /\ CostBounded'
  OBVIOUS
<1>0. /\ requests \in Nat /\ posts \in Nat /\ iterations \in Nat /\ todo \in 0..MaxCalls
      /\ attempt \in 1..MaxAttempts /\ MaxCalls \in Nat /\ MaxAttempts \in Nat
  BY RequestsFact, LimitsAssumption DEF TypeOK
<1>1. CASE UNCHANGED vars
  BY <1>1 DEF CostInv, CostBounded, Working, Sending, vars, graphVars, requestVars
<1>2. CASE pc' \in Ended /\ UNCHANGED <<posts, requests>>
  BY <1>2 DEF CostInv, CostBounded, Working, Ended
<1>3. CASE AskFails
  <2>1. CASE attempt < MaxAttempts
    <3>1. /\ pc = "asking" /\ pc' = "asking" /\ attempt' = attempt + 1
          /\ posts' = posts + 1 /\ UNCHANGED <<iterations, requests>>
      BY <1>3, <2>1 DEF AskFails, graphVars, requestVars
    <3>2. /\ posts <= iterations * MaxAttempts + attempt
          /\ requests <= iterations * MaxCalls /\ iterations * MaxCalls \in Nat
          /\ iterations * MaxAttempts \in Nat
      BY <1>0, <3>1, Room DEF CostInv, Working, Sending
    <3>3. posts' <= MaxIterations * MaxAttempts
      BY <1>0, <2>1, <3>1, <3>2, Room
    <3> QED
      BY <1>0, <3>1, <3>2, <3>3 DEF CostInv, CostBounded, Working, Sending
  <2>2. CASE ~(attempt < MaxAttempts)
    BY <1>2, <1>3, <2>2 DEF AskFails, requestVars, Ended
  <2> QED
    BY <2>1, <2>2
<1>4. CASE AnswerWithTools \/ AnswerWithReport
  <2>1. PICK n \in 0..MaxCalls :
          /\ pc = "asking" /\ iterations' = iterations + 1 /\ todo' = n
          /\ pc' = IF iterations + 1 < MaxIterations /\ n > 0 THEN "tools" ELSE "done"
    BY <1>4, AnswerSteps
  <2>2. UNCHANGED <<posts, requests>>
    BY <1>4 DEF AnswerWithTools, AnswerWithReport, requestVars
  <2>3. CASE pc' = "done"
    BY <1>2, <2>2, <2>3 DEF Ended
  <2>4. CASE pc' = "tools"
    <3>1. /\ posts <= iterations * MaxAttempts + attempt
          /\ requests <= iterations * MaxCalls
      BY <1>0, <2>1, Room DEF CostInv, Working, Sending
    <3>2. /\ posts' <= iterations' * MaxAttempts
          /\ requests' <= iterations' * MaxCalls - todo'
      BY <1>0, <2>1, <2>2, <3>1, Room
    <3>3. /\ iterations' * MaxAttempts \in Int /\ iterations' * MaxCalls \in Int
          /\ todo' \in Int
      BY <1>0, <2>1, Room
    <3> QED
      BY <1>0, <2>2, <2>4, <3>2, <3>3 DEF CostInv, CostBounded, Working, Sending
  <2> QED
    BY <2>1, <2>3, <2>4
<1>5. CASE EndOfCall /\ pc' # "failed"
  <2>1. PICK c \in {"output", "error", "empty"}, r \in {0} \cup Requests :
          CallAnswered(c, r)
    BY <1>5, CallSteps
  <2>2. /\ todo' = todo - 1 /\ todo \in 1..MaxCalls
        /\ pc \in {"tools", "logging", "relogging"} /\ UNCHANGED <<iterations, requests>>
    BY <1>5, <2>1, CallSteps, CallDoneFact 
       DEF EndOfCall, NotSent, Logged, Relogged, RelogFails, requestVars
  <2>3. IF todo = 1 THEN pc' = "asking" /\ attempt' = 1 /\ posts' = posts + 1
                    ELSE pc' = "tools" /\ posts' = posts
    BY <2>1 DEF CallAnswered
  <2>4. /\ iterations * MaxAttempts \in Nat /\ iterations * MaxCalls \in Nat
        /\ iterations * MaxAttempts + MaxAttempts <= MaxIterations * MaxAttempts
        /\ MaxIterations * MaxAttempts \in Nat
    BY <2>2, Room DEF Working
  <2>5. /\ posts <= iterations * MaxAttempts
        /\ requests <= iterations * MaxCalls - todo + 1
    BY <1>0, <2>2, <2>4 DEF CostInv, Working, Sending
  <2>6. requests <= iterations * MaxCalls - todo + 1
    BY <2>5
  <2>7. CASE todo = 1
    <3>1. posts' <= MaxIterations * MaxAttempts
      BY <1>0, <2>3, <2>4, <2>5, <2>7
    <3>2. posts' <= iterations * MaxAttempts + 1 /\ requests' <= iterations * MaxCalls
      BY <1>0, <2>2, <2>3, <2>4, <2>5, <2>7
    <3> QED
      BY <1>0, <2>2, <2>3, <2>4, <2>7, <3>1, <3>2
         DEF CostInv, CostBounded, Working, Sending
  <2>8. CASE todo # 1
    <3>1. posts' <= iterations * MaxAttempts /\ requests' <= iterations * MaxCalls - todo'
      BY <1>0, <2>2, <2>3, <2>4, <2>5, <2>8
    <3> QED
      BY <1>0, <2>2, <2>3, <2>4, <2>8, <3>1 DEF CostInv, CostBounded, Working, Sending
  <2> QED
    BY <2>7, <2>8
<1>6. CASE Post
  <2>1. /\ pc = "tools" /\ pc' = "posting" /\ requests' = requests + 1
        /\ UNCHANGED <<posts, iterations, todo>>
    BY <1>6 DEF Post, graphVars
  <2>2. requests + 1 <= (MaxIterations - 1) * MaxCalls
    BY <2>1, RequestFact
  <2>3. iterations * MaxAttempts \in Nat /\ iterations * MaxCalls \in Nat
    BY <2>1, Room DEF Working
  <2> QED
    BY <1>0, <2>1, <2>2, <2>3 DEF CostInv, CostBounded, Working, Sending
<1>7. CASE AgentAnswers \/ PostFails \/ LogFails
  <2>1. Sending /\ Sending' /\ UNCHANGED <<posts, requests, iterations, todo>>
    BY <1>7 DEF AgentAnswers, PostFails, LogFails, graphVars, requestVars, Sending
  <2> QED
    BY <2>1 DEF CostInv, CostBounded, Working, Sending
<1>8. CASE AskMalformed \/ AnswerHollow \/ ArgumentsMalformed \/ Stop
  BY <1>2, <1>8, HollowFact
     DEF AskMalformed, AnswerHollow, ArgumentsMalformed, Stop, requestVars, Ended
<1>9. CASE EndOfCall /\ pc' = "failed"
  <2>1. UNCHANGED requests
    BY <1>9 DEF EndOfCall, NotSent, Logged, Relogged, RelogFails, requestVars
  <2> QED
    BY <1>2, <1>9, <2>1, NoIdFact DEF Ended
<1> QED
  BY <1>1, <1>3, <1>4, <1>5, <1>6, <1>7, <1>8, <1>9 DEF Next, EndOfCall
-----------------------------------------------------------------------------
(* The invariant holds from the start and is kept by every step. *)

LEMMA InvInit == Init => IInv
<1> SUFFICES ASSUME Init PROVE IInv
  OBVIOUS
<1>1. TypeOK /\ Shape
  BY TypeInit, ShapeInit
<1>2. /\ messages = <<System>> /\ audit = <<>> /\ pc = "asking" /\ todo = 0
      /\ requests = 0 /\ unlogged = {} /\ iterations = 0 /\ posts = 1 /\ attempt = 1
  BY DEF Init
<1>3. Conversation
  <2>1. System.calls = 0 /\ Len(messages) = 1 /\ messages[1] = System /\ DOMAIN messages = {1}
    BY <1>2 DEF System
  <2> QED
    BY <1>2, <2>1 DEF Conversation
<1>4. AuditInv /\ StatusInv
  BY <1>2 DEF AuditInv, StatusInv, Settled, Sending
<1>5. OutputOnRecord
  <2>1. System.content = "text" /\ messages[1] = System /\ DOMAIN messages = {1}
    BY <1>2 DEF System
  <2> QED
    BY <1>2, <2>1 DEF OutputOnRecord
<1>6. VerdictComplete
  BY <1>2 DEF VerdictComplete
<1>7. CostInv /\ CostBounded
  <2>1. /\ 0 * MaxAttempts = 0 /\ 0 * MaxCalls = 0
        /\ (MaxIterations - 1) * MaxCalls \in Nat
        /\ iterations * MaxAttempts + MaxAttempts <= MaxIterations * MaxAttempts
    BY <1>1, <1>2, Room, LimitsAssumption
  <2> QED
    BY <1>2, <2>1, LimitsAssumption DEF CostInv, CostBounded, Working, Sending
<1> QED
  BY <1>1, <1>3, <1>4, <1>5, <1>6, <1>7 DEF IInv

LEMMA InvNext == IInv /\ [Next]_vars => IInv'
BY TypeNext, ShapeNext, ConversationNext, AuditNext, StatusNext, OutputNext, VerdictNext,
   CostNext DEF IInv

LEMMA InvAlways == Spec => []IInv
BY InvInit, InvNext, PTL DEF Spec

\* Every variable has its type, in every analysis.
THEOREM TypeCorrect == Spec => []TypeOK
<1>1. IInv => TypeOK
  BY DEF IInv
<1> QED
  BY <1>1, InvAlways, PTL

\* The model is only asked with a conversation its API accepts, whichever tool calls
\* are refused, fail or cannot be audited (analyzer.py:execute_tools).
THEOREM AskedInOrder == Spec => []ConversationComplete
<1>1. IInv => ConversationComplete
  BY ConversationFact DEF IInv
<1> QED
  BY <1>1, InvAlways, PTL

\* A request to the agent has exactly one audit row, unless the database refused
\* it twice (tool_dispatcher.py:dispatch).
THEOREM EveryCallAudited == Spec => []CallsAudited
<1>1. IInv => CallsAudited
  BY AuditFact DEF IInv
<1> QED
  BY <1>1, InvAlways, PTL

\* Output the model reads is on record with the status the agent gave, and no row
\* makes up a success.
THEOREM OutputsOnRecord == Spec => []OutputOnRecord
<1>1. IInv => OutputOnRecord
  BY DEF IInv
<1> QED
  BY <1>1, InvAlways, PTL

\* An analysis ends with a severity only after all its tools, and without one only
\* when it ran out of answers or got none (analyzer.py:route_next_step).
THEOREM VerdictsComplete == Spec => []VerdictComplete
<1>1. IInv => VerdictComplete
  BY DEF IInv
<1> QED
  BY <1>1, InvAlways, PTL

\* The iterations of the graph and the retries of the client bound what an analysis
\* costs, in requests to the model and to the node.
THEOREM CostIsBounded == Spec => []CostBounded
<1>1. IInv => CostBounded
  BY DEF IInv
<1> QED
  BY <1>1, InvAlways, PTL
-----------------------------------------------------------------------------
(* The analysis ends. *)

\* What AlwaysNearerToEnd says of a step.
Nearer ==
  \/ iterations' > iterations
  \/ iterations' = iterations /\ todo' < todo
  \/ iterations' = iterations /\ todo' = todo /\ Effort' < Effort

\* A step that is neither an answer nor the end of a call brings the answer or the call
\* under way nearer to its end.
LEMMA LessEffort ==
  ASSUME TypeOK,
         AskFails \/ AskMalformed \/ ArgumentsMalformed \/ Post \/ AgentAnswers
           \/ PostFails \/ LogFails \/ Stop
  PROVE  UNCHANGED graphVars /\ Effort' < Effort
<1>1. attempt \in 1..MaxAttempts /\ MaxAttempts \in Nat
  BY LimitsAssumption DEF TypeOK
<1>2. CASE AskFails
  BY <1>1, <1>2 DEF AskFails, Effort, Ended
<1>3. CASE AskMalformed
  BY <1>1, <1>3 DEF AskMalformed, Effort, Ended
<1>4. CASE ArgumentsMalformed \/ Post
  BY <1>4 DEF ArgumentsMalformed, Post, Effort, Ended
<1>5. CASE AgentAnswers \/ PostFails \/ LogFails
  BY <1>5 DEF AgentAnswers, PostFails, LogFails, Effort, Ended
<1>6. CASE Stop
  <2>1. pc' = "stopped" /\ UNCHANGED graphVars
    BY <1>6 DEF Stop
  <2>2. pc \in {"asking", "tools", "posting", "logging", "relogging"}
    BY <1>6 DEF Stop, TypeOK
  <2> QED
    BY <1>1, <2>1, <2>2 DEF Effort, Ended
<1> QED
  BY <1>2, <1>3, <1>4, <1>5, <1>6

LEMMA NearerNext == IInv /\ [Next]_vars => [Nearer]_vars
<1> SUFFICES ASSUME IInv, Next PROVE Nearer
  OBVIOUS
<1>0. TypeOK /\ Shape /\ AuditInv /\ iterations \in Nat
  BY LimitsAssumption DEF IInv, TypeOK
<1>1. CASE AnswerWithTools \/ AnswerWithReport \/ AnswerHollow
  <2>1. iterations' = iterations + 1
    BY <1>1 DEF AnswerWithTools, AnswerWithReport, AnswerHollow
  <2> QED
    BY <1>0, <2>1 DEF Nearer
<1>2. CASE EndOfCall /\ pc' # "failed"
  <2>1. PICK c \in {"output", "error", "empty"}, r \in {0} \cup Requests :
          CallAnswered(c, r)
    BY <1>0, <1>2, CallSteps
  <2>2. pc \in {"tools", "logging", "relogging"}
    BY <1>0, <1>2, CallSteps
  <2>3. todo' = todo - 1 /\ todo \in 1..MaxCalls /\ iterations' = iterations
    BY <1>0, <2>1, <2>2, CallDoneFact
  <2>4. todo' < todo
    BY <2>3, LimitsAssumption
  <2> QED
    BY <2>3, <2>4 DEF Nearer
<1>3. CASE AskFails \/ AskMalformed \/ ArgumentsMalformed \/ Post \/ AgentAnswers
           \/ PostFails \/ LogFails \/ Stop
  BY <1>0, <1>3, LessEffort DEF Nearer, graphVars
<1>4. CASE EndOfCall /\ pc' = "failed"
  BY <1>4, NoIdFact DEF Nearer, graphVars, Effort, Ended
<1> QED
  BY <1>1, <1>2, <1>3, <1>4 DEF Next, EndOfCall

\* Whatever fails and is tried again, each step brings the analysis nearer to its end in a
\* well-founded order (analyzer.py:route_next_step, llm_client.py:chat_completion).
THEOREM AnalysisEnds == Spec => AlwaysNearerToEnd
<1>1. Spec => [][Nearer]_vars
  BY NearerNext, InvAlways, PTL DEF Spec
<1> QED
  BY <1>1 DEF AlwaysNearerToEnd, Nearer
=============================================================================
