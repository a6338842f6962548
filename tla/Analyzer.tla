------------------------------- MODULE Analyzer -------------------------------
(***************************************************************************)
(* One analysis of a node's logs at the controller: the graph that asks    *)
(* the model, runs the tools it requests on the node, and asks again.      *)
(*                                                                         *)
(*   controller/core/analyzer.py         the graph                         *)
(*   controller/services/llm_client.py   retries with back-off             *)
(*   controller/core/tool_dispatcher.py  one tool call and its audit row   *)
(*   controller/core/tool_validator.py   parameters of a call              *)
(*   controller/core/rate_limiter.py     refuses a call (TokenBucket)      *)
(*                                                                         *)
(* A conversation is kept with what the model API requires of it, who      *)
(* speaks and how many tool calls a message makes; of a tool's result, only *)
(* whether it is the agent's output, an error text or the empty object.    *)
(***************************************************************************)
EXTENDS Integers, Sequences, FiniteSets

CONSTANTS
  MaxIterations,  \* answers of the model per analysis (3)
  MaxAttempts,    \* HTTP requests per answer (3)
  MaxCalls        \* bound: tool calls in one answer

ASSUME LimitsAssumption ==
  /\ MaxIterations \in Nat \ {0}
  /\ MaxAttempts \in Nat \ {0}
  /\ MaxCalls \in Nat \ {0}

Severities == {"INFO", "WARNING", "ERROR", "CRITICAL"}
NoSeverity == ""

VARIABLES
  pc,          \* where the analysis stands
  iterations,  \* state["iterations"]
  attempt,     \* attempt of chat_completion, from 1
  messages,    \* state["messages"]
  severity,    \* state["severity"], NoSeverity at first; final_report is set with it
  todo,        \* tool calls of the last answer not done with yet
  status,      \* status of the request under way, for its audit row
  audit,       \* rows of audit_logs, in the order they were committed
  \* History.
  requests,    \* requests sent to the agent
  answers,     \* status the agent gave, by request
  unlogged,    \* requests whose row the database refused twice
  posts        \* HTTP requests sent to the model

graphVars   == <<iterations, messages, severity, todo>>
requestVars == <<status, audit, requests, answers, unlogged>>
vars == <<pc, attempt, graphVars, requestVars, posts>>

Requests == 1..(MaxIterations * MaxCalls)
Statuses == {"success", "error"}
Ended    == {"done", "failed", "stopped"}

Message == [role : {"system", "assistant", "tool"}, calls : 0..MaxCalls,
            content : {"text", "output", "error", "empty"}, req : {0} \cup Requests]

System       == [role |-> "system", calls |-> 0, content |-> "text", req |-> 0]
Assistant(n) == [role |-> "assistant", calls |-> n, content |-> "text", req |-> 0]
Tool(c, r)   == [role |-> "tool", calls |-> 0, content |-> c, req |-> r]

TypeOK ==
  /\ pc \in {"asking", "tools", "posting", "logging", "relogging"} \cup Ended
  /\ iterations \in 0..MaxIterations
  /\ attempt \in 1..MaxAttempts
  /\ messages \in Seq(Message)
  /\ severity \in Severities \cup {NoSeverity}
  /\ todo \in 0..MaxCalls
  /\ status \in Statuses
  /\ audit \in Seq([req : Requests, status : Statuses])
  /\ requests \in {0} \cup Requests
  /\ answers \in [Requests -> Statuses \cup {"none"}]
  /\ unlogged \in SUBSET Requests
  /\ posts \in Nat

\* initialize_analysis, and the first request.
Init ==
  /\ pc = "asking" /\ iterations = 0 /\ attempt = 1
  /\ messages = <<System>>
  /\ severity = NoSeverity /\ todo = 0
  /\ status = "error" /\ audit = <<>>
  /\ requests = 0 /\ unlogged = {}
  /\ answers = [r \in Requests |-> "none"]
  /\ posts = 1
-----------------------------------------------------------------------------
(* chat_completion and analyze_logs. *)

\* An HTTP error or a time-out: back off and try again, at most MaxAttempts times.
\* The last one ends the analysis with an exception.
AskFails ==
  /\ pc = "asking"
  /\ IF attempt < MaxAttempts
     THEN attempt' = attempt + 1 /\ posts' = posts + 1 /\ UNCHANGED pc
     ELSE pc' = "failed" /\ UNCHANGED <<attempt, posts>>
  /\ UNCHANGED <<graphVars, requestVars>>

\* A body that is not JSON, a message without the expected fields, or a content of
\* null: exceptions that are not retried.
AskMalformed ==
  /\ pc = "asking"
  /\ pc' = "failed"
  /\ UNCHANGED <<attempt, graphVars, requestVars, posts>>

Last(s) == s[Len(s)]

\* One answer too late.
BuggyRoute(n, msgs) ==
  IF n > MaxIterations THEN "done"
  ELSE IF Last(msgs).calls > 0 THEN "tools" ELSE "done"

\* One answer too early.
BuggyRouteEarly(n, msgs) ==
  IF n >= MaxIterations - 1 THEN "done"
  ELSE IF Last(msgs).calls > 0 THEN "tools" ELSE "done"

\* route_next_step: the count comes first, so that tool calls of the last answer
\* are dropped.
Route(n, msgs) ==
  IF n >= MaxIterations THEN "done"
  ELSE IF Last(msgs).calls > 0 THEN "tools" ELSE "done"

\* "choices" is missing or empty: the conversation stays as it is.
AnswerHollow ==
  /\ pc = "asking"
  /\ iterations' = iterations + 1
  /\ pc' = Route(iterations', messages)
  /\ UNCHANGED <<attempt, messages, severity, todo, requestVars, posts>>

AnswerWithTools ==
  /\ pc = "asking"
  /\ \E n \in 1..MaxCalls :
       /\ messages' = Append(messages, Assistant(n))
       /\ todo' = n
  /\ iterations' = iterations + 1
  /\ pc' = Route(iterations', messages')
  /\ UNCHANGED <<attempt, severity, requestVars, posts>>

\* The severity is that of the first SEVERITY line, WARNING without a proper one.
AnswerWithReport ==
  /\ pc = "asking"
  /\ severity' \in Severities
  /\ messages' = Append(messages, Assistant(0))
  /\ iterations' = iterations + 1
  /\ pc' = Route(iterations', messages')
  /\ UNCHANGED <<attempt, todo, requestVars, posts>>
-----------------------------------------------------------------------------
(* execute_tools and dispatch. *)

\* The message of a call is added, and the model is asked again after the last one.
CallAnswered(content, r) ==
  /\ messages' = Append(messages, Tool(content, r))
  /\ todo' = todo - 1
  /\ IF todo = 1 THEN pc' = "asking" /\ attempt' = 1 /\ posts' = posts + 1
                 ELSE pc' = "tools" /\ UNCHANGED <<attempt, posts>>
  /\ UNCHANGED <<iterations, severity>>

\* A call is done with, and its message is added; if the model gave the call no id,
\* that raises a KeyError outside the try, whatever the call has done.
CallDone(content, r) ==
  \/ CallAnswered(content, r)
  \/ pc' = "failed" /\ UNCHANGED <<attempt, graphVars, posts>>

\* The arguments are not JSON: json.loads stands outside the try.
ArgumentsMalformed ==
  /\ pc = "tools"
  /\ pc' = "failed"
  /\ UNCHANGED <<attempt, graphVars, requestVars, posts>>

\* A refused call gets no message.
BuggyNotSent ==
  /\ pc = "tools"
  /\ todo' = todo - 1
  /\ IF todo = 1 THEN pc' = "asking" /\ attempt' = 1 /\ posts' = posts + 1
                 ELSE pc' = "tools" /\ UNCHANGED <<attempt, posts>>
  /\ UNCHANGED <<iterations, severity, messages, requestVars>>

\* Rate-limited: the dispatcher returns no "result", and the model reads "{}".
\* Not valid, or not permitted: it reads the error.  Neither leaves an audit row.
NotSent ==
  /\ pc = "tools"
  /\ \E c \in {"empty", "error"} : CallDone(c, 0)
  /\ UNCHANGED requestVars

Post ==
  /\ pc = "tools"
  /\ pc' = "posting"
  /\ requests' = requests + 1 /\ status' = "error"
  /\ UNCHANGED <<attempt, graphVars, audit, answers, unlogged, posts>>

AgentAnswers ==
  /\ pc = "posting"
  /\ pc' = "logging"
  /\ status' \in Statuses
  /\ answers' = [answers EXCEPT ![requests] = status']
  /\ UNCHANGED <<attempt, graphVars, audit, requests, unlogged, posts>>

\* The call is made again.
BuggyPostFails ==
  /\ pc = "posting"
  /\ pc' = "tools"
  /\ UNCHANGED <<attempt, graphVars, requestVars, posts>>

\* Not sent, refused with an HTTP status, or not answered within 35 s; in the last
\* case the command may have run.
PostFails ==
  /\ pc = "posting"
  /\ pc' = "relogging"
  /\ UNCHANGED <<attempt, graphVars, requestVars, posts>>

Row == [req |-> requests, status |-> status]

Logged ==
  /\ pc = "logging"
  /\ audit' = Append(audit, Row)
  /\ CallDone("output", requests)
  /\ UNCHANGED <<status, requests, answers, unlogged>>

\* The result is used although its row is missing.
BuggyLogFails ==
  /\ pc = "logging"
  /\ unlogged' = unlogged \cup {requests}
  /\ CallDone("output", requests)
  /\ UNCHANGED <<status, audit, requests, answers>>

\* The commit of the row fails, and its exception is handled like one of the
\* request: a second row, with the status the agent gave.
LogFails ==
  /\ pc = "logging"
  /\ pc' = "relogging"
  /\ UNCHANGED <<attempt, graphVars, requestVars, posts>>

\* Failed requests leave no row.
BuggyRelogged ==
  /\ pc = "relogging"
  /\ CallDone("error", requests)
  /\ UNCHANGED requestVars

\* The exception is raised again, and the model reads it.
Relogged ==
  /\ pc = "relogging"
  /\ audit' = Append(audit, Row)
  /\ CallDone("error", requests)
  /\ UNCHANGED <<status, requests, answers, unlogged>>

RelogFails ==
  /\ pc = "relogging"
  /\ unlogged' = unlogged \cup {requests}
  /\ CallDone("error", requests)
  /\ UNCHANGED <<status, audit, requests, answers>>

\* The process is killed, or the task cancelled at shutdown: CancelledError is no
\* Exception and passes the handlers.
Stop ==
  /\ pc \notin Ended
  /\ pc' = "stopped"
  /\ UNCHANGED <<attempt, graphVars, requestVars, posts>>

Next ==
  \/ AskFails \/ AskMalformed \/ AnswerHollow \/ AnswerWithTools \/ AnswerWithReport
  \/ ArgumentsMalformed \/ NotSent \/ Post \/ AgentAnswers \/ PostFails
  \/ Logged \/ LogFails \/ Relogged \/ RelogFails \/ Stop

Spec == Init /\ [][Next]_vars
-----------------------------------------------------------------------------
(* Properties. *)

\* Whenever the model is asked, each of its tool calls has its one answer, right
\* behind the message that made it and before the next one: an API that
\* rejects anything else (a 400 is an HTTP error) never has a reason to, whichever
\* calls were refused, failed or not audited.
ConversationComplete ==
  pc = "asking" =>
    \A i \in DOMAIN messages :
      LET end == i + messages[i].calls IN
      messages[i].role # "tool" =>
        /\ end <= Len(messages)
        /\ \A j \in (i + 1)..end : messages[j].role = "tool"
        /\ end < Len(messages) => messages[end + 1].role = "assistant"

\* The rows of a request.
RowsOf(r) == {i \in DOMAIN audit : audit[i].req = r}

\* Every request that was sent and is done with has exactly one row, unless the
\* database refused it twice or the controller stopped: the handler that logs
\* again after a failed commit neither repeats nor drops a row.
CallsAudited ==
  \A r \in 1..requests :
    r < requests \/ pc \in {"asking", "tools", "done", "failed"} =>
      Cardinality(RowsOf(r)) = IF r \in unlogged THEN 0 ELSE 1

\* What the model reads as the output of a tool is on record with the status
\* the agent gave, and no row claims a success the agent did not report.
OutputOnRecord ==
  /\ \A i \in DOMAIN messages : messages[i].content = "output" =>
       \E j \in DOMAIN audit :
         /\ audit[j].req = messages[i].req
         /\ audit[j].status = answers[audit[j].req]
  /\ \A j \in DOMAIN audit :
       audit[j].status = "success" => answers[audit[j].req] = "success"

\* An analysis that ends with a severity has seen the results of all tools it asked
\* for; it ends without one, and then no alert is sent, only when the model
\* used its last answer for tools, or returned no choice.  (That its third answer is
\* the last, and may not be used for tools, is not what the model is told: see
\* ToolsThreeTimes.)
VerdictComplete ==
  pc = "done" =>
    IF severity # NoSeverity THEN todo = 0 /\ Last(messages) = Assistant(0)
    ELSE \/ iterations = MaxIterations /\ Last(messages).calls > 0
         \/ Last(messages).calls = 0 /\ Last(messages).role # "assistant"

\* The model is sent at most MaxIterations * MaxAttempts requests, and the node at
\* most the calls of all answers but the last, whatever fails and is retried.
CostBounded ==
  /\ posts <= MaxIterations * MaxAttempts
  /\ requests <= (MaxIterations - 1) * MaxCalls

\* What is left to do for the answer, or for the tool call, under way.
Effort ==
  IF pc = "asking" THEN MaxAttempts + 1 - attempt
  ELSE IF pc \in Ended THEN 0
  ELSE [tools |-> 4, posting |-> 3, logging |-> 2, relogging |-> 1][pc]

\* An analysis cannot go on for ever: whatever fails and is tried again, each of its steps
\* is one answer more of at most MaxIterations, or one tool call less of this answer,
\* or leaves less to do for the answer or the call under way.
AlwaysNearerToEnd ==
  [][\/ iterations' > iterations
     \/ iterations' = iterations /\ todo' < todo
     \/ iterations' = iterations /\ todo' = todo /\ Effort' < Effort]_vars

\* What the model is told at prompts.py:12: it may call tools up to three times in a row
\* (and ai_coding_task.md:291: up to three rounds of tool calls).  An analysis gives up
\* on calls it was asked for only after three rounds of them.
ToolsThreeTimes ==
  pc = "done" /\ Last(messages).calls > 0 =>
    Cardinality({i \in DOMAIN messages : messages[i].calls > 0}) > 3
=============================================================================
