--------------------------- MODULE ToolDispatcher ---------------------------
(***************************************************************************)
(* controller/core/tool_dispatcher.py: the tool calls of a node's          *)
(* analyses.  dispatch asks the limiter (TokenBucket), then validates the  *)
(* call, then sends one request to the agent (AgentExecutor).  An analysis *)
(* waits for the end of its call before it makes another one; others may   *)
(* make theirs at any time, of other nodes or, when rounds overlap, of the *)
(* same.                                                                   *)
(*                                                                         *)
(* The executor's variables are those of the request sent last.  Requests  *)
(* share no state but the limiter's, so that an earlier one, which may     *)
(* still run, is followed to its end in the behaviours that make no        *)
(* further call.                                                           *)
(***************************************************************************)
EXTENDS AgentExecutor, TokenBucket

toolVars == <<vars, bucketVars>>

\* Nothing has been sent.
ToolInit ==
  /\ BucketInit
  /\ now = 0
  /\ client = "answered" /\ lost = FALSE /\ closedAt = Absent
  /\ handler = "replied" /\ reply = "error"
  /\ owner = "agent" /\ startedAt = 0
  /\ watch = "off" /\ watchErr = FALSE
  /\ leader = "none" /\ code = "none" /\ child = "none" /\ endedAt = Absent

\* The state of a request that has just been sent.
Sent ==
  /\ now' = 0
  /\ client' = "waiting" /\ lost' = FALSE /\ closedAt' = Absent
  /\ handler' = "none" /\ reply' = "none"
  /\ owner' = "agent" /\ startedAt' = 0
  /\ watch' = "off" /\ watchErr' = FALSE
  /\ leader' = "none" /\ code' = "none" /\ child' = "none" /\ endedAt' = Absent

\* A granted call is paid for, and sent unless it is not valid.
Dispatch(k) ==
  \/ Grant(k) /\ (Sent \/ UNCHANGED vars)
  \/ Refuse(k) /\ UNCHANGED vars

\* A second passes; the end of a request is waited for no longer than its bound.
Second ==
  /\ ClockTick
  /\ Tick \/ (now = MaxTime /\ UNCHANGED vars)

ToolNext ==
  \/ \E k \in Keys : Dispatch(k)
  \/ Second
  \/ SetBack /\ UNCHANGED vars
  \/ RequestStep /\ UNCHANGED bucketVars

ToolSpec == ToolInit /\ [][ToolNext]_toolVars
=============================================================================
