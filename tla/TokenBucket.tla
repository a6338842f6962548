---------------------------- MODULE TokenBucket ----------------------------
(***************************************************************************)
(* controller/core/rate_limiter.py: the limiter asked before every tool    *)
(* call, one bucket for each node.  fill_rate is 5/60 tokens a second, so  *)
(* tokens are counted in twelfths: a call costs Cost = 12 units, and one   *)
(* unit is added each second.  The code computes in floating point; the    *)
(* model is exact.  The clock is time.time(), which the system may set     *)
(* back.                                                                   *)
(***************************************************************************)
EXTENDS Integers

CONSTANTS
  Keys,      \* nodes
  Cost,      \* units of a call: 1 / fill_rate
  Capacity,  \* tokens a full bucket holds (5 in the code)
  LastInstant,   \* bound: the last instant of the clock
  MaxSteps   \* bound: times the clock is set back

ASSUME BucketAssumption ==
  /\ Cost \in Nat \ {0}
  /\ Capacity \in Nat \ {0}
  /\ LastInstant \in Nat
  /\ MaxSteps \in Nat

VARIABLES
  clock,      \* time.time()
  known,    \* keys of self.buckets
  tokens,   \* bucket['tokens'], in units
  last,     \* bucket['last_update']
  \* History.
  start,    \* an instant, chosen at the beginning
  granted,  \* calls granted at start or later
  latest,   \* instant of the last call granted at start or later
  grantAt,  \* instant of the last call granted
  steps     \* times the clock was set back

bucketVars == <<clock, known, tokens, last, start, granted, latest, grantAt, steps>>

Full   == Capacity * Cost
Never == -1

BucketTypeOK ==
  /\ clock \in 0..LastInstant
  /\ known \in SUBSET Keys
  /\ tokens \in [Keys -> Int]
  /\ last \in [Keys -> Nat]
  /\ start \in 0..LastInstant
  /\ granted \in [Keys -> Nat]
  /\ latest \in [Keys -> Nat]
  /\ grantAt \in [Keys -> Nat \cup {Never}]
  /\ steps \in 0..MaxSteps

BucketInit ==
  /\ clock = 0
  /\ known = {}
  /\ tokens = [k \in Keys |-> 0]
  /\ last = [k \in Keys |-> 0]
  /\ start \in 0..LastInstant
  /\ granted = [k \in Keys |-> 0]
  /\ latest = [k \in Keys |-> start]
  /\ grantAt = [k \in Keys |-> Never]
  /\ steps = 0

ClockTick ==
  /\ clock < LastInstant
  /\ clock' = clock + 1
  /\ UNCHANGED <<known, tokens, last, start, granted, latest, grantAt, steps>>

SetBack ==
  /\ steps < MaxSteps
  /\ steps' = steps + 1
  /\ clock' \in 0..(clock - 1)
  /\ UNCHANGED <<known, tokens, last, start, granted, latest, grantAt>>

Min2(x, y) == IF x <= y THEN x ELSE y

\* What a call finds in the bucket, after the refill.
BuggyAvailable(k) ==
  IF k \notin known THEN Full ELSE tokens[k] + (clock - last[k])
Available(k) ==
  IF k \notin known THEN Full ELSE Min2(Full, tokens[k] + (clock - last[k]))

Grant(k) ==
  /\ Available(k) >= Cost
  /\ known' = known \cup {k}
  /\ tokens' = [tokens EXCEPT ![k] = Available(k) - Cost]
  /\ last' = [last EXCEPT ![k] = clock]
  /\ granted' = [granted EXCEPT ![k] = IF clock >= start THEN @ + 1 ELSE @]
  /\ latest' = [latest EXCEPT ![k] = IF clock >= start THEN clock ELSE @]
  /\ grantAt' = [grantAt EXCEPT ![k] = clock]
  /\ UNCHANGED <<clock, start, steps>>

\* A refused call pays for its attempt.
BuggyRefuse(k) ==
  /\ Available(k) < Cost
  /\ tokens' = [tokens EXCEPT ![k] = 0]
  /\ last' = [last EXCEPT ![k] = clock]
  /\ UNCHANGED <<clock, known, start, granted, latest, grantAt, steps>>

\* A refused call leaves the refill in the bucket and takes nothing.
Refuse(k) ==
  /\ Available(k) < Cost
  /\ tokens' = [tokens EXCEPT ![k] = Available(k)]
  /\ last' = [last EXCEPT ![k] = clock]
  /\ UNCHANGED <<clock, known, start, granted, latest, grantAt, steps>>

BucketNext == ClockTick \/ SetBack \/ \E k \in Keys : Grant(k) \/ Refuse(k)

BucketSpec == BucketInit /\ [][BucketNext]_bucketVars
-----------------------------------------------------------------------------
\* From any instant on, the calls granted to a node by the time of the last of
\* them cost at most a full bucket and what was filled in between, however
\* calls are spaced, refused, and whatever the clock does.  (A minute may
\* hold twice the five calls of the comment at rate_limiter.py:36.)
WindowBound ==
  \A k \in Keys : granted[k] * Cost <= Full + (latest[k] - start)

\* A call is refused only if the clock shows less than Cost seconds since another one was
\* granted: refused calls never starve a node, and a clock set back does so only until it
\* shows that time again.
RefusalJustified ==
  \A k \in Keys : Available(k) < Cost =>
    grantAt[k] # Never /\ clock - grantAt[k] < Cost
=============================================================================
