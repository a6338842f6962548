---------------------------- MODULE IngestProofs ----------------------------
(***************************************************************************)
(* The safety properties of Ingest, for any number of requests under way,  *)
(* any timeouts and any clock skew within the window.                      *)
(*                                                                         *)
(* The inductive invariant says what a request that is awaited, loaded or  *)
(* answered tells about the database (RequestInv), and that, unless a late *)
(* push wrote the row, it is at the cursor of the push the agent heard     *)
(* last, the session of an awaited push read the row as it still is, and   *)
(* one that is answered left its cursor there (FollowInv).                 *)
(***************************************************************************)
EXTENDS Ingest, TLAPS

Fine(r) ==
  /\ r.awaited => r.age <= Timeout(r)
  /\ r.awaited /\ ~r.first => row.there
  /\ r.awaited /\ r.stage = "loaded" /\ ~r.view.there => r.first
  /\ r.awaited /\ r.stage = "refused" => r.first
  /\ r.stage = "ok" /\ r.kind = "beat" => row.url
  /\ r.stage = "ok" /\ r.kind = "push" => r.cursor \in stored

RequestInv == \A r \in reqs : Fine(r)

\* What an awaited push tells of the row.
Follows(r) ==
  r.awaited /\ r.kind = "push" =>
    /\ r.stage = "loaded" => r.view.cursor = row.cursor
    /\ r.stage = "ok" => row.cursor = r.cursor

FollowInv == ~late => RowFollowsPushes /\ \A r \in reqs : Follows(r)

RowInv == row.url => row.there

IInv == TypeOK /\ RequestInv /\ FollowInv /\ RowInv /\ CursorsAreStored /\ UrlKept
-----------------------------------------------------------------------------
LEMMA NumbersFact ==
  /\ MaxCursor \in Nat /\ PushTimeout \in Nat /\ BeatTimeout \in Nat /\ Window \in Nat
  /\ Skew \in Int /\ Abs(Skew) \in Nat /\ Oldest \in Nat
  /\ \A r : Timeout(r) \in Nat /\ Timeout(r) + Abs(Skew) <= Window
BY IngestAssumption DEF Abs, Oldest, Timeout

\* A request the agent waits for is recent enough for the middleware.
LEMMA AwaitedIsRecent ==
  ASSUME NEW r \in Request, r.age <= Timeout(r)
  PROVE  RecentEnough(r)
<1>1. r.age \in Nat
  BY NumbersFact DEF Request
<1> QED
  BY <1>1, NumbersFact DEF RecentEnough, Abs

\* Little remains of a request, and nothing new.
LEMMA RemainsFact ==
  ASSUME NEW r \in Request, NEW q \in Remains(r)
  PROVE  /\ q \in Request
         /\ q.awaited = r.awaited /\ q.kind = r.kind /\ q.stage = r.stage
         /\ q.cursor = r.cursor /\ q.view = r.view
         /\ r.awaited => q = r
         /\ ~r.awaited => q.stage \in {"sent", "accepted", "loaded"}
<1>1. 0 \in 0..Oldest
  BY NumbersFact
<1>2. \/ r.awaited /\ q = r
      \/ /\ ~r.awaited /\ r.stage \notin {"ok", "refused"}
         /\ q = [r EXCEPT !.first = FALSE, !.age = IF r.stage = "sent" THEN @ ELSE 0]
  BY DEF Remains
<1> QED
  BY <1>1, <1>2 DEF Request

LEMMA BecomesFact ==
  ASSUME NEW r, NEW new \in Request, Becomes(r, new)
  PROVE  /\ \A q \in reqs' : (q \in reqs /\ q # r) \/ q \in Remains(new)
         /\ \A q \in reqs : q # r => q \in reqs'
         /\ new.awaited => new \in reqs'
<1>1. new.awaited => Remains(new) = {new}
  BY DEF Remains
<1> QED
  BY <1>1 DEF Becomes

(* What a session leaves of its request. *)

LEMMA AuthenticateEffect ==
  ASSUME TypeOK, NEW r \in reqs, Authenticate(r)
  PROVE  LET new == [r EXCEPT !.stage = IF RecentEnough(r) THEN "accepted" ELSE "refused"]
         IN  new \in Request /\ Becomes(r, new)
BY DEF TypeOK, Authenticate, Request

LEMMA LoadEffect ==
  ASSUME TypeOK, NEW r \in reqs, Load(r)
  PROVE  LET new == [r EXCEPT !.stage = "loaded",
                       !.view = [there |-> row.there, cursor |-> row.cursor]]
         IN  new \in Request /\ Becomes(r, new)
<1>1. r \in Request /\ [there |-> row.there, cursor |-> row.cursor] \in View
  BY DEF TypeOK, Row, View
<1>2. [r EXCEPT !.stage = "loaded",
         !.view = [there |-> row.there, cursor |-> row.cursor]] \in Request
  BY <1>1 DEF Request
<1> QED
  BY <1>2 DEF Load

Answered(r, answer) == [r EXCEPT !.stage = answer, !.view = Nothing]

LEMMA CommitEffect ==
  ASSUME TypeOK, NEW r \in reqs, Commit(r)
  PROVE  /\ Answered(r, "ok") \in Request /\ Answered(r, "refused") \in Request
         /\ \/ Becomes(r, Answered(r, "refused")) /\ UNCHANGED dbVars
               /\ ~r.view.there /\ row.there
            \/ Becomes(r, Answered(r, "ok")) /\ row' = Written(r)
               /\ stored' = IF r.kind = "push" THEN stored \cup {r.cursor} ELSE stored
<1>1. r \in Request /\ Nothing \in View
  BY NumbersFact DEF TypeOK, Nothing, View, Cursors
<1>2. Answered(r, "ok") \in Request /\ Answered(r, "refused") \in Request
  BY <1>1 DEF Answered, Request
<1> QED
  BY <1>2 DEF Commit, Done, Answered

LEMMA WrittenFact ==
  ASSUME TypeOK, NEW r \in reqs
  PROVE  /\ Written(r) \in Row /\ Written(r).there
         /\ row.url => Written(r).url
         /\ r.kind = "beat" => Written(r).url /\ Written(r).cursor = row.cursor
         /\ r.kind = "push" => Written(r).cursor \in {row.cursor, r.cursor}
         /\ r.kind = "push" /\ r.view.cursor # r.cursor => Written(r).cursor = r.cursor
BY DEF TypeOK, Row, Request, Written

\* A request that a step of the agent puts aside.
LEMMA AbandonedFact ==
  ASSUME TypeOK, NEW r \in reqs
  PROVE  [r EXCEPT !.awaited = FALSE] \in Request
BY DEF TypeOK, Request
-----------------------------------------------------------------------------
(* Types. *)

LEMMA TypeInit == Init => TypeOK
<1> SUFFICES ASSUME Init PROVE TypeOK
  OBVIOUS
<1>1. 0 \in Cursors
  BY NumbersFact DEF Cursors
<1>2. row \in Row
  BY <1>1 DEF Init, Row
<1> QED
  BY <1>1, <1>2 DEF Init, TypeOK

\* At most one request of a kind is awaited, if that was so and a step changes a
\* request without making it awaited or another kind.
LEMMA OneAwaited ==
  ASSUME TypeOK, NEW r \in reqs, NEW new \in Request, Becomes(r, new),
         new.kind = r.kind, new.awaited => r.awaited
  PROVE  /\ reqs' \in SUBSET Request
         /\ \A p, q \in reqs' : p.awaited /\ q.awaited /\ p.kind = q.kind => p = q
BY RemainsFact, BecomesFact DEF TypeOK

LEMMA TypeNext == TypeOK /\ [Next]_vars => TypeOK'
<1> SUFFICES ASSUME TypeOK, [Next]_vars PROVE TypeOK'
  OBVIOUS
<1> USE NumbersFact
<1>1. ASSUME NEW kind \in {"push", "beat"}, NEW c \in Cursors, Send(kind, c),
             UNCHANGED <<cursor, dbVars, historyVars>>
      PROVE  TypeOK'
  <2> DEFINE new == [kind |-> kind, cursor |-> c, awaited |-> TRUE, age |-> 0,
                     first |-> ~row.there, view |-> Nothing, stage |-> "sent"]
  <2>1. new \in Request
    BY DEF TypeOK, Row, Request, Nothing, View, Cursors
  <2>2. reqs' = reqs \cup {new}
    BY <1>1 DEF Send
  <2>3. \A r \in reqs : ~(r.awaited /\ r.kind = kind)
    BY <1>1 DEF Send
  <2>4. new.kind = kind
    OBVIOUS
  <2> HIDE DEF new
  <2> QED
    BY <1>1, <2>1, <2>2, <2>3, <2>4 DEF TypeOK, dbVars, historyVars
<1>2. CASE SendPush \/ SendBeat
  BY <1>1, <1>2 DEF SendPush, SendBeat, Cursors
<1>3. CASE Restart
  <2>1. \A q \in reqs' : \E r \in reqs : q \in Remains([r EXCEPT !.awaited = FALSE])
    BY <1>3 DEF Restart
  <2>2. \A q \in reqs' : q \in Request /\ ~q.awaited
    <3> SUFFICES ASSUME NEW q \in reqs' PROVE q \in Request /\ ~q.awaited
      OBVIOUS
    <3>1. PICK r \in reqs : q \in Remains([r EXCEPT !.awaited = FALSE])
      BY <2>1
    <3>2. ~[r EXCEPT !.awaited = FALSE].awaited
      BY DEF TypeOK, Request
    <3> QED
      BY <3>1, <3>2, RemainsFact, AbandonedFact
  <2>3. cursor' \in Cursors
    BY <1>3 DEF Restart, TypeOK, Cursors
  <2> QED
    BY <1>3, <2>2, <2>3 DEF Restart, TypeOK, dbVars
<1>4. CASE Tick
  <2> DEFINE older(r) == IF Ages(r) THEN [r EXCEPT !.age = @ + 1] ELSE r
  <2>1. \A r \in reqs : older(r) \in Request /\ older(r).awaited = r.awaited
                          /\ older(r).kind = r.kind
    BY DEF TypeOK, Ages, Request
  <2>2. reqs' = {older(r) : r \in reqs}
    BY <1>4 DEF Tick
  <2> HIDE DEF older
  <2> QED
    BY <1>4, <2>1, <2>2 DEF Tick, TypeOK, dbVars, historyVars
<1>5. ASSUME NEW r \in reqs, Hear(r) PROVE TypeOK'
  BY <1>5 DEF Hear, TypeOK, Request, dbVars, historyVars
<1>6. ASSUME NEW r \in reqs, GiveUp(r) PROVE TypeOK'
  <2>1. [r EXCEPT !.awaited = FALSE].kind = r.kind /\ ~[r EXCEPT !.awaited = FALSE].awaited
    BY DEF TypeOK, Request
  <2>2. Becomes(r, [r EXCEPT !.awaited = FALSE])
    BY <1>6 DEF GiveUp
  <2>3. UNCHANGED <<cursor, row, stored, beaten>> /\ pushed' \in Cursors /\ late' \in BOOLEAN
    BY <1>6 DEF GiveUp, dbVars, TypeOK, Unheard
  <2> QED
    BY <2>1, <2>2, <2>3, AbandonedFact, OneAwaited DEF TypeOK
<1>7. ASSUME NEW r \in reqs, Authenticate(r) PROVE TypeOK'
  <2>1. r \in Request
    BY DEF TypeOK
  <2> QED
    BY <1>7, <2>1, AuthenticateEffect, OneAwaited
       DEF Authenticate, TypeOK, Request, dbVars, historyVars
<1>8. ASSUME NEW r \in reqs, Load(r) PROVE TypeOK'
  <2>1. r \in Request
    BY DEF TypeOK
  <2> DEFINE new == [r EXCEPT !.stage = "loaded",
                       !.view = [there |-> row.there, cursor |-> row.cursor]]
  <2>2. new.kind = r.kind /\ new.awaited = r.awaited
    BY <2>1 DEF Request
  <2>3. new \in Request /\ Becomes(r, new)
    BY <1>8, LoadEffect
  <2> HIDE DEF new
  <2> QED
    BY <1>8, <2>2, <2>3, OneAwaited DEF Load, TypeOK, dbVars, historyVars
<1>9. ASSUME NEW r \in reqs, Commit(r) PROVE TypeOK'
  <2>1. r \in Request
    BY DEF TypeOK
  <2>2. \A a \in {"ok", "refused"} :
          Answered(r, a).kind = r.kind /\ Answered(r, a).awaited = r.awaited
    BY <2>1 DEF Answered, Request
  <2>3. row' \in Row /\ stored' \in SUBSET Cursors
    BY <1>9, <2>1, CommitEffect, WrittenFact DEF TypeOK, Request, dbVars
  <2>4. UNCHANGED <<cursor, pushed, beaten>> /\ late' \in BOOLEAN
    BY <1>9, <2>1 DEF Commit, Attribute, TypeOK, Request
  <2>5. PICK new \in {Answered(r, "ok"), Answered(r, "refused")} :
          new \in Request /\ Becomes(r, new)
    BY <1>9, CommitEffect
  <2> QED
    BY <2>2, <2>3, <2>4, <2>5, OneAwaited DEF TypeOK, historyVars
<1>10. ASSUME NEW r \in reqs, Lose(r) PROVE TypeOK'
  BY <1>10 DEF Lose, TypeOK, dbVars
<1>11. CASE UNCHANGED vars
  BY <1>11 DEF vars, dbVars, historyVars, TypeOK
<1>12. CASE SkipRead
  BY <1>12 DEF SkipRead, TypeOK, dbVars, historyVars
<1> QED
  BY <1>12, <1>2, <1>3, <1>4, <1>5, <1>6, <1>7, <1>8, <1>9, <1>10, <1>11 DEF Next, Handle
-----------------------------------------------------------------------------
(* What requests tell. *)

\* The database only grows.
DataGrows ==
  /\ row.there => row'.there
  /\ row.url => row'.url
  /\ stored \subseteq stored'

LEMMA DataNext == TypeOK /\ [Next]_vars => DataGrows
<1> SUFFICES ASSUME TypeOK, [Next]_vars PROVE DataGrows
  OBVIOUS
<1>1. CASE UNCHANGED dbVars
  BY <1>1 DEF dbVars, DataGrows
<1>2. ASSUME NEW r \in reqs, Commit(r) PROVE DataGrows
  BY <1>1, <1>2, CommitEffect, WrittenFact DEF DataGrows
<1> QED
  BY <1>1, <1>2
     DEF Next, Handle, SendPush, SkipRead, SendBeat, Restart, Tick, Hear, GiveUp,
         Authenticate, Load, Lose, vars

LEMMA FineKept ==
  ASSUME NEW r, Fine(r), DataGrows
  PROVE  Fine(r)'
BY DEF Fine, DataGrows, Timeout

\* An abandoned request claims nothing.
LEMMA FineAbandoned ==
  ASSUME NEW r \in Request, NEW q \in Remains([r EXCEPT !.awaited = FALSE]),
         [r EXCEPT !.awaited = FALSE] \in Request
  PROVE  Fine(q)'
<1>1. ~[r EXCEPT !.awaited = FALSE].awaited
  BY DEF Request
<1> QED
  BY <1>1, RemainsFact DEF Fine

\* It is enough to look at the request a step changes, as long as it is awaited or
\* answered.
LEMMA FineBecomes ==
  ASSUME TypeOK, RequestInv, DataGrows, NEW r \in reqs, NEW new \in Request,
         Becomes(r, new), new.awaited => Fine(new)'
  PROVE  RequestInv'
<1> SUFFICES ASSUME NEW q \in reqs' PROVE Fine(q)'
  BY DEF RequestInv
<1>1. CASE q \in reqs
  BY <1>1, FineKept DEF RequestInv
<1>2. CASE q \in Remains(new)
  BY <1>2, RemainsFact DEF Fine
<1> QED
  BY <1>1, <1>2, BecomesFact

LEMMA RequestNext ==
  TypeOK /\ RequestInv /\ RowInv /\ [Next]_vars => RequestInv'
<1> SUFFICES ASSUME TypeOK, RequestInv, RowInv, [Next]_vars PROVE RequestInv'
  OBVIOUS
<1>1. DataGrows
  BY DataNext
<1>2. CASE reqs' \subseteq reqs
  BY <1>1, <1>2, FineKept DEF RequestInv
<1>3. ASSUME NEW kind, NEW c, Send(kind, c) PROVE RequestInv'
  <2>1. PICK new :
          new = [kind |-> kind, cursor |-> c, awaited |-> TRUE, age |-> 0,
                 first |-> ~row.there, view |-> Nothing, stage |-> "sent"]
    OBVIOUS
  <2>2. \A q \in reqs' : q \in reqs \/ q = new
    BY <1>3, <2>1 DEF Send
  <2>3. /\ new.awaited /\ new.stage = "sent" /\ new.age = 0
        /\ new.first = ~row.there /\ row.there \in BOOLEAN
    BY <2>1 DEF TypeOK, Row
  <2>4. 0 <= Timeout(new)
    BY NumbersFact
  <2>5. ~new.first => row'.there
    BY <1>1, <2>3, Zenon DEF DataGrows
  <2>6. Fine(new)'
    BY <2>3, <2>4, <2>5 DEF Fine, Timeout
  <2> QED
    BY <1>1, <2>2, <2>6, FineKept DEF RequestInv
<1>4. CASE Restart
  <2> SUFFICES ASSUME NEW q \in reqs' PROVE Fine(q)'
    BY DEF RequestInv
  <2>1. PICK r \in reqs : q \in Remains([r EXCEPT !.awaited = FALSE])
    BY <1>4 DEF Restart
  <2> QED
    BY <2>1, FineAbandoned, AbandonedFact DEF TypeOK
<1>5. CASE Tick
  <2> SUFFICES ASSUME NEW r \in reqs,
                      NEW q \in {IF Ages(r) THEN [r EXCEPT !.age = @ + 1] ELSE r}
               PROVE  Fine(q)'
    BY <1>5 DEF Tick, RequestInv
  <2>1. r \in Request /\ Fine(r)'
    BY <1>1, FineKept DEF RequestInv, TypeOK
  <2>2. CASE Ages(r)
    <3>1. q = [r EXCEPT !.age = r.age + 1]
      BY <2>2
    <3>2. /\ q.awaited = r.awaited /\ q.first = r.first /\ q.stage = r.stage
          /\ q.kind = r.kind /\ q.view = r.view /\ q.cursor = r.cursor
          /\ q.age = r.age + 1
      BY <2>1, <3>1 DEF Request
    <3>3. r.awaited => r.age < Timeout(r) /\ r.age \in Nat /\ Timeout(r) \in Nat
      BY <1>5, <2>1, NumbersFact DEF Tick, Request
    <3>4. q.awaited => q.age <= Timeout(q)
      BY <3>2, <3>3 DEF Timeout
    <3> QED
      BY <2>1, <3>2, <3>4 DEF Fine, Timeout
  <2>3. CASE ~Ages(r)
    BY <2>1, <2>3
  <2> QED
    BY <2>2, <2>3
<1>6. ASSUME NEW r \in reqs, GiveUp(r) PROVE RequestInv'
  <2>1. ~[r EXCEPT !.awaited = FALSE].awaited
    BY DEF TypeOK, Request
  <2> QED
    BY <1>1, <1>6, <2>1, AbandonedFact, FineBecomes DEF GiveUp
<1>7. ASSUME NEW r \in reqs, Authenticate(r) PROVE RequestInv'
  <2> DEFINE new == [r EXCEPT !.stage = IF RecentEnough(r) THEN "accepted" ELSE "refused"]
  <2>1. new \in Request /\ Becomes(r, new) /\ r \in Request
    BY <1>7, AuthenticateEffect DEF TypeOK
  <2>2. Fine(r)'
    BY <1>1, FineKept DEF RequestInv
  <2>3. r.awaited => RecentEnough(r)
    BY <2>1, AwaitedIsRecent DEF RequestInv, Fine
  <2>4. /\ new.awaited = r.awaited /\ new.first = r.first /\ new.kind = r.kind
        /\ new.age = r.age /\ new.cursor = r.cursor
        /\ new.stage = IF RecentEnough(r) THEN "accepted" ELSE "refused"
    BY <2>1 DEF Request
  <2> HIDE DEF new
  <2>5. new.awaited => Fine(new)'
    BY <2>2, <2>3, <2>4 DEF Fine, Timeout
  <2> QED
    BY <1>1, <2>1, <2>5, FineBecomes
<1>8. ASSUME NEW r \in reqs, Load(r) PROVE RequestInv'
  <2>0. PICK new : new = [r EXCEPT !.stage = "loaded",
                            !.view = [there |-> row.there, cursor |-> row.cursor]]
    OBVIOUS
  <2>1. new \in Request /\ Becomes(r, new) /\ r \in Request
    BY <1>8, <2>0, LoadEffect DEF TypeOK
  <2>2. Fine(r) /\ Fine(r)'
    BY <1>1, FineKept DEF RequestInv
  <2>3. /\ new.awaited = r.awaited /\ new.first = r.first /\ new.kind = r.kind
        /\ new.age = r.age /\ new.cursor = r.cursor
        /\ new.stage = "loaded" /\ new.view.there = row.there
    BY <2>0, <2>1 DEF Request
  <2>4. new.awaited => Fine(new)'
    BY <2>2, <2>3 DEF Fine, Timeout
  <2> QED
    BY <1>1, <2>1, <2>4, FineBecomes
<1>9. ASSUME NEW r \in reqs, Commit(r) PROVE RequestInv'
  <2>1. Fine(r) /\ Fine(r)' /\ r \in Request
    BY <1>1, FineKept DEF RequestInv, TypeOK
  <2>2. \A a \in {"ok", "refused"} : LET new == Answered(r, a) IN
          /\ new.awaited = r.awaited /\ new.first = r.first /\ new.kind = r.kind
          /\ new.age = r.age /\ new.cursor = r.cursor /\ new.stage = a
    BY <2>1 DEF Answered, Request
  <2>3. r.stage = "loaded"
    BY <1>9 DEF Commit
  <2>4. CASE Becomes(r, Answered(r, "refused")) /\ ~r.view.there
    <3>1. Answered(r, "refused").awaited => Fine(Answered(r, "refused"))'
      BY <2>1, <2>2, <2>3, <2>4 DEF Fine, Timeout
    <3> QED
      BY <1>1, <1>9, <2>4, <3>1, CommitEffect, FineBecomes
  <2>5. CASE /\ Becomes(r, Answered(r, "ok")) /\ row' = Written(r)
             /\ stored' = IF r.kind = "push" THEN stored \cup {r.cursor} ELSE stored
    <3>1. Answered(r, "ok").awaited => Fine(Answered(r, "ok"))'
      BY <2>1, <2>2, <2>3, <2>5, WrittenFact DEF Fine, Timeout
    <3> QED
      BY <1>1, <1>9, <2>5, <3>1, CommitEffect, FineBecomes
  <2> QED
    BY <1>9, <2>4, <2>5, CommitEffect
<1> QED
  BY <1>2, <1>3, <1>4, <1>5, <1>6, <1>7, <1>8, <1>9
     DEF Next, Handle, SendPush, SkipRead, SendBeat, Hear, Lose, vars
-----------------------------------------------------------------------------
(* What the row holds. *)

LEMMA KeptNext ==
  TypeOK /\ RequestInv /\ RowInv /\ CursorsAreStored /\ UrlKept /\ [Next]_vars
    => RowInv' /\ CursorsAreStored' /\ UrlKept'
<1> SUFFICES ASSUME TypeOK, RequestInv, RowInv, CursorsAreStored, UrlKept, [Next]_vars
             PROVE  RowInv' /\ CursorsAreStored' /\ UrlKept'
  OBVIOUS
<1>1. CASE UNCHANGED <<dbVars, pushed, beaten>>
  BY <1>1 DEF dbVars, RowInv, CursorsAreStored, UrlKept
<1>2. CASE Restart
  BY <1>2 DEF Restart, dbVars, RowInv, CursorsAreStored, UrlKept
<1>3. ASSUME NEW r \in reqs, Hear(r) PROVE RowInv' /\ CursorsAreStored' /\ UrlKept'
  <2>1. Fine(r)
    BY DEF RequestInv
  <2> QED
    BY <1>3, <2>1
       DEF Hear, Fine, dbVars, historyVars, RowInv, CursorsAreStored, UrlKept
<1>4. ASSUME NEW r \in reqs, Commit(r) PROVE RowInv' /\ CursorsAreStored' /\ UrlKept'
  <2>1. CASE UNCHANGED dbVars
    BY <1>1, <1>4, <2>1 DEF Commit, historyVars
  <2>2. CASE /\ row' = Written(r)
             /\ stored' = IF r.kind = "push" THEN stored \cup {r.cursor} ELSE stored
    <3>1. UNCHANGED <<pushed, beaten>> /\ r.kind \in {"push", "beat"}
      BY <1>4 DEF Commit, historyVars, TypeOK, Request
    <3> QED
      BY <2>2, <3>1, WrittenFact DEF RowInv, CursorsAreStored, UrlKept
  <2> QED
    BY <1>4, <2>1, <2>2, CommitEffect
<1> QED
  BY <1>1, <1>2, <1>3, <1>4
     DEF Next, Handle, SendPush, SkipRead, SendBeat, Tick, GiveUp, Authenticate,
         Load, Lose, vars,
         historyVars

\* An awaited push that was answered.
Succeeded(r) == r.awaited /\ r.kind = "push" /\ r.stage = "ok"

LEMMA FollowNext ==
  TypeOK /\ FollowInv /\ [Next]_vars => FollowInv'
<1> SUFFICES ASSUME TypeOK, FollowInv, [Next]_vars, ~late'
             PROVE  RowFollowsPushes' /\ \A q \in reqs' : Follows(q)'
  BY DEF FollowInv
<1>1. \A p, q \in reqs :
        p.awaited /\ p.kind = "push" /\ q.awaited /\ q.kind = "push" => p = q
  BY DEF TypeOK
\* It is enough that the row and the answered push stay as they are.
<1>2. ASSUME ~late, row'.cursor = row.cursor, pushed' = pushed,
             \A q \in reqs' : q \in reqs \/ Follows(q)',
             \A p \in reqs : Succeeded(p) =>
               \E q \in reqs' : Succeeded(q) /\ q.cursor = p.cursor
      PROVE  RowFollowsPushes' /\ \A q \in reqs' : Follows(q)'
  <2>1. RowFollowsPushes /\ \A q \in reqs : Follows(q)
    BY <1>2 DEF FollowInv
  <2>2. \A q \in reqs' : Follows(q)'
    BY <1>2, <2>1 DEF Follows
  <2>3. CASE row.cursor = pushed
    BY <1>2, <2>2, <2>3 DEF RowFollowsPushes
  <2>4. ASSUME NEW p \in reqs, Succeeded(p), row.cursor = p.cursor
        PROVE  RowFollowsPushes'
    BY <1>2, <2>4 DEF RowFollowsPushes, Succeeded
  <2> QED
    BY <1>2, <2>1, <2>2, <2>3, <2>4 DEF RowFollowsPushes, Succeeded
\* A session that goes on, or an abandoned request.
<1>3. ASSUME NEW r \in reqs, NEW new \in Request, Becomes(r, new), ~late,
             row'.cursor = row.cursor, pushed' = pushed, ~Succeeded(r), Follows(new)'
      PROVE  RowFollowsPushes' /\ \A q \in reqs' : Follows(q)'
  <2>1. \A q \in reqs' : q \in reqs \/ Follows(q)'
    BY <1>3, BecomesFact, RemainsFact DEF Follows
  <2>2. \A p \in reqs : Succeeded(p) => p \in reqs'
    BY <1>3, BecomesFact
  <2> QED
    BY <1>2, <1>3, <2>1, <2>2
<1>4. CASE UNCHANGED vars
  BY <1>2, <1>4 DEF vars, dbVars, historyVars
<1>5. ASSUME NEW kind, NEW c, Send(kind, c), UNCHANGED <<dbVars, historyVars>>
      PROVE  RowFollowsPushes' /\ \A q \in reqs' : Follows(q)'
  <2>1. PICK new : new = [kind |-> kind, cursor |-> c, awaited |-> TRUE, age |-> 0,
                          first |-> ~row.there, view |-> Nothing, stage |-> "sent"]
    OBVIOUS
  <2>2. reqs' = reqs \cup {new}
    BY <1>5, <2>1 DEF Send
  <2>3. Follows(new)'
    BY <2>1 DEF Follows
  <2> QED
    BY <1>2, <1>5, <2>2, <2>3 DEF dbVars, historyVars
<1>6. CASE SendPush \/ SendBeat
  BY <1>5, <1>6 DEF SendPush, SendBeat
<1>7. CASE SkipRead
  BY <1>2, <1>7 DEF SkipRead, dbVars, historyVars
<1>8. CASE Restart
  <2>1. ~late /\ \A r \in reqs : ~Succeeded(r)
    BY <1>8 DEF Restart, Unheard, Succeeded, TypeOK
  <2>2. \A q \in reqs' : ~q.awaited
    <3> SUFFICES ASSUME NEW q \in reqs' PROVE ~q.awaited
      OBVIOUS
    <3>1. PICK r \in reqs : q \in Remains([r EXCEPT !.awaited = FALSE])
      BY <1>8 DEF Restart
    <3>2. ~[r EXCEPT !.awaited = FALSE].awaited
      BY DEF TypeOK, Request
    <3> QED
      BY <3>1, <3>2, RemainsFact, AbandonedFact
  <2> QED
    BY <1>2, <1>8, <2>1, <2>2 DEF Restart, Follows, dbVars
<1>9. CASE Tick
  <2> DEFINE older(r) == IF Ages(r) THEN [r EXCEPT !.age = @ + 1] ELSE r
  <2>1. \A r \in reqs : /\ older(r).kind = r.kind /\ older(r).awaited = r.awaited
                        /\ older(r).cursor = r.cursor /\ older(r).stage = r.stage
                        /\ older(r).view = r.view
    BY DEF TypeOK, Ages, Request
  <2>2. reqs' = {older(r) : r \in reqs} /\ UNCHANGED <<row, pushed, late>>
    BY <1>9 DEF Tick, dbVars, historyVars
  <2> HIDE DEF older
  <2>3. ~late /\ \A r \in reqs : Follows(r)
    BY <2>2 DEF FollowInv
  <2>4. \A q \in reqs' : Follows(q)'
    BY <2>1, <2>2, <2>3 DEF Follows
  <2>5. ASSUME NEW p \in reqs, Succeeded(p)
        PROVE  \E q \in reqs' : Succeeded(q) /\ q.cursor = p.cursor
    BY <2>1, <2>2, <2>5 DEF Succeeded
  <2> QED
    BY <1>2, <2>2, <2>3, <2>4, <2>5
<1>10. ASSUME NEW r \in reqs, Hear(r)
       PROVE  RowFollowsPushes' /\ \A q \in reqs' : Follows(q)'
  <2>1. reqs' = reqs \ {r} /\ UNCHANGED <<row, late>> /\ r.awaited
    BY <1>10 DEF Hear, dbVars, historyVars
  <2>2. CASE Succeeded(r)
    <3>1. pushed' = r.cursor
      BY <1>10, <2>2 DEF Hear, Succeeded
    <3>2. row.cursor = r.cursor
      BY <2>1, <2>2 DEF FollowInv, Follows, Succeeded
    <3>3. \A q \in reqs' : ~(q.awaited /\ q.kind = "push")
      BY <1>1, <2>1, <2>2 DEF Succeeded
    <3> QED
      BY <2>1, <3>1, <3>2, <3>3 DEF RowFollowsPushes, Follows
  <2>3. CASE ~Succeeded(r)
    <3>1. pushed' = pushed
      BY <1>10, <2>3 DEF Hear, Succeeded, historyVars
    <3> QED
      BY <1>2, <2>1, <2>3, <3>1
  <2> QED
    BY <2>2, <2>3
<1>11. ASSUME NEW r \in reqs, GiveUp(r)
       PROVE  RowFollowsPushes' /\ \A q \in reqs' : Follows(q)'
  <2>1. PICK new : new = [r EXCEPT !.awaited = FALSE]
    OBVIOUS
  <2>2. new \in Request /\ ~new.awaited
    BY <2>1, AbandonedFact DEF TypeOK, Request
  <2>3. ~late /\ ~Succeeded(r) /\ UNCHANGED <<row, pushed>> /\ Becomes(r, new)
    BY <1>11, <2>1 DEF GiveUp, Unheard, Succeeded, dbVars, TypeOK
  <2> QED
    BY <1>3, <2>2, <2>3 DEF Follows
<1>12. ASSUME NEW r \in reqs, Authenticate(r)
       PROVE  RowFollowsPushes' /\ \A q \in reqs' : Follows(q)'
  <2>1. PICK new : new = [r EXCEPT !.stage = IF RecentEnough(r) THEN "accepted"
                                             ELSE "refused"]
    OBVIOUS
  <2>2. new \in Request /\ Becomes(r, new) /\ r \in Request
    BY <1>12, <2>1, AuthenticateEffect DEF TypeOK
  <2>3. new.stage \notin {"loaded", "ok"} /\ r.stage # "ok"
    BY <1>12, <2>1, <2>2 DEF Request, Authenticate
  <2> QED
    BY <1>3, <1>12, <2>2, <2>3
       DEF Authenticate, Follows, Succeeded, dbVars, historyVars
<1>13. ASSUME NEW r \in reqs, Load(r)
       PROVE  RowFollowsPushes' /\ \A q \in reqs' : Follows(q)'
  <2>1. PICK new : new = [r EXCEPT !.stage = "loaded",
                            !.view = [there |-> row.there, cursor |-> row.cursor]]
    OBVIOUS
  <2>2. new \in Request /\ Becomes(r, new) /\ r \in Request
    BY <1>13, <2>1, LoadEffect DEF TypeOK
  <2>3. new.stage = "loaded" /\ new.view.cursor = row.cursor /\ r.stage # "ok"
    BY <1>13, <2>1, <2>2 DEF Request, Load
  <2> QED
    BY <1>3, <1>13, <2>2, <2>3 DEF Load, Follows, Succeeded, dbVars, historyVars
<1>14. ASSUME NEW r \in reqs, Commit(r)
       PROVE  RowFollowsPushes' /\ \A q \in reqs' : Follows(q)'
  <2>1. r \in Request /\ r.stage = "loaded" /\ pushed' = pushed /\ ~Succeeded(r)
    BY <1>14 DEF TypeOK, Commit, Succeeded
  <2>2. \A a \in {"ok", "refused"} : LET new == Answered(r, a) IN
          /\ new.awaited = r.awaited /\ new.kind = r.kind
          /\ new.cursor = r.cursor /\ new.stage = a
    BY <2>1 DEF Answered, Request
  <2>3. CASE UNCHANGED <<dbVars, late>> /\ Becomes(r, Answered(r, "refused"))
    <3>1. Follows(Answered(r, "refused"))'
      BY <2>2 DEF Follows
    <3> QED
      BY <1>3, <1>14, <2>1, <2>3, <3>1, CommitEffect DEF dbVars
  <2>4. CASE r.kind = "beat" /\ late' = late /\ row'.cursor = row.cursor
    <3>1. PICK a \in {"ok", "refused"} : Becomes(r, Answered(r, a)) /\ Answered(r, a) \in Request
      BY <1>14, CommitEffect
    <3>2. Follows(Answered(r, a))'
      BY <2>2, <2>4 DEF Follows
    <3> QED
      BY <1>3, <2>1, <2>4, <3>1, <3>2
  <2>5. CASE /\ r.kind = "push" /\ Becomes(r, Answered(r, "ok"))
             /\ row' = Written(r) /\ Attribute(r)
    <3>0. Answered(r, "ok") \in Request
      BY <1>14, CommitEffect
    <3>1. CASE r.awaited /\ row'.cursor = r.cursor
      <4>1. Answered(r, "ok") \in reqs' /\ Succeeded(Answered(r, "ok"))
        BY <2>2, <2>5, <3>0, <3>1, BecomesFact DEF Succeeded
      <4>2. RowFollowsPushes'
        BY <2>2, <3>1, <4>1 DEF RowFollowsPushes, Succeeded
      <4>3. \A q \in reqs' : Follows(q)'
        <5> SUFFICES ASSUME NEW q \in reqs', q.awaited, q.kind = "push" PROVE Follows(q)'
          BY DEF Follows
        <5>1. q = Answered(r, "ok")
          BY <1>1, <2>2, <2>5, <3>0, <3>1, BecomesFact, RemainsFact
        <5> QED
          BY <2>2, <3>1, <5>1 DEF Follows
      <4> QED
        BY <4>2, <4>3
    <3>2. CASE ~r.awaited
      <4>1. ~late /\ row'.cursor = row.cursor
        BY <2>5, <3>2, WrittenFact DEF Attribute
      <4>2. Follows(Answered(r, "ok"))'
        BY <2>2, <3>2 DEF Follows
      <4> QED
        BY <1>3, <2>1, <2>5, <3>0, <4>1, <4>2
    <3>3. CASE r.awaited /\ row'.cursor # r.cursor
      <4>1. ~late
        BY <2>5, <3>3 DEF Attribute
      <4>2. r.view.cursor = row.cursor
        BY <2>1, <2>5, <3>3, <4>1 DEF FollowInv, Follows
      <4> QED
        BY <2>5, <3>3, <4>2, WrittenFact
    <3> QED
      BY <3>1, <3>2, <3>3
  <2>6. r.kind \in {"push", "beat"}
    BY <2>1 DEF Request
  <2>7. r.kind = "beat" => row'.cursor = row.cursor /\ late' = late
    BY <1>14, CommitEffect, WrittenFact DEF Commit, Attribute, dbVars
  <2>8. \/ UNCHANGED <<dbVars, late>> /\ Becomes(r, Answered(r, "refused"))
        \/ Becomes(r, Answered(r, "ok")) /\ row' = Written(r) /\ Attribute(r)
    BY <1>14 DEF Commit, Done, Answered
  <2> QED
    BY <2>3, <2>4, <2>5, <2>6, <2>7, <2>8
<1>15. ASSUME NEW r \in reqs, Lose(r)
       PROVE  RowFollowsPushes' /\ \A q \in reqs' : Follows(q)'
  <2>1. ~late /\ ~Succeeded(r) /\ UNCHANGED <<row, pushed>> /\ reqs' = reqs \ {r}
    BY <1>15 DEF Lose, Unheard, Succeeded, dbVars, TypeOK
  <2> QED
    BY <1>2, <2>1
<1> QED
  BY <1>4, <1>6, <1>7, <1>8, <1>9, <1>10, <1>11, <1>12, <1>13, <1>14, <1>15
     DEF Next, Handle
-----------------------------------------------------------------------------
LEMMA InvInit == Init => IInv
<1> SUFFICES ASSUME Init PROVE IInv
  OBVIOUS
<1>1. TypeOK
  BY TypeInit
<1> QED
  BY <1>1 DEF Init, IInv, RequestInv, FollowInv, RowInv, CursorsAreStored, UrlKept,
              RowFollowsPushes

LEMMA InvAlways == Spec => []IInv
<1>1. IInv /\ [Next]_vars => IInv'
  BY TypeNext, RequestNext, FollowNext, KeptNext DEF IInv
<1> QED
  BY <1>1, InvInit, PTL DEF Spec

\* Every variable has its type, and each loop of the agent waits for one request.
THEOREM TypeCorrect == Spec => []TypeOK
<1>1. IInv => TypeOK
  BY DEF IInv
<1> QED
  BY <1>1, InvAlways, PTL

\* Unless a push that the agent no longer waited for wrote it, the row's cursor is that
\* of the push the agent heard succeed last or of the one just answered, whatever
\* sessions overlap (log_ingest.py, heartbeat.py).
THEOREM RowFollows == Spec => []RowFollowsPushes
<1>1. IInv => RowFollowsPushes
  BY DEF IInv, FollowInv, RowFollowsPushes
<1> QED
  BY <1>1, InvAlways, PTL

\* No push is acknowledged to the agent, and no cursor kept in the row, without its batch
\* (log_ingest.py: one commit).
THEOREM CursorsStored == Spec => []CursorsAreStored
<1>1. IInv => CursorsAreStored
  BY DEF IInv
<1> QED
  BY <1>1, InvAlways, PTL

\* After an answered heartbeat the node keeps its URL (heartbeat.py).
THEOREM UrlIsKept == Spec => []UrlKept
<1>1. IInv => UrlKept
  BY DEF IInv
<1> QED
  BY <1>1, InvAlways, PTL

\* Only first requests that race are refused, if the clocks are close enough
\* (auth.py, log_ingest.py, heartbeat.py).
THEOREM RefusalsNeedRace == Spec => []RefusalNeedsRace
<1>1. IInv => RefusalNeedsRace
  BY DEF IInv, RequestInv, Fine, RefusalNeedsRace
<1> QED
  BY <1>1, InvAlways, PTL
=============================================================================
