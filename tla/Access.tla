------------------------------- MODULE Access -------------------------------
(***************************************************************************)
(* Who gets in: the keys table, the administration handlers that create    *)
(* and disable keys (keys.go), and requireVirtualKey (auth.go), which      *)
(* every proxied request passes: a query for the key, the rate limiter     *)
(* (module Limiter), the budget (module Budget; here a choice).            *)
(*                                                                         *)
(* Postgres may be down, and then every query fails.  A statement whose    *)
(* handler gives up, by its five seconds, by its client leaving or by the  *)
(* end of the process, may still be executed later.  What is rejected      *)
(* before anything is asked of the database (400, or 401 for a missing     *)
(* token) changes nothing and is left out.                                 *)
(***************************************************************************)
EXTENDS Limiter

CONSTANTS
  Settled, \* keys that were handed out long ago and that nobody removes
  Slots,   \* handlers that may run requireVirtualKey at the same time
  NoKey    \* the key of a slot without a request

ASSUME NoKeyAssumption   == NoKey \notin Keys
ASSUME SettledAssumption == Settled \subseteq Keys

VARIABLES
  database,  \* Postgres answers
  row,       \* the keys table: absent, enabled or disabled
  creation,  \* how far POST /admin/keys for each key is; each token is made once
  removal,   \* how far the last DELETE /admin/keys/{id} for each key is
  pending,   \* statements whose handler is gone
  req        \* what each handler slot is doing

adminVars == <<database, row, creation, removal, pending>>
vars == <<limiterVars, adminVars, req>>

Statement == [op : {"insert", "update"}, key : Keys]

(* creation: none, inserting, inserted (not answered yet), handed out (201 with
   the token), failed (500, or nobody there to be answered).
   removal: none, updating, updated, absent (no such row), done (204), failed
   (404 or 500; it may be asked again). *)
Creation == {"none", "inserting", "inserted", "handed out", "failed"}
Removal  == {"none", "updating", "updated", "absent", "done", "failed"}

(* A request: free, lookup (before the query), limit, budget, through (in the
   proxy handler), or the status it was refused with.
   `revoked' and `valid' are ghosts, fixed when the request comes in: its key's
   removal had been answered with 204; its key had been handed out and nobody had
   asked for its removal. *)
Stage == {"free", "lookup", "limit", "budget", "through", "401", "402", "429", "500"}
Request == [at : Stage, key : Keys \cup {NoKey}, revoked : BOOLEAN, valid : BOOLEAN]
Free == [at |-> "free", key |-> NoKey, revoked |-> FALSE, valid |-> FALSE]

TypeOK ==
  /\ LimiterTypeOK
  /\ database \in {"up", "down"}
  /\ row \in [Keys -> {"absent", "enabled", "disabled"}]
  /\ creation \in [Keys -> Creation]
  /\ removal \in [Keys -> Removal]
  /\ pending \subseteq Statement
  /\ req \in [Slots -> Request]

Init ==
  /\ LimiterInit
  /\ database = "up"
  /\ row = [k \in Keys |-> IF k \in Settled THEN "enabled" ELSE "absent"]
  /\ creation = [k \in Keys |-> IF k \in Settled THEN "handed out" ELSE "none"]
  /\ removal = [k \in Keys |-> "none"]
  /\ pending = {}
  /\ req = [s \in Slots |-> Free]

Up == database = "up"

-----------------------------------------------------------------------------
(* POST /admin/keys *)

StartCreate(k) ==
  /\ creation[k] = "none"
  /\ creation' = [creation EXCEPT ![k] = "inserting"]
  /\ UNCHANGED <<limiterVars, database, row, removal, pending, req>>

Insert(k) ==
  /\ Up /\ creation[k] = "inserting"
  /\ row' = [row EXCEPT ![k] = "enabled"]
  /\ creation' = [creation EXCEPT ![k] = "inserted"]
  /\ UNCHANGED <<limiterVars, database, removal, pending, req>>

\* Mutant: 201 is sent before the insert has come back.
AnswersEarly(k) ==
  /\ creation[k] = "inserting"
  /\ creation' = [creation EXCEPT ![k] = "handed out"]
  /\ pending' = pending \cup {[op |-> "insert", key |-> k]}
  /\ UNCHANGED <<limiterVars, database, row, removal, req>>

AnswerCreated(k) ==
  /\ creation[k] = "inserted"
  /\ creation' = [creation EXCEPT ![k] = "handed out"]
  /\ UNCHANGED <<limiterVars, database, row, removal, pending, req>>

\* What a statement that was given up while in state s leaves behind.
Abandoned(s, waiting, op, k) ==
  IF s = waiting THEN {{}, {[op |-> op, key |-> k]}} ELSE {{}}

\* 500: refused by Postgres, timed out, or cancelled with the client.  The key may
\* be in the table all the same; its token is lost.
CreateFails(k) ==
  /\ creation[k] \in {"inserting", "inserted"}
  /\ \E left \in Abandoned(creation[k], "inserting", "insert", k) :
       pending' = pending \cup left
  /\ creation' = [creation EXCEPT ![k] = "failed"]
  /\ UNCHANGED <<limiterVars, database, row, removal, req>>

-----------------------------------------------------------------------------
(* DELETE /admin/keys/{id}: a soft delete. *)

StartRemove(k) ==
  /\ k \notin Settled
  /\ removal[k] \in {"none", "failed"}
  /\ removal' = [removal EXCEPT ![k] = "updating"]
  /\ UNCHANGED <<limiterVars, database, row, creation, pending, req>>

Disabled(k) == [row EXCEPT ![k] = IF @ = "absent" THEN @ ELSE "disabled"]

Update(k) ==
  /\ Up /\ removal[k] = "updating"
  /\ row' = Disabled(k)
  /\ removal' = [removal EXCEPT ![k] = IF row[k] = "absent" THEN "absent" ELSE "updated"]
  /\ UNCHANGED <<limiterVars, database, creation, pending, req>>

AnswerRemoved(k) ==
  /\ removal[k] = "updated"
  /\ removal' = [removal EXCEPT ![k] = "done"]
  /\ UNCHANGED <<limiterVars, database, row, creation, pending, req>>

\* 404: no row was touched.
AnswerAbsent(k) ==
  /\ removal[k] = "absent"
  /\ removal' = [removal EXCEPT ![k] = "failed"]
  /\ UNCHANGED <<limiterVars, database, row, creation, pending, req>>

\* Mutant: a removal whose update timed out is reported as done.
RemoveFailsSilently(k) ==
  /\ removal[k] = "updating"
  /\ pending' = pending \cup {[op |-> "update", key |-> k]}
  /\ removal' = [removal EXCEPT ![k] = "done"]
  /\ UNCHANGED <<limiterVars, database, row, creation, req>>

RemoveFails(k) ==
  /\ removal[k] \in {"updating", "updated", "absent"}
  /\ \E left \in Abandoned(removal[k], "updating", "update", k) :
       pending' = pending \cup left
  /\ removal' = [removal EXCEPT ![k] = "failed"]
  /\ UNCHANGED <<limiterVars, database, row, creation, req>>

LateInsert(k) ==
  /\ Up /\ [op |-> "insert", key |-> k] \in pending
  /\ row' = [row EXCEPT ![k] = "enabled"]
  /\ pending' = pending \ {[op |-> "insert", key |-> k]}
  /\ UNCHANGED <<limiterVars, database, creation, removal, req>>

LateUpdate(k) ==
  /\ Up /\ [op |-> "update", key |-> k] \in pending
  /\ row' = Disabled(k)
  /\ pending' = pending \ {[op |-> "update", key |-> k]}
  /\ UNCHANGED <<limiterVars, database, creation, removal, req>>

-----------------------------------------------------------------------------
(* requireVirtualKey *)

\* A request with the token of k, whether or not the token was ever handed out.
Arrive(s, k) ==
  /\ req[s].at = "free"
  /\ req' = [req EXCEPT ![s] =
       [at |-> "lookup", key |-> k,
        revoked |-> removal[k] = "done",
        valid   |-> creation[k] = "handed out" /\ removal[k] = "none"]]
  /\ UNCHANGED <<limiterVars, adminVars>>

\* Mutant: the query forgets AND NOT disabled.
FoundAny(k) == row[k] # "absent"

Found(k) == row[k] = "enabled"

\* One step of the chain.
Moves(s, from, to) ==
  /\ req[s].at = from
  /\ req' = [req EXCEPT ![s].at = to]
  /\ UNCHANGED adminVars

LookUp(s) ==
  /\ Up
  /\ Moves(s, "lookup", IF Found(req[s].key) THEN "limit" ELSE "401")
  /\ UNCHANGED limiterVars

LookUpFails(s) ==
  /\ ~Up
  /\ Moves(s, "lookup", "500")
  /\ UNCHANGED limiterVars

AskLimiter(s) ==
  \/ Moves(s, "limit", "budget")
       /\ (AllowUnlimited(req[s].key) \/ AllowPasses(req[s].key))
  \/ Moves(s, "limit", "429") /\ AllowRefuses(req[s].key)

AskBudget(s) ==
  /\ Moves(s, "budget", "through") \/ Moves(s, "budget", "402")
  /\ UNCHANGED limiterVars

\* The handler returns, or its client goes away at any point.
Return(s) ==
  /\ req[s].at # "free"
  /\ req' = [req EXCEPT ![s] = Free]
  /\ UNCHANGED <<limiterVars, adminVars>>

-----------------------------------------------------------------------------
(* The surroundings. *)

DatabaseDown == Up /\ database' = "down"
                /\ UNCHANGED <<limiterVars, row, creation, removal, pending, req>>

DatabaseUp == ~Up /\ database' = "up"
              /\ UNCHANGED <<limiterVars, row, creation, removal, pending, req>>

\* Postgres drops a statement whose client is gone.
LateDropped(q) ==
  /\ q \in pending
  /\ pending' = pending \ {q}
  /\ UNCHANGED <<limiterVars, database, row, creation, removal, req>>

\* The process ends and is started again: its handlers are gone, what they had
\* asked of Postgres may be done or not, the table stays.
RestartProcess ==
  /\ Restart
  /\ req' = [s \in Slots |-> Free]
  /\ creation' = [k \in Keys |->
       IF creation[k] \in {"inserting", "inserted"} THEN "failed" ELSE creation[k]]
  /\ removal' = [k \in Keys |->
       IF removal[k] \in {"updating", "updated", "absent"} THEN "failed" ELSE removal[k]]
  /\ \E left \in SUBSET ([op : {"insert"}, key : {k \in Keys : creation[k] = "inserting"}]
                    \cup [op : {"update"}, key : {k \in Keys : removal[k] = "updating"}]) :
       pending' = pending \cup left
  /\ UNCHANGED <<database, row>>

TickOfClock == Tick /\ UNCHANGED <<adminVars, req>>

-----------------------------------------------------------------------------
Create(k) == StartCreate(k) \/ Insert(k) \/ AnswerCreated(k) \/ CreateFails(k)
Remove(k) == StartRemove(k) \/ Update(k) \/ AnswerRemoved(k) \/ AnswerAbsent(k)
               \/ RemoveFails(k)
Late      == (\E k \in Keys : LateInsert(k) \/ LateUpdate(k))
               \/ \E q \in Statement : LateDropped(q)
Chain(s)  == LookUp(s) \/ LookUpFails(s) \/ AskLimiter(s) \/ AskBudget(s) \/ Return(s)
               \/ \E k \in Keys : Arrive(s, k)

Next ==
  \/ \E k \in Keys : Create(k) \/ Remove(k)
  \/ \E s \in Slots : Chain(s)
  \/ Late \/ DatabaseDown \/ DatabaseUp \/ RestartProcess \/ TickOfClock

Spec == Init /\ [][Next]_vars

-----------------------------------------------------------------------------
(* Properties *)

\* A removed key stays removed: once DELETE has answered 204, no request that comes
\* in later is let through, or even counted by the limiter, whatever statements are
\* executed late and however often the process and Postgres go down.
RemovedIsRefused ==
  \A s \in Slots : req[s].revoked => req[s].at \in {"free", "lookup", "401", "500"}

\* A key that was handed out works: a request that carries it is told 401 only if
\* somebody has begun to remove the key.
HandedOutWorks ==
  \A s \in Slots :
    req[s].at = "401" /\ req[s].valid => removal[req[s].key] # "none"

\* The induction behind the two.  A row is written once, by the one insert there is
\* for its token, so nothing can enable it again; and a row is disabled only by a
\* statement that somebody's removal has sent.
Sent(op, k) == [op |-> op, key |-> k] \in pending

WrittenOnce ==
  \A k \in Keys :
    /\ creation[k] \in {"none", "inserting"} => row[k] = "absent" /\ ~Sent("insert", k)
    /\ Sent("insert", k) => row[k] = "absent" /\ creation[k] = "failed"
RemovedByRequest ==
  \A k \in Keys :
    /\ removal[k] \in {"updated", "done"} => row[k] = "disabled"
    /\ removal[k] = "none" => ~Sent("update", k)
    /\ creation[k] \in {"inserted", "handed out"} /\ removal[k] = "none"
         => row[k] = "enabled"
GhostsHold ==
  \A s \in Slots :
    /\ req[s].at # "free" => req[s].key \in Keys
    /\ req[s].revoked => req[s].key \in Keys /\ removal[req[s].key] = "done"
    /\ req[s].valid => req[s].key \in Keys /\ creation[req[s].key] = "handed out"

AccessInv == TypeOK /\ WrittenOnce /\ RemovedByRequest /\ GhostsHold
               /\ RemovedIsRefused /\ HandedOutWorks

\* "Postgres dimatiin -> request tetap jalan" (PRD.md:213): with a key that was
\* handed out and not removed, nobody is told 500.  The code breaks it: the key is
\* looked up in Postgres, request by request.
RunsWithoutDatabase ==
  \A s \in Slots : req[s].valid => req[s].at # "500"
=============================================================================
