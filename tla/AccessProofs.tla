---------------------------- MODULE AccessProofs ----------------------------
(***************************************************************************)
(* Theorems about who gets in, for any keys, handler slots, rates and      *)
(* clocks: the limiter inside the chain is the limiter that LimiterProofs  *)
(* is about, a removed key stays removed, a handed-out key works.          *)
(***************************************************************************)
EXTENDS Access, LimiterProofs

-----------------------------------------------------------------------------
(* Access implements Limiter. *)

LEMMA AskLimiterSimulates ==
  ASSUME TypeOK, GhostsHold, NEW s \in Slots, AskLimiter(s) PROVE LimiterNext
<1>1. req[s].key \in Keys
  BY DEF AskLimiter, Moves, GhostsHold
<1> QED BY <1>1 DEF AskLimiter, LimiterNext

LEMMA StepSimulates ==
  AccessInv /\ [Next]_vars => [LimiterNext]_limiterVars
<1> SUFFICES ASSUME AccessInv, Next PROVE [LimiterNext]_limiterVars
  BY DEF vars
<1>1. ASSUME NEW k \in Keys, Create(k) \/ Remove(k) PROVE UNCHANGED limiterVars
  BY <1>1 DEF Create, StartCreate, Insert, AnswerCreated, CreateFails, Remove,
              StartRemove, Update, AnswerRemoved, AnswerAbsent, RemoveFails
<1>2. ASSUME NEW s \in Slots, Chain(s) PROVE [LimiterNext]_limiterVars
  <2>1. CASE AskLimiter(s)
    BY <2>1, AskLimiterSimulates DEF AccessInv
  <2>2. CASE ~AskLimiter(s)
    BY <1>2, <2>2 DEF Chain, LookUp, LookUpFails, AskBudget, Return, Arrive
  <2> QED BY <2>1, <2>2
<1>3. CASE Late
  BY <1>3 DEF Late, LateInsert, LateUpdate, LateDropped
<1>4. CASE DatabaseDown \/ DatabaseUp
  BY <1>4 DEF DatabaseDown, DatabaseUp
<1>5. CASE RestartProcess
  BY <1>5 DEF RestartProcess, LimiterNext
<1>6. CASE TickOfClock
  BY <1>6 DEF TickOfClock, LimiterNext
<1> QED BY <1>1, <1>2, <1>3, <1>4, <1>5, <1>6 DEF Next

LEMMA UnchangedAdmin ==
  ASSUME AccessInv, LimiterTypeOK', UNCHANGED <<adminVars, req>>
  PROVE  AccessInv'
  BY DEF AccessInv, TypeOK, WrittenOnce, RemovedByRequest, GhostsHold, Sent,
         RemovedIsRefused, HandedOutWorks, adminVars

LEMMA AccessInitInv == Init => AccessInv
<1> SUFFICES ASSUME Init PROVE AccessInv
  OBVIOUS
<1>1. LimiterTypeOK
  BY InitInv DEF Init, LimiterInv
<1>2. Free \in Request /\ Free.at = "free" /\ ~Free.revoked /\ ~Free.valid
  BY DEF Free, Request, Stage
<1>3. TypeOK
  BY <1>1, <1>2 DEF Init, TypeOK, Creation, Removal
<1>4. WrittenOnce /\ RemovedByRequest
  BY DEF Init, WrittenOnce, RemovedByRequest, Sent
<1>5. GhostsHold /\ RemovedIsRefused /\ HandedOutWorks
  BY <1>2 DEF Init, GhostsHold, RemovedIsRefused, HandedOutWorks
<1> QED BY <1>3, <1>4, <1>5 DEF AccessInv

-----------------------------------------------------------------------------
(* The keys table and its two handlers. *)

\* What an administration step must leave true; the limiter and the requests do
\* not move.
LEMMA AdminFrame ==
  ASSUME AccessInv, UNCHANGED <<limiterVars, req>>,
         database' \in {"up", "down"},
         row' \in [Keys -> {"absent", "enabled", "disabled"}],
         creation' \in [Keys -> Creation], removal' \in [Keys -> Removal],
         pending' \subseteq Statement,
         WrittenOnce', RemovedByRequest',
         \A k \in Keys : creation[k] = "handed out" => creation'[k] = "handed out",
         \A k \in Keys : removal[k] = "done" => removal'[k] = "done",
         \A k \in Keys : removal[k] # "none" => removal'[k] # "none"
  PROVE  AccessInv'
<1>1. TypeOK'
  BY DEF AccessInv, TypeOK, LimiterTypeOK, limiterVars
<1>2. GhostsHold'
  BY DEF AccessInv, GhostsHold
<1>3. RemovedIsRefused'
  BY DEF AccessInv, RemovedIsRefused
<1>4. HandedOutWorks'
  BY DEF AccessInv, HandedOutWorks, GhostsHold
<1> QED BY <1>1, <1>2, <1>3, <1>4 DEF AccessInv

LEMMA Types ==
  ASSUME AccessInv
  PROVE  /\ database \in {"up", "down"}
         /\ row \in [Keys -> {"absent", "enabled", "disabled"}]
         /\ creation \in [Keys -> Creation] /\ removal \in [Keys -> Removal]
         /\ pending \subseteq Statement /\ req \in [Slots -> Request]
         /\ WrittenOnce /\ RemovedByRequest
  BY DEF AccessInv, TypeOK

LEMMA AbandonedSubset ==
  ASSUME NEW s, NEW w, NEW op \in {"insert", "update"}, NEW k \in Keys,
         NEW left \in Abandoned(s, w, op, k)
  PROVE  left = {} \/ (s = w /\ left = {[op |-> op, key |-> k]})
  BY DEF Abandoned

LEMMA CreateStep == ASSUME AccessInv, NEW k \in Keys, Create(k) PROVE AccessInv'
<1> USE Types
<1>1. CASE StartCreate(k)
  <2>1. /\ creation' = [creation EXCEPT ![k] = "inserting"] /\ creation[k] = "none"
        /\ UNCHANGED <<limiterVars, database, row, removal, pending, req>>
    BY <1>1 DEF StartCreate
  <2>2. creation' \in [Keys -> Creation]
    BY <2>1 DEF Creation
  <2>3. WrittenOnce' /\ RemovedByRequest'
    BY <2>1 DEF WrittenOnce, RemovedByRequest, Sent
  <2> QED BY <2>1, <2>2, <2>3, AdminFrame
<1>2. CASE Insert(k)
  <2>1. /\ creation' = [creation EXCEPT ![k] = "inserted"] /\ creation[k] = "inserting"
        /\ row' = [row EXCEPT ![k] = "enabled"]
        /\ UNCHANGED <<limiterVars, database, removal, pending, req>>
    BY <1>2 DEF Insert
  <2>2. creation' \in [Keys -> Creation]
        /\ row' \in [Keys -> {"absent", "enabled", "disabled"}]
    BY <2>1 DEF Creation
  <2>3. WrittenOnce' /\ RemovedByRequest'
    BY <2>1 DEF WrittenOnce, RemovedByRequest, Sent
  <2> QED BY <2>1, <2>2, <2>3, AdminFrame
<1>3. CASE AnswerCreated(k)
  <2>1. /\ creation' = [creation EXCEPT ![k] = "handed out"] /\ creation[k] = "inserted"
        /\ UNCHANGED <<limiterVars, database, row, removal, pending, req>>
    BY <1>3 DEF AnswerCreated
  <2>2. creation' \in [Keys -> Creation]
    BY <2>1 DEF Creation
  <2>3. WrittenOnce' /\ RemovedByRequest'
    BY <2>1 DEF WrittenOnce, RemovedByRequest, Sent
  <2> QED BY <2>1, <2>2, <2>3, AdminFrame
<1>4. CASE CreateFails(k)
  <2>1. PICK left \in Abandoned(creation[k], "inserting", "insert", k) :
          pending' = pending \cup left
    BY <1>4 DEF CreateFails
  <2>2. /\ creation' = [creation EXCEPT ![k] = "failed"]
        /\ creation[k] \in {"inserting", "inserted"}
        /\ UNCHANGED <<limiterVars, database, row, removal, req>>
    BY <1>4 DEF CreateFails
  <2>3. left = {} \/ (creation[k] = "inserting" /\ left = {[op |-> "insert", key |-> k]})
    BY <2>1, AbandonedSubset
  <2>4. creation' \in [Keys -> Creation] /\ pending' \subseteq Statement
    <3>1. [op |-> "insert", key |-> k] \in Statement
      BY DEF Statement
    <3>2. creation' \in [Keys -> Creation]
      BY <2>2 DEF Creation
    <3> QED BY <2>1, <2>3, <3>1, <3>2
  <2>5. WrittenOnce'
    BY <2>1, <2>2, <2>3 DEF WrittenOnce, Sent
  <2>6. RemovedByRequest'
    BY <2>1, <2>2, <2>3 DEF RemovedByRequest, Sent
  <2> QED BY <2>2, <2>4, <2>5, <2>6, AdminFrame
<1> QED BY <1>1, <1>2, <1>3, <1>4 DEF Create

LEMMA DisabledRow ==
  ASSUME AccessInv, NEW k \in Keys
  PROVE  /\ Disabled(k) \in [Keys -> {"absent", "enabled", "disabled"}]
         /\ Disabled(k)[k] = IF row[k] = "absent" THEN "absent" ELSE "disabled"
         /\ \A j \in Keys : j # k => Disabled(k)[j] = row[j]
  BY Types DEF Disabled

LEMMA RemoveStep == ASSUME AccessInv, NEW k \in Keys, Remove(k) PROVE AccessInv'
<1> USE Types
<1>1. CASE StartRemove(k)
  <2>1. /\ removal' = [removal EXCEPT ![k] = "updating"] /\ removal[k] \in {"none", "failed"}
        /\ UNCHANGED <<limiterVars, database, row, creation, pending, req>>
    BY <1>1 DEF StartRemove
  <2>2. removal' \in [Keys -> Removal]
    BY <2>1 DEF Removal
  <2>3. WrittenOnce' /\ RemovedByRequest'
    BY <2>1 DEF WrittenOnce, RemovedByRequest, Sent
  <2> QED BY <2>1, <2>2, <2>3, AdminFrame
<1>2. CASE Update(k)
  <2>1. /\ row' = Disabled(k) /\ removal[k] = "updating"
        /\ removal' = [removal EXCEPT ![k] = IF row[k] = "absent" THEN "absent" ELSE "updated"]
        /\ UNCHANGED <<limiterVars, database, creation, pending, req>>
    BY <1>2 DEF Update
  <2>2. removal' \in [Keys -> Removal]
    BY <2>1 DEF Removal
  <2>3. WrittenOnce'
    BY <2>1, DisabledRow DEF WrittenOnce, Sent
  <2>4. RemovedByRequest'
    BY <2>1, DisabledRow DEF RemovedByRequest, Sent
  <2> QED BY <2>1, <2>2, <2>3, <2>4, DisabledRow, AdminFrame
<1>3. CASE AnswerRemoved(k)
  <2>1. /\ removal' = [removal EXCEPT ![k] = "done"] /\ removal[k] = "updated"
        /\ UNCHANGED <<limiterVars, database, row, creation, pending, req>>
    BY <1>3 DEF AnswerRemoved
  <2>2. removal' \in [Keys -> Removal]
    BY <2>1 DEF Removal
  <2>3. WrittenOnce' /\ RemovedByRequest'
    BY <2>1 DEF WrittenOnce, RemovedByRequest, Sent
  <2> QED BY <2>1, <2>2, <2>3, AdminFrame
<1>4. CASE AnswerAbsent(k)
  <2>1. /\ removal' = [removal EXCEPT ![k] = "failed"] /\ removal[k] = "absent"
        /\ UNCHANGED <<limiterVars, database, row, creation, pending, req>>
    BY <1>4 DEF AnswerAbsent
  <2>2. removal' \in [Keys -> Removal]
    BY <2>1 DEF Removal
  <2>3. WrittenOnce' /\ RemovedByRequest'
    BY <2>1 DEF WrittenOnce, RemovedByRequest, Sent
  <2> QED BY <2>1, <2>2, <2>3, AdminFrame
<1>5. CASE RemoveFails(k)
  <2>1. PICK left \in Abandoned(removal[k], "updating", "update", k) :
          pending' = pending \cup left
    BY <1>5 DEF RemoveFails
  <2>2. /\ removal' = [removal EXCEPT ![k] = "failed"]
        /\ removal[k] \in {"updating", "updated", "absent"}
        /\ UNCHANGED <<limiterVars, database, row, creation, req>>
    BY <1>5 DEF RemoveFails
  <2>3. left = {} \/ left = {[op |-> "update", key |-> k]}
    BY <2>1, AbandonedSubset
  <2>4. removal' \in [Keys -> Removal] /\ pending' \subseteq Statement
    <3>1. [op |-> "update", key |-> k] \in Statement
      BY DEF Statement
    <3>2. removal' \in [Keys -> Removal]
      BY <2>2 DEF Removal
    <3> QED BY <2>1, <2>3, <3>1, <3>2
  <2>5. WrittenOnce'
    BY <2>1, <2>2, <2>3 DEF WrittenOnce, Sent
  <2>6. RemovedByRequest'
    BY <2>1, <2>2, <2>3 DEF RemovedByRequest, Sent
  <2> QED BY <2>2, <2>4, <2>5, <2>6, AdminFrame
<1> QED BY <1>1, <1>2, <1>3, <1>4, <1>5 DEF Remove

LEMMA LateStep == ASSUME AccessInv, Late PROVE AccessInv'
<1> USE Types
<1>1. ASSUME NEW k \in Keys, LateInsert(k) PROVE AccessInv'
  <2>1. /\ Sent("insert", k) /\ row' = [row EXCEPT ![k] = "enabled"]
        /\ pending' = pending \ {[op |-> "insert", key |-> k]}
        /\ UNCHANGED <<limiterVars, database, creation, removal, req>>
    BY <1>1 DEF LateInsert, Sent
  <2>2. WrittenOnce'
    BY <2>1 DEF WrittenOnce, Sent
  <2>3. RemovedByRequest'
    BY <2>1 DEF WrittenOnce, RemovedByRequest, Sent
  <2> QED BY <2>1, <2>2, <2>3, AdminFrame
<1>2. ASSUME NEW k \in Keys, LateUpdate(k) PROVE AccessInv'
  <2>1. /\ Sent("update", k) /\ row' = Disabled(k)
        /\ pending' = pending \ {[op |-> "update", key |-> k]}
        /\ UNCHANGED <<limiterVars, database, creation, removal, req>>
    BY <1>2 DEF LateUpdate, Sent
  <2>2. WrittenOnce'
    BY <2>1, DisabledRow DEF WrittenOnce, Sent
  <2>3. RemovedByRequest'
    BY <2>1, DisabledRow DEF RemovedByRequest, Sent
  <2> QED BY <2>1, <2>2, <2>3, DisabledRow, AdminFrame
<1>3. ASSUME NEW q \in Statement, LateDropped(q) PROVE AccessInv'
  <2>1. /\ pending' = pending \ {q}
        /\ UNCHANGED <<limiterVars, database, row, creation, removal, req>>
    BY <1>3 DEF LateDropped
  <2>2. WrittenOnce' /\ RemovedByRequest'
    BY <2>1 DEF WrittenOnce, RemovedByRequest, Sent
  <2> QED BY <2>1, <2>2, AdminFrame
<1> QED BY <1>1, <1>2, <1>3 DEF Late

LEMMA DatabaseStep == ASSUME AccessInv, DatabaseDown \/ DatabaseUp PROVE AccessInv'
<1> USE Types
<1>1. /\ database' \in {"up", "down"}
      /\ UNCHANGED <<limiterVars, row, creation, removal, pending, req>>
  BY DEF DatabaseDown, DatabaseUp
<1>2. WrittenOnce' /\ RemovedByRequest'
  BY <1>1 DEF WrittenOnce, RemovedByRequest, Sent
<1> QED BY <1>1, <1>2, AdminFrame

-----------------------------------------------------------------------------
(* The chain of requireVirtualKey. *)

LEMMA ChainStep ==
  ASSUME AccessInv, LimiterTypeOK', NEW s \in Slots, Chain(s) PROVE AccessInv'
<1> USE Types
<1>1. CASE \E k \in Keys : Arrive(s, k)
  <2>1. PICK k \in Keys : Arrive(s, k)
    BY <1>1
  <2> DEFINE new == [at |-> "lookup", key |-> k,
                     revoked |-> removal[k] = "done",
                     valid   |-> creation[k] = "handed out" /\ removal[k] = "none"]
  <2>2. req' = [req EXCEPT ![s] = new] /\ UNCHANGED adminVars
    BY <2>1 DEF Arrive
  <2>3. /\ new \in Request /\ new.at = "lookup" /\ new.key = k
        /\ new.revoked = (removal[k] = "done")
        /\ new.valid = (creation[k] = "handed out" /\ removal[k] = "none")
    BY DEF Request, Stage
  <2> HIDE DEF new
  <2>4. TypeOK' /\ WrittenOnce' /\ RemovedByRequest'
    BY <2>2, <2>3 DEF AccessInv, TypeOK, WrittenOnce, RemovedByRequest, Sent, adminVars
  <2>5. \A t \in Slots : req'[t] = IF t = s THEN new ELSE req[t]
    BY <2>2
  <2>6. GhostsHold' /\ RemovedIsRefused' /\ HandedOutWorks'
    BY <2>2, <2>3, <2>5
    DEF AccessInv, GhostsHold, RemovedIsRefused, HandedOutWorks, adminVars
  <2> QED BY <2>4, <2>6 DEF AccessInv
<1>2. CASE Return(s)
  <2>1. req' = [req EXCEPT ![s] = Free] /\ UNCHANGED adminVars
    BY <1>2 DEF Return
  <2>2. Free \in Request /\ Free.at = "free" /\ ~Free.revoked /\ ~Free.valid
    BY DEF Free, Request, Stage
  <2>3. TypeOK' /\ WrittenOnce' /\ RemovedByRequest'
    BY <2>1, <2>2 DEF AccessInv, TypeOK, WrittenOnce, RemovedByRequest, Sent, adminVars
  <2>4. \A t \in Slots : req'[t] = IF t = s THEN Free ELSE req[t]
    BY <2>1
  <2>5. GhostsHold' /\ RemovedIsRefused' /\ HandedOutWorks'
    BY <2>1, <2>2, <2>4
    DEF AccessInv, GhostsHold, RemovedIsRefused, HandedOutWorks, adminVars
  <2> QED BY <2>3, <2>5 DEF AccessInv
<1>3. ASSUME NEW from \in Stage, NEW to \in Stage, Moves(s, from, to), from # "free",
             req[s].revoked => to \in {"401", "500"},
             to = "401" /\ req[s].valid => removal[req[s].key] # "none"
      PROVE  AccessInv'
  <2> DEFINE new == [req[s] EXCEPT !.at = to]
  <2>1. req' = [req EXCEPT ![s] = new] /\ req[s].at = from /\ UNCHANGED adminVars
    BY <1>3 DEF Moves
  <2>2. /\ new \in Request /\ new.at = to /\ new.key = req[s].key
        /\ new.revoked = req[s].revoked /\ new.valid = req[s].valid
    BY DEF Request
  <2> HIDE DEF new
  <2>3. TypeOK' /\ WrittenOnce' /\ RemovedByRequest'
    BY <2>1, <2>2 DEF AccessInv, TypeOK, WrittenOnce, RemovedByRequest, Sent, adminVars
  <2>4. \A t \in Slots : req'[t] = IF t = s THEN new ELSE req[t]
    BY <2>1
  <2>5. req[s].key \in Keys
    BY <2>1, <1>3 DEF AccessInv, GhostsHold
  <2>6. GhostsHold'
    BY <2>1, <2>2, <2>4, <2>5 DEF AccessInv, GhostsHold, adminVars
  <2>7. RemovedIsRefused' /\ HandedOutWorks'
    BY <1>3, <2>1, <2>2, <2>4 DEF AccessInv, RemovedIsRefused, HandedOutWorks, adminVars
  <2> QED BY <2>3, <2>6, <2>7 DEF AccessInv
<1>4. /\ req[s].revoked => req[s].at \in {"free", "lookup", "401", "500"}
      /\ req[s].revoked => req[s].key \in Keys /\ row[req[s].key] = "disabled"
      /\ req[s].valid /\ row[req[s].key] # "enabled" => removal[req[s].key] # "none"
  BY DEF AccessInv, RemovedIsRefused, RemovedByRequest, GhostsHold
<1>5. {"lookup", "limit", "budget", "through", "401", "402", "429", "500"} \subseteq Stage
  BY DEF Stage
<1>6. CASE LookUp(s)
  <2>1. CASE row[req[s].key] = "enabled"
    <3>1. Moves(s, "lookup", "limit")
      BY <1>6, <2>1 DEF LookUp, Found
    <3> QED BY <2>1, <3>1, <1>3, <1>4, <1>5
  <2>2. CASE row[req[s].key] # "enabled"
    <3>1. Moves(s, "lookup", "401")
      BY <1>6, <2>2 DEF LookUp, Found
    <3> QED BY <2>2, <3>1, <1>3, <1>4, <1>5
  <2> QED BY <2>1, <2>2
<1>7. CASE LookUpFails(s)
  BY <1>7, <1>3, <1>5 DEF LookUpFails
<1>8. CASE AskLimiter(s)
  <2>1. req[s].at = "limit" /\ ~req[s].revoked
    BY <1>8, <1>4 DEF AskLimiter, Moves
  <2>2. Moves(s, "limit", "budget") \/ Moves(s, "limit", "429")
    BY <1>8 DEF AskLimiter
  <2> QED BY <2>1, <2>2, <1>3, <1>5
<1>9. CASE AskBudget(s)
  <2>1. req[s].at = "budget" /\ ~req[s].revoked
    BY <1>9, <1>4 DEF AskBudget, Moves
  <2>2. Moves(s, "budget", "through") \/ Moves(s, "budget", "402")
    BY <1>9 DEF AskBudget
  <2> QED BY <2>1, <2>2, <1>3, <1>5
<1> QED BY <1>1, <1>2, <1>6, <1>7, <1>8, <1>9 DEF Chain

-----------------------------------------------------------------------------
(* The process is started again. *)

LEMMA RestartProcessStep ==
  ASSUME AccessInv, LimiterTypeOK', RestartProcess PROVE AccessInv'
<1> USE Types
<1> DEFINE Asked == [op : {"insert"}, key : {k \in Keys : creation[k] = "inserting"}]
               \cup [op : {"update"}, key : {k \in Keys : removal[k] = "updating"}]
<1>1. /\ req' = [s \in Slots |-> Free] /\ UNCHANGED <<database, row>>
      /\ creation' = [k \in Keys |->
           IF creation[k] \in {"inserting", "inserted"} THEN "failed" ELSE creation[k]]
      /\ removal' = [k \in Keys |->
           IF removal[k] \in {"updating", "updated", "absent"} THEN "failed" ELSE removal[k]]
  BY DEF RestartProcess
<1>2. PICK left \in SUBSET Asked : pending' = pending \cup left
  BY DEF RestartProcess
<1>3. /\ Asked \subseteq Statement
      /\ \A k \in Keys : [op |-> "insert", key |-> k] \in Asked => creation[k] = "inserting"
      /\ \A k \in Keys : [op |-> "update", key |-> k] \in Asked => removal[k] = "updating"
  BY DEF Statement
<1> HIDE DEF Asked
<1>4. \A k \in Keys : /\ Sent("insert", k)' => Sent("insert", k) \/ creation[k] = "inserting"
                      /\ Sent("update", k)' => Sent("update", k) \/ removal[k] = "updating"
  BY <1>2, <1>3 DEF Sent
<1>5. Free \in Request /\ Free.at = "free" /\ ~Free.revoked /\ ~Free.valid
  BY DEF Free, Request, Stage
<1>6. creation' \in [Keys -> Creation] /\ removal' \in [Keys -> Removal]
  BY <1>1 DEF Creation, Removal
<1>7. TypeOK'
  BY <1>1, <1>2, <1>3, <1>5, <1>6 DEF TypeOK
<1>8. WrittenOnce'
  BY <1>1, <1>4 DEF WrittenOnce
<1>9. RemovedByRequest'
  BY <1>1, <1>4 DEF RemovedByRequest
<1>10. GhostsHold' /\ RemovedIsRefused' /\ HandedOutWorks'
  BY <1>1, <1>5 DEF GhostsHold, RemovedIsRefused, HandedOutWorks
<1> QED BY <1>7, <1>8, <1>9, <1>10 DEF AccessInv

LEMMA AccessNextInv == AccessInv /\ LimiterInv /\ [Next]_vars => AccessInv' /\ LimiterInv'
<1> SUFFICES ASSUME AccessInv, LimiterInv, [Next]_vars PROVE AccessInv' /\ LimiterInv'
  OBVIOUS
<1>1. LimiterInv' /\ LimiterTypeOK'
  BY StepSimulates, NextInv DEF LimiterInv
<1>2. ASSUME NEW k \in Keys, Create(k) \/ Remove(k) PROVE AccessInv'
  BY <1>2, CreateStep, RemoveStep
<1>3. ASSUME NEW s \in Slots, Chain(s) PROVE AccessInv'
  BY <1>1, <1>3, ChainStep
<1>4. ASSUME Late PROVE AccessInv'
  BY <1>4, LateStep
<1>5. ASSUME DatabaseDown \/ DatabaseUp PROVE AccessInv'
  BY <1>5, DatabaseStep
<1>6. ASSUME RestartProcess PROVE AccessInv'
  BY <1>1, <1>6, RestartProcessStep
<1>7. ASSUME TickOfClock PROVE AccessInv'
  <2>1. UNCHANGED <<adminVars, req>>
    BY <1>7 DEF TickOfClock
  <2> QED BY <1>1, <2>1, UnchangedAdmin
<1>8. ASSUME UNCHANGED vars PROVE AccessInv'
  <2>1. UNCHANGED <<adminVars, req>>
    BY <1>8 DEF vars
  <2> QED BY <1>1, <2>1, UnchangedAdmin
<1>9. AccessInv'
  BY <1>2, <1>3, <1>4, <1>5, <1>6, <1>7, <1>8 DEF Next
<1> QED BY <1>1, <1>9

-----------------------------------------------------------------------------
(* The theorems. *)

\* The joint invariant of the keys table, the chain and the limiter in it.
THEOREM AccessInvariance == Spec => [](AccessInv /\ LimiterInv)
<1>1. Init => AccessInv /\ LimiterInv
  BY AccessInitInv, InitInv DEF Init
<1> QED BY <1>1, AccessNextInv, PTL DEF Spec

\* The chain uses the limiter as LimiterProofs takes it to be used: what is proved
\* there of LimiterSpec holds of requireVirtualKey.
THEOREM AccessLimits == Spec => LimiterSpec
<1>1. Init => LimiterInit
  BY DEF Init
<1> QED BY <1>1, AccessInvariance, StepSimulates, PTL DEF Spec, LimiterSpec

\* Any window, any rpm, in the whole chain.
THEOREM AccessWindow == Spec => []WindowBound
  BY AccessLimits, WindowBounded, PTL

\* Whatever is looked up, refused, created or restarted around the limiter: who was
\* told 429 and waits a second longer than it said finds a token, if nobody else
\* with the key took it.
THEOREM AccessRetry == Spec => []RetryInTime
  BY AccessLimits, RetriesInTime, PTL

\* Once DELETE has answered 204, a request that comes in later never gets through.
THEOREM RemovedStaysOut == Spec => []RemovedIsRefused
<1>1. AccessInv => RemovedIsRefused
  BY DEF AccessInv
<1> QED BY AccessInvariance, <1>1, PTL

\* A key that was handed out is told 401 only after somebody asked for its removal.
THEOREM HandedOutStaysIn == Spec => []HandedOutWorks
<1>1. AccessInv => HandedOutWorks
  BY DEF AccessInv
<1> QED BY AccessInvariance, <1>1, PTL

\* The tables, the chain's slots and the limiter keep their types.
THEOREM AccessTypeCorrect == Spec => []TypeOK
<1>1. AccessInv => TypeOK
  BY DEF AccessInv
<1> QED BY AccessInvariance, <1>1, PTL
=============================================================================
