------------------------------- MODULE Budget -------------------------------
(***************************************************************************)
(* The monthly budget of a virtual key: budgetTracker (budget.go), asked   *)
(* by requireVirtualKey (auth.go) before a request is proxied and charged  *)
(* by emitEvent (proxy.go) after it.  The check and the charge are two     *)
(* separate visits to an atomic counter, each of which first fetches the   *)
(* counter's pointer under the mutex and uses it after the unlock, and     *)
(* between the two lies the whole exchange with the upstream.              *)
(*                                                                         *)
(* A counter is named by the month its map was made for and its key: the   *)
(* tracker makes one map when the process starts and one at every roll,    *)
(* so a pointer fetched from a map that a roll has since replaced is a     *)
(* `ref' to an earlier month.  An absent entry and an entry at zero are    *)
(* the same counter, because counter() creates it under the mutex.         *)
(*                                                                         *)
(* Time passes in ticks, several to a month.  The tracker takes its months *)
(* from UTC; the query that seeds it takes the beginning of the month from *)
(* the time zone of its Postgres session, which nothing in the code sets:  *)
(* `Cut' says which tick that beginning is.                                *)
(*                                                                         *)
(* The requests table is kept by its sums per tick and key.  A cost that   *)
(* was enqueued is `absent' from the table for as long as its insert is    *)
(* waiting, undecided or lost; the queue itself is in Store.               *)
(***************************************************************************)
EXTENDS Integers, FiniteSets

CONSTANTS
  Keys,        \* virtual keys
  NoKey,       \* the zero authedKey of a handler slot that serves nobody
  Slots,       \* handler goroutines that may run at the same time
  Limit,       \* monthly_budget_micro_usd of each key, 0 for no limit
  Costs,       \* what a request may cost, in micro-USD
  MaxCost,     \* the most one request can cost
  LastTick,    \* the calendar is followed up to this tick
  MonthOf,     \* the UTC month a tick is in
  Cut,         \* what date_trunc('month', now()) is at a tick, in the session's zone
  Keep,        \* retention, in ticks
  FollowUpTo   \* a key is followed while it has cost the month less than this

Times  == 0 .. LastTick
Months == 0 .. MonthOf[LastTick]

ASSUME KeysAssumption  == NoKey \notin Keys
ASSUME SlotsAssumption == IsFiniteSet(Slots)
ASSUME LimitAssumption == Limit \in [Keys -> Nat]
ASSUME CostAssumption  == MaxCost \in Nat /\ Costs \subseteq 0 .. MaxCost /\ 0 \in Costs
ASSUME BoundAssumption == LastTick \in Nat /\ Keep \in Nat /\ FollowUpTo \in [Months -> [Keys -> Nat]]
ASSUME CalendarAssumption ==
  /\ MonthOf \in [Times -> Nat] /\ Cut \in [Times -> Times]
  /\ \A s, t \in Times : s <= t => MonthOf[s] <= MonthOf[t]

VARIABLES
  now,    \* the tick that time.Now() and the database's now() are in
  phase,  \* the process: down, made (tracker built, not seeded), serving
  born,   \* ghost: the month the tracker was built in
  month,  \* budgetTracker.month
  cell,   \* cell[m][k]: the counter of key k in the map made for month m
  seed,   \* ghost: what the counters of the current map started from
  forgot, \* ghost: the bills of a month that a counter was set to less than
  blind,  \* ghost: <<m, k>> for which some seed in m could not see the whole bill
  rows,   \* rows[t][k]: SUM(cost_micro_usd) of the key's rows created at tick t
  absent, \* absent[t][k]: enqueued for tick t and not, or not yet, in the table
  spent,  \* ghost: spent[t][k]: what the answers given at tick t cost
  req     \* what each handler slot is doing

tracker == <<born, month, cell, seed, forgot, blind>>
table   == <<rows, absent, spent>>
vars    == <<now, phase, tracker, table, req>>

Today  == MonthOf[now]
Zero   == [k \in Keys |-> 0]
Nought == [m \in Months |-> Zero]
Blank  == [t \in Times |-> Zero]
Unforgotten == [k \in Keys |-> {}]

\* The sum of a table over the ticks in S, counted one micro-USD at a time: a sum
\* that can be reasoned about as a cardinality.
Total(tab, S, k) == Cardinality(UNION {{t} \X (1 .. tab[t][k]) : t \in S})

\* What the answers given in a UTC month cost.
Ticks(m)        == {t \in Times : MonthOf[t] = m}
MonthBill(m, k) == Total(spent, Ticks(m), k)

(* A handler's progress:
     free       no request
     ask        inside allow(), holding the pointer `ref', before Load()
     upstream   admitted, the exchange with the upstream under way
     built      the Event is built: its cost and its time are fixed
     published  emitEvent has broadcast and enqueued it
     adding     inside add(), holding the pointer `ref', before Add()
   `late' is a ghost: the key's budget was used up when its check began. *)
Stage == {"free", "ask", "upstream", "built", "published", "adding"}
Request == [at : Stage, key : Keys \cup {NoKey}, ref : Months,
            cost : Costs, stamp : Times, late : BOOLEAN]
Free == [at |-> "free", key |-> NoKey, ref |-> 0, cost |-> 0,
         stamp |-> 0, late |-> FALSE]

TypeOK ==
  /\ now \in Times
  /\ phase \in {"down", "made", "serving"}
  /\ born \in Months /\ month \in Months
  /\ cell \in [Months -> [Keys -> Nat]]
  /\ seed \in [Keys -> Nat]
  /\ forgot \in [Months -> [Keys -> SUBSET Nat]]
  /\ blind \subseteq Months \X Keys
  /\ rows \in [Times -> [Keys -> Nat]]
  /\ absent \in [Times -> [Keys -> Nat]]
  /\ spent \in [Times -> [Keys -> Nat]]
  /\ req \in [Slots -> Request]

Init ==
  /\ now = 0
  /\ phase = "down"
  /\ born = Today /\ month = Today
  /\ cell = Nought
  /\ seed = Zero
  /\ forgot = [m \in Months |-> Unforgotten] /\ blind = {}
  /\ rows = Blank /\ absent = Blank /\ spent = Blank
  /\ req = [s \in Slots |-> Free]

-----------------------------------------------------------------------------
(* The process: main() builds the tracker, seeds it, then serves. *)

New ==
  /\ phase = "down"
  /\ phase' = "made"
  /\ born' = Today
  /\ month' = Today
  /\ cell' = Nought
  /\ seed' = Zero
  /\ UNCHANGED <<now, forgot, blind, table, req>>

\* Mutant: the tracker starts from nothing.
SeedNothing == Zero

\* What the query sums: the rows since date_trunc('month', now()).
SeedSum == [k \in Keys |-> Total(rows, {t \in Times : t >= Cut[now]}, k)]

\* Ghost: some of the key's bill for the running month may be out of the seed's
\* sight, before the cut, old enough for retention, or not in the table.
SeedIsBlind(k) ==
  \E t \in Ticks(Today) :
    t <= now /\ (t < Cut[now] \/ t + Keep < now \/ absent[t][k] # 0)

\* Ghost: the running month's counters are set to v.
Forgets(v) ==
  [forgot EXCEPT ![Today] = [k \in Keys |->
     @[k] \cup (IF v[k] < MonthBill(Today, k) THEN {MonthBill(Today, k)} ELSE {})]]

Seed ==
  /\ phase = "made"
  /\ phase' = "serving"
  /\ cell' = [cell EXCEPT ![month] = SeedSum]
  /\ seed' = SeedSum
  /\ forgot' = Forgets(SeedSum)
  /\ blind' = blind \cup {<<Today, k>> : k \in {j \in Keys : SeedIsBlind(j)}}
  /\ UNCHANGED <<now, born, month, table, req>>

\* The seed query fails: main logs it and exits.
SeedFails ==
  /\ phase = "made"
  /\ phase' = "down"
  /\ UNCHANGED <<now, tracker, table, req>>

\* The process ends, by a crash or by a shutdown, with whatever it was doing.
Stop ==
  /\ phase = "serving"
  /\ phase' = "down"
  /\ cell' = Nought
  /\ seed' = Zero
  /\ req' = [s \in Slots |-> Free]
  /\ UNCHANGED <<now, born, month, forgot, blind, table>>

Tick ==
  /\ now < LastTick
  /\ now' = now + 1
  /\ UNCHANGED <<phase, tracker, table, req>>

\* Mutant: the tick zeroes the counters in place instead of making a new map, so
\* that a pointer fetched before it sees the zero.
RollInPlace ==
  /\ phase = "serving"
  /\ month # Today
  /\ month' = Today
  /\ cell' = Nought
  /\ seed' = Zero
  /\ forgot' = Forgets(Zero)
  /\ UNCHANGED <<now, phase, born, blind, table, req>>

\* Mutant: the tick forgets to make a new map.
RollKeepsCounters ==
  /\ phase = "serving"
  /\ month # Today
  /\ month' = Today
  /\ cell' = [cell EXCEPT ![Today] = cell[month]]
  /\ seed' = Zero
  /\ forgot' = Forgets(cell[month])
  /\ UNCHANGED <<now, phase, born, blind, table, req>>

\* Mutant: every tick resets, whatever month it is.
RollEveryTick ==
  /\ phase = "serving"
  /\ month' = Today
  /\ cell' = [cell EXCEPT ![Today] = Zero]
  /\ seed' = Zero
  /\ forgot' = Forgets(Zero)
  /\ UNCHANGED <<now, phase, born, blind, table, req>>

\* A tick of RunMonthlyReset that finds another month: an hourly tick, so any
\* number of requests may run between the turn of the month and this step.
Roll ==
  /\ phase = "serving"
  /\ month # Today
  /\ month' = Today
  /\ cell' = [cell EXCEPT ![Today] = Zero]
  /\ seed' = Zero
  /\ forgot' = Forgets(Zero)
  /\ UNCHANGED <<now, phase, born, blind, table, req>>

-----------------------------------------------------------------------------
(* The check: requireVirtualKey calls allow(). *)

\* The bound of the model: restarts with a blind seed can raise a bill for ever.
Followed(k) == MonthBill(Today, k) < FollowUpTo[Today][k]

\* budget <= 0: admitted without looking at the counter.
AdmitUnlimited(s, k) ==
  /\ phase = "serving" /\ req[s].at = "free"
  /\ Limit[k] = 0 /\ Followed(k)
  /\ req' = [req EXCEPT ![s] = [Free EXCEPT !.at = "upstream", !.key = k]]
  /\ UNCHANGED <<now, phase, tracker, table>>

\* Mutant: a key may use up its budget to the last micro-USD, and then once more.
UsedUpAbove(m, k) == cell[m][k] > Limit[k]

UsedUp(m, k) == cell[m][k] >= Limit[k]

Ask(s, k) ==
  /\ phase = "serving" /\ req[s].at = "free"
  /\ Limit[k] > 0 /\ Followed(k)
  /\ req' = [req EXCEPT ![s] = [Free EXCEPT !.at = "ask", !.key = k,
                                !.ref = month, !.late = UsedUp(month, k)]]
  /\ UNCHANGED <<now, phase, tracker, table>>

Admit(s) ==
  /\ req[s].at = "ask" /\ ~UsedUp(req[s].ref, req[s].key)
  /\ req' = [req EXCEPT ![s].at = "upstream"]
  /\ UNCHANGED <<now, phase, tracker, table>>

\* 402, and the handler is done.
Refuse(s) ==
  /\ req[s].at = "ask" /\ UsedUp(req[s].ref, req[s].key)
  /\ req' = [req EXCEPT ![s] = Free]
  /\ UNCHANGED <<now, phase, tracker, table>>

-----------------------------------------------------------------------------
(* The exchange and emitEvent. *)

\* 400 or 500 before anything is sent upstream: no Event, no charge.
BadRequest(s) ==
  /\ req[s].at = "upstream"
  /\ req' = [req EXCEPT ![s] = Free]
  /\ UNCHANGED <<now, phase, tracker, table>>

\* The exchange ends, well or badly: the handler builds its Event.
Answer(s, c) ==
  /\ req[s].at = "upstream"
  /\ req' = [req EXCEPT ![s].at = "built", ![s].cost = c, ![s].stamp = now]
  /\ UNCHANGED <<now, phase, tracker, table>>

\* Mutant: the sign is lost.
PlusSubtracts(tab, i, k, c) == [tab EXCEPT ![i][k] = @ - c]

Plus(tab, i, k, c) == [tab EXCEPT ![i][k] = @ + c]

\* hub.Broadcast and store.Enqueue: the cost is due to the table from here on.
Publish(s) ==
  /\ req[s].at = "built"
  /\ spent'  = Plus(spent, req[s].stamp, req[s].key, req[s].cost)
  /\ absent' = Plus(absent, req[s].stamp, req[s].key, req[s].cost)
  /\ req' = [req EXCEPT ![s].at = "published"]
  /\ UNCHANGED <<now, phase, tracker, rows>>

\* budget.add: nothing to do for a request that cost nothing.
AddNothing(s) ==
  /\ req[s].at = "published" /\ req[s].cost = 0
  /\ req' = [req EXCEPT ![s] = Free]
  /\ UNCHANGED <<now, phase, tracker, table>>

FetchCounter(s) ==
  /\ req[s].at = "published" /\ req[s].cost # 0
  /\ req' = [req EXCEPT ![s].at = "adding", ![s].ref = month]
  /\ UNCHANGED <<now, phase, tracker, table>>

\* Mutant: the cost is added once by the handler and once by emitEvent.
AddTwice(s) ==
  /\ req[s].at = "adding"
  /\ cell' = Plus(cell, req[s].ref, req[s].key, 2 * req[s].cost)
  /\ req' = [req EXCEPT ![s] = Free]
  /\ UNCHANGED <<now, phase, born, month, seed, forgot, blind, table>>

Add(s) ==
  /\ req[s].at = "adding"
  /\ cell' = Plus(cell, req[s].ref, req[s].key, req[s].cost)
  /\ req' = [req EXCEPT ![s] = Free]
  /\ UNCHANGED <<now, phase, born, month, seed, forgot, blind, table>>

-----------------------------------------------------------------------------
(* The table. *)

\* An insert is committed: at once, after it was reported as timed out, or even in
\* the lifetime of a later process.  A cost whose insert failed, was dropped at a
\* full queue or died with the process stays absent.
Commit(t, k, c) ==
  /\ 0 < c /\ c <= absent[t][k]
  /\ absent' = [absent EXCEPT ![t][k] = @ - c]
  /\ rows' = Plus(rows, t, k, c)
  /\ UNCHANGED <<now, phase, tracker, spent, req>>

Old(t) == t + Keep < now

\* A tick of RunRetention that finds something to delete.
Sweep ==
  /\ phase = "serving"
  /\ \E t \in Times : Old(t) /\ rows[t] # Zero
  /\ rows' = [t \in Times |-> IF Old(t) THEN Zero ELSE rows[t]]
  /\ UNCHANGED <<now, phase, tracker, absent, spent, req>>

-----------------------------------------------------------------------------
Check(s)    == (\E k \in Keys : AdmitUnlimited(s, k) \/ Ask(s, k))
                 \/ Admit(s) \/ Refuse(s)
Emit(s)     == Publish(s) \/ AddNothing(s) \/ FetchCounter(s) \/ Add(s)
Exchange(s) == BadRequest(s) \/ (\E c \in Costs : Answer(s, c))
Process     == New \/ Seed \/ SeedFails \/ Stop
Log         == Sweep \/ (\E t \in Times, k \in Keys, c \in Costs : Commit(t, k, c))

Next ==
  \/ Process \/ Tick \/ Roll \/ Log
  \/ \E s \in Slots : Check(s) \/ Exchange(s) \/ Emit(s)

\* The ticker keeps ticking.  Nothing is assumed of the upstream (http.Client
\* has no timeout), of the clients, of the calendar, or of the process staying up.
Fairness == WF_vars(Roll)

Spec == Init /\ [][Next]_vars /\ Fairness

-----------------------------------------------------------------------------
(* Properties *)

\* Requests of key k that may still be charged to the current counter without
\* another look at it: admitted and not yet charged, or about to be admitted
\* by a pointer to a counter that a roll has thrown away.
Open(k) == {s \in Slots :
  /\ req[s].key = k
  /\ \/ req[s].at \in {"upstream", "built", "published"}
     \/ req[s].at = "adding" /\ req[s].ref = month
     \/ req[s].at = "ask" /\ req[s].ref # month}

\* The most a budget of b can be spent to: the last micro-USD below it is free
\* and then every slot at once is charged the dearest request.
Cap(b) == b - 1 + MaxCost * Cardinality(Slots)

\* The cap is soft but bounded (the comment of budget.go: a group of concurrent
\* requests may pass together and go over the budget "a little").  However
\* checks, charges, rolls and restarts interleave, a counter exceeds its budget
\* by less than one dearest request per concurrent handler, unless the seed
\* alone was already over.
Overshoot ==
  \A k \in Keys : Limit[k] > 0 =>
    cell[month][k] <= (IF seed[k] >= Limit[k] THEN seed[k] ELSE Cap(Limit[k]))

\* The inductive form: what open requests may still add is within the cap, and a
\* key that was seeded over its budget has no open request at all.
OvershootFor(k) ==
  IF seed[k] >= Limit[k]
    THEN cell[month][k] = seed[k] /\ Open(k) = {}
    ELSE cell[month][k] + MaxCost * Cardinality(Open(k)) <= Cap(Limit[k])
OvershootInv == \A k \in Keys : Limit[k] > 0 => OvershootFor(k)

\* The rest of the induction.  A slot that serves a key holds a pointer to the
\* current map or an older one, never a newer one, which is why Roll's empty map
\* is nobody's yet; a process that is not serving has no handlers.
RefsInPast ==
  /\ month <= Today
  /\ \A s \in Slots : req[s].ref <= month
BusyHasKey == \A s \in Slots : req[s].at # "free" => req[s].key \in Keys
QuietUnlessServing == phase # "serving" => \A s \in Slots : req[s] = Free
\* A late check reads a counter that is still at its budget: within one map a
\* counter never falls.
LateStaysLate ==
  \A s \in Slots : req[s].late =>
    req[s].at = "ask" /\ UsedUp(req[s].ref, req[s].key)

IInv == TypeOK /\ RefsInPast /\ BusyHasKey /\ QuietUnlessServing
          /\ OvershootInv /\ LateStaysLate

\* "The NEXT request after the crossing is refused" (the comment of budget.go):
\* a request whose check begins when the counter has reached the budget is
\* never let through, whatever is charged, rolled or restarted meanwhile.
LateIsRefused ==
  \A s \in Slots : req[s].late => req[s].at = "ask"

\* What the requests r of the slots S cost together, counted one micro-USD at a
\* time like Total.
Spent(r, S) ==
  Cardinality({c \in S \X (1 .. MaxCost) : c[2] <= r[c[1]].cost})

\* The handlers of key k that emitEvent has enqueued a cost for and that have not
\* yet added it to a counter.
Unadded(k) == {s \in Slots : req[s].key = k /\ req[s].at \in {"published", "adding"}}
OnItsWay(k) == Spent(req, Unadded(k))

\* What a key's answers of a month cost together, in truth and not by what the log
\* has kept of it, is at most one cap, and one more for every time in the month that
\* a counter was set to less than the key had already cost: by the tick that notices
\* the new month late, or by a seed that does not see everything.
MonthlyCap ==
  \A m \in Months, k \in Keys :
    Limit[k] > 0 => MonthBill(m, k) <= Cap(Limit[k]) * (1 + Cardinality(forgot[m][k]))

\* And that happens once at most, at the tick, however often the process crashes and
\* starts again, unless some seed of the month was blind: to a cost that was not in
\* the table yet or never got there, to the days before its cut where the zone of
\* the session is ahead of UTC, or to those that retention had reached.
ForgetsOnce ==
  \A m \in Months, k \in Keys : <<m, k>> \notin blind => Cardinality(forgot[m][k]) <= 1

\* A restart whose seed was not blind forgets nothing: when the process was started
\* in the running month, all that the month has cost is in the counter, by the seed
\* or by add, or on its way there.
SeededInFull ==
  phase = "serving" /\ born = Today =>
    \A k \in Keys : <<Today, k>> \notin blind =>
      MonthBill(Today, k) <= cell[Today][k] + OnItsWay(k)

\* The tracker holds the spending of the running month in memory (budget.go:12).
\* The code breaks it for a process that lives through the turn of the month: what
\* was charged between the turn and the next tick is thrown away by the tick.
HoldsThisMonth ==
  phase = "serving" /\ born < Today /\ month = Today =>
    \A k \in Keys : MonthBill(Today, k) <= cell[Today][k] + OnItsWay(k)

(* What makes MonthlyCap, ForgetsOnce and SeededInFull inductive, beside IInv:  *)
(* how the bills and the counters keep up with each other.                      *)

\* Nothing is spent or forgotten before its time, and a process charges no map
\* older than itself.
PastOnly ==
  /\ born <= month
  /\ \A t \in Times : t > now => spent[t] = Zero
  /\ \A m \in Months : m > Today => forgot[m] = Unforgotten
  /\ \A s \in Slots : /\ req[s].stamp <= now
                      /\ req[s].at = "adding" => req[s].ref >= born

\* What retention cannot have touched is in the table or absent from it.
Accounted ==
  \A t \in Times, k \in Keys :
    ~Old(t) => rows[t][k] + absent[t][k] = spent[t][k]

\* Before the tick of the month nothing of it is forgotten.
NothingForgottenYet ==
  phase # "down" /\ month < Today =>
    \A k \in Keys : <<Today, k>> \notin blind => forgot[Today][k] = {}

\* Costs of month m fixed but not yet published, and costs published but not yet in
\* the current counter of their key.
Unlogged(m, k) == {s \in Slots : /\ req[s].at = "built"
                                 /\ req[s].key = k /\ MonthOf[req[s].stamp] = m}
Due(k) == {s \in Slots : /\ req[s].key = k
                         /\ \/ req[s].at = "published"
                            \/ req[s].at = "adding" /\ req[s].ref = month}

\* Room for what is fixed is kept in every month, past ones included: a request
\* may be held up for months between its Event and emitEvent.
RoomInMonth(m, k) ==
  MonthBill(m, k) + MaxCost * Cardinality(Unlogged(m, k))
    <= Cap(Limit[k]) * (1 + Cardinality(forgot[m][k]))

\* The running month's bill is in the current counter or on its way there, all but
\* one cap for every time that something of it was forgotten.
CounterBehind(k) ==
  MonthBill(Today, k)
    <= Cap(Limit[k]) * Cardinality(forgot[Today][k]) + cell[month][k] + Spent(req, Due(k))

\* A bill that a counter was set to less than is covered by the caps granted for
\* the bills forgotten so far, itself included: forgetting it again costs no more.
ForgottenBills(m, k) ==
  /\ IsFiniteSet(forgot[m][k])
  /\ \A n \in forgot[m][k] : n <= Cap(Limit[k]) * Cardinality(forgot[m][k])

BillFor(k) ==
  /\ \A m \in Months : RoomInMonth(m, k) /\ ForgottenBills(m, k)
  /\ phase = "serving" => CounterBehind(k)
TableInv == /\ PastOnly /\ Accounted /\ NothingForgottenYet
            /\ SeededInFull /\ ForgetsOnce
            /\ \A k \in Keys : Limit[k] > 0 => BillFor(k)

\* A key over its budget is usable again after the turn of the month without a
\* restart: the hourly tick sees to it, whatever requests and charges do meanwhile.
UnblockedByNewMonth ==
  \A k \in Keys :
    (phase = "serving" /\ month # Today /\ Limit[k] > 0 /\ UsedUp(month, k))
      ~> (phase # "serving" \/ ~UsedUp(month, k))
=============================================================================
