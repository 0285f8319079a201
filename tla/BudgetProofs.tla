---------------------------- MODULE BudgetProofs ----------------------------
(***************************************************************************)
(* Proofs about Budget, for any keys, budgets, costs and number of         *)
(* handlers: the types, the bound on the overshoot, and that a check that  *)
(* begins after the crossing is refused.                                   *)
(***************************************************************************)
EXTENDS Budget, FiniteSetTheorems, TLAPS

LEMMA Calendar ==
  /\ Times \subseteq Nat /\ 0 \in Times /\ LastTick \in Times /\ IsFiniteSet(Times)
  /\ Months \subseteq Nat /\ 0 \in Months
  /\ \A t \in Times : MonthOf[t] \in Months /\ MonthOf[t] \in Nat
<1>1. Times \subseteq Nat /\ 0 \in Times /\ LastTick \in Times
  BY BoundAssumption DEF Times
<1>2. IsFiniteSet(Times)
  BY BoundAssumption, FS_Interval DEF Times
<1>3. \A t \in Times : t <= LastTick
  BY BoundAssumption DEF Times
<1>4. \A t \in Times : MonthOf[t] \in Nat /\ MonthOf[t] <= MonthOf[LastTick]
  BY <1>1, <1>3, CalendarAssumption
<1> QED BY <1>1, <1>2, <1>4 DEF Months

LEMMA FreeIsRequest == Free \in Request /\ Zero \in [Keys -> Nat]
                         /\ 0 \in Months /\ Months \subseteq Nat /\ Costs \subseteq Nat
                         /\ \A c \in Costs : c <= MaxCost
  BY CostAssumption, Calendar DEF Free, Request, Stage, Zero

LEMMA NoughtType == Nought \in [Months -> [Keys -> Nat]] /\ Blank \in [Times -> [Keys -> Nat]]
  BY FreeIsRequest DEF Nought, Blank

\* Plus changes one entry of a table, and by as much as it says.
LEMMA PlusType ==
  ASSUME NEW I, NEW tab \in [I -> [Keys -> Nat]],
         NEW i \in I, NEW k \in Keys, NEW c \in Nat
  PROVE  Plus(tab, i, k, c) \in [I -> [Keys -> Nat]]
  BY DEF Plus

LEMMA PlusEntry ==
  ASSUME NEW I, NEW tab \in [I -> [Keys -> Nat]],
         NEW i \in I, NEW k \in Keys, NEW c \in Nat,
         NEW n \in I, NEW j \in Keys
  PROVE  Plus(tab, i, k, c)[n][j] =
           IF n = i /\ j = k THEN tab[n][j] + c ELSE tab[n][j]
  BY DEF Plus

LEMMA PlusCounter ==
  ASSUME NEW tab \in [Months -> [Keys -> Nat]],
         NEW i \in Months, NEW k \in Keys, NEW c \in Nat,
         NEW n \in Months, NEW j \in Keys
  PROVE  Plus(tab, i, k, c)[n][j] =
           IF n = i /\ j = k THEN tab[n][j] + c ELSE tab[n][j]
  BY DEF Plus

-----------------------------------------------------------------------------
(* Total is a sum: the micro-USD of a table over some ticks, as a set.       *)

Coins(tab, S, k) == UNION {{t} \X (1 .. tab[t][k]) : t \in S}

LEMMA CoinsAre ==
  ASSUME NEW tab, NEW S, NEW k
  PROVE  \A c : c \in Coins(tab, S, k)
                 <=> \E t \in S : \E i \in 1 .. tab[t][k] : c = <<t, i>>
  BY DEF Coins

LEMMA TotalNat ==
  ASSUME NEW tab \in [Times -> [Keys -> Nat]], NEW S \in SUBSET Times, NEW k \in Keys
  PROVE  IsFiniteSet(Coins(tab, S, k)) /\ Total(tab, S, k) \in Nat
<1> DEFINE P(t) == {t} \X (1 .. tab[t][k])
           Parts == {P(t) : t \in S}
           f == [t \in S |-> P(t)]
<1>1. IsFiniteSet(S)
  BY Calendar, FS_Subset
<1>2. f \in Surjection(S, Parts)
  BY DEF Surjection
<1>3. IsFiniteSet(Parts)
  <2> HIDE DEF f, Parts
  <2> QED BY <1>1, <1>2, FS_Surjection
<1>4. ASSUME NEW t \in S PROVE IsFiniteSet(P(t))
  <2>1. tab[t][k] \in Int
    OBVIOUS
  <2>2. IsFiniteSet(1 .. tab[t][k])
    BY <2>1, FS_Interval
  <2>3. IsFiniteSet({t})
    BY FS_Singleton
  <2> QED BY <2>2, <2>3, FS_Product
<1>5. \A X \in Parts : IsFiniteSet(X)
  BY <1>4
<1>6. IsFiniteSet(UNION Parts)
  <2> HIDE DEF Parts
  <2> QED BY <1>3, <1>5, FS_UNION
<1>7. Coins(tab, S, k) = UNION Parts
  BY DEF Coins
<1>8. Total(tab, S, k) = Cardinality(Coins(tab, S, k))
  BY DEF Total, Coins
<1> HIDE DEF Parts
<1> QED BY <1>6, <1>7, <1>8, FS_CardinalityType

\* What setting the running month's counters to v does to the ghost.
LEMMA ForgetsEntry ==
  ASSUME TypeOK, NEW v
  PROVE  /\ Forgets(v) \in [Months -> [Keys -> SUBSET Nat]]
         /\ \A m \in Months, k \in Keys :
              Forgets(v)[m][k] = IF m = Today /\ v[k] < MonthBill(m, k)
                                   THEN forgot[m][k] \cup {MonthBill(m, k)}
                                   ELSE forgot[m][k]
<1> DEFINE new == [k \in Keys |-> forgot[Today][k] \cup
                    (IF v[k] < MonthBill(Today, k) THEN {MonthBill(Today, k)} ELSE {})]
<1>1. Today \in Months
  BY Calendar DEF TypeOK, Today
<1>2. \A k \in Keys : MonthBill(Today, k) \in Nat
  BY TotalNat DEF MonthBill, Ticks, TypeOK
<1>3. Forgets(v) = [forgot EXCEPT ![Today] = new]
  BY DEF Forgets
<1>4. forgot \in [Months -> [Keys -> SUBSET Nat]] /\ forgot[Today] \in [Keys -> SUBSET Nat]
  BY <1>1 DEF TypeOK
<1>5. new \in [Keys -> SUBSET Nat]
  BY <1>2, <1>4
<1>6. \A k \in Keys : new[k] = IF v[k] < MonthBill(Today, k)
                                 THEN forgot[Today][k] \cup {MonthBill(Today, k)}
                                 ELSE forgot[Today][k]
  OBVIOUS
<1> HIDE DEF new
<1>7. Forgets(v) \in [Months -> [Keys -> SUBSET Nat]]
  BY <1>3, <1>4, <1>5
<1>8. \A m \in Months : Forgets(v)[m] = IF m = Today THEN new ELSE forgot[m]
  BY <1>1, <1>3, <1>4
<1> QED BY <1>6, <1>7, <1>8

LEMMA SeedSumType == TypeOK => SeedSum \in [Keys -> Nat]
  BY TotalNat DEF SeedSum, TypeOK

LEMMA InitType == Init => TypeOK
<1> SUFFICES ASSUME Init PROVE TypeOK
  OBVIOUS
<1>1. 0 \in Times /\ MonthOf[0] \in Months
  BY Calendar
<1> QED BY <1>1, FreeIsRequest, NoughtType DEF Init, TypeOK, Today, Unforgotten

USE DEF tracker, table

LEMMA NextType == TypeOK /\ BusyHasKey /\ [Next]_vars => TypeOK'
<1> SUFFICES ASSUME TypeOK, BusyHasKey, [Next]_vars PROVE TypeOK'
  OBVIOUS
<1> USE FreeIsRequest, NoughtType DEF TypeOK
<1>t. Today \in Months
  BY Calendar DEF Today
<1>1. CASE New
  BY <1>1, <1>t DEF New
<1>2. CASE Seed
  <2>1. forgot' \in [Months -> [Keys -> SUBSET Nat]] /\ SeedSum \in [Keys -> Nat]
    BY <1>2, ForgetsEntry, SeedSumType DEF Seed
  <2>2. blind' \subseteq Months \X Keys
    BY <1>2, <1>t DEF Seed
  <2> QED BY <1>2, <2>1, <2>2 DEF Seed
<1>3. CASE SeedFails
  BY <1>3 DEF SeedFails
<1>4. CASE Stop
  BY <1>4 DEF Stop
<1>5. CASE Tick
  <2>1. now' \in Times
    BY <1>5, BoundAssumption DEF Tick, Times
  <2> QED BY <1>5, <2>1 DEF Tick
<1>6. CASE Roll
  <2>1. forgot' \in [Months -> [Keys -> SUBSET Nat]]
    BY <1>6, ForgetsEntry DEF Roll
  <2> QED BY <1>6, <1>t, <2>1 DEF Roll
<1>7. ASSUME NEW s \in Slots, Check(s) PROVE TypeOK'
  <2>1. ASSUME NEW k \in Keys, AdmitUnlimited(s, k) PROVE TypeOK'
    BY <2>1 DEF AdmitUnlimited, Request, Stage, Free
  <2>2. ASSUME NEW k \in Keys, Ask(s, k) PROVE TypeOK'
    <3>1. UsedUp(month, k) \in BOOLEAN
      BY LimitAssumption DEF UsedUp
    <3>2. [Free EXCEPT !.at = "ask", !.key = k, !.ref = month,
                       !.late = UsedUp(month, k)] \in Request
      BY <3>1 DEF Request, Stage, Free
    <3> QED BY <2>2, <3>2 DEF Ask
  <2>3. CASE Admit(s)
    BY <2>3 DEF Admit, Request, Stage
  <2>4. CASE Refuse(s)
    BY <2>4 DEF Refuse
  <2> QED BY <1>7, <2>1, <2>2, <2>3, <2>4 DEF Check
<1>8. ASSUME NEW s \in Slots, Exchange(s) PROVE TypeOK'
  <2>1. CASE BadRequest(s)
    BY <2>1 DEF BadRequest
  <2>2. ASSUME NEW c \in Costs, Answer(s, c) PROVE TypeOK'
    BY <2>2 DEF Answer, Request, Stage
  <2> QED BY <1>8, <2>1, <2>2 DEF Exchange
<1>9. ASSUME NEW s \in Slots, Emit(s) PROVE TypeOK'
  <2>1. CASE Publish(s)
    <3>1. /\ req[s].key \in Keys /\ req[s].stamp \in Times /\ req[s].cost \in Nat
          /\ req' \in [Slots -> Request]
      BY <2>1 DEF Publish, BusyHasKey, Request, Stage
    <3>2. spent' \in [Times -> [Keys -> Nat]] /\ absent' \in [Times -> [Keys -> Nat]]
      BY <2>1, <3>1, PlusType DEF Publish
    <3> QED BY <2>1, <3>1, <3>2 DEF Publish
  <2>2. CASE AddNothing(s)
    BY <2>2 DEF AddNothing
  <2>3. CASE FetchCounter(s)
    BY <2>3 DEF FetchCounter, Request, Stage
  <2>4. CASE Add(s)
    <3>1. req[s].key \in Keys /\ req[s].ref \in Months /\ req[s].cost \in Nat
      BY <2>4 DEF Add, BusyHasKey, Request
    <3>2. cell' \in [Months -> [Keys -> Nat]]
      BY <2>4, <3>1, PlusType DEF Add
    <3> QED BY <2>4, <3>2 DEF Add
  <2> QED BY <1>9, <2>1, <2>2, <2>3, <2>4 DEF Emit
<1>10. CASE UNCHANGED vars
  BY <1>10 DEF vars
<1>11. CASE Sweep
  BY <1>11 DEF Sweep
<1>12. ASSUME NEW t \in Times, NEW k \in Keys, NEW c \in Costs, Commit(t, k, c)
       PROVE  TypeOK'
  <2>1. c \in Nat
    OBVIOUS
  <2>2. rows' \in [Times -> [Keys -> Nat]]
    BY <1>12, <2>1, PlusType DEF Commit
  <2>3. absent' \in [Times -> [Keys -> Nat]]
    BY <1>12, <2>1 DEF Commit
  <2> QED BY <1>12, <2>2, <2>3 DEF Commit
<1> QED
  BY <1>1, <1>2, <1>3, <1>4, <1>5, <1>6, <1>7, <1>8, <1>9, <1>10, <1>11, <1>12
     DEF Next, Process, Log

-----------------------------------------------------------------------------
(* Counting open requests. *)

LEMMA SlotCount ==
  /\ Cardinality(Slots) \in Nat
  /\ \A S \in SUBSET Slots :
       IsFiniteSet(S) /\ Cardinality(S) \in Nat /\ Cardinality(S) <= Cardinality(Slots)
  BY SlotsAssumption, FS_Subset, FS_CardinalityType

LEMMA CostMonotone ==
  \A a, b \in Nat : /\ MaxCost * a \in Nat
                    /\ a <= b => MaxCost * a <= MaxCost * b
                    /\ MaxCost * (a + 1) = MaxCost * a + MaxCost
  BY CostAssumption

LEMMA OpenSubset == \A k : Open(k) \in SUBSET Slots /\ Open(k)' \in SUBSET Slots
  BY DEF Open

LEMMA CounterNat == TypeOK => \A m \in Months, k \in Keys : cell[m][k] \in Nat
  BY DEF TypeOK

LEMMA CapAbove ==
  ASSUME NEW k \in Keys, Limit[k] > 0, NEW S \in SUBSET Slots
  PROVE  /\ MaxCost * Cardinality(S) \in Nat
         /\ Cap(Limit[k]) \in Nat
         /\ Limit[k] - 1 + MaxCost * Cardinality(S) <= Cap(Limit[k])
  BY SlotCount, CostMonotone, LimitAssumption DEF Cap

\* A key whose counter and seed a step leaves alone, and to which it adds no
\* open request, keeps its bound.
LEMMA FewerOpen ==
  ASSUME TypeOK, TypeOK', NEW k \in Keys, Limit[k] > 0, OvershootFor(k),
         seed'[k] = seed[k], cell'[month'][k] = cell[month][k],
         Open(k)' \subseteq Open(k)
  PROVE  OvershootFor(k)'
<1>1. CASE seed[k] >= Limit[k]
  BY <1>1 DEF OvershootFor
<1>2. CASE ~(seed[k] >= Limit[k])
  <2>1. Cardinality(Open(k)') <= Cardinality(Open(k))
    BY OpenSubset, SlotCount, FS_Subset
  <2>2. MaxCost * Cardinality(Open(k)') <= MaxCost * Cardinality(Open(k))
    BY <2>1, OpenSubset, SlotCount, CostMonotone
  <2>3. /\ MaxCost * Cardinality(Open(k)') \in Nat /\ MaxCost * Cardinality(Open(k)) \in Nat
        /\ cell[month][k] \in Nat /\ Cap(Limit[k]) \in Nat
    <3>1. month \in Months
      BY DEF TypeOK
    <3> QED BY <3>1, CounterNat, OpenSubset, CapAbove
  <2> QED BY <1>2, <2>2, <2>3 DEF OvershootFor
<1> QED BY <1>1, <1>2

\* A counter that starts, from the seed or from nothing, with no more open
\* requests than there are slots, is within its bound.
LEMMA FreshCounter ==
  ASSUME TypeOK', NEW k \in Keys, Limit[k] > 0,
         cell'[month'][k] = seed'[k],
         seed'[k] = 0 \/ Open(k)' = {}
  PROVE  OvershootFor(k)'
<1>1. seed'[k] \in Nat /\ Limit[k] \in Nat
  BY LimitAssumption DEF TypeOK
<1>2. CASE seed'[k] = 0
  <2>1. MaxCost * Cardinality(Open(k)') \in Nat
        /\ Limit[k] - 1 + MaxCost * Cardinality(Open(k)') <= Cap(Limit[k])
    BY OpenSubset, CapAbove
  <2> QED BY <1>1, <1>2, <2>1, CapAbove DEF OvershootFor
<1>3. CASE Open(k)' = {}
  <2>1. MaxCost * Cardinality({}) = 0
    BY FS_EmptySet, CostAssumption
  <2>2. Limit[k] - 1 + MaxCost * Cardinality({}) <= Cap(Limit[k]) /\ Cap(Limit[k]) \in Nat
    BY CapAbove
  <2> QED BY <1>1, <1>3, <2>1, <2>2 DEF OvershootFor
<1> QED BY <1>2, <1>3

LEMMA Fields ==
  ASSUME TypeOK
  PROVE  /\ now \in Nat /\ now \in Times /\ month \in Nat /\ month \in Months
         /\ Today \in Nat /\ Today \in Months
         /\ \A s \in Slots : /\ req[s].ref \in Months /\ req[s].ref \in Nat
                             /\ req[s].stamp \in Times /\ req[s].stamp \in Nat
                             /\ req[s].cost \in Nat /\ req[s].cost <= MaxCost
                             /\ req[s].late \in BOOLEAN
<1>1. /\ now \in Nat /\ now \in Times /\ month \in Nat /\ month \in Months
      /\ Today \in Nat /\ Today \in Months
  BY Calendar DEF TypeOK, Today
<1>2. ASSUME NEW s \in Slots
      PROVE  /\ req[s].ref \in Months /\ req[s].ref \in Nat
             /\ req[s].stamp \in Times /\ req[s].stamp \in Nat
             /\ req[s].cost \in Nat /\ req[s].cost <= MaxCost
             /\ req[s].late \in BOOLEAN
  <2>1. req[s] \in Request
    BY DEF TypeOK
  <2>2. req[s].ref \in Months /\ req[s].stamp \in Times
        /\ req[s].cost \in Costs /\ req[s].late \in BOOLEAN
    BY <2>1 DEF Request
  <2> QED BY <2>2, FreeIsRequest, Calendar
<1> QED BY <1>1, <1>2

-----------------------------------------------------------------------------
(* Every step preserves the invariant: first the steps of the process and of *)
(* the calendar, then those of a handler.                                    *)

Rest == RefsInPast /\ BusyHasKey /\ QuietUnlessServing /\ LateStaysLate

LEMMA InitInv == Init => IInv
<1> SUFFICES ASSUME Init PROVE IInv
  OBVIOUS
<1>1. TypeOK
  BY InitType
<1>2. Rest
  BY <1>1, Fields DEF Init, Rest, RefsInPast, BusyHasKey, QuietUnlessServing,
                       LateStaysLate, Free
<1>3. OvershootInv
  <2> SUFFICES ASSUME NEW k \in Keys, Limit[k] > 0 PROVE OvershootFor(k)
    BY DEF OvershootInv
  <2>1. cell[month][k] = 0 /\ seed[k] = 0 /\ Open(k) = {}
    BY <1>1, Fields DEF Init, Nought, Zero, Open, Free
  <2>2. MaxCost * Cardinality({}) = 0
    BY FS_EmptySet, CostAssumption
  <2>3. Limit[k] - 1 + MaxCost * Cardinality({}) <= Cap(Limit[k]) /\ Cap(Limit[k]) \in Nat
    BY CapAbove
  <2> QED BY <2>1, <2>2, <2>3, LimitAssumption DEF OvershootFor
<1> QED BY <1>1, <1>2, <1>3 DEF IInv, Rest

\* While nothing is served every handler slot is free, so nothing is open.
LEMMA NothingOpen ==
  ASSUME NEW k \in Keys, \A s \in Slots : req'[s] = Free
  PROVE  Open(k)' = {}
  BY DEF Open, Free

LEMMA ProcessStep ==
  ASSUME IInv, TypeOK', Process
  PROVE  Rest' /\ OvershootInv'
<1> USE FreeIsRequest DEF IInv, TypeOK
<1>1. /\ \A s \in Slots : req'[s] = Free
      /\ month' <= Today'
      /\ \A k \in Keys : cell'[month'][k] = seed'[k] \/ UNCHANGED <<cell, month, seed>>
  <2>t. now' = now => Today' = Today
    BY DEF Today
  <2>1. CASE New
    BY <2>1, <2>t, Fields DEF New, Nought, Zero, QuietUnlessServing
  <2>2. CASE Seed
    BY <2>2, <2>t DEF Seed, QuietUnlessServing, RefsInPast
  <2>3. CASE SeedFails
    BY <2>3, <2>t DEF SeedFails, QuietUnlessServing, RefsInPast
  <2>4. CASE Stop
    BY <2>4, <2>t DEF Stop, Nought, Zero, RefsInPast
  <2> QED BY <2>1, <2>2, <2>3, <2>4 DEF Process
<1>2. Rest'
  BY <1>1 DEF Rest, RefsInPast, BusyHasKey, QuietUnlessServing, LateStaysLate,
              Free
<1>3. OvershootInv'
  <2> SUFFICES ASSUME NEW k \in Keys, Limit[k] > 0 PROVE OvershootFor(k)'
    BY DEF OvershootInv
  <2>1. Open(k)' = {}
    BY <1>1, NothingOpen
  <2>2. CASE cell'[month'][k] = seed'[k]
    BY <2>1, <2>2, FreshCounter
  <2>3. CASE UNCHANGED <<cell, month, seed>>
    BY <2>1, <2>3, FewerOpen DEF OvershootInv
  <2> QED BY <1>1, <2>2, <2>3
<1> QED BY <1>2, <1>3

\* The steps that leave the tracker and the handlers alone: the calendar's, and
\* those of the table.
LEMMA OutsideStep ==
  ASSUME IInv, TypeOK', UNCHANGED <<phase, tracker, req>>, Today <= Today'
  PROVE  Rest' /\ OvershootInv'
<1> USE DEF IInv
<1>1. Rest'
  <2>1. month <= Today'
    <3>1. Today' \in Nat
      BY Calendar DEF TypeOK, Today
    <3>2. month <= Today /\ month \in Nat /\ Today \in Nat
      BY Fields DEF RefsInPast
    <3> QED BY <3>1, <3>2
  <2> QED BY <2>1 DEF Rest, RefsInPast, BusyHasKey, QuietUnlessServing,
                      LateStaysLate, UsedUp
<1>2. OvershootInv'
  <2> SUFFICES ASSUME NEW k \in Keys, Limit[k] > 0 PROVE OvershootFor(k)'
    BY DEF OvershootInv
  <2>1. Open(k)' = Open(k)
    BY DEF Open
  <2> QED BY <2>1, FewerOpen DEF OvershootInv
<1> QED BY <1>1, <1>2

LEMMA TodayGrows == ASSUME TypeOK, TypeOK', Tick PROVE Today <= Today'
<1>1. now \in Times /\ now' \in Times /\ now <= now'
  BY Calendar DEF TypeOK, Tick
<1> QED BY <1>1, CalendarAssumption DEF Today

\* A roll gives every key an empty counter, and leaves the ones that are held
\* by somebody as they were: their months are past.
LEMMA RollStep ==
  ASSUME IInv, TypeOK', Roll
  PROVE  Rest' /\ OvershootInv'
<1> USE DEF IInv
<1>1. /\ cell'[month'] = Zero /\ seed' = Zero
      /\ \A m \in Months : m # Today => cell'[m] = cell[m]
  BY Fields DEF Roll, TypeOK
<1>2. \A s \in Slots : req'[s] = req[s] /\ req[s].ref < Today
  <2>1. req' = req /\ month < Today
    BY Fields DEF Roll, RefsInPast
  <2> QED BY <2>1, Fields DEF RefsInPast
<1>3. Rest'
  <2>1. RefsInPast' /\ BusyHasKey' /\ QuietUnlessServing'
    BY <1>2, Fields DEF Roll, RefsInPast, BusyHasKey, QuietUnlessServing, Today
  <2>2. LateStaysLate'
    <3> SUFFICES ASSUME NEW s \in Slots, req[s].late
                 PROVE  req[s].at = "ask" /\ UsedUp(req[s].ref, req[s].key)'
      BY <1>2 DEF LateStaysLate, UsedUp, Roll
    <3>1. req[s].at = "ask" /\ UsedUp(req[s].ref, req[s].key)
      BY DEF LateStaysLate
    <3>2. req[s].ref \in Months /\ req[s].ref # Today
      BY <1>2, Fields
    <3> QED BY <1>1, <1>2, <3>1, <3>2 DEF UsedUp
  <2> QED BY <2>1, <2>2 DEF Rest
<1>4. OvershootInv'
  <2> SUFFICES ASSUME NEW k \in Keys, Limit[k] > 0 PROVE OvershootFor(k)'
    BY DEF OvershootInv
  <2>1. cell'[month'][k] = 0 /\ seed'[k] = 0
    BY <1>1 DEF Zero
  <2> QED BY <2>1, FreshCounter
<1> QED BY <1>3, <1>4

-----------------------------------------------------------------------------
(* The steps of a handler.  Slot s ends up in some state; the others, and the *)
(* counters unless the step is Add, stay as they are.                         *)

\* What a step of slot s must show of s alone for the invariant's smaller parts.
LEMMA SlotStepRest ==
  ASSUME IInv, TypeOK', NEW s \in Slots, phase = "serving",
         UNCHANGED <<now, phase, month>>,
         \A t \in Slots \ {s} : req'[t] = req[t],
         req'[s].ref <= month,
         req'[s].at # "free" => req'[s].key \in Keys,
         req'[s].late => req'[s].at = "ask" /\ UsedUp(req[s].ref, req[s].key)',
         \A m \in Months, k \in Keys : cell'[m][k] >= cell[m][k]
  PROVE  Rest'
<1> USE DEF IInv
<1>1. RefsInPast' /\ BusyHasKey' /\ QuietUnlessServing'
  BY DEF RefsInPast, BusyHasKey, QuietUnlessServing, Today
<1>2. LateStaysLate'
  <2> SUFFICES ASSUME NEW t \in Slots, req'[t].late
               PROVE  req'[t].at = "ask" /\ UsedUp(req[t].ref, req[t].key)'
    BY DEF LateStaysLate, UsedUp
  <2>1. CASE t = s
    BY <2>1
  <2>2. CASE t # s
    <3>1. req'[t] = req[t] /\ req[t].at = "ask" /\ UsedUp(req[t].ref, req[t].key)
      BY <2>2 DEF LateStaysLate
    <3>2. req[t].key \in Keys /\ req[t].ref \in Months
      BY <3>1, Fields DEF BusyHasKey
    <3>3. /\ cell'[req[t].ref][req[t].key] >= cell[req[t].ref][req[t].key]
          /\ cell'[req[t].ref][req[t].key] \in Nat
          /\ cell[req[t].ref][req[t].key] \in Nat
          /\ Limit[req[t].key] \in Nat
      BY <3>2, LimitAssumption DEF TypeOK
    <3> QED BY <3>1, <3>3 DEF UsedUp
  <2> QED BY <2>1, <2>2
<1> QED BY <1>1, <1>2 DEF Rest

\* Only the key a slot serves can see its open requests change.
LEMMA OtherKeys ==
  ASSUME TypeOK, NEW s \in Slots, NEW k \in Keys, month' = month,
         \A t \in Slots \ {s} : req'[t] = req[t],
         req'[s].key # k
  PROVE  Open(k)' = Open(k) \ {s}
  BY DEF Open

\* A step of slot s that neither opens a request nor changes a counter.
LEMMA ClosingStep ==
  ASSUME IInv, TypeOK', NEW s \in Slots, UNCHANGED <<month, cell, seed>>,
         \A t \in Slots \ {s} : req'[t] = req[t],
         \A k \in Keys : Limit[k] > 0 => (s \in Open(k)' => s \in Open(k))
  PROVE  OvershootInv'
<1> SUFFICES ASSUME NEW k \in Keys, Limit[k] > 0 PROVE OvershootFor(k)'
  BY DEF OvershootInv
<1>1. \A t \in Slots \ {s} : t \in Open(k)' <=> t \in Open(k)
  BY DEF Open
<1>2. Open(k)' \subseteq Open(k)
  BY <1>1, OpenSubset
<1> QED BY <1>2, FewerOpen DEF IInv, OvershootInv

LEMMA Serving == ASSUME IInv, NEW s \in Slots, req[s].at # "free" PROVE phase = "serving"
  BY DEF IInv, QuietUnlessServing, Free

\* A step that only moves one slot.
LEMMA MoveStep ==
  ASSUME IInv, TypeOK', NEW s \in Slots, NEW r \in Request, phase = "serving",
         UNCHANGED <<now, phase, month, cell, seed>>,
         req' = [req EXCEPT ![s] = r],
         r.ref <= month,
         r.at # "free" => r.key \in Keys,
         r.late => r.at = "ask" /\ UsedUp(r.ref, r.key),
         \A k \in Keys : Limit[k] > 0 => (s \in Open(k)' => s \in Open(k))
  PROVE  Rest' /\ OvershootInv'
<1>1. req'[s] = r /\ \A t \in Slots \ {s} : req'[t] = req[t]
  BY DEF IInv, TypeOK
<1>2. \A m \in Months, k \in Keys : cell'[m][k] >= cell[m][k]
  BY DEF IInv, TypeOK
<1>3. UsedUp(r.ref, r.key)' <=> UsedUp(r.ref, r.key)
  BY DEF UsedUp
<1>4. Rest'
  BY <1>1, <1>2, <1>3, SlotStepRest
<1>5. OvershootInv'
  BY <1>1, ClosingStep
<1> QED BY <1>4, <1>5

LEMMA AdmitUnlimitedStep ==
  ASSUME IInv, TypeOK', NEW s \in Slots, NEW k \in Keys, AdmitUnlimited(s, k)
  PROVE  Rest' /\ OvershootInv'
<1> DEFINE r == [Free EXCEPT !.at = "upstream", !.key = k]
<1>1. /\ r \in Request /\ r.ref = 0 /\ r.at = "upstream" /\ r.key = k /\ ~r.late
      /\ req' = [req EXCEPT ![s] = r]
  BY FreeIsRequest DEF AdmitUnlimited, Free, Request, Stage
<1>2. req'[s] = r
  BY <1>1 DEF IInv, TypeOK
<1>3. \A j \in Keys : Limit[j] > 0 => s \notin Open(j)'
  BY <1>1, <1>2, LimitAssumption DEF AdmitUnlimited, Open
<1>4. r.ref <= month
  BY <1>1, Fields DEF IInv
<1> HIDE DEF r
<1> QED BY <1>1, <1>3, <1>4, MoveStep DEF AdmitUnlimited

LEMMA AskStep ==
  ASSUME IInv, TypeOK', NEW s \in Slots, NEW k \in Keys, Ask(s, k)
  PROVE  Rest' /\ OvershootInv'
<1> DEFINE r == [Free EXCEPT !.at = "ask", !.key = k, !.ref = month,
                             !.late = UsedUp(month, k)]
<1>1. UsedUp(month, k) \in BOOLEAN
  BY DEF UsedUp
<1>2. /\ r \in Request /\ r.ref = month /\ r.at = "ask" /\ r.key = k
      /\ r.late = UsedUp(month, k)
      /\ req' = [req EXCEPT ![s] = r]
  BY <1>1, FreeIsRequest DEF Ask, IInv, TypeOK, Free, Request, Stage
<1>3. req'[s] = r
  BY <1>2 DEF IInv, TypeOK
<1>4. \A j \in Keys : s \notin Open(j)'
  BY <1>2, <1>3 DEF Ask, Open
<1>5. r.ref <= month
  BY <1>2, Fields DEF IInv
<1> HIDE DEF r
<1> QED BY <1>2, <1>4, <1>5, MoveStep DEF Ask

\* The handler returns: Refuse, BadRequest and AddNothing.
LEMMA ReturnStep ==
  ASSUME IInv, TypeOK', NEW s \in Slots, phase = "serving",
         req' = [req EXCEPT ![s] = Free],
         UNCHANGED <<now, phase, month, cell, seed>>
  PROVE  Rest' /\ OvershootInv'
<1>1. Free \in Request /\ Free.ref = 0 /\ Free.at = "free" /\ ~Free.late
  BY FreeIsRequest DEF Free
<1>2. req'[s] = Free
  BY DEF IInv, TypeOK
<1>3. \A k \in Keys : s \notin Open(k)'
  BY <1>1, <1>2 DEF Open
<1>4. Free.ref <= month
  BY <1>1, Fields DEF IInv
<1> QED BY <1>1, <1>3, <1>4, MoveStep

\* A slot that stays open moves on: Answer, Publish and FetchCounter.
LEMMA StaysOpenStep ==
  ASSUME IInv, TypeOK', NEW s \in Slots, NEW r \in Request,
         req' = [req EXCEPT ![s] = r],
         UNCHANGED <<now, phase, month, cell, seed>>,
         req[s].at \in {"upstream", "built", "published"},
         r.at # "free", r.key = req[s].key, r.late = req[s].late,
         r.ref = req[s].ref \/ r.ref = month
  PROVE  Rest' /\ OvershootInv'
<1>1. phase = "serving" /\ r.key \in Keys
  BY Serving DEF IInv, BusyHasKey
<1>2. ~r.late
  BY DEF IInv, LateStaysLate
<1>3. \A k \in Keys : s \in Open(k)' => s \in Open(k)
  <2>1. req'[s] = r
    BY DEF IInv, TypeOK
  <2> QED BY <2>1 DEF Open
<1>4. r.ref <= month
  BY Fields DEF IInv, RefsInPast
<1> QED BY <1>1, <1>2, <1>3, <1>4, MoveStep

LEMMA ExchangeStep ==
  ASSUME IInv, TypeOK', NEW s \in Slots, Exchange(s)
  PROVE  Rest' /\ OvershootInv'
<1>1. CASE BadRequest(s)
  <2>1. phase = "serving"
    BY <1>1, Serving DEF BadRequest
  <2> QED BY <1>1, <2>1, ReturnStep DEF BadRequest
<1>2. ASSUME NEW c \in Costs, Answer(s, c) PROVE Rest' /\ OvershootInv'
  <2> DEFINE r == [req[s] EXCEPT !.at = "built", !.cost = c, !.stamp = now]
  <2>1. req[s] \in Request /\ now \in Times
    BY DEF IInv, TypeOK
  <2>2. /\ r \in Request /\ r.at = "built" /\ r.key = req[s].key
        /\ r.late = req[s].late /\ r.ref = req[s].ref
    BY <2>1 DEF Request, Stage
  <2>3. req' = [req EXCEPT ![s] = r]
    BY <1>2 DEF Answer
  <2> HIDE DEF r
  <2> QED BY <1>2, <2>2, <2>3, StaysOpenStep DEF Answer
<1> QED BY <1>1, <1>2 DEF Exchange

\* The one step that opens a request of a limited key: the counter it looked at
\* is below the budget.  If it is the current one, the cap has room for every slot
\* at once; if it is not, the request was open already.
LEMMA AdmitStep ==
  ASSUME IInv, TypeOK', NEW s \in Slots, Admit(s)
  PROVE  Rest' /\ OvershootInv'
<1> USE DEF IInv
<1>1. phase = "serving" /\ req[s].key \in Keys
  BY Serving DEF Admit, BusyHasKey
<1>2. /\ req'[s].at = "upstream" /\ req'[s].key = req[s].key
      /\ req'[s].ref = req[s].ref /\ req'[s].late = req[s].late
      /\ \A t \in Slots \ {s} : req'[t] = req[t]
  BY DEF Admit, TypeOK, Request
<1>3. ~req[s].late
  BY DEF Admit, LateStaysLate
<1>4. Rest'
  <2>1. \A m \in Months, k \in Keys : cell'[m][k] >= cell[m][k]
    BY DEF Admit, TypeOK
  <2>2. req[s].ref <= month
    BY DEF RefsInPast
  <2> QED BY <1>1, <1>2, <1>3, <2>1, <2>2, SlotStepRest DEF Admit
<1>5. OvershootInv'
  <2> SUFFICES ASSUME NEW k \in Keys, Limit[k] > 0 PROVE OvershootFor(k)'
    BY DEF OvershootInv
  <2>1. OvershootFor(k)
    BY DEF OvershootInv
  <2>2. CASE req[s].key # k \/ req[s].ref # month
    <3>1. Open(k)' \subseteq Open(k)
      BY <1>2, <2>2 DEF Admit, Open
    <3> QED BY <2>1, <3>1, FewerOpen DEF Admit
  <2>3. CASE req[s].key = k /\ req[s].ref = month
    <3>1. cell[month][k] < Limit[k]
      BY <2>3, LimitAssumption, Fields DEF Admit, UsedUp, TypeOK
    <3>2. seed[k] < Limit[k]
      BY <2>1, <3>1, LimitAssumption DEF OvershootFor, TypeOK
    <3>3. /\ MaxCost * Cardinality(Open(k)') \in Nat /\ Cap(Limit[k]) \in Nat
          /\ Limit[k] - 1 + MaxCost * Cardinality(Open(k)') <= Cap(Limit[k])
      BY OpenSubset, CapAbove
    <3>4. UNCHANGED <<cell, month, seed>>
      BY DEF Admit
    <3>5. cell[month][k] \in Nat /\ seed[k] \in Nat /\ Limit[k] \in Nat
      BY LimitAssumption, Fields DEF TypeOK
    <3>6. cell[month][k] + MaxCost * Cardinality(Open(k)') <= Cap(Limit[k])
      BY <3>1, <3>3, <3>5
    <3>7. ~(seed[k] >= Limit[k])
      BY <3>2, <3>5
    <3> QED BY <3>4, <3>6, <3>7 DEF OvershootFor
  <2> QED BY <2>2, <2>3
<1> QED BY <1>4, <1>5

LEMMA CheckStep ==
  ASSUME IInv, TypeOK', NEW s \in Slots, Check(s)
  PROVE  Rest' /\ OvershootInv'
<1>1. CASE Refuse(s)
  <2>1. phase = "serving"
    BY <1>1, Serving DEF Refuse
  <2> QED BY <1>1, <2>1, ReturnStep DEF Refuse
<1> QED BY <1>1, AdmitUnlimitedStep, AskStep, AdmitStep DEF Check

\* The charge: what the counter gains is what the open request might have added.
LEMMA AddStep ==
  ASSUME IInv, TypeOK', NEW s \in Slots, Add(s)
  PROVE  Rest' /\ OvershootInv'
<1> USE DEF IInv
<1> DEFINE m == req[s].ref
           j == req[s].key
           c == req[s].cost
<1>1. /\ phase = "serving" /\ j \in Keys /\ m \in Months
      /\ c \in Nat /\ c <= MaxCost /\ req[s].at = "adding"
  BY Serving, Fields DEF Add, BusyHasKey
<1>2. ASSUME NEW n \in Months, NEW k \in Keys
      PROVE  cell'[n][k] = IF n = m /\ k = j THEN cell[n][k] + c ELSE cell[n][k]
  <2>1. cell \in [Months -> [Keys -> Nat]] /\ cell' = Plus(cell, m, j, c)
    BY DEF Add, TypeOK
  <2>2. m \in Months /\ j \in Keys /\ c \in Nat
    BY <1>1
  <2> HIDE DEF m, j, c, IInv
  <2>3. n \in Months /\ k \in Keys
    OBVIOUS
  <2> QED BY <2>1, <2>2, <2>3 DEF Plus
<1>3. /\ req'[s] = Free /\ \A t \in Slots \ {s} : req'[t] = req[t]
      /\ UNCHANGED <<now, phase, month, seed>>
  BY DEF Add, TypeOK
<1>4. Rest'
  <2>1. \A n \in Months, k \in Keys : cell'[n][k] >= cell[n][k]
    <3> SUFFICES ASSUME NEW n \in Months, NEW k \in Keys
                 PROVE  cell'[n][k] >= cell[n][k]
      OBVIOUS
    <3>1. cell[n][k] \in Nat
      BY DEF TypeOK
    <3> HIDE DEF m, j, c
    <3> QED BY <1>1, <1>2, <3>1
  <2>2. req'[s].ref <= month /\ req'[s].at = "free" /\ ~req'[s].late
    BY <1>3, Fields DEF Free
  <2> QED BY <1>1, <1>3, <2>1, <2>2, SlotStepRest
<1>5. OvershootInv'
  <2> SUFFICES ASSUME NEW k \in Keys, Limit[k] > 0 PROVE OvershootFor(k)'
    BY DEF OvershootInv
  <2>1. OvershootFor(k)
    BY DEF OvershootInv
  <2>2. Open(k)' = Open(k) \ {s}
    BY <1>3 DEF Open, Free
  <2>3. CASE j # k \/ m # month
    <3>1. cell'[month'][k] = cell[month][k]
      BY <1>2, <1>3, <2>3, Fields
    <3> QED BY <1>3, <2>1, <2>2, <3>1, FewerOpen
  <2>4. CASE j = k /\ m = month
    <3>1. s \in Open(k)
      BY <1>1, <2>4 DEF Open
    <3>2. ~(seed[k] >= Limit[k])
      BY <2>1, <3>1 DEF OvershootFor
    <3>3. /\ Cardinality(Open(k)) = Cardinality(Open(k)') + 1
          /\ Cardinality(Open(k)') \in Nat /\ Cardinality(Open(k)) \in Nat
      BY <2>2, <3>1, OpenSubset, SlotCount, FS_RemoveElement
    <3>4. /\ MaxCost * Cardinality(Open(k)) = MaxCost * Cardinality(Open(k)') + MaxCost
          /\ MaxCost * Cardinality(Open(k)') \in Nat
      BY <3>3, CostMonotone
    <3>5. cell[month][k] + MaxCost * Cardinality(Open(k)) <= Cap(Limit[k])
      BY <2>1, <3>2 DEF OvershootFor
    <3>6. cell[month][k] \in Nat /\ MaxCost \in Nat /\ Cap(Limit[k]) \in Nat
      BY CostAssumption, CounterNat, Fields, CapAbove, OpenSubset
    <3>7. cell'[month'][k] = cell[month][k] + c
      BY <1>1, <1>2, <1>3, <2>4
    <3>8. cell'[month'][k] + MaxCost * Cardinality(Open(k)') <= Cap(Limit[k])
      BY <1>1, <3>4, <3>5, <3>6, <3>7
    <3> QED BY <1>3, <3>2, <3>8 DEF OvershootFor
  <2> QED BY <2>3, <2>4
<1> QED BY <1>4, <1>5

LEMMA EmitStep ==
  ASSUME IInv, TypeOK', NEW s \in Slots, Emit(s)
  PROVE  Rest' /\ OvershootInv'
<1>1. CASE Publish(s)
  <2> DEFINE r == [req[s] EXCEPT !.at = "published"]
  <2>1. req[s] \in Request
    BY DEF IInv, TypeOK
  <2>2. /\ r \in Request /\ r.at = "published" /\ r.key = req[s].key
        /\ r.late = req[s].late /\ r.ref = req[s].ref
    BY <2>1 DEF Request, Stage
  <2>3. req' = [req EXCEPT ![s] = r]
    BY <1>1 DEF Publish
  <2> HIDE DEF r
  <2> QED BY <1>1, <2>2, <2>3, StaysOpenStep DEF Publish
<1>2. CASE AddNothing(s)
  <2>1. phase = "serving"
    BY <1>2, Serving DEF AddNothing
  <2> QED BY <1>2, <2>1, ReturnStep DEF AddNothing
<1>3. CASE FetchCounter(s)
  <2> DEFINE r == [req[s] EXCEPT !.at = "adding", !.ref = month]
  <2>1. req[s] \in Request /\ month \in Months
    BY DEF IInv, TypeOK
  <2>2. /\ r \in Request /\ r.at = "adding" /\ r.key = req[s].key
        /\ r.late = req[s].late /\ r.ref = month
    BY <2>1 DEF Request, Stage
  <2>3. req' = [req EXCEPT ![s] = r]
    BY <1>3 DEF FetchCounter
  <2> HIDE DEF r
  <2> QED BY <1>3, <2>2, <2>3, StaysOpenStep DEF FetchCounter
<1> QED BY <1>1, <1>2, <1>3, AddStep DEF Emit

LEMMA NextInv == IInv /\ [Next]_vars => IInv'
<1> SUFFICES ASSUME IInv, [Next]_vars PROVE IInv'
  OBVIOUS
<1>1. TypeOK'
  BY NextType DEF IInv
<1>2. CASE UNCHANGED vars
  <2>1. Rest'
    BY <1>2 DEF vars, IInv, Rest, RefsInPast, BusyHasKey, QuietUnlessServing,
                LateStaysLate, UsedUp, Today
  <2>2. OvershootInv'
    BY <1>2 DEF vars, IInv, OvershootInv, OvershootFor, Open
  <2> QED BY <1>1, <2>1, <2>2 DEF IInv, Rest
<1>3. CASE Next
  <2>1. Rest' /\ OvershootInv'
    <3>1. CASE Tick
      BY <1>1, <3>1, TodayGrows, OutsideStep DEF Tick, IInv
    <3>2. CASE Log
      <4>1. UNCHANGED <<now, phase, tracker, req>>
        BY <3>2 DEF Log, Sweep, Commit
      <4>2. Today' = Today /\ Today \in Nat
        BY <4>1, Fields DEF Today, IInv
      <4> QED BY <1>1, <4>1, <4>2, OutsideStep
    <3> QED BY <1>1, <1>3, <3>1, <3>2, ProcessStep, RollStep, CheckStep,
               ExchangeStep, EmitStep DEF Next
  <2> QED BY <1>1, <2>1 DEF IInv, Rest
<1> QED BY <1>2, <1>3

-----------------------------------------------------------------------------
(* The theorems. *)

\* The inductive invariant holds of every behaviour.
THEOREM Invariance == Spec => []IInv
  BY InitInv, NextInv, PTL DEF Spec

\* The variables keep their types: counters and sums never go below zero, and a
\* handler always names a real key.
THEOREM TypeCorrect == Spec => []TypeOK
<1>1. IInv => TypeOK
  BY DEF IInv
<1> QED BY Invariance, <1>1, PTL

\* However many keys, handlers, restarts and rolls: a counter passes its budget
\* by less than one dearest request per handler that can run at once.
THEOREM OvershootBounded == Spec => []Overshoot
<1>1. IInv => Overshoot
  <2> SUFFICES ASSUME IInv, NEW k \in Keys, Limit[k] > 0
               PROVE  cell[month][k] <= (IF seed[k] >= Limit[k] THEN seed[k] ELSE Cap(Limit[k]))
    BY DEF Overshoot
  <2>1. OvershootFor(k) /\ cell[month][k] \in Nat
    BY Fields DEF IInv, OvershootInv, TypeOK
  <2>2. MaxCost * Cardinality(Open(k)) \in Nat /\ Cap(Limit[k]) \in Nat
    BY OpenSubset, CapAbove
  <2> QED BY <2>1, <2>2 DEF OvershootFor
<1> QED BY Invariance, <1>1, PTL

\* A request whose check begins after the budget is used up never gets through.
THEOREM LateRefused == Spec => []LateIsRefused
<1>1. IInv => LateIsRefused
  BY DEF IInv, LateStaysLate, LateIsRefused
<1> QED BY Invariance, <1>1, PTL
=============================================================================
