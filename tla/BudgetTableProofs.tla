------------------------- MODULE BudgetTableProofs -------------------------
(***************************************************************************)
(* Proofs about Budget, continued: what a key's answers of a month cost,   *)
(* what the counters and the table of rows hold of it, and how often a     *)
(* counter is set to less.  The sum of the seed is the query's: it may cut *)
(* elsewhere than the month, and rows come late, never, or go.             *)
(***************************************************************************)
EXTENDS BudgetProofs

USE DEF tracker, table

-----------------------------------------------------------------------------
(* Spent is a sum: it is counted micro-USD by micro-USD, so what a slot adds to *)
(* it is the cardinality of an interval.                                       *)

Micros(r, S) == {c \in S \X (1 .. MaxCost) : c[2] <= r[c[1]].cost}

LEMMA SpentBound ==
  ASSUME NEW r, NEW S \in SUBSET Slots
  PROVE  /\ IsFiniteSet(Micros(r, S))
         /\ Spent(r, S) \in Nat
         /\ Spent(r, S) <= MaxCost * Cardinality(S)
<1>1. IsFiniteSet(S) /\ Cardinality(S) \in Nat
  BY SlotCount
<1>2. IsFiniteSet(1 .. MaxCost) /\ Cardinality(1 .. MaxCost) = MaxCost
  BY CostAssumption, FS_Interval
<1>3. /\ IsFiniteSet(S \X (1 .. MaxCost))
      /\ Cardinality(S \X (1 .. MaxCost)) = Cardinality(S) * MaxCost
  BY <1>1, <1>2, FS_Product
<1>4. Micros(r, S) \in SUBSET (S \X (1 .. MaxCost))
  BY DEF Micros
<1>5. /\ IsFiniteSet(Micros(r, S))
      /\ Cardinality(Micros(r, S)) <= Cardinality(S) * MaxCost
      /\ Cardinality(Micros(r, S)) \in Nat
  BY <1>3, <1>4, FS_Subset, FS_CardinalityType
<1>6. Spent(r, S) = Cardinality(Micros(r, S))
  BY DEF Spent, Micros
<1>7. Cardinality(S) * MaxCost = MaxCost * Cardinality(S)
  BY <1>1, CostAssumption
<1> QED BY <1>5, <1>6, <1>7

\* The micro-USD of one slot are as many as its cost.
LEMMA MicrosOfOne ==
  ASSUME NEW r, NEW s, r[s].cost \in 0 .. MaxCost
  PROVE  IsFiniteSet(Micros(r, {s})) /\ Cardinality(Micros(r, {s})) = r[s].cost
<1> DEFINE n == r[s].cost
           f == [i \in 1 .. n |-> <<s, i>>]
<1>1. n \in Nat /\ n <= MaxCost /\ MaxCost \in Nat
  BY CostAssumption
<1>2. IsFiniteSet(1 .. n) /\ Cardinality(1 .. n) = n
  <2> HIDE DEF n
  <2>1. 1 \in Int /\ n \in Int
    BY <1>1
  <2>2. /\ IsFiniteSet(1 .. n)
        /\ Cardinality(1 .. n) = IF 1 > n THEN 0 ELSE n - 1 + 1
    BY <2>1, FS_Interval, Zenon
  <2> QED BY <1>1, <2>2
<1>3. \A c : c \in Micros(r, {s}) <=> \E i \in 1 .. n : c = <<s, i>>
  BY <1>1 DEF Micros
<1> HIDE DEF n
<1>4. f \in Bijection(1 .. n, Micros(r, {s}))
  <2>1. f \in [1 .. n -> Micros(r, {s})]
    BY <1>3
  <2>2. \A i, j \in 1 .. n : f[i] = f[j] => i = j
    OBVIOUS
  <2>3. \A c \in Micros(r, {s}) : \E i \in 1 .. n : f[i] = c
    BY <1>3
  <2> QED BY <2>1, <2>2, <2>3 DEF Bijection, Injection, Surjection, IsInjective
<1>5. ExistsBijection(1 .. n, Micros(r, {s}))
  BY <1>4 DEF ExistsBijection
<1>6. IsFiniteSet(Micros(r, {s})) /\ Cardinality(Micros(r, {s})) = n
  BY <1>2, <1>5, FS_Bijection
<1> QED BY <1>6 DEF n

LEMMA SpentJoins ==
  ASSUME NEW r, NEW S \in SUBSET Slots, NEW s \in Slots, s \notin S,
         r[s].cost \in 0 .. MaxCost
  PROVE  Spent(r, S \cup {s}) = Spent(r, S) + r[s].cost
<1>1. Micros(r, S \cup {s}) = Micros(r, S) \cup Micros(r, {s})
  BY DEF Micros
<1>2. Micros(r, S) \cap Micros(r, {s}) = {}
  BY DEF Micros
<1>3. /\ IsFiniteSet(Micros(r, S)) /\ Cardinality(Micros(r, S)) \in Nat
      /\ IsFiniteSet(Micros(r, {s})) /\ Cardinality(Micros(r, {s})) = r[s].cost
  BY SpentBound, MicrosOfOne, FS_CardinalityType
<1>4. Cardinality(Micros(r, S \cup {s})) = Cardinality(Micros(r, S)) + r[s].cost
  <2>1. Cardinality(Micros(r, S) \cup Micros(r, {s}))
          = Cardinality(Micros(r, S)) + Cardinality(Micros(r, {s}))
              - Cardinality(Micros(r, S) \cap Micros(r, {s}))
    BY <1>3, FS_Union
  <2>2. Cardinality(Micros(r, S) \cap Micros(r, {s})) = 0
    BY <1>2, FS_EmptySet
  <2>3. Cardinality(Micros(r, S) \cup Micros(r, {s}))
          = Cardinality(Micros(r, S)) + Cardinality(Micros(r, {s}))
    BY <1>3, <2>1, <2>2, CostAssumption
  <2> QED BY <1>1, <1>3, <2>3
<1> QED BY <1>4 DEF Spent, Micros

\* Only the costs of the slots counted matter.
LEMMA SpentSame ==
  ASSUME NEW r, NEW q, NEW S, \A t \in S : q[t].cost = r[t].cost
  PROVE  Spent(q, S) = Spent(r, S)
<1>1. Micros(q, S) = Micros(r, S)
  BY DEF Micros
<1> QED BY <1>1 DEF Spent, Micros

\* One slot may join a sum, leave it, or change its cost.
LEMMA SpentMoves ==
  ASSUME NEW r, NEW q, NEW S \in SUBSET Slots, NEW T \in SUBSET Slots, NEW s \in Slots,
         S \ {s} = T \ {s},
         \A t \in Slots : r[t].cost \in 0 .. MaxCost /\ q[t].cost \in 0 .. MaxCost,
         \A t \in Slots \ {s} : q[t].cost = r[t].cost
  PROVE  Spent(q, T) + (IF s \in S THEN r[s].cost ELSE 0)
           = Spent(r, S) + (IF s \in T THEN q[s].cost ELSE 0)
<1> DEFINE R == S \ {s}
<1>1. R \in SUBSET Slots /\ s \notin R /\ R = T \ {s}
  OBVIOUS
<1>2. Spent(q, R) = Spent(r, R) /\ Spent(r, R) \in Nat
  BY <1>1, SpentSame, SpentBound
<1>3. Spent(r, S) = Spent(r, R) + (IF s \in S THEN r[s].cost ELSE 0)
  <2>1. CASE s \in S
    <3>1. S = R \cup {s}
      BY <2>1
    <3> HIDE DEF R
    <3> QED BY <1>1, <2>1, <3>1, SpentJoins
  <2>2. CASE s \notin S
    <3>1. S = R
      BY <2>2
    <3> HIDE DEF R
    <3> QED BY <1>2, <2>2, <3>1
  <2> QED BY <2>1, <2>2
<1>4. Spent(q, T) = Spent(q, R) + (IF s \in T THEN q[s].cost ELSE 0)
  <2>1. CASE s \in T
    <3>1. T = R \cup {s}
      BY <1>1, <2>1
    <3> HIDE DEF R
    <3> QED BY <1>1, <2>1, <3>1, SpentJoins
  <2>2. CASE s \notin T
    <3>1. T = R
      BY <1>1, <2>2
    <3> QED BY <1>2, <2>2, <3>1
  <2> QED BY <2>1, <2>2
<1> HIDE DEF R
<1>5. r[s].cost \in Nat /\ q[s].cost \in Nat
  BY CostAssumption
<1> QED BY <1>2, <1>3, <1>4, <1>5

-----------------------------------------------------------------------------
(* Total, by what it sums: a charge adds to it, a wider view sees no less. *)

LEMMA TotalPlus ==
  ASSUME NEW tab \in [Times -> [Keys -> Nat]], NEW S \in SUBSET Times, NEW k \in Keys,
         NEW t0 \in Times, NEW k0 \in Keys, NEW c \in Nat
  PROVE  Total(Plus(tab, t0, k0, c), S, k)
           = Total(tab, S, k) + (IF t0 \in S /\ k = k0 THEN c ELSE 0)
<1> DEFINE new == Plus(tab, t0, k0, c)
<1>1. new \in [Times -> [Keys -> Nat]]
  BY DEF Plus
<1>2. ASSUME NEW t \in Times
      PROVE  new[t][k] = IF t = t0 /\ k = k0 THEN tab[t][k] + c ELSE tab[t][k]
  BY DEF Plus
<1> HIDE DEF new
<1>3. /\ IsFiniteSet(Coins(tab, S, k)) /\ Total(tab, S, k) \in Nat
      /\ Total(tab, S, k) = Cardinality(Coins(tab, S, k))
      /\ Total(new, S, k) = Cardinality(Coins(new, S, k))
      /\ Total(new, S, k) \in Nat
  BY <1>1, TotalNat DEF Total, Coins
<1>4. CASE ~(t0 \in S /\ k = k0)
  <2>1. \A t \in S : new[t][k] = tab[t][k]
    BY <1>2, <1>4
  <2>2. Coins(new, S, k) = Coins(tab, S, k)
    <3>1. \A x : x \in Coins(new, S, k) <=> \E t \in S : \E i \in 1 .. new[t][k] : x = <<t, i>>
      BY CoinsAre
    <3>2. \A x : x \in Coins(tab, S, k) <=> \E t \in S : \E i \in 1 .. tab[t][k] : x = <<t, i>>
      BY CoinsAre
    <3> QED BY <2>1, <3>1, <3>2
  <2>3. Total(new, S, k) = Total(tab, S, k) + (IF t0 \in S /\ k = k0 THEN c ELSE 0)
    <3>1. (IF t0 \in S /\ k = k0 THEN c ELSE 0) = 0
      BY <1>4
    <3> QED BY <1>3, <2>2, <3>1
  <2> QED BY <2>3 DEF new
<1>5. CASE t0 \in S /\ k = k0
  <2> DEFINE n == tab[t0][k]
             B == {t0} \X ((n + 1) .. (n + c))
  <2>1. n \in Nat
    OBVIOUS
  <2>2. /\ IsFiniteSet((n + 1) .. (n + c)) /\ Cardinality((n + 1) .. (n + c)) = c
        /\ IsFiniteSet({t0}) /\ Cardinality({t0}) = 1
    <3> HIDE DEF n
    <3>1. n + 1 \in Int /\ n + c \in Int
      BY <2>1
    <3>2. /\ IsFiniteSet((n + 1) .. (n + c))
          /\ Cardinality((n + 1) .. (n + c))
               = IF n + 1 > n + c THEN 0 ELSE (n + c) - (n + 1) + 1
      BY <3>1, FS_Interval, Zenon
    <3>3. IsFiniteSet({t0}) /\ Cardinality({t0}) = 1
      BY FS_Singleton
    <3> QED BY <2>1, <3>2, <3>3
  <2>3. IsFiniteSet(B) /\ Cardinality(B) = c
    <3> DEFINE I == (n + 1) .. (n + c)
    <3> HIDE DEF I
    <3>1. IsFiniteSet({t0} \X I) /\ Cardinality({t0} \X I) = Cardinality({t0}) * Cardinality(I)
      BY <2>2, FS_Product DEF I
    <3> QED BY <2>2, <3>1 DEF I
  <2>4. Coins(new, S, k) = Coins(tab, S, k) \cup B
    <3>1. ASSUME NEW x, x \in Coins(new, S, k) PROVE x \in Coins(tab, S, k) \cup B
      <4>0. PICK t \in S : \E i \in 1 .. new[t][k] : x = <<t, i>>
        BY <3>1, CoinsAre
      <4>1. PICK i \in 1 .. new[t][k] : x = <<t, i>>
        BY <4>0
      <4>2. CASE i \in 1 .. tab[t][k]
        BY <4>1, <4>2, CoinsAre
      <4>3. CASE ~(i \in 1 .. tab[t][k])
        <5>1. t = t0 /\ i \in (n + 1) .. (n + c)
          BY <1>2, <4>3, <2>1
        <5> QED BY <4>1, <5>1
      <4> QED BY <4>2, <4>3
    <3>2. ASSUME NEW x, x \in Coins(tab, S, k) PROVE x \in Coins(new, S, k)
      <4>0. PICK t \in S : \E i \in 1 .. tab[t][k] : x = <<t, i>>
        BY <3>2, CoinsAre
      <4>1. PICK i \in 1 .. tab[t][k] : x = <<t, i>>
        BY <4>0
      <4>2. tab[t][k] \in Nat /\ new[t][k] \in Nat /\ new[t][k] >= tab[t][k]
        BY <1>2
      <4>3. i \in 1 .. new[t][k]
        BY <4>2
      <4> QED BY <4>1, <4>3, CoinsAre
    <3>3. ASSUME NEW x, x \in B PROVE x \in Coins(new, S, k)
      <4>1. PICK i \in (n + 1) .. (n + c) : x = <<t0, i>>
        BY <3>3
      <4>2. i \in 1 .. new[t0][k]
        BY <1>2, <1>5, <2>1
      <4> QED BY <1>5, <4>1, <4>2, CoinsAre
    <3> HIDE DEF B
    <3> QED BY <3>1, <3>2, <3>3
  <2>5. Coins(tab, S, k) \cap B = {}
    <3> SUFFICES ASSUME NEW x, x \in Coins(tab, S, k), x \in B PROVE FALSE
      OBVIOUS
    <3>0. PICK t \in S : \E i \in 1 .. tab[t][k] : x = <<t, i>>
      BY CoinsAre
    <3>1. PICK i \in 1 .. tab[t][k] : x = <<t, i>>
      BY <3>0
    <3>2. t = t0 /\ i \in (n + 1) .. (n + c)
      BY <3>1
    <3> QED BY <2>1, <3>1, <3>2
  <2> HIDE DEF B
  <2>6. Cardinality(Coins(tab, S, k) \cup B)
          = Cardinality(Coins(tab, S, k)) + Cardinality(B)
              - Cardinality(Coins(tab, S, k) \cap B)
    BY <1>3, <2>3, FS_Union
  <2>7. Cardinality(Coins(tab, S, k) \cap B) = 0
    BY <2>5, FS_EmptySet
  <2>8. Total(new, S, k) = Total(tab, S, k) + c
    BY <1>3, <2>3, <2>4, <2>6, <2>7
  <2> QED BY <1>5, <2>8 DEF new
<1> QED BY <1>4, <1>5

LEMMA TotalLE ==
  ASSUME NEW a \in [Times -> [Keys -> Nat]], NEW b \in [Times -> [Keys -> Nat]],
         NEW S \in SUBSET Times, NEW T \in SUBSET Times, NEW k \in Keys,
         \A t \in S : a[t][k] <= (IF t \in T THEN b[t][k] ELSE 0)
  PROVE  Total(a, S, k) <= Total(b, T, k)
<1>1. Coins(a, S, k) \subseteq Coins(b, T, k)
  <2> SUFFICES ASSUME NEW x, x \in Coins(a, S, k) PROVE x \in Coins(b, T, k)
    OBVIOUS
  <2>0. PICK t \in S : \E i \in 1 .. a[t][k] : x = <<t, i>>
    BY CoinsAre
  <2>1. PICK i \in 1 .. a[t][k] : x = <<t, i>>
    BY <2>0
  <2>2. t \in T /\ i \in 1 .. b[t][k]
    <3>1. a[t][k] \in Nat /\ b[t][k] \in Nat
      OBVIOUS
    <3> QED BY <3>1
  <2> QED BY <2>1, <2>2, CoinsAre
<1>2. IsFiniteSet(Coins(b, T, k))
  BY TotalNat
<1>3. Cardinality(Coins(a, S, k)) <= Cardinality(Coins(b, T, k))
  BY <1>1, <1>2, FS_Subset
<1> QED BY <1>3 DEF Total, Coins

LEMMA TotalZero ==
  ASSUME NEW tab, NEW S, NEW k, \A t \in S : tab[t][k] = 0
  PROVE  Total(tab, S, k) = 0
<1>1. Coins(tab, S, k) = {}
  BY CoinsAre
<1> QED BY <1>1, FS_EmptySet DEF Total, Coins
-----------------------------------------------------------------------------
(* What a step leaves alone. *)

LEMMA Subsets ==
  \A k : /\ Unadded(k) \in SUBSET Slots /\ Due(k) \in SUBSET Slots
         /\ Unadded(k)' \in SUBSET Slots /\ Due(k)' \in SUBSET Slots
         /\ \A m : Unlogged(m, k) \in SUBSET Slots /\ Unlogged(m, k)' \in SUBSET Slots
  BY DEF Unadded, Due, Unlogged

LEMMA BillNat ==
  ASSUME TypeOK
  PROVE  \A m, k : k \in Keys => MonthBill(m, k) \in Nat
<1>1. \A m : Ticks(m) \in SUBSET Times
  BY DEF Ticks
<1>2. spent \in [Times -> [Keys -> Nat]]
  BY DEF TypeOK
<1> QED BY <1>1, <1>2, TotalNat DEF MonthBill

LEMMA BillStays == spent' = spent => \A m, k : MonthBill(m, k)' = MonthBill(m, k)
  BY DEF MonthBill, Total, Ticks

LEMMA TodaysBill ==
  ASSUME UNCHANGED <<now, spent>>
  PROVE  \A k : MonthBill(Today, k)' = MonthBill(Today, k)
  BY DEF Today, MonthBill, Total, Ticks

\* A charge goes to the bill of the month it is stamped with.
LEMMA BillGrows ==
  ASSUME TypeOK, NEW t \in Times, NEW j \in Keys, NEW c \in Nat,
         spent' = Plus(spent, t, j, c),
         NEW m, NEW k \in Keys
  PROVE  MonthBill(m, k)'
           = MonthBill(m, k) + (IF MonthOf[t] = m /\ k = j THEN c ELSE 0)
<1>1. spent \in [Times -> [Keys -> Nat]] /\ Ticks(m) \in SUBSET Times
  BY DEF TypeOK, Ticks
<1>2. t \in Ticks(m) <=> MonthOf[t] = m
  BY DEF Ticks
<1>3. MonthBill(m, k)' = Total(Plus(spent, t, j, c), Ticks(m), k)
  BY DEF MonthBill, Total, Ticks
<1>4. Total(Plus(spent, t, j, c), Ticks(m), k)
        = Total(spent, Ticks(m), k) + (IF t \in Ticks(m) /\ k = j THEN c ELSE 0)
  BY <1>1, TotalPlus
<1> QED BY <1>2, <1>3, <1>4 DEF MonthBill

LEMMA Numbers ==
  ASSUME TypeOK, NEW k \in Keys
  PROVE  /\ \A m \in Months : cell[m][k] \in Nat
         /\ \A t \in Times : /\ rows[t][k] \in Nat /\ absent[t][k] \in Nat
                             /\ spent[t][k] \in Nat
         /\ seed[k] \in Nat /\ Limit[k] \in Nat
         /\ born \in Months /\ born \in Nat
  BY FreeIsRequest, LimitAssumption DEF TypeOK

LEMMA CapNat == \A k \in Keys : Limit[k] > 0 => Cap(Limit[k]) \in Nat
  BY CapAbove

LEMMA Multiples ==
  \A c, a, b \in Nat : /\ c * a \in Nat
                       /\ c * (1 + a) = c * a + c
                       /\ a <= b => c * a <= c * b
  OBVIOUS

\* The caps that are granted to a key for what was forgotten of a month.
LEMMA Granted ==
  ASSUME NEW k \in Keys, Limit[k] > 0, BillFor(k), NEW m \in Months
  PROVE  /\ IsFiniteSet(forgot[m][k]) /\ Cardinality(forgot[m][k]) \in Nat
         /\ Cap(Limit[k]) * Cardinality(forgot[m][k]) \in Nat
         /\ Cap(Limit[k]) * (1 + Cardinality(forgot[m][k]))
              = Cap(Limit[k]) * Cardinality(forgot[m][k]) + Cap(Limit[k])
<1>1. IsFiniteSet(forgot[m][k]) /\ Cardinality(forgot[m][k]) \in Nat
  BY FS_CardinalityType DEF BillFor, ForgottenBills
<1> QED BY <1>1, CapNat, Multiples

LEMMA RoomKept ==
  ASSUME TypeOK, TypeOK', NEW k \in Keys, Limit[k] > 0, NEW m \in Months,
         BillFor(k), MonthBill(m, k)' = MonthBill(m, k), forgot'[m][k] = forgot[m][k],
         Unlogged(m, k)' \subseteq Unlogged(m, k)
  PROVE  RoomInMonth(m, k)'
<1>1. Cardinality(Unlogged(m, k)') <= Cardinality(Unlogged(m, k))
  BY Subsets, SlotCount, FS_Subset
<1>2. MaxCost * Cardinality(Unlogged(m, k)') <= MaxCost * Cardinality(Unlogged(m, k))
  BY <1>1, Subsets, SlotCount, CostMonotone
<1>3. /\ MaxCost * Cardinality(Unlogged(m, k)') \in Nat
      /\ MaxCost * Cardinality(Unlogged(m, k)) \in Nat
      /\ MonthBill(m, k) \in Nat
      /\ Cap(Limit[k]) * (1 + Cardinality(forgot[m][k])) \in Nat
  <2>1. Cap(Limit[k]) * (1 + Cardinality(forgot[m][k])) \in Nat
    BY CapNat, Granted
  <2> QED BY <2>1, Subsets, SlotCount, CostMonotone, BillNat
<1>4. MonthBill(m, k) + MaxCost * Cardinality(Unlogged(m, k))
        <= Cap(Limit[k]) * (1 + Cardinality(forgot[m][k]))
  BY DEF BillFor, RoomInMonth
<1>5. MonthBill(m, k)' + MaxCost * Cardinality(Unlogged(m, k)')
        <= Cap(Limit[k]) * (1 + Cardinality(forgot'[m][k]))
  BY <1>2, <1>3, <1>4
<1> QED BY <1>5 DEF RoomInMonth

LEMMA BillsKept ==
  ASSUME NEW k \in Keys, NEW m \in Months, BillFor(k), forgot'[m][k] = forgot[m][k]
  PROVE  ForgottenBills(m, k)'
  BY DEF BillFor, ForgottenBills

\* A step of a handler or of the table neither forgets nor moves the month.
LEMMA NothingForgotten ==
  ASSUME TableInv, UNCHANGED <<now, phase, month, forgot, blind>>
  PROVE  NothingForgottenYet' /\ ForgetsOnce'
  BY DEF TableInv, NothingForgottenYet, ForgetsOnce, Today

\* Where nothing is served, no handler holds a cost.
LEMMA NothingHeld ==
  ASSUME NEW k, \A s \in Slots : req[s] = Free
  PROVE  Unadded(k) = {} /\ Due(k) = {} /\ \A m : Unlogged(m, k) = {}
  BY DEF Free, Unadded, Due, Unlogged

LEMMA TableInit == Init => TableInv
<1> SUFFICES ASSUME Init PROVE TableInv
  OBVIOUS
<1>1. now = 0 /\ phase = "down" /\ born = Today /\ month = Today
      /\ rows = Blank /\ absent = Blank /\ spent = Blank /\ blind = {}
      /\ (\A m \in Months : forgot[m] = Unforgotten)
      /\ (\A s \in Slots : req[s] = Free)
      /\ TypeOK
  BY InitType DEF Init
<1>2. PastOnly
  BY <1>1, Fields DEF PastOnly, Blank, Free
<1>3. Accounted
  BY <1>1 DEF Accounted, Blank, Zero
<1>4. NothingForgottenYet /\ SeededInFull
  BY <1>1 DEF NothingForgottenYet, SeededInFull
<1>5. ASSUME NEW m \in Months, NEW k \in Keys
      PROVE  /\ forgot[m][k] = {} /\ IsFiniteSet(forgot[m][k])
             /\ Cardinality(forgot[m][k]) = 0
  <2>1. forgot[m][k] = {}
    BY <1>1 DEF Unforgotten
  <2> QED BY <2>1, FS_EmptySet
<1>6. ForgetsOnce
  BY <1>5 DEF ForgetsOnce
<1>7. ASSUME NEW k \in Keys, Limit[k] > 0 PROVE BillFor(k)
  <2>1. ASSUME NEW m \in Months PROVE RoomInMonth(m, k) /\ ForgottenBills(m, k)
    <3>1. MonthBill(m, k) = 0
      BY <1>1, TotalZero DEF MonthBill, Blank, Zero, Ticks
    <3>2. Unlogged(m, k) = {} /\ MaxCost * Cardinality({}) = 0
      BY <1>1, FS_EmptySet, CostAssumption, NothingHeld
    <3>3. /\ Cardinality(forgot[m][k]) \in Nat /\ Cap(Limit[k]) \in Nat
          /\ forgot[m][k] = {} /\ IsFiniteSet(forgot[m][k])
      BY <1>5, <1>7, CapNat
    <3>4. Cap(Limit[k]) * (1 + Cardinality(forgot[m][k])) \in Nat
      BY <3>3, Multiples
    <3> QED BY <3>1, <3>2, <3>3, <3>4 DEF RoomInMonth, ForgottenBills
  <2> QED BY <1>1, <2>1 DEF BillFor
<1> QED BY <1>2, <1>3, <1>4, <1>6, <1>7 DEF TableInv

-----------------------------------------------------------------------------
(* Forgetting a bill: the key is granted one more cap, or it was before. *)

LEMMA OneMore ==
  ASSUME NEW A, IsFiniteSet(A), NEW b \in Nat, NEW C \in Nat,
         b <= C * (1 + Cardinality(A)),
         \A n \in A : n \in Nat /\ n <= C * Cardinality(A)
  PROVE  /\ IsFiniteSet(A \cup {b})
         /\ C * (1 + Cardinality(A)) <= C * (1 + Cardinality(A \cup {b}))
         /\ \A n \in A \cup {b} : n <= C * Cardinality(A \cup {b})
<1>1. Cardinality(A) \in Nat
  BY FS_CardinalityType
<1>2. CASE b \in A
  <2>1. A \cup {b} = A
    BY <1>2
  <2>2. C * (1 + Cardinality(A)) \in Nat
    BY <1>1, Multiples
  <2> QED BY <2>1, <2>2
<1>3. CASE b \notin A
  <2>1. IsFiniteSet(A \cup {b}) /\ Cardinality(A \cup {b}) = Cardinality(A) + 1
    BY <1>3, FS_AddElement
  <2> DEFINE a == Cardinality(A)
             d == Cardinality(A \cup {b})
  <2>2. a \in Nat /\ d = 1 + a /\ b <= C * (1 + a)
    BY <1>1, <2>1
  <2>3. \A n \in A : n \in Nat /\ n <= C * a
    OBVIOUS
  <2> HIDE DEF a, d
  <2>4. d \in Nat /\ 1 + d \in Nat /\ 1 + a \in Nat
    BY <2>2
  <2>5. C * a \in Nat /\ C * d \in Nat /\ C * (1 + a) \in Nat /\ C * (1 + d) \in Nat
    BY <2>2, <2>4, Multiples
  <2>6. C * (1 + a) = C * a + C /\ C * (1 + d) = C * d + C
    BY <2>2, <2>4, Multiples
  <2>7. C * d = C * (1 + a)
    BY <2>2
  <2>8. C * (1 + a) <= C * (1 + d) /\ C * a <= C * d /\ b <= C * d
    BY <2>2, <2>5, <2>6, <2>7
  <2>9. \A n \in A \cup {b} : n <= C * d
    BY <2>3, <2>5, <2>8
  <2> QED BY <2>1, <2>8, <2>9 DEF a, d
<1> QED BY <1>2, <1>3

\* The running month's counters are set to v: what v lacks of a bill is granted.
LEMMA Forgetting ==
  ASSUME TypeOK, NEW v \in [Keys -> Nat], forgot' = Forgets(v),
         UNCHANGED <<now, spent>>,
         NEW k \in Keys, Limit[k] > 0, BillFor(k),
         \A m \in Months : Unlogged(m, k)' \subseteq Unlogged(m, k)
  PROVE  /\ \A m \in Months : RoomInMonth(m, k)' /\ ForgottenBills(m, k)'
         /\ MonthBill(Today, k)
              <= Cap(Limit[k]) * Cardinality(forgot'[Today][k]) + v[k]
<1> DEFINE C == Cap(Limit[k])
<1>1. C \in Nat /\ Today \in Months /\ v[k] \in Nat
  BY CapNat, Fields
<1>2. ASSUME NEW m \in Months
      PROVE  /\ IsFiniteSet(forgot'[m][k])
             /\ C * (1 + Cardinality(forgot[m][k])) <= C * (1 + Cardinality(forgot'[m][k]))
             /\ \A n \in forgot'[m][k] : n <= C * Cardinality(forgot'[m][k])
  <2> DEFINE A == forgot[m][k]
             b == MonthBill(m, k)
  <2>1. IsFiniteSet(A) /\ A \subseteq Nat /\ b \in Nat
    BY BillNat, Granted DEF TypeOK
  <2>2. \A n \in A : n \in Nat /\ n <= C * Cardinality(A)
    BY <2>1 DEF BillFor, ForgottenBills
  <2>3. b <= C * (1 + Cardinality(A))
    <3>1. b + MaxCost * Cardinality(Unlogged(m, k)) <= C * (1 + Cardinality(A))
      BY DEF BillFor, RoomInMonth
    <3>2. C * (1 + Cardinality(A)) \in Nat
      BY <1>1, Granted
    <3>3. MaxCost * Cardinality(Unlogged(m, k)) \in Nat
      BY Subsets, SlotCount, CostMonotone
    <3> HIDE DEF A, b, C
    <3> QED BY <2>1, <3>1, <3>2, <3>3
  <2>4. forgot'[m][k] = A \/ forgot'[m][k] = A \cup {b}
    BY ForgetsEntry
  <2>5. C * (1 + Cardinality(A)) \in Nat
    BY <1>1, Granted
  <2> HIDE DEF A, b, C
  <2>6. CASE forgot'[m][k] = A
    <3>1. C * (1 + Cardinality(A)) <= C * (1 + Cardinality(A))
      BY <2>5
    <3> QED BY <2>1, <2>2, <2>6, <3>1 DEF A
  <2>7. CASE forgot'[m][k] = A \cup {b}
    <3>1. /\ IsFiniteSet(A \cup {b})
          /\ C * (1 + Cardinality(A)) <= C * (1 + Cardinality(A \cup {b}))
          /\ \A n \in A \cup {b} : n <= C * Cardinality(A \cup {b})
      BY <1>1, <2>1, <2>2, <2>3, OneMore
    <3> QED BY <2>7, <3>1 DEF A
  <2> QED BY <2>4, <2>6, <2>7
<1>3. ASSUME NEW m \in Months PROVE RoomInMonth(m, k)' /\ ForgottenBills(m, k)'
  <2>1. MonthBill(m, k)' = MonthBill(m, k) /\ MonthBill(m, k) \in Nat
    BY BillStays, BillNat
  <2>2. /\ MaxCost * Cardinality(Unlogged(m, k)') <= MaxCost * Cardinality(Unlogged(m, k))
        /\ MaxCost * Cardinality(Unlogged(m, k)') \in Nat
        /\ MaxCost * Cardinality(Unlogged(m, k)) \in Nat
    <3>1. Cardinality(Unlogged(m, k)') <= Cardinality(Unlogged(m, k))
      BY Subsets, SlotCount, FS_Subset
    <3> QED BY <3>1, Subsets, SlotCount, CostMonotone
  <2>3. MonthBill(m, k) + MaxCost * Cardinality(Unlogged(m, k))
          <= C * (1 + Cardinality(forgot[m][k]))
    BY DEF BillFor, RoomInMonth
  <2>4. /\ C * (1 + Cardinality(forgot[m][k])) \in Nat
        /\ C * (1 + Cardinality(forgot'[m][k])) \in Nat
    <3>1. Cardinality(forgot'[m][k]) \in Nat
      BY <1>2, FS_CardinalityType
    <3>2. C * (1 + Cardinality(forgot'[m][k])) \in Nat
      BY <1>1, <3>1, Multiples
    <3> QED BY <1>1, <3>2, Granted
  <2>5. C * (1 + Cardinality(forgot[m][k])) <= C * (1 + Cardinality(forgot'[m][k]))
    BY <1>2
  <2>6. MonthBill(m, k)' + MaxCost * Cardinality(Unlogged(m, k)')
          <= C * (1 + Cardinality(forgot'[m][k]))
    <3> HIDE DEF C
    <3> QED BY <2>1, <2>2, <2>3, <2>4, <2>5
  <2>7. RoomInMonth(m, k)'
    BY <2>6 DEF RoomInMonth
  <2> QED BY <1>2, <2>7 DEF ForgottenBills
<1>4. MonthBill(Today, k) <= C * Cardinality(forgot'[Today][k]) + v[k]
  <2>1. MonthBill(Today, k) \in Nat /\ C * Cardinality(forgot'[Today][k]) \in Nat
    <3>1. Cardinality(forgot'[Today][k]) \in Nat
      BY <1>1, <1>2, FS_CardinalityType
    <3>2. C * Cardinality(forgot'[Today][k]) \in Nat
      BY <1>1, <3>1, Multiples
    <3> QED BY <3>2, BillNat
  <2>2. CASE v[k] < MonthBill(Today, k)
    <3>1. MonthBill(Today, k) \in forgot'[Today][k]
      BY <1>1, <2>2, ForgetsEntry
    <3>2. MonthBill(Today, k) <= C * Cardinality(forgot'[Today][k])
      BY <1>1, <1>2, <3>1
    <3> HIDE DEF C
    <3> QED BY <1>1, <2>1, <3>2
  <2>3. CASE ~(v[k] < MonthBill(Today, k))
    <3> HIDE DEF C
    <3> QED BY <1>1, <2>1, <2>3
  <2> QED BY <2>2, <2>3
<1> QED BY <1>3, <1>4

-----------------------------------------------------------------------------
(* The steps of the process and of the calendar. *)

\* New, SeedFails and Stop: nothing is spent or forgotten, and nothing is served after.
LEMMA TableQuiet ==
  ASSUME IInv, IInv', TableInv, UNCHANGED <<now, forgot, blind, table>>,
         phase' # "serving", born' <= month',
         phase' # "down" => month' = Today \/ (phase # "down" /\ month' = month)
  PROVE  TableInv'
<1> USE DEF IInv
<1>1. \A s \in Slots : req'[s] = Free
  BY DEF QuietUnlessServing
<1>2. Today' = Today /\ Today \in Nat /\ now \in Nat
  BY Fields DEF Today
<1>3. PastOnly'
  <2>1. \A s \in Slots : req'[s].stamp = 0 /\ req'[s].at = "free"
    BY <1>1 DEF Free
  <2> QED BY <1>2, <2>1 DEF TableInv, PastOnly
<1>4. Accounted'
  BY DEF TableInv, Accounted, Old
<1>5. NothingForgottenYet'
  BY <1>2 DEF TableInv, NothingForgottenYet
<1>6. SeededInFull' /\ ForgetsOnce'
  BY DEF SeededInFull, TableInv, ForgetsOnce
<1>7. ASSUME NEW k \in Keys, Limit[k] > 0 PROVE BillFor(k)'
  <2>1. ASSUME NEW m \in Months PROVE RoomInMonth(m, k)' /\ ForgottenBills(m, k)'
    <3>1. BillFor(k)
      BY <1>7 DEF TableInv
    <3>2. Unlogged(m, k)' \subseteq Unlogged(m, k)
      BY <1>1 DEF Unlogged, Free
    <3>3. MonthBill(m, k)' = MonthBill(m, k) /\ forgot'[m][k] = forgot[m][k]
      BY BillStays
    <3> QED BY <1>7, <3>1, <3>2, <3>3, RoomKept, BillsKept
  <2> QED BY <2>1 DEF BillFor
<1> QED BY <1>3, <1>4, <1>5, <1>6, <1>7 DEF TableInv

\* A seed that is not blind sees the whole bill.
LEMMA SeedSees ==
  ASSUME TypeOK, TableInv, NEW k \in Keys, ~SeedIsBlind(k)
  PROVE  MonthBill(Today, k) <= SeedSum[k]
<1> DEFINE S == Ticks(Today)
           T == {t \in Times : t >= Cut[now]}
<1>1. S \in SUBSET Times /\ T \in SUBSET Times
  BY DEF Ticks
<1>2. rows \in [Times -> [Keys -> Nat]] /\ spent \in [Times -> [Keys -> Nat]]
  BY DEF TypeOK
<1>3. ASSUME NEW t \in S PROVE spent[t][k] <= (IF t \in T THEN rows[t][k] ELSE 0)
  <2>1. /\ t \in Times /\ t \in Nat /\ now \in Nat /\ Cut[now] \in Nat /\ Keep \in Nat
        /\ rows[t][k] \in Nat /\ absent[t][k] \in Nat /\ spent[t][k] \in Nat
    BY <1>1, Fields, Calendar, CalendarAssumption, BoundAssumption, Numbers
  <2>2. CASE t <= now
    <3>1. ~(t < Cut[now]) /\ ~(t + Keep < now) /\ absent[t][k] = 0
      BY <2>2 DEF SeedIsBlind
    <3>2. rows[t][k] + absent[t][k] = spent[t][k]
      BY <2>1, <3>1 DEF TableInv, Accounted, Old
    <3>3. t \in T
      BY <2>1, <3>1
    <3> QED BY <2>1, <3>1, <3>2, <3>3
  <2>3. CASE t > now
    <3>1. spent[t][k] = 0
      BY <2>1, <2>3 DEF TableInv, PastOnly, Zero
    <3> QED BY <2>1, <3>1
  <2> QED BY <2>1, <2>2, <2>3
<1> HIDE DEF S, T
<1>4. Total(spent, S, k) <= Total(rows, T, k)
  BY <1>1, <1>2, <1>3, TotalLE
<1>5. SeedSum[k] = Total(rows, T, k)
  BY DEF SeedSum, T
<1> QED BY <1>4, <1>5 DEF MonthBill, S

\* The counters of the map, which may be an earlier month's, are set to what the
\* query sums; what it misses of a bill is granted.
LEMMA TableSeed ==
  ASSUME IInv, IInv', TableInv, Seed
  PROVE  TableInv'
<1> USE DEF IInv
<1>1. /\ phase = "made" /\ phase' = "serving" /\ cell'[month] = SeedSum
      /\ forgot' = Forgets(SeedSum) /\ SeedSum \in [Keys -> Nat]
      /\ blind' = blind \cup {<<Today, k>> : k \in {j \in Keys : SeedIsBlind(j)}}
      /\ UNCHANGED <<now, born, month, table, req>>
      /\ month \in Months
  BY Fields, SeedSumType DEF Seed, TypeOK
<1>2. /\ Today' = Today /\ Today \in Months /\ Today \in Nat
      /\ month \in Nat /\ month <= Today /\ born \in Nat /\ born <= month
      /\ \A m \in Months : m \in Nat
  BY <1>1, Fields, Calendar DEF Today, RefsInPast, TableInv, PastOnly, TypeOK
<1>3. ASSUME NEW k \in Keys, <<Today, k>> \notin blind'
      PROVE  /\ <<Today, k>> \notin blind
             /\ MonthBill(Today, k) <= SeedSum[k]
             /\ forgot'[Today][k] = forgot[Today][k]
  <2>1. ~SeedIsBlind(k) /\ <<Today, k>> \notin blind
    BY <1>1, <1>3
  <2>2. MonthBill(Today, k) <= SeedSum[k]
    BY <2>1, SeedSees
  <2>3. MonthBill(Today, k) \in Nat /\ SeedSum[k] \in Nat
    BY <1>1, BillNat
  <2>4. ~(SeedSum[k] < MonthBill(Today, k))
    BY <2>2, <2>3
  <2> QED BY <1>1, <1>2, <2>1, <2>2, <2>4, ForgetsEntry
<1>4. \A m \in Months : m # Today => \A k \in Keys : forgot'[m][k] = forgot[m][k]
  BY <1>1, ForgetsEntry
<1>5. PastOnly'
  <2>1. ASSUME NEW m \in Months, m > Today PROVE forgot'[m] = Unforgotten
    <3>1. m # Today /\ forgot[m] = Unforgotten
      BY <1>2, <2>1 DEF TableInv, PastOnly
    <3> QED BY <1>1, <3>1 DEF Forgets, TypeOK
  <2> QED BY <1>1, <1>2, <2>1 DEF TableInv, PastOnly
<1>6. Accounted'
  BY <1>1 DEF TableInv, Accounted, Old
<1>7. NothingForgottenYet'
  <2> SUFFICES ASSUME month < Today, NEW k \in Keys, <<Today, k>> \notin blind'
               PROVE  forgot'[Today][k] = {}
    BY <1>1, <1>2 DEF NothingForgottenYet
  <2> QED BY <1>1, <1>3 DEF TableInv, NothingForgottenYet
<1>8. SeededInFull'
  <2> SUFFICES ASSUME born = Today, NEW k \in Keys, <<Today, k>> \notin blind'
               PROVE  MonthBill(Today, k)' <= cell'[Today][k] + OnItsWay(k)'
    BY <1>1, <1>2 DEF SeededInFull
  <2>1. month = Today
    BY <1>2
  <2>2. MonthBill(Today, k)' = MonthBill(Today, k) /\ MonthBill(Today, k) \in Nat
    BY <1>1, TodaysBill, BillNat
  <2>3. OnItsWay(k)' \in Nat /\ SeedSum[k] \in Nat
    BY <1>1, Subsets, SpentBound DEF OnItsWay
  <2> QED BY <1>1, <1>3, <2>1, <2>2, <2>3
<1>9. ForgetsOnce'
  <2> SUFFICES ASSUME NEW m \in Months, NEW k \in Keys, <<m, k>> \notin blind'
               PROVE  Cardinality(forgot'[m][k]) <= 1
    BY DEF ForgetsOnce
  <2>1. <<m, k>> \notin blind
    BY <1>1
  <2>2. forgot'[m][k] = forgot[m][k]
    BY <1>3, <1>4
  <2> QED BY <2>1, <2>2 DEF TableInv, ForgetsOnce
<1>10. ASSUME NEW k \in Keys, Limit[k] > 0 PROVE BillFor(k)'
  <2>1. BillFor(k)
    BY <1>10 DEF TableInv
  <2>2. \A m \in Months : Unlogged(m, k)' \subseteq Unlogged(m, k)
    BY <1>1 DEF Unlogged
  <2>3. /\ \A m \in Months : RoomInMonth(m, k)' /\ ForgottenBills(m, k)'
        /\ MonthBill(Today, k)
             <= Cap(Limit[k]) * Cardinality(forgot'[Today][k]) + SeedSum[k]
    BY <1>1, <1>10, <2>1, <2>2, Forgetting
  <2>4. CounterBehind(k)'
    <3>1. MonthBill(Today, k)' = MonthBill(Today, k) /\ MonthBill(Today, k) \in Nat
      BY <1>1, TodaysBill, BillNat
    <3>2. Spent(req', Due(k)') \in Nat /\ SeedSum[k] \in Nat
      BY <1>1, Subsets, SpentBound
    <3>3. Cap(Limit[k]) * Cardinality(forgot'[Today][k]) \in Nat
      <4>1. IsFiniteSet(forgot'[Today][k])
        BY <1>2, <2>3 DEF ForgottenBills
      <4> QED BY <1>10, <4>1, FS_CardinalityType, CapNat, Multiples
    <3>4. cell'[month'][k] = SeedSum[k]
      BY <1>1
    <3>5. MonthBill(Today, k)'
            <= Cap(Limit[k]) * Cardinality(forgot'[Today][k]) + cell'[month'][k]
                 + Spent(req', Due(k)')
      BY <2>3, <3>1, <3>2, <3>3, <3>4
    <3> QED BY <1>2, <3>5 DEF CounterBehind
  <2> QED BY <2>3, <2>4 DEF BillFor
<1> QED BY <1>5, <1>6, <1>7, <1>8, <1>9, <1>10 DEF TableInv

LEMMA TableProcess ==
  ASSUME IInv, IInv', TableInv, Process
  PROVE  TableInv'
<1> USE DEF IInv
<1>1. born <= month /\ Today \in Nat
  BY Fields DEF TableInv, PastOnly
<1>2. CASE New
  BY <1>1, <1>2, TableQuiet DEF New
<1>3. CASE SeedFails
  BY <1>1, <1>3, TableQuiet DEF SeedFails
<1>4. CASE Stop
  BY <1>1, <1>4, TableQuiet DEF Stop
<1> QED BY <1>2, <1>3, <1>4, TableSeed DEF Process

\* Time passes.  A new month has cost nothing yet, and nothing of it is forgotten.
LEMMA TableTick ==
  ASSUME IInv, IInv', TableInv, Tick
  PROVE  TableInv'
<1> USE DEF IInv
<1>1. /\ now' = now + 1 /\ now \in Nat /\ now \in Times /\ now' \in Times /\ now' \in Nat
      /\ UNCHANGED <<phase, tracker, table, req>>
  BY Fields, Calendar DEF Tick, TypeOK
<1>2. /\ Today \in Nat /\ Today' \in Nat /\ Today <= Today' /\ Today' \in Months
      /\ month \in Nat /\ month <= Today /\ born \in Nat /\ born <= month
      /\ \A m \in Months : m \in Nat
      /\ \A t \in Times : t \in Nat /\ MonthOf[t] \in Nat
  <2>1. MonthOf[now] <= MonthOf[now']
    BY <1>1, CalendarAssumption
  <2> QED BY <1>1, <2>1, Fields, Calendar DEF Today, RefsInPast, TableInv, PastOnly, TypeOK
<1>3. PastOnly'
  <2>1. \A t \in Times : t > now' => t > now
    BY <1>1, <1>2
  <2>2. ASSUME NEW s \in Slots PROVE req'[s].stamp <= now'
    <3>1. req[s].stamp <= now /\ req[s].stamp \in Nat
      BY Fields DEF TableInv, PastOnly
    <3> QED BY <1>1, <3>1
  <2>3. \A m \in Months : m > Today' => m > Today
    BY <1>2
  <2> QED BY <1>1, <2>1, <2>2, <2>3 DEF TableInv, PastOnly
<1>4. Accounted'
  <2> SUFFICES ASSUME NEW t \in Times, NEW k \in Keys, ~Old(t)'
               PROVE  rows[t][k] + absent[t][k] = spent[t][k]
    BY <1>1 DEF Accounted
  <2>1. ~Old(t)
    BY <1>1, <1>2, BoundAssumption DEF Old
  <2> QED BY <2>1 DEF TableInv, Accounted
<1>5. NothingForgottenYet'
  <2> SUFFICES ASSUME phase # "down", month < Today', NEW k \in Keys, <<Today', k>> \notin blind
               PROVE  forgot[Today'][k] = {}
    BY <1>1 DEF NothingForgottenYet
  <2>1. CASE Today' = Today
    BY <2>1 DEF TableInv, NothingForgottenYet
  <2>2. CASE Today' # Today
    <3>1. Today' > Today
      BY <1>2, <2>2
    <3>2. forgot[Today'] = Unforgotten
      BY <1>2, <3>1 DEF TableInv, PastOnly
    <3> QED BY <3>2 DEF Unforgotten
  <2> QED BY <2>1, <2>2
<1>6. SeededInFull'
  <2> SUFFICES ASSUME phase = "serving", born = Today', NEW k \in Keys,
                      <<Today', k>> \notin blind
               PROVE  MonthBill(Today, k)' <= cell[Today'][k] + OnItsWay(k)'
    BY <1>1 DEF SeededInFull
  <2>1. Today' = Today
    BY <1>2
  <2>2. MonthBill(Today, k)' = MonthBill(Today, k) /\ OnItsWay(k)' = OnItsWay(k)
    BY <1>1, <2>1 DEF MonthBill, Total, Ticks, OnItsWay, Unadded
  <2> QED BY <2>1, <2>2 DEF TableInv, SeededInFull
<1>7. ForgetsOnce'
  BY <1>1 DEF TableInv, ForgetsOnce
<1>8. ASSUME NEW k \in Keys, Limit[k] > 0 PROVE BillFor(k)'
  <2>1. BillFor(k)
    BY <1>8 DEF TableInv
  <2>2. ASSUME NEW m \in Months PROVE RoomInMonth(m, k)' /\ ForgottenBills(m, k)'
    <3>1. Unlogged(m, k)' \subseteq Unlogged(m, k)
      BY <1>1 DEF Unlogged
    <3>2. MonthBill(m, k)' = MonthBill(m, k) /\ forgot'[m][k] = forgot[m][k]
      BY <1>1, BillStays
    <3> QED BY <1>8, <2>1, <3>1, <3>2, RoomKept, BillsKept
  <2>3. CASE Today' = Today
    <3>1. MonthBill(Today, k)' = MonthBill(Today, k) /\ Due(k)' = Due(k)
      BY <1>1, <2>3 DEF MonthBill, Total, Ticks, Due
    <3>2. CounterBehind(k) => CounterBehind(k)'
      BY <1>1, <2>3, <3>1 DEF CounterBehind
    <3> QED BY <1>1, <2>1, <2>2, <3>2 DEF BillFor
  <2>4. CASE Today' # Today
    <3>1. ASSUME NEW t \in Ticks(Today') PROVE spent'[t][k] = 0
      <4>1. t \in Times /\ MonthOf[t] = Today'
        BY DEF Ticks
      <4>2. MonthOf[t] > MonthOf[now]
        BY <1>2, <2>4, <4>1 DEF Today
      <4>3. t > now
        BY <1>1, <1>2, <4>1, <4>2, CalendarAssumption
      <4> QED BY <1>1, <4>1, <4>3 DEF TableInv, PastOnly, Zero
    <3>2. MonthBill(Today, k)' = 0
      <4>1. Total(spent', Ticks(Today'), k) = 0
        BY <3>1, TotalZero
      <4> QED BY <4>1 DEF MonthBill, Total, Ticks
    <3>3. /\ Cap(Limit[k]) * Cardinality(forgot[Today'][k]) \in Nat
          /\ cell[month][k] \in Nat /\ Spent(req', Due(k)') \in Nat
      BY <1>2, <1>8, <2>1, Granted, CounterNat, Fields, Subsets, SpentBound
    <3>4. CounterBehind(k)'
      BY <1>1, <3>2, <3>3 DEF CounterBehind
    <3> QED BY <2>2, <3>4 DEF BillFor
  <2> QED BY <2>3, <2>4
<1> QED BY <1>3, <1>4, <1>5, <1>6, <1>7, <1>8 DEF TableInv

\* The tick of the month forgets what the month has cost so far: the first time
\* anything of it is forgotten, unless a seed was blind.
LEMMA TableRoll ==
  ASSUME IInv, IInv', TableInv, Roll
  PROVE  TableInv'
<1> USE DEF IInv
<1>1. /\ phase = "serving" /\ month' = Today /\ cell'[Today] = Zero
      /\ forgot' = Forgets(Zero) /\ Zero \in [Keys -> Nat]
      /\ UNCHANGED <<now, phase, born, blind, table, req>>
      /\ Today' = Today /\ Today \in Months /\ Today \in Nat
  BY Fields, FreeIsRequest DEF Roll, TypeOK, Today
<1>2. /\ month < Today /\ month \in Nat /\ born \in Nat /\ born <= month
      /\ \A m \in Months : m \in Nat
  BY <1>1, Fields, Calendar DEF Roll, RefsInPast, TableInv, PastOnly, TypeOK
<1>3. PastOnly'
  <2>1. ASSUME NEW m \in Months, m > Today PROVE forgot'[m] = Unforgotten
    <3>1. m # Today /\ forgot[m] = Unforgotten
      BY <1>1, <1>2, <2>1 DEF TableInv, PastOnly
    <3> QED BY <1>1, <3>1 DEF Forgets, TypeOK
  <2> QED BY <1>1, <1>2, <2>1 DEF TableInv, PastOnly
<1>4. Accounted'
  BY <1>1 DEF TableInv, Accounted, Old
<1>5. NothingForgottenYet' /\ SeededInFull'
  BY <1>1, <1>2 DEF NothingForgottenYet, SeededInFull
<1>6. ForgetsOnce'
  <2> SUFFICES ASSUME NEW m \in Months, NEW k \in Keys, <<m, k>> \notin blind
               PROVE  Cardinality(forgot'[m][k]) <= 1
    BY <1>1 DEF ForgetsOnce
  <2>1. CASE m = Today
    <3>1. forgot[m][k] = {}
      BY <1>1, <1>2, <2>1 DEF TableInv, NothingForgottenYet
    <3>2. forgot'[m][k] = {} \/ forgot'[m][k] = {MonthBill(m, k)}
      <4>1. Forgets(Zero)[m][k] = IF m = Today /\ Zero[k] < MonthBill(m, k)
                                    THEN forgot[m][k] \cup {MonthBill(m, k)}
                                    ELSE forgot[m][k]
        BY ForgetsEntry
      <4> QED BY <1>1, <3>1, <4>1
    <3>3. Cardinality({}) = 0 /\ Cardinality({MonthBill(m, k)}) = 1
      BY FS_EmptySet, FS_Singleton
    <3> QED BY <3>2, <3>3
  <2>2. CASE m # Today
    <3>1. forgot'[m][k] = forgot[m][k]
      BY <1>1, <2>2, ForgetsEntry
    <3> QED BY <3>1 DEF TableInv, ForgetsOnce
  <2> QED BY <2>1, <2>2
<1>7. ASSUME NEW k \in Keys, Limit[k] > 0 PROVE BillFor(k)'
  <2>1. BillFor(k)
    BY <1>7 DEF TableInv
  <2>2. \A m \in Months : Unlogged(m, k)' \subseteq Unlogged(m, k)
    BY <1>1 DEF Unlogged
  <2>3. /\ \A m \in Months : RoomInMonth(m, k)' /\ ForgottenBills(m, k)'
        /\ MonthBill(Today, k)
             <= Cap(Limit[k]) * Cardinality(forgot'[Today][k]) + Zero[k]
    BY <1>1, <1>7, <2>1, <2>2, Forgetting
  <2>4. CounterBehind(k)'
    <3>1. MonthBill(Today, k)' = MonthBill(Today, k) /\ MonthBill(Today, k) \in Nat
      BY <1>1, TodaysBill, BillNat
    <3>2. Spent(req', Due(k)') \in Nat /\ Zero[k] = 0
      BY <1>1, Subsets, SpentBound DEF Zero
    <3>3. Cap(Limit[k]) * Cardinality(forgot'[Today][k]) \in Nat
      <4>1. IsFiniteSet(forgot'[Today][k])
        BY <1>1, <2>3 DEF ForgottenBills
      <4> QED BY <1>7, <4>1, FS_CardinalityType, CapNat, Multiples
    <3>4. cell'[month'][k] = 0
      BY <1>1, <3>2
    <3>5. MonthBill(Today, k)'
            <= Cap(Limit[k]) * Cardinality(forgot'[Today][k]) + cell'[month'][k]
                 + Spent(req', Due(k)')
      BY <2>3, <3>1, <3>2, <3>3, <3>4
    <3> QED BY <1>1, <3>5 DEF CounterBehind
  <2> QED BY <2>3, <2>4 DEF BillFor
<1> QED BY <1>3, <1>4, <1>5, <1>6, <1>7 DEF TableInv

\* What happens to the table changes no bill and no counter.
LEMMA TableRows ==
  ASSUME IInv, IInv', TableInv, UNCHANGED <<now, phase, tracker, spent, req>>, Accounted'
  PROVE  TableInv'
<1> USE DEF IInv
<1>1. PastOnly' /\ Today' = Today
  BY DEF TableInv, PastOnly, Today
<1>2. NothingForgottenYet' /\ ForgetsOnce'
  BY NothingForgotten
<1>3. SeededInFull'
  BY <1>1, TodaysBill DEF TableInv, SeededInFull, OnItsWay, Unadded
<1>4. ASSUME NEW k \in Keys, Limit[k] > 0 PROVE BillFor(k)'
  <2>1. BillFor(k)
    BY <1>4 DEF TableInv
  <2>2. ASSUME NEW m \in Months PROVE RoomInMonth(m, k)' /\ ForgottenBills(m, k)'
    <3>1. Unlogged(m, k)' \subseteq Unlogged(m, k)
      BY DEF Unlogged
    <3>2. MonthBill(m, k)' = MonthBill(m, k) /\ forgot'[m][k] = forgot[m][k]
      BY BillStays
    <3> QED BY <1>4, <2>1, <3>1, <3>2, RoomKept, BillsKept
  <2>3. CounterBehind(k) => CounterBehind(k)'
    BY <1>1, TodaysBill DEF CounterBehind, Due
  <2> QED BY <2>1, <2>2, <2>3 DEF BillFor
<1> QED BY <1>1, <1>2, <1>3, <1>4 DEF TableInv

LEMMA TableLog ==
  ASSUME IInv, IInv', TableInv, Log
  PROVE  TableInv'
<1>1. CASE Sweep
  <2>1. Accounted'
    BY <1>1 DEF Sweep, TableInv, Accounted, Old
  <2> QED BY <1>1, <2>1, TableRows DEF Sweep
<1>2. ASSUME NEW t \in Times, NEW k \in Keys, NEW c \in Costs, Commit(t, k, c)
      PROVE  TableInv'
  <2>1. Accounted'
    <3> SUFFICES ASSUME NEW u \in Times, NEW j \in Keys, ~Old(u)
                 PROVE  rows'[u][j] + absent'[u][j] = spent[u][j]
      BY <1>2 DEF Accounted, Commit, Old
    <3>1. rows[u][j] + absent[u][j] = spent[u][j]
      BY DEF TableInv, Accounted
    <3>2. /\ rows \in [Times -> [Keys -> Nat]] /\ absent \in [Times -> [Keys -> Nat]]
          /\ c \in Nat
      BY FreeIsRequest DEF IInv, TypeOK
    <3>3. rows'[u][j] = IF u = t /\ j = k THEN rows[u][j] + c ELSE rows[u][j]
      BY <1>2, <3>2 DEF Commit, Plus
    <3>4. absent'[u][j] = IF u = t /\ j = k THEN absent[u][j] - c ELSE absent[u][j]
      BY <1>2, <3>2 DEF Commit
    <3>5. rows[u][j] \in Nat /\ absent[u][j] \in Nat
      BY <3>2
    <3> QED BY <3>1, <3>2, <3>3, <3>4, <3>5
  <2> QED BY <1>2, <2>1, TableRows DEF Commit
<1> QED BY <1>1, <1>2 DEF Log

-----------------------------------------------------------------------------
(* The steps of a handler. *)

\* How a step of slot s moves the two sums.
LEMMA Sums ==
  ASSUME TypeOK, TypeOK', NEW s \in Slots, NEW k \in Keys, month' = month,
         \A t \in Slots \ {s} : req'[t] = req[t]
  PROVE  /\ OnItsWay(k)' + (IF s \in Unadded(k) THEN req[s].cost ELSE 0)
              = OnItsWay(k) + (IF s \in Unadded(k)' THEN req'[s].cost ELSE 0)
         /\ Spent(req', Due(k)') + (IF s \in Due(k) THEN req[s].cost ELSE 0)
              = Spent(req, Due(k)) + (IF s \in Due(k)' THEN req'[s].cost ELSE 0)
         /\ OnItsWay(k) \in Nat /\ OnItsWay(k)' \in Nat
         /\ Spent(req, Due(k)) \in Nat /\ Spent(req', Due(k)') \in Nat
<1>1. \A t \in Slots : req[t].cost \in 0 .. MaxCost /\ req'[t].cost \in 0 .. MaxCost
  BY CostAssumption DEF TypeOK, Request
<1>2. /\ Unadded(k) \ {s} = Unadded(k)' \ {s}
      /\ Due(k) \ {s} = Due(k)' \ {s}
  BY DEF Unadded, Due
<1>3. OnItsWay(k)' + (IF s \in Unadded(k) THEN req[s].cost ELSE 0)
        = OnItsWay(k) + (IF s \in Unadded(k)' THEN req'[s].cost ELSE 0)
  BY <1>1, <1>2, Subsets, SpentMoves DEF OnItsWay
<1>4. Spent(req', Due(k)') + (IF s \in Due(k) THEN req[s].cost ELSE 0)
        = Spent(req, Due(k)) + (IF s \in Due(k)' THEN req'[s].cost ELSE 0)
  BY <1>1, <1>2, Subsets, SpentMoves
<1>5. /\ OnItsWay(k) \in Nat /\ OnItsWay(k)' \in Nat
      /\ Spent(req, Due(k)) \in Nat /\ Spent(req', Due(k)') \in Nat
  BY Subsets, SpentBound DEF OnItsWay
<1> QED BY <1>3, <1>4, <1>5

\* A step that charges and logs nothing and leaves the sums alone.
LEMMA TableSameSums ==
  ASSUME IInv, IInv', TableInv, NEW s \in Slots,
         UNCHANGED <<now, phase, tracker, table>>,
         \A t \in Slots \ {s} : req'[t] = req[t],
         req'[s].stamp <= now,
         req'[s].at = "adding" => req'[s].ref >= born,
         \A k \in Keys : /\ OnItsWay(k)' = OnItsWay(k)
                         /\ Spent(req', Due(k)') = Spent(req, Due(k)),
         \A k \in Keys, m \in Months : Limit[k] > 0 => RoomInMonth(m, k)'
  PROVE  TableInv'
<1> USE DEF IInv
<1>1. PastOnly' /\ Accounted' /\ Today' = Today
  BY DEF TableInv, PastOnly, Accounted, Old, Today
<1>2. NothingForgottenYet' /\ ForgetsOnce'
  BY NothingForgotten
<1>3. SeededInFull'
  BY <1>1, TodaysBill DEF TableInv, SeededInFull
<1>4. ASSUME NEW k \in Keys, Limit[k] > 0 PROVE BillFor(k)'
  <2>1. BillFor(k)
    BY <1>4 DEF TableInv
  <2>2. CounterBehind(k) => CounterBehind(k)'
    BY <1>1, TodaysBill DEF CounterBehind
  <2>3. \A m \in Months : ForgottenBills(m, k)'
    BY <2>1, BillsKept
  <2> QED BY <1>4, <2>1, <2>2, <2>3 DEF BillFor
<1> QED BY <1>1, <1>2, <1>3, <1>4 DEF TableInv

\* A handler that holds no cost, or one of nothing, and takes none on.
LEMMA TableIdle ==
  ASSUME IInv, IInv', TableInv, NEW s \in Slots,
         UNCHANGED <<now, phase, tracker, table>>,
         \A t \in Slots \ {s} : req'[t] = req[t],
         req[s].at # "adding", req[s].at = "published" => req[s].cost = 0,
         req'[s].at \notin {"built", "published", "adding"},
         req'[s].stamp <= now
  PROVE  TableInv'
<1> USE DEF IInv
<1>1. ASSUME NEW k \in Keys
      PROVE  /\ OnItsWay(k)' = OnItsWay(k)
             /\ Spent(req', Due(k)') = Spent(req, Due(k))
  <2>1. s \notin Unadded(k)' /\ s \notin Due(k)'
    BY DEF Unadded, Due
  <2>2. (s \in Unadded(k) => req[s].cost = 0) /\ (s \in Due(k) => req[s].cost = 0)
    BY DEF Unadded, Due
  <2> QED BY <2>1, <2>2, Sums
<1>2. ASSUME NEW k \in Keys, NEW m \in Months, Limit[k] > 0
      PROVE  RoomInMonth(m, k)'
  <2>1. Unlogged(m, k)' \subseteq Unlogged(m, k)
    BY DEF Unlogged
  <2>2. MonthBill(m, k)' = MonthBill(m, k) /\ BillFor(k)
    BY <1>2, BillStays DEF TableInv
  <2> QED BY <1>2, <2>1, <2>2, RoomKept
<1> QED BY <1>1, <1>2, TableSameSums

LEMMA TableCheck ==
  ASSUME IInv, IInv', TableInv, NEW s \in Slots, Check(s)
  PROVE  TableInv'
<1> USE DEF IInv
<1>1. req \in [Slots -> Request] /\ now \in Nat /\ req[s] \in Request
      /\ req[s].stamp <= now
  BY Fields DEF TypeOK, TableInv, PastOnly
<1>2. ASSUME NEW k \in Keys, AdmitUnlimited(s, k) PROVE TableInv'
  <2>1. req'[s] = [Free EXCEPT !.at = "upstream", !.key = k]
        /\ \A t \in Slots \ {s} : req'[t] = req[t]
    BY <1>1, <1>2 DEF AdmitUnlimited
  <2>2. req'[s].at = "upstream" /\ req'[s].stamp = 0
    BY <2>1 DEF Free
  <2> QED BY <1>1, <1>2, <2>1, <2>2, TableIdle DEF AdmitUnlimited
<1>3. ASSUME NEW k \in Keys, Ask(s, k) PROVE TableInv'
  <2>1. req'[s] = [Free EXCEPT !.at = "ask", !.key = k, !.ref = month,
                               !.late = UsedUp(month, k)]
        /\ \A t \in Slots \ {s} : req'[t] = req[t]
    BY <1>1, <1>3 DEF Ask
  <2>2. req'[s].at = "ask" /\ req'[s].stamp = 0
    BY <2>1 DEF Free
  <2> QED BY <1>1, <1>3, <2>1, <2>2, TableIdle DEF Ask
<1>4. CASE Admit(s)
  <2>1. req'[s] = [req[s] EXCEPT !.at = "upstream"]
        /\ \A t \in Slots \ {s} : req'[t] = req[t]
    BY <1>1, <1>4 DEF Admit
  <2>2. req'[s].at = "upstream" /\ req'[s].stamp = req[s].stamp
    BY <1>1, <2>1 DEF Request
  <2> QED BY <1>1, <1>4, <2>1, <2>2, TableIdle DEF Admit
<1>5. CASE Refuse(s)
  <2>1. req'[s] = Free /\ \A t \in Slots \ {s} : req'[t] = req[t]
    BY <1>1, <1>5 DEF Refuse
  <2>2. req'[s].at = "free" /\ req'[s].stamp = 0
    BY <2>1 DEF Free
  <2> QED BY <1>1, <1>5, <2>1, <2>2, TableIdle DEF Refuse
<1> QED BY <1>2, <1>3, <1>4, <1>5 DEF Check

\* A sum over open requests is no more than what OvershootInv keeps room for.
LEMMA OpenRoom ==
  ASSUME IInv, NEW k \in Keys, Limit[k] > 0, ~(seed[k] >= Limit[k]),
         NEW S \in SUBSET Open(k)
  PROVE  /\ cell[month][k] + MaxCost * Cardinality(S) <= Cap(Limit[k])
         /\ cell[month][k] + Spent(req, S) <= Cap(Limit[k])
<1> USE DEF IInv
<1>1. cell[month][k] + MaxCost * Cardinality(Open(k)) <= Cap(Limit[k])
  BY DEF OvershootInv, OvershootFor
<1>2. S \in SUBSET Slots
  BY OpenSubset
<1>3. Cardinality(S) <= Cardinality(Open(k))
  BY OpenSubset, SlotCount, FS_Subset
<1>4. MaxCost * Cardinality(S) <= MaxCost * Cardinality(Open(k))
  BY <1>2, <1>3, OpenSubset, SlotCount, CostMonotone
<1>5. /\ MaxCost * Cardinality(S) \in Nat /\ MaxCost * Cardinality(Open(k)) \in Nat
      /\ Spent(req, S) \in Nat /\ Spent(req, S) <= MaxCost * Cardinality(S)
      /\ cell[month][k] \in Nat /\ Cap(Limit[k]) \in Nat
  BY <1>2, OpenSubset, SlotCount, CostMonotone, SpentBound, CounterNat, Fields, CapNat
<1> QED BY <1>1, <1>4, <1>5

\* The Event fixes a cost and the month it belongs to.  The request is open, so
\* the current counter and everything due to it leave room for it under the cap,
\* and what the bill has beyond them was granted.
LEMMA TableAnswer ==
  ASSUME IInv, IInv', TableInv, NEW s \in Slots, NEW c \in Costs, Answer(s, c)
  PROVE  TableInv'
<1> USE DEF IInv
<1>1. /\ req[s].at = "upstream" /\ phase = "serving"
      /\ UNCHANGED <<now, phase, tracker, table>>
      /\ req'[s] = [req[s] EXCEPT !.at = "built", !.cost = c, !.stamp = now]
      /\ \A t \in Slots \ {s} : req'[t] = req[t]
  BY Serving DEF Answer, TypeOK
<1>2. /\ req'[s].at = "built" /\ req'[s].key = req[s].key /\ req'[s].stamp = now
  BY <1>1 DEF TypeOK, Request
<1>3. now \in Nat /\ Today \in Months
  BY Fields
<1>4. ASSUME NEW k \in Keys
      PROVE  /\ OnItsWay(k)' = OnItsWay(k)
             /\ Spent(req', Due(k)') = Spent(req, Due(k))
  <2>1. s \notin Unadded(k)' /\ s \notin Due(k)' /\ s \notin Unadded(k) /\ s \notin Due(k)
    BY <1>1, <1>2 DEF Unadded, Due
  <2> QED BY <1>1, <2>1, Sums
<1>5. ASSUME NEW k \in Keys, NEW m \in Months, Limit[k] > 0
      PROVE  RoomInMonth(m, k)'
  <2>1. BillFor(k) /\ MonthBill(m, k)' = MonthBill(m, k) /\ forgot'[m][k] = forgot[m][k]
    BY <1>1, <1>5, BillStays DEF TableInv
  <2>2. CASE req[s].key # k \/ m # Today
    <3>1. Unlogged(m, k)' \subseteq Unlogged(m, k)
      BY <1>1, <1>2, <2>2 DEF Unlogged, Today
    <3> QED BY <1>5, <2>1, <3>1, RoomKept
  <2>3. CASE req[s].key = k /\ m = Today
    <3> DEFINE U == Unlogged(m, k)'
               D == Due(k)
               C == Cap(Limit[k])
               g == C * Cardinality(forgot[m][k])
               b == MonthBill(m, k)
    <3>1. s \in Open(k) /\ U \cup D \in SUBSET Open(k) /\ U \cap D = {}
      BY <1>1, <1>2, <2>3 DEF Open, Unlogged, Due
    <3>2. ~(seed[k] >= Limit[k])
      BY <1>5, <3>1 DEF OvershootInv, OvershootFor
    <3>3. cell[month][k] + MaxCost * Cardinality(U \cup D) <= C
      BY <1>5, <3>1, <3>2, OpenRoom
    <3>4. U \in SUBSET Slots /\ D \in SUBSET Slots
      BY Subsets
    <3>5. b <= g + cell[month][k] + Spent(req, D)
      BY <1>1, <2>1, <2>3 DEF BillFor, CounterBehind
    <3>6. b \in Nat /\ g \in Nat /\ C \in Nat /\ cell[month][k] \in Nat
          /\ C * (1 + Cardinality(forgot[m][k])) = g + C
      BY <1>5, <2>1, BillNat, Granted, CapNat, CounterNat, Fields
    <3> HIDE DEF U, D, g, b, C
    <3>7. /\ IsFiniteSet(U) /\ IsFiniteSet(D)
          /\ Cardinality(U) \in Nat /\ Cardinality(D) \in Nat
      BY <3>4, SlotCount
    <3>8. Cardinality(U \cup D) = Cardinality(U) + Cardinality(D)
      <4>1. Cardinality(U \cup D) = Cardinality(U) + Cardinality(D) - Cardinality(U \cap D)
        BY <3>7, FS_Union
      <4>2. Cardinality(U \cap D) = 0
        BY <3>1, FS_EmptySet
      <4> QED BY <3>7, <4>1, <4>2
    <3>9. MaxCost * Cardinality(U \cup D) = MaxCost * Cardinality(U) + MaxCost * Cardinality(D)
      <4>1. \A x, y \in Nat : MaxCost * (x + y) = MaxCost * x + MaxCost * y
        BY CostAssumption
      <4> QED BY <3>7, <3>8, <4>1
    <3>10. /\ Spent(req, D) \in Nat /\ Spent(req, D) <= MaxCost * Cardinality(D)
           /\ MaxCost * Cardinality(D) \in Nat /\ MaxCost * Cardinality(U) \in Nat
      BY <3>4, <3>7, SpentBound, CostMonotone
    <3>11. b + MaxCost * Cardinality(U) <= g + C
      BY <3>3, <3>5, <3>6, <3>9, <3>10
    <3>12. b + MaxCost * Cardinality(U) <= C * (1 + Cardinality(forgot[m][k]))
      BY <3>6, <3>11
    <3>13. MonthBill(m, k)' + MaxCost * Cardinality(Unlogged(m, k)')
             <= Cap(Limit[k]) * (1 + Cardinality(forgot'[m][k]))
      BY <2>1, <3>12 DEF U, b, C
    <3> QED BY <3>13 DEF RoomInMonth
  <2> QED BY <2>2, <2>3
<1>6. req'[s].stamp <= now
  BY <1>2, <1>3
<1> QED BY <1>1, <1>2, <1>4, <1>5, <1>6, TableSameSums

LEMMA TableExchange ==
  ASSUME IInv, IInv', TableInv, NEW s \in Slots, Exchange(s)
  PROVE  TableInv'
<1>1. CASE BadRequest(s)
  <2>1. req'[s] = Free /\ \A t \in Slots \ {s} : req'[t] = req[t]
    BY <1>1 DEF BadRequest, IInv, TypeOK
  <2>2. req'[s].at = "free" /\ req'[s].stamp = 0 /\ now \in Nat
    BY <2>1, Fields DEF Free, IInv
  <2> QED BY <1>1, <2>1, <2>2, TableIdle DEF BadRequest
<1> QED BY <1>1, TableAnswer DEF Exchange

\* What is spent was fixed, so there is room for it, and it is due to a counter and
\* to the table from that very step on.
LEMMA TablePublish ==
  ASSUME IInv, IInv', TableInv, NEW s \in Slots, Publish(s)
  PROVE  TableInv'
<1> USE DEF IInv
<1> DEFINE u == req[s].stamp
           j == req[s].key
           c == req[s].cost
<1>1. /\ req[s].at = "built" /\ phase = "serving"
      /\ UNCHANGED <<now, phase, tracker, rows>>
      /\ req'[s] = [req[s] EXCEPT !.at = "published"]
      /\ \A t \in Slots \ {s} : req'[t] = req[t]
      /\ spent' = Plus(spent, u, j, c) /\ absent' = Plus(absent, u, j, c)
  BY Serving DEF Publish, TypeOK
<1>2. req'[s].at = "published" /\ req'[s].key = j /\ req'[s].stamp = u /\ req'[s].cost = c
  BY <1>1 DEF TypeOK, Request
<1>3. /\ u \in Times /\ j \in Keys /\ c \in Nat /\ c <= MaxCost /\ u <= now
      /\ u \in Nat /\ now \in Nat /\ now \in Times /\ Today \in Months /\ Today' = Today
  BY <1>1, Fields DEF BusyHasKey, TableInv, PastOnly, Today
<1>4. ASSUME NEW m \in Months, NEW k \in Keys
      PROVE  /\ MonthBill(m, k)'
                  = MonthBill(m, k) + (IF MonthOf[u] = m /\ k = j THEN c ELSE 0)
             /\ MonthBill(m, k) \in Nat
  <2>1. u \in Times /\ j \in Keys /\ c \in Nat /\ spent' = Plus(spent, u, j, c)
    BY <1>1, <1>3
  <2>2. MonthBill(m, k) \in Nat
    BY BillNat
  <2>3. TypeOK
    OBVIOUS
  <2> HIDE DEF u, j, c, IInv
  <2> QED BY <2>1, <2>2, <2>3, BillGrows
<1>5. ASSUME NEW k \in Keys
      PROVE  /\ OnItsWay(k)' = OnItsWay(k) + (IF k = j THEN c ELSE 0)
             /\ Spent(req', Due(k)') = Spent(req, Due(k)) + (IF k = j THEN c ELSE 0)
             /\ OnItsWay(k) \in Nat /\ Spent(req, Due(k)) \in Nat
  <2>1. s \notin Unadded(k) /\ s \notin Due(k)
    BY <1>1 DEF Unadded, Due
  <2>2. (s \in Unadded(k)' <=> k = j) /\ (s \in Due(k)' <=> k = j)
    BY <1>2 DEF Unadded, Due
  <2>3. /\ OnItsWay(k)' + 0 = OnItsWay(k) + (IF s \in Unadded(k)' THEN c ELSE 0)
        /\ Spent(req', Due(k)') + 0 = Spent(req, Due(k)) + (IF s \in Due(k)' THEN c ELSE 0)
        /\ OnItsWay(k) \in Nat /\ OnItsWay(k)' \in Nat
        /\ Spent(req, Due(k)) \in Nat /\ Spent(req', Due(k)') \in Nat
    BY <1>1, <1>2, <2>1, Sums
  <2> HIDE DEF j, c
  <2> QED BY <2>2, <2>3
<1>6. PastOnly'
  <2>1. ASSUME NEW t \in Times, t > now PROVE spent'[t] = Zero
    <3>1. t # u /\ spent[t] = Zero
      BY <1>3, <2>1, Calendar DEF TableInv, PastOnly
    <3> QED BY <1>1, <3>1 DEF Plus, TypeOK
  <2> QED BY <1>1, <1>2, <1>3, <2>1 DEF TableInv, PastOnly
<1>7. Accounted'
  <2> SUFFICES ASSUME NEW t \in Times, NEW k \in Keys, ~Old(t)
               PROVE  rows[t][k] + absent'[t][k] = spent'[t][k]
    BY <1>1 DEF Accounted, Old
  <2>1. rows[t][k] + absent[t][k] = spent[t][k]
    BY DEF TableInv, Accounted
  <2>2. /\ absent \in [Times -> [Keys -> Nat]] /\ spent \in [Times -> [Keys -> Nat]]
        /\ rows[t][k] \in Nat /\ absent[t][k] \in Nat /\ spent[t][k] \in Nat
    BY Numbers DEF TypeOK
  <2> HIDE DEF u, j, c, IInv
  <2>3. absent'[t][k] = IF t = u /\ k = j THEN absent[t][k] + c ELSE absent[t][k]
    BY <1>1, <1>3, <2>2 DEF Plus
  <2>4. spent'[t][k] = IF t = u /\ k = j THEN spent[t][k] + c ELSE spent[t][k]
    BY <1>1, <1>3, <2>2 DEF Plus
  <2> QED BY <1>3, <2>1, <2>2, <2>3, <2>4
<1>8. NothingForgottenYet' /\ ForgetsOnce'
  BY <1>1, NothingForgotten
<1>9. ASSUME NEW k \in Keys
      PROVE  /\ MonthBill(Today, k)' <= MonthBill(Today, k) + (IF k = j THEN c ELSE 0)
             /\ MonthBill(Today, k) \in Nat /\ MonthBill(Today, k)' \in Nat
  <2>1. PICK m \in Months : m = Today
    BY <1>3
  <2>2. MonthBill(Today, k)' = MonthBill(m, k)'
    BY <1>3, <2>1 DEF MonthBill, Total, Ticks
  <2>3. MonthBill(m, k)' = MonthBill(m, k) + (IF MonthOf[u] = m /\ k = j THEN c ELSE 0)
        /\ MonthBill(m, k) \in Nat
    BY <1>4
  <2> HIDE DEF u, j, c, IInv
  <2> QED BY <1>3, <2>1, <2>2, <2>3
<1>10. SeededInFull'
  <2> SUFFICES ASSUME born = Today, NEW k \in Keys, <<Today, k>> \notin blind
               PROVE  MonthBill(Today, k)' <= cell[Today][k] + OnItsWay(k)'
    BY <1>1, <1>3 DEF SeededInFull
  <2>1. MonthBill(Today, k) <= cell[Today][k] + OnItsWay(k)
    BY <1>1 DEF TableInv, SeededInFull
  <2>2. cell[Today][k] \in Nat
    BY <1>3, CounterNat
  <2> HIDE DEF u, j, c, IInv
  <2> QED BY <1>3, <1>5, <1>9, <2>1, <2>2
<1>11. ASSUME NEW k \in Keys, Limit[k] > 0 PROVE BillFor(k)'
  <2>1. BillFor(k)
    BY <1>11 DEF TableInv
  <2>2. ASSUME NEW m \in Months PROVE RoomInMonth(m, k)'
    <3>1. Unlogged(m, k)' = Unlogged(m, k) \ {s}
      BY <1>1, <1>2 DEF Unlogged
    <3>2. CASE m # MonthOf[u] \/ k # j
      <4>1. MonthBill(m, k)' = MonthBill(m, k)
        BY <1>4, <3>2
      <4> QED BY <1>1, <1>11, <2>1, <3>1, <4>1, RoomKept
    <3>3. CASE m = MonthOf[u] /\ k = j
      <4> DEFINE U == Unlogged(m, k)
                 V == Unlogged(m, k)'
                 g == Cap(Limit[k]) * (1 + Cardinality(forgot[m][k]))
      <4>1. s \in U /\ V = U \ {s}
        BY <1>1, <3>1, <3>3 DEF Unlogged
      <4>2. IsFiniteSet(U) /\ Cardinality(V) \in Nat /\ Cardinality(U) \in Nat
        BY Subsets, SlotCount
      <4>3. MonthBill(m, k) + MaxCost * Cardinality(U) <= g
        BY <2>1 DEF BillFor, RoomInMonth
      <4>4. g \in Nat
        BY <1>11, <2>1, Granted, CapNat
      <4> HIDE DEF U, V, g
      <4>5. Cardinality(U) = Cardinality(V) + 1
        <5>1. Cardinality(U \ {s}) = Cardinality(U) - 1
          BY <4>1, <4>2, FS_RemoveElement
        <5> QED BY <4>1, <4>2, <5>1
      <4>6. /\ MaxCost * Cardinality(U) = MaxCost * Cardinality(V) + MaxCost
            /\ MaxCost * Cardinality(V) \in Nat /\ MaxCost \in Nat
        BY <4>2, <4>5, CostMonotone, CostAssumption
      <4>7. MonthBill(m, k)' = MonthBill(m, k) + c /\ MonthBill(m, k) \in Nat
        BY <1>4, <3>3
      <4>8. MonthBill(m, k)' + MaxCost * Cardinality(V) <= g
        <5> HIDE DEF u, j, c, IInv
        <5> QED BY <1>3, <4>3, <4>4, <4>6, <4>7
      <4> QED BY <1>1, <4>8 DEF RoomInMonth, V, g
    <3> QED BY <3>2, <3>3
  <2>3. CounterBehind(k)'
    <3> DEFINE g == Cap(Limit[k]) * Cardinality(forgot[Today][k])
    <3>1. MonthBill(Today, k) <= g + cell[month][k] + Spent(req, Due(k))
      BY <1>1, <2>1 DEF BillFor, CounterBehind
    <3>2. g \in Nat /\ cell[month][k] \in Nat
      BY <1>3, <1>11, <2>1, Granted, CounterNat, Fields
    <3>3. MonthBill(Today, k)' <= g + cell[month][k] + Spent(req', Due(k)')
      <4> HIDE DEF u, j, c, g, IInv
      <4> QED BY <1>3, <1>5, <1>9, <3>1, <3>2
    <3> QED BY <1>1, <1>3, <3>3 DEF CounterBehind
  <2>4. \A m \in Months : ForgottenBills(m, k)'
    BY <1>1, <2>1, BillsKept
  <2> QED BY <2>2, <2>3, <2>4 DEF BillFor
<1> QED BY <1>6, <1>7, <1>8, <1>10, <1>11 DEF TableInv

\* Between fetching the counter and adding to it the cost stays due to it.
LEMMA TableFetch ==
  ASSUME IInv, IInv', TableInv, NEW s \in Slots, FetchCounter(s)
  PROVE  TableInv'
<1> USE DEF IInv
<1>1. /\ req[s].at = "published" /\ phase = "serving"
      /\ UNCHANGED <<now, phase, tracker, table>>
      /\ req'[s] = [req[s] EXCEPT !.at = "adding", !.ref = month]
      /\ \A t \in Slots \ {s} : req'[t] = req[t]
  BY Serving DEF FetchCounter, TypeOK
<1>2. /\ req'[s].at = "adding" /\ req'[s].key = req[s].key /\ req'[s].ref = month
      /\ req'[s].cost = req[s].cost /\ req'[s].stamp = req[s].stamp
  BY <1>1 DEF TypeOK, Request
<1>3. ASSUME NEW k \in Keys
      PROVE  /\ OnItsWay(k)' = OnItsWay(k)
             /\ Spent(req', Due(k)') = Spent(req, Due(k))
  <2>1. (s \in Unadded(k)' <=> s \in Unadded(k)) /\ (s \in Due(k)' <=> s \in Due(k))
    BY <1>1, <1>2 DEF Unadded, Due
  <2> DEFINE c == req[s].cost
  <2>2. /\ OnItsWay(k)' + (IF s \in Unadded(k) THEN c ELSE 0)
             = OnItsWay(k) + (IF s \in Unadded(k) THEN c ELSE 0)
        /\ Spent(req', Due(k)') + (IF s \in Due(k) THEN c ELSE 0)
             = Spent(req, Due(k)) + (IF s \in Due(k) THEN c ELSE 0)
        /\ OnItsWay(k) \in Nat /\ OnItsWay(k)' \in Nat
        /\ Spent(req, Due(k)) \in Nat /\ Spent(req', Due(k)') \in Nat
    BY <1>1, <1>2, <2>1, Sums
  <2>3. c \in Nat
    BY Fields
  <2> HIDE DEF c
  <2> QED BY <2>2, <2>3
<1>4. ASSUME NEW k \in Keys, NEW m \in Months, Limit[k] > 0
      PROVE  RoomInMonth(m, k)'
  <2>1. Unlogged(m, k)' \subseteq Unlogged(m, k)
    BY <1>1, <1>2 DEF Unlogged
  <2>2. MonthBill(m, k)' = MonthBill(m, k) /\ BillFor(k)
    BY <1>1, <1>4, BillStays DEF TableInv
  <2> QED BY <1>1, <1>4, <2>1, <2>2, RoomKept
<1>5. req'[s].stamp <= now /\ req'[s].ref >= born
  <2>1. month \in Nat /\ born \in Nat
    BY Fields, Calendar DEF TypeOK
  <2> QED BY <1>1, <1>2, <2>1 DEF TableInv, PastOnly
<1> QED BY <1>1, <1>3, <1>4, <1>5, TableSameSums

\* A counter gains what its key's requests were due to it: the current one, or one
\* that a roll has thrown away, which is never the running month's own.
LEMMA TableAdd ==
  ASSUME IInv, IInv', TableInv, NEW s \in Slots, Add(s)
  PROVE  TableInv'
<1> USE DEF IInv
<1> DEFINE n == req[s].ref
           j == req[s].key
           c == req[s].cost
<1>1. /\ req[s].at = "adding" /\ phase = "serving"
      /\ UNCHANGED <<now, phase, born, month, seed, forgot, blind, table>>
      /\ req'[s] = Free
      /\ \A t \in Slots \ {s} : req'[t] = req[t]
  BY Serving DEF Add, TypeOK
<1>2. req'[s].at = "free" /\ req'[s].stamp = 0
  BY <1>1 DEF Free
<1>3. /\ n \in Months /\ j \in Keys /\ c \in Nat
      /\ n >= born /\ n <= month /\ month <= Today
      /\ n \in Nat /\ month \in Nat /\ Today \in Nat /\ born \in Nat /\ now \in Nat
      /\ Today \in Months /\ month \in Months /\ Today' = Today
  BY <1>1, Fields, Calendar DEF BusyHasKey, RefsInPast, TableInv, PastOnly, TypeOK, Today
<1>4. ASSUME NEW m \in Months, NEW k \in Keys
      PROVE  cell'[m][k] = IF m = n /\ k = j THEN cell[m][k] + c ELSE cell[m][k]
  <2>1. cell \in [Months -> [Keys -> Nat]] /\ cell' = Plus(cell, n, j, c)
    BY DEF TypeOK, Add
  <2>2. n \in Months /\ j \in Keys /\ c \in Nat
    BY <1>3
  <2> HIDE DEF n, j, c, IInv
  <2>3. m \in Months /\ k \in Keys
    OBVIOUS
  <2> QED BY <2>1, <2>2, <2>3 DEF Plus
<1>5. ASSUME NEW k \in Keys
      PROVE  /\ OnItsWay(k)' + (IF k = j THEN c ELSE 0) = OnItsWay(k)
             /\ Spent(req', Due(k)') + (IF k = j /\ n = month THEN c ELSE 0)
                  = Spent(req, Due(k))
             /\ OnItsWay(k)' \in Nat /\ Spent(req', Due(k)') \in Nat
             /\ OnItsWay(k) \in Nat /\ Spent(req, Due(k)) \in Nat
  <2>1. s \notin Unadded(k)' /\ s \notin Due(k)'
    BY <1>2 DEF Unadded, Due
  <2>2. (s \in Unadded(k) <=> k = j) /\ (s \in Due(k) <=> k = j /\ n = month)
    BY <1>1 DEF Unadded, Due
  <2> QED BY <1>1, <1>3, <2>1, <2>2, Sums
<1>6. PastOnly' /\ Accounted'
  BY <1>1, <1>2, <1>3 DEF TableInv, PastOnly, Accounted, Old
<1>7. NothingForgottenYet' /\ ForgetsOnce'
  BY <1>1, NothingForgotten
<1>8. ASSUME NEW k \in Keys
      PROVE  MonthBill(Today, k)' = MonthBill(Today, k) /\ MonthBill(Today, k) \in Nat
  BY <1>1, TodaysBill, BillNat
<1>9. SeededInFull'
  <2> SUFFICES ASSUME born = Today, NEW k \in Keys, <<Today, k>> \notin blind
               PROVE  MonthBill(Today, k)' <= cell'[Today][k] + OnItsWay(k)'
    BY <1>1, <1>3 DEF SeededInFull
  <2>1. MonthBill(Today, k) <= cell[Today][k] + OnItsWay(k)
    BY <1>1 DEF TableInv, SeededInFull
  <2>2. cell[Today][k] \in Nat /\ n = Today
    BY <1>3, CounterNat
  <2> HIDE DEF n, j, c, IInv
  <2> QED BY <1>3, <1>4, <1>5, <1>8, <2>1, <2>2
<1>10. ASSUME NEW k \in Keys, Limit[k] > 0 PROVE BillFor(k)'
  <2>1. BillFor(k)
    BY <1>10 DEF TableInv
  <2>2. ASSUME NEW m \in Months PROVE RoomInMonth(m, k)' /\ ForgottenBills(m, k)'
    <3>1. Unlogged(m, k)' \subseteq Unlogged(m, k)
      BY <1>1, <1>2 DEF Unlogged
    <3>2. MonthBill(m, k)' = MonthBill(m, k) /\ forgot'[m][k] = forgot[m][k]
      BY <1>1, BillStays
    <3> QED BY <1>10, <2>1, <3>1, <3>2, RoomKept, BillsKept
  <2>3. CounterBehind(k)'
    <3> DEFINE g == Cap(Limit[k]) * Cardinality(forgot[Today][k])
    <3>1. MonthBill(Today, k) <= g + cell[month][k] + Spent(req, Due(k))
      BY <1>1, <2>1 DEF BillFor, CounterBehind
    <3>2. g \in Nat /\ cell[month][k] \in Nat
      BY <1>3, <1>10, <2>1, Granted, CounterNat
    <3>3. MonthBill(Today, k)' <= g + cell'[month][k] + Spent(req', Due(k)')
      <4> HIDE DEF n, j, c, g, IInv
      <4> QED BY <1>3, <1>4, <1>5, <1>8, <3>1, <3>2
    <3> QED BY <1>1, <1>3, <3>3 DEF CounterBehind
  <2> QED BY <2>2, <2>3 DEF BillFor
<1> QED BY <1>6, <1>7, <1>9, <1>10 DEF TableInv

LEMMA TableEmit ==
  ASSUME IInv, IInv', TableInv, NEW s \in Slots, Emit(s)
  PROVE  TableInv'
<1>1. CASE AddNothing(s)
  <2>1. req'[s] = Free /\ \A t \in Slots \ {s} : req'[t] = req[t]
    BY <1>1 DEF AddNothing, IInv, TypeOK
  <2>2. req'[s].at = "free" /\ req'[s].stamp = 0 /\ now \in Nat
    BY <2>1, Fields DEF Free, IInv
  <2> QED BY <1>1, <2>1, <2>2, TableIdle DEF AddNothing
<1> QED BY <1>1, TablePublish, TableFetch, TableAdd DEF Emit

LEMMA TableNext == IInv /\ IInv' /\ TableInv /\ [Next]_vars => TableInv'
<1> SUFFICES ASSUME IInv, IInv', TableInv, [Next]_vars PROVE TableInv'
  OBVIOUS
<1>1. CASE UNCHANGED vars
  <2>1. UNCHANGED <<now, phase, tracker, spent, req>>
    BY <1>1 DEF vars
  <2>2. Accounted'
    BY <1>1 DEF vars, TableInv, Accounted, Old
  <2> QED BY <2>1, <2>2, TableRows
<1>2. CASE Next
  BY <1>2, TableProcess, TableTick, TableRoll, TableLog, TableCheck, TableExchange,
     TableEmit DEF Next
<1> QED BY <1>1, <1>2

-----------------------------------------------------------------------------
(* The theorems. *)

\* What the counters, the table and the ghosts say of each other holds in every
\* behaviour, whatever zone the session cuts its months in, however short retention
\* is, and whichever costs reach the table late or never.
THEOREM TableInvariance == Spec => []TableInv
  BY Invariance, TableInit, TableNext, PTL DEF Spec

\* A process that was started in the running month by a seed that could see all of
\* it holds every cost the month has had, in a counter or on its way to one.
THEOREM SeededFully == Spec => []SeededInFull
<1>1. TableInv => SeededInFull
  BY DEF TableInv
<1> QED BY TableInvariance, <1>1, PTL

\* However many crashes, restarts and late ticks: unless a seed of the month was
\* blind, a counter is set to less than the month has cost once at the most.
THEOREM ForgetsOnlyOnce == Spec => []ForgetsOnce
<1>1. TableInv => ForgetsOnce
  BY DEF TableInv
<1> QED BY TableInvariance, <1>1, PTL

\* What a key's answers of a month have cost is at most what a counter may reach, and
\* as much again for every bill of the month that a counter was set to less than.
THEOREM MonthCapped == Spec => []MonthlyCap
<1>1. IInv /\ TableInv => MonthlyCap
  <2> SUFFICES ASSUME IInv, TableInv, NEW m \in Months, NEW k \in Keys, Limit[k] > 0
               PROVE  MonthBill(m, k) <= Cap(Limit[k]) * (1 + Cardinality(forgot[m][k]))
    BY DEF MonthlyCap
  <2> DEFINE g == Cap(Limit[k]) * (1 + Cardinality(forgot[m][k]))
  <2>1. MonthBill(m, k) + MaxCost * Cardinality(Unlogged(m, k)) <= g
    BY DEF TableInv, BillFor, RoomInMonth
  <2>2. /\ MaxCost * Cardinality(Unlogged(m, k)) \in Nat
        /\ MonthBill(m, k) \in Nat /\ g \in Nat
    <3>1. g \in Nat
      BY Granted, CapNat DEF TableInv
    <3> HIDE DEF g
    <3> QED BY <3>1, Subsets, SlotCount, CostMonotone, BillNat DEF IInv
  <2> HIDE DEF g
  <2>3. MonthBill(m, k) <= g
    BY <2>1, <2>2
  <2> QED BY <2>3 DEF g
<1> QED BY Invariance, TableInvariance, <1>1, PTL
=============================================================================
