--------------------------- MODULE HistoryProofs ---------------------------
(***************************************************************************)
(* Proofs about the request history: the aggregate's window and the        *)
(* history's days, what retention may delete, and that a list read page by *)
(* page is right, for any table, page size, filters and clock.             *)
(***************************************************************************)
EXTENDS History, FiniteSetTheorems, SequenceTheorems, WellFoundedInduction, TLAPS

-----------------------------------------------------------------------------
(* Numbers *)

\* The day a tick is in begins at most then and ends after it.
LEMMA DivNat == ASSUME NEW n \in Nat, NEW r \in Nat, r > 0
                PROVE  n \div r \in Nat /\ (n \div r) * r <= n /\ n < (n \div r) * r + r
<1>1. n \div r \in Nat /\ (n \div r) * r <= n /\ n < (n \div r + 1) * r
  BY Z3
<1>2. \A a \in Nat : (a + 1) * r = a * r + r
  OBVIOUS
<1> QED BY <1>1, <1>2

LEMMA MulInt == \A a, b \in Int : a * b \in Int /\ (a + 1) * b = a * b + b
  OBVIOUS

LEMMA MulMono == \A a, b \in Int, c \in Nat : a <= b => a * c <= b * c
  OBVIOUS

LEMMA MidnightInt == \A d \in Int : Midnight(d) \in Int /\ Midnight(d + 1) = Midnight(d) + Day
  BY ZoneAssumption, MulInt DEF Midnight

LEMMA LocalDayIs ==
  ASSUME NEW t \in Nat
  PROVE  /\ LocalDay(t) \in Nat
         /\ Midnight(LocalDay(t)) <= t /\ t < Midnight(LocalDay(t) + 1)
<1>1. Day \in Nat /\ Day > 0 /\ Offset \in Nat /\ t + Offset \in Nat
  BY ZoneAssumption
<1> DEFINE q == (t + Offset) \div Day
<1>2. q \in Nat /\ q * Day <= t + Offset /\ t + Offset < q * Day + Day
  BY <1>1, DivNat
<1>3. q * Day \in Int
  BY <1>1, <1>2, MulInt
<1>4. Midnight(q) <= t /\ t < Midnight(q) + Day
  <2> HIDE DEF q
  <2> QED BY <1>1, <1>2, <1>3 DEF Midnight
<1>5. Midnight(q + 1) = Midnight(q) + Day
  BY <1>2, MidnightInt
<1> QED BY <1>2, <1>4, <1>5 DEF LocalDay

\* A tick is in the one day whose midnights it lies between.
LEMMA DayIs ==
  ASSUME NEW t \in Nat, NEW d \in Int
  PROVE  LocalDay(t) = d <=> Midnight(d) <= t /\ t < Midnight(d + 1)
<1> DEFINE q == LocalDay(t)
<1>1. q \in Nat /\ Midnight(q) <= t /\ t < Midnight(q + 1)
  BY LocalDayIs
<1>2. Day \in Nat /\ Offset \in Int
  BY ZoneAssumption
<1>3. \A a, b \in Int : a <= b => Midnight(a) <= Midnight(b)
  BY <1>2, MulMono, MulInt DEF Midnight
<1>4. Midnight(d) \in Int /\ Midnight(d + 1) \in Int /\ Midnight(q) \in Int /\ Midnight(q + 1) \in Int
  BY <1>1, MidnightInt
<1>5. q = LocalDay(t)
  OBVIOUS
<1> HIDE DEF q
<1>6. ASSUME d < q PROVE ~(t < Midnight(d + 1)) /\ q # d
  <2>1. d + 1 \in Int /\ d + 1 <= q
    BY <1>1, <1>6
  <2>2. Midnight(d + 1) <= Midnight(q)
    BY <1>1, <1>3, <2>1
  <2> QED BY <1>1, <1>4, <1>6, <2>2
<1>7. ASSUME q < d PROVE ~(Midnight(d) <= t) /\ q # d
  <2>1. q + 1 \in Int /\ q + 1 <= d
    BY <1>1, <1>7
  <2>2. Midnight(q + 1) <= Midnight(d)
    BY <1>1, <1>3, <2>1
  <2> QED BY <1>1, <1>4, <1>7, <2>2
<1>8. d < q \/ q < d \/ q = d
  BY <1>1
<1> QED BY <1>1, <1>5, <1>6, <1>7, <1>8

-----------------------------------------------------------------------------
(* A page *)

\* A set of natural numbers has a least element.
LEMMA Least ==
  ASSUME NEW S \in SUBSET Nat, S # {}
  PROVE  \E x \in S : \A y \in S : x <= y
<1>1. PICK x \in S : \A y \in S : ~(<<y, x>> \in OpToRel(<, Nat))
  BY NatLessThanWellFounded, WFMin
<1>2. \A y \in S : ~(y < x)
  BY <1>1 DEF OpToRel
<1> QED BY <1>2

LEMMA Greatest ==
  ASSUME NEW n \in Nat, NEW S \in SUBSET (0 .. n), S # {}
  PROVE  \E x \in S : \A y \in S : y <= x
<1> DEFINE T == {m \in 0 .. n : n - m \in S}
<1>1. ASSUME NEW x \in S PROVE x \in 0 .. n /\ n - x \in T
  <2>1. x \in 0 .. n
    OBVIOUS
  <2>2. n - x \in 0 .. n /\ n - (n - x) = x
    BY <2>1
  <2> QED BY <2>1, <2>2
<1>2. T \subseteq Nat
  OBVIOUS
<1>7. T # {}
  BY <1>1
<1>3. PICK z \in T : \A y \in T : z <= y
  BY <1>2, <1>7, Least
<1>4. n - z \in S
  OBVIOUS
<1>5. \A y \in S : z <= n - y
  BY <1>1, <1>3
<1>6. \A y \in S : y <= n - z
  BY <1>1, <1>2, <1>5
<1> QED BY <1>4, <1>6

\* A page and its cursor: the page is the rows that are not below the cursor, or
\* all of them if there is none.
LEMMA PageIs ==
  ASSUME NEW H, H \subseteq Row, IsFiniteSet(H),
         \A r, s \in H : r.id = s.id => r = s,
         NEW n \in Nat \ {0}
  PROVE  /\ Top(H, n) \subseteq H
         /\ Cursor(Top(H, n), n) \in 1 .. MaxRows \cup {Any}
         /\ Cursor(Top(H, n), n) # Any =>
              \E r \in Top(H, n) : r.id = Cursor(Top(H, n), n)
         /\ \A r \in H : r \in Top(H, n) <=>
              Cursor(Top(H, n), n) = Any \/ r.id >= Cursor(Top(H, n), n)
<1> DEFINE P == Top(H, n)
           Above(r) == {s \in H : s.id > r.id}
           c == Cursor(P, n)
<1>1. \A r \in H : r.id \in 1 .. MaxRows /\ r.id \in Nat
  BY LedgerAssumption DEF Row
<1>2. P \subseteq H /\ \A r \in H : r \in P <=> Cardinality(Above(r)) < n
  BY DEF Top
<1>3. ASSUME NEW r \in H
      PROVE  Cardinality(Above(r)) \in Nat /\ IsFiniteSet(Above(r))
  <2>1. Above(r) \in SUBSET H
    OBVIOUS
  <2>2. IsFiniteSet(Above(r))
    BY <2>1, FS_Subset
  <2> QED BY <2>2, FS_CardinalityType
<1>4. ASSUME NEW r \in H, NEW s \in P, s.id <= r.id PROVE r \in P
  <2>1. s \in H /\ Cardinality(Above(s)) < n
    BY <1>2, <1>4
  <2>2. Above(r) \in SUBSET Above(s)
    BY <1>1, <1>4, <2>1
  <2>3. Cardinality(Above(r)) <= Cardinality(Above(s))
    BY <1>3, <2>1, <2>2, FS_Subset
  <2> QED BY <1>2, <1>3, <2>1, <2>3
<1>5. IsFiniteSet(P) /\ Cardinality(P) \in Nat
  <2>1. IsFiniteSet(P)
    BY <1>2, FS_Subset
  <2> QED BY <2>1, FS_CardinalityType
<1>6. ASSUME P # {}
      PROVE  \E p \in P : /\ \A s \in P : p.id <= s.id
                          /\ Above(p) = P \ {p}
  <2> DEFINE Ids == {s.id : s \in P}
  <2>1. Ids \in SUBSET Nat /\ Ids # {}
    BY <1>1, <1>2, <1>6
  <2>2. PICK i \in Ids : \A j \in Ids : i <= j
    BY <2>1, Least
  <2>3. PICK p \in P : p.id = i
    BY <2>2
  <2>4. \A s \in P : p.id <= s.id
    BY <2>2, <2>3
  <2>5. Above(p) \subseteq P \ {p}
    BY <1>1, <1>2, <1>4
  <2>6. P \ {p} \subseteq Above(p)
    BY <1>1, <1>2, <2>4
  <2> QED BY <2>4, <2>5, <2>6
<1>7. Cardinality(P) # n => P = H
  <2> SUFFICES ASSUME P # H PROVE Cardinality(P) = n
    OBVIOUS
  <2> DEFINE Out == {r.id : r \in H \ P}
  <2>1. Out \in SUBSET (0 .. MaxRows) /\ Out # {} /\ MaxRows \in Nat
    BY <1>1, <1>2, LedgerAssumption
  <2>2. PICK i \in Out : \A j \in Out : j <= i
    BY <2>1, Greatest
  <2>3. PICK r \in H \ P : r.id = i
    BY <2>2
  <2>4. \A s \in H \ P : s.id <= r.id
    BY <2>2, <2>3
  <2>5. Above(r) = P
    <3>1. Above(r) \subseteq P
      BY <1>1, <2>4
    <3>2. ASSUME NEW s \in P PROVE s \in Above(r)
      <4>1. ~(s.id <= r.id)
        BY <1>4, <2>3
      <4> QED BY <1>1, <1>2, <2>3, <4>1
    <3> QED BY <3>1, <3>2
  <2>6. Cardinality(P) >= n
    BY <1>2, <1>3, <2>3, <2>5
  <2>7. P # {}
    BY <2>6, FS_EmptySet
  <2>8. PICK p \in P : Above(p) = P \ {p}
    BY <1>6, <2>7
  <2>9. Cardinality(P \ {p}) < n
    BY <1>2, <2>8
  <2>10. Cardinality(P \ {p}) = Cardinality(P) - 1
    BY <1>5, FS_RemoveElement
  <2> QED BY <1>5, <2>6, <2>9, <2>10
<1>8. CASE Cardinality(P) # n
  <2>1. c = Any
    BY <1>8 DEF Cursor
  <2> QED BY <1>2, <1>7, <1>8, <2>1
<1>9. CASE Cardinality(P) = n
  <2>1. P # {}
    BY <1>9, FS_EmptySet
  <2>2. PICK p \in P : \A s \in P : p.id <= s.id
    BY <1>6, <2>1
  <2>3. c \in {r.id : r \in P} /\ \A r \in P : c <= r.id
    <3>1. \E i \in {r.id : r \in P} : \A r \in P : i <= r.id
      BY <2>2
    <3>2. c = CHOOSE i \in {r.id : r \in P} : \A r \in P : i <= r.id
      BY <1>9 DEF Cursor
    <3> QED BY <3>1, <3>2
  <2>4. PICK q \in P : q.id = c
    BY <2>3
  <2>5. c \in 1 .. MaxRows /\ c # Any
    BY <1>1, <1>2, <2>4, AnyAssumption
  <2>6. \A r \in H : r \in P <=> r.id >= c
    BY <1>1, <1>2, <1>4, <2>3, <2>4, <2>5
  <2> QED BY <1>2, <2>4, <2>5, <2>6
<1> QED BY <1>8, <1>9

-----------------------------------------------------------------------------
(* The aggregate and retention *)

\* The table, and what the page and the fetches remember of it.
Tables == rows \cup base \cup UNION {x.page.table : x \in fetches}

\* Ids are used once; what was ever read from the table is not open any more.
Ids ==
  /\ IsFiniteSet(rows)
  /\ \A r \in open \cup Tables : r.id < nextId
  /\ \A r, s \in rows \cup open : r.id = s.id => r = s
  /\ open \cap Tables = {}

\* Only what is too old is gone.
Aged == \A t \in swept : t < now - Keep

LedgerInv == TypeOK /\ Ids /\ Aged

\* The steps of Ledger and those of the page, by what they change.
LEMMA LedgerStep ==
  ASSUME LedgerTypeOK, LedgerNext
  PROVE  \/ /\ now' \in 0 .. LastTick /\ now' > now
            /\ UNCHANGED <<nextId, open, rows, swept>>
         \/ /\ nextId <= MaxRows /\ nextId' = nextId + 1
            /\ \E r \in Row : r.id = nextId /\ open' = open \cup {r}
            /\ UNCHANGED <<now, rows, swept>>
         \/ \E r \in open : /\ open' = open \ {r}
                             /\ rows' \in {rows, rows \cup {r}}
                             /\ UNCHANGED <<now, nextId, swept>>
         \/ /\ rows' = rows \ Old /\ swept' = swept \cup {r.at : r \in Old}
            /\ UNCHANGED <<now, nextId, open>>
<1>1. CASE Tick
  BY <1>1, LedgerAssumption DEF Tick, LedgerTypeOK
<1>2. CASE Sweep
  BY <1>2 DEF Sweep
<1>3. ASSUME NEW t \in 0 .. LastTick, NEW m \in Models, Insert(t, m)
      PROVE  /\ nextId <= MaxRows /\ nextId' = nextId + 1
             /\ \E r \in Row : r.id = nextId /\ open' = open \cup {r}
             /\ UNCHANGED <<now, rows, swept>>
  <2> DEFINE r == [id |-> nextId, at |-> t, model |-> m]
  <2>1. nextId \in 1 .. MaxRows
    BY <1>3, LedgerAssumption DEF Insert, LedgerTypeOK
  <2>2. r \in Row /\ r.id = nextId
    BY <2>1 DEF Row
  <2> QED BY <1>3, <2>2 DEF Insert
<1>4. ASSUME NEW r \in open, Commit(r) \/ Abort(r)
      PROVE  /\ open' = open \ {r}
             /\ rows' \in {rows, rows \cup {r}}
             /\ UNCHANGED <<now, nextId, swept>>
  BY <1>4 DEF Commit, Abort
<1> QED BY <1>1, <1>2, <1>3, <1>4 DEF LedgerNext

LEMMA InitLedger == Init => LedgerInv
<1> SUFFICES ASSUME Init PROVE LedgerInv
  OBVIOUS
<1>1. LedgerTypeOK
  BY LedgerAssumption DEF Init, LedgerInit, LedgerTypeOK
<1>2. list \in Seq(SUBSET Row)
  BY EmptySeq DEF Init
<1>3. timer \in BOOLEAN /\ loading \in BOOLEAN /\ clean \in BOOLEAN
  BY DEF Init
<1>4. TypeOK
  BY <1>1, <1>2, <1>3, PageAssumption DEF Init, TypeOK
<1>5. Tables = {}
  BY DEF Init, LedgerInit, Tables
<1>6. Ids /\ Aged
  BY <1>5, FS_EmptySet DEF Init, LedgerInit, Ids, Aged
<1> QED BY <1>4, <1>6 DEF LedgerInv

\* The table's own steps.
LEMMA LedgerKeeps ==
  ASSUME LedgerInv, LedgerNext, UNCHANGED pageVars
  PROVE  LedgerInv'
<1>t. TypeOK /\ Ids /\ Aged /\ LedgerTypeOK
  BY DEF LedgerInv, TypeOK
<1>p. UNCHANGED <<filter, timer, fetches, count, list, cursor, loading, base, clean>>
  BY DEF pageVars
<1>n. /\ now \in Int /\ Keep \in Int /\ nextId \in Int /\ MaxRows \in Nat
      /\ \A r \in Row : r.id \in Int /\ r.at \in Int /\ r.at \in 0 .. LastTick
      /\ open \subseteq Row /\ rows \subseteq Row /\ \A t \in swept : t \in Int
  BY <1>t, LedgerAssumption, KeepAssumption, ZoneAssumption, MulInt DEF LedgerTypeOK, Row
<1>1. CASE /\ now' \in 0 .. LastTick /\ now' > now
           /\ UNCHANGED <<nextId, open, rows, swept>>
  <2>1. TypeOK'
    BY <1>1, <1>p, <1>t DEF TypeOK, LedgerTypeOK
  <2>2. Ids'
    BY <1>1, <1>p, <1>t DEF Ids, Tables
  <2>3. Aged'
    BY <1>1, <1>p, <1>t, <1>n DEF Aged
  <2> QED BY <2>1, <2>2, <2>3 DEF LedgerInv
<1>2. CASE /\ nextId <= MaxRows /\ nextId' = nextId + 1
           /\ \E r \in Row : r.id = nextId /\ open' = open \cup {r}
           /\ UNCHANGED <<now, rows, swept>>
  <2>1. PICK r \in Row : r.id = nextId /\ open' = open \cup {r}
    BY <1>2
  <2>2. TypeOK'
    BY <1>2, <1>p, <1>t, <1>n, <2>1 DEF TypeOK, LedgerTypeOK
  <2>3. Tables' = Tables
    BY <1>2, <1>p DEF Tables
  <2>4. \A s \in open \cup Tables : s.id < nextId /\ s.id \in Int
    <3>1. \A s \in Tables : s \in Row
      BY <1>t DEF Tables, TypeOK, LedgerTypeOK, Fetch
    <3> QED BY <1>t, <1>n, <3>1 DEF Ids
  <2>5. Ids'
    <3>1. \A s \in open' \cup Tables' : s.id < nextId'
      BY <1>2, <1>n, <2>1, <2>3, <2>4
    <3>2. \A s, q \in rows' \cup open' : s.id = q.id => s = q
      BY <1>2, <1>n, <1>t, <2>1, <2>4 DEF Ids, Tables
    <3>3. open' \cap Tables' = {}
      BY <1>t, <1>n, <2>1, <2>3, <2>4 DEF Ids
    <3> QED BY <1>2, <1>t, <3>1, <3>2, <3>3 DEF Ids
  <2>6. Aged'
    BY <1>2, <1>p, <1>t DEF Aged
  <2> QED BY <2>2, <2>5, <2>6 DEF LedgerInv
<1>3. ASSUME NEW r \in open, open' = open \ {r},
             rows' \in {rows, rows \cup {r}}, UNCHANGED <<now, nextId, swept>>
      PROVE  LedgerInv'
  <2>1. TypeOK'
    BY <1>3, <1>p, <1>t DEF TypeOK, LedgerTypeOK
  <2>2. Ids'
    <3>1. IsFiniteSet(rows')
      BY <1>3, <1>t, FS_AddElement DEF Ids
    <3>2. Tables' \subseteq Tables \cup {r} /\ rows' \subseteq rows \cup {r}
      BY <1>3, <1>p DEF Tables
    <3> QED BY <1>3, <1>t, <3>1, <3>2 DEF Ids
  <2>3. Aged'
    BY <1>3, <1>p, <1>t DEF Aged
  <2> QED BY <2>1, <2>2, <2>3 DEF LedgerInv
<1>4. CASE /\ rows' = rows \ Old /\ swept' = swept \cup {r.at : r \in Old}
           /\ UNCHANGED <<now, nextId, open>>
  <2>1. \A r \in Old : r \in rows /\ r.at < now - Keep
    BY DEF Old
  <2>2. TypeOK'
    BY <1>4, <1>p, <1>t, <1>n, <2>1 DEF TypeOK, LedgerTypeOK
  <2>3. Ids'
    <3>1. rows' \in SUBSET rows
      BY <1>4
    <3>2. IsFiniteSet(rows')
      BY <1>t, <3>1, FS_Subset DEF Ids
    <3>3. Tables' \subseteq Tables
      BY <1>4, <1>p DEF Tables
    <3> QED BY <1>4, <1>t, <3>1, <3>2, <3>3 DEF Ids
  <2>4. Aged'
    BY <1>4, <1>p, <1>t, <2>1 DEF Aged
  <2> QED BY <2>2, <2>3, <2>4 DEF LedgerInv
<1> QED BY <1>1, <1>2, <1>3, <1>4, <1>t, LedgerStep

-----------------------------------------------------------------------------
(* The page's steps *)

\* A fetch is begun.
LEMMA StartIs ==
  ASSUME TypeOK, NEW reset \in BOOLEAN, NEW before \in 1 .. MaxRows \cup {Any},
         Start(reset, before)
  PROVE  /\ count' \in 0 .. MaxFetches /\ loading' = TRUE
         /\ \E y \in Fetch :
              /\ fetches' = fetches \cup {y}
              /\ y.reset = reset /\ y.before = before /\ y.filter = filter /\ ~y.served
              /\ y.page.rows = {} /\ y.page.table = {}
<1> DEFINE y == [n |-> count + 1, reset |-> reset, filter |-> filter, before |-> before,
                 served |-> FALSE, page |-> Waiting]
<1>1. /\ count < MaxFetches /\ count' = count + 1 /\ loading' = TRUE
      /\ fetches' = fetches \cup {y}
  BY DEF Start
<1>2. count \in 0 .. MaxFetches /\ MaxFetches \in Nat
  BY PageAssumption DEF TypeOK
<1>3. count + 1 \in 1 .. MaxFetches /\ count' \in 0 .. MaxFetches
  BY <1>1, <1>2
<1>4. Waiting \in [rows : SUBSET Row, next : 1 .. MaxRows \cup {Any}, table : SUBSET Row]
  BY DEF Waiting
<1>5. filter \in Filters
  BY DEF TypeOK
<1>6. y \in Fetch
  BY <1>3, <1>4, <1>5 DEF Fetch
<1>7. /\ y.reset = reset /\ y.before = before /\ y.filter = filter /\ ~y.served
      /\ y.page.rows = {} /\ y.page.table = {}
  BY DEF Waiting
<1> HIDE DEF y
<1> QED BY <1>1, <1>3, <1>6, <1>7

\* The rows a fetch is served from.
LEMMA HitsAre ==
  ASSUME TypeOK, Ids, NEW f \in Filters, NEW b \in 1 .. MaxRows \cup {Any}
  PROVE  /\ Hits(f, b) \subseteq rows /\ Hits(f, b) \subseteq Row /\ IsFiniteSet(Hits(f, b))
         /\ \A r, s \in Hits(f, b) : r.id = s.id => r = s
<1>1. Hits(f, b) \in SUBSET rows
  BY DEF Hits
<1>2. IsFiniteSet(Hits(f, b))
  BY <1>1, FS_Subset DEF Ids
<1> QED BY <1>1, <1>2 DEF Ids, TypeOK, LedgerTypeOK

\* A fetch is served: its page is what matches, from its cursor's end down to the
\* next cursor.
LEMMA ServeIs ==
  ASSUME TypeOK, Ids, NEW x \in fetches, Serve(x)
  PROVE  \E y \in Fetch :
           /\ fetches' = (fetches \ {x}) \cup {y}
           /\ y.reset = x.reset /\ y.before = x.before /\ y.filter = x.filter /\ y.served
           /\ y.page.table = IF x.reset THEN rows ELSE {}
           /\ y.page.rows \subseteq Hits(x.filter, x.before)
           /\ \A r \in Hits(x.filter, x.before) :
                r \in y.page.rows <=> y.page.next = Any \/ r.id >= y.page.next
           /\ y.page.next # Any => \E r \in y.page.rows : r.id = y.page.next
<1> DEFINE P == Top(Hits(x.filter, x.before), PageSize)
           pg == [rows |-> P, next |-> Cursor(P, PageSize),
                  table |-> IF x.reset THEN rows ELSE {}]
           y == [x EXCEPT !.served = TRUE, !.page = pg]
<1>1. fetches' = (fetches \ {x}) \cup {y}
  BY DEF Serve
<1>2. x \in Fetch
  BY DEF TypeOK
<1>3. x.filter \in Filters /\ x.before \in 1 .. MaxRows \cup {Any}
  BY <1>2 DEF Fetch
<1>4. /\ P \subseteq Hits(x.filter, x.before)
      /\ Cursor(P, PageSize) \in 1 .. MaxRows \cup {Any}
      /\ Cursor(P, PageSize) # Any => \E r \in P : r.id = Cursor(P, PageSize)
      /\ \A r \in Hits(x.filter, x.before) :
           r \in P <=> Cursor(P, PageSize) = Any \/ r.id >= Cursor(P, PageSize)
  <2> DEFINE H == Hits(x.filter, x.before)
  <2>1. /\ H \subseteq Row /\ IsFiniteSet(H)
        /\ \A r, s \in H : r.id = s.id => r = s
    BY <1>3, HitsAre
  <2>2. PageSize \in Nat \ {0}
    BY PageAssumption
  <2> HIDE DEF H
  <2>3. /\ Top(H, PageSize) \subseteq H
        /\ Cursor(Top(H, PageSize), PageSize) \in 1 .. MaxRows \cup {Any}
        /\ Cursor(Top(H, PageSize), PageSize) # Any =>
             \E r \in Top(H, PageSize) : r.id = Cursor(Top(H, PageSize), PageSize)
        /\ \A r \in H : r \in Top(H, PageSize) <=>
             Cursor(Top(H, PageSize), PageSize) = Any
               \/ r.id >= Cursor(Top(H, PageSize), PageSize)
    BY <2>1, <2>2, PageIs
  <2> QED BY <2>3 DEF H
<1>5. P \subseteq Row /\ rows \subseteq Row
  BY <1>3, <1>4, HitsAre DEF TypeOK, LedgerTypeOK
<1>6. /\ pg \in [rows : SUBSET Row, next : 1 .. MaxRows \cup {Any}, table : SUBSET Row]
      /\ pg.rows = P /\ pg.next = Cursor(P, PageSize)
      /\ pg.table = IF x.reset THEN rows ELSE {}
  <2> HIDE DEF P
  <2> QED BY <1>4, <1>5
<1> HIDE DEF pg
<1>7. /\ y \in Fetch
      /\ y.reset = x.reset /\ y.before = x.before /\ y.filter = x.filter /\ y.served
      /\ y.page = pg
  BY <1>2, <1>6 DEF Fetch
<1> HIDE DEF y
<1> QED BY <1>1, <1>4, <1>6, <1>7

\* An answer is shown.
LEMMA DeliverIs ==
  ASSUME TypeOK, NEW x \in fetches, Deliver(x)
  PROVE  /\ x.served /\ fetches' = fetches \ {x}
         /\ list' \in Seq(SUBSET Row) /\ cursor' = x.page.next /\ loading' = FALSE
         /\ base' = IF x.reset THEN x.page.table ELSE base
         /\ x.reset => Len(list') = 1 /\ list'[1] = x.page.rows
         /\ ~x.reset =>
              /\ Len(list) \in Nat /\ Len(list') = Len(list) + 1
              /\ \A i \in 1 .. Len(list) : list'[i] = list[i]
              /\ list'[Len(list) + 1] = x.page.rows
         /\ Shown' = (IF x.reset THEN {} ELSE Shown) \cup x.page.rows
         /\ x.page.rows \subseteq Row /\ x.page.table \subseteq Row
         /\ x.page.next \in 1 .. MaxRows \cup {Any}
<1>1. /\ x.served /\ fetches' = fetches \ {x}
      /\ list' = (IF x.reset THEN <<x.page.rows>> ELSE Append(list, x.page.rows))
      /\ cursor' = x.page.next /\ loading' = FALSE
      /\ base' = IF x.reset THEN x.page.table ELSE base
  BY DEF Deliver
<1>2. x \in Fetch /\ list \in Seq(SUBSET Row)
  BY DEF TypeOK
<1>3. x.page \in [rows : SUBSET Row, next : 1 .. MaxRows \cup {Any}, table : SUBSET Row]
  BY <1>2 DEF Fetch
<1> DEFINE p == x.page.rows
<1>4. /\ p \in SUBSET Row /\ x.page.table \subseteq Row
      /\ x.page.next \in 1 .. MaxRows \cup {Any}
  BY <1>3
<1>5. p = x.page.rows
  OBVIOUS
<1> HIDE DEF p
<1>6. CASE x.reset
  <2>1. list' = <<p>>
    BY <1>1, <1>5, <1>6
  <2>2. list' \in Seq(SUBSET Row) /\ Len(list') = 1 /\ list'[1] = p /\ DOMAIN list' = 1 .. 1
    BY <1>4, <2>1
  <2>3. UNION {list'[i] : i \in DOMAIN list'} = p
    <3>1. \A i : i \in 1 .. 1 <=> i = 1
      OBVIOUS
    <3>2. {list'[i] : i \in DOMAIN list'} = {p}
      BY <2>2, <3>1
    <3> QED BY <3>2
  <2> QED BY <1>1, <1>4, <1>5, <1>6, <2>2, <2>3 DEF Shown
<1>7. CASE ~x.reset
  <2>1. list' = Append(list, p)
    BY <1>1, <1>5, <1>7
  <2>2. /\ list' \in Seq(SUBSET Row) /\ Len(list) \in Nat /\ Len(list') = Len(list) + 1
        /\ \A i \in 1 .. Len(list) : list'[i] = list[i]
        /\ list'[Len(list) + 1] = p
        /\ DOMAIN list = 1 .. Len(list) /\ DOMAIN list' = 1 .. Len(list) + 1
    BY <1>2, <1>4, <2>1
  <2>3. UNION {list'[i] : i \in DOMAIN list'} = (UNION {list[i] : i \in DOMAIN list}) \cup p
    <3>1. \A i : i \in 1 .. Len(list) + 1 <=> i \in 1 .. Len(list) \/ i = Len(list) + 1
      BY <2>2
    <3> DEFINE A == {list[i] : i \in DOMAIN list}
               B == {list'[i] : i \in DOMAIN list'}
    <3>2. Len(list) + 1 \in 1 .. Len(list) + 1
      BY <2>2
    <3>3. \A z : z \in B <=> z \in A \/ z = p
      <4>1. \A z : (\E i \in 1 .. Len(list) + 1 : z = list'[i]) <=>
              (\E i \in 1 .. Len(list) : z = list[i]) \/ z = p
        BY <2>2, <3>1, <3>2
      <4>2. \A z : z \in A <=> \E i \in 1 .. Len(list) : z = list[i]
        BY <2>2
      <4>3. \A z : z \in B <=> \E i \in 1 .. Len(list) + 1 : z = list'[i]
        BY <2>2
      <4> HIDE DEF A, B
      <4> QED BY <4>1, <4>2, <4>3
    <3> HIDE DEF A, B
    <3>4. B = A \cup {p}
      BY <3>3
    <3>5. UNION B = (UNION A) \cup p
      BY <3>4
    <3> QED BY <3>5 DEF A, B
  <2> QED BY <1>1, <1>4, <1>5, <1>7, <2>2, <2>3 DEF Shown
<1> QED BY <1>6, <1>7

\* A step of the page shows nothing that was not in the table, and leaves it alone.
LEMMA PageKeeps ==
  ASSUME LedgerInv, UNCHANGED ledgerVars, TypeOK',
         Tables' \subseteq Tables
  PROVE  LedgerInv'
<1>1. /\ UNCHANGED <<now, nextId, open, rows, swept>>
      /\ Ids /\ Aged
  BY DEF LedgerInv, ledgerVars
<1>2. Ids'
  BY <1>1 DEF Ids
<1>3. Aged'
  BY <1>1 DEF Aged
<1> QED BY <1>2, <1>3 DEF LedgerInv

LEMMA StartKeeps ==
  ASSUME LedgerInv, NEW reset \in BOOLEAN, NEW before \in 1 .. MaxRows \cup {Any},
         Start(reset, before), timer' \in BOOLEAN, clean' \in BOOLEAN,
         UNCHANGED <<ledgerVars, filter, list, cursor, base>>
  PROVE  LedgerInv'
<1>1. TypeOK
  BY DEF LedgerInv
<1>2. /\ count' \in 0 .. MaxFetches /\ loading' = TRUE
      /\ \E y \in Fetch :
           /\ fetches' = fetches \cup {y}
           /\ y.page.rows = {} /\ y.page.table = {}
  BY <1>1, StartIs
<1>3. PICK y \in Fetch : /\ fetches' = fetches \cup {y}
                         /\ y.page.rows = {} /\ y.page.table = {}
  BY <1>2
<1>4. TypeOK'
  BY <1>1, <1>2, <1>3 DEF TypeOK, LedgerTypeOK, ledgerVars
<1>5. Tables' \subseteq Tables
  BY <1>3 DEF Tables, ledgerVars
<1> QED BY <1>4, <1>5, PageKeeps

LEMMA ServeKeeps ==
  ASSUME LedgerInv, NEW x \in fetches, Serve(x)
  PROVE  LedgerInv'
<1>1. TypeOK /\ Ids
  BY DEF LedgerInv
<1>2. UNCHANGED <<ledgerVars, filter, timer, count, list, cursor, loading, base, clean>>
  BY DEF Serve
<1>3. PICK y \in Fetch :
        /\ fetches' = (fetches \ {x}) \cup {y}
        /\ y.page.table = IF x.reset THEN rows ELSE {}
        /\ y.page.rows \subseteq Hits(x.filter, x.before)
  BY <1>1, ServeIs
<1>4. TypeOK'
  BY <1>1, <1>2, <1>3 DEF TypeOK, LedgerTypeOK, ledgerVars
<1>5. Tables' \subseteq Tables
  BY <1>2, <1>3 DEF Tables, ledgerVars
<1> QED BY <1>2, <1>4, <1>5, PageKeeps

LEMMA DeliverKeeps ==
  ASSUME LedgerInv, NEW x \in fetches, Deliver(x)
  PROVE  LedgerInv'
<1>1. TypeOK
  BY DEF LedgerInv
<1>2. UNCHANGED <<ledgerVars, filter, timer, count, clean>>
  BY DEF Deliver
<1>3. /\ fetches' = fetches \ {x}
      /\ list' \in Seq(SUBSET Row) /\ cursor' = x.page.next /\ loading' = FALSE
      /\ base' = IF x.reset THEN x.page.table ELSE base
      /\ Shown' = (IF x.reset THEN {} ELSE Shown) \cup x.page.rows
      /\ x.page.table \subseteq Row
      /\ x.page.next \in 1 .. MaxRows \cup {Any}
  BY <1>1, DeliverIs
<1>4. TypeOK'
  <2>1. base' \subseteq Row
    BY <1>1, <1>3 DEF TypeOK
  <2> QED BY <1>1, <1>2, <1>3, <2>1 DEF TypeOK, LedgerTypeOK, ledgerVars
<1>5. Tables' \subseteq Tables
  BY <1>2, <1>3 DEF Tables, ledgerVars
<1> QED BY <1>2, <1>4, <1>5, PageKeeps

LEMMA FailKeeps ==
  ASSUME LedgerInv, NEW x \in fetches, Fail(x)
  PROVE  LedgerInv'
<1>1. /\ fetches' = fetches \ {x} /\ loading' = FALSE /\ clean' = (clean /\ ~x.reset)
      /\ UNCHANGED <<ledgerVars, filter, timer, count, list, cursor, base>>
  BY DEF Fail
<1>2. TypeOK
  BY DEF LedgerInv
<1>3. clean' \in BOOLEAN
  BY <1>1
<1>4. TypeOK'
  BY <1>1, <1>2, <1>3 DEF TypeOK, LedgerTypeOK, ledgerVars
<1>5. Tables' \subseteq Tables
  BY <1>1 DEF Tables, ledgerVars
<1> QED BY <1>1, <1>4, <1>5, PageKeeps

LEMMA NextKeeps == LedgerInv /\ [Next]_vars => LedgerInv'
<1> SUFFICES ASSUME LedgerInv, [Next]_vars PROVE LedgerInv'
  OBVIOUS
<1>1. CASE LedgerNext /\ UNCHANGED pageVars
  BY <1>1, LedgerKeeps
<1>2. ASSUME NEW f \in Filters, SetFilter(f) PROVE LedgerInv'
  <2>1. /\ filter' = f /\ timer' = TRUE
        /\ UNCHANGED <<ledgerVars, fetches, count, list, cursor, loading, base, clean>>
    BY <1>2 DEF SetFilter
  <2>2. TypeOK
    BY DEF LedgerInv
  <2>3. TypeOK'
    BY <2>1, <2>2 DEF TypeOK, LedgerTypeOK, ledgerVars
  <2>4. Tables' = Tables
    BY <2>1 DEF Tables, ledgerVars
  <2> QED BY <2>1, <2>3, <2>4, PageKeeps
<1>3. CASE Restart
  <2>1. Start(TRUE, Any) /\ timer' = FALSE /\ clean' = (fetches = {})
        /\ UNCHANGED <<ledgerVars, filter, list, cursor, base>>
    BY <1>3 DEF Restart
  <2>2. timer' \in BOOLEAN /\ clean' \in BOOLEAN
    BY <2>1
  <2>3. Any \in 1 .. MaxRows \cup {Any} /\ TRUE \in BOOLEAN
    OBVIOUS
  <2> QED BY <2>1, <2>2, <2>3, StartKeeps
<1>4. CASE LoadMore
  <2>1. Start(FALSE, cursor) /\ timer' = timer /\ clean' = (clean /\ ~timer)
        /\ UNCHANGED <<ledgerVars, filter, list, cursor, base>>
    BY <1>4 DEF LoadMore
  <2>2. timer' \in BOOLEAN /\ cursor \in 1 .. MaxRows \cup {Any}
    BY <2>1 DEF LedgerInv, TypeOK
  <2>3. clean' \in BOOLEAN /\ FALSE \in BOOLEAN
    BY <2>1
  <2> QED BY <2>1, <2>2, <2>3, StartKeeps
<1>5. ASSUME NEW x \in fetches, Serve(x) \/ Deliver(x) \/ Fail(x) PROVE LedgerInv'
  BY <1>5, ServeKeeps, DeliverKeeps, FailKeeps
<1>6. CASE UNCHANGED vars
  <2>1. UNCHANGED <<ledgerVars, filter, timer, fetches, count, list, cursor, loading, base, clean>>
    BY <1>6 DEF vars
  <2>2. TypeOK'
    BY <2>1 DEF LedgerInv, TypeOK, LedgerTypeOK, ledgerVars
  <2>3. Tables' = Tables
    BY <2>1 DEF Tables, ledgerVars
  <2> QED BY <2>1, <2>2, <2>3, PageKeeps
<1> QED BY <1>1, <1>2, <1>3, <1>4, <1>5, <1>6 DEF Next

-----------------------------------------------------------------------------
(* The list *)

Within(f, from, below, r) ==
  /\ Matches(f, r)
  /\ from = Any \/ r.id >= from
  /\ below = Any \/ r.id < below

\* The list is right down to its cursor.
Good ==
  /\ \A i, j \in DOMAIN list : i < j =>
       \A r \in list[i], s \in list[j] : r.id > s.id
  /\ \A r \in Shown : Within(filter, cursor, Any, r)
  /\ \A r \in base \cap rows : Within(filter, cursor, Any, r) => r \in Shown

\* The page of a fetch is right from its own cursor down to the next, for the
\* table T its list was begun with.
Right(x, T) ==
  /\ \A r \in x.page.rows : Within(x.filter, x.page.next, x.before, r)
  /\ x.page.next # Any => \E r \in x.page.rows : r.id = x.page.next
  /\ \A r \in T \cap rows : Within(x.filter, x.page.next, x.before, r) => r \in x.page.rows

\* While the list is read one fetch at a time, that fetch continues it.
Reading ==
  clean /\ ~timer =>
    /\ \A x, y \in fetches : x = y
    /\ fetches # {} => loading
    /\ fetches = {} => Good
    /\ \A x \in fetches :
         /\ x.filter = filter
         /\ x.reset => x.before = Any
         /\ ~x.reset => x.before = cursor /\ cursor # Any /\ Good
         /\ x.served => Right(x, IF x.reset THEN x.page.table ELSE base)

HistoryInv == LedgerInv /\ Reading

LEMMA GoodReads == Reading => ReadInFull
  BY DEF Reading, Good, ReadInFull, Within

\* What was in a table that was read does not come back into the table.
LEMMA ReadingLedger ==
  ASSUME HistoryInv, LedgerNext, UNCHANGED pageVars
  PROVE  Reading'
<1>1. UNCHANGED <<filter, timer, fetches, count, list, cursor, loading, base, clean>>
  BY DEF pageVars
<1>2. LedgerTypeOK /\ Ids
  BY DEF HistoryInv, LedgerInv, TypeOK
<1>3. \A r \in rows' : r \in rows \/ r \in open
  BY <1>2, LedgerStep
<1>4. \A r \in base \cap rows' : r \in rows
  BY <1>2, <1>3 DEF Ids, Tables
<1>5. \A x \in fetches : \A r \in x.page.table \cap rows' : r \in rows
  BY <1>2, <1>3 DEF Ids, Tables
<1>6. Good => Good'
  BY <1>1, <1>4 DEF Good, Shown
<1>7. ASSUME NEW x \in fetches, Right(x, IF x.reset THEN x.page.table ELSE base)
      PROVE  Right(x, IF x.reset THEN x.page.table ELSE base)'
  <2>1. \A r \in (IF x.reset THEN x.page.table ELSE base) \cap rows' : r \in rows
    BY <1>4, <1>5
  <2>2. UNCHANGED (IF x.reset THEN x.page.table ELSE base)
    BY <1>1
  <2> QED BY <1>7, <2>1, <2>2 DEF Right
<1> QED BY <1>1, <1>6, <1>7 DEF HistoryInv, Reading

LEMMA ReadingStart ==
  ASSUME HistoryInv, NEW reset \in BOOLEAN, NEW before \in 1 .. MaxRows \cup {Any},
         Start(reset, before), UNCHANGED <<ledgerVars, filter, list, cursor, base>>,
         clean' /\ ~timer' => fetches = {},
         reset => before = Any,
         clean' /\ ~timer' /\ ~reset => before = cursor /\ cursor # Any /\ Good
  PROVE  Reading'
<1>1. TypeOK
  BY DEF HistoryInv, LedgerInv
<1>2. PICK y \in Fetch :
        /\ fetches' = fetches \cup {y}
        /\ y.reset = reset /\ y.before = before /\ y.filter = filter /\ ~y.served
  BY <1>1, StartIs
<1>3. loading' = TRUE
  BY <1>1, StartIs
<1>4. Good => Good'
  BY DEF Good, Shown, ledgerVars, LedgerTypeOK
<1>5. SUFFICES ASSUME clean', ~timer'
               PROVE  /\ \A x, z \in fetches' : x = z
                      /\ fetches' # {} /\ loading'
                      /\ \A x \in fetches' :
                           /\ x.filter = filter'
                           /\ x.reset => x.before = Any
                           /\ ~x.reset => x.before = cursor' /\ cursor' # Any /\ Good'
                           /\ ~x.served
  BY DEF Reading
<1>6. fetches' = {y}
  BY <1>2, <1>5
<1> QED BY <1>2, <1>3, <1>4, <1>5, <1>6

LEMMA ReadingServe ==
  ASSUME HistoryInv, NEW x \in fetches, Serve(x)
  PROVE  Reading'
<1>1. TypeOK /\ Ids
  BY DEF HistoryInv, LedgerInv
<1>2. UNCHANGED <<ledgerVars, filter, timer, count, list, cursor, loading, base, clean>>
  BY DEF Serve
<1>3. UNCHANGED <<now, nextId, open, rows, swept>>
  BY <1>2 DEF ledgerVars
<1>4. PICK y \in Fetch :
        /\ fetches' = (fetches \ {x}) \cup {y}
        /\ y.reset = x.reset /\ y.before = x.before /\ y.filter = x.filter /\ y.served
        /\ y.page.table = IF x.reset THEN rows ELSE {}
        /\ y.page.rows \subseteq Hits(x.filter, x.before)
        /\ \A r \in Hits(x.filter, x.before) :
             r \in y.page.rows <=> y.page.next = Any \/ r.id >= y.page.next
        /\ y.page.next # Any => \E r \in y.page.rows : r.id = y.page.next
  BY <1>1, ServeIs
<1>5. Good => Good'
  BY <1>2, <1>3 DEF Good, Shown
<1>6. SUFFICES ASSUME clean, ~timer PROVE Reading'
  BY <1>2 DEF Reading
<1>7. /\ \A w, z \in fetches : w = z
      /\ loading
      /\ x.filter = filter
      /\ x.reset => x.before = Any
      /\ ~x.reset => x.before = cursor /\ cursor # Any /\ Good
  BY <1>6 DEF HistoryInv, Reading
<1>8. fetches' = {y}
  BY <1>4, <1>7
<1>9. \A r \in rows : r \in Hits(x.filter, x.before) <=> Within(x.filter, Any, x.before, r)
  BY DEF Hits, Within
<1>10. \A r \in y.page.rows : Within(y.filter, y.page.next, y.before, r)
  <2>1. ASSUME NEW r \in y.page.rows PROVE Within(y.filter, y.page.next, y.before, r)
    <3>1. r \in Hits(x.filter, x.before)
      BY <1>4
    <3>2. y.page.next = Any \/ r.id >= y.page.next
      BY <1>4, <3>1
    <3> QED BY <1>4, <3>1, <3>2 DEF Hits, Within
  <2> QED BY <2>1
<1>11. \A r \in rows : Within(y.filter, y.page.next, y.before, r) => r \in y.page.rows
  <2>1. ASSUME NEW r \in rows, Within(y.filter, y.page.next, y.before, r)
        PROVE  r \in y.page.rows
    <3>1. r \in Hits(x.filter, x.before)
      BY <1>4, <2>1 DEF Hits, Within
    <3> QED BY <1>4, <2>1, <3>1 DEF Within
  <2> QED BY <2>1
<1>12. Right(y, IF y.reset THEN y.page.table ELSE base)'
  BY <1>3, <1>4, <1>10, <1>11 DEF Right
<1> QED BY <1>2, <1>4, <1>5, <1>7, <1>8, <1>12 DEF Reading

\* The one fetch's page goes under the list that it continues, or begins it.
LEMMA ReadingDeliver ==
  ASSUME HistoryInv, NEW x \in fetches, Deliver(x)
  PROVE  Reading'
<1>1. TypeOK
  BY DEF HistoryInv, LedgerInv
<1>2. UNCHANGED <<ledgerVars, filter, timer, count, clean>>
  BY DEF Deliver
<1>3. UNCHANGED <<now, nextId, open, rows, swept>>
  BY <1>2 DEF ledgerVars
<1>4. /\ x.served /\ fetches' = fetches \ {x}
      /\ list' \in Seq(SUBSET Row) /\ cursor' = x.page.next /\ loading' = FALSE
      /\ base' = IF x.reset THEN x.page.table ELSE base
      /\ x.reset => Len(list') = 1 /\ list'[1] = x.page.rows
      /\ ~x.reset =>
           /\ Len(list) \in Nat /\ Len(list') = Len(list) + 1
           /\ \A i \in 1 .. Len(list) : list'[i] = list[i]
           /\ list'[Len(list) + 1] = x.page.rows
      /\ Shown' = (IF x.reset THEN {} ELSE Shown) \cup x.page.rows
      /\ x.page.rows \subseteq Row /\ x.page.table \subseteq Row
      /\ x.page.next \in 1 .. MaxRows \cup {Any}
  BY <1>1, DeliverIs
<1>5. SUFFICES ASSUME clean, ~timer PROVE Reading'
  BY <1>2 DEF Reading
<1>6. /\ \A w, z \in fetches : w = z
      /\ x.filter = filter
      /\ x.reset => x.before = Any
      /\ ~x.reset => x.before = cursor /\ cursor # Any /\ Good
      /\ Right(x, IF x.reset THEN x.page.table ELSE base)
  BY <1>4, <1>5 DEF HistoryInv, Reading
<1>7. fetches' = {}
  BY <1>4, <1>6
<1>8. ASSUME NEW r \in Row PROVE r.id \in 1 .. MaxRows /\ r.id \in Int
  BY LedgerAssumption DEF Row
<1>9. /\ rows \subseteq Row /\ base \subseteq Row /\ list \in Seq(SUBSET Row)
      /\ cursor \in 1 .. MaxRows \cup {Any} /\ MaxRows \in Nat
      /\ Shown \subseteq Row
  BY <1>1, LedgerAssumption DEF TypeOK, LedgerTypeOK, Shown
<1>10. DOMAIN list' = 1 .. Len(list') /\ DOMAIN list = 1 .. Len(list) /\ Len(list) \in Nat
  BY <1>4, <1>9
<1>11. CASE x.reset
  <2>1. \A i, j \in DOMAIN list' : ~(i < j)
    BY <1>4, <1>10, <1>11
  <2>2. /\ Shown' = x.page.rows /\ base' = x.page.table /\ x.before = Any
        /\ Right(x, base')
    BY <1>4, <1>6, <1>11
  <2>3. \A r \in Shown' : Within(filter, cursor', Any, r)
    BY <1>4, <1>6, <2>2 DEF Right, Within
  <2>4. \A r \in base' \cap rows : Within(filter, cursor', Any, r) => r \in Shown'
    BY <1>4, <1>6, <2>2 DEF Right
  <2>5. Good'
    BY <1>2, <1>3, <2>1, <2>3, <2>4 DEF Good
  <2> QED BY <1>7, <2>5 DEF Reading
<1>12. CASE ~x.reset
  <2>1. /\ x.before = cursor /\ cursor # Any /\ cursor \in 1 .. MaxRows
        /\ Good /\ Right(x, base)
        /\ base' = base /\ Shown' = Shown \cup x.page.rows
    BY <1>4, <1>6, <1>9, <1>12
  <2>2. \A r \in Shown : r.id >= cursor /\ Matches(filter, r)
    BY <2>1 DEF Good, Within
  <2>3. \A r \in x.page.rows :
          r.id < cursor /\ Matches(filter, r) /\ (x.page.next = Any \/ r.id >= x.page.next)
    BY <1>6, <2>1 DEF Right, Within
  <2>4. x.page.next = Any \/ x.page.next < cursor
    BY <2>1, <2>3 DEF Right
  <2>5. ASSUME NEW i \in DOMAIN list', NEW j \in DOMAIN list', i < j,
               NEW r \in list'[i], NEW s \in list'[j]
        PROVE  r.id > s.id
    <3> DEFINE L == Len(list)
    <3>0. /\ L \in Nat /\ DOMAIN list' = 1 .. L + 1
          /\ i \in 1 .. L + 1 /\ j \in 1 .. L + 1 /\ i < j
      <4>1. DOMAIN list' = 1 .. L + 1 /\ L \in Nat
        BY <1>4, <1>10, <1>12
      <4>2. i \in DOMAIN list' /\ j \in DOMAIN list' /\ i < j
        BY <2>5
      <4> QED BY <4>1, <4>2
    <3>4. i \in 1 .. Len(list) /\ (j \in 1 .. Len(list) \/ j = Len(list) + 1)
      <4> HIDE DEF L
      <4>1. i \in 1 .. L /\ (j \in 1 .. L \/ j = L + 1)
        BY <3>0
      <4> QED BY <4>1 DEF L
    <3>1. i \in DOMAIN list /\ list'[i] = list[i] /\ r \in Shown /\ r \in Row
      <4>1. i \in 1 .. Len(list)
        BY <3>4
      <4>2. list'[i] = list[i] /\ i \in DOMAIN list
        BY <1>4, <1>10, <1>12, <4>1
      <4>3. r \in Shown
        BY <2>5, <4>2 DEF Shown
      <4> QED BY <1>9, <4>2, <4>3
    <3>2. CASE j \in 1 .. Len(list)
      <4>1. list'[j] = list[j] /\ j \in DOMAIN list
        BY <1>4, <1>10, <1>12, <3>2
      <4> QED BY <2>1, <2>5, <3>1, <4>1 DEF Good
    <3>3. CASE j = Len(list) + 1
      <4>1. s \in x.page.rows
        BY <1>4, <1>12, <2>5, <3>3
      <4>2. s.id < cursor /\ r.id >= cursor /\ r.id \in Int /\ s.id \in Int
        BY <1>4, <1>8, <2>2, <2>3, <3>1, <4>1
      <4> QED BY <2>1, <4>2
    <3> QED BY <3>2, <3>3, <3>4
  <2>6. \A r \in Shown' : Within(filter, cursor', Any, r)
    <3>1. ASSUME NEW r \in Shown PROVE Within(filter, cursor', Any, r)
      <4>1. r.id >= cursor /\ Matches(filter, r) /\ r.id \in Int
        BY <1>8, <1>9, <2>2
      <4>2. x.page.next = Any \/ r.id >= x.page.next
        BY <1>4, <2>1, <2>4, <4>1
      <4> QED BY <1>4, <4>1, <4>2 DEF Within
    <3>2. ASSUME NEW r \in x.page.rows PROVE Within(filter, cursor', Any, r)
      BY <1>4, <2>3 DEF Within
    <3> QED BY <2>1, <3>1, <3>2
  <2>7. ASSUME NEW r \in base \cap rows, Within(filter, cursor', Any, r)
        PROVE  r \in Shown'
    <3>1. r.id \in Int /\ Matches(filter, r)
      BY <1>8, <1>9, <2>7 DEF Within
    <3>2. CASE r.id >= cursor
      <4>1. Within(filter, cursor, Any, r)
        BY <3>1, <3>2 DEF Within
      <4> QED BY <2>1, <4>1 DEF Good
    <3>3. CASE r.id < cursor
      <4>1. Within(x.filter, x.page.next, x.before, r)
        BY <1>4, <1>6, <2>1, <2>7, <3>1, <3>3 DEF Within
      <4> QED BY <2>1, <4>1 DEF Right
    <3> QED BY <2>1, <3>1, <3>2, <3>3
  <2>8. Good'
    BY <1>2, <1>3, <2>1, <2>5, <2>6, <2>7 DEF Good
  <2> QED BY <1>7, <2>8 DEF Reading
<1> QED BY <1>11, <1>12

LEMMA ReadingFail ==
  ASSUME HistoryInv, NEW x \in fetches, Fail(x)
  PROVE  Reading'
<1>1. /\ fetches' = fetches \ {x} /\ clean' = (clean /\ ~x.reset)
      /\ UNCHANGED <<ledgerVars, filter, timer, count, list, cursor, base>>
  BY DEF Fail
<1>2. Good => Good'
  BY <1>1 DEF Good, Shown, ledgerVars
<1>3. SUFFICES ASSUME clean, ~timer, ~x.reset PROVE Reading'
  BY <1>1 DEF Reading
<1>4. (\A w, z \in fetches : w = z) /\ Good
  BY <1>3 DEF HistoryInv, Reading
<1>5. fetches' = {}
  BY <1>1, <1>4
<1> QED BY <1>2, <1>4, <1>5 DEF Reading

LEMMA InitHistory == Init => HistoryInv
  BY InitLedger DEF Init, HistoryInv, Reading

LEMMA NextHistory == HistoryInv /\ [Next]_vars => HistoryInv'
<1> SUFFICES ASSUME HistoryInv, [Next]_vars PROVE HistoryInv'
  OBVIOUS
<1>0. LedgerInv'
  BY NextKeeps DEF HistoryInv
<1>1. Reading'
  <2>1. CASE LedgerNext /\ UNCHANGED pageVars
    BY <2>1, ReadingLedger
  <2>2. ASSUME NEW f \in Filters, SetFilter(f) PROVE Reading'
    BY <2>2 DEF SetFilter, Reading
  <2>3. CASE Restart
    <3>1. Start(TRUE, Any) /\ clean' = (fetches = {})
          /\ UNCHANGED <<ledgerVars, filter, list, cursor, base>>
      BY <2>3 DEF Restart
    <3>2. Any \in 1 .. MaxRows \cup {Any} /\ TRUE \in BOOLEAN
      OBVIOUS
    <3> QED BY <3>1, <3>2, ReadingStart
  <2>4. CASE LoadMore
    <3>1. /\ Start(FALSE, cursor) /\ timer' = timer /\ clean' = (clean /\ ~timer)
          /\ cursor # Any /\ ~loading
          /\ UNCHANGED <<ledgerVars, filter, list, cursor, base>>
      BY <2>4 DEF LoadMore
    <3>2. cursor \in 1 .. MaxRows \cup {Any} /\ FALSE \in BOOLEAN
      BY DEF HistoryInv, LedgerInv, TypeOK
    <3>3. ASSUME clean', ~timer' PROVE fetches = {} /\ Good
      BY <3>1, <3>3 DEF HistoryInv, Reading
    <3> QED BY <3>1, <3>2, <3>3, ReadingStart
  <2>5. ASSUME NEW x \in fetches, Serve(x) \/ Deliver(x) \/ Fail(x) PROVE Reading'
    BY <2>5, ReadingServe, ReadingDeliver, ReadingFail
  <2>6. CASE UNCHANGED vars
    <3>1. UNCHANGED <<ledgerVars, filter, timer, fetches, count, list, cursor, loading, base, clean>>
      BY <2>6 DEF vars
    <3>2. Good => Good'
      BY <3>1 DEF Good, Shown, ledgerVars
    <3>3. \A x \in fetches : Right(x, IF x.reset THEN x.page.table ELSE base)
                            => Right(x, IF x.reset THEN x.page.table ELSE base)'
      BY <3>1 DEF Right, ledgerVars
    <3> QED BY <3>1, <3>2, <3>3 DEF HistoryInv, Reading
  <2> QED BY <2>1, <2>2, <2>3, <2>4, <2>5, <2>6 DEF Next
<1> QED BY <1>0, <1>1 DEF HistoryInv

LEMMA HistoryAlways == Spec => []HistoryInv
  BY InitHistory, NextHistory, PTL DEF Spec

-----------------------------------------------------------------------------
(* Theorems *)

\* Every variable of the table and of the page keeps its type.
THEOREM TypeCorrect == Spec => []TypeOK
<1>1. HistoryInv => TypeOK
  BY DEF HistoryInv, LedgerInv
<1> QED BY <1>1, HistoryAlways, PTL

\* Pages read one after the other list every row once, in order, and leave out
\* none, whatever the worker and retention do in between.
THEOREM ReadsInFull == Spec => []ReadInFull
<1>1. HistoryInv => ReadInFull
  BY GoodReads DEF HistoryInv
<1> QED BY <1>1, HistoryAlways, PTL

\* Retention never deletes a row of the aggregate's default window.
THEOREM KeepsWindow == Spec => []WindowKept
<1>1. ASSUME HistoryInv PROVE WindowKept
  <2>1. now \in Nat /\ \A t \in swept : t < now - Keep /\ t \in Int
    BY <1>1, LedgerAssumption DEF HistoryInv, LedgerInv, TypeOK, LedgerTypeOK, Aged
  <2> DEFINE d == LocalDay(now)
  <2>2. d \in Int /\ now < Midnight(d + 1)
    BY <2>1, LocalDayIs
  <2>3. WindowStart(Window) = Midnight(d - (Window - 1))
    BY DEF WindowStart
  <2> HIDE DEF d
  <2>4. Window \in Nat /\ Day \in Nat /\ Offset \in Int
    BY KeepAssumption, ZoneAssumption
  <2>5. Midnight(d - (Window - 1)) = Midnight(d + 1) - Keep
    <3>1. \A a, b, c \in Int : (a - (b - 1)) * c = (a + 1) * c - b * c
      OBVIOUS
    <3>2. (d - (Window - 1)) * Day = (d + 1) * Day - Window * Day
      BY <2>2, <2>4, <3>1
    <3>3. (d + 1) * Day \in Int /\ Window * Day \in Int /\ Keep = Window * Day
      BY <2>2, <2>4, MulInt, KeepAssumption
    <3> QED BY <2>4, <3>2, <3>3 DEF Midnight
  <2>6. Midnight(d + 1) \in Int /\ Keep \in Int
    BY <2>2, <2>4, MidnightInt, MulInt, KeepAssumption
  <2> QED BY <2>1, <2>2, <2>3, <2>5, <2>6 DEF WindowKept
<1> QED BY <1>1, HistoryAlways, PTL

\* For the first thirty days of a month the rows that seed the budgets are all kept.
THEOREM KeepsMonth == Spec => []MonthKept
<1>1. ASSUME HistoryInv, now - MonthStart <= Keep, NEW t \in swept PROVE t < MonthStart
  <2>1. now \in Nat /\ t < now - Keep /\ t \in Int
    BY <1>1, LedgerAssumption DEF HistoryInv, LedgerInv, TypeOK, LedgerTypeOK, Aged
  <2>2. Month \in Nat /\ Month > 0 /\ Window \in Int /\ Day \in Int
    BY ZoneAssumption, KeepAssumption
  <2>3. now \div Month \in Nat
    BY <2>1, <2>2, DivNat
  <2>4. MonthStart \in Int /\ Keep \in Int
    BY <2>2, <2>3, MulInt, KeepAssumption DEF MonthStart
  <2> QED BY <1>1, <2>1, <2>4
<1>2. HistoryInv => MonthKept
  BY <1>1 DEF MonthKept
<1> QED BY <1>2, HistoryAlways, PTL

\* The day cut of the aggregate and that of the history agree for every time zone
\* offset, so a day's count is the number of rows its history lists.
THEOREM DaysAgree == Spec => []DayIsItsHistory
<1>1. ASSUME HistoryInv, NEW days \in 1 .. Window,
             NEW d \in LocalDay(now) - (days - 1) .. LocalDay(now)
      PROVE  Counted(days, d)
               = {r \in rows : Matches([model |-> Any, since |-> d, until |-> d], r)}
  <2>1. now \in Nat /\ rows \subseteq Row /\ LastTick \in Nat /\ Window \in Nat
    BY <1>1, LedgerAssumption, KeepAssumption
      DEF HistoryInv, LedgerInv, TypeOK, LedgerTypeOK
  <2>2. LocalDay(now) \in Int /\ days \in Int
    BY <2>1, LocalDayIs
  <2> DEFINE a == LocalDay(now) - (days - 1)
  <2>3. a \in Int /\ d \in Int /\ a <= d /\ d # Any
    BY <1>1, <2>2, AnyAssumption
  <2>4. WindowStart(days) = Midnight(a)
    BY DEF WindowStart
  <2> HIDE DEF a
  <2>5. Midnight(a) <= Midnight(d)
    BY <2>3, ZoneAssumption, MulMono, MulInt DEF Midnight
  <2>6. Midnight(a) \in Int /\ Midnight(d) \in Int
    BY <2>3, MidnightInt
  <2>7. ASSUME NEW r \in rows
        PROVE  r.at >= WindowStart(days) /\ LocalDay(r.at) = d
                 <=> Midnight(d) <= r.at /\ r.at < Midnight(d + 1)
    <3>1. r.at \in Nat
      BY <2>1 DEF Row
    <3>2. LocalDay(r.at) = d <=> Midnight(d) <= r.at /\ r.at < Midnight(d + 1)
      BY <2>3, <3>1, DayIs
    <3> QED BY <2>4, <2>5, <2>6, <3>1, <3>2
  <2>8. ASSUME NEW r \in rows
        PROVE  Matches([model |-> Any, since |-> d, until |-> d], r)
                 <=> Midnight(d) <= r.at /\ r.at < Midnight(d + 1)
    <3>1. r.at \in Int
      BY <2>1 DEF Row
    <3> QED BY <2>3, <2>6, <3>1 DEF Matches
  <2> QED BY <2>7, <2>8 DEF Counted
<1>2. HistoryInv => DayIsItsHistory
  BY <1>1 DEF DayIsItsHistory
<1> QED BY <1>2, HistoryAlways, PTL
=============================================================================
