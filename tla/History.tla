------------------------------ MODULE History ------------------------------
(***************************************************************************)
(* The dashboard's history page (HistoryPage, web/src/App.tsx) on top of   *)
(* the Ledger: a list that is read page by page with keyset cursors while  *)
(* rows are written and deleted, and begun again, after a pause, when a    *)
(* filter changes.  Its fetches may be answered in any order.              *)
(*                                                                         *)
(* The list is a sequence of pages, each a set of rows: within a page the  *)
(* query orders by id.                                                     *)
(***************************************************************************)
EXTENDS Ledger, Sequences

CONSTANTS
  Filters,     \* what may be typed into the filters
  PageSize,    \* PAGE_SIZE
  MaxFetches   \* fetches are followed up to this number

ASSUME PageAssumption == PageSize \in Nat \ {0} /\ MaxFetches \in Nat

VARIABLES
  filter,    \* model, status, since, until
  timer,     \* the 250 ms of the debounce are running
  fetches,   \* fetches under way
  count,     \* how many there have been
  list,      \* rows
  cursor,    \* nextBeforeId
  loading,   \* disables the button
  base,      \* ghost: the table the list's first page was read from
  clean      \* ghost: since the list was begun, one fetch at a time, all for it

vars == <<ledgerVars, filter, timer, fetches, count, list, cursor, loading, base, clean>>

pageVars == <<filter, timer, fetches, count, list, cursor, loading, base, clean>>

Waiting == [rows |-> {}, next |-> Any, table |-> {}]

Fetch == [n : 1 .. MaxFetches, reset : BOOLEAN, filter : Filters,
          before : 1 .. MaxRows \cup {Any}, served : BOOLEAN,
          page : [rows : SUBSET Row, next : 1 .. MaxRows \cup {Any}, table : SUBSET Row]]

TypeOK ==
  /\ LedgerTypeOK
  /\ filter \in Filters /\ timer \in BOOLEAN
  /\ fetches \subseteq Fetch /\ count \in 0 .. MaxFetches
  /\ list \in Seq(SUBSET Row) /\ cursor \in 1 .. MaxRows \cup {Any}
  /\ loading \in BOOLEAN /\ base \subseteq Row /\ clean \in BOOLEAN

\* The page is opened: its effect starts the timer.
Init ==
  /\ LedgerInit
  /\ filter \in Filters /\ timer = TRUE
  /\ fetches = {} /\ count = 0
  /\ list = <<>> /\ cursor = Any /\ loading = FALSE
  /\ base = {} /\ clean = FALSE

-----------------------------------------------------------------------------
(* The user *)

\* A filter changes: the effect runs again and restarts the timer.
SetFilter(f) ==
  /\ f # filter
  /\ filter' = f /\ timer' = TRUE
  /\ UNCHANGED <<ledgerVars, fetches, count, list, cursor, loading, base, clean>>

Start(reset, before) ==
  /\ count < MaxFetches
  /\ count' = count + 1
  /\ loading' = TRUE
  /\ fetches' = fetches \cup
       {[n |-> count + 1, reset |-> reset, filter |-> filter, before |-> before,
         served |-> FALSE, page |-> Waiting]}

\* fetchPage(true), from the timer.
Restart ==
  /\ timer
  /\ Start(TRUE, Any)
  /\ timer' = FALSE
  /\ clean' = (fetches = {})
  /\ UNCHANGED <<ledgerVars, filter, list, cursor, base>>

\* fetchPage(false), from the button.
LoadMore ==
  /\ cursor # Any /\ ~loading
  /\ Start(FALSE, cursor)
  /\ clean' = (clean /\ ~timer)
  /\ UNCHANGED <<ledgerVars, filter, timer, list, cursor, base>>

-----------------------------------------------------------------------------
(* The server *)

Serve(x) ==
  /\ x \in fetches /\ ~x.served
  /\ LET page == Top(Hits(x.filter, x.before), PageSize)
     IN  fetches' = (fetches \ {x}) \cup
           {[x EXCEPT !.served = TRUE,
                      !.page = [rows |-> page, next |-> Cursor(page, PageSize),
                                table |-> IF x.reset THEN rows ELSE {}]]}
  /\ UNCHANGED <<ledgerVars, filter, timer, count, list, cursor, loading, base, clean>>

-----------------------------------------------------------------------------
(* The answer reaches the page, whatever the page has asked for since. *)

Deliver(x) ==
  /\ x \in fetches /\ x.served
  /\ fetches' = fetches \ {x}
  /\ list' = IF x.reset THEN <<x.page.rows>> ELSE Append(list, x.page.rows)
  /\ cursor' = x.page.next
  /\ loading' = FALSE
  /\ base' = IF x.reset THEN x.page.table ELSE base
  /\ UNCHANGED <<ledgerVars, filter, timer, count, clean>>

\* The server or the network fails: the list and its cursor stay as they are.
Fail(x) ==
  /\ x \in fetches
  /\ fetches' = fetches \ {x}
  /\ loading' = FALSE
  /\ clean' = (clean /\ ~x.reset)
  /\ UNCHANGED <<ledgerVars, filter, timer, count, list, cursor, base>>

-----------------------------------------------------------------------------
Next ==
  \/ LedgerNext /\ UNCHANGED pageVars
  \/ (\E f \in Filters : SetFilter(f)) \/ Restart \/ LoadMore
  \/ \E x \in fetches : Serve(x) \/ Deliver(x) \/ Fail(x)

Spec == Init /\ [][Next]_vars

-----------------------------------------------------------------------------
(* Properties *)

Shown == UNION {list[i] : i \in DOMAIN list}

\* A list that was read one page at a time shows no row twice, in order, only rows
\* that match, and leaves out none that was in the table when it was begun, still
\* is, and is not below the last row shown: whatever was inserted, committed late
\* or deleted between the pages (admin.go:114-116).
ReadInFull ==
  clean /\ ~timer /\ fetches = {} =>
    /\ \A i, j \in DOMAIN list : i < j =>
         \A r \in list[i], s \in list[j] : r.id > s.id
    /\ \A r \in Shown : Matches(filter, r)
    /\ \A r \in base \cap rows :
         Matches(filter, r) /\ (cursor = Any \/ r.id >= cursor) => r \in Shown

\* Keyset pages "do not show rows twice" (admin.go:114-116): no row is on two pages
\* of the list.  The page breaks this: the button is released by the first answer
\* of two, and the second page it loads then belongs to another list.
NoRowTwice == \A i, j \in DOMAIN list : i # j => list[i] \cap list[j] = {}
=============================================================================
