------------------------------- MODULE Ledger -------------------------------
(***************************************************************************)
(* The requests table as the dashboard's API reads it: history pages       *)
(* (GET /admin/requests, admin.go), the daily aggregate (GET /admin/stats, *)
(* stats.go) and retention (RunRetention, store.go), next to the log's     *)
(* worker, which goes on writing.                                          *)
(*                                                                         *)
(* Time is in ticks.  A day is Day of them, cut at midnight in dashboardTZ *)
(* (Offset ticks ahead of UTC) by both queries, and a month, cut in UTC,   *)
(* is Month of them.  A row's id is drawn when its insert begins; an       *)
(* insert that timed out may commit when rows with higher ids are there.   *)
(***************************************************************************)
EXTENDS Integers, FiniteSets

CONSTANTS
  Models,    \* model_requested
  Any,       \* a filter left empty; no cursor
  Day, Offset,
  Month,
  Window,    \* the aggregate's default number of days, 30 in the code
  Keep,      \* retentionKeep, 30 days in the code
  MaxLag,    \* an Event is at most so old when its insert begins
  MaxRows,   \* rows are followed up to this id
  LastTick   \* and time up to this tick

ASSUME ZoneAssumption   == Day \in Nat \ {0} /\ Offset \in 0 .. Day - 1 /\ Month \in Nat \ {0}
ASSUME KeepAssumption   == Window \in Nat \ {0} /\ Keep = Window * Day
ASSUME AnyAssumption    == Any \notin Models /\ Any \notin Int
ASSUME LedgerAssumption == MaxLag \in Nat /\ MaxRows \in Nat /\ LastTick \in Nat

VARIABLES
  now,     \* time.Now() and the database's now()
  nextId,  \* the table's sequence
  open,    \* rows whose insert has begun and is not decided
  rows,    \* the table
  swept    \* ghost: the times of the rows that retention has deleted

ledgerVars == <<now, nextId, open, rows, swept>>

Row == [id : 1 .. MaxRows, at : 0 .. LastTick, model : Models]

LedgerTypeOK ==
  /\ now \in 0 .. LastTick
  /\ nextId \in 1 .. MaxRows + 1
  /\ open \subseteq Row /\ rows \subseteq Row
  /\ swept \subseteq 0 .. LastTick

LedgerInit ==
  /\ now = 0 /\ nextId = 1
  /\ open = {} /\ rows = {} /\ swept = {}

-----------------------------------------------------------------------------
Tick ==
  /\ now < LastTick
  /\ now' = now + 1
  /\ UNCHANGED <<nextId, open, rows, swept>>

\* The worker inserts an Event of time t: created_at is the Event's, not the row's.
Insert(t, m) ==
  /\ nextId <= MaxRows
  /\ t \in 0 .. now /\ now - t <= MaxLag
  /\ nextId' = nextId + 1
  /\ open' = open \cup {[id |-> nextId, at |-> t, model |-> m]}
  /\ UNCHANGED <<now, rows, swept>>

Commit(r) ==
  /\ r \in open
  /\ open' = open \ {r}
  /\ rows' = rows \cup {r}
  /\ UNCHANGED <<now, nextId, swept>>

\* The insert failed; its id is not used again.
Abort(r) ==
  /\ r \in open
  /\ open' = open \ {r}
  /\ UNCHANGED <<now, nextId, rows, swept>>

Old == {r \in rows : r.at < now - Keep}

\* Mutant: retention counts from the end of the oldest day it keeps.
SweepEarly ==
  /\ {r \in rows : r.at < now - Keep + Day} # {}
  /\ rows' = {r \in rows : r.at >= now - Keep + Day}
  /\ swept' = swept \cup {r.at : r \in {s \in rows : s.at < now - Keep + Day}}
  /\ UNCHANGED <<now, nextId, open>>

\* A tick of RunRetention that finds something to delete.
Sweep ==
  /\ Old # {}
  /\ rows' = rows \ Old
  /\ swept' = swept \cup {r.at : r \in Old}
  /\ UNCHANGED <<now, nextId, open>>

LedgerNext ==
  \/ Tick \/ Sweep
  \/ \E t \in 0 .. LastTick, m \in Models : Insert(t, m)
  \/ \E r \in open : Commit(r) \/ Abort(r)

-----------------------------------------------------------------------------
(* Days of the dashboard's time zone. *)

LocalDay(t) == (t + Offset) \div Day

\* The tick at which local day d begins: d::timestamp AT TIME ZONE dashboardTZ.
Midnight(d) == d * Day - Offset

\* GET /admin/requests: the rows of a page, and the cursor of the next one.
\* `since' and `until' are local days, both included.
Matches(f, r) ==
  /\ f.model = Any \/ r.model = f.model
  /\ f.since = Any \/ r.at >= Midnight(f.since)
  /\ f.until = Any \/ r.at < Midnight(f.until + 1)

\* Mutant: the last row of a page is shown again on the next.
HitsInclusive(f, before) ==
  {r \in rows : Matches(f, r) /\ (before = Any \/ r.id <= before)}

Hits(f, before) == {r \in rows : Matches(f, r) /\ (before = Any \/ r.id < before)}

Top(hits, limit) == {r \in hits : Cardinality({s \in hits : s.id > r.id}) < limit}

\* Mutant: the next page begins below the row under the last one.
CursorBelow(page, limit) ==
  IF Cardinality(page) = limit
    THEN CHOOSE i \in {r.id - 1 : r \in page} : \A r \in page : i < r.id
    ELSE Any

\* A full page has a next one, from the last row it shows.
Cursor(page, limit) ==
  IF Cardinality(page) = limit
    THEN CHOOSE i \in {r.id : r \in page} : \A r \in page : i <= r.id
    ELSE Any

\* GET /admin/stats: where its window begins, and the rows counted for local day d.
\* Mutant: the date is converted where it should be interpreted (stats.go:53-54).
WindowStartUTC(days) == (LocalDay(now) - (days - 1)) * Day

WindowStart(days) == Midnight(LocalDay(now) - (days - 1))

Counted(days, d) == {r \in rows : r.at >= WindowStart(days) /\ LocalDay(r.at) = d}

-----------------------------------------------------------------------------
(* Properties *)

\* The default window "matches the retention" (stats.go:37-38): no row of its days
\* has been deleted, so its oldest day is whole too, at any time of the day.
WindowKept == \A t \in swept : t < WindowStart(Window)

\* A click on a day of the aggregate opens the history of exactly the rows that
\* were counted for it: the two queries cut days at the same instants, and the
\* window begins with a whole day.
DayIsItsHistory ==
  \A days \in 1 .. Window : \A d \in LocalDay(now) - (days - 1) .. LocalDay(now) :
    Counted(days, d) = {r \in rows : Matches([model |-> Any, since |-> d, until |-> d], r)}

MonthStart == (now \div Month) * Month

\* What a restart seeds the budgets from: retention has deleted nothing of the
\* running month for as long as the month is no older than what is kept.  After
\* that (the thirty-first day) it has, and the seed is too low.
MonthKept == now - MonthStart <= Keep => \A t \in swept : t < MonthStart
=============================================================================
