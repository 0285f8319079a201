# Verification of the sanmon gateway

sanmon (`src/`) is a single-process HTTP gateway in Go in front of an
OpenAI-compatible upstream. Clients hold *virtual keys*; the gateway checks the
key, its rate limit and its monthly budget, proxies the request, writes one row
per request to Postgres and shows the traffic live on a dashboard. This
directory holds TLA+ modules that model it, the TLC configurations that check
them and the proofs, checked by TLAPS, of what holds for every instance.

Paths below are relative to `src/`.

## 1. The system

```
 client --> requireVirtualKey --> chat / embeddings handler --> upstream
              |    |      |              |
           api_keys| budgetTracker   emitEvent(ev)
           (SQL)   rateLimiter           |-- hub.Broadcast --> Hub.Run --> /admin/stream
                                         |-- store.Enqueue --> Store.Run --> requests (SQL)
                                         `-- budget.add
 main: config, db, seed budget, start Hub.Run, Store.Run, RunRetention,
       RunMonthlyReset, serve; on a signal srv.Shutdown
```

| Component | Code | State | Operations | What makes it correct |
|---|---|---|---|---|
| Budget tracker | `budget.go`; asked in `auth.go:66`, charged in `proxy.go:32` | the month; a map from key to an atomic counter | `seed`, `allow`, `add`, `maybeRollMonth` (hourly tick) | the soft cap is overshot by a bounded amount; a request after the crossing is refused; a restart forgets nothing its seed can see; a new month unblocks |
| Event emission | `proxy.go:26-45` | none; three effects in order | `emitEvent`, `calcCost` | each proxied request is broadcast, enqueued and charged once |
| Request log | `store.go` | queue of 256, one worker, the `requests` table | `Enqueue`, `Run`, `drain`, `insert`, `RunRetention` | never delays the proxy; at most one row per request; order; drained at shutdown |
| Live feed | `hub.go`, `admin.go:42-84` | subscriber map owned by one goroutine; buffers of 64 and 16 | `Subscribe`, `unsubscribe`, `Broadcast`, `Run`, stream handler | no send on a closed channel, no leak, order, nobody stuck |
| Lifecycle | `main.go` | http.Server, signal context | start, seed, serve, Shutdown | always ends after a signal; a clean exit loses nothing |
| Authentication | `auth.go` | the `api_keys` table | look-up, admission chain | an unknown or disabled key never passes |
| Rate limiter | `limiter.go` | token bucket per key | `allow` | bounded requests in any window |
| Key administration | `keys.go` | `api_keys` | create, list, disable | a disabled key stays so; a key created is a key handed out |
| Exchange | `proxy.go` | per request | both handlers, `streamBody`, usage parsing | what is billed is what was used; a cut stream is logged as such |
| History, retention | `admin.go:86-263`, `store.go:85-125` | `requests` | keyset pages, delete after 30 days | no row shown twice or skipped; retention leaves the page's window, and what the seed needs of a month of thirty days |
| Statistics | `stats.go` | `requests` | one aggregate per call | consistent with the history |
| Dashboard | `web/src/App.tsx` | React state | history page, keys page, live feed | a late answer never replaces a newer one |
| lamaran CLI | `cmd/lamaran/main.go` | none; one file | one call, `match.md` or exit 1 | no file from part of an answer |
| Models, SPA, config, DB opening | `models.go`, `spa.go`, `config.go`, `db.go` | none between calls | forwarding, files, parsing | nothing to go wrong between steps |

How they interact: handlers run concurrently, one goroutine per request, and
meet in four places: the budget map (mutex for the map, atomics for the
counters), the hub's channels, the store's queue, and the database. Both
channels are sent to without waiting and drop when full. The only other actors
are the background goroutines, which share one context that a signal cancels.

What is hard here, and hard to test:

- **check and charge are an exchange apart** (budget), and each fetches a
  counter's pointer under the mutex and uses it after the unlock, while the
  hourly roll replaces the map;
- **the calendar moves on its own**: between midnight and the next tick the
  tracker's month is behind the UTC month; and the month of the seed query is
  that of the Postgres session's time zone (`budget.go:44`), which neither the
  query nor `db.go:14-15` sets;
- **restarts** take the counters from a table whose writer loses rows, commits
  some late (after a timeout, even after the next process has seeded), and from
  which retention deletes the oldest;
- **drops at bounded buffers**, with viewers leaving and returning while an
  event is fanned out one subscriber at a time;
- **timeouts that do not mean "did not happen"**: an insert that timed out may
  have been committed;
- **a relayed stream is looked through as it passes**: an event may be split over
  reads anywhere, the upstream may stop anywhere and the client leave anywhere,
  and what was used is known only at the end;
- **pages are read while the table moves**: rows are written, committed late and
  deleted between two pages, and the page that shows them may have two answers
  under way;
- **shutdown order**: the worker stops at the signal, the handlers up to ten
  seconds later.

`PROJECT.json` lists every hazard at its line with the properties that cover it,
or with why none does yet.

## 2. The modules

| Module | Models | Abstract counterpart |
|---|---|---|
| `Budget` | the tracker, the handlers that check and charge, the calendar, restarts | - |
| `BudgetProofs`, `BudgetTableProofs` | the theorems about `Budget`: its counters; its counters and the table | - |
| `Hub` | the live feed from `Broadcast` to the viewer | `LossyFeed` |
| `Store` | the log's queue and worker, and Postgres' answers | `LossyLog` |
| `Lifecycle` | `Store` composed with main, the HTTP server, handlers and open dashboards | `LossyLog`, through `Store` |
| `Limiter` | the token buckets against a clock | - |
| `LimiterProofs` | the theorems about `Limiter` | - |
| `Access` | the keys table, its administration and the admission chain, with `Limiter` inside | `Limiter` |
| `AccessProofs` | the theorems about `Access` | - |
| `Exchange` | one proxied request from body to Event: both handlers, `streamBody`, the upstream, the client, the CLI | `Passage` |
| `Ledger` | the `requests` table as the history, the aggregate and retention see it | - |
| `History` | the dashboard's history page on top of `Ledger` | - |
| `HubProofs`, `LifecycleProofs`, `ExchangeProofs`, `HistoryProofs` | the theorems about `Hub`, `Lifecycle` (with `Store`), `Exchange`, `History` (with `Ledger`) | - |
| `MCBudget`, `MCHub`, `MCLifecycle`, `MCAccess`, `MCExchange`, `MCHistory` | the instances TLC checks | - |

### Budget

`cell[m][k]` is the atomic counter of key `k` in the map that was made for month
`m`; `month` is the tracker's month. The tracker makes a map when it is built
and one at each roll, so "the pointer I fetched" is a month (`ref`), and a
pointer that a roll has overtaken is a `ref` below `month`. That is the whole
of the pointer aliasing: `Ask`/`Admit`/`Refuse` are the two halves of `allow`
(fetch under the lock, load after it), `FetchCounter`/`Add` the two halves of
`add`. `Answer` builds the Event (the time and the cost are fixed then),
`Publish` is the broadcast and the enqueue, of which the table keeps the row or
not. `Roll` is a tick that finds another month. `New`, `Seed`, `SeedFails` and
`Stop` are the process.

Time is in ticks (`now`), several to a month. `MonthOf` is the UTC month of a
tick, which is what the tracker asks for; `Cut[now]` is the tick at which
`date_trunc('month', now())` cuts, which is the session zone's and may be any
tick. `SeedSum` is the query: the rows since the cut, as they are at that moment.
The table is kept by its sums per tick and key. `Publish` is the broadcast and the
enqueue: the cost is `spent`, and `absent` from the table. `Commit` moves it to
`rows` at any later time, in a later process's life too, or never; this covers a
queue that is full, an insert that fails, one that timed out and commits late, and
what dies with the process (it allows a little more: a row that was lost for good may
still come). `Sweep` is retention. The order of rows is not told apart here; it is
in `Store`.

`spent` is the truth the rest is measured against: what the answers given at a tick
cost. `forgot[m][k]` collects the bills (`MonthBill`) of month `m` that a counter
was set to less than, by a roll or a seed, and `blind` the months and keys for which
a seed could not see everything: a cost not in the table, a tick before the cut, or
one that retention may have reached. `born`, `seed` and `late` are ghosts too; no
guard reads any of them but the bound `Followed`.

One clock value stands for the process's and the database's: their zones are told
apart, a skew between the two machines is not.

### Hub

Events are numbers in the order of `Broadcast` calls. `event`/`todo` is the
fan-out loop of `Run`: `StartFanOut` takes one event from the buffered channel,
each `Send` is one iteration of `for ch := range h.subscribers`, in any order
as Go's maps have it, and `EndFanOut` returns to the select. `Register` and
`Unregister` are the rendezvous on the unbuffered channels, possible only while
`Run` is at its select. A viewer is a dashboard that may connect again, with a
new channel each time; a channel nobody reads any more is forgotten.

### Store and Lifecycle

`worker` is where `Run` is: `run` at its select, `drain` in `drain`'s loop,
`done` returned. `holding` is the event whose insert is in progress. An insert
succeeds, fails, or times out, and then Postgres may still commit it
(`LateCommit`) or not (`LateAbort`). `Lifecycle` adds `server`, the proxy
handlers and the open streams. `Signal` both cancels the context the worker
watches and lets `BeginShutdown` follow, but not at once: requests still come in
between. `Shutdown` is `net/http`'s, modelled by its contract: it ends when the
last handler has returned or fails at its deadline. The three ways to end are
kept apart: `clean` (exit 0), `failed` (Shutdown's error, exit 1) and `unheard`
(the port could not be listened on). In the last two, and when main returns,
whatever the worker holds dies with the process, but not in the database:
`Database` may still commit it.

### Limiter and Access

`Limiter` counts tokens in clock ticks: a bucket holds `credit`, a token is
`Interval(k)` ticks, cut as `time.Minute/rpm` is in the code. `Credit(k)` is
what the bucket holds now; `AllowPasses` takes a token, `AllowRefuses` changes
nothing but the ghost `refused`. `since[k][t]` is a ghost that counts what has
passed since tick `t`, so a property can speak of every window at once. The
bucket itself is `golang.org/x/time/rate`; it is modelled as exact (no floating
point) and as reading the clock in the step that takes the token.

`Access` puts it in `requireVirtualKey`: `Arrive`, `LookUp`/`LookUpFails`,
`AskLimiter`, `AskBudget` (its verdict is a choice here; the tracker is in
`Budget`). Next to it run `POST /admin/keys` and `DELETE /admin/keys/{id}`, each
in three steps: started, executed by Postgres, answered. A handler that gives
up before its statement is executed leaves it in `pending`, from where it may be
executed or dropped at any later time. `RestartProcess` ends every handler in
the same way. One removal of a key runs at a time and may be asked for again
after a failure; a second one, at the same time or after the 204, would only run
the same idempotent statement. Keys are tokens, made once; a key in `Settled` has existed for
long and is left alone, so that "other keys keep working" is checked too.

### Exchange

`pc` is where the handler is: `decoding` (up to `client.Do`), `waiting` (in it),
`collecting` (`io.ReadAll` of a body that is not streamed), `relaying` (at
`upstream.Read`), `scanning` (in the inner loop that cuts events off), `done`
(`emitEvent` called, or a 400 answered). `request` and `upstream` are chosen once;
`upstream` is all the upstream will send, of which `taken` tokens have been read.
A token is a line's text or one byte of the blank line behind it, so a read may
end inside an event or inside its separator: `Relay(n)` reads n tokens, writes
them to the client and appends them to `pending`; `Cut(i)` is one iteration of
the inner loop, at the first blank line; `NoneLeft` leaves it. What `Read`
returns at last is one of `StreamEnds` (io.EOF), `Cancelled` (the request's
context) and `Interrupted` (anything else). `WriteFails` is the `return` in the
middle of the loop. `short` leaves out the last bytes of the last separator,
`crlf` frames with CRLF. A document has no usage in any proper part of it.

`Emit` is the Event of an answered request, with `calcCost` in it, and
`EmitFailure` that of one that was not answered. What is done with the Event is
in `Budget` (`Publish`, `Add`), `Hub` and `Store`. The command line client is the
client of a `chat` request that is not streamed; it makes `match.md` of an answer
with status 200 that is one whole JSON document. A body that breaks off
(`CollectPart`) is sent on as if it were whole; a client can tell if the upstream
had declared a length (`sized`, the header is copied) or by its being no JSON.

`Passage` is what all of this promises of one request: the client is sent the
upstream's body from its beginning, in order and once; the exchange ends once, with
at most one Event and at most one notice of a break behind what was sent; a
stream is recorded as whole only if all of it was sent; something is charged
only for what was sent whole. `Promise` maps the exchange to it: `source` is the
body as framed, `sent` what was written, `record` how the handler ended
(`Ending`), `bill` the Event's cost. Reads, events, `pending`, usages and the client's leaving
are not in it. It says no more of a document that broke off than that it is
recorded as any other and not charged, because the code does not tell it apart.

### Ledger and History

`Ledger` has the table's `rows` and the inserts under way (`open`): an id is
drawn when an insert begins (`Insert`), and an insert that timed out commits
when it likes (`Commit`), so a row may appear below rows that were listed before
it. `Sweep` is a tick of `RunRetention` that finds something. Time is in ticks;
`Day`, `Offset` and `Month` are the calendar: days are cut at local midnights
(`Midnight`, `LocalDay`), months in UTC. `Hits`, `Top` and `Cursor` are
`GET /admin/requests`, `Counted` is `GET /admin/stats`. `swept` is a ghost.

`History` puts the page on top: a change of a filter restarts the debounce
(`SetFilter`), which begins a new list (`Restart`); the button continues it
(`LoadMore`), unless `loading`. A fetch is sent, served by one query (`Serve`,
one snapshot) and answered (`Deliver`, `Fail`), in any order with others: the
page does not cancel fetches and does not look whether an answer is still asked
for. `base` and `clean` are ghosts: the table the list was begun from, and
whether it was read one fetch at a time since. The fetch uses the filters of the
render that made its closure: the effect and the button both belong to the
last render, so these are the filters at the time it starts.

## 3. The runs

| Run | Question | Answer |
|---|---|---|
| `budget` | how far can a soft cap be overshot, in memory and in what was really spent; how often is a bill forgotten, and does a restart forget; is a late request ever let through? | in memory by one request per handler (`Overshoot`); in truth by one cap more for every bill that was forgotten (`MonthlyCap`), which is once at most unless a seed was blind (`ForgetsOnce`); a restart whose seed sees the whole month forgets nothing (`SeededInFull`); no (`LateIsRefused`). `IInv` and `TableInv` are the inductive invariants of the proofs |
| `budget_live` | does a blocked key come back after the turn of the month? | yes (`UnblockedByNewMonth`) |
| `budget_rollover` | does the tracker hold the running month's spending? | **no** (finding 1) |
| `hub` | can the fan-out hit a closed channel, leak, reorder, or get stuck? | no: a channel is registered exactly as long as its handler has it, and closed as soon as it is let go of (`NoLeak`) |
| `lifecycle` | is the log a lossy log through overflow, failure, timeout and shutdown; does the process always end? | yes |
| `lifecycle_drain` | does a clean exit leave the queue empty? | **no** (finding 2) |
| `lifecycle_stream` | does Shutdown fail only because of proxied requests? | **no** (finding 3) |
| `access` | does a removed key stay out, does a handed-out key get in, does the rate hold in every window, is Retry-After right? | yes; Retry-After is short by less than a second |
| `access_down` | do requests go on without Postgres? | **no** (finding 4) |
| `exchange` | is what is logged what the upstream reported, is a cut stream marked, is the buffer bounded, does a file ever come from half an answer, does a client that leaves end the exchange, is the client sent the upstream's body once and in order and told the truth about its end? | billed as reported for streams that ended with LF framing and documents that came whole; a stream that is not marked partial came whole; bounded with LF framing; never; yes; yes (`KeepsPromise`, the refinement of `Passage`) |
| `history` | is a list that is read page by page whole; what does retention leave alone; do the two queries agree about days? | yes (`ReadInFull`); the default window (`WindowKept`) and a month of no more than thirty days (`MonthKept`); yes (`DayIsItsHistory`) |
| `history_dup` | does the page ever list a row twice? | **yes** (finding 5) |

Bounds, and why they are enough:

- `budget`: two handlers (the stale-pointer and pass-together cases need two:
  one that checks, one that charges or is overtaken), one key with a limit of 1,
  costs 0 and 1, so a counter may reach `Cap(1) = 2`. Three ticks: the last of a
  month, the first of the next and its last; a pointer can be stale by one roll, and
  a second roll repeats the first. The session is ahead of UTC (`CutAhead`), so a
  seed at tick 0 or 1 cuts too early and one at tick 2 forgets the tick before; a
  row is old after its tick (`Keep = 0`), so retention takes part of the running
  month; any number of restarts. In this instance a bill is forgotten up to three
  times, and the third cap of a month is entered after a blind seed; without one,
  two caps are reached. `FollowUpTo` admits no more requests of a key that has cost
  1 in the old month or 4 (two caps) in the new one: blind restarts could raise the
  bill for ever, which is what `MonthlyCap` says, and a fifth repeats the third.
- `budget_live`: the same with an unlimited key beside the limited one (its
  admission, which does not look at the counter, happens here), two ticks and a
  session in UTC.
- `hub`: two viewers, a fan-out buffer of 2, a viewer buffer of 1 and four
  events: both buffers overflow, and a viewer can miss, leave and return while
  the other is served.
- `lifecycle`: three requests, a queue of 2 (the third overflows it), one
  dashboard.
- `access`: one key of two requests a minute that is created, used and removed,
  and one without a limit that stays; a minute of three seconds of two ticks, so
  that an interval (3 ticks) is longer than Retry-After (1 s) says; five ticks,
  enough for a burst, a refusal and a second request. One handler slot: requests
  meet only in the limiter, whose step is atomic, and in the table, so a second
  slot repeats the first (the proofs are for any number).

- `exchange`: a model with a price and one without, prices such that each of the
  two products really loses a fraction; streams of up to two events, so that a
  later usage replaces an earlier one and a null one (as Gemini sends it in every
  chunk) follows a real one; reads of one to three tokens, of which three is
  a whole event and more than a separator, so that every way to split an event
  and its blank line occurs, and a read that ends one event and begins the next.
- `history`: days of two ticks cut one tick off UTC, a month of four, retention of
  one day (the code's thirty, scaled: `Keep = Window * Day`), three rows, one row
  a page, two fetches at a time: a late commit below the cursor, a deletion
  between two pages, a filter by day and none. `history_dup` needs three fetches.
  One more row or tick takes the run out of its time and shows no new case; the
  theorems are for any numbers.

The handlers are interchangeable, so `budget` uses their symmetry; the liveness
run does not. The lifecycle runs switch deadlock checking off because the
process does end.

### Fairness

Only what the code's own loops guarantee:

- `Budget`: weak fairness of `Roll`: `RunMonthlyReset` is a ticker loop.
- `Hub`: weak fairness of the fan-out (`Run` loops, its sends do not wait), and
  strong fairness of each `Register` and `Unregister`: they are enabled only at
  the select, time and again, and Go's select picks at random among the ready
  cases, so it does not pass one over for ever.
- `Lifecycle`: weak fairness of main's steps (Shutdown has a ten second
  deadline) and of the worker's (an insert has a five second timeout).

- `Exchange`: weak fairness of the handler's own steps (decoding, the inner
  loop) and of the return of a call whose context is cancelled, which is
  `net/http`'s contract. The upstream may hang for ever; only the client's
  leaving ends such an exchange (`EndsWhenClientLeaves`).

`History` has no liveness: nothing guarantees that a fetch is answered.

Nothing is assumed of the upstream (`http.Client` has no timeout), of clients,
of dashboards (one may read nothing for ever) or of the calendar.

## 4. The proofs

`BudgetProofs` proves, for any sets of keys, any finite set of handlers, any
limits, costs and any calendar of ticks and months:

- `Invariance`: `Spec => []IInv`;
- `TypeCorrect`: `Spec => []TypeOK`;
- `OvershootBounded`: `Spec => []Overshoot`. A counter exceeds its budget `b`
  by less than one dearest request per handler: at most
  `b - 1 + MaxCost * Cardinality(Slots)`;
- `LateRefused`: `Spec => []LateIsRefused`.

Assumptions: `Slots` is finite (the number of handlers that run at one time;
without it there is no bound), a request costs between 0 and `MaxCost`, limits
are naturals, `NoKey` is no key.

**The argument.** `Overshoot` is not inductive: a counter just below its bound
with three handlers in flight would break it. `OvershootInv` counts, next to
the counter, the handlers that may still add to it *without looking at it
again*, `Open(k)`: those admitted and not yet charged, and those about to be
admitted by a pointer to a map that a roll has thrown away. Each may add
`MaxCost`. `Admit` through a current pointer reads a counter below the limit,
so there is room for every slot; `Add` turns an open request into its cost;
`Roll` empties the counter and makes every waiting check a stale one, which
again is at most every slot. When the seed alone is over the limit nobody is
open and the counter does not move. `RefsInPast` says that no pointer is ahead
of the tracker, hence that the map `Roll` makes is nobody's yet;
`BusyHasKey` and `QuietUnlessServing` that a restart starts from no handlers;
`LateStaysLate` that a counter which a late check has yet to read never falls,
because a roll makes a new map and does not clear the old one.

`BudgetTableProofs` proves, under the same assumptions, what the counters and the
table of rows say of each other:

- `TableInvariance`: `Spec => []TableInv`;
- `SeededFully`: `Spec => []SeededInFull`. What the running month has cost is in
  the counters of a process that was started in it, or on its way there, for every
  key whose seeds were not blind;
- `ForgetsOnlyOnce`: `Spec => []ForgetsOnce`. Without a blind seed a counter is set
  to less than the month has cost once at the most, which is the late tick;
- `MonthCapped`: `Spec => []MonthlyCap`. The answers of a month cost at most `Cap`,
  the bound of `Overshoot`, and one `Cap` more for every bill that was forgotten.

Together the last two bound a month by `2 * Cap` where no seed was blind, and say
what a blind seed costs where one was. The calendar adds one assumption: `MonthOf`
never falls. Of `Cut` nothing is assumed but that it is a tick, of `Keep` that it is
a natural number, and of `Commit` that it commits no more than was enqueued.

**The argument.** `Accounted` ties the table to the truth: at a tick that retention
cannot have reached, rows and absent costs together are what was spent. A seed that
is not blind has nothing absent, nothing before its cut and nothing old, so its sum
is at least the month's bill (`SeedSees`); `SeededInFull` then follows the charges,
for which it needs `PastOnly`: a charge in progress holds a map no older than the
process, so while `born` is the running month there is one map only and no charge
can go to another. `ForgetsOnce` adds `NothingForgottenYet`: a seed that sees the
whole bill forgets none, so before the tick of the month nothing is forgotten, and
after it the tracker's month is today's and no tick forgets again.

`MonthlyCap` needs more, because a request may be held up for months between its
Event, whose time decides the month of its row, and the log: `RoomInMonth` keeps
`MaxCost` for each such request (`Unlogged`) in every month, past ones included.
That there is room when the Event is built is `CounterBehind` together with
`OvershootInv`: the running month's bill is in the current counter or due to it
(`Due`), all but one cap for each bill forgotten. When a counter is set to less than
a bill (`Forgetting`), that bill becomes one of the forgotten, and it must be covered
without the counter: by one more cap if it is new, because counter and dues together
are below a cap; and if the same bill was forgotten before, by `ForgottenBills`, which
says that each forgotten bill is covered by the caps granted so far. A process that
was seeded over a budget logs nothing for its key until the next tick.

`MonthBill` is a sum over ticks and `OnItsWay` one over handlers, and neither is a
fold: that a fold grows by what is added needs an induction over the set, which is
out of the prover's reach. They are counted instead: `Total(tab, S, k)` is the
cardinality of the pairs of a tick in `S` and a number up to its entry, and `Spent(r, S)` is the number of micro-USD of the handlers in `S`,
the cardinality of the pairs of a handler and a number up to its cost. The library's facts
about intervals, products and unions then give what a sum must do (`SpentJoins`,
`SpentSame`, `SpentMoves`, `TotalPlus`, `TotalLE`, `TotalZero`).

`LimiterProofs` proves, for any keys, rates and clock resolution,
`WindowBounded` (`n` requests in `d` ticks cost `n` intervals, of which the
burst and the `d` ticks pay) and `RetriesInTime`. The invariant `WindowInv`
adds to the requests of a window what is left in the bucket: a tick can add at
most one to the right-hand side and to the bucket, and a request moves one
interval from the bucket to the window. `RefusalInv` says that nothing was taken
since a refusal that is still remembered. The arithmetic lemma
`RetryAfterCovers` relates the two roundings, `minute/rpm` and `60/rpm`.

`AccessProofs` proves that the chain implements `LimiterSpec` (`AccessLimits`),
hence `AccessWindow`, and `RemovedStaysOut` and `HandedOutStaysIn`, from
`AccessInv`: a row is written only by the one insert of its token, pending or in
progress, and only while it is absent (`WrittenOnce`), so a disabled row is never
enabled again; a row is disabled only by a statement some removal has sent
(`RemovedByRequest`).

`AccessTypeCorrect` is the type invariant of the whole chain, and `AccessRetry`
carries `RetryInTime` from the limiter to it.

`HubProofs` proves `NeverSendsOnClosed`, `NeverLeaks` and the refinement
`ImplementsLossyFeed`. `NoSendOnClosed` is inductive with what `Channels` adds:
between two events the fan-out's list is empty, so a channel is closed, and an
entry removed, only then. For the refinement, `Order` follows an event through
the hub: for each viewer, what it has seen, what its buffer holds, the event
being fanned out (if it is still to be sent to this viewer) and what waits in the
first buffer are each below the next. A drop anywhere keeps such a chain, and so
does a reconnect, because what a new channel gets is above what the old one got.

`LifecycleProofs` proves `KeepsOrder`, `DrainsBeforeReturn` and the refinement
`ImplementsLossyLog`, of the store inside the process that may end at any step.
`LogInv` ties the queue to the sequence of accepted events: it is what is left of
it (`Line`), the worker holds the one before, and everything in the table or still
undecided in the database is of those before that (`Behind`). No event is
accepted twice (`Distinct`), hence none is written twice. `ProcessIsStore` says
that each step of the process is one of the store, or ends it, or leaves it alone.

`ExchangeProofs` proves the six safety properties of `Exchange` for streams of
any length, reads of any size, any prices and usages. The invariant's centre is
`Reassembled`: there is a number c of events that have been cut off, such that
`pending` is exactly what was read behind the c-th, and `lastUsage` is the last of
the c that mentions usage (`IsLast`). `Cut` needs that the first blank line of
`pending` is the end of event c + 1, which the lemmas about `Wire` show from the
three tokens of a frame; at io.EOF, c is the number of closed events, and that is
`BilledAsReported`. `Copied` (the client was sent what was read) gives
`PartialIsTrue`; `Whole` gives `NoHalfMatch`; `CostsWithinTwo` is arithmetic about
two divisions.

`ImplementsPassage` is the refinement, from the same invariant. Most steps stutter;
`Relay` is `Pass`, because what was sent is what was read and the next read
continues it; the return of the last read is `Complete` or `Break`, which
`Copied` and `Ending` tell apart; a document is handed over in one step. A stream that
is cut is logged with no tokens, hence charged nothing, as is a document of which
only a part came.

`HistoryProofs` proves, for any table, page size, filters, calendar and number of
fetches, the type invariant and the four other properties of `history`. `Ids` (ids are used once, and what was
ever read is not open any more) makes a late commit harmless for a list that was
begun before it. `Reading` is the inductive form of `ReadInFull`: while a list is
clean there is at most one fetch, it has the list's filter and cursor, and once it
is served its page is right from its cursor down to the next (`Right`), relative
to the table the list began with. `PageIs` says what `ORDER BY id DESC
LIMIT` selects. `Aged` gives `WindowKept` and `MonthKept`: only what is older than
`Keep` is gone, and the default window begins less than `Keep` ago.

Assumptions are those named in the modules: buffers hold something, a page and a
read are not empty, a day and a month are not empty, `Offset` is less than a day,
retention is the default window (`Keep = Window * Day`, as in the code), lines of
the upstream are none of the separators, and the empty marks (`NoKey`, `Any`,
`NoEvent`) are no keys, values or events.

Every safety property and every refinement that a passing run checks is proved. Left to TLC are
the liveness properties (`UnblockedByNewMonth`, `JoinsAndLeaves`,
`EndsAfterSignal`, `EndsWhenClientLeaves`): they rest on fairness, hence on
ENABLED, which the prover does not handle.

## 5. Findings

1. `budget_rollover` - the tracker is said to hold the running month's spending
   (`budget.go:12-15`), but what is charged between midnight and the next
   hourly tick is dropped by the tick. A month may therefore cost a second cap, and
   no more unless a restart's seed is blind: one more for each bill so forgotten
   (`MonthlyCap`, `ForgetsOnce`).
2. `lifecycle_drain` - `PRD.md:177` asks for the queue to be drained at
   shutdown; the worker drains at the signal and returns, the handlers that
   Shutdown waits for enqueue behind it, and main does not wait for it.
3. `lifecycle_stream` - `PRD.md:150` asks that Ctrl-C ends the gateway cleanly;
   one open dashboard makes Shutdown run into its deadline and the exit status 1.
4. `access_down` - "Postgres dimatiin -> request tetap jalan" (`PRD.md:213`);
   the key is looked up in Postgres on every request, and a failed query is 500.
5. `history_dup` - pages are keyset pages so that no row comes twice
   (`admin.go:114-116`), but the page that reads them (`App.tsx:383-400`) neither
   cancels the fetch of an earlier list nor drops its answer, and that answer
   enables the button while another fetch is under way. A page that continues one
   list is then appended to another: rows come twice, or are of a filter that
   is not set any more. A list read one answer at a time is right (`ReadInFull`).

Worth knowing, though no run is about it or nothing in the documents says
otherwise:

- a key may pass nearly twice its rpm within one minute (`WindowBound` is exact
  about it), a restart hands out a new burst, and a key whose creation timed out
  may exist without anybody having its token;
- a stream that is cut, by its client or the upstream, is logged and charged with
  zero tokens and zero cost, even behind its usage event, and is not marked
  `cost_unknown` (`proxy.go:233,256,261`; compare `PRD.md:243-244`). `partial` is
  the only sign of it;
- a document that breaks off is sent on and logged as a success with zero tokens
  (`proxy.go:129`, `190`); the command line client is not misled (`NoHalfMatch`);
- with CRLF framing no blank line is ever found: usage is lost and `pending` grows
  to the whole stream, so `BilledAsReported` and `BufferBounded` speak of LF
  framing only (`proxy.go:216-218` says "bounded");
- a stream whose last event lacks its blank line is billed without it;
- the error event of an interrupted stream (`PRD.md:159`) is written wherever the
  stream broke off, behind an unfinished line too (`proxy.go:259`);
- the tracker is said to be seeded from this month's sum (`budget.go:13-14`). Its
  month is UTC's, the query's is the session's (`budget.go:44`). Ahead of UTC a
  process that starts just after the turn counts the last hours of the month before,
  and one that starts in the last hours of a month forgets the rest of it; behind UTC
  the first hours of a month count the month before in full, and are left out from
  the session's own turn on;
- retention keeps thirty days, so on the thirty-first of a month a restart seeds
  the budgets without the rows of the first (`MonthKept` is exact about it). A row
  that is lost, or that commits only after the seed, is missed in the same way. In
  `Budget` each of these makes the seed `blind`, and `MonthlyCap` says what it costs:
  one cap at the most, each time.

## 6. Not modelled, and why

- `models.go`, `spa.go`, `config.go`, `db.go`: forwarding one call, serving
  embedded files, reading settings and opening a pool. No state between two
  calls, and nothing that another component waits for. `config.go`'s prices are
  `Exchange`'s constant `Prices`.
- `GET /admin/keys` and the detail handler: one query each, nothing written.
- The sums of the daily aggregate. Which rows it counts is modelled; adding up
  their columns is Postgres'.
- The dashboard's other pages: each shows the last answer of one request. The
  live feed's reconnect is the browser's `EventSource`; its other end is in `Hub`.
- `cmd/lamaran` before its call and the prompt it builds.
- Postgres beyond single statements: each is atomic, and one whose client gave up
  is executed at any later time or never.
- A skew between the clocks of the process and of Postgres, beyond the zone of the
  session.
- Overflow: tokens times price stays far below 2^63 for every real price and
  answer; integers are unbounded.
- Wording of errors, headers, JSON layout, logging.

## 7. Plan

1. done: `Budget`, `Hub`, `Store`, `Lifecycle` and the first theorems.
2. done: `Limiter` and `Access`, with their theorems.
3. done: `Exchange`, `Ledger` and `History`, with their theorems, and the theorems
   about `Hub` and `Lifecycle`, with both refinements.
4. open: one module that composes `Access`, `Budget`, `Exchange`, `Hub` and `Store`
   over the same requests. The parts meet in the Event alone, which no part reads
   back, so each is checked against every Event the others can make; what the
   composition would add is the order of the feed against that of the table,
   of which the code promises nothing.
5. done: `MonthlyCap`, `ForgetsOnce` and `SeededInFull` for every instance, with a
   session zone of its own, late rows and retention; `Exchange` as a `Passage`.
