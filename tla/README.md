# Verification of the market matching engine

TLA+ models of the exchange in `src/`, model-checked with TLC on small instances
and, where it matters most, proved with TLAPS for all instances. References are
to the repository's files; `PROJECT.json` maps every modelled definition to its
lines, lists the hazards of the code and the properties that watch them.

## 1. Inventory

| Part | Code | State | Operations | Talks to |
|---|---|---|---|---|
| Order model | `internal/models/models.go` | none | vocabulary of orders and trades | everything |
| Matching engine, one per symbol | `internal/engine/engine.go` | intake channel, pending stops, last price, retained tape, "am I stopping" | `Submit`, `SubmitBlocking`, `run`, `processOrder`, `handle`, `matchBuy/Sell`, `fill`, `takeTriggeredStops`, `CancelPendingStop`, `Stop` | owns the book's contents; calls the publisher and the observer from its goroutine |
| Order book, one per symbol | `internal/orderbook/orderbook.go` | two heaps, ID index, version counter | `AddOrder`, `Best*`, `PopBest*`, `CancelOrder`, `LiquidityAgainst`, `Depth`, `Snapshot` | called by the engine and by HTTP handlers, under a mutex |
| Exchange | `internal/exchange/exchange.go` | fixed map of venues | routing, `CancelOrder` over venues, `Drain`, `Stop`, `Marks`, totals | engines and books |
| HTTP handlers | `internal/api/handler.go` | none | `PlaceOrder`, `CancelOrder`, reads | log first, then engine; exchange first, then log |
| Accounts | `internal/accounts/accounts.go` | per trader: cash, positions, open orders, history | `OnOrderState`, `OnFill`, snapshots | observer of every engine |
| Write-ahead log, recovery | `internal/wal/wal.go`, `cmd/main.go` | a file | append, replay, open | handlers append; start-up replays into running engines |
| Event broker | `internal/stream/broker.go` | subscribers, their buffers, a sequence counter | `Subscribe`, `Publish`, `Close` | published to by every engine, read by SSE handlers |
| SSE stream | `internal/api/stream.go` | per connection: watermarks | snapshot on connect, events, conflated books | broker, books, engine metrics |
| Depth aggregation | `internal/orderbook/orderbook.go` | none | `Snapshot`, `Depth`, `collect`, `aggregate` | the heaps, under the book's mutex |
| Market data | `internal/marketdata/marketdata.go` | none | candles, rolling statistics | the tape |
| Stream store of the web client | `web/lib/stream.ts`, `api.ts` | one instrument's depth, tape and orders; event buffers; seeds in flight | connect, seed over REST, buffer events, flush every 100 ms | HTTP API, SSE; read by the panels |
| Order ticket | `web/components/OrderTicketPanel.tsx`, `web/lib/trader.ts` | the inputs, the state of a submission, reset timers, identity, tracked orders | edit, preset, load from the ladder, submit, answer, reset | the store's quote, the polled account, `POST /orders` |
| Ladder, depth curve, candle chart | `OrderBookPanel`, `MarketDepthPanel`, `CandleChart` | none | draw; a click loads the ticket | depth and last print from the store, candles from a poll |
| Other panels, polls, page | `TopBar`, `BottomTabs`, `StatusBar`, `RecentTradesPanel`, `hooks.ts`, `page.tsx` | what was last polled | draw, poll, wire | HTTP API, the store |
| Generator, simulator, logging | `generator.go`, `simulator.ts`, `logger.go` | none of interest | load, log lines | |

What makes each part correct, and what makes it hard:

* **Engine and book.** Price-time priority, maker pricing, an uncrossed book, no
  quantity created or lost, fill-or-kill atomic, cancels final, stops fired
  once and in time. Hard because an order is a *shared pointer*: the channel,
  the heaps, the index and the stops map all hold the same `*models.Order`, the
  matching goroutine mutates it without a lock, and DELETE handlers mutate it
  under locks the goroutine is not holding at that moment.
* **Exchange and handlers.** A request gets an answer, and the answer is true.
  Hard because the search (book, then stops) is not atomic with the order's
  own movement between those stores.
* **Accounts.** Each trade moves equal and opposite amounts; what is shown as
  open is open. Hard because cancels and fills report from different threads,
  and because a cancel in the book reports nothing.
* **Log and recovery.** What was acknowledged comes back, once, in the order it
  happened. Hard because of crashes between two steps, torn lines, and a replay
  that runs concurrently with the engines it feeds.
* **Broker, SSE, store.** A client converges to the truth, and what keeps it from
  that is known. Hard because events are dropped when a buffer is full, the
  connection breaks and is dialled again without a new seed, the seed is fetched
  independently and answered late, and the instrument changes meanwhile.
* **Book feed.** Books are resent only when one of two counters has moved, and the
  book is read after them. Hard because a fill in place moves neither counter
  and cancels happen between any two reads.
* **Depth, candles, statistics, panels.** Pure functions of a book or a tape, which
  other parts rely on: levels merged and cut, dead orders skipped, a binary
  search on time, candles of one moment drawn with a price of another.
* **Ticket.** What it sends is what the server takes, once. Hard because the inputs
  are changed by effects, presets and the ladder as well as by typing, and because
  a timer of one submission outlives it.

## 2. Plan

| Step | Module | Models | Composes | Status |
|---|---|---|---|---|
| 1 | `Orders` | order vocabulary and pure predicates | | done |
| 2 | `Engine` | one venue with all its threads | `Orders` | done |
| 3 | `Settlement` | what a venue promises traders | `Orders`; implemented by `Engine` | done |
| 4 | `EngineProofs` | invariants, priority, refinement; cancels, stops, the tape, fill-or-kill; until somebody cancels, the statuses, proved | `Engine`, `Sums` | done |
| 5 | `Recovery` | log, crash, torn tail, replay into a running engine | the engine reduced to what it has taken | done |
| 6 | `RecoveryProofs` | what a restart keeps, proved | `Recovery` | done |
| 7 | `Accounts` | registry fed by observer calls in any order the threads allow | the engine reduced to what it reports | done |
| 8 | `Feed` | prints and orders through broker, stream and store, with reloads, seeds, drops, cuts | | done |
| 9 | `MarketData`, `Panels` | depth, candles, statistics, ladder, curve and chart as pure functions | `Panels` on `MarketData` | done |
| 10 | `BookFeed` | a book under fills, pops and cancels, conflated to a browser | `Panels` | done |
| 11 | `Chart` | a growing tape, and what is computed and drawn of it | `Panels` | done |
| 12 | `Ticket` | inputs, effects, submissions, answers, timers | | done |
| 13 | `TicketProofs` | what the ticket sends, proved | `Ticket` | done |
| 14 | `AccountsProofs` | the working set follows the venue; the history forgets only its oldest; positions are what was filled; money is conserved; profits add up, proved | `Accounts`, `Sums` | done |
| 15 | `Sums` | what a sum over a finite set computes, and its ends, for the proofs | | done |
| 16 | `FeedProofs` | what the tape on display misses, and why | `Feed`, `Sums` | done |
| 17 | `ChartProofs` | the window's statistics, the candles and the chart's axis, proved for every tape | `Chart`, `Sums` | done |
| 18 | `BookFeedProofs` | ladder and depth plot agree with the engine's liquidity, proved for every book | `BookFeed`, `Sums` | done |

No invariant or action property of a passing run is left without a theorem; what
remains with TLC is liveness (section 6).

## 3. Modules and how they correspond to the code

**`Orders`.** `normalize`, `isValid`, `crosses`, `canRest`, `stopTriggered` are the
functions of those names in `engine.go`; `activated` is the rewriting at the end
of `takeTriggeredStops`; `Better` is the `Less` of both heaps. Prices and
quantities are naturals. The code compares prices and subtracts minima of
quantities, never adds prices, so only their order matters; 0 is "unset or not
positive", which is how the code itself tests them.

**`Engine`.** `order`, `rem` and `status` are the shared orders. `queue` is
`orderChan`; `book` the heaps and the index (which always hold the same orders);
`stops` the map; `batch` the slice `takeTriggeredStops` returned;
`lastPrice`, `trades` the fields of those names; `pc`, `cur`, `hit` the matching
goroutine's position and locals; `told` the last snapshot `publishOrder`
handed to stream and observer; `cpc`, `cid` the concurrent DELETE requests.
`counted` is a history variable: for each fill-or-kill order, the orders whose
quantity its check added up. It guards nothing.

Each action is what one thread does between two points where another thread can
matter. For the matching goroutine:

| Action | Code |
|---|---|
| `Dequeue`, `Exit` | the two arms of `run`'s select |
| `Reject`, `Park`/`MarkParked`/`TellParked`, `Kill`, `Enter` | `handle` up to matching; parking is three steps because the map is unlocked between them |
| `Sweep`, `Hit`, `Fill`, `TellFill`, `Pop` | one turn of `matchBuy`/`matchSell` with `fill`; the checks (`Hit`) and the fill are separate steps because nothing locks the order between them |
| `Finished`, `CancelRemainder`, `Rest`/`TellRest` | `handle` after matching |
| `TakeTriggered`, `HandleTriggered`, `Drained` | `processOrder` and `takeTriggeredStops` |

For a cancel request: `CancelInBook` or `CancelNotInBook` (one critical section of
the book), then `CancelPendingStop` or `CancelNotFound` (one of the stops map),
then `CancelMark` and `CancelTell`, which the code does after unlocking.

Abstractions, all of them:

* The heap array is left out; `Tops` is every order none is better than, so equal
  price *and* equal stamp is a nondeterministic choice. The code's heap picks one.
* `fill` writes both orders, the tape and `lastPrice` in one step. Nothing another
  thread does between those writes depends on them or changes them, except
  the status (next item).
* Statuses are two-word Go strings written by two threads with no common lock. A
  cancel that overlaps `applyFill` or the PENDING write may come first, come
  last, or leave a mixture, `"TORN"`, equal to no status. The comparison in
  `isDead` treats a mixture as live, and so does `Live`.
* `publishOrder` copies and then publishes. Where another write can come between
  the two, `told` gets the older or the newer status (`TellParked`, `CancelTell`).
* A submit that is refused (full channel) or that waits changes nothing and is not
  a step. Invalid, defaulted and oddly typed orders are submitted too: the HTTP
  handler filters and defaults them, the log replay in `cmd/main.go` and the
  engine's Go API do not.
* Trade IDs, timestamps of trades, symbols, trader IDs, counters and latency are
  left out. An order's own `Timestamp` is `stamp`: set before queueing, so not in
  queue order.
* One venue: venues share no state. A cancel visits one venue; visiting others
  that do not know the ID changes nothing.

**`Settlement`.** The abstract specification: orders are accepted with terms (side,
limit or none); from then on open quantity changes only when a trade is printed
between a buy and a sell that both have it open, at a price within both limits.
`Engine` implements it with `open <- rem`, `terms <- TermsOf(order)`, `last <-` the
newest print. It says that defaulting, parking, triggering, resting and
cancelling, in any interleaving, move no quantity and break no limit.

**`Recovery`.** `file` is the log: for each line, the record it parses to (or
`Garbage`) and whether it has its newline. `place` and `cancel` say where each POST
and DELETE request is; `after` remembers, for each order, which were acknowledged
before it was sent; `mode` and `at` are the start-up goroutine. `queue`, `taken`,
`book`, `stops` are the running engine.

| Action | Code |
|---|---|
| `Send`, `LogOrder`/`LogOrderFails`, `Submit`/`Refuse` | `PlaceOrder` in `handler.go`: validated and stamped; `AppendOrder`; 201, 503 |
| `Cancel`, `LogCancel`/`LogCancelFails` | `CancelOrder`: the exchange first, then `AppendCancel`, whose error is only logged |
| `Take` | the matching goroutine, in service and during replay |
| `Crash` | the process ends at any step; what was being appended may be there in part |
| `Restart`, `ReplayOrder`, `ReplayCancel`, `ReplayFails`, `ReplayDone` | `main.go`: `venue.Start`, the callback of `wal.Replay`, its error exit, and what follows it up to serving |

Its abstractions:

* An append is one step: the log's mutex covers write and sync. A failed or
  interrupted append leaves any prefix of its line: nothing, a part, the record
  without its newline, or all of it (`CutShort`). A record appended to a line that
  has no newline joins it (`Written`), as `O_APPEND` makes it.
* Matching is left out: an order the engine takes works until it is cancelled. That
  keeps what a restart must get right, the sequence of orders and cancels the
  engine sees; trades are a function of it (`wal.go:5-6` rests on the same).
  It does mean that "working" reads "working or traded" in the code.
* The channel does not survive, nor does anything but the log. A request that had no
  answer at the crash gets none.
* `Drain` gives up after ten seconds and its result is ignored, so serving may start
  before the replayed orders have been taken; the answer "not found" to a cancel
  changes nothing and is not a step.
* One venue; the log interleaves the venues' records, which share nothing else.

**`Accounts`.** `accounts` is the registry's map, an account for each tracked trader:
`cash`, `positions`, `open`, `history`. `ensure`, `OnOrderState`, `applyFill`,
`applyToPosition`, `OnFill` are operators from the map to the map, one for each
function of that name; `Snapshot` is what GET /account answers. Around it is a
venue that does no more than make the observer calls an engine can make:

| Action | Code |
|---|---|
| `Dequeue`, `Reject`, `Park`/`MarkParked`, `Trigger` | an engine takes an order and rejects or parks it, or activates a stop; a parked one is in the map, where a cancel finds it, before PENDING is written |
| `Trade`, `Pop`, `Done`, `Rest`, `CancelRemainder` | `fill`, the loop's removal of a dead top, the ends of `handle` |
| `Observe` | the next of the calls the step above queued in `calls`: both `OnOrderState`, then `OnFill` |
| `CancelInBook`, `CancelPendingStop`, `CancelTell` | a DELETE request: in the book it reports nothing, among the stops it reports after unlocking, with the status the order has by then |

Its abstractions:

* The registry's mutex makes each call one step; an engine's calls come in its order,
  and calls of other engines and of requests come in between.
* Any two orders of one symbol that face each other may trade, at any price of
  `Prices`; which orders an engine would match is `Engine`'s business. So are the
  races of a cancel with a fill, which the registry sees as the same calls.
* Average entries and profits are exact ratios where the code has `float64`:
  rounding is not modelled. A position that was never opened is a flat one.
* History entries and open orders are an ID and a status; the two reads that only
  sort and count (`Orders`, `TraderCount`) are left out.

**`Feed`.** One browser follows one instrument at a time. `stage` and `left` are a venue
reduced to an order that rests and is filled a unit at a time, with its prints
numbered; `link` and `ch` the subscription and its buffer; `effect` counts runs of
the connect effect, `seeds` are the seed requests in flight, of this run and of
earlier ones; `pending` the event buffers, `store` the React state.

| Action | Code |
|---|---|
| `Rest`, `Fill`, `Cancel` | an engine's step with what it publishes (`Publish`: what does not fit is dropped); a cancel publishes nothing |
| `Connect` | the connect effect of `stream.ts`: buffers and state reset, seed asked for, EventSource opened; what was connected before is closed |
| `Subscribe`, `Open`, `Forward` | `stream.go`: subscribe, then flush headers with the snapshot, then one event after the other |
| `SeedRead`, `SeedArrives`, `SeedFails` | the seed's requests served, answered or failed; `current` is the `cancelled` flag of the effect |
| `Flush` | the 100 ms timer: prints the tape lacks are appended and capped, orders applied |
| `Cut`, `GiveUp` | the connection breaks and EventSource dials again; or is answered something else than a stream and closes |

Its abstractions: `ch` holds the broker's buffer and the socket together; the two
requests of a seed are answered at one moment (the store keeps their answers
apart); the order that takes a unit is immediate, so its terminal event is left
out; sequence numbers, heartbeats and the count of drops, which the client does
nothing with, are left out. `gaps` is a history variable: what may have cost this
run of the effect a print, a "fault" (drop, cut, failed seed) or a "race" (see
finding 8). It guards nothing.

**`MarketData`** has `collect`, `aggregate`, `Depth`, `Candles`, `Search` (Go's
`sort.Search`), `Summarise`; **`Panels`** the ladder (`OrderBookPanel`, `Loaded`), the curve
(`stepPath`, `MarketDepthPanel`) and the chart (`Domain`, `Grid`, `Bar`, `Marker`). They
are operators, checked in the states of `BookFeed` and `Chart`. `collect` is any
sequence of the live orders, each once, that respects their priority (`Before`, the
comparison of its sort): equal ones may come either way. Prices are whole
numbers, in a unit in which a mid is whole (`BookFeedAssumption`); heights are exact
fractions, not pixels, except for the one pixel a candle's body is at least high (`Body`);
colours, labels and animation are left out. No property speaks of the
code's divisions, of `change_percent` or of `covered_seconds`.

**`BookFeed`.** `stage`, `left` and `stamp` are the orders of one book, `version` and
`matched` the two counters the ticker watches, `busy` that the matching loop is
inside an order; `watermark` and `tick` the goroutine that serves the stream;
`pending` and `depth` the browser.

| Action | Code |
|---|---|
| `Begin`, `AddOrder`, `Fill`, `Pop`, `End` | one incoming order, by what it does to the book; only `AddOrder` and `Pop` move `version`, only `End` moves `matched` |
| `CancelOrder` | a DELETE request, in the middle of anything, for any order not popped yet: one filled already or cancelled already moves `version` too |
| `writeSnapshot`, `ReadMetrics`, `ReadVersion`, `writeBook` | the stream's first write, and a book tick, whose three reads are three steps |
| `Cut`, `Flush` | the connection breaks and is dialled again; the browser's timer |

What is sent is the collected orders, which determine the aggregated depth
(`Shown`); levels are compared where the panels are checked. Asks and bids that would cross do
not occur: which orders match is `Engine`'s business.

**`Chart`.** `tape` grows by `recordTrade`, trimmed at `MaxHistory`, while `now` ticks. What
is computed and drawn of it is checked in every state, for every interval,
window and limit, and for candles and live price of any two moments.

**`Ticket`.** `ticket` is the form's state, `state` the submission's, `posts` the requests
in flight, `timers` the reset timers not fired, `placed` the orders that exist, `Kept` those
the browser's storage has of an earlier visit, `symbol` whether the page has an instrument yet.
`serverAccepts` is what `PlaceOrder` checks.

| Action | Code |
|---|---|
| `setSide`, `setOrderType`, `setTif`, `setPrice`, `setStopPrice`, `setSize`, `preset`, `ladder` | the inputs, where they are shown and enabled; each ends with the two effects that seed a price and replace GTC on a market order (`Effects`) |
| `Symbols`, `Quote`, `AccountArrives`, `Hydrate`, `Regenerate` | what the page passes in: instrument, book, account, identity and tracked orders; nothing is submitted before there is an instrument and an identity |
| `handleSubmit` | the button: the browser's own checks (`nativelyValid`), `validate`, the request |
| `PlaceOrder`, `onSubmitted`, `fail` | the server takes or refuses; the answer is good, bad or lost |
| `resetTimer` | the timer of a good answer, which nothing clears |

Its abstractions: an input holds a number, nothing, or `1e1`, which a number input
takes and `parseInt` reads as 1; prices have no decimals. The account's cash is
fixed. `early` is a history variable.

Operators called `Name_<what goes wrong>` are versions of `Name` with a plausible bug;
they are used only to check that a property can fail (`mutants` in `PROJECT.json`).

## 4. Runs

`MCEngine` gives `Offers`: for each order ID, the requests a client may send.

| Run | Instance | Shows |
|---|---|---|
| `engine` | 5 orders, stops among them, 1 cancel, channel of 2, tape of 3, fairness, about 1.1 million states | types; one place for each order; only restable orders rest; the book is never crossed; the tape accounts for every quantity; a fill-or-kill order misses only what cancels withdrew; stores, statuses and reports agree between orders until somebody cancels; no stop left behind; price-time priority; cascades end; `Settlement` is implemented |
| `engine_answer` | 3 orders, 1 cancel, shutdown, fairness | a cancel outside a fill, or of a stop in the map, is final; an accepted order is reported unless the engine stops first |
| `lost_cancel` | as `engine` | violated: a cancelled order in the book is "skipped" (finding 1) |
| `recovery` | an order and a stop, channel of 1, failing writes, 3 crashes, fairness, about 32 thousand states | acknowledged orders come back, once, and in the order of their acknowledgements; replay ends |
| `accounts` | 5 orders (one a stop, one invalid) of 3 traders, 2 engines, room for 2 accounts, history of 1, about 410 thousand states | types and caps; a valuation at any mark adds up; no money or shares are made or lost; a position is what its trader's orders filled; the working set follows the venue; only the oldest of a full history is forgotten |
| `feed` | 2 instruments with 3 prints and 1, buffer of 2, tape of 2, 2 runs of the effect, 1 cut, fairness, about 980 thousand states | nothing of another instrument shows; no print shows twice; a print is missing or misplaced only for a recorded cause; without one, the tape catches up |
| `lost_print` | as `feed` | violated: the seed and the stream together lose no print (finding 8) |
| `book` | a bid and an ask, 2 incoming orders, 1 cut, fairness, about 750 thousand states | the book on display becomes the venue's and stays so |
| `panels` | every book 6 orders and 2 incoming ones can make; 2 levels streamed, 1 on the ladder, about 1.7 million states | the ladder, what a click on it loads, the corners of the depth plot and its heights between asks agree with the engine's own count of liquidity |
| `bid_curve` | as `panels` | violated: the curve's height between two levels is the liquidity there (finding 9) |
| `market` | 4 prints at 3 prices over 5 moments, tape of 3 | candles partition the tape; the chart holds a live price its candles lack; the statistics are the window's |
| `ticket` | 3 submissions, 2 identities, 1 order of an earlier visit, books with one side, both, or unknown, about 3.2 million states | what is sent passes the server's checks; one request at a time; no stuck ticket |

Bounds, and why they are enough. Three price levels on each side of a two-level
market give better, equal and worse prices; quantities 1 to 3 give partial fills
of maker and taker, exact fills and sweeps over two makers; five orders
give a resting pair, an aggressor and a cascade of two stops. `QueueCap` 2 or 3
lets the channel be full. `MaxTrades` 3 (the code: 10000) makes the fourth print trim the
tape; `TapeReconciles` speaks of tapes that have dropped nothing, so of up to two prints,
and the other properties of all. One cancel, at any step, meets every position of
the loop; two would only take turns in the critical sections of the book and of the
stops map, and the proofs below are for any number of them. In `Recovery`, two orders and a
channel of one give a full channel, a refusal, and a log longer than the channel;
three crashes give a torn line, an append that joins it, and a start that meets
the result, each with a further crash during replay; the inductive invariant was
also checked with three orders and two crashes. In `Accounts`, quantities 1, 2 and 3 at
two prices open, add to, reduce, close and flip a position; the stop buys what is
left, its owner's own resting order included (a trade with oneself); the third
trader, on the other engine, and the two accounts decide in a race who is tracked;
`MaxHistory` 1 (the code: 200) makes the second finished order push out the first.
In `Feed`, three prints overflow both the buffer (the code: 256) and the tape (the code:
400); two runs of the effect are a change of instrument or a reload, each with a
seed of the run before still in flight. In `BookFeed`, two bids share a level, one of
two units (filled in place), there are prices between the levels for the curve to be
tried at, and the ladder and the stream show fewer levels than there are. `MaxVersion` bounds how
often an order already cancelled is cancelled again: such a cancel changes nothing but
the counter, and one or two of them, between the ticker's reads, are all that can
matter to it. One cut gives a second connection with its own watermark. In `Chart`, a
tape of three trims once, steps 1 to 3 give candles of one print, of several and
with gaps between them. In `Ticket`, three submissions give an early timer and a
request after it; the one order in `Kept`, with a cap of one tracked order, makes the cap
bite on what was restored; the numbers 0 and 1 are below and at the inputs' minimum.
Every order and every cancel is
used at most once, so the models stop: deadlock is not checked, and the liveness properties say what
must have happened by then.

Fairness. `Engine`'s `FairSpec` assumes weak fairness of the matching goroutine, which is
always runnable unless its channel is empty, and of each cancel request once it
has started: Go schedules runnable goroutines, the critical sections are finite,
and neither ever holds a lock while waiting for the other. Nothing is assumed of
clients. Weak fairness of the whole loop does not make `select` fair, so an
accepted order may be dropped at shutdown, as `AcceptedIsReported` allows.
`Recovery`'s `FairSpec` assumes it of the matching goroutine and of the goroutine
that replays, not of requests, of crashes or of a restart. `Feed`'s assumes it of the
server (accepting a connection, opening the stream, forwarding) and of the
browser's interval timer, not of venues, of seeds or of the user; `BookFeed`'s of the
end of an order the matching loop is in and of its pops, of the stream's ticker and
of the browser's timer, not of new orders or cancels. The
goroutines are runnable, the tickers are never stopped while the connection lives,
and the network may break the connection only as often as the bound allows.

## 5. Findings

Each is a property that says what a comment or the README says, and that the code violates.
Three are runs of their own: `lost_cancel` (1), `lost_print` (8) and `bid_curve` (9), for which
`PROJECT.json` quotes the words. The others end the same way when the property is added to the
configuration named; their definitions close the modules.

1. **A cancel can be lost.** `matchBuy` checks `isDead(best)` and calls `fill`; a cancel
   acknowledged in between neither stops the fill nor survives it, for
   `applyFill` overwrites the status (`engine.go:512-518`, `638-645`). What *does* hold is
   `CancelIsFinal`: a cancel at any moment when the loop has not already decided to
   fill that order. `CancelledIsSkipped`, in `lost_cancel`.
2. **Fill-or-kill can fill partly** if a counted order is cancelled after
   `LiquidityAgainst` returns (`engine.go:456-473`), against `models.go:41`. What *does*
   hold, cancels or not, is `FokAllOrNothing`: what such an order misses is at most what
   acknowledged cancels withdrew from the orders its check counted. `FokNeverPartial`, with
   `engine.cfg`.
3. **A stop cancelled while being parked ends PENDING** and is in no store
   (`engine.go:445-450`). It is reported PENDING and will never fire.
   `PendingAwaitsTrigger`, with `engine.cfg`; `models.go:5-6` says that such stops "sit off-book,
   invisible to the order book, until their trigger price is crossed".
4. **An order refused with 503 runs after a restart:** it was logged before it was
   refused (`handler.go:328-341`), so a client that retries as the README says to
   has two orders. `RefusedNeverRuns`, with `recovery.cfg`; the README says the request "is safe to
   retry" (`README.md:314-315`).
5. **A restart can undo a cancel:** replay cancels in the book as soon as it reads the
   record (`main.go:132`), when the order may still be in the channel, and never
   among the pending stops. `CancelSurvives`, with `recovery.cfg`; `wal.go:5-6` says that replay
   "reconstructs the book — and the trades it produced — exactly".
6. **A torn line makes the log unreadable one restart later:** the recovered process
   appends to it (`wal.go:61`), and the joined line ends and does not parse, which
   `Replay` refuses. The acknowledged record that joined it is lost with it; what
   *does* hold is `AckedIsWorking`: no server ever serves without it, since none
   starts. `LogStaysReadable`, with `recovery.cfg`; `wal.go:130-131` says that such a line "is
   tolerated and skipped".
7. **An order cancelled in the book is shown open for ever:** `CancelOrder` marks it
   (`orderbook.go:174`) and reports nothing, and neither does the loop that later
   drops it, so the registry keeps it in the working set. A stop cancelled before
   its PENDING report is out ends there too. What *does* hold is
   `OpenMatchesVenue`, which speaks of orders nobody tried to cancel. `OpenIsWorking`,
   with `accounts.cfg`; `accounts.go:62` says that the snapshot "separates a trader's working
   orders from their finished ones".
8. **A print can be lost between the seed and the stream.** The seed's answer replaces
   the tape (`stream.ts:157`), whatever the stream has delivered since the seed was
   read; and a seed read before the server has subscribed the stream misses what is
   printed in between. Deduplication by ID (`stream.ts:94-95`) covers only prints
   that come after the answer. The print is missing until the page connects anew. What
   *does* hold is `GapsAreKnown`: apart from these two, and a late seed that is a whole
   tape ahead, only a full buffer, a broken connection or a failed seed costs a print.
   `NoPrintLost`, in `lost_print`.
9. **The depth curve shows bids too deep.** `stepPath` (`MarketDepthPanel.tsx:21-41`) draws
   from the lowest price up and holds each level's depth across to the next. Asks
   accumulate in that direction, bids in the other: between two bids the curve shows the
   lower one's quantity too, which a seller at that price would not find. What
   *does* hold is `PlotMarksDepth`: the corners, and all of the asks. `CurveIsDepth`, in
   `bid_curve`.

Not findings, but worth knowing. Stops are compared with the last price only, after
a whole order or batch (`engine.go:320-332`), so a price that reaches a trigger and
comes back within one sweep fires nothing. `models.go:27-29` can be read either way;
`NoStopLeftTriggered` states what the code does promise.
A reset timer that fires during a later submission enables the button while a
request is in flight (`OrderTicketPanel.tsx:223`), so a double click can place two orders.
No comment says that it cannot; `OneAtATime` says that this is the only way to it. An answer that is lost after the server took the order shows as an error,
and a second try is a second order. The clock of `Chart` never goes back: what candles and
statistics are when the wall clock does is not covered. `README.md:614-615` says the terminal lets a trader rename itself;
the page only generates a new name. An order event is published on every change
of state except the cancel of a resting order.

## 6. Proofs

`EngineProofs` proves, for any set of orders, offers, cancels and any capacities:

| Theorem | States |
|---|---|
| `Invariance` | `Spec => []Inv` |
| `TypeCorrect` | `Spec => []TypeOK` |
| `EveryOrderInOnePlace` | `Spec => []OnePlace` |
| `BookIsRestable` | `Spec => []BookHoldsRestable` |
| `BookIsNeverCrossed` | `Spec => []BookNeverCrossed` |
| `MakerHasPriority` | `Spec => PriceTimePriority` |
| `VenueSettles` | `Spec => Settles`, the refinement |

The only assumption is `EngineAssumption`: offers are requests, capacities are
positive, `None` is not an order ID.

The inductive invariant `Inv` and why each part is there:

* `TypeOK`: quantities are naturals. That `rem` never goes below 0 needs that
  `FillQty` is the minimum of the two.
* `Control`: what the goroutine's position implies of its locals. Once it has
  chosen `hit`, that order is on the other side, at the top, and crosses, and
  *stays so* whatever cancels happen, because only the goroutine adds or removes
  orders and nobody changes a resting order's price. This is the fact that makes
  the unlocked fill respect priority and limits.
* `Known`: orders in a store, in hand or named by a cancel exist; so `Submit`, which
  needs an unused ID, touches none of them.
* `OnePlace`: the stores are disjoint; so a step that rewrites one order (defaulting,
  triggering) leaves all resting orders alone.
* `BookHoldsRestable`: resting orders have a price; needed for priority and crossing.
* `NeverCrossed`: `BookNeverCrossed` is not inductive, because `Fill` can bring a
  cancelled order back (finding 1), and so can a torn write. `Alive` therefore
  counts the order being filled as live whatever its status. With that, no step
  but `Rest` makes an order alive (`NoneRevived`), and `Rest` happens only when
  nothing alive is left to cross (`NothingLeftToCross`).
* `StopsAreStops`: what is triggered was parked, so its terms do not change
  (`TermsFixed`), which the refinement needs.

The refinement goes step by step: `Submit` maps to `Accept`, `Fill` to `Settle`
(`FillSettles`), every other step to a stutter (`SettlingFrame`).

`RecoveryProofs` proves, for any set of orders and stops, any channel and any number
of crashes, with or without a failing disk:

| Theorem | States |
|---|---|
| `Invariance` | `Spec => []Inv` |
| `TypeCorrect` | `Spec => []TypeOK` |
| `AckedSurvives` | `Spec => []AckedIsWorking` |
| `NoOrderTwice` | `Spec => []ExactlyOnce` |
| `OrderSurvives` | `Spec => []AckOrderKept` |

from `RecoveryAssumption` (stops are orders, the channel has a place, `Garbage` is no
record). Two lemmas carry the argument. `LogGrows`: whatever a step does to the
log, lines that have their newline stay, and what is new is one record of a
request that was writing, or does not parse. `SeenSteps`: the sequence of orders
put to the engine (`Seen`, those taken and then those queued) stays, ends with a
crash, or gets one more order. The parts of the invariant:

* `UnendedIsLast`, `OneLineEach`: so a torn line is the last, and an order that replay
  reads was not read before.
* `AckedIsOnDisk`: an order past its append has a line that stays, *or one that will
  not parse and so keeps the process from starting* (finding 6); without the second
  half it is false.
* `DiskOrder`: what was acknowledged before an order was sent is ahead of it in the log.
* `ReplayedSoFar`: what the replaying process has put to the engine is what it has
  read. With the three above it gives `AckedIsSeen` when serving starts, and
  `ExactlyOnce` and `AckOrderKept` at each replayed order.
* `InFlight`, `SeenWereLogged`, `CancelsWereAsked`, `TakenIsWorking`: requests end with
  the process; nothing joins `Seen` before it is logged; no cancel is replayed that
  nobody asked for.

`TicketProofs` proves, for any texts, quotes, accounts and presets and any number of
submissions, from `TicketAssumption` alone:

| Theorem | States |
|---|---|
| `Invariance` | `Spec => []Inv` |
| `TicketMirrorsServer` | `Spec => []SentPassesServer` |
| `SubmitsOneAtATime` | `Spec => []OneAtATime` |
| `TicketIsNotWedged` | `Spec => []WorkingIsInFlight` |
| `TypeCorrect` | `Spec => []TypeOK` |

`Sound` (the form's fields are in their ranges and no market order is GTC) is kept by
every edit because every edit ends with the effects (`EffectsSound`); with it, what
`validate` lets through is what the server accepts (`MirrorsServer`). `Alone` is the
strengthening `OneAtATime` needs: until a timer has fired early, either nothing is in
flight or one request is and the state says "submitting", so the button is disabled.
`TypeCorrect` says what the inputs may hold and that an order is tracked once, which for those
of an earlier visit is an assumption: that storage has each once, within the cap, and that the
server gives no ID twice (`TicketAssumption`). The first
rests on the presets, which divide the cash by a price: `PresetType` shows that price is
never 0, from what was typed being tested and from the prices of a book being positive
(an assumption here, `BookHoldsRestable` of the engine).

`AccountsProofs` proves, for any orders, traders and symbols, any caps, and any
interleaving of the engines' reports with cancels, from `AccountsAssumption` alone:

| Theorem | States |
|---|---|
| `Invariance` | `Spec => [](Inv /\ Parked)` |
| `OpenFollowsVenue` | `Spec => []OpenMatchesVenue` |
| `OnlyOldestForgotten` | `Spec => NoOrderForgotten` |

`OpenMatchesVenue` speaks of the moments when nothing is on its way, so the invariant
says what holds in between: `Shown`, that what the registry shows of an order is right
*or* a report that will make it right is on its way (or its trader is untracked for
good: nobody, or turned away at the cap, which is never lowered again). It rests on
two more parts: `CallsTrue`, that no report under way contradicts where its order is
by now (it is neither terminal for an order still working nor open for one that has
ended), and `StatusTrue`, the same of the status the report may pick up
instead. `Parked` says that an order not marked PENDING yet has its report still queued. Each registry call is summed up in a lemma (`EnsureGrows`, `OnFillGrows`,
`ReportReports`, `FinishedKeeps`): a fill moves no order, a report moves its own only,
and the trim drops nothing but the first entry of a full history.

The second half of `EngineProofs` goes on from there with cancels, stops, the tape,
fill-or-kill, and the statuses until somebody cancels:

| Theorem | States |
|---|---|
| `StopsAreDrained` | `Spec => []NoStopLeftTriggered` |
| `CancelledIsGone` | `Spec => []CancelsHold` |
| `CancelsAreFinal` | `Spec => CancelIsFinal`, an action property |
| `TapeIsExact` | `Spec => []TapeReconciles` |
| `VenueIsOrderly` | `Spec => [](Uncancelled => Orderly)` |
| `EveryOrderSettled` | `Spec => []Settled` |
| `FillOrKill` | `Spec => []FokAllOrNothing` |

* `CancelIsFinal` speaks of one step; that it holds of every later one is
  `CancelsHold`: an order that reads cancelled is `Gone` (in no store a taker comes
  from, in nobody's hands, skipped if still in the book) unless it is the maker about
  to be filled, the exception of finding 1. `GoneStays` and `CancelLeavesGone` are its
  two halves. A stop taken out of the map is gone before it is marked, which is why
  the window between the two writes does no harm.
* `TapeReconciles` compares what an order lost with a sum over the tape. The sum
  grows by one term with each print (`OnePrintMore`), which is the only step that
  takes anything off an order; `UnsentIsBlank` starts it.
* `Settled` speaks of a venue in which nobody has cancelled yet; from the first cancel on
  it is false, by findings 1 and 7. A step that ends uncancelled began so and was no
  cancel's (`UncancelledBefore`). `Orderly` is its inductive invariant: every order is
  where its status says (`InItsPlace`), with what may differ of the one in hand and the
  one just hit spelled out by program counter (`InHand`, `JustHit`).
* `FokAllOrNothing` has no such condition. `FokInv` carries the check of a fill-or-kill
  order through the loop while cancels come in (`Covered`): what it still wants is no
  more than what is left of the orders its check counted, those are all it can trade
  with, and each of them is in the book to be traded with, exhausted, or withdrawn by a
  cancel that was acknowledged (`StillCounted`). `EnterCovers` is the check; a fill takes as much off the
  order as off what was counted (`FillTakesBoth`); an order leaves the book only exhausted
  or withdrawn (`LeavesForAReason`); and when the loop ends with nobody left
  (`NobodyLeft`), what is missing was withdrawn (`ShortOfLost`). From then on what was
  withdrawn, and out of the book, only stays or grows (`LostGrows`).

The second half of `AccountsProofs` is about what an account is worth. `AccountsAssumption`
says that there are finitely many orders, since positions are sums over them:

| Theorem | States |
|---|---|
| `LedgerHolds` | `Spec => []LedgerInv` |
| `PositionsAreOrders` | `Spec => []PositionsMatchOrders` |
| `MoneyIsConserved` | `Spec => []ZeroSum` |
| `TypedHolds` | `Spec => []TypedInv` |
| `TypeCorrect` | `Spec => []TypeOK` |
| `ProfitAddsUp` | `Spec => []PnLAddsUp` |

A fill is two half fills, one per order, so the argument is about one half
(`Ledger`): it moves the cash and position of one trader by what is booked of one
order, or nothing for a trader who will never be tracked. A self-trade is then two
halves like any other. `PositionsMatchOrders` is about what is still unbooked in the
queues of calls as well; the lemmas on those sums say that taking a call off the
queue is what booking it adds. `TypeCorrect` needs the venue: an average entry is a
quotient by the size of the position it leaves, and it is a number only because the
engine never reports a fill of nothing (`FillCall`, `PositionType`); and the cap on
accounts holds because the check and the insertion are one call (`EnsureTyped`).

`ProfitAddsUp` compares sums of products and quotients of an account's cash, entries,
profits and holdings, so it needs the arithmetic of ratios: `Ratio` gives every fraction
one form (`RatioSame`: equal cross products, equal ratios), and sum, product and quotient
are those of the fractions (`PlusRatios`, `TimesRatio`, `OverRatio`), from which
follow the laws of a commutative group (`Closed`, `PlusLaws`). `Total`, a fold, is
opened as `Sums` opens its own. The inductive part is `BooksOK`: what an account gained in
cash is, over the symbols it may hold, the sum of what each position realized less what
its holding was bought for (`Basis`). One half fill keeps it (`FillBooks`), because a
position's earnings move by the fill's cash whether it opens, adds, reduces, closes or
flips (`FillEarns`).

`FeedProofs` proves, for any instruments, buffers, caps, reloads and cuts, from
`FeedAssumption`:

| Theorem | States |
|---|---|
| `FeedHolds` | `Spec => []Inv` |
| `TypeCorrect` | `Spec => []TypeOK` |
| `OneAtATime` | `Spec => []OneSymbol` |
| `NoDoubles` | `Spec => []PrintsOnce` |
| `FeedFollows` | `Spec => []Faithful` |
| `GapsHaveCauses` | `Spec => []GapsAreKnown` |

`Inv` says of which instrument, in which order and how often each print is in the
channel, the buffers, the tape and the seeds on their way. `Faithful` says how these
pieces join while `gaps` is empty: the prints in the buffers are a stretch of the
venue's, those in the channel begin where it ends and go on to the venue's latest, and
the tape reaches where the buffers begin. What the tape itself must be depends on the
seed. While one is on its way (`WithSeed`) it is what was streamed since some moment, and
the answer has all that was printed before that moment; once it is in
(`Seeded`) it is the venue's tape as of some moment, which may reach into the buffers:
that overlap is what the merge leaves out. Both invariants were checked with TLC on the instance of
run `feed` before they were proved. The merge of the store keeps what it has not seen
(`Unseen`, a fold over the batch); `FeedProofs` shows what that fold selects.

`Sums` is about the library, not the venue: it proves what `SumFunctionOnSet` (a fold,
defined by recursion over finite sets) computes. The library's induction theorems take
an operator as a parameter and cannot be used here; instead a family of counterexamples
is given as a set, and a smallest member of it refuted (`Smallest`,
`SubsetInduction`). `SumTakesOut` (any term may be taken out), `SumLooksAt` (only the
terms matter) and `SumAdds` follow, and the fold in `Unseen` is opened the same way.

It has the ends of a finite set of integers as well (`HasEnds`, `EndsAre`), proved the
same way.

`ChartProofs` proves, for any prices and quantities, intervals, windows, limits, and any
capacity of the tape, from `ChartAssumption`:

| Theorem | States |
|---|---|
| `TapeHolds` | `Spec => []TapeInv` |
| `HeaderHolds` | `Spec => []HeaderIsTheWindow` |
| `CandlesHold` | `Spec => []CandlesPartitionTape` |
| `ChartHolds` | `Spec => []ChartHoldsTheLivePrice` |

The inductive part is small: the tape's times never go back (`TapeInv`), which the
search and the candles rely on and trimming keeps. The rest is about pure functions of
such a tape:

* `SearchFinds`: for a test that is false and then true, the halving finds where it
  changes, whatever is in between (`Clamp`). So what `InWindow` cuts off is what is older
  than the window (`WindowIs`), and sums over the rest are sums over those places of the
  tape (`SumShifts`).
* `CandlesPartition`: `Candles` is a fold, so it is opened (`CandlesAreBuilt`), and an
  invariant over the prefixes of the tape is carried along: the candles so far partition
  the prints so far (`Partition`). One more print leaves all candles but the last alone
  (`CandleStays`), and opens one (`CandleOpens`) or extends the last (`CandleExtends`); which
  of the two, and that the last is the only candidate, follows from `TapeInv`.
* `ChartIs`: on an axis that goes beyond the prices by a part of their span, which is never
  zero (`Axis`), heights are inside it and keep the order of prices (`Heights`). A body hangs from
  its upper price down to its lower, or by a pixel, for which the axis leaves room below the
  lowest price (`BodyStands`, `BodyIs`). Candles and
  live price may each be of any earlier tape (`EarlierTape`).

`BookFeedProofs` proves, for any orders, any number of incoming ones, of cancels and of
cuts, and any limits of stream and ladder, from `BookFeedAssumption` and
`PanelsAssumption`:

| Theorem | States |
|---|---|
| `TypeHolds` | `Spec => []Inv` |
| `TypeCorrect` | `Spec => []TypeOK` |
| `LadderHolds` | `Spec => []LevelLoadsItsTotal` |
| `PlotHolds` | `Spec => []PlotMarksDepth` |

`Inv` adds to `TypeOK` that an order that is new or rests has something left and that the
counter of matches has room while the loop is inside an order; with the first, what a
snapshot holds is never an order of nothing. The other two go from the heaps to what is
drawn:

* `CollectRanks`: a finite set of live orders can be put in order of priority (`CanBeQueued`,
  the last one last), so `collect` has a value, and it is such a queue.
* `StackHolds`: an invariant over the prefixes of that queue (`Stack`) says that the levels so
  far have the prices of the orders so far, each once, best first, and down to each of them
  the depth of those orders. `StackGrows` is one turn of the loop in `aggregate`; the limit
  then keeps the first levels.
* `AggregateLevels` (`Levelled`): hence a level's cumulative quantity is the engine's
  `LiquidityAgainst` at its price, though one merges a sorted queue and the other adds up a
  heap in any order. `RowsAre` and `LadderLoads` follow a level through the panel and a click.
* `CurveIsDrawn`: `stepPath` is opened as `Candles` is, and its corners named (`Drawn`); so every level has its corner (`EveryLevelIsMarked`).
  `HeightIs`: one edge, and no other, spans a price between two asks, so the height there is
  that of the nearer one; `BetweenAsks` says that no order rests in between. `MidDivides` needs
  whole mids and an uncrossed book, both in `BookFeedAssumption`; `PlotIs` has the ends.

Left to TLC: all liveness (`AcceptedIsReported`, `CascadeEnds`, `ReplayEnds`, `TapeCatchesUp`,
`DepthCatchesUp`), which is beyond the prover, and the three runs that expect a violation.
Every invariant and every action property the passing runs check is a theorem above.

## 7. Not modelled

The other panels (`TopBar`, `SymbolDropdown`, `BottomTabs`, `StatusBar`,
`RecentTradesPanel`, `RollingNumber`) and `web/lib/book.ts` draw what polls and the store
hold; `BottomTabs` also sends the DELETE requests whose effect `Engine` and `Accounts`
model. Logging, both load generators, flags, CORS and JSON are left out: no state the venue depends on. Of recovery, records whose symbol is
no longer hosted and records without an order, which replay skips, are left out,
and so is a log whose disk loses data it has reported as synced. Floating-point arithmetic is left
out of `Engine` because matching only compares prices.
