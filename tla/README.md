# A formal model of the matching engine

TLA+ modules, TLC runs and machine-checked proofs about the programs in this
repository: a matching engine (a limit order book with an append-only journal and
replay, a WebSocket server in front of it, a background order generator and a
small web page), a bridge from WebSocket clients to Aeron, and a program that
tries out the replay of an Aeron archive. Paths below are relative to the repository
(`src/orderbook.rs` is the Rust file of that name).

## 1. The system

### Inventory

| Part | State it keeps | Operations | What makes it correct |
|---|---|---|---|
| Order book, `src/orderbook.rs` | two maps price → queue of orders, an index id → (side, price), a trade counter | `submit`, `cancel`, `snapshot` | price-time priority, never crossed, index and levels agree, quantity conserved, fill-or-kill is all or nothing, `submit` returns |
| Engine, `src/engine.rs` | the live book, the journal, the trade log, the id counter | `next_id`, `submit`, `cancel`, `snapshot` | the journal holds each order as it was submitted; the trade log is complete |
| Replay, `src/engine.rs` | none (reads the journal) | `replay_to`, `validate` | a replay to time T is the book as it stood at T; what it returns is structurally valid |
| Demo history, `src/demo.rs` | none | `seed`: 24 orders stamped over the last five minutes | each moves the replay slider |
| Server, `src/ws.rs` | `Mutex<Engine>`, a broadcast channel of 1024 messages, two atomics (streaming, interval); per connection a sending and a receiving task | connect, greet, eight client messages, disconnect | no client misses a change; the lock is not lost; pages agree; commands are served |
| Generator, `src/generator.rs` | its sleep interval, a random walk | loop: read the interval, sleep, check the flag, submit one order | at most one order after a stop; a new interval takes effect |
| Page, `frontend/app.js` | the book, the streaming tag, the replay panel: slider, picker, result | connect (and reconnect after 1.5 s), render, send commands, choose a time to replay | shows the live book; the slider reaches what was journaled |
| Start-up, `src/main.rs` | – | start the generator, serve `/ws` and the static files | – |
| Aeron bridge, `src/bridge.rs` | an id counter, a command channel, one publisher thread, four atomics (streaming, interval, sent, errors), a broadcast channel | five client messages; in the thread: an order, a prefill of 100 to 400 orders, the stream | no order lost or doubled; acknowledgements, counters and wire agree; commands are served whatever Aeron does |
| Aeron publisher, `src/publisher.rs` | a sequence number | conversion to ticks, publish with retries | gives up after exactly 1000 retries; gaps in the sequence are the failed orders; rounding keeps orders on their side |
| Archive replay program, `src/replay.rs` | – | publish a million messages, find the recording, replay, compare | the verdict is right; it ends |
| `src/schema.rs`, `src/subscriber.rs`, `scripts/` | – | a wire struct, an empty file, start and kill an external archive | – |

### How the parts interact

Every client message is handled in the connection's `recv_task`. A message that
concerns the engine locks `Mutex<Engine>` (an async, first-come-first-served
mutex), operates, takes a snapshot, **unlocks**, and then broadcasts its
messages one by one on the shared channel; even replies meant for one client go
to all. A connection's `send_task` forwards what it receives from the channel to
the socket. The generator is one more task that takes the same path as a
`submit_order`. `start_stream` and `stop_stream` only touch the atomics and
broadcast the new status.

The bridge has the same shape without an engine: handlers put commands into a
channel, one thread takes them out, publishes orders and broadcasts an
acknowledgement for each; clients switch the stream through atomics, which the
thread looks at after each command or after 20 ms without one. `main.rs` does not
compile it in. The archive replay program is a separate binary; it shares nothing
with the rest.

So within an operation the book is accessed sequentially, and the concurrency is
between unlocking and broadcasting, in the queue for the lock, in the channel,
and wherever a task may be aborted (its awaits). Time matters too: events are
stamped with the wall clock under the lock, except the demo's, which are stamped
in the past, and replay goes by timestamps.

### What is hard to test here

The list with line numbers is under `hazards` in `PROJECT.json`. In short:

* replay order against arrival order (late demo, clock set back, equal timestamps);
* the index and the maps, updated in separate places; loops that must make progress;
* the fill-or-kill check against the matching loops; the 1e-9 tolerance; quantities
  nobody validates;
* broadcasts after the unlock: overtaking snapshots, overtaking statuses;
* subscribing, greeting, falling behind (`Lagged`), aborting at an await;
* the greeting sent with the lock held; fairness of the lock's queue;
* one order after `stop_stream`; a stale interval;
* the bridge: identifiers taken before the channel and inside the thread; a panic of
  the one thread in any place; statistics put together from several loads; retries that
  hold up everybody; ticks that are not the prices acknowledged;
* the archive: offers that fail for good, a recording not yet or never complete, older
  recordings, silence;
* the page: spans that are older than the journal, picked times without milliseconds
  and, when daylight saving time ends, shown twice.

## 2. Modules

```
Orders ── OrderBook ── Engine ─── Demo ── MCDemo
   │         │            ├────── MCEngine
   │         │            └────── Engine_proofs
   │         ├──── Matching ───── MCMatching
   │         │        └────────── Matching_proofs
   │         └──── OrderBook_proofs     (extends PriceTimeRules too; extended by
   │                                     Engine_proofs and Matching_proofs)
   └── PriceTimeRules ── PriceTimeBook  (implemented by Engine and by Matching)

Ingress ── Bridge ── BridgeInvariant ── MCBridge
                            └────────── Bridge_proofs

Server ── MCServer               ArchiveReplay ── MCArchiveReplay       Page ── MCPage
   └───── Server_proofs             └──────────── ArchiveReplay_proofs    └──── Page_proofs

SequenceLemmas                   (extended by all modules of proofs; OrderBook_proofs and
                                  Engine_proofs also instantiate it, once for each loop)
```

| Module | Models | Correspondence |
|---|---|---|
| `Orders` | `order.rs`, the comparisons of `orderbook.rs` | `Better` and `Crosses` hold the comparisons that the code writes out twice, once per side |
| `OrderBook` | `orderbook.rs` as functions on a book value | `Submit` is `submit`, `CancelOrder` is `cancel`, `Snapshot`, and below them `MatchOrder`, `MatchLevel` (a turn of the outer loop), `DrainLevel`, `FillMaker` (a turn of the inner loop) as folds |
| `Matching` | `submit` and `cancel` again, one step per turn of each loop | `pc` is `idle`, `match` (outer loop) or `drain` (inner loop); actions `Accept`, `RejectFok`, `OpenLevel`, `Fill`, `CloseLevel`, `Finish`, `CancelUnknown`, `CancelResting` |
| `PriceTimeRules` | nothing of the code: the promise for one operation | which resting orders a taker reaches and what each gives, in closed form |
| `PriceTimeBook` | nothing of the code: the promise | a set of resting orders, each with any of `Times`; submitting, cancelling, seeding as submissions one by one, resetting |
| `Engine` | `engine.rs`, with `demo::seed` and the server's `reset` | one action per operation run under the lock; `Replayed`, `Validate`, `ReplayTo` are `replay_to` and `validate`; `Tick`, `ClockSetBack` are the wall clock |
| `Demo` | the content of `demo.rs` | the 24 orders, prices in cents, quantities in tenths |
| `Server` | `ws.rs`, `generator.rs`, the channel, what a page shows | one action per lock, atomic access, broadcast and await; see below |
| `Page` | the replay panel of `app.js`, `journal_info` and `replay` of `ws.rs` | one action per control and per message; the journal is the times of its events |
| `Bridge` | `bridge.rs`, `publish_order` and `make_publisher` of `publisher.rs` | one action per atomic access, channel operation and attempt to publish; see below |
| `Ingress` | the numbers in `bridge.rs` and `publisher.rs`: `prefill_levels*`, `random_order`, `to_ticks`, `to_ingress_model` | operators, no state: every order of each prefill (100, 200 or 400), and samples of the stream's and of clients' |
| `ArchiveReplay` | `replay.rs` | `main` by its `pc`; the archive's `Record` and `StopRecording` run beside it |
| `BridgeInvariant` | nothing of the code: the inductive invariant of `Bridge` | |
| `MC*` | – | the small instances; the constants' values |
| `*_proofs` | – | the theorems of section 5 |
| `SequenceLemmas` | – | what `Append`, `Tail`, `RemoveFirst`, `\o`, `Min` and `Max` do, for all of them; how a finite set is listed in a strict order; what `FoldLeft` and `MapThenSumSet` do, whatever is folded or added up |

### Abstractions

* **Numbers.** Prices and quantities are `f64` in the code and integers here. The
  code's tolerance, 1e-9, is the constant `Eps`. With `Eps = 1` the small instances
  reach the states where a remainder too small to count is dropped; with `Eps = 0`
  (the demo) arithmetic is exact. The rounding of floating-point sums is not modelled.
* **Quantities are not validated** by the code, so the instances contain a negative
  one and one that is only dust.
* **`Server` knows the book by a version**, the number of operations applied to it
  since the server started, and a snapshot by the version it shows. That is all
  that ordering, missing and staleness depend on; what the operations do is
  `Engine`'s. A rejected order and an unsuccessful cancel count as operations too:
  the handler broadcasts just the same.
* **The Tokio runtime and its channel are external**, modelled by what the code
  relies on: the mutex serves its waiters in order and forgets a waiter whose future
  is dropped; the channel gives every receiver what is sent after it subscribed, and
  a receiver overrun by the ring buffer gets `Lagged`; an aborted task stops at an await.
* **A page** shows the last snapshot and streaming status it received, and sends
  `get_state` when its socket opens. While a client is away its page keeps what it
  showed; the properties only speak of connected pages.
* **`Bridge` knows an order by its identifier, its maker and whether its numbers fit**
  the integers of the ingress message (of a width this repository does not say). What
  the numbers become is `Ingress`'s, in thousandths: every price and quantity the bridge
  makes up is a whole number of hundredths, up to an error of 1e-13 that rounding
  removes. What `TicksFaithful` and `PrefillsAddDepth` say of orders on the wire they say
  of all numbers their makers may have given them. An attempt to publish succeeds, fails
  and may be retried, or fails for good: Aeron decides.
* **Relaxed atomics.** In `Bridge` and `Server` only one side writes each atomic, or
  writes are independent; what `Relaxed` adds is that two loads of one statistics message
  may be swapped. The properties (`StatsFresh`, `NoAckMissed`) speak of each counter by itself.
* **In `Page`** a handler takes two steps, under the lock and broadcasting: `Server` has
  the rest. The clocks of server and pages agree, and all pages are in one time zone. Its
  local time is counted from the clock's zero with the standard offset, set ahead at
  `DstBegins` and back at `DstEnds` by `DstShift`, all of them whole seconds. The picker's
  value is a local time without an offset (`toLocalInputValue`); `new Date(value)` takes one
  that is shown twice for the earlier of its instants, and one that is skipped as if the
  clock had not been set ahead yet (`GetTime`), as JavaScript prescribes. A page's browser fires `change`
  when a dragged slider is let go.
* **In `ArchiveReplay`** a loop's turn without effect (not connected, an offer to retry,
  no fragment) is a stutter, and time-outs may strike at any moment.
* `journal_info`, acknowledgements and replay results are messages without content
  in `Server`: they take their place in the channel and in the handler's steps.

### State and actions of `Server`

| Code | Model |
|---|---|
| `Mutex<Engine>` | `lock` (held across steps only during a greeting), `waiters` |
| `subscribe()`, then `lock().await` | `Connect(c)`: the receiver exists, the task is in the queue |
| snapshot, `send_json(...).await`, end of the block | `Greet(c)`, `Greeted(c)` |
| `recv_task` reads a message | `OpenPage(c)` (the page's own `get_state`), `Receive(c)` |
| lock, operate, snapshot, `drop(engine)` | `Operate(t)`, one step: there is no await in it |
| `broadcast_all`, `broadcast_one` | `Send(t)`, one message a step |
| loads of the atomics after two broadcasts in `get_state` | `ReadStatus(c)` |
| `store`, `store`, broadcast | `StoreInterval(c)`, `Switch(c)`, `Send(c)` |
| `send_task` | `Deliver(c)`; on `Lagged`, `DropLagged(c)` |
| `select!` and `abort()` | `Close(c)`: only where `recv_task` awaits, its socket or the lock |
| generator: load, sleep, check, submit | `LoadInterval`, `Wake`, `Operate`, `Send` |

### State and actions of `Bridge`

| Code | Model |
|---|---|
| `subscribe()`, `send_stats(...)` | `Connect(c)`, four `LoadNext(c)`, `Greeted(c)` |
| `recv_task` reads a message | `Receive(c)` |
| `build_order`, `cmd_tx.send` | `BuildOrder(c)`, `SendCommand(c)` |
| `store`, `store`, `load`, broadcast | `StoreInterval(c)`, `Switch(c)`, `LoadNext(c)`, `Say(c)` |
| `send_task`; `select!` and `abort()` | `Deliver(c)`; `DropLagged(c)`, `Leave(c)`: between two messages only |
| `make_publisher` | `MakePublisher`: succeeds or panics |
| `recv_timeout` | `TakeCommand`, `NothingReceived` |
| the stream's `if`s | `StreamTick` (how much time has passed is open), `NoTick` |
| `prefill_levels`, `random_order` | `BuildNext`, an identifier a step |
| `publish_order` | `ToIngress` (sequence number, may panic), `Publish` per attempt |
| `fetch_add`, broadcast | `Count`, `Acknowledge`; after a prefill `Report` |

## 3. Runs

| Run | Question | Bounds |
|---|---|---|
| `engine` | Is the book sound after any mix of operations, and does it implement `PriceTimeBook`? Does replay give back the past, for every journal and target? | 2 prices, 4 events: either at one instant, of quantities −1, 1 (dust), 2, 3, 4, 6, or at 4 instants with fewer orders, the clock set back and a demo of 2 orders; `Eps` 1, snapshots one level deep |
| `demo` | Does the real demo scrub? | the 24 orders, plus at most one order or cancellation of a client before or after, stamped later than the demo |
| `matching` | Do the loops keep their invariant, terminate, implement `PriceTimeBook`? | 2 prices, 4 submissions |
| `server_book` | Does any client miss a change? Is the lock sound? Do pages agree? | 2 clients, 3 connections, 2 commands, channel of 4 |
| `server_live` | Are commands and clients served? Do stop and intervals take effect? | 1 client, 2 connections, 2 commands, 2 generated orders |
| `bridge` | Is any order lost, doubled or overtaken by a later one of its client? Is a prefill interrupted? Is what clients are told fresh? What do ticks make of the orders? | 2 clients, 2 connections, 2 commands, prefill of 2 orders, 1 streamed order, no retries; the real prefills in full |
| `bridge_live` | Do acknowledgements, counters and sequence numbers tell what Aeron accepted? Are orders acknowledged even if Aeron accepts nothing? Does the stream go on, and stop? | 1 client, 2 commands, 2 streamed orders, channel of 3, 1 retry |
| `archive_replay` | Is the verdict right, and does the program end? | 4 messages; none, one or two older recordings, one of them with a gap; two recordings listed |
| `page` | Does the slider reach all that its span covers? What do slider and picker show? | 2 pages, 3 commands, or 2 and a lost connection; 1 move, seconds of 3 instants, demo of 2 orders, local time a second ahead of the clock until it is set back in the middle |
| `replay_is_live` | *violated*: a replay to the present is the live book | as `engine`, without setting the clock back |
| `live_book` | *violated*: an idle page shows the live book | 2 clients, 2 commands |
| `stream_tag` | *violated*: an idle page's STREAMING tag is right | 2 clients, 2 commands |

**Why the bounds are enough to be interesting.** Four orders fill two levels of a
side and sweep both, leave a maker partly filled, cancel in the middle of a queue
of three, and drop dust on either side of a trade. Two prices give a crossing and a
non-crossing level on each side. A channel of four overflows with three commands'
messages (a `get_state` alone sends three), so lagging, dropping and reconnecting all
happen; one instance in which two pages and three connections share two commands
already shows every overtaking of one handler by another. `MaxEvents`, `MaxOrders`,
`MaxCommands`, `MaxConnects`, `MaxGenerated`, `StartTime` and `MaxTime` bound only how
long the behaviours are. When they are used up a reset (`Engine`) or a cancellation
(`Matching`) is still possible, and in `Server` the generator goes on forever: those
runs, and the violated ones, check for deadlock.

For the bridge, two commands of two clients already interleave in every place: in the
handlers, in the channel, with the thread's panic and with a client's leaving. Prefills
of two orders have a first, a last and an interval between them. One retry tells "once
too few" from "once too many"; two streamed orders are what `OneOrderAfterStop` needs to
fail. Four archived messages have a first, a last and two in between, so that a gap
can be in the middle and one message long. `Ingress` has the real prefills in full.
Deadlock is not checked in `bridge` and `bridge_live`, where everything does stop when
the thread has died and the clients are gone, and in `page`, where pages that have used
up their commands do nothing more.

Two runs hold two instances in one, by a CONSTRAINT: `engine` explores all its orders at
one instant and fewer of them at all instants (`OrdersOrTimes`), `page` three commands
without a lost connection and two with one (`FewSteps`).

**What the properties say** is written above each of them; some are conjunctions of
named parts, given in brackets here.

* The book: `EngineInv`, the inductive invariant, `LiveBookSound` (`IndexMatchesLevels`, `LiveBookValid`,
  `TradesNumberedInOrder`), `QuantityConserved`, `FillOrKill`, and the refinement
  `ImplementsPriceTimeBook`: the outcome of every operation, maker by maker, is the one
  price-time priority prescribes for the request it was made with. `Matching` adds what
  holds between two turns of its loops (`MatchInv`, with its types) and `SubmitReturns`.
* Replay: `ReplayReconstructs` (if timestamps are in order, replay to *any* time is the
  live book as it was then, order by order, and the trades until then), `ReplaySound`
  (`ReplayValidates`, `ReplayConserves`: even if they are not), `DemoScrubs`.
* The server: `LockSound`, `NothingMissed`, `CaughtUpPagesAgree`, `OneOrderAfterStop`, the
  inductive invariant they follow from, `ServerInv`, and under fairness `CommandsServed`, `ClientsServed`, `IntervalTakesEffect`.
* The bridge: `OrdersAccountedFor` (each order in exactly one place until it is
  acknowledged), `ClientOrderKept`, `PrefillTallied`, `AcksTellTheWire`, `CountersAgree`
  (`CountersTellTheWire`, `AcksCount`), `StatsFresh` (`AnswersFresh`, `NoAckMissed`),
  `OneOrderAfterStop`, and the inductive invariant `BridgeInv`; under fairness `OrdersAcknowledged`, `StreamGoesOn`,
  `LogDelivered`; and of its numbers `TicksFaithful` (`CrossingKept`, `AckShowsWire`,
  `QuantityPositive`) and `PrefillsAddDepth` (`PrefillsDoNotTrade`, `LevelsStayApart`).
* The archive: `VerdictRight` (`PassIsSound`: a pass means complete and in order, up to
  messages never accepted; `NoFalseAlarm`), `Ends`.
* The panel: `SliderCoversSpan` (`SliderEndShowsAll`, `SliderShowsSome`),
  `PickerLagBounded` (a replay to the picker's time leaves out its last second only or, in
  the hour that is repeated when daylight saving time ends, its last second and hour).

Every property of a passing run has a mutant: a definition changed as a plausible
bug would change it (the operators named in comments "Mutant of ..."), for which TLC
finds the property violated.

### Fairness

`FairSpec` of `Matching` assumes that a submission under way takes its next step; it
never blocks. `FairSpec` of `Server` assumes that the runtime polls each task that can
go on (weak fairness per task, with the greeting, the sending and the receiving task
apart), that sockets are read by their pages (`Greeted`, `Deliver`), and nothing else about
clients: none has to connect, send a command or leave. First-come-first-served
locking is not a fairness assumption but part of the model, as Tokio's mutex
documents it. A client that stops reading its socket while it is greeted would
hold the engine's lock for as long as it likes; that is what the assumption on
`Greeted` excludes, and it is listed as a hazard.

`FairSpec` of `Bridge` assumes that the thread goes on, that the runtime polls each
connection's tasks, and that time passes: a stream that is looked at again and again is
found due again and again (`SF` of `StreamTick`; an interval is finite and `last_tick` only
moves when it is over). Of clients it assumes that they read their sockets: a connection's
`Deliver`, `DropLagged` and greeting go on, where a `send_task` whose client does not read would
wait in its `send` and never see that it lags. None has to connect, send a command or leave. It assumes nothing about Aeron: the
retry loop alone makes `OrdersAcknowledged` and `StreamGoesOn` true when nothing is ever
accepted. `FairSpec` of `ArchiveReplay` assumes that the program goes on: that the
archive subscribes in the end, and that no offer is put off for ever. Both are needed,
as the code has no time-out there: `while !publication.is_connected()` and the retry of an
offer go on as long as they must. It assumes nothing of the archive's writing and
sending, and not that a poll fails.

The interval the generator sleeps for only matters relative to the clamp of
`start_stream` (50 ms); the generator's own clamp (20 ms) can never apply, because the
default is 500 and every stored value is at least 50. Sleeping is not timed: `Wake`
may happen at any moment.

## 4. Disagreements with the documentation

* **Replay is not always the live book** (`replay_is_live`). `README.md:36-39` promises
  a reconstruction of the book at time T. `replay_to` sorts by timestamp, and `seed_demo`
  journals orders with timestamps of the last five minutes after whatever is in the
  journal. Submit an order, seed the demo, replay to now: the replay matches the
  demo's orders first, and its book differs from the live one. Setting the clock back
  has the same effect.
* **The live book may stay behind** (`live_book`). Snapshots are broadcast after the
  unlock and have no version; the snapshot of a `get_state` (every connecting page
  sends one) or of another command may be broadcast after a newer one. All pages
  then agree on the older book until the next change.
* **The STREAMING tag may stay wrong** (`stream_tag`), for the same reason: the flag is
  stored and broadcast in two steps.

Worth knowing, though no run of its own shows it:

* The slider falls behind the journal. `app.js:180` binds it to "the journal's actual
  span", but `journal_info` is sent only for `get_state` and `seed_demo`. Orders journaled
  since are beyond the slider's end, and after a reset it keeps the span of the journal
  that is gone. `SliderEndShowsAll` is about the span the page was told.
* A gap passes the archive test. An offer that fails for good drops its message and goes
  on (`replay.rs:81-84` breaks out of the inner loop only); the check at `replay.rs:247`
  sees the counts and the two ends. `PassIsSound` claims no more than that.
* The archive test may look at an old recording: it lists 100 recordings
  (`replay.rs:105`), every run adds one, and it takes the last one listed.
* The last five bids of a HighSpread prefill have prices of zero and below and are all
  published as zero, while their acknowledgements show the negative prices
  (`LevelsStayApart`, `AckShowsWire`).
* One order whose numbers do not fit ends the publisher thread for all clients.
* A replay to the time the picker shows leaves out the last second. Where the picker was set
  to a time that local clocks show for the second time, at the end of daylight saving time,
  it leaves out the last hour too: `app.js:222-226` writes local time without its offset, and
  `app.js:280` takes it for the earlier of the two instants (`PickerLagBounded`).

## 5. Theorems

All theorems hold for every value of the constants that the named assumptions in the
modules allow, and the proofs assume nothing else. The assumptions say that bounds are
natural numbers, that clients are none of the other actors, that what clients send is in
the protocol, and of the bridge's numbers that the stream's walk stays where the code keeps
it (`WalkAssumption`), and of the panel's local time that clocks change at a whole second, by whole
seconds, and back not before the time they show when set ahead (`DstAssumption`). Each component's theorems follow from one inductive invariant, which
is the conjunction of named parts: one lemma per action shows that the action preserves
them, with one step per part it can disturb.

### `Matching_proofs`: the loops of the book

For all sets of integer prices and quantities, every tolerance `Eps \in Nat`, all templates
and identifiers, and any number of orders:

| Theorem | Statement |
|---|---|
| `MatchingInvariant` | `Spec => []MatchInv`, the inductive invariant of the loops |
| `TypeCorrect` | `Spec => []TypeOK` (of the runs, `matching` checks it within `MatchInv`) |
| `NeverCrossed` | `Spec => []Uncrossed`, at every turn of the loops |
| `TimePriorityKept` | `Spec => []TimePriority` |
| `IndexAgrees` | `Spec => []IndexSound` |
| `BestPricesFirst` | `Spec => []TradesBestFirst` |
| `KeepsPriceTime` | `Spec => ImplementsPriceTimeBook`: the loops implement `PriceTimeBook` |

None of the last four is inductive. `Uncrossed` is preserved by `Finish` only because the
loop ended at a level the taker does not cross, and for a limit order that has
something left this must hold of *all* levels; `TimePriority` needs that resting
orders are older than the taker (`RestingSound`, `TakerSound`); `IndexSound` needs to know
what the index still holds in the middle of a level (`FilledIndexed`: the makers just
filled, all older than what is left of the level); `TradesBestFirst` needs that the
level being drained is the best (`DrainsBestLevel`) and that it has positive
quantities (`RestingSound`).

`KeepsPriceTime` needs one more part of the invariant, about the book that `submit` started from
(`RefInv`, with `Matched`): while the loops run there are makers `T[1]` to `T[n]`, the first `n` that
the order reaches in that book, and numbers `W[0]` to `W[n]`, what it wants before and after each
(`TakesInTurn`), and the trades so far, what the taker has left and the orders still on the book are what
trading with these in turn makes of it (`MatchedBy`). The loops keep this because the front of the
best level is the first of the makers that are left (`FillTakesNext`, from `DrainsBestLevel` and
`TimePriority`), and when they end the order has enough or nobody is left (`FinishEnough`). The closed form
is then read off such a series by lemmas of `OrderBook_proofs`, which serve the engine too: who is reached and
what each gives (`ReachedAre`), the trades (`TradesAre`), what is left (`WhatIsLeft`), the book
(`AfterSubmitIs`); the liquidity check adds up what all makers have (`LiquidityIs`), so it decides as
`PriceTimeRules` does who is killed (`KilledIs`). `T` and `W` range over
everything, so TLC has no run for `RefInv`; what it is for, `ImplementsPriceTimeBook`, it does check.

### `OrderBook_proofs` and `Engine_proofs`: the engine and its replays

For all sets of integer prices and quantities, every tolerance, all templates, identifiers and
demos, and any length of the journal:

| Theorem | Statement |
|---|---|
| `EngineInvariant` | `Spec => []EngineInv` |
| `EngineTypes` | `Spec => []TypeOK` (of the runs, `engine` checks it within `EngineInv`) |
| `LiveBookIsSound` | `Spec => []LiveBookSound`: index and levels agree, the book validates, trades are numbered in order |
| `EveryReplayValidates` | `Spec => []ReplayValidates`: so does the book of every replay, even out of order |
| `ReplayIsThePast` | `Spec => []ReplayReconstructs`: in order, a replay is the book as it was, with the trades made until then |
| `QuantityIsConserved` | `Spec => []QuantityConserved`: no order trades more than it asked for; what it traded and what it has left add up; one that should rest rests, was filled or was cancelled |
| `AllOrNothing` | `Spec => []FillOrKill`: a fill-or-kill order trades all or nothing and never rests |
| `EveryReplayConserves` | `Spec => []ReplayConserves`: the same sums in every replay, even out of order |
| `EveryReplayIsSound` | `Spec => []ReplaySound`: both halves of what the run `engine` checks of out-of-order replays |
| `EngineKeepsPriceTime` | `Spec => ImplementsPriceTimeBook`: the engine, whose operations are folds, implements `PriceTimeBook` |

Every operation of the book is a loop, and here a fold: over the orders of a level, over levels, over the
events of a journal. `SequenceLemmas` proves for any operator that a fold is the last of a series of values,
each one step from the one before (`FoldSteps`, `FoldTurns`; the function that `FoldLeft` is defined by
exists, which its definition leaves open). A proof then goes through the series by induction on the
number of steps (`Upwards`), with the loop's invariant: `DrainState` for a level, `MatchState`
for the levels, `RetainedIsFrom` for a cancellation, `ReplayTurnsSound` and `RunTurnsSound` for a journal.

`EngineInv` says of the live engine: the book is sound (`BookSound`: no level is empty, each order rests
once, at the side and price the index has for it, with more left than the tolerance, and all bids are
below all asks); the journal has each identifier once and each order as it was submitted; the trade log is
numbered by the book's counter; and, which makes it inductive *and* useful for replay, running the journal from the start
gives this book, this log and every book in between (`RunFromStart`). That a book is never crossed after a
submission rests on the loop's last level: what a limit order has left has emptied all levels it
crosses (`MatchState`), so it does not cross where it comes to rest.

A replay is a run of the same events in the order `ReplayOrder`, with those after the target left out.
Whatever that order is, each identifier is submitted at most once before an event is taken
(`Known`), so `SubmitSound` and `CancelSound` carry the book's soundness through the replay, and a sound book validates
(`SoundBookValid`). If timestamps do not decrease, `ReplayOrder` is the journal's own (`ReplayInPlace`),
the events up to the target are its first ones (`CutInTime`), and a replay takes the run's own steps as far as
these (`ReplayFollowsRun`); as a trade has the time of the event that made it, the run's
trades are cut at the same place (`TradesCut`).

The quantities are sums, so they are folds too: `Filled` adds up trade by trade (`SumSeries`, `FilledConcat`),
`LevelQty` order by order, `AvailableLiquidity` level by level. The inner loop's account (`DrainSums`) says of
each maker what it lost, and of a taker that still wants something that it took the whole level; the outer
loop's (`MatchSums`) carries this over the levels, so that a taker that still wants something at the end took
exactly `AvailableLiquidity`. This is where the two loops of `submit` meet: a fill-or-kill order is let
through only if that liquidity is at least its quantity, so it ends with nothing but dust left
(`SubmitSummed`). `Moves` says what an operation does to any one order (it trades `g`: it has `g` less left, or
it left the book with nothing but dust untraded), and moves add up (`MovesOn`). Along a journal each order then has
an account in order (`Account`, `Accounts`), and one that nobody cancelled is settled (`Settled`):
`EventAccounted` for an event, `ReplayAccounted` for a replay in any order, `RunAccounted` for the live
engine, which is the run of its journal. That the sums hold of the journal at all needs `EngineInv`: the identifiers
are distinct, so no trade counts for two orders, and `RunFromStart` gives the log and the book.

`EngineKeepsPriceTime` needs one more invariant, `OldestFirst`: within a level identifiers ascend. It is true
because a submission adds the newest order at the end, and what trades or is cancelled leaves gaps only; `BookSound`
does not say it, since a replay out of order need not keep it. A sound book in which the oldest come first turns its levels
into turns: the level that the outer loop comes to holds the makers next in turn, in their order
(`NextLevelIs`, `LevelNext`). The inner loop takes them one by one until the taker has enough
(`FillByRules`, `LevelByRules`, with the loop's invariant `FilledBy`), the outer loop goes from level to level
until it has enough or nobody is left (`TradeLevelByRules`, `MatchByRules`, with `TradedBy`); the makers and what was wanted before
each are the series `T` and `W` of `Matching`, from which the same lemmas read off the closed form (`SubmitByRules`,
and `CancelByRules` for cancellations). Seeding is a fold of submissions on both sides, and they keep in lockstep
(`SeedByRules`): the times of the abstract orders are the demo's, of which each takes the one it has.

### `Server_proofs`: the lock, the channel, the pages

For any clients, commands, capacity of the channel and number of generated orders:

| Theorem | Statement |
|---|---|
| `ServerInvariant` | `Spec => []ServerInv` |
| `TypeCorrect` | `Spec => []TypeOK`; no receiver's queue exceeds the capacity |
| `LockIsSound` | `Spec => []LockSound` |
| `NoChangeMissed` | `Spec => []NothingMissed` |
| `PagesAgree` | `Spec => []CaughtUpPagesAgree` |
| `AtMostOneOrderAfterStop` | `Spec => []OneOrderAfterStop` |

`NothingMissed` speaks of clients that have been greeted; what carries it is `NothingOwed`, which
holds from the moment the snapshot for the greeting is taken, and needs
`HandlersSound` (a handler that is aborted has nothing to broadcast). `CaughtUpPagesAgree`
speaks of empty queues; `QueuesEndAlike` says of any queue what the page will show once it
has emptied it. `OneOrderAfterStop` needs to know that a generator still waiting for the lock has
generated nothing since the stop (`StopCounted`). `LockSound` is about the mutex's queue of tasks
and rests on what removing one of them from its middle does (`RemoveFromQueue`).

### `Bridge_proofs`: the publisher thread and the numbers

For any clients, commands, prefills of any sizes, number of retries and capacity of the channel:

| Theorem | Statement |
|---|---|
| `InvariantKept` | `Spec => []BridgeInv` |
| `TypeCorrect` | `Spec => []TypeOK` |
| `NoOrderLostOrDoubled` | `Spec => []OrdersAccountedFor` |
| `ClientsKeepTheirOrder` | `Spec => []ClientOrderKept` |
| `AcksAreTrue` | `Spec => []AcksTellTheWire` |
| `CountersAreTrue` | `Spec => []CountersAgree` |
| `PrefillsAreWhole` | `Spec => []PrefillTallied` |
| `StatisticsAreFresh` | `Spec => []StatsFresh` |
| `AtMostOneOrderAfterStop` | `Spec => []OneOrderAfterStop` |
| `TicksAreFaithful`, `PrefillsOnlyAddDepth` | `Spec => []TicksFaithful`, `Spec => []PrefillsAddDepth` |
| `TradesAreKept`, `AcksShowTheWire`, `QuantitiesSurvive`, `PrefillsNeverTrade`, `LevelsStayDistinct` | what the last two say, of all orders, whether they are on the wire or not |

`BridgeInv` (in `BridgeInvariant`) has seven parts. `LocalInv` has the types and ties each handler
and the thread to what it is doing. `OrdersSound` has the identifiers: each is held by at most one
of the handlers, the command channel, the thread and the log (a count of places is not inductive;
disjoint sets of identifiers that are each taken once are). `WireSound` relates what
was acknowledged to what is on the wire, with the one order that is published and not yet
acknowledged as the exception; `ClientLine` says that the orders of one client stand in line all
the way from its handler to the wire, which `ClientOrderKept` says of the wire only. `CountsSound`
has the counters with what the thread has yet to add to them at each of its steps, and that each
acknowledgement has the counts of its own moment; `PrefillSound` follows the tally through a
prefill under way; `StatsSound` has the half-filled statistics that handlers and greetings hold.

Of `Ingress`, what is needed of the conversion is that it is monotone and that it loses nothing of a
whole number of ticks (`Monotone`, `Exact`), and of the orders made up that their numbers are
such (`MadeUp`). `TicksFaithful` holds of any pair of client orders with any integers for numbers,
not only of the samples that TLC tries.

### `ArchiveReplay_proofs`: the verdict

For any number of messages, any older recordings (with any gaps) and any limit of the list:
`ReplayInvariant` (`Spec => []ReplayInv`) and `VerdictIsRight` (`Spec => []VerdictRight`). What
was offered is in increasing order (`OffersInOrder`), the archive holds a prefix of it and
what was received is a prefix of the recording chosen (`ReplayFollows`): a prefix as long as what was published
is all of it.

### `Page_proofs`: the replay panel

For any pages, length of a second, change of local clocks, demo and bounds: `PageInvariant`
(`Spec => []PageInv`), `SliderReachesTheSpan` (`Spec => []SliderCoversSpan`), `PickerLagIsBounded`
(`Spec => []PickerLagBounded`). The properties are about results shown, possibly of a
journal that is gone. The invariant is about every span, request and reply that is under way:
`SpanSound` (a span covers the first events of its era's journal, as long as the era lasts),
`RequestSound` (a request of the slider is of the instant it stood at, one of the picker is not later
than the instant it was set to, and earlier by less than its lag) and `ResultSound`. All of them are preserved by
anything that only appends to the journal, in whatever order of time, or begins a new era (`SoundStays`).
That the picker's way through local time and back loses no more than its lag is `PickerShows`: the
last whole second before a time is on the same side of a change of clocks (`WholeSeconds`).

### Checked before they were proved

`MatchInv` is an invariant of the run `matching`, `EngineInv` of `engine`, `ServerInv` of `server_book`, `BridgeInv` of
`bridge_live`; on the instance of `bridge`, with two clients, TLC also finds
`BridgeInv` true (3,393,603 distinct states, three minutes). `ReplayInv` and `PageInv` are true on the
instances of `archive_replay` and `page` (5,231,633 distinct states), and `OldestFirst` on that of
`engine` (136,658 distinct states).

### Only model-checked

* Liveness, that is everything under "fairness": `SubmitReturns`, `CommandsServed`,
  `ClientsServed`, `IntervalTakesEffect`, `OrdersAcknowledged`, `StreamGoesOn`, `LogDelivered`, `Ends`. The
  prover has no rules for fairness.
* `DemoScrubs`, which is about one concrete history and its 24 orders.

## 6. Not modelled

* Floating-point rounding of sums; JSON; HTTP and static files; layout of the pages.
* The page's event log and trade tape, which only append, and its list of snapshots
  (`takeSnapshot`, `replay()`), which only counts and talks to nobody.
* Identifiers a client remembers across a reset: `reset` starts them from 1 again, and
  nothing in the code or the documents says what an old one then means.
* The order in which the retry loop's waits grow (10, 50, 200 µs): only their number
  matters to the model.
* `publish_batch` (called by nothing), `schema.rs` (a wire struct used by nothing),
  `subscriber.rs` (empty), the scripts that start and kill an archive.
* A crash of the server: nothing is persisted, so it is a fresh start.

## 7. Plan

1. *(done)* `Orders`, `OrderBook`, `Engine`, `PriceTimeBook`: the book, the journal,
   replay, against the abstract specification.
2. *(done)* `Matching` and the proof of its invariant.
3. *(done)* `Server`: the concurrency, and the disagreements it leads to.
4. *(done)* `Bridge` and `Ingress`: the publisher thread, its command channel, the
   retries, the counters, the numbers on the wire.
5. *(done)* `ArchiveReplay`: publishing with gaps, the choice of the recording, the check.
6. *(done)* `Page`: the replay panel.
7. *(done)* Proofs: `Server`, `Bridge` with `Ingress`, `ArchiveReplay`, `Page`.
8. *(done)* Proofs about `Engine`: the folds, the sound book, replays.
9. *(done)* The sums of `Engine`: conservation of quantity, fill-or-kill.
10. *(done)* The refinement of `PriceTimeBook` by `Matching` and by `Engine`.
