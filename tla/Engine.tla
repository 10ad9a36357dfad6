-------------------------------- MODULE Engine --------------------------------
(***************************************************************************)
(* The engine of src/src/engine.rs: the live book, the append-only         *)
(* journal, the trade log and the identifier counter, with the operations  *)
(* the server runs under its lock: submit, cancel, seed the demo history   *)
(* (src/src/demo.rs) and reset (src/src/ws.rs).  replay_to and validate    *)
(* only read, so they are operators, and the properties apply them to      *)
(* every reachable journal and every target time.                          *)
(*                                                                         *)
(* Time is the wall clock, Utc::now().  It is read under the lock, so two  *)
(* events are stamped in the order they are journaled unless the clock is  *)
(* set back between them (ClockMayStepBack) or the events are the demo's,  *)
(* which carry timestamps of the past.                                     *)
(***************************************************************************)
EXTENDS OrderBook

CONSTANTS
  Templates,         \* the orders clients and the generator submit
  CancelIds,         \* the identifiers clients try to cancel
  SeedScript,        \* the demo's orders, oldest first
  SeedSpan,          \* how far back the demo history reaches (5 minutes)
  SnapshotDepth,     \* levels per side in a snapshot (25)
  StartTime,         \* bounds of the wall clock
  MaxTime,
  MaxEvents,         \* bound on the length of the journal
  ClockMayStepBack   \* whether the wall clock may be set back

ASSUME TemplatesAssumption == Templates \subseteq Template
ASSUME CancelIdsAssumption == CancelIds \subseteq Nat
ASSUME SeedAssumption      == SeedScript \in Seq(Template) /\ SeedSpan \in Nat
ASSUME TimeAssumption      == StartTime \in Nat /\ MaxTime \in Nat /\ StartTime <= MaxTime
ASSUME BoundAssumption     == SnapshotDepth \in Nat /\ MaxEvents \in Nat
ASSUME ClockAssumption     == ClockMayStepBack \in BOOLEAN

VARIABLES
  book,           \* the live OrderBook
  journal,        \* Vec<EngineEvent>
  trade_log,      \* Vec<Trade>
  next_order_id,
  now,            \* Utc::now().timestamp_millis()
  outcome,        \* what the last operation returned to its caller
  live            \* history: the live book after each journaled event

engineVars == <<book, journal, trade_log, next_order_id>>
vars       == <<book, journal, trade_log, next_order_id, now, outcome, live>>

NoOutcome == [op |-> "none"]

Init ==
  /\ book = EmptyBook
  /\ journal = << >>
  /\ trade_log = << >>
  /\ next_order_id = 0
  /\ now = StartTime
  /\ outcome = NoOutcome
  /\ live = << >>

\* Mutant of SubmitTo: the journal gets the order as the book has left it.
SubmitToMatched(e, t, time) ==
  LET order == MakeOrder(e.next_order_id + 1, t, time)
      s     == Submit(e.book, order)
      left  == [order EXCEPT !.remaining_qty = s.result.resting_qty]
  IN  [book          |-> s.book,
       journal       |-> Append(e.journal, SubmitEvent(left)),
       trade_log     |-> e.trade_log \o s.result.trades,
       next_order_id |-> e.next_order_id + 1,
       live          |-> Append(e.live, s.book),
       result        |-> s.result]

\* Engine::next_id and Engine::submit for one order: the journal gets the order
\* as submitted, then the book matches it.  e is an engine value.
SubmitTo(e, t, time) ==
  LET order == MakeOrder(e.next_order_id + 1, t, time)
      s     == Submit(e.book, order)
  IN  [book          |-> s.book,
       journal       |-> Append(e.journal, SubmitEvent(order)),
       trade_log     |-> e.trade_log \o s.result.trades,
       next_order_id |-> e.next_order_id + 1,
       live          |-> Append(e.live, s.book),
       result        |-> s.result]

Current == [book |-> book, journal |-> journal, trade_log |-> trade_log,
            next_order_id |-> next_order_id, live |-> live, result |-> << >>]

Become(e) ==
  /\ book' = e.book
  /\ journal' = e.journal
  /\ trade_log' = e.trade_log
  /\ next_order_id' = e.next_order_id
  /\ live' = e.live

SubmitOrder(t) ==
  LET e == SubmitTo(Current, t, now)
  IN  /\ Len(journal) < MaxEvents
      /\ Become(e)
      /\ outcome' = [op          |-> "submit",
                     order_id    |-> e.next_order_id,
                     asked       |-> t,
                     trades      |-> e.result.trades,
                     accepted    |-> e.result.accepted,
                     resting_qty |-> e.result.resting_qty]
      /\ UNCHANGED now

\* The cancellation is journaled whether or not the order is found.
Cancel(id) ==
  LET c == CancelOrder(book, id)
  IN  /\ Len(journal) < MaxEvents
      /\ journal' = Append(journal, CancelEvent(id, now))
      /\ book' = c.book
      /\ live' = Append(live, c.book)
      /\ outcome' = [op |-> "cancel", order_id |-> id, found |-> c.found]
      /\ UNCHANGED <<trade_log, next_order_id, now>>

\* Mutant of SeedTime: the step is not multiplied by the order's position.
SeedTimeFlat(i) == now - SeedSpan + SeedSpan \div Len(SeedScript)

\* The demo's orders go through submit one after the other, stamped at equal
\* steps from SeedSpan ago.
SeedTime(i) == now - SeedSpan + (SeedSpan \div Len(SeedScript)) * (i - 1)

SeedDemo ==
  /\ SeedScript # << >>
  /\ Len(journal) + Len(SeedScript) <= MaxEvents
  /\ Become(FoldLeft(LAMBDA e, i : SubmitTo(e, SeedScript[i], SeedTime(i)),
                     Current, [i \in 1 .. Len(SeedScript) |-> i]))
  /\ UNCHANGED <<now, outcome>>

\* *engine = Engine::new()
Reset ==
  /\ book' = EmptyBook
  /\ journal' = << >>
  /\ trade_log' = << >>
  /\ next_order_id' = 0
  /\ live' = << >>
  /\ outcome' = NoOutcome
  /\ UNCHANGED now

Tick ==
  /\ now < MaxTime
  /\ now' = now + 1
  /\ UNCHANGED <<engineVars, outcome, live>>

ClockSetBack ==
  /\ ClockMayStepBack /\ now > StartTime
  /\ now' = now - 1
  /\ UNCHANGED <<engineVars, outcome, live>>

Next ==
  \/ \E t \in Templates : SubmitOrder(t)
  \/ \E id \in CancelIds : Cancel(id)
  \/ SeedDemo
  \/ Reset
  \/ Tick
  \/ ClockSetBack

Spec == Init /\ [][Next]_vars

-----------------------------------------------------------------------------
(* Replay and validation.                                                  *)

\* Mutant of ReplayOrder: events with equal timestamps come last first.
ReplayOrderUnstable(events) ==
  LET time(i) == EventTime(events[i])
  IN  InOrder(DOMAIN events,
              LAMBDA i, j : time(i) < time(j) \/ (time(i) = time(j) /\ i > j))

\* The journal's indices in the order replay_to visits them: by timestamp, and
\* events with equal timestamps in journal order (sort_by_key is stable).
ReplayOrder(events) ==
  LET time(i) == EventTime(events[i])
  IN  InOrder(DOMAIN events,
              LAMBDA i, j : time(i) < time(j) \/ (time(i) = time(j) /\ i < j))

\* Mutant of ReplayEvent: nothing is left out.
ReplayEventAlways(r, e, target) ==
  IF e.kind = "Submit"
    THEN LET s == Submit(r.book, e.order)
         IN  [r EXCEPT !.book = s.book, !.trades = @ \o s.result.trades, !.replayed = @ + 1]
    ELSE [r EXCEPT !.book = CancelOrder(r.book, e.order_id).book, !.replayed = @ + 1]

ReplayEvent(r, e, target) ==
  IF EventTime(e) > target
    THEN [r EXCEPT !.skipped = @ + 1]
    ELSE IF e.kind = "Submit"
      THEN LET s == Submit(r.book, e.order)
           IN  [r EXCEPT !.book     = s.book,
                         !.trades   = @ \o s.result.trades,
                         !.replayed = @ + 1]
      ELSE [r EXCEPT !.book     = CancelOrder(r.book, e.order_id).book,
                     !.replayed = @ + 1]

\* The loop of replay_to: the events up to the target, run into a new book.
Replayed(events, target) ==
  FoldLeft(LAMBDA r, i : ReplayEvent(r, events[i], target),
           [book |-> EmptyBook, trades |-> << >>, replayed |-> 0, skipped |-> 0],
           ReplayOrder(events))

\* The kinds of error validate reports for a book.
ValidationErrors(b) ==
  LET deepest  == Max({Cardinality(DOMAIN b.levels[s]) : s \in Side})   \* usize::MAX
      snapshot == Snapshot(b, deepest)
      levels   == ToSet(snapshot["Buy"]) \cup ToSet(snapshot["Sell"])
      adjacent(s) == {<<snapshot[s][i].price, snapshot[s][i + 1].price>> :
                        i \in 1 .. Len(snapshot[s]) - 1}
  IN  {e \in {"crossed", "quantity", "empty level", "bids", "asks"} :
         CASE e = "crossed"     -> /\ HasLevel(b, "Buy") /\ HasLevel(b, "Sell")
                                   /\ BestPrice(b, "Buy") >= BestPrice(b, "Sell")
           [] e = "quantity"    -> \E l \in levels : l.qty <= 0
           [] e = "empty level" -> \E l \in levels : l.order_count = 0
           [] e = "bids"        -> \E pq \in adjacent("Buy") : pq[2] >= pq[1]
           [] e = "asks"        -> \E pq \in adjacent("Sell") : pq[2] <= pq[1]}

Validate(r) ==
  [errors          |-> ValidationErrors(r.book),
   events_replayed |-> r.replayed,
   events_skipped  |-> r.skipped,
   trades_produced |-> Len(r.trades)]

ReplayTo(events, target) ==
  LET r == Replayed(events, target)
  IN  [target_time_ms |-> target,
       book           |-> Snapshot(r.book, SnapshotDepth),
       trades         |-> r.trades,
       validation     |-> Validate(r)]

-----------------------------------------------------------------------------
(* Properties of the live engine.                                          *)

\* Where the orders rest: a side, one of its levels, a position in the queue.
Places(b) ==
  UNION {UNION {{<<s, px, i>> : i \in DOMAIN b.levels[s][px]} : px \in DOMAIN b.levels[s]} :
           s \in Side}

OrderAt(b, place) == b.levels[place[1]][place[2]][place[3]]

\* What order id traded, as maker and as taker.
Filled(trades, id) ==
  FoldLeft(LAMBDA sum, t : IF id \in {t.maker_order_id, t.taker_order_id} THEN sum + t.qty ELSE sum,
           0, trades)

SubmittedIn(events) == {i \in DOMAIN events : events[i].kind = "Submit"}

CancelledAfter(events, i) ==
  \E j \in DOMAIN events :
    j > i /\ events[j].kind = "Cancel" /\ events[j].order_id = events[i].order.id

\* The variables have the types of the Rust structs (live and outcome aside), and
\* no journaled event is dated outside the time that has passed.
TypeOK ==
  /\ \A s \in Side : /\ DOMAIN book.levels[s] \subseteq Price
                     /\ \A px \in DOMAIN book.levels[s] : book.levels[s][px] \in Seq(Order)
  /\ \A id \in DOMAIN book.index : book.index[id] \in Side \X Price
  /\ book.next_trade_id \in Nat
  /\ journal \in Seq(EngineEvent) /\ trade_log \in Seq(Trade)
  /\ next_order_id \in Nat /\ now \in StartTime .. MaxTime
  /\ \A i \in DOMAIN journal : EventTime(journal[i]) \in StartTime - SeedSpan .. MaxTime

\* The index, which cancel trusts, and the two price maps describe the same
\* orders: each resting order is indexed at the side and price it rests at,
\* nothing else is indexed, and no order rests twice (orderbook.rs, index).
IndexMatchesLevels ==
  /\ \A p \in Places(book) :
       LET o == OrderAt(book, p)
       IN  o.id \in DOMAIN book.index /\ book.index[o.id] = <<p[1], p[2]>>
  /\ DOMAIN book.index = {OrderAt(book, p).id : p \in Places(book)}
  /\ Cardinality(Places(book)) = Cardinality(DOMAIN book.index)

\* Whatever was submitted and cancelled, validate finds nothing to report in the
\* live book: it is not crossed, no level is empty or without quantity, and the
\* levels are in strict order.
LiveBookValid == ValidationErrors(book) = {}

\* No quantity is invented or lost between the journal, the trade log and the
\* book.  An order never trades more than it asked for; while it rests, what it
\* traded and what is left add up; and a good-till-cancelled limit order that is
\* off the book without having been cancelled was filled, up to Eps.
QuantityConserved ==
  \A i \in SubmittedIn(journal) :
    LET o       == journal[i].order
        filled  == Filled(trade_log, o.id)
        resting == {r \in RestingOrders(book.levels) : r.id = o.id}
    IN  /\ filled <= Max({o.qty, 0})
        /\ \A r \in resting : r.remaining_qty + filled = o.qty
        /\ ShouldRest(o, o.qty) /\ resting = {} /\ ~CancelledAfter(journal, i)
             => o.qty - filled <= Eps

\* A fill-or-kill order trades all of its quantity (up to Eps) or nothing, and
\* never rests: the liquidity check that precedes matching and the matching
\* loop agree about what can be traded.
FillOrKill ==
  \A i \in SubmittedIn(journal) :
    LET o == journal[i].order IN
    o.tif = "FOK" => /\ \/ Filled(trade_log, o.id) = 0
                        \/ o.qty - Filled(trade_log, o.id) <= Eps
                     /\ \A r \in RestingOrders(book.levels) : r.id # o.id

\* The trade log, which only reset clears, numbers the trades 1, 2, 3, ...: the
\* book's counter and the log stay in step across rejections and resets.
TradesNumberedInOrder == \A i \in DOMAIN trade_log : trade_log[i].id = i

\* The engine's parts agree with each other: the index with the levels, the levels
\* with what validate demands, the trade log with the book's counter.
LiveBookSound == IndexMatchesLevels /\ LiveBookValid /\ TradesNumberedInOrder

\* The journal run from the start: the book it leaves, the trades it makes and the
\* book after each event.
RunEvent(r, e) ==
  IF e.kind = "Submit"
    THEN LET s == Submit(r.book, e.order)
         IN  [book   |-> s.book,
              trades |-> r.trades \o s.result.trades,
              live   |-> Append(r.live, s.book)]
    ELSE LET c == CancelOrder(r.book, e.order_id)
         IN  [book |-> c.book, trades |-> r.trades, live |-> Append(r.live, c.book)]

RunFromStart(events) ==
  FoldLeft(RunEvent, [book |-> EmptyBook, trades |-> << >>, live |-> << >>], events)

\* The times the journal's events can carry.
Times == StartTime - SeedSpan .. MaxTime

\* What a journal and a trade log hold once n orders, or n trades, were numbered.
JournalSound(events, n) ==
  /\ events \in Seq(EngineEvent)
  /\ \A i \in DOMAIN events : EventTime(events[i]) \in Times
  /\ \A i \in SubmittedIn(events) : /\ events[i].order.id \in 1 .. n
                                   /\ events[i].order.remaining_qty = events[i].order.qty
  /\ \A i, j \in SubmittedIn(events) : events[i].order.id = events[j].order.id => i = j

TradesSound(trades, n) ==
  trades \in Seq(Trade) /\ n = Len(trades) /\ \A i \in DOMAIN trades : trades[i].id = i

\* What holds of an engine value between operations, and between the orders of a
\* demo history too.
EngineSound(e) ==
  /\ BookSound(e.book)
  /\ e.next_order_id \in Nat /\ DOMAIN e.book.index \subseteq 1 .. e.next_order_id
  /\ JournalSound(e.journal, e.next_order_id)
  /\ TradesSound(e.trade_log, e.book.next_trade_id)
  /\ RunFromStart(e.journal) = [book |-> e.book, trades |-> e.trade_log, live |-> e.live]

\* The inductive invariant.
EngineInv == EngineSound(Current) /\ now \in StartTime .. MaxTime

\* The engine implements PriceTimeBook: the set of orders on its levels evolves
\* by price-time priority, and every operation returns the outcome promised.
OutcomeView ==
  IF outcome.op = "submit"
    THEN [outcome EXCEPT !.trades =
            [i \in DOMAIN @ |-> [maker_order_id |-> @[i].maker_order_id,
                                 price |-> @[i].price, qty |-> @[i].qty]]]
    ELSE outcome

PriceTime == INSTANCE PriceTimeBook
               WITH resting <- RestingOrders(book.levels),
                    outcome <- OutcomeView

ImplementsPriceTimeBook == PriceTime!Spec

-----------------------------------------------------------------------------
(* Properties of replay.                                                   *)

JournalInTimeOrder ==
  \A i, j \in DOMAIN journal : i < j => EventTime(journal[i]) <= EventTime(journal[j])

\* The book as it stood once the events up to the target had happened.
LiveBookAt(target) ==
  LET n == Cardinality({i \in DOMAIN journal : EventTime(journal[i]) <= target})
  IN  IF n = 0 THEN EmptyBook ELSE live[n]

\* While the journal's timestamps do not decrease, a replay to any time is the
\* live book as it stood at that time, level by level and order by order, with
\* the trades made until then.
ReplayReconstructs ==
  JournalInTimeOrder =>
    \A target \in Times :
      LET r == Replayed(journal, target)
      IN  /\ r.book = LiveBookAt(target)
          /\ IsPrefix(r.trades, trade_log)
          /\ \A i \in DOMAIN trade_log :
               i <= Len(r.trades) <=> trade_log[i].timestamp_ms <= target

\* Even when it re-runs events in an order they never happened in (a demo seeded
\* after trading began, a clock set back), replay ends in a book that validates,
\* whatever the target.
ReplayValidates ==
  \A target \in Times : ReplayTo(journal, target).validation.errors = {}

\* In a replay, in whatever order, an order's trades and what it has left on the
\* replayed book add up to what was submitted.
ReplayConserves ==
  \A target \in Times :
    LET r == Replayed(journal, target) IN
    \A i \in SubmittedIn(journal) :
      LET o      == journal[i].order
          filled == Filled(r.trades, o.id)
      IN  /\ filled <= Max({o.qty, 0})
          /\ EventTime(journal[i]) > target => filled = 0
          /\ \A x \in RestingOrders(r.book.levels) :
               x.id = o.id => x.remaining_qty + filled = o.qty

\* A replay in whatever order is sound: it validates and conserves quantity.
ReplaySound == ReplayValidates /\ ReplayConserves

\* README.md's claim: what a replay to the present shows is the live book.
ReplayToNowIsLive ==
  ReplayTo(journal, now).book = Snapshot(book, SnapshotDepth)

=============================================================================
