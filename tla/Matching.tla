------------------------------- MODULE Matching -------------------------------
(***************************************************************************)
(* OrderBook::submit and OrderBook::cancel (src/src/orderbook.rs), with    *)
(* each turn of submit's loops a step of its own.  The caller holds the    *)
(* engine's lock throughout, so nobody sees the states in between; they    *)
(* are here so that the loops' invariants can be stated and proved, which  *)
(* is what establishes that the book is sound each time the lock is        *)
(* released.                                                               *)
(*                                                                         *)
(* OrderBook, from which this module takes what is not a loop, has the     *)
(* same code as functions from book to book.  Both implement PriceTimeBook.*)
(***************************************************************************)
EXTENDS OrderBook

CONSTANTS
  Templates,   \* the orders that may be submitted
  CancelIds,   \* the identifiers callers try to cancel
  MaxOrders    \* bound on the number of submissions

ASSUME TemplatesAssumption == Templates \subseteq Template
ASSUME CancelIdsAssumption == CancelIds \subseteq Nat

VARIABLES
  levels,          \* bids and asks, by side
  index,           \* where each resting order rests
  next_trade_id,
  next_order_id,   \* the engine's counter, which names the orders
  pc,              \* where submit is
  taker,           \* the order being matched
  trades,          \* what it traded so far
  px,              \* best_px, the level being drained
  filled_ids,      \* makers drained from that level, still in the index
  outcome,         \* what the last operation returned
  before           \* history: the resting orders when submit was entered

bookVars  == <<levels, index, next_trade_id>>
matchVars == <<taker, trades, px, filled_ids, before>>
vars      == <<levels, index, next_trade_id, next_order_id, pc, taker, trades, px,
               filled_ids, outcome, before>>

\* The value of a local variable that is out of scope.
None == "none"

NoOutcome == [op |-> "none"]

\* What a caller asked for and the SubmitResult it got.
SubmitOutcome(order, result, accepted, resting_qty) ==
  [op |-> "submit", order_id |-> order.id, asked |-> Asked(order), trades |-> result,
   accepted |-> accepted, resting_qty |-> resting_qty]

\* The side the taker trades against.
Across == Opposite(taker.side)

-----------------------------------------------------------------------------

Init ==
  /\ levels = [s \in Side |-> << >>]
  /\ index = << >>
  /\ next_trade_id = 0
  /\ next_order_id = 0
  /\ pc = "idle"
  /\ taker = None
  /\ trades = << >>
  /\ px = None
  /\ filled_ids = {}
  /\ outcome = NoOutcome
  /\ before = {}

\* The engine names the order and submit begins; matching starts unless the
\* order is fill-or-kill and the liquidity check fails.
Accept(t) ==
  LET order == MakeOrder(next_order_id + 1, t, 0)
  IN  /\ pc = "idle" /\ next_order_id < MaxOrders
      /\ order.tif = "FOK" => AvailableLiquidity(levels, order) >= order.qty
      /\ next_order_id' = next_order_id + 1
      /\ taker' = order
      /\ before' = RestingOrders(levels)
      /\ pc' = "match"
      /\ UNCHANGED <<bookVars, trades, px, filled_ids, outcome>>

RejectFok(t) ==
  LET order == MakeOrder(next_order_id + 1, t, 0)
  IN  /\ pc = "idle" /\ next_order_id < MaxOrders
      /\ order.tif = "FOK" /\ AvailableLiquidity(levels, order) < order.qty
      /\ next_order_id' = next_order_id + 1
      /\ outcome' = SubmitOutcome(order, << >>, FALSE, 0)
      /\ UNCHANGED <<bookVars, pc, matchVars>>

\* Mutant of OpenLevel: any level the taker crosses will do.
OpenLevelAny(p) ==
  /\ pc = "match" /\ taker.remaining_qty > Eps
  /\ p \in DOMAIN levels[Across]
  /\ Crosses(taker, p)
  /\ px' = p
  /\ pc' = "drain"
  /\ UNCHANGED <<bookVars, next_order_id, taker, trades, filled_ids, outcome, before>>

\* The outer loop takes the best level left, if the taker crosses it.
OpenLevel(p) ==
  /\ pc = "match" /\ taker.remaining_qty > Eps
  /\ p \in DOMAIN levels[Across]
  /\ \A q \in DOMAIN levels[Across] : q = p \/ Better(Across, p, q)
  /\ Crosses(taker, p)
  /\ px' = p
  /\ pc' = "drain"
  /\ UNCHANGED <<bookVars, next_order_id, taker, trades, filled_ids, outcome, before>>

\* The inner loop trades with the maker at the front of the level.
Fill ==
  LET queue    == levels[Across][px]
      maker    == Head(queue)
      fill_qty == IF taker.remaining_qty <= maker.remaining_qty
                    THEN taker.remaining_qty ELSE maker.remaining_qty
      left     == maker.remaining_qty - fill_qty
      trade    == [id |-> next_trade_id + 1, maker_order_id |-> maker.id,
                   taker_order_id |-> taker.id, price |-> px, qty |-> fill_qty,
                   timestamp_ms |-> taker.timestamp_ms]
      filled   == left <= Eps
  IN  /\ pc = "drain" /\ taker.remaining_qty > Eps /\ queue # << >>
      /\ taker' = [taker EXCEPT !.remaining_qty = @ - fill_qty]
      /\ next_trade_id' = next_trade_id + 1
      /\ trades' = Append(trades, trade)
      /\ levels' = [levels EXCEPT ![Across][px] =
                      IF filled THEN Tail(queue)
                                ELSE [queue EXCEPT ![1].remaining_qty = left]]
      /\ filled_ids' = IF filled THEN filled_ids \cup {maker.id} ELSE filled_ids
      /\ UNCHANGED <<index, next_order_id, pc, px, outcome, before>>

\* Mutants of CloseLevel: the filled makers stay in the index; the empty level
\* stays in the book.
CloseLevelKeepsIndex ==
  /\ pc = "drain"
  /\ taker.remaining_qty <= Eps \/ levels[Across][px] = << >>
  /\ levels' = IF levels[Across][px] = << >>
                 THEN [levels EXCEPT ![Across] = Without(@, {px})]
                 ELSE levels
  /\ px' = None
  /\ filled_ids' = {}
  /\ pc' = "match"
  /\ UNCHANGED <<index, next_trade_id, next_order_id, taker, trades, outcome, before>>

CloseLevelKeepsLevel ==
  /\ pc = "drain"
  /\ taker.remaining_qty <= Eps \/ levels[Across][px] = << >>
  /\ index' = Without(index, filled_ids)
  /\ px' = None
  /\ filled_ids' = {}
  /\ pc' = "match"
  /\ UNCHANGED <<levels, next_trade_id, next_order_id, taker, trades, outcome, before>>

\* The inner loop is over: the filled makers leave the index, an empty level
\* leaves the book.
CloseLevel ==
  /\ pc = "drain"
  /\ taker.remaining_qty <= Eps \/ levels[Across][px] = << >>
  /\ index' = Without(index, filled_ids)
  /\ levels' = IF levels[Across][px] = << >>
                 THEN [levels EXCEPT ![Across] = Without(@, {px})]
                 ELSE levels
  /\ px' = None
  /\ filled_ids' = {}
  /\ pc' = "match"
  /\ UNCHANGED <<next_trade_id, next_order_id, taker, trades, outcome, before>>

\* The outer loop is over: the taker has what it wanted, or there is no level
\* left, or the best one (hence every one) is beyond the taker's limit.  What is
\* left of the order rests or is dropped, and submit returns.
Finish ==
  LET left  == taker.remaining_qty
      rests == ShouldRest(taker, left)
      queue == IF taker.price \in DOMAIN levels[taker.side]
                 THEN levels[taker.side][taker.price] ELSE << >>
  IN  /\ pc = "match"
      /\ left <= Eps \/ \A p \in DOMAIN levels[Across] : ~Crosses(taker, p)
      /\ levels' = IF rests
                     THEN [levels EXCEPT ![taker.side] =
                             With(@, taker.price, Append(queue, taker))]
                     ELSE levels
      /\ index' = IF rests THEN With(index, taker.id, Place(taker))
                           ELSE index
      /\ outcome' = SubmitOutcome(taker, trades, TRUE, IF rests THEN left ELSE 0)
      /\ pc' = "idle"
      /\ taker' = None
      /\ trades' = << >>
      /\ before' = {}
      /\ UNCHANGED <<next_trade_id, next_order_id, px, filled_ids>>

\* Mutants of Retain: swap_remove, which fills the gap with the last order;
\* pop_front.
RetainSwapped(queue, id) ==
  LET n == Len(queue)
      k == SelectInSeq(queue, LAMBDA o : o.id = id)
  IN  [i \in 1 .. n - 1 |-> IF i = k THEN queue[n] ELSE queue[i]]

RetainAllButFirst(queue, id) == Tail(queue)

\* retain(|o| o.id != id): an identifier occurs at most once in a level.
Retain(queue, id) == RemoveFirstMatch(queue, LAMBDA o : o.id = id)

CancelUnknown(id) ==
  /\ pc = "idle" /\ id \notin DOMAIN index
  /\ outcome' = [op |-> "cancel", order_id |-> id, found |-> FALSE]
  /\ UNCHANGED <<bookVars, next_order_id, pc, matchVars>>

CancelResting(id) ==
  LET side == index[id][1]
      p    == index[id][2]
      kept == Retain(levels[side][p], id)
  IN  /\ pc = "idle" /\ id \in DOMAIN index
      /\ index' = Without(index, {id})
      /\ levels' = IF p \notin DOMAIN levels[side] THEN levels
                   ELSE [levels EXCEPT ![side] =
                           IF kept = << >> THEN Without(@, {p}) ELSE With(@, p, kept)]
      /\ outcome' = [op |-> "cancel", order_id |-> id,
                     found |-> p \in DOMAIN levels[side]]
      /\ UNCHANGED <<next_trade_id, next_order_id, pc, matchVars>>

\* One more step of a submit under way.
Continue == (\E p \in Price : OpenLevel(p)) \/ Fill \/ CloseLevel \/ Finish

Next ==
  \/ \E t \in Templates : Accept(t) \/ RejectFok(t)
  \/ Continue
  \/ \E id \in CancelIds : CancelUnknown(id) \/ CancelResting(id)

Spec == Init /\ [][Next]_vars

\* submit runs to its end: nothing it does can block.
FairSpec == Spec /\ WF_vars(Continue)

-----------------------------------------------------------------------------
(* The invariants of the loops.                                            *)

TypeOK ==
  /\ DOMAIN levels = Side
  /\ \A s \in Side : /\ DOMAIN levels[s] \subseteq Price
                     /\ levels[s] \in [DOMAIN levels[s] -> Seq(Order)]
  /\ DOMAIN index \subseteq Nat /\ index \in [DOMAIN index -> Side \X Price]
  /\ next_trade_id \in Nat /\ next_order_id \in Nat
  /\ pc \in {"idle", "match", "drain"}
  /\ taker \in IF pc = "idle" THEN {None} ELSE Order
  /\ px \in IF pc = "drain" THEN Price ELSE {None}
  /\ trades \in Seq(Trade)
  /\ filled_ids \subseteq Nat

\* While a level is drained it is the best of its side and the taker crosses it;
\* outside, nothing waits to leave the index.
DrainsBestLevel ==
  IF pc = "drain"
    THEN /\ px \in DOMAIN levels[Across]
         /\ \A q \in DOMAIN levels[Across] : q = px \/ Better(Across, px, q)
         /\ Crosses(taker, px)
    ELSE filled_ids = {}

\* What rests belongs where it rests, is a good-till-cancelled limit order, is
\* more than dust, and is older than the order being matched.
RestingSound ==
  \A s \in Side : \A p \in DOMAIN levels[s] : \A i \in 1 .. Len(levels[s][p]) :
    LET o == levels[s][p][i]
    IN  /\ o.side = s /\ o.price = p
        /\ ShouldRest(o, o.remaining_qty)
        /\ o.id <= next_order_id
        /\ pc # "idle" => o.id # taker.id

\* A level is empty only while it is drained.
NoEmptyLevel ==
  \A s \in Side : \A p \in DOMAIN levels[s] :
    levels[s][p] = << >> => pc = "drain" /\ s = Across /\ p = px

\* Within a level the orders stand in the order they were submitted: time
\* priority, which push_back, pop_front and retain must keep between them.
TimePriority ==
  \A s \in Side : \A p \in DOMAIN levels[s] : \A i, j \in 1 .. Len(levels[s][p]) :
    i < j => levels[s][p][i].id < levels[s][p][j].id

\* The index sends every resting order to the level it rests in ...
RestingIndexed ==
  \A s \in Side : \A p \in DOMAIN levels[s] : \A i \in 1 .. Len(levels[s][p]) :
    LET id == levels[s][p][i].id
    IN  id \in DOMAIN index /\ index[id] = <<s, p>>

\* ... and knows no other order, except those the inner loop has just filled,
\* which came before everything left in the level.
RestsAt(id, s, p) ==
  p \in DOMAIN levels[s] /\ \E i \in 1 .. Len(levels[s][p]) : levels[s][p][i].id = id

FilledIndexed ==
  \A id \in filled_ids :
    /\ id \in DOMAIN index /\ index[id] = <<Across, px>>
    /\ \A i \in 1 .. Len(levels[Across][px]) : id < levels[Across][px][i].id

IndexedRests ==
  \A id \in DOMAIN index : id \in filled_ids \/ RestsAt(id, index[id][1], index[id][2])

\* The book is not crossed, at any turn of any loop: every bid is below every ask.
Uncrossed ==
  \A bid \in DOMAIN levels["Buy"], ask \in DOMAIN levels["Sell"] : bid < ask

TakerSound ==
  pc # "idle" => taker.id = next_order_id /\ taker.remaining_qty <= taker.qty

\* What a submission trades, it trades within its limit and at the best prices
\* first: no trade is at a price beaten by a level still on the book or by a
\* later trade of the same submission.
TradesBestFirst ==
  \A i \in 1 .. Len(trades) :
    LET price == trades[i].price
    IN  /\ Crosses(taker, price) /\ trades[i].qty > 0
        /\ \A q \in DOMAIN levels[Across] : q = price \/ Better(Across, price, q)
        /\ \A j \in i .. Len(trades) :
             trades[j].price = price \/ Better(Across, price, trades[j].price)

\* What cancel relies on: in between operations the index and the levels describe
\* the same orders.
IndexSound ==
  /\ RestingIndexed
  /\ pc = "idle" => \A id \in DOMAIN index : RestsAt(id, index[id][1], index[id][2])

\* The inductive invariant.
MatchInv ==
  /\ TypeOK
  /\ DrainsBestLevel
  /\ RestingSound
  /\ NoEmptyLevel
  /\ TimePriority
  /\ RestingIndexed
  /\ FilledIndexed
  /\ IndexedRests
  /\ Uncrossed
  /\ TakerSound
  /\ (trades = << >> \/ pc # "idle")
  /\ TradesBestFirst

-----------------------------------------------------------------------------

\* Every submit returns: no turn of the loops leaves the matching where it was.
SubmitReturns == pc # "idle" ~> pc = "idle"

\* Seen only between operations, the loops implement PriceTimeBook.
PriceTime ==
  INSTANCE PriceTimeBook
    WITH SeedScript    <- << >>,
         Times         <- {0},
         resting       <- IF pc = "idle" THEN RestingOrders(levels) ELSE before,
         next_order_id <- IF pc = "idle" THEN next_order_id ELSE next_order_id - 1,
         outcome       <- IF outcome.op = "submit"
                            THEN [outcome EXCEPT !.trades =
                                   [i \in DOMAIN @ |->
                                      [maker_order_id |-> @[i].maker_order_id,
                                       price |-> @[i].price, qty |-> @[i].qty]]]
                            ELSE outcome

ImplementsPriceTimeBook == PriceTime!Spec

=============================================================================
