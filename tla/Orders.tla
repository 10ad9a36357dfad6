------------------------------- MODULE Orders -------------------------------
(***************************************************************************)
(* The data of src/src/order.rs: sides, order types, times in force,       *)
(* orders, trades and the events of the engine's journal.                  *)
(*                                                                         *)
(* Prices and quantities are f64 in the code.  Here both are integers: a   *)
(* price is a tick, a quantity a number of units.  The code never tests a  *)
(* quantity for zero, it compares with 1e-9; Eps is that threshold in      *)
(* units.  With Eps = 0 the arithmetic is exact; with Eps > 0 the model    *)
(* reaches the states in which a remainder too small to count ("dust") is  *)
(* dropped by the matching loop.  The code checks neither the sign nor the *)
(* size of a quantity, so Qty may hold zero and negative numbers.          *)
(***************************************************************************)
EXTENDS Integers, Sequences

CONSTANTS
  Price,   \* the prices orders may carry
  Qty,     \* the quantities orders may carry
  Eps      \* 1e-9, in units of quantity

ASSUME PriceAssumption == Price \subseteq Int
ASSUME QtyAssumption   == Qty \subseteq Int
ASSUME EpsAssumption   == Eps \in Nat

Side        == {"Buy", "Sell"}
OrderType   == {"Limit", "Market"}
TimeInForce == {"GTC", "IOC", "FOK"}

Opposite(side) == IF side = "Buy" THEN "Sell" ELSE "Buy"

\* What a client, the generator or the demo script chooses of an order; the
\* engine's caller adds the identifier and the time.
Template == [side : Side, order_type : OrderType, tif : TimeInForce,
             price : Price, qty : Qty]

Order == [id : Nat, side : Side, order_type : OrderType, tif : TimeInForce,
          price : Price, qty : Qty, remaining_qty : Int, timestamp_ms : Int]

Trade == [id : Nat, maker_order_id : Nat, taker_order_id : Nat,
          price : Price, qty : Int, timestamp_ms : Int]

MakeOrder(id, t, now) ==
  [id |-> id, side |-> t.side, order_type |-> t.order_type, tif |-> t.tif,
   price |-> t.price, qty |-> t.qty, remaining_qty |-> t.qty,
   timestamp_ms |-> now]

\* What was asked for when the order was submitted.
Asked(order) == [side |-> order.side, order_type |-> order.order_type, tif |-> order.tif,
                 price |-> order.price, qty |-> order.qty]

\* The two kinds of journal entries and the timestamp of each.
SubmitEvent(order)   == [kind |-> "Submit", order |-> order]
CancelEvent(id, now) == [kind |-> "Cancel", order_id |-> id, timestamp_ms |-> now]

EngineEvent == [kind : {"Submit"}, order : Order]
                 \cup [kind : {"Cancel"}, order_id : Nat, timestamp_ms : Int]

EventTime(e) == IF e.kind = "Submit" THEN e.order.timestamp_ms ELSE e.timestamp_ms

-----------------------------------------------------------------------------

\* The order in which one side of a book is matched: the highest bid and the
\* lowest ask come first.
Better(side, p, q) == IF side = "Buy" THEN p > q ELSE p < q

\* Mutant of Crosses: the limit itself is out of bounds.
CrossesStrictly(taker, px) ==
  \/ taker.order_type = "Market"
  \/ taker.side = "Buy"  /\ px < taker.price
  \/ taker.side = "Sell" /\ px > taker.price

\* A taker may trade at price px: a market order anywhere, a limit order at its
\* own price or better.
Crosses(taker, px) ==
  \/ taker.order_type = "Market"
  \/ taker.side = "Buy"  /\ px <= taker.price
  \/ taker.side = "Sell" /\ px >= taker.price

\* Only a good-till-cancelled limit order with something left goes on the book.
ShouldRest(order, left) ==
  order.order_type = "Limit" /\ order.tif = "GTC" /\ left > Eps

\* What the index holds for a resting order: where it rests.
Place(order) == <<order.side, order.price>>

=============================================================================
