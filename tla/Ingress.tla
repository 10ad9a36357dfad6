------------------------------- MODULE Ingress -------------------------------
(***************************************************************************)
(* The numbers of the orders that src/src/bridge.rs makes up or passes on, *)
(* and what src/src/publisher.rs makes of them for Aeron: fixed-point      *)
(* ticks in unsigned integers.  Prices and quantities, f64 in the code,    *)
(* are in thousandths here, and a tick is a hundredth.  (The prices of a   *)
(* prefill are hundredths up to an error of 1e-13, far below half a tick.) *)
(***************************************************************************)
EXTENDS Integers, FiniteSetsExt

CONSTANTS
  Kinds,           \* of prefills
  Mids, Offsets,   \* the random walk of the stream: a sample of its positions, of the
  Draws,           \* offsets it draws, and of the hundredths of a quantity
  ClientOrders     \* [side, price, qty]: what clients submit, not validated

ASSUME KindsAssumption == Kinds \subseteq {"Dense", "Sparse", "HighSpread", "LowSpread"}
ASSUME WalkAssumption  == /\ Mids \subseteq {m \in Nat : 50000 <= m /\ m <= 500000}
                          /\ Offsets \subseteq -1000 .. 2000 /\ Draws \subseteq 0 .. 900
ASSUME ClientAssumption == ClientOrders \subseteq [side : {"Buy", "Sell"}, price : Int, qty : Int]

\* PRICE_SCALE and QTY_SCALE: how many thousandths a tick has.
Scale == 10

\* Rounded to the nearest tick, and nothing below zero.  (A decimal half of a tick
\* may go either way in f64; the instance has none.)
ToTicks(v) == (Max({v, 0}) + Scale \div 2) \div Scale

\* Mutant of PriceTicks: prices are rounded away from the market.
PriceTicksAway(order) ==
  IF order.side = "Buy" THEN order.price \div Scale ELSE (order.price + Scale - 1) \div Scale
PriceTicks(order) == ToTicks(order.price)

\* to_ingress_model's numbers, beside the order; from says who made it.
Ticked(order, from) ==
  [from |-> from, order |-> order, side |-> IF order.side = "Buy" THEN "Bid" ELSE "Ask",
   price |-> PriceTicks(order), qty |-> ToTicks(order.qty)]

-----------------------------------------------------------------------------
(* The orders.                                                             *)

Mid == 100000

\* Mutant of Gap: the first level is level 0.
GapFromZero(kind, i) == (i - 1) * 100

\* How far from the middle the i-th level of a prefill is, and its quantity.
Levels(kind) == CASE kind = "Sparse" -> 50 [] kind = "HighSpread" -> 100 [] OTHER -> 200

Gap(kind, i) == CASE kind = "Dense"      -> i * 100
                  [] kind = "Sparse"     -> i * 2000
                  [] kind = "HighSpread" -> 5000 + (i - 1) * 1000
                  [] kind = "LowSpread"  -> i * 10

Quantity(kind, i) == 1000 * CASE kind = "Dense"      -> 10 + ((200 - i + 1) % 20)
                              [] kind = "Sparse"     -> (i % 3) + 1
                              [] kind = "HighSpread" -> (i % 4) + 2
                              [] kind = "LowSpread"  -> 15 + ((200 - i + 1) % 15)

\* A buy and a sell at each level, from the middle outwards.
PrefillOrder(kind, n) ==
  LET i == (n + 1) \div 2
  IN  [side  |-> IF n % 2 = 1 THEN "Buy" ELSE "Sell",
       price |-> IF n % 2 = 1 THEN Mid - Gap(kind, i) ELSE Mid + Gap(kind, i),
       qty   |-> Quantity(kind, i)]

\* An order of the stream: around the walk's position, in hundredths.
RandomOrder(side, mid, offset, draw) ==
  [side  |-> side,
   price |-> 10 * ToTicks(Max({10, IF side = "Buy" THEN mid - offset ELSE mid + offset})),
   qty   |-> 10 * (1 + draw)]

RandomOrders ==
  {RandomOrder(side, mid, offset, draw) :
     side \in {"Buy", "Sell"}, mid \in Mids, offset \in Offsets, draw \in Draws}

\* All that a maker of orders may publish.
Makers == {"prefill", "stream", "client"}

Made(maker) ==
  CASE maker = "prefill" ->
         UNION {{Ticked(PrefillOrder(k, n), k) : n \in 1 .. 2 * Levels(k)} : k \in Kinds}
    [] maker = "stream" -> {Ticked(o, "stream") : o \in RandomOrders}
    [] maker = "client" -> {Ticked(o, "client") : o \in ClientOrders}

-----------------------------------------------------------------------------
(* The makers, or pairs of makers, for all of whose orders something holds. *)

Crosses(bid, ask)  == bid.price >= ask.price
Side(maker, which) == {o \in Made(maker) : o.side = which}

\* Whatever trades at the prices the orders were given trades at the ticks published:
\* the rounding moves no bid below an ask.  (It may move one up to an ask.)
CrossingKept ==
  {m \in {<<a, b>> : a, b \in Makers} :
     \A bid \in Side(m[1], "Bid"), ask \in Side(m[2], "Ask") :
       Crosses(bid.order, ask.order) => Crosses(bid, ask)}

\* What an acknowledgement shows, the order's own numbers, is what was published, to
\* half a tick; exactly, for orders the bridge made up; and unless it is negative.
AckShowsWire ==
  {maker \in Makers :
     \A o \in Made(maker) :
       LET off(v, ticks)  == v - 10 * ticks
           near(v, ticks) == IF v < 0 THEN ticks = 0
                             ELSE IF maker = "client" THEN off(v, ticks) \in -5 .. 5
                             ELSE off(v, ticks) = 0
       IN  near(o.order.price, o.price) /\ near(o.order.qty, o.qty)}

\* No order the bridge makes up loses its quantity on the way.
QuantityPositive ==
  {maker \in Makers : maker = "client" \/ \A o \in Made(maker) : o.qty > 0}

\* No two orders of any prefills cross, clamped or not.
PrefillsDoNotTrade ==
  \A bid \in Side("prefill", "Bid"), ask \in Side("prefill", "Ask") : ~Crosses(bid, ask)

\* The levels of a prefill stay apart on the wire, but for those whose price is zero
\* or negative: they all become bids at zero (the last of a HighSpread, from 96 on).
LevelsStayApart ==
  \A kind \in Kinds : \A o, p \in {q \in Made("prefill") : q.from = kind} :
    o.side = p.side /\ o.price = p.price /\ o.order # p.order
      => o.price = 0 /\ o.order.price <= 0 /\ p.order.price <= 0
=============================================================================
