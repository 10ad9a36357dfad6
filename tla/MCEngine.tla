------------------------------ MODULE MCEngine ------------------------------
(* Engine on small instances.                                              *)
EXTENDS Engine

Limit(side, tif, px, qty) ==
  [side |-> side, order_type |-> "Limit", tif |-> tif, price |-> px, qty |-> qty]
MarketOrder(side, tif, qty) ==
  [side |-> side, order_type |-> "Market", tif |-> tif, price |-> 1, qty |-> qty]

MCPrice == {1, 2}
MCQty   == {-1, 1, 2, 3, 4, 6}

\* Good-till-cancelled orders of both sides at both prices, takers of every other
\* kind, and a quantity the code should refuse but does not.  A taker of 3 leaves
\* dust of a maker of 4, one of 6 takes two makers or two levels; the fill-or-kill
\* orders are killed for want of quantity or, at price 1, because of their limit.
MCTemplates ==
  {Limit("Buy", "GTC", 1, 2), Limit("Buy", "GTC", 2, 1), Limit("Buy", "GTC", 2, 2),
   Limit("Buy", "GTC", 2, 4), Limit("Sell", "GTC", 1, 3), Limit("Sell", "GTC", 1, 4),
   Limit("Sell", "GTC", 2, 4), Limit("Buy", "IOC", 2, 3), Limit("Buy", "FOK", 1, 6),
   Limit("Buy", "FOK", 2, 6), Limit("Sell", "FOK", 1, -1),
   MarketOrder("Sell", "IOC", 6), MarketOrder("Buy", "GTC", 3)}

MCCancelIds == {2, 4}

\* Few of these, for the runs in which time varies: makers on both sides, takers
\* with and without a limit and a fill-or-kill order.
ReplayTemplates ==
  {Limit("Buy", "GTC", 1, 2), Limit("Buy", "GTC", 2, 4), Limit("Sell", "GTC", 1, 3),
   Limit("Sell", "GTC", 2, 4), Limit("Buy", "FOK", 2, 6), MarketOrder("Sell", "IOC", 6)}

ReplayCancelIds == {2}

\* A maker at the touch and a taker, as in the demo's script.
ReplayScript == <<Limit("Sell", "GTC", 2, 3), Limit("Buy", "IOC", 2, 2)>>

\* Two instances in one: all the orders at one time, or the few at any times.
TemplateOf(o) == [f \in {"side", "order_type", "tif", "price", "qty"} |-> o[f]]

AtOneTime == now = StartTime /\ \A i \in DOMAIN journal : EventTime(journal[i]) = now

OfFewOrders ==
  \A i \in DOMAIN journal :
    IF journal[i].kind = "Submit"
      THEN TemplateOf(journal[i].order) \in ReplayTemplates \cup ToSet(ReplayScript)
      ELSE journal[i].order_id \in ReplayCancelIds

OrdersOrTimes == AtOneTime \/ OfFewOrders
=============================================================================
