----------------------------- MODULE MCMatching -----------------------------
(* Matching on small instances.                                            *)
EXTENDS Matching

Limit(side, tif, p, qty) ==
  [side |-> side, order_type |-> "Limit", tif |-> tif, price |-> p, qty |-> qty]
MarketOrder(side, tif, qty) ==
  [side |-> side, order_type |-> "Market", tif |-> tif, price |-> 1, qty |-> qty]

MCPrice == {1, 2}
MCQty   == {-1, 1, 2, 3, 4, 6}

\* Makers at two prices per side, takers of every kind that can sweep both
\* levels, an order that is only dust and one of negative quantity.
MCTemplates ==
  {Limit(s, "GTC", p, q) : s \in Side, p \in MCPrice, q \in {2, 4}}
    \cup {Limit("Buy", "IOC", 2, 3), Limit("Buy", "FOK", 1, 4), Limit("Sell", "FOK", 1, 6),
          Limit("Sell", "GTC", 1, 3), MarketOrder("Sell", "IOC", 6),
          Limit("Buy", "GTC", 2, 1), Limit("Sell", "FOK", 1, -1)}

MCCancelIds == {1, 2, 5}
=============================================================================
