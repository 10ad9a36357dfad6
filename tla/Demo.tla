--------------------------------- MODULE Demo ---------------------------------
(***************************************************************************)
(* The demo history of src/src/demo.rs, order by order, with prices in     *)
(* cents and quantities in tenths: the one journal of the program whose    *)
(* content is known in advance, and what its replay slider is made for.    *)
(***************************************************************************)
EXTENDS Engine

Gtc(side, price, qty) ==
  [side |-> side, order_type |-> "Limit", tif |-> "GTC", price |-> price, qty |-> qty]
Now(side, type, tif, price, qty) ==
  [side |-> side, order_type |-> type, tif |-> tif, price |-> price, qty |-> qty]

DemoScript ==
  <<Gtc("Sell", 10100, 50), Gtc("Sell", 10150, 80), Gtc("Sell", 10200, 30),
    Gtc("Buy", 9900, 40), Gtc("Buy", 9850, 60), Gtc("Buy", 9800, 100),
    Gtc("Sell", 10050, 20), Gtc("Buy", 9950, 30),
    Now("Buy", "Limit", "IOC", 10060, 15),
    Gtc("Sell", 10300, 70), Gtc("Buy", 9750, 50), Gtc("Sell", 10120, 40),
    Now("Buy", "Market", "IOC", 0, 60),
    Gtc("Sell", 10080, 35), Gtc("Buy", 9920, 25), Gtc("Sell", 10180, 60),
    Gtc("Buy", 9880, 45),
    Now("Sell", "Market", "IOC", 0, 50),
    Gtc("Buy", 9970, 30), Gtc("Sell", 10250, 20),
    Now("Buy", "Limit", "FOK", 10100, 80),
    Gtc("Sell", 10020, 40), Gtc("Buy", 9700, 90), Gtc("Sell", 10350, 30)>>

DemoPrices     == {DemoScript[i].price : i \in DOMAIN DemoScript}
DemoQuantities == {DemoScript[i].qty : i \in DOMAIN DemoScript}

\* Everything the demo submits, submitted again by a client.
DemoTemplates == ToSet(DemoScript)

-----------------------------------------------------------------------------

\* The demo's events: it is stamped in the past, clients' events now.
DemoEvents == SelectSeq(journal, LAMBDA e : EventTime(e) < now)

SeededOnce == Len(DemoEvents) = Len(DemoScript)

EachOrderShows(events, shown) ==
  \A i \in 2 .. Len(events) :
    \/ shown[i].book # shown[i - 1].book
    \/ events[i].order.tif = "FOK" /\ Len(shown[i].trades) = Len(shown[i - 1].trades)

\* README.md: the demo is there "so there's something to actually scrub through
\* on the replay slider".  Each of its orders changes what a replay shows, except
\* a fill-or-kill order that is killed; also where a client has submitted or
\* cancelled something before the demo was seeded, or does so after.
DemoScrubs ==
  SeededOnce =>
    LET demo == DemoEvents
    IN  EachOrderShows(demo, [i \in DOMAIN demo |-> ReplayTo(journal, EventTime(demo[i]))])

===============================================================================
