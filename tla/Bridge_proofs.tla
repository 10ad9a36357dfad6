----------------------------- MODULE Bridge_proofs -----------------------------
(***************************************************************************)
(* Proofs about Bridge and Ingress, for every set of clients and of        *)
(* commands, every number of retries, size of a prefill and capacity of    *)
(* the channel, every bound on what clients do; and for every order a      *)
(* client may send, every position of the random walk, offset and quantity *)
(* of the stream, and all kinds of prefills.                               *)
(***************************************************************************)
EXTENDS BridgeInvariant, SequenceLemmas

-----------------------------------------------------------------------------
(* The numbers of the orders: Ingress.                                     *)

\* A value in ticks is the nearest one, zero for what is not positive, exact for what is a
\* number of hundredths, and never smaller for a larger value.
LEMMA Rounded ==
  ASSUME NEW v \in Int
  PROVE  /\ ToTicks(v) \in Nat
         /\ v <= 0 => ToTicks(v) = 0
         /\ v >= 0 => 10 * ToTicks(v) <= v + 5 /\ v - 4 <= 10 * ToTicks(v)
<1>1. Max({v, 0}) = IF v >= 0 THEN v ELSE 0
  BY MaxOfTwo
<1>2. ToTicks(v) = (IF v >= 0 THEN v + 5 ELSE 5) \div 10
  <2>1. (Scale \div 2) = 5 /\ Scale = 10
    BY DEF Scale
  <2> QED
    BY <1>1, <2>1 DEF ToTicks
<1> QED
  BY <1>2

LEMMA Monotone ==
  ASSUME NEW v \in Int, NEW w \in Int, v >= w
  PROVE  ToTicks(v) >= ToTicks(w)
<1>1. /\ ToTicks(v) \in Nat /\ ToTicks(w) \in Nat
      /\ v >= 0 => v - 4 <= 10 * ToTicks(v)
      /\ w >= 0 => 10 * ToTicks(w) <= w + 5
      /\ w <= 0 => ToTicks(w) = 0
  BY Rounded
<1> QED
  BY <1>1

LEMMA Exact ==
  ASSUME NEW n \in Int
  PROVE  ToTicks(10 * n) = IF n >= 0 THEN n ELSE 0
<1>1. /\ 10 * n \in Int /\ ToTicks(10 * n) \in Nat
      /\ 10 * n <= 0 => ToTicks(10 * n) = 0
      /\ 10 * n >= 0 => 10 * ToTicks(10 * n) <= 10 * n + 5 /\ 10 * n - 4 <= 10 * ToTicks(10 * n)
  BY Rounded
<1> QED
  BY <1>1

-----------------------------------------------------------------------------
(* The orders.                                                             *)

\* The n-th order of a prefill, in hundredths: at a distance from the middle that grows
\* from level to level, and of a quantity.
LEMMA PrefillNumbers ==
  ASSUME NEW kind \in Kinds, NEW i \in 1 .. Levels(kind)
  PROVE  /\ i \in Nat /\ Gap(kind, i) \in Nat /\ \E q \in Nat : q >= 1 /\ Quantity(kind, i) = 10 * q
         /\ Gap(kind, i) = 10 * (CASE kind = "Dense"      -> i * 10
                                   [] kind = "Sparse"     -> i * 200
                                   [] kind = "HighSpread" -> 500 + (i - 1) * 100
                                   [] kind = "LowSpread"  -> i)
         /\ Gap(kind, i) >= 10
<1>1. kind \in {"Dense", "Sparse", "HighSpread", "LowSpread"}
  BY KindsAssumption
<1>2. i \in Nat /\ i >= 1 /\ i <= 200
  BY <1>1 DEF Levels
<1>3. CASE kind = "Dense"
  <2>1. Gap(kind, i) = i * 100 /\ Quantity(kind, i) = 1000 * (10 + ((200 - i + 1) % 20))
    BY <1>3 DEF Gap, Quantity
  <2>2. ((200 - i + 1) % 20) \in Nat
    BY <1>2
  <2>3. Quantity(kind, i) = 10 * (100 * (10 + ((200 - i + 1) % 20)))
    BY <2>1, <2>2
  <2> QED
    BY <1>2, <1>3, <2>1, <2>2, <2>3
<1>4. CASE kind = "Sparse"
  <2>1. Gap(kind, i) = i * 2000 /\ Quantity(kind, i) = 1000 * ((i % 3) + 1)
    BY <1>4 DEF Gap, Quantity
  <2>2. (i % 3) \in Nat
    BY <1>2
  <2>3. Quantity(kind, i) = 10 * (100 * ((i % 3) + 1))
    BY <2>1, <2>2
  <2> QED
    BY <1>2, <1>4, <2>1, <2>2, <2>3
<1>5. CASE kind = "HighSpread"
  <2>1. Gap(kind, i) = 5000 + (i - 1) * 1000 /\ Quantity(kind, i) = 1000 * ((i % 4) + 2)
    BY <1>5 DEF Gap, Quantity
  <2>2. (i % 4) \in Nat
    BY <1>2
  <2>3. Quantity(kind, i) = 10 * (100 * ((i % 4) + 2))
    BY <2>1, <2>2
  <2> QED
    BY <1>2, <1>5, <2>1, <2>2, <2>3
<1>6. CASE kind = "LowSpread"
  <2>1. Gap(kind, i) = i * 10 /\ Quantity(kind, i) = 1000 * (15 + ((200 - i + 1) % 15))
    BY <1>6 DEF Gap, Quantity
  <2>2. ((200 - i + 1) % 15) \in Nat
    BY <1>2
  <2>3. Quantity(kind, i) = 10 * (100 * (15 + ((200 - i + 1) % 15)))
    BY <2>1, <2>2
  <2> QED
    BY <1>2, <1>6, <2>1, <2>2, <2>3
<1> QED
  BY <1>1, <1>3, <1>4, <1>5, <1>6

\* An order of a prefill as it is published.  (Its level is the same for a buy and a sell.)
LEMMA PrefillMade ==
  ASSUME NEW o \in Made("prefill")
  PROVE  /\ o.from \in Kinds
         /\ \E i \in 1 .. Levels(o.from), buy \in BOOLEAN :
              /\ o.order = [side  |-> IF buy THEN "Buy" ELSE "Sell",
                            price |-> IF buy THEN Mid - Gap(o.from, i) ELSE Mid + Gap(o.from, i),
                            qty   |-> Quantity(o.from, i)]
              /\ o.side = (IF buy THEN "Bid" ELSE "Ask")
              /\ o.price = ToTicks(o.order.price) /\ o.qty = ToTicks(o.order.qty)
<1>1. PICK k \in Kinds : \E n \in 1 .. 2 * Levels(k) : o = Ticked(PrefillOrder(k, n), k)
  BY DEF Made
<1> PICK n \in 1 .. 2 * Levels(k) : o = Ticked(PrefillOrder(k, n), k)
  BY <1>1
<1> DEFINE i == (n + 1) \div 2
           buy == n % 2 = 1
<1>2. Levels(k) \in Nat
  BY DEF Levels
<1>3. i \in 1 .. Levels(k)
  BY <1>2
<1>4. o.from = k /\ o.order = PrefillOrder(k, n)
  BY <1>1 DEF Ticked
<1>5. o.price = ToTicks(o.order.price) /\ o.qty = ToTicks(o.order.qty)
  BY <1>1, <1>4 DEF Ticked, PriceTicks
<1>6. /\ o.order = [side  |-> IF buy THEN "Buy" ELSE "Sell",
                    price |-> IF buy THEN Mid - Gap(k, i) ELSE Mid + Gap(k, i),
                    qty   |-> Quantity(k, i)]
      /\ o.side = (IF buy THEN "Bid" ELSE "Ask")
  BY <1>1, <1>4 DEF Ticked, PrefillOrder
<1>7. buy \in BOOLEAN
  OBVIOUS
<1> HIDE DEF i, buy
<1> QED
  BY <1>3, <1>4, <1>5, <1>6, <1>7

\* The numbers of an order the bridge makes up are hundredths, and its quantity is positive.
LEMMA MadeUp ==
  ASSUME NEW maker \in {"prefill", "stream"}, NEW o \in Made(maker)
  PROVE  /\ \E p \in Int : o.order.price = 10 * p
         /\ \E q \in Nat : o.order.qty = 10 * q /\ q >= 1
         /\ o.price = ToTicks(o.order.price) /\ o.qty = ToTicks(o.order.qty)
         /\ o.side = IF o.order.side = "Buy" THEN "Bid" ELSE "Ask"
<1>1. CASE maker = "prefill"
  <2>1. PICK i \in 1 .. Levels(o.from), buy \in BOOLEAN :
          /\ o.order = [side  |-> IF buy THEN "Buy" ELSE "Sell",
                        price |-> IF buy THEN Mid - Gap(o.from, i) ELSE Mid + Gap(o.from, i),
                        qty   |-> Quantity(o.from, i)]
          /\ o.side = (IF buy THEN "Bid" ELSE "Ask")
          /\ o.price = ToTicks(o.order.price) /\ o.qty = ToTicks(o.order.qty)
    BY <1>1, PrefillMade
  <2>2. /\ \E q \in Nat : q >= 1 /\ Quantity(o.from, i) = 10 * q
        /\ \E g \in Int : Gap(o.from, i) = 10 * g
    <3>1. o.from \in Kinds /\ i \in Nat
      BY <1>1, PrefillMade
    <3>2. \E q \in Nat : q >= 1 /\ Quantity(o.from, i) = 10 * q
      BY <3>1, PrefillNumbers
    <3>3. Gap(o.from, i) = 10 * (CASE o.from = "Dense"      -> i * 10
                                   [] o.from = "Sparse"     -> i * 200
                                   [] o.from = "HighSpread" -> 500 + (i - 1) * 100
                                   [] o.from = "LowSpread"  -> i)
      BY <3>1, PrefillNumbers
    <3>4. (CASE o.from = "Dense"      -> i * 10
             [] o.from = "Sparse"     -> i * 200
             [] o.from = "HighSpread" -> 500 + (i - 1) * 100
             [] o.from = "LowSpread"  -> i) \in Int
      BY <3>1, KindsAssumption
    <3> QED
      BY <3>2, <3>3, <3>4
  <2>3. PICK g \in Int : Gap(o.from, i) = 10 * g
    BY <2>2
  <2>4. o.order.price = 10 * (10000 - g) \/ o.order.price = 10 * (10000 + g)
    BY <2>1, <2>3 DEF Mid
  <2>5. \E p \in Int : o.order.price = 10 * p
    <3>1. 10000 - g \in Int /\ 10000 + g \in Int
      OBVIOUS
    <3>2. CASE o.order.price = 10 * (10000 - g)
      BY <3>1, <3>2
    <3>3. CASE o.order.price = 10 * (10000 + g)
      BY <3>1, <3>3
    <3> QED
      BY <2>4, <3>2, <3>3
  <2> QED
    BY <2>1, <2>2, <2>5
<1>2. CASE maker = "stream"
  <2>1. PICK r \in RandomOrders : o = Ticked(r, "stream")
    BY <1>2 DEF Made
  <2>2. PICK side \in {"Buy", "Sell"}, mid \in Mids, offset \in Offsets, draw \in Draws :
          r = RandomOrder(side, mid, offset, draw)
    BY DEF RandomOrders
  <2>3. mid \in Int /\ offset \in Int /\ draw \in Nat
    BY WalkAssumption
  <2> DEFINE at == IF side = "Buy" THEN mid - offset ELSE mid + offset
  <2>4. at \in Int
    BY <2>3
  <2>5. ToTicks(Max({10, at})) \in Nat
    <3> HIDE DEF at
    <3>1. Max({10, at}) \in Int
      BY <2>4, MaxOfTwo
    <3> QED
      BY <3>1, Rounded
  <2> DEFINE t == ToTicks(Max({10, at}))
  <2>6. r.price = 10 * t /\ r.qty = 10 * (1 + draw)
    BY <2>2 DEF RandomOrder
  <2> HIDE DEF at, t
  <2>7. o.order = r /\ o.price = ToTicks(r.price) /\ o.qty = ToTicks(r.qty)
        /\ o.side = IF r.side = "Buy" THEN "Bid" ELSE "Ask"
    BY <2>1 DEF Ticked, PriceTicks
  <2>8. t \in Int /\ 1 + draw \in Nat /\ 1 + draw >= 1
    BY <2>3, <2>5 DEF t
  <2> QED
    BY <2>6, <2>7, <2>8
<1> QED
  BY <1>1, <1>2

\* Any order that is published.
LEMMA AnyMade ==
  ASSUME NEW maker \in Makers, NEW o \in Made(maker)
  PROVE  /\ o.order.price \in Int /\ o.order.qty \in Int
         /\ o.price = ToTicks(o.order.price) /\ o.qty = ToTicks(o.order.qty)
<1>1. CASE maker = "client"
  <2>1. PICK r \in ClientOrders : o = Ticked(r, "client")
    BY <1>1 DEF Made
  <2> QED
    BY <2>1, ClientAssumption DEF Ticked, PriceTicks
<1>2. CASE maker \in {"prefill", "stream"}
  BY <1>2, MadeUp
<1> QED
  BY <1>1, <1>2 DEF Makers

-----------------------------------------------------------------------------
(* What holds for the orders of all makers.                                *)

\* Rounding to ticks is monotone, so that whatever crosses at the prices of the orders, a
\* bid at or above an ask, crosses at the ticks the bridge publishes.
THEOREM TradesAreKept == CrossingKept = {<<a, b>> : a, b \in Makers}
<1> SUFFICES ASSUME NEW a \in Makers, NEW b \in Makers,
                    NEW bid \in Side(a, "Bid"), NEW ask \in Side(b, "Ask"),
                    bid.order.price >= ask.order.price
             PROVE  bid.price >= ask.price
  BY DEF CrossingKept, Crosses
<1>1. bid \in Made(a) /\ ask \in Made(b)
  BY DEF Side
<1> QED
  BY <1>1, AnyMade, Monotone

\* What an acknowledgement shows is what was published, to half a tick for a client's order
\* and exactly for one the bridge made up, unless it is negative and published as zero.
THEOREM AcksShowTheWire == AckShowsWire = Makers
<1> SUFFICES ASSUME NEW maker \in Makers, NEW o \in Made(maker)
             PROVE  LET off(v, ticks)  == v - 10 * ticks
                        near(v, ticks) == IF v < 0 THEN ticks = 0
                                          ELSE IF maker = "client" THEN off(v, ticks) \in -5 .. 5
                                          ELSE off(v, ticks) = 0
                    IN  near(o.order.price, o.price) /\ near(o.order.qty, o.qty)
  BY DEF AckShowsWire
<1>1. /\ o.order.price \in Int /\ o.order.qty \in Int
      /\ o.price = ToTicks(o.order.price) /\ o.qty = ToTicks(o.order.qty)
  BY AnyMade
<1>2. \A v \in Int : v < 0 => ToTicks(v) = 0
  BY Rounded
<1>3. ASSUME NEW v \in Int, v >= 0
      PROVE  v - 10 * ToTicks(v) \in -5 .. 5
  <2>1. ToTicks(v) \in Nat /\ 10 * ToTicks(v) <= v + 5 /\ v - 4 <= 10 * ToTicks(v)
    BY <1>3, Rounded
  <2> QED
    BY <1>3, <2>1
<1>4. CASE maker = "client"
  BY <1>1, <1>2, <1>3, <1>4
<1>5. CASE maker # "client"
  <2>1. maker \in {"prefill", "stream"}
    BY <1>5 DEF Makers
  <2>2. /\ \E p \in Int : o.order.price = 10 * p
        /\ \E q \in Int : o.order.qty = 10 * q
    BY <2>1, MadeUp
  <2>3. ASSUME NEW n \in Int, 10 * n >= 0
        PROVE  10 * n - 10 * ToTicks(10 * n) = 0
    <3>1. ToTicks(10 * n) = IF n >= 0 THEN n ELSE 0
      BY Exact
    <3> QED
      BY <2>3, <3>1
  <2>4. /\ o.order.price >= 0 => o.order.price - 10 * o.price = 0
        /\ o.order.qty >= 0 => o.order.qty - 10 * o.qty = 0
    BY <1>1, <2>2, <2>3
  <2> QED
    BY <1>1, <1>2, <1>5, <2>4
<1> QED
  BY <1>4, <1>5

\* No order that the bridge makes up itself loses its quantity on the way to the wire.
THEOREM QuantitiesSurvive == QuantityPositive = Makers
<1> SUFFICES ASSUME NEW maker \in Makers, maker # "client", NEW o \in Made(maker)
             PROVE  o.qty > 0
  BY DEF QuantityPositive
<1>1. maker \in {"prefill", "stream"}
  BY DEF Makers
<1>2. PICK q \in Nat : o.order.qty = 10 * q /\ q >= 1 /\ o.qty = ToTicks(o.order.qty)
  BY <1>1, MadeUp
<1>3. ToTicks(10 * q) = IF q >= 0 THEN q ELSE 0
  BY Exact
<1> QED
  BY <1>2, <1>3

\* The orders of prefills, of whatever kinds, never trade with each other: all bids are
\* below the middle and all asks above it.
THEOREM PrefillsNeverTrade == PrefillsDoNotTrade
<1> SUFFICES ASSUME NEW bid \in Made("prefill"), NEW ask \in Made("prefill"),
                    bid.side = "Bid", ask.side = "Ask"
             PROVE  ~(bid.price >= ask.price)
  BY DEF PrefillsDoNotTrade, Side, Crosses
<1>1. ASSUME NEW o \in Made("prefill")
      PROVE  /\ o.order.price \in Int /\ o.price = ToTicks(o.order.price)
             /\ o.side = "Bid" => o.order.price <= 99990
             /\ o.side = "Ask" => o.order.price >= 100010
  <2>1. PICK i \in 1 .. Levels(o.from), buy \in BOOLEAN :
          /\ o.order = [side  |-> IF buy THEN "Buy" ELSE "Sell",
                        price |-> IF buy THEN Mid - Gap(o.from, i) ELSE Mid + Gap(o.from, i),
                        qty   |-> Quantity(o.from, i)]
          /\ o.side = (IF buy THEN "Bid" ELSE "Ask")
          /\ o.price = ToTicks(o.order.price)
    BY PrefillMade
  <2>2. Gap(o.from, i) \in Nat /\ Gap(o.from, i) >= 10
    BY PrefillMade, PrefillNumbers
  <2>3. o.order.price = IF buy THEN 100000 - Gap(o.from, i) ELSE 100000 + Gap(o.from, i)
    BY <2>1 DEF Mid
  <2> QED
    BY <2>1, <2>2, <2>3
<1>2. /\ bid.order.price \in Int /\ bid.price = ToTicks(bid.order.price) /\ bid.order.price <= 99990
      /\ ask.order.price \in Int /\ ask.price = ToTicks(ask.order.price) /\ ask.order.price >= 100010
  BY <1>1
<1>3. ToTicks(99990) = 9999 /\ ToTicks(100010) = 10001
  <2>1. ToTicks(10 * 9999) = 9999 /\ ToTicks(10 * 10001) = 10001
    BY Exact
  <2> QED
    BY <2>1
<1>4. bid.price <= 9999 /\ ask.price >= 10001 /\ bid.price \in Nat /\ ask.price \in Nat
  <2>1. ToTicks(bid.order.price) \in Nat /\ ToTicks(ask.order.price) \in Nat
    <3>1. \A v \in Int : ToTicks(v) \in Nat
      BY Rounded
    <3> QED
      BY <1>2, <3>1
  <2>2. ToTicks(99990) >= ToTicks(bid.order.price)
    BY <1>2, Monotone
  <2>3. ToTicks(ask.order.price) >= ToTicks(100010)
    BY <1>2, Monotone
  <2> QED
    BY <1>2, <1>3, <2>1, <2>2, <2>3
<1> QED
  BY <1>4

\* Two orders of one prefill on one side that are published at one price are both at zero
\* or below: rounding merges no two levels, clamping those that have no price left.
THEOREM LevelsStayDistinct == LevelsStayApart
<1> SUFFICES ASSUME NEW kind \in Kinds, NEW o \in Made("prefill"), NEW p \in Made("prefill"),
                    o.from = kind, p.from = kind,
                    o.side = p.side, o.price = p.price, o.order # p.order
             PROVE  o.price = 0 /\ o.order.price <= 0 /\ p.order.price <= 0
  BY DEF LevelsStayApart
<1>1. PICK i \in 1 .. Levels(kind), buy \in BOOLEAN :
        /\ o.order = [side  |-> IF buy THEN "Buy" ELSE "Sell",
                      price |-> IF buy THEN Mid - Gap(kind, i) ELSE Mid + Gap(kind, i),
                      qty   |-> Quantity(kind, i)]
        /\ o.side = (IF buy THEN "Bid" ELSE "Ask") /\ o.price = ToTicks(o.order.price)
  BY PrefillMade
<1>2. PICK j \in 1 .. Levels(kind), too \in BOOLEAN :
        /\ p.order = [side  |-> IF too THEN "Buy" ELSE "Sell",
                      price |-> IF too THEN Mid - Gap(kind, j) ELSE Mid + Gap(kind, j),
                      qty   |-> Quantity(kind, j)]
        /\ p.side = (IF too THEN "Bid" ELSE "Ask") /\ p.price = ToTicks(p.order.price)
  BY PrefillMade
<1>3. buy = too
  <2>1. (buy => o.side = "Bid") /\ (~buy => o.side = "Ask")
    BY <1>1
  <2>2. (too => p.side = "Bid") /\ (~too => p.side = "Ask")
    BY <1>2
  <2>3. buy <=> too
    BY <2>1, <2>2
  <2> QED
    BY <2>3
<1>4. i # j
  BY <1>1, <1>2, <1>3
<1>5. Gap(kind, i) # Gap(kind, j) /\ Gap(kind, i) \in Nat /\ Gap(kind, j) \in Nat
  <2>1. i \in Nat /\ j \in Nat /\ kind \in {"Dense", "Sparse", "HighSpread", "LowSpread"}
    BY PrefillNumbers, KindsAssumption
  <2>2. Gap(kind, i) # Gap(kind, j)
    BY <1>4, <2>1 DEF Gap
  <2> QED
    BY <2>2, PrefillNumbers
<1>6. o.order.price \in Int /\ p.order.price \in Int /\ o.order.price # p.order.price
  BY <1>1, <1>2, <1>3, <1>5 DEF Mid
<1>7. PICK m \in Int, n \in Int : o.order.price = 10 * m /\ p.order.price = 10 * n
  BY MadeUp
<1>8. /\ o.price = IF m >= 0 THEN m ELSE 0
      /\ p.price = IF n >= 0 THEN n ELSE 0
  BY <1>1, <1>2, <1>7, Exact
<1>9. m # n
  BY <1>6, <1>7
<1>10. o.price = 0 /\ m <= 0 /\ n <= 0
  <2>1. m \in Int /\ n \in Int
    BY <1>7
  <2>2. (IF m >= 0 THEN m ELSE 0) = (IF n >= 0 THEN n ELSE 0)
    BY <1>8
  <2>3. m <= 0 /\ n <= 0
    BY <1>9, <2>1, <2>2
  <2> QED
    BY <1>8, <2>1, <2>3
<1> QED
  BY <1>7, <1>10

-----------------------------------------------------------------------------
(* The publisher thread, its clients and the log: Bridge.                  *)

\* What may be broadcast, put into the channel and accepted by Aeron.
LogMsg  == AckMsg \cup ResultMsg \cup StatsMsg \cup StatusMsg \cup ErrorMsg
Command == QueuedOrder \cup QueuedPrefill
OnWire  == [id : Nat \ {0}, by : Clients \cup {"prefill", "stream"}, seq : Nat]

\* The state orders depend on, but for the handlers and the log.
orderVars == <<next_order_id, next_seq, queue, thread, counters, wire>>

\* A step after which the handlers hold the orders they held, and one that changes
\* nothing else either that orders depend on.
HeldSame == \A c \in Clients : /\ Holds(c)' <=> Holds(c)
                               /\ Holds(c) => handler'[c].held = handler[c].held
Quiet    == HeldSame /\ UNCHANGED <<orderVars, log>>

-----------------------------------------------------------------------------
(* Types.                                                                  *)

LEMMA Limits ==
  /\ MaxRetries \in Nat /\ Capacity \in Nat /\ FirstSeq \in Nat /\ DefaultInterval \in Nat
  /\ MinInterval \in Nat
BY LimitsAssumption

\* What is empty and at rest has its type.
LEMMA RestingTypes ==
  /\ \A n \in Nat : Stats(n) \in StatsMsg /\ Stats(n).asked = n
  /\ Nothing \in StatsMsg /\ Idle \in Handler
  /\ \A flag \in BOOLEAN, i \in Nat : Status(flag, i) \in StatusMsg
  /\ Resting \in Thread /\ Resting.pc = "recv" /\ Resting.job = "none" /\ Resting.todo = << >>
  /\ Resting.build = 0 /\ << >> \in Seq(Order)
<1>1. \A n \in Nat : Stats(n) \in StatsMsg /\ Stats(n).asked = n
  BY Limits DEF Stats, StatsMsg
<1>2. Nothing \in StatsMsg
  BY <1>1 DEF Nothing
<1>3. << >> \in Seq(Order)
  BY EmptySeq
<1>4. Idle \in Handler
  BY <1>2 DEF Idle, Handler, None
<1>5. /\ Resting \in Thread /\ Resting.pc = "recv" /\ Resting.job = "none"
      /\ Resting.todo = << >> /\ Resting.build = 0
  BY <1>3, Limits DEF Resting, Thread
<1> QED
  BY <1>1, <1>2, <1>3, <1>4, <1>5 DEF Status, StatusMsg

\* What the type invariant says of one connection.
LEMMA HandlerType ==
  ASSUME TypeOK, NEW c \in Clients
  PROVE  /\ handler[c] \in Handler /\ handler[c].cmd \in ClientMsg \cup {None}
         /\ handler[c].held \in Order \cup StatsMsg \cup StatusMsg \cup ErrorMsg
         /\ conn[c] \in {"off", "greeting", "on"} /\ since[c] \in Nat /\ cursor[c] \in Nat
         /\ since[c] <= cursor[c] /\ cursor[c] <= Len(log) /\ Len(log) \in Nat
<1>1. log \in Seq(LogMsg)
  BY DEF TypeOK, LogMsg
<1> QED
  BY <1>1, LenProperties DEF TypeOK, Handler

\* What it says of the thread.
LEMMA ThreadType ==
  ASSUME TypeOK
  PROVE  /\ thread \in Thread /\ thread.build \in Nat /\ thread.todo \in Seq(Order)
         /\ thread.retries \in Nat /\ thread.retries <= MaxRetries + 1 /\ thread.sent \in Nat
         /\ thread.total \in Nat /\ thread.result \in {"none", "ok", "failed", "gave_up"}
         /\ thread.job \in {"none", "submit", "prefill", "stream"}
<1>1. thread \in Thread
  BY DEF TypeOK
<1>2. thread.retries \in 0 .. MaxRetries + 1
  BY <1>1 DEF Thread
<1> QED
  BY <1>1, <1>2, Limits DEF Thread

-----------------------------------------------------------------------------
(* The locals: steps of a handler.                                         *)

\* A handler moves on to what fits it; nothing the thread owns changes.
LEMMA HandlerMoves ==
  ASSUME LocalInv, NEW c \in Clients, NEW h \in Handler, handler' = [handler EXCEPT ![c] = h],
         Fits(c, h), conn[c] # "off",
         conn[c] = "greeting" => /\ h.pc \in {"load_sent", "load_errors", "load_streaming",
                                              "load_interval", "say"}
                                 /\ h.held \in StatsMsg /\ h.held.asked = since[c],
         UNCHANGED <<netVars, thread, next_seq>>, Dead => queue' = << >>
  PROVE  /\ HandlersSound' /\ ThreadSound' /\ handler' \in [Clients -> Handler]
         /\ handler'[c] = h /\ \A d \in Clients : d # c => handler'[d] = handler[d]
         /\ ~HasOrder(h) /\ ~Holds(c) => HeldSame
<1> USE DEF LocalInv
<1>1. handler'[c] = h /\ \A d \in Clients : d # c => handler'[d] = handler[d]
  BY DEF TypeOK
<1>2. conn' = conn /\ since' = since /\ thread' = thread
  BY DEF netVars
<1>3. HandlersSound'
  BY <1>1, <1>2 DEF HandlersSound
<1>4. ThreadSound'
  BY <1>2 DEF ThreadSound, Publishing, Dead
<1>5. ASSUME ~HasOrder(h), ~Holds(c) PROVE HeldSame
  BY <1>1, <1>5 DEF HeldSame, Holds
<1>6. handler' \in [Clients -> Handler]
  BY DEF TypeOK
<1> QED
  BY <1>1, <1>3, <1>4, <1>5, <1>6

\* Subscribe, and ask for the statistics of the greeting.
LEMMA ConnectLocal ==
  ASSUME LocalInv, NEW c \in Clients, Connect(c)
  PROVE  LocalInv' /\ Quiet
<1> USE DEF LocalInv
<1> DEFINE h == [Idle EXCEPT !.pc = "load_sent", !.held = Stats(Len(log))]
<1>1. /\ conn[c] = "off" /\ conn' = [conn EXCEPT ![c] = "greeting"] /\ connects' = connects + 1
      /\ cursor' = [cursor EXCEPT ![c] = Len(log)] /\ since' = [since EXCEPT ![c] = Len(log)]
      /\ handler' = [handler EXCEPT ![c] = h]
      /\ UNCHANGED <<next_order_id, next_seq, queue, thread, total_sent, total_errors, wire>>
      /\ UNCHANGED <<streaming, interval, greeting, log, after_stop, commands, streamed>>
  BY DEF Connect, threadVars, counters, switches
<1>2. Len(log) \in Nat /\ handler[c] = Idle
  BY <1>1, HandlerType DEF HandlersSound
<1>3. /\ h \in Handler /\ h.pc = "load_sent" /\ h.held = Stats(Len(log)) /\ h.held \in StatsMsg
      /\ h.held.asked = Len(log)
  BY <1>2, RestingTypes DEF Handler
<1> HIDE DEF h
<1>4. handler'[c] = h /\ \A d \in Clients : d # c => handler'[d] = handler[d]
  BY <1>1 DEF TypeOK
<1>5. TypeOK'
  BY <1>1, <1>2, <1>3 DEF TypeOK
<1>6. HandlersSound'
  <2>1. Fits(c, h)
    BY <1>3 DEF Fits, HasOrder
  <2>2. conn'[c] = "greeting" /\ since'[c] = Len(log)
    BY <1>1 DEF TypeOK
  <2>3. \A d \in Clients : d # c => conn'[d] = conn[d] /\ since'[d] = since[d]
    BY <1>1 DEF TypeOK
  <2> QED
    BY <1>3, <1>4, <2>1, <2>2, <2>3 DEF HandlersSound
<1>7. ThreadSound' /\ StopCounted'
  BY <1>1 DEF ThreadSound, Publishing, Dead, StopCounted
<1>8. HeldSame
  BY <1>2, <1>3, <1>4 DEF HeldSame, Holds, HasOrder, Idle
<1> QED
  BY <1>1, <1>5, <1>6, <1>7, <1>8 DEF Quiet, orderVars, counters

\* The statistics of the greeting are in the socket.
LEMMA GreetedLocal ==
  ASSUME LocalInv, NEW c \in Clients, Greeted(c)
  PROVE  LocalInv' /\ Quiet
<1> USE DEF LocalInv
<1>1. /\ conn[c] = "greeting" /\ handler[c].pc = "say" /\ conn' = [conn EXCEPT ![c] = "on"]
      /\ greeting' = [greeting EXCEPT ![c] = handler[c].held]
      /\ handler' = [handler EXCEPT ![c] = Idle]
      /\ UNCHANGED <<next_order_id, next_seq, queue, thread, total_sent, total_errors, wire>>
      /\ UNCHANGED <<streaming, interval, cursor, since, log, after_stop, commands, connects, streamed>>
  BY DEF Greeted, threadVars, counters, switches, boundVars
<1>2. handler[c].held \in StatsMsg
  BY <1>1 DEF HandlersSound
<1>3. handler'[c] = Idle /\ \A d \in Clients : d # c => handler'[d] = handler[d]
  BY <1>1 DEF TypeOK
<1>4. TypeOK'
  BY <1>1, <1>2, RestingTypes DEF TypeOK
<1>5. HandlersSound'
  <2>1. Fits(c, Idle)
    BY DEF Fits, HasOrder, Idle
  <2>2. conn'[c] = "on" /\ \A d \in Clients : d # c => conn'[d] = conn[d]
    BY <1>1 DEF TypeOK
  <2> QED
    BY <1>1, <1>3, <2>1, <2>2 DEF HandlersSound
<1>6. ThreadSound' /\ StopCounted'
  BY <1>1 DEF ThreadSound, Publishing, Dead, StopCounted
<1>7. HeldSame
  BY <1>1, <1>3 DEF HeldSame, Holds, HasOrder, Idle
<1> QED
  BY <1>1, <1>4, <1>5, <1>6, <1>7 DEF Quiet, orderVars, counters

LEMMA DeliverLocal ==
  ASSUME LocalInv, NEW c \in Clients, Deliver(c)
  PROVE  LocalInv' /\ Quiet
<1> USE DEF LocalInv
<1>1. /\ Len(log) - cursor[c] > 0 /\ cursor' = [cursor EXCEPT ![c] = @ + 1]
      /\ UNCHANGED <<next_order_id, next_seq, queue, thread, total_sent, total_errors, wire>>
      /\ UNCHANGED <<streaming, interval, conn, since, greeting, handler, log, after_stop>>
      /\ UNCHANGED <<commands, connects, streamed>>
  BY DEF Deliver, Unread, threadVars, counters, switches, boundVars
<1>2. TypeOK'
  <2>1. \A d \in Clients : /\ cursor[d] \in Nat /\ since[d] \in Nat /\ since[d] <= cursor[d]
                           /\ cursor[d] <= Len(log) /\ Len(log) \in Nat
    BY HandlerType
  <2>2. cursor'[c] = cursor[c] + 1 /\ \A d \in Clients : d # c => cursor'[d] = cursor[d]
    BY <1>1 DEF TypeOK
  <2>3. cursor' \in [Clients -> Nat]
    BY <1>1, <2>1 DEF TypeOK
  <2>4. \A d \in Clients : since'[d] <= cursor'[d] /\ cursor'[d] <= Len(log')
    BY <1>1, <2>1, <2>2
  <2> QED
    BY <1>1, <2>3, <2>4 DEF TypeOK
<1>3. HandlersSound' /\ ThreadSound' /\ StopCounted' /\ HeldSame
  BY <1>1 DEF HandlersSound, ThreadSound, Publishing, Dead, StopCounted, HeldSame, Holds
<1> QED
  BY <1>1, <1>2, <1>3 DEF Quiet, orderVars, counters

\* A connection ends between two of its messages.
LEMMA CloseLocal ==
  ASSUME LocalInv, NEW c \in Clients, Close(c)
  PROVE  LocalInv' /\ Quiet
<1> USE DEF LocalInv
<1>1. /\ handler[c] = Idle /\ conn' = [conn EXCEPT ![c] = "off"]
      /\ cursor' = [cursor EXCEPT ![c] = 0] /\ since' = [since EXCEPT ![c] = 0]
      /\ greeting' = [greeting EXCEPT ![c] = Nothing]
      /\ UNCHANGED <<next_order_id, next_seq, queue, thread, total_sent, total_errors, wire>>
      /\ UNCHANGED <<streaming, interval, handler, log, after_stop, commands, connects, streamed>>
  BY DEF Close, threadVars, counters, switches, boundVars
<1>2. TypeOK'
  <2>1. \A d \in Clients : since'[d] <= cursor'[d] /\ cursor'[d] <= Len(log')
    BY <1>1, HandlerType DEF TypeOK
  <2> QED
    BY <1>1, <2>1, RestingTypes DEF TypeOK
<1>3. HandlersSound'
  BY <1>1 DEF HandlersSound, TypeOK
<1>4. ThreadSound' /\ StopCounted' /\ HeldSame
  BY <1>1 DEF ThreadSound, Publishing, Dead, StopCounted, HeldSame, Holds
<1> QED
  BY <1>1, <1>2, <1>3, <1>4 DEF Quiet, orderVars, counters

\* A handler starts on what a client asks for.
LEMMA ReceiveLocal ==
  ASSUME LocalInv, NEW c \in Clients, Receive(c)
  PROVE  LocalInv' /\ Quiet
<1> USE DEF LocalInv
<1> DEFINE from(cmd) ==
         CASE cmd.type = "submit_order" -> [Idle EXCEPT !.pc = "build", !.cmd = cmd]
           [] cmd.type = "run_prefill"  -> [Idle EXCEPT !.pc = "send", !.cmd = cmd]
           [] cmd.type = "start_stream" -> [Idle EXCEPT !.pc = "store", !.cmd = cmd]
           [] cmd.type = "stop_stream"  -> [Idle EXCEPT !.pc = "switch", !.cmd = cmd]
           [] cmd.type = "get_state"    -> [Idle EXCEPT !.pc = "load_sent", !.cmd = cmd,
                                                         !.held = Stats(Len(log))]
           [] OTHER -> [Idle EXCEPT !.pc = "say", !.cmd = cmd, !.held = Error("bad_message")]
<1>1. /\ conn[c] = "on" /\ handler[c] = Idle /\ commands' = commands + 1
      /\ \E cmd \in Commands : handler' = [handler EXCEPT ![c] = from(cmd)]
      /\ UNCHANGED <<next_order_id, next_seq, queue, thread, total_sent, total_errors, wire>>
      /\ UNCHANGED <<streaming, interval, conn, cursor, since, greeting, log, after_stop>>
      /\ UNCHANGED <<connects, streamed>>
  BY DEF Receive, threadVars, counters, switches, netVars
<1>2. PICK cmd \in Commands : handler' = [handler EXCEPT ![c] = from(cmd)]
  BY <1>1
<1> DEFINE h == from(cmd)
<1>3. cmd \in ClientMsg /\ Len(log) \in Nat
  BY CommandsAssumption, HandlerType
<1>4. h \in Handler /\ Fits(c, h) /\ ~HasOrder(h)
  <2>1. CASE cmd.type = "submit_order"
    BY <1>3, <2>1, RestingTypes DEF Idle, Handler, Fits, HasOrder
  <2>2. CASE cmd.type = "run_prefill"
    BY <1>3, <2>2, RestingTypes DEF Idle, Handler, Fits, HasOrder
  <2>3. CASE cmd.type = "start_stream"
    BY <1>3, <2>3, RestingTypes DEF Idle, Handler, Fits, HasOrder
  <2>4. CASE cmd.type = "stop_stream"
    BY <1>3, <2>4, RestingTypes DEF Idle, Handler, Fits, HasOrder
  <2>5. CASE cmd.type = "get_state"
    BY <1>3, <2>5, RestingTypes DEF Idle, Handler, Fits, HasOrder
  <2>6. CASE cmd.type \notin {"submit_order", "run_prefill", "start_stream", "stop_stream", "get_state"}
    <3>1. h = [Idle EXCEPT !.pc = "say", !.cmd = cmd, !.held = Error("bad_message")]
      BY <2>6
    <3>2. Error("bad_message") \in ErrorMsg
      BY DEF Error, ErrorMsg
    <3> HIDE DEF h
    <3> QED
      BY <1>3, <3>1, <3>2 DEF Idle, Handler, Fits, HasOrder
  <2> QED
    BY <2>1, <2>2, <2>3, <2>4, <2>5, <2>6
<1> HIDE DEF h
<1>5. /\ HandlersSound' /\ ThreadSound' /\ handler' \in [Clients -> Handler] /\ HeldSame
  <2>1. UNCHANGED <<netVars, thread, next_seq>> /\ (Dead => queue' = << >>) /\ ~Holds(c)
    BY <1>1 DEF netVars, ThreadSound, Holds, HasOrder, Idle
  <2>2. handler' = [handler EXCEPT ![c] = h]
    BY <1>2 DEF h
  <2> QED
    BY <1>1, <1>4, <2>1, <2>2, HandlerMoves
<1>6. TypeOK' /\ StopCounted'
  BY <1>1, <1>5 DEF TypeOK, StopCounted
<1> QED
  BY <1>1, <1>5, <1>6 DEF Quiet, orderVars, counters

LEMMA StoreIntervalLocal ==
  ASSUME LocalInv, NEW c \in Clients, StoreInterval(c)
  PROVE  LocalInv' /\ Quiet
<1> USE DEF LocalInv
<1> DEFINE h == [handler[c] EXCEPT !.pc = "switch"]
<1>1. /\ handler[c].pc = "store" /\ interval' = Clamped(handler[c].cmd.interval)
      /\ handler' = [handler EXCEPT ![c] = h]
      /\ UNCHANGED <<next_order_id, next_seq, queue, thread, total_sent, total_errors, wire>>
      /\ UNCHANGED <<streaming, conn, cursor, since, greeting, log, after_stop>>
      /\ UNCHANGED <<commands, connects, streamed>>
  BY DEF StoreInterval, threadVars, counters, netVars, boundVars
<1>2. handler[c].cmd.interval \in Nat
  BY <1>1, HandlerType DEF HandlersSound, Fits, ClientMsg, None
<1>3. interval' \in Nat /\ interval' >= Min({MinInterval, DefaultInterval})
  <2> DEFINE ms == handler[c].cmd.interval
  <2>1. ms \in Int /\ MinInterval \in Int /\ DefaultInterval \in Int
    BY <1>2, Limits
  <2>2. Max({ms, MinInterval}) = IF ms >= MinInterval THEN ms ELSE MinInterval
    BY <2>1, MaxOfTwo
  <2>3. Min({MinInterval, DefaultInterval})
          = IF MinInterval <= DefaultInterval THEN MinInterval ELSE DefaultInterval
    BY <2>1, MinOfTwo
  <2>4. interval' = Max({ms, MinInterval})
    BY <1>1 DEF Clamped
  <2> HIDE DEF ms
  <2> QED
    BY <1>2, <2>2, <2>3, <2>4, Limits DEF ms
<1>4. h \in Handler /\ Fits(c, h) /\ ~HasOrder(h) /\ h.pc = "switch"
  BY HandlerType DEF Handler, Fits, HasOrder
<1> HIDE DEF h
<1>5. /\ HandlersSound' /\ ThreadSound' /\ handler' \in [Clients -> Handler] /\ HeldSame
  <2>1. UNCHANGED <<netVars, thread, next_seq>> /\ (Dead => queue' = << >>) /\ ~Holds(c)
    BY <1>1 DEF netVars, ThreadSound, Holds, HasOrder
  <2>2. conn[c] \notin {"off", "greeting"}
    BY <1>1 DEF HandlersSound, Idle
  <2> QED
    BY <1>1, <1>4, <2>1, <2>2, HandlerMoves
<1>6. TypeOK' /\ StopCounted'
  BY <1>1, <1>3, <1>5 DEF TypeOK, StopCounted
<1> QED
  BY <1>1, <1>5, <1>6 DEF Quiet, orderVars, counters

LEMMA SwitchLocal ==
  ASSUME LocalInv, NEW c \in Clients, Switch(c)
  PROVE  LocalInv' /\ Quiet
<1> USE DEF LocalInv
<1> DEFINE h == [handler[c] EXCEPT !.pc = "load_interval", !.held = Status(streaming', 0)]
<1>1. /\ handler[c].pc = "switch" /\ streaming' \in BOOLEAN /\ after_stop' = 0
      /\ handler' = [handler EXCEPT ![c] = h]
      /\ UNCHANGED <<next_order_id, next_seq, queue, thread, total_sent, total_errors, wire>>
      /\ UNCHANGED <<interval, conn, cursor, since, greeting, log>>
      /\ UNCHANGED <<commands, connects, streamed>>
  BY DEF Switch, threadVars, counters, netVars, boundVars
<1>2. Status(streaming', 0) \in StatusMsg
  BY <1>1, RestingTypes
<1>3. h.pc = "load_interval" /\ h.held = Status(streaming', 0) /\ h.held \in StatusMsg /\ h \in Handler
  BY <1>2, HandlerType DEF Handler
<1> HIDE DEF h
<1>4. Fits(c, h) /\ ~HasOrder(h)
  BY <1>3 DEF Fits, HasOrder
<1>5. /\ HandlersSound' /\ ThreadSound' /\ handler' \in [Clients -> Handler] /\ HeldSame
  <2>1. UNCHANGED <<netVars, thread, next_seq>> /\ (Dead => queue' = << >>) /\ ~Holds(c)
    BY <1>1 DEF netVars, ThreadSound, Holds, HasOrder
  <2>2. conn[c] \notin {"off", "greeting"}
    BY <1>1 DEF HandlersSound, Idle
  <2> QED
    BY <1>1, <1>3, <1>4, <2>1, <2>2, HandlerMoves
<1>6. TypeOK' /\ StopCounted'
  BY <1>1, <1>5 DEF TypeOK, StopCounted
<1> QED
  BY <1>1, <1>5, <1>6 DEF Quiet, orderVars, counters

\* One load into a message that stays of its kind, asked for when it was.
LEMMA LoadLocal ==
  ASSUME LocalInv, NEW c \in Clients, NEW pc, NEW next, NEW msg \in StatsMsg \cup StatusMsg,
         Load(c, pc, msg, next), pc \in {"load_sent", "load_errors", "load_streaming", "load_interval"},
         next \in {"load_errors", "load_streaming", "load_interval", "say"},
         msg \in StatsMsg \/ next = "say",
         handler[c].held \in StatsMsg => msg \in StatsMsg /\ msg.asked = handler[c].held.asked
  PROVE  LocalInv' /\ Quiet
<1> USE DEF LocalInv
<1> DEFINE h == [handler[c] EXCEPT !.pc = next, !.held = msg]
<1>1. /\ handler[c].pc = pc /\ handler' = [handler EXCEPT ![c] = h]
      /\ UNCHANGED <<next_order_id, next_seq, queue, thread, total_sent, total_errors, wire>>
      /\ UNCHANGED <<streaming, interval, conn, cursor, since, greeting, log, after_stop>>
      /\ UNCHANGED <<commands, connects, streamed>>
  BY DEF Load, threadVars, counters, switches, netVars, boundVars
<1>2. h \in Handler /\ h.pc = next /\ h.held = msg
  BY HandlerType DEF Handler
<1> HIDE DEF h
<1>3. Fits(c, h) /\ ~HasOrder(h)
  BY <1>2 DEF Fits, HasOrder
<1>4. /\ HandlersSound' /\ ThreadSound' /\ handler' \in [Clients -> Handler] /\ HeldSame
  <2>1. UNCHANGED <<netVars, thread, next_seq>> /\ (Dead => queue' = << >>) /\ ~Holds(c)
    BY <1>1 DEF netVars, ThreadSound, Holds, HasOrder
  <2>2. conn[c] # "off"
    BY <1>1 DEF HandlersSound, Idle
  <2>3. conn[c] = "greeting" => /\ h.pc \in {"load_sent", "load_errors", "load_streaming",
                                              "load_interval", "say"}
                                /\ h.held \in StatsMsg /\ h.held.asked = since[c]
    BY <1>2 DEF HandlersSound
  <2> QED
    BY <1>1, <1>2, <1>3, <2>1, <2>2, <2>3, HandlerMoves
<1>5. TypeOK' /\ StopCounted'
  BY <1>1, <1>4 DEF TypeOK, StopCounted
<1> QED
  BY <1>1, <1>4, <1>5 DEF Quiet, orderVars, counters

LEMMA LoadNextLocal ==
  ASSUME LocalInv, NEW c \in Clients, LoadNext(c)
  PROVE  LocalInv' /\ Quiet
<1> DEFINE msg == handler[c].held
<1>1. Fits(c, handler[c]) /\ total_sent \in Nat /\ total_errors \in Nat /\ streaming \in BOOLEAN
      /\ interval \in Nat
  BY DEF LocalInv, HandlersSound, TypeOK
<1>2. CASE Load(c, "load_sent", [msg EXCEPT !.total_sent = total_sent], "load_errors")
  <2>1. msg \in StatsMsg
    BY <1>1, <1>2 DEF Load, Fits
  <2>2. [msg EXCEPT !.total_sent = total_sent] \in StatsMsg
        /\ [msg EXCEPT !.total_sent = total_sent].asked = msg.asked
    BY <1>1, <2>1 DEF StatsMsg
  <2> QED
    BY <1>2, <2>2, LoadLocal
<1>3. CASE Load(c, "load_errors", [msg EXCEPT !.total_errors = total_errors], "load_streaming")
  <2>1. msg \in StatsMsg
    BY <1>1, <1>3 DEF Load, Fits
  <2>2. [msg EXCEPT !.total_errors = total_errors] \in StatsMsg
        /\ [msg EXCEPT !.total_errors = total_errors].asked = msg.asked
    BY <1>1, <2>1 DEF StatsMsg
  <2> QED
    BY <1>3, <2>2, LoadLocal
<1>4. CASE Load(c, "load_streaming", [msg EXCEPT !.streaming = streaming], "load_interval")
  <2>1. msg \in StatsMsg
    BY <1>1, <1>4 DEF Load, Fits
  <2>2. [msg EXCEPT !.streaming = streaming] \in StatsMsg
        /\ [msg EXCEPT !.streaming = streaming].asked = msg.asked
    BY <1>1, <2>1 DEF StatsMsg
  <2> QED
    BY <1>4, <2>2, LoadLocal
<1>5. CASE Load(c, "load_interval", [msg EXCEPT !.interval = interval], "say")
  <2>1. msg \in StatsMsg \cup StatusMsg
    BY <1>1, <1>5 DEF Load, Fits
  <2>2. /\ [msg EXCEPT !.interval = interval] \in StatsMsg \cup StatusMsg
        /\ msg \in StatsMsg => /\ [msg EXCEPT !.interval = interval] \in StatsMsg
                               /\ [msg EXCEPT !.interval = interval].asked = msg.asked
    BY <1>1, <2>1 DEF StatsMsg, StatusMsg
  <2> QED
    BY <1>5, <2>2, LoadLocal
<1> QED
  BY <1>2, <1>3, <1>4, <1>5 DEF LoadNext

\* A broadcast puts one more message behind the others.
LEMMA LogAppend ==
  ASSUME TypeOK, NEW msg \in LogMsg, log' = Append(log, msg)
  PROVE  /\ log' \in Seq(LogMsg) /\ Len(log) \in Nat /\ Len(log') = Len(log) + 1
         /\ DOMAIN log = 1 .. Len(log) /\ DOMAIN log' = 1 .. Len(log) + 1
         /\ \A n \in 1 .. Len(log) : log'[n] = log[n] /\ log[n] \in LogMsg
         /\ log'[Len(log) + 1] = msg
<1>1. log \in Seq(LogMsg)
  BY DEF TypeOK, LogMsg
<1>2. /\ log' \in Seq(LogMsg) /\ Len(log') = Len(log) + 1 /\ Len(log) \in Nat
      /\ \A n \in 1 .. Len(log) + 1 : log'[n] = IF n <= Len(log) THEN log[n] ELSE msg
  BY <1>1, AppendToQueue, LenProperties
<1> QED
  BY <1>1, <1>2, InQueue

\* The types hold when a message is broadcast and no cursor moves.
LEMMA LogTypes ==
  ASSUME TypeOK, NEW msg \in LogMsg, log' = Append(log, msg), UNCHANGED netVars
  PROVE  /\ log' \in Seq(AckMsg \cup ResultMsg \cup StatsMsg \cup StatusMsg \cup ErrorMsg)
         /\ \A c \in Clients : since'[c] <= cursor'[c] /\ cursor'[c] <= Len(log')
<1>1. log' \in Seq(LogMsg) /\ Len(log') = Len(log) + 1 /\ Len(log) \in Nat
  BY LogAppend
<1> QED
  BY <1>1, HandlerType DEF LogMsg, netVars

\* What a handler says is no acknowledgement, nor the result of a prefill.
LEMMA SayLocal ==
  ASSUME LocalInv, NEW c \in Clients, Say(c)
  PROVE  /\ LocalInv' /\ HeldSame /\ UNCHANGED orderVars
         /\ handler[c].held \in StatsMsg \cup StatusMsg \cup ErrorMsg
         /\ log' = Append(log, handler[c].held)
<1> USE DEF LocalInv
<1>1. /\ conn[c] = "on" /\ handler[c].pc = "say" /\ log' = Append(log, handler[c].held)
      /\ handler' = [handler EXCEPT ![c] = Idle]
      /\ UNCHANGED <<next_order_id, next_seq, queue, thread, total_sent, total_errors, wire>>
      /\ UNCHANGED <<streaming, interval, conn, cursor, since, greeting, after_stop>>
      /\ UNCHANGED <<commands, connects, streamed>>
  BY DEF Say, Broadcast, threadVars, counters, switches, netVars, boundVars
<1>2. handler[c].held \in StatsMsg \cup StatusMsg \cup ErrorMsg
  BY <1>1 DEF HandlersSound, Fits
<1>3. /\ HandlersSound' /\ ThreadSound' /\ handler' \in [Clients -> Handler] /\ HeldSame
  <2>1. UNCHANGED <<netVars, thread, next_seq>> /\ (Dead => queue' = << >>) /\ ~Holds(c)
    BY <1>1 DEF netVars, ThreadSound, Holds, HasOrder
  <2>2. Fits(c, Idle) /\ ~HasOrder(Idle)
    BY DEF Fits, HasOrder, Idle
  <2> QED
    BY <1>1, <2>1, <2>2, RestingTypes, HandlerMoves
<1>4. TypeOK' /\ StopCounted'
  <2>1. /\ log' \in Seq(AckMsg \cup ResultMsg \cup StatsMsg \cup StatusMsg \cup ErrorMsg)
        /\ \A d \in Clients : since'[d] <= cursor'[d] /\ cursor'[d] <= Len(log')
    BY <1>1, <1>2, LogTypes DEF LogMsg, netVars
  <2> QED
    BY <1>1, <1>3, <2>1 DEF TypeOK, StopCounted
<1> QED
  BY <1>1, <1>2, <1>3, <1>4 DEF orderVars, counters

\* A client's order: the newest identifier, with the handler.
LEMMA BuildOrderLocal ==
  ASSUME LocalInv, NEW c \in Clients, BuildOrder(c)
  PROVE  /\ LocalInv' /\ next_order_id' = next_order_id + 1
         /\ UNCHANGED <<next_seq, queue, thread, counters, wire, log>>
         /\ ~Holds(c) /\ Holds(c)' /\ handler'[c].held.id = next_order_id + 1
         /\ handler'[c].held.by = c /\ \A d \in Clients : d # c => handler'[d] = handler[d]
<1> USE DEF LocalInv
<1> DEFINE order == [id |-> next_order_id', by |-> c, fits |-> handler[c].cmd.fits]
           h     == [handler[c] EXCEPT !.pc = "send", !.held = order]
<1>1. /\ handler[c].pc = "build" /\ next_order_id' = next_order_id + 1
      /\ handler' = [handler EXCEPT ![c] = h]
      /\ UNCHANGED <<next_seq, queue, thread, total_sent, total_errors, wire>>
      /\ UNCHANGED <<streaming, interval, conn, cursor, since, greeting, log, after_stop>>
      /\ UNCHANGED <<commands, connects, streamed>>
  BY DEF BuildOrder, NewId, threadVars, counters, switches, netVars, boundVars
<1>2. handler[c].cmd.type = "submit_order" /\ handler[c].cmd.fits \in BOOLEAN /\ next_order_id \in Nat
  <2>1. handler[c].cmd.type = "submit_order" /\ next_order_id \in Nat
    BY <1>1 DEF HandlersSound, Fits, TypeOK
  <2> QED
    BY <2>1, HandlerType DEF ClientMsg, None
<1>3. order \in Order /\ order.by = c /\ order.id = next_order_id + 1
  BY <1>1, <1>2 DEF Order
<1> HIDE DEF order
<1>4. h \in Handler /\ h.pc = "send" /\ h.held = order /\ h.cmd = handler[c].cmd
  BY <1>3, HandlerType DEF Handler
<1> HIDE DEF h
<1>5. Fits(c, h) /\ HasOrder(h)
  BY <1>2, <1>3, <1>4 DEF Fits, HasOrder
<1>6. /\ HandlersSound' /\ ThreadSound' /\ handler' \in [Clients -> Handler]
      /\ handler'[c] = h /\ \A d \in Clients : d # c => handler'[d] = handler[d]
  <2>1. UNCHANGED <<netVars, thread, next_seq>> /\ (Dead => queue' = << >>)
    BY <1>1 DEF netVars, ThreadSound
  <2>2. conn[c] \notin {"off", "greeting"}
    BY <1>1 DEF HandlersSound, Idle
  <2> QED
    BY <1>1, <1>4, <1>5, <2>1, <2>2, HandlerMoves
<1>7. TypeOK' /\ StopCounted'
  BY <1>1, <1>2, <1>6 DEF TypeOK, StopCounted
<1> QED
  BY <1>1, <1>3, <1>4, <1>5, <1>6, <1>7 DEF counters, Holds, HasOrder

\* The order of a handler goes to the end of the channel, or is refused.
LEMMA SendCommandLocal ==
  ASSUME LocalInv, NEW c \in Clients, SendCommand(c)
  PROVE  /\ LocalInv' /\ UNCHANGED <<next_order_id, next_seq, thread, counters, wire, log>>
         /\ ~Holds(c)' /\ \A d \in Clients : d # c => handler'[d] = handler[d]
         /\ IF Dead THEN UNCHANGED queue
                    ELSE /\ [cmd |-> handler[c].cmd, order |-> handler[c].held] \in Command
                         /\ queue' = Append(queue, [cmd   |-> handler[c].cmd,
                                                    order |-> handler[c].held])
         /\ (handler[c].cmd.type = "submit_order") <=> Holds(c)
<1> USE DEF LocalInv
<1> DEFINE refused == [handler[c] EXCEPT !.pc = "say", !.held = Error("not_running")]
           h       == IF Dead THEN refused ELSE Idle
           entry   == [cmd |-> handler[c].cmd, order |-> handler[c].held]
<1>1. /\ handler[c].pc = "send" /\ handler' = [handler EXCEPT ![c] = h]
      /\ IF Dead THEN UNCHANGED queue ELSE queue' = Append(queue, entry)
      /\ UNCHANGED <<next_order_id, next_seq, thread, total_sent, total_errors, wire>>
      /\ UNCHANGED <<streaming, interval, conn, cursor, since, greeting, log, after_stop>>
      /\ UNCHANGED <<commands, connects, streamed>>
  BY DEF SendCommand, Enqueue, threadVars, counters, switches, netVars, boundVars
<1>2. Error("not_running") \in ErrorMsg
  BY DEF Error, ErrorMsg
<1>3. h \in Handler /\ Fits(c, h) /\ ~HasOrder(h)
  <2>1. CASE Dead
    <3>1. h = refused
      BY <2>1
    <3> HIDE DEF h
    <3> QED
      BY <1>2, <3>1, HandlerType DEF Handler, Fits, HasOrder
  <2>2. CASE ~Dead
    <3>1. h = Idle
      BY <2>2
    <3> HIDE DEF h
    <3> QED
      BY <3>1, RestingTypes DEF Fits, HasOrder, Idle
  <2> QED
    BY <2>1, <2>2
<1> HIDE DEF h
<1>4. /\ entry \in Command
      /\ (handler[c].cmd.type = "submit_order") <=> Holds(c)
  <2>1. Fits(c, handler[c])
    BY DEF HandlersSound
  <2>2. CASE handler[c].cmd.type = "submit_order"
    <3>1. handler[c].held \in Order /\ handler[c].held.by = c /\ Holds(c)
      BY <1>1, <2>1, <2>2 DEF Fits, HasOrder, Holds
    <3>2. handler[c].cmd \in [type : {"submit_order"}, fits : BOOLEAN]
      BY <2>2, HandlerType DEF ClientMsg, None
    <3>3. handler[c].held \in [id : Nat \ {0}, by : Clients, fits : BOOLEAN]
      BY <3>1 DEF Order
    <3> QED
      BY <2>2, <3>1, <3>2, <3>3 DEF Command, QueuedOrder
  <2>3. CASE handler[c].cmd.type = "run_prefill"
    <3>1. handler[c].held = Nothing /\ ~Holds(c)
      BY <1>1, <2>1, <2>3 DEF Fits, HasOrder, Holds
    <3>2. handler[c].cmd \in [type : {"run_prefill"}, kind : DOMAIN PrefillSize]
      BY <2>3, HandlerType DEF ClientMsg, None
    <3> QED
      BY <2>3, <3>1, <3>2 DEF Command, QueuedPrefill
  <2> QED
    BY <1>1, <2>1, <2>2, <2>3 DEF Fits
<1> HIDE DEF entry
<1>5. queue' \in Seq(QueuedOrder \cup QueuedPrefill)
  <2>1. queue \in Seq(Command)
    BY DEF TypeOK, Command
  <2>2. Append(queue, entry) \in Seq(Command)
    BY <1>4, <2>1, AppendToQueue
  <2>3. queue' \in Seq(Command)
    BY <1>1, <2>1, <2>2
  <2> QED
    BY <2>3 DEF Command
<1>6. /\ HandlersSound' /\ ThreadSound' /\ handler' \in [Clients -> Handler]
      /\ handler'[c] = h /\ \A d \in Clients : d # c => handler'[d] = handler[d]
  <2>1. UNCHANGED <<netVars, thread, next_seq>> /\ (Dead => queue' = << >>)
    BY <1>1 DEF netVars, ThreadSound
  <2>2. conn[c] \notin {"off", "greeting"}
    BY <1>1 DEF HandlersSound, Idle
  <2> QED
    BY <1>1, <1>3, <2>1, <2>2, HandlerMoves
<1>7. TypeOK' /\ StopCounted'
  BY <1>1, <1>5, <1>6 DEF TypeOK, StopCounted
<1> QED
  BY <1>1, <1>3, <1>4, <1>6, <1>7 DEF entry, counters, Holds

-----------------------------------------------------------------------------
(* The locals: steps of the thread.                                        *)

\* Nothing of a handler changes, and what is enough for the thread's locals.
LEMMA ThreadMoves ==
  ASSUME LocalInv, UNCHANGED <<switches, netVars, handler, commands, connects>>
  PROVE  /\ HandlersSound' /\ HeldSame
         /\ UNCHANGED <<streaming, interval, conn, cursor, since, greeting>>
BY DEF LocalInv, HandlersSound, HeldSame, Holds, switches, netVars

\* The thread at rest, about to tick, and dead.
LEMMA ThreadResting ==
  ASSUME NEW pc \in {"recv", "tick", "dead"}, NEW t, t = [Resting EXCEPT !.pc = pc]
  PROVE  t \in Thread /\ t.pc = pc /\ t.job = "none" /\ t.todo = << >> /\ t.build = 0
BY RestingTypes DEF Resting, Thread

\* A panic leaves nothing in the channel and nothing with the thread.
LEMMA PanicLocal ==
  ASSUME LocalInv, UNCHANGED <<switches, netVars, handler, commands, connects>>, Panic,
         UNCHANGED <<next_order_id, counters, wire, log, after_stop, streamed>>, next_seq' \in Nat
  PROVE  /\ LocalInv' /\ HeldSame /\ queue' = << >> /\ Dead'
         /\ thread'.pc = "dead" /\ thread'.job = "none" /\ thread'.todo = << >>
<1> USE DEF LocalInv
<1>1. thread' = [Resting EXCEPT !.pc = "dead"] /\ queue' = << >>
  BY DEF Panic
<1>2. /\ thread' \in Thread /\ thread'.pc = "dead" /\ thread'.job = "none" /\ thread'.todo = << >>
      /\ thread'.build = 0
  BY <1>1, ThreadResting
<1>3. TypeOK'
  BY <1>1, <1>2, ThreadMoves, EmptySeq DEF TypeOK, counters
<1>4. ThreadSound' /\ StopCounted'
  BY <1>1, <1>2, ThreadMoves DEF ThreadSound, Publishing, Dead, StopCounted
<1> QED
  BY <1>1, <1>2, <1>3, <1>4, ThreadMoves DEF Dead

LEMMA MakePublisherLocal ==
  ASSUME LocalInv, MakePublisher
  PROVE  /\ LocalInv' /\ HeldSame /\ UNCHANGED <<next_order_id, next_seq, counters, wire, log>>
         /\ thread.pc = "make" /\ thread.todo = << >> /\ thread'.todo = << >> /\ thread'.job = "none"
         /\ \/ thread'.pc = "recv" /\ UNCHANGED queue
            \/ Dead' /\ queue' = << >> /\ thread'.pc = "dead"
<1> USE DEF LocalInv
<1>1. /\ thread.pc = "make" /\ UNCHANGED <<switches, netVars, handler, commands, connects>>
      /\ UNCHANGED <<next_order_id, next_seq, counters, wire, log, after_stop, streamed>>
      /\ (thread' = Resting /\ UNCHANGED queue) \/ Panic
  BY DEF MakePublisher, At
<1>2. thread.todo = << >>
  BY <1>1 DEF ThreadSound, Publishing
<1>3. CASE thread' = Resting /\ UNCHANGED queue
  <2>1. /\ thread' \in Thread /\ thread'.pc = "recv" /\ thread'.job = "none" /\ thread'.todo = << >>
        /\ thread'.build = 0
    BY <1>3, RestingTypes
  <2>2. TypeOK'
    BY <1>1, <1>3, <2>1, ThreadMoves DEF TypeOK, counters
  <2>3. ThreadSound' /\ StopCounted'
    BY <1>1, <2>1, ThreadMoves DEF ThreadSound, Publishing, Dead, StopCounted
  <2> QED
    BY <1>1, <1>2, <1>3, <2>1, <2>2, <2>3, ThreadMoves
<1>4. CASE Panic
  <2>1. next_seq' \in Nat
    BY <1>1 DEF TypeOK
  <2> QED
    BY <1>1, <1>2, <1>4, <2>1, PanicLocal
<1> QED
  BY <1>1, <1>3, <1>4

\* The command at the head of the channel: one order to publish, or a prefill to build.
LEMMA TakeCommandLocal ==
  ASSUME LocalInv, TakeCommand
  PROVE  /\ LocalInv' /\ HeldSame /\ UNCHANGED <<next_order_id, next_seq, counters, wire, log>>
         /\ thread.pc = "recv" /\ thread.todo = << >>
         /\ queue \in Seq(Command) /\ queue # << >> /\ queue' = Tail(queue)
         /\ IF queue[1].cmd.type = "submit_order"
              THEN /\ thread'.pc = "ingress" /\ thread'.job = "submit"
                   /\ thread'.todo = <<queue[1].order>>
              ELSE /\ thread'.pc = "build" /\ thread'.job = "prefill" /\ thread'.todo = << >>
                   /\ thread'.build = thread'.total /\ thread'.sent = 0
<1> USE DEF LocalInv
<1> DEFINE cmd == Head(queue).cmd
           submit == [Resting EXCEPT !.pc = "ingress", !.job = "submit", !.todo = <<Head(queue).order>>]
           prefill == [Resting EXCEPT !.pc = "build", !.job = "prefill",
                                      !.build = PrefillSize[cmd.kind], !.total = PrefillSize[cmd.kind]]
<1>1. /\ thread.pc = "recv" /\ UNCHANGED <<switches, netVars, handler, commands, connects>>
      /\ queue # << >> /\ queue' = Tail(queue)
      /\ thread' = IF cmd.type = "submit_order" THEN submit ELSE prefill
      /\ UNCHANGED <<next_order_id, next_seq, counters, wire, log, after_stop, streamed>>
  BY DEF TakeCommand, At
<1>2. thread.todo = << >>
  BY <1>1 DEF ThreadSound, Publishing
<1>3. queue \in Seq(Command)
  BY DEF TypeOK, Command
<1>4. Head(queue) \in Command /\ Head(queue) = queue[1] /\ queue' \in Seq(Command)
  BY <1>1, <1>3, TailOfQueue
<1>5. CASE cmd.type = "submit_order"
  <2>1. queue[1].order \in Order /\ queue[1].order.by \in Clients
    BY <1>4, <1>5 DEF Command, QueuedOrder, QueuedPrefill, Order
  <2>2. thread' = submit
    BY <1>1, <1>5
  <2>3. /\ thread' \in Thread /\ thread'.pc = "ingress" /\ thread'.job = "submit"
        /\ thread'.todo = <<queue[1].order>> /\ thread'.build = 0
    <3>1. <<queue[1].order>> \in Seq(Order)
      BY <2>1
    <3> QED
      BY <1>4, <2>2, <3>1, RestingTypes DEF Thread, Resting
  <2>4. TypeOK'
    BY <1>1, <1>4, <2>3, ThreadMoves DEF TypeOK, counters, Command
  <2>5. ThreadSound' /\ StopCounted'
    <3>1. thread'.todo # << >> /\ \A n \in DOMAIN thread'.todo : n = 1 /\ thread'.todo[n].by \in Clients
      BY <2>1, <2>3
    <3> QED
      BY <1>1, <2>3, <3>1, ThreadMoves DEF ThreadSound, Publishing, Dead, StopCounted
  <2> QED
    BY <1>1, <1>2, <1>3, <1>4, <1>5, <2>3, <2>4, <2>5, ThreadMoves
<1>6. CASE cmd.type # "submit_order"
  <2>1. PrefillSize[cmd.kind] \in Nat /\ PrefillSize[cmd.kind] > 0
    BY <1>4, <1>6, PrefillAssumption DEF Command, QueuedOrder, QueuedPrefill
  <2>2. thread' = prefill
    BY <1>1, <1>6
  <2>3. /\ thread' \in Thread /\ thread'.pc = "build" /\ thread'.job = "prefill"
        /\ thread'.todo = << >> /\ thread'.build > 0 /\ thread'.build = thread'.total
        /\ thread'.sent = 0
    BY <2>1, <2>2, RestingTypes DEF Thread, Resting
  <2>4. TypeOK'
    BY <1>1, <1>4, <2>3, ThreadMoves DEF TypeOK, counters, Command
  <2>5. ThreadSound' /\ StopCounted'
    BY <1>1, <2>3, ThreadMoves DEF ThreadSound, Publishing, Dead, StopCounted
  <2> QED
    BY <1>1, <1>2, <1>3, <1>4, <1>6, <2>3, <2>4, <2>5, ThreadMoves
<1> QED
  BY <1>5, <1>6

\* A turn without a command, or without a tick of the stream.
LEMMA TurnLocal ==
  ASSUME LocalInv, NothingReceived \/ NoTick
  PROVE  /\ LocalInv' /\ HeldSame
         /\ UNCHANGED <<next_order_id, next_seq, queue, counters, wire, log>>
         /\ thread.pc \in {"recv", "tick"} /\ thread'.pc \in {"recv", "tick"}
         /\ thread.todo = << >> /\ thread'.todo = << >>
         /\ thread'.job = thread.job \/ thread'.job = "none"
         /\ thread'.total = thread.total \/ thread'.job = "none"
         /\ thread'.build = thread.build \/ thread'.job = "none"
         /\ thread'.sent = thread.sent \/ thread'.job = "none"
<1> USE DEF LocalInv
<1>1. /\ thread.pc \in {"recv", "tick"} /\ UNCHANGED <<switches, netVars, handler, commands, connects>>
      /\ thread' = [thread EXCEPT !.pc = "tick"] \/ thread' = Resting
      /\ UNCHANGED <<next_order_id, next_seq, queue, counters, wire, log, after_stop, streamed>>
  BY DEF NothingReceived, NoTick, At
<1>2. thread.todo = << >> /\ thread.build = 0
  BY <1>1, ThreadType DEF ThreadSound, Publishing
<1>3. /\ thread' \in Thread /\ thread'.pc \in {"recv", "tick"} /\ thread'.todo = << >>
      /\ thread'.build = 0
      /\ thread'.job = thread.job \/ thread'.job = "none"
      /\ thread'.total = thread.total \/ thread'.job = "none"
      /\ thread'.build = thread.build \/ thread'.job = "none"
      /\ thread'.sent = thread.sent \/ thread'.job = "none"
  BY <1>1, <1>2, ThreadType, RestingTypes DEF Thread
<1>4. TypeOK'
  BY <1>1, <1>3, ThreadMoves DEF TypeOK, counters
<1>5. ThreadSound' /\ StopCounted'
  BY <1>1, <1>3, ThreadMoves DEF ThreadSound, Publishing, Dead, StopCounted
<1> QED
  BY <1>1, <1>2, <1>3, <1>4, <1>5, ThreadMoves

\* The stream is on and its interval is over.
LEMMA StreamTickLocal ==
  ASSUME LocalInv, StreamTick
  PROVE  /\ LocalInv' /\ HeldSame
         /\ UNCHANGED <<next_order_id, next_seq, queue, counters, wire, log>>
         /\ thread.pc = "tick" /\ thread'.pc = "build" /\ thread'.job = "stream"
         /\ thread.todo = << >> /\ thread'.todo = << >>
<1> USE DEF LocalInv
<1>1. /\ thread.pc = "tick" /\ UNCHANGED <<switches, netVars, handler, commands, connects>>
      /\ streaming /\ streamed' = streamed + 1
      /\ thread' = [Resting EXCEPT !.pc = "build", !.job = "stream", !.build = 1]
      /\ UNCHANGED <<next_order_id, next_seq, queue, counters, wire, log, after_stop>>
  BY DEF StreamTick, StreamOn, At
<1>2. thread.todo = << >>
  BY <1>1 DEF ThreadSound, Publishing
<1>3. /\ thread' \in Thread /\ thread'.pc = "build" /\ thread'.job = "stream" /\ thread'.todo = << >>
      /\ thread'.build = 1
  BY <1>1, RestingTypes DEF Thread, Resting
<1>4. TypeOK'
  <2>1. streamed' \in Nat
    BY <1>1 DEF TypeOK
  <2> QED
    BY <1>1, <1>3, <2>1, ThreadMoves DEF TypeOK, counters
<1>5. ThreadSound' /\ StopCounted'
  BY <1>1, <1>3, ThreadMoves DEF ThreadSound, Publishing, Dead, StopCounted
<1> QED
  BY <1>1, <1>2, <1>3, <1>4, <1>5, ThreadMoves

\* One more order of a prefill or of the stream, with the newest identifier.
LEMMA BuildNextLocal ==
  ASSUME LocalInv, BuildNext
  PROVE  /\ LocalInv' /\ HeldSame
         /\ UNCHANGED <<next_seq, queue, counters, wire, log>>
         /\ next_order_id' = next_order_id + 1 /\ next_order_id \in Nat
         /\ thread.pc = "build" /\ thread'.pc \in {"build", "ingress"}
         /\ thread.job \in {"prefill", "stream"} /\ thread'.job = thread.job
         /\ thread'.total = thread.total /\ thread'.sent = thread.sent
         /\ thread.build \in Nat /\ thread'.build = thread.build - 1
         /\ \E order \in Order : /\ thread'.todo = Append(thread.todo, order)
                                 /\ order.id = next_order_id + 1 /\ order.by = thread.job
<1> USE DEF LocalInv
<1> DEFINE order == [id |-> next_order_id', by |-> thread.job, fits |-> TRUE]
<1>1. /\ thread.pc = "build" /\ UNCHANGED <<switches, netVars, handler, commands, connects>>
      /\ next_order_id' = next_order_id + 1
      /\ thread' = [thread EXCEPT !.build = @ - 1, !.pc = IF thread.build = 1 THEN "ingress" ELSE @,
                                  !.todo = Append(@, order)]
      /\ after_stop' = IF thread.job = "stream" /\ ~streaming THEN after_stop + 1 ELSE after_stop
      /\ UNCHANGED <<next_seq, queue, counters, wire, log, streamed>>
  BY DEF BuildNext, NewId, At
<1>2. /\ thread.build \in Nat /\ thread.build > 0 /\ thread.job \in {"prefill", "stream"}
      /\ thread.job = "stream" => thread.build = 1
      /\ \A n \in DOMAIN thread.todo : thread.todo[n].by = thread.job
  BY <1>1, ThreadType DEF ThreadSound
<1>3. order \in Order /\ order.id = next_order_id + 1 /\ order.by = thread.job /\ next_order_id \in Nat
  BY <1>1, <1>2 DEF Order, TypeOK
<1> HIDE DEF order
<1>4. /\ Append(thread.todo, order) \in Seq(Order) /\ Len(thread.todo) \in Nat
      /\ Len(Append(thread.todo, order)) = Len(thread.todo) + 1
      /\ \A n \in 1 .. Len(thread.todo) + 1 :
           Append(thread.todo, order)[n] = IF n <= Len(thread.todo) THEN thread.todo[n] ELSE order
  BY <1>3, ThreadType, AppendToQueue, LenProperties
<1>5. /\ thread' \in Thread /\ thread'.build = thread.build - 1 /\ thread'.job = thread.job
      /\ thread'.pc = IF thread.build = 1 THEN "ingress" ELSE "build"
      /\ thread'.todo = Append(thread.todo, order) /\ thread'.retries = thread.retries
      /\ thread'.total = thread.total /\ thread'.sent = thread.sent
  <2>1. thread.build - 1 \in Nat /\ thread \in Thread
    BY <1>2, ThreadType
  <2>2. (IF thread.build = 1 THEN "ingress" ELSE thread.pc) \in {"build", "ingress"}
    BY <1>1
  <2> QED
    BY <1>1, <1>4, <2>1, <2>2 DEF Thread
<1>6. TypeOK'
  <2>1. after_stop' \in Nat /\ next_order_id' \in Nat
    BY <1>1, <1>3 DEF TypeOK
  <2> QED
    BY <1>1, <1>5, <2>1, ThreadMoves DEF TypeOK, counters
<1>7. ThreadSound'
  <2>1. thread'.todo # << >> /\ \A n \in DOMAIN thread'.todo : thread'.todo[n].by = thread.job
    <3>1. DOMAIN thread'.todo = 1 .. Len(thread.todo) + 1 /\ DOMAIN thread.todo = 1 .. Len(thread.todo)
          /\ thread'.todo # << >>
      BY <1>4, <1>5, ThreadType, InQueue
    <3> QED
      BY <1>2, <1>3, <1>4, <1>5, <3>1
  <2> QED
    BY <1>1, <1>2, <1>5, <2>1 DEF ThreadSound, Publishing, Dead
<1>8. StopCounted'
  <2>1. CASE thread.job = "stream" /\ ~streaming
    BY <1>1, <1>2, <1>5, <2>1, ThreadMoves DEF StopCounted
  <2>2. CASE ~(thread.job = "stream" /\ ~streaming)
    BY <1>1, <1>2, <1>5, <2>2, ThreadMoves DEF StopCounted
  <2> QED
    BY <2>1, <2>2
<1> QED
  BY <1>1, <1>2, <1>3, <1>5, <1>6, <1>7, <1>8, ThreadMoves

\* Steps of the thread while it publishes leave the orders it has left, of the same job.
LEMMA PublishingMoves ==
  ASSUME LocalInv, Publishing, UNCHANGED <<switches, netVars, handler, commands, connects>>,
         thread' \in Thread, Publishing', thread'.job = thread.job, thread'.todo = thread.todo,
         thread'.build = thread.build,
         thread'.pc = "publish" => thread'.retries <= MaxRetries /\ next_seq' > 0,
         thread'.pc \in {"count", "ack"} =>
           /\ thread'.result # "none"
           /\ (thread'.result = "gave_up") <=> (thread'.retries = MaxRetries + 1),
         UNCHANGED <<queue, after_stop>>
  PROVE  HandlersSound' /\ ThreadSound' /\ StopCounted' /\ HeldSame
<1> USE DEF LocalInv
<1>1. ThreadSound'
  BY DEF ThreadSound, Publishing, Dead
<1>2. StopCounted'
  BY ThreadMoves DEF StopCounted, Publishing
<1> QED
  BY <1>1, <1>2, ThreadMoves

\* A sequence number is taken, whether the order can be published or not.
LEMMA ToIngressLocal ==
  ASSUME LocalInv, ToIngress
  PROVE  /\ LocalInv' /\ HeldSame
         /\ UNCHANGED <<next_order_id, counters, wire, log>>
         /\ thread.pc = "ingress" /\ next_seq \in Nat /\ next_seq' = next_seq + 1
         /\ \/ /\ thread'.pc = "publish" /\ thread'.job = thread.job /\ thread'.todo = thread.todo
               /\ thread'.total = thread.total /\ thread'.sent = thread.sent
               /\ thread'.build = thread.build /\ UNCHANGED queue
            \/ /\ thread'.pc = "dead" /\ Dead' /\ thread'.job = "none"
               /\ thread'.todo = << >> /\ queue' = << >>
<1> USE DEF LocalInv
<1>1. /\ thread.pc = "ingress" /\ UNCHANGED <<switches, netVars, handler, commands, connects>>
      /\ next_seq' = next_seq + 1
      /\ \/ thread' = [thread EXCEPT !.pc = "publish", !.retries = 0] /\ UNCHANGED queue
         \/ Panic
      /\ UNCHANGED <<next_order_id, counters, wire, log, after_stop, streamed>>
  BY DEF ToIngress, NewSeq, At
<1>2. next_seq \in Nat /\ next_seq' \in Nat
  BY <1>1 DEF TypeOK
<1>3. CASE thread' = [thread EXCEPT !.pc = "publish", !.retries = 0] /\ UNCHANGED queue
  <2>1. /\ thread' \in Thread /\ thread'.pc = "publish" /\ thread'.retries = 0
        /\ thread'.job = thread.job /\ thread'.todo = thread.todo
        /\ thread'.total = thread.total /\ thread'.sent = thread.sent
        /\ thread'.build = thread.build
    <3>1. 0 \in 0 .. MaxRetries + 1 /\ thread \in Thread
      BY ThreadType, Limits
    <3> QED
      BY <1>3, <3>1 DEF Thread
  <2>2. TypeOK'
    BY <1>1, <1>2, <1>3, <2>1, ThreadMoves DEF TypeOK, counters
  <2>3. HandlersSound' /\ ThreadSound' /\ StopCounted' /\ HeldSame
    BY <1>1, <1>2, <1>3, <2>1, Limits, PublishingMoves DEF Publishing
  <2> QED
    BY <1>1, <1>2, <1>3, <2>1, <2>2, <2>3
<1>4. CASE Panic
  BY <1>1, <1>2, <1>4, PanicLocal
<1> QED
  BY <1>1, <1>3, <1>4

\* An attempt: accepted, or not and tried again, or given up, or failed for good.
LEMMA PublishLocal ==
  ASSUME LocalInv, Publish
  PROVE  /\ LocalInv' /\ HeldSame
         /\ UNCHANGED <<next_order_id, next_seq, queue, counters, log>>
         /\ thread.pc = "publish" /\ thread'.job = thread.job /\ thread'.todo = thread.todo
         /\ thread'.total = thread.total /\ thread'.sent = thread.sent
         /\ thread'.build = thread.build /\ thread.todo # << >> /\ thread.todo[1] \in Order
         /\ \/ /\ thread'.pc = "count" /\ thread'.result = "ok"
               /\ \E entry \in OnWire : /\ wire' = Append(wire, entry)
                                        /\ entry.id = thread.todo[1].id /\ entry.by = thread.todo[1].by
                                        /\ entry.seq = next_seq - 1
            \/ /\ thread'.pc = "publish" \/ (thread'.pc = "count" /\ thread'.result # "ok")
               /\ UNCHANGED wire
<1> USE DEF LocalInv
<1> DEFINE order == Head(thread.todo)
           entry == [id |-> order.id, by |-> order.by, seq |-> next_seq - 1]
           after == IF GivesUp(Tries)
                      THEN [thread EXCEPT !.retries = Tries, !.pc = "count", !.result = GaveUp]
                      ELSE [thread EXCEPT !.retries = Tries]
<1>1. /\ thread.pc = "publish" /\ UNCHANGED <<switches, netVars, handler, commands, connects>>
      /\ \/ thread' = [thread EXCEPT !.pc = "count", !.result = "ok"] /\ wire' = Append(wire, entry)
         \/ thread' = after /\ UNCHANGED wire
         \/ thread' = [thread EXCEPT !.pc = "count", !.result = "failed"] /\ UNCHANGED wire
      /\ UNCHANGED <<next_order_id, next_seq, queue, counters, log, after_stop, streamed>>
  BY DEF Publish, At
<1>2. /\ Publishing /\ thread.todo # << >> /\ thread.retries <= MaxRetries /\ next_seq' > 0
      /\ thread.todo[1] \in Order /\ order = thread.todo[1]
  <2>1. Publishing /\ thread.todo # << >> /\ thread.retries <= MaxRetries /\ next_seq' > 0
    BY <1>1 DEF ThreadSound, Publishing
  <2> QED
    BY <2>1, ThreadType, TailOfQueue
<1> SUFFICES ASSUME TRUE
             PROVE  /\ TypeOK' /\ thread' \in Thread /\ Publishing'
                    /\ thread'.job = thread.job /\ thread'.todo = thread.todo
                    /\ thread'.total = thread.total /\ thread'.sent = thread.sent
                    /\ thread'.build = thread.build
                    /\ thread'.pc = "publish" => thread'.retries <= MaxRetries /\ next_seq' > 0
                    /\ thread'.pc = "count" => /\ thread'.result # "none"
                                               /\ (thread'.result = "gave_up")
                                                    <=> (thread'.retries = MaxRetries + 1)
                    /\ thread'.pc \in {"publish", "count"}
                    /\ \/ /\ thread'.pc = "count" /\ thread'.result = "ok"
                          /\ entry \in OnWire /\ wire' = Append(wire, entry)
                       \/ /\ thread'.pc = "publish" \/ (thread'.pc = "count" /\ thread'.result # "ok")
                          /\ UNCHANGED wire
  BY <1>1, <1>2, PublishingMoves
<1>3. CASE thread' = [thread EXCEPT !.pc = "count", !.result = "ok"] /\ wire' = Append(wire, entry)
  <2>1. /\ thread' \in Thread /\ thread'.pc = "count" /\ thread'.result = "ok"
        /\ thread'.retries = thread.retries
        /\ thread'.job = thread.job /\ thread'.todo = thread.todo
        /\ thread'.total = thread.total /\ thread'.sent = thread.sent
        /\ thread'.build = thread.build
    BY <1>3, ThreadType DEF Thread
  <2>2. entry \in OnWire
    <3>1. next_seq - 1 \in Nat
      BY <1>1 DEF ThreadSound, TypeOK
    <3> QED
      BY <1>2, <3>1 DEF Order, OnWire
  <2>3. TypeOK'
    <3> HIDE DEF entry
    <3>1. wire' \in Seq(OnWire)
      BY <1>3, <2>2, AppendToQueue DEF TypeOK, OnWire
    <3> QED
      BY <1>1, <2>1, <3>1, ThreadMoves DEF TypeOK, counters, OnWire
  <2> QED
    BY <1>2, <1>3, <2>1, <2>2, <2>3, ThreadType, Limits DEF Publishing
<1>4. CASE thread' = after /\ UNCHANGED wire
  <2>1. /\ thread.retries \in Nat /\ MaxRetries \in Nat /\ Tries = thread.retries + 1
        /\ Tries \in 0 .. MaxRetries + 1 /\ thread \in Thread
    BY <1>2, ThreadType, Limits DEF Tries
  <2>2. /\ thread' \in Thread /\ thread'.retries = thread.retries + 1
        /\ thread'.job = thread.job /\ thread'.todo = thread.todo
        /\ thread'.total = thread.total /\ thread'.sent = thread.sent
        /\ thread'.build = thread.build
        /\ \/ thread'.pc = "count" /\ thread'.result = "gave_up" /\ thread.retries + 1 > MaxRetries
           \/ thread'.pc = "publish" /\ thread.retries + 1 <= MaxRetries
    <3>1. CASE Tries > MaxRetries
      <4>1. thread' = [thread EXCEPT !.retries = Tries, !.pc = "count", !.result = "gave_up"]
        BY <1>4, <3>1 DEF GivesUp, GaveUp
      <4> QED
        BY <2>1, <3>1, <4>1 DEF Thread
    <3>2. CASE ~(Tries > MaxRetries)
      <4>1. thread' = [thread EXCEPT !.retries = Tries]
        BY <1>4, <3>2 DEF GivesUp
      <4> QED
        BY <1>1, <2>1, <3>2, <4>1 DEF Thread
    <3> QED
      BY <3>1, <3>2
  <2>3. TypeOK'
    BY <1>1, <1>4, <2>2, ThreadMoves DEF TypeOK, counters
  <2> QED
    BY <1>2, <1>4, <2>1, <2>2, <2>3 DEF Publishing
<1>5. CASE thread' = [thread EXCEPT !.pc = "count", !.result = "failed"] /\ UNCHANGED wire
  <2>1. /\ thread' \in Thread /\ thread'.pc = "count" /\ thread'.result = "failed"
        /\ thread'.retries = thread.retries
        /\ thread'.job = thread.job /\ thread'.todo = thread.todo
        /\ thread'.total = thread.total /\ thread'.sent = thread.sent
        /\ thread'.build = thread.build
    BY <1>5, ThreadType DEF Thread
  <2>2. TypeOK'
    BY <1>1, <1>5, <2>1, ThreadMoves DEF TypeOK, counters
  <2> QED
    BY <1>2, <1>5, <2>1, <2>2, ThreadType, Limits DEF Publishing
<1> QED
  BY <1>1, <1>3, <1>4, <1>5

\* The outcome of the first order is counted.
LEMMA CountLocal ==
  ASSUME LocalInv, Count
  PROVE  /\ LocalInv' /\ HeldSame
         /\ UNCHANGED <<next_order_id, next_seq, queue, wire, log>>
         /\ thread.pc = "count" /\ thread'.pc = "ack" /\ thread'.job = thread.job
         /\ thread'.todo = thread.todo /\ thread'.total = thread.total
         /\ thread'.build = thread.build /\ thread'.result = thread.result
         /\ Success \in {0, 1} /\ Failure = 1 - Success /\ thread'.sent = thread.sent + Success
         /\ total_sent' = total_sent + Success /\ total_errors' = total_errors + Failure
<1> USE DEF LocalInv
<1>1. /\ thread.pc = "count" /\ UNCHANGED <<switches, netVars, handler, commands, connects>>
      /\ total_sent' = total_sent + Success /\ total_errors' = total_errors + Failure
      /\ thread' = [thread EXCEPT !.pc = "ack", !.sent = @ + Success]
      /\ UNCHANGED <<next_order_id, next_seq, queue, wire, log, after_stop, streamed>>
  BY DEF Count, At
<1>2. Success \in {0, 1} /\ Failure = 1 - Success
  BY DEF Success, Failure
<1>3. /\ thread' \in Thread /\ thread'.pc = "ack" /\ thread'.job = thread.job
      /\ thread'.todo = thread.todo /\ thread'.total = thread.total
      /\ thread'.build = thread.build /\ thread'.result = thread.result
      /\ thread'.retries = thread.retries /\ thread'.sent = thread.sent + Success
  <2>1. thread.sent + Success \in Nat /\ thread \in Thread
    BY <1>2, ThreadType
  <2> QED
    BY <1>1, <2>1 DEF Thread
<1>4. TypeOK'
  <2>1. total_sent' \in Nat /\ total_errors' \in Nat
    BY <1>1, <1>2 DEF TypeOK
  <2> QED
    BY <1>1, <1>3, <2>1, ThreadMoves DEF TypeOK
<1>5. HandlersSound' /\ ThreadSound' /\ StopCounted' /\ HeldSame
  <2>1. /\ thread.result # "none"
        /\ (thread.result = "gave_up") <=> (thread.retries = MaxRetries + 1)
    BY <1>1 DEF ThreadSound
  <2> QED
    BY <1>1, <1>3, <2>1, PublishingMoves DEF Publishing
<1> QED
  BY <1>1, <1>2, <1>3, <1>4, <1>5

\* The acknowledgement of the first order; then the next one, or the job is over.
LEMMA AcknowledgeLocal ==
  ASSUME LocalInv, Acknowledge
  PROVE  /\ LocalInv' /\ HeldSame
         /\ UNCHANGED <<next_order_id, next_seq, queue, counters, wire>>
         /\ thread.pc = "ack" /\ thread.todo # << >> /\ thread'.todo = Tail(thread.todo)
         /\ thread'.pc \in {"recv", "tick", "report", "ingress"}
         /\ thread'.job = "none" \/ /\ thread'.job = thread.job /\ thread'.total = thread.total
                                    /\ thread'.sent = thread.sent /\ thread'.build = thread.build
         /\ \E ack \in AckMsg : /\ log' = Append(log, ack)
                                /\ ack.order_id = thread.todo[1].id /\ ack.result = thread.result
                                /\ ack.retries = thread.retries /\ ack.total_sent = total_sent
                                /\ ack.total_errors = total_errors
         /\ thread.result # "none" /\ (thread.result = "gave_up") <=> (thread.retries = MaxRetries + 1)
<1> USE DEF LocalInv
<1> DEFINE ack == [type |-> "publish_ack", order_id |-> Head(thread.todo).id,
                   result |-> thread.result, retries |-> thread.retries,
                   total_sent |-> total_sent, total_errors |-> total_errors]
           rest == Tail(thread.todo)
           onward == [thread EXCEPT !.pc = "ingress", !.todo = Tail(@)]
<1>1. /\ thread.pc = "ack" /\ UNCHANGED <<switches, netVars, handler, commands, connects>>
      /\ log' = Append(log, ack)
      /\ thread' = IF Len(thread.todo) > 1 THEN onward ELSE AfterJob
      /\ UNCHANGED <<next_order_id, next_seq, queue, counters, wire, after_stop, streamed>>
  BY DEF Acknowledge, Broadcast, At
<1>2. /\ thread.todo # << >> /\ thread.result # "none" /\ thread.job # "none" /\ thread.build = 0
      /\ (thread.result = "gave_up") <=> (thread.retries = MaxRetries + 1)
      /\ \A n \in DOMAIN thread.todo : IF thread.job = "submit" THEN n = 1 /\ thread.todo[n].by \in Clients
                                       ELSE thread.todo[n].by = thread.job
  BY <1>1, ThreadType DEF ThreadSound, Publishing
<1>3. /\ Head(thread.todo) = thread.todo[1] /\ thread.todo[1] \in Order
      /\ rest \in Seq(Order) /\ Len(rest) = Len(thread.todo) - 1
      /\ \A i \in 1 .. Len(thread.todo) - 1 : rest[i] = thread.todo[i + 1]
      /\ Len(thread.todo) \in Nat /\ Len(thread.todo) >= 1
  <2>1. thread.todo \in Seq(Order)
    BY ThreadType
  <2>2. Len(thread.todo) \in Nat /\ Len(thread.todo) # 0
    BY <1>2, <2>1, InQueue
  <2> QED
    BY <1>2, <2>1, <2>2, TailOfQueue
<1>4. /\ ack \in AckMsg /\ ack.order_id = thread.todo[1].id /\ ack.result = thread.result
      /\ ack.retries = thread.retries /\ ack.total_sent = total_sent
      /\ ack.total_errors = total_errors
  <2>1. thread.todo[1].id \in Nat \ {0} /\ thread.result \in {"ok", "failed", "gave_up"}
        /\ thread.retries \in 0 .. MaxRetries + 1 /\ total_sent \in Nat /\ total_errors \in Nat
    BY <1>2, <1>3, ThreadType, Limits DEF Order, TypeOK
  <2> QED
    BY <1>3, <2>1 DEF AckMsg
<1> HIDE DEF ack, rest
<1>5. /\ thread' \in Thread /\ thread'.todo = rest /\ thread'.build = 0
      /\ \/ /\ Len(thread.todo) > 1 /\ thread'.pc = "ingress" /\ thread'.job = thread.job
            /\ thread'.total = thread.total /\ thread'.sent = thread.sent
         \/ /\ ~(Len(thread.todo) > 1) /\ rest = << >>
            /\ thread'.pc = "report" /\ thread'.job = "prefill"
            /\ thread.job = "prefill" /\ thread'.total = thread.total /\ thread'.sent = thread.sent
         \/ /\ ~(Len(thread.todo) > 1) /\ rest = << >>
            /\ thread'.pc \in {"recv", "tick"} /\ thread'.job = "none"
  <2>1. CASE Len(thread.todo) > 1
    <3>1. thread' = [thread EXCEPT !.pc = "ingress", !.todo = rest]
      BY <1>1, <2>1 DEF rest
    <3> QED
      BY <1>2, <1>3, <2>1, <3>1, ThreadType DEF Thread
  <2>2. CASE ~(Len(thread.todo) > 1)
    <3>1. thread' = AfterJob /\ rest = << >>
      BY <1>1, <1>3, <2>2, InQueue
    <3>2. CASE thread.job = "prefill"
      <4>1. thread' = [thread EXCEPT !.pc = "report", !.todo = << >>]
        BY <3>1, <3>2 DEF AfterJob
      <4> QED
        BY <1>2, <2>2, <3>1, <3>2, <4>1, ThreadType, RestingTypes DEF Thread
    <3>3. CASE thread.job = "submit"
      <4>1. thread' = [Resting EXCEPT !.pc = "tick"]
        BY <3>1, <3>3 DEF AfterJob
      <4> QED
        BY <2>2, <3>1, <4>1, ThreadResting
    <3>4. CASE thread.job \notin {"prefill", "submit"}
      <4>1. thread' = Resting
        BY <3>1, <3>4 DEF AfterJob
      <4> QED
        BY <2>2, <3>1, <4>1, RestingTypes
    <3> QED
      BY <3>2, <3>3, <3>4
  <2> QED
    BY <2>1, <2>2
<1>6. TypeOK'
  <2>1. /\ log' \in Seq(AckMsg \cup ResultMsg \cup StatsMsg \cup StatusMsg \cup ErrorMsg)
        /\ \A c \in Clients : since'[c] <= cursor'[c] /\ cursor'[c] <= Len(log')
    BY <1>1, <1>4, LogTypes DEF LogMsg
  <2> QED
    BY <1>1, <1>5, <2>1, ThreadMoves DEF TypeOK, counters
<1>7. ThreadSound' /\ StopCounted'
  <2>1. CASE Len(thread.todo) > 1
    <3>1. thread'.pc = "ingress" /\ thread'.job = thread.job
      BY <1>5, <2>1
    <3>2. thread'.todo # << >> /\ DOMAIN thread'.todo = 1 .. Len(thread.todo) - 1
          /\ DOMAIN thread.todo = 1 .. Len(thread.todo)
      <4>1. rest \in Seq(Order) /\ thread.todo \in Seq(Order)
        BY <1>3, ThreadType
      <4>2. Len(rest) # 0
        BY <1>3, <2>1
      <4> QED
        BY <1>3, <1>5, <4>1, <4>2, InQueue
    <3>3. \A n \in DOMAIN thread'.todo :
            IF thread.job = "submit" THEN n = 1 /\ thread'.todo[n].by \in Clients
            ELSE thread'.todo[n].by = thread.job
      BY <1>2, <1>3, <1>5, <3>2
    <3> QED
      BY <1>1, <1>2, <1>5, <3>1, <3>2, <3>3, ThreadMoves
      DEF ThreadSound, Publishing, Dead, StopCounted
  <2>2. CASE ~(Len(thread.todo) > 1)
    BY <1>1, <1>5, <2>2, ThreadMoves DEF ThreadSound, Publishing, Dead, StopCounted
  <2> QED
    BY <2>1, <2>2
<1> QED
  BY <1>1, <1>2, <1>3, <1>4, <1>5, <1>6, <1>7, ThreadMoves DEF rest

\* The result of a prefill.
LEMMA ReportLocal ==
  ASSUME LocalInv, Report
  PROVE  /\ LocalInv' /\ HeldSame
         /\ UNCHANGED <<next_order_id, next_seq, queue, counters, wire>>
         /\ thread.pc = "report" /\ thread.job = "prefill" /\ thread.build = 0
         /\ thread.todo = << >> /\ thread'.todo = << >> /\ thread'.pc = "tick"
         /\ thread'.job = "none"
         /\ \E result \in ResultMsg : /\ log' = Append(log, result)
                                      /\ result.sent = thread.sent /\ result.total = thread.total
<1> USE DEF LocalInv
<1> DEFINE result == [type |-> "prefill_result", sent |-> thread.sent, total |-> thread.total]
<1>1. /\ thread.pc = "report" /\ UNCHANGED <<switches, netVars, handler, commands, connects>>
      /\ log' = Append(log, result) /\ thread' = [Resting EXCEPT !.pc = "tick"]
      /\ UNCHANGED <<next_order_id, next_seq, queue, counters, wire, after_stop, streamed>>
  BY DEF Report, Broadcast, At
<1>2. thread.job = "prefill" /\ thread.build = 0 /\ thread.todo = << >>
  BY <1>1, ThreadType DEF ThreadSound, Publishing
<1>3. result \in ResultMsg
  BY ThreadType DEF ResultMsg
<1>4. /\ thread' \in Thread /\ thread'.pc = "tick" /\ thread'.job = "none" /\ thread'.todo = << >>
      /\ thread'.build = 0
  BY <1>1, ThreadResting
<1>5. TypeOK'
  <2> HIDE DEF result
  <2>1. /\ log' \in Seq(AckMsg \cup ResultMsg \cup StatsMsg \cup StatusMsg \cup ErrorMsg)
        /\ \A c \in Clients : since'[c] <= cursor'[c] /\ cursor'[c] <= Len(log')
    BY <1>1, <1>3, LogTypes DEF LogMsg
  <2> QED
    BY <1>1, <1>4, <2>1, ThreadMoves DEF TypeOK, counters
<1>6. ThreadSound' /\ StopCounted'
  BY <1>1, <1>4, ThreadMoves DEF ThreadSound, Publishing, Dead, StopCounted
<1> QED
  BY <1>1, <1>2, <1>3, <1>4, <1>5, <1>6, ThreadMoves

-----------------------------------------------------------------------------
(* The locals: every step.                                                 *)

LEMMA LocalInit == Init => LocalInv
<1> SUFFICES ASSUME Init PROVE LocalInv
  OBVIOUS
<1>1. thread = [Resting EXCEPT !.pc = "make"]
  BY DEF Init
<1>2. /\ thread \in Thread /\ thread.pc = "make" /\ thread.job = "none" /\ thread.todo = << >>
      /\ thread.build = 0
  BY <1>1, RestingTypes DEF Resting, Thread
<1>3. TypeOK
  <2>1. /\ queue \in Seq(QueuedOrder \cup QueuedPrefill)
        /\ log \in Seq(AckMsg \cup ResultMsg \cup StatsMsg \cup StatusMsg \cup ErrorMsg)
        /\ wire \in Seq([id : Nat \ {0}, by : Clients \cup {"prefill", "stream"}, seq : Nat])
        /\ Len(log) = 0
    BY EmptySeq DEF Init
  <2>2. Min({MinInterval, DefaultInterval})
          = IF MinInterval <= DefaultInterval THEN MinInterval ELSE DefaultInterval
    <3>1. MinInterval \in Int /\ DefaultInterval \in Int
      BY Limits
    <3> QED
      BY <3>1, MinOfTwo
  <2>3. interval \in Nat /\ interval >= Min({MinInterval, DefaultInterval})
    BY <2>2, Limits DEF Init
  <2>4. /\ handler \in [Clients -> Handler] /\ greeting \in [Clients -> StatsMsg]
        /\ \A c \in Clients : since[c] <= cursor[c] /\ cursor[c] <= Len(log)
    BY <2>1, RestingTypes DEF Init
  <2> QED
    BY <1>2, <2>1, <2>3, <2>4, Limits DEF Init, TypeOK
<1>4. HandlersSound
  <2>1. \A c \in Clients : handler[c] = Idle /\ conn[c] = "off"
    BY DEF Init
  <2>2. \A c \in Clients : Fits(c, Idle)
    BY DEF Fits, HasOrder, Idle
  <2> QED
    BY <2>1, <2>2 DEF HandlersSound
<1>5. ThreadSound
  BY <1>2 DEF ThreadSound, Publishing, Dead
<1>6. StopCounted
  BY <1>2 DEF StopCounted, Init
<1> QED
  BY <1>3, <1>4, <1>5, <1>6 DEF LocalInv

\* Steps of a connection that change nothing orders depend on.
Aside(c) == \/ Connect(c) \/ Receive(c) \/ Leave(c) \/ Deliver(c) \/ DropLagged(c)
            \/ Greeted(c) \/ StoreInterval(c) \/ Switch(c) \/ LoadNext(c)

LEMMA AsideLocal ==
  ASSUME LocalInv, NEW c \in Clients, Aside(c)
  PROVE  LocalInv' /\ Quiet
BY ConnectLocal, ReceiveLocal, CloseLocal, DeliverLocal, GreetedLocal, StoreIntervalLocal,
   SwitchLocal, LoadNextLocal
DEF Aside, Leave, DropLagged

LEMMA StutterLocal ==
  ASSUME LocalInv, UNCHANGED vars
  PROVE  LocalInv' /\ Quiet
<1>1. /\ UNCHANGED <<next_order_id, next_seq, queue, thread, total_sent, total_errors, wire>>
      /\ UNCHANGED <<streaming, interval, conn, cursor, since, greeting, handler, log, after_stop>>
      /\ UNCHANGED <<commands, connects, streamed>>
  BY DEF vars, threadVars, counters, switches, netVars, boundVars
<1> QED
  BY <1>1 DEF LocalInv, TypeOK, HandlersSound, ThreadSound, Publishing, Dead, StopCounted, Quiet,
              HeldSame, Holds, orderVars, counters

\* Every step is one of these.
LEMMA StepKinds ==
  ASSUME [Next]_vars
  PROVE  \/ UNCHANGED vars
         \/ \E c \in Clients : Aside(c) \/ Say(c) \/ BuildOrder(c) \/ SendCommand(c)
         \/ MakePublisher \/ TakeCommand \/ (NothingReceived \/ NoTick) \/ StreamTick
         \/ BuildNext \/ ToIngress \/ Publish \/ Count \/ Acknowledge \/ Report
BY DEF Next, Handle, publisher_thread, Aside

LEMMA LocalStep ==
  ASSUME LocalInv, [Next]_vars
  PROVE  LocalInv'
<1>1. CASE UNCHANGED vars
  BY <1>1, StutterLocal
<1>2. ASSUME NEW c \in Clients, Aside(c) \/ Say(c) \/ BuildOrder(c) \/ SendCommand(c)
      PROVE  LocalInv'
  BY <1>2, AsideLocal, SayLocal, BuildOrderLocal, SendCommandLocal
<1>3. CASE MakePublisher \/ TakeCommand \/ (NothingReceived \/ NoTick) \/ StreamTick
  BY <1>3, MakePublisherLocal, TakeCommandLocal, TurnLocal, StreamTickLocal
<1>4. CASE BuildNext \/ ToIngress \/ Publish \/ Count \/ Acknowledge \/ Report
  BY <1>4, BuildNextLocal, ToIngressLocal, PublishLocal, CountLocal, AcknowledgeLocal, ReportLocal
<1> QED
  BY <1>1, <1>2, <1>3, <1>4, StepKinds

-----------------------------------------------------------------------------
(* What steps do to the log, the channel and the identifiers.              *)

\* Nothing new was acknowledged.
SameAcks == Acks' = Acks /\ \A n \in Acks : log'[n] = log[n]

LEMMA LogType ==
  ASSUME TypeOK
  PROVE  /\ log \in Seq(LogMsg) /\ DOMAIN log = 1 .. Len(log) /\ Len(log) \in Nat
         /\ Acks \subseteq 1 .. Len(log)
         /\ \A n \in Acks : log[n] \in AckMsg
<1>1. log \in Seq(LogMsg)
  BY DEF TypeOK, LogMsg
<1>2. DOMAIN log = 1 .. Len(log) /\ Len(log) \in Nat /\ \A n \in 1 .. Len(log) : log[n] \in LogMsg
  BY <1>1, InQueue
<1>3. \A msg \in LogMsg : msg.type = "publish_ack" => msg \in AckMsg
  BY DEF LogMsg, AckMsg, ResultMsg, StatsMsg, StatusMsg, ErrorMsg
<1> QED
  BY <1>1, <1>2, <1>3 DEF Acks, Logged

LEMMA QuietAcks ==
  ASSUME UNCHANGED log
  PROVE  SameAcks
BY DEF SameAcks, Acks, Logged

\* What is no acknowledgement adds none.
LEMMA OtherLogged ==
  ASSUME TypeOK, NEW msg \in ResultMsg \cup StatsMsg \cup StatusMsg \cup ErrorMsg,
         log' = Append(log, msg)
  PROVE  SameAcks
<1>1. msg \in LogMsg /\ msg.type # "publish_ack"
  BY DEF LogMsg, ResultMsg, StatsMsg, StatusMsg, ErrorMsg
<1> QED
  BY <1>1, LogAppend DEF SameAcks, Acks, Logged

LEMMA AckLogged ==
  ASSUME TypeOK, NEW ack \in AckMsg, log' = Append(log, ack)
  PROVE  /\ Acks' = Acks \cup {Len(log) + 1} /\ Acks \subseteq 1 .. Len(log) /\ Len(log) \in Nat
         /\ \A n \in Acks : log'[n] = log[n]
         /\ log'[Len(log) + 1] = ack /\ Len(log') = Len(log) + 1
<1>1. ack \in LogMsg /\ ack.type = "publish_ack"
  BY DEF LogMsg, AckMsg
<1> QED
  BY <1>1, LogAppend DEF Acks, Logged

\* A command comes last in the channel.
LEMMA CommandQueued ==
  ASSUME TypeOK, NEW entry \in Command, queue' = Append(queue, entry)
  PROVE  /\ Queued \subseteq 1 .. Len(queue) /\ Len(queue) \in Nat
         /\ \A n \in Queued : queue'[n] = queue[n]
         /\ queue'[Len(queue) + 1] = entry
         /\ Queued' = IF entry.cmd.type = "submit_order" THEN Queued \cup {Len(queue) + 1} ELSE Queued
<1>1. queue \in Seq(Command)
  BY DEF TypeOK, Command
<1>2. /\ Len(queue) \in Nat /\ DOMAIN queue = 1 .. Len(queue) /\ DOMAIN queue' = 1 .. Len(queue) + 1
      /\ \A n \in 1 .. Len(queue) + 1 : queue'[n] = IF n <= Len(queue) THEN queue[n] ELSE entry
  BY <1>1, AppendToQueue, InQueue
<1> QED
  BY <1>2 DEF Queued

\* The first command leaves the channel and the others move up.
LEMMA CommandTaken ==
  ASSUME TypeOK, queue # << >>, queue' = Tail(queue)
  PROVE  /\ \A n \in Queued' : n + 1 \in Queued /\ queue'[n] = queue[n + 1] /\ n \in Nat /\ n >= 1
         /\ \A n \in Queued : n = 1 \/ (n - 1 \in Queued' /\ queue'[n - 1] = queue[n])
         /\ 1 \in Queued <=> queue[1].cmd.type = "submit_order"
         /\ Queued \subseteq 1 .. Len(queue) /\ Len(queue) \in Nat /\ 1 \in DOMAIN queue
<1>1. queue \in Seq(Command)
  BY DEF TypeOK, Command
<1>2. /\ Len(queue) \in Nat /\ DOMAIN queue = 1 .. Len(queue) /\ Len(queue) # 0
      /\ DOMAIN queue' = 1 .. Len(queue) - 1
      /\ \A n \in 1 .. Len(queue) - 1 : queue'[n] = queue[n + 1]
  <2>1. Tail(queue) \in Seq(Command) /\ Len(Tail(queue)) = Len(queue) - 1
        /\ \A i \in 1 .. Len(queue) - 1 : Tail(queue)[i] = queue[i + 1]
    BY <1>1, TailOfQueue
  <2>2. DOMAIN Tail(queue) = 1 .. Len(Tail(queue))
    BY <2>1, InQueue
  <2>3. Len(queue) \in Nat /\ DOMAIN queue = 1 .. Len(queue) /\ Len(queue) # 0
    BY <1>1, InQueue
  <2> QED
    BY <2>1, <2>2, <2>3
<1>3. 1 \in Queued <=> queue[1].cmd.type = "submit_order"
  BY <1>2 DEF Queued
<1>4. \A n \in Queued' : n + 1 \in Queued /\ queue'[n] = queue[n + 1] /\ n \in Nat /\ n >= 1
  BY <1>2 DEF Queued
<1>5. \A n \in Queued : n = 1 \/ (n - 1 \in Queued' /\ queue'[n - 1] = queue[n])
  <2> SUFFICES ASSUME NEW n \in Queued, n # 1 PROVE n - 1 \in Queued' /\ queue'[n - 1] = queue[n]
    OBVIOUS
  <2>1. n \in 1 .. Len(queue) /\ n - 1 \in 1 .. Len(queue) - 1 /\ (n - 1) + 1 = n
    BY <1>2 DEF Queued
  <2>2. queue'[n - 1] = queue[n]
    BY <1>2, <2>1
  <2> QED
    BY <1>2, <2>1, <2>2 DEF Queued
<1> QED
  BY <1>2, <1>3, <1>4, <1>5 DEF Queued

-----------------------------------------------------------------------------
(* Where the orders are.                                                   *)

\* What one step leaves alone: the orders of the handlers, of the channel, of the
\* thread and those acknowledged.
LEMMA IdsStay ==
  /\ HeldSame => /\ HeldIds' = HeldIds
                 /\ \A c, d \in Clients : Holds(c)' /\ Holds(d)' /\ handler'[c].held.id = handler'[d].held.id
                      => Holds(c) /\ Holds(d) /\ handler[c].held.id = handler[d].held.id
  /\ UNCHANGED queue => Queued' = Queued /\ QueuedIds' = QueuedIds
  /\ thread'.todo = thread.todo => TodoIds' = TodoIds
  /\ SameAcks => AckedIds' = AckedIds
  /\ queue' = << >> => Queued' = {} /\ QueuedIds' = {}
  /\ thread'.todo = << >> => TodoIds' = {}
<1>1. HeldSame => /\ HeldIds' = HeldIds
                  /\ \A c, d \in Clients : Holds(c)' /\ Holds(d)' /\ handler'[c].held.id = handler'[d].held.id
                      => Holds(c) /\ Holds(d) /\ handler[c].held.id = handler[d].held.id
  BY DEF HeldSame, HeldIds
<1>2. UNCHANGED queue => Queued' = Queued /\ QueuedIds' = QueuedIds
  BY DEF Queued, QueuedIds
<1>3. thread'.todo = thread.todo => TodoIds' = TodoIds
  BY DEF TodoIds
<1>4. SameAcks => AckedIds' = AckedIds
  BY DEF SameAcks, AckedIds
<1>5. queue' = << >> => Queued' = {} /\ QueuedIds' = {}
  BY DEF Queued, QueuedIds
<1>6. thread'.todo = << >> => TodoIds' = {}
  BY DEF TodoIds
<1> QED
  BY <1>1, <1>2, <1>3, <1>4, <1>5, <1>6

LEMMA OrdersStay ==
  ASSUME OrdersSound, HeldSame, SameAcks, UNCHANGED <<next_order_id, queue>>,
         thread'.todo = thread.todo, Dead => Dead'
  PROVE  OrdersSound'
<1>1. EachOnce'
  BY IdsStay DEF OrdersSound, EachOnce, SameAcks
<1> QED
  BY <1>1, IdsStay DEF OrdersSound

\* After a panic only orders of handlers and acknowledged ones are left.
LEMMA OrdersDie ==
  ASSUME OrdersSound, HeldSame, SameAcks, UNCHANGED next_order_id, queue' = << >>,
         thread'.todo = << >>, Dead'
  PROVE  OrdersSound'
<1>1. EachOnce'
  BY IdsStay DEF OrdersSound, EachOnce, SameAcks
<1> QED
  BY <1>1, IdsStay DEF OrdersSound

LEMMA BuildOrderOrders ==
  ASSUME LocalInv, OrdersSound, NEW c \in Clients, BuildOrder(c)
  PROVE  OrdersSound'
<1> DEFINE new == next_order_id + 1
<1>1. /\ next_order_id' = new /\ UNCHANGED <<queue, thread, log>> /\ next_order_id \in Nat
      /\ ~Holds(c) /\ Holds(c)' /\ handler'[c].held.id = new
      /\ \A d \in Clients : d # c => handler'[d] = handler[d]
  BY BuildOrderLocal DEF LocalInv, TypeOK
<1>2. \A d \in Clients : d # c => (Holds(d)' <=> Holds(d))
  BY <1>1 DEF Holds
<1>3. HeldIds' = HeldIds \cup {new}
  BY <1>1, <1>2 DEF HeldIds
<1>4. /\ SameAcks /\ Queued' = Queued /\ QueuedIds' = QueuedIds /\ TodoIds' = TodoIds
      /\ AckedIds' = AckedIds /\ (Dead <=> Dead')
  BY <1>1, QuietAcks, IdsStay DEF Dead
<1>5. new \notin HeldIds \cup QueuedIds \cup TodoIds \cup AckedIds
  BY <1>1 DEF OrdersSound
<1>6. 1 .. new = (1 .. next_order_id) \cup {new}
  BY <1>1
<1>7. EachOnce'
  <2>1. ASSUME NEW d \in Clients, NEW e \in Clients, Holds(d)', Holds(e)',
               handler'[d].held.id = handler'[e].held.id
        PROVE  d = e
    <3>1. \A f \in Clients : Holds(f) => handler[f].held.id # new
      BY <1>5 DEF HeldIds
    <3>2. \A f, g \in Clients : Holds(f) /\ Holds(g) /\ handler[f].held.id = handler[g].held.id => f = g
      BY DEF OrdersSound, EachOnce
    <3>3. \A f \in Clients : Holds(f)' => f = c \/ (Holds(f) /\ handler'[f].held.id = handler[f].held.id)
      BY <1>1, <1>2
    <3> QED
      BY <1>1, <2>1, <3>1, <3>2, <3>3
  <2> QED
    BY <1>1, <1>4, <2>1 DEF OrdersSound, EachOnce, SameAcks
<1> HIDE DEF new
<1> QED
  BY <1>1, <1>3, <1>4, <1>5, <1>6, <1>7 DEF OrdersSound

LEMMA SendCommandOrders ==
  ASSUME LocalInv, OrdersSound, NEW c \in Clients, SendCommand(c)
  PROVE  OrdersSound'
<1> DEFINE entry == [cmd |-> handler[c].cmd, order |-> handler[c].held]
           id    == handler[c].held.id
<1>1. /\ UNCHANGED <<next_order_id, thread, log>> /\ ~Holds(c)' /\ (Dead <=> Dead')
      /\ \A d \in Clients : d # c => handler'[d] = handler[d] /\ (Holds(d)' <=> Holds(d))
      /\ IF Dead THEN UNCHANGED queue ELSE entry \in Command /\ queue' = Append(queue, entry)
      /\ (handler[c].cmd.type = "submit_order") <=> Holds(c)
  BY SendCommandLocal DEF Dead, Holds
<1> HIDE DEF entry
<1>2. SameAcks /\ TodoIds' = TodoIds /\ AckedIds' = AckedIds
  BY <1>1, QuietAcks, IdsStay
<1>3. /\ \A d, e \in Clients : Holds(d)' /\ Holds(e)' /\ handler'[d].held.id = handler'[e].held.id => d = e
      /\ Holds(c) => HeldIds = HeldIds' \cup {id} /\ id \notin HeldIds'
      /\ ~Holds(c) => HeldIds' = HeldIds
  <2>1. \A d \in Clients : Holds(d)' => d # c /\ Holds(d) /\ handler'[d].held.id = handler[d].held.id
    BY <1>1
  <2>2. \A d, e \in Clients : Holds(d) /\ Holds(e) /\ handler[d].held.id = handler[e].held.id => d = e
    BY DEF OrdersSound, EachOnce
  <2>3. \A d \in Clients : Holds(d) => d = c \/ (Holds(d)' /\ handler'[d].held.id = handler[d].held.id)
    BY <1>1
  <2>4. Holds(c) => HeldIds = HeldIds' \cup {id} /\ id \notin HeldIds'
    BY <2>1, <2>2, <2>3 DEF HeldIds
  <2>5. ~Holds(c) => HeldIds' = HeldIds
    BY <2>1, <2>3 DEF HeldIds
  <2> QED
    BY <2>1, <2>2, <2>4, <2>5
<1>4. CASE Dead
  <2>1. HeldIds' \subseteq HeldIds /\ QueuedIds' = QueuedIds /\ Queued' = Queued /\ queue' = queue
    BY <1>1, <1>3, <1>4, IdsStay
  <2>2. EachOnce'
    BY <1>1, <1>2, <1>3, <2>1 DEF OrdersSound, EachOnce, SameAcks
  <2> QED
    BY <1>1, <1>2, <1>4, <2>1, <2>2 DEF OrdersSound
<1>5. CASE ~Dead /\ Holds(c)
  <2>1. /\ Queued \subseteq 1 .. Len(queue) /\ Len(queue) \in Nat
        /\ \A n \in Queued : queue'[n] = queue[n]
        /\ queue'[Len(queue) + 1] = entry /\ Queued' = Queued \cup {Len(queue) + 1}
    BY <1>1, <1>5, CommandQueued DEF LocalInv, entry
  <2>2. entry.order.id = id
    BY DEF entry
  <2>3. QueuedIds' = QueuedIds \cup {id}
    BY <2>1, <2>2 DEF QueuedIds
  <2>4. id \notin QueuedIds \cup TodoIds \cup AckedIds
    BY <1>3, <1>5 DEF OrdersSound
  <2>5. \A n, k \in Queued' : queue'[n].order.id = queue'[k].order.id => n = k
    <3>1. \A n \in Queued : queue[n].order.id # id
      BY <2>4 DEF QueuedIds
    <3>2. \A n, k \in Queued : queue[n].order.id = queue[k].order.id => n = k
      BY DEF OrdersSound, EachOnce
    <3> QED
      <4>1. \A n \in Queued' : \/ n \in Queued /\ queue'[n].order.id = queue[n].order.id
                               \/ n = Len(queue) + 1 /\ queue'[n].order.id = id
        BY <2>1, <2>2
      <4> HIDE DEF id
      <4> QED
        BY <3>1, <3>2, <4>1
  <2>6. EachOnce'
    BY <1>1, <1>2, <1>3, <2>5 DEF OrdersSound, EachOnce, SameAcks
  <2> HIDE DEF id
  <2> QED
    BY <1>1, <1>2, <1>3, <1>5, <2>3, <2>4, <2>6 DEF OrdersSound
<1>6. CASE ~Dead /\ ~Holds(c)
  <2>1. Queued' = Queued /\ \A n \in Queued : queue'[n] = queue[n]
    BY <1>1, <1>6, CommandQueued DEF LocalInv, entry
  <2>2. QueuedIds' = QueuedIds
    BY <2>1 DEF QueuedIds
  <2>3. EachOnce'
    BY <1>1, <1>2, <1>3, <2>1 DEF OrdersSound, EachOnce, SameAcks
  <2> QED
    BY <1>1, <1>2, <1>3, <1>6, <2>2, <2>3 DEF OrdersSound
<1> QED
  BY <1>4, <1>5, <1>6

LEMMA TakeCommandOrders ==
  ASSUME LocalInv, OrdersSound, TakeCommand
  PROVE  OrdersSound'
<1>1. /\ HeldSame /\ UNCHANGED <<next_order_id, log>> /\ thread.todo = << >>
      /\ queue # << >> /\ queue' = Tail(queue) /\ ~Dead /\ ~Dead'
      /\ IF queue[1].cmd.type = "submit_order" THEN thread'.todo = <<queue[1].order>>
                                               ELSE thread'.todo = << >>
  BY TakeCommandLocal DEF Dead
<1>2. /\ SameAcks /\ AckedIds' = AckedIds /\ HeldIds' = HeldIds /\ TodoIds = {}
  <2>1. TodoIds = {}
    BY <1>1 DEF TodoIds
  <2> QED
    BY <1>1, <2>1, QuietAcks, IdsStay
<1>3. /\ \A n \in Queued' : n + 1 \in Queued /\ queue'[n] = queue[n + 1] /\ n \in Nat /\ n >= 1
      /\ \A n \in Queued : n = 1 \/ (n - 1 \in Queued' /\ queue'[n - 1] = queue[n])
      /\ 1 \in Queued <=> queue[1].cmd.type = "submit_order"
      /\ Queued \subseteq 1 .. Len(queue) /\ Len(queue) \in Nat
  BY <1>1, CommandTaken DEF LocalInv
<1>4. /\ QueuedIds = QueuedIds' \cup TodoIds' /\ QueuedIds' \cap TodoIds' = {}
      /\ \A n, k \in Queued' : queue'[n].order.id = queue'[k].order.id => n = k
      /\ \A n, k \in DOMAIN thread'.todo : n < k => thread'.todo[n].id < thread'.todo[k].id
  <2>1. \A n, k \in Queued : queue[n].order.id = queue[k].order.id => n = k
    BY DEF OrdersSound, EachOnce
  <2>2. \A n \in Queued' : n + 1 # 1 /\ queue'[n].order.id = queue[n + 1].order.id /\ n \in 0 .. Len(queue)
    BY <1>3
  <2>3. \A n, k \in Queued' : queue'[n].order.id = queue'[k].order.id => n = k
    <3> SUFFICES ASSUME NEW n \in Queued', NEW k \in Queued', queue'[n].order.id = queue'[k].order.id
                 PROVE  n = k
      OBVIOUS
    <3>1. /\ n + 1 \in Queued /\ queue'[n] = queue[n + 1] /\ n \in Nat
          /\ k + 1 \in Queued /\ queue'[k] = queue[k + 1] /\ k \in Nat
      BY <1>3
    <3>2. queue[n + 1].order.id = queue[k + 1].order.id
      BY <3>1
    <3>3. n + 1 = k + 1
      BY <2>1, <3>1, <3>2
    <3> QED
      BY <3>1, <3>3
  <2>4. CASE queue[1].cmd.type = "submit_order"
    <3>1. TodoIds' = {queue[1].order.id} /\ DOMAIN thread'.todo = {1} /\ 1 \in Queued
      BY <1>1, <1>3, <2>4 DEF TodoIds
    <3>2. QueuedIds = QueuedIds' \cup {queue[1].order.id}
      <4>1. \A n \in Queued' : \E k \in Queued : queue'[n] = queue[k]
        BY <1>3
      <4>2. \A n \in Queued : n = 1 \/ \E k \in Queued' : queue'[k] = queue[n]
        BY <1>3
      <4> QED
        BY <3>1, <4>1, <4>2 DEF QueuedIds
    <3>3. queue[1].order.id \notin QueuedIds'
      <4>1. \A n \in Queued' : queue'[n].order.id # queue[1].order.id
        BY <1>3, <2>1, <2>2, <3>1
      <4> QED
        BY <4>1 DEF QueuedIds
    <3> QED
      BY <2>3, <3>1, <3>2, <3>3
  <2>5. CASE queue[1].cmd.type # "submit_order"
    <3>1. TodoIds' = {} /\ DOMAIN thread'.todo = {} /\ 1 \notin Queued
      BY <1>1, <1>3, <2>5, IdsStay
    <3>2. QueuedIds = QueuedIds'
      <4>1. \A n \in Queued' : \E k \in Queued : queue'[n] = queue[k]
        BY <1>3
      <4>2. \A n \in Queued : \E k \in Queued' : queue'[k] = queue[n]
        BY <1>3, <3>1
      <4> QED
        BY <4>1, <4>2 DEF QueuedIds
    <3> QED
      BY <2>3, <3>1, <3>2
  <2> QED
    BY <2>4, <2>5
<1>5. EachOnce'
  BY <1>1, <1>2, <1>4, IdsStay DEF OrdersSound, EachOnce, SameAcks
<1> QED
  BY <1>1, <1>2, <1>4, <1>5 DEF OrdersSound

LEMMA BuildNextOrders ==
  ASSUME LocalInv, OrdersSound, BuildNext
  PROVE  OrdersSound'
<1> DEFINE new == next_order_id + 1
<1>1. /\ HeldSame /\ UNCHANGED <<queue, log>> /\ next_order_id' = new /\ next_order_id \in Nat
      /\ ~Dead /\ ~Dead'
      /\ \E order \in Order : thread'.todo = Append(thread.todo, order) /\ order.id = new
  BY BuildNextLocal DEF Dead
<1>2. PICK order \in Order : thread'.todo = Append(thread.todo, order) /\ order.id = new
  BY <1>1
<1>3. /\ SameAcks /\ AckedIds' = AckedIds /\ HeldIds' = HeldIds /\ QueuedIds' = QueuedIds
      /\ Queued' = Queued
  BY <1>1, QuietAcks, IdsStay
<1>4. /\ Len(thread.todo) \in Nat /\ DOMAIN thread.todo = 1 .. Len(thread.todo)
      /\ DOMAIN thread'.todo = 1 .. Len(thread.todo) + 1
      /\ \A n \in 1 .. Len(thread.todo) + 1 :
           thread'.todo[n] = IF n <= Len(thread.todo) THEN thread.todo[n] ELSE order
      /\ \A n \in 1 .. Len(thread.todo) : thread.todo[n] \in Order
  <2>1. thread.todo \in Seq(Order)
    BY ThreadType DEF LocalInv
  <2> QED
    BY <1>2, <2>1, AppendToQueue, InQueue
<1>5. TodoIds' = TodoIds \cup {new}
  BY <1>2, <1>4 DEF TodoIds
<1>6. new \notin HeldIds \cup QueuedIds \cup TodoIds \cup AckedIds
  BY <1>1 DEF OrdersSound
<1>7. 1 .. new = (1 .. next_order_id) \cup {new}
  BY <1>1
<1>8. \A n, k \in DOMAIN thread'.todo : n < k => thread'.todo[n].id < thread'.todo[k].id
  <2>1. \A n \in 1 .. Len(thread.todo) : thread.todo[n].id \in TodoIds
    BY <1>4 DEF TodoIds
  <2>2. \A n \in 1 .. Len(thread.todo) : thread.todo[n].id \in Nat /\ thread.todo[n].id < new
    BY <1>1, <2>1 DEF OrdersSound
  <2>3. \A n, k \in 1 .. Len(thread.todo) : n < k => thread.todo[n].id < thread.todo[k].id
    BY <1>4 DEF OrdersSound, EachOnce
  <2> HIDE DEF new
  <2>4. SUFFICES ASSUME NEW n \in 1 .. Len(thread.todo) + 1, NEW k \in 1 .. Len(thread.todo) + 1, n < k
        PROVE  thread'.todo[n].id < thread'.todo[k].id
    BY <1>4
  <2>5. n \in 1 .. Len(thread.todo) /\ thread'.todo[n] = thread.todo[n]
    BY <1>4, <2>4
  <2>6. CASE k <= Len(thread.todo)
    <3>1. k \in 1 .. Len(thread.todo) /\ thread'.todo[k] = thread.todo[k]
      BY <1>4, <2>6
    <3> QED
      BY <2>3, <2>4, <2>5, <3>1
  <2>7. CASE ~(k <= Len(thread.todo))
    <3>1. thread'.todo[k] = order
      BY <1>4, <2>7
    <3> QED
      BY <1>2, <2>2, <2>5, <3>1
  <2> QED
    BY <2>6, <2>7
<1>9. EachOnce'
  BY <1>1, <1>3, <1>8, IdsStay DEF OrdersSound, EachOnce, SameAcks
<1> HIDE DEF new
<1> QED
  BY <1>1, <1>3, <1>5, <1>6, <1>7, <1>9 DEF OrdersSound

\* The first element of what the thread has left, and the rest.
LEMMA TodoShifts ==
  ASSUME TypeOK, thread.todo # << >>, thread'.todo = Tail(thread.todo)
  PROVE  /\ Len(thread.todo) \in Nat /\ Len(thread.todo) >= 1
         /\ DOMAIN thread.todo = 1 .. Len(thread.todo)
         /\ DOMAIN thread'.todo = 1 .. Len(thread.todo) - 1
         /\ \A n \in DOMAIN thread'.todo : n + 1 \in DOMAIN thread.todo
                                           /\ thread'.todo[n] = thread.todo[n + 1]
         /\ \A n \in DOMAIN thread.todo : n = 1 \/ (n - 1 \in DOMAIN thread'.todo
                                                    /\ thread'.todo[n - 1] = thread.todo[n])
         /\ thread.todo[1] \in Order
<1>1. thread.todo \in Seq(Order)
  BY ThreadType
<1>2. /\ thread.todo[1] \in Order /\ Tail(thread.todo) \in Seq(Order)
      /\ Len(Tail(thread.todo)) = Len(thread.todo) - 1
      /\ \A n \in 1 .. Len(thread.todo) - 1 : Tail(thread.todo)[n] = thread.todo[n + 1]
      /\ Len(thread.todo) \in Nat /\ DOMAIN thread.todo = 1 .. Len(thread.todo)
      /\ Len(thread.todo) # 0
  BY <1>1, TailOfQueue, InQueue
<1>3. DOMAIN Tail(thread.todo) = 1 .. Len(Tail(thread.todo))
  BY <1>2, InQueue
<1>4. DOMAIN thread'.todo = 1 .. Len(thread.todo) - 1
  BY <1>2, <1>3
<1>5. \A n \in 1 .. Len(thread.todo) - 1 : thread'.todo[n] = thread.todo[n + 1]
  BY <1>2
<1>6. ASSUME NEW n \in 1 .. Len(thread.todo), n # 1
      PROVE  n - 1 \in DOMAIN thread'.todo /\ thread'.todo[n - 1] = thread.todo[n]
  <2>1. n - 1 \in 1 .. Len(thread.todo) - 1 /\ (n - 1) + 1 = n
    BY <1>2, <1>6
  <2>2. thread'.todo[n - 1] = thread.todo[(n - 1) + 1]
    BY <1>5, <2>1
  <2> QED
    BY <1>4, <2>1, <2>2
<1> QED
  BY <1>2, <1>4, <1>5, <1>6

LEMMA AcknowledgeOrders ==
  ASSUME LocalInv, OrdersSound, Acknowledge
  PROVE  OrdersSound'
<1> DEFINE id == thread.todo[1].id
<1>1. /\ HeldSame /\ UNCHANGED <<next_order_id, queue>> /\ ~Dead /\ ~Dead' /\ thread.todo # << >>
      /\ thread'.todo = Tail(thread.todo)
      /\ \E ack \in AckMsg : log' = Append(log, ack) /\ ack.order_id = id
  BY AcknowledgeLocal DEF Dead
<1>2. PICK ack \in AckMsg : log' = Append(log, ack) /\ ack.order_id = id
  BY <1>1
<1>3. /\ Acks' = Acks \cup {Len(log) + 1} /\ Acks \subseteq 1 .. Len(log) /\ Len(log) \in Nat
      /\ \A n \in Acks : log'[n] = log[n]
      /\ log'[Len(log) + 1] = ack
  BY <1>2, AckLogged DEF LocalInv
<1>4. /\ Len(thread.todo) \in Nat /\ Len(thread.todo) >= 1
      /\ DOMAIN thread.todo = 1 .. Len(thread.todo)
      /\ DOMAIN thread'.todo = 1 .. Len(thread.todo) - 1
      /\ \A n \in DOMAIN thread'.todo : n + 1 \in DOMAIN thread.todo
                                        /\ thread'.todo[n] = thread.todo[n + 1]
      /\ \A n \in DOMAIN thread.todo : n = 1 \/ (n - 1 \in DOMAIN thread'.todo
                                                 /\ thread'.todo[n - 1] = thread.todo[n])
  BY <1>1, TodoShifts DEF LocalInv
<1>5. /\ TodoIds = TodoIds' \cup {id} /\ id \notin TodoIds'
      /\ \A n, k \in DOMAIN thread'.todo : n < k => thread'.todo[n].id < thread'.todo[k].id
  <2>1. \A n, k \in DOMAIN thread.todo : n < k => thread.todo[n].id < thread.todo[k].id
    BY DEF OrdersSound, EachOnce
  <2>2. \A n \in DOMAIN thread.todo : thread.todo[n].id \in Nat
    <3>1. \A n \in DOMAIN thread.todo : thread.todo[n].id \in TodoIds
      BY DEF TodoIds
    <3> QED
      BY <3>1 DEF OrdersSound
  <2>3. \A n \in DOMAIN thread'.todo : n + 1 \in DOMAIN thread.todo /\ 1 < n + 1 /\ n \in Nat
    BY <1>4
  <2>4. \A n \in DOMAIN thread'.todo : id < thread'.todo[n].id
    BY <1>4, <2>1, <2>3
  <2>5. id \notin TodoIds'
    <3>1. \A n \in DOMAIN thread'.todo : thread'.todo[n].id \in Nat
      BY <1>4, <2>2
    <3>2. id \in Nat
      BY <1>4, <2>2
    <3>3. \A n \in DOMAIN thread'.todo : thread'.todo[n].id # id
      BY <2>4, <3>1, <3>2
    <3> HIDE DEF id
    <3> QED
      BY <3>3 DEF TodoIds
  <2>6. TodoIds = TodoIds' \cup {id}
    <3>1. \A n \in DOMAIN thread'.todo : \E k \in DOMAIN thread.todo : thread'.todo[n] = thread.todo[k]
      BY <1>4
    <3>2. \A n \in DOMAIN thread.todo :
            n = 1 \/ \E k \in DOMAIN thread'.todo : thread'.todo[k] = thread.todo[n]
      BY <1>4
    <3>3. 1 \in DOMAIN thread.todo
      BY <1>4
    <3> QED
      BY <3>1, <3>2, <3>3 DEF TodoIds
  <2>7. \A n, k \in DOMAIN thread'.todo : n < k => thread'.todo[n].id < thread'.todo[k].id
    <3> SUFFICES ASSUME NEW n \in DOMAIN thread'.todo, NEW k \in DOMAIN thread'.todo, n < k
                 PROVE  thread'.todo[n].id < thread'.todo[k].id
      OBVIOUS
    <3>1. n + 1 \in DOMAIN thread.todo /\ k + 1 \in DOMAIN thread.todo /\ n + 1 < k + 1
      BY <1>4, <2>3
    <3>2. thread'.todo[n] = thread.todo[n + 1] /\ thread'.todo[k] = thread.todo[k + 1]
      BY <1>4
    <3> QED
      BY <2>1, <3>1, <3>2
  <2> QED
    BY <2>5, <2>6, <2>7
<1>6. AckedIds' = AckedIds \cup {id} /\ id \notin AckedIds
  <2>1. id \notin AckedIds
    BY <1>5 DEF OrdersSound
  <2> QED
    BY <1>2, <1>3, <2>1 DEF AckedIds
<1>7. \A n, k \in Acks' : log'[n].order_id = log'[k].order_id => n = k
  <2>1. \A n \in Acks : log[n].order_id # id
    BY <1>6 DEF AckedIds
  <2>2. \A n, k \in Acks : log[n].order_id = log[k].order_id => n = k
    BY DEF OrdersSound, EachOnce
  <2> QED
    BY <1>2, <1>3, <2>1, <2>2
<1>8. /\ HeldIds' = HeldIds /\ QueuedIds' = QueuedIds /\ Queued' = Queued
  BY <1>1, IdsStay
<1>9. EachOnce'
  BY <1>1, <1>5, <1>7, <1>8, IdsStay DEF OrdersSound, EachOnce
<1> HIDE DEF id
<1> QED
  BY <1>1, <1>5, <1>6, <1>8, <1>9 DEF OrdersSound

LEMMA OrdersInit == Init => OrdersSound
<1> SUFFICES ASSUME Init PROVE OrdersSound
  OBVIOUS
<1>1. /\ HeldIds = {} /\ \A c \in Clients : ~Holds(c)
  BY DEF Init, HeldIds, Holds, HasOrder, Idle
<1>2. Queued = {} /\ QueuedIds = {} /\ Acks = {} /\ AckedIds = {} /\ next_order_id = 0
  BY DEF Init, Queued, QueuedIds, Acks, Logged, AckedIds
<1>3. thread.todo = << >> /\ TodoIds = {}
  BY DEF Init, TodoIds, Resting
<1> QED
  BY <1>1, <1>2, <1>3 DEF OrdersSound, EachOnce

LEMMA OrdersStep ==
  ASSUME LocalInv, OrdersSound, [Next]_vars
  PROVE  OrdersSound'
<1>1. ASSUME Quiet PROVE OrdersSound'
  BY <1>1, QuietAcks, OrdersStay DEF Quiet, orderVars, Dead
<1>2. CASE UNCHANGED vars
  BY <1>1, <1>2, StutterLocal
<1>3. ASSUME NEW c \in Clients, Aside(c)
      PROVE  OrdersSound'
  BY <1>1, <1>3, AsideLocal
<1>4. ASSUME NEW c \in Clients, Say(c)
      PROVE  OrdersSound'
  <2>1. SameAcks
    BY <1>4, SayLocal, OtherLogged DEF LocalInv
  <2> QED
    BY <1>4, <2>1, SayLocal, OrdersStay DEF orderVars, Dead
<1>5. ASSUME NEW c \in Clients, BuildOrder(c) \/ SendCommand(c)
      PROVE  OrdersSound'
  BY <1>5, BuildOrderOrders, SendCommandOrders
<1>6. CASE MakePublisher
  BY <1>6, MakePublisherLocal, QuietAcks, OrdersStay, OrdersDie DEF Dead
<1>7. CASE TakeCommand
  BY <1>7, TakeCommandOrders
<1>8. CASE (NothingReceived \/ NoTick) \/ StreamTick
  BY <1>8, TurnLocal, StreamTickLocal, QuietAcks, OrdersStay DEF Dead
<1>9. CASE BuildNext
  BY <1>9, BuildNextOrders
<1>10. CASE ToIngress
  BY <1>10, ToIngressLocal, QuietAcks, OrdersStay, OrdersDie DEF Dead
<1>11. CASE Publish \/ Count
  BY <1>11, PublishLocal, CountLocal, QuietAcks, OrdersStay DEF Dead
<1>12. CASE Acknowledge
  BY <1>12, AcknowledgeOrders
<1>13. CASE Report
  <2>1. SameAcks
    BY <1>13, ReportLocal, OtherLogged DEF LocalInv
  <2> QED
    BY <1>13, <2>1, ReportLocal, OrdersStay DEF Dead
<1> QED
  BY <1>2, <1>3, <1>4, <1>5, <1>6, <1>7, <1>8, <1>9, <1>10, <1>11, <1>12, <1>13, StepKinds

-----------------------------------------------------------------------------
(* What is on the wire.                                                    *)

WiredIds == {wire[n].id : n \in DOMAIN wire}
GoodIds  == {log[n].order_id : n \in {k \in Acks : ~Failed(k)}}
JustIds  == {thread.todo[n].id : n \in {k \in {1} : JustPublished}}

LEMMA WireType ==
  ASSUME TypeOK
  PROVE  /\ wire \in Seq(OnWire) /\ DOMAIN wire = 1 .. Len(wire) /\ Len(wire) \in Nat
         /\ \A n \in DOMAIN wire : wire[n] \in OnWire
<1>1. wire \in Seq(OnWire)
  BY DEF TypeOK, OnWire
<1> QED
  BY <1>1, InQueue

LEMMA WireAppend ==
  ASSUME TypeOK, NEW entry \in OnWire, wire' = Append(wire, entry)
  PROVE  /\ DOMAIN wire = 1 .. Len(wire) /\ Len(wire) \in Nat
         /\ DOMAIN wire' = 1 .. Len(wire) + 1 /\ Len(wire') = Len(wire) + 1
         /\ \A n \in DOMAIN wire : wire'[n] = wire[n]
         /\ wire'[Len(wire) + 1] = entry
<1>1. wire \in Seq(OnWire)
  BY WireType
<1>2. /\ DOMAIN wire = 1 .. Len(wire) /\ Len(wire) \in Nat
      /\ Len(wire') = Len(wire) + 1 /\ wire' \in Seq(OnWire)
      /\ \A n \in 1 .. Len(wire) + 1 : wire'[n] = IF n <= Len(wire) THEN wire[n] ELSE entry
  BY <1>1, AppendToQueue, InQueue
<1>3. DOMAIN wire' = 1 .. Len(wire) + 1
  BY <1>2, InQueue
<1> QED
  BY <1>2, <1>3

LEMMA WireStays ==
  ASSUME WireSound, SameAcks, UNCHANGED wire, JustPublished' <=> JustPublished,
         JustPublished => thread'.todo[1] = thread.todo[1]
  PROVE  WireSound'
<1>1. GoodIds' = GoodIds
  BY DEF GoodIds, SameAcks, Failed
<1>2. JustIds' = JustIds
  BY DEF JustIds
<1>3. WiredIds' = WiredIds
  BY DEF WiredIds
<1>4. WiredIds = GoodIds \cup JustIds
  BY DEF WireSound, WiredIds, GoodIds, JustIds
<1>5. WiredIds' = GoodIds' \cup JustIds'
  BY <1>1, <1>2, <1>3, <1>4
<1>6. \A n \in Acks' : (log'[n].result = "gave_up") <=> (log'[n].retries = MaxRetries + 1)
  BY DEF WireSound, SameAcks
<1>7. \A n, k \in DOMAIN wire' : wire'[n].id = wire'[k].id => n = k
  BY DEF WireSound
<1> QED
  BY <1>5, <1>6, <1>7 DEF WireSound, WiredIds, GoodIds, JustIds

LEMMA PublishWire ==
  ASSUME LocalInv, OrdersSound, WireSound, Publish
  PROVE  WireSound'
<1>1. /\ UNCHANGED log /\ thread.pc = "publish" /\ thread'.todo = thread.todo /\ thread.todo # << >>
      /\ \/ /\ thread'.pc = "count" /\ thread'.result = "ok"
            /\ \E entry \in OnWire : wire' = Append(wire, entry) /\ entry.id = thread.todo[1].id
         \/ /\ thread'.pc = "publish" \/ (thread'.pc = "count" /\ thread'.result # "ok")
            /\ UNCHANGED wire
  BY PublishLocal
<1>2. SameAcks /\ ~JustPublished
  BY <1>1, QuietAcks DEF JustPublished
<1>3. CASE UNCHANGED wire /\ ~JustPublished'
  BY <1>2, <1>3, WireStays
<1>4. ASSUME thread'.pc = "count", thread'.result = "ok",
             NEW entry \in OnWire, wire' = Append(wire, entry), entry.id = thread.todo[1].id
      PROVE  WireSound'
  <2>1. /\ DOMAIN wire' = DOMAIN wire \cup {Len(wire) + 1}
        /\ \A n \in DOMAIN wire : wire'[n] = wire[n]
        /\ wire'[Len(wire) + 1] = entry
    BY <1>4, WireAppend DEF LocalInv
  <2>2. JustIds' = {entry.id} /\ JustIds = {}
    BY <1>1, <1>2, <1>4 DEF JustIds, JustPublished
  <2>3. WiredIds' = WiredIds \cup {entry.id}
    BY <2>1 DEF WiredIds
  <2>4. GoodIds' = GoodIds
    BY <1>2 DEF GoodIds, SameAcks, Failed
  <2>5. WiredIds = GoodIds \cup JustIds
    BY DEF WireSound, WiredIds, GoodIds, JustIds
  <2>6. entry.id \notin WiredIds
    <3>1. GoodIds \subseteq AckedIds
      BY DEF GoodIds, AckedIds
    <3>2. 1 \in DOMAIN thread.todo
      <4>1. thread.todo \in Seq(Order)
        BY ThreadType DEF LocalInv
      <4> QED
        BY <1>1, <4>1, InQueue
    <3>3. entry.id \in TodoIds
      BY <1>4, <3>2 DEF TodoIds
    <3> QED
      BY <2>2, <2>5, <3>1, <3>3 DEF OrdersSound
  <2>7. \A n, k \in DOMAIN wire' : wire'[n].id = wire'[k].id => n = k
    <3>1. \A n \in DOMAIN wire : wire[n].id # entry.id
      BY <2>6 DEF WiredIds
    <3>2. \A n, k \in DOMAIN wire : wire[n].id = wire[k].id => n = k
      BY DEF WireSound
    <3> QED
      BY <2>1, <3>1, <3>2
  <2>8. \A n \in Acks' : (log'[n].result = "gave_up") <=> (log'[n].retries = MaxRetries + 1)
    BY <1>2 DEF WireSound, SameAcks
  <2>9. WiredIds' = GoodIds' \cup JustIds'
    BY <2>2, <2>3, <2>4, <2>5
  <2> QED
    BY <2>7, <2>8, <2>9 DEF WireSound, WiredIds, GoodIds, JustIds
<1> QED
  BY <1>1, <1>3, <1>4 DEF JustPublished

LEMMA AcknowledgeWire ==
  ASSUME LocalInv, WireSound, Acknowledge
  PROVE  WireSound'
<1>1. /\ UNCHANGED wire /\ thread.pc = "ack" /\ thread'.pc \notin {"count", "ack"}
      /\ \E ack \in AckMsg : /\ log' = Append(log, ack) /\ ack.order_id = thread.todo[1].id
                             /\ ack.result = thread.result /\ ack.retries = thread.retries
      /\ (thread.result = "gave_up") <=> (thread.retries = MaxRetries + 1)
  BY AcknowledgeLocal
<1>2. PICK ack \in AckMsg : /\ log' = Append(log, ack) /\ ack.order_id = thread.todo[1].id
                            /\ ack.result = thread.result /\ ack.retries = thread.retries
  BY <1>1
<1> DEFINE last == Len(log) + 1
<1>3. /\ Acks' = Acks \cup {last} /\ \A n \in Acks : log'[n] = log[n]
      /\ log'[last] = ack
  BY <1>2, AckLogged DEF LocalInv
<1>4. WiredIds = GoodIds \cup JustIds /\ WiredIds' = WiredIds
  BY <1>1 DEF WireSound, WiredIds, GoodIds, JustIds
<1>5. JustIds' = {} /\ JustIds = IF thread.result = "ok" THEN {thread.todo[1].id} ELSE {}
  BY <1>1 DEF JustIds, JustPublished
<1> HIDE DEF last
<1>6. GoodIds' = GoodIds \cup JustIds
  <2>1. GoodIds' = {log'[n].order_id : n \in {k \in Acks' : log'[k].result # "ok" => FALSE}}
    BY DEF GoodIds, Failed
  <2>2. GoodIds = {log[n].order_id : n \in {k \in Acks : log[k].result = "ok"}}
    BY DEF GoodIds, Failed
  <2>3. CASE thread.result = "ok"
    <3>1. {k \in Acks' : log'[k].result # "ok" => FALSE} = {k \in Acks : log[k].result = "ok"} \cup {last}
      BY <1>2, <1>3, <2>3
    <3> QED
      <4> DEFINE S == {k \in Acks : log[k].result = "ok"}
      <4>1. (\A n \in S : log'[n] = log[n]) /\ log'[last].order_id = thread.todo[1].id
        BY <1>2, <1>3
      <4>2. GoodIds' = {log'[n].order_id : n \in S \cup {last}} /\ GoodIds = {log[n].order_id : n \in S}
        BY <2>1, <2>2, <3>1
      <4>3. JustIds = {thread.todo[1].id}
        BY <1>5, <2>3
      <4> HIDE DEF S
      <4> QED
        BY <4>1, <4>2, <4>3
  <2>4. CASE thread.result # "ok"
    <3>1. {k \in Acks' : log'[k].result # "ok" => FALSE} = {k \in Acks : log[k].result = "ok"}
      BY <1>2, <1>3, <2>4
    <3> QED
      BY <1>3, <1>5, <2>1, <2>2, <2>4, <3>1
  <2> QED
    BY <2>3, <2>4
<1>7. WiredIds' = GoodIds' \cup JustIds'
  BY <1>4, <1>5, <1>6
<1>8. \A n \in Acks' : (log'[n].result = "gave_up") <=> (log'[n].retries = MaxRetries + 1)
  BY <1>1, <1>2, <1>3 DEF WireSound
<1>9. \A n, k \in DOMAIN wire' : wire'[n].id = wire'[k].id => n = k
  BY <1>1 DEF WireSound
<1> QED
  BY <1>7, <1>8, <1>9 DEF WireSound, WiredIds, GoodIds, JustIds

LEMMA WireInit == Init => WireSound
<1> SUFFICES ASSUME Init PROVE WireSound
  OBVIOUS
<1>1. wire = << >> /\ Acks = {} /\ ~JustPublished
  BY DEF Init, Acks, Logged, JustPublished, Resting
<1>2. WiredIds = {} /\ GoodIds = {} /\ JustIds = {}
  BY <1>1 DEF WiredIds, GoodIds, JustIds
<1> QED
  BY <1>1, <1>2 DEF WireSound, WiredIds, GoodIds, JustIds

LEMMA WireStep ==
  ASSUME LocalInv, OrdersSound, WireSound, [Next]_vars
  PROVE  WireSound'
<1>1. ASSUME UNCHANGED <<wire, thread>>, SameAcks PROVE WireSound'
  BY <1>1, WireStays DEF JustPublished
<1>2. CASE UNCHANGED vars
  BY <1>1, <1>2, StutterLocal, QuietAcks DEF Quiet, orderVars
<1>3. ASSUME NEW c \in Clients, Aside(c)
      PROVE  WireSound'
  BY <1>1, <1>3, AsideLocal, QuietAcks DEF Quiet, orderVars
<1>4. ASSUME NEW c \in Clients, Say(c)
      PROVE  WireSound'
  <2>1. SameAcks
    BY <1>4, SayLocal, OtherLogged DEF LocalInv
  <2> QED
    BY <1>1, <1>4, <2>1, SayLocal DEF orderVars
<1>5. ASSUME NEW c \in Clients, BuildOrder(c) \/ SendCommand(c)
      PROVE  WireSound'
  BY <1>1, <1>5, BuildOrderLocal, SendCommandLocal, QuietAcks
<1>6. CASE MakePublisher \/ TakeCommand \/ (NothingReceived \/ NoTick) \/ StreamTick
  <2>1. /\ UNCHANGED <<wire, log>> /\ thread.pc \notin {"count", "ack"}
        /\ thread'.pc \notin {"count", "ack"}
    BY <1>6, MakePublisherLocal, TakeCommandLocal, TurnLocal, StreamTickLocal
  <2> QED
    BY <2>1, QuietAcks, WireStays DEF JustPublished
<1>7. CASE BuildNext \/ ToIngress
  <2>1. /\ UNCHANGED <<wire, log>> /\ thread.pc \notin {"count", "ack"}
        /\ thread'.pc \notin {"count", "ack"}
    BY <1>7, BuildNextLocal, ToIngressLocal
  <2> QED
    BY <2>1, QuietAcks, WireStays DEF JustPublished
<1>8. CASE Publish
  BY <1>8, PublishWire
<1>9. CASE Count
  BY <1>9, CountLocal, QuietAcks, WireStays DEF JustPublished
<1>10. CASE Acknowledge
  BY <1>10, AcknowledgeWire
<1>11. CASE Report
  <2>1. SameAcks
    BY <1>11, ReportLocal, OtherLogged DEF LocalInv
  <2> QED
    BY <1>11, <2>1, ReportLocal, WireStays DEF JustPublished
<1> QED
  BY <1>2, <1>3, <1>4, <1>5, <1>6, <1>7, <1>8, <1>9, <1>10, <1>11, StepKinds

-----------------------------------------------------------------------------
(* One client's orders stand in line.                                      *)

\* Whose order it is.
LEMMA Owners ==
  ASSUME LocalInv
  PROVE  /\ \A c \in Clients : Holds(c) => handler[c].held \in Order /\ handler[c].held.by = c
         /\ \A c \in Clients : Holds(c)' /\ LocalInv' => handler'[c].held.by = c
         /\ "prefill" \notin Clients /\ "stream" \notin Clients
BY ClientsAssumption DEF LocalInv, HandlersSound, Fits, Holds

LEMMA LineStays ==
  ASSUME ClientLine, HeldSame, UNCHANGED wire, Queued' = Queued,
         \A n \in Queued : queue'[n].order = queue[n].order,
         thread'.todo = thread.todo,
         thread'.pc \in {"ingress", "publish"} => thread.pc \in {"ingress", "publish"}
  PROVE  ClientLine'
BY DEF ClientLine, HeldSame, Ahead

\* With the channel, and what the thread had, gone.
LEMMA LineDies ==
  ASSUME ClientLine, HeldSame, UNCHANGED wire, queue' = << >>, thread'.todo = << >>,
         thread'.pc = "dead"
  PROVE  ClientLine'
<1>1. Queued' = {} /\ DOMAIN thread'.todo = {}
  BY IdsStay
<1> QED
  BY <1>1 DEF ClientLine, HeldSame, Ahead

LEMMA BuildOrderLine ==
  ASSUME LocalInv, OrdersSound, WireSound, ClientLine, NEW c \in Clients, BuildOrder(c)
  PROVE  ClientLine'
<1> DEFINE new == next_order_id + 1
<1>1. /\ UNCHANGED <<queue, thread, wire>> /\ next_order_id \in Nat
      /\ ~Holds(c) /\ Holds(c)' /\ handler'[c].held.id = new
      /\ \A d \in Clients : d # c => handler'[d] = handler[d] /\ (Holds(d)' <=> Holds(d))
  BY BuildOrderLocal DEF LocalInv, TypeOK, Holds
<1>2. \A id \in QueuedIds \cup TodoIds \cup AckedIds : id < new
  BY <1>1 DEF OrdersSound
<1>3. WiredIds \subseteq TodoIds \cup AckedIds
  <2>1. GoodIds \subseteq AckedIds
    BY DEF GoodIds, AckedIds
  <2>2. JustIds \subseteq TodoIds
    <3>1. JustPublished => 1 \in DOMAIN thread.todo
      <4>1. thread.todo \in Seq(Order) /\ (JustPublished => thread.todo # << >>)
        BY ThreadType DEF LocalInv, ThreadSound, Publishing, JustPublished
      <4> QED
        BY <4>1, InQueue
    <3> QED
      BY <3>1 DEF JustIds, TodoIds
  <2>3. WiredIds = GoodIds \cup JustIds
    BY DEF WireSound, WiredIds, GoodIds, JustIds
  <2> QED
    BY <2>1, <2>2, <2>3
<1>4. /\ \A n \in DOMAIN wire : wire[n].id < new
      /\ \A n \in DOMAIN thread.todo : thread.todo[n].id < new
      /\ \A n \in Queued : queue[n].order.id < new
  BY <1>2, <1>3 DEF WiredIds, TodoIds, QueuedIds
<1>5. Queued' = Queued
  BY <1>1 DEF Queued
<1> HIDE DEF new
<1>6. ASSUME NEW d \in Clients, Holds(d)'
      PROVE  /\ \A n \in DOMAIN wire : Ahead(wire[n], handler'[d].held)
             /\ \A n \in DOMAIN thread.todo : Ahead(thread.todo[n], handler'[d].held)
             /\ \A n \in Queued : Ahead(queue[n].order, handler'[d].held)
  <2>1. CASE d = c
    BY <1>1, <1>4, <2>1 DEF Ahead
  <2>2. CASE d # c
    BY <1>1, <1>6, <2>2 DEF ClientLine
  <2> QED
    BY <2>1, <2>2
<1> QED
  BY <1>1, <1>5, <1>6 DEF ClientLine

LEMMA SendCommandLine ==
  ASSUME LocalInv, ClientLine, NEW c \in Clients, SendCommand(c)
  PROVE  ClientLine'
<1> DEFINE entry == [cmd |-> handler[c].cmd, order |-> handler[c].held]
<1>1. /\ UNCHANGED <<thread, wire>> /\ ~Holds(c)'
      /\ \A d \in Clients : d # c => handler'[d] = handler[d] /\ (Holds(d)' <=> Holds(d))
      /\ IF Dead THEN UNCHANGED queue ELSE entry \in Command /\ queue' = Append(queue, entry)
      /\ (handler[c].cmd.type = "submit_order") <=> Holds(c)
  BY SendCommandLocal DEF Holds
<1>2. entry.order = handler[c].held /\ entry.cmd = handler[c].cmd
  OBVIOUS
<1> HIDE DEF entry
<1>3. CASE Queued' = Queued /\ \A n \in Queued : queue'[n] = queue[n]
  BY <1>1, <1>3 DEF ClientLine
<1>4. CASE ~Dead /\ Holds(c)
  <2>1. /\ Queued \subseteq 1 .. Len(queue) /\ Len(queue) \in Nat
        /\ \A n \in Queued : queue'[n] = queue[n]
        /\ queue'[Len(queue) + 1] = entry /\ Queued' = Queued \cup {Len(queue) + 1}
    BY <1>1, <1>2, <1>4, CommandQueued DEF LocalInv
  <2>2. /\ \A n \in DOMAIN wire : Ahead(wire[n], entry.order)
        /\ \A n \in DOMAIN thread.todo : Ahead(thread.todo[n], entry.order)
        /\ \A n \in Queued : Ahead(queue[n].order, entry.order)
    BY <1>2, <1>4 DEF ClientLine
  <2>3. \A d \in Clients : Holds(d)' => Ahead(entry.order, handler'[d].held)
    <3>1. \A d \in Clients : Holds(d)' => handler'[d].held.by = d /\ d # c
      BY <1>1, Owners
    <3>2. entry.order.by = c
      BY <1>2, <1>4, Owners
    <3> QED
      BY <3>1, <3>2 DEF Ahead
  <2>4. \A n, k \in Queued' : n < k => Ahead(queue'[n].order, queue'[k].order)
    <3> SUFFICES ASSUME NEW n \in Queued', NEW k \in Queued', n < k
                 PROVE  Ahead(queue'[n].order, queue'[k].order)
      OBVIOUS
    <3>1. n \in Queued /\ queue'[n] = queue[n]
      BY <2>1
    <3>2. CASE k \in Queued
      BY <2>1, <3>1, <3>2 DEF ClientLine
    <3>3. CASE k = Len(queue) + 1
      BY <2>1, <2>2, <3>1, <3>3
    <3> QED
      BY <2>1, <3>2, <3>3
  <2>5. \A n \in Queued' : \/ n \in Queued /\ queue'[n] = queue[n]
                           \/ queue'[n] = entry
    BY <2>1
  <2>6. /\ \A n \in DOMAIN wire, k \in Queued' : Ahead(wire[n], queue'[k].order)
        /\ \A n \in DOMAIN thread.todo, k \in Queued' : Ahead(thread.todo[n], queue'[k].order)
    BY <2>2, <2>5 DEF ClientLine
  <2>7. ASSUME NEW d \in Clients, Holds(d)'
        PROVE  /\ \A n \in DOMAIN wire : Ahead(wire[n], handler'[d].held)
               /\ \A n \in DOMAIN thread.todo : Ahead(thread.todo[n], handler'[d].held)
               /\ \A n \in Queued' : Ahead(queue'[n].order, handler'[d].held)
    <3>1. d # c /\ Holds(d) /\ handler'[d] = handler[d]
      BY <1>1, <2>7
    <3> QED
      BY <2>3, <2>5, <2>7, <3>1 DEF ClientLine
  <2> QED
    BY <1>1, <2>4, <2>6, <2>7 DEF ClientLine
<1>5. CASE ~Dead /\ ~Holds(c)
  BY <1>1, <1>2, <1>3, <1>5, CommandQueued DEF LocalInv
<1>6. CASE Dead
  BY <1>1, <1>3, <1>6, IdsStay
<1> QED
  BY <1>4, <1>5, <1>6

LEMMA TakeCommandLine ==
  ASSUME LocalInv, ClientLine, TakeCommand
  PROVE  ClientLine'
<1>1. /\ HeldSame /\ UNCHANGED wire /\ queue # << >> /\ queue' = Tail(queue)
      /\ IF queue[1].cmd.type = "submit_order" THEN thread'.todo = <<queue[1].order>>
         ELSE thread'.pc = "build" /\ thread'.todo = << >>
  BY TakeCommandLocal
<1>2. /\ \A n \in Queued' : n + 1 \in Queued /\ queue'[n] = queue[n + 1] /\ n \in Nat /\ n >= 1
      /\ 1 \in Queued <=> queue[1].cmd.type = "submit_order"
  BY <1>1, CommandTaken DEF LocalInv
<1>3. \A n, k \in Queued' : n < k => Ahead(queue'[n].order, queue'[k].order)
  <2> SUFFICES ASSUME NEW n \in Queued', NEW k \in Queued', n < k
               PROVE  Ahead(queue'[n].order, queue'[k].order)
    OBVIOUS
  <2>1. /\ n + 1 \in Queued /\ k + 1 \in Queued /\ n + 1 < k + 1
        /\ queue'[n] = queue[n + 1] /\ queue'[k] = queue[k + 1]
    BY <1>2
  <2> QED
    BY <2>1 DEF ClientLine
<1>4. \A n \in Queued' : \E k \in Queued : queue'[n] = queue[k] /\ (1 \in Queued => 1 < k)
  BY <1>2
<1>5. /\ \A n \in DOMAIN wire, k \in Queued' : Ahead(wire[n], queue'[k].order)
      /\ \A c \in Clients : Holds(c)' =>
           /\ \A n \in DOMAIN wire : Ahead(wire[n], handler'[c].held)
           /\ \A n \in Queued' : Ahead(queue'[n].order, handler'[c].held)
  BY <1>1, <1>4 DEF ClientLine, HeldSame
<1>6. CASE 1 \in Queued
  <2>1. /\ DOMAIN thread'.todo = {1} /\ thread'.todo[1] = queue[1].order
    BY <1>1, <1>2, <1>6
  <2>2. \A k \in Queued' : Ahead(queue[1].order, queue'[k].order)
    BY <1>4, <1>6 DEF ClientLine
  <2>3. \A n \in DOMAIN wire : Ahead(wire[n], queue[1].order)
    BY <1>6 DEF ClientLine
  <2>4. \A c \in Clients : Holds(c)' => Ahead(queue[1].order, handler'[c].held)
    BY <1>1, <1>6 DEF ClientLine, HeldSame
  <2> QED
    BY <1>1, <1>3, <1>5, <2>1, <2>2, <2>3, <2>4 DEF ClientLine
<1>7. CASE 1 \notin Queued
  <2>1. DOMAIN thread'.todo = {} /\ thread'.pc = "build"
    BY <1>1, <1>2, <1>7, IdsStay
  <2> QED
    BY <1>1, <1>3, <1>5, <2>1 DEF ClientLine
<1> QED
  BY <1>6, <1>7

\* What the thread makes up itself is no client's.
LEMMA BuildNextLine ==
  ASSUME LocalInv, ClientLine, BuildNext
  PROVE  ClientLine'
<1>1. /\ LocalInv' /\ HeldSame /\ UNCHANGED <<queue, wire>> /\ thread.pc = "build"
      /\ thread'.pc \in {"build", "ingress"} /\ thread'.job \in {"prefill", "stream"}
  BY BuildNextLocal
<1>2. \A n \in DOMAIN thread'.todo : thread'.todo[n].by \notin Clients
  BY <1>1, Owners DEF LocalInv, ThreadSound
<1>3. thread'.pc = "ingress" => 1 \in DOMAIN thread'.todo
  <2>1. thread'.todo \in Seq(Order) /\ (thread'.pc = "ingress" => thread'.todo # << >>)
    BY <1>1, ThreadType DEF LocalInv, ThreadSound, Publishing, TypeOK, Thread
  <2> QED
    BY <2>1, InQueue
<1>4. Queued' = Queued
  BY <1>1 DEF Queued
<1> QED
  BY <1>1, <1>2, <1>3, <1>4 DEF ClientLine, Ahead, HeldSame

LEMMA PublishLine ==
  ASSUME LocalInv, ClientLine, Publish
  PROVE  ClientLine'
<1>1. /\ HeldSame /\ UNCHANGED queue /\ thread.pc = "publish" /\ thread'.todo = thread.todo
      /\ thread.todo # << >>
      /\ \/ /\ thread'.pc = "count"
            /\ \E entry \in OnWire : /\ wire' = Append(wire, entry)
                                     /\ entry.id = thread.todo[1].id /\ entry.by = thread.todo[1].by
         \/ UNCHANGED wire
  BY PublishLocal
<1>2. Queued' = Queued
  BY <1>1 DEF Queued
<1>3. CASE UNCHANGED wire
  BY <1>1, <1>2, <1>3, LineStays
<1>4. ASSUME thread'.pc = "count", NEW entry \in OnWire, wire' = Append(wire, entry),
             entry.id = thread.todo[1].id, entry.by = thread.todo[1].by
      PROVE  ClientLine'
  <2>1. /\ Len(wire) \in Nat /\ DOMAIN wire = 1 .. Len(wire)
        /\ DOMAIN wire' = DOMAIN wire \cup {Len(wire) + 1}
        /\ \A n \in DOMAIN wire : wire'[n] = wire[n]
        /\ wire'[Len(wire) + 1] = entry
    BY <1>4, WireAppend DEF LocalInv
  <2>2. 1 \in DOMAIN thread.todo
    <3>1. thread.todo \in Seq(Order)
      BY ThreadType DEF LocalInv
    <3> QED
      BY <1>1, <3>1, InQueue
  <2>3. /\ \A n \in DOMAIN wire : Ahead(wire[n], entry)
        /\ \A k \in Queued : Ahead(entry, queue[k].order)
        /\ \A c \in Clients : Holds(c) => Ahead(entry, handler[c].held)
    BY <1>1, <1>4, <2>2 DEF ClientLine, Ahead
  <2>4. \A n, k \in DOMAIN wire' : n < k => Ahead(wire'[n], wire'[k])
    <3> SUFFICES ASSUME NEW n \in DOMAIN wire', NEW k \in DOMAIN wire', n < k
                 PROVE  Ahead(wire'[n], wire'[k])
      OBVIOUS
    <3>1. n \in DOMAIN wire /\ wire'[n] = wire[n]
      BY <2>1
    <3>2. CASE k \in DOMAIN wire
      BY <2>1, <3>1, <3>2 DEF ClientLine
    <3>3. CASE k = Len(wire) + 1
      BY <2>1, <2>3, <3>1, <3>3
    <3> QED
      BY <2>1, <3>2, <3>3
  <2>5. \A n \in DOMAIN wire' : \/ n \in DOMAIN wire /\ wire'[n] = wire[n]
                                \/ wire'[n] = entry
    BY <2>1
  <2>6. \A n \in DOMAIN wire', k \in Queued : Ahead(wire'[n], queue[k].order)
    BY <2>3, <2>5 DEF ClientLine
  <2>7. \A c \in Clients : Holds(c) => \A n \in DOMAIN wire' : Ahead(wire'[n], handler[c].held)
    BY <2>3, <2>5 DEF ClientLine
  <2> QED
    BY <1>1, <1>2, <1>4, <2>4, <2>6, <2>7 DEF ClientLine, HeldSame
<1> QED
  BY <1>1, <1>3, <1>4

\* The next order of a job of several is not a client's.
LEMMA AcknowledgeLine ==
  ASSUME LocalInv, ClientLine, Acknowledge
  PROVE  ClientLine'
<1>1. /\ LocalInv' /\ HeldSame /\ UNCHANGED <<queue, wire>> /\ thread.pc = "ack"
      /\ thread.todo # << >> /\ thread'.todo = Tail(thread.todo)
      /\ thread'.pc \in {"recv", "tick", "report", "ingress"}
      /\ thread'.job = "none" \/ thread'.job = thread.job
  BY AcknowledgeLocal
<1>2. /\ DOMAIN thread.todo = 1 .. Len(thread.todo) /\ Len(thread.todo) \in Nat
      /\ DOMAIN thread'.todo = 1 .. Len(thread.todo) - 1
      /\ \A n \in DOMAIN thread'.todo : n + 1 \in DOMAIN thread.todo
                                        /\ thread'.todo[n] = thread.todo[n + 1]
  BY <1>1, TodoShifts DEF LocalInv
<1>3. thread'.pc = "ingress" => 1 \in DOMAIN thread'.todo /\ thread'.todo[1].by \notin Clients
  <2> SUFFICES ASSUME thread'.pc = "ingress"
               PROVE  1 \in DOMAIN thread'.todo /\ thread'.todo[1].by \notin Clients
    OBVIOUS
  <2>1. thread'.todo # << >> /\ thread'.job = thread.job /\ thread.job # "none"
    BY <1>1 DEF LocalInv, ThreadSound, Publishing
  <2>2. 1 \in DOMAIN thread'.todo
    <3>1. thread'.todo \in Seq(Order)
      BY <1>1 DEF LocalInv, TypeOK, Thread
    <3> QED
      BY <2>1, <3>1, InQueue
  <2>3. thread.job # "submit"
    <3>1. 2 \in DOMAIN thread.todo
      BY <1>2, <2>2
    <3> QED
      BY <1>1, <3>1 DEF LocalInv, ThreadSound
  <2>4. thread'.todo[1].by = thread.job
    BY <1>1, <2>1, <2>2, <2>3 DEF LocalInv, ThreadSound
  <2>5. thread.job \in {"prefill", "stream"}
    BY <2>1, <2>3, ThreadType DEF LocalInv
  <2> QED
    BY <2>2, <2>4, <2>5, Owners
<1>4. Queued' = Queued
  BY <1>1 DEF Queued
<1>5. \A n \in DOMAIN thread'.todo : \E k \in DOMAIN thread.todo : thread'.todo[n] = thread.todo[k]
  BY <1>2
<1>6. thread'.pc \in {"ingress", "publish"} => \A n \in DOMAIN wire : Ahead(wire[n], thread'.todo[1])
  BY <1>1, <1>3 DEF Ahead
<1>7. /\ \A n \in DOMAIN thread'.todo, k \in Queued : Ahead(thread'.todo[n], queue[k].order)
      /\ \A c \in Clients : Holds(c) =>
           \A n \in DOMAIN thread'.todo : Ahead(thread'.todo[n], handler[c].held)
  BY <1>5 DEF ClientLine
<1> QED
  BY <1>1, <1>4, <1>6, <1>7 DEF ClientLine, HeldSame

LEMMA LineInit == Init => ClientLine
<1> SUFFICES ASSUME Init PROVE ClientLine
  OBVIOUS
<1>1. /\ wire = << >> /\ Queued = {} /\ thread.pc = "make" /\ thread.todo = << >>
      /\ \A c \in Clients : ~Holds(c)
  BY DEF Init, Queued, Resting, Holds, HasOrder, Idle
<1> QED
  BY <1>1 DEF ClientLine

LEMMA LineStep ==
  ASSUME LocalInv, OrdersSound, WireSound, ClientLine, [Next]_vars
  PROVE  ClientLine'
<1>1. ASSUME HeldSame, UNCHANGED orderVars PROVE ClientLine'
  <2>1. UNCHANGED <<queue, thread, wire>>
    BY <1>1 DEF orderVars
  <2> QED
    BY <1>1, <2>1, IdsStay, LineStays
<1>2. CASE UNCHANGED vars
  BY <1>1, <1>2, StutterLocal DEF Quiet
<1>3. ASSUME NEW c \in Clients, Aside(c) \/ Say(c)
      PROVE  ClientLine'
  BY <1>1, <1>3, AsideLocal, SayLocal DEF Quiet
<1>4. ASSUME NEW c \in Clients, BuildOrder(c) \/ SendCommand(c)
      PROVE  ClientLine'
  BY <1>4, BuildOrderLine, SendCommandLine
<1>5. CASE MakePublisher
  BY <1>5, MakePublisherLocal, IdsStay, LineStays, LineDies
<1>6. CASE TakeCommand
  BY <1>6, TakeCommandLine
<1>7. CASE (NothingReceived \/ NoTick) \/ StreamTick
  BY <1>7, TurnLocal, StreamTickLocal, IdsStay, LineStays
<1>8. CASE BuildNext
  BY <1>8, BuildNextLine
<1>9. CASE ToIngress
  BY <1>9, ToIngressLocal, IdsStay, LineStays, LineDies
<1>10. CASE Publish
  BY <1>10, PublishLine
<1>11. CASE Count \/ Report
  BY <1>11, CountLocal, ReportLocal, IdsStay, LineStays
<1>12. CASE Acknowledge
  BY <1>12, AcknowledgeLine
<1> QED
  BY <1>2, <1>3, <1>4, <1>5, <1>6, <1>7, <1>8, <1>9, <1>10, <1>11, <1>12, StepKinds

-----------------------------------------------------------------------------
(* The counters.                                                           *)

LEMMA FiniteAcks ==
  ASSUME TypeOK, NEW S \in SUBSET Acks
  PROVE  IsFiniteSet(S) /\ Cardinality(S) \in Nat
<1>1. Len(log) \in Nat /\ S \in SUBSET (1 .. Len(log))
  BY LogType
<1>2. IsFiniteSet(1 .. Len(log))
  BY <1>1, FS_Interval
<1>3. IsFiniteSet(S)
  BY <1>1, <1>2, FS_Subset
<1> QED
  BY <1>3, FS_CardinalityType

\* Every acknowledgement tells of a success or of a failure.
LEMMA AcksSplit ==
  ASSUME TypeOK
  PROVE  /\ Cardinality(Good) \in Nat /\ Cardinality(Bad) \in Nat
         /\ Cardinality(Acks) = Cardinality(Good) + Cardinality(Bad)
<1>1. Good \in SUBSET Acks /\ Bad \in SUBSET Acks /\ Good \cup Bad = Acks /\ Good \cap Bad = {}
  BY DEF Good, Bad
<1>2. IsFiniteSet(Good) /\ IsFiniteSet(Bad) /\ Cardinality(Good) \in Nat /\ Cardinality(Bad) \in Nat
  BY <1>1, FiniteAcks
<1>3. Cardinality(Good \cup Bad) = Cardinality(Good) + Cardinality(Bad) - Cardinality(Good \cap Bad)
  BY <1>2, FS_Union
<1> QED
  <2>1. Cardinality(Good \cap Bad) = 0
    BY <1>1, FS_EmptySet
  <2>2. Cardinality(Acks) = Cardinality(Good \cup Bad)
    BY <1>1
  <2> QED
    BY <1>2, <1>3, <2>1, <2>2

\* What an acknowledgement adds to the tallies.
LEMMA AckTallied ==
  ASSUME TypeOK, NEW ack \in AckMsg, log' = Append(log, ack)
  PROVE  LET last == Len(log) + 1
         IN  /\ last \notin Acks /\ Acks' = Acks \cup {last} /\ \A n \in Acks : n < last /\ n \in Nat
             /\ last \in Nat /\ \A n \in Acks : log'[n] = log[n] /\ (Failed(n)' <=> Failed(n))
             /\ log'[last] = ack
             /\ Good' = (IF ack.result = "ok" THEN Good \cup {last} ELSE Good)
             /\ Bad' = (IF ack.result = "ok" THEN Bad ELSE Bad \cup {last})
             /\ Cardinality(Good') = Cardinality(Good) + (IF ack.result = "ok" THEN 1 ELSE 0)
             /\ Cardinality(Bad') = Cardinality(Bad) + (IF ack.result = "ok" THEN 0 ELSE 1)
             /\ Cardinality(Acks') = Cardinality(Acks) + 1
<1> DEFINE last == Len(log) + 1
<1>1. /\ Acks' = Acks \cup {last} /\ Acks \subseteq 1 .. Len(log) /\ Len(log) \in Nat
      /\ \A n \in Acks : log'[n] = log[n]
      /\ log'[last] = ack
  BY AckLogged
<1>2. last \notin Acks /\ last \in Nat /\ \A n \in Acks : n < last /\ n \in Nat
  BY <1>1
<1> HIDE DEF last
<1>3. \A n \in Acks : Failed(n)' <=> Failed(n)
  BY <1>1 DEF Failed
<1>4. /\ Good' = IF ack.result = "ok" THEN Good \cup {last} ELSE Good
      /\ Bad' = IF ack.result = "ok" THEN Bad ELSE Bad \cup {last}
  <2>1. /\ Good' = {n \in Acks' : log'[n].result = "ok"}
        /\ Bad' = {n \in Acks' : log'[n].result # "ok"}
        /\ Good = {n \in Acks : log[n].result = "ok"}
        /\ Bad = {n \in Acks : log[n].result # "ok"}
    BY DEF Good, Bad, Failed
  <2>2. CASE ack.result = "ok"
    BY <1>1, <1>2, <2>1, <2>2
  <2>3. CASE ack.result # "ok"
    BY <1>1, <1>2, <2>1, <2>3
  <2> QED
    BY <2>2, <2>3
<1>5. /\ IsFiniteSet(Good) /\ IsFiniteSet(Bad) /\ IsFiniteSet(Acks)
      /\ last \notin Good /\ last \notin Bad
      /\ Cardinality(Good) \in Nat /\ Cardinality(Bad) \in Nat
  BY <1>2, FiniteAcks DEF Good, Bad
<1>6. /\ Cardinality(Good \cup {last}) = Cardinality(Good) + 1
      /\ Cardinality(Bad \cup {last}) = Cardinality(Bad) + 1
      /\ Cardinality(Acks \cup {last}) = Cardinality(Acks) + 1
  BY <1>2, <1>5, FS_AddElement
<1>7. /\ Cardinality(Good') = Cardinality(Good) + (IF ack.result = "ok" THEN 1 ELSE 0)
      /\ Cardinality(Bad') = Cardinality(Bad) + (IF ack.result = "ok" THEN 0 ELSE 1)
      /\ Cardinality(Acks') = Cardinality(Acks) + 1
  BY <1>1, <1>4, <1>5, <1>6
<1> QED
  BY <1>1, <1>2, <1>3, <1>4, <1>7 DEF last

LEMMA SameTallies ==
  ASSUME SameAcks
  PROVE  /\ Good' = Good /\ Bad' = Bad /\ \A n \in Acks : Failed(n)' <=> Failed(n)
         /\ AcksCount => AcksCount'
<1>1. \A n \in Acks : Failed(n)' <=> Failed(n)
  BY DEF SameAcks, Failed
<1>2. Good' = {n \in Acks' : ~Failed(n)'} /\ Bad' = {n \in Acks' : Failed(n)'}
  BY DEF Good, Bad
<1>3. Good' = Good /\ Bad' = Bad
  BY <1>1, <1>2 DEF SameAcks, Good, Bad
<1>4. ASSUME AcksCount PROVE AcksCount'
  <2> SUFFICES ASSUME NEW n \in Acks
               PROVE  LET before == {k \in Acks' : k <= n}
                      IN  /\ log'[n].total_errors = Cardinality({k \in before : Failed(k)'})
                          /\ log'[n].total_sent + log'[n].total_errors = Cardinality(before)
    BY DEF AcksCount, SameAcks
  <2>1. {k \in Acks' : k <= n} = {k \in Acks : k <= n}
    BY DEF SameAcks
  <2>2. {k \in {j \in Acks : j <= n} : Failed(k)'} = {k \in {j \in Acks : j <= n} : Failed(k)}
    BY <1>1
  <2> QED
    BY <1>4, <2>1, <2>2 DEF AcksCount, SameAcks
<1> QED
  BY <1>1, <1>3, <1>4

\* The counters and the wire stay, and the thread was and is not between publishing and
\* acknowledging, or stays where it is.
LEMMA CountsStay ==
  ASSUME CountsSound, SameAcks, UNCHANGED <<next_seq, counters, wire>>, Dead => Dead',
         \/ UNCHANGED thread
         \/ /\ thread.pc \notin {"publish", "count", "ack"}
            /\ thread'.pc \notin {"publish", "count", "ack"}
  PROVE  CountsSound'
<1>1. /\ When("publish", 1)' = When("publish", 1) /\ When("count", 1)' = When("count", 1)
      /\ When("count", Success)' = When("count", Success)
      /\ When("ack", Success)' = When("ack", Success)
      /\ When("ack", Failure)' = When("ack", Failure)
  BY DEF When, Success, Failure
<1>2. Good' = Good /\ Bad' = Bad /\ (AcksCount => AcksCount')
  BY SameTallies
<1> QED
  BY <1>1, <1>2 DEF CountsSound, counters

\* The numbers the counters are made of.
LEMMA CountTypes ==
  ASSUME TypeOK
  PROVE  /\ next_seq \in Nat /\ FirstSeq \in Nat /\ total_sent \in Nat /\ total_errors \in Nat
         /\ Len(wire) \in Nat /\ Success \in {0, 1} /\ Failure \in {0, 1} /\ Success + Failure = 1
         /\ \A n \in DOMAIN wire : wire[n].seq \in Nat
         /\ Cardinality(Good) \in Nat /\ Cardinality(Bad) \in Nat
BY Limits, WireType, AcksSplit DEF TypeOK, OnWire, Success, Failure

\* A panic loses the sequence number that was taken.
LEMMA ToIngressCounts ==
  ASSUME LocalInv, CountsSound, ToIngress
  PROVE  CountsSound'
<1>1. /\ UNCHANGED <<counters, wire, log>> /\ thread.pc = "ingress" /\ next_seq' = next_seq + 1
      /\ thread'.pc = "publish" \/ (thread'.pc = "dead" /\ Dead')
  BY ToIngressLocal
<1>2. Good' = Good /\ Bad' = Bad /\ (AcksCount => AcksCount')
  BY <1>1, QuietAcks, SameTallies
<1>3. /\ When("publish", 1) = 0 /\ When("count", 1) = 0 /\ When("count", Success) = 0
      /\ When("ack", Success) = 0 /\ When("ack", Failure) = 0
      /\ When("count", 1)' = 0 /\ When("count", Success)' = 0
      /\ When("ack", Success)' = 0 /\ When("ack", Failure)' = 0
      /\ When("publish", 1)' = IF thread'.pc = "publish" THEN 1 ELSE 0
  BY <1>1 DEF When
<1>4. ~Dead /\ (thread'.pc = "publish" => ~Dead')
  BY <1>1 DEF Dead
<1>5. UNCHANGED <<total_sent, total_errors, wire>>
  BY <1>1 DEF counters
<1>6. \A n \in DOMAIN wire : wire[n].seq < next_seq' - When("publish", 1)'
  <2>1. \A n \in DOMAIN wire : wire[n].seq < next_seq - 0 /\ wire[n].seq \in Nat
    BY <1>3, CountTypes DEF CountsSound, LocalInv
  <2>2. next_seq \in Nat
    BY CountTypes DEF LocalInv
  <2> QED
    BY <1>1, <1>3, <2>1, <2>2
<1>7. thread'.pc = "publish" =>
        next_seq' - FirstSeq = total_sent + total_errors + When("publish", 1)' + When("count", 1)'
  <2>1. next_seq - FirstSeq = total_sent + total_errors + 0 + 0
    BY <1>3, <1>4 DEF CountsSound
  <2>2. next_seq \in Nat /\ FirstSeq \in Nat /\ total_sent \in Nat /\ total_errors \in Nat
    BY CountTypes DEF LocalInv
  <2> QED
    BY <1>1, <1>3, <2>1, <2>2
<1> QED
  BY <1>1, <1>2, <1>3, <1>5, <1>6, <1>7 DEF CountsSound

LEMMA PublishCounts ==
  ASSUME LocalInv, CountsSound, Publish
  PROVE  CountsSound'
<1>1. /\ UNCHANGED <<next_seq, counters, log>> /\ thread.pc = "publish"
      /\ \/ /\ thread'.pc = "count" /\ thread'.result = "ok"
            /\ \E entry \in OnWire : wire' = Append(wire, entry) /\ entry.seq = next_seq - 1
         \/ /\ thread'.pc = "publish" \/ (thread'.pc = "count" /\ thread'.result # "ok")
            /\ UNCHANGED wire
  BY PublishLocal
<1>2. Good' = Good /\ Bad' = Bad /\ (AcksCount => AcksCount')
  BY <1>1, QuietAcks, SameTallies
<1>3. /\ When("publish", 1) = 1 /\ When("count", 1) = 0 /\ When("count", Success) = 0
      /\ When("ack", Success) = 0 /\ When("ack", Failure) = 0
      /\ When("publish", 1)' = (IF thread'.pc = "publish" THEN 1 ELSE 0)
      /\ When("count", 1)' = (IF thread'.pc = "count" THEN 1 ELSE 0)
      /\ When("count", Success)' = (IF thread'.pc = "count" /\ thread'.result = "ok" THEN 1 ELSE 0)
      /\ When("ack", Success)' = 0 /\ When("ack", Failure)' = 0
  BY <1>1 DEF When, Success
<1>4. ~Dead /\ ~Dead'
  BY <1>1 DEF Dead
<1>5. CASE UNCHANGED wire /\ ~(thread'.pc = "count" /\ thread'.result = "ok")
  BY <1>1, <1>2, <1>3, <1>4, <1>5, CountTypes DEF CountsSound, LocalInv, counters
<1>6. ASSUME thread'.pc = "count", thread'.result = "ok",
             NEW entry \in OnWire, wire' = Append(wire, entry), entry.seq = next_seq - 1
      PROVE  CountsSound'
  <2>1. /\ Len(wire) \in Nat /\ DOMAIN wire = 1 .. Len(wire) /\ Len(wire') = Len(wire) + 1
        /\ DOMAIN wire' = DOMAIN wire \cup {Len(wire) + 1}
        /\ \A n \in DOMAIN wire : wire'[n] = wire[n]
        /\ wire'[Len(wire) + 1] = entry
    BY <1>6, WireAppend DEF LocalInv
  <2>2. /\ next_seq \in Nat /\ \A n \in DOMAIN wire : wire[n].seq \in Nat /\ wire[n].seq < next_seq - 1
    BY <1>3, CountTypes DEF CountsSound, LocalInv
  <2>3. \A n, k \in DOMAIN wire' : n < k => wire'[n].seq < wire'[k].seq
    <3> SUFFICES ASSUME NEW n \in DOMAIN wire', NEW k \in DOMAIN wire', n < k
                 PROVE  wire'[n].seq < wire'[k].seq
      OBVIOUS
    <3>1. n \in DOMAIN wire /\ wire'[n] = wire[n]
      BY <2>1
    <3>2. CASE k \in DOMAIN wire
      BY <2>1, <3>1, <3>2 DEF CountsSound
    <3>3. CASE k = Len(wire) + 1
      BY <1>6, <2>1, <2>2, <3>1, <3>3
    <3> QED
      BY <2>1, <3>2, <3>3
  <2>4. \A n \in DOMAIN wire' : wire'[n].seq < next_seq
    <3> SUFFICES ASSUME NEW n \in DOMAIN wire' PROVE wire'[n].seq < next_seq
      OBVIOUS
    <3>1. CASE n \in DOMAIN wire
      BY <2>1, <2>2, <3>1
    <3>2. CASE n = Len(wire) + 1
      BY <1>6, <2>1, <2>2, <3>2
    <3> QED
      BY <2>1, <3>1, <3>2
  <2> QED
    BY <1>1, <1>2, <1>3, <1>4, <1>6, <2>1, <2>3, <2>4, CountTypes DEF CountsSound, LocalInv, counters
<1> QED
  BY <1>1, <1>5, <1>6

LEMMA CountCounts ==
  ASSUME LocalInv, CountsSound, Count
  PROVE  CountsSound'
<1>1. /\ UNCHANGED <<next_seq, wire, log>> /\ thread.pc = "count" /\ thread'.pc = "ack"
      /\ thread'.result = thread.result
      /\ total_sent' = total_sent + Success /\ total_errors' = total_errors + Failure
  BY CountLocal
<1>2. Good' = Good /\ Bad' = Bad /\ (AcksCount => AcksCount')
  BY <1>1, QuietAcks, SameTallies
<1>3. /\ When("publish", 1) = 0 /\ When("count", 1) = 1 /\ When("count", Success) = Success
      /\ When("ack", Success) = 0 /\ When("ack", Failure) = 0
      /\ When("publish", 1)' = 0 /\ When("count", 1)' = 0 /\ When("count", Success)' = 0
      /\ When("ack", Success)' = Success /\ When("ack", Failure)' = Failure
  BY <1>1 DEF When, Success, Failure
<1>4. ~Dead /\ ~Dead'
  BY <1>1 DEF Dead
<1> QED
  BY <1>1, <1>2, <1>3, <1>4, CountTypes DEF CountsSound, LocalInv

\* The new acknowledgement shows the counters that count it.
LEMMA AcknowledgeCounts ==
  ASSUME LocalInv, CountsSound, Acknowledge
  PROVE  CountsSound'
<1>1. /\ UNCHANGED <<next_seq, counters, wire>> /\ thread.pc = "ack"
      /\ thread'.pc \in {"recv", "tick", "report", "ingress"}
      /\ \E ack \in AckMsg : /\ log' = Append(log, ack) /\ ack.result = thread.result
                             /\ ack.total_sent = total_sent /\ ack.total_errors = total_errors
  BY AcknowledgeLocal
<1>2. PICK ack \in AckMsg : /\ log' = Append(log, ack) /\ ack.result = thread.result
                            /\ ack.total_sent = total_sent /\ ack.total_errors = total_errors
  BY <1>1
<1> DEFINE last == Len(log) + 1
<1>3. /\ last \notin Acks /\ Acks' = Acks \cup {last} /\ \A n \in Acks : n < last /\ n \in Nat
      /\ last \in Nat /\ \A n \in Acks : log'[n] = log[n] /\ (Failed(n)' <=> Failed(n))
      /\ log'[last] = ack
      /\ Cardinality(Good') = Cardinality(Good) + (IF ack.result = "ok" THEN 1 ELSE 0)
      /\ Cardinality(Bad') = Cardinality(Bad) + (IF ack.result = "ok" THEN 0 ELSE 1)
      /\ Cardinality(Acks') = Cardinality(Acks) + 1
  BY <1>2, AckTallied DEF LocalInv
<1> HIDE DEF last
<1>4. /\ When("publish", 1) = 0 /\ When("count", 1) = 0 /\ When("count", Success) = 0
      /\ When("ack", Success) = Success /\ When("ack", Failure) = Failure
      /\ When("publish", 1)' = 0 /\ When("count", 1)' = 0 /\ When("count", Success)' = 0
      /\ When("ack", Success)' = 0 /\ When("ack", Failure)' = 0
  BY <1>1 DEF When
<1>5. ~Dead /\ ~Dead'
  BY <1>1 DEF Dead
<1>6. /\ Success = IF ack.result = "ok" THEN 1 ELSE 0
      /\ Failure = IF ack.result = "ok" THEN 0 ELSE 1
  BY <1>2 DEF Success, Failure
<1>7. total_sent = Cardinality(Good') /\ total_errors = Cardinality(Bad')
  BY <1>3, <1>4, <1>6 DEF CountsSound
<1>8. AcksCount'
  <2> SUFFICES ASSUME NEW n \in Acks'
               PROVE  LET before == {k \in Acks' : k <= n}
                      IN  /\ log'[n].total_errors = Cardinality({k \in before : Failed(k)'})
                          /\ log'[n].total_sent + log'[n].total_errors = Cardinality(before)
    BY DEF AcksCount
  <2>1. CASE n \in Acks
    <3>1. {k \in Acks' : k <= n} = {k \in Acks : k <= n}
      BY <1>3, <2>1
    <3>2. {k \in {j \in Acks : j <= n} : Failed(k)'} = {k \in {j \in Acks : j <= n} : Failed(k)}
      BY <1>3
    <3> QED
      BY <1>3, <2>1, <3>1, <3>2 DEF CountsSound, AcksCount
  <2>2. CASE n = last
    <3>1. {k \in Acks' : k <= n} = Acks'
      <4>1. \A k \in Acks' : k <= last
        BY <1>3
      <4> QED
        BY <2>2, <4>1
    <3>2. {k \in Acks' : Failed(k)'} = Bad'
      BY DEF Bad
    <3>3. Cardinality(Acks) = Cardinality(Good) + Cardinality(Bad)
          /\ Cardinality(Good) \in Nat /\ Cardinality(Bad) \in Nat
      BY AcksSplit DEF LocalInv
    <3>4. total_sent + total_errors = Cardinality(Acks')
      BY <1>3, <1>7, <3>3
    <3> QED
      BY <1>2, <1>3, <1>7, <2>2, <3>1, <3>2, <3>4
  <2> QED
    BY <1>3, <2>1, <2>2
<1> QED
  BY <1>1, <1>4, <1>5, <1>7, <1>8, CountTypes DEF CountsSound, LocalInv, counters

LEMMA CountsInit == Init => CountsSound
<1> SUFFICES ASSUME Init PROVE CountsSound
  OBVIOUS
<1>1. wire = << >> /\ Len(wire) = 0 /\ Acks = {} /\ Good = {} /\ Bad = {} /\ thread.pc = "make"
  BY DEF Init, Acks, Logged, Good, Bad, Resting
<1>2. Cardinality(Good) = 0 /\ Cardinality(Bad) = 0
  BY <1>1, FS_EmptySet
<1>3. \A n : When("publish", n) = 0 /\ When("count", n) = 0 /\ When("ack", n) = 0
  BY <1>1 DEF When
<1>4. AcksCount
  BY <1>1 DEF AcksCount
<1> QED
  BY <1>1, <1>2, <1>3, <1>4, Limits DEF CountsSound, Init

LEMMA CountsStep ==
  ASSUME LocalInv, CountsSound, [Next]_vars
  PROVE  CountsSound'
<1>1. ASSUME UNCHANGED <<next_seq, thread, counters, wire>>, SameAcks PROVE CountsSound'
  BY <1>1, CountsStay DEF Dead
<1>2. CASE UNCHANGED vars
  BY <1>1, <1>2, StutterLocal, QuietAcks DEF Quiet, orderVars
<1>3. ASSUME NEW c \in Clients, Aside(c)
      PROVE  CountsSound'
  BY <1>1, <1>3, AsideLocal, QuietAcks DEF Quiet, orderVars
<1>4. ASSUME NEW c \in Clients, Say(c)
      PROVE  CountsSound'
  <2>1. SameAcks
    BY <1>4, SayLocal, OtherLogged DEF LocalInv
  <2> QED
    BY <1>1, <1>4, <2>1, SayLocal DEF orderVars
<1>5. ASSUME NEW c \in Clients, BuildOrder(c) \/ SendCommand(c)
      PROVE  CountsSound'
  BY <1>1, <1>5, BuildOrderLocal, SendCommandLocal, QuietAcks
<1>6. CASE MakePublisher \/ TakeCommand \/ (NothingReceived \/ NoTick) \/ StreamTick \/ BuildNext
  <2>1. /\ UNCHANGED <<next_seq, counters, wire, log>>
        /\ thread.pc \notin {"publish", "count", "ack", "dead"}
        /\ thread'.pc \notin {"publish", "count", "ack"}
    BY <1>6, MakePublisherLocal, TakeCommandLocal, TurnLocal, StreamTickLocal, BuildNextLocal
  <2> QED
    BY <2>1, QuietAcks, CountsStay DEF Dead
<1>7. CASE ToIngress
  BY <1>7, ToIngressCounts
<1>8. CASE Publish
  BY <1>8, PublishCounts
<1>9. CASE Count
  BY <1>9, CountCounts
<1>10. CASE Acknowledge
  BY <1>10, AcknowledgeCounts
<1>11. CASE Report
  <2>1. SameAcks
    BY <1>11, ReportLocal, OtherLogged DEF LocalInv
  <2> QED
    BY <1>11, <2>1, ReportLocal, CountsStay DEF Dead
<1> QED
  BY <1>2, <1>3, <1>4, <1>5, <1>6, <1>7, <1>8, <1>9, <1>10, <1>11, StepKinds

-----------------------------------------------------------------------------
(* A prefill under way, and the result of one.                             *)

Own(m)     == {k \in Acks : m < k}
OwnGood(m) == {k \in Acks : m < k /\ ~Failed(k)}

\* What PrefillSound says of a prefill that began after the first m messages.
UnderWay(m) ==
  /\ Cardinality(Own(m)) + Len(thread.todo) + thread.build = thread.total
  /\ Cardinality(OwnGood(m)) + When("ack", Success) = thread.sent
  /\ \A k, l \in Own(m) : k < l => log[k].order_id < log[l].order_id
  /\ \A k \in Own(m), n \in DOMAIN thread.todo : log[k].order_id < thread.todo[n].id

LEMMA UnderWayMeans ==
  PrefillSound <=> /\ PrefillTallied
                   /\ thread.job = "prefill" => \E m \in 0 .. Len(log) : UnderWay(m)
<1>1. \A m : {k \in Own(m) : ~Failed(k)} = OwnGood(m)
  BY DEF Own, OwnGood
<1> QED
  BY <1>1 DEF PrefillSound, UnderWay, Own

\* Results stand by what was acknowledged before them.
LEMMA TalliesStay ==
  ASSUME TypeOK, PrefillTallied, NEW msg \in LogMsg, log' = Append(log, msg),
         NEW n \in Logged("prefill_result")
  PROVE  /\ log'[n] = log[n] /\ n \in 1 .. Len(log)
         /\ \E m \in 0 .. n - 1 :
              LET own == {k \in Acks' : m < k /\ k < n}
              IN  /\ Cardinality(own) = log'[n].total
                  /\ Cardinality({k \in own : ~Failed(k)'}) = log'[n].sent
                  /\ \A k, l \in own : k < l /\ (\A j \in own : ~(k < j /\ j < l))
                                         => log'[l].order_id > log'[k].order_id
<1>1. /\ Len(log) \in Nat /\ DOMAIN log = 1 .. Len(log) /\ DOMAIN log' = 1 .. Len(log) + 1
      /\ \A k \in 1 .. Len(log) : log'[k] = log[k]
  BY LogAppend
<1>2. n \in 1 .. Len(log) /\ log'[n] = log[n]
  BY <1>1 DEF Logged
<1>3. PICK m \in 0 .. n - 1 :
        LET own == {k \in Acks : m < k /\ k < n}
        IN  /\ Cardinality(own) = log[n].total
            /\ Cardinality({k \in own : ~Failed(k)}) = log[n].sent
            /\ \A k, l \in own : k < l /\ (\A j \in own : ~(k < j /\ j < l))
                                   => log[l].order_id > log[k].order_id
  BY DEF PrefillTallied
<1> DEFINE own == {k \in Acks : m < k /\ k < n}
<1>4. {k \in Acks' : m < k /\ k < n} = own
  <2>1. \A k \in 1 .. Len(log) + 1 : k < n => k \in 1 .. Len(log)
    BY <1>1, <1>2
  <2> QED
    BY <1>1, <2>1 DEF Acks, Logged
<1>5. \A k \in own : log'[k] = log[k] /\ (Failed(k)' <=> Failed(k))
  BY <1>1 DEF Acks, Logged, Failed
<1>6. {k \in own : ~Failed(k)'} = {k \in own : ~Failed(k)}
  BY <1>5
<1>7. /\ Cardinality(own) = log'[n].total
      /\ Cardinality({k \in own : ~Failed(k)}) = log'[n].sent
      /\ \A k, l \in own : k < l /\ (\A j \in own : ~(k < j /\ j < l))
                             => log'[l].order_id > log'[k].order_id
  BY <1>2, <1>3, <1>5
<1> HIDE DEF own
<1> QED
  BY <1>2, <1>4, <1>6, <1>7

\* A message that is not the result of a prefill makes none.
LEMMA TalliedStays ==
  ASSUME TypeOK, PrefillTallied,
         \/ UNCHANGED log
         \/ \E msg \in LogMsg : log' = Append(log, msg) /\ msg.type # "prefill_result"
  PROVE  PrefillTallied'
<1>1. CASE UNCHANGED log
  BY <1>1 DEF PrefillTallied, Acks, Logged, Failed
<1>2. ASSUME NEW msg \in LogMsg, log' = Append(log, msg), msg.type # "prefill_result"
      PROVE  PrefillTallied'
  <2>1. Logged("prefill_result")' = Logged("prefill_result")
    BY <1>2, LogAppend DEF Logged
  <2>2. ASSUME NEW n \in Logged("prefill_result")'
        PROVE  \E m \in 0 .. n - 1 :
                 LET own == {k \in Acks' : m < k /\ k < n}
                 IN  /\ Cardinality(own) = log'[n].total
                     /\ Cardinality({k \in own : ~Failed(k)'}) = log'[n].sent
                     /\ \A k, l \in own : k < l /\ (\A j \in own : ~(k < j /\ j < l))
                                            => log'[l].order_id > log'[k].order_id
    <3>1. n \in Logged("prefill_result")
      BY <2>1
    <3> QED
      BY <1>2, <3>1, TalliesStay
  <2> QED
    BY <2>2 DEF PrefillTallied
<1> QED
  BY <1>1, <1>2

\* What there is to show of the next state.
LEMMA UnderWayNext ==
  ASSUME PrefillTallied',
         thread'.job = "prefill" =>
           \E m \in 0 .. Len(log') :
             /\ Cardinality({k \in Acks' : m < k}) + Len(thread'.todo) + thread'.build = thread'.total
             /\ Cardinality({k \in Acks' : m < k /\ ~Failed(k)'}) + When("ack", Success)' = thread'.sent
             /\ \A k, l \in {j \in Acks' : m < j} : k < l => log'[k].order_id < log'[l].order_id
             /\ \A k \in {j \in Acks' : m < j}, n \in DOMAIN thread'.todo :
                  log'[k].order_id < thread'.todo[n].id
  PROVE  PrefillSound'
<1>1. \A m : {k \in {j \in Acks' : m < j} : ~Failed(k)'} = {k \in Acks' : m < k /\ ~Failed(k)'}
  OBVIOUS
<1> QED
  BY <1>1 DEF PrefillSound

\* A prefill stays under way when nothing is acknowledged and nothing of it is published.
LEMMA PrefillStays ==
  ASSUME TypeOK, PrefillSound, SameAcks,
         UNCHANGED thread \/ (thread.pc # "ack" /\ thread'.pc # "ack"),
         \/ UNCHANGED log
         \/ \E msg \in LogMsg : log' = Append(log, msg) /\ msg.type # "prefill_result",
         thread'.job = "prefill" =>
           /\ thread.job = "prefill" /\ thread'.total = thread.total /\ thread'.sent = thread.sent
           /\ thread'.build = thread.build /\ thread'.todo = thread.todo
  PROVE  PrefillSound'
<1>1. PrefillTallied'
  BY TalliedStays DEF PrefillSound
<1>2. ASSUME thread'.job = "prefill"
      PROVE  \E m \in 0 .. Len(log') :
               /\ Cardinality({k \in Acks' : m < k}) + Len(thread'.todo) + thread'.build = thread'.total
               /\ Cardinality({k \in Acks' : m < k /\ ~Failed(k)'}) + When("ack", Success)' = thread'.sent
               /\ \A k, l \in {j \in Acks' : m < j} : k < l => log'[k].order_id < log'[l].order_id
               /\ \A k \in {j \in Acks' : m < j}, n \in DOMAIN thread'.todo :
                    log'[k].order_id < thread'.todo[n].id
  <2>1. PICK m \in 0 .. Len(log) : UnderWay(m)
    BY <1>2, UnderWayMeans
  <2>2. m \in 0 .. Len(log')
    <3>1. Len(log) \in Nat /\ (Len(log') = Len(log) \/ Len(log') = Len(log) + 1)
      BY LogType, LogAppend
    <3> QED
      BY <3>1
  <2>3. Acks' = Acks /\ \A k \in Acks : log'[k] = log[k] /\ (Failed(k)' <=> Failed(k))
    BY DEF SameAcks, Failed
  <2>4. {k \in Acks' : m < k} = Own(m) /\ {k \in Acks' : m < k /\ ~Failed(k)'} = OwnGood(m)
    BY <2>3 DEF Own, OwnGood
  <2>5. When("ack", Success)' = When("ack", Success)
    BY DEF When, Success
  <2>6. \A k \in Own(m) : log'[k] = log[k]
    BY <2>3 DEF Own
  <2>7. /\ Cardinality(Own(m)) + Len(thread'.todo) + thread'.build = thread'.total
        /\ Cardinality(OwnGood(m)) + When("ack", Success)' = thread'.sent
    BY <1>2, <2>1, <2>5 DEF UnderWay
  <2>8. /\ \A k, l \in Own(m) : k < l => log'[k].order_id < log'[l].order_id
        /\ \A k \in Own(m), n \in DOMAIN thread'.todo : log'[k].order_id < thread'.todo[n].id
    BY <1>2, <2>1, <2>6 DEF UnderWay
  <2> QED
    BY <2>2, <2>4, <2>7, <2>8
<1> QED
  BY <1>1, <1>2, UnderWayNext

\* A prefill begins with nothing of it acknowledged.
LEMMA TakeCommandPrefill ==
  ASSUME LocalInv, PrefillSound, TakeCommand
  PROVE  PrefillSound'
<1> USE DEF LocalInv
<1>1. /\ TypeOK' /\ UNCHANGED log
      /\ thread'.job = "prefill" => /\ thread'.pc = "build" /\ thread'.todo = << >>
                                    /\ thread'.build = thread'.total /\ thread'.sent = 0
  BY TakeCommandLocal
<1>2. PrefillTallied'
  BY <1>1, TalliedStays DEF PrefillSound
<1>3. ASSUME thread'.job = "prefill"
      PROVE  \E m \in 0 .. Len(log') :
               /\ Cardinality({k \in Acks' : m < k}) + Len(thread'.todo) + thread'.build = thread'.total
               /\ Cardinality({k \in Acks' : m < k /\ ~Failed(k)'}) + When("ack", Success)' = thread'.sent
               /\ \A k, l \in {j \in Acks' : m < j} : k < l => log'[k].order_id < log'[l].order_id
               /\ \A k \in {j \in Acks' : m < j}, n \in DOMAIN thread'.todo :
                    log'[k].order_id < thread'.todo[n].id
  <2>1. Acks' = Acks /\ Acks \subseteq 1 .. Len(log) /\ Len(log) \in Nat
    BY <1>1, LogType, QuietAcks DEF SameAcks
  <2>2. /\ {k \in Acks' : Len(log) < k} = {}
        /\ {k \in Acks' : Len(log) < k /\ ~Failed(k)'} = {}
    <3>1. \A k \in Acks' : ~(Len(log) < k)
      BY <2>1
    <3> QED
      BY <3>1
  <2>3. When("ack", Success)' = 0 /\ Len(thread'.todo) = 0 /\ thread'.total \in Nat
    <3>1. thread'.total \in Nat
      BY <1>1 DEF TypeOK, Thread
    <3> QED
      BY <1>1, <1>3, <3>1 DEF When
  <2>4. /\ Cardinality({}) = 0
        /\ 0 + Len(thread'.todo) + thread'.build = thread'.total
        /\ 0 + When("ack", Success)' = thread'.sent
    BY <1>1, <1>3, <2>3, FS_EmptySet
  <2>5. Len(log) \in 0 .. Len(log')
    BY <1>1, <2>1
  <2> QED
    BY <2>2, <2>4, <2>5
<1> QED
  BY <1>2, <1>3, UnderWayNext

\* The orders of a prefill get identifiers above all that were acknowledged.
LEMMA BuildNextPrefill ==
  ASSUME LocalInv, OrdersSound, PrefillSound, BuildNext
  PROVE  PrefillSound'
<1> USE DEF LocalInv
<1>1. PICK order \in Order :
        /\ thread'.todo = Append(thread.todo, order) /\ order.id = next_order_id + 1
        /\ UNCHANGED log /\ next_order_id \in Nat
        /\ thread.pc = "build" /\ thread'.pc # "ack" /\ thread'.job = thread.job
        /\ thread'.total = thread.total /\ thread'.sent = thread.sent
        /\ thread.build \in Nat /\ thread'.build = thread.build - 1
  BY BuildNextLocal
<1>2. PrefillTallied'
  BY <1>1, TalliedStays DEF PrefillSound
<1>3. /\ Len(thread.todo) \in Nat /\ Len(thread'.todo) = Len(thread.todo) + 1
      /\ \A n \in DOMAIN thread'.todo :
           (n \in DOMAIN thread.todo /\ thread'.todo[n] = thread.todo[n]) \/ thread'.todo[n] = order
  <2>1. thread.todo \in Seq(Order)
    BY ThreadType
  <2>2. /\ thread'.todo \in Seq(Order) /\ Len(thread'.todo) = Len(thread.todo) + 1
        /\ \A n \in 1 .. Len(thread.todo) + 1 :
             thread'.todo[n] = IF n <= Len(thread.todo) THEN thread.todo[n] ELSE order
        /\ Len(thread.todo) \in Nat
    BY <1>1, <2>1, AppendToQueue, LenProperties
  <2>3. DOMAIN thread.todo = 1 .. Len(thread.todo) /\ DOMAIN thread'.todo = 1 .. Len(thread.todo) + 1
    BY <2>1, <2>2, InQueue
  <2> QED
    BY <2>2, <2>3
<1>4. \A k \in Acks : log[k].order_id \in Nat /\ log[k].order_id < order.id
  <2>1. \A k \in Acks : log[k].order_id \in 1 .. next_order_id
    BY DEF OrdersSound, AckedIds
  <2> QED
    BY <1>1, <2>1
<1>5. ASSUME thread'.job = "prefill"
      PROVE  \E m \in 0 .. Len(log') :
               /\ Cardinality({k \in Acks' : m < k}) + Len(thread'.todo) + thread'.build = thread'.total
               /\ Cardinality({k \in Acks' : m < k /\ ~Failed(k)'}) + When("ack", Success)' = thread'.sent
               /\ \A k, l \in {j \in Acks' : m < j} : k < l => log'[k].order_id < log'[l].order_id
               /\ \A k \in {j \in Acks' : m < j}, n \in DOMAIN thread'.todo :
                    log'[k].order_id < thread'.todo[n].id
  <2>1. PICK m \in 0 .. Len(log) : UnderWay(m)
    BY <1>1, <1>5, UnderWayMeans
  <2>2. Acks' = Acks /\ \A k \in Acks : Failed(k)' <=> Failed(k)
    BY <1>1, QuietAcks DEF SameAcks, Failed
  <2>3. /\ {k \in Acks' : m < k} = Own(m) /\ {k \in Acks' : m < k /\ ~Failed(k)'} = OwnGood(m)
        /\ Own(m) \in SUBSET Acks
    BY <2>2 DEF Own, OwnGood
  <2>4. When("ack", Success)' = 0 /\ When("ack", Success) = 0 /\ Cardinality(Own(m)) \in Nat
    BY <1>1, <2>3, FiniteAcks DEF When
  <2>5. /\ Cardinality(Own(m)) + Len(thread'.todo) + thread'.build = thread'.total
        /\ Cardinality(OwnGood(m)) + When("ack", Success)' = thread'.sent
    <3>1. /\ Cardinality(Own(m)) + Len(thread.todo) + thread.build = thread.total
          /\ Cardinality(OwnGood(m)) + When("ack", Success) = thread.sent
      BY <2>1 DEF UnderWay
    <3>2. Cardinality(Own(m)) + Len(thread'.todo) + thread'.build = thread'.total
      BY <1>1, <1>3, <2>4, <3>1
    <3> QED
      BY <1>1, <2>4, <3>1, <3>2
  <2>6. /\ \A k, l \in Own(m) : k < l => log[k].order_id < log[l].order_id
        /\ \A k \in Own(m), n \in DOMAIN thread'.todo : log[k].order_id < thread'.todo[n].id
    BY <1>3, <1>4, <2>1, <2>3 DEF UnderWay
  <2>7. log' = log
    BY <1>1
  <2> QED
    BY <2>1, <2>3, <2>5, <2>6, <2>7
<1> QED
  BY <1>2, <1>5, UnderWayNext

\* A success is in the tally of the prefill before it is acknowledged.
LEMMA CountPrefill ==
  ASSUME LocalInv, PrefillSound, Count
  PROVE  PrefillSound'
<1> USE DEF LocalInv
<1>1. /\ UNCHANGED log /\ thread.pc = "count" /\ thread'.pc = "ack" /\ thread'.job = thread.job
      /\ thread'.todo = thread.todo /\ thread'.total = thread.total
      /\ thread'.build = thread.build /\ thread'.result = thread.result
      /\ Success \in {0, 1} /\ thread'.sent = thread.sent + Success
  BY CountLocal
<1>2. PrefillTallied'
  BY <1>1, TalliedStays DEF PrefillSound
<1>3. ASSUME thread'.job = "prefill"
      PROVE  \E m \in 0 .. Len(log') :
               /\ Cardinality({k \in Acks' : m < k}) + Len(thread'.todo) + thread'.build = thread'.total
               /\ Cardinality({k \in Acks' : m < k /\ ~Failed(k)'}) + When("ack", Success)' = thread'.sent
               /\ \A k, l \in {j \in Acks' : m < j} : k < l => log'[k].order_id < log'[l].order_id
               /\ \A k \in {j \in Acks' : m < j}, n \in DOMAIN thread'.todo :
                    log'[k].order_id < thread'.todo[n].id
  <2>1. PICK m \in 0 .. Len(log) : UnderWay(m)
    BY <1>1, <1>3, UnderWayMeans
  <2>2. Acks' = Acks /\ \A k \in Acks : Failed(k)' <=> Failed(k)
    BY <1>1, QuietAcks DEF SameAcks, Failed
  <2>3. /\ {k \in Acks' : m < k} = Own(m) /\ {k \in Acks' : m < k /\ ~Failed(k)'} = OwnGood(m)
        /\ OwnGood(m) \in SUBSET Acks
    BY <2>2 DEF Own, OwnGood
  <2>4. When("ack", Success)' = Success /\ When("ack", Success) = 0 /\ Cardinality(OwnGood(m)) \in Nat
    BY <1>1, <2>3, FiniteAcks DEF When, Success
  <2>5. /\ Cardinality(Own(m)) + Len(thread'.todo) + thread'.build = thread'.total
        /\ Cardinality(OwnGood(m)) + When("ack", Success)' = thread'.sent
    <3>1. /\ Cardinality(Own(m)) + Len(thread.todo) + thread.build = thread.total
          /\ Cardinality(OwnGood(m)) + 0 = thread.sent
      BY <2>1, <2>4 DEF UnderWay
    <3>2. thread'.sent = thread.sent + Success /\ Success \in Nat
      BY <1>1
    <3>3. Cardinality(OwnGood(m)) + When("ack", Success)' = thread'.sent
      BY <2>4, <3>1, <3>2
    <3> QED
      BY <1>1, <3>1, <3>3
  <2>6. /\ \A k, l \in Own(m) : k < l => log[k].order_id < log[l].order_id
        /\ \A k \in Own(m), n \in DOMAIN thread'.todo : log[k].order_id < thread'.todo[n].id
    BY <1>1, <2>1 DEF UnderWay
  <2>7. log' = log
    BY <1>1
  <2> QED
    BY <2>1, <2>3, <2>5, <2>6, <2>7
<1> QED
  BY <1>2, <1>3, UnderWayNext

\* An acknowledgement moves the first order of a prefill from those to publish to those
\* that are acknowledged.
LEMMA AcknowledgePrefill ==
  ASSUME LocalInv, OrdersSound, PrefillSound, Acknowledge
  PROVE  PrefillSound'
<1> USE DEF LocalInv
<1> DEFINE last == Len(log) + 1
<1>1. PICK ack \in AckMsg :
        /\ log' = Append(log, ack) /\ ack.order_id = thread.todo[1].id
        /\ ack.result = thread.result
        /\ thread.pc = "ack" /\ thread.todo # << >> /\ thread'.todo = Tail(thread.todo)
        /\ thread'.pc # "ack"
        /\ thread'.job = "none" \/ /\ thread'.job = thread.job /\ thread'.total = thread.total
                                   /\ thread'.sent = thread.sent /\ thread'.build = thread.build
  BY AcknowledgeLocal
<1>2. ack \in LogMsg /\ ack.type # "prefill_result" /\ ack.order_id \in Nat
  BY DEF LogMsg, AckMsg
<1>3. PrefillTallied'
  BY <1>1, <1>2, TalliedStays DEF PrefillSound
<1>4. /\ last \notin Acks /\ Acks' = Acks \cup {last} /\ \A n \in Acks : n < last /\ n \in Nat
      /\ last \in Nat /\ \A n \in Acks : log'[n] = log[n] /\ (Failed(n)' <=> Failed(n))
      /\ log'[last] = ack /\ Len(log') = last
  BY <1>1, AckTallied, AckLogged
<1>5. /\ Len(thread.todo) \in Nat /\ Len(thread'.todo) = Len(thread.todo) - 1
      /\ 1 \in DOMAIN thread.todo
      /\ \A n \in DOMAIN thread'.todo :
           n + 1 \in DOMAIN thread.todo /\ 1 < n + 1 /\ thread'.todo[n] = thread.todo[n + 1]
  <2>1. thread.todo \in Seq(Order)
    BY ThreadType
  <2>2. Len(thread'.todo) = Len(thread.todo) - 1
    BY <1>1, <2>1, TailOfQueue
  <2> QED
    BY <1>1, <2>2, TodoShifts
<1>6. (log'[last].result = "ok") <=> (thread.result = "ok")
  BY <1>1, <1>4
<1> HIDE DEF last
<1>7. ASSUME thread'.job = "prefill"
      PROVE  \E m \in 0 .. Len(log') :
               /\ Cardinality({k \in Acks' : m < k}) + Len(thread'.todo) + thread'.build = thread'.total
               /\ Cardinality({k \in Acks' : m < k /\ ~Failed(k)'}) + When("ack", Success)' = thread'.sent
               /\ \A k, l \in {j \in Acks' : m < j} : k < l => log'[k].order_id < log'[l].order_id
               /\ \A k \in {j \in Acks' : m < j}, n \in DOMAIN thread'.todo :
                    log'[k].order_id < thread'.todo[n].id
  <2>1. PICK m \in 0 .. Len(log) : UnderWay(m)
    BY <1>1, <1>7, UnderWayMeans
  <2>2. m \in 0 .. Len(log') /\ m < last
    <3>1. Len(log) \in Nat /\ last = Len(log) + 1
      BY LogType DEF last
    <3> QED
      BY <1>4, <3>1
  <2>3. /\ {k \in Acks' : m < k} = Own(m) \cup {last}
        /\ {k \in Acks' : m < k /\ ~Failed(k)'}
             = IF thread.result = "ok" THEN OwnGood(m) \cup {last} ELSE OwnGood(m)
        /\ Own(m) \in SUBSET Acks /\ OwnGood(m) \in SUBSET Acks
    <3>1. {k \in Acks' : m < k} = Own(m) \cup {last}
      BY <1>4, <2>2 DEF Own
    <3>2. CASE thread.result = "ok"
      BY <1>4, <1>6, <2>2, <3>2 DEF Own, OwnGood, Failed
    <3>3. CASE thread.result # "ok"
      BY <1>4, <1>6, <2>2, <3>3 DEF Own, OwnGood, Failed
    <3> QED
      BY <3>1, <3>2, <3>3 DEF Own, OwnGood
  <2>4. /\ Cardinality(Own(m)) \in Nat /\ Cardinality(OwnGood(m)) \in Nat
        /\ Cardinality(Own(m) \cup {last}) = Cardinality(Own(m)) + 1
        /\ Cardinality(OwnGood(m) \cup {last}) = Cardinality(OwnGood(m)) + 1
    <3>1. /\ IsFiniteSet(Own(m)) /\ IsFiniteSet(OwnGood(m))
          /\ Cardinality(Own(m)) \in Nat /\ Cardinality(OwnGood(m)) \in Nat
      BY <2>3, FiniteAcks
    <3>2. last \notin Own(m) /\ last \notin OwnGood(m)
      BY <1>4, <2>3
    <3> QED
      BY <3>1, <3>2, FS_AddElement
  <2>5. /\ Cardinality({k \in Acks' : m < k}) + Len(thread'.todo) + thread'.build = thread'.total
    <3>1. Cardinality(Own(m)) + Len(thread.todo) + thread.build = thread.total
      BY <2>1 DEF UnderWay
    <3>2. thread.build \in Nat /\ thread.total \in Nat
      BY ThreadType
    <3>3. thread'.total = thread.total /\ thread'.build = thread.build
      BY <1>1, <1>7
    <3>4. Cardinality({k \in Acks' : m < k}) = Cardinality(Own(m)) + 1
      BY <2>3, <2>4
    <3> QED
      BY <1>5, <2>4, <3>1, <3>2, <3>3, <3>4
  <2>6. Cardinality({k \in Acks' : m < k /\ ~Failed(k)'}) + When("ack", Success)' = thread'.sent
    <3>1. /\ Cardinality(OwnGood(m)) + (IF thread.result = "ok" THEN 1 ELSE 0) = thread.sent
          /\ When("ack", Success)' = 0
      BY <1>1, <2>1 DEF UnderWay, When, Success
    <3>2. thread'.sent = thread.sent
      BY <1>1, <1>7
    <3>3. Cardinality({k \in Acks' : m < k /\ ~Failed(k)'})
            = Cardinality(OwnGood(m)) + (IF thread.result = "ok" THEN 1 ELSE 0)
      <4>1. CASE thread.result = "ok"
        BY <2>3, <2>4, <4>1
      <4>2. CASE thread.result # "ok"
        <5>1. {k \in Acks' : m < k /\ ~Failed(k)'} = OwnGood(m)
          BY <2>3, <4>2
        <5>2. Cardinality(OwnGood(m)) = Cardinality(OwnGood(m)) + 0
          BY <2>4
        <5> QED
          BY <4>2, <5>1, <5>2
      <4> QED
        BY <4>1, <4>2
    <3> QED
      BY <2>4, <3>1, <3>2, <3>3
  <2>7. /\ \A k, l \in Own(m) : k < l => log[k].order_id < log[l].order_id
        /\ \A k \in Own(m), n \in DOMAIN thread.todo : log[k].order_id < thread.todo[n].id
    BY <2>1 DEF UnderWay
  <2>8. /\ \A k \in Own(m) : log'[k] = log[k] /\ k \in Nat /\ k < last
        /\ \A n, k \in DOMAIN thread.todo : n < k => thread.todo[n].id < thread.todo[k].id
    BY <1>4, <2>3 DEF OrdersSound, EachOnce
  <2>9. \A k, l \in Own(m) \cup {last} : k < l => log'[k].order_id < log'[l].order_id
    <3> SUFFICES ASSUME NEW k \in Own(m) \cup {last}, NEW l \in Own(m) \cup {last}, k < l
                 PROVE  log'[k].order_id < log'[l].order_id
      OBVIOUS
    <3>1. k \in Own(m)
      BY <1>4, <2>8
    <3>2. CASE l \in Own(m)
      BY <2>7, <2>8, <3>1, <3>2
    <3>3. CASE l = last
      BY <1>1, <1>4, <1>5, <2>7, <2>8, <3>1, <3>3
    <3> QED
      BY <3>2, <3>3
  <2>10. \A k \in Own(m) \cup {last}, n \in DOMAIN thread'.todo : log'[k].order_id < thread'.todo[n].id
    <3> SUFFICES ASSUME NEW k \in Own(m) \cup {last}, NEW n \in DOMAIN thread'.todo
                 PROVE  log'[k].order_id < thread'.todo[n].id
      OBVIOUS
    <3>1. n + 1 \in DOMAIN thread.todo /\ 1 < n + 1 /\ thread'.todo[n] = thread.todo[n + 1]
      BY <1>5
    <3>2. CASE k \in Own(m)
      BY <2>7, <2>8, <3>1, <3>2
    <3>3. CASE k = last
      BY <1>1, <1>4, <1>5, <2>8, <3>1, <3>3
    <3> QED
      BY <3>2, <3>3
  <2> QED
    BY <2>2, <2>3, <2>5, <2>6, <2>9, <2>10
<1> QED
  BY <1>3, <1>7, UnderWayNext

\* The result of a prefill is what was counted since it began.
LEMMA ReportPrefill ==
  ASSUME LocalInv, PrefillSound, Report
  PROVE  PrefillSound'
<1> USE DEF LocalInv
<1> DEFINE last == Len(log) + 1
<1>1. PICK result \in ResultMsg :
        /\ log' = Append(log, result) /\ result.sent = thread.sent /\ result.total = thread.total
        /\ thread.pc = "report" /\ thread.job = "prefill" /\ thread.build = 0
        /\ thread.todo = << >> /\ thread'.job = "none"
  BY ReportLocal
<1>2. result \in LogMsg /\ PrefillTallied
  BY DEF LogMsg, PrefillSound
<1>3. /\ Len(log) \in Nat /\ DOMAIN log' = 1 .. Len(log) + 1 /\ log'[last] = result
      /\ DOMAIN log = 1 .. Len(log) /\ \A n \in 1 .. Len(log) : log'[n] = log[n]
  BY <1>1, <1>2, LogAppend
<1>4. PICK m \in 0 .. Len(log) : UnderWay(m)
  BY <1>1, UnderWayMeans
<1>5. /\ Acks' = Acks /\ \A k \in Acks : k \in 1 .. Len(log) /\ log'[k] = log[k]
      /\ \A k \in Acks : Failed(k)' <=> Failed(k)
  BY <1>1, OtherLogged, LogType DEF SameAcks, Failed
<1>6. /\ {k \in Acks' : m < k /\ k < last} = Own(m)
      /\ {k \in Own(m) : ~Failed(k)'} = OwnGood(m)
  BY <1>3, <1>5 DEF Own, OwnGood
<1>7. /\ Cardinality(Own(m)) = result.total /\ Cardinality(OwnGood(m)) = result.sent
      /\ \A k, l \in Own(m) : k < l => log'[l].order_id > log'[k].order_id
  <2>1. /\ Cardinality(Own(m)) + 0 + 0 = thread.total
        /\ Cardinality(OwnGood(m)) + 0 = thread.sent
        /\ \A k, l \in Own(m) : k < l => log[k].order_id < log[l].order_id
    BY <1>1, <1>4 DEF UnderWay, When
  <2>2. Cardinality(Own(m)) \in Nat /\ Cardinality(OwnGood(m)) \in Nat
    BY FiniteAcks DEF Own, OwnGood
  <2>3. \A k, l \in Own(m) : /\ log'[k] = log[k] /\ log'[l] = log[l]
                             /\ log[k].order_id \in Nat /\ log[l].order_id \in Nat
    BY <1>5, LogType DEF Own, AckMsg
  <2>4. \A k, l \in Own(m) : k < l => log'[l].order_id > log'[k].order_id
    BY <2>1, <2>3
  <2>5. Cardinality(Own(m)) = result.total /\ Cardinality(OwnGood(m)) = result.sent
    BY <1>1, <2>1, <2>2
  <2> QED
    BY <2>4, <2>5
<1>8. ASSUME NEW n \in Logged("prefill_result")'
      PROVE  \E i \in 0 .. n - 1 :
               LET own == {k \in Acks' : i < k /\ k < n}
               IN  /\ Cardinality(own) = log'[n].total
                   /\ Cardinality({k \in own : ~Failed(k)'}) = log'[n].sent
                   /\ \A k, l \in own : k < l /\ (\A j \in own : ~(k < j /\ j < l))
                                          => log'[l].order_id > log'[k].order_id
  <2>1. CASE n = last
    <3>1. m \in 0 .. n - 1
      BY <1>3, <2>1
    <3>2. /\ {k \in Acks' : m < k /\ k < n} = Own(m)
          /\ {k \in Own(m) : ~Failed(k)'} = OwnGood(m)
      BY <1>6, <2>1
    <3>3. /\ Cardinality(Own(m)) = log'[n].total /\ Cardinality(OwnGood(m)) = log'[n].sent
          /\ \A k, l \in Own(m) : k < l => log'[l].order_id > log'[k].order_id
      BY <1>3, <1>7, <2>1
    <3> QED
      BY <3>1, <3>2, <3>3
  <2>2. CASE n # last
    <3>1. n \in Logged("prefill_result")
      BY <1>3, <2>2 DEF Logged
    <3> QED
      BY <1>1, <1>2, <3>1, TalliesStay
  <2> QED
    BY <2>1, <2>2
<1>9. PrefillTallied'
  BY <1>8 DEF PrefillTallied
<1> QED
  BY <1>1, <1>9, UnderWayNext

LEMMA PrefillInit == Init => PrefillSound
<1> SUFFICES ASSUME Init PROVE PrefillSound
  OBVIOUS
<1>1. log = << >> /\ thread.job = "none"
  BY DEF Init, Resting
<1> QED
  BY <1>1 DEF PrefillSound, PrefillTallied, Logged

LEMMA PrefillStep ==
  ASSUME LocalInv, OrdersSound, PrefillSound, [Next]_vars
  PROVE  PrefillSound'
<1> USE DEF LocalInv
<1>1. ASSUME UNCHANGED <<thread, log>> PROVE PrefillSound'
  BY <1>1, QuietAcks, PrefillStays
<1>2. CASE UNCHANGED vars
  BY <1>1, <1>2, StutterLocal DEF Quiet, orderVars
<1>3. ASSUME NEW c \in Clients, Aside(c) \/ BuildOrder(c) \/ SendCommand(c)
      PROVE  PrefillSound'
  BY <1>1, <1>3, AsideLocal, BuildOrderLocal, SendCommandLocal DEF Quiet, orderVars
<1>4. ASSUME NEW c \in Clients, Say(c)
      PROVE  PrefillSound'
  <2>1. /\ log' = Append(log, handler[c].held) /\ UNCHANGED thread
        /\ handler[c].held \in StatsMsg \cup StatusMsg \cup ErrorMsg
    BY <1>4, SayLocal DEF orderVars
  <2>2. handler[c].held \in LogMsg /\ handler[c].held.type # "prefill_result"
    BY <2>1 DEF LogMsg, StatsMsg, StatusMsg, ErrorMsg
  <2> QED
    BY <2>1, <2>2, OtherLogged, PrefillStays
<1>5. CASE MakePublisher \/ (NothingReceived \/ NoTick) \/ StreamTick \/ ToIngress \/ Publish
  <2>1. /\ UNCHANGED log /\ thread.pc # "ack" /\ thread'.pc # "ack"
        /\ thread'.job = "prefill" =>
             /\ thread.job = "prefill" /\ thread'.total = thread.total /\ thread'.sent = thread.sent
             /\ thread'.build = thread.build /\ thread'.todo = thread.todo
    BY <1>5, MakePublisherLocal, TurnLocal, StreamTickLocal, ToIngressLocal, PublishLocal
  <2> QED
    BY <2>1, QuietAcks, PrefillStays
<1>6. CASE TakeCommand
  BY <1>6, TakeCommandPrefill
<1>7. CASE BuildNext
  BY <1>7, BuildNextPrefill
<1>8. CASE Count
  BY <1>8, CountPrefill
<1>9. CASE Acknowledge
  BY <1>9, AcknowledgePrefill
<1>10. CASE Report
  BY <1>10, ReportPrefill
<1> QED
  BY <1>2, <1>3, <1>4, <1>5, <1>6, <1>7, <1>8, <1>9, <1>10, StepKinds

-----------------------------------------------------------------------------
(* The statistics.                                                         *)

\* How many successes and failures the first n messages tell of.
GoodTo(n) == Cardinality({k \in Good : k <= n})
BadTo(n)  == Cardinality({k \in Bad : k <= n})

\* The counters of s are no older than the first n messages, no newer than the first m.
FreshSince(s, n, m) ==
  s.total_errors \in BadTo(n) .. BadTo(m) + 1 /\ s.total_sent \in GoodTo(n) .. GoodTo(m) + 1

\* StatsSound, in these terms.
StatsTold == \A n \in Logged("stats") : log[n].asked < n /\ FreshSince(log[n], log[n].asked, n)
Greetings == \A c \in Clients : conn[c] = "on" => FreshSince(greeting[c], since[c], Len(log))
AllFit    == \A c \in Clients : StatsFit(handler[c])
StatsFlat == StatsTold /\ Greetings /\ AllFit

LEMMA StatsMeans == TypeOK => (StatsSound <=> StatsFlat)
<1> SUFFICES ASSUME TypeOK PROVE StatsSound <=> StatsFlat
  OBVIOUS
<1>1. \A n : /\ {k \in {j \in Acks : j <= n} : Failed(k)} = {k \in Bad : k <= n}
             /\ {j \in Acks : j <= n} \ {k \in {j \in Acks : j <= n} : Failed(k)}
                  = {k \in Good : k <= n}
  BY DEF Good, Bad
<1>2. \A s, m : Fresh(s, m) <=> FreshSince(s, s.asked, m)
  BY <1>1 DEF Fresh, FreshSince, GoodTo, BadTo
<1>3. \A c \in Clients : LET s == [greeting[c] EXCEPT !.asked = since[c]]
                         IN  /\ s.asked = since[c] /\ s.total_sent = greeting[c].total_sent
                             /\ s.total_errors = greeting[c].total_errors
  BY DEF TypeOK, StatsMsg
<1>4. \A c \in Clients : Fresh([greeting[c] EXCEPT !.asked = since[c]], Len(log))
                           <=> FreshSince(greeting[c], since[c], Len(log))
  BY <1>2, <1>3 DEF FreshSince
<1> QED
  BY <1>2, <1>4 DEF StatsSound, StatsFresh, AnswersFresh, NoAckMissed, StatsFlat, StatsTold, Greetings, AllFit

LEMMA StatsMeansNext == TypeOK' => (StatsSound' <=> StatsFlat')
BY StatsMeans, PTL

\* What tells of successes and failures stays, and more may come.
LEMMA TallyMoves ==
  ASSUME TypeOK, UNCHANGED log \/ \E msg \in LogMsg : log' = Append(log, msg)
  PROVE  /\ Len(log) \in Nat /\ Len(log') \in Nat /\ Len(log) <= Len(log')
         /\ Good \subseteq Good' /\ Bad \subseteq Bad'
         /\ \A n \in Nat : n <= Len(log) => /\ {k \in Good' : k <= n} = {k \in Good : k <= n}
                                            /\ {k \in Bad' : k <= n} = {k \in Bad : k <= n}
         /\ {k \in Good : k <= Len(log)} = Good /\ {k \in Bad : k <= Len(log)} = Bad
         /\ {k \in Good' : k <= Len(log')} = Good' /\ {k \in Bad' : k <= Len(log')} = Bad'
         /\ \A n \in Logged("stats") : n \in 1 .. Len(log) /\ log'[n] = log[n] /\ n \in Logged("stats")'
         /\ \A n \in Acks' : n \in 1 .. Len(log')
<1>1. /\ Len(log) \in Nat /\ DOMAIN log = 1 .. Len(log) /\ DOMAIN log' = 1 .. Len(log')
      /\ \A n \in 1 .. Len(log) : log'[n] = log[n]
      /\ Len(log') = Len(log) \/ Len(log') = Len(log) + 1
  <2>1. CASE UNCHANGED log
    BY <2>1, LogType
  <2>2. CASE \E msg \in LogMsg : log' = Append(log, msg)
    BY <2>2, LogAppend
  <2> QED
    BY <2>1, <2>2
<1>2. /\ Good = {k \in 1 .. Len(log) : log[k].type = "publish_ack" /\ log[k].result = "ok"}
      /\ Bad = {k \in 1 .. Len(log) : log[k].type = "publish_ack" /\ log[k].result # "ok"}
      /\ Good' = {k \in 1 .. Len(log') : log'[k].type = "publish_ack" /\ log'[k].result = "ok"}
      /\ Bad' = {k \in 1 .. Len(log') : log'[k].type = "publish_ack" /\ log'[k].result # "ok"}
  BY <1>1 DEF Good, Bad, Acks, Logged, Failed
<1>3. Len(log') \in Nat /\ Len(log) <= Len(log') /\ \A k \in 1 .. Len(log) : k \in 1 .. Len(log')
  <2>1. Len(log) \in Nat /\ (Len(log') = Len(log) \/ Len(log') = Len(log) + 1)
    BY <1>1
  <2> QED
    BY <2>1
<1>4. Good \subseteq Good' /\ Bad \subseteq Bad'
  BY <1>1, <1>2, <1>3
<1>5. ASSUME NEW n \in Nat, n <= Len(log)
      PROVE  /\ {k \in Good' : k <= n} = {k \in Good : k <= n}
             /\ {k \in Bad' : k <= n} = {k \in Bad : k <= n}
  <2>1. \A k \in 1 .. Len(log') : k <= n => k \in 1 .. Len(log)
    <3>1. Len(log) \in Nat /\ Len(log') \in Nat
      BY <1>1, <1>3
    <3> QED
      BY <1>5, <3>1
  <2>2. {k \in Good' : k <= n} = {k \in Good : k <= n}
    BY <1>1, <1>2, <1>4, <2>1
  <2>3. {k \in Bad' : k <= n} = {k \in Bad : k <= n}
    BY <1>1, <1>2, <1>4, <2>1
  <2> QED
    BY <2>2, <2>3
<1>6. /\ {k \in Good : k <= Len(log)} = Good /\ {k \in Bad : k <= Len(log)} = Bad
      /\ {k \in Good' : k <= Len(log')} = Good' /\ {k \in Bad' : k <= Len(log')} = Bad'
  BY <1>2
<1>7. \A n \in Logged("stats") : n \in 1 .. Len(log) /\ log'[n] = log[n] /\ n \in Logged("stats")'
  BY <1>1, <1>3 DEF Logged
<1>8. \A n \in Acks' : n \in 1 .. Len(log')
  BY <1>1 DEF Acks, Logged
<1> QED
  BY <1>1, <1>3, <1>4, <1>5, <1>6, <1>7, <1>8

LEMMA TalliesGrow ==
  ASSUME TypeOK, TypeOK', UNCHANGED log \/ \E msg \in LogMsg : log' = Append(log, msg)
  PROVE  /\ Cardinality(Good) \in Nat /\ Cardinality(Bad) \in Nat
         /\ Cardinality(Good') \in Nat /\ Cardinality(Bad') \in Nat
         /\ Cardinality(Good) <= Cardinality(Good') /\ Cardinality(Bad) <= Cardinality(Bad')
<1>1. Good \subseteq Good' /\ Bad \subseteq Bad' /\ Len(log') \in Nat /\ \A n \in Acks' : n \in 1 .. Len(log')
  BY TallyMoves
<1>2. IsFiniteSet(1 .. Len(log'))
  BY <1>1, FS_Interval
<1>3. Good' \subseteq 1 .. Len(log') /\ Bad' \subseteq 1 .. Len(log')
  BY <1>1 DEF Good, Bad
<1>4. IsFiniteSet(Good') /\ IsFiniteSet(Bad')
  BY <1>2, <1>3, FS_Subset
<1>5. /\ Cardinality(Good) <= Cardinality(Good') /\ Cardinality(Bad) <= Cardinality(Bad')
      /\ Cardinality(Good') \in Nat /\ Cardinality(Bad') \in Nat
  BY <1>1, <1>4, FS_Subset, FS_CardinalityType
<1> QED
  BY <1>5, AcksSplit

\* A handler moves on, to what fits what was broadcast so far.
LEMMA StatsOfHandler ==
  ASSUME TypeOK, StatsFlat, NEW c \in Clients, NEW h, handler' = [handler EXCEPT ![c] = h],
         StatsFit(h), UNCHANGED <<log, total_sent, total_errors>>,
         \A d \in Clients : d # c => /\ conn'[d] = conn[d] /\ greeting'[d] = greeting[d]
                                     /\ since'[d] = since[d],
         conn'[c] = "on" => FreshSince(greeting'[c], since'[c], Len(log))
  PROVE  StatsFlat'
<1>1. /\ Good' = Good /\ Bad' = Bad /\ log' = log /\ Logged("stats")' = Logged("stats")
      /\ total_sent' = total_sent /\ total_errors' = total_errors
  BY QuietAcks, SameTallies DEF Logged
<1>2. handler'[c] = h /\ \A d \in Clients : d # c => handler'[d] = handler[d]
  BY DEF TypeOK
<1>3. StatsTold'
  BY <1>1 DEF StatsFlat, StatsTold, FreshSince, GoodTo, BadTo
<1>4. Greetings'
  <2> SUFFICES ASSUME NEW d \in Clients, conn'[d] = "on"
               PROVE  FreshSince(greeting'[d], since'[d], Len(log))
    BY <1>1 DEF Greetings, FreshSince, GoodTo, BadTo
  <2> QED
    BY DEF StatsFlat, Greetings
<1>5. AllFit'
  <2> SUFFICES ASSUME NEW d \in Clients
               PROVE  StatsFit(handler'[d])
    BY <1>1 DEF AllFit, StatsFit
  <2> QED
    BY <1>2 DEF StatsFlat, AllFit
<1> QED
  BY <1>3, <1>4, <1>5 DEF StatsFlat

\* Something is broadcast or counted, and a handler may be done.
LEMMA StatsOfLog ==
  ASSUME TypeOK, TypeOK', StatsFlat, UNCHANGED <<conn, greeting, since>>,
         UNCHANGED log \/ \E msg \in LogMsg : log' = Append(log, msg),
         \A d \in Clients : handler'[d] = handler[d] \/ handler'[d] = Idle,
         total_sent <= total_sent', total_errors <= total_errors',
         \A n \in Logged("stats")' :
           n \in Logged("stats") \/ /\ log'[n].asked < n
                                    /\ FreshSince(log'[n], log'[n].asked, Len(log)) /\ n = Len(log) + 1
                                    /\ log'[n].asked \in Nat
  PROVE  StatsFlat'
<1>1. /\ Len(log) \in Nat /\ Len(log') \in Nat /\ Len(log) <= Len(log')
      /\ \A n \in Nat : n <= Len(log) => /\ {k \in Good' : k <= n} = {k \in Good : k <= n}
                                         /\ {k \in Bad' : k <= n} = {k \in Bad : k <= n}
      /\ {k \in Good : k <= Len(log)} = Good /\ {k \in Bad : k <= Len(log)} = Bad
      /\ {k \in Good' : k <= Len(log')} = Good' /\ {k \in Bad' : k <= Len(log')} = Bad'
      /\ \A n \in Logged("stats") : n \in 1 .. Len(log) /\ log'[n] = log[n]
  BY TallyMoves
<1>2. /\ Cardinality(Good) \in Nat /\ Cardinality(Bad) \in Nat
      /\ Cardinality(Good') \in Nat /\ Cardinality(Bad') \in Nat
      /\ Cardinality(Good) <= Cardinality(Good') /\ Cardinality(Bad) <= Cardinality(Bad')
  BY TalliesGrow
<1>3. /\ total_sent \in Nat /\ total_sent' \in Nat /\ total_errors \in Nat /\ total_errors' \in Nat
      /\ total_sent <= total_sent' /\ total_errors <= total_errors'
  BY DEF TypeOK
\* What is asked for by now is told by the messages there are.
<1>4. \A n \in Nat : n <= Len(log) =>
        /\ Cardinality({k \in Good' : k <= n}) = GoodTo(n)
        /\ Cardinality({k \in Bad' : k <= n}) = BadTo(n)
  BY <1>1 DEF GoodTo, BadTo
<1>5. /\ GoodTo(Len(log)) = Cardinality(Good) /\ BadTo(Len(log)) = Cardinality(Bad)
      /\ Cardinality({k \in Good' : k <= Len(log')}) = Cardinality(Good')
      /\ Cardinality({k \in Bad' : k <= Len(log')}) = Cardinality(Bad')
  BY <1>1 DEF GoodTo, BadTo
<1>6. ASSUME NEW s, NEW n \in Nat, n <= Len(log), FreshSince(s, n, Len(log))
      PROVE  /\ s.total_errors \in Cardinality({k \in Bad' : k <= n}) .. Cardinality(Bad') + 1
             /\ s.total_sent \in Cardinality({k \in Good' : k <= n}) .. Cardinality(Good') + 1
  <2>1. /\ s.total_errors \in BadTo(n) .. Cardinality(Bad) + 1
        /\ s.total_sent \in GoodTo(n) .. Cardinality(Good) + 1
    BY <1>5, <1>6 DEF FreshSince
  <2>2. /\ s.total_errors \in BadTo(n) .. Cardinality(Bad') + 1
        /\ s.total_sent \in GoodTo(n) .. Cardinality(Good') + 1
    BY <1>2, <2>1
  <2> QED
    BY <1>4, <1>6, <2>2
<1>7. StatsTold'
  <2> SUFFICES ASSUME NEW n \in Logged("stats")'
               PROVE  /\ log'[n].asked < n
                      /\ log'[n].total_errors \in Cardinality({k \in Bad' : k <= log'[n].asked})
                                                    .. Cardinality({k \in Bad' : k <= n}) + 1
                      /\ log'[n].total_sent \in Cardinality({k \in Good' : k <= log'[n].asked})
                                                  .. Cardinality({k \in Good' : k <= n}) + 1
    BY DEF StatsTold, FreshSince, GoodTo, BadTo
  <2>1. CASE n \in Logged("stats")
    <3>1. /\ n \in 1 .. Len(log) /\ log'[n] = log[n] /\ n \in Nat /\ n <= Len(log)
          /\ log[n].asked < n /\ FreshSince(log[n], log[n].asked, n)
      BY <1>1, <2>1 DEF StatsFlat, StatsTold
    <3>2. log[n].asked \in Nat /\ log[n].asked <= Len(log)
      <4>1. log[n] \in LogMsg /\ log[n].type = "stats"
        BY <2>1, <3>1, LogType, InQueue DEF Logged
      <4>2. log[n].asked \in Nat
        BY <4>1 DEF LogMsg, StatsMsg, AckMsg, ResultMsg, StatusMsg, ErrorMsg
      <4> QED
        BY <1>1, <3>1, <4>2
    <3> QED
      BY <1>4, <3>1, <3>2 DEF FreshSince
  <2>2. CASE n \notin Logged("stats")
    <3>1. /\ log'[n].asked < n /\ FreshSince(log'[n], log'[n].asked, Len(log)) /\ n = Len(log) + 1
          /\ log'[n].asked \in Nat
      BY <2>2
    <3>2. log'[n].asked <= Len(log) /\ n \in Logged("stats")'
      BY <1>1, <3>1
    <3>3. Len(log') = n
      <4>1. n \in DOMAIN log'
        BY DEF Logged
      <4>2. UNCHANGED log => FALSE
        BY <2>2 DEF Logged
      <4> QED
        BY <3>1, <4>2, LogAppend
    <3> QED
      BY <1>5, <1>6, <3>1, <3>2, <3>3
  <2> QED
    BY <2>1, <2>2
<1>8. Greetings'
  <2> SUFFICES ASSUME NEW d \in Clients, conn[d] = "on"
               PROVE  /\ greeting[d].total_errors \in Cardinality({k \in Bad' : k <= since[d]})
                                                        .. Cardinality({k \in Bad' : k <= Len(log')}) + 1
                      /\ greeting[d].total_sent \in Cardinality({k \in Good' : k <= since[d]})
                                                      .. Cardinality({k \in Good' : k <= Len(log')}) + 1
    BY DEF Greetings, FreshSince, GoodTo, BadTo
  <2>1. FreshSince(greeting[d], since[d], Len(log))
    BY DEF StatsFlat, Greetings
  <2>2. since[d] \in Nat /\ since[d] <= Len(log)
    BY HandlerType
  <2> QED
    BY <1>5, <1>6, <2>1, <2>2
<1>9. AllFit'
  <2> SUFFICES ASSUME NEW d \in Clients, NEW h, h = handler'[d], h.held \in StatsMsg,
                      h.pc \in {"load_sent", "load_errors", "load_streaming", "load_interval", "say"}
               PROVE  /\ h.held.asked <= Len(log')
                      /\ h.pc # "load_sent" =>
                           h.held.total_sent \in Cardinality({n \in Good' : n <= h.held.asked}) .. total_sent'
                      /\ h.pc \notin {"load_sent", "load_errors"} =>
                           h.held.total_errors \in Cardinality({n \in Bad' : n <= h.held.asked}) .. total_errors'
    BY DEF AllFit, StatsFit
  <2>1. h = handler[d]
    BY DEF Idle
  <2>2. /\ h.held.asked <= Len(log) /\ h.held.asked \in Nat
        /\ h.pc # "load_sent" => h.held.total_sent \in GoodTo(h.held.asked) .. total_sent
        /\ h.pc \notin {"load_sent", "load_errors"} =>
             h.held.total_errors \in BadTo(h.held.asked) .. total_errors
    BY <2>1 DEF StatsFlat, AllFit, StatsFit, GoodTo, BadTo, StatsMsg
  <2>3. /\ Cardinality({n \in Good' : n <= h.held.asked}) = GoodTo(h.held.asked)
        /\ Cardinality({n \in Bad' : n <= h.held.asked}) = BadTo(h.held.asked)
    BY <1>4, <2>2
  <2>4. h.held.asked <= Len(log')
    BY <1>1, <2>2
  <2>5. h.pc # "load_sent" => h.held.total_sent \in GoodTo(h.held.asked) .. total_sent'
    BY <1>3, <2>2
  <2>6. h.pc \notin {"load_sent", "load_errors"} =>
          h.held.total_errors \in BadTo(h.held.asked) .. total_errors'
    BY <1>3, <2>2
  <2> QED
    BY <2>3, <2>4, <2>5, <2>6
<1> QED
  BY <1>7, <1>8, <1>9 DEF StatsFlat

\* The counters count what was acknowledged, and at most one order more.
LEMMA CountersTell ==
  ASSUME LocalInv, CountsSound
  PROVE  /\ \A n : /\ GoodTo(n) \in Nat /\ GoodTo(n) <= total_sent
                   /\ BadTo(n) \in Nat /\ BadTo(n) <= total_errors
         /\ total_sent \in Nat /\ total_sent <= GoodTo(Len(log)) + 1
         /\ total_errors \in Nat /\ total_errors <= BadTo(Len(log)) + 1
<1> USE DEF LocalInv
<1>1. /\ total_sent = Cardinality(Good) + When("ack", Success)
      /\ total_errors = Cardinality(Bad) + When("ack", Failure)
      /\ When("ack", Success) \in {0, 1} /\ When("ack", Failure) \in {0, 1}
      /\ Cardinality(Good) \in Nat /\ Cardinality(Bad) \in Nat
      /\ total_sent \in Nat /\ total_errors \in Nat
  BY CountTypes DEF CountsSound, When
<1>2. IsFiniteSet(Good) /\ IsFiniteSet(Bad)
  BY FiniteAcks DEF Good, Bad
<1>3. ASSUME NEW n
      PROVE  /\ GoodTo(n) \in Nat /\ GoodTo(n) <= Cardinality(Good)
             /\ BadTo(n) \in Nat /\ BadTo(n) <= Cardinality(Bad)
  <2>1. {k \in Good : k <= n} \subseteq Good /\ {k \in Bad : k <= n} \subseteq Bad
    OBVIOUS
  <2> QED
    BY <1>2, <2>1, FS_Subset, FS_CardinalityType DEF GoodTo, BadTo
<1>4. GoodTo(Len(log)) = Cardinality(Good) /\ BadTo(Len(log)) = Cardinality(Bad)
  <2>1. Acks \subseteq 1 .. Len(log) /\ Len(log) \in Nat
    BY LogType
  <2>2. {k \in Good : k <= Len(log)} = Good /\ {k \in Bad : k <= Len(log)} = Bad
    <3>1. \A k \in Acks : k <= Len(log)
      BY <2>1
    <3>2. Good \subseteq Acks /\ Bad \subseteq Acks
      BY DEF Good, Bad
    <3> QED
      BY <3>1, <3>2
  <2> QED
    BY <2>2 DEF GoodTo, BadTo
<1> QED
  BY <1>1, <1>3, <1>4

\* A connection's request for statistics, and the statistics it is greeted with.
LEMMA ConnectStats ==
  ASSUME LocalInv, StatsFlat, NEW c \in Clients, Connect(c)
  PROVE  StatsFlat'
<1> USE DEF LocalInv
<1> DEFINE h == [Idle EXCEPT !.pc = "load_sent", !.held = Stats(Len(log))]
<1>1. /\ conn' = [conn EXCEPT ![c] = "greeting"] /\ since' = [since EXCEPT ![c] = Len(log)]
      /\ handler' = [handler EXCEPT ![c] = h]
      /\ UNCHANGED <<log, total_sent, total_errors, greeting>>
  BY DEF Connect, threadVars, counters
<1>2. Len(log) \in Nat /\ h.pc = "load_sent" /\ h.held = Stats(Len(log)) /\ h.held.asked = Len(log)
  BY HandlerType DEF Idle, Stats
<1> HIDE DEF h
<1>3. StatsFit(h)
  BY <1>2 DEF StatsFit
<1>4. /\ conn'[c] = "greeting"
      /\ \A d \in Clients : d # c => /\ conn'[d] = conn[d] /\ greeting'[d] = greeting[d]
                                     /\ since'[d] = since[d]
  BY <1>1 DEF TypeOK
<1> QED
  BY <1>1, <1>3, <1>4, StatsOfHandler

LEMMA GreetedStats ==
  ASSUME LocalInv, CountsSound, StatsFlat, NEW c \in Clients, Greeted(c)
  PROVE  StatsFlat'
<1> USE DEF LocalInv
<1>1. /\ conn[c] = "greeting" /\ handler[c].pc = "say" /\ conn' = [conn EXCEPT ![c] = "on"]
      /\ greeting' = [greeting EXCEPT ![c] = handler[c].held]
      /\ handler' = [handler EXCEPT ![c] = Idle]
      /\ UNCHANGED <<log, total_sent, total_errors, since>>
  BY DEF Greeted, threadVars, counters
<1>2. handler[c].held \in StatsMsg /\ handler[c].held.asked = since[c]
  BY <1>1 DEF HandlersSound
<1>3. /\ handler[c].held.total_sent \in GoodTo(since[c]) .. total_sent
      /\ handler[c].held.total_errors \in BadTo(since[c]) .. total_errors
  BY <1>1, <1>2 DEF StatsFlat, AllFit, StatsFit, GoodTo, BadTo
<1>4. FreshSince(handler[c].held, since[c], Len(log))
  <2>1. handler[c].held.total_sent \in GoodTo(since[c]) .. GoodTo(Len(log)) + 1
    BY <1>3, CountersTell
  <2>2. handler[c].held.total_errors \in BadTo(since[c]) .. BadTo(Len(log)) + 1
    BY <1>3, CountersTell
  <2> QED
    BY <2>1, <2>2 DEF FreshSince
<1>5. /\ greeting'[c] = handler[c].held /\ since'[c] = since[c]
      /\ \A d \in Clients : d # c => /\ conn'[d] = conn[d] /\ greeting'[d] = greeting[d]
                                     /\ since'[d] = since[d]
  BY <1>1 DEF TypeOK
<1>6. StatsFit(Idle)
  BY DEF StatsFit, Idle
<1> QED
  BY <1>1, <1>4, <1>5, <1>6, StatsOfHandler

\* A handler whose connection stays as it is moves on.
LEMMA StatsOfClient ==
  ASSUME TypeOK, StatsFlat, NEW c \in Clients, NEW h, handler' = [handler EXCEPT ![c] = h],
         StatsFit(h), UNCHANGED <<log, total_sent, total_errors, conn, greeting, since>>
  PROVE  StatsFlat'
<1>1. conn'[c] = "on" => FreshSince(greeting'[c], since'[c], Len(log))
  BY DEF StatsFlat, Greetings
<1> QED
  BY <1>1, StatsOfHandler

\* What is no statistics in the making fits.
LEMMA OthersFit ==
  ASSUME NEW h, h.pc \in {"idle", "build", "send", "store", "switch"}
                  \/ h.held \in StatusMsg \cup ErrorMsg
  PROVE  StatsFit(h)
BY DEF StatsFit, StatsMsg, StatusMsg, ErrorMsg

LEMMA ReceiveStats ==
  ASSUME LocalInv, StatsFlat, NEW c \in Clients, Receive(c)
  PROVE  StatsFlat'
<1> USE DEF LocalInv
<1> DEFINE from(cmd) ==
         CASE cmd.type = "submit_order" -> [Idle EXCEPT !.pc = "build", !.cmd = cmd]
           [] cmd.type = "run_prefill"  -> [Idle EXCEPT !.pc = "send", !.cmd = cmd]
           [] cmd.type = "start_stream" -> [Idle EXCEPT !.pc = "store", !.cmd = cmd]
           [] cmd.type = "stop_stream"  -> [Idle EXCEPT !.pc = "switch", !.cmd = cmd]
           [] cmd.type = "get_state"    -> [Idle EXCEPT !.pc = "load_sent", !.cmd = cmd,
                                                         !.held = Stats(Len(log))]
           [] OTHER -> [Idle EXCEPT !.pc = "say", !.cmd = cmd, !.held = Error("bad_message")]
<1>1. /\ \E cmd \in Commands : handler' = [handler EXCEPT ![c] = from(cmd)]
      /\ UNCHANGED <<log, total_sent, total_errors, conn, greeting, since>>
  BY DEF Receive, threadVars, counters, netVars
<1>2. PICK cmd \in Commands : handler' = [handler EXCEPT ![c] = from(cmd)]
  BY <1>1
<1> DEFINE h == from(cmd)
<1>3. Len(log) \in Nat
  BY HandlerType
<1>4. StatsFit(h)
  <2>1. CASE cmd.type \in {"submit_order", "run_prefill", "start_stream", "stop_stream"}
    <3>1. h.pc \in {"build", "send", "store", "switch"}
      BY <2>1 DEF Idle
    <3> QED
      BY <3>1, OthersFit
  <2>2. CASE cmd.type = "get_state"
    <3>1. h.pc = "load_sent" /\ h.held.asked = Len(log)
      BY <2>2 DEF Idle, Stats
    <3> HIDE DEF h
    <3> QED
      BY <1>3, <3>1 DEF StatsFit
  <2>3. CASE cmd.type \notin {"submit_order", "run_prefill", "start_stream", "stop_stream", "get_state"}
    <3>1. h.held = Error("bad_message")
      BY <2>3 DEF Idle
    <3>2. h.held \in ErrorMsg
      BY <3>1 DEF Error, ErrorMsg
    <3> HIDE DEF h
    <3> QED
      BY <3>2, OthersFit
  <2> QED
    BY <2>1, <2>2, <2>3
<1> HIDE DEF h
<1>5. handler' = [handler EXCEPT ![c] = h]
  BY <1>2 DEF h
<1> QED
  BY <1>1, <1>4, <1>5, StatsOfClient

\* What is loaded now is no older than the request, and no newer than now.
LEMMA LoadStats ==
  ASSUME LocalInv, CountsSound, StatsFlat, NEW c \in Clients, LoadNext(c)
  PROVE  StatsFlat'
<1> USE DEF LocalInv
<1> DEFINE msg == handler[c].held
<1>1. /\ Fits(c, handler[c]) /\ StatsFit(handler[c]) /\ handler[c] \in Handler
      /\ \A n : GoodTo(n) \in Nat /\ GoodTo(n) <= total_sent /\ BadTo(n) \in Nat /\ BadTo(n) <= total_errors
      /\ total_sent \in Nat /\ total_errors \in Nat
  BY CountersTell, HandlerType DEF HandlersSound, StatsFlat, AllFit
<1>2. ASSUME NEW pc, NEW m, NEW next, Load(c, pc, m, next),
             StatsFit([handler[c] EXCEPT !.pc = next, !.held = m])
      PROVE  StatsFlat'
  <2>1. /\ handler' = [handler EXCEPT ![c] = [handler[c] EXCEPT !.pc = next, !.held = m]]
        /\ UNCHANGED <<log, total_sent, total_errors, conn, greeting, since>>
    BY <1>2 DEF Load, threadVars, counters, netVars
  <2> QED
    BY <1>2, <2>1, StatsOfClient
<1>3. ASSUME NEW m, NEW next PROVE LET h == [handler[c] EXCEPT !.pc = next, !.held = m]
                                   IN  h.pc = next /\ h.held = m
  BY <1>1 DEF Handler
<1>4. CASE Load(c, "load_sent", [msg EXCEPT !.total_sent = total_sent], "load_errors")
  <2> DEFINE m == [msg EXCEPT !.total_sent = total_sent]
             h == [handler[c] EXCEPT !.pc = "load_errors", !.held = m]
  <2>1. handler[c].pc = "load_sent" /\ msg \in StatsMsg
    BY <1>1, <1>4 DEF Load, Fits
  <2>2. m.asked = msg.asked /\ m.total_sent = total_sent
    BY <2>1 DEF StatsMsg
  <2>3. msg.asked <= Len(log)
    BY <1>1, <2>1 DEF StatsFit
  <2>4. m.total_sent \in GoodTo(m.asked) .. total_sent
    BY <1>1, <2>2
  <2>5. h.pc = "load_errors" /\ h.held = m
    BY <1>3
  <2> HIDE DEF m, h
  <2>6. StatsFit(h)
    BY <2>2, <2>3, <2>4, <2>5 DEF StatsFit, GoodTo
  <2> QED
    BY <1>2, <1>4, <2>6 DEF m, h
<1>5. CASE Load(c, "load_errors", [msg EXCEPT !.total_errors = total_errors], "load_streaming")
  <2> DEFINE m == [msg EXCEPT !.total_errors = total_errors]
             h == [handler[c] EXCEPT !.pc = "load_streaming", !.held = m]
  <2>1. handler[c].pc = "load_errors" /\ msg \in StatsMsg
    BY <1>1, <1>5 DEF Load, Fits
  <2>2. m.asked = msg.asked /\ m.total_sent = msg.total_sent /\ m.total_errors = total_errors
    BY <2>1 DEF StatsMsg
  <2>3. msg.asked <= Len(log) /\ msg.total_sent \in GoodTo(msg.asked) .. total_sent
    BY <1>1, <2>1 DEF StatsFit, GoodTo
  <2>4. m.total_errors \in BadTo(m.asked) .. total_errors
    BY <1>1, <2>2
  <2>5. h.pc = "load_streaming" /\ h.held = m
    BY <1>3
  <2> HIDE DEF m, h
  <2>6. StatsFit(h)
    BY <2>2, <2>3, <2>4, <2>5 DEF StatsFit, GoodTo, BadTo
  <2> QED
    BY <1>2, <1>5, <2>6 DEF m, h
<1>6. ASSUME NEW m, NEW next \in {"load_interval", "say"},
             handler[c].pc \in {"load_streaming", "load_interval"},
             m \in StatsMsg => msg \in StatsMsg,
             msg \in StatsMsg => /\ m.asked = msg.asked /\ m.total_sent = msg.total_sent
                                 /\ m.total_errors = msg.total_errors
      PROVE  StatsFit([handler[c] EXCEPT !.pc = next, !.held = m])
  <2> DEFINE h == [handler[c] EXCEPT !.pc = next, !.held = m]
  <2>1. h.pc = next /\ h.held = m
    BY <1>3
  <2> HIDE DEF h
  <2> SUFFICES ASSUME m \in StatsMsg
               PROVE  StatsFit(h)
    BY <2>1 DEF h, StatsFit
  <2>2. /\ msg.asked <= Len(log) /\ msg.total_sent \in GoodTo(msg.asked) .. total_sent
        /\ msg.total_errors \in BadTo(msg.asked) .. total_errors
    BY <1>1, <1>6 DEF StatsFit, GoodTo, BadTo
  <2> QED
    BY <1>6, <2>1, <2>2 DEF StatsFit, GoodTo, BadTo
<1>7. CASE Load(c, "load_streaming", [msg EXCEPT !.streaming = streaming], "load_interval")
  <2>1. handler[c].pc = "load_streaming" /\ msg \in StatsMsg
    BY <1>1, <1>7 DEF Load, Fits
  <2>2. LET m == [msg EXCEPT !.streaming = streaming]
        IN  m.asked = msg.asked /\ m.total_sent = msg.total_sent /\ m.total_errors = msg.total_errors
    BY <2>1 DEF StatsMsg
  <2> QED
    BY <1>2, <1>6, <1>7, <2>1, <2>2
<1>8. CASE Load(c, "load_interval", [msg EXCEPT !.interval = interval], "say")
  <2>1. handler[c].pc = "load_interval" /\ msg \in StatsMsg \cup StatusMsg
    BY <1>1, <1>8 DEF Load, Fits
  <2>2. LET m == [msg EXCEPT !.interval = interval]
        IN  /\ m \in StatsMsg => msg \in StatsMsg
            /\ msg \in StatsMsg => /\ m.asked = msg.asked /\ m.total_sent = msg.total_sent
                                   /\ m.total_errors = msg.total_errors
    <3>1. msg \in StatusMsg => [msg EXCEPT !.interval = interval].type = "stream_status"
      BY DEF StatusMsg
    <3> QED
      BY <2>1, <3>1 DEF StatsMsg
  <2> QED
    BY <1>2, <1>6, <1>8, <2>1, <2>2
<1> QED
  BY <1>4, <1>5, <1>7, <1>8 DEF LoadNext

\* A connection ends, and its greeting with it.
LEMMA CloseStats ==
  ASSUME LocalInv, StatsFlat, NEW c \in Clients, Close(c)
  PROVE  StatsFlat'
<1> USE DEF LocalInv
<1>1. /\ conn' = [conn EXCEPT ![c] = "off"] /\ since' = [since EXCEPT ![c] = 0]
      /\ greeting' = [greeting EXCEPT ![c] = Nothing]
      /\ UNCHANGED <<log, total_sent, total_errors, handler>>
  BY DEF Close, threadVars, counters
<1>2. /\ conn'[c] = "off"
      /\ \A d \in Clients : d # c => /\ conn'[d] = conn[d] /\ greeting'[d] = greeting[d]
                                     /\ since'[d] = since[d]
  BY <1>1 DEF TypeOK
<1>3. handler' = [handler EXCEPT ![c] = handler[c]] /\ StatsFit(handler[c])
  BY <1>1 DEF TypeOK, StatsFlat, AllFit
<1> QED
  BY <1>1, <1>2, <1>3, StatsOfHandler

\* A handler that is about an order or a switch has no statistics.
LEMMA CommandStats ==
  ASSUME LocalInv, StatsFlat, NEW c \in Clients,
         BuildOrder(c) \/ SendCommand(c) \/ StoreInterval(c) \/ Switch(c)
  PROVE  StatsFlat'
<1> USE DEF LocalInv
<1>1. handler[c] \in Handler
  BY HandlerType
<1>2. UNCHANGED <<log, total_sent, total_errors, conn, greeting, since>>
  BY DEF BuildOrder, SendCommand, StoreInterval, Switch, threadVars, counters, netVars
<1>3. \E h : /\ handler' = [handler EXCEPT ![c] = h]
             /\ h.pc \in {"idle", "build", "send", "store", "switch"} \/ h.held \in StatusMsg \cup ErrorMsg
  <2>1. CASE BuildOrder(c)
    <3> DEFINE h == [handler[c] EXCEPT !.pc = "send",
                       !.held = [id |-> next_order_id', by |-> c, fits |-> handler[c].cmd.fits]]
    <3>1. handler' = [handler EXCEPT ![c] = h]
      BY <2>1 DEF BuildOrder
    <3>2. h.pc = "send"
      BY <1>1 DEF Handler
    <3> QED
      BY <3>1, <3>2
  <2>2. CASE SendCommand(c)
    <3> DEFINE h == [handler[c] EXCEPT !.pc = "say", !.held = Error("not_running")]
    <3>1. handler' = [handler EXCEPT ![c] = h] \/ handler' = [handler EXCEPT ![c] = Idle]
      BY <2>2 DEF SendCommand
    <3>2. h.held \in ErrorMsg /\ Idle.pc = "idle"
      BY <1>1 DEF Handler, Error, ErrorMsg, Idle
    <3> QED
      BY <3>1, <3>2
  <2>3. CASE StoreInterval(c)
    <3>1. handler' = [handler EXCEPT ![c].pc = "switch"]
      BY <2>3 DEF StoreInterval
    <3>2. handler' = [handler EXCEPT ![c] = [handler[c] EXCEPT !.pc = "switch"]]
      BY <3>1
    <3>3. [handler[c] EXCEPT !.pc = "switch"].pc = "switch"
      BY <1>1 DEF Handler
    <3> QED
      BY <3>2, <3>3
  <2>4. CASE Switch(c)
    <3> DEFINE h == [handler[c] EXCEPT !.pc = "load_interval", !.held = Status(streaming', 0)]
    <3>1. handler' = [handler EXCEPT ![c] = h] /\ streaming' \in BOOLEAN
      BY <2>4 DEF Switch
    <3>2. h.held \in StatusMsg
      BY <1>1, <3>1, RestingTypes DEF Handler
    <3> QED
      BY <3>1, <3>2
  <2> QED
    BY <2>1, <2>2, <2>3, <2>4
<1>4. PICK h : /\ handler' = [handler EXCEPT ![c] = h]
               /\ h.pc \in {"idle", "build", "send", "store", "switch"} \/ h.held \in StatusMsg \cup ErrorMsg
  BY <1>3
<1>5. StatsFit(h)
  BY <1>4, OthersFit
<1> QED
  BY <1>2, <1>4, <1>5, StatsOfClient

LEMMA AsideStats ==
  ASSUME LocalInv, CountsSound, StatsFlat, NEW c \in Clients, Aside(c)
  PROVE  StatsFlat'
<1>1. CASE Deliver(c)
  <2>1. UNCHANGED <<log, total_sent, total_errors, conn, greeting, since, handler>>
    BY <1>1 DEF Deliver, threadVars, counters
  <2>2. handler' = [handler EXCEPT ![c] = handler[c]] /\ StatsFit(handler[c])
    BY <2>1 DEF LocalInv, TypeOK, StatsFlat, AllFit
  <2> QED
    BY <2>1, <2>2, StatsOfClient DEF LocalInv
<1> QED
  BY <1>1, ConnectStats, GreetedStats, ReceiveStats, CloseStats, CommandStats, LoadStats
  DEF Aside, Leave, DropLagged

\* What is said was loaded before, so that it is fresh when it is said.
LEMMA SayStats ==
  ASSUME LocalInv, CountsSound, StatsFlat, NEW c \in Clients, Say(c)
  PROVE  StatsFlat'
<1> USE DEF LocalInv
<1> DEFINE msg == handler[c].held
<1>1. /\ handler[c].pc = "say" /\ log' = Append(log, msg) /\ handler' = [handler EXCEPT ![c] = Idle]
      /\ UNCHANGED <<total_sent, total_errors, conn, greeting, since>>
  BY DEF Say, Broadcast, threadVars, counters, netVars
<1>2. TypeOK' /\ msg \in LogMsg /\ msg \in StatsMsg \cup StatusMsg \cup ErrorMsg
  BY SayLocal DEF LogMsg
<1>3. /\ \A d \in Clients : handler'[d] = handler[d] \/ handler'[d] = Idle
      /\ total_sent <= total_sent' /\ total_errors <= total_errors'
  BY <1>1 DEF TypeOK
<1>4. ASSUME NEW n \in Logged("stats")', n \notin Logged("stats")
      PROVE  /\ log'[n].asked < n /\ FreshSince(log'[n], log'[n].asked, Len(log)) /\ n = Len(log) + 1
             /\ log'[n].asked \in Nat
  <2>1. Len(log) \in Nat /\ n = Len(log) + 1 /\ log'[n] = msg /\ msg.type = "stats"
    BY <1>1, <1>2, <1>4, LogAppend DEF Logged
  <2>2. msg \in StatsMsg /\ msg.asked \in Nat
    BY <1>2, <2>1 DEF StatsMsg, StatusMsg, ErrorMsg
  <2>3. /\ msg.asked <= Len(log)
        /\ msg.total_sent \in GoodTo(msg.asked) .. total_sent
        /\ msg.total_errors \in BadTo(msg.asked) .. total_errors
    BY <1>1, <2>2 DEF StatsFlat, AllFit, StatsFit, GoodTo, BadTo
  <2>4. msg.total_sent \in GoodTo(msg.asked) .. GoodTo(Len(log)) + 1
    BY <2>3, CountersTell
  <2>5. msg.total_errors \in BadTo(msg.asked) .. BadTo(Len(log)) + 1
    BY <2>3, CountersTell
  <2>6. FreshSince(msg, msg.asked, Len(log))
    BY <2>4, <2>5 DEF FreshSince
  <2>7. msg.asked < n
    BY <2>1, <2>2, <2>3
  <2> HIDE DEF msg
  <2> QED
    BY <2>1, <2>2, <2>6, <2>7
<1>5. UNCHANGED <<conn, greeting, since>> /\ \E m \in LogMsg : log' = Append(log, m)
  BY <1>1, <1>2
<1> HIDE DEF msg
<1> QED
  BY <1>2, <1>3, <1>4, <1>5, StatsOfLog

\* The thread never says any statistics, and its counters only grow.
LEMMA ThreadStats ==
  ASSUME LocalInv, StatsFlat, publisher_thread
  PROVE  StatsFlat'
<1> USE DEF LocalInv
<1>1. /\ TypeOK'
      /\ \/ UNCHANGED log
         \/ \E msg \in AckMsg \cup ResultMsg : log' = Append(log, msg)
  BY MakePublisherLocal, TakeCommandLocal, TurnLocal, StreamTickLocal, BuildNextLocal, ToIngressLocal,
     PublishLocal, CountLocal, AcknowledgeLocal, ReportLocal DEF publisher_thread
<1>2. UNCHANGED <<conn, greeting, since, handler>>
  BY DEF publisher_thread, MakePublisher, TakeCommand, NothingReceived, StreamTick, NoTick, BuildNext,
         ToIngress, Publish, Count, Acknowledge, Report, At, netVars
<1>3. total_sent <= total_sent' /\ total_errors <= total_errors'
  <2>1. total_sent \in Nat /\ total_errors \in Nat
    BY DEF TypeOK
  <2>2. CASE Count
    <3>1. /\ Success \in {0, 1} /\ Failure = 1 - Success
          /\ total_sent' = total_sent + Success /\ total_errors' = total_errors + Failure
      BY <2>2, CountLocal
    <3> QED
      BY <2>1, <3>1
  <2>3. CASE ~Count
    <3>1. UNCHANGED counters
      BY <2>3 DEF publisher_thread, MakePublisher, TakeCommand, NothingReceived, StreamTick, NoTick,
                  BuildNext, ToIngress, Publish, Acknowledge, Report
    <3> QED
      BY <2>1, <3>1 DEF counters
  <2> QED
    BY <2>2, <2>3
<1>4. UNCHANGED log \/ \E msg \in LogMsg : log' = Append(log, msg)
  BY <1>1 DEF LogMsg
<1>5. Logged("stats")' \subseteq Logged("stats")
  <2>1. CASE UNCHANGED log
    BY <2>1 DEF Logged
  <2>2. ASSUME NEW msg \in AckMsg \cup ResultMsg, log' = Append(log, msg)
        PROVE  Logged("stats")' \subseteq Logged("stats")
    <3>1. msg \in LogMsg /\ msg.type # "stats"
      BY DEF LogMsg, AckMsg, ResultMsg
    <3> QED
      BY <2>2, <3>1, LogAppend DEF Logged
  <2> QED
    BY <1>1, <2>1, <2>2
<1> QED
  BY <1>1, <1>2, <1>3, <1>4, <1>5, StatsOfLog

LEMMA StatsInit == Init => StatsSound
<1> HAVE Init
<1>1. StatsTold /\ Greetings
  BY DEF Init, StatsTold, Greetings, Logged
<1>2. AllFit
  BY OthersFit DEF Init, AllFit, Idle
<1>3. TypeOK
  BY LocalInit DEF LocalInv
<1> QED
  BY <1>1, <1>2, <1>3, StatsMeans DEF StatsFlat

LEMMA StatsStep ==
  ASSUME LocalInv, CountsSound, StatsSound, [Next]_vars
  PROVE  StatsSound'
<1>1. StatsFlat /\ TypeOK /\ TypeOK'
  BY StatsMeans, LocalStep DEF LocalInv
<1>2. CASE UNCHANGED vars
  <2>1. /\ UNCHANGED <<log, conn, greeting, since, handler, total_sent, total_errors>>
        /\ total_sent \in Nat /\ total_errors \in Nat
    BY <1>1, <1>2 DEF vars, threadVars, netVars, counters, TypeOK
  <2>2. Logged("stats")' = Logged("stats") /\ total_sent <= total_sent' /\ total_errors <= total_errors'
    BY <2>1 DEF Logged
  <2>3. StatsFlat'
    BY <1>1, <2>1, <2>2, StatsOfLog
  <2> QED
    BY <1>1, <2>3, StatsMeansNext
<1>3. ASSUME NEW c \in Clients, Aside(c) \/ Say(c) \/ BuildOrder(c) \/ SendCommand(c)
      PROVE  StatsSound'
  BY <1>1, <1>3, AsideStats, SayStats, CommandStats, StatsMeansNext
<1>4. CASE publisher_thread
  BY <1>1, <1>4, ThreadStats, StatsMeansNext
<1> QED
  BY <1>2, <1>3, <1>4 DEF Next, Handle, Aside

-----------------------------------------------------------------------------
(* The theorems.                                                           *)

\* The invariant holds at the start and is kept by every step of every handler and of the
\* thread, whatever Aeron accepts and wherever the thread panics.
THEOREM InvariantKept == Spec => []BridgeInv
<1>1. Init => BridgeInv
  BY LocalInit, OrdersInit, WireInit, LineInit, CountsInit, PrefillInit, StatsInit DEF BridgeInv
<1>2. BridgeInv /\ [Next]_vars => BridgeInv'
  BY LocalStep, OrdersStep, WireStep, LineStep, CountsStep, PrefillStep, StatsStep DEF BridgeInv
<1> QED
  BY <1>1, <1>2, PTL DEF Spec

\* Every part of the bridge has its type at all times: what is in the channel is an order or
\* a prefill with its identifier, and the interval of the stream is never below its minimum.
THEOREM TypeCorrect == Spec => []TypeOK
<1>1. BridgeInv => TypeOK
  BY DEF BridgeInv, LocalInv
<1> QED
  BY <1>1, InvariantKept, PTL

\* Once the stream is switched off, the thread makes up at most one more of its orders: the
\* one it had already decided on when stop_stream stored the flag.
THEOREM AtMostOneOrderAfterStop == Spec => []OneOrderAfterStop
<1>1. BridgeInv => OneOrderAfterStop
  BY DEF BridgeInv, LocalInv, StopCounted, OneOrderAfterStop
<1> QED
  BY <1>1, InvariantKept, PTL

\* A set whose members are all the same has one at most.
LEMMA AtMostOne ==
  ASSUME NEW S, \A x, y \in S : x = y
  PROVE  Cardinality(S) = IF S = {} THEN 0 ELSE 1
<1>1. CASE S = {}
  BY <1>1, FS_EmptySet
<1>2. CASE S # {}
  <2>1. PICK x \in S : TRUE
    BY <1>2
  <2>2. S = {x}
    BY <2>1
  <2> QED
    BY <1>2, <2>2, FS_Singleton
<1> QED
  BY <1>1, <1>2

\* Where orders are, as a number, from where their identifiers are.
LEMMA PlacesCounted ==
  ASSUME LocalInv, OrdersSound, NEW id
  PROVE  Places(id) = (IF id \in HeldIds THEN 1 ELSE 0) + (IF id \in QueuedIds THEN 1 ELSE 0)
                        + (IF id \in TodoIds THEN 1 ELSE 0) + (IF id \in AckedIds THEN 1 ELSE 0)
<1> DEFINE held == {c \in Clients : handler[c].pc = "send" /\ handler[c].cmd.type = "submit_order"
                                    /\ handler[c].held.id = id}
           queued == {n \in DOMAIN queue : queue[n].cmd.type = "submit_order" /\ queue[n].order.id = id}
           todo == {n \in DOMAIN thread.todo : thread.todo[n].id = id}
<1>1. Cardinality(held) = IF id \in HeldIds THEN 1 ELSE 0
  <2>1. \A c, d \in held : c = d
    BY DEF OrdersSound, EachOnce, Holds, HasOrder
  <2>2. held = {} <=> id \notin HeldIds
    BY DEF HeldIds, Holds, HasOrder
  <2> HIDE DEF held
  <2> QED
    BY <2>1, <2>2, AtMostOne
<1>2. Cardinality(queued) = IF id \in QueuedIds THEN 1 ELSE 0
  <2>1. \A n, k \in queued : n = k
    BY DEF OrdersSound, EachOnce, Queued
  <2>2. queued = {} <=> id \notin QueuedIds
    BY DEF QueuedIds, Queued
  <2> HIDE DEF queued
  <2> QED
    BY <2>1, <2>2, AtMostOne
<1>3. Cardinality(todo) = IF id \in TodoIds THEN 1 ELSE 0
  <2>1. \A n, k \in todo : n = k
    <3>1. thread.todo \in Seq(Order)
      BY ThreadType DEF LocalInv
    <3>2. \A n \in DOMAIN thread.todo : n \in Nat /\ thread.todo[n].id \in Nat
      <4>1. \A order \in Order : order.id \in Nat
        BY DEF Order
      <4>2. \A n \in DOMAIN thread.todo : n \in Nat /\ thread.todo[n] \in Order
        <5>1. Len(thread.todo) \in Nat /\ DOMAIN thread.todo = 1 .. Len(thread.todo)
          BY <3>1, InQueue, LenProperties
        <5> QED
          BY <3>1, <5>1, ElementOfSeq
      <4> QED
        BY <4>1, <4>2
    <3>3. \A n, k \in DOMAIN thread.todo : n < k => thread.todo[n].id < thread.todo[k].id
      BY DEF OrdersSound, EachOnce
    <3> SUFFICES ASSUME NEW n \in todo, NEW k \in todo, n # k PROVE FALSE
      OBVIOUS
    <3>4. n < k \/ k < n
      BY <3>2
    <3> QED
      BY <3>2, <3>3, <3>4
  <2>2. todo = {} <=> id \notin TodoIds
    BY DEF TodoIds
  <2> HIDE DEF todo
  <2> QED
    BY <2>1, <2>2, AtMostOne
<1>4. Cardinality(AcksOf(id)) = IF id \in AckedIds THEN 1 ELSE 0
  <2>1. \A n, k \in AcksOf(id) : n = k
    BY DEF OrdersSound, EachOnce, AcksOf
  <2>2. AcksOf(id) = {} <=> id \notin AckedIds
    BY DEF AcksOf, AckedIds
  <2> QED
    BY <2>1, <2>2, AtMostOne
<1> QED
  BY <1>1, <1>2, <1>3, <1>4 DEF Places

\* While the thread lives every order built is in exactly one place: with the handler that
\* built it, in the channel, with the thread, or acknowledged; after a panic in one at most.
THEOREM NoOrderLostOrDoubled == Spec => []OrdersAccountedFor
<1>1. BridgeInv => OrdersAccountedFor
  <2> SUFFICES ASSUME LocalInv, OrdersSound, NEW id \in 1 .. next_order_id
               PROVE  Places(id) <= 1 /\ (Dead \/ Places(id) = 1)
    BY DEF BridgeInv, OrdersAccountedFor
  <2>1. Places(id) = (IF id \in HeldIds THEN 1 ELSE 0) + (IF id \in QueuedIds THEN 1 ELSE 0)
                       + (IF id \in TodoIds THEN 1 ELSE 0) + (IF id \in AckedIds THEN 1 ELSE 0)
    BY PlacesCounted
  <2>2. /\ id \in HeldIds => id \notin QueuedIds /\ id \notin TodoIds /\ id \notin AckedIds
        /\ id \in QueuedIds => id \notin TodoIds /\ id \notin AckedIds
        /\ id \in TodoIds => id \notin AckedIds
        /\ Dead \/ id \in HeldIds \/ id \in QueuedIds \/ id \in TodoIds \/ id \in AckedIds
    BY DEF OrdersSound
  <2> QED
    BY <2>1, <2>2
<1> QED
  BY <1>1, InvariantKept, PTL

\* One client's orders stand on the wire in the order it sent them, across all retries and
\* whatever the stream, the prefills and the other clients put between them.
THEOREM ClientsKeepTheirOrder == Spec => []ClientOrderKept
<1>1. BridgeInv => ClientOrderKept
  BY DEF BridgeInv, ClientLine, Ahead, ClientOrderKept
<1> QED
  BY <1>1, InvariantKept, PTL

\* An order acknowledged as published is on the wire once, one acknowledged with an error
\* is not there, and only an order tried MaxRetries + 1 times is said to be given up.
THEOREM AcksAreTrue == Spec => []AcksTellTheWire
<1>1. BridgeInv => AcksTellTheWire
  <2> SUFFICES ASSUME LocalInv, OrdersSound, WireSound, NEW n \in Acks
               PROVE  /\ Cardinality(Wired(log[n].order_id)) = IF Failed(n) THEN 0 ELSE 1
                      /\ (log[n].result = "gave_up") <=> (log[n].retries = MaxRetries + 1)
                      /\ log[n].retries <= MaxRetries + 1
    BY DEF BridgeInv, AcksTellTheWire
  <2> DEFINE id == log[n].order_id
  <2>1. \A i, k \in Wired(id) : i = k
    BY DEF WireSound, Wired
  <2>2. Wired(id) = {} <=> id \notin {wire[i].id : i \in DOMAIN wire}
    BY DEF Wired
  <2>3. JustPublished => 1 \in DOMAIN thread.todo
    <3>1. thread.todo \in Seq(Order) /\ (JustPublished => thread.todo # << >>)
      BY ThreadType DEF LocalInv, ThreadSound, Publishing, JustPublished
    <3> QED
      BY <3>1, InQueue
  <2>4. \A k \in {1} : JustPublished => thread.todo[k].id # id
    <3>1. JustPublished => thread.todo[1].id \in TodoIds
      BY <2>3 DEF TodoIds
    <3>2. id \in AckedIds
      BY DEF AckedIds
    <3> QED
      BY <3>1, <3>2 DEF OrdersSound
  <2>5. id \in {wire[i].id : i \in DOMAIN wire} <=> id \in {log[k].order_id : k \in {j \in Acks : ~Failed(j)}}
    BY <2>4 DEF WireSound
  <2>6. id \in {log[k].order_id : k \in {j \in Acks : ~Failed(j)}} <=> ~Failed(n)
    BY DEF OrdersSound, EachOnce
  <2>7. log[n].retries <= MaxRetries + 1
    <3>1. log[n].retries \in 0 .. MaxRetries + 1
      BY LogType DEF LocalInv, AckMsg
    <3> QED
      BY <3>1, Limits
  <2>8. (log[n].result = "gave_up") <=> (log[n].retries = MaxRetries + 1)
    BY DEF WireSound
  <2>9. Cardinality(Wired(id)) = IF Wired(id) = {} THEN 0 ELSE 1
    BY <2>1, AtMostOne
  <2> QED
    BY <2>2, <2>5, <2>6, <2>7, <2>8, <2>9
<1> QED
  BY <1>1, InvariantKept, PTL

\* The counters the clients see, the acknowledgements and the sequence numbers on the wire
\* tell the same: a reader of the wire can count the orders given up from the gaps.
THEOREM CountersAreTrue == Spec => []CountersAgree
<1>1. BridgeInv => CountersAgree
  <2> SUFFICES ASSUME LocalInv, CountsSound PROVE CountersAgree
    BY DEF BridgeInv
  <2>1. ASSUME thread.pc \in {"recv", "tick"}
        PROVE  total_sent = Len(wire) /\ next_seq - FirstSeq = Len(wire) + total_errors
    <3>1. /\ When("publish", 1) = 0 /\ When("count", 1) = 0 /\ When("count", Success) = 0 /\ ~Dead
      BY <2>1 DEF When, Dead
    <3>2. total_sent + 0 = Len(wire) /\ next_seq - FirstSeq = total_sent + total_errors + 0 + 0
      BY <3>1 DEF CountsSound
    <3>3. total_sent \in Nat /\ total_errors \in Nat
      BY DEF LocalInv, TypeOK
    <3> QED
      BY <3>2, <3>3
  <2> QED
    BY <2>1 DEF CountsSound, CountersAgree, CountersTellTheWire
<1> QED
  BY <1>1, InvariantKept, PTL

\* The result of every prefill is the tally of the acknowledgements right before it, in the
\* order of their identifiers: nobody else's order is published in the middle of a prefill.
THEOREM PrefillsAreWhole == Spec => []PrefillTallied
<1>1. BridgeInv => PrefillTallied
  BY DEF BridgeInv, PrefillSound
<1> QED
  BY <1>1, InvariantKept, PTL

\* The statistics a client reads are no older than its request, and those that greet it leave
\* no acknowledgement between them and the first message it is sent.
THEOREM StatisticsAreFresh == Spec => []StatsFresh
<1>1. BridgeInv => StatsFresh
  BY DEF BridgeInv, StatsSound
<1> QED
  BY <1>1, InvariantKept, PTL

\* Every order on the wire was made by a client, the stream or a prefill.
LEMMA MakersKnown ==
  ASSUME TypeOK, NEW n \in DOMAIN wire
  PROVE  Maker(n) \in Makers
<1>1. wire[n] \in OnWire
  BY WireType
<1> QED
  BY <1>1 DEF Maker, Makers, OnWire

\* What the bridge puts on the wire stands for the orders it was given: for all their prices
\* and quantities, orders that cross still cross, and an acknowledgement shows what was
\* published.
THEOREM TicksAreFaithful == Spec => []TicksFaithful
<1>1. TypeOK => TicksFaithful
  <2> HAVE TypeOK
  <2>1. \A n \in DOMAIN wire : Maker(n) \in AckShowsWire /\ Maker(n) \in QuantityPositive
    BY MakersKnown, AcksShowTheWire, QuantitiesSurvive
  <2>2. \A n, k \in DOMAIN wire : <<Maker(n), Maker(k)>> \in CrossingKept
    BY MakersKnown, TradesAreKept
  <2> QED
    BY <2>1, <2>2 DEF TicksFaithful
<1> QED
  BY <1>1, TypeCorrect, PTL

\* Prefills add depth only: no two of their orders trade, whatever their kinds and however
\* often they run, and the rounding merges no levels.
THEOREM PrefillsOnlyAddDepth == Spec => []PrefillsAddDepth
<1>1. PrefillsAddDepth
  BY PrefillsNeverTrade, LevelsStayDistinct DEF PrefillsAddDepth
<1> QED
  BY <1>1, PTL

=============================================================================
