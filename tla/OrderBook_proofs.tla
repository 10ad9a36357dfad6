-------------------------- MODULE OrderBook_proofs --------------------------
(***************************************************************************)
(* Proofs about the operators of OrderBook, for every set of prices and    *)
(* quantities: a sound book stays sound, and submit and cancel do what     *)
(* PriceTimeRules says.                                                    *)
(***************************************************************************)
EXTENDS OrderBook, PriceTimeRules, SequenceLemmas

\* The side across from a side is a side, and not the same one.
LEMMA OppositeSide ==
  ASSUME NEW s \in Side
  PROVE  Opposite(s) \in Side /\ Opposite(s) # s
BY DEF Side, Opposite

-----------------------------------------------------------------------------
(* The folds of the model.                                                 *)

FillStep   == INSTANCE SequenceLemmas WITH Step <- LAMBDA px, m, maker : FillMaker(m, maker, px)
LevelStep  == INSTANCE SequenceLemmas WITH Step <- LAMBDA p, m, px : MatchLevel(m, px)
QtyStep    == INSTANCE SequenceLemmas WITH Step <- LAMBDA p, acc, o : acc + o.remaining_qty
RetainStep == INSTANCE SequenceLemmas
                WITH Step <- LAMBDA id, kept, o : IF o.id = id THEN kept ELSE Append(kept, o)

\* Each loop of the book passes through a series of states, one per turn.
LEMMA DrainSeries ==
  ASSUME NEW level, NEW n \in Nat, DOMAIN level = 1 .. n,
         NEW taker, NEW px, NEW trades, NEW next_trade_id
  PROVE  \E f : /\ f[0] = [taker |-> taker, trades |-> trades, next_trade_id |-> next_trade_id,
                           queue |-> << >>, filled_ids |-> {}]
                /\ \A k \in 1 .. n : f[k] = FillMaker(f[k - 1], level[k], px)
                /\ DrainLevel(level, taker, px, trades, next_trade_id) = f[n]
<1> DEFINE base == [taker |-> taker, trades |-> trades, next_trade_id |-> next_trade_id,
                    queue |-> << >>, filled_ids |-> {}]
<1>1. DrainLevel(level, taker, px, trades, next_trade_id) = FillStep!Fold(px, base, level)
  BY DEF DrainLevel, FoldLeft, MapThenFoldSet, Max,
         FillStep!Fold, FillStep!FoldLeft, FillStep!MapThenFoldSet, FillStep!Max
<1>2. \E f : FillStep!Turns(f, px, base, level, n)
  <2> HIDE DEF base
  <2> QED
    BY FillStep!FoldTurns
<1>3. PICK f : FillStep!Turns(f, px, base, level, n)
  BY <1>2
<1>4. /\ f[0] = base
      /\ \A k \in 1 .. n : f[k] = FillMaker(f[k - 1], level[k], px)
      /\ FillStep!Fold(px, base, level) = f[n]
  <2> HIDE DEF base
  <2> QED
    BY <1>3 DEF FillStep!Turns
<1> QED
  BY <1>1, <1>4

MatchTurns(f, b, order, n) ==
  /\ f[0] = [book |-> b, taker |-> order, trades |-> << >>]
  /\ \A k \in 1 .. n :
       f[k] = MatchLevel(f[k - 1], PricesBestFirst(b.levels, Opposite(order.side))[k])
  /\ MatchOrder(b, order) = f[n]

\* match_order passes through the best levels one by one.
LEMMA MatchSeries ==
  ASSUME NEW b, NEW order, NEW n \in Nat,
         DOMAIN PricesBestFirst(b.levels, Opposite(order.side)) = 1 .. n
  PROVE  \E f : MatchTurns(f, b, order, n)
<1> DEFINE base == [book |-> b, taker |-> order, trades |-> << >>]
           P    == PricesBestFirst(b.levels, Opposite(order.side))
<1>1. MatchOrder(b, order) = LevelStep!Fold(0, base, P)
  BY DEF MatchOrder, FoldLeft, MapThenFoldSet, Max,
         LevelStep!Fold, LevelStep!FoldLeft, LevelStep!MapThenFoldSet, LevelStep!Max
<1>2. DOMAIN P = 1 .. n
  OBVIOUS
<1>3. \E f : LevelStep!Turns(f, 0, base, P, n)
  <2> HIDE DEF base, P
  <2> QED
    BY <1>2, LevelStep!FoldTurns
<1>4. PICK f : LevelStep!Turns(f, 0, base, P, n)
  BY <1>3
<1>5. /\ f[0] = base
      /\ \A k \in 1 .. n : f[k] = MatchLevel(f[k - 1], P[k])
      /\ LevelStep!Fold(0, base, P) = f[n]
  <2> HIDE DEF base, P
  <2> QED
    BY <1>4 DEF LevelStep!Turns
<1> QED
  BY <1>1, <1>5 DEF MatchTurns

\* retain looks at the orders of a queue one by one.
LEMMA RetainSeries ==
  ASSUME NEW queue, NEW n \in Nat, DOMAIN queue = 1 .. n, NEW id
  PROVE  \E f : /\ f[0] = << >>
                /\ \A k \in 1 .. n : f[k] = IF queue[k].id = id THEN f[k - 1]
                                                                 ELSE Append(f[k - 1], queue[k])
                /\ Retained(queue, id) = f[n]
<1>1. Retained(queue, id) = RetainStep!Fold(id, << >>, queue)
  BY DEF Retained, FoldLeft, MapThenFoldSet, Max,
         RetainStep!Fold, RetainStep!FoldLeft, RetainStep!MapThenFoldSet, RetainStep!Max
<1>2. \E f : RetainStep!Turns(f, id, << >>, queue, n)
  BY RetainStep!FoldTurns
<1>3. PICK f : RetainStep!Turns(f, id, << >>, queue, n)
  BY <1>2
<1>4. /\ f[0] = << >>
      /\ \A k \in 1 .. n : f[k] = IF queue[k].id = id THEN f[k - 1]
                                                       ELSE Append(f[k - 1], queue[k])
      /\ RetainStep!Fold(id, << >>, queue) = f[n]
  BY <1>3 DEF RetainStep!Turns
<1> QED
  BY <1>1, <1>4

-----------------------------------------------------------------------------
(* The prices of a side, best first.                                       *)

\* The prices of a side are numbers, each once and the better ones first.
SortedPrices(P, side, D, n) ==
  /\ n \in Nat /\ DOMAIN P = 1 .. n /\ P \in Seq(D)
  /\ \A i \in 1 .. n : P[i] \in D
  /\ \A i, j \in 1 .. n : i < j => Better(side, P[i], P[j])
  /\ \A p \in D : \E i \in 1 .. n : P[i] = p

\* PricesBestFirst lists the prices that have a level, each once.
LEMMA PricesListed ==
  ASSUME NEW levels, NEW side, DOMAIN levels[side] \subseteq Int,
         IsFiniteSet(DOMAIN levels[side])
  PROVE  SortedPrices(PricesBestFirst(levels, side), side, DOMAIN levels[side],
                      Cardinality(DOMAIN levels[side]))
<1> DEFINE D == DOMAIN levels[side]
           R == {pq \in D \X D : Better(side, pq[1], pq[2])}
           P == PricesBestFirst(levels, side)
           ahead(x) == {y \in D : Better(side, y, x)}
           raw      == {<<x, Cardinality(ahead(x)) + 1>> : x \in D}
<1>1. \A p, q \in D : <<p, q>> \in R <=> Better(side, p, q)
  OBVIOUS
<1>2. P = ByRank(raw, Cardinality(D))
  BY DEF PricesBestFirst, InOrder, ByRank
<1>3. raw = RankSet(D, R)
  <2>1. \A x \in D : ahead(x) = {y \in D : <<y, x>> \in R}
    BY <1>1
  <2> HIDE DEF ahead, R, D
  <2> QED
    BY <2>1 DEF RankSet
<1> HIDE DEF D, R, P, raw
<1>4. StrictOrder(D, R)
  BY <1>1 DEF StrictOrder, Better, D
<1>5. ListedAs(P, D, R, Cardinality(D))
  BY <1>2, <1>3, <1>4, RankedIsListed DEF D
<1>6. SortedPrices(P, side, D, Cardinality(D))
  BY <1>1, <1>5 DEF ListedAs, SortedPrices
<1> QED
  BY <1>6 DEF P, D

-----------------------------------------------------------------------------
(* The inner loop: a taker and one level.                                  *)

\* The trades made so far: those of before, and then the taker's own, numbered on.
TradesGrown(new, old, taker, next_trade_id) ==
  /\ new \in Seq(Trade) /\ Len(old) <= Len(new)
  /\ \A i \in 1 .. Len(old) : new[i] = old[i]
  /\ \A i \in Len(old) + 1 .. Len(new) :
       /\ new[i].id = next_trade_id - Len(old) + i
       /\ new[i].taker_order_id = taker.id
       /\ new[i].timestamp_ms = taker.timestamp_ms
       /\ new[i].qty > 0

\* The taker is the order that was submitted, less what it traded.
TakerReduced(now_, taker) ==
  /\ now_ = [taker EXCEPT !.remaining_qty = now_.remaining_qty]
  /\ now_.remaining_qty \in Int /\ now_.remaining_qty <= taker.remaining_qty

\* The queue is the level's, from maker c + 1 to maker k, less what they traded.
QueueKept(queue, level, c, k) ==
  /\ queue \in Seq(Order) /\ Len(queue) = k - c
  /\ \A j \in 1 .. k - c :
       /\ queue[j] = [level[c + j] EXCEPT !.remaining_qty = queue[j].remaining_qty]
       /\ queue[j].remaining_qty > Eps

\* The loop after the makers 1 to k of the level.
DrainState(m, k, level, taker, trades, next_trade_id) ==
  /\ m \in [taker : Order, trades : Seq(Trade), next_trade_id : Nat, queue : Seq(Order),
            filled_ids : SUBSET Nat]
  /\ TakerReduced(m.taker, taker)
  /\ TradesGrown(m.trades, trades, taker, next_trade_id)
  /\ m.next_trade_id = next_trade_id + Len(m.trades) - Len(trades)
  /\ \E c \in 0 .. k : /\ QueueKept(m.queue, level, c, k)
                       /\ m.filled_ids = {level[i].id : i \in 1 .. c}
  /\ m.queue # << >> => m.taker.remaining_qty <= Eps

\* An order stays one whatever is left of it.
LEMMA OrderReduced ==
  ASSUME NEW o \in Order, NEW q \in Int
  PROVE  /\ [o EXCEPT !.remaining_qty = q] \in Order
         /\ [o EXCEPT !.remaining_qty = q].remaining_qty = q
         /\ [o EXCEPT !.remaining_qty = q].id = o.id
         /\ [o EXCEPT !.remaining_qty = q].side = o.side
         /\ [o EXCEPT !.remaining_qty = q].price = o.price
         /\ [o EXCEPT !.remaining_qty = q].order_type = o.order_type
         /\ [o EXCEPT !.remaining_qty = q].tif = o.tif
         /\ [o EXCEPT !.remaining_qty = q].qty = o.qty
         /\ [o EXCEPT !.remaining_qty = q].timestamp_ms = o.timestamp_ms
BY DEF Order

\* One turn of the inner loop.
LEMMA FillMakerStep ==
  ASSUME NEW level \in Seq(Order), NEW k \in 1 .. Len(level),
         \A i \in 1 .. Len(level) : level[i].remaining_qty > Eps,
         NEW taker \in Order, NEW px \in Price, NEW trades \in Seq(Trade),
         NEW next_trade_id \in Nat, NEW m,
         DrainState(m, k - 1, level, taker, trades, next_trade_id)
  PROVE  DrainState(FillMaker(m, level[k], px), k, level, taker, trades, next_trade_id)
<1> DEFINE maker == level[k]
           left0 == m.taker.remaining_qty
<1>1. /\ maker \in Order /\ maker.remaining_qty \in Int /\ maker.remaining_qty > Eps
      /\ Len(level) \in Nat /\ k \in Nat /\ Eps \in Nat /\ maker.id \in Nat
  <2>1. Len(level) \in Nat /\ maker \in Order
    BY ElementOfSeq, LenProperties
  <2> QED
    BY <2>1, EpsAssumption DEF Order
<1>2. /\ m.taker \in Order /\ m.trades \in Seq(Trade) /\ m.next_trade_id \in Nat
      /\ m.queue \in Seq(Order) /\ m.filled_ids \in SUBSET Nat
      /\ TakerReduced(m.taker, taker)
      /\ TradesGrown(m.trades, trades, taker, next_trade_id)
      /\ m.next_trade_id = next_trade_id + Len(m.trades) - Len(trades)
      /\ m.queue # << >> => left0 <= Eps
  BY DEF DrainState
<1>3. PICK c \in 0 .. k - 1 : /\ QueueKept(m.queue, level, c, k - 1)
                              /\ m.filled_ids = {level[i].id : i \in 1 .. c}
  BY DEF DrainState
<1>4. left0 \in Int
  BY <1>2 DEF TakerReduced
<1>5. CASE left0 <= Eps
  <2>1. FillMaker(m, maker, px) = [m EXCEPT !.queue = Append(m.queue, maker)]
    BY <1>5 DEF FillMaker
  <2>2. QueueKept(Append(m.queue, maker), level, c, k)
    <3>1. /\ Append(m.queue, maker) \in Seq(Order)
          /\ Len(Append(m.queue, maker)) = Len(m.queue) + 1
          /\ \A j \in 1 .. Len(m.queue) : Append(m.queue, maker)[j] = m.queue[j]
          /\ Append(m.queue, maker)[Len(m.queue) + 1] = maker
      BY <1>1, <1>2, AppendProperties
    <3>2. /\ Len(m.queue) = k - 1 - c
          /\ \A j \in 1 .. k - 1 - c :
               /\ m.queue[j] = [level[c + j] EXCEPT !.remaining_qty = m.queue[j].remaining_qty]
               /\ m.queue[j].remaining_qty > Eps
      BY <1>3 DEF QueueKept
    <3>3. maker = [level[k] EXCEPT !.remaining_qty = maker.remaining_qty]
      BY <1>1 DEF Order
    <3> DEFINE q == Append(m.queue, maker)
    <3>4. ASSUME NEW j \in 1 .. k - c
          PROVE  /\ q[j] = [level[c + j] EXCEPT !.remaining_qty = q[j].remaining_qty]
                 /\ q[j].remaining_qty > Eps
      <4>1. CASE j = k - c
        <5>1. q[j] = maker /\ c + j = k
          BY <3>1, <3>2, <4>1, <1>1
        <5> QED
          BY <5>1, <3>3, <1>1
      <4>2. CASE j # k - c
        <5>1. j \in 1 .. k - 1 - c /\ q[j] = m.queue[j]
          BY <3>1, <3>2, <4>2, <1>1
        <5> QED
          BY <5>1, <3>2
      <4> QED
        BY <4>1, <4>2
    <3>5. q \in Seq(Order) /\ Len(q) = k - c
      BY <3>1, <3>2, <1>1
    <3> QED
      BY <3>4, <3>5 DEF QueueKept
  <2>3. /\ [m EXCEPT !.queue = Append(m.queue, maker)] \in
             [taker : Order, trades : Seq(Trade), next_trade_id : Nat, queue : Seq(Order),
              filled_ids : SUBSET Nat]
    BY <2>2 DEF DrainState, QueueKept
  <2> DEFINE r == FillMaker(m, maker, px)
  <2>4. /\ r.taker = m.taker /\ r.trades = m.trades /\ r.next_trade_id = m.next_trade_id
        /\ r.queue = Append(m.queue, maker) /\ r.filled_ids = m.filled_ids
    BY <2>1 DEF DrainState
  <2>5. r \in [taker : Order, trades : Seq(Trade), next_trade_id : Nat, queue : Seq(Order),
               filled_ids : SUBSET Nat]
    BY <2>1, <2>3
  <2>6. c \in 0 .. k
    BY <1>1
  <2> HIDE DEF r
  <2> QED
    BY <1>2, <1>3, <1>5, <2>2, <2>4, <2>5, <2>6 DEF DrainState, r
<1>6. CASE left0 > Eps
  <2> DEFINE qty   == Min({left0, maker.remaining_qty})
             left  == maker.remaining_qty - qty
             trade == [id             |-> m.next_trade_id + 1,
                       maker_order_id |-> maker.id,
                       taker_order_id |-> m.taker.id,
                       price          |-> px,
                       qty            |-> qty,
                       timestamp_ms   |-> m.taker.timestamp_ms]
             r     == FillMaker(m, maker, px)
             less  == [m.taker EXCEPT !.remaining_qty = left0 - qty]
             kept  == [maker EXCEPT !.remaining_qty = left]
  <2>1. /\ r.taker = less
        /\ r.trades = Append(m.trades, trade)
        /\ r.next_trade_id = m.next_trade_id + 1
        /\ r.queue = IF left <= Eps THEN m.queue ELSE Append(m.queue, kept)
        /\ r.filled_ids = IF left <= Eps THEN m.filled_ids \cup {maker.id} ELSE m.filled_ids
        /\ r = [taker |-> r.taker, trades |-> r.trades, next_trade_id |-> r.next_trade_id,
                queue |-> r.queue, filled_ids |-> r.filled_ids]
    <3>1. r = [taker         |-> less,
               trades        |-> Append(m.trades, trade),
               next_trade_id |-> m.next_trade_id + 1,
               queue         |-> IF left <= Eps THEN m.queue ELSE Append(m.queue, kept),
               filled_ids    |-> IF left <= Eps THEN m.filled_ids \cup {maker.id}
                                                ELSE m.filled_ids]
      <4>1. ~(m.taker.remaining_qty <= Eps)
        BY <1>1, <1>4, <1>6
      <4> QED
        BY <4>1 DEF FillMaker
    <3> HIDE DEF r, less, trade, left, kept
    <3> QED
      BY <3>1
  <2>2. qty \in Int /\ qty > 0 /\ qty <= left0 /\ qty <= maker.remaining_qty
        /\ (qty = left0 \/ qty = maker.remaining_qty)
    <3>1. qty = IF left0 <= maker.remaining_qty THEN left0 ELSE maker.remaining_qty
      BY <1>1, <1>4, MinOfTwo
    <3> QED
      BY <3>1, <1>1, <1>4, <1>6
  <2>3. m.queue = << >> /\ c = k - 1
    <3>1. m.queue = << >>
      BY <1>2, <1>6, <1>1, <1>4
    <3>2. Len(m.queue) = k - 1 - c
      BY <1>3 DEF QueueKept
    <3> QED
      BY <3>1, <3>2, <1>1
  <2>4. /\ m.taker = [taker EXCEPT !.remaining_qty = left0] /\ left0 <= taker.remaining_qty
        /\ taker.remaining_qty \in Int
    BY <1>2 DEF TakerReduced, Order
  <2>5. m.taker.id = taker.id /\ m.taker.timestamp_ms = taker.timestamp_ms
        /\ taker.id \in Nat /\ taker.timestamp_ms \in Int
    BY <2>4, <1>4, OrderReduced DEF Order
  <2> HIDE DEF r, qty
  <2>6. TakerReduced(r.taker, taker) /\ r.taker \in Order /\ r.taker.remaining_qty = left0 - qty
    <3>1. left0 - qty \in Int /\ left0 - qty <= taker.remaining_qty
      BY <2>2, <2>4, <1>4
    <3>2. less \in Order /\ less.remaining_qty = left0 - qty
      BY <3>1, <1>2, OrderReduced
    <3>3. less = [taker EXCEPT !.remaining_qty = left0 - qty]
      BY <2>4 DEF Order
    <3> QED
      BY <2>1, <3>1, <3>2, <3>3 DEF TakerReduced
  <2>7. trade \in Trade
    <3>1. m.next_trade_id + 1 \in Nat
      BY <1>2
    <3>2. px \in Price
      OBVIOUS
    <3> QED
      BY <3>1, <3>2, <2>2, <2>5, <1>1 DEF Trade
  <2>8. /\ r.trades \in Seq(Trade) /\ Len(r.trades) = Len(m.trades) + 1
        /\ \A i \in 1 .. Len(m.trades) : r.trades[i] = m.trades[i]
        /\ r.trades[Len(m.trades) + 1] = trade
        /\ Len(m.trades) \in Nat /\ Len(trades) \in Nat
    <3> HIDE DEF trade
    <3> QED
      BY <1>2, <2>1, <2>7, AppendProperties, LenProperties
  <2>9. TradesGrown(r.trades, trades, taker, next_trade_id)
    <3>1. /\ Len(trades) <= Len(m.trades)
          /\ \A i \in 1 .. Len(trades) : m.trades[i] = trades[i]
          /\ \A i \in Len(trades) + 1 .. Len(m.trades) :
               /\ m.trades[i].id = next_trade_id - Len(trades) + i
               /\ m.trades[i].taker_order_id = taker.id
               /\ m.trades[i].timestamp_ms = taker.timestamp_ms
               /\ m.trades[i].qty > 0
      BY <1>2 DEF TradesGrown
    <3>2. /\ trade.id = next_trade_id - Len(trades) + (Len(m.trades) + 1)
          /\ trade.taker_order_id = taker.id
          /\ trade.timestamp_ms = taker.timestamp_ms
          /\ trade.qty > 0
      BY <1>2, <2>2, <2>5, <2>8
    <3> HIDE DEF trade
    <3>3. ASSUME NEW i \in Len(trades) + 1 .. Len(r.trades)
          PROVE  /\ r.trades[i].id = next_trade_id - Len(trades) + i
                 /\ r.trades[i].taker_order_id = taker.id
                 /\ r.trades[i].timestamp_ms = taker.timestamp_ms
                 /\ r.trades[i].qty > 0
      <4>1. CASE i = Len(m.trades) + 1
        BY <4>1, <2>8, <3>2
      <4>2. CASE i # Len(m.trades) + 1
        <5>1. i \in Len(trades) + 1 .. Len(m.trades) /\ i \in 1 .. Len(m.trades)
          BY <4>2, <2>8
        <5> QED
          BY <5>1, <2>8, <3>1
      <4> QED
        BY <4>1, <4>2
    <3>4. \A i \in 1 .. Len(trades) : r.trades[i] = trades[i]
      BY <2>8, <3>1
    <3> QED
      BY <2>8, <3>1, <3>3, <3>4 DEF TradesGrown
  <2>10. r.next_trade_id = next_trade_id + Len(r.trades) - Len(trades) /\ r.next_trade_id \in Nat
    <3> HIDE DEF trade
    <3>1. r.next_trade_id = m.next_trade_id + 1
      BY <2>1
    <3> QED
      BY <3>1, <2>8, <1>2
  <2>11. left \in Int /\ (left > Eps => qty = left0)
    BY <2>2, <1>1, <1>4
  <2>12. /\ \E d \in 0 .. k : /\ QueueKept(r.queue, level, d, k)
                              /\ r.filled_ids = {level[i].id : i \in 1 .. d}
         /\ r.queue # << >> => r.taker.remaining_qty <= Eps
    <3>1. CASE left <= Eps
      <4>1. r.queue = << >> /\ r.filled_ids = m.filled_ids \cup {maker.id}
        BY <2>1, <2>3, <3>1
      <4>2. QueueKept(r.queue, level, k, k)
        BY <4>1, <1>1 DEF QueueKept
      <4>3. r.filled_ids = {level[i].id : i \in 1 .. k}
        <5>1. 1 .. k = (1 .. c) \cup {k}
          BY <2>3, <1>1
        <5> QED
          BY <4>1, <5>1, <1>3
      <4>4. k \in 0 .. k
        BY <1>1
      <4> QED
        BY <4>1, <4>2, <4>3, <4>4
    <3>2. CASE ~(left <= Eps)
      <4>1. r.queue = Append(<< >>, kept) /\ r.filled_ids = m.filled_ids
        BY <2>1, <2>3, <3>2
      <4>2. kept \in Order /\ kept.remaining_qty = left
        BY <1>1, <2>11, OrderReduced
      <4>3. r.queue \in Seq(Order) /\ Len(r.queue) = 1 /\ r.queue[1] = kept
        <5> HIDE DEF kept
        <5> QED
          BY <4>1, <4>2, AppendProperties, EmptySeq
      <4>4. QueueKept(r.queue, level, k - 1, k)
        <5>1. k - (k - 1) = 1 /\ (k - 1) + 1 = k /\ left > Eps
          BY <1>1, <2>11, <3>2
        <5>2. \A j \in 1 .. 1 : j = 1
          OBVIOUS
        <5>3. kept = [level[k] EXCEPT !.remaining_qty = kept.remaining_qty]
          BY <4>2
        <5> HIDE DEF kept, left
        <5> QED
          BY <4>2, <4>3, <5>1, <5>2, <5>3 DEF QueueKept
      <4>5. r.filled_ids = {level[i].id : i \in 1 .. k - 1}
        BY <4>1, <1>3, <2>3
      <4>6. r.taker.remaining_qty <= Eps
        BY <2>6, <2>11, <3>2, <1>1, <1>4
      <4>7. k - 1 \in 0 .. k
        BY <1>1
      <4> QED
        BY <4>4, <4>5, <4>6, <4>7
    <3> QED
      BY <3>1, <3>2
  <2>13. r.queue \in Seq(Order)
    BY <2>12 DEF QueueKept
  <2>14. r.filled_ids \in SUBSET Nat
    BY <2>1, <1>1, <1>2
  <2>15. r \in [taker : Order, trades : Seq(Trade), next_trade_id : Nat, queue : Seq(Order),
                filled_ids : SUBSET Nat]
    BY <2>1, <2>6, <2>8, <2>10, <2>13, <2>14
  <2> QED
    BY <2>6, <2>9, <2>10, <2>12, <2>15 DEF DrainState, r
<1> QED
  BY <1>1, <1>4, <1>5, <1>6

\* The turns of the inner loop and its state after each.
DrainTurns(f, level, taker, px, trades, next_trade_id, n) ==
  /\ f[0] = [taker |-> taker, trades |-> trades, next_trade_id |-> next_trade_id,
             queue |-> << >>, filled_ids |-> {}]
  /\ \A k \in 1 .. n : f[k] = FillMaker(f[k - 1], level[k], px)
  /\ DrainLevel(level, taker, px, trades, next_trade_id) = f[n]
  /\ \A k \in 0 .. n : DrainState(f[k], k, level, taker, trades, next_trade_id)

\* The inner loop keeps its invariant from turn to turn.
LEMMA DrainTurnsSound ==
  ASSUME NEW level \in Seq(Order),
         \A i \in 1 .. Len(level) : level[i].remaining_qty > Eps,
         NEW taker \in Order, NEW px \in Price, NEW trades \in Seq(Trade),
         NEW next_trade_id \in Nat, taker.remaining_qty \in Int
  PROVE  \E f : DrainTurns(f, level, taker, px, trades, next_trade_id, Len(level))
<1> DEFINE base == [taker |-> taker, trades |-> trades, next_trade_id |-> next_trade_id,
                    queue |-> << >>, filled_ids |-> {}]
           n    == Len(level)
           State(m, k) == DrainState(m, k, level, taker, trades, next_trade_id)
<1>1. n \in Nat /\ DOMAIN level = 1 .. n
  BY LenProperties
<1>3. PICK f : /\ f[0] = base
               /\ \A k \in 1 .. n : f[k] = FillMaker(f[k - 1], level[k], px)
               /\ DrainLevel(level, taker, px, trades, next_trade_id) = f[n]
  <2>1. n \in Nat /\ DOMAIN level = 1 .. n
    BY <1>1
  <2> HIDE DEF n, State
  <2> QED
    BY <2>1, DrainSeries
<1>4. State(base, 0)
  <2>1. TakerReduced(taker, taker)
    BY DEF TakerReduced, Order
  <2>2. TradesGrown(trades, trades, taker, next_trade_id) /\ Len(trades) \in Nat
    <3>1. Len(trades) \in Nat
      BY LenProperties
    <3> QED
      BY <3>1 DEF TradesGrown
  <2>3. QueueKept(<< >>, level, 0, 0)
    BY DEF QueueKept
  <2>4. {} = {level[i].id : i \in 1 .. 0}
    OBVIOUS
  <2>5. base \in [taker : Order, trades : Seq(Trade), next_trade_id : Nat, queue : Seq(Order),
                  filled_ids : SUBSET Nat]
    OBVIOUS
  <2>6. 0 \in 0 .. 0 /\ next_trade_id = next_trade_id + Len(trades) - Len(trades)
    BY <2>2
  <2> QED
    BY <2>1, <2>2, <2>3, <2>4, <2>5, <2>6 DEF DrainState
<1>5. ASSUME NEW k \in 1 .. n, State(f[k - 1], k - 1)
      PROVE  State(f[k], k)
  <2>1. State(FillMaker(f[k - 1], level[k], px), k)
    BY <1>5, FillMakerStep
  <2> QED
    BY <1>3, <2>1
<1> DEFINE G == {k \in 0 .. n : State(f[k], k)}
<1> HIDE DEF base, n, State
<1>6. 0 \in G
  BY <1>1, <1>3, <1>4
<1>7. \A k \in 1 .. n : k - 1 \in G => k \in G
  BY <1>1, <1>5
<1>8. \A k \in 0 .. n : k \in G
  <2> HIDE DEF G
  <2> QED
    BY <1>1, <1>6, <1>7, Upwards
<1>9. \A k \in 0 .. n : State(f[k], k)
  BY <1>8
<1>10. DrainTurns(f, level, taker, px, trades, next_trade_id, n)
  BY <1>3, <1>9 DEF DrainTurns, State, base
<1> QED
  BY <1>10 DEF n

\* The inner loop keeps an end of the level and forgets the rest.
LEMMA LevelDrained ==
  ASSUME NEW level \in Seq(Order),
         \A i \in 1 .. Len(level) : level[i].remaining_qty > Eps,
         NEW taker \in Order, NEW px \in Price, NEW trades \in Seq(Trade),
         NEW next_trade_id \in Nat, taker.remaining_qty \in Int
  PROVE  DrainState(DrainLevel(level, taker, px, trades, next_trade_id), Len(level), level,
                    taker, trades, next_trade_id)
<1>1. PICK f : DrainTurns(f, level, taker, px, trades, next_trade_id, Len(level))
  BY DrainTurnsSound
<1>2. Len(level) \in 0 .. Len(level)
  BY LenProperties
<1> QED
  BY <1>1, <1>2 DEF DrainTurns

-----------------------------------------------------------------------------
(* What an operation does to one level.                                    *)

\* The queue holds the orders of the level whose positions are not gone, each less
\* what it traded.
QueueFrom(queue, level, gone) ==
  /\ queue \in Seq(Order)
  /\ \A j \in 1 .. Len(queue) :
       /\ queue[j].remaining_qty > Eps
       /\ \E i \in 1 .. Len(level) :
            /\ i \notin gone
            /\ queue[j] = [level[i] EXCEPT !.remaining_qty = queue[j].remaining_qty]
  /\ \A i \in 1 .. Len(level) :
       i \notin gone => \E j \in 1 .. Len(queue) : queue[j].id = level[i].id
  /\ \A i, j \in 1 .. Len(queue) : queue[i].id = queue[j].id => i = j

\* The map of a side's levels once one of them is what queue says.
LevelsWith(sideLevels, px, queue) ==
  IF queue = << >> THEN Without(sideLevels, {px}) ELSE With(sideLevels, px, queue)

\* Book r is b with one level replaced by queue and the identifiers in ids forgotten.
Replaced(b, r, side, px, queue, ids) ==
  /\ r = [levels |-> r.levels, index |-> r.index, next_trade_id |-> r.next_trade_id]
  /\ DOMAIN r.levels = Side
  /\ DOMAIN r.index = DOMAIN b.index \ ids
  /\ \A id \in DOMAIN r.index : r.index[id] = b.index[id]
  /\ \A s \in Side : s # side => r.levels[s] = b.levels[s]
  /\ DOMAIN r.levels[side] = IF queue = << >> THEN DOMAIN b.levels[side] \ {px}
                                             ELSE DOMAIN b.levels[side]
  /\ \A p \in DOMAIN r.levels[side] :
       r.levels[side][p] = IF p = px THEN queue ELSE b.levels[side][p]

\* What becomes of the levels and the index when one level is replaced.
LEMMA LevelReplacedIs ==
  ASSUME NEW b, DOMAIN b.levels = Side, NEW side \in Side, NEW px \in DOMAIN b.levels[side],
         NEW queue, NEW ids, NEW next_trade_id, NEW r,
         r = [levels        |-> [b.levels EXCEPT ![side] = LevelsWith(@, px, queue)],
              index         |-> Without(b.index, ids),
              next_trade_id |-> next_trade_id]
  PROVE  Replaced(b, r, side, px, queue, ids)
<1>1. /\ r.levels = [b.levels EXCEPT ![side] = LevelsWith(b.levels[side], px, queue)]
      /\ r.index = Without(b.index, ids)
      /\ r = [levels |-> r.levels, index |-> r.index, next_trade_id |-> r.next_trade_id]
  OBVIOUS
<1>2. /\ DOMAIN r.levels = Side
      /\ r.levels[side] = LevelsWith(b.levels[side], px, queue)
      /\ \A s \in Side : s # side => r.levels[s] = b.levels[s]
  BY <1>1
<1>3. /\ DOMAIN r.index = DOMAIN b.index \ ids
      /\ \A id \in DOMAIN r.index : r.index[id] = b.index[id]
  BY <1>1 DEF Without
<1>4. /\ DOMAIN r.levels[side] = IF queue = << >> THEN DOMAIN b.levels[side] \ {px}
                                                 ELSE DOMAIN b.levels[side]
      /\ \A p \in DOMAIN r.levels[side] :
           r.levels[side][p] = IF p = px THEN queue ELSE b.levels[side][p]
  <2>1. CASE queue = << >>
    BY <2>1, <1>2 DEF LevelsWith, Without
  <2>2. CASE queue # << >>
    <3>1. r.levels[side] = [p \in DOMAIN b.levels[side] \cup {px} |->
                              IF p = px THEN queue ELSE b.levels[side][p]]
      BY <2>2, <1>2 DEF LevelsWith, With
    <3>2. DOMAIN b.levels[side] \cup {px} = DOMAIN b.levels[side]
      OBVIOUS
    <3> QED
      BY <2>2, <3>1, <3>2
  <2> QED
    BY <2>1, <2>2
<1> QED
  BY <1>1, <1>2, <1>3, <1>4 DEF Replaced

\* A sound book stays sound when a level keeps some of its orders and the index
\* forgets exactly the others.
LEMMA LevelReplaced ==
  ASSUME NEW b, BookSound(b), NEW side \in Side, NEW px \in DOMAIN b.levels[side],
         NEW queue, NEW gone, QueueFrom(queue, b.levels[side][px], gone),
         NEW ids, ids = {b.levels[side][px][i].id : i \in gone},
         gone \in SUBSET (1 .. Len(b.levels[side][px])),
         NEW next_trade_id \in Nat, NEW r,
         r = [levels        |-> [b.levels EXCEPT ![side] = LevelsWith(@, px, queue)],
              index         |-> Without(b.index, ids),
              next_trade_id |-> next_trade_id]
  PROVE  BookSound(r)
<1> DEFINE level == b.levels[side][px]
<1>1. /\ DOMAIN b.levels = Side /\ DOMAIN b.index \subseteq Nat
      /\ \A s \in Side : /\ DOMAIN b.levels[s] \subseteq Price /\ IsFiniteSet(DOMAIN b.levels[s])
                         /\ \A p \in DOMAIN b.levels[s] :
                              b.levels[s][p] \in Seq(Order) /\ b.levels[s][p] # << >>
  BY DEF BookSound, BookType
<1>2. \A s \in Side : \A p \in DOMAIN b.levels[s] : \A i \in 1 .. Len(b.levels[s][p]) :
        PlacedSoundly(b, s, p, i)
  BY DEF BookSound
<1>3. \A id \in DOMAIN b.index : /\ b.index[id] \in Side \X Price
                                 /\ IndexedAt(b, id, b.index[id][1], b.index[id][2])
  BY DEF BookSound
<1>4. /\ r.levels = [b.levels EXCEPT ![side] = LevelsWith(b.levels[side], px, queue)]
      /\ r.index = Without(b.index, ids) /\ r.next_trade_id = next_trade_id
      /\ r \in [levels : {r.levels}, index : {r.index}, next_trade_id : Nat]
  OBVIOUS
<1>5. /\ DOMAIN r.levels = Side
      /\ \A s \in Side : s # side => r.levels[s] = b.levels[s]
      /\ Replaced(b, r, side, px, queue, ids)
  <2>1. Replaced(b, r, side, px, queue, ids)
    BY <1>1, LevelReplacedIs
  <2> QED
    BY <2>1 DEF Replaced
<1>6. /\ DOMAIN r.index = DOMAIN b.index \ ids
      /\ \A id \in DOMAIN r.index : r.index[id] = b.index[id]
  BY <1>5 DEF Replaced
<1>7. /\ DOMAIN r.levels[side] = IF queue = << >> THEN DOMAIN b.levels[side] \ {px}
                                                 ELSE DOMAIN b.levels[side]
      /\ \A p \in DOMAIN r.levels[side] :
           r.levels[side][p] = IF p = px THEN queue ELSE b.levels[side][p]
  BY <1>5 DEF Replaced
<1>8. /\ queue \in Seq(Order)
      /\ \A j \in 1 .. Len(queue) :
           /\ queue[j].remaining_qty > Eps
           /\ \E i \in 1 .. Len(level) :
                /\ i \notin gone
                /\ queue[j] = [level[i] EXCEPT !.remaining_qty = queue[j].remaining_qty]
      /\ \A i \in 1 .. Len(level) :
           i \notin gone => \E j \in 1 .. Len(queue) : queue[j].id = level[i].id
      /\ \A i, j \in 1 .. Len(queue) : queue[i].id = queue[j].id => i = j
  BY DEF QueueFrom
<1>9. BookType(r)
  <2>1. ASSUME NEW s \in Side
        PROVE  /\ DOMAIN r.levels[s] \subseteq DOMAIN b.levels[s]
               /\ \A p \in DOMAIN r.levels[s] : r.levels[s][p] \in Seq(Order) /\ r.levels[s][p] # << >>
    <3>1. CASE s = side
      BY <3>1, <1>1, <1>7, <1>8
    <3>2. CASE s # side
      BY <3>2, <1>1, <1>5
    <3> QED
      BY <3>1, <3>2
  <2>2. \A s \in Side : DOMAIN r.levels[s] \subseteq Price /\ IsFiniteSet(DOMAIN r.levels[s])
    BY <2>1, <1>1, FS_Subset
  <2>3. DOMAIN r.index \subseteq Nat
    BY Zenon, <1>1, <1>6
  <2> QED
    BY <1>4, <1>5, <2>1, <2>2, <2>3 DEF BookType
\* The orders of the queue are the level's.
<1>10. ASSUME NEW j \in 1 .. Len(queue)
       PROVE  /\ queue[j].side = side /\ queue[j].price = px
              /\ ShouldRest(queue[j], queue[j].remaining_qty)
              /\ queue[j].id \in DOMAIN r.index /\ r.index[queue[j].id] = <<side, px>>
  <2>1. PICK i \in 1 .. Len(level) :
          /\ i \notin gone
          /\ queue[j] = [level[i] EXCEPT !.remaining_qty = queue[j].remaining_qty]
    BY <1>8
  <2>2. level[i] \in Order /\ queue[j] \in Order /\ queue[j].remaining_qty \in Int
    <3>1. level \in Seq(Order)
      BY <1>1
    <3>2. queue[j] \in Order /\ level[i] \in Order
      BY <3>1, <1>8, ElementOfSeq
    <3> QED
      BY <3>2 DEF Order
  <2>3. /\ queue[j].id = level[i].id /\ queue[j].side = level[i].side
        /\ queue[j].price = level[i].price /\ queue[j].order_type = level[i].order_type
        /\ queue[j].tif = level[i].tif
    <3> DEFINE q == queue[j].remaining_qty
    <3>1. /\ [level[i] EXCEPT !.remaining_qty = q].id = level[i].id
          /\ [level[i] EXCEPT !.remaining_qty = q].side = level[i].side
          /\ [level[i] EXCEPT !.remaining_qty = q].price = level[i].price
          /\ [level[i] EXCEPT !.remaining_qty = q].order_type = level[i].order_type
          /\ [level[i] EXCEPT !.remaining_qty = q].tif = level[i].tif
      BY <2>2, OrderReduced
    <3> QED
      BY <2>1, <3>1
  <2>4. /\ level[i].side = side /\ level[i].price = px
        /\ ShouldRest(level[i], level[i].remaining_qty)
        /\ level[i].id \in DOMAIN b.index /\ b.index[level[i].id] = <<side, px>>
    BY <1>2 DEF PlacedSoundly
  <2>5. level[i].id \notin ids
    BY <2>1, <1>2 DEF PlacedSoundly
  <2> QED
    <3>1. ShouldRest(queue[j], queue[j].remaining_qty)
      BY <2>3, <2>4, <1>8 DEF ShouldRest
    <3>2. queue[j].id \in DOMAIN r.index /\ r.index[queue[j].id] = <<side, px>>
      BY Zenon, <2>3, <2>4, <2>5, <1>6
    <3> QED
      BY Zenon, <2>3, <2>4, <3>1, <3>2
\* The orders of the other levels are not among those the index forgets.
<1>11. ASSUME NEW s \in Side, NEW p \in DOMAIN r.levels[s], <<s, p>> # <<side, px>>
       PROVE  /\ p \in DOMAIN b.levels[s] /\ r.levels[s][p] = b.levels[s][p]
              /\ \A i \in 1 .. Len(b.levels[s][p]) : b.levels[s][p][i].id \in DOMAIN r.index
  <2>1. p \in DOMAIN b.levels[s] /\ r.levels[s][p] = b.levels[s][p]
    BY <1>5, <1>7, <1>11
  <2>2. ASSUME NEW i \in 1 .. Len(b.levels[s][p])
        PROVE  b.levels[s][p][i].id \in DOMAIN r.index
    <3>1. b.levels[s][p][i].id \in DOMAIN b.index /\ b.index[b.levels[s][p][i].id] = <<s, p>>
      BY <2>1, <1>2 DEF PlacedSoundly
    <3>2. \A id \in ids : b.index[id] = <<side, px>>
      BY <1>2 DEF PlacedSoundly
    <3> QED
      BY <3>1, <3>2, <1>6, <1>11
  <2> QED
    BY <2>1, <2>2
<1>12. ASSUME NEW s \in Side, NEW p \in DOMAIN r.levels[s], NEW i \in 1 .. Len(r.levels[s][p])
       PROVE  PlacedSoundly(r, s, p, i)
  <2>1. CASE <<s, p>> = <<side, px>>
    <3>1. s = side /\ p = px /\ r.levels[s][p] = queue
      BY <2>1, <1>7
    <3> QED
      BY Zenon, <3>1, <1>8, <1>10 DEF PlacedSoundly
  <2>2. CASE <<s, p>> # <<side, px>>
    <3>1. /\ p \in DOMAIN b.levels[s] /\ r.levels[s][p] = b.levels[s][p]
          /\ r.levels[s][p][i].id \in DOMAIN r.index
      BY <2>2, <1>11
    <3>2. r.index[r.levels[s][p][i].id] = b.index[r.levels[s][p][i].id]
      BY <3>1, <1>6
    <3>3. PlacedSoundly(b, s, p, i)
      BY <3>1, <1>2
    <3> QED
      BY Zenon, <3>1, <3>2, <3>3 DEF PlacedSoundly
  <2> QED
    BY <2>1, <2>2
<1>13. ASSUME NEW id \in DOMAIN r.index
       PROVE  /\ r.index[id] \in Side \X Price
              /\ IndexedAt(r, id, r.index[id][1], r.index[id][2])
  <2>1. PICK s \in Side, p \in Price : b.index[id] = <<s, p>>
    BY <1>3, <1>6
  <2>2. r.index[id] = <<s, p>> /\ id \notin ids
    BY <2>1, <1>6
  <2>3. PICK i \in 1 .. Len(b.levels[s][p]) :
          p \in DOMAIN b.levels[s] /\ b.levels[s][p][i].id = id
    <3>1. IndexedAt(b, id, s, p)
      BY <2>1, <1>3, <1>6
    <3> QED
      BY <3>1 DEF IndexedAt
  <2>4. CASE <<s, p>> = <<side, px>>
    <3>1. s = side /\ p = px /\ i \notin gone
      BY <2>2, <2>3, <2>4
    <3>2. PICK j \in 1 .. Len(queue) : queue[j].id = id
      BY <2>3, <3>1, <1>8
    <3>3. queue # << >>
      BY <3>2
    <3>4. p \in DOMAIN r.levels[s] /\ r.levels[s][p] = queue
      BY <3>1, <3>3, <1>7
    <3> QED
      <4>1. IndexedAt(r, id, s, p)
        BY <3>2, <3>4 DEF IndexedAt
      <4> QED
        BY <2>2, <4>1
  <2>5. CASE <<s, p>> # <<side, px>>
    <3>1. p \in DOMAIN r.levels[s] /\ r.levels[s][p] = b.levels[s][p]
      BY <2>3, <2>5, <1>5, <1>7
    <3> QED
      <4>1. IndexedAt(r, id, s, p)
        BY <2>3, <3>1 DEF IndexedAt
      <4> QED
        BY <2>2, <4>1
  <2> QED
    BY <2>4, <2>5
<1>14. \A bid \in DOMAIN r.levels["Buy"], ask \in DOMAIN r.levels["Sell"] : bid < ask
  <2>1. \A s \in Side : DOMAIN r.levels[s] \subseteq DOMAIN b.levels[s]
    BY <1>5, <1>7
  <2>2. "Buy" \in Side /\ "Sell" \in Side
    BY DEF Side
  <2> QED
    BY <2>1, <2>2 DEF BookSound
<1> QED
  BY <1>9, <1>12, <1>13, <1>14 DEF BookSound

-----------------------------------------------------------------------------
(* The outer loop: a taker and one side of the book.                       *)

\* What is left of a taker changes neither what it is nor what it may trade.
LEMMA ReducedTaker ==
  ASSUME NEW order \in Order, NEW t, TakerReduced(t, order)
  PROVE  /\ t \in Order /\ t.remaining_qty \in Int
         /\ t.id = order.id /\ t.side = order.side /\ t.price = order.price
         /\ t.order_type = order.order_type /\ t.tif = order.tif /\ t.qty = order.qty
         /\ t.timestamp_ms = order.timestamp_ms
         /\ \A px : Crosses(t, px) <=> Crosses(order, px)
<1> DEFINE q == t.remaining_qty
<1>1. q \in Int /\ t = [order EXCEPT !.remaining_qty = q]
  BY DEF TakerReduced
<1>2. /\ t \in Order /\ t.id = order.id /\ t.side = order.side /\ t.price = order.price
      /\ t.order_type = order.order_type /\ t.tif = order.tif /\ t.qty = order.qty
      /\ t.timestamp_ms = order.timestamp_ms
  <2> HIDE DEF q
  <2> QED
    BY <1>1, OrderReduced
<1> QED
  BY <1>1, <1>2 DEF Crosses

\* Reductions add up, and so do the trades of one level and the next.
LEMMA ReducedAgain ==
  ASSUME NEW order \in Order, NEW t, NEW u, TakerReduced(t, order), TakerReduced(u, t)
  PROVE  TakerReduced(u, order)
<1>1. order.remaining_qty \in Int
  BY DEF Order
<1>2. u = [order EXCEPT !.remaining_qty = u.remaining_qty]
  BY DEF TakerReduced, Order
<1> QED
  BY <1>1, <1>2 DEF TakerReduced

\* What has grown by numbered trades of the taker twice has grown so.
LEMMA GrownAgain ==
  ASSUME NEW old \in Seq(Trade), NEW mid, NEW new, NEW order, NEW t, NEW id \in Int,
         TradesGrown(mid, old, order, id), t.id = order.id,
         t.timestamp_ms = order.timestamp_ms,
         TradesGrown(new, mid, t, id + Len(mid) - Len(old))
  PROVE  TradesGrown(new, old, order, id)
<1>1. /\ Len(old) \in Nat /\ Len(mid) \in Nat /\ Len(new) \in Nat
      /\ Len(old) <= Len(mid) /\ Len(mid) <= Len(new) /\ new \in Seq(Trade)
  BY LenProperties DEF TradesGrown
<1>2. \A i \in 1 .. Len(old) : new[i] = old[i]
  BY <1>1 DEF TradesGrown
<1>3. ASSUME NEW i \in Len(old) + 1 .. Len(new)
      PROVE  /\ new[i].id = id - Len(old) + i
             /\ new[i].taker_order_id = order.id
             /\ new[i].timestamp_ms = order.timestamp_ms
             /\ new[i].qty > 0
  <2>1. CASE i <= Len(mid)
    <3>1. i \in Len(old) + 1 .. Len(mid) /\ i \in 1 .. Len(mid)
      BY <2>1, <1>1
    <3> QED
      BY <3>1 DEF TradesGrown
  <2>2. CASE i > Len(mid)
    <3>1. i \in Len(mid) + 1 .. Len(new)
      BY <2>2, <1>1
    <3>2. new[i].id = (id + Len(mid) - Len(old)) - Len(mid) + i
      BY <3>1 DEF TradesGrown
    <3> QED
      BY <3>1, <3>2, <1>1 DEF TradesGrown
  <2> QED
    BY <2>1, <2>2, <1>1
<1> QED
  BY <1>1, <1>2, <1>3 DEF TradesGrown

\* The loop after the levels 1 to k of the side across.
MatchState(m, k, b, order) ==
  LET across == Opposite(order.side)
      prices == PricesBestFirst(b.levels, across)
  IN  /\ m \in [book : {m.book}, taker : Order, trades : Seq(Trade)]
      /\ TakerReduced(m.taker, order)
      /\ BookSound(m.book)
      /\ TradesGrown(m.trades, << >>, order, b.next_trade_id)
      /\ m.book.next_trade_id = b.next_trade_id + Len(m.trades)
      /\ DOMAIN m.book.index \subseteq DOMAIN b.index
      /\ DOMAIN m.book.levels[across] \subseteq DOMAIN b.levels[across]
      /\ \A j \in k + 1 .. Len(prices) : prices[j] \in DOMAIN m.book.levels[across]
      /\ \A j \in 1 .. k : m.taker.remaining_qty > Eps =>
                             \/ prices[j] \notin DOMAIN m.book.levels[across]
                             \/ ~Crosses(order, prices[j])

\* What the inner loop keeps is what is left of the level.
LEMMA KeptIsFrom ==
  ASSUME NEW level \in Seq(Order), NEW c \in 0 .. Len(level), NEW queue,
         QueueKept(queue, level, c, Len(level)),
         \A i, j \in 1 .. Len(level) : level[i].id = level[j].id => i = j
  PROVE  QueueFrom(queue, level, 1 .. c)
<1>1. Len(level) \in Nat /\ c \in Nat
  BY LenProperties
<1>2. /\ queue \in Seq(Order) /\ Len(queue) = Len(level) - c
      /\ \A j \in 1 .. Len(level) - c :
           /\ queue[j] = [level[c + j] EXCEPT !.remaining_qty = queue[j].remaining_qty]
           /\ queue[j].remaining_qty > Eps
  BY DEF QueueKept
<1>3. ASSUME NEW j \in 1 .. Len(queue)
      PROVE  /\ c + j \in 1 .. Len(level) /\ c + j \notin 1 .. c
             /\ queue[j] = [level[c + j] EXCEPT !.remaining_qty = queue[j].remaining_qty]
             /\ queue[j].remaining_qty > Eps
             /\ queue[j].id = level[c + j].id
  <2>1. c + j \in 1 .. Len(level) /\ c + j \notin 1 .. c /\ j \in 1 .. Len(level) - c
    BY <1>1, <1>2
  <2>2. queue[j] \in Order /\ level[c + j] \in Order
    BY <2>1, <1>2, ElementOfSeq
  <2>3. queue[j].remaining_qty \in Int
    BY <2>2 DEF Order
  <2>4. [level[c + j] EXCEPT !.remaining_qty = queue[j].remaining_qty].id = level[c + j].id
    BY <2>2, <2>3, OrderReduced
  <2> QED
    BY <2>1, <2>4, <1>2
<1>4. ASSUME NEW i \in 1 .. Len(level), i \notin 1 .. c
      PROVE  \E j \in 1 .. Len(queue) : queue[j].id = level[i].id
  <2>1. i - c \in 1 .. Len(queue) /\ c + (i - c) = i
    BY <1>1, <1>2, <1>4
  <2> QED
    BY <2>1, <1>3
<1>5. ASSUME NEW i \in 1 .. Len(queue), NEW j \in 1 .. Len(queue), queue[i].id = queue[j].id
      PROVE  i = j
  <2>1. level[c + i].id = level[c + j].id /\ c + i \in 1 .. Len(level) /\ c + j \in 1 .. Len(level)
    BY <1>3, <1>5
  <2>2. c + i = c + j
    BY <2>1
  <2> QED
    BY <2>2, <1>1, <1>2
<1> QED
  BY <1>2, <1>3, <1>4, <1>5 DEF QueueFrom

\* One turn of the outer loop.
LEMMA MatchLevelStep ==
  ASSUME NEW b, NEW order \in Order, NEW n \in Nat, NEW k \in 1 .. n,
         NEW prices, prices = PricesBestFirst(b.levels, Opposite(order.side)),
         DOMAIN prices = 1 .. n, prices \in Seq(Price),
         \A i, j \in 1 .. n : i < j => prices[i] # prices[j],
         b.next_trade_id \in Nat,
         NEW m, MatchState(m, k - 1, b, order)
  PROVE  MatchState(MatchLevel(m, prices[k]), k, b, order)
<1> DEFINE across == Opposite(order.side)
           px     == prices[k]
           r      == MatchLevel(m, px)
<1>1. across \in Side
  BY DEF Opposite, Side
<1>2. /\ m \in [book : {m.book}, taker : Order, trades : Seq(Trade)]
      /\ m.taker \in Order /\ m.trades \in Seq(Trade)
      /\ TakerReduced(m.taker, order)
      /\ BookSound(m.book)
      /\ TradesGrown(m.trades, << >>, order, b.next_trade_id)
      /\ m.book.next_trade_id = b.next_trade_id + Len(m.trades)
      /\ DOMAIN m.book.index \subseteq DOMAIN b.index
      /\ DOMAIN m.book.levels[across] \subseteq DOMAIN b.levels[across]
      /\ \A j \in k .. n : prices[j] \in DOMAIN m.book.levels[across]
      /\ \A j \in 1 .. k - 1 : m.taker.remaining_qty > Eps =>
                                 \/ prices[j] \notin DOMAIN m.book.levels[across]
                                 \/ ~Crosses(order, prices[j])
  <2>1. Len(prices) = n /\ (k - 1) + 1 = k
    BY LenProperties
  <2> QED
    BY <2>1 DEF MatchState
<1>3. /\ m.taker.remaining_qty \in Int /\ m.taker.id = order.id /\ m.taker.side = order.side
      /\ m.taker.timestamp_ms = order.timestamp_ms
      /\ \A p : Crosses(m.taker, p) <=> Crosses(order, p)
  BY <1>2, ReducedTaker
<1>4. px \in DOMAIN m.book.levels[across] /\ px \in Price /\ Len(prices) = n
  <2>1. k \in k .. n
    OBVIOUS
  <2>2. px \in Price /\ Len(prices) = n
    BY ElementOfSeq, LenProperties
  <2> QED
    BY <1>2, <2>1, <2>2
<1>5. Eps \in Nat
  BY EpsAssumption
<1>6. CASE m.taker.remaining_qty <= Eps \/ ~Crosses(m.taker, px)
  <2>1. r = m
    BY <1>6 DEF MatchLevel
  <2>2. \A j \in 1 .. k : m.taker.remaining_qty > Eps =>
                            \/ prices[j] \notin DOMAIN m.book.levels[across]
                            \/ ~Crosses(order, prices[j])
    <3> TAKE j \in 1 .. k
    <3>1. CASE j = k
      BY <3>1, <1>3, <1>5, <1>6
    <3>2. CASE j # k
      <4>1. j \in 1 .. k - 1
        BY <3>2
      <4> QED
        BY <4>1, <1>2
    <3> QED
      BY <3>1, <3>2
  <2>3. \A j \in k + 1 .. n : prices[j] \in DOMAIN m.book.levels[across]
    BY <1>2
  <2> HIDE DEF r
  <2>4. MatchState(m, k, b, order)
    BY <1>2, <1>4, <2>2, <2>3 DEF MatchState
  <2> QED
    BY <2>1, <2>4 DEF r
<1>7. CASE ~(m.taker.remaining_qty <= Eps \/ ~Crosses(m.taker, px))
  <2> DEFINE level == m.book.levels[across][px]
             d     == DrainLevel(level, m.taker, px, m.trades, m.book.next_trade_id)
  <2>1. /\ r.taker = d.taker /\ r.trades = d.trades
        /\ r.book = [levels        |-> [m.book.levels EXCEPT ![across] =
                                          LevelsWith(m.book.levels[across], px, d.queue)],
                     index         |-> Without(m.book.index, d.filled_ids),
                     next_trade_id |-> d.next_trade_id]
        /\ r = [book |-> r.book, taker |-> r.taker, trades |-> r.trades]
    BY <1>3, <1>7 DEF MatchLevel, LevelsWith
  <2>2. /\ m.book.next_trade_id \in Nat
        /\ DOMAIN m.book.levels = Side
        /\ level \in Seq(Order)
        /\ \A i \in 1 .. Len(level) : PlacedSoundly(m.book, across, px, i)
    BY <1>1, <1>2, <1>4 DEF BookSound, BookType
  <2>3. /\ \A i \in 1 .. Len(level) : level[i].remaining_qty > Eps
        /\ \A i, j \in 1 .. Len(level) : level[i].id = level[j].id => i = j
    BY Zenon, <2>2 DEF PlacedSoundly, ShouldRest
  <2> HIDE DEF r, level
  <2>4. DrainState(d, Len(level), level, m.taker, m.trades, m.book.next_trade_id)
    BY <1>2, <1>3, <1>4, <2>2, <2>3, LevelDrained
  <2> HIDE DEF d
  <2>5. /\ d.taker \in Order /\ d.trades \in Seq(Trade) /\ d.next_trade_id \in Nat
        /\ TakerReduced(d.taker, m.taker)
        /\ TradesGrown(d.trades, m.trades, m.taker, m.book.next_trade_id)
        /\ d.next_trade_id = m.book.next_trade_id + Len(d.trades) - Len(m.trades)
        /\ d.queue # << >> => d.taker.remaining_qty <= Eps
    BY <2>4 DEF DrainState
  <2>6. PICK c \in 0 .. Len(level) : /\ QueueKept(d.queue, level, c, Len(level))
                                     /\ d.filled_ids = {level[i].id : i \in 1 .. c}
    BY <2>4 DEF DrainState
  <2>7. QueueFrom(d.queue, level, 1 .. c)
    BY <2>2, <2>3, <2>6, KeptIsFrom
  <2>8. BookSound(r.book)
    <3>1. 1 .. c \in SUBSET (1 .. Len(level))
      BY <2>2, <2>6, LenProperties
    <3> DEFINE B   == m.book
               ids == {B.levels[across][px][i].id : i \in 1 .. c}
               R   == [levels        |-> [B.levels EXCEPT ![across] = LevelsWith(@, px, d.queue)],
                       index         |-> Without(B.index, ids),
                       next_trade_id |-> d.next_trade_id]
    <3>2. BookSound(B) /\ px \in DOMAIN B.levels[across]
      BY <1>2, <1>4
    <3>3. /\ QueueFrom(d.queue, B.levels[across][px], 1 .. c)
          /\ 1 .. c \in SUBSET (1 .. Len(B.levels[across][px]))
      BY <2>7, <3>1 DEF level
    <3>4. r.book = R
      BY Zenon, <2>1, <2>6 DEF level
    <3>5. d.next_trade_id \in Nat
      BY Zenon, <2>5
    <3>6. BookSound(R)
      <4> HIDE DEF B
      <4> QED
        BY Zenon, <1>1, <3>2, <3>3, <3>5, LevelReplaced
    <3> QED
      BY Zenon, <3>4, <3>6
  <2>9. TakerReduced(r.taker, order)
    BY <1>2, <2>1, <2>5, ReducedAgain
  <2>10. /\ Len(m.trades) \in Nat /\ Len(d.trades) \in Nat /\ Len(<< >>) = 0 /\ << >> \in Seq(Trade)
    BY <1>2, <2>5, LenProperties
  <2>11. /\ TradesGrown(r.trades, << >>, order, b.next_trade_id)
         /\ r.book.next_trade_id = b.next_trade_id + Len(r.trades)
    <3>1. m.book.next_trade_id = b.next_trade_id + Len(m.trades) - Len(<< >>)
      BY <1>2, <2>10
    <3>2. TradesGrown(d.trades, m.trades, m.taker, b.next_trade_id + Len(m.trades) - Len(<< >>))
      BY <2>5, <3>1
    <3>3. TradesGrown(d.trades, << >>, order, b.next_trade_id)
      <4>1. TradesGrown(m.trades, << >>, order, b.next_trade_id)
        BY <1>2
      <4>2. m.taker.id = order.id /\ m.taker.timestamp_ms = order.timestamp_ms
        BY <1>3
      <4>3. b.next_trade_id \in Int
        OBVIOUS
      <4> QED
        BY <4>1, <4>2, <4>3, <2>10, <3>2, GrownAgain
    <3> QED
      BY <1>2, <2>1, <2>5, <2>10, <3>3
  <2>12. DOMAIN r.book.index \subseteq DOMAIN b.index
    BY <1>2, <2>1 DEF Without
  <2>13. r.book.levels[across] = LevelsWith(m.book.levels[across], px, d.queue)
    BY <1>1, <2>1, <2>2
  <2>14. DOMAIN r.book.levels[across] = IF d.queue = << >> THEN DOMAIN m.book.levels[across] \ {px}
                                                          ELSE DOMAIN m.book.levels[across]
    <3>1. CASE d.queue = << >>
      BY <2>13, <3>1 DEF LevelsWith, Without
    <3>2. CASE d.queue # << >>
      <4>1. DOMAIN r.book.levels[across] = DOMAIN m.book.levels[across] \cup {px}
        BY <2>13, <3>2 DEF LevelsWith, With
      <4> QED
        BY <4>1, <1>4, <3>2
    <3> QED
      BY <3>1, <3>2
  <2>15. \A j \in k + 1 .. n : prices[j] \in DOMAIN r.book.levels[across]
    <3> TAKE j \in k + 1 .. n
    <3>1. j \in k .. n /\ j \in 1 .. n /\ k < j
      OBVIOUS
    <3>2. prices[j] \in DOMAIN m.book.levels[across] /\ prices[j] # px
      BY <3>1, <1>2
    <3> QED
      BY <3>2, <2>14
  <2>16. \A j \in 1 .. k : r.taker.remaining_qty > Eps =>
                             \/ prices[j] \notin DOMAIN r.book.levels[across]
                             \/ ~Crosses(order, prices[j])
    <3> SUFFICES ASSUME NEW j \in 1 .. k, r.taker.remaining_qty > Eps
                 PROVE  \/ prices[j] \notin DOMAIN r.book.levels[across]
                        \/ ~Crosses(order, prices[j])
      OBVIOUS
    <3>1. d.taker.remaining_qty \in Int
      BY <2>5 DEF TakerReduced
    <3>2. d.queue = << >>
      BY <2>1, <2>5, <3>1, <1>5
    <3>3. CASE j = k
      BY <3>2, <3>3, <2>14
    <3>4. CASE j # k
      <4>1. j \in 1 .. k - 1
        BY <3>4
      <4>2. m.taker.remaining_qty > Eps
        BY <1>3, <1>5, <1>7
      <4> QED
        BY <4>1, <4>2, <1>2, <2>14
    <3> QED
      BY <3>3, <3>4
  <2>17. DOMAIN r.book.levels[across] \subseteq DOMAIN b.levels[across]
    BY <1>2, <2>14
  <2>18. r \in [book : {r.book}, taker : Order, trades : Seq(Trade)]
    BY <2>1, <2>5
  <2> QED
    BY Zenon, <1>4, <2>8, <2>9, <2>11, <2>12, <2>15, <2>16, <2>17, <2>18 DEF MatchState, r
<1> QED
  BY <1>6, <1>7

\* The turns of the outer loop, the prices it visits and its state after each.
MatchRun(f, b, order, prices, n) ==
  /\ MatchTurns(f, b, order, n)
  /\ prices = PricesBestFirst(b.levels, Opposite(order.side))
  /\ n \in Nat /\ DOMAIN prices = 1 .. n /\ prices \in Seq(Price)
  /\ \A i, j \in 1 .. n : i < j => prices[i] # prices[j]
  /\ \A p \in DOMAIN b.levels[Opposite(order.side)] : \E i \in 1 .. n : prices[i] = p
  /\ \A k \in 0 .. n : MatchState(f[k], k, b, order)

\* The outer loop keeps its invariant from turn to turn.
LEMMA MatchTurnsSound ==
  ASSUME NEW b, BookSound(b), NEW order \in Order
  PROVE  \E f, prices, n : MatchRun(f, b, order, prices, n)
<1> DEFINE across == Opposite(order.side)
           D      == DOMAIN b.levels[across]
           prices == PricesBestFirst(b.levels, across)
           n      == Cardinality(D)
<1>1. across \in Side
  BY DEF Opposite, Side
<1>2. /\ D \subseteq Price /\ D \subseteq Int /\ IsFiniteSet(D)
      /\ b \in [levels : {b.levels}, index : {b.index}, next_trade_id : Nat]
      /\ b.next_trade_id \in Nat
  BY <1>1, PriceAssumption DEF BookSound, BookType
<1>3. /\ n \in Nat /\ DOMAIN prices = 1 .. n /\ prices \in Seq(D)
      /\ \A i \in 1 .. n : prices[i] \in D
      /\ \A i, j \in 1 .. n : i < j => Better(across, prices[i], prices[j])
      /\ \A p \in D : \E i \in 1 .. n : prices[i] = p
  <2> HIDE DEF across
  <2>1. DOMAIN b.levels[across] \subseteq Int /\ IsFiniteSet(DOMAIN b.levels[across])
    BY <1>2
  <2>2. SortedPrices(PricesBestFirst(b.levels, across), across, DOMAIN b.levels[across],
                     Cardinality(DOMAIN b.levels[across]))
    BY <2>1, PricesListed
  <2> HIDE DEF prices, n, D
  <2>3. SortedPrices(prices, across, D, n)
    BY <2>2 DEF prices, D, n
  <2> QED
    BY <2>3 DEF SortedPrices
<1>4. prices \in Seq(Price) /\ Len(prices) = n
  <2>1. prices \in Seq(Price)
    <3> HIDE DEF prices, n, D
    <3> QED
      BY <1>2, <1>3, SeqMonotonic
  <2> HIDE DEF prices, n
  <2> QED
    BY <2>1, <1>3, LenProperties
<1>5. \A i, j \in 1 .. n : i < j => prices[i] # prices[j]
  <2> SUFFICES ASSUME NEW i \in 1 .. n, NEW j \in 1 .. n, i < j, prices[i] = prices[j]
               PROVE  FALSE
    OBVIOUS
  <2>1. Better(across, prices[i], prices[j]) /\ prices[i] \in Int
    <3> HIDE DEF prices, n, across, D
    <3> QED
      BY <1>2, <1>3
  <2> HIDE DEF prices, across
  <2> QED
    BY <2>1 DEF Better
<1>6. PICK f : /\ f[0] = [book |-> b, taker |-> order, trades |-> << >>]
               /\ \A k \in 1 .. n : f[k] = MatchLevel(f[k - 1], prices[k])
               /\ MatchOrder(b, order) = f[n]
  <2>1. n \in Nat
    BY <1>3
  <2>2. DOMAIN PricesBestFirst(b.levels, Opposite(order.side)) = 1 .. n
    BY <1>3
  <2> HIDE DEF n
  <2> QED
    <3>1. \E f : MatchTurns(f, b, order, n)
      BY <2>1, <2>2, MatchSeries
    <3> QED
      BY <3>1 DEF MatchTurns, prices, across
<1> DEFINE State(x, k) == MatchState(x, k, b, order)
           G           == {k \in 0 .. n : State(f[k], k)}
<1> HIDE DEF n, prices
<1>7. State(f[0], 0)
  <2>1. TakerReduced(order, order)
    BY DEF TakerReduced, Order
  <2>2. TradesGrown(<< >>, << >>, order, b.next_trade_id)
    BY DEF TradesGrown
  <2>3. b.next_trade_id = b.next_trade_id + Len(<< >>)
    BY <1>2
  <2>4. \A j \in 0 + 1 .. Len(prices) : prices[j] \in D
    BY <1>3, <1>4
  <2>5. [book |-> b, taker |-> order, trades |-> << >>] \in
          [book : {b}, taker : Order, trades : Seq(Trade)]
    OBVIOUS
  <2> DEFINE z == f[0]
  <2>6. z.book = b /\ z.taker = order /\ z.trades = << >>
        /\ z \in [book : {z.book}, taker : Order, trades : Seq(Trade)]
    BY <1>6, <2>5
  <2> HIDE DEF z
  <2>7. MatchState(z, 0, b, order)
    BY <2>1, <2>2, <2>3, <2>4, <2>6 DEF MatchState, prices
  <2> QED
    BY <2>7 DEF z
<1>8. ASSUME NEW k \in 1 .. n, State(f[k - 1], k - 1)
      PROVE  State(f[k], k)
  <2>1. n \in Nat /\ DOMAIN prices = 1 .. n
    BY <1>3
  <2>2. State(MatchLevel(f[k - 1], prices[k]), k)
    BY <1>2, <1>4, <1>5, <1>8, <2>1, MatchLevelStep DEF prices
  <2> QED
    BY <1>6, <2>2
<1> HIDE DEF State
<1>9. 0 \in G /\ n \in Nat
  BY <1>3, <1>7
<1>10. \A k \in 1 .. n : k - 1 \in G => k \in G
  BY <1>3, <1>8
<1>11. \A k \in 0 .. n : k \in G
  <2> HIDE DEF G
  <2> QED
    BY <1>9, <1>10, Upwards
<1>12. \A k \in 0 .. n : MatchState(f[k], k, b, order)
  BY <1>11 DEF State
<1>13. MatchTurns(f, b, order, n)
  BY <1>6 DEF MatchTurns, prices, across
<1>14. prices = PricesBestFirst(b.levels, Opposite(order.side))
  BY DEF prices, across
<1>15. MatchRun(f, b, order, prices, n)
  BY <1>3, <1>4, <1>5, <1>12, <1>13, <1>14 DEF MatchRun
<1> QED
  BY <1>15

\* The matching of an order leaves a sound book, and on the side across nothing the
\* taker could still trade with.
LEMMA OrderMatched ==
  ASSUME NEW b, BookSound(b), NEW order \in Order, NEW m, m = MatchOrder(b, order)
  PROVE  /\ m.trades \in Seq(Trade) /\ m.taker \in Order
         /\ TakerReduced(m.taker, order)
         /\ BookSound(m.book)
         /\ TradesGrown(m.trades, << >>, order, b.next_trade_id)
         /\ m.book.next_trade_id = b.next_trade_id + Len(m.trades)
         /\ DOMAIN m.book.index \subseteq DOMAIN b.index
         /\ m.taker.remaining_qty > Eps =>
              \A px \in DOMAIN m.book.levels[Opposite(order.side)] : ~Crosses(order, px)
<1> DEFINE across == Opposite(order.side)
<1>1. PICK f, prices, n : MatchRun(f, b, order, prices, n)
  BY MatchTurnsSound
<1>2. /\ prices = PricesBestFirst(b.levels, across) /\ n \in Nat /\ Len(prices) = n
      /\ \A p \in DOMAIN b.levels[across] : \E i \in 1 .. n : prices[i] = p
      /\ m = f[n] /\ MatchState(f[n], n, b, order)
  BY <1>1, LenProperties DEF MatchRun, MatchTurns
<1>3. MatchState(m, n, b, order)
  BY <1>2
<1>4. ASSUME m.taker.remaining_qty > Eps, NEW px \in DOMAIN m.book.levels[across]
       PROVE  ~Crosses(order, px)
  <2>1. px \in DOMAIN b.levels[across]
    BY <1>3 DEF MatchState
  <2>2. PICK j \in 1 .. n : prices[j] = px
    BY <1>2, <2>1
  <2>3. \/ prices[j] \notin DOMAIN m.book.levels[across]
        \/ ~Crosses(order, prices[j])
    BY <1>2, <1>3, <1>4 DEF MatchState
  <2> QED
    BY <1>4, <2>2, <2>3
<1> QED
  BY <1>3, <1>4 DEF MatchState

-----------------------------------------------------------------------------
(* The operations on a book.                                               *)

\* An order that comes to rest on a sound book that it does not cross.
LEMMA InsertSound ==
  ASSUME NEW b, BookSound(b), NEW order \in Order, order.id \notin DOMAIN b.index,
         ShouldRest(order, order.remaining_qty),
         \A px \in DOMAIN b.levels[Opposite(order.side)] : ~Crosses(order, px),
         NEW r, r = InsertResting(b, order)
  PROVE  /\ BookSound(r)
         /\ r.next_trade_id = b.next_trade_id
         /\ DOMAIN r.index = DOMAIN b.index \cup {order.id}
<1> DEFINE side  == order.side
           px    == order.price
           old   == IF px \in DOMAIN b.levels[side] THEN b.levels[side][px] ELSE << >>
           queue == Append(old, order)
<1>1. /\ DOMAIN b.levels = Side /\ DOMAIN b.index \subseteq Nat
      /\ \A s \in Side : /\ DOMAIN b.levels[s] \subseteq Price /\ IsFiniteSet(DOMAIN b.levels[s])
                         /\ \A p \in DOMAIN b.levels[s] :
                              b.levels[s][p] \in Seq(Order) /\ b.levels[s][p] # << >>
      /\ b \in [levels : {b.levels}, index : {b.index}, next_trade_id : Nat]
      /\ b.next_trade_id \in Nat
  BY DEF BookSound, BookType
<1>2. /\ side \in Side /\ px \in Price /\ px \in Int /\ order.id \in Nat
      /\ order.order_type = "Limit" /\ Opposite(side) \in Side /\ Opposite(side) # side
  BY PriceAssumption DEF Order, ShouldRest, Opposite, Side
<1>3. /\ r.levels = [b.levels EXCEPT ![side] = With(b.levels[side], px, queue)]
      /\ r.index = With(b.index, order.id, <<side, px>>)
      /\ r.next_trade_id = b.next_trade_id
      /\ r \in [levels : {r.levels}, index : {r.index}, next_trade_id : Nat]
  <2>1. InsertResting(b, order) =
          [b EXCEPT !.levels[side] = With(b.levels[side], px, queue),
                    !.index        = With(b.index, order.id, <<side, px>>)]
    BY DEF InsertResting, Place
  <2> HIDE DEF queue, old, side, px
  <2> QED
    BY <1>1, <2>1
<1>4. /\ DOMAIN r.levels = Side
      /\ \A s \in Side : s # side => r.levels[s] = b.levels[s]
      /\ DOMAIN r.levels[side] = DOMAIN b.levels[side] \cup {px}
      /\ r.levels[side][px] = queue
      /\ \A p \in DOMAIN b.levels[side] : p # px => r.levels[side][p] = b.levels[side][p]
  <2> HIDE DEF queue, old, side, px
  <2>1. /\ DOMAIN r.levels = Side
        /\ \A s \in Side : s # side => r.levels[s] = b.levels[s]
        /\ r.levels[side] = With(b.levels[side], px, queue)
    BY <1>1, <1>2, <1>3
  <2> QED
    BY <2>1 DEF With
<1>5. /\ DOMAIN r.index = DOMAIN b.index \cup {order.id}
      /\ r.index[order.id] = <<side, px>>
      /\ \A id \in DOMAIN b.index : r.index[id] = b.index[id]
  <2> HIDE DEF side, px
  <2> QED
    BY <1>3 DEF With
<1>6. /\ old \in Seq(Order) /\ Len(old) \in Nat /\ queue \in Seq(Order)
      /\ Len(queue) = Len(old) + 1 /\ queue[Len(old) + 1] = order
      /\ \A i \in 1 .. Len(old) : queue[i] = old[i]
  <2>1. old \in Seq(Order)
    BY <1>1, <1>2
  <2> HIDE DEF old
  <2> QED
    BY <2>1, AppendProperties, LenProperties
<1>7. \A s \in Side : \A p \in DOMAIN b.levels[s] : \A i \in 1 .. Len(b.levels[s][p]) :
        PlacedSoundly(b, s, p, i)
  BY DEF BookSound
<1>8. BookType(r)
  <2>1. ASSUME NEW s \in Side
        PROVE  /\ DOMAIN r.levels[s] \subseteq Price /\ IsFiniteSet(DOMAIN r.levels[s])
               /\ \A p \in DOMAIN r.levels[s] :
                    r.levels[s][p] \in Seq(Order) /\ r.levels[s][p] # << >>
    <3>1. CASE s = side
      <4>1. queue # << >>
        <5> HIDE DEF queue, old
        <5> QED
          BY <1>6
      <4> HIDE DEF queue, old, side, px
      <4>2. IsFiniteSet(DOMAIN b.levels[side] \cup {px})
        BY <1>1, <1>2, FS_AddElement
      <4> QED
        BY <3>1, <4>1, <4>2, <1>1, <1>2, <1>4, <1>6
    <3>2. CASE s # side
      <4> HIDE DEF queue, old, side, px
      <4> QED
        BY <3>2, <1>1, <1>4
    <3> QED
      BY <3>1, <3>2
  <2>2. DOMAIN r.index \subseteq Nat
    BY <1>1, <1>2, <1>5
  <2> HIDE DEF queue, old, side, px
  <2> QED
    BY <1>3, <1>4, <2>1, <2>2 DEF BookType
<1>9. ASSUME NEW s \in Side, NEW p \in DOMAIN r.levels[s], NEW i \in 1 .. Len(r.levels[s][p])
      PROVE  PlacedSoundly(r, s, p, i)
  <2>1. CASE s = side /\ p = px
    <3>1. r.levels[s][p] = queue
      BY <2>1, <1>4
    <3>2. ASSUME NEW j \in 1 .. Len(old)
          PROVE  /\ queue[j].side = side /\ queue[j].price = px
                 /\ ShouldRest(queue[j], queue[j].remaining_qty)
                 /\ queue[j].id \in DOMAIN b.index /\ b.index[queue[j].id] = <<side, px>>
                 /\ \A k \in 1 .. Len(old) : queue[k].id = queue[j].id => k = j
      <4>1. CASE px \in DOMAIN b.levels[side]
        <5>1. old = b.levels[side][px]
          BY <4>1
        <5>2. PlacedSoundly(b, side, px, j)
          BY <4>1, <5>1, <1>2, <1>7
        <5> HIDE DEF old, queue, side, px
        <5> QED
          BY <5>1, <5>2, <1>6 DEF PlacedSoundly
      <4>2. CASE px \notin DOMAIN b.levels[side]
        <5>1. old = << >>
          BY <4>2
        <5>2. 1 .. Len(old) = {}
          <6> HIDE DEF old
          <6> QED
            BY <5>1
        <5> QED
          BY Zenon, <5>2
      <4> QED
        BY Zenon, <4>1, <4>2
    <3> HIDE DEF old, queue
    <3>3. CASE i = Len(old) + 1
      <4>1. queue[i] = order
        BY <3>3, <1>6
      <4>2. \A j \in 1 .. Len(queue) : queue[j].id = order.id => j = i
        BY <1>6, <3>2, <3>3
      <4> QED
        BY <2>1, <3>1, <4>1, <4>2, <1>5 DEF PlacedSoundly
    <3>4. CASE i # Len(old) + 1
      <4>1. i \in 1 .. Len(old)
        BY <3>1, <3>4, <1>6
      <4>2. /\ queue[i].id \in DOMAIN r.index /\ r.index[queue[i].id] = <<side, px>>
            /\ queue[i].side = side /\ queue[i].price = px
            /\ ShouldRest(queue[i], queue[i].remaining_qty)
        BY <3>2, <4>1, <1>5
      <4>3. \A j \in 1 .. Len(queue) : queue[j].id = queue[i].id => j = i
        <5> SUFFICES ASSUME NEW j \in 1 .. Len(queue), queue[j].id = queue[i].id
                     PROVE  j = i
          OBVIOUS
        <5>1. j # Len(old) + 1
          BY <3>2, <4>1, <1>6
        <5>2. j \in 1 .. Len(old)
          BY <5>1, <1>6
        <5> QED
          BY <5>2, <3>2, <4>1
      <4> QED
        BY <2>1, <3>1, <4>2, <4>3 DEF PlacedSoundly
    <3> QED
      BY <3>3, <3>4
  <2>2. CASE ~(s = side /\ p = px)
    <3> HIDE DEF queue, old, side, px
    <3>1. p \in DOMAIN b.levels[s] /\ r.levels[s][p] = b.levels[s][p]
      BY <2>2, <1>4
    <3>2. PlacedSoundly(b, s, p, i)
      BY <3>1, <1>7
    <3> QED
      BY Zenon, <3>1, <3>2, <1>5 DEF PlacedSoundly
  <2> QED
    BY <2>1, <2>2
<1>10. ASSUME NEW id \in DOMAIN r.index
       PROVE  r.index[id] \in Side \X Price /\ IndexedAt(r, id, r.index[id][1], r.index[id][2])
  <2>1. CASE id = order.id
    <3>1. Len(old) + 1 \in 1 .. Len(queue) /\ queue[Len(old) + 1].id = id
      <4> HIDE DEF old, queue
      <4> QED
        BY <1>6, <2>1
    <3> HIDE DEF old, queue, side, px
    <3>2. IndexedAt(r, id, side, px)
      BY <3>1, <1>4 DEF IndexedAt
    <3> QED
      BY <2>1, <3>2, <1>2, <1>5
  <2>2. CASE id # order.id
    <3>1. id \in DOMAIN b.index /\ r.index[id] = b.index[id]
      BY <2>2, <1>5
    <3>2. b.index[id] \in Side \X Price /\ IndexedAt(b, id, b.index[id][1], b.index[id][2])
      BY <3>1 DEF BookSound
    <3>3. PICK s \in Side, p \in Price : b.index[id] = <<s, p>>
      BY <3>2
    <3>4. IndexedAt(b, id, s, p)
      BY <3>2, <3>3
    <3>5. PICK i \in 1 .. Len(b.levels[s][p]) :
            p \in DOMAIN b.levels[s] /\ b.levels[s][p][i].id = id
      BY <3>4 DEF IndexedAt
    <3>6. IndexedAt(r, id, s, p)
      <4>1. CASE s = side /\ p = px
        <5>1. old = b.levels[s][p]
          BY <4>1, <3>5
        <5> HIDE DEF old, queue
        <5>2. r.levels[s][p] = queue /\ p \in DOMAIN r.levels[s]
          BY <4>1, <1>4
        <5>3. i \in 1 .. Len(queue) /\ queue[i].id = id
          BY <5>1, <3>5, <1>6
        <5> QED
          BY <5>2, <5>3 DEF IndexedAt
      <4>2. CASE ~(s = side /\ p = px)
        <5> HIDE DEF old, queue, side, px
        <5>1. p \in DOMAIN r.levels[s] /\ r.levels[s][p] = b.levels[s][p]
          BY <4>2, <3>5, <1>4
        <5> QED
          BY <5>1, <3>5 DEF IndexedAt
      <4> QED
        BY <4>1, <4>2
    <3> QED
      BY <3>1, <3>2, <3>3, <3>6
  <2> QED
    BY <2>1, <2>2
<1>11. \A bid \in DOMAIN r.levels["Buy"], ask \in DOMAIN r.levels["Sell"] : bid < ask
  <2>1. \A bid \in DOMAIN b.levels["Buy"], ask \in DOMAIN b.levels["Sell"] : bid < ask
    BY DEF BookSound
  <2>2. \A s \in Side : DOMAIN r.levels[s] = IF s = side THEN DOMAIN b.levels[s] \cup {px}
                                                         ELSE DOMAIN b.levels[s]
    <3> HIDE DEF old, queue, side, px
    <3> QED
      BY <1>4
  <2>3. CASE side = "Buy"
    <3>1. /\ DOMAIN r.levels["Buy"] = DOMAIN b.levels["Buy"] \cup {px}
          /\ DOMAIN r.levels["Sell"] = DOMAIN b.levels["Sell"]
          /\ Opposite(side) = "Sell" /\ DOMAIN b.levels["Sell"] \subseteq Int
      BY <2>2, <2>3, <1>1, PriceAssumption DEF Side, Opposite
    <3>2. \A ask \in DOMAIN b.levels["Sell"] : px < ask
      BY <3>1, <2>3, <1>2 DEF Crosses
    <3> QED
      BY <3>1, <3>2, <2>1
  <2>4. CASE side = "Sell"
    <3>1. /\ DOMAIN r.levels["Sell"] = DOMAIN b.levels["Sell"] \cup {px}
          /\ DOMAIN r.levels["Buy"] = DOMAIN b.levels["Buy"]
          /\ Opposite(side) = "Buy" /\ DOMAIN b.levels["Buy"] \subseteq Int
      BY <2>2, <2>4, <1>1, PriceAssumption DEF Side, Opposite
    <3>2. \A bid \in DOMAIN b.levels["Buy"] : bid < px
      BY <3>1, <2>4, <1>2 DEF Crosses
    <3> QED
      BY <3>1, <3>2, <2>1
  <2> QED
    BY <2>3, <2>4, <1>2 DEF Side
<1> QED
  BY <1>3, <1>5, <1>8, <1>9, <1>10, <1>11 DEF BookSound

\* submit leaves a sound book, numbers its trades on and stamps them with the
\* order's time, and indexes no order but the one submitted.
LEMMA SubmitSound ==
  ASSUME NEW b, BookSound(b), NEW order \in Order, order.id \notin DOMAIN b.index,
         NEW s, s = Submit(b, order)
  PROVE  /\ BookSound(s.book)
         /\ s.result.trades \in Seq(Trade)
         /\ TradesGrown(s.result.trades, << >>, order, b.next_trade_id)
         /\ s.book.next_trade_id = b.next_trade_id + Len(s.result.trades)
         /\ DOMAIN s.book.index \subseteq DOMAIN b.index \cup {order.id}
<1> DEFINE m    == MatchOrder(b, order)
           left == m.taker.remaining_qty
           rest == ShouldRest(order, left)
<1>1. b.next_trade_id \in Nat
  BY DEF BookSound, BookType
<1>2. CASE order.tif = "FOK" /\ AvailableLiquidity(b.levels, order) < order.qty
  <2>1. s.book = b /\ s.result.trades = << >>
    BY <1>2 DEF Submit
  <2>2. TradesGrown(<< >>, << >>, order, b.next_trade_id) /\ << >> \in Seq(Trade)
    BY DEF TradesGrown
  <2>3. b.next_trade_id = b.next_trade_id + Len(<< >>)
    BY <1>1
  <2> QED
    BY <2>1, <2>2, <2>3
<1>3. CASE ~(order.tif = "FOK" /\ AvailableLiquidity(b.levels, order) < order.qty)
  <2>1. /\ s.book = IF rest THEN InsertResting(m.book, m.taker) ELSE m.book
        /\ s.result.trades = m.trades
    BY <1>3 DEF Submit
  <2> HIDE DEF m
  <2>2. /\ m.trades \in Seq(Trade) /\ TakerReduced(m.taker, order) /\ BookSound(m.book)
        /\ TradesGrown(m.trades, << >>, order, b.next_trade_id)
        /\ m.book.next_trade_id = b.next_trade_id + Len(m.trades)
        /\ DOMAIN m.book.index \subseteq DOMAIN b.index
        /\ m.taker.remaining_qty > Eps =>
             \A px \in DOMAIN m.book.levels[Opposite(order.side)] : ~Crosses(order, px)
    BY OrderMatched DEF m
  <2>3. CASE rest
    <3>1. /\ m.taker \in Order /\ m.taker.id = order.id /\ m.taker.side = order.side
          /\ m.taker.order_type = order.order_type /\ m.taker.tif = order.tif
          /\ \A px : Crosses(m.taker, px) <=> Crosses(order, px)
      BY <2>2, ReducedTaker
    <3>2. ShouldRest(m.taker, m.taker.remaining_qty) /\ m.taker.remaining_qty > Eps
      BY <2>3, <3>1 DEF ShouldRest
    <3>3. \A px \in DOMAIN m.book.levels[Opposite(m.taker.side)] : ~Crosses(m.taker, px)
      BY <2>2, <3>1, <3>2
    <3>4. m.taker.id \notin DOMAIN m.book.index
      BY <2>2, <3>1
    <3> DEFINE r == InsertResting(m.book, m.taker)
    <3> HIDE DEF r
    <3>5. /\ BookSound(r) /\ r.next_trade_id = m.book.next_trade_id
          /\ DOMAIN r.index = DOMAIN m.book.index \cup {m.taker.id}
      BY <2>2, <3>1, <3>2, <3>3, <3>4, InsertSound DEF r
    <3>6. s.book = r
      BY <2>1, <2>3 DEF r
    <3> QED
      BY <2>1, <2>2, <3>1, <3>5, <3>6
  <2>4. CASE ~rest
    BY <2>1, <2>2, <2>4
  <2> QED
    BY <2>3, <2>4
<1> QED
  BY <1>2, <1>3

\* retain drops the one order of the queue with that identifier and keeps the
\* others as they are.
LEMMA RetainedIsFrom ==
  ASSUME NEW queue \in Seq(Order), NEW j \in 1 .. Len(queue),
         \A i, k \in 1 .. Len(queue) : queue[i].id = queue[k].id => i = k,
         \A i \in 1 .. Len(queue) : queue[i].remaining_qty > Eps
  PROVE  /\ QueueFrom(Retained(queue, queue[j].id), queue, {j})
         /\ \A i \in 1 .. Len(Retained(queue, queue[j].id)) :
              \E k \in 1 .. Len(queue) : Retained(queue, queue[j].id)[i] = queue[k]
<1> DEFINE n  == Len(queue)
           id == queue[j].id
           At(i) == IF i < j THEN i ELSE i + 1
           State(kept, k) == /\ kept \in Seq(Order)
                             /\ Len(kept) = IF k < j THEN k ELSE k - 1
                             /\ \A i \in 1 .. Len(kept) : kept[i] = queue[At(i)]
<1>1. n \in Nat /\ DOMAIN queue = 1 .. n /\ \A i \in 1 .. n : queue[i] \in Order
  BY LenProperties, ElementOfSeq
<1>2. PICK f : /\ f[0] = << >>
               /\ \A k \in 1 .. n : f[k] = IF queue[k].id = id THEN f[k - 1]
                                                               ELSE Append(f[k - 1], queue[k])
               /\ Retained(queue, id) = f[n]
  <2>1. n \in Nat /\ DOMAIN queue = 1 .. n
    BY <1>1
  <2> HIDE DEF n, id
  <2> QED
    BY <2>1, RetainSeries
<1>3. State(f[0], 0)
  BY <1>2
<1>4. ASSUME NEW k \in 1 .. n, State(f[k - 1], k - 1)
      PROVE  State(f[k], k)
  <2> DEFINE g == f[k - 1]
             h == f[k]
  <2>1. /\ g \in Seq(Order) /\ Len(g) = IF k - 1 < j THEN k - 1 ELSE k - 2
        /\ \A i \in 1 .. Len(g) : g[i] = queue[At(i)]
    BY <1>1, <1>4
  <2>2. h = IF k = j THEN g ELSE Append(g, queue[k])
    BY <1>2
  <2> HIDE DEF g, h
  <2>3. ASSUME k = j PROVE State(h, k)
    <3>1. h = g /\ Len(g) = k - 1
      BY <1>1, <2>1, <2>2, <2>3
    <3> HIDE DEF At
    <3> QED
      BY <1>1, <2>1, <2>3, <3>1
  <2>4. ASSUME k # j PROVE State(h, k)
    <3>1. /\ h \in Seq(Order) /\ Len(h) = Len(g) + 1 /\ h[Len(g) + 1] = queue[k]
          /\ \A i \in 1 .. Len(g) : h[i] = g[i]
      <4>1. h = Append(g, queue[k]) /\ queue[k] \in Order /\ g \in Seq(Order)
        BY <1>1, <2>1, <2>2, <2>4
      <4> QED
        BY <4>1, AppendProperties
    <3>2. k = At(Len(g) + 1)
      BY <1>1, <2>1, <2>4
    <3>3. \A i \in 1 .. Len(h) : h[i] = queue[At(i)]
      <4> TAKE i \in 1 .. Len(h)
      <4>1. CASE i = Len(g) + 1
        BY <3>1, <3>2, <4>1
      <4>2. CASE i # Len(g) + 1
        <5>1. i \in 1 .. Len(g)
          BY <1>1, <2>1, <3>1, <4>2
        <5> QED
          BY <5>1, <2>1, <3>1
      <4> QED
        BY <4>1, <4>2
    <3>4. Len(h) = IF k < j THEN k ELSE k - 1
      BY <1>1, <2>1, <2>4, <3>1
    <3> QED
      <4> HIDE DEF At
      <4> QED
        BY <3>1, <3>3, <3>4
  <2>5. State(h, k)
    <3> HIDE DEF State
    <3> QED
      BY <2>3, <2>4
  <2> QED
    BY <2>5 DEF h
<1> DEFINE G == {k \in 0 .. n : State(f[k], k)}
<1> HIDE DEF State, n
<1>5. 0 \in G
  BY <1>1, <1>3
<1>6. \A k \in 1 .. n : k - 1 \in G => k \in G
  BY <1>1, <1>4
<1>7. \A k \in 0 .. n : k \in G
  <2> HIDE DEF G
  <2> QED
    BY <1>1, <1>5, <1>6, Upwards
<1> DEFINE kept == Retained(queue, id)
<1>8. /\ kept \in Seq(Order) /\ Len(kept) = n - 1
      /\ \A i \in 1 .. n - 1 : kept[i] = queue[At(i)]
  <2>1. State(kept, n)
    BY <1>1, <1>2, <1>7
  <2>2. ~(n < j)
    BY <1>1 DEF n
  <2> HIDE DEF kept
  <2> QED
    BY <2>1, <2>2, <1>1 DEF State
<1>9. \A i \in 1 .. n - 1 : At(i) \in 1 .. n /\ At(i) # j
  BY <1>1
<1>10. \A i \in 1 .. n : i # j => \E k \in 1 .. n - 1 : At(k) = i
  <2> SUFFICES ASSUME NEW i \in 1 .. n, i # j
               PROVE  \E k \in 1 .. n - 1 : At(k) = i
    OBVIOUS
  <2>1. CASE i < j
    <3>1. i \in 1 .. n - 1 /\ At(i) = i
      BY <2>1, <1>1 DEF n
    <3> QED
      BY <3>1
  <2>2. CASE i > j
    <3>1. i - 1 \in 1 .. n - 1 /\ At(i - 1) = i
      BY <2>2, <1>1 DEF n
    <3> QED
      BY <3>1
  <2> QED
    BY <2>1, <2>2, <1>1
<1> HIDE DEF kept
<1>11. ASSUME NEW i \in 1 .. Len(kept)
       PROVE  /\ kept[i].remaining_qty > Eps
              /\ \E k \in 1 .. n : /\ k \notin {j}
                                   /\ kept[i] = [queue[k] EXCEPT !.remaining_qty = kept[i].remaining_qty]
  <2>1. At(i) \in 1 .. n /\ At(i) # j /\ kept[i] = queue[At(i)]
    BY <1>8, <1>9
  <2>2. queue[At(i)] = [queue[At(i)] EXCEPT !.remaining_qty = queue[At(i)].remaining_qty]
    BY <1>1, <2>1 DEF Order
  <2> HIDE DEF At
  <2>3. queue[At(i)].remaining_qty > Eps
    BY <2>1 DEF n
  <2> QED
    BY <2>1, <2>2, <2>3
<1>12. ASSUME NEW i \in 1 .. n, i \notin {j}
       PROVE  \E k \in 1 .. Len(kept) : kept[k].id = queue[i].id
  <2>1. PICK k \in 1 .. n - 1 : At(k) = i
    BY <1>10, <1>12
  <2> HIDE DEF At
  <2> QED
    BY <2>1, <1>8
<1>13. ASSUME NEW i \in 1 .. Len(kept), NEW k \in 1 .. Len(kept), kept[i].id = kept[k].id
       PROVE  i = k
  <2>1. queue[At(i)].id = queue[At(k)].id /\ At(i) \in 1 .. n /\ At(k) \in 1 .. n
    BY <1>8, <1>9, <1>13
  <2>2. At(i) = At(k)
    <3> HIDE DEF At
    <3> QED
      BY <2>1 DEF n
  <2> QED
    BY <2>2, <1>1, <1>8
<1>14. QueueFrom(kept, queue, {j})
  BY <1>8, <1>11, <1>12, <1>13 DEF QueueFrom, n
<1>15. \A i \in 1 .. Len(kept) : \E k \in 1 .. Len(queue) : kept[i] = queue[k]
  <2> HIDE DEF At
  <2> QED
    BY <1>8, <1>9 DEF n
<1> QED
  BY <1>14, <1>15 DEF kept

\* The cancellation of a resting order takes it out of its level.
CancelReplaces(b, r, id, s, px, j) ==
  /\ b.levels[s][px][j].id = id
  /\ QueueFrom(Retained(b.levels[s][px], id), b.levels[s][px], {j})
  /\ \A i \in 1 .. Len(Retained(b.levels[s][px], id)) :
       \E k \in 1 .. Len(b.levels[s][px]) : Retained(b.levels[s][px], id)[i] = b.levels[s][px][k]
  /\ r = [levels        |-> [b.levels EXCEPT ![s] = LevelsWith(@, px, Retained(b.levels[s][px], id))],
          index         |-> Without(b.index, {id}),
          next_trade_id |-> b.next_trade_id]

\* cancel finds the order where the index says.
LEMMA CancelIs ==
  ASSUME NEW b, BookSound(b), NEW id \in DOMAIN b.index, NEW r, r = CancelOrder(b, id).book
  PROVE  \E s \in Side : \E px \in DOMAIN b.levels[s] : \E j \in 1 .. Len(b.levels[s][px]) :
           CancelReplaces(b, r, id, s, px, j)
<1>1. /\ b \in [levels : {b.levels}, index : {b.index}, next_trade_id : Nat]
      /\ DOMAIN b.levels = Side /\ b.next_trade_id \in Nat
  BY DEF BookSound, BookType
<1>2. PICK s \in Side, px \in Price : b.index[id] = <<s, px>>
  BY DEF BookSound
<1>3. IndexedAt(b, id, s, px)
  BY <1>2 DEF BookSound
<1> DEFINE level == b.levels[s][px]
<1>4. px \in DOMAIN b.levels[s] /\ \E i \in 1 .. Len(level) : level[i].id = id
  BY <1>3 DEF IndexedAt
<1>5. PICK j \in 1 .. Len(level) : level[j].id = id
  BY <1>4
<1>6. /\ level \in Seq(Order)
      /\ \A i \in 1 .. Len(level) : PlacedSoundly(b, s, px, i)
  BY <1>4 DEF BookSound, BookType
<1>7. /\ \A i \in 1 .. Len(level) : level[i].remaining_qty > Eps
      /\ \A i, k \in 1 .. Len(level) : level[i].id = level[k].id => i = k
  BY <1>6 DEF PlacedSoundly, ShouldRest
<1> DEFINE kept == Retained(level, id)
<1>8. /\ QueueFrom(kept, level, {j})
      /\ \A i \in 1 .. Len(kept) : \E k \in 1 .. Len(level) : kept[i] = level[k]
  <2> HIDE DEF level
  <2>1. /\ QueueFrom(Retained(level, level[j].id), level, {j})
        /\ \A i \in 1 .. Len(Retained(level, level[j].id)) :
             \E k \in 1 .. Len(level) : Retained(level, level[j].id)[i] = level[k]
    BY <1>6, <1>7, RetainedIsFrom
  <2> QED
    BY <1>5, <2>1
<1> DEFINE R == [levels        |-> [b.levels EXCEPT ![s] = LevelsWith(@, px, kept)],
                 index         |-> Without(b.index, {id}),
                 next_trade_id |-> b.next_trade_id]
<1>9. r = R
  <2> DEFINE rest == IF kept = << >> THEN Without(b.levels[s], {px})
                                     ELSE With(b.levels[s], px, kept)
  <2>1. r = [[b EXCEPT !.index = Without(b.index, {id})] EXCEPT !.levels[s] = rest]
    BY <1>2, <1>4 DEF CancelOrder
  <2>2. rest = LevelsWith(b.levels[s], px, kept)
    BY DEF LevelsWith
  <2> HIDE DEF rest, kept
  <2> QED
    BY <1>1, <2>1, <2>2
<1>10. CancelReplaces(b, r, id, s, px, j)
  BY <1>5, <1>8, <1>9 DEF CancelReplaces
<1> QED
  BY <1>4, <1>5, <1>10

\* cancel leaves a sound book that no longer knows the order.
LEMMA CancelSound ==
  ASSUME NEW b, BookSound(b), NEW id, NEW r, r = CancelOrder(b, id).book
  PROVE  /\ BookSound(r) /\ r.next_trade_id = b.next_trade_id
         /\ DOMAIN r.index = DOMAIN b.index \ {id}
<1>1. CASE id \notin DOMAIN b.index
  BY <1>1 DEF CancelOrder
<1>2. CASE id \in DOMAIN b.index
  <2>1. b.next_trade_id \in Nat
    BY DEF BookSound, BookType
  <2>2. PICK s \in Side : \E px \in DOMAIN b.levels[s] : \E j \in 1 .. Len(b.levels[s][px]) :
          CancelReplaces(b, r, id, s, px, j)
    BY <1>2, CancelIs
  <2>3. PICK px \in DOMAIN b.levels[s] : \E j \in 1 .. Len(b.levels[s][px]) :
          CancelReplaces(b, r, id, s, px, j)
    BY <2>2
  <2>4. PICK j \in 1 .. Len(b.levels[s][px]) : CancelReplaces(b, r, id, s, px, j)
    BY <2>3
  <2> DEFINE level == b.levels[s][px]
             kept  == Retained(level, id)
             R     == [levels        |-> [b.levels EXCEPT ![s] = LevelsWith(@, px, kept)],
                       index         |-> Without(b.index, {id}),
                       next_trade_id |-> b.next_trade_id]
  <2>5. level[j].id = id /\ QueueFrom(kept, level, {j}) /\ r = R
    BY <2>4 DEF CancelReplaces
  <2>6. {j} \in SUBSET (1 .. Len(level)) /\ {id} = {level[i].id : i \in {j}}
    BY <2>5
  <2> HIDE DEF kept
  <2>7. BookSound(R)
    BY <2>1, <2>5, <2>6, LevelReplaced
  <2> QED
    BY <2>5, <2>7 DEF Without
<1> QED
  BY <1>1, <1>2

-----------------------------------------------------------------------------
(* What PriceTimeBook says an order gets, read off the makers it takes one *)
(* after another.                                                          *)

Resting == INSTANCE SequenceLemmas WITH Step <- LAMBDA p, acc, m : m.remaining_qty
Giving  == INSTANCE SequenceLemmas WITH Step <- LAMBDA book, o, m : Given(book, o, m)

\* The orders of a book as matching leaves them: orders with more than dust, told
\* apart by side, price and identifier.
OrdersApart(book) ==
  /\ IsFiniteSet(book)
  /\ \A m \in book : m \in Order /\ m.remaining_qty > Eps
  /\ \A m, n \in book : m.side = n.side /\ m.price = n.price /\ m.id = n.id => m = n

\* T[1] to T[n] are the first makers of o, and W what o still wants before and
\* after each.
TakesInTurn(book, o, T, W, n) ==
  /\ n \in Nat /\ T \in [1 .. n -> Makers(book, o)] /\ W \in [0 .. n -> Int]
  /\ \A i, j \in 1 .. n : i < j => Ahead(T[i], T[j])
  /\ \A j \in 1 .. n : \A m \in Makers(book, o) :
       Ahead(m, T[j]) => \E i \in 1 .. n : T[i] = m
  /\ W[0] = o.qty
  /\ \A i \in 1 .. n : W[i - 1] > Eps /\ W[i] = W[i - 1] - T[i].remaining_qty

\* After the last of them o has enough, or nobody is left.
Enough(book, o, T, W, n) ==
  W[n] <= Eps \/ \A m \in Makers(book, o) : \E i \in 1 .. n : T[i] = m

\* The first k of them.
Taken(T, k) == {T[i] : i \in 1 .. k}

\* Makers are orders of the other side, and Ahead puts them in a strict order.
LEMMA MakersInOrder ==
  ASSUME NEW book, OrdersApart(book), NEW o \in Order
  PROVE  /\ IsFiniteSet(Makers(book, o))
         /\ Makers(book, o) \subseteq book
         /\ \A m \in Makers(book, o) :
              /\ m \in Order /\ m.remaining_qty \in Int /\ m.remaining_qty \in Nat
              /\ m.remaining_qty > Eps
              /\ ~ Ahead(m, m)
         /\ \A l, m \in Makers(book, o) :
              /\ l = m \/ Ahead(l, m) \/ Ahead(m, l)
              /\ ~ (Ahead(l, m) /\ Ahead(m, l))
         /\ \A k, l, m \in Makers(book, o) :
              Ahead(k, l) /\ Ahead(l, m) => Ahead(k, m)
<1> DEFINE M == Makers(book, o)
<1>1. \A m \in M : m \in book /\ m.side # o.side
  BY DEF Makers
<1>2. IsFiniteSet(M)
  BY <1>1, FS_Subset DEF OrdersApart
<1>3. \A m \in M : /\ m \in Order /\ m.remaining_qty \in Int /\ m.remaining_qty > Eps
                   /\ m.id \in Nat /\ m.price \in Int /\ m.side \in Side
  BY <1>1, PriceAssumption DEF OrdersApart, Order
<1>4. \A m \in M : m.side = IF o.side = "Buy" THEN "Sell" ELSE "Buy"
  BY <1>1, <1>3 DEF Order, Side
<1>5. \A m \in M : m.remaining_qty \in Nat
  BY <1>3, EpsAssumption
<1>6. \A l, m \in M : l.price = m.price /\ l.id = m.id => l = m
  BY <1>1, <1>4 DEF OrdersApart
<1>7. \A l, m \in M : Ahead(l, m) <=>
        \/ IF o.side = "Buy" THEN l.price < m.price ELSE l.price > m.price
        \/ l.price = m.price /\ l.id < m.id
  BY <1>4 DEF Ahead, Better
<1> HIDE DEF M
<1>8. \A m \in M : ~ Ahead(m, m)
  BY <1>3, <1>7
<1>9. \A l, m \in M : /\ l = m \/ Ahead(l, m) \/ Ahead(m, l)
                      /\ ~ (Ahead(l, m) /\ Ahead(m, l))
  <2> TAKE l, m \in M
  <2>1. l.price = m.price /\ l.id = m.id => l = m
    BY <1>6
  <2>2. l.price \in Int /\ m.price \in Int /\ l.id \in Nat /\ m.id \in Nat
    BY <1>3
  <2> QED
    BY <1>7, <2>1, <2>2
<1>10. \A k, l, m \in M : Ahead(k, l) /\ Ahead(l, m) => Ahead(k, m)
  <2> TAKE k, l, m \in M
  <2>1. /\ k.price \in Int /\ l.price \in Int /\ m.price \in Int
        /\ k.id \in Nat /\ l.id \in Nat /\ m.id \in Nat
    BY <1>3
  <2> QED
    BY <1>7, <2>1
<1> QED
  BY <1>1, <1>2, <1>3, <1>5, <1>8, <1>9, <1>10 DEF M

\* What is wanted after k makers is what was asked for less what the k had.
LEMMA WantedAfter ==
  ASSUME NEW book, OrdersApart(book), NEW o \in Order, NEW T, NEW W, NEW n,
         TakesInTurn(book, o, T, W, n)
  PROVE  \A k \in 0 .. n : /\ Taken(T, k) \in SUBSET Makers(book, o)
                           /\ Resting!SumOver(0, 0, Taken(T, k)) = o.qty - W[k]
<1> DEFINE M == Makers(book, o)
           Q(k) == Resting!SumOver(0, 0, Taken(T, k))
           G == {k \in 0 .. n : Q(k) = o.qty - W[k]}
<1>1. /\ n \in Nat /\ T \in [1 .. n -> M] /\ W \in [0 .. n -> Int] /\ W[0] = o.qty
      /\ \A i \in 1 .. n : W[i] = W[i - 1] - T[i].remaining_qty
      /\ \A i, j \in 1 .. n : i < j => Ahead(T[i], T[j])
  BY DEF TakesInTurn
<1>2. /\ IsFiniteSet(M) /\ \A m \in M : m.remaining_qty \in Int /\ ~ Ahead(m, m)
  BY MakersInOrder
<1> HIDE DEF M
<1>3. \A k \in 0 .. n : Taken(T, k) \in SUBSET M
  BY <1>1 DEF Taken
<1>4. Resting!Whole(0, 0, M) /\ Resting!IsFiniteSet(M)
  BY <1>2 DEF Resting!Whole, IsFiniteSet, Resting!IsFiniteSet
<1>5. o.qty \in Int
  BY QtyAssumption DEF Order
<1>6. 0 \in G
  <2>1. Taken(T, 0) = {}
    BY DEF Taken
  <2>2. Resting!SumOver(0, 0, {}) = 0
    BY <1>4, Resting!SumTakeOut
  <2>3. 0 \in 0 .. n
    BY <1>1
  <2>4. Q(0) = o.qty - W[0]
    <3>1. Q(0) = 0
      BY <2>1, <2>2
    <3>2. W[0] = o.qty
      BY <1>1
    <3> HIDE DEF Q
    <3> QED
      BY <1>5, <3>1, <3>2
  <2> HIDE DEF Q
  <2> QED
    BY <2>3, <2>4
<1>7. ASSUME NEW k \in 1 .. n, k - 1 \in G
      PROVE  k \in G
  <2>1. Taken(T, k) = Taken(T, k - 1) \cup {T[k]}
    BY <1>1 DEF Taken
  <2>2. T[k] \in M /\ T[k] \notin Taken(T, k - 1)
    <3>1. \A i \in 1 .. k - 1 : T[i] # T[k]
      BY <1>1, <1>2
    <3> QED
      BY <1>1, <3>1 DEF Taken
  <2>3. k - 1 \in 0 .. n /\ Taken(T, k - 1) \in SUBSET M
    BY <1>1, <1>3
  <2>4. Q(k) = Q(k - 1) + T[k].remaining_qty
    BY <1>4, <2>1, <2>2, <2>3, Resting!SumAdd
  <2>5. Q(k - 1) = o.qty - W[k - 1] /\ W[k] = W[k - 1] - T[k].remaining_qty
    BY <1>1, <1>7
  <2>6. W[k - 1] \in Int /\ T[k].remaining_qty \in Int
    BY <1>1, <1>2, <2>2, <2>3
  <2> HIDE DEF Q
  <2> QED
    BY <1>5, <2>4, <2>5, <2>6
<1>8. \A k \in 0 .. n : k \in G
  <2> HIDE DEF G
  <2> QED
    BY <1>1, <1>6, <1>7, Upwards
<1> QED
  BY <1>3, <1>8 DEF M

\* What an order would want of a maker in the middle of them, or of one after them.
LEMMA WantedOf ==
  ASSUME NEW book, OrdersApart(book), NEW o \in Order, NEW T, NEW W, NEW n,
         TakesInTurn(book, o, T, W, n)
  PROVE  /\ \A i \in 1 .. n : Wanted(book, o, T[i]) = W[i - 1]
         /\ \A m \in Makers(book, o) :
              (\A i \in 1 .. n : T[i] # m) => /\ Wanted(book, o, m) \in Int
                                              /\ Wanted(book, o, m) <= W[n]
         /\ \A m \in Makers(book, o) :
              (\A l \in Makers(book, o) :
                 Ahead(l, m) <=> \E i \in 1 .. n : T[i] = l)
                => Wanted(book, o, m) = W[n]
<1> DEFINE M == Makers(book, o)
           before_(m) == {l \in M : Ahead(l, m)}
<1>1. /\ n \in Nat /\ T \in [1 .. n -> M] /\ W \in [0 .. n -> Int]
      /\ \A i, j \in 1 .. n : i < j => Ahead(T[i], T[j])
      /\ \A j \in 1 .. n : \A m \in M : Ahead(m, T[j]) => \E i \in 1 .. n : T[i] = m
  BY DEF TakesInTurn
<1>2. /\ IsFiniteSet(M)
      /\ \A m \in M : m.remaining_qty \in Nat /\ ~ Ahead(m, m)
      /\ \A l, m \in M : /\ l = m \/ Ahead(l, m) \/ Ahead(m, l)
                         /\ ~ (Ahead(l, m) /\ Ahead(m, l))
  BY MakersInOrder
<1>3. \A m : Wanted(book, o, m) = o.qty - Resting!SumOver(0, 0, before_(m))
  <2> TAKE m
  <2>1. Wanted(book, o, m) = o.qty - MapThenSumSet(Remaining, before_(m))
    BY DEF Wanted
  <2>2. MapThenSumSet(Remaining, before_(m)) = Resting!SumOver(0, 0, before_(m))
    <3> HIDE DEF before_
    <3> QED
      BY DEF MapThenSumSet, MapThenFoldSet, Remaining,
             Resting!SumOver, Resting!MapThenSumSet, Resting!MapThenFoldSet
  <2> QED
    BY <2>1, <2>2
<1>4. o.qty \in Int
  BY QtyAssumption DEF Order
<1>5. \A k \in 0 .. n : /\ Taken(T, k) \in SUBSET M
                        /\ Resting!SumOver(0, 0, Taken(T, k)) = o.qty - W[k]
  BY WantedAfter
<1> HIDE DEF M
<1>6. ASSUME NEW i \in 1 .. n
      PROVE  Wanted(book, o, T[i]) = W[i - 1]
  <2>1. before_(T[i]) = Taken(T, i - 1)
    <3>1. ASSUME NEW l \in M, Ahead(l, T[i])
          PROVE  l \in Taken(T, i - 1)
      <4>1. PICK j \in 1 .. n : T[j] = l
        BY <1>1, <3>1
      <4>2. j < i
        <5>1. T[i] \in M /\ ~ (j = i) /\ ~ Ahead(T[i], T[j])
          BY <1>1, <1>2, <3>1, <4>1
        <5> QED
          BY <1>1, <5>1
      <4> QED
        BY <4>1, <4>2 DEF Taken
    <3>2. ASSUME NEW l \in Taken(T, i - 1)
          PROVE  l \in M /\ Ahead(l, T[i])
      <4>1. PICK j \in 1 .. i - 1 : T[j] = l
        BY DEF Taken
      <4> QED
        BY <1>1, <4>1
    <3> QED
      BY <3>1, <3>2
  <2>2. i - 1 \in 0 .. n
    BY <1>1
  <2>3. Wanted(book, o, T[i]) = o.qty - (o.qty - W[i - 1])
    BY <1>3, <1>5, <2>1, <2>2
  <2>4. W[i - 1] \in Int
    BY <1>1, <2>2
  <2> QED
    BY <1>4, <2>3, <2>4
<1>7. n \in 0 .. n /\ W[n] \in Int
  BY <1>1
<1>8. Resting!SumOver(0, 0, Taken(T, n)) = o.qty - W[n] /\ Taken(T, n) \in SUBSET M
  BY <1>5, <1>7
<1>9. ASSUME NEW m \in M, \A i \in 1 .. n : T[i] # m
      PROVE  Wanted(book, o, m) \in Int /\ Wanted(book, o, m) <= W[n]
  <2>1. Taken(T, n) \subseteq before_(m)
    <3> SUFFICES ASSUME NEW i \in 1 .. n PROVE T[i] \in M /\ Ahead(T[i], m)
      BY DEF Taken
    <3>1. T[i] \in M /\ T[i] # m
      BY <1>1, <1>9
    <3>2. ~ Ahead(m, T[i])
      BY <1>1, <1>9
    <3> QED
      BY <1>2, <3>1, <3>2
  <2>2. before_(m) \in SUBSET M /\ IsFiniteSet(before_(m))
    BY <1>2, FS_Subset
  <2>3. \A x \in before_(m) : x.remaining_qty \in Nat
    BY <1>2
  <2> HIDE DEF before_
  <2>4. Resting!IsFiniteSet(before_(m))
    BY <2>2 DEF IsFiniteSet, Resting!IsFiniteSet
  <2>5. Resting!SumOver(0, 0, Taken(T, n)) <= Resting!SumOver(0, 0, before_(m))
    BY <2>1, <2>3, <2>4, Resting!SumMonotone
  <2>6. Resting!SumOver(0, 0, before_(m)) \in Int
    <3>1. Resting!Whole(0, 0, before_(m))
      BY <2>3 DEF Resting!Whole
    <3>2. Resting!Summed(0, 0, before_(m))
      BY <2>4, <3>1, Resting!SumTakeOut
    <3> QED
      BY <3>2 DEF Resting!Summed
  <2>7. Wanted(book, o, m) = o.qty - Resting!SumOver(0, 0, before_(m))
    BY <1>3 DEF before_
  <2> QED
    BY <1>4, <1>7, <1>8, <2>5, <2>6, <2>7
<1>10. ASSUME NEW m \in M, \A l \in M : Ahead(l, m) <=> \E i \in 1 .. n : T[i] = l
       PROVE  Wanted(book, o, m) = W[n]
  <2>1. before_(m) = Taken(T, n)
    BY <1>1, <1>10 DEF Taken
  <2>2. Wanted(book, o, m) = o.qty - (o.qty - W[n])
    BY <1>3, <1>8, <2>1
  <2> QED
    BY <1>4, <1>7, <2>2
<1> QED
  BY <1>6, <1>9, <1>10 DEF M

\* What the i-th of them gives.
GivenBy(T, W, i) == IF T[i].remaining_qty <= W[i - 1] THEN T[i].remaining_qty ELSE W[i - 1]

\* Once o has enough, its makers are the ones reached, and each gives what it has
\* or what is wanted of it.
LEMMA ReachedAre ==
  ASSUME NEW book, OrdersApart(book), NEW o \in Order, NEW T, NEW W, NEW n,
         TakesInTurn(book, o, T, W, n), Enough(book, o, T, W, n)
  PROVE  /\ Reached(book, o) = Taken(T, n)
         /\ \A i \in 1 .. n : /\ Given(book, o, T[i]) = GivenBy(T, W, i)
                              /\ GivenBy(T, W, i) \in Int
<1> DEFINE M == Makers(book, o)
<1>1. /\ n \in Nat /\ T \in [1 .. n -> M] /\ W \in [0 .. n -> Int]
      /\ \A i \in 1 .. n : W[i - 1] > Eps
  BY DEF TakesInTurn
<1>2. \A m \in M : m.remaining_qty \in Int
  BY MakersInOrder
<1>3. /\ \A i \in 1 .. n : Wanted(book, o, T[i]) = W[i - 1]
      /\ \A m \in M : (\A i \in 1 .. n : T[i] # m) => /\ Wanted(book, o, m) \in Int
                                                      /\ Wanted(book, o, m) <= W[n]
  BY WantedOf
<1>4. W[n] <= Eps \/ \A m \in M : \E i \in 1 .. n : T[i] = m
  BY DEF Enough
<1>5. Reached(book, o) = {m \in M : Wanted(book, o, m) > Eps}
  BY DEF Reached
<1> HIDE DEF M
<1>6. \A i \in 1 .. n : T[i] \in Reached(book, o)
  BY <1>1, <1>3, <1>5
<1>7. ASSUME NEW m \in Reached(book, o)
      PROVE  \E i \in 1 .. n : T[i] = m
  <2>1. m \in M /\ Wanted(book, o, m) > Eps
    BY <1>5
  <2> SUFFICES ASSUME \A i \in 1 .. n : T[i] # m PROVE FALSE
    OBVIOUS
  <2>2. Wanted(book, o, m) \in Int /\ Wanted(book, o, m) <= W[n]
    BY <1>3, <2>1
  <2>3. W[n] <= Eps
    BY <1>4, <2>1
  <2>4. W[n] \in Int
    BY <1>1
  <2> QED
    BY <2>1, <2>2, <2>3, <2>4, EpsAssumption
<1>8. ASSUME NEW i \in 1 .. n
      PROVE  /\ Given(book, o, T[i]) = GivenBy(T, W, i)
             /\ GivenBy(T, W, i) \in Int
  <2>1. T[i].remaining_qty \in Int /\ W[i - 1] \in Int
    <3>1. T[i] \in M /\ i - 1 \in 0 .. n
      BY <1>1
    <3> QED
      BY <1>1, <1>2, <3>1
  <2>2. Given(book, o, T[i]) = Min({T[i].remaining_qty, W[i - 1]})
    <3>1. Given(book, o, T[i]) = Min({T[i].remaining_qty, Wanted(book, o, T[i])})
      BY DEF Given, Min, Min
    <3> QED
      BY <1>3, <3>1
  <2> QED
    BY <2>1, <2>2, MinOfTwo DEF GivenBy
<1> QED
  BY <1>6, <1>7, <1>8 DEF Taken

\* What is left of o then: nothing, or what nobody was left to give.
LEMMA WhatIsLeft ==
  ASSUME NEW book, OrdersApart(book), NEW o \in Order, NEW T, NEW W, NEW n,
         TakesInTurn(book, o, T, W, n), Enough(book, o, T, W, n)
  PROVE  Left(book, o) = IF n = 0 \/ W[n] >= 0 THEN W[n] ELSE 0
<1> DEFINE M == Makers(book, o)
           S == Taken(T, n)
           Q(k) == Giving!SumOver(book, o, Taken(T, k))
           L(k) == IF k = 0 \/ W[k] >= 0 THEN W[k] ELSE 0
           G == {k \in 0 .. n : Q(k) = o.qty - L(k)}
<1>1. /\ n \in Nat /\ T \in [1 .. n -> M] /\ W \in [0 .. n -> Int] /\ W[0] = o.qty
      /\ \A i \in 1 .. n : W[i - 1] > Eps /\ W[i] = W[i - 1] - T[i].remaining_qty
      /\ \A i, j \in 1 .. n : i < j => Ahead(T[i], T[j])
  BY DEF TakesInTurn
<1>2. IsFiniteSet(M) /\ \A m \in M : m.remaining_qty \in Nat /\ ~ Ahead(m, m)
  BY MakersInOrder
<1>3. /\ Reached(book, o) = S
      /\ \A i \in 1 .. n : /\ Given(book, o, T[i]) = GivenBy(T, W, i)
                           /\ GivenBy(T, W, i) \in Int
  BY ReachedAre
<1>4. Left(book, o) = o.qty - Q(n)
  <2>1. MapThenSumSet(LAMBDA m : Given(book, o, m), S) = Q(n)
    <3> HIDE DEF S
    <3> QED
      BY DEF MapThenSumSet, MapThenFoldSet,
             Giving!SumOver, Giving!MapThenSumSet, Giving!MapThenFoldSet, S
  <2> QED
    BY <1>3, <2>1 DEF Left
<1>5. o.qty \in Int
  BY QtyAssumption DEF Order
<1> HIDE DEF M
<1>6. S \in SUBSET M /\ IsFiniteSet(S) /\ \A k \in 0 .. n : Taken(T, k) \in SUBSET S
  <2>1. S \in SUBSET M /\ \A k \in 0 .. n : Taken(T, k) \in SUBSET S
    BY <1>1 DEF Taken
  <2> QED
    BY <1>2, <2>1, FS_Subset
<1>7. Giving!Whole(book, o, S) /\ Giving!IsFiniteSet(S)
  <2>1. \A m \in S : Given(book, o, m) \in Int
    BY <1>3 DEF Taken
  <2> HIDE DEF S
  <2> QED
    BY <2>1, <1>6 DEF Giving!Whole, IsFiniteSet, Giving!IsFiniteSet
<1> HIDE DEF S
<1>8. 0 \in G
  <2>1. Taken(T, 0) = {}
    BY DEF Taken
  <2>2. Giving!SumOver(book, o, {}) = 0
    BY <1>7, Giving!SumTakeOut
  <2>3. Q(0) = 0
    BY <2>1, <2>2
  <2>4. 0 \in 0 .. n /\ L(0) = o.qty
    BY <1>1
  <2> HIDE DEF Q, L
  <2> QED
    BY <1>5, <2>3, <2>4
<1>9. ASSUME NEW k \in 1 .. n, k - 1 \in G
      PROVE  k \in G
  <2>1. Taken(T, k) = Taken(T, k - 1) \cup {T[k]}
    BY <1>1 DEF Taken
  <2>2. T[k] \in M /\ T[k] \in S /\ T[k] \notin Taken(T, k - 1)
    <3>1. \A i \in 1 .. k - 1 : T[i] # T[k]
      BY <1>1, <1>2
    <3> QED
      BY <1>1, <3>1 DEF Taken, S
  <2>3. k - 1 \in 0 .. n /\ Taken(T, k - 1) \in SUBSET S
    BY <1>1, <1>6
  <2>4. Q(k) = Q(k - 1) + Given(book, o, T[k])
    BY <1>7, <2>1, <2>2, <2>3, Giving!SumAdd
  <2>5. Given(book, o, T[k]) = GivenBy(T, W, k)
    BY <1>3
  <2>6. Q(k - 1) = o.qty - L(k - 1)
    BY <1>9
  <2>7. /\ W[k - 1] \in Int /\ W[k - 1] > Eps /\ W[k] \in Int
        /\ W[k] = W[k - 1] - T[k].remaining_qty /\ T[k].remaining_qty \in Int
    BY <1>1, <1>2, <2>2, <2>3
  <2>8. L(k - 1) = W[k - 1]
    BY <2>7, EpsAssumption
  <2>9. W[k - 1] - GivenBy(T, W, k) = L(k)
    BY <1>1, <2>7, EpsAssumption DEF GivenBy
  <2>10. GivenBy(T, W, k) \in Int
    BY <1>3
  <2> HIDE DEF Q, L
  <2> QED
    BY <1>5, <2>4, <2>5, <2>6, <2>7, <2>8, <2>9, <2>10
<1>10. n \in G
  <2> HIDE DEF G
  <2> QED
    BY <1>1, <1>8, <1>9, Upwards, n \in 0 .. n
<1>11. Q(n) = o.qty - L(n) /\ L(n) \in Int
  BY <1>1, <1>10
<1> HIDE DEF Q, L
<1>12. Left(book, o) = L(n)
  BY <1>4, <1>5, <1>11
<1> QED
  BY <1>12 DEF L

\* Each of s[1] to s[n] is ahead of the next; nobody of M is ahead of himself or of
\* who is ahead of him; whoever is in s is in t.
SortedTo(s, n)    == \A i, j \in 1 .. n : i < j => Ahead(s[i], s[j])
OneWay(M)         == \A l, m \in M : ~ (Ahead(l, m) /\ Ahead(m, l))
Covered(s, t, n)  == \A i \in 1 .. n : \E j \in 1 .. n : s[i] = t[j]

\* Two ways to go through the same makers, each after those ahead of it, are one.
LEMMA OneOrder ==
  ASSUME NEW M, NEW n \in Nat, NEW s \in [1 .. n -> M], NEW T \in [1 .. n -> M],
         SortedTo(s, n), SortedTo(T, n), OneWay(M), Covered(s, T, n), Covered(T, s, n)
  PROVE  s = T
<1> USE DEF SortedTo, OneWay, Covered
<1> DEFINE G == {k \in 0 .. n : \A i \in 1 .. k : s[i] = T[i]}
<1>1. 0 \in G
  OBVIOUS
<1>2. ASSUME NEW k \in 1 .. n, k - 1 \in G
      PROVE  k \in G
  <2>1. \A i \in 1 .. k - 1 : s[i] = T[i]
    BY <1>2
  <2>2. PICK a \in 1 .. n : T[k] = s[a]
    OBVIOUS
  <2>3. PICK b \in 1 .. n : s[k] = T[b]
    OBVIOUS
  <2>4. a >= k
    <3> SUFFICES ASSUME a < k PROVE FALSE
      OBVIOUS
    <3>1. T[a] = T[k] /\ Ahead(T[a], T[k]) /\ T[k] \in M
      BY <2>1, <2>2
    <3> QED
      BY <3>1
  <2>5. b >= k
    <3> SUFFICES ASSUME b < k PROVE FALSE
      OBVIOUS
    <3>1. s[b] = s[k] /\ Ahead(s[b], s[k]) /\ s[k] \in M
      BY <2>1, <2>3
    <3> QED
      BY <3>1
  <2>6. s[k] = T[k]
    <3> SUFFICES ASSUME a # k, b # k PROVE FALSE
      BY <2>2, <2>3
    <3>1. k < a /\ k < b /\ k \in 1 .. n
      BY <2>4, <2>5
    <3>2. Ahead(s[k], s[a]) /\ Ahead(T[k], T[b])
      BY <3>1
    <3>3. s[k] \in M /\ T[k] \in M
      OBVIOUS
    <3> QED
      BY <2>2, <2>3, <3>2, <3>3
  <2>7. \A i \in 1 .. k : i = k \/ i \in 1 .. k - 1
    OBVIOUS
  <2>8. \A i \in 1 .. k : s[i] = T[i]
    BY <2>1, <2>6, <2>7
  <2> QED
    BY <2>8
<1>3. n \in G
  <2> HIDE DEF G
  <2> QED
    BY <1>1, <1>2, Upwards, n \in 0 .. n
<1> QED
  BY <1>3

\* So it is T that PriceTimeBook goes through.
LEMMA InTurnIs ==
  ASSUME NEW book, OrdersApart(book), NEW o \in Order, NEW T, NEW W, NEW n,
         TakesInTurn(book, o, T, W, n)
  PROVE  InTurn(Taken(T, n)) = T
<1> DEFINE M == Makers(book, o)
           S == Taken(T, n)
           Sorted(s) == \A i, j \in DOMAIN s : i < j => Ahead(s[i], s[j])
           s == CHOOSE s_ \in [1 .. n -> S] : Sorted(s_)
<1>1. /\ n \in Nat /\ T \in [1 .. n -> M]
      /\ \A i, j \in 1 .. n : i < j => Ahead(T[i], T[j])
  BY DEF TakesInTurn
<1>2. /\ \A m \in M : ~ Ahead(m, m)
      /\ \A l, m \in M : ~ (Ahead(l, m) /\ Ahead(m, l))
  BY MakersInOrder
<1> HIDE DEF M
<1>3. /\ T \in [1 .. n -> S] /\ S \in SUBSET M
      /\ \A m \in S : \E i \in 1 .. n : T[i] = m
  BY <1>1 DEF Taken
<1>4. IsFiniteSet(S) /\ Cardinality(S) = n
  <2>1. \A i, j \in 1 .. n : T[i] = T[j] => i = j
    BY <1>1, <1>2
  <2> HIDE DEF S
  <2>2. T \in Bijection(1 .. n, S)
    BY <1>3, <2>1 DEF Bijection, Injection, Surjection, IsInjective
  <2>3. ExistsBijection(1 .. n, S)
    BY <2>2 DEF ExistsBijection
  <2> QED
    BY <1>1, <2>3, FS_CountingElements, FS_NatBijection
<1> HIDE DEF S
<1>5. InTurn(S) = s
  <2>1. Cardinality(S) = n
    BY <1>4 DEF Cardinality, Cardinality
  <2> QED
    BY <2>1 DEF InTurn
<1>6. Sorted(T)
  BY <1>1, <1>3
<1>7. s \in [1 .. n -> S] /\ Sorted(s)
  <2> HIDE DEF Sorted
  <2> QED
    BY <1>3, <1>6
<1> HIDE DEF s
<1>8. \A i, j \in 1 .. n : i < j => Ahead(s[i], s[j])
  BY <1>7
<1>9. \A i \in 1 .. n : \E j \in 1 .. n : s[i] = T[j]
  BY <1>3, <1>7
<1>10. \A i \in 1 .. n : \E j \in 1 .. n : T[i] = s[j]
  <2>1. \A i, j \in 1 .. n : s[i] = s[j] => i = j
    BY <1>1, <1>2, <1>3, <1>7, <1>8
  <2>2. s \in Injection(1 .. n, S)
    BY <1>7, <2>1 DEF Injection, IsInjective
  <2>3. IsFiniteSet(1 .. n) /\ Cardinality(1 .. n) = n
    BY <1>1, FS_Interval
  <2>4. s \in Surjection(1 .. n, S)
    BY <1>4, <2>2, <2>3, FS_Injection
  <2>5. \A m \in S : \E j \in 1 .. n : s[j] = m
    BY <2>4 DEF Surjection
  <2> QED
    BY <1>3, <2>5
<1>11. s = T
  <2>1. s \in [1 .. n -> M]
    BY <1>3, <1>7
  <2>2. SortedTo(s, n) /\ SortedTo(T, n) /\ OneWay(M) /\ Covered(s, T, n) /\ Covered(T, s, n)
    BY <1>1, <1>2, <1>8, <1>9, <1>10 DEF SortedTo, OneWay, Covered
  <2> QED
    BY <1>1, <2>1, <2>2, OneOrder
<1> QED
  BY <1>5, <1>11 DEF S

\* The trades of o with T[1] to T[n], and the book they leave: only the last maker
\* may have something left.
Dealt(T, W, n) ==
  [i \in 1 .. n |-> [maker_order_id |-> T[i].id, price |-> T[i].price, qty |-> GivenBy(T, W, i)]]

LastLeft(T, W, n) ==
  IF n > 0 /\ -W[n] > Eps THEN {[T[n] EXCEPT !.remaining_qty = -W[n]]} ELSE {}

BookAfter(book, T, W, n) == (book \ Taken(T, n)) \cup LastLeft(T, W, n)

\* They are what PriceTimeBook says.
LEMMA TradesAre ==
  ASSUME NEW book, OrdersApart(book), NEW o \in Order, NEW T, NEW W, NEW n,
         TakesInTurn(book, o, T, W, n), Enough(book, o, T, W, n)
  PROVE  Trades(book, o) = Dealt(T, W, n)
<1>1. n \in Nat /\ DOMAIN T = 1 .. n
  BY DEF TakesInTurn
<1>2. Len(T) = n
  <2>1. T \in Seq(Makers(book, o))
    BY SeqDef DEF TakesInTurn
  <2> QED
    BY <1>1, <2>1, LenProperties
<1>3. InTurn(Reached(book, o)) = T
  BY ReachedAre, InTurnIs
<1>4. Trades(book, o) =
        [i \in 1 .. n |-> [maker_order_id |-> T[i].id, price |-> T[i].price,
                           qty |-> Given(book, o, T[i])]]
  BY <1>2, <1>3 DEF Trades
<1>5. \A i \in 1 .. n : Given(book, o, T[i]) = GivenBy(T, W, i)
  BY ReachedAre
<1> QED
  BY <1>4, <1>5 DEF Dealt

\* So is the book that is left, together with what rests of o.
LEMMA AfterSubmitIs ==
  ASSUME NEW book, OrdersApart(book), NEW o \in Order, NEW T, NEW W, NEW n,
         TakesInTurn(book, o, T, W, n), Enough(book, o, T, W, n),
         ~ Killed(book, o)
  PROVE  AfterSubmit(book, o) =
           BookAfter(book, T, W, n)
             \cup (IF Rests(book, o)
                     THEN {[o EXCEPT !.remaining_qty = Left(book, o)]} ELSE {})
<1> DEFINE M == Makers(book, o)
           After == {AfterTrade(book, o, m) : m \in Reached(book, o)}
           kept == {m \in After : m.remaining_qty > Eps}
<1>1. /\ n \in Nat /\ T \in [1 .. n -> M] /\ W \in [0 .. n -> Int]
      /\ \A i \in 1 .. n : W[i - 1] > Eps /\ W[i] = W[i - 1] - T[i].remaining_qty
  BY DEF TakesInTurn
<1>2. \A m \in M : m \in Order /\ m.remaining_qty \in Int
  BY MakersInOrder
<1>3. /\ Reached(book, o) = Taken(T, n)
      /\ \A i \in 1 .. n : Given(book, o, T[i]) = GivenBy(T, W, i)
  BY ReachedAre
<1>4. AfterSubmit(book, o) =
        (book \ Taken(T, n)) \cup kept
          \cup (IF Rests(book, o)
                  THEN {[o EXCEPT !.remaining_qty = Left(book, o)]} ELSE {})
  BY <1>3 DEF AfterSubmit
<1> HIDE DEF M
<1> DEFINE after(i) == [T[i] EXCEPT !.remaining_qty = T[i].remaining_qty - GivenBy(T, W, i)]
<1>5. ASSUME NEW i \in 1 .. n
      PROVE  /\ AfterTrade(book, o, T[i]) = after(i)
             /\ after(i).remaining_qty = T[i].remaining_qty - GivenBy(T, W, i)
             /\ T[i].remaining_qty \in Int /\ W[i - 1] \in Int /\ W[i] \in Int
             /\ W[i - 1] > Eps /\ W[i] = W[i - 1] - T[i].remaining_qty
  <2>1. T[i] \in Order /\ T[i].remaining_qty \in Int /\ i - 1 \in 0 .. n /\ i \in 0 .. n
    BY <1>1, <1>2
  <2>2. after(i).remaining_qty = T[i].remaining_qty - GivenBy(T, W, i)
    BY <2>1 DEF Order
  <2>3. AfterTrade(book, o, T[i]) = after(i)
    BY <1>3 DEF AfterTrade
  <2> QED
    BY <1>1, <2>1, <2>2, <2>3
<1> HIDE DEF after
<1>6. After = {after(i) : i \in 1 .. n}
  BY <1>3, <1>5 DEF Taken
<1>7. ASSUME NEW i \in 1 .. n, i # n
      PROVE  ~ (after(i).remaining_qty > Eps)
  <2>1. (i + 1) \in 1 .. n /\ (i + 1) - 1 = i
    BY <1>1, <1>7
  <2>2. W[i] > Eps
    BY <1>1, <2>1
  <2> QED
    BY <1>5, <2>2, EpsAssumption DEF GivenBy
<1>8. n > 0 => /\ n \in 1 .. n
               /\ after(n).remaining_qty > Eps <=> -W[n] > Eps
               /\ -W[n] > Eps => after(n) = [T[n] EXCEPT !.remaining_qty = -W[n]]
  <2> HAVE n > 0
  <2>1. n \in 1 .. n
    BY <1>1
  <2>2. -W[n] > Eps => T[n].remaining_qty - GivenBy(T, W, n) = -W[n]
    BY <1>5, <2>1, EpsAssumption DEF GivenBy
  <2>3. after(n).remaining_qty > Eps <=> -W[n] > Eps
    BY <1>5, <2>1, EpsAssumption DEF GivenBy
  <2> QED
    BY <2>1, <2>2, <2>3 DEF after
<1>9. kept = LastLeft(T, W, n)
  <2> HIDE DEF After
  <2>1. CASE n > 0 /\ -W[n] > Eps
    BY <1>6, <1>7, <1>8, <2>1 DEF LastLeft
  <2>2. CASE n > 0 /\ ~(-W[n] > Eps)
    BY <1>6, <1>7, <1>8, <2>2 DEF LastLeft
  <2>3. CASE ~(n > 0)
    BY <1>1, <1>6, <2>3 DEF LastLeft
  <2> QED
    BY <2>1, <2>2, <2>3
<1> QED
  BY <1>4, <1>9 DEF BookAfter

-----------------------------------------------------------------------------
(* The orders on the book, as a set.                                       *)

\* L is what levels may be.
LevelsOK(L) ==
  /\ DOMAIN L = Side
  /\ \A s \in Side : /\ DOMAIN L[s] \subseteq Price /\ IsFiniteSet(DOMAIN L[s])
                     /\ \A p \in DOMAIN L[s] : L[s][p] \in Seq(Order)

\* Each of them stands somewhere in a queue.
LEMMA InResting ==
  ASSUME NEW L, LevelsOK(L), NEW m
  PROVE  m \in RestingOrders(L) <=>
           \E s \in Side : \E p \in DOMAIN L[s] : \E i \in 1 .. Len(L[s][p]) : L[s][p][i] = m
<1>1. \A s \in Side : \A p \in DOMAIN L[s] :
        L[s][p] \in Seq(Order) /\ DOMAIN L[s][p] = 1 .. Len(L[s][p])
  BY LenProperties DEF LevelsOK
<1>2. m \in RestingOrders(L) <=>
        \E s \in Side : \E p \in DOMAIN L[s] : m \in ToSet(L[s][p])
  BY DEF RestingOrders
<1>3. \A s \in Side : \A p \in DOMAIN L[s] :
        m \in ToSet(L[s][p]) <=> \E i \in 1 .. Len(L[s][p]) : L[s][p][i] = m
  BY <1>1 DEF ToSet
<1> QED
  BY <1>2, <1>3

\* There are finitely many.
LEMMA RestingFinite ==
  ASSUME NEW L, LevelsOK(L)
  PROVE  IsFiniteSet(RestingOrders(L))
<1> DEFINE Queues(s) == {ToSet(L[s][p]) : p \in DOMAIN L[s]}
<1>1. ASSUME NEW s \in Side, NEW p \in DOMAIN L[s]
      PROVE  IsFiniteSet(ToSet(L[s][p]))
  <2> DEFINE q == L[s][p]
  <2>1. q \in Seq(Order) /\ DOMAIN q = 1 .. Len(q) /\ Len(q) \in Nat
    BY LenProperties DEF LevelsOK
  <2> HIDE DEF q
  <2>2. q \in Surjection(1 .. Len(q), ToSet(q))
    BY <2>1 DEF Surjection, ToSet
  <2>3. IsFiniteSet(1 .. Len(q))
    BY <2>1, FS_Interval
  <2> QED
    BY <2>2, <2>3, FS_Surjection DEF q
<1>2. ASSUME NEW s \in Side
      PROVE  IsFiniteSet(UNION Queues(s))
  <2> DEFINE f == [p \in DOMAIN L[s] |-> ToSet(L[s][p])]
             D == DOMAIN L[s]
  <2>1. f \in Surjection(D, Queues(s))
    BY DEF Surjection
  <2>2. IsFiniteSet(D)
    BY DEF LevelsOK
  <2>3. IsFiniteSet(Queues(s))
    <3> HIDE DEF f, D, Queues
    <3> QED
      BY <2>1, <2>2, FS_Surjection
  <2>4. \A Q \in Queues(s) : IsFiniteSet(Q)
    BY <1>1
  <2> HIDE DEF Queues
  <2> QED
    BY <2>3, <2>4, FS_UNION
<1>3. RestingOrders(L) = (UNION Queues("Buy")) \cup (UNION Queues("Sell"))
  BY DEF RestingOrders, Side
<1> HIDE DEF Queues
<1>4. "Buy" \in Side /\ "Sell" \in Side
  BY DEF Side
<1> QED
  BY <1>2, <1>3, <1>4, FS_Union

\* Each order stands where it belongs, and no two of a level have one identifier.
PlacedOK(L) ==
  \A s \in Side : \A p \in DOMAIN L[s] : \A i, j \in 1 .. Len(L[s][p]) :
    /\ L[s][p][i].side = s /\ L[s][p][i].price = p
    /\ L[s][p][i].remaining_qty > Eps
    /\ i # j => L[s][p][i].id # L[s][p][j].id

\* So the orders on the book are told apart as PriceTimeBook needs it.
LEMMA RestingSoundBook ==
  ASSUME NEW L, LevelsOK(L), PlacedOK(L)
  PROVE  /\ OrdersApart(RestingOrders(L))
         /\ \A m \in RestingOrders(L) :
              /\ m.side \in Side /\ m.price \in DOMAIN L[m.side]
              /\ \E i \in 1 .. Len(L[m.side][m.price]) : L[m.side][m.price][i] = m
<1>1. ASSUME NEW m \in RestingOrders(L)
      PROVE  /\ m \in Order /\ m.remaining_qty > Eps
             /\ m.side \in Side /\ m.price \in DOMAIN L[m.side]
             /\ \E i \in 1 .. Len(L[m.side][m.price]) : L[m.side][m.price][i] = m
  <2>1. PICK s \in Side : \E p \in DOMAIN L[s] : \E i \in 1 .. Len(L[s][p]) : L[s][p][i] = m
    BY InResting
  <2>2. PICK p \in DOMAIN L[s] : \E i \in 1 .. Len(L[s][p]) : L[s][p][i] = m
    BY <2>1
  <2>3. PICK i \in 1 .. Len(L[s][p]) : L[s][p][i] = m
    BY <2>2
  <2>4. m.side = s /\ m.price = p /\ m.remaining_qty > Eps
    BY <2>3 DEF PlacedOK
  <2>5. m \in Order
    <3>1. L[s][p] \in Seq(Order)
      BY DEF LevelsOK
    <3> QED
      BY <2>3, <3>1, ElementOfSeq
  <2> QED
    BY <2>3, <2>4, <2>5
<1>2. ASSUME NEW l \in RestingOrders(L), NEW m \in RestingOrders(L),
             l.side = m.side, l.price = m.price, l.id = m.id
      PROVE  l = m
  <2>1. PICK i \in 1 .. Len(L[m.side][m.price]) : L[m.side][m.price][i] = m
    BY <1>1
  <2>2. PICK j \in 1 .. Len(L[m.side][m.price]) : L[m.side][m.price][j] = l
    BY <1>1, <1>2
  <2>3. i = j
    BY <1>1, <1>2, <2>1, <2>2 DEF PlacedOK
  <2> QED
    BY <2>1, <2>2, <2>3
<1> QED
  BY <1>1, <1>2, RestingFinite DEF OrdersApart

-----------------------------------------------------------------------------
(* The liquidity check adds up what the makers have.                       *)

LevelTurn(lo, sum, p) ==
  IF Crosses(lo[2], p) THEN sum + LevelQty(lo[1][Opposite(lo[2].side)][p]) ELSE sum

QtySum   == INSTANCE SequenceLemmas WITH Step <- LAMBDA p, acc, m : acc + m.remaining_qty
AvailSum == INSTANCE SequenceLemmas WITH Step <- LAMBDA lo, sum, p : LevelTurn(lo, sum, p)

\* The prices of a side, best first, each once.
LEMMA PricesInOrder ==
  ASSUME NEW L, LevelsOK(L), NEW s \in Side
  PROVE  \E n \in Nat : /\ DOMAIN PricesBestFirst(L, s) = 1 .. n
                        /\ \A i \in 1 .. n : PricesBestFirst(L, s)[i] \in DOMAIN L[s]
                        /\ \A i, j \in 1 .. n : i < j => PricesBestFirst(L, s)[i] # PricesBestFirst(L, s)[j]
                        /\ \A p \in DOMAIN L[s] : \E i \in 1 .. n : PricesBestFirst(L, s)[i] = p
<1> DEFINE D == DOMAIN L[s]
           R == {pq \in D \X D : Better(s, pq[1], pq[2])}
           P == PricesBestFirst(L, s)
           ahead(x) == {y \in D : Better(s, y, x)}
           raw      == {<<x, Cardinality(ahead(x)) + 1>> : x \in D}
           n == Cardinality(D)
<1>1. \A p, q \in D : <<p, q>> \in R <=> Better(s, p, q)
  OBVIOUS
<1>2. P = ByRank(raw, Cardinality(D))
  BY DEF PricesBestFirst, InOrder, ByRank
<1>3. raw = RankSet(D, R)
  <2>1. \A x \in D : ahead(x) = {y \in D : <<y, x>> \in R}
    BY <1>1
  <2> HIDE DEF ahead, R, D
  <2> QED
    BY <2>1 DEF RankSet
<1>4. D \subseteq Int /\ IsFiniteSet(D)
  BY PriceAssumption DEF LevelsOK
<1> HIDE DEF D, R, P, raw
<1>5. StrictOrder(D, R)
  BY <1>1, <1>4 DEF StrictOrder, Better
<1>6. ListedAs(P, D, R, n)
  BY <1>2, <1>3, <1>4, <1>5, RankedIsListed
<1>7. /\ n \in Nat /\ DOMAIN P = 1 .. n
      /\ \A i \in 1 .. n : P[i] \in D
      /\ \A i, j \in 1 .. n : i < j => Better(s, P[i], P[j])
      /\ \A p \in D : \E i \in 1 .. n : P[i] = p
  BY <1>1, <1>6 DEF ListedAs
<1>8. \A i, j \in 1 .. n : i < j => P[i] # P[j]
  <2> TAKE i, j \in 1 .. n
  <2> HAVE i < j
  <2>1. Better(s, P[i], P[j]) /\ P[i] \in Int /\ P[j] \in Int
    BY <1>4, <1>7
  <2> QED
    BY <2>1 DEF Better
<1> HIDE DEF n
<1>9. \E k \in Nat : /\ DOMAIN P = 1 .. k
                     /\ \A i \in 1 .. k : P[i] \in D
                     /\ \A i, j \in 1 .. k : i < j => P[i] # P[j]
                     /\ \A p \in D : \E i \in 1 .. k : P[i] = p
  BY <1>7, <1>8
<1> QED
  BY <1>9 DEF P, D

\* A level of orders that are not in the sum yet adds what it holds.
LEMMA LevelAdds ==
  ASSUME NEW M, IsFiniteSet(M), \A m \in M : m.remaining_qty \in Int,
         NEW q \in Seq(M), \A i, j \in 1 .. Len(q) : i # j => q[i] # q[j],
         NEW R \in SUBSET M, \A i \in 1 .. Len(q) : q[i] \notin R
  PROVE  /\ Resting!SumOver(0, 0, R \cup Taken(q, Len(q))) = Resting!SumOver(0, 0, R) + LevelQty(q)
         /\ LevelQty(q) \in Int
<1> DEFINE n == Len(q)
           S(k) == Resting!SumOver(0, 0, R \cup Taken(q, k))
<1>1. n \in Nat /\ DOMAIN q = 1 .. n /\ \A i \in 1 .. n : q[i] \in M /\ q[i].remaining_qty \in Int
  BY LenProperties, ElementOfSeq
<1>2. LevelQty(q) = QtySum!Fold(0, 0, q)
  BY DEF LevelQty, FoldLeft, MapThenFoldSet, Max,
         QtySum!Fold, QtySum!FoldLeft, QtySum!MapThenFoldSet, QtySum!Max
<1>3. \E h : QtySum!Turns(h, 0, 0, q, n)
  BY <1>1, QtySum!FoldTurns
<1>4. PICK h : /\ h[0] = 0
               /\ \A k \in 1 .. n : h[k] = h[k - 1] + q[k].remaining_qty
               /\ LevelQty(q) = h[n]
  BY <1>2, <1>3 DEF QtySum!Turns
<1>5. Resting!Whole(0, 0, M) /\ Resting!IsFiniteSet(M)
  BY DEF Resting!Whole, IsFiniteSet, Resting!IsFiniteSet
<1>6. Resting!SumOver(0, 0, R) \in Int
  <2>1. Resting!Summed(0, 0, R)
    BY <1>5, Resting!SumTakeOut
  <2> QED
    BY <2>1 DEF Resting!Summed
<1> DEFINE G == {k \in 0 .. n : h[k] \in Int /\ S(k) = Resting!SumOver(0, 0, R) + h[k]}
<1>7. 0 \in G
  <2>1. R \cup Taken(q, 0) = R
    BY DEF Taken
  <2>2. S(0) = Resting!SumOver(0, 0, R)
    BY <2>1
  <2>3. 0 \in 0 .. n
    BY <1>1
  <2> HIDE DEF S
  <2> QED
    BY <1>4, <1>6, <2>2, <2>3
<1>8. ASSUME NEW k \in 1 .. n, k - 1 \in G
      PROVE  k \in G
  <2>1. R \cup Taken(q, k) = (R \cup Taken(q, k - 1)) \cup {q[k]}
    BY <1>1 DEF Taken
  <2>2. q[k] \in M /\ q[k] \notin R \cup Taken(q, k - 1)
    <3>1. \A i \in 1 .. k - 1 : q[i] # q[k]
      BY <1>1
    <3> QED
      BY <1>1, <3>1 DEF Taken
  <2>3. R \cup Taken(q, k - 1) \in SUBSET M
    BY <1>1 DEF Taken
  <2>4. S(k) = S(k - 1) + q[k].remaining_qty
    <3> DEFINE A == R \cup Taken(q, k - 1)
    <3>1. A \in SUBSET M /\ q[k] \in M /\ q[k] \notin A
      BY <2>2, <2>3
    <3> HIDE DEF A
    <3>2. Resting!SumOver(0, 0, A \cup {q[k]}) = Resting!SumOver(0, 0, A) + q[k].remaining_qty
      BY <1>5, <3>1, Resting!SumAdd
    <3> QED
      BY <2>1, <3>2 DEF A
  <2>5. h[k - 1] \in Int /\ S(k - 1) = Resting!SumOver(0, 0, R) + h[k - 1]
    BY <1>8
  <2>6. h[k] = h[k - 1] + q[k].remaining_qty /\ q[k].remaining_qty \in Int
    BY <1>1, <1>4
  <2> HIDE DEF S
  <2> QED
    BY <1>6, <2>4, <2>5, <2>6
<1>9. n \in G
  <2> HIDE DEF G
  <2> QED
    BY <1>1, <1>7, <1>8, Upwards, n \in 0 .. n
<1> QED
  BY <1>4, <1>9

\* All the levels the order crosses together hold what its makers have.
LEMMA LiquidityIs ==
  ASSUME NEW L, LevelsOK(L), PlacedOK(L), NEW o \in Order
  PROVE  AvailableLiquidity(L, o) =
           Resting!SumOver(0, 0, Makers(RestingOrders(L), o))
<1> DEFINE s  == Opposite(o.side)
           M  == Makers(RestingOrders(L), o)
           P  == PricesBestFirst(L, s)
           lo == <<L, o>>
<1>1. s \in Side /\ o.side \in Side /\ s # o.side
  BY OppositeSide DEF Order
<1>2. PICK n \in Nat : /\ DOMAIN P = 1 .. n
                       /\ \A i \in 1 .. n : P[i] \in DOMAIN L[s]
                       /\ \A i, j \in 1 .. n : i < j => P[i] # P[j]
                       /\ \A p \in DOMAIN L[s] : \E i \in 1 .. n : P[i] = p
  <2> HIDE DEF s
  <2> QED
    BY <1>1, PricesInOrder
<1>3. AvailableLiquidity(L, o) = AvailSum!Fold(lo, 0, P)
  BY DEF AvailableLiquidity, LevelTurn, FoldLeft, MapThenFoldSet, Max,
         AvailSum!Fold, AvailSum!FoldLeft, AvailSum!MapThenFoldSet, AvailSum!Max
<1>4. \E g : AvailSum!Turns(g, lo, 0, P, n)
  <2> HIDE DEF lo, P
  <2> QED
    BY <1>2, AvailSum!FoldTurns
<1>5. PICK g : /\ g[0] = 0
               /\ \A k \in 1 .. n : g[k] = LevelTurn(lo, g[k - 1], P[k])
               /\ AvailableLiquidity(L, o) = g[n]
  BY <1>3, <1>4 DEF AvailSum!Turns
<1>6. \A k \in 1 .. n :
        g[k] = IF Crosses(o, P[k]) THEN g[k - 1] + LevelQty(L[s][P[k]]) ELSE g[k - 1]
  BY <1>5 DEF LevelTurn
<1>7. /\ OrdersApart(RestingOrders(L))
      /\ \A m \in RestingOrders(L) :
           /\ m.side \in Side /\ m.price \in DOMAIN L[m.side]
           /\ \E i \in 1 .. Len(L[m.side][m.price]) : L[m.side][m.price][i] = m
  BY RestingSoundBook
<1>8. \A m : m \in M <=> m \in RestingOrders(L) /\ m.side # o.side /\ Crosses(o, m.price)
  BY DEF Makers, Crosses, Crosses
<1>9. IsFiniteSet(M) /\ \A m \in M : m.remaining_qty \in Int
  BY <1>7, MakersInOrder
<1>10. \A m \in M : m.side = s
  BY <1>1, <1>7, <1>8 DEF Side, Opposite
<1>11. Resting!Whole(0, 0, M) /\ Resting!IsFiniteSet(M)
  <2> HIDE DEF M
  <2> QED
    BY <1>9 DEF Resting!Whole, IsFiniteSet, Resting!IsFiniteSet
<1> HIDE DEF s, M, P, lo
<1> DEFINE Upto(k) == {m \in M : \E j \in 1 .. k : P[j] = m.price}
           S(k)    == Resting!SumOver(0, 0, Upto(k))
           G       == {k \in 0 .. n : S(k) = g[k]}
<1>12. 0 \in G
  <2>1. Upto(0) = {}
    OBVIOUS
  <2>2. Resting!SumOver(0, 0, {}) = 0
    BY <1>11, Resting!SumTakeOut
  <2>3. S(0) = 0
    BY <2>1, <2>2
  <2> HIDE DEF S
  <2> QED
    BY <1>5, <2>3
<1>13. ASSUME NEW k \in 1 .. n, k - 1 \in G
       PROVE  k \in G
  <2> DEFINE q == L[s][P[k]]
  <2>0. \A j \in 1 .. k : j = k \/ j \in 1 .. k - 1
    OBVIOUS
  <2>1. \A m : m \in Upto(k) <=> m \in Upto(k - 1) \/ (m \in M /\ m.price = P[k])
    BY <2>0
  <2>2. g[k] = IF Crosses(o, P[k]) THEN g[k - 1] + LevelQty(q) ELSE g[k - 1]
    BY <1>6
  <2>3. S(k - 1) = g[k - 1]
    BY <1>13
  <2>4. CASE ~ Crosses(o, P[k])
    <3>1. Upto(k) = Upto(k - 1)
      BY <1>8, <2>1, <2>4
    <3>2. S(k) = S(k - 1)
      BY <3>1
    <3> HIDE DEF S
    <3> QED
      BY <2>2, <2>3, <2>4, <3>2
  <2>5. CASE Crosses(o, P[k])
    <3>1. P[k] \in DOMAIN L[s] /\ q \in Seq(Order) /\ Len(q) \in Nat
      BY <1>1, <1>2, LenProperties DEF LevelsOK
    <3>2. \A i, j \in 1 .. Len(q) : /\ q[i].side = s /\ q[i].price = P[k]
                                    /\ i # j => q[i].id # q[j].id
      BY <1>1, <3>1 DEF PlacedOK
    <3>3. \A i \in 1 .. Len(q) : q[i] \in RestingOrders(L)
      BY <1>1, <3>1, InResting
    <3>4. \A i \in 1 .. Len(q) : q[i] \in M
      BY <1>1, <1>8, <2>5, <3>2, <3>3
    <3>5. \A m \in M : m.price = P[k] => \E i \in 1 .. Len(q) : q[i] = m
      BY <1>7, <1>8, <1>10
    <3>6. Upto(k) = Upto(k - 1) \cup Taken(q, Len(q))
      BY <2>1, <3>2, <3>4, <3>5 DEF Taken
    <3>7. Upto(k - 1) \in SUBSET M
      OBVIOUS
    <3>8. \A i \in 1 .. Len(q) : q[i] \notin Upto(k - 1)
      <4>1. \A j \in 1 .. k - 1 : P[j] # P[k]
        BY <1>2
      <4> QED
        BY <3>2, <4>1
    <3>9. q \in Seq(M)
      <4> HIDE DEF q
      <4>1. q \in [1 .. Len(q) -> M]
        BY <3>1, <3>4, LenProperties
      <4> QED
        BY <3>1, <4>1, SeqDef
    <3>10. \A i, j \in 1 .. Len(q) : i # j => q[i] # q[j]
      BY <3>2
    <3> HIDE DEF q, Upto
    <3>11. Resting!SumOver(0, 0, Upto(k - 1) \cup Taken(q, Len(q)))
             = Resting!SumOver(0, 0, Upto(k - 1)) + LevelQty(q)
      BY <1>9, <3>7, <3>8, <3>9, <3>10, LevelAdds
    <3>12. S(k) = S(k - 1) + LevelQty(q)
      BY <3>6, <3>11
    <3> HIDE DEF S
    <3> QED
      BY <2>2, <2>3, <2>5, <3>12
  <2> QED
    BY <2>4, <2>5
<1>14. n \in G
  <2> HIDE DEF G
  <2> QED
    BY <1>12, <1>13, Upwards, n \in 0 .. n
<1>15. Upto(n) = M
  BY <1>2, <1>7, <1>8, <1>10
<1>16. S(n) = Resting!SumOver(0, 0, M)
  BY <1>15
<1> HIDE DEF S
<1>17. AvailableLiquidity(L, o) = Resting!SumOver(0, 0, M)
  BY <1>5, <1>14, <1>16
<1> QED
  BY <1>17 DEF M

-----------------------------------------------------------------------------
(* One queue at a time.                                                    *)

\* The queue at a price, which is empty where there is no level.
QueueAt(L, s, p) == IF p \in DOMAIN L[s] THEN L[s][p] ELSE << >>

\* L and K have the same queues everywhere else.
SameElsewhere(L, K, s, p) ==
  \A r \in Side : \A q \in Price : r # s \/ q # p => QueueAt(K, r, q) = QueueAt(L, r, q)

\* What the book holds, queue by queue.
LEMMA InQueueAt ==
  ASSUME NEW L, LevelsOK(L)
  PROVE  /\ \A s \in Side : \A p \in Price : QueueAt(L, s, p) \in Seq(Order)
         /\ \A m : m \in RestingOrders(L) <=>
                     \E s \in Side : \E p \in Price : m \in ToSet(QueueAt(L, s, p))
         /\ PlacedOK(L) => \A s \in Side : \A p \in Price : \A m \in ToSet(QueueAt(L, s, p)) :
                             m.side = s /\ m.price = p
<1>1. \A s \in Side : \A p \in Price : QueueAt(L, s, p) \in Seq(Order)
  BY EmptySeq DEF LevelsOK, QueueAt
<1>2. \A s \in Side : \A p \in Price \ DOMAIN L[s] : ToSet(QueueAt(L, s, p)) = {}
  <2>1. ToSet(<< >>) = {}
    BY EmptySeq DEF ToSet
  <2> QED
    BY <2>1 DEF QueueAt
<1>3. \A s \in Side : \A p \in DOMAIN L[s] : p \in Price /\ QueueAt(L, s, p) = L[s][p]
  BY DEF LevelsOK, QueueAt
<1>4. ASSUME NEW m
      PROVE  m \in RestingOrders(L) <=>
               \E s \in Side : \E p \in Price : m \in ToSet(QueueAt(L, s, p))
  <2>1. m \in RestingOrders(L) <=> \E s \in Side : \E p \in DOMAIN L[s] : m \in ToSet(L[s][p])
    BY DEF RestingOrders
  <2> QED
    BY <1>2, <1>3, <2>1
<1>5. ASSUME PlacedOK(L), NEW s \in Side, NEW p \in Price, NEW m \in ToSet(QueueAt(L, s, p))
      PROVE  m.side = s /\ m.price = p
  <2>1. p \in DOMAIN L[s] /\ m \in ToSet(L[s][p])
    BY <1>2, <1>3, <1>5
  <2>2. PICK i \in 1 .. Len(L[s][p]) : L[s][p][i] = m
    BY <2>1, LenProperties DEF ToSet, LevelsOK
  <2> QED
    BY <1>5, <2>1, <2>2 DEF PlacedOK
<1> QED
  BY <1>1, <1>4, <1>5

\* When one queue changes, its orders are the ones that leave and come.
LEMMA OneQueueChanges ==
  ASSUME NEW L, NEW K, LevelsOK(L), LevelsOK(K), PlacedOK(L),
         NEW s \in Side, NEW p \in Price, SameElsewhere(L, K, s, p)
  PROVE  /\ ToSet(QueueAt(L, s, p)) \subseteq RestingOrders(L)
         /\ RestingOrders(K) = (RestingOrders(L) \ ToSet(QueueAt(L, s, p)))
                                 \cup ToSet(QueueAt(K, s, p))
<1>1. \A m : m \in RestingOrders(L) <=>
        \E r \in Side : \E q \in Price : m \in ToSet(QueueAt(L, r, q))
  BY InQueueAt
<1>2. \A m : m \in RestingOrders(K) <=>
        \E r \in Side : \E q \in Price : m \in ToSet(QueueAt(K, r, q))
  BY InQueueAt
<1>3. \A r \in Side : \A q \in Price : \A m \in ToSet(QueueAt(L, r, q)) : m.side = r /\ m.price = q
  BY InQueueAt
<1>4. \A r \in Side : \A q \in Price : r # s \/ q # p => QueueAt(K, r, q) = QueueAt(L, r, q)
  BY DEF SameElsewhere
<1>5. ASSUME NEW m \in RestingOrders(K), m \notin ToSet(QueueAt(K, s, p))
      PROVE  m \in RestingOrders(L) /\ m \notin ToSet(QueueAt(L, s, p))
  <2>1. PICK r \in Side, q \in Price : m \in ToSet(QueueAt(K, r, q))
    BY <1>2
  <2>2. m \in ToSet(QueueAt(L, r, q)) /\ (r # s \/ q # p)
    BY <1>4, <1>5, <2>1
  <2> QED
    BY <1>1, <1>3, <2>2
<1>6. ASSUME NEW m \in RestingOrders(L), m \notin ToSet(QueueAt(L, s, p))
      PROVE  m \in RestingOrders(K)
  <2>1. PICK r \in Side, q \in Price : m \in ToSet(QueueAt(L, r, q))
    BY <1>1
  <2>2. m \in ToSet(QueueAt(K, r, q))
    BY <1>4, <1>6, <2>1
  <2> QED
    BY <1>2, <2>2
<1>7. ToSet(QueueAt(K, s, p)) \subseteq RestingOrders(K)
  BY <1>2
<1>8. ToSet(QueueAt(L, s, p)) \subseteq RestingOrders(L)
  BY <1>1
<1>9. \A m : m \in RestingOrders(K) <=>
        \/ m \in RestingOrders(L) /\ m \notin ToSet(QueueAt(L, s, p))
        \/ m \in ToSet(QueueAt(K, s, p))
  BY <1>5, <1>6, <1>7
<1> QED
  BY <1>8, <1>9

-----------------------------------------------------------------------------
(* One more maker.                                                         *)

More(T, m, n)  == [i \in 1 .. n + 1 |-> IF i = n + 1 THEN m ELSE T[i]]
Less(W, m, n)  == [i \in 0 .. n + 1 |-> IF i = n + 1 THEN W[n] - m.remaining_qty ELSE W[i]]

\* The first of the makers that are left is the next one.
LEMMA OneMoreMaker ==
  ASSUME NEW book, OrdersApart(book), NEW o \in Order, NEW T, NEW W, NEW n,
         TakesInTurn(book, o, T, W, n), W[n] > Eps,
         NEW m \in Makers(book, o), m \notin Taken(T, n),
         \A l \in Makers(book, o) : Ahead(l, m) => l \in Taken(T, n)
  PROVE  TakesInTurn(book, o, More(T, m, n), Less(W, m, n), n + 1)
<1> DEFINE M == Makers(book, o)
           T2 == More(T, m, n)
           W2 == Less(W, m, n)
<1>1. /\ n \in Nat /\ T \in [1 .. n -> M] /\ W \in [0 .. n -> Int] /\ W[0] = o.qty
      /\ \A i, j \in 1 .. n : i < j => Ahead(T[i], T[j])
      /\ \A j \in 1 .. n : \A l \in M : Ahead(l, T[j]) => \E i \in 1 .. n : T[i] = l
      /\ \A i \in 1 .. n : W[i - 1] > Eps /\ W[i] = W[i - 1] - T[i].remaining_qty
  BY DEF TakesInTurn
<1>2. /\ \A l \in M : l.remaining_qty \in Int
      /\ \A k, l \in M : k = l \/ Ahead(k, l) \/ Ahead(l, k)
  BY MakersInOrder
<1>3. m \in M /\ \A l \in M : Ahead(l, m) => \E i \in 1 .. n : T[i] = l
  BY DEF Taken
<1>4. \A i \in 1 .. n : T[i] # m
  BY DEF Taken
<1> HIDE DEF M
<1>5. n + 1 \in Nat /\ n \in 0 .. n /\ W[n] \in Int
  BY <1>1
<1>6. /\ T2 \in [1 .. n + 1 -> M] /\ T2[n + 1] = m
      /\ \A i \in 1 .. n : T2[i] = T[i]
  BY <1>1, <1>3 DEF More
<1>7. /\ W2 \in [0 .. n + 1 -> Int] /\ W2[n + 1] = W[n] - m.remaining_qty
      /\ \A i \in 0 .. n : W2[i] = W[i]
  <2>1. m.remaining_qty \in Int
    BY <1>2, <1>3
  <2>2. W[n] - m.remaining_qty \in Int
    BY <1>5, <2>1
  <2> QED
    BY <1>1, <2>2 DEF Less
<1> HIDE DEF T2, W2
<1>8. \A i \in 1 .. n + 1 : i = n + 1 \/ i \in 1 .. n
  BY <1>1
<1>9. \A i \in 1 .. n : Ahead(T[i], m)
  <2> TAKE i \in 1 .. n
  <2>1. T[i] \in M /\ T[i] # m
    BY <1>1, <1>4
  <2>2. ~ Ahead(m, T[i])
    BY <1>1, <1>3, <1>4
  <2> QED
    BY <1>2, <1>3, <2>1, <2>2
<1>10. ASSUME NEW i \in 1 .. n + 1, NEW j \in 1 .. n + 1, i < j
       PROVE  Ahead(T2[i], T2[j])
  <2>1. i \in 1 .. n
    BY <1>1, <1>10
  <2>2. CASE j = n + 1
    BY <1>6, <1>9, <2>1, <2>2
  <2>3. CASE j \in 1 .. n
    BY <1>1, <1>6, <1>10, <2>1, <2>3
  <2> QED
    BY <1>8, <2>2, <2>3
<1>11. ASSUME NEW j \in 1 .. n + 1, NEW l \in M, Ahead(l, T2[j])
       PROVE  \E i \in 1 .. n + 1 : T2[i] = l
  <2>1. \E i \in 1 .. n : T[i] = l
    BY <1>1, <1>3, <1>6, <1>8, <1>11
  <2>2. PICK i \in 1 .. n : T[i] = l
    BY <2>1
  <2>3. i \in 1 .. n + 1
    BY <1>1
  <2> QED
    BY <1>6, <2>2, <2>3
<1>12. ASSUME NEW i \in 1 .. n + 1
       PROVE  W2[i - 1] > Eps /\ W2[i] = W2[i - 1] - T2[i].remaining_qty
  <2>1. CASE i = n + 1
    <3>1. W2[i - 1] = W[n]
      BY <1>1, <1>7, <2>1, i - 1 = n
    <3> QED
      BY <1>6, <1>7, <2>1, <3>1
  <2>2. CASE i \in 1 .. n
    <3>1. i - 1 \in 0 .. n /\ i \in 0 .. n
      BY <1>1, <2>2
    <3>2. W2[i - 1] = W[i - 1] /\ W2[i] = W[i] /\ T2[i] = T[i]
      BY <1>6, <1>7, <2>2, <3>1
    <3> QED
      BY <1>1, <2>2, <3>2
  <2> QED
    BY <1>8, <2>1, <2>2
<1>13. W2[0] = o.qty
  BY <1>1, <1>7, 0 \in 0 .. n
<1> QED
  BY <1>5, <1>6, <1>7, <1>10, <1>11, <1>12, <1>13 DEF TakesInTurn, T2, W2, M

\* The trades told with one more of m, and m with what it has left after it.
OneTold(told, m, given, n) ==
  [i \in 1 .. n + 1 |->
     IF i = n + 1 THEN [maker_order_id |-> m.id, price |-> m.price, qty |-> given] ELSE told[i]]

Leftover(m, left) == IF left <= Eps THEN {} ELSE {[m EXCEPT !.remaining_qty = left]}

\* What one more maker changes: it is taken, gives what it has or what is wanted, and
\* is the only one that may have something left.
LEMMA OneMoreTrade ==
  ASSUME NEW book, OrdersApart(book), NEW o \in Order, NEW T, NEW W, NEW n,
         TakesInTurn(book, o, T, W, n), W[n] > Eps,
         NEW m \in Makers(book, o)
  PROVE  LET given == IF m.remaining_qty <= W[n] THEN m.remaining_qty ELSE W[n]
             left  == m.remaining_qty - given
         IN  /\ Taken(More(T, m, n), n + 1) = Taken(T, n) \cup {m}
             /\ LastLeft(T, W, n) = {}
             /\ LastLeft(More(T, m, n), Less(W, m, n), n + 1) = Leftover(m, left)
             /\ Less(W, m, n)[n + 1] = W[n] - m.remaining_qty
             /\ DOMAIN Dealt(T, W, n) = 1 .. n
             /\ Dealt(More(T, m, n), Less(W, m, n), n + 1) = OneTold(Dealt(T, W, n), m, given, n)
<1> DEFINE T2 == More(T, m, n)
           W2 == Less(W, m, n)
           given == IF m.remaining_qty <= W[n] THEN m.remaining_qty ELSE W[n]
           left  == m.remaining_qty - given
<1>1. n \in Nat /\ W \in [0 .. n -> Int] /\ n \in 0 .. n /\ W[n] \in Int
  BY DEF TakesInTurn
<1>2. m.remaining_qty \in Int
  BY MakersInOrder
<1>3. T2[n + 1] = m /\ \A i \in 1 .. n : T2[i] = T[i]
  BY <1>1 DEF More
<1>4. W2[n + 1] = W[n] - m.remaining_qty /\ \A i \in 0 .. n : W2[i] = W[i]
  BY <1>1 DEF Less
<1> HIDE DEF T2, W2
<1>5. \A i \in 1 .. n + 1 : i = n + 1 \/ i \in 1 .. n
  BY <1>1
<1>6. n + 1 \in 1 .. n + 1 /\ \A i \in 1 .. n : i \in 1 .. n + 1
  BY <1>1
<1>7. Taken(T2, n + 1) = Taken(T, n) \cup {m}
  <2>1. \A l : l \in Taken(T2, n + 1) <=> l \in Taken(T, n) \/ l = m
    BY <1>3, <1>5, <1>6 DEF Taken
  <2> QED
    BY <2>1
<1>8. LastLeft(T, W, n) = {}
  BY <1>1, EpsAssumption DEF LastLeft
<1>9. LastLeft(T2, W2, n + 1) = Leftover(m, left)
  <2>1. n + 1 > 0
    BY <1>1
  <2>2. LastLeft(T2, W2, n + 1) =
          IF -(W[n] - m.remaining_qty) > Eps
            THEN {[m EXCEPT !.remaining_qty = -(W[n] - m.remaining_qty)]} ELSE {}
    BY <1>3, <1>4, <2>1 DEF LastLeft
  <2>3. -(W[n] - m.remaining_qty) > Eps => left = -(W[n] - m.remaining_qty)
    BY <1>1, <1>2, EpsAssumption
  <2>4. -(W[n] - m.remaining_qty) > Eps <=> ~ (left <= Eps)
    BY <1>1, <1>2, EpsAssumption
  <2> HIDE DEF left
  <2> QED
    BY <2>2, <2>3, <2>4 DEF Leftover
<1>10. DOMAIN Dealt(T, W, n) = 1 .. n
  BY DEF Dealt
<1>11. \A i \in 1 .. n : GivenBy(T2, W2, i) = GivenBy(T, W, i) /\ T2[i] = T[i]
  <2> TAKE i \in 1 .. n
  <2>1. i - 1 \in 0 .. n
    BY <1>1
  <2> QED
    BY <1>3, <1>4, <2>1 DEF GivenBy
<1>12. GivenBy(T2, W2, n + 1) = given
  <2>1. W2[(n + 1) - 1] = W[n]
    BY <1>1, <1>4
  <2> QED
    BY <1>3, <2>1 DEF GivenBy
<1>13. Dealt(T2, W2, n + 1) = OneTold(Dealt(T, W, n), m, given, n)
  <2> HIDE DEF given
  <2>1. \A i \in 1 .. n + 1 :
          [maker_order_id |-> T2[i].id, price |-> T2[i].price, qty |-> GivenBy(T2, W2, i)]
            = IF i = n + 1 THEN [maker_order_id |-> m.id, price |-> m.price, qty |-> given]
                           ELSE Dealt(T, W, n)[i]
    <3> TAKE i \in 1 .. n + 1
    <3>1. CASE i = n + 1
      BY <1>3, <1>12, <3>1
    <3>2. CASE i \in 1 .. n /\ i # n + 1
      BY <1>11, <3>2 DEF Dealt
    <3> QED
      BY <1>5, <3>1, <3>2
  <2> QED
    BY <2>1 DEF Dealt, OneTold
<1> QED
  BY <1>4, <1>7, <1>8, <1>9, <1>10, <1>13 DEF T2, W2

\* What PriceTimeBook tells of trades.
Told(ts) == [i \in DOMAIN ts |-> [maker_order_id |-> ts[i].maker_order_id,
                                  price |-> ts[i].price, qty |-> ts[i].qty]]

\* The liquidity check decides whether PriceTimeBook kills the order.
LEMMA KilledIs ==
  ASSUME NEW L, LevelsOK(L), PlacedOK(L), NEW o \in Order
  PROVE  Killed(RestingOrders(L), o) <=> o.tif = "FOK" /\ AvailableLiquidity(L, o) < o.qty
<1> DEFINE M == Makers(RestingOrders(L), o)
           a == Resting!SumOver(0, 0, M)
<1>1. IsFiniteSet(M) /\ \A m \in M : m.remaining_qty \in Int
  BY RestingSoundBook, MakersInOrder
<1>2. AvailableLiquidity(L, o) = a
  BY LiquidityIs
<1>3. Killed(RestingOrders(L), o) <=> o.tif = "FOK" /\ o.qty > a
  <2>1. MapThenSumSet(Remaining, M) = a
    <3> HIDE DEF M
    <3> QED
      BY DEF MapThenSumSet, MapThenFoldSet, Remaining,
             Resting!SumOver, Resting!MapThenSumSet, Resting!MapThenFoldSet
  <2> QED
    BY <2>1 DEF Killed
<1>4. a \in Int
  <2> HIDE DEF M
  <2>1. Resting!Whole(0, 0, M) /\ Resting!IsFiniteSet(M)
    BY <1>1 DEF Resting!Whole, IsFiniteSet, Resting!IsFiniteSet
  <2>2. Resting!Summed(0, 0, M)
    BY <2>1, Resting!SumTakeOut
  <2> QED
    BY <2>2 DEF Resting!Summed
<1>5. o.qty \in Int
  BY QtyAssumption DEF Order
<1> HIDE DEF a
<1> QED
  BY <1>2, <1>3, <1>4, <1>5

-----------------------------------------------------------------------------
(* submit trades with the makers in turn.                                  *)

\* One more trade is told after the others.
LEMMA ToldMore ==
  ASSUME NEW ts \in Seq(Trade), NEW n \in Nat, DOMAIN Told(ts) = 1 .. n,
         NEW t, NEW m, t.maker_order_id = m.id, t.price = m.price
  PROVE  Told(Append(ts, t)) = OneTold(Told(ts), m, t.qty, n)
<1>1. DOMAIN ts = 1 .. n /\ Len(ts) = n
  <2>1. DOMAIN ts = 1 .. n
    BY DEF Told
  <2> QED
    BY <2>1, LenProperties
<1>2. /\ DOMAIN Append(ts, t) = 1 .. n + 1
      /\ \A i \in 1 .. n + 1 : Append(ts, t)[i] = IF i = n + 1 THEN t ELSE ts[i]
  BY <1>1
<1>3. \A i \in 1 .. n : Told(ts)[i] = [maker_order_id |-> ts[i].maker_order_id,
                                       price |-> ts[i].price, qty |-> ts[i].qty]
  BY <1>1 DEF Told
<1>4. \A i \in 1 .. n + 1 :
        [maker_order_id |-> Append(ts, t)[i].maker_order_id,
         price |-> Append(ts, t)[i].price, qty |-> Append(ts, t)[i].qty] =
        IF i = n + 1 THEN [maker_order_id |-> m.id, price |-> m.price, qty |-> t.qty]
                     ELSE Told(ts)[i]
  <2> TAKE i \in 1 .. n + 1
  <2>1. CASE i = n + 1
    BY <1>2, <2>1
  <2>2. CASE i # n + 1
    <3>1. i \in 1 .. n
      BY <2>2
    <3> QED
      BY <1>2, <1>3, <2>2, <3>1
  <2> QED
    BY <2>1, <2>2
<1> QED
  BY <1>2, <1>4 DEF Told, OneTold

\* The level holds the makers that come next after those in prev, first to last.
LevelNext(level, prev, book, o) ==
  /\ \A j \in 1 .. Len(level) : level[j] \in Makers(book, o) /\ level[j] \notin prev
  /\ \A i, j \in 1 .. Len(level) : level[i] = level[j] => i = j
  /\ \A j \in 1 .. Len(level) : \A m \in Makers(book, o) :
       Ahead(m, level[j]) => m \in prev \/ \E i \in 1 .. j - 1 : m = level[i]

\* The inner loop after the makers 1 to k of the level: those it traded with, with the
\* ones of the levels before, are T[1] to T[n].
FilledBy(m, k, level, prev, book, o, T, W, n) ==
  /\ TakesInTurn(book, o, T, W, n)
  /\ m.taker.remaining_qty = IF n = 0 \/ W[n] >= 0 THEN W[n] ELSE 0
  /\ Told(m.trades) = Dealt(T, W, n)
  /\ prev \subseteq Taken(T, n) /\ Taken(T, n) \subseteq prev \cup Taken(level, k)
  /\ W[n] > Eps => Taken(level, k) \subseteq Taken(T, n)
  /\ ToSet(m.queue) \cup (Taken(level, Len(level)) \ Taken(level, k))
       = (Taken(level, Len(level)) \ Taken(T, n)) \cup LastLeft(T, W, n)

\* One turn of the inner loop is one more of them, or none.
LEMMA FillByRules ==
  ASSUME NEW book, OrdersApart(book), NEW o \in Order,
         NEW level \in Seq(Order), NEW prev, LevelNext(level, prev, book, o),
         NEW px \in Price, \A j \in 1 .. Len(level) : level[j].price = px,
         NEW k \in 1 .. Len(level), NEW m,
         m.trades \in Seq(Trade), m.queue \in Seq(Order),
         m.taker.remaining_qty \in Int, m.queue # << >> => m.taker.remaining_qty <= Eps,
         NEW T, NEW W, NEW n, FilledBy(m, k - 1, level, prev, book, o, T, W, n)
  PROVE  \E T2, W2, n2 :
           FilledBy(FillMaker(m, level[k], px), k, level, prev, book, o, T2, W2, n2)
<1> DEFINE maker == level[k]
           N     == Len(level)
           r     == FillMaker(m, maker, px)
<1>1. /\ maker \in Makers(book, o) /\ maker \notin prev /\ maker.price = px
      /\ maker \in Order /\ maker.remaining_qty \in Int /\ N \in Nat
  <2>1. maker \in Order /\ N \in Nat
    BY LenProperties, ElementOfSeq
  <2>2. maker \in Makers(book, o) /\ maker \notin prev
    BY DEF LevelNext
  <2> QED
    BY <2>1, <2>2 DEF Order
<1>2. /\ TakesInTurn(book, o, T, W, n)
      /\ m.taker.remaining_qty = IF n = 0 \/ W[n] >= 0 THEN W[n] ELSE 0
      /\ Told(m.trades) = Dealt(T, W, n)
      /\ prev \subseteq Taken(T, n) /\ Taken(T, n) \subseteq prev \cup Taken(level, k - 1)
      /\ W[n] > Eps => Taken(level, k - 1) \subseteq Taken(T, n)
      /\ ToSet(m.queue) \cup (Taken(level, N) \ Taken(level, k - 1))
           = (Taken(level, N) \ Taken(T, n)) \cup LastLeft(T, W, n)
  BY DEF FilledBy
<1>3. n \in Nat /\ W[n] \in Int /\ Eps \in Nat
  BY <1>2, EpsAssumption DEF TakesInTurn
<1>4. /\ Taken(level, k) = Taken(level, k - 1) \cup {maker}
      /\ maker \notin Taken(level, k - 1) /\ maker \in Taken(level, N)
  <2>1. \A i \in 1 .. k - 1 : level[i] # maker
    BY <1>1 DEF LevelNext
  <2>2. 1 .. k = (1 .. k - 1) \cup {k}
    BY <1>1
  <2> QED
    BY <2>1, <2>2 DEF Taken
<1>5. CASE m.taker.remaining_qty <= Eps
  <2>1. /\ r.taker = m.taker /\ r.trades = m.trades /\ r.queue = Append(m.queue, maker)
    <3>1. r = [m EXCEPT !.queue = Append(m.queue, maker)]
      BY <1>5 DEF FillMaker
    <3> QED
      BY <3>1
  <2>2. ToSet(r.queue) = ToSet(m.queue) \cup {maker}
    BY <1>1, <2>1, AppendToQueue
  <2>3. ~ (W[n] > Eps)
    BY <1>2, <1>3, <1>5
  <2> HIDE DEF r
  <2>4. ToSet(r.queue) \cup (Taken(level, N) \ Taken(level, k))
          = (Taken(level, N) \ Taken(T, n)) \cup LastLeft(T, W, n)
    BY <1>2, <1>4, <2>2
  <2>5. FilledBy(r, k, level, prev, book, o, T, W, n)
    BY <1>2, <1>4, <2>1, <2>3, <2>4 DEF FilledBy
  <2> QED
    BY <2>5 DEF r
<1>6. CASE m.taker.remaining_qty > Eps
  <2> DEFINE given == IF maker.remaining_qty <= W[n] THEN maker.remaining_qty ELSE W[n]
             left  == maker.remaining_qty - given
             T2    == More(T, maker, n)
             W2    == Less(W, maker, n)
             trade == [id |-> m.next_trade_id + 1, maker_order_id |-> maker.id,
                       taker_order_id |-> m.taker.id, price |-> px, qty |-> given,
                       timestamp_ms |-> m.taker.timestamp_ms]
  <2>1. W[n] = m.taker.remaining_qty /\ W[n] > Eps /\ m.queue = << >>
    BY <1>2, <1>3, <1>6
  <2>2. /\ maker \notin Taken(T, n)
        /\ \A x \in Makers(book, o) : Ahead(x, maker) => x \in Taken(T, n)
    <3>1. maker \notin Taken(T, n)
      BY <1>1, <1>2, <1>4
    <3>2. ASSUME NEW x \in Makers(book, o), Ahead(x, maker) PROVE x \in Taken(T, n)
      <4>1. x \in prev \/ \E i \in 1 .. k - 1 : x = level[i]
        BY <3>2 DEF LevelNext
      <4> QED
        BY <1>2, <2>1, <4>1 DEF Taken
    <3> QED
      BY <3>1, <3>2
  <2>3. Min({m.taker.remaining_qty, maker.remaining_qty}) = given
    <3>1. Min({W[n], maker.remaining_qty}) =
            IF W[n] <= maker.remaining_qty THEN W[n] ELSE maker.remaining_qty
      BY <1>1, <1>3, MinOfTwo
    <3> QED
      BY <1>1, <1>3, <2>1, <3>1
  <2>4. /\ r.taker = [m.taker EXCEPT !.remaining_qty = m.taker.remaining_qty - given]
        /\ r.trades = Append(m.trades, trade)
        /\ r.queue = IF left <= Eps THEN m.queue
                     ELSE Append(m.queue, [maker EXCEPT !.remaining_qty = left])
    <3>1. ~ (m.taker.remaining_qty <= Eps)
      BY <1>3, <1>6
    <3> HIDE DEF given
    <3> QED
      BY <2>3, <3>1 DEF FillMaker
  <2> HIDE DEF r
  <2>5. TakesInTurn(book, o, T2, W2, n + 1)
    BY <1>1, <1>2, <2>1, <2>2, OneMoreMaker
  <2>6. /\ Taken(T2, n + 1) = Taken(T, n) \cup {maker}
        /\ LastLeft(T, W, n) = {}
        /\ LastLeft(T2, W2, n + 1) = Leftover(maker, left)
        /\ W2[n + 1] = W[n] - maker.remaining_qty
        /\ DOMAIN Dealt(T, W, n) = 1 .. n
        /\ Dealt(T2, W2, n + 1) = OneTold(Dealt(T, W, n), maker, given, n)
    BY <1>1, <1>2, <2>1, OneMoreTrade
  <2> HIDE DEF T2, W2
  <2>7. Told(r.trades) = Dealt(T2, W2, n + 1)
    <3>1. trade.maker_order_id = maker.id /\ trade.price = maker.price /\ trade.qty = given
      BY <1>1
    <3> HIDE DEF trade, given
    <3>2. Told(Append(m.trades, trade)) = OneTold(Told(m.trades), maker, trade.qty, n)
      BY <1>2, <1>3, <2>6, <3>1, ToldMore
    <3> QED
      BY <1>2, <2>4, <2>6, <3>1, <3>2
  <2>8. r.taker.remaining_qty = IF n + 1 = 0 \/ W2[n + 1] >= 0 THEN W2[n + 1] ELSE 0
    <3>1. r.taker.remaining_qty = W[n] - given
      BY <2>1, <2>4
    <3> QED
      BY <1>1, <1>3, <2>6, <3>1
  <2>9. ToSet(r.queue) = Leftover(maker, left)
    <3>1. ToSet(<< >>) = {}
      BY DEF ToSet
    <3>2. \A x : ToSet(Append(<< >>, x)) = {x}
      BY DEF ToSet
    <3> HIDE DEF left
    <3> QED
      BY <2>1, <2>4, <3>1, <3>2 DEF Leftover
  <2> HIDE DEF given, left, trade
  <2>10. ToSet(r.queue) \cup (Taken(level, N) \ Taken(level, k))
           = (Taken(level, N) \ Taken(T2, n + 1)) \cup LastLeft(T2, W2, n + 1)
    <3>1. \A x \in Taken(level, N) : x \in Taken(T, n) <=> x \in Taken(level, k - 1)
      <4>1. \A x \in Taken(level, N) : x \notin prev
        BY DEF LevelNext, Taken
      <4> QED
        BY <1>2, <2>1, <4>1
    <3> QED
      BY <1>4, <2>6, <2>9, <3>1
  <2>11. /\ prev \subseteq Taken(T2, n + 1) /\ Taken(T2, n + 1) \subseteq prev \cup Taken(level, k)
         /\ Taken(level, k) \subseteq Taken(T2, n + 1)
    BY <1>2, <1>4, <2>1, <2>6
  <2>12. FilledBy(r, k, level, prev, book, o, T2, W2, n + 1)
    BY <2>5, <2>7, <2>8, <2>10, <2>11 DEF FilledBy
  <2> QED
    BY <2>12 DEF r
<1> QED
  BY <1>3, <1>5, <1>6

\* The inner loop goes through the makers of a level in turn.
LEMMA LevelByRules ==
  ASSUME NEW book, OrdersApart(book), NEW o \in Order,
         NEW level \in Seq(Order), \A j \in 1 .. Len(level) : level[j].remaining_qty > Eps,
         NEW px \in Price, \A j \in 1 .. Len(level) : level[j].price = px,
         NEW taker \in Order, taker.remaining_qty \in Int, NEW trades \in Seq(Trade),
         NEW next_trade_id \in Nat,
         NEW T, NEW W, NEW n, TakesInTurn(book, o, T, W, n),
         taker.remaining_qty = W[n], W[n] > Eps, Told(trades) = Dealt(T, W, n),
         LevelNext(level, Taken(T, n), book, o)
  PROVE  \E T2, W2, n2 :
           FilledBy(DrainLevel(level, taker, px, trades, next_trade_id), Len(level), level,
                    Taken(T, n), book, o, T2, W2, n2)
<1> DEFINE prev == Taken(T, n)
           N    == Len(level)
<1>1. PICK f : DrainTurns(f, level, taker, px, trades, next_trade_id, N)
  BY DrainTurnsSound
<1>2. /\ f[0] = [taker |-> taker, trades |-> trades, next_trade_id |-> next_trade_id,
                 queue |-> << >>, filled_ids |-> {}]
      /\ \A k \in 1 .. N : f[k] = FillMaker(f[k - 1], level[k], px)
      /\ DrainLevel(level, taker, px, trades, next_trade_id) = f[N]
      /\ \A k \in 0 .. N : DrainState(f[k], k, level, taker, trades, next_trade_id)
  BY <1>1 DEF DrainTurns
<1>3. N \in Nat /\ n \in Nat /\ W[n] \in Int /\ Eps \in Nat
  BY LenProperties, EpsAssumption DEF TakesInTurn
<1> DEFINE By(k, T2, W2, n2) == FilledBy(f[k], k, level, prev, book, o, T2, W2, n2)
           G == {k \in 0 .. N : \E T2, W2, n2 : By(k, T2, W2, n2)}
<1>4. By(0, T, W, n)
  <2>1. ToSet(<< >>) = {} /\ Taken(level, 0) = {}
    BY DEF ToSet, Taken
  <2>2. LastLeft(T, W, n) = {}
    BY <1>3 DEF LastLeft
  <2>3. \A x \in Taken(level, N) : x \notin prev
    BY DEF LevelNext, Taken
  <2> HIDE DEF prev, N
  <2>4. ToSet(f[0].queue) \cup (Taken(level, N) \ Taken(level, 0))
          = (Taken(level, N) \ prev) \cup LastLeft(T, W, n)
    BY <1>2, <2>1, <2>2, <2>3
  <2>5. W[n] >= 0 /\ f[0].taker = taker /\ f[0].trades = trades
    BY <1>2, <1>3
  <2> QED
    BY <2>1, <2>4, <2>5 DEF FilledBy, prev, N
<1>5. ASSUME NEW k \in 1 .. N, k - 1 \in G
      PROVE  k \in G
  <2>1. k - 1 \in 0 .. N
    BY <1>3
  <2>2. PICK T2, W2, n2 : By(k - 1, T2, W2, n2)
    BY <1>5
  <2>3. DrainState(f[k - 1], k - 1, level, taker, trades, next_trade_id)
    BY <1>2, <2>1
  <2>4. /\ f[k - 1].trades \in Seq(Trade) /\ f[k - 1].queue \in Seq(Order)
        /\ f[k - 1].taker.remaining_qty \in Int
        /\ f[k - 1].queue # << >> => f[k - 1].taker.remaining_qty <= Eps
    BY <2>3 DEF DrainState, TakerReduced
  <2>5. \E T3, W3, n3 :
          FilledBy(FillMaker(f[k - 1], level[k], px), k, level, prev, book, o, T3, W3, n3)
    <3> HIDE DEF prev
    <3>1. LevelNext(level, prev, book, o)
      BY DEF prev
    <3> QED
      BY <2>2, <2>4, <3>1, FillByRules
  <2> QED
    BY <1>2, <2>5
<1>6. 0 \in G
  BY <1>3, <1>4
<1>7. \A k \in 0 .. N : k \in G
  <2> HIDE DEF G, N
  <2> QED
    BY <1>3, <1>5, <1>6, Upwards
<1> QED
  BY <1>2, <1>3, <1>7

\* A sound book is what the lemmas about sets of orders ask for.
LEMMA SoundLevels ==
  ASSUME NEW b, BookSound(b)
  PROVE  /\ LevelsOK(b.levels) /\ PlacedOK(b.levels) /\ OrdersApart(RestingOrders(b.levels))
         /\ \A m \in RestingOrders(b.levels) :
              /\ m.side \in Side /\ m.price \in DOMAIN b.levels[m.side]
              /\ \E i \in 1 .. Len(b.levels[m.side][m.price]) : b.levels[m.side][m.price][i] = m
<1> DEFINE L == b.levels
<1>1. /\ DOMAIN L = Side
      /\ \A s \in Side : /\ DOMAIN L[s] \subseteq Price /\ IsFiniteSet(DOMAIN L[s])
                         /\ \A p \in DOMAIN L[s] : L[s][p] \in Seq(Order)
  BY DEF BookSound, BookType
<1>2. LevelsOK(L)
  BY <1>1 DEF LevelsOK
<1>3. \A s \in Side : \A p \in DOMAIN L[s] : \A i \in 1 .. Len(L[s][p]) : PlacedSoundly(b, s, p, i)
  BY DEF BookSound
<1>4. PlacedOK(L)
  <2> SUFFICES ASSUME NEW s \in Side, NEW p \in DOMAIN L[s], NEW i \in 1 .. Len(L[s][p]),
                      NEW j \in 1 .. Len(L[s][p])
               PROVE  /\ L[s][p][i].side = s /\ L[s][p][i].price = p
                      /\ L[s][p][i].remaining_qty > Eps
                      /\ i # j => L[s][p][i].id # L[s][p][j].id
    BY DEF PlacedOK
  <2>1. PlacedSoundly(b, s, p, i)
    BY <1>3
  <2> QED
    BY <2>1 DEF PlacedSoundly, ShouldRest
<1> QED
  BY <1>2, <1>4, RestingSoundBook

\* Older orders stand before younger ones, whose identifiers are larger.
QueueOldestFirst(queue) == \A i, j \in 1 .. Len(queue) : i < j => queue[i].id < queue[j].id
OldestFirst(b) == \A s \in Side : \A px \in DOMAIN b.levels[s] : QueueOldestFirst(b.levels[s][px])

\* What replacing one level does to the orders on the book.
LEMMA ReplacedOrders ==
  ASSUME NEW b, BookSound(b), NEW r, BookSound(r),
         NEW side \in Side, NEW px \in DOMAIN b.levels[side], NEW queue, NEW ids,
         Replaced(b, r, side, px, queue, ids)
  PROVE  /\ RestingOrders(r.levels) =
              (RestingOrders(b.levels) \ ToSet(b.levels[side][px])) \cup ToSet(queue)
         /\ OldestFirst(b) /\ QueueOldestFirst(queue) => OldestFirst(r)
<1>1. /\ LevelsOK(b.levels) /\ PlacedOK(b.levels) /\ LevelsOK(r.levels)
  BY SoundLevels
<1>2. px \in Price
  BY DEF BookSound, BookType
<1>3. /\ \A s \in Side : s # side => r.levels[s] = b.levels[s]
      /\ DOMAIN r.levels[side] = IF queue = << >> THEN DOMAIN b.levels[side] \ {px}
                                                ELSE DOMAIN b.levels[side]
      /\ \A p \in DOMAIN r.levels[side] :
           r.levels[side][p] = IF p = px THEN queue ELSE b.levels[side][p]
  BY DEF Replaced
<1>4. SameElsewhere(b.levels, r.levels, side, px)
  <2> SUFFICES ASSUME NEW s \in Side, NEW p \in Price, s # side \/ p # px
               PROVE  QueueAt(r.levels, s, p) = QueueAt(b.levels, s, p)
    BY DEF SameElsewhere
  <2>1. CASE s # side
    BY <1>3, <2>1 DEF QueueAt
  <2>2. CASE s = side
    <3>1. p \in DOMAIN r.levels[side] <=> p \in DOMAIN b.levels[side]
      BY <1>3, <2>2
    <3> QED
      BY <1>3, <2>2, <3>1 DEF QueueAt
  <2> QED
    BY <2>1, <2>2
<1>5. QueueAt(b.levels, side, px) = b.levels[side][px] /\ QueueAt(r.levels, side, px) = queue
  BY <1>3 DEF QueueAt
<1>6. RestingOrders(r.levels) =
        (RestingOrders(b.levels) \ ToSet(b.levels[side][px])) \cup ToSet(queue)
  BY <1>1, <1>2, <1>4, <1>5, OneQueueChanges
<1>7. ASSUME OldestFirst(b), QueueOldestFirst(queue) PROVE OldestFirst(r)
  <2> SUFFICES ASSUME NEW s \in Side, NEW p \in DOMAIN r.levels[s]
               PROVE  QueueOldestFirst(r.levels[s][p])
    BY DEF OldestFirst
  <2>1. CASE s # side
    BY <1>3, <1>7, <2>1 DEF OldestFirst
  <2>2. CASE s = side
    BY <1>3, <1>7, <2>2 DEF OldestFirst
  <2> QED
    BY <2>1, <2>2
<1> QED
  BY <1>6, <1>7

\* The outer loop so far: the makers it traded with are T[1] to T[n], and the book is
\* what they leave of the one it began with.
TradedBy(m, book, o, T, W, n) ==
  /\ TakesInTurn(book, o, T, W, n)
  /\ m.taker.remaining_qty = IF n = 0 \/ W[n] >= 0 THEN W[n] ELSE 0
  /\ Told(m.trades) = Dealt(T, W, n)
  /\ RestingOrders(m.book.levels) = BookAfter(book, T, W, n)

\* While the taker wants more, the orders left are those it has not come to.
LEMMA WantsMore ==
  ASSUME NEW m, NEW book, NEW o, NEW T, NEW W, NEW n, TradedBy(m, book, o, T, W, n),
         m.taker.remaining_qty > Eps
  PROVE  /\ m.taker.remaining_qty = W[n] /\ W[n] > Eps /\ W[n] \in Int
         /\ RestingOrders(m.book.levels) = book \ Taken(T, n)
<1>1. n \in Nat /\ W[n] \in Int /\ Eps \in Nat
  BY EpsAssumption DEF TradedBy, TakesInTurn
<1>2. m.taker.remaining_qty = W[n] /\ W[n] > Eps
  BY <1>1 DEF TradedBy
<1>3. LastLeft(T, W, n) = {}
  BY <1>1, <1>2 DEF LastLeft
<1> QED
  BY <1>1, <1>2, <1>3 DEF TradedBy, BookAfter

\* A level the taker crosses holds the makers that come next, when the better levels
\* are done with.
LEMMA NextLevelIs ==
  ASSUME NEW b, BookSound(b), NEW book, book = RestingOrders(b.levels), NEW o \in Order,
         NEW m, BookSound(m.book), OldestFirst(m.book),
         NEW across, across = Opposite(o.side), NEW px \in DOMAIN m.book.levels[across],
         Crosses(o, px),
         NEW taken, RestingOrders(m.book.levels) = book \ taken,
         \A p \in DOMAIN m.book.levels[across] : Better(across, p, px) => ~Crosses(o, p)
  PROVE  LevelNext(m.book.levels[across][px], taken, book, o)
<1> DEFINE L     == m.book.levels
           level == L[across][px]
<1>1. across \in Side /\ across # o.side
  BY OppositeSide DEF Order
<1>2. /\ LevelsOK(L) /\ PlacedOK(L)
      /\ \A x \in RestingOrders(L) :
           /\ x.side \in Side /\ x.price \in DOMAIN L[x.side]
           /\ \E i \in 1 .. Len(L[x.side][x.price]) : L[x.side][x.price][i] = x
  BY SoundLevels
<1>3. level \in Seq(Order) /\ Len(level) \in Nat /\ \A j \in 1 .. Len(level) : level[j] \in Order
  <2>1. level \in Seq(Order)
    BY <1>1, <1>2 DEF LevelsOK
  <2> HIDE DEF level
  <2> QED
    BY <2>1, InQueue
<1>4. \A j \in 1 .. Len(level) : level[j].side = across /\ level[j].price = px
  BY <1>1, <1>2 DEF PlacedOK
<1>5. \A j \in 1 .. Len(level) : level[j] \in book /\ level[j] \notin taken
  <2>1. \A j \in 1 .. Len(level) : level[j] \in RestingOrders(L)
    BY <1>1, <1>2, InResting
  <2> QED
    BY <2>1
<1>6. \A j \in 1 .. Len(level) : level[j] \in Makers(book, o)
  <2> HIDE DEF level
  <2> QED
    BY <1>1, <1>4, <1>5 DEF Makers
<1>7. \A i, j \in 1 .. Len(level) : i < j => level[i].id < level[j].id
  BY <1>1 DEF OldestFirst, QueueOldestFirst
<1>8. \A i, j \in 1 .. Len(level) : level[i] = level[j] => i = j
  <2> HIDE DEF level
  <2> SUFFICES ASSUME NEW i \in 1 .. Len(level), NEW j \in 1 .. Len(level),
                      level[i] = level[j], i # j
               PROVE  FALSE
    OBVIOUS
  <2>1. level[i].id \in Nat
    BY <1>3 DEF Order
  <2>2. i < j \/ j < i
    BY <1>3
  <2> QED
    BY <1>7, <2>1, <2>2
<1>9. ASSUME NEW j \in 1 .. Len(level), NEW x \in Makers(book, o), Ahead(x, level[j]),
             x \notin taken
      PROVE  \E i \in 1 .. j - 1 : x = level[i]
  <2>1. x \in RestingOrders(L) /\ x.side # o.side /\ Crosses(o, x.price)
    BY <1>9 DEF Makers
  <2>2. x.side = across
    BY <1>2, <2>1 DEF Order, Opposite, Side
  <2>3. x.price \in DOMAIN L[across] /\ x.price \in Int /\ px \in Int
    BY <1>1, <1>2, <2>1, <2>2, PriceAssumption DEF LevelsOK
  <2>4. ~ Better(across, x.price, px)
    BY <2>1, <2>3
  <2>5. x.price = px /\ x.id < level[j].id
    <3> HIDE DEF level
    <3> QED
      BY <1>4, <1>9, <2>2, <2>4 DEF Ahead
  <2>6. PICK i \in 1 .. Len(level) : x = level[i]
    BY <1>2, <2>1, <2>2, <2>5
  <2> HIDE DEF level
  <2>7. i < j
    <3>1. level[i].id \in Nat /\ level[j].id \in Nat
      BY <1>3 DEF Order
    <3>2. level[i].id < level[j].id
      BY <2>5, <2>6
    <3>3. ~ (j < i) /\ i # j
      BY <1>7, <3>1, <3>2
    <3> QED
      BY <1>3, <3>3
  <2>8. i \in 1 .. j - 1
    BY <1>3, <2>7
  <2> QED
    BY <2>6, <2>8
<1> HIDE DEF level
<1>10. LevelNext(level, taken, book, o)
  BY <1>5, <1>6, <1>8, <1>9 DEF LevelNext
<1> QED
  BY <1>10 DEF level

\* What the inner loop keeps of a level stays in the order it had.
LEMMA KeptOldestFirst ==
  ASSUME NEW level, NEW c \in 0 .. Len(level), Len(level) \in Nat, QueueOldestFirst(level),
         NEW queue, QueueKept(queue, level, c, Len(level))
  PROVE  QueueOldestFirst(queue)
<1>1. /\ Len(queue) = Len(level) - c
      /\ \A j \in 1 .. Len(level) - c :
           queue[j] = [level[c + j] EXCEPT !.remaining_qty = queue[j].remaining_qty]
  BY DEF QueueKept
<1>2. \A j \in 1 .. Len(level) - c : queue[j].id = level[c + j].id /\ c + j \in 1 .. Len(level)
  <2> TAKE j \in 1 .. Len(level) - c
  <2>1. c + j \in 1 .. Len(level)
    OBVIOUS
  <2>2. queue[j] = [level[c + j] EXCEPT !.remaining_qty = queue[j].remaining_qty]
    BY <1>1
  <2>3. \A l, q : [l EXCEPT !.remaining_qty = q].id = l.id
    OBVIOUS
  <2> QED
    BY <2>1, <2>2, <2>3
<1>3. \A i, j \in 1 .. Len(level) - c : i < j => c + i < c + j
  OBVIOUS
<1> QED
  BY <1>1, <1>2, <1>3 DEF QueueOldestFirst

\* A book after some makers of a level, and the same book after the next of them.
LEMMA OneLevelMore ==
  ASSUME NEW book, NEW taken, NEW taken2, NEW inLevel, NEW kept, NEW left,
         inLevel \subseteq book, taken \subseteq taken2, taken2 \subseteq taken \cup inLevel,
         kept = (inLevel \ taken2) \cup left
  PROVE  ((book \ taken) \ inLevel) \cup kept = (book \ taken2) \cup left
OBVIOUS

\* One turn of the outer loop is a few more of them, or none.
LEMMA TradeLevelByRules ==
  ASSUME NEW b, BookSound(b), NEW book, book = RestingOrders(b.levels), NEW o \in Order,
         NEW m, BookSound(m.book), OldestFirst(m.book), m.trades \in Seq(Trade),
         TakerReduced(m.taker, o),
         NEW across, across = Opposite(o.side), NEW px \in DOMAIN m.book.levels[across],
         m.taker.remaining_qty > Eps =>
           \A p \in DOMAIN m.book.levels[across] : Better(across, p, px) => ~Crosses(o, p),
         NEW T, NEW W, NEW n, TradedBy(m, book, o, T, W, n),
         NEW r, r = MatchLevel(m, px), BookSound(r.book)
  PROVE  /\ OldestFirst(r.book)
         /\ \E T2, W2, n2 : TradedBy(r, book, o, T2, W2, n2)
<1>1. across \in Side
  BY OppositeSide DEF Order
<1>2. /\ m.taker \in Order /\ m.taker.remaining_qty \in Int /\ m.taker.side = o.side
      /\ \A p : Crosses(m.taker, p) <=> Crosses(o, p)
  BY ReducedTaker
<1>3. Eps \in Nat
  BY EpsAssumption
<1>4. CASE m.taker.remaining_qty <= Eps \/ ~Crosses(m.taker, px)
  <2>1. r = m
    BY <1>4 DEF MatchLevel
  <2> QED
    BY <2>1
<1>5. CASE ~(m.taker.remaining_qty <= Eps \/ ~Crosses(m.taker, px))
  <2> DEFINE level == m.book.levels[across][px]
             N     == Len(level)
             d     == DrainLevel(level, m.taker, px, m.trades, m.book.next_trade_id)
             ids   == d.filled_ids
  <2>1. /\ r.taker = d.taker /\ r.trades = d.trades
        /\ r.book = [levels        |-> [m.book.levels EXCEPT ![across] =
                                          LevelsWith(m.book.levels[across], px, d.queue)],
                     index         |-> Without(m.book.index, d.filled_ids),
                     next_trade_id |-> d.next_trade_id]
    BY <1>2, <1>5 DEF MatchLevel, LevelsWith
  <2>2. /\ m.book.next_trade_id \in Nat /\ DOMAIN m.book.levels = Side
        /\ level \in Seq(Order) /\ px \in Price
        /\ \A i \in 1 .. N : PlacedSoundly(m.book, across, px, i)
    BY <1>1 DEF BookSound, BookType
  <2>3. /\ \A i \in 1 .. N : level[i].remaining_qty > Eps
        /\ \A i \in 1 .. N : level[i].price = px
    BY Zenon, <2>2 DEF PlacedSoundly, ShouldRest
  <2>4. /\ m.taker.remaining_qty = W[n] /\ W[n] > Eps
        /\ RestingOrders(m.book.levels) = book \ Taken(T, n)
    <3>1. m.taker.remaining_qty > Eps
      BY <1>2, <1>3, <1>5
    <3> QED
      BY <3>1, WantsMore
  <2>5. OrdersApart(book)
    BY SoundLevels
  <2>6. LevelNext(level, Taken(T, n), book, o)
    BY <1>2, <1>5, <2>4, NextLevelIs
  <2>7. TakesInTurn(book, o, T, W, n) /\ Told(m.trades) = Dealt(T, W, n)
    BY DEF TradedBy
  <2>8. QueueOldestFirst(level)
    BY <1>1 DEF OldestFirst
  <2>9. Replaced(m.book, r.book, across, px, d.queue, d.filled_ids)
    <3> HIDE DEF d
    <3> QED
      BY <1>1, <2>1, <2>2, LevelReplacedIs
  <2>10. level \in Seq(Order) /\ N \in Nat /\ ToSet(level) = Taken(level, N)
    <3> HIDE DEF level
    <3> QED
      BY <2>2, InQueue DEF Taken
  <2>11. /\ RestingOrders(r.book.levels) =
              (RestingOrders(m.book.levels) \ Taken(level, N)) \cup ToSet(d.queue)
         /\ QueueOldestFirst(d.queue) => OldestFirst(r.book)
    <3> HIDE DEF d
    <3> QED
      BY <1>1, <2>9, <2>10, ReplacedOrders
  <2> HIDE DEF level, N
  <2>12. PICK T2, W2, n2 : FilledBy(d, N, level, Taken(T, n), book, o, T2, W2, n2)
    <3> QED
      BY <1>2, <2>2, <2>3, <2>4, <2>5, <2>6, <2>7, LevelByRules DEF N
  <2>13. DrainState(d, N, level, m.taker, m.trades, m.book.next_trade_id)
    BY <1>2, <2>2, <2>3, LevelDrained DEF N
  <2> HIDE DEF d
  <2>14. QueueOldestFirst(d.queue)
    <3>1. PICK c \in 0 .. N : QueueKept(d.queue, level, c, N)
      BY <2>13 DEF DrainState
    <3> QED
      BY <2>8, <2>10, <3>1, KeptOldestFirst DEF N
  <2>15. /\ TakesInTurn(book, o, T2, W2, n2)
         /\ d.taker.remaining_qty = IF n2 = 0 \/ W2[n2] >= 0 THEN W2[n2] ELSE 0
         /\ Told(d.trades) = Dealt(T2, W2, n2)
         /\ Taken(T, n) \subseteq Taken(T2, n2)
         /\ Taken(T2, n2) \subseteq Taken(T, n) \cup Taken(level, N)
         /\ ToSet(d.queue) = (Taken(level, N) \ Taken(T2, n2)) \cup LastLeft(T2, W2, n2)
    <3>1. Taken(level, Len(level)) \ Taken(level, N) = {}
      BY DEF N
    <3> QED
      BY <2>12, <3>1 DEF FilledBy, N
  <2>16. Taken(level, N) \subseteq book
    BY <2>6 DEF LevelNext, Taken, Makers, N
  <2>17. RestingOrders(r.book.levels) = BookAfter(book, T2, W2, n2)
    BY <2>4, <2>11, <2>15, <2>16, OneLevelMore DEF BookAfter
  <2>18. TradedBy(r, book, o, T2, W2, n2)
    BY <2>1, <2>15, <2>17 DEF TradedBy
  <2> QED
    BY <2>11, <2>14, <2>18
<1> QED
  BY <1>4, <1>5

\* Before the outer loop the taker has traded with nobody.
LEMMA NobodyYet ==
  ASSUME NEW book, NEW o \in Order, NEW W, W = [i \in 0 .. 0 |-> o.qty]
  PROVE  /\ TakesInTurn(book, o, << >>, W, 0) /\ W[0] = o.qty
         /\ Dealt(<< >>, W, 0) = Told(<< >>)
         /\ BookAfter(book, << >>, W, 0) = book
<1>1. o.qty \in Int
  BY QtyAssumption DEF Order
<1>2. W \in [0 .. 0 -> Int] /\ W[0] = o.qty
  BY <1>1
<1>3. << >> \in [1 .. 0 -> Makers(book, o)] /\ DOMAIN << >> = 1 .. 0 /\ 1 .. 0 = {}
  OBVIOUS
<1>4. TakesInTurn(book, o, << >>, W, 0)
  BY <1>2, <1>3 DEF TakesInTurn
<1>5. Dealt(<< >>, W, 0) = Told(<< >>)
  BY <1>3 DEF Dealt, Told
<1>6. BookAfter(book, << >>, W, 0) = book
  BY <1>3 DEF BookAfter, Taken, LastLeft
<1> QED
  BY <1>2, <1>4, <1>5, <1>6

\* The outer loop goes through the makers in turn until the order has enough.
LEMMA MatchByRules ==
  ASSUME NEW b, BookSound(b), OldestFirst(b), NEW book, book = RestingOrders(b.levels),
         NEW o \in Order, o.remaining_qty = o.qty, NEW m, m = MatchOrder(b, o)
  PROVE  /\ OldestFirst(m.book)
         /\ \E T, W, n : TradedBy(m, book, o, T, W, n) /\ Enough(book, o, T, W, n)
<1> DEFINE across == Opposite(o.side)
<1>1. across \in Side
  BY OppositeSide DEF Order
<1>2. PICK f, prices, N : MatchRun(f, b, o, prices, N)
  BY MatchTurnsSound
<1>3. /\ f[0] = [book |-> b, taker |-> o, trades |-> << >>]
      /\ \A k \in 1 .. N : f[k] = MatchLevel(f[k - 1], prices[k])
      /\ m = f[N]
      /\ prices = PricesBestFirst(b.levels, across)
      /\ N \in Nat /\ DOMAIN prices = 1 .. N /\ Len(prices) = N
      /\ \A p \in DOMAIN b.levels[across] : \E i \in 1 .. N : prices[i] = p
      /\ \A k \in 0 .. N : MatchState(f[k], k, b, o)
  BY <1>2, LenProperties DEF MatchRun, MatchTurns
<1>4. /\ DOMAIN b.levels[across] \subseteq Int /\ IsFiniteSet(DOMAIN b.levels[across])
  BY <1>1, PriceAssumption DEF BookSound, BookType
<1>5. \A i, j \in 1 .. N : i < j => Better(across, prices[i], prices[j])
  <2>1. PICK K : SortedPrices(prices, across, DOMAIN b.levels[across], K)
    BY <1>3, <1>4, PricesListed
  <2>2. K \in Nat /\ 1 .. K = 1 .. N
    BY <1>3, <2>1 DEF SortedPrices
  <2> QED
    BY <2>1, <2>2 DEF SortedPrices
<1>6. \A i \in 1 .. N : prices[i] \in DOMAIN b.levels[across]
  <2>1. PICK K : SortedPrices(prices, across, DOMAIN b.levels[across], K)
    BY <1>3, <1>4, PricesListed
  <2>2. K \in Nat /\ 1 .. K = 1 .. N
    BY <1>3, <2>1 DEF SortedPrices
  <2> QED
    BY <2>1, <2>2 DEF SortedPrices
<1> DEFINE ByRules(x) == OldestFirst(x.book) /\ \E T, W, n : TradedBy(x, book, o, T, W, n)
           G == {k \in 0 .. N : ByRules(f[k])}
<1>7. ByRules(f[0])
  <2> DEFINE W == [i \in 0 .. 0 |-> o.qty]
             x == f[0]
  <2>1. x.book = b /\ x.taker = o /\ x.trades = << >>
    BY <1>3
  <2>2. /\ TakesInTurn(book, o, << >>, W, 0) /\ W[0] = o.qty
        /\ Dealt(<< >>, W, 0) = Told(<< >>) /\ BookAfter(book, << >>, W, 0) = book
    BY NobodyYet
  <2> HIDE DEF W, x
  <2>3. TradedBy(x, book, o, << >>, W, 0)
    BY <2>1, <2>2 DEF TradedBy
  <2> QED
    BY <2>1, <2>3 DEF x
<1>8. ASSUME NEW k \in 1 .. N, ByRules(f[k - 1])
      PROVE  ByRules(f[k])
  <2> DEFINE x  == f[k - 1]
             px == prices[k]
  <2>1. k - 1 \in 0 .. N /\ k \in 0 .. N /\ f[k] = MatchLevel(x, px)
    BY <1>3
  <2>2. MatchState(x, k - 1, b, o) /\ MatchState(f[k], k, b, o)
    BY <1>3, <2>1
  <2>3. /\ BookSound(x.book) /\ x.trades \in Seq(Trade) /\ TakerReduced(x.taker, o)
        /\ BookSound(f[k].book)
    BY <2>2 DEF MatchState
  <2>4. px \in DOMAIN x.book.levels[across]
    BY <1>3, <2>2 DEF MatchState
  <2>5. ASSUME x.taker.remaining_qty > Eps, NEW p \in DOMAIN x.book.levels[across],
               Better(across, p, px)
        PROVE  ~Crosses(o, p)
    <3>1. p \in DOMAIN b.levels[across]
      BY <2>2 DEF MatchState
    <3>2. PICK i \in 1 .. N : prices[i] = p
      BY <1>3, <3>1
    <3>3. p \in Int /\ px \in Int
      BY <1>4, <1>6, <3>1
    <3>4. ~ (k < i) /\ i # k
      <4>1. ~ Better(across, px, p) /\ ~ Better(across, px, px)
        BY <2>5, <3>3 DEF Better
      <4>2. k < i => Better(across, px, p)
        BY <1>5, <3>2
      <4>3. i = k => p = px
        BY <3>2
      <4> QED
        BY <2>5, <4>1, <4>2, <4>3
    <3>5. i \in 1 .. k - 1
      BY <1>3, <3>4
    <3> QED
      BY <1>3, <2>2, <2>5, <3>2, <3>5 DEF MatchState
  <2>6. PICK T, W, n : TradedBy(x, book, o, T, W, n)
    BY <1>8
  <2>7. OldestFirst(x.book)
    BY <1>8
  <2>8. f[k] = MatchLevel(x, px)
    BY <2>1
  <2> HIDE DEF x, px
  <2> QED
    BY <2>3, <2>4, <2>5, <2>6, <2>7, <2>8, TradeLevelByRules
<1> HIDE DEF ByRules
<1>9. 0 \in G
  BY <1>3, <1>7
<1>10. \A k \in 1 .. N : k - 1 \in G => k \in G
  BY <1>3, <1>8
<1>11. \A k \in 0 .. N : k \in G
  <2> HIDE DEF G
  <2> QED
    BY <1>3, <1>9, <1>10, Upwards
<1>12. ByRules(m)
  BY <1>3, <1>11
<1>13. OldestFirst(m.book)
  BY <1>12 DEF ByRules
<1>14. PICK T, W, n : TradedBy(m, book, o, T, W, n)
  BY <1>12 DEF ByRules
<1>15. Enough(book, o, T, W, n)
  <2> SUFFICES ASSUME ~ (W[n] <= Eps), NEW x \in Makers(book, o)
               PROVE  \E i \in 1 .. n : T[i] = x
    BY DEF Enough
  <2>1. n \in Nat /\ W[n] \in Int /\ Eps \in Nat
    BY <1>14, EpsAssumption DEF TradedBy, TakesInTurn
  <2>2. m.taker.remaining_qty > Eps
    BY <1>14, <2>1 DEF TradedBy
  <2>3. RestingOrders(m.book.levels) = book \ Taken(T, n)
    BY <1>14, <2>2, WantsMore
  <2>4. /\ BookSound(m.book)
        /\ \A px \in DOMAIN m.book.levels[across] : ~Crosses(o, px)
    BY <2>2, OrderMatched
  <2>5. x \notin RestingOrders(m.book.levels)
    <3> SUFFICES ASSUME x \in RestingOrders(m.book.levels) PROVE FALSE
      OBVIOUS
    <3>1. x.side \in Side /\ x.price \in DOMAIN m.book.levels[x.side]
      BY <2>4, SoundLevels
    <3>2. x.side # o.side /\ Crosses(o, x.price)
      BY DEF Makers
    <3>3. x.side = across
      BY <3>1, <3>2 DEF Order, Opposite, Side
    <3> QED
      BY <2>4, <3>1, <3>2, <3>3
  <2>6. x \in book
    BY DEF Makers
  <2> QED
    BY <2>3, <2>5, <2>6 DEF Taken
<1> QED
  BY <1>13, <1>14, <1>15

-----------------------------------------------------------------------------
(* What submit and cancel do, by the rules.                                *)

\* The identifiers on the book are older than id.
AllOlder(b, id) == \A i \in DOMAIN b.index : i < id

\* An order that comes to rest is one more order on the book, and the youngest of its level.
LEMMA InsertByRules ==
  ASSUME NEW b, BookSound(b), OldestFirst(b), NEW order \in Order, AllOlder(b, order.id),
         NEW r, r = InsertResting(b, order), BookSound(r)
  PROVE  /\ RestingOrders(r.levels) = RestingOrders(b.levels) \cup {order}
         /\ OldestFirst(r)
<1> DEFINE side  == order.side
           px    == order.price
           old   == QueueAt(b.levels, side, px)
           queue == Append(old, order)
<1>1. /\ LevelsOK(b.levels) /\ PlacedOK(b.levels) /\ LevelsOK(r.levels)
      /\ DOMAIN b.levels = Side
  BY SoundLevels DEF LevelsOK
<1>2. side \in Side /\ px \in Price
  BY DEF Order
<1>3. /\ DOMAIN r.levels = Side
      /\ \A s \in Side : s # side => r.levels[s] = b.levels[s]
      /\ DOMAIN r.levels[side] = DOMAIN b.levels[side] \cup {px}
      /\ r.levels[side][px] = queue
      /\ \A p \in DOMAIN b.levels[side] : p # px => r.levels[side][p] = b.levels[side][p]
  <2>1. r = [b EXCEPT !.levels[side] = With(b.levels[side], px, queue),
                      !.index        = With(b.index, order.id, Place(order))]
    BY DEF InsertResting, QueueAt
  <2>2. b \in [levels : {b.levels}, index : {b.index}, next_trade_id : Nat]
    BY DEF BookSound, BookType
  <2> HIDE DEF queue, old, side, px
  <2>3. r.levels = [b.levels EXCEPT ![side] = With(b.levels[side], px, queue)]
    BY <2>1, <2>2
  <2>4. /\ DOMAIN r.levels = Side
        /\ \A s \in Side : s # side => r.levels[s] = b.levels[s]
        /\ r.levels[side] = With(b.levels[side], px, queue)
    BY <1>1, <1>2, <2>3
  <2> QED
    BY <2>4 DEF With
<1>4. old \in Seq(Order)
  BY <1>1, <1>2, InQueueAt
<1>5. /\ Len(old) \in Nat /\ Len(queue) = Len(old) + 1
      /\ \A i \in 1 .. Len(old) + 1 : queue[i] = IF i <= Len(old) THEN old[i] ELSE order
      /\ ToSet(queue) = ToSet(old) \cup {order}
  <2> HIDE DEF old
  <2> QED
    BY <1>4, AppendToQueue, InQueue
<1>6. SameElsewhere(b.levels, r.levels, side, px)
  <2> HIDE DEF queue, old, side, px
  <2> SUFFICES ASSUME NEW s \in Side, NEW p \in Price, s # side \/ p # px
               PROVE  QueueAt(r.levels, s, p) = QueueAt(b.levels, s, p)
    BY DEF SameElsewhere
  <2>1. CASE s # side
    BY <1>3, <2>1 DEF QueueAt
  <2>2. CASE s = side
    <3>1. p \in DOMAIN r.levels[side] <=> p \in DOMAIN b.levels[side]
      BY <1>3, <2>2
    <3> QED
      BY <1>3, <2>2, <3>1 DEF QueueAt
  <2> QED
    BY <2>1, <2>2
<1>7. QueueAt(r.levels, side, px) = queue
  <2> HIDE DEF queue, old, side, px
  <2> QED
    BY <1>3 DEF QueueAt
<1>8. RestingOrders(r.levels) = RestingOrders(b.levels) \cup {order}
  <2>1. /\ ToSet(old) \subseteq RestingOrders(b.levels)
        /\ RestingOrders(r.levels) = (RestingOrders(b.levels) \ ToSet(old)) \cup ToSet(queue)
    <3>1. /\ ToSet(QueueAt(b.levels, side, px)) \subseteq RestingOrders(b.levels)
          /\ RestingOrders(r.levels) = (RestingOrders(b.levels) \ ToSet(QueueAt(b.levels, side, px)))
                                         \cup ToSet(QueueAt(r.levels, side, px))
      BY <1>1, <1>2, <1>6, OneQueueChanges
    <3> HIDE DEF queue
    <3> QED
      BY <1>7, <3>1
  <2> HIDE DEF queue, old
  <2> QED
    BY <1>5, <2>1
<1>9. QueueOldestFirst(queue)
  <2>1. \A i \in 1 .. Len(old) : old[i].id < order.id
    <3> SUFFICES ASSUME NEW i \in 1 .. Len(old) PROVE old[i].id < order.id
      OBVIOUS
    <3>1. px \in DOMAIN b.levels[side]
      <4> SUFFICES ASSUME px \notin DOMAIN b.levels[side] PROVE FALSE
        OBVIOUS
      <4>1. old = << >>
        BY DEF QueueAt
      <4> HIDE DEF old
      <4> QED
        BY <4>1
    <3>2. old = b.levels[side][px]
      BY <3>1 DEF QueueAt
    <3> HIDE DEF old, side, px
    <3>3. PlacedSoundly(b, side, px, i)
      BY <1>2, <3>1, <3>2 DEF BookSound
    <3>4. b.levels[side][px][i].id \in DOMAIN b.index
      BY <3>3 DEF PlacedSoundly
    <3> QED
      BY <3>2, <3>4 DEF AllOlder
  <2>2. \A i, j \in 1 .. Len(old) : i < j => old[i].id < old[j].id
    <3>1. CASE px \in DOMAIN b.levels[side]
      <4>1. old = b.levels[side][px]
        BY <3>1 DEF QueueAt
      <4> HIDE DEF old
      <4> QED
        BY <1>2, <3>1, <4>1 DEF OldestFirst, QueueOldestFirst
    <3>2. CASE px \notin DOMAIN b.levels[side]
      <4>1. old = << >>
        BY <3>2 DEF QueueAt
      <4> HIDE DEF old
      <4> QED
        BY <4>1
    <3> QED
      BY <3>1, <3>2
  <2> HIDE DEF old, queue
  <2> SUFFICES ASSUME NEW i \in 1 .. Len(old) + 1, NEW j \in 1 .. Len(old) + 1, i < j
               PROVE  queue[i].id < queue[j].id
    BY <1>5 DEF QueueOldestFirst
  <2>3. i \in 1 .. Len(old) /\ queue[i] = old[i]
    BY <1>5
  <2>4. CASE j = Len(old) + 1
    BY <1>5, <2>1, <2>3, <2>4
  <2>5. CASE j # Len(old) + 1
    <3>1. j \in 1 .. Len(old) /\ queue[j] = old[j]
      BY <1>5, <2>5
    <3> QED
      BY <2>2, <2>3, <3>1
  <2> QED
    BY <2>4, <2>5
<1>10. OldestFirst(r)
  <2> HIDE DEF queue, old, side, px
  <2> SUFFICES ASSUME NEW s \in Side, NEW p \in DOMAIN r.levels[s]
               PROVE  QueueOldestFirst(r.levels[s][p])
    BY DEF OldestFirst
  <2>1. CASE s # side
    BY <1>3, <2>1 DEF OldestFirst
  <2>2. CASE s = side /\ p = px
    BY <1>3, <1>9, <2>2
  <2>3. CASE s = side /\ p # px
    <3>1. p \in DOMAIN b.levels[s] /\ r.levels[s][p] = b.levels[s][p]
      BY <1>3, <2>3
    <3> QED
      BY <3>1 DEF OldestFirst
  <2> QED
    BY <2>1, <2>2, <2>3
<1> QED
  BY <1>8, <1>10

\* submit answers as the rules say, and the orders it leaves are those of the rules.
SubmitObeys(s, book, o) ==
  /\ RestingOrders(s.book.levels) = AfterSubmit(book, o)
  /\ Killed(book, o) => s.result = [trades |-> << >>, accepted |-> FALSE, resting_qty |-> 0]
  /\ ~Killed(book, o) =>
       /\ s.result = [trades |-> s.result.trades, accepted |-> TRUE,
                      resting_qty |-> IF Rests(book, o) THEN Left(book, o) ELSE 0]
       /\ Told(s.result.trades) = Trades(book, o)

\* Whatever the book, submit follows the rules and keeps the levels in order.
LEMMA SubmitByRules ==
  ASSUME NEW b, BookSound(b), OldestFirst(b), NEW book, book = RestingOrders(b.levels),
         NEW o \in Order, o.remaining_qty = o.qty, AllOlder(b, o.id),
         NEW s, s = Submit(b, o)
  PROVE  OldestFirst(s.book) /\ SubmitObeys(s, book, o)
<1> DEFINE kill == o.tif = "FOK" /\ AvailableLiquidity(b.levels, o) < o.qty
<1>1. LevelsOK(b.levels) /\ PlacedOK(b.levels) /\ OrdersApart(book)
  BY SoundLevels
<1>2. Killed(book, o) <=> kill
  BY <1>1, KilledIs
<1>3. CASE kill
  <2>1. s.book = b /\ s.result = [trades |-> << >>, accepted |-> FALSE, resting_qty |-> 0]
    BY <1>3 DEF Submit
  <2>3. AfterSubmit(book, o) = book
    BY <1>2, <1>3 DEF AfterSubmit
  <2> HIDE DEF kill
  <2>4. SubmitObeys(s, book, o)
    BY <1>2, <1>3, <2>1, <2>3 DEF SubmitObeys
  <2> QED
    BY <2>1, <2>4
<1>4. CASE ~kill
  <2> DEFINE m    == MatchOrder(b, o)
             left == m.taker.remaining_qty
  <2>1. /\ s.book = IF ShouldRest(o, left) THEN InsertResting(m.book, m.taker) ELSE m.book
        /\ s.result = [trades |-> m.trades, accepted |-> TRUE,
                       resting_qty |-> IF ShouldRest(o, left) THEN left ELSE 0]
    BY <1>4 DEF Submit
  <2> HIDE DEF kill
  <2>2. ~Killed(book, o)
    BY <1>2, <1>4
  <2>3. /\ TakerReduced(m.taker, o) /\ BookSound(m.book)
        /\ DOMAIN m.book.index \subseteq DOMAIN b.index
    BY OrderMatched
  <2>4. /\ OldestFirst(m.book)
        /\ \E T, W, n : TradedBy(m, book, o, T, W, n) /\ Enough(book, o, T, W, n)
    BY MatchByRules
  <2>5. m.taker \in Order /\ m.taker.id = o.id
    BY <2>3, ReducedTaker
  <2>6. BookSound(s.book)
    <3>1. o.id \notin DOMAIN b.index
      <4>1. o.id \in Nat
        BY DEF Order
      <4> QED
        BY <4>1 DEF AllOlder
    <3> QED
      BY <3>1, SubmitSound
  <2> HIDE DEF m
  <2>7. PICK T, W, n : TradedBy(m, book, o, T, W, n) /\ Enough(book, o, T, W, n)
    BY <2>4
  <2>8. /\ TakesInTurn(book, o, T, W, n)
        /\ left = IF n = 0 \/ W[n] >= 0 THEN W[n] ELSE 0
        /\ Told(m.trades) = Dealt(T, W, n)
        /\ RestingOrders(m.book.levels) = BookAfter(book, T, W, n)
    BY <2>7 DEF TradedBy
  <2>9. left = Left(book, o)
    BY <1>1, <2>7, <2>8, WhatIsLeft
  <2>10. Told(m.trades) = Trades(book, o)
    BY <1>1, <2>7, <2>8, TradesAre
  <2>11. m.taker = [o EXCEPT !.remaining_qty = left]
    BY <2>3 DEF TakerReduced
  <2>12. AfterSubmit(book, o) =
           RestingOrders(m.book.levels) \cup (IF Rests(book, o) THEN {m.taker} ELSE {})
    <3>1. AfterSubmit(book, o) =
            BookAfter(book, T, W, n)
              \cup (IF Rests(book, o) THEN {[o EXCEPT !.remaining_qty = Left(book, o)]} ELSE {})
      BY <1>1, <2>2, <2>7, <2>8, AfterSubmitIs
    <3> QED
      BY <2>8, <2>9, <2>11, <3>1
  <2>13. Rests(book, o) <=> ShouldRest(o, left)
    BY <2>9 DEF Rests
  <2>14. CASE ShouldRest(o, left)
    <3>1. s.book = InsertResting(m.book, m.taker)
      BY <2>1, <2>14
    <3>2. AllOlder(m.book, m.taker.id)
      BY <2>3, <2>5 DEF AllOlder
    <3>3. /\ RestingOrders(s.book.levels) = RestingOrders(m.book.levels) \cup {m.taker}
          /\ OldestFirst(s.book)
      BY <2>3, <2>4, <2>5, <2>6, <3>1, <3>2, InsertByRules
    <3>4. RestingOrders(s.book.levels) = AfterSubmit(book, o)
      BY <2>12, <2>13, <2>14, <3>3
    <3>5. s.result = [trades |-> m.trades, accepted |-> TRUE, resting_qty |-> left]
      BY <2>1, <2>14
    <3> HIDE DEF left
    <3> QED
      BY <2>2, <2>9, <2>10, <2>13, <2>14, <3>3, <3>4, <3>5 DEF SubmitObeys
  <2>15. CASE ~ShouldRest(o, left)
    <3>1. s.book = m.book /\ s.result = [trades |-> m.trades, accepted |-> TRUE, resting_qty |-> 0]
      BY <2>1, <2>15
    <3>2. RestingOrders(s.book.levels) = AfterSubmit(book, o)
      BY <2>12, <2>13, <2>15, <3>1
    <3>3. s.book.levels = m.book.levels /\ OldestFirst(s.book)
      BY <2>4, <3>1
    <3>4. s.result.trades = m.trades
      BY <3>1
    <3>5. ~Rests(book, o)
      BY <2>13, <2>15
    <3>6. s.result = [trades |-> s.result.trades, accepted |-> TRUE,
                      resting_qty |-> IF Rests(book, o) THEN Left(book, o) ELSE 0]
      BY <3>1, <3>5
    <3> HIDE DEF left
    <3> QED
      BY <2>2, <2>10, <3>2, <3>3, <3>4, <3>6 DEF SubmitObeys
  <2> QED
    BY <2>14, <2>15
<1> QED
  BY <1>3, <1>4

\* retain keeps the other orders of a queue, in their order.
LEMMA RetainedByRules ==
  ASSUME NEW queue \in Seq(Order), QueueOldestFirst(queue), NEW id
  PROVE  /\ QueueOldestFirst(Retained(queue, id))
         /\ ToSet(Retained(queue, id)) = {o \in ToSet(queue) : o.id # id}
<1> DEFINE n == Len(queue)
<1>1. /\ n \in Nat /\ DOMAIN queue = 1 .. n /\ ToSet(queue) = {queue[i] : i \in 1 .. n}
      /\ \A i \in 1 .. n : queue[i] \in Order
  BY InQueue
<1>2. PICK f : /\ f[0] = << >>
               /\ \A k \in 1 .. n : f[k] = IF queue[k].id = id THEN f[k - 1]
                                                               ELSE Append(f[k - 1], queue[k])
               /\ Retained(queue, id) = f[n]
  BY <1>1, RetainSeries
<1> DEFINE Kept(k) == /\ f[k] \in Seq(Order) /\ QueueOldestFirst(f[k])
                      /\ ToSet(f[k]) = {o \in {queue[i] : i \in 1 .. k} : o.id # id}
           G == {k \in 0 .. n : Kept(k)}
<1>3. Kept(0)
  <2>1. << >> \in Seq(Order) /\ Len(<< >>) = 0 /\ ToSet(<< >>) = {}
    BY EmptySeq DEF ToSet
  <2>2. QueueOldestFirst(<< >>)
    BY DEF QueueOldestFirst
  <2> QED
    BY <1>2, <2>1, <2>2
<1>4. ASSUME NEW k \in 1 .. n, Kept(k - 1) PROVE Kept(k)
  <2> DEFINE old == f[k - 1]
             new == f[k]
  <2>1. /\ old \in Seq(Order) /\ QueueOldestFirst(old)
        /\ ToSet(old) = {o \in {queue[i] : i \in 1 .. k - 1} : o.id # id}
    BY <1>4
  <2>2. 1 .. k = (1 .. k - 1) \cup {k}
    BY <1>1
  <2>3. new = IF queue[k].id = id THEN old ELSE Append(old, queue[k])
    BY <1>2
  <2> HIDE DEF old, new
  <2>4. CASE queue[k].id = id
    BY <2>1, <2>2, <2>3, <2>4 DEF new
  <2>5. CASE queue[k].id # id
    <3>1. /\ new = Append(old, queue[k]) /\ new \in Seq(Order)
          /\ Len(new) = Len(old) + 1 /\ Len(old) \in Nat
          /\ \A i \in 1 .. Len(old) + 1 : new[i] = IF i <= Len(old) THEN old[i] ELSE queue[k]
          /\ ToSet(new) = ToSet(old) \cup {queue[k]}
      BY <1>1, <2>1, <2>3, <2>5, AppendToQueue, InQueue
    <3>2. ToSet(new) = {o \in {queue[i] : i \in 1 .. k} : o.id # id}
      BY <2>1, <2>2, <2>5, <3>1
    <3>3. \A i \in 1 .. Len(old) : old[i].id < queue[k].id
      <4> SUFFICES ASSUME NEW i \in 1 .. Len(old) PROVE old[i].id < queue[k].id
        OBVIOUS
      <4>1. old[i] \in ToSet(old)
        BY <2>1, InQueue
      <4>2. PICK j \in 1 .. k - 1 : old[i] = queue[j]
        BY <2>1, <4>1
      <4> QED
        BY <1>1, <4>2 DEF QueueOldestFirst
    <3>4. QueueOldestFirst(new)
      <4> SUFFICES ASSUME NEW i \in 1 .. Len(old) + 1, NEW j \in 1 .. Len(old) + 1, i < j
                   PROVE  new[i].id < new[j].id
        BY <3>1 DEF QueueOldestFirst
      <4>1. i \in 1 .. Len(old) /\ new[i] = old[i]
        BY <3>1
      <4>2. CASE j = Len(old) + 1
        BY <3>1, <3>3, <4>1, <4>2
      <4>3. CASE j # Len(old) + 1
        <5>1. j \in 1 .. Len(old) /\ new[j] = old[j]
          BY <3>1, <4>3
        <5> QED
          BY <2>1, <4>1, <5>1 DEF QueueOldestFirst
      <4> QED
        BY <4>2, <4>3
    <3> QED
      BY <3>1, <3>2, <3>4 DEF new
  <2> QED
    BY <2>4, <2>5
<1> HIDE DEF Kept
<1>5. 0 \in G /\ \A k \in 1 .. n : k - 1 \in G => k \in G
  BY <1>1, <1>3, <1>4
<1>6. \A k \in 0 .. n : k \in G
  <2> HIDE DEF G, n
  <2> QED
    BY <1>1, <1>5, Upwards
<1>7. Kept(n)
  BY <1>1, <1>6
<1> QED
  BY <1>1, <1>2, <1>7 DEF Kept

\* cancel takes the order with that identifier off the book, and says whether there
\* was one.
CancelObeys(c, book, id) ==
  /\ RestingOrders(c.book.levels) = {o \in book : o.id # id}
  /\ (\E o \in book : o.id = id) => c.found = TRUE
  /\ ~(\E o \in book : o.id = id) => c.found = FALSE

\* Whatever the book, cancel follows the rules and keeps the levels in order.
LEMMA CancelByRules ==
  ASSUME NEW b, BookSound(b), OldestFirst(b), NEW book, book = RestingOrders(b.levels),
         NEW id, NEW c, c = CancelOrder(b, id)
  PROVE  OldestFirst(c.book) /\ CancelObeys(c, book, id)
<1> DEFINE L == b.levels
<1>1. /\ LevelsOK(L)
      /\ \A m \in book : /\ m.side \in Side /\ m.price \in DOMAIN L[m.side]
                         /\ \E i \in 1 .. Len(L[m.side][m.price]) : L[m.side][m.price][i] = m
  BY SoundLevels
<1>2. \A m \in book : /\ m.side \in Side /\ m.price \in DOMAIN L[m.side]
                      /\ m \in ToSet(L[m.side][m.price])
                      /\ m.id \in DOMAIN b.index /\ b.index[m.id] = <<m.side, m.price>>
  <2> SUFFICES ASSUME NEW m \in book
               PROVE  /\ m.side \in Side /\ m.price \in DOMAIN L[m.side]
                      /\ m \in ToSet(L[m.side][m.price])
                      /\ m.id \in DOMAIN b.index /\ b.index[m.id] = <<m.side, m.price>>
    OBVIOUS
  <2> DEFINE queue == L[m.side][m.price]
  <2>1. m.side \in Side /\ m.price \in DOMAIN L[m.side]
    BY <1>1
  <2>2. PICK i \in 1 .. Len(queue) : queue[i] = m
    BY <1>1
  <2>3. PlacedSoundly(b, m.side, m.price, i)
    BY <2>1 DEF BookSound
  <2>4. m.id \in DOMAIN b.index /\ b.index[m.id] = <<m.side, m.price>>
    BY <2>2, <2>3 DEF PlacedSoundly
  <2>5. queue \in Seq(Order)
    BY <1>1, <2>1 DEF LevelsOK
  <2> HIDE DEF queue
  <2>6. m \in ToSet(queue)
    BY <2>2, <2>5, InQueue
  <2> QED
    BY <2>1, <2>4, <2>6 DEF queue
<1>3. CASE id \notin DOMAIN b.index
  <2>1. c.book = b /\ c.found = FALSE
    BY <1>3 DEF CancelOrder
  <2>2. \A m \in book : m.id # id
    BY <1>2, <1>3
  <2> QED
    BY <2>1, <2>2 DEF CancelObeys
<1>4. CASE id \in DOMAIN b.index
  <2> DEFINE r == c.book
  <2>1. PICK s \in Side : \E px \in DOMAIN L[s] : \E j \in 1 .. Len(L[s][px]) :
          CancelReplaces(b, r, id, s, px, j)
    BY <1>4, CancelIs
  <2>2. PICK px \in DOMAIN L[s] : \E j \in 1 .. Len(L[s][px]) :
          CancelReplaces(b, r, id, s, px, j)
    BY <2>1
  <2>3. PICK j \in 1 .. Len(L[s][px]) : CancelReplaces(b, r, id, s, px, j)
    BY <2>2
  <2> DEFINE level == L[s][px]
             kept  == Retained(level, id)
  <2>4. /\ level[j].id = id
        /\ r = [levels        |-> [L EXCEPT ![s] = LevelsWith(@, px, kept)],
                index         |-> Without(b.index, {id}),
                next_trade_id |-> b.next_trade_id]
    BY <2>3 DEF CancelReplaces
  <2>5. Replaced(b, r, s, px, kept, {id})
    <3>1. DOMAIN b.levels = Side
      BY <1>1 DEF LevelsOK
    <3> HIDE DEF kept, r
    <3> QED
      BY <2>4, <3>1, LevelReplacedIs
  <2>6. level \in Seq(Order) /\ QueueOldestFirst(level)
    BY <1>1 DEF LevelsOK, OldestFirst
  <2>7. BookSound(r)
    BY CancelSound
  <2>8. /\ RestingOrders(r.levels) = (book \ ToSet(level)) \cup ToSet(kept)
        /\ QueueOldestFirst(kept) => OldestFirst(r)
    <3> HIDE DEF kept, r
    <3> QED
      BY <2>5, <2>7, ReplacedOrders
  <2>9. QueueOldestFirst(kept) /\ ToSet(kept) = {o \in ToSet(level) : o.id # id}
    <3> HIDE DEF level
    <3> QED
      BY <2>6, RetainedByRules
  <2>10. level[j] \in book
    <3>1. level[j] \in RestingOrders(L)
      BY <1>1, InResting
    <3> QED
      BY <3>1
  <2>11. b.index[id] = <<s, px>>
    <3>1. level[j].side = s /\ level[j].price = px
      <4>1. PlacedSoundly(b, s, px, j)
        BY DEF BookSound
      <4> QED
        BY <4>1 DEF PlacedSoundly
    <3> QED
      BY <1>2, <2>4, <2>10, <3>1
  <2>12. \A m \in book : m.id = id => m \in ToSet(level)
    <3> SUFFICES ASSUME NEW m \in book, m.id = id PROVE m \in ToSet(level)
      OBVIOUS
    <3>1. <<m.side, m.price>> = <<s, px>>
      BY <1>2, <2>11
    <3>2. m.side = s /\ m.price = px
      BY <3>1
    <3> QED
      BY <1>2, <3>2
  <2>13. ToSet(level) \subseteq book
    <3>1. ToSet(level) = {level[i] : i \in 1 .. Len(level)}
      <4> HIDE DEF level
      <4> QED
        BY <2>6, InQueue
    <3>2. \A i \in 1 .. Len(level) : level[i] \in RestingOrders(L)
      BY <1>1, InResting
    <3> QED
      BY <3>1, <3>2
  <2>14. c.found = TRUE
    BY <1>4, <2>11 DEF CancelOrder
  <2> HIDE DEF kept, level, r
  <2>15. RestingOrders(r.levels) = {o \in book : o.id # id}
    BY <2>8, <2>9, <2>12, <2>13
  <2>16. \E o \in book : o.id = id
    BY <2>4, <2>10
  <2> QED
    BY <2>8, <2>9, <2>14, <2>15, <2>16 DEF r, CancelObeys
<1> QED
  BY <1>3, <1>4

=============================================================================
