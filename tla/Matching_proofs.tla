--------------------------- MODULE Matching_proofs ---------------------------
(***************************************************************************)
(* Proofs about Matching, for every set of prices, quantities and orders.  *)
(***************************************************************************)
EXTENDS Matching, OrderBook_proofs

\* Every order's queue operations, pointwise.  Cancelling the order at position
\* k of a queue of distinct orders closes the gap and moves nothing else.
LEMMA RetainProperties ==
  ASSUME NEW queue \in Seq(Order), NEW k \in 1 .. Len(queue),
         \A i \in 1 .. Len(queue) : queue[i].id = queue[k].id => i = k
  PROVE  LET kept == Retain(queue, queue[k].id)
         IN  /\ kept \in Seq(Order)
             /\ Len(kept) = Len(queue) - 1
             /\ \A i \in 1 .. Len(queue) - 1 :
                  kept[i] = IF i < k THEN queue[i] ELSE queue[i + 1]
<1> DEFINE id   == queue[k].id
           hits == {i \in 1 .. Len(queue) : queue[i].id = id}
           head == SubSeq(queue, 1, k - 1)
           tail == SubSeq(queue, k + 1, Len(queue))
<1>1. hits = {k}
  OBVIOUS
<1>2. Min(hits) = k
  BY <1>1 DEF Min
<1>3. Retain(queue, id) = head \o tail
  <2>1. SelectInSeq(queue, LAMBDA o : o.id = id) = k
    BY <1>1, <1>2 DEF SelectInSeq
  <2>2. RemoveFirstMatch(queue, LAMBDA o : o.id = id) = RemoveAt(queue, k)
    BY <2>1 DEF RemoveFirstMatch
  <2> QED
    BY <2>2 DEF Retain, RemoveAt
<1>4. /\ head \in Seq(Order) /\ Len(head) = k - 1
      /\ \A i \in 1 .. k - 1 : head[i] = queue[i]
  <2>1. \A i \in 1 .. k - 1 : queue[i] \in Order
    BY LenProperties, ElementOfSeq
  <2> QED
    BY <2>1, SubSeqProperties, LenProperties, k - 1 \in Int
<1>5. /\ tail \in Seq(Order) /\ Len(tail) = Len(queue) - k
      /\ \A i \in 1 .. Len(queue) - k : tail[i] = queue[k + i]
  <2>1. \A i \in k + 1 .. Len(queue) : queue[i] \in Order
    BY LenProperties, ElementOfSeq
  <2> QED
    BY <2>1, SubSeqProperties, LenProperties, k + 1 \in Int
<1>6. /\ head \o tail \in Seq(Order)
      /\ Len(head \o tail) = Len(queue) - 1
      /\ \A i \in 1 .. Len(queue) - 1 :
           (head \o tail)[i] = IF i < k THEN queue[i] ELSE queue[i + 1]
  <2> HIDE DEF head, tail
  <2>1. /\ head \o tail \in Seq(Order)
        /\ Len(head \o tail) = Len(head) + Len(tail)
        /\ \A i \in 1 .. Len(head) + Len(tail) :
             (head \o tail)[i] = IF i <= Len(head) THEN head[i] ELSE tail[i - Len(head)]
    BY <1>4, <1>5, ConcatProperties
  <2>2. Len(queue) \in Nat
    BY LenProperties
  <2> QED
    BY <2>1, <2>2, <1>4, <1>5
<1> QED
  BY <1>3, <1>6

-----------------------------------------------------------------------------
(* What the type invariant says of one order, one queue, one template.     *)

\* The engine makes a well-formed order of whatever template it is given.
LEMMA MakeOrderType ==
  ASSUME NEW t \in Templates, NEW id \in Nat
  PROVE  /\ MakeOrder(id, t, 0) \in Order
         /\ MakeOrder(id, t, 0).id = id
         /\ MakeOrder(id, t, 0).qty = MakeOrder(id, t, 0).remaining_qty
<1>1. /\ t.side \in Side /\ t.order_type \in OrderType /\ t.tif \in TimeInForce
      /\ t.price \in Price /\ t.qty \in Qty /\ t.qty \in Int
  BY TemplatesAssumption, QtyAssumption DEF Template
<1> QED
  BY <1>1 DEF Order, MakeOrder

\* Every queue on the book is a sequence of orders.
LEMMA QueueType ==
  ASSUME TypeOK, NEW s \in Side, NEW p \in DOMAIN levels[s]
  PROVE  /\ p \in Price /\ p \in Int
         /\ levels[s][p] \in Seq(Order)
         /\ Len(levels[s][p]) \in Nat
         /\ \A i \in 1 .. Len(levels[s][p]) : levels[s][p][i] \in Order
<1>1. p \in Price /\ p \in Int /\ levels[s][p] \in Seq(Order)
  BY PriceAssumption DEF TypeOK
<1> QED
  BY <1>1, LenProperties, ElementOfSeq

\* While an order is matched, the taker is an order and the side across a side.
LEMMA TakerType ==
  ASSUME TypeOK, pc # "idle"
  PROVE  /\ taker \in Order /\ taker.side \in Side /\ taker.price \in Int
         /\ taker.price \in Price /\ taker.remaining_qty \in Int /\ taker.id \in Nat
         /\ Across \in Side /\ Across # taker.side
         /\ (pc = "drain" => px \in Price /\ px \in Int)
<1>1. taker \in Order /\ taker.side \in Side /\ taker.price \in Price
      /\ taker.remaining_qty \in Int /\ taker.id \in Nat
  BY DEF TypeOK, Order
<1>2. pc = "drain" => px \in Price
  BY DEF TypeOK
<1> QED
  BY <1>1, <1>2, OppositeSide, PriceAssumption DEF Across

-----------------------------------------------------------------------------
(* The initial state, and the steps that leave the book alone.             *)

\* An empty book, and nothing being matched.
LEMMA InitStep == Init => MatchInv
<1> SUFFICES ASSUME Init PROVE MatchInv
  OBVIOUS
<1>1. \A s \in Side : levels[s] = << >> /\ DOMAIN levels[s] = {}
  BY DEF Init
<1>2. TypeOK
  <2>1. << >> \in [{} -> Seq(Order)] /\ << >> \in [{} -> Side \X Price]
    OBVIOUS
  <2>2. << >> \in Seq(Trade)
    BY EmptySeq
  <2> QED
    BY <1>1, <2>1, <2>2 DEF Init, TypeOK
<1>3. DrainsBestLevel /\ RestingSound /\ NoEmptyLevel /\ TimePriority
      /\ RestingIndexed /\ TakerSound
  BY <1>1 DEF Init, DrainsBestLevel, RestingSound, NoEmptyLevel, TimePriority,
              RestingIndexed, TakerSound
<1>4. FilledIndexed /\ IndexedRests /\ TradesBestFirst
  BY DEF Init, FilledIndexed, IndexedRests, TradesBestFirst
<1>5. Uncrossed
  BY <1>1 DEF Uncrossed, Side
<1> QED
  BY <1>2, <1>3, <1>4, <1>5 DEF Init, MatchInv

\* The order gets a new identifier, larger than any on the book.
LEMMA AcceptStep ==
  ASSUME MatchInv, NEW t \in Templates, Accept(t)
  PROVE  MatchInv'
<1> DEFINE order == MakeOrder(next_order_id + 1, t, 0)
<1>1. /\ pc = "idle" /\ pc' = "match" /\ taker' = order
      /\ next_order_id' = next_order_id + 1 /\ next_order_id \in Nat
      /\ UNCHANGED <<levels, index, next_trade_id, trades, px, filled_ids>>
  BY DEF Accept, MatchInv, TypeOK, bookVars
<1>2. order \in Order /\ order.id = next_order_id + 1 /\ order.qty = order.remaining_qty
      /\ order.qty \in Int
  BY <1>1, MakeOrderType, QtyAssumption DEF Order
<1>3. trades = << >>
  BY <1>1 DEF MatchInv
<1> HIDE DEF order
<1>4. TypeOK'
  BY <1>1, <1>2 DEF MatchInv, TypeOK
<1>5. DrainsBestLevel'
  BY <1>1 DEF MatchInv, DrainsBestLevel
<1>6. RestingSound'
  <2> SUFFICES ASSUME NEW s \in Side, NEW p \in DOMAIN levels[s],
                      NEW i \in 1 .. Len(levels[s][p])
               PROVE  LET o == levels[s][p][i]
                      IN  /\ o.side = s /\ o.price = p
                          /\ ShouldRest(o, o.remaining_qty)
                          /\ o.id <= next_order_id + 1 /\ o.id # order.id
    BY <1>1 DEF RestingSound, ShouldRest
  <2>1. levels[s][p][i].id \in Nat
    BY QueueType DEF MatchInv, Order
  <2> QED
    BY <1>1, <1>2, <2>1 DEF MatchInv, RestingSound
<1>7. NoEmptyLevel' /\ TimePriority' /\ RestingIndexed' /\ IndexedRests' /\ Uncrossed'
  BY <1>1 DEF MatchInv, NoEmptyLevel, TimePriority, RestingIndexed, IndexedRests,
              RestsAt, Uncrossed
<1>8. FilledIndexed'
  BY <1>1 DEF MatchInv, FilledIndexed, DrainsBestLevel
<1>9. TakerSound' /\ TradesBestFirst'
  BY <1>1, <1>2, <1>3 DEF TakerSound, TradesBestFirst
<1> QED
  BY <1>1, <1>4, <1>5, <1>6, <1>7, <1>8, <1>9 DEF MatchInv

\* A refused order takes an identifier and leaves the book alone.
LEMMA RejectFokStep ==
  ASSUME MatchInv, NEW t \in Templates, RejectFok(t)
  PROVE  MatchInv'
<1>1. /\ pc = "idle" /\ next_order_id' = next_order_id + 1 /\ next_order_id \in Nat
      /\ UNCHANGED <<levels, index, next_trade_id, pc, taker, trades, px, filled_ids>>
  BY DEF RejectFok, MatchInv, TypeOK, bookVars, matchVars
<1>2. TypeOK'
  BY <1>1 DEF MatchInv, TypeOK
<1>3. RestingSound'
  <2> SUFFICES ASSUME NEW s \in Side, NEW p \in DOMAIN levels[s],
                      NEW i \in 1 .. Len(levels[s][p])
               PROVE  LET o == levels[s][p][i]
                      IN  /\ o.side = s /\ o.price = p
                          /\ ShouldRest(o, o.remaining_qty)
                          /\ o.id <= next_order_id + 1
    BY <1>1 DEF RestingSound, ShouldRest
  <2>1. levels[s][p][i].id \in Nat
    BY QueueType DEF MatchInv, Order
  <2> QED
    BY <1>1, <2>1 DEF MatchInv, RestingSound
<1>4. NoEmptyLevel' /\ TimePriority' /\ RestingIndexed' /\ IndexedRests' /\ Uncrossed'
  BY <1>1 DEF MatchInv, NoEmptyLevel, TimePriority, RestingIndexed, IndexedRests,
              RestsAt, Uncrossed
<1>5. DrainsBestLevel' /\ FilledIndexed' /\ TakerSound' /\ TradesBestFirst'
  BY <1>1 DEF MatchInv, DrainsBestLevel, FilledIndexed, TakerSound, TradesBestFirst
<1> QED
  BY <1>1, <1>2, <1>3, <1>4, <1>5 DEF MatchInv

\* Nothing is found and nothing changes.
LEMMA CancelUnknownStep ==
  ASSUME MatchInv, NEW id, CancelUnknown(id)
  PROVE  MatchInv'
<1>1. UNCHANGED <<levels, index, next_trade_id, next_order_id, pc, taker, trades, px,
                  filled_ids>>
  BY DEF CancelUnknown, bookVars, matchVars
<1> QED
  BY <1>1 DEF MatchInv, TypeOK, DrainsBestLevel, RestingSound, NoEmptyLevel, TimePriority,
              RestingIndexed, FilledIndexed, IndexedRests, RestsAt, Uncrossed, TakerSound,
              TradesBestFirst, Across

-----------------------------------------------------------------------------
(* The steps of the matching loops.                                        *)

\* The level that is opened is the best of its side.
LEMMA OpenLevelStep ==
  ASSUME MatchInv, NEW p \in Price, OpenLevel(p)
  PROVE  MatchInv'
<1>1. /\ pc = "match" /\ pc' = "drain" /\ px' = p
      /\ UNCHANGED <<levels, index, next_trade_id, next_order_id, taker, trades, filled_ids>>
  BY DEF OpenLevel, bookVars
<1>2. TypeOK'
  BY <1>1 DEF MatchInv, TypeOK
<1>3. DrainsBestLevel'
  BY <1>1 DEF OpenLevel, DrainsBestLevel, Across
<1>4. RestingSound' /\ NoEmptyLevel' /\ TimePriority' /\ RestingIndexed'
      /\ IndexedRests' /\ Uncrossed'
  BY <1>1 DEF MatchInv, RestingSound, NoEmptyLevel, TimePriority, RestingIndexed,
              IndexedRests, RestsAt, Uncrossed
<1>5. FilledIndexed'
  BY <1>1 DEF MatchInv, FilledIndexed, DrainsBestLevel
<1>6. TakerSound' /\ TradesBestFirst'
  BY <1>1 DEF MatchInv, TakerSound, TradesBestFirst, Across
<1> QED
  BY <1>1, <1>2, <1>3, <1>4, <1>5, <1>6 DEF MatchInv

\* Nothing filled is left in the level that is closed: what was filled came
\* before all that is left.
LEMMA CloseLevelStep ==
  ASSUME MatchInv, CloseLevel
  PROVE  MatchInv'
<1> DEFINE opened == levels[Across]
           empty  == opened[px] = << >>
<1>1. /\ pc = "drain" /\ pc' = "match" /\ px' = None /\ filled_ids' = {}
      /\ index' = Without(index, filled_ids)
      /\ UNCHANGED <<next_trade_id, next_order_id, taker, trades>>
  BY DEF CloseLevel
<1>2. /\ Across \in Side /\ Across # taker.side /\ px \in DOMAIN opened
      /\ Across' = Across
  BY <1>1, TakerType DEF MatchInv, DrainsBestLevel, Across
<1>3. DOMAIN levels = Side /\ DOMAIN levels' = Side
  BY DEF MatchInv, TypeOK, CloseLevel
<1>4. \A s \in Side :
        /\ DOMAIN levels'[s] = IF s = Across /\ empty THEN DOMAIN levels[s] \ {px}
                                                      ELSE DOMAIN levels[s]
        /\ \A q \in DOMAIN levels'[s] : levels'[s][q] = levels[s][q]
  BY <1>2, <1>3 DEF CloseLevel, Without
<1>5. /\ DOMAIN index' = DOMAIN index \ filled_ids
      /\ \A id \in DOMAIN index' : index'[id] = index[id]
  BY <1>1 DEF Without
<1>6. TypeOK'
  <2>1. \A s \in Side : /\ DOMAIN levels'[s] \subseteq Price
                        /\ levels'[s] \in [DOMAIN levels'[s] -> Seq(Order)]
    BY <1>2, <1>3 DEF MatchInv, TypeOK, CloseLevel, Without
  <2>2. DOMAIN index' \subseteq Nat /\ index' \in [DOMAIN index' -> Side \X Price]
    BY <1>1 DEF MatchInv, TypeOK, Without
  <2> QED
    BY <1>1, <1>3, <2>1, <2>2 DEF MatchInv, TypeOK
<1>7. DrainsBestLevel' /\ FilledIndexed'
  BY <1>1 DEF DrainsBestLevel, FilledIndexed
<1>8. RestingSound'
  <2> SUFFICES ASSUME NEW s \in Side, NEW p \in DOMAIN levels'[s],
                      NEW i \in 1 .. Len(levels'[s][p])
               PROVE  LET o == levels'[s][p][i]
                      IN  /\ o.side = s /\ o.price = p
                          /\ ShouldRest(o, o.remaining_qty)
                          /\ o.id <= next_order_id /\ o.id # taker.id
    BY <1>1 DEF RestingSound, ShouldRest
  <2>1. p \in DOMAIN levels[s] /\ levels'[s][p] = levels[s][p]
    BY <1>4
  <2> QED
    BY <1>1, <2>1 DEF MatchInv, RestingSound
<1>14. TimePriority'
  <2> SUFFICES ASSUME NEW s \in Side, NEW p \in DOMAIN levels'[s],
                      NEW i \in 1 .. Len(levels'[s][p]), NEW j \in 1 .. Len(levels'[s][p]),
                      i < j
               PROVE  levels'[s][p][i].id < levels'[s][p][j].id
    BY DEF TimePriority
  <2>1. p \in DOMAIN levels[s] /\ levels'[s][p] = levels[s][p]
    BY <1>4
  <2> QED
    BY <2>1 DEF MatchInv, TimePriority
<1>9. NoEmptyLevel'
  BY <1>1, <1>4 DEF MatchInv, NoEmptyLevel
<1>10. RestingIndexed'
  <2> SUFFICES ASSUME NEW s \in Side, NEW p \in DOMAIN levels'[s],
                      NEW i \in 1 .. Len(levels'[s][p])
               PROVE  LET id == levels'[s][p][i].id
                      IN  id \in DOMAIN index' /\ index'[id] = <<s, p>>
    BY DEF RestingIndexed
  <2> DEFINE id == levels[s][p][i].id
  <2>1. p \in DOMAIN levels[s] /\ i \in 1 .. Len(levels[s][p]) /\ levels'[s][p][i].id = id
    BY <1>4
  <2>2. id \in DOMAIN index /\ index[id] = <<s, p>> /\ id \in Nat
    BY <2>1, QueueType DEF MatchInv, RestingIndexed, Order
  <2>3. id \notin filled_ids
    BY <2>1, <2>2 DEF MatchInv, FilledIndexed
  <2> QED
    BY <1>5, <2>1, <2>2, <2>3
<1>11. IndexedRests'
  <2> SUFFICES ASSUME NEW id \in DOMAIN index'
               PROVE  RestsAt(id, index[id][1], index[id][2])'
    BY <1>5 DEF IndexedRests, RestsAt
  <2>1. id \in DOMAIN index /\ RestsAt(id, index[id][1], index[id][2])
    BY <1>5 DEF MatchInv, IndexedRests
  <2>2. index[id][1] \in Side
    BY <2>1 DEF MatchInv, TypeOK
  <2>3. index'[id] = index[id]
    BY <1>5
  <2>4. PICK i \in 1 .. Len(levels[index[id][1]][index[id][2]]) :
          levels[index[id][1]][index[id][2]][i].id = id
    BY <2>1 DEF RestsAt
  <2>5. index[id][2] \in DOMAIN levels'[index[id][1]]
    <3>1. levels[index[id][1]][index[id][2]] # << >>
      BY <2>4
    <3> QED
      BY <1>4, <2>1, <2>2, <3>1 DEF RestsAt
  <2> QED
    BY <1>4, <2>2, <2>3, <2>4, <2>5 DEF RestsAt
<1>12. Uncrossed'
  BY <1>4 DEF MatchInv, Uncrossed, Side
<1>13. TakerSound' /\ TradesBestFirst'
  BY <1>1, <1>2, <1>4 DEF MatchInv, TakerSound, TradesBestFirst
<1> QED
  BY <1>1, <1>6, <1>7, <1>8, <1>9, <1>10, <1>11, <1>12, <1>13, <1>14 DEF MatchInv

\* The maker at the front of the level gives what it can.  It leaves the queue,
\* for filled_ids, or stays at the front of it with less to give.
LEMMA FillKeeps ==
  ASSUME MatchInv, Fill
  PROVE  MatchInv'
<1> DEFINE queue    == levels[Across][px]
           maker    == queue[1]
           fill_qty == IF taker.remaining_qty <= maker.remaining_qty
                         THEN taker.remaining_qty ELSE maker.remaining_qty
           left     == maker.remaining_qty - fill_qty
           filled   == left <= Eps
           smaller  == [maker EXCEPT !.remaining_qty = left]
           rest     == IF filled THEN Tail(queue) ELSE [queue EXCEPT ![1] = smaller]
           trade    == [id |-> next_trade_id + 1, maker_order_id |-> maker.id,
                        taker_order_id |-> taker.id, price |-> px, qty |-> fill_qty,
                        timestamp_ms |-> taker.timestamp_ms]
<1>1. /\ pc = "drain" /\ pc' = pc /\ taker.remaining_qty > Eps /\ queue # << >>
      /\ Head(queue) = maker
      /\ UNCHANGED <<index, next_order_id, px>>
      /\ taker' = [taker EXCEPT !.remaining_qty = @ - fill_qty]
      /\ next_trade_id' = next_trade_id + 1
      /\ trades' = Append(trades, trade)
      /\ levels' = [levels EXCEPT ![Across] = [levels[Across] EXCEPT ![px] = rest]]
      /\ filled_ids' = IF filled THEN filled_ids \cup {maker.id} ELSE filled_ids
  BY DEF Fill
<1>2. /\ taker \in Order /\ taker.side \in Side /\ taker.remaining_qty \in Int
      /\ taker.id \in Nat /\ Across \in Side /\ Across # taker.side
      /\ px \in Price /\ px \in Int
  BY <1>1, TakerType DEF MatchInv
<1>3. /\ px \in DOMAIN levels[Across] /\ Crosses(taker, px)
      /\ \A q \in DOMAIN levels[Across] : q = px \/ Better(Across, px, q)
  BY <1>1 DEF MatchInv, DrainsBestLevel
<1>4. /\ queue \in Seq(Order) /\ Len(queue) \in Nat \ {0}
      /\ \A i \in 1 .. Len(queue) : queue[i] \in Order
  BY <1>1, <1>2, <1>3, QueueType, EmptySeq DEF MatchInv
<1>5. maker \in Order /\ maker.id \in Nat /\ maker.remaining_qty \in Int
      /\ maker.remaining_qty > Eps
  BY <1>2, <1>3, <1>4 DEF MatchInv, RestingSound, ShouldRest, Order
<1>6. /\ fill_qty \in Int /\ fill_qty > 0 /\ left \in Int
      /\ trade \in Trade
      /\ taker' \in Order /\ taker'.remaining_qty < taker.remaining_qty
      /\ taker'.side = taker.side /\ taker'.id = taker.id /\ taker'.price = taker.price
      /\ taker'.order_type = taker.order_type /\ taker'.qty = taker.qty
  <2>1. fill_qty \in Int /\ fill_qty > 0 /\ left \in Int
    BY <1>1, <1>2, <1>5, EpsAssumption
  <2> HIDE DEF fill_qty
  <2>2. next_trade_id + 1 \in Nat /\ taker.timestamp_ms \in Int
    BY <1>2 DEF MatchInv, TypeOK, Order
  <2>3. trade \in Trade
    BY <1>2, <1>5, <2>1, <2>2 DEF Trade
  <2>4. taker.remaining_qty - fill_qty \in Int
        /\ taker.remaining_qty - fill_qty < taker.remaining_qty
    BY <1>2, <2>1
  <2>5. taker' = [taker EXCEPT !.remaining_qty = taker.remaining_qty - fill_qty]
    BY <1>1
  <2>6. taker' \in Order /\ taker'.remaining_qty = taker.remaining_qty - fill_qty
        /\ taker'.side = taker.side /\ taker'.id = taker.id /\ taker'.price = taker.price
        /\ taker'.order_type = taker.order_type /\ taker'.qty = taker.qty
    BY <1>2, <2>4, <2>5 DEF Order
  <2> QED
    BY <2>1, <2>3, <2>4, <2>6
<1>7. Across' = Across /\ \A q : Crosses(taker', q) <=> Crosses(taker, q)
  BY <1>6 DEF Across, Crosses
\* Every order left in the level was there before: one further on, if the maker
\* is gone.
<1>8. /\ rest \in Seq(Order)
      /\ \A i \in 1 .. Len(rest) :
           LET j == IF filled THEN i + 1 ELSE i IN
           /\ j \in 1 .. Len(queue)
           /\ rest[i].id = queue[j].id /\ rest[i].side = queue[j].side
           /\ rest[i].price = queue[j].price /\ rest[i].tif = queue[j].tif
           /\ rest[i].order_type = queue[j].order_type
           /\ rest[i].remaining_qty > Eps
      /\ Len(rest) = IF filled THEN Len(queue) - 1 ELSE Len(queue)
  <2>1. \A j \in 1 .. Len(queue) : queue[j].remaining_qty > Eps
    BY <1>2, <1>3 DEF MatchInv, RestingSound, ShouldRest
  <2>2. CASE filled
    <3>1. rest = Tail(queue)
      BY <2>2
    <3>2. rest \in Seq(Order) /\ Len(rest) = Len(queue) - 1
          /\ \A i \in 1 .. Len(rest) : rest[i] = queue[i + 1]
      <4>1. /\ Tail(queue) \in Seq(Order) /\ Len(Tail(queue)) = Len(queue) - 1
            /\ \A i \in 1 .. Len(Tail(queue)) : Tail(queue)[i] = queue[i + 1]
        <5> HIDE DEF queue
        <5> QED
          BY <1>1, <1>4, HeadTailProperties
      <4> QED
        BY <3>1, <4>1
    <3> HIDE DEF rest, queue, filled
    <3>3. \A i \in 1 .. Len(rest) : i + 1 \in 1 .. Len(queue) /\ rest[i] = queue[i + 1]
      BY <1>4, <3>2
    <3> QED
      BY <2>1, <2>2, <3>2, <3>3
  <2>3. CASE ~filled
    <3>1. smaller \in Order /\ smaller.remaining_qty = left /\ smaller.id = maker.id
          /\ smaller.side = maker.side /\ smaller.price = maker.price
          /\ smaller.tif = maker.tif /\ smaller.order_type = maker.order_type
      BY <1>5, <1>6 DEF Order
    <3>2. left > Eps
      BY <1>6, <2>3, EpsAssumption
    <3> HIDE DEF smaller, left
    <3>3. rest = [queue EXCEPT ![1] = smaller]
      BY <2>3
    <3>4. rest \in Seq(Order) /\ Len(rest) = Len(queue)
          /\ \A i \in 1 .. Len(queue) : rest[i] = IF i = 1 THEN smaller ELSE queue[i]
      BY <1>4, <3>1, <3>3, ExceptSeq
    <3> HIDE DEF rest
    <3> QED
      BY <1>4, <2>1, <2>3, <3>1, <3>2, <3>4
  <2> QED
    BY <2>2, <2>3
<1> HIDE DEF rest, trade, fill_qty, left
\* The other queues are as they were.
<1>9. /\ DOMAIN levels' = Side
      /\ \A s \in Side : /\ DOMAIN levels'[s] = DOMAIN levels[s]
                         /\ \A p \in DOMAIN levels[s] :
                              levels'[s][p] = IF s = Across /\ p = px THEN rest
                                                                     ELSE levels[s][p]
  BY <1>1, <1>2, <1>3 DEF MatchInv, TypeOK
<1>10. TypeOK'
  <2>1. \A s \in Side : /\ DOMAIN levels'[s] \subseteq Price
                        /\ levels'[s] \in [DOMAIN levels'[s] -> Seq(Order)]
    BY <1>1, <1>2, <1>3, <1>8 DEF MatchInv, TypeOK
  <2>2. trades' \in Seq(Trade)
    BY <1>1, <1>6, AppendProperties DEF MatchInv, TypeOK
  <2>3. filled_ids' \subseteq Nat
    BY <1>1, <1>5 DEF MatchInv, TypeOK
  <2> QED
    BY <1>1, <1>6, <1>9, <2>1, <2>2, <2>3 DEF MatchInv, TypeOK
<1>11. DrainsBestLevel'
  BY <1>1, <1>2, <1>3, <1>7, <1>9 DEF DrainsBestLevel
<1>12. RestingSound'
  <2> SUFFICES ASSUME NEW s \in Side, NEW p \in DOMAIN levels'[s],
                      NEW i \in 1 .. Len(levels'[s][p])
               PROVE  LET o == levels'[s][p][i]
                      IN  /\ o.side = s /\ o.price = p
                          /\ ShouldRest(o, o.remaining_qty)
                          /\ o.id <= next_order_id /\ o.id # taker.id
    BY <1>1, <1>6 DEF RestingSound, ShouldRest
  <2>1. p \in DOMAIN levels[s]
    BY <1>9
  <2>2. CASE s = Across /\ p = px
    BY <1>1, <1>8, <1>9, <2>1, <2>2 DEF MatchInv, RestingSound, ShouldRest
  <2>3. CASE ~(s = Across /\ p = px)
    BY <1>1, <1>9, <2>1, <2>3 DEF MatchInv, RestingSound
  <2> QED
    BY <2>2, <2>3
<1>13. NoEmptyLevel'
  BY <1>1, <1>7, <1>9 DEF MatchInv, NoEmptyLevel
<1>14. TimePriority'
  <2> SUFFICES ASSUME NEW s \in Side, NEW p \in DOMAIN levels'[s],
                      NEW i \in 1 .. Len(levels'[s][p]), NEW j \in 1 .. Len(levels'[s][p]),
                      i < j
               PROVE  levels'[s][p][i].id < levels'[s][p][j].id
    BY DEF TimePriority
  <2>1. p \in DOMAIN levels[s]
    BY <1>9
  <2>2. CASE s = Across /\ p = px
    <3>1. \A m, n \in 1 .. Len(queue) : m < n => queue[m].id < queue[n].id
      BY <1>2, <1>3 DEF MatchInv, TimePriority
    <3>2. i \in 1 .. Len(rest) /\ j \in 1 .. Len(rest)
      BY <1>9, <2>1, <2>2
    <3>3. rest[i].id < rest[j].id
      <4>1. CASE filled
        BY <1>8, <3>1, <3>2, <4>1, i + 1 < j + 1
      <4>2. CASE ~filled
        BY <1>8, <3>1, <3>2, <4>2
      <4> QED
        BY <4>1, <4>2
    <3> QED
      BY <1>9, <2>1, <2>2, <3>3
  <2>3. CASE ~(s = Across /\ p = px)
    BY <1>9, <2>1, <2>3 DEF MatchInv, TimePriority
  <2> QED
    BY <2>2, <2>3
<1>15. RestingIndexed'
  <2> SUFFICES ASSUME NEW s \in Side, NEW p \in DOMAIN levels'[s],
                      NEW i \in 1 .. Len(levels'[s][p])
               PROVE  LET id == levels'[s][p][i].id
                      IN  id \in DOMAIN index /\ index[id] = <<s, p>>
    BY <1>1 DEF RestingIndexed
  <2>1. p \in DOMAIN levels[s]
    BY <1>9
  <2>2. CASE s = Across /\ p = px
    <3>1. \A j \in 1 .. Len(queue) :
            queue[j].id \in DOMAIN index /\ index[queue[j].id] = <<s, p>>
      BY <1>2, <1>3, <2>2 DEF MatchInv, RestingIndexed
    <3>2. levels'[s][p] = rest
      BY <1>9, <2>1, <2>2
    <3>3. PICK j \in 1 .. Len(queue) : rest[i].id = queue[j].id
      BY <1>8, <3>2
    <3> HIDE DEF rest, queue
    <3> QED
      BY <3>1, <3>2, <3>3
  <2>3. CASE ~(s = Across /\ p = px)
    BY <1>9, <2>1, <2>3 DEF MatchInv, RestingIndexed
  <2> QED
    BY <2>2, <2>3
<1>16. FilledIndexed'
  <2>1. levels'[Across][px] = rest
    BY <1>2, <1>3, <1>9
  <2> SUFFICES ASSUME NEW id \in filled_ids'
               PROVE  /\ id \in DOMAIN index /\ index[id] = <<Across, px>>
                      /\ \A i \in 1 .. Len(rest) : id < rest[i].id
    BY <1>1, <1>7, <2>1 DEF FilledIndexed
  <2>2. CASE id \in filled_ids
    BY <1>8, <2>2 DEF MatchInv, FilledIndexed
  <2>3. CASE id \notin filled_ids
    <3>1. filled /\ id = maker.id
      BY <1>1, <2>3
    <3>2. id \in DOMAIN index /\ index[id] = <<Across, px>>
      BY <1>2, <1>3, <1>4, <3>1 DEF MatchInv, RestingIndexed
    <3>3. \A j \in 2 .. Len(queue) : maker.id < queue[j].id
      BY <1>2, <1>3, <1>4 DEF MatchInv, TimePriority
    <3> QED
      BY <1>4, <1>8, <3>1, <3>2, <3>3
  <2> QED
    BY <2>2, <2>3
<1>17. IndexedRests'
  <2> SUFFICES ASSUME NEW id \in DOMAIN index, id \notin filled_ids'
               PROVE  RestsAt(id, index[id][1], index[id][2])'
    BY <1>1 DEF IndexedRests
  <2> DEFINE s == index[id][1]
             p == index[id][2]
  <2>1. id \notin filled_ids /\ (filled => id # maker.id)
    BY <1>1
  <2>2. s \in Side /\ p \in DOMAIN levels[s]
        /\ \E i \in 1 .. Len(levels[s][p]) : levels[s][p][i].id = id
    BY <2>1 DEF MatchInv, IndexedRests, RestsAt, TypeOK
  <2>3. CASE s = Across /\ p = px
    <3>1. PICK j \in 1 .. Len(queue) : queue[j].id = id
      BY <2>2, <2>3
    <3>2. filled => j # 1
      BY <2>1, <3>1
    <3>3. \E i \in 1 .. Len(rest) : rest[i].id = id
      <4>1. CASE filled
        <5>1. j - 1 \in 1 .. Len(rest) /\ (j - 1) + 1 = j
          BY <1>4, <1>8, <3>2, <4>1
        <5>2. rest[j - 1].id = queue[(j - 1) + 1].id
          BY <1>8, <4>1, <5>1
        <5> QED
          BY <3>1, <5>1, <5>2
      <4>2. CASE ~filled
        BY <1>4, <1>8, <3>1, <4>2
      <4> QED
        BY <4>1, <4>2
    <3> QED
      BY <1>1, <1>9, <2>2, <2>3, <3>3 DEF RestsAt
  <2>4. CASE ~(s = Across /\ p = px)
    BY <1>1, <1>9, <2>2, <2>4 DEF RestsAt
  <2> QED
    BY <2>3, <2>4
<1>18. Uncrossed'
  BY <1>9 DEF MatchInv, Uncrossed, Side
<1>19. TakerSound'
  <2>1. taker.id = next_order_id /\ taker.remaining_qty <= taker.qty
        /\ taker.qty \in Int /\ taker'.remaining_qty \in Int
    BY <1>1, <1>2, <1>6, QtyAssumption DEF MatchInv, TakerSound, Order
  <2> QED
    BY <1>1, <1>2, <1>6, <2>1 DEF TakerSound
<1>20. TradesBestFirst'
  <2>1. /\ Len(trades) \in Nat /\ Len(trades') = Len(trades) + 1
        /\ \A i \in 1 .. Len(trades) : trades'[i] = trades[i]
        /\ trades'[Len(trades) + 1] = trade
    BY <1>1, <1>6, AppendProperties, LenProperties DEF MatchInv, TypeOK
  <2>2. trade.price = px /\ trade.qty > 0
    BY <1>6 DEF trade
  <2>3. \A i \in 1 .. Len(trades) :
          trades[i].price = px \/ Better(Across, trades[i].price, px)
    BY <1>3 DEF MatchInv, TradesBestFirst
  <2> SUFFICES ASSUME NEW i \in 1 .. Len(trades) + 1
               PROVE  /\ Crosses(taker, trades'[i].price) /\ trades'[i].qty > 0
                      /\ \A q \in DOMAIN levels[Across] :
                           q = trades'[i].price \/ Better(Across, trades'[i].price, q)
                      /\ \A j \in i .. Len(trades) + 1 :
                           \/ trades'[j].price = trades'[i].price
                           \/ Better(Across, trades'[i].price, trades'[j].price)
    BY <1>2, <1>7, <1>9, <2>1 DEF TradesBestFirst
  <2>4. CASE i = Len(trades) + 1
    BY <1>3, <2>1, <2>2, <2>4
  <2>5. CASE i \in 1 .. Len(trades)
    <3>1. \A j \in i .. Len(trades) :
            \/ trades[j].price = trades[i].price
            \/ Better(Across, trades[i].price, trades[j].price)
      BY <2>5 DEF MatchInv, TradesBestFirst
    <3>2. \A j \in i .. Len(trades) + 1 :
            \/ trades'[j].price = trades'[i].price
            \/ Better(Across, trades'[i].price, trades'[j].price)
      BY <2>1, <2>2, <2>3, <2>5, <3>1
    <3> QED
      BY <2>1, <2>5, <3>2 DEF MatchInv, TradesBestFirst
  <2> QED
    BY <2>1, <2>4, <2>5
<1> QED
  BY <1>1, <1>10, <1>11, <1>12, <1>13, <1>14, <1>15, <1>16, <1>17, <1>18, <1>19, <1>20
  DEF MatchInv

\* What is left of the order, if it rests, joins the back of the queue at its own
\* price: it is the youngest order, and no level across is within its limit.
LEMMA FinishStep ==
  ASSUME MatchInv, Finish
  PROVE  MatchInv'
<1> DEFINE left  == taker.remaining_qty
           rests == ShouldRest(taker, left)
           side  == taker.side
           price == taker.price
           queue == IF price \in DOMAIN levels[side] THEN levels[side][price] ELSE << >>
           tail  == Append(queue, taker)
<1>1. /\ pc = "match" /\ pc' = "idle" /\ taker' = None /\ trades' = << >>
      /\ UNCHANGED <<next_trade_id, next_order_id, px, filled_ids>>
      /\ levels' = IF rests THEN [levels EXCEPT ![side] = With(@, price, tail)] ELSE levels
      /\ index' = IF rests THEN With(index, taker.id, Place(taker)) ELSE index
      /\ left <= Eps \/ \A p \in DOMAIN levels[Across] : ~Crosses(taker, p)
  BY DEF Finish
<1>2. /\ taker \in Order /\ side \in Side /\ price \in Price /\ price \in Int
      /\ left \in Int /\ taker.id \in Nat /\ taker.id = next_order_id
      /\ Across = Opposite(side) /\ filled_ids = {} /\ px = None
  BY <1>1, TakerType DEF MatchInv, TakerSound, DrainsBestLevel, Across, TypeOK
<1>3. queue \in Seq(Order) /\ Len(queue) \in Nat
  BY <1>2, QueueType, EmptySeq DEF MatchInv
\* What is in the queue the order joins is in the book already.
<1>5. \A i \in 1 .. Len(queue) :
        price \in DOMAIN levels[side] /\ i \in 1 .. Len(levels[side][price])
          /\ queue[i] = levels[side][price][i]
  BY EmptySeq
<1>9. price \in DOMAIN levels[side] => queue = levels[side][price]
  OBVIOUS
<1> HIDE DEF queue
<1>4. /\ tail \in Seq(Order) /\ Len(tail) = Len(queue) + 1 /\ tail # << >>
      /\ \A i \in 1 .. Len(queue) : tail[i] = queue[i]
      /\ tail[Len(queue) + 1] = taker
  BY <1>2, <1>3, AppendProperties
<1>6. \A s \in Side : \A p \in DOMAIN levels[s] : \A i \in 1 .. Len(levels[s][p]) :
        LET o == levels[s][p][i]
        IN  /\ o.side = s /\ o.price = p /\ ShouldRest(o, o.remaining_qty)
            /\ o.id \in Nat /\ o.id < taker.id
            /\ o.id \in DOMAIN index /\ index[o.id] = <<s, p>>
  <2> SUFFICES ASSUME NEW s \in Side, NEW p \in DOMAIN levels[s],
                      NEW i \in 1 .. Len(levels[s][p])
               PROVE  LET o == levels[s][p][i]
                      IN  /\ o.side = s /\ o.price = p /\ ShouldRest(o, o.remaining_qty)
                          /\ o.id \in Nat /\ o.id < taker.id
                          /\ o.id \in DOMAIN index /\ index[o.id] = <<s, p>>
    OBVIOUS
  <2>1. levels[s][p][i].id \in Nat
    BY QueueType DEF MatchInv, Order
  <2>2. levels[s][p][i].id <= next_order_id /\ levels[s][p][i].id # taker.id
    BY <1>1 DEF MatchInv, RestingSound
  <2> QED
    BY <1>2, <2>1, <2>2 DEF MatchInv, RestingSound, RestingIndexed
<1> HIDE DEF tail
<1>7. CASE ~rests
  <2>1. UNCHANGED <<levels, index>>
    BY <1>1, <1>7
  <2>2. TypeOK'
    BY <1>1, <2>1, EmptySeq DEF MatchInv, TypeOK
  <2>3. RestingSound'
    BY <1>1, <2>1 DEF MatchInv, RestingSound, ShouldRest
  <2>6. NoEmptyLevel'
    BY <1>1, <2>1 DEF MatchInv, NoEmptyLevel
  <2>4. TimePriority' /\ RestingIndexed' /\ IndexedRests' /\ Uncrossed'
    BY <1>1, <2>1 DEF MatchInv, TimePriority, RestingIndexed, IndexedRests, RestsAt,
                      Uncrossed
  <2>5. DrainsBestLevel' /\ FilledIndexed' /\ TakerSound' /\ TradesBestFirst'
    BY <1>1, <1>2, <2>1 DEF DrainsBestLevel, FilledIndexed, TakerSound, TradesBestFirst
  <2> QED
    BY <1>1, <2>2, <2>3, <2>4, <2>5, <2>6 DEF MatchInv
<1>8. CASE rests
  <2>1. /\ DOMAIN levels' = Side
        /\ \A s \in Side :
             /\ DOMAIN levels'[s] = IF s = side THEN DOMAIN levels[s] \cup {price}
                                                ELSE DOMAIN levels[s]
             /\ \A p \in DOMAIN levels'[s] :
                  levels'[s][p] = IF s = side /\ p = price THEN tail ELSE levels[s][p]
    BY <1>1, <1>2, <1>8 DEF MatchInv, TypeOK, With
  <2>12. ASSUME NEW s \in Side, NEW p \in DOMAIN levels'[s], ~(s = side /\ p = price)
         PROVE  p \in DOMAIN levels[s] /\ levels'[s][p] = levels[s][p]
    <3>1. levels'[s][p] = levels[s][p]
      BY <2>1, <2>12
    <3>2. p \in DOMAIN levels[s]
      <4>1. CASE s = side
        <5>1. DOMAIN levels'[s] = DOMAIN levels[s] \cup {price}
          BY <2>1, <4>1
        <5>2. p # price
          BY <2>12, <4>1
        <5> QED
          BY <5>1, <5>2
      <4>2. CASE s # side
        BY <2>1, <4>2
      <4> QED
        BY <4>1, <4>2
    <3> QED
      BY <3>1, <3>2
  <2>2. /\ DOMAIN index' = DOMAIN index \cup {taker.id}
        /\ \A id \in DOMAIN index' : index'[id] = IF id = taker.id THEN <<side, price>>
                                                                   ELSE index[id]
    BY <1>1, <1>8 DEF With, Place
  <2>3. TypeOK'
    <3>1. \A s \in Side : /\ DOMAIN levels'[s] \subseteq Price
                          /\ levels'[s] \in [DOMAIN levels'[s] -> Seq(Order)]
      BY <1>1, <1>2, <1>4, <1>8 DEF MatchInv, TypeOK, With
    <3>2. DOMAIN index' \subseteq Nat /\ index' \in [DOMAIN index' -> Side \X Price]
      BY <1>1, <1>2, <1>8 DEF MatchInv, TypeOK, With, Place
    <3> QED
      BY <1>1, <2>1, <3>1, <3>2, EmptySeq DEF MatchInv, TypeOK
  <2>4. DrainsBestLevel' /\ FilledIndexed' /\ TakerSound' /\ TradesBestFirst'
    BY <1>1, <1>2 DEF DrainsBestLevel, FilledIndexed, TakerSound, TradesBestFirst
  \* An order of a queue was there before, or is the taker at the back.
  <2>5. ASSUME NEW s \in Side, NEW p \in DOMAIN levels'[s], NEW i \in 1 .. Len(levels'[s][p])
        PROVE  \/ /\ p \in DOMAIN levels[s] /\ i \in 1 .. Len(levels[s][p])
                  /\ levels'[s][p][i] = levels[s][p][i]
               \/ s = side /\ p = price /\ i = Len(queue) + 1 /\ levels'[s][p][i] = taker
    <3>1. CASE s = side /\ p = price
      <4>1. levels'[s][p] = tail /\ i \in 1 .. Len(queue) + 1
        BY <1>4, <2>1, <2>12, <3>1
      <4>2. CASE i = Len(queue) + 1
        BY <1>4, <3>1, <4>1, <4>2
      <4>3. CASE i \in 1 .. Len(queue)
        BY <1>4, <1>5, <3>1, <4>1, <4>3
      <4> QED
        BY <1>3, <4>1, <4>2, <4>3
    <3>2. CASE ~(s = side /\ p = price)
      BY <2>12, <3>2
    <3> QED
      BY <3>1, <3>2
  <2>6. RestingSound'
    <3> SUFFICES ASSUME NEW s \in Side, NEW p \in DOMAIN levels'[s],
                        NEW i \in 1 .. Len(levels'[s][p])
                 PROVE  LET o == levels'[s][p][i]
                        IN  /\ o.side = s /\ o.price = p
                            /\ ShouldRest(o, o.remaining_qty)
                            /\ o.id <= next_order_id
      BY <1>1 DEF RestingSound, ShouldRest
    <3> QED
      BY <1>2, <1>6, <1>8, <2>5
  <2>7. NoEmptyLevel'
    <3> SUFFICES ASSUME NEW s \in Side, NEW p \in DOMAIN levels'[s]
                 PROVE  levels'[s][p] # << >>
      BY DEF NoEmptyLevel
    <3>1. p \in DOMAIN levels[s] => levels[s][p] # << >>
      BY <1>1 DEF MatchInv, NoEmptyLevel
    <3> QED
      BY <1>4, <2>1, <2>12, <3>1
  <2>8. TimePriority'
    <3> SUFFICES ASSUME NEW s \in Side, NEW p \in DOMAIN levels'[s],
                        NEW i \in 1 .. Len(levels'[s][p]), NEW j \in 1 .. Len(levels'[s][p]),
                        i < j
                 PROVE  levels'[s][p][i].id < levels'[s][p][j].id
      BY DEF TimePriority
    <3>1. CASE s = side /\ p = price
      <4>1. levels'[s][p] = tail
        BY <2>1, <3>1
      <4>2. i \in 1 .. Len(queue) /\ j \in 1 .. Len(queue) + 1
        BY <1>3, <1>4, <4>1
      <4>3. CASE j = Len(queue) + 1
        BY <1>4, <1>5, <1>6, <3>1, <4>1, <4>2, <4>3
      <4>4. CASE j \in 1 .. Len(queue)
        <5>1. price \in DOMAIN levels[side] /\ queue = levels[side][price]
          BY <1>5, <1>9, <4>4
        <5>2. i \in 1 .. Len(queue) /\ queue[i].id < queue[j].id
          BY <1>2, <1>3, <4>2, <4>4, <5>1 DEF MatchInv, TimePriority
        <5> QED
          BY <1>4, <4>1, <4>4, <5>2
      <4> QED
        BY <1>3, <4>2, <4>3, <4>4
    <3>2. CASE ~(s = side /\ p = price)
      BY <2>12, <3>2 DEF MatchInv, TimePriority
    <3> QED
      BY <3>1, <3>2
  <2>9. RestingIndexed'
    <3> SUFFICES ASSUME NEW s \in Side, NEW p \in DOMAIN levels'[s],
                        NEW i \in 1 .. Len(levels'[s][p])
                 PROVE  LET id == levels'[s][p][i].id
                        IN  id \in DOMAIN index' /\ index'[id] = <<s, p>>
      BY DEF RestingIndexed
    <3>1. CASE levels'[s][p][i] = taker /\ s = side /\ p = price
      BY <2>2, <3>1
    <3>2. CASE /\ p \in DOMAIN levels[s] /\ i \in 1 .. Len(levels[s][p])
               /\ levels'[s][p][i] = levels[s][p][i]
      BY <1>2, <1>6, <2>2, <3>2
    <3> QED
      BY <2>5, <3>1, <3>2
  <2>10. IndexedRests'
    <3> SUFFICES ASSUME NEW id \in DOMAIN index'
                 PROVE  RestsAt(id, index[id][1], index[id][2])'
      BY DEF IndexedRests
    <3>1. CASE id = taker.id
      <4>1. index'[id] = <<side, price>> /\ price \in DOMAIN levels'[side]
            /\ levels'[side][price] = tail
        BY <1>2, <2>1, <2>2, <3>1
      <4>2. \E i \in 1 .. Len(tail) : tail[i].id = id
        BY <1>3, <1>4, <3>1, Len(queue) + 1 \in 1 .. Len(tail)
      <4> QED
        BY <4>1, <4>2 DEF RestsAt
    <3>2. CASE id # taker.id
      <4> DEFINE s == index[id][1]
                 p == index[id][2]
      <4>1. id \in DOMAIN index /\ s \in Side /\ index'[id] = index[id]
        BY <2>2, <3>2 DEF MatchInv, TypeOK
      <4>2. p \in DOMAIN levels[s] /\ \E i \in 1 .. Len(levels[s][p]) : levels[s][p][i].id = id
        BY <1>2, <4>1 DEF MatchInv, IndexedRests, RestsAt
      <4>3. CASE s = side /\ p = price
        <5>1. queue = levels[s][p]
          BY <1>9, <4>2, <4>3
        <5>2. \E i \in 1 .. Len(tail) : tail[i].id = id
          <6>1. PICK i \in 1 .. Len(queue) : queue[i].id = id
            BY <4>2, <5>1
          <6>2. i \in 1 .. Len(tail) /\ tail[i].id = id
            BY <1>3, <1>4, <6>1
          <6> QED
            BY <6>2
        <5> QED
          <6>1. p \in DOMAIN levels'[s] /\ levels'[s][p] = tail
            BY <1>2, <2>1, <4>3
          <6> HIDE DEF s, p
          <6> QED
            BY <4>1, <5>2, <6>1 DEF RestsAt, s, p
      <4>4. CASE ~(s = side /\ p = price)
        <5>1. p \in DOMAIN levels'[s] /\ levels'[s][p] = levels[s][p]
          BY <2>1, <4>1, <4>2, <4>4
        <5> QED
          BY <4>1, <4>2, <5>1 DEF RestsAt
      <4> QED
        BY <4>3, <4>4
    <3> QED
      BY <3>1, <3>2
  <2>11. Uncrossed'
    <3>1. \A p \in DOMAIN levels[Across] : ~Crosses(taker, p)
      BY <1>1, <1>2, <1>8, EpsAssumption DEF ShouldRest
    <3>2. \A s \in Side : \A p \in DOMAIN levels[s] : p \in Int
      BY QueueType DEF MatchInv
    <3>3. CASE side = "Buy"
      BY <1>2, <2>1, <3>1, <3>2, <3>3 DEF MatchInv, Uncrossed, Side, Opposite, Crosses
    <3>4. CASE side = "Sell"
      BY <1>2, <2>1, <3>1, <3>2, <3>4 DEF MatchInv, Uncrossed, Side, Opposite, Crosses
    <3> QED
      BY <1>2, <3>3, <3>4 DEF Side
  <2> QED
    BY <1>1, <2>3, <2>4, <2>6, <2>7, <2>8, <2>9, <2>10, <2>11 DEF MatchInv
<1> QED
  BY <1>7, <1>8

-----------------------------------------------------------------------------
(* Cancelling.                                                             *)

\* The index leads to the order, and the order leaves the one queue it is in.
LEMMA CancelRestingStep ==
  ASSUME MatchInv, NEW id, CancelResting(id)
  PROVE  MatchInv'
<1> DEFINE side  == index[id][1]
           p     == index[id][2]
           queue == levels[side][p]
           kept  == Retain(queue, id)
<1>1. /\ pc = "idle" /\ id \in DOMAIN index /\ filled_ids = {} /\ trades = << >>
      /\ UNCHANGED <<next_trade_id, next_order_id, pc, taker, trades, px, filled_ids>>
  BY DEF CancelResting, matchVars, MatchInv, DrainsBestLevel
<1>2. /\ side \in Side /\ p \in DOMAIN levels[side] /\ id \in Nat
      /\ index[id] = <<side, p>>
      /\ \E i \in 1 .. Len(queue) : queue[i].id = id
  <2>1. side \in Side /\ id \in Nat /\ index[id] = <<side, p>>
    BY <1>1 DEF MatchInv, TypeOK
  <2>2. RestsAt(id, side, p)
    BY <1>1 DEF MatchInv, IndexedRests
  <2> QED
    BY <2>1, <2>2 DEF RestsAt
<1>3. PICK k \in 1 .. Len(queue) : queue[k].id = id
  BY <1>2
<1>4. queue \in Seq(Order) /\ Len(queue) \in Nat
      /\ \A i \in 1 .. Len(queue) : queue[i] \in Order /\ queue[i].id \in Nat
  BY <1>2, QueueType DEF MatchInv, Order
<1>5. \A i, j \in 1 .. Len(queue) : i < j => queue[i].id < queue[j].id
  BY <1>2 DEF MatchInv, TimePriority
<1>6. \A i \in 1 .. Len(queue) : queue[i].id = id => i = k
  <2> HIDE DEF queue
  <2> SUFFICES ASSUME NEW i \in 1 .. Len(queue), queue[i].id = id
               PROVE  ~(i < k) /\ ~(k < i)
    BY <1>3, <1>4
  <2>1. queue[i].id = queue[k].id /\ queue[i].id \in Nat
    BY <1>3, <1>4
  <2> QED
    BY <1>3, <1>5, <2>1
<1>7. /\ kept \in Seq(Order) /\ Len(kept) = Len(queue) - 1
      /\ \A i \in 1 .. Len(queue) - 1 : kept[i] = IF i < k THEN queue[i] ELSE queue[i + 1]
  <2> HIDE DEF queue
  <2> QED
    BY <1>3, <1>4, <1>6, RetainProperties
<1>8. /\ index' = Without(index, {id})
      /\ levels' = [levels EXCEPT ![side] = IF kept = << >> THEN Without(@, {p})
                                                            ELSE With(@, p, kept)]
  BY <1>1, <1>2 DEF CancelResting
\* Whoever is left in the queue was there before, and is not the cancelled order;
\* everyone else is still there.
<1>9. \A i \in 1 .. Len(kept) :
        LET j == IF i < k THEN i ELSE i + 1
        IN  j \in 1 .. Len(queue) /\ j # k /\ kept[i] = queue[j]
  <2> HIDE DEF queue, kept
  <2> QED
    BY <1>3, <1>4, <1>7
<1>10. \A j \in 1 .. Len(queue) : j # k => \E i \in 1 .. Len(kept) : kept[i] = queue[j]
  <2> HIDE DEF queue, kept
  <2> SUFFICES ASSUME NEW j \in 1 .. Len(queue), j # k
               PROVE  \E i \in 1 .. Len(kept) : kept[i] = queue[j]
    OBVIOUS
  <2>1. CASE j < k
    <3>1. j \in 1 .. Len(kept) /\ kept[j] = queue[j]
      BY <1>3, <1>4, <1>7, <2>1
    <3> QED
      BY <3>1
  <2>2. CASE j > k
    <3>1. j - 1 \in 1 .. Len(kept) /\ kept[j - 1] = queue[j]
      BY <1>3, <1>4, <1>7, <2>2
    <3> QED
      BY <3>1
  <2> QED
    BY <1>3, <1>4, <2>1, <2>2
<1> HIDE DEF kept
<1>11. /\ DOMAIN levels' = Side
       /\ DOMAIN levels'[side] = IF kept = << >> THEN DOMAIN levels[side] \ {p}
                                                 ELSE DOMAIN levels[side]
       /\ \A q \in DOMAIN levels'[side] :
            levels'[side][q] = IF q = p THEN kept ELSE levels[side][q]
       /\ \A s \in Side : s # side => levels'[s] = levels[s]
  BY <1>2, <1>8 DEF MatchInv, TypeOK, With, Without
<1>12. \A s \in Side : DOMAIN levels'[s] \subseteq DOMAIN levels[s]
  BY <1>2, <1>11
<1>13. ASSUME NEW s \in Side, NEW q \in DOMAIN levels'[s], ~(s = side /\ q = p)
       PROVE  levels'[s][q] = levels[s][q]
  BY <1>11, <1>13
<1>14. p \in DOMAIN levels'[side] => levels'[side][p] = kept
  BY <1>11
<1>15. /\ DOMAIN index' = DOMAIN index \ {id}
       /\ \A x \in DOMAIN index' : index'[x] = index[x]
  BY <1>8 DEF Without
<1>16. TypeOK'
  <2>1. \A s \in Side : /\ DOMAIN levels'[s] \subseteq Price
                        /\ levels'[s] \in [DOMAIN levels'[s] -> Seq(Order)]
    <3> SUFFICES ASSUME NEW s \in Side
                 PROVE  /\ DOMAIN levels'[s] \subseteq Price
                        /\ levels'[s] \in [DOMAIN levels'[s] -> Seq(Order)]
      OBVIOUS
    <3>1. DOMAIN levels[s] \subseteq Price /\ levels[s] \in [DOMAIN levels[s] -> Seq(Order)]
      BY DEF MatchInv, TypeOK
    <3>2. CASE s # side
      BY <1>11, <3>1, <3>2
    <3>3. CASE s = side /\ kept = << >>
      <4>1. levels'[s] = Without(levels[s], {p})
        BY <1>2, <1>8, <3>3 DEF MatchInv, TypeOK
      <4> QED
        BY <3>1, <4>1 DEF Without
    <3>4. CASE s = side /\ kept # << >>
      <4>1. levels'[s] = With(levels[s], p, kept)
        BY <1>2, <1>8, <3>4 DEF MatchInv, TypeOK
      <4> QED
        BY <1>2, <1>7, <3>1, <3>4, <4>1 DEF With
    <3> QED
      BY <3>2, <3>3, <3>4
  <2>2. DOMAIN index' \subseteq Nat /\ index' \in [DOMAIN index' -> Side \X Price]
    BY <1>8 DEF MatchInv, TypeOK, Without
  <2> QED
    BY <1>1, <1>11, <2>1, <2>2 DEF MatchInv, TypeOK
<1>17. DrainsBestLevel' /\ FilledIndexed' /\ TakerSound' /\ TradesBestFirst'
  BY <1>1 DEF DrainsBestLevel, FilledIndexed, TakerSound, TradesBestFirst
\* An order on the book was there before, at the same price on the same side, and
\* is not the cancelled one.
<1>18. ASSUME NEW s \in Side, NEW q \in DOMAIN levels'[s], NEW i \in 1 .. Len(levels'[s][q])
       PROVE  /\ q \in DOMAIN levels[s] /\ levels'[s][q][i].id # id
              /\ \E j \in 1 .. Len(levels[s][q]) : levels'[s][q][i] = levels[s][q][j]
  <2>1. q \in DOMAIN levels[s]
    BY <1>12
  <2>2. CASE s = side /\ q = p
    BY <1>6, <1>9, <1>14, <2>1, <2>2
  <2>3. CASE ~(s = side /\ q = p)
    <3>1. levels'[s][q] = levels[s][q]
      BY <1>13, <2>3
    <3>2. index[levels[s][q][i].id] = <<s, q>>
      BY <2>1, <3>1 DEF MatchInv, RestingIndexed
    <3>3. levels[s][q][i].id # id
      BY <1>2, <2>3, <3>2
    <3> QED
      BY <2>1, <3>1, <3>3
  <2> QED
    BY <2>2, <2>3
<1>19. RestingSound'
  <2> SUFFICES ASSUME NEW s \in Side, NEW q \in DOMAIN levels'[s],
                      NEW i \in 1 .. Len(levels'[s][q])
               PROVE  LET o == levels'[s][q][i]
                      IN  /\ o.side = s /\ o.price = q
                          /\ ShouldRest(o, o.remaining_qty)
                          /\ o.id <= next_order_id
    BY <1>1 DEF RestingSound, ShouldRest
  <2> QED
    BY <1>18 DEF MatchInv, RestingSound
<1>20. NoEmptyLevel'
  <2> SUFFICES ASSUME NEW s \in Side, NEW q \in DOMAIN levels'[s]
               PROVE  levels'[s][q] # << >>
    BY DEF NoEmptyLevel
  <2>1. CASE s = side /\ q = p
    BY <1>11, <2>1
  <2>2. CASE ~(s = side /\ q = p)
    BY <1>1, <1>12, <1>13, <2>2 DEF MatchInv, NoEmptyLevel
  <2> QED
    BY <2>1, <2>2
<1>21. TimePriority'
  <2> SUFFICES ASSUME NEW s \in Side, NEW q \in DOMAIN levels'[s],
                      NEW i \in 1 .. Len(levels'[s][q]), NEW j \in 1 .. Len(levels'[s][q]),
                      i < j
               PROVE  levels'[s][q][i].id < levels'[s][q][j].id
    BY DEF TimePriority
  <2>1. CASE s = side /\ q = p
    <3>1. levels'[s][q] = kept
      BY <1>14, <2>1
    <3>2. (IF i < k THEN i ELSE i + 1) < (IF j < k THEN j ELSE j + 1)
      BY <1>3, <1>4, <1>7, <3>1
    <3> QED
      BY <1>5, <1>9, <3>1, <3>2
  <2>2. CASE ~(s = side /\ q = p)
    BY <1>12, <1>13, <2>2 DEF MatchInv, TimePriority
  <2> QED
    BY <2>1, <2>2
<1>22. RestingIndexed'
  <2> SUFFICES ASSUME NEW s \in Side, NEW q \in DOMAIN levels'[s],
                      NEW i \in 1 .. Len(levels'[s][q])
               PROVE  LET x == levels'[s][q][i].id
                      IN  x \in DOMAIN index' /\ index'[x] = <<s, q>>
    BY DEF RestingIndexed
  <2> QED
    BY <1>15, <1>18 DEF MatchInv, RestingIndexed
<1>23. IndexedRests'
  <2> SUFFICES ASSUME NEW x \in DOMAIN index'
               PROVE  RestsAt(x, index[x][1], index[x][2])'
    BY DEF IndexedRests
  <2> DEFINE s == index[x][1]
             q == index[x][2]
  <2>1. x \in DOMAIN index /\ x # id /\ index'[x] = index[x] /\ s \in Side
    BY <1>15 DEF MatchInv, TypeOK
  <2>2. q \in DOMAIN levels[s] /\ \E j \in 1 .. Len(levels[s][q]) : levels[s][q][j].id = x
    BY <1>1, <2>1 DEF MatchInv, IndexedRests, RestsAt
  <2>3. CASE s = side /\ q = p
    <3>1. PICK j \in 1 .. Len(queue) : queue[j].id = x
      BY <2>2, <2>3
    <3>2. PICK i \in 1 .. Len(kept) : kept[i] = queue[j]
      BY <1>3, <1>10, <2>1, <3>1
    <3>3. kept # << >>
      BY <3>2
    <3>4. q \in DOMAIN levels'[s] /\ levels'[s][q] = kept
      BY <1>11, <1>14, <2>2, <2>3, <3>3
    <3> HIDE DEF s, q
    <3> QED
      BY <2>1, <3>1, <3>2, <3>4 DEF RestsAt, s, q
  <2>4. CASE ~(s = side /\ q = p)
    <3>1. q \in DOMAIN levels'[s]
      BY <1>11, <2>1, <2>2, <2>4
    <3>2. levels'[s][q] = levels[s][q]
      BY <1>13, <2>1, <2>4, <3>1
    <3> QED
      BY <2>1, <2>2, <3>1, <3>2 DEF RestsAt
  <2> QED
    BY <2>3, <2>4
<1>24. Uncrossed'
  BY <1>12 DEF MatchInv, Uncrossed, Side
<1> QED
  BY <1>1, <1>16, <1>17, <1>19, <1>20, <1>21, <1>22, <1>23, <1>24 DEF MatchInv

-----------------------------------------------------------------------------
(* The theorems.                                                           *)

\* So every step keeps the inductive invariant.
LEMMA NextStep == MatchInv /\ [Next]_vars => MatchInv'
<1> SUFFICES ASSUME MatchInv, [Next]_vars PROVE MatchInv'
  OBVIOUS
<1>1. ASSUME NEW t \in Templates, Accept(t) PROVE MatchInv'
  BY <1>1, AcceptStep
<1>2. ASSUME NEW t \in Templates, RejectFok(t) PROVE MatchInv'
  BY <1>2, RejectFokStep
<1>3. ASSUME NEW p \in Price, OpenLevel(p) PROVE MatchInv'
  BY <1>3, OpenLevelStep
<1>4. CASE Fill
  BY <1>4, FillKeeps
<1>5. CASE CloseLevel
  BY <1>5, CloseLevelStep
<1>6. CASE Finish
  BY <1>6, FinishStep
<1>7. ASSUME NEW id \in CancelIds, CancelUnknown(id) PROVE MatchInv'
  BY <1>7, CancelUnknownStep
<1>8. ASSUME NEW id \in CancelIds, CancelResting(id) PROVE MatchInv'
  BY <1>8, CancelRestingStep
<1>9. CASE UNCHANGED vars
  BY <1>9 DEF vars, MatchInv, TypeOK, DrainsBestLevel, RestingSound, NoEmptyLevel,
              TimePriority, RestingIndexed, FilledIndexed, IndexedRests, RestsAt,
              Uncrossed, TakerSound, TradesBestFirst, Across
<1> QED
  BY <1>1, <1>2, <1>3, <1>4, <1>5, <1>6, <1>7, <1>8, <1>9 DEF Next, Continue

\* The inductive invariant holds at every turn of submit's loops and between all
\* operations, whatever orders are submitted and cancelled.
THEOREM MatchingInvariant == Spec => []MatchInv
<1>1. Init => MatchInv
  BY InitStep
<1>2. MatchInv /\ [Next]_vars => MatchInv'
  BY NextStep
<1> QED
  BY <1>1, <1>2, PTL DEF Spec

\* The variables of OrderBook::submit and cancel keep their types.
THEOREM TypeCorrect == Spec => []TypeOK
<1>1. MatchInv => TypeOK
  BY DEF MatchInv
<1> QED
  BY <1>1, MatchingInvariant, PTL

\* The book is never crossed: matching stops only when the taker is satisfied or
\* crosses no level left, so what rests is never within reach of the other side.
THEOREM NeverCrossed == Spec => []Uncrossed
<1>1. MatchInv => Uncrossed
  BY DEF MatchInv
<1> QED
  BY <1>1, MatchingInvariant, PTL

\* Partial fills at the front, insertions at the back and cancellations anywhere
\* keep every queue in order of arrival.
THEOREM TimePriorityKept == Spec => []TimePriority
<1>1. MatchInv => TimePriority
  BY DEF MatchInv
<1> QED
  BY <1>1, MatchingInvariant, PTL

\* The index that cancel trusts agrees with the levels: everything that rests is
\* indexed where it rests, and between operations nothing else is indexed.
THEOREM IndexAgrees == Spec => []IndexSound
<1>1. MatchInv => IndexSound
  BY DEF MatchInv, IndexSound, IndexedRests, DrainsBestLevel
<1> QED
  BY <1>1, MatchingInvariant, PTL

\* A submission trades within its limit, at the best prices first.
THEOREM BestPricesFirst == Spec => []TradesBestFirst
<1>1. MatchInv => TradesBestFirst
  BY DEF MatchInv
<1> QED
  BY <1>1, MatchingInvariant, PTL

-----------------------------------------------------------------------------
(* What the loops keep between them and the book submit started from.      *)

\* The order being matched, as it was before it traded.
Submitted == [taker EXCEPT !.remaining_qty = taker.qty]

\* T[1] to T[n] are the makers so far: the trades, the taker and the book are what
\* trading with them in turn makes of the book submit started from.
MatchedBy(T, W, n) ==
  /\ TakesInTurn(before, Submitted, T, W, n)
  /\ taker.remaining_qty = IF n = 0 \/ W[n] >= 0 THEN W[n] ELSE 0
  /\ Told(trades) = Dealt(T, W, n)
  /\ RestingOrders(levels) = BookAfter(before, T, W, n)

Matched ==
  pc # "idle" =>
    /\ OrdersApart(before)
    /\ \E t \in Templates : Submitted = MakeOrder(next_order_id, t, 0)
    /\ ~ Killed(before, Submitted)
    /\ \E T, W, n : MatchedBy(T, W, n)

\* BTreeMaps are finite.
LevelsFinite == \A s \in Side : IsFiniteSet(DOMAIN levels[s])

RefInv == MatchInv /\ LevelsFinite /\ Matched

\* The inductive invariant of the loops says what the lemmas above ask of levels.
LEMMA LevelsSound ==
  ASSUME MatchInv, LevelsFinite
  PROVE  LevelsOK(levels) /\ PlacedOK(levels)
<1>1. LevelsOK(levels)
  BY DEF MatchInv, TypeOK, LevelsFinite, LevelsOK
<1>2. ASSUME NEW s \in Side, NEW p \in DOMAIN levels[s],
             NEW i \in 1 .. Len(levels[s][p]), NEW j \in 1 .. Len(levels[s][p])
      PROVE  /\ levels[s][p][i].side = s /\ levels[s][p][i].price = p
             /\ levels[s][p][i].remaining_qty > Eps
             /\ i # j => levels[s][p][i].id # levels[s][p][j].id
  <2>1. /\ levels[s][p][i].side = s /\ levels[s][p][i].price = p
        /\ levels[s][p][i].remaining_qty > Eps
    BY DEF MatchInv, RestingSound, ShouldRest
  <2>2. levels[s][p][i].id \in Nat /\ levels[s][p][j].id \in Nat
    BY QueueType DEF MatchInv, Order
  <2>3. /\ i < j => levels[s][p][i].id < levels[s][p][j].id
        /\ j < i => levels[s][p][j].id < levels[s][p][i].id
    BY DEF MatchInv, TimePriority
  <2>4. Len(levels[s][p]) \in Nat
    BY QueueType DEF MatchInv
  <2> QED
    BY <2>1, <2>2, <2>3, <2>4
<1> QED
  BY <1>1, <1>2 DEF PlacedOK

\* A step adds one level at most.
LEMMA FiniteStep ==
  ASSUME MatchInv, LevelsFinite, [Next]_vars
  PROVE  LevelsFinite'
<1> DEFINE Few == \E p : \A s \in Side : DOMAIN levels'[s] \subseteq DOMAIN levels[s] \cup {p}
<1>1. DOMAIN levels = Side
  BY DEF MatchInv, TypeOK
<1>2. pc # "idle" => Across \in Side /\ taker.side \in Side
  BY TakerType DEF MatchInv
<1>3. ASSUME UNCHANGED levels PROVE Few
  <2>1. \A s \in Side : DOMAIN levels'[s] \subseteq DOMAIN levels[s] \cup {0}
    BY <1>3
  <2> QED
    BY <2>1
<1>4. ASSUME Fill PROVE Few
  <2>1. \A s \in Side : DOMAIN levels'[s] \subseteq DOMAIN levels[s] \cup {0}
    BY <1>1, <1>2, <1>4 DEF Fill
  <2> QED
    BY <2>1
<1>5. ASSUME CloseLevel PROVE Few
  <2>1. \A s \in Side : DOMAIN levels'[s] \subseteq DOMAIN levels[s] \cup {0}
    BY <1>1, <1>2, <1>5 DEF CloseLevel, Without
  <2> QED
    BY <2>1
<1>6. ASSUME Finish PROVE Few
  <2>1. \A s \in Side : DOMAIN levels'[s] \subseteq DOMAIN levels[s] \cup {taker.price}
    BY <1>1, <1>2, <1>6 DEF Finish, With
  <2> QED
    BY <2>1
<1>7. ASSUME NEW id \in CancelIds, CancelResting(id) PROVE Few
  <2>1. \A s \in Side : DOMAIN levels'[s] \subseteq DOMAIN levels[s] \cup {index[id][2]}
    BY <1>1, <1>7 DEF CancelResting, Without, With
  <2> QED
    BY <2>1
<1>8. Few
  <2>1. CASE UNCHANGED levels
    BY <1>3, <2>1
  <2>2. CASE ~ UNCHANGED levels
    <3>1. \/ Fill \/ CloseLevel \/ Finish \/ \E id \in CancelIds : CancelResting(id)
      BY <2>2 DEF Next, vars, Continue, Accept, RejectFok, OpenLevel, CancelUnknown, bookVars
    <3> HIDE DEF Few
    <3> QED
      BY <1>4, <1>5, <1>6, <1>7, <3>1
  <2> QED
    BY <2>1, <2>2
<1>9. \A s \in Side : IsFiniteSet(DOMAIN levels'[s])
  <2>1. PICK p : \A s \in Side : DOMAIN levels'[s] \subseteq DOMAIN levels[s] \cup {p}
    BY <1>8
  <2> TAKE s \in Side
  <2>2. IsFiniteSet(DOMAIN levels[s] \cup {p})
    BY FS_AddElement DEF LevelsFinite
  <2> QED
    BY <2>1, <2>2, FS_Subset
<1> QED
  BY <1>9 DEF LevelsFinite

-----------------------------------------------------------------------------
(* The steps of the loops keep it.                                         *)

\* The order that is matched is an order, and crosses what the taker crosses.
LEMMA SubmittedIs ==
  ASSUME MatchInv, pc # "idle"
  PROVE  /\ Submitted \in Order /\ Submitted.qty = taker.qty /\ Submitted.qty \in Int
         /\ Submitted.remaining_qty = taker.qty
         /\ Submitted.id = taker.id /\ Submitted.side = taker.side
         /\ Submitted.price = taker.price /\ Submitted.tif = taker.tif
         /\ Submitted.order_type = taker.order_type
         /\ \A p : Crosses(Submitted, p) <=> Crosses(taker, p)
<1>1. taker \in Order
  BY TakerType DEF MatchInv
<1>2. taker.qty \in Int
  BY <1>1, QtyAssumption DEF Order
<1>3. /\ Submitted \in Order /\ Submitted.qty = taker.qty
      /\ Submitted.remaining_qty = taker.qty
      /\ Submitted.id = taker.id /\ Submitted.side = taker.side
      /\ Submitted.price = taker.price /\ Submitted.tif = taker.tif
      /\ Submitted.order_type = taker.order_type
  BY <1>1, <1>2 DEF Order, Submitted
<1>4. \A p : Crosses(Submitted, p) <=> Crosses(taker, p)
  BY <1>3 DEF Crosses, Crosses
<1> QED
  BY <1>2, <1>3, <1>4

\* Nothing has been taken when submit is entered.
LEMMA AcceptMatched ==
  ASSUME RefInv, NEW t \in Templates, Accept(t)
  PROVE  Matched'
<1> DEFINE order == MakeOrder(next_order_id + 1, t, 0)
           book == RestingOrders(levels)
           nobody == [i \in 1 .. 0 |-> order]
           all == [i \in 0 .. 0 |-> order.qty]
<1>1. /\ pc = "idle" /\ taker' = order /\ before' = book
      /\ next_order_id' = next_order_id + 1 /\ next_order_id \in Nat
      /\ UNCHANGED <<levels, trades>>
      /\ order.tif = "FOK" => AvailableLiquidity(levels, order) >= order.qty
  BY DEF Accept, RefInv, MatchInv, TypeOK, bookVars
<1>2. order \in Order /\ order.qty = order.remaining_qty /\ order.qty \in Int
  BY <1>1, MakeOrderType, QtyAssumption DEF Order
<1>3. trades = << >>
  BY <1>1 DEF RefInv, MatchInv
<1>4. Submitted' = order
  BY <1>1 DEF Submitted, MakeOrder
<1>5. Submitted' = MakeOrder(next_order_id', t, 0)
  BY <1>1, <1>4
<1> HIDE DEF order
<1>6. LevelsOK(levels) /\ PlacedOK(levels)
  BY LevelsSound DEF RefInv
<1>7. OrdersApart(book)
  BY <1>6, RestingSoundBook
<1>8. ~ Killed(book, order)
  <2>1. AvailableLiquidity(levels, order) \in Int
    <3>1. AvailableLiquidity(levels, order) = Resting!SumOver(0, 0, Makers(book, order))
      BY <1>2, <1>6, LiquidityIs
    <3> DEFINE M == Makers(book, order)
    <3>2. IsFiniteSet(M) /\ \A m \in M : m.remaining_qty \in Int
      BY <1>2, <1>7, MakersInOrder
    <3> HIDE DEF M
    <3>3. Resting!Whole(0, 0, M) /\ Resting!IsFiniteSet(M)
      BY <3>2 DEF Resting!Whole, IsFiniteSet, Resting!IsFiniteSet
    <3>4. Resting!Summed(0, 0, M)
      BY <3>3, Resting!SumTakeOut
    <3> QED
      BY <3>1, <3>4 DEF Resting!Summed, M
  <2>2. Killed(book, order) <=> order.tif = "FOK" /\ AvailableLiquidity(levels, order) < order.qty
    BY <1>2, <1>6, KilledIs
  <2> QED
    BY <1>1, <1>2, <2>1, <2>2
<1>9. /\ TakesInTurn(book, order, nobody, all, 0)
      /\ Told(trades) = Dealt(nobody, all, 0)
      /\ book = BookAfter(book, nobody, all, 0)
      /\ all[0] = order.qty
  <2>1. TakesInTurn(book, order, nobody, all, 0)
    BY <1>2 DEF TakesInTurn
  <2>2. Told(trades) = Dealt(nobody, all, 0)
    BY <1>3 DEF Told, Dealt
  <2>3. Taken(nobody, 0) = {} /\ LastLeft(nobody, all, 0) = {}
    BY DEF Taken, LastLeft
  <2> QED
    BY <2>1, <2>2, <2>3 DEF BookAfter
<1> HIDE DEF nobody, all, book
<1>10. PICK T, W : /\ TakesInTurn(book, order, T, W, 0)
                   /\ Told(trades) = Dealt(T, W, 0)
                   /\ book = BookAfter(book, T, W, 0)
                   /\ W[0] = order.qty
  BY <1>9
<1>11. RestingOrders(levels') = book
  BY <1>1 DEF book
<1>12. Told(trades') = Told(trades)
  BY <1>1
<1>13. MatchedBy(T, W, 0)'
  BY <1>1, <1>2, <1>4, <1>10, <1>11, <1>12 DEF MatchedBy
<1> QED
  BY <1>1, <1>4, <1>5, <1>7, <1>8, <1>13 DEF Matched

\* A step that neither trades nor changes what rests.
LEMMA MatchedKept ==
  ASSUME Matched, pc # "idle", UNCHANGED <<taker, trades, before, next_order_id>>,
         RestingOrders(levels') = RestingOrders(levels)
  PROVE  Matched'
<1>1. /\ OrdersApart(before)
      /\ \E t \in Templates : Submitted = MakeOrder(next_order_id, t, 0)
      /\ ~ Killed(before, Submitted)
      /\ \E T, W, n : MatchedBy(T, W, n)
  BY DEF Matched
<1>2. Submitted' = Submitted /\ before' = before /\ next_order_id' = next_order_id
  BY DEF Submitted
<1>3. PICK T, W, n : MatchedBy(T, W, n)
  BY <1>1
<1>4. MatchedBy(T, W, n)'
  BY <1>2, <1>3 DEF MatchedBy
<1>5. ~ Killed(before', Submitted')
  BY <1>1, <1>2
<1>6. OrdersApart(before') /\ \E t \in Templates : Submitted' = MakeOrder(next_order_id', t, 0)
  BY <1>1, <1>2
<1> QED
  BY <1>4, <1>5, <1>6 DEF Matched

\* The level that is dropped is empty.
LEMMA CloseLevelRests ==
  ASSUME MatchInv, LevelsFinite, CloseLevel, MatchInv', LevelsFinite'
  PROVE  RestingOrders(levels') = RestingOrders(levels)
<1>1. LevelsOK(levels) /\ PlacedOK(levels)
  BY LevelsSound
<1>2. LevelsOK(levels')
  BY DEF MatchInv, TypeOK, LevelsFinite, LevelsOK
<1>3. pc = "drain"
  BY DEF CloseLevel
<1>4. Across \in Side /\ px \in Price /\ px \in DOMAIN levels[Across] /\ DOMAIN levels = Side
  BY <1>3, TakerType DEF MatchInv, DrainsBestLevel, TypeOK
<1>5. CASE levels' = levels
  BY <1>5
<1>6. CASE levels[Across][px] = << >>
  <2>1. levels' = [levels EXCEPT ![Across] = Without(levels[Across], {px})]
    BY <1>6 DEF CloseLevel
  <2>2. \A s \in Side : \A p \in Price : QueueAt(levels', s, p) = QueueAt(levels, s, p)
    BY <1>4, <1>6, <2>1 DEF QueueAt, Without
  <2>3. \A m : m \in RestingOrders(levels') <=>
                 \E s \in Side : \E p \in Price : m \in ToSet(QueueAt(levels', s, p))
    BY <1>2, InQueueAt
  <2>4. \A m : m \in RestingOrders(levels) <=>
                 \E s \in Side : \E p \in Price : m \in ToSet(QueueAt(levels, s, p))
    BY <1>1, InQueueAt
  <2>5. \A m : m \in RestingOrders(levels') <=> m \in RestingOrders(levels)
    BY <2>2, <2>3, <2>4
  <2> QED
    BY <2>5
<1> QED
  BY <1>5, <1>6 DEF CloseLevel

\* The maker at the front of the best level is the first of those that are left.
LEMMA FillTakesNext ==
  ASSUME MatchInv, LevelsFinite, Matched, pc = "drain", taker.remaining_qty > Eps,
         levels[Across][px] # << >>
  PROVE  \E T, W, n :
           LET maker == levels[Across][px][1]
           IN  /\ MatchedBy(T, W, n) /\ W[n] = taker.remaining_qty
               /\ maker \in Makers(before, Submitted) /\ maker \notin Taken(T, n)
               /\ \A l \in Makers(before, Submitted) :
                    Ahead(l, maker) => l \in Taken(T, n)
               /\ RestingOrders(levels) = before \ Taken(T, n)
<1> DEFINE queue == levels[Across][px]
           maker == queue[1]
<1>1. PICK T, W, n : MatchedBy(T, W, n)
  BY DEF Matched
<1>2. /\ taker \in Order /\ taker.remaining_qty \in Int
      /\ Across \in Side /\ Across # taker.side /\ taker.side \in Side
      /\ px \in Price /\ px \in Int
  BY TakerType DEF MatchInv
<1>3. /\ px \in DOMAIN levels[Across] /\ Crosses(taker, px)
      /\ \A q \in DOMAIN levels[Across] : q = px \/ Better(Across, px, q)
  BY DEF MatchInv, DrainsBestLevel
<1>4. /\ TakesInTurn(before, Submitted, T, W, n)
      /\ taker.remaining_qty = IF n = 0 \/ W[n] >= 0 THEN W[n] ELSE 0
      /\ RestingOrders(levels) = BookAfter(before, T, W, n)
  BY <1>1 DEF MatchedBy
<1>5. n \in Nat /\ W[n] \in Int
  BY <1>4 DEF TakesInTurn
<1>6. W[n] = taker.remaining_qty /\ W[n] > Eps
  BY <1>2, <1>4, <1>5, EpsAssumption
<1>7. RestingOrders(levels) = before \ Taken(T, n)
  <2>1. LastLeft(T, W, n) = {}
    BY <1>5, <1>6, EpsAssumption DEF LastLeft
  <2> QED
    BY <1>4, <2>1 DEF BookAfter
<1>8. LevelsOK(levels) /\ PlacedOK(levels)
  BY LevelsSound
<1>9. /\ queue \in Seq(Order) /\ Len(queue) \in Nat \ {0}
      /\ \A i \in 1 .. Len(queue) : queue[i] \in Order /\ queue[i].id \in Nat
  <2>1. queue \in Seq(Order) /\ Len(queue) \in Nat /\ queue # << >>
        /\ \A i \in 1 .. Len(queue) : queue[i] \in Order
    BY <1>2, <1>3, QueueType DEF MatchInv
  <2>2. Len(queue) # 0
    BY <2>1, EmptySeq
  <2> QED
    BY <2>1, <2>2 DEF Order
<1>10. maker \in RestingOrders(levels) /\ maker.side = Across /\ maker.price = px
  <2>1. 1 \in 1 .. Len(queue)
    BY <1>9
  <2>2. maker.side = Across /\ maker.price = px
    BY <1>2, <1>3, <2>1 DEF MatchInv, RestingSound
  <2>3. maker \in RestingOrders(levels)
    BY <1>2, <1>3, <1>8, <2>1, InResting
  <2> QED
    BY <2>2, <2>3
<1>11. /\ \A p : Crosses(Submitted, p) <=> Crosses(taker, p)
       /\ Submitted.side = taker.side
  BY SubmittedIs
<1>12. maker \in Makers(before, Submitted) /\ maker \notin Taken(T, n)
  BY <1>2, <1>3, <1>7, <1>10, <1>11 DEF Makers
<1>13. ASSUME NEW l \in Makers(before, Submitted), Ahead(l, maker)
       PROVE  l \in Taken(T, n)
  <2> SUFFICES ASSUME l \notin Taken(T, n) PROVE FALSE
    OBVIOUS
  <2>1. l \in before /\ l.side # taker.side
    BY <1>11 DEF Makers
  <2>2. l \in RestingOrders(levels)
    BY <1>7, <2>1
  <2>3. /\ l.side \in Side /\ l.price \in DOMAIN levels[l.side]
        /\ \E i \in 1 .. Len(levels[l.side][l.price]) : levels[l.side][l.price][i] = l
    BY <1>8, <2>2, RestingSoundBook
  <2>4. l.side = Across
    BY <1>2, <2>1, <2>3 DEF Side
  <2>5. l.price = px \/ Better(Across, px, l.price)
    BY <1>3, <2>3, <2>4
  <2>6. l.price \in Int
    BY <2>3, QueueType DEF MatchInv
  <2>7. Better(Across, l.price, px) \/ (l.price = px /\ l.id < maker.id)
    BY <1>10, <1>13, <2>4 DEF Ahead, Better, Better
  <2>8. l.price = px /\ l.id < maker.id
    BY <1>2, <2>5, <2>6, <2>7 DEF Better
  <2>9. PICK i \in 1 .. Len(queue) : queue[i] = l
    BY <2>3, <2>4, <2>8
  <2>10. i = 1 \/ maker.id < queue[i].id
    BY <1>2, <1>3, <1>9 DEF MatchInv, TimePriority
  <2>11. maker.id \in Nat /\ queue[i].id \in Nat
    BY <1>9, 1 \in 1 .. Len(queue)
  <2> QED
    BY <2>8, <2>9, <2>10, <2>11
<1> HIDE DEF queue
<1> QED
  BY <1>1, <1>6, <1>7, <1>12, <1>13 DEF queue

\* The maker leaves the book, or stays on it with what it has left.
LEMMA FillRests ==
  ASSUME MatchInv, LevelsFinite, Fill, MatchInv', LevelsFinite'
  PROVE  LET maker == levels[Across][px][1]
             given == IF maker.remaining_qty <= taker.remaining_qty
                        THEN maker.remaining_qty ELSE taker.remaining_qty
             left  == maker.remaining_qty - given
         IN  RestingOrders(levels') =
               (RestingOrders(levels) \ {maker})
                 \cup Leftover(maker, left)
<1> DEFINE queue    == levels[Across][px]
           maker    == queue[1]
           given    == IF maker.remaining_qty <= taker.remaining_qty
                         THEN maker.remaining_qty ELSE taker.remaining_qty
           fill_qty == IF taker.remaining_qty <= maker.remaining_qty
                         THEN taker.remaining_qty ELSE maker.remaining_qty
           left     == maker.remaining_qty - given
           smaller  == [maker EXCEPT !.remaining_qty = left]
           rest     == IF left <= Eps THEN Tail(queue) ELSE [queue EXCEPT ![1] = smaller]
<1>1. pc = "drain" /\ queue # << >> /\ Head(queue) = maker
  BY DEF Fill
<1>2. /\ Across \in Side /\ px \in Price /\ px \in DOMAIN levels[Across] /\ DOMAIN levels = Side
      /\ taker.remaining_qty \in Int
  BY <1>1, TakerType DEF MatchInv, DrainsBestLevel, TypeOK
<1>3. /\ queue \in Seq(Order) /\ Len(queue) \in Nat
      /\ \A i \in 1 .. Len(queue) : queue[i] \in Order
  BY <1>2, QueueType DEF MatchInv
<1>4. Len(queue) # 0 /\ 1 \in 1 .. Len(queue)
  BY <1>1, <1>3, EmptySeq
<1>5. maker \in Order /\ maker.remaining_qty \in Int
  BY <1>3, <1>4 DEF Order
<1>6. fill_qty = given
  BY <1>2, <1>5
<1>7. levels' = [levels EXCEPT ![Across] = [levels[Across] EXCEPT ![px] = rest]]
  <2>1. levels' = [levels EXCEPT ![Across] = [levels[Across] EXCEPT ![px] =
                     IF maker.remaining_qty - fill_qty <= Eps
                       THEN Tail(queue)
                       ELSE [queue EXCEPT ![1] =
                               [maker EXCEPT !.remaining_qty = maker.remaining_qty - fill_qty]]]]
    BY <1>1 DEF Fill
  <2>2. maker.remaining_qty - fill_qty = left
    BY <1>6
  <2> HIDE DEF fill_qty, given
  <2> QED
    BY <2>1, <2>2
<1>8. LevelsOK(levels) /\ PlacedOK(levels)
  BY LevelsSound
<1>9. LevelsOK(levels')
  BY DEF MatchInv, TypeOK, LevelsFinite, LevelsOK
<1>10. \A i, j \in 1 .. Len(queue) : queue[i] = queue[j] => i = j
  BY <1>2, <1>8 DEF PlacedOK
<1> HIDE DEF rest, queue, left
<1>11. /\ QueueAt(levels, Across, px) = queue /\ QueueAt(levels', Across, px) = rest
       /\ SameElsewhere(levels, levels', Across, px)
  BY <1>2, <1>7 DEF QueueAt, SameElsewhere, queue
<1>12. /\ ToSet(queue) \subseteq RestingOrders(levels)
       /\ RestingOrders(levels') = (RestingOrders(levels) \ ToSet(queue)) \cup ToSet(rest)
  BY <1>2, <1>8, <1>9, <1>11, OneQueueChanges
<1>13. IsInjective(queue) /\ DOMAIN queue = 1 .. Len(queue)
  BY <1>3, <1>10, LenProperties DEF IsInjective
<1>14. CASE left <= Eps
  <2>1. rest = Tail(queue)
    BY <1>14 DEF rest
  <2>2. ToSet(queue) = ToSet(rest) \cup {maker} /\ maker \notin ToSet(rest)
    BY <1>1, <1>3, <1>13, <2>1, TailOfQueue
  <2> QED
    BY <1>12, <1>14, <2>2 DEF left, queue, Leftover
<1>15. CASE ~ (left <= Eps)
  <2>1. rest = [queue EXCEPT ![1] = smaller]
    BY <1>15 DEF rest
  <2>2. smaller \in Order
    <3>1. left \in Int
      BY <1>2, <1>5 DEF left
    <3> QED
      BY <1>5, <3>1 DEF Order
  <2> HIDE DEF maker, smaller
  <2>3. rest \in Seq(Order) /\ Len(rest) = Len(queue)
        /\ \A i \in 1 .. Len(queue) : rest[i] = IF i = 1 THEN smaller ELSE queue[i]
    BY <1>3, <1>4, <2>1, <2>2, ExceptSeq
  <2>4. ToSet(queue) = {queue[i] : i \in 1 .. Len(queue)}
        /\ ToSet(rest) = {rest[i] : i \in 1 .. Len(queue)}
    BY <1>3, <2>3, InQueue
  <2>5. maker = queue[1]
    BY DEF maker
  <2>6. \A m : m \in ToSet(rest) <=> m = smaller \/ (m \in ToSet(queue) /\ m # maker)
    BY <1>4, <1>10, <2>3, <2>4, <2>5
  <2>7. maker \in ToSet(queue)
    BY <1>4, <2>4, <2>5
  <2>8. RestingOrders(levels') = (RestingOrders(levels) \ {maker}) \cup {smaller}
    <3>1. \A m : m \in RestingOrders(levels') <=>
                   m \in (RestingOrders(levels) \ {maker}) \cup {smaller}
      BY <1>12, <2>6, <2>7
    <3> QED
      BY <3>1
  <2> QED
    BY <1>15, <2>8 DEF maker, smaller, left, queue, Leftover
<1> QED
  BY <1>14, <1>15

\* So the maker is one more taken, and the trade one more told.
LEMMA FillMatched ==
  ASSUME RefInv, Fill, MatchInv', LevelsFinite'
  PROVE  Matched'
<1> DEFINE queue    == levels[Across][px]
           maker    == queue[1]
           given    == IF maker.remaining_qty <= taker.remaining_qty
                         THEN maker.remaining_qty ELSE taker.remaining_qty
           left     == maker.remaining_qty - given
           trade    == [id |-> next_trade_id + 1, maker_order_id |-> maker.id,
                        taker_order_id |-> taker.id, price |-> px, qty |-> given,
                        timestamp_ms |-> taker.timestamp_ms]
<1>0. MatchInv /\ LevelsFinite /\ Matched
  BY DEF RefInv
<1>1. /\ pc = "drain" /\ pc' = pc /\ queue # << >> /\ Head(queue) = maker
      /\ taker.remaining_qty > Eps /\ before' = before /\ next_order_id' = next_order_id
  BY DEF Fill
<1>2. taker \in Order /\ taker.remaining_qty \in Int
  BY <1>0, <1>1, TakerType DEF MatchInv
<1>3. PICK T, W, n :
        /\ MatchedBy(T, W, n) /\ W[n] = taker.remaining_qty
        /\ maker \in Makers(before, Submitted) /\ maker \notin Taken(T, n)
        /\ \A l \in Makers(before, Submitted) :
             Ahead(l, maker) => l \in Taken(T, n)
        /\ RestingOrders(levels) = before \ Taken(T, n)
  BY <1>0, <1>1, FillTakesNext
<1>4. /\ OrdersApart(before) /\ ~ Killed(before, Submitted)
      /\ \E t \in Templates : Submitted = MakeOrder(next_order_id, t, 0)
  BY <1>0, <1>1 DEF Matched
<1>5. Submitted \in Order
  BY <1>0, <1>1, SubmittedIs
<1>6. maker.remaining_qty \in Int
  BY <1>3, <1>4, <1>5, MakersInOrder
<1>7. /\ taker' = [taker EXCEPT !.remaining_qty = taker.remaining_qty - given]
      /\ trades' = Append(trades, trade)
  <2> DEFINE fill_qty == IF taker.remaining_qty <= maker.remaining_qty
                           THEN taker.remaining_qty ELSE maker.remaining_qty
  <2>1. /\ taker' = [taker EXCEPT !.remaining_qty = taker.remaining_qty - fill_qty]
        /\ trades' = Append(trades, [trade EXCEPT !.qty = fill_qty])
    BY <1>1 DEF Fill
  <2>2. fill_qty = given
    BY <1>2, <1>6
  <2> HIDE DEF given, fill_qty
  <2> QED
    BY <2>1, <2>2
<1>8. RestingOrders(levels') =
        (RestingOrders(levels) \ {maker})
          \cup Leftover(maker, left)
  BY <1>0, FillRests
<1>9. /\ TakesInTurn(before, Submitted, T, W, n) /\ W[n] > Eps /\ n \in Nat /\ W[n] \in Int
      /\ Told(trades) = Dealt(T, W, n)
  BY <1>1, <1>2, <1>3 DEF MatchedBy, TakesInTurn
<1> DEFINE T2 == More(T, maker, n)
           W2 == Less(W, maker, n)
<1>10. maker.price = px /\ maker \in RestingOrders(levels)
  <2>1. Across \in Side /\ px \in DOMAIN levels[Across]
    BY <1>0, <1>1, TakerType DEF MatchInv, DrainsBestLevel
  <2>2. queue \in Seq(Order) /\ Len(queue) \in Nat
    BY <1>0, <2>1, QueueType DEF MatchInv
  <2>3. 1 \in 1 .. Len(queue)
    BY <1>1, <2>2, EmptySeq
  <2>4. maker.price = px
    BY <1>0, <2>1, <2>3 DEF MatchInv, RestingSound
  <2>5. maker \in before
    BY <1>3 DEF Makers
  <2> QED
    BY <1>3, <2>4, <2>5
<1> HIDE DEF queue, maker
<1>11. TakesInTurn(before, Submitted, T2, W2, n + 1)
  BY <1>3, <1>4, <1>5, <1>9, OneMoreMaker
<1>12. /\ Taken(T2, n + 1) = Taken(T, n) \cup {maker}
       /\ LastLeft(T2, W2, n + 1) = Leftover(maker, left)
       /\ W2[n + 1] = W[n] - maker.remaining_qty
       /\ DOMAIN Dealt(T, W, n) = 1 .. n
       /\ Dealt(T2, W2, n + 1) = OneTold(Dealt(T, W, n), maker, given, n)
  <2> DEFINE g == IF maker.remaining_qty <= W[n] THEN maker.remaining_qty ELSE W[n]
             l == maker.remaining_qty - g
  <2>1. /\ Taken(T2, n + 1) = Taken(T, n) \cup {maker}
        /\ LastLeft(T2, W2, n + 1) = Leftover(maker, l)
        /\ W2[n + 1] = W[n] - maker.remaining_qty
        /\ DOMAIN Dealt(T, W, n) = 1 .. n
        /\ Dealt(T2, W2, n + 1) = OneTold(Dealt(T, W, n), maker, g, n)
    BY <1>3, <1>4, <1>5, <1>9, OneMoreTrade
  <2>2. g = given
    BY <1>3
  <2> HIDE DEF g, given, T2, W2
  <2> QED
    BY <2>1, <2>2
<1> HIDE DEF T2, W2
<1>13. taker'.remaining_qty = IF n + 1 = 0 \/ W2[n + 1] >= 0 THEN W2[n + 1] ELSE 0
  <2>1. taker'.remaining_qty = taker.remaining_qty - given
    BY <1>2, <1>7 DEF Order
  <2> QED
    BY <1>2, <1>3, <1>6, <1>9, <1>12, <2>1
<1>14. RestingOrders(levels') = BookAfter(before, T2, W2, n + 1)
  BY <1>3, <1>8, <1>12 DEF BookAfter
<1>15. Told(trades') = Dealt(T2, W2, n + 1)
  <2>1. trades \in Seq(Trade) /\ trades' \in Seq(Trade)
    BY <1>0 DEF MatchInv, TypeOK
  <2>2. DOMAIN trades = 1 .. n /\ Len(trades) = n
    <3>1. DOMAIN Told(trades) = DOMAIN trades
      BY DEF Told
    <3>2. DOMAIN trades = 1 .. n
      BY <1>9, <1>12, <3>1
    <3> QED
      BY <1>9, <2>1, <3>2, LenProperties
  <2>3. \A i \in 1 .. n : Dealt(T, W, n)[i] =
          [maker_order_id |-> trades[i].maker_order_id, price |-> trades[i].price,
           qty |-> trades[i].qty]
    BY <1>9, <2>2 DEF Told
  <2> HIDE DEF trade, given
  <2>4. /\ DOMAIN trades' = 1 .. n + 1
        /\ \A i \in 1 .. n + 1 : trades'[i] = IF i = n + 1 THEN trade ELSE trades[i]
    BY <1>7, <1>9, <2>1, <2>2
  <2>5. trade.maker_order_id = maker.id /\ trade.price = maker.price /\ trade.qty = given
    BY <1>10 DEF trade
  <2>6. \A i \in 1 .. n + 1 : Dealt(T2, W2, n + 1)[i] =
          [maker_order_id |-> trades'[i].maker_order_id, price |-> trades'[i].price,
           qty |-> trades'[i].qty]
    <3> TAKE i \in 1 .. n + 1
    <3>1. CASE i = n + 1
      BY <1>12, <2>4, <2>5, <3>1 DEF OneTold
    <3>2. CASE i # n + 1
      <4>1. i \in 1 .. n
        BY <1>9, <3>2
      <4> QED
        BY <1>12, <2>3, <2>4, <3>2, <4>1 DEF OneTold
    <3> QED
      BY <3>1, <3>2
  <2> QED
    BY <1>12, <2>4, <2>6 DEF Told, OneTold
<1>16. Submitted' = Submitted
  <2> HIDE DEF given
  <2>1. taker.qty = taker'.qty
    BY <1>2, <1>7 DEF Order
  <2> QED
    BY <1>2, <1>7, <2>1 DEF Submitted, Order
<1>17. PICK Tn, Wn :
         /\ TakesInTurn(before, Submitted, Tn, Wn, n + 1)
         /\ taker'.remaining_qty = IF n + 1 = 0 \/ Wn[n + 1] >= 0 THEN Wn[n + 1] ELSE 0
         /\ Told(trades') = Dealt(Tn, Wn, n + 1)
         /\ RestingOrders(levels') = BookAfter(before, Tn, Wn, n + 1)
  BY <1>11, <1>13, <1>14, <1>15
<1>18. MatchedBy(Tn, Wn, n + 1)'
  BY <1>1, <1>16, <1>17 DEF MatchedBy
<1> QED
  BY <1>1, <1>4, <1>16, <1>18 DEF Matched

-----------------------------------------------------------------------------
(* What the book holds when an operation returns.                          *)

\* What is left of the order joins the book, or does not.
LEMMA FinishRests ==
  ASSUME MatchInv, LevelsFinite, Finish, MatchInv', LevelsFinite'
  PROVE  RestingOrders(levels') =
           RestingOrders(levels)
             \cup (IF ShouldRest(taker, taker.remaining_qty) THEN {taker} ELSE {})
<1> DEFINE side  == taker.side
           p     == taker.price
           queue == QueueAt(levels, side, p)
<1>1. pc = "match"
  BY DEF Finish
<1>2. taker \in Order /\ side \in Side /\ p \in Price /\ DOMAIN levels = Side
  BY <1>1, TakerType DEF MatchInv, TypeOK
<1>3. CASE ~ ShouldRest(taker, taker.remaining_qty)
  <2>1. levels' = levels
    BY <1>3 DEF Finish
  <2> QED
    BY <1>3, <2>1
<1>4. CASE ShouldRest(taker, taker.remaining_qty)
  <2>1. levels' = [levels EXCEPT ![side] = With(levels[side], p, Append(queue, taker))]
    BY <1>4 DEF Finish, QueueAt
  <2>2. LevelsOK(levels) /\ PlacedOK(levels)
    BY LevelsSound
  <2>3. LevelsOK(levels')
    BY DEF MatchInv, TypeOK, LevelsFinite, LevelsOK
  <2>4. queue \in Seq(Order)
    BY <1>2, <2>2, InQueueAt
  <2>5. /\ QueueAt(levels', side, p) = Append(queue, taker)
        /\ SameElsewhere(levels, levels', side, p)
    <3> HIDE DEF queue
    <3> QED
      BY <1>2, <2>1 DEF QueueAt, SameElsewhere, With
  <2>8. QueueAt(levels, side, p) = queue
    OBVIOUS
  <2> DEFINE tail == Append(queue, taker)
  <2>9. QueueAt(levels', side, p) = tail
    BY <2>5
  <2>10. side \in Side /\ p \in Price /\ SameElsewhere(levels, levels', side, p)
    BY <1>2, <2>5
  <2> HIDE DEF side, p, queue, tail
  <2>6. /\ ToSet(queue) \subseteq RestingOrders(levels)
        /\ RestingOrders(levels') = (RestingOrders(levels) \ ToSet(queue)) \cup ToSet(tail)
    BY <2>2, <2>3, <2>8, <2>9, <2>10, OneQueueChanges
  <2>7. ToSet(tail) = ToSet(queue) \cup {taker}
    BY <1>2, <2>4, AppendToQueue DEF tail
  <2> QED
    BY <1>4, <2>6, <2>7
<1> QED
  BY <1>3, <1>4

\* When submit stops, the order has enough, or nobody is left that it crosses.
LEMMA FinishEnough ==
  ASSUME MatchInv, LevelsFinite, Finish, NEW T, NEW W, NEW n, MatchedBy(T, W, n)
  PROVE  Enough(before, Submitted, T, W, n)
<1>1. pc = "match" /\ (taker.remaining_qty <= Eps
                         \/ \A p \in DOMAIN levels[Across] : ~ Crosses(taker, p))
  BY DEF Finish
<1>2. /\ TakesInTurn(before, Submitted, T, W, n)
      /\ taker.remaining_qty = IF n = 0 \/ W[n] >= 0 THEN W[n] ELSE 0
      /\ RestingOrders(levels) = BookAfter(before, T, W, n)
  BY DEF MatchedBy
<1>3. n \in Nat /\ W[n] \in Int
  BY <1>2 DEF TakesInTurn
<1>4. CASE taker.remaining_qty <= Eps
  <2>1. W[n] <= Eps
    BY <1>2, <1>3, <1>4, EpsAssumption
  <2> QED
    BY <2>1 DEF Enough
<1>5. CASE \A p \in DOMAIN levels[Across] : ~ Crosses(taker, p)
  <2>1. ASSUME NEW m \in Makers(before, Submitted), m \notin Taken(T, n)
        PROVE  FALSE
    <3>1. /\ Submitted.side = taker.side
          /\ \A p : Crosses(Submitted, p) <=> Crosses(taker, p)
      BY <1>1, SubmittedIs
    <3>2. m \in before /\ m.side # taker.side /\ Crosses(taker, m.price)
      BY <3>1 DEF Makers
    <3>3. m \in RestingOrders(levels)
      BY <1>2, <2>1, <3>2 DEF BookAfter
    <3>4. m.side \in Side /\ m.price \in DOMAIN levels[m.side]
      BY <3>3, LevelsSound, RestingSoundBook
    <3>5. Across \in Side /\ Across # taker.side /\ taker.side \in Side
      BY <1>1, TakerType DEF MatchInv
    <3>6. m.side = Across
      BY <3>2, <3>4, <3>5 DEF Side
    <3> QED
      BY <1>5, <3>2, <3>4, <3>6
  <2> QED
    BY <2>1 DEF Enough, Taken
<1> QED
  BY <1>1, <1>4, <1>5

\* The index leads to the one order with the identifier, and it alone leaves.
LEMMA CancelRests ==
  ASSUME MatchInv, LevelsFinite, NEW id, CancelResting(id), MatchInv', LevelsFinite'
  PROVE  /\ RestingOrders(levels') = {o \in RestingOrders(levels) : o.id # id}
         /\ \E o \in RestingOrders(levels) : o.id = id
         /\ index[id][2] \in DOMAIN levels[index[id][1]]
<1> DEFINE side  == index[id][1]
           p     == index[id][2]
           queue == levels[side][p]
           kept  == Retain(queue, id)
<1>1. pc = "idle" /\ id \in DOMAIN index /\ filled_ids = {}
  BY DEF CancelResting, MatchInv, DrainsBestLevel
<1>2. /\ side \in Side /\ p \in DOMAIN levels[side] /\ DOMAIN levels = Side
      /\ \E i \in 1 .. Len(queue) : queue[i].id = id
  BY <1>1 DEF MatchInv, TypeOK, IndexedRests, RestsAt
<1>3. p \in Price /\ queue \in Seq(Order) /\ Len(queue) \in Nat
  BY <1>2, QueueType DEF MatchInv
<1>4. PICK k \in 1 .. Len(queue) : queue[k].id = id
  BY <1>2
<1>5. LevelsOK(levels) /\ PlacedOK(levels)
  BY LevelsSound
<1>6. LevelsOK(levels')
  BY DEF MatchInv, TypeOK, LevelsFinite, LevelsOK
<1>7. \A i \in 1 .. Len(queue) : queue[i].id = queue[k].id => i = k
  BY <1>2, <1>4, <1>5 DEF PlacedOK
<1>8. /\ kept \in Seq(Order) /\ Len(kept) = Len(queue) - 1
      /\ \A i \in 1 .. Len(queue) - 1 : kept[i] = IF i < k THEN queue[i] ELSE queue[i + 1]
  <2> HIDE DEF queue
  <2> QED
    BY <1>3, <1>4, <1>7, RetainProperties
<1>9. levels' = [levels EXCEPT ![side] = IF kept = << >> THEN Without(levels[side], {p})
                                                         ELSE With(levels[side], p, kept)]
  BY <1>1, <1>2 DEF CancelResting
<1> HIDE DEF kept
<1>10. QueueAt(levels, side, p) = queue
  BY <1>2 DEF QueueAt
<1>11. /\ QueueAt(levels', side, p) = kept
       /\ SameElsewhere(levels, levels', side, p)
  <2> HIDE DEF side, p
  <2>1. CASE kept = << >>
    BY <1>2, <1>9, <2>1 DEF QueueAt, SameElsewhere, Without
  <2>2. CASE kept # << >>
    BY <1>2, <1>9, <2>2 DEF QueueAt, SameElsewhere, With
  <2> QED
    BY <2>1, <2>2
<1>12. /\ ToSet(queue) \subseteq RestingOrders(levels)
       /\ RestingOrders(levels') = (RestingOrders(levels) \ ToSet(queue)) \cup ToSet(kept)
  <2> HIDE DEF side, p, queue
  <2> QED
    BY <1>2, <1>3, <1>5, <1>6, <1>10, <1>11, OneQueueChanges
<1>13. /\ ToSet(queue) = {queue[i] : i \in 1 .. Len(queue)}
       /\ ToSet(kept) = {kept[i] : i \in 1 .. Len(queue) - 1}
  <2> HIDE DEF queue
  <2> QED
    BY <1>3, <1>8, InQueue
<1>14. \A m : m \in ToSet(kept) <=> m \in ToSet(queue) /\ m.id # id
  <2> HIDE DEF queue
  <2>1. ASSUME NEW m \in ToSet(kept)
        PROVE  m \in ToSet(queue) /\ m.id # id
    <3>1. PICK i \in 1 .. Len(queue) - 1 : kept[i] = m
      BY <1>13
    <3> DEFINE j == IF i < k THEN i ELSE i + 1
    <3>2. j \in 1 .. Len(queue) /\ j # k /\ m = queue[j]
      BY <1>3, <1>8, <3>1
    <3> HIDE DEF j
    <3> QED
      BY <1>4, <1>7, <1>13, <3>2
  <2>2. ASSUME NEW m \in ToSet(queue), m.id # id
        PROVE  m \in ToSet(kept)
    <3>1. PICK j \in 1 .. Len(queue) : queue[j] = m
      BY <1>13
    <3>2. j # k
      BY <1>4, <2>2, <3>1
    <3>3. CASE j < k
      <4>1. j \in 1 .. Len(queue) - 1 /\ kept[j] = m
        BY <1>3, <1>4, <1>8, <3>1, <3>3
      <4> QED
        BY <1>13, <4>1
    <3>4. CASE j > k
      <4>1. j - 1 \in 1 .. Len(queue) - 1 /\ kept[j - 1] = m
        BY <1>3, <1>4, <1>8, <3>1, <3>4
      <4> QED
        BY <1>13, <4>1
    <3> QED
      BY <1>3, <1>4, <3>2, <3>3, <3>4
  <2> QED
    BY <2>1, <2>2
<1>15. ASSUME NEW m \in RestingOrders(levels), m.id = id
       PROVE  m \in ToSet(queue)
  <2>1. /\ m.side \in Side /\ m.price \in DOMAIN levels[m.side]
        /\ \E i \in 1 .. Len(levels[m.side][m.price]) : levels[m.side][m.price][i] = m
    BY <1>5, RestingSoundBook
  <2>2. index[id] = <<m.side, m.price>>
    BY <1>15, <2>1 DEF MatchInv, RestingIndexed
  <2>3. side = m.side /\ p = m.price
    BY <2>2
  <2> QED
    BY <1>13, <2>1, <2>3
<1>16. \A m : m \in RestingOrders(levels') <=> m \in RestingOrders(levels) /\ m.id # id
  <2> HIDE DEF queue
  <2> QED
    BY <1>12, <1>14, <1>15
<1>17. \E o \in RestingOrders(levels) : o.id = id
  <2> HIDE DEF queue
  <2> QED
    BY <1>4, <1>12, <1>13
<1>18. RestingOrders(levels') = {o \in RestingOrders(levels) : o.id # id}
  BY <1>16
<1> QED
  BY <1>2, <1>17, <1>18

-----------------------------------------------------------------------------
(* Every operation is one of PriceTimeBook's.                              *)

\* The state as PriceTimeBook sees it.
BookNow    == IF pc = "idle" THEN RestingOrders(levels) ELSE before
CountNow   == IF pc = "idle" THEN next_order_id ELSE next_order_id - 1
OutcomeNow == IF outcome.op = "submit" THEN [outcome EXCEPT !.trades = Told(outcome.trades)]
                                       ELSE outcome

\* The rules are the same under the names PriceTimeBook has them.
LEMMA RulesAre ==
  ASSUME NEW b, NEW o
  PROVE  /\ PriceTime!Makers(b, o) = Makers(b, o)
         /\ PriceTime!Reached(b, o) = Reached(b, o)
         /\ PriceTime!Killed(b, o) <=> Killed(b, o)
         /\ PriceTime!Left(b, o) = Left(b, o)
         /\ PriceTime!Trades(b, o) = Trades(b, o)
         /\ PriceTime!Rests(b, o) <=> Rests(b, o)
         /\ PriceTime!AfterSubmit(b, o) = AfterSubmit(b, o)
<1>1. PriceTime!Makers(b, o) = Makers(b, o)
  BY DEF PriceTime!Makers, Makers, PriceTime!Crosses, Crosses
<1>2. \A m, n : PriceTime!Ahead(m, n) <=> Ahead(m, n)
  BY DEF PriceTime!Ahead, Ahead, PriceTime!Better, Better
<1>3. \A m : PriceTime!Wanted(b, o, m) = Wanted(b, o, m)
  BY DEF PriceTime!Makers, Makers, PriceTime!Crosses, Crosses, PriceTime!Wanted, Wanted,
         PriceTime!Ahead, Ahead, PriceTime!Better, Better, PriceTime!MapThenSumSet, MapThenSumSet,
         PriceTime!Remaining, Remaining, PriceTime!MapThenFoldSet, MapThenFoldSet
<1>4. PriceTime!Reached(b, o) = Reached(b, o)
  BY <1>1, <1>3 DEF PriceTime!Reached, Reached
<1>5. PriceTime!Killed(b, o) <=> Killed(b, o)
  BY DEF PriceTime!Makers, Makers, PriceTime!Crosses, Crosses, PriceTime!Killed, Killed,
         PriceTime!MapThenSumSet, MapThenSumSet,
         PriceTime!Remaining, Remaining, PriceTime!MapThenFoldSet, MapThenFoldSet
<1>6. \A m : PriceTime!Given(b, o, m) = Given(b, o, m)
  BY <1>3 DEF PriceTime!Given, Given, PriceTime!Min, Min
<1>7. PriceTime!Left(b, o) = Left(b, o)
  BY DEF PriceTime!Left, Left, PriceTime!Reached, Reached, PriceTime!Given, Given, PriceTime!Min, Min,
         PriceTime!Makers, Makers, PriceTime!Crosses, Crosses, PriceTime!Wanted, Wanted,
         PriceTime!Ahead, Ahead, PriceTime!Better, Better, PriceTime!MapThenSumSet, MapThenSumSet,
         PriceTime!Remaining, Remaining, PriceTime!MapThenFoldSet, MapThenFoldSet
<1>8. \A S : PriceTime!InTurn(S) = InTurn(S)
  BY DEF PriceTime!InTurn, InTurn, PriceTime!Ahead, Ahead, PriceTime!Better, Better,
         PriceTime!Cardinality, Cardinality, PriceTime!IsFiniteSet, IsFiniteSet
<1>9. PriceTime!Trades(b, o) = Trades(b, o)
  BY <1>4, <1>6, <1>8 DEF PriceTime!Trades, Trades
<1>10. PriceTime!Rests(b, o) <=> Rests(b, o)
  BY <1>7 DEF PriceTime!Rests, Rests, PriceTime!ShouldRest, ShouldRest
<1>11. \A m : PriceTime!AfterTrade(b, o, m) = AfterTrade(b, o, m)
  BY <1>6 DEF PriceTime!AfterTrade, AfterTrade
<1>12. PriceTime!AfterSubmit(b, o) = AfterSubmit(b, o)
  BY <1>4, <1>5, <1>7, <1>10, <1>11 DEF PriceTime!AfterSubmit, AfterSubmit
<1> QED
  BY <1>1, <1>4, <1>5, <1>7, <1>9, <1>10, <1>12

\* What PriceTimeBook requires of a submission, in these terms.
LEMMA SubmitSeen ==
  ASSUME NEW t \in Templates, NEW o, o = MakeOrder(CountNow + 1, t, 0),
         CountNow' = CountNow + 1, BookNow' = AfterSubmit(BookNow, o),
         OutcomeNow' = IF Killed(BookNow, o)
                         THEN PriceTime!SubmitOutcome(o, << >>, FALSE, 0)
                         ELSE PriceTime!SubmitOutcome(o, Trades(BookNow, o), TRUE,
                                IF Rests(BookNow, o) THEN Left(BookNow, o) ELSE 0)
  PROVE  PriceTime!SubmitOrder
<1>1. o = PriceTime!MakeOrder(CountNow + 1, t, 0)
  BY DEF PriceTime!MakeOrder, MakeOrder
<1>2. /\ BookNow' = PriceTime!AfterSubmit(BookNow, o)
      /\ OutcomeNow' = IF PriceTime!Killed(BookNow, o)
                         THEN PriceTime!SubmitOutcome(o, << >>, FALSE, 0)
                         ELSE PriceTime!SubmitOutcome(o, PriceTime!Trades(BookNow, o), TRUE,
                                IF PriceTime!Rests(BookNow, o) THEN PriceTime!Left(BookNow, o) ELSE 0)
  BY RulesAre
<1> QED
  BY <1>1, <1>2 DEF PriceTime!SubmitOrder, BookNow, CountNow, OutcomeNow, Told

\* And for cancel: what PriceTimeBook requires of it.
LEMMA CancelSeen ==
  ASSUME NEW id \in CancelIds, CountNow' = CountNow,
         BookNow' = {o \in BookNow : o.id # id},
         OutcomeNow' = PriceTime!CancelOutcome(id, \E o \in BookNow : o.id = id)
  PROVE  PriceTime!Next
<1>1. PriceTime!Cancel(id)
  BY DEF PriceTime!Cancel, BookNow, CountNow, OutcomeNow, Told
<1> QED
  BY <1>1 DEF PriceTime!Next

\* A step that changes none of the three is a stutter there.
LEMMA NothingSeen ==
  ASSUME BookNow' = BookNow, CountNow' = CountNow, OutcomeNow' = OutcomeNow
  PROVE  UNCHANGED PriceTime!bookVars
BY DEF PriceTime!bookVars, BookNow, CountNow, OutcomeNow, Told

\* submit returns what PriceTimeBook promises, and leaves the book it promises.
LEMMA FinishSubmits ==
  ASSUME RefInv, Finish, MatchInv', LevelsFinite'
  PROVE  PriceTime!SubmitOrder
<1> DEFINE rests == ShouldRest(taker, taker.remaining_qty)
           qty   == IF rests THEN taker.remaining_qty ELSE 0
<1>1. /\ pc = "match" /\ pc' = "idle" /\ next_order_id' = next_order_id
      /\ outcome' = SubmitOutcome(taker, trades, TRUE, qty)
  BY DEF Finish
<1>2. MatchInv /\ LevelsFinite /\ next_order_id \in Nat
  BY DEF RefInv, MatchInv, TypeOK
<1>3. /\ OrdersApart(before) /\ ~ Killed(before, Submitted)
      /\ \E t \in Templates : Submitted = MakeOrder(next_order_id, t, 0)
      /\ \E T, W, n : MatchedBy(T, W, n)
  BY <1>1 DEF RefInv, Matched
<1>4. PICK T, W, n : MatchedBy(T, W, n)
  BY <1>3
<1>5. /\ TakesInTurn(before, Submitted, T, W, n)
      /\ taker.remaining_qty = IF n = 0 \/ W[n] >= 0 THEN W[n] ELSE 0
      /\ Told(trades) = Dealt(T, W, n)
      /\ RestingOrders(levels) = BookAfter(before, T, W, n)
  BY <1>4 DEF MatchedBy
<1>6. Enough(before, Submitted, T, W, n)
  BY <1>2, <1>4, FinishEnough
<1>7. Submitted \in Order
  BY <1>1, <1>2, SubmittedIs
<1>8. Left(before, Submitted) = taker.remaining_qty
  BY <1>3, <1>5, <1>6, <1>7, WhatIsLeft
<1>9. Trades(before, Submitted) = Told(trades)
  BY <1>3, <1>5, <1>6, <1>7, TradesAre
<1>10. Rests(before, Submitted) <=> rests
  <2>1. Submitted.order_type = taker.order_type /\ Submitted.tif = taker.tif
    BY <1>1, <1>2, SubmittedIs
  <2> QED
    BY <1>8, <2>1 DEF Rests, ShouldRest, ShouldRest
<1>11. AfterSubmit(before, Submitted) = RestingOrders(levels')
  <2>1. [Submitted EXCEPT !.remaining_qty = taker.remaining_qty] = taker
    <3>1. taker \in Order
      BY <1>1, <1>2, TakerType DEF MatchInv
    <3> QED
      BY <3>1 DEF Order, Submitted
  <2>2. AfterSubmit(before, Submitted) =
          BookAfter(before, T, W, n)
            \cup (IF Rests(before, Submitted)
                    THEN {[Submitted EXCEPT !.remaining_qty = Left(before, Submitted)]}
                    ELSE {})
    BY <1>3, <1>5, <1>6, <1>7, AfterSubmitIs
  <2>3. AfterSubmit(before, Submitted) =
          RestingOrders(levels) \cup (IF rests THEN {taker} ELSE {})
    BY <1>5, <1>8, <1>10, <2>1, <2>2
  <2>4. RestingOrders(levels') = RestingOrders(levels) \cup (IF rests THEN {taker} ELSE {})
    BY <1>2, FinishRests
  <2> QED
    BY <2>3, <2>4
<1>12. OutcomeNow' = PriceTime!SubmitOutcome(Submitted, Told(trades), TRUE, qty)
  <2>1. PriceTime!Asked(Submitted) = Asked(taker) /\ Submitted.id = taker.id
    BY <1>1, <1>2, SubmittedIs DEF PriceTime!Asked, Asked
  <2> HIDE DEF qty
  <2> QED
    BY <1>1, <2>1 DEF OutcomeNow, SubmitOutcome, PriceTime!SubmitOutcome
<1>13. PICK t \in Templates : Submitted = MakeOrder(next_order_id, t, 0)
  BY <1>3
<1>14. BookNow = before /\ BookNow' = RestingOrders(levels') /\ CountNow + 1 = next_order_id
       /\ CountNow' = next_order_id
  BY <1>1, <1>2 DEF BookNow, CountNow
<1> QED
  BY <1>3, <1>8, <1>9, <1>10, <1>11, <1>12, <1>13, <1>14, SubmitSeen

\* A fill-or-kill order is refused when PriceTimeBook kills it.
LEMMA RejectSubmits ==
  ASSUME RefInv, NEW t \in Templates, RejectFok(t)
  PROVE  PriceTime!SubmitOrder
<1> DEFINE order == MakeOrder(next_order_id + 1, t, 0)
<1>1. /\ pc = "idle" /\ pc' = pc /\ levels' = levels /\ next_order_id' = next_order_id + 1
      /\ order.tif = "FOK" /\ AvailableLiquidity(levels, order) < order.qty
      /\ outcome' = SubmitOutcome(order, << >>, FALSE, 0)
      /\ next_order_id \in Nat
  BY DEF RejectFok, bookVars, matchVars, RefInv, MatchInv, TypeOK
<1>2. order \in Order
  BY <1>1, MakeOrderType
<1>3. BookNow = RestingOrders(levels) /\ BookNow' = BookNow /\ CountNow = next_order_id
      /\ CountNow' = CountNow + 1
  BY <1>1 DEF BookNow, CountNow
<1>4. order = MakeOrder(CountNow + 1, t, 0)
  BY <1>3
<1> HIDE DEF order
<1>5. Killed(BookNow, order)
  BY <1>1, <1>2, <1>3, LevelsSound, KilledIs DEF RefInv
<1>6. AfterSubmit(BookNow, order) = BookNow
  BY <1>5 DEF AfterSubmit
<1>7. OutcomeNow' = PriceTime!SubmitOutcome(order, << >>, FALSE, 0)
  <2>1. Told(<< >>) = << >>
    BY DEF Told
  <2>2. PriceTime!Asked(order) = Asked(order)
    BY DEF PriceTime!Asked, Asked
  <2> QED
    BY <1>1, <2>1, <2>2 DEF OutcomeNow, SubmitOutcome, PriceTime!SubmitOutcome
<1> QED
  BY <1>3, <1>4, <1>5, <1>6, <1>7, SubmitSeen

\* cancel finds what rests, and nothing else.
LEMMA UnknownCancels ==
  ASSUME RefInv, NEW id \in CancelIds, CancelUnknown(id)
  PROVE  PriceTime!Next
<1>1. /\ pc = "idle" /\ pc' = pc /\ levels' = levels /\ next_order_id' = next_order_id
      /\ outcome' = [op |-> "cancel", order_id |-> id, found |-> FALSE]
      /\ id \notin DOMAIN index
  BY DEF CancelUnknown, bookVars, matchVars
<1>2. \A o \in RestingOrders(levels) : o.id # id
  <2> TAKE o \in RestingOrders(levels)
  <2>1. /\ o.side \in Side /\ o.price \in DOMAIN levels[o.side]
        /\ \E i \in 1 .. Len(levels[o.side][o.price]) : levels[o.side][o.price][i] = o
    BY LevelsSound, RestingSoundBook DEF RefInv
  <2> QED
    BY <1>1, <2>1 DEF RefInv, MatchInv, RestingIndexed
<1>3. BookNow = RestingOrders(levels) /\ BookNow' = BookNow /\ CountNow' = CountNow
  BY <1>1 DEF BookNow, CountNow
<1>4. BookNow' = {o \in BookNow : o.id # id} /\ ~ \E o \in BookNow : o.id = id
  BY <1>2, <1>3
<1>5. OutcomeNow' = PriceTime!CancelOutcome(id, FALSE)
  BY <1>1 DEF OutcomeNow, PriceTime!CancelOutcome
<1>6. OutcomeNow' = PriceTime!CancelOutcome(id, \E o \in BookNow : o.id = id)
  <2>1. (\E o \in BookNow : o.id = id) = FALSE
    BY <1>4
  <2> QED
    BY <1>5, <2>1 DEF PriceTime!CancelOutcome
<1> QED
  BY <1>3, <1>4, <1>6, CancelSeen

\* A resting order is found, and leaves.
LEMMA RestingCancels ==
  ASSUME RefInv, NEW id \in CancelIds, CancelResting(id), MatchInv', LevelsFinite'
  PROVE  PriceTime!Next
<1>1. /\ pc = "idle" /\ pc' = pc /\ next_order_id' = next_order_id
      /\ outcome' = [op |-> "cancel", order_id |-> id,
                     found |-> index[id][2] \in DOMAIN levels[index[id][1]]]
  BY DEF CancelResting, bookVars, matchVars
<1>2. /\ RestingOrders(levels') = {o \in RestingOrders(levels) : o.id # id}
      /\ \E o \in RestingOrders(levels) : o.id = id
      /\ index[id][2] \in DOMAIN levels[index[id][1]]
  BY CancelRests DEF RefInv
<1>3. BookNow = RestingOrders(levels) /\ BookNow' = RestingOrders(levels') /\ CountNow' = CountNow
  BY <1>1 DEF BookNow, CountNow
<1>4. OutcomeNow' = [op |-> "cancel", order_id |-> id, found |-> TRUE]
  <2>1. (index[id][2] \in DOMAIN levels[index[id][1]]) = TRUE
    BY <1>2
  <2>2. outcome' = [op |-> "cancel", order_id |-> id, found |-> TRUE]
    BY <1>1, <2>1
  <2> QED
    BY <2>2 DEF OutcomeNow
<1>5. OutcomeNow' = PriceTime!CancelOutcome(id, \E o \in BookNow : o.id = id)
  <2>1. (\E o \in BookNow : o.id = id) = TRUE
    BY <1>2, <1>3
  <2> QED
    BY <1>4, <2>1 DEF PriceTime!CancelOutcome
<1>6. BookNow' = {o \in BookNow : o.id # id}
  BY <1>2, <1>3
<1> QED
  BY <1>3, <1>5, <1>6, CancelSeen

\* The turns of the loops go unseen.
LEMMA LoopUnseen ==
  ASSUME RefInv,
         \/ \E t \in Templates : Accept(t)
         \/ \E p \in Price : OpenLevel(p)
         \/ Fill \/ CloseLevel \/ UNCHANGED vars
  PROVE  UNCHANGED PriceTime!bookVars
<1>1. next_order_id \in Nat
  BY DEF RefInv, MatchInv, TypeOK
<1>2. outcome' = outcome
  BY DEF Accept, OpenLevel, Fill, CloseLevel, vars
<1>3. OutcomeNow' = OutcomeNow
  BY <1>2 DEF OutcomeNow
<1>4. ASSUME NEW t \in Templates, Accept(t)
      PROVE  BookNow' = BookNow /\ CountNow' = CountNow
  BY <1>1, <1>4 DEF Accept, BookNow, CountNow
<1>5. ASSUME \/ \E p \in Price : OpenLevel(p)
             \/ Fill \/ CloseLevel
      PROVE  BookNow' = BookNow /\ CountNow' = CountNow
  <2>1. pc # "idle" /\ pc' # "idle" /\ before' = before /\ next_order_id' = next_order_id
    BY <1>5 DEF OpenLevel, Fill, CloseLevel
  <2> QED
    BY <2>1 DEF BookNow, CountNow
<1>6. ASSUME UNCHANGED vars
      PROVE  BookNow' = BookNow /\ CountNow' = CountNow
  BY <1>6 DEF vars, BookNow, CountNow
<1>7. BookNow' = BookNow /\ CountNow' = CountNow
  BY <1>4, <1>5, <1>6
<1> QED
  BY <1>3, <1>7, NothingSeen

\* The invariant is inductive.
LEMMA RefStep == RefInv /\ [Next]_vars => RefInv'
<1> SUFFICES ASSUME RefInv, [Next]_vars PROVE RefInv'
  OBVIOUS
<1>1. MatchInv /\ LevelsFinite /\ Matched
  BY DEF RefInv
<1>2. MatchInv' /\ LevelsFinite'
  BY <1>1, NextStep, FiniteStep
<1>3. ASSUME pc' = "idle" PROVE Matched'
  BY <1>3 DEF Matched
<1>4. ASSUME NEW t \in Templates, Accept(t) PROVE Matched'
  BY <1>4, AcceptMatched
<1>5. ASSUME NEW t \in Templates, RejectFok(t) PROVE Matched'
  BY <1>3, <1>5 DEF RejectFok
<1>6. ASSUME NEW p \in Price, OpenLevel(p) PROVE Matched'
  <2>1. pc # "idle" /\ UNCHANGED <<taker, trades, before, next_order_id, levels>>
    BY <1>6 DEF OpenLevel, bookVars
  <2>2. RestingOrders(levels') = RestingOrders(levels)
    BY <2>1
  <2> QED
    BY <1>1, <2>1, <2>2, MatchedKept
<1>7. ASSUME Fill PROVE Matched'
  BY <1>2, <1>7, FillMatched
<1>8. ASSUME CloseLevel PROVE Matched'
  <2>1. pc # "idle" /\ UNCHANGED <<taker, trades, before, next_order_id>>
    BY <1>8 DEF CloseLevel
  <2>2. RestingOrders(levels') = RestingOrders(levels)
    BY <1>1, <1>2, <1>8, CloseLevelRests
  <2> QED
    BY <1>1, <2>1, <2>2, MatchedKept
<1>9. ASSUME Finish PROVE Matched'
  BY <1>3, <1>9 DEF Finish
<1>10. ASSUME NEW id \in CancelIds, CancelUnknown(id) \/ CancelResting(id) PROVE Matched'
  BY <1>3, <1>10 DEF CancelUnknown, CancelResting
<1>11. ASSUME UNCHANGED vars PROVE Matched'
  <2>1. UNCHANGED <<pc, taker, trades, before, next_order_id, levels>>
    BY <1>11 DEF vars
  <2>2. RestingOrders(levels') = RestingOrders(levels)
    BY <2>1
  <2> QED
    BY <1>1, <1>3, <2>1, <2>2, MatchedKept
<1>12. Matched'
  BY <1>4, <1>5, <1>6, <1>7, <1>8, <1>9, <1>10, <1>11 DEF Next, Continue
<1> QED
  BY <1>2, <1>12 DEF RefInv

\* Each step is one of PriceTimeBook's, or is not seen.
LEMMA BookStep ==
  RefInv /\ [Next]_vars => [PriceTime!Next]_(PriceTime!bookVars)
<1> SUFFICES ASSUME RefInv, [Next]_vars
             PROVE  PriceTime!Next \/ UNCHANGED PriceTime!bookVars
  OBVIOUS
<1>1. MatchInv' /\ LevelsFinite'
  BY RefStep DEF RefInv
<1>2. ASSUME NEW t \in Templates, RejectFok(t) PROVE PriceTime!Next
  BY <1>2, RejectSubmits DEF PriceTime!Next
<1>3. CASE Finish
  BY <1>1, <1>3, FinishSubmits DEF PriceTime!Next
<1>4. ASSUME NEW id \in CancelIds, CancelUnknown(id) PROVE PriceTime!Next
  BY <1>4, UnknownCancels
<1>5. ASSUME NEW id \in CancelIds, CancelResting(id) PROVE PriceTime!Next
  BY <1>1, <1>5, RestingCancels
<1>6. CASE \/ \E t \in Templates : Accept(t)
           \/ \E p \in Price : OpenLevel(p)
           \/ Fill \/ CloseLevel \/ UNCHANGED vars
  BY <1>6, LoopUnseen
<1> QED
  BY <1>2, <1>3, <1>4, <1>5, <1>6 DEF Next, Continue

\* The empty book is where PriceTimeBook starts.
LEMMA RefInit == Init => RefInv /\ PriceTime!Init
<1> SUFFICES ASSUME Init PROVE RefInv /\ PriceTime!Init
  OBVIOUS
<1>1. \A s \in Side : DOMAIN levels[s] = {}
  BY DEF Init
<1>2. RefInv
  BY <1>1, InitStep, FS_EmptySet DEF Init, RefInv, LevelsFinite, Matched
<1>3. RestingOrders(levels) = {}
  BY <1>1 DEF RestingOrders
<1>4. outcome = PriceTime!NoOutcome /\ pc = "idle" /\ next_order_id = 0 /\ outcome.op # "submit"
  BY DEF Init, NoOutcome, PriceTime!NoOutcome
<1>5. PriceTime!Init
  BY <1>3, <1>4 DEF PriceTime!Init
<1> QED
  BY <1>2, <1>5

\* The book that price-time priority in closed form leaves, the trades it gives and
\* the outcome it returns are what the loops of submit and cancel produce, for every
\* set of prices, quantities and orders.
THEOREM KeepsPriceTime == Spec => ImplementsPriceTimeBook
<1>1. Init => RefInv /\ PriceTime!Init
  BY RefInit
<1>2. RefInv /\ [Next]_vars => RefInv'
  BY RefStep
<1>3. RefInv /\ [Next]_vars => [PriceTime!Next]_(PriceTime!bookVars)
  BY BookStep
<1> QED
  BY <1>1, <1>2, <1>3, PTL DEF Spec, ImplementsPriceTimeBook, PriceTime!Spec

==============================================================================
