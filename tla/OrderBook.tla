------------------------------ MODULE OrderBook ------------------------------
(***************************************************************************)
(* The order book of src/src/orderbook.rs as operators on a book value:    *)
(*                                                                         *)
(*   levels[side]    the BTreeMap bids or asks: a function from the prices *)
(*                   that have a level to the level's queue, oldest first  *)
(*   index           the HashMap from a resting order's identifier to the  *)
(*                   side and price it rests at                            *)
(*   next_trade_id   the number of the last trade                          *)
(*                                                                         *)
(* bids and asks are two copies of the same code with the comparisons      *)
(* reversed; Better and Crosses (Orders) hold the comparisons.  submit and *)
(* cancel run with the engine exclusively borrowed, so each is one         *)
(* operator from book to book; Matching opens submit up, loop iteration by *)
(* loop iteration.                                                         *)
(***************************************************************************)
EXTENDS Orders, FiniteSets, FiniteSetsExt, SequencesExt

EmptyBook == [levels        |-> [s \in Side |-> << >>],
              index         |-> << >>,
              next_trade_id |-> 0]

\* f without the keys in S; f with key k bound to v.
Without(f, S) == [x \in DOMAIN f \ S |-> f[x]]
With(f, k, v) == [x \in DOMAIN f \cup {k} |-> IF x = k THEN v ELSE f[x]]

\* The members of S one by one, each after those that come before it.
InOrder(S, before(_, _)) ==
  LET ranked == {<<x, Cardinality({y \in S : before(y, x)}) + 1>> : x \in S}
  IN  [i \in 1 .. Cardinality(S) |-> (CHOOSE xr \in ranked : xr[2] = i)[1]]

\* The prices of a side in the order the code iterates over them, best first.
PricesBestFirst(levels, side) == InOrder(DOMAIN levels[side], LAMBDA q, p : Better(side, q, p))

HasLevel(book, side) == DOMAIN book.levels[side] # {}
BestPrice(book, side) == Head(PricesBestFirst(book.levels, side))

LevelQty(queue) == FoldLeft(LAMBDA acc, o : acc + o.remaining_qty, 0, queue)

-----------------------------------------------------------------------------

\* Mutant of AvailableLiquidity: the taker's limit is not looked at.
AllLiquidity(levels, order) ==
  LET side == Opposite(order.side)
  IN  FoldLeft(LAMBDA sum, px : sum + LevelQty(levels[side][px]), 0, PricesBestFirst(levels, side))

\* What a taker could trade at once: everything resting at prices it crosses.
\* (The code stops at the first price that does not cross; no later one does.)
AvailableLiquidity(levels, order) ==
  LET side == Opposite(order.side)
  IN  FoldLeft(LAMBDA sum, px : IF Crosses(order, px) THEN sum + LevelQty(levels[side][px]) ELSE sum,
               0, PricesBestFirst(levels, side))

\* Mutant of FillMaker: a maker that is not used up keeps its old quantity.
FillMakerAgain(m, maker, px) ==
  IF m.taker.remaining_qty <= Eps
    THEN [m EXCEPT !.queue = Append(@, maker)]
    ELSE LET fill_qty == Min({m.taker.remaining_qty, maker.remaining_qty})
             filled   == maker.remaining_qty - fill_qty <= Eps
             trade    == [id |-> m.next_trade_id + 1, maker_order_id |-> maker.id,
                          taker_order_id |-> m.taker.id, price |-> px, qty |-> fill_qty,
                          timestamp_ms |-> m.taker.timestamp_ms]
         IN  [taker         |-> [m.taker EXCEPT !.remaining_qty = @ - fill_qty],
              trades        |-> Append(m.trades, trade),
              next_trade_id |-> m.next_trade_id + 1,
              queue         |-> IF filled THEN m.queue ELSE Append(m.queue, maker),
              filled_ids    |-> IF filled THEN m.filled_ids \cup {maker.id}
                                          ELSE m.filled_ids]

\* One turn of the inner loop, with the maker at the front of the level.  m
\* holds what the loop carries: the taker, the trades, the trade counter, the
\* makers kept in the level and the identifiers of those that were filled.
FillMaker(m, maker, px) ==
  IF m.taker.remaining_qty <= Eps
    THEN [m EXCEPT !.queue = Append(@, maker)]
    ELSE LET fill_qty == Min({m.taker.remaining_qty, maker.remaining_qty})
             left     == maker.remaining_qty - fill_qty
             trade    == [id             |-> m.next_trade_id + 1,
                          maker_order_id |-> maker.id,
                          taker_order_id |-> m.taker.id,
                          price          |-> px,
                          qty            |-> fill_qty,
                          timestamp_ms   |-> m.taker.timestamp_ms]
             kept     == [maker EXCEPT !.remaining_qty = left]
         IN  [taker         |-> [m.taker EXCEPT !.remaining_qty = @ - fill_qty],
              trades        |-> Append(m.trades, trade),
              next_trade_id |-> m.next_trade_id + 1,
              queue         |-> IF left <= Eps THEN m.queue ELSE Append(m.queue, kept),
              filled_ids    |-> IF left <= Eps THEN m.filled_ids \cup {maker.id}
                                               ELSE m.filled_ids]

\* Mutant of DrainLevel: the loop forgets whom it filled.
DrainLevelForgets(level, taker, px, trades, next_trade_id) ==
  LET m == FoldLeft(LAMBDA acc, maker : FillMaker(acc, maker, px),
                    [taker |-> taker, trades |-> trades, next_trade_id |-> next_trade_id,
                     queue |-> << >>, filled_ids |-> {}],
                    level)
  IN  [m EXCEPT !.filled_ids = {}]

DrainLevel(level, taker, px, trades, next_trade_id) ==
  FoldLeft(LAMBDA m, maker : FillMaker(m, maker, px),
           [taker |-> taker, trades |-> trades, next_trade_id |-> next_trade_id,
            queue |-> << >>, filled_ids |-> {}],
           level)

\* One turn of the outer loop at the best price left.
MatchLevel(m, px) ==
  IF m.taker.remaining_qty <= Eps \/ ~Crosses(m.taker, px)
    THEN m
    ELSE LET side == Opposite(m.taker.side)
             d    == DrainLevel(m.book.levels[side][px], m.taker, px, m.trades,
                                m.book.next_trade_id)
             rest == IF d.queue = << >>
                       THEN Without(m.book.levels[side], {px})
                       ELSE With(m.book.levels[side], px, d.queue)
         IN  [book   |-> [levels        |-> [m.book.levels EXCEPT ![side] = rest],
                          index         |-> Without(m.book.index, d.filled_ids),
                          next_trade_id |-> d.next_trade_id],
              taker  |-> d.taker,
              trades |-> d.trades]

MatchOrder(book, order) ==
  FoldLeft(MatchLevel, [book |-> book, taker |-> order, trades |-> << >>],
           PricesBestFirst(book.levels, Opposite(order.side)))

\* Mutant of InsertResting: the order goes to the front of the queue.
InsertRestingFront(book, order) ==
  LET side  == order.side
      px    == order.price
      queue == IF px \in DOMAIN book.levels[side] THEN book.levels[side][px] ELSE << >>
  IN  [book EXCEPT !.levels[side] = With(@, px, <<order>> \o queue),
                   !.index        = With(@, order.id, Place(order))]

InsertResting(book, order) ==
  LET side  == order.side
      px    == order.price
      queue == IF px \in DOMAIN book.levels[side] THEN book.levels[side][px] ELSE << >>
  IN  [book EXCEPT !.levels[side] = With(@, px, Append(queue, order)),
                   !.index        = With(@, order.id, Place(order))]

\* submit: the book it leaves and the SubmitResult it returns.
Submit(book, order) ==
  IF order.tif = "FOK" /\ AvailableLiquidity(book.levels, order) < order.qty
    THEN [book   |-> book,
          result |-> [trades |-> << >>, accepted |-> FALSE, resting_qty |-> 0]]
    ELSE LET m    == MatchOrder(book, order)
             left == m.taker.remaining_qty
             rest == ShouldRest(order, left)
         IN  [book   |-> IF rest THEN InsertResting(m.book, m.taker) ELSE m.book,
              result |-> [trades      |-> m.trades,
                          accepted    |-> TRUE,
                          resting_qty |-> IF rest THEN left ELSE 0]]

\* retain(|o| o.id != order_id)
Retained(queue, order_id) ==
  FoldLeft(LAMBDA kept, o : IF o.id = order_id THEN kept ELSE Append(kept, o), << >>, queue)

\* cancel: the book it leaves and whether the order was found.
CancelOrder(book, order_id) ==
  IF order_id \notin DOMAIN book.index
    THEN [book |-> book, found |-> FALSE]
    ELSE LET side    == book.index[order_id][1]
             px      == book.index[order_id][2]
             removed == [book EXCEPT !.index = Without(@, {order_id})]
         IN  IF px \notin DOMAIN book.levels[side]
               THEN [book |-> removed, found |-> FALSE]
               ELSE LET kept == Retained(book.levels[side][px], order_id)
                        rest == IF kept = << >>
                                  THEN Without(book.levels[side], {px})
                                  ELSE With(book.levels[side], px, kept)
                    IN  [book  |-> [removed EXCEPT !.levels[side] = rest],
                         found |-> TRUE]

\* The aggregated levels of each side, best first, at most depth of each.
Snapshot(book, depth) ==
  [s \in Side |->
     LET prices == PricesBestFirst(book.levels, s)
     IN  [i \in 1 .. Min({depth, Len(prices)}) |->
            [price       |-> prices[i],
             qty         |-> LevelQty(book.levels[s][prices[i]]),
             order_count |-> Len(book.levels[s][prices[i]])]]]

\* Every order on the book.
RestingOrders(levels) ==
  UNION {UNION {ToSet(levels[s][px]) : px \in DOMAIN levels[s]} : s \in Side}

-----------------------------------------------------------------------------
(* What the parts of a book owe each other.                                *)

\* What makes a book sound, whoever built it: the live engine or a replay.
BookType(b) ==
  /\ b \in [levels : {b.levels}, index : {b.index}, next_trade_id : Nat]
  /\ DOMAIN b.levels = Side /\ DOMAIN b.index \subseteq Nat
  /\ \A s \in Side : /\ DOMAIN b.levels[s] \subseteq Price /\ IsFiniteSet(DOMAIN b.levels[s])
                     /\ \A px \in DOMAIN b.levels[s] :
                          b.levels[s][px] \in Seq(Order) /\ b.levels[s][px] # << >>

IndexedAt(b, id, s, px) ==
  px \in DOMAIN b.levels[s] /\ \E i \in 1 .. Len(b.levels[s][px]) : b.levels[s][px][i].id = id

PlacedSoundly(b, s, px, i) ==
  LET queue == b.levels[s][px]
      o     == queue[i]
  IN  /\ o.side = s /\ o.price = px /\ ShouldRest(o, o.remaining_qty)
      /\ o.id \in DOMAIN b.index /\ b.index[o.id] = <<s, px>>
      /\ \A j \in 1 .. Len(queue) : queue[j].id = o.id => j = i

BookSound(b) ==
  /\ BookType(b)
  /\ \A s \in Side : \A px \in DOMAIN b.levels[s] : \A i \in 1 .. Len(b.levels[s][px]) :
       PlacedSoundly(b, s, px, i)
  /\ \A id \in DOMAIN b.index : /\ b.index[id] \in Side \X Price
                                /\ IndexedAt(b, id, b.index[id][1], b.index[id][2])
  /\ \A bid \in DOMAIN b.levels["Buy"], ask \in DOMAIN b.levels["Sell"] : bid < ask

=============================================================================
