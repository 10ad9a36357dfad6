---------------------------- MODULE Engine_proofs ----------------------------
(***************************************************************************)
(* Proofs about Engine, for every set of prices, quantities and orders:    *)
(* its invariant, what replay shows, where quantity goes, and that the     *)
(* engine implements PriceTimeBook.  What they need of the book's          *)
(* operators is in OrderBook_proofs.                                       *)
(***************************************************************************)
EXTENDS Engine, OrderBook_proofs

-----------------------------------------------------------------------------
(* The engine: its value stays sound through every operation.              *)

\* SeedTime on a clock that shows t.
SeedTimeFrom(t, i) == t - SeedSpan + (SeedSpan \div Len(SeedScript)) * (i - 1)
SeedTurn(t, e, i) == SubmitTo(e, SeedScript[i], SeedTimeFrom(t, i))

RunStep  == INSTANCE SequenceLemmas WITH Step <- LAMBDA p, r, e : RunEvent(r, e)
SeedStep == INSTANCE SequenceLemmas WITH Step <- LAMBDA t, e, i : SeedTurn(t, e, i)

NewRun == [book |-> EmptyBook, trades |-> << >>, live |-> << >>]

\* An empty journal runs to an empty engine.
LEMMA RunOfNothing == RunFromStart(<< >>) = NewRun
<1>1. RunFromStart(<< >>) = RunStep!Fold(0, NewRun, << >>)
  BY DEF RunFromStart, NewRun, FoldLeft, MapThenFoldSet, Max,
         RunStep!Fold, RunStep!FoldLeft, RunStep!MapThenFoldSet, RunStep!Max
<1> QED
  BY <1>1, RunStep!FoldEmpty

\* Running one more event is one step more.
LEMMA RunOneMore ==
  ASSUME NEW events \in Seq(EngineEvent), NEW e \in EngineEvent
  PROVE  RunFromStart(Append(events, e)) = RunEvent(RunFromStart(events), e)
<1>1. \A x : RunFromStart(x) = RunStep!Fold(0, NewRun, x)
  BY DEF RunFromStart, NewRun, FoldLeft, MapThenFoldSet, Max,
         RunStep!Fold, RunStep!FoldLeft, RunStep!MapThenFoldSet, RunStep!Max
<1>2. RunStep!Fold(0, NewRun, Append(events, e)) = RunEvent(RunStep!Fold(0, NewRun, events), e)
  BY RunStep!FoldAppend
<1> QED
  BY <1>1, <1>2

\* The empty book.
LEMMA EmptySound ==
  BookSound(EmptyBook) /\ EmptyBook.next_trade_id = 0 /\ DOMAIN EmptyBook.index = {}
<1>1. /\ EmptyBook.next_trade_id = 0 /\ EmptyBook.index = << >>
      /\ EmptyBook.levels = [s \in Side |-> << >>]
      /\ EmptyBook \in [levels : {EmptyBook.levels}, index : {EmptyBook.index},
                        next_trade_id : Nat]
  BY DEF EmptyBook
<1>2. DOMAIN << >> = {}
  OBVIOUS
<1>3. DOMAIN EmptyBook.levels = Side /\ \A s \in Side : DOMAIN EmptyBook.levels[s] = {}
  BY <1>1, <1>2
<1>4. BookType(EmptyBook)
  BY <1>1, <1>2, <1>3, FS_EmptySet DEF BookType
<1>5. "Buy" \in Side
  BY DEF Side
<1> QED
  BY <1>1, <1>2, <1>3, <1>4, <1>5 DEF BookSound

\* What a journaled order or cancellation is.
LEMMA EventTypes ==
  /\ \A o \in Order : /\ SubmitEvent(o) \in EngineEvent /\ SubmitEvent(o).kind = "Submit"
                      /\ SubmitEvent(o).order = o /\ EventTime(SubmitEvent(o)) = o.timestamp_ms
  /\ \A id \in Nat, t \in Int :
       /\ CancelEvent(id, t) \in EngineEvent /\ CancelEvent(id, t).kind = "Cancel"
       /\ CancelEvent(id, t).order_id = id /\ EventTime(CancelEvent(id, t)) = t
BY DEF SubmitEvent, CancelEvent, EngineEvent, EventTime

\* An order made of a template has the type of an order and all of its quantity left.
LEMMA OrderMade ==
  ASSUME NEW t \in Template, NEW id \in Nat, NEW time \in Int
  PROVE  LET order == MakeOrder(id, t, time)
         IN  /\ order \in Order /\ order.id = id /\ order.timestamp_ms = time
             /\ order.remaining_qty = order.qty
<1>1. /\ t.side \in Side /\ t.order_type \in OrderType /\ t.tif \in TimeInForce
      /\ t.price \in Price /\ t.qty \in Qty /\ t.qty \in Int
  BY QtyAssumption DEF Template
<1> QED
  BY <1>1 DEF Order, MakeOrder

\* An event is appended to a sound engine's journal: what the journal says of the
\* orders it holds is still so.
LEMMA JournalGrows ==
  ASSUME NEW events, NEW n \in Nat, JournalSound(events, n),
         NEW e \in EngineEvent, EventTime(e) \in Times, NEW m \in Nat,
         \/ e.kind # "Submit" /\ m = n
         \/ /\ e.kind = "Submit" /\ m = n + 1
            /\ e.order.id = n + 1 /\ e.order.remaining_qty = e.order.qty
  PROVE  JournalSound(Append(events, e), m)
<1> DEFINE last == Len(events) + 1
           more == Append(events, e)
<1>1. /\ events \in Seq(EngineEvent) /\ \A i \in DOMAIN events : EventTime(events[i]) \in Times
      /\ \A i \in SubmittedIn(events) : /\ events[i].order.id \in 1 .. n
                                       /\ events[i].order.remaining_qty = events[i].order.qty
      /\ \A i, j \in SubmittedIn(events) : events[i].order.id = events[j].order.id => i = j
  BY DEF JournalSound
<1>2. /\ more \in Seq(EngineEvent) /\ Len(events) \in Nat
      /\ DOMAIN events = 1 .. Len(events) /\ DOMAIN more = 1 .. last
      /\ more[last] = e /\ \A i \in 1 .. Len(events) : more[i] = events[i]
  BY <1>1, AppendProperties, LenProperties
<1>3. \A i \in DOMAIN more : EventTime(more[i]) \in Times
  <2> HIDE DEF more
  <2> QED
    BY <1>1, <1>2
<1>4. \A i \in SubmittedIn(more) :
        \/ i = last /\ e.kind = "Submit" /\ more[i] = e
        \/ i \in SubmittedIn(events) /\ i # last /\ more[i] = events[i]
  <2> HIDE DEF more
  <2> QED
    BY <1>2 DEF SubmittedIn
<1> HIDE DEF last, more
<1>5. \A i \in SubmittedIn(more) :
        \/ i = last /\ more[i].order.id = n + 1 /\ m = n + 1
             /\ more[i].order.remaining_qty = more[i].order.qty
        \/ i \in SubmittedIn(events) /\ more[i] = events[i] /\ more[i].order.id \in 1 .. n
             /\ more[i].order.remaining_qty = more[i].order.qty
  BY <1>1, <1>4
<1>6. \A i \in SubmittedIn(more) : /\ more[i].order.id \in 1 .. m
                                 /\ more[i].order.remaining_qty = more[i].order.qty
  BY <1>5
<1>7. ASSUME NEW i \in SubmittedIn(more), NEW j \in SubmittedIn(more),
             more[i].order.id = more[j].order.id
      PROVE  i = j
  <2>1. CASE i = last
    BY <1>5, <1>7, <1>4, <2>1
  <2>2. CASE j = last
    BY <1>5, <1>7, <1>4, <2>2
  <2>3. CASE i # last /\ j # last
    BY <1>1, <1>5, <1>7, <2>3
  <2> QED
    BY <2>1, <2>2, <2>3
<1>8. JournalSound(more, m)
  BY <1>2, <1>3, <1>6, <1>7 DEF JournalSound
<1> QED
  BY <1>8 DEF more

\* The trades of an order join the log.
LEMMA LogGrows ==
  ASSUME NEW log, NEW n, TradesSound(log, n), NEW more \in Seq(Trade), NEW taker,
         TradesGrown(more, << >>, taker, n)
  PROVE  TradesSound(log \o more, n + Len(more))
<1> DEFINE all == log \o more
<1>1. log \in Seq(Trade) /\ n = Len(log) /\ \A i \in DOMAIN log : log[i].id = i
  BY DEF TradesSound
<1>2. all \in Seq(Trade) /\ Len(all) = Len(log) + Len(more)
  BY <1>1, ConcatProperties
<1>3. \A i \in 1 .. Len(log) + Len(more) :
        all[i] = IF i <= Len(log) THEN log[i] ELSE more[i - Len(log)]
  BY <1>1, ConcatProperties
<1>4. /\ Len(log) \in Nat /\ Len(more) \in Nat
      /\ DOMAIN log = 1 .. Len(log) /\ DOMAIN all = 1 .. Len(all)
  BY <1>1, <1>2, LenProperties
<1>5. \A i \in 1 .. Len(more) : more[i].id = Len(log) + i
  BY <1>1, <1>4 DEF TradesGrown
<1> HIDE DEF all
<1>6. ASSUME NEW i \in 1 .. Len(log) + Len(more)
      PROVE  all[i].id = i
  <2>1. CASE i <= Len(log)
    BY <2>1, <1>1, <1>3, <1>4
  <2>2. CASE ~(i <= Len(log))
    <3>1. i - Len(log) \in 1 .. Len(more) /\ all[i] = more[i - Len(log)]
      BY <1>3, <1>4, <2>2
    <3>2. more[i - Len(log)].id = Len(log) + (i - Len(log))
      BY <1>5, <3>1
    <3> QED
      BY <1>4, <3>1, <3>2
  <2> QED
    BY <2>1, <2>2
<1>7. TradesSound(all, n + Len(more))
  BY <1>1, <1>2, <1>4, <1>6 DEF TradesSound
<1> QED
  BY <1>7 DEF all

\* Submitting one order.
LEMMA SubmitToSound ==
  ASSUME NEW e, EngineSound(e), NEW t \in Template, NEW time \in Times, time \in Int,
         NEW r, r = SubmitTo(e, t, time)
  PROVE  EngineSound(r)
<1> DEFINE n     == e.next_order_id
           order == MakeOrder(n + 1, t, time)
           s     == Submit(e.book, order)
           more  == s.result.trades
           event == SubmitEvent(order)
<1>1. /\ r.book = s.book /\ r.journal = Append(e.journal, event)
      /\ r.trade_log = e.trade_log \o more /\ r.next_order_id = n + 1
      /\ r.live = Append(e.live, s.book)
  BY DEF SubmitTo
<1>2. /\ BookSound(e.book) /\ n \in Nat /\ DOMAIN e.book.index \subseteq 1 .. n
      /\ JournalSound(e.journal, n) /\ TradesSound(e.trade_log, e.book.next_trade_id)
      /\ RunFromStart(e.journal) = [book |-> e.book, trades |-> e.trade_log, live |-> e.live]
  BY DEF EngineSound
<1>3. /\ order \in Order /\ order.id = n + 1 /\ order.timestamp_ms = time
      /\ order.remaining_qty = order.qty
  BY <1>2, OrderMade
<1> HIDE DEF order, n
<1>4. /\ event \in EngineEvent /\ event.kind = "Submit" /\ event.order = order
      /\ EventTime(event) = time
  BY <1>3, EventTypes
<1>5. order.id \notin DOMAIN e.book.index
  BY <1>2, <1>3
<1> HIDE DEF s, event
<1>6. /\ BookSound(s.book) /\ more \in Seq(Trade)
      /\ TradesGrown(more, << >>, order, e.book.next_trade_id)
      /\ s.book.next_trade_id = e.book.next_trade_id + Len(more)
      /\ DOMAIN s.book.index \subseteq DOMAIN e.book.index \cup {order.id}
  BY <1>2, <1>3, <1>5, SubmitSound DEF s
<1>7. JournalSound(r.journal, n + 1)
  <2>1. n + 1 \in Nat /\ event.order.id = n + 1 /\ event.order.remaining_qty = event.order.qty
    BY <1>2, <1>3, <1>4
  <2>2. JournalSound(Append(e.journal, event), n + 1)
    BY <1>2, <1>4, <2>1, JournalGrows
  <2> QED
    BY <1>1, <2>2
<1>8. TradesSound(r.trade_log, r.book.next_trade_id)
  <2> HIDE DEF more
  <2>1. TradesSound(e.trade_log \o more, e.book.next_trade_id + Len(more))
    BY <1>2, <1>6, LogGrows
  <2> QED
    BY <1>1, <1>6, <2>1
<1>9. RunFromStart(r.journal) = [book |-> r.book, trades |-> r.trade_log, live |-> r.live]
  <2>0. e.journal \in Seq(EngineEvent)
    BY <1>2 DEF JournalSound
  <2>1. RunFromStart(r.journal) = RunEvent(RunFromStart(e.journal), event)
    BY <1>1, <1>4, <2>0, RunOneMore
  <2> DEFINE run == [book |-> e.book, trades |-> e.trade_log, live |-> e.live]
  <2>2. RunEvent(run, event) = [book   |-> Submit(run.book, event.order).book,
                                trades |-> run.trades \o Submit(run.book, event.order).result.trades,
                                live   |-> Append(run.live, Submit(run.book, event.order).book)]
    BY <1>4 DEF RunEvent
  <2>3. Submit(run.book, event.order) = s
    BY <1>4 DEF s
  <2> QED
    BY <1>1, <1>2, <2>1, <2>2, <2>3
<1>10. n + 1 \in Nat /\ DOMAIN r.book.index \subseteq 1 .. n + 1
  BY <1>1, <1>2, <1>3, <1>6
<1> QED
  BY <1>1, <1>6, <1>7, <1>8, <1>9, <1>10 DEF EngineSound

\* Cancelling one order.
LEMMA CancelKeepsSound ==
  ASSUME NEW e, EngineSound(e), NEW id \in Nat, NEW time \in Times, time \in Int,
         NEW c, c = CancelOrder(e.book, id),
         NEW r, r = [book |-> c.book, journal |-> Append(e.journal, CancelEvent(id, time)),
                     trade_log |-> e.trade_log, next_order_id |-> e.next_order_id,
                     live |-> Append(e.live, c.book), result |-> << >>]
  PROVE  EngineSound(r)
<1> DEFINE n     == e.next_order_id
           event == CancelEvent(id, time)
<1>1. /\ BookSound(e.book) /\ n \in Nat /\ DOMAIN e.book.index \subseteq 1 .. n
      /\ JournalSound(e.journal, n) /\ TradesSound(e.trade_log, e.book.next_trade_id)
      /\ RunFromStart(e.journal) = [book |-> e.book, trades |-> e.trade_log, live |-> e.live]
  BY DEF EngineSound
<1>2. /\ event \in EngineEvent /\ event.kind = "Cancel" /\ event.order_id = id
      /\ EventTime(event) = time
  BY EventTypes
<1>3. /\ BookSound(c.book) /\ c.book.next_trade_id = e.book.next_trade_id
      /\ DOMAIN c.book.index = DOMAIN e.book.index \ {id}
  BY <1>1, CancelSound
<1> HIDE DEF event
<1>4. JournalSound(r.journal, n)
  <2>1. event.kind # "Submit"
    BY <1>2
  <2>2. JournalSound(Append(e.journal, event), n)
    BY <1>1, <1>2, <2>1, JournalGrows
  <2> QED
    BY <2>2 DEF event
<1>5. RunFromStart(r.journal) = [book |-> r.book, trades |-> r.trade_log, live |-> r.live]
  <2>0. e.journal \in Seq(EngineEvent)
    BY <1>1 DEF JournalSound
  <2>1. RunFromStart(Append(e.journal, event)) = RunEvent(RunFromStart(e.journal), event)
    BY <1>2, <2>0, RunOneMore
  <2> DEFINE run == [book |-> e.book, trades |-> e.trade_log, live |-> e.live]
  <2>2. RunEvent(run, event) = [book   |-> CancelOrder(run.book, event.order_id).book,
                                trades |-> run.trades,
                                live   |-> Append(run.live, CancelOrder(run.book, event.order_id).book)]
    BY <1>2 DEF RunEvent
  <2>3. CancelOrder(run.book, event.order_id) = c
    BY <1>2
  <2>4. r.journal = Append(e.journal, event)
    BY DEF event
  <2> QED
    BY <1>1, <2>1, <2>2, <2>3, <2>4
<1> QED
  BY <1>1, <1>3, <1>4, <1>5 DEF EngineSound

\* Equal steps from SeedSpan ago never pass the present.
LEMMA StepsWithin ==
  ASSUME NEW S \in Nat, NEW n \in Nat, n # 0, NEW i \in 1 .. n
  PROVE  (S \div n) * (i - 1) \in 0 .. S
<1> DEFINE q == S \div n
<1>1. q \in Nat /\ q * n <= S
  OBVIOUS
<1>2. q * (i - 1) >= 0 /\ q * (i - 1) <= q * n /\ q * (i - 1) \in Int /\ q * n \in Int
  <2> HIDE DEF q
  <2> QED
    BY <1>1
<1> HIDE DEF q
<1>3. q * (i - 1) \in 0 .. S
  BY <1>1, <1>2
<1> QED
  BY <1>3 DEF q

\* The demo's timestamps are times a journaled event can have.
LEMMA SeedTimesWithin ==
  ASSUME NEW t \in StartTime .. MaxTime, SeedScript # << >>,
         NEW i \in 1 .. Len(SeedScript)
  PROVE  SeedTimeFrom(t, i) \in Times /\ SeedTimeFrom(t, i) \in Int
<1> DEFINE back == (SeedSpan \div Len(SeedScript)) * (i - 1)
<1>1. Len(SeedScript) \in Nat /\ Len(SeedScript) # 0
  BY SeedAssumption, LenProperties
<1>2. back \in 0 .. SeedSpan
  BY <1>1, StepsWithin, SeedAssumption
<1>3. SeedTimeFrom(t, i) = t - SeedSpan + back
  BY DEF SeedTimeFrom
<1> HIDE DEF back
<1> QED
  BY <1>2, <1>3, TimeAssumption, SeedAssumption DEF Times

\* The demo's orders, one after the other.
LEMMA SeedSound ==
  ASSUME NEW e, EngineSound(e), NEW t \in StartTime .. MaxTime, SeedScript # << >>,
         NEW r, r = SeedStep!Fold(t, e, [i \in 1 .. Len(SeedScript) |-> i])
  PROVE  EngineSound(r)
<1> DEFINE n   == Len(SeedScript)
           seq == [i \in 1 .. n |-> i]
<1>1. n \in Nat /\ SeedScript \in Seq(Template) /\ DOMAIN seq = 1 .. n
  BY SeedAssumption, LenProperties
<1>2. PICK f : /\ f[0] = e
               /\ \A k \in 1 .. n : f[k] = SeedTurn(t, f[k - 1], seq[k])
               /\ SeedStep!Fold(t, e, seq) = f[n]
  <2> HIDE DEF n, seq
  <2>1. r = SeedStep!Fold(t, e, seq)
    BY DEF n, seq
  <2>2. \E f : SeedStep!Turns(f, t, e, seq, n)
    BY <1>1, <2>1, SeedStep!FoldTurns
  <2> QED
    BY <2>2 DEF SeedStep!Turns
<1>3. \A k \in 1 .. n : f[k] = SubmitTo(f[k - 1], SeedScript[k], SeedTimeFrom(t, k))
  BY <1>2 DEF SeedTurn
<1>4. \A k \in 1 .. n : SeedScript[k] \in Template
  BY <1>1
<1> HIDE DEF n, seq
<1>5. ASSUME NEW k \in 1 .. n, EngineSound(f[k - 1])
      PROVE  EngineSound(f[k])
  <2>1. SeedTimeFrom(t, k) \in Times /\ SeedTimeFrom(t, k) \in Int
    BY SeedTimesWithin DEF n
  <2>2. f[k] = SubmitTo(f[k - 1], SeedScript[k], SeedTimeFrom(t, k))
    BY <1>3
  <2>3. SeedScript[k] \in Template
    BY <1>4
  <2> QED
    BY <1>5, <2>1, <2>2, <2>3, SubmitToSound
<1>6. EngineSound(f[n])
  <2> DEFINE G == {k \in 0 .. n : EngineSound(f[k])}
  <2>1. n \in Nat /\ 0 \in G
    BY <1>1, <1>2 DEF n
  <2>2. ASSUME NEW k \in 1 .. n, k - 1 \in G PROVE k \in G
    BY <1>5, <2>2
  <2> HIDE DEF G
  <2>3. \A k \in 0 .. n : k \in G
    BY <2>1, <2>2, Upwards
  <2> QED
    BY <2>1, <2>3 DEF G
<1> QED
  BY <1>2, <1>6 DEF n, seq

\* A new engine.
LEMMA NewSound ==
  ASSUME NEW live_ , live_ = << >>
  PROVE  EngineSound([book |-> EmptyBook, journal |-> << >>, trade_log |-> << >>,
                      next_order_id |-> 0, live |-> live_, result |-> << >>])
<1>1. BookSound(EmptyBook) /\ EmptyBook.next_trade_id = 0 /\ DOMAIN EmptyBook.index = {}
  BY EmptySound
<1>2. /\ << >> \in Seq(EngineEvent) /\ << >> \in Seq(Trade)
      /\ DOMAIN << >> = {} /\ Len(<< >>) = 0
  OBVIOUS
<1>3. JournalSound(<< >>, 0)
  BY <1>2 DEF JournalSound, SubmittedIn
<1>4. TradesSound(<< >>, 0)
  BY <1>2 DEF TradesSound
<1>5. RunFromStart(<< >>) = NewRun
  BY RunOfNothing
<1> QED
  BY <1>1, <1>3, <1>4, <1>5 DEF EngineSound, NewRun

\* EngineSound looks at five parts of an engine value.
LEMMA SoundParts ==
  ASSUME NEW e, EngineSound(e), NEW r, r.book = e.book, r.journal = e.journal,
         r.trade_log = e.trade_log, r.next_order_id = e.next_order_id, r.live = e.live
  PROVE  EngineSound(r)
BY DEF EngineSound

\* Every reachable engine is sound.
THEOREM EngineInvariant == Spec => []EngineInv
<1>1. Init => EngineInv
  <2> SUFFICES ASSUME Init PROVE EngineInv
    OBVIOUS
  <2>1. EngineSound([book |-> EmptyBook, journal |-> << >>, trade_log |-> << >>,
                     next_order_id |-> 0, live |-> << >>, result |-> << >>])
    BY NewSound
  <2>2. EngineSound(Current)
    BY <2>1 DEF Init, Current
  <2> QED
    BY <2>2, TimeAssumption DEF Init, EngineInv
<1>2. EngineInv /\ [Next]_vars => EngineInv'
  <2> SUFFICES ASSUME EngineInv, [Next]_vars PROVE EngineInv'
    OBVIOUS
  <2>0. EngineSound(Current) /\ now \in StartTime .. MaxTime /\ now \in Int
    BY TimeAssumption DEF EngineInv
  <2>t. now \in Times
    BY <2>0, TimeAssumption, SeedAssumption DEF Times
  <2> DEFINE Next_ == [book |-> book', journal |-> journal', trade_log |-> trade_log',
                       next_order_id |-> next_order_id', live |-> live', result |-> << >>]
  <2>e. Current' = Next_
    BY DEF Current
  <2>1. ASSUME NEW t \in Templates, SubmitOrder(t) PROVE EngineInv'
    <3> DEFINE e == SubmitTo(Current, t, now)
    <3>1. EngineSound(e)
      BY <2>0, <2>t, TemplatesAssumption, SubmitToSound
    <3>2. /\ book' = e.book /\ journal' = e.journal /\ trade_log' = e.trade_log
          /\ next_order_id' = e.next_order_id /\ live' = e.live /\ now' = now
      BY <2>1 DEF SubmitOrder, Become
    <3> HIDE DEF e
    <3>3. EngineSound(Next_)
      BY <3>1, <3>2, SoundParts
    <3> QED
      BY <2>0, <2>e, <3>2, <3>3 DEF EngineInv
  <2>2. ASSUME NEW id \in CancelIds, Cancel(id) PROVE EngineInv'
    <3> DEFINE c == CancelOrder(book, id)
    <3>1. /\ journal' = Append(journal, CancelEvent(id, now)) /\ book' = c.book
          /\ live' = Append(live, c.book) /\ now' = now
          /\ trade_log' = trade_log /\ next_order_id' = next_order_id
      BY <2>2 DEF Cancel
    <3>2. id \in Nat
      BY CancelIdsAssumption
    <3>3. EngineSound([book |-> c.book,
                       journal |-> Append(Current.journal, CancelEvent(id, now)),
                       trade_log |-> Current.trade_log, next_order_id |-> Current.next_order_id,
                       live |-> Append(Current.live, c.book), result |-> << >>])
      <4>1. c = CancelOrder(Current.book, id)
        BY DEF Current
      <4> HIDE DEF c
      <4> QED
        BY <2>0, <2>t, <3>2, <4>1, CancelKeepsSound
    <3> HIDE DEF c
    <3>4. EngineSound(Next_)
      BY <3>1, <3>3 DEF Current
    <3> QED
      BY <2>0, <2>e, <3>1, <3>4 DEF EngineInv
  <2>3. CASE SeedDemo
    <3> DEFINE e == FoldLeft(LAMBDA x, i : SubmitTo(x, SeedScript[i], SeedTime(i)),
                             Current, [i \in 1 .. Len(SeedScript) |-> i])
    <3>1. e = SeedStep!Fold(now, Current, [i \in 1 .. Len(SeedScript) |-> i])
      BY DEF SeedTime, SeedTimeFrom, SeedTurn, FoldLeft, MapThenFoldSet, Max,
             SeedStep!Fold, SeedStep!FoldLeft, SeedStep!MapThenFoldSet, SeedStep!Max
    <3>2. /\ book' = e.book /\ journal' = e.journal /\ trade_log' = e.trade_log
          /\ next_order_id' = e.next_order_id /\ live' = e.live /\ now' = now
          /\ SeedScript # << >>
      BY Zenon, <2>3 DEF SeedDemo, Become
    <3> HIDE DEF e
    <3>3. EngineSound(e)
      BY <2>0, <3>1, <3>2, SeedSound
    <3>4. EngineSound(Next_)
      BY <3>2, <3>3, SoundParts
    <3> QED
      BY <2>0, <2>e, <3>2, <3>4 DEF EngineInv
  <2>4. CASE Reset
    <3>1. EngineSound(Next_)
      BY <2>4, NewSound DEF Reset
    <3> QED
      BY <2>0, <2>4, <2>e, <3>1 DEF EngineInv, Reset
  <2>5. CASE Tick \/ ClockSetBack \/ UNCHANGED vars
    <3>1. /\ book' = book /\ journal' = journal /\ trade_log' = trade_log
          /\ next_order_id' = next_order_id /\ live' = live
      BY <2>5 DEF Tick, ClockSetBack, vars, engineVars
    <3>2. now' \in StartTime .. MaxTime
      BY <2>0, <2>5, TimeAssumption DEF Tick, ClockSetBack, vars
    <3>3. Next_ = Current
      BY <3>1 DEF Current
    <3> QED
      BY <2>0, <2>e, <3>2, <3>3 DEF EngineInv
  <2> QED
    BY <2>1, <2>2, <2>3, <2>4, <2>5 DEF Next
<1> QED
  BY <1>1, <1>2, PTL DEF Spec

-----------------------------------------------------------------------------
(* What a sound book looks like from outside.                              *)

\* Places are the pairs of a level and a position in it.
LEMMA PlacesAre ==
  ASSUME NEW b, BookSound(b)
  PROVE  /\ \A p \in Places(b) :
              \E s \in Side : \E px \in DOMAIN b.levels[s] : \E i \in 1 .. Len(b.levels[s][px]) :
                p = <<s, px, i>> /\ OrderAt(b, p) = b.levels[s][px][i]
         /\ \A s \in Side : \A px \in DOMAIN b.levels[s] : \A i \in 1 .. Len(b.levels[s][px]) :
              <<s, px, i>> \in Places(b) /\ OrderAt(b, <<s, px, i>>) = b.levels[s][px][i]
<1>1. \A s \in Side : \A px \in DOMAIN b.levels[s] :
        DOMAIN b.levels[s][px] = 1 .. Len(b.levels[s][px])
  BY LenProperties DEF BookSound, BookType
<1>2. Places(b) = UNION {UNION {{<<s, px, i>> : i \in DOMAIN b.levels[s][px]} :
                                  px \in DOMAIN b.levels[s]} : s \in Side}
  BY DEF Places
<1>3. ASSUME NEW p \in Places(b)
      PROVE  \E s \in Side : \E px \in DOMAIN b.levels[s] :
               \E i \in 1 .. Len(b.levels[s][px]) :
                 p = <<s, px, i>> /\ OrderAt(b, p) = b.levels[s][px][i]
  <2>1. PICK s \in Side : p \in UNION {{<<s, px, i>> : i \in DOMAIN b.levels[s][px]} :
                                         px \in DOMAIN b.levels[s]}
    BY <1>2
  <2>2. PICK px \in DOMAIN b.levels[s] : p \in {<<s, px, i>> : i \in DOMAIN b.levels[s][px]}
    BY <2>1
  <2>3. PICK i \in DOMAIN b.levels[s][px] : p = <<s, px, i>>
    BY <2>2
  <2> QED
    BY <1>1, <2>3 DEF OrderAt
<1>4. ASSUME NEW s \in Side, NEW px \in DOMAIN b.levels[s], NEW i \in 1 .. Len(b.levels[s][px])
      PROVE  <<s, px, i>> \in Places(b) /\ OrderAt(b, <<s, px, i>>) = b.levels[s][px][i]
  <2>1. <<s, px, i>> \in {<<s, px, k>> : k \in DOMAIN b.levels[s][px]}
    BY <1>1
  <2>2. <<s, px, i>> \in UNION {{<<s, q, k>> : k \in DOMAIN b.levels[s][q]} :
                                  q \in DOMAIN b.levels[s]}
    BY <2>1
  <2> QED
    BY <1>2, <2>2 DEF OrderAt
<1> QED
  BY <1>3, <1>4

\* Finitely many orders rest in a sound book.
LEMMA PlacesFinite ==
  ASSUME NEW b, BookSound(b)
  PROVE  IsFiniteSet(Places(b))
<1> DEFINE At(s, px) == {<<s, px, i>> : i \in DOMAIN b.levels[s][px]}
           On(s)     == {At(s, px) : px \in DOMAIN b.levels[s]}
<1>1. ASSUME NEW s \in Side, NEW px \in DOMAIN b.levels[s]
      PROVE  IsFiniteSet(At(s, px))
  <2>1. DOMAIN b.levels[s][px] = 1 .. Len(b.levels[s][px]) /\ Len(b.levels[s][px]) \in Nat
    BY LenProperties DEF BookSound, BookType
  <2>2. IsFiniteSet(DOMAIN b.levels[s][px])
    BY <2>1, FS_Interval
  <2>3. [i \in DOMAIN b.levels[s][px] |-> <<s, px, i>>]
          \in Surjection(DOMAIN b.levels[s][px], At(s, px))
    BY DEF Surjection
  <2> QED
    BY <2>2, <2>3, FS_Surjection
<1>2. ASSUME NEW s \in Side
      PROVE  IsFiniteSet(UNION On(s))
  <2>1. IsFiniteSet(DOMAIN b.levels[s])
    BY DEF BookSound, BookType
  <2>2. [px \in DOMAIN b.levels[s] |-> At(s, px)] \in Surjection(DOMAIN b.levels[s], On(s))
    BY DEF Surjection
  <2>3. IsFiniteSet(On(s))
    BY <2>1, <2>2, FS_Surjection
  <2>4. \A T \in On(s) : IsFiniteSet(T)
    BY <1>1
  <2> HIDE DEF On
  <2> QED
    BY <2>3, <2>4, FS_UNION
<1>3. Places(b) = (UNION On("Buy")) \cup (UNION On("Sell"))
  BY DEF Places, Side
<1> HIDE DEF On
<1>4. IsFiniteSet(UNION On("Buy")) /\ IsFiniteSet(UNION On("Sell"))
  BY <1>2 DEF Side
<1> QED
  BY <1>3, <1>4, FS_Union

\* The index and the levels of a sound book describe the same orders.
LEMMA BookIndexed ==
  ASSUME NEW b, BookSound(b)
  PROVE  /\ \A p \in Places(b) : /\ OrderAt(b, p).id \in DOMAIN b.index
                                 /\ b.index[OrderAt(b, p).id] = <<p[1], p[2]>>
         /\ DOMAIN b.index = {OrderAt(b, p).id : p \in Places(b)}
         /\ Cardinality(Places(b)) = Cardinality(DOMAIN b.index)
<1>1. ASSUME NEW p \in Places(b)
      PROVE  /\ OrderAt(b, p).id \in DOMAIN b.index
             /\ b.index[OrderAt(b, p).id] = <<p[1], p[2]>>
             /\ p[1] \in Side /\ p[2] \in DOMAIN b.levels[p[1]]
             /\ p[3] \in 1 .. Len(b.levels[p[1]][p[2]]) /\ p = <<p[1], p[2], p[3]>>
             /\ OrderAt(b, p) = b.levels[p[1]][p[2]][p[3]]
  <2>1. PICK s \in Side : \E px \in DOMAIN b.levels[s] : \E i \in 1 .. Len(b.levels[s][px]) :
          p = <<s, px, i>> /\ OrderAt(b, p) = b.levels[s][px][i]
    BY PlacesAre
  <2>2. PICK px \in DOMAIN b.levels[s] : \E i \in 1 .. Len(b.levels[s][px]) :
          p = <<s, px, i>> /\ OrderAt(b, p) = b.levels[s][px][i]
    BY <2>1
  <2>3. PICK i \in 1 .. Len(b.levels[s][px]) :
          p = <<s, px, i>> /\ OrderAt(b, p) = b.levels[s][px][i]
    BY <2>2
  <2>4. PlacedSoundly(b, s, px, i)
    BY DEF BookSound
  <2> QED
    BY <2>3, <2>4 DEF PlacedSoundly
<1>2. ASSUME NEW id \in DOMAIN b.index
      PROVE  \E p \in Places(b) : OrderAt(b, p).id = id
  <2>1. PICK s \in Side, px \in Price : b.index[id] = <<s, px>>
    BY DEF BookSound
  <2>2. IndexedAt(b, id, s, px)
    BY <2>1 DEF BookSound
  <2>3. PICK i \in 1 .. Len(b.levels[s][px]) :
          px \in DOMAIN b.levels[s] /\ b.levels[s][px][i].id = id
    BY <2>2 DEF IndexedAt
  <2>4. px \in DOMAIN b.levels[s] /\ i \in 1 .. Len(b.levels[s][px])
    BY <2>3
  <2>5. <<s, px, i>> \in Places(b) /\ OrderAt(b, <<s, px, i>>) = b.levels[s][px][i]
    BY <2>4, PlacesAre
  <2> QED
    BY <2>3, <2>5
<1>3. ASSUME NEW p \in Places(b), NEW q \in Places(b), OrderAt(b, p).id = OrderAt(b, q).id
      PROVE  p = q
  <2>1. p[1] = q[1] /\ p[2] = q[2]
    BY <1>1, <1>3
  <2>2. PlacedSoundly(b, p[1], p[2], p[3])
    BY <1>1 DEF BookSound
  <2>3. \A j \in 1 .. Len(b.levels[p[1]][p[2]]) :
          b.levels[p[1]][p[2]][j].id = b.levels[p[1]][p[2]][p[3]].id => j = p[3]
    BY Zenon, <2>2 DEF PlacedSoundly
  <2>4. q[3] = p[3]
    BY <1>1, <1>3, <2>1, <2>3
  <2> QED
    BY <1>1, <2>1, <2>4
<1>4. DOMAIN b.index = {OrderAt(b, p).id : p \in Places(b)}
  BY <1>1, <1>2
<1> DEFINE F == [p \in Places(b) |-> OrderAt(b, p).id]
<1>5. F \in Bijection(Places(b), DOMAIN b.index)
  <2>1. F \in [Places(b) -> DOMAIN b.index]
    BY <1>1
  <2>2. \A p, q \in Places(b) : F[p] = F[q] => p = q
    BY <1>3
  <2>3. \A id \in DOMAIN b.index : \E p \in Places(b) : F[p] = id
    BY <1>2
  <2> HIDE DEF F
  <2> QED
    BY <2>1, <2>2, <2>3 DEF Bijection, Injection, Surjection, IsInjective
<1> HIDE DEF F
<1>6. Cardinality(Places(b)) = Cardinality(DOMAIN b.index)
  BY <1>5, PlacesFinite, FS_Bijection DEF ExistsBijection
<1> QED
  BY <1>1, <1>4, <1>6

\* A queue of orders with something left holds some quantity.
LEMMA QueueHolds ==
  ASSUME NEW queue \in Seq(Order), queue # << >>,
         \A i \in 1 .. Len(queue) : queue[i].remaining_qty > 0
  PROVE  LevelQty(queue) \in Int /\ LevelQty(queue) > 0
<1> DEFINE n == Len(queue)
<1>1. n \in Nat /\ DOMAIN queue = 1 .. n /\ n >= 1
  BY LenProperties, EmptySeq
<1>2. \A i \in 1 .. n : queue[i].remaining_qty \in Int /\ queue[i].remaining_qty > 0
  <2>1. \A i \in 1 .. n : queue[i] \in Order
    BY <1>1, ElementOfSeq
  <2> HIDE DEF n
  <2>2. \A o \in Order : o.remaining_qty \in Int
    BY DEF Order
  <2> QED
    BY <2>1, <2>2 DEF n
<1>3. LevelQty(queue) = QtyStep!Fold(0, 0, queue)
  BY DEF LevelQty, FoldLeft, MapThenFoldSet, Max,
         QtyStep!Fold, QtyStep!FoldLeft, QtyStep!MapThenFoldSet, QtyStep!Max
<1>4. \E f : QtyStep!Turns(f, 0, 0, queue, n)
  <2> HIDE DEF n
  <2> QED
    BY <1>1, <1>3, QtyStep!FoldTurns
<1>5. PICK f : /\ f[0] = 0
               /\ \A k \in 1 .. n : f[k] = f[k - 1] + queue[k].remaining_qty
               /\ LevelQty(queue) = f[n]
  BY <1>3, <1>4 DEF QtyStep!Turns
<1> HIDE DEF n
<1> DEFINE G == {k \in 0 .. n : f[k] \in Int /\ f[k] >= k}
<1>6. 0 \in G
  BY <1>1, <1>5
<1>7. ASSUME NEW k \in 1 .. n, k - 1 \in G PROVE k \in G
  <2>1. f[k] = f[k - 1] + queue[k].remaining_qty /\ f[k - 1] \in Int /\ f[k - 1] >= k - 1
    BY <1>5, <1>7
  <2>2. queue[k].remaining_qty \in Int /\ queue[k].remaining_qty > 0
    BY <1>2 DEF n
  <2> QED
    BY <2>1, <2>2
<1> HIDE DEF G
<1>8. \A k \in 0 .. n : k \in G
  BY <1>1, <1>6, <1>7, Upwards
<1> QED
  BY <1>1, <1>5, <1>8 DEF G

\* validate finds nothing to report in a sound book.
LEMMA SoundBookValid ==
  ASSUME NEW b, BookSound(b)
  PROVE  ValidationErrors(b) = {}
<1> DEFINE D(s)     == DOMAIN b.levels[s]
           P(s)     == PricesBestFirst(b.levels, s)
           deepest  == Max({Cardinality(D(s)) : s \in Side})
           snapshot == Snapshot(b, deepest)
           n(s)     == Cardinality(D(s))
<1>1. ASSUME NEW s \in Side
      PROVE  /\ n(s) \in Nat /\ DOMAIN P(s) = 1 .. n(s) /\ Len(P(s)) = n(s)
             /\ \A i \in 1 .. n(s) : P(s)[i] \in D(s) /\ P(s)[i] \in Int
             /\ \A i, j \in 1 .. n(s) : i < j => Better(s, P(s)[i], P(s)[j])
             /\ D(s) # {} => BestPrice(b, s) \in D(s)
  <2>1. IsFiniteSet(D(s)) /\ D(s) \subseteq Int
    BY PriceAssumption DEF BookSound, BookType
  <2>2. SortedPrices(P(s), s, D(s), n(s))
    BY <2>1, PricesListed
  <2> HIDE DEF P, D
  <2>3. /\ n(s) \in Nat /\ DOMAIN P(s) = 1 .. n(s) /\ P(s) \in Seq(D(s))
        /\ \A i \in 1 .. n(s) : P(s)[i] \in D(s)
        /\ \A i, j \in 1 .. n(s) : i < j => Better(s, P(s)[i], P(s)[j])
        /\ \A p \in D(s) : \E i \in 1 .. n(s) : P(s)[i] = p
    BY <2>2 DEF SortedPrices
  <2>4. Len(P(s)) = n(s)
    BY <2>3, LenProperties
  <2>5. D(s) # {} => BestPrice(b, s) \in D(s)
    <3> SUFFICES ASSUME D(s) # {} PROVE BestPrice(b, s) \in D(s)
      OBVIOUS
    <3>1. n(s) # 0
      BY <2>3
    <3>2. P(s) # << >> /\ 1 \in 1 .. n(s)
      BY <2>3, <2>4, <3>1, EmptySeq
    <3>3. Head(P(s)) \in D(s)
      BY <2>3, <3>2, HeadTailProperties
    <3> QED
      BY <3>3 DEF BestPrice, P
  <2> QED
    BY <2>1, <2>3, <2>4, <2>5
<1>2. ASSUME NEW s \in Side, NEW px \in D(s)
      PROVE  /\ LevelQty(b.levels[s][px]) > 0 /\ LevelQty(b.levels[s][px]) \in Int
             /\ Len(b.levels[s][px]) # 0
  <2>1. b.levels[s][px] \in Seq(Order) /\ b.levels[s][px] # << >>
    BY DEF BookSound, BookType
  <2>2. \A i \in 1 .. Len(b.levels[s][px]) : b.levels[s][px][i].remaining_qty > 0
    <3> SUFFICES ASSUME NEW i \in 1 .. Len(b.levels[s][px])
                 PROVE  b.levels[s][px][i].remaining_qty > 0
      OBVIOUS
    <3>1. PlacedSoundly(b, s, px, i)
      BY DEF BookSound
    <3>2. b.levels[s][px][i] \in Order
      BY <2>1, ElementOfSeq
    <3> QED
      BY <3>1, <3>2, EpsAssumption DEF PlacedSoundly, ShouldRest, Order
  <2> QED
    BY <2>1, <2>2, QueueHolds, EmptySeq
<1>3. deepest \in Nat
  <2>1. {Cardinality(D(s)) : s \in Side} = {n("Buy"), n("Sell")}
    BY DEF Side
  <2>2. n("Buy") \in Nat /\ n("Sell") \in Nat
    BY <1>1 DEF Side
  <2> HIDE DEF n
  <2>3. Max({n("Buy"), n("Sell")}) \in Nat
    BY <2>2, MaxOfTwo
  <2> QED
    BY <2>1, <2>3
<1> HIDE DEF deepest
<1>4. ASSUME NEW s \in Side
      PROVE  /\ \A i \in DOMAIN snapshot[s] : /\ snapshot[s][i].qty > 0 /\ ~(snapshot[s][i].qty <= 0)
                                         /\ snapshot[s][i].order_count # 0
             /\ \A i \in 1 .. Len(snapshot[s]) - 1 :
                  Better(s, snapshot[s][i].price, snapshot[s][i + 1].price)
             /\ \A i \in 1 .. Len(snapshot[s]) - 1 :
                  snapshot[s][i].price \in Int /\ snapshot[s][i + 1].price \in Int
  <2> DEFINE m == Min({deepest, n(s)})
  <2> HIDE DEF P, D, n
  <2>1. /\ n(s) \in Nat /\ Len(P(s)) = n(s)
        /\ \A i \in 1 .. n(s) : P(s)[i] \in D(s) /\ P(s)[i] \in Int
        /\ \A i, j \in 1 .. n(s) : i < j => Better(s, P(s)[i], P(s)[j])
    BY <1>1
  <2>2. m \in Nat /\ m <= n(s)
    BY <1>3, <2>1, MinOfTwo
  <2>3. snapshot[s] = [i \in 1 .. m |-> [price       |-> P(s)[i],
                                         qty         |-> LevelQty(b.levels[s][P(s)[i]]),
                                         order_count |-> Len(b.levels[s][P(s)[i]])]]
    BY <2>1 DEF Snapshot, P
  <2> HIDE DEF m
  <2>4. Len(snapshot[s]) = m
    BY <2>2, <2>3
  <2>5. \A i \in DOMAIN snapshot[s] : /\ i \in 1 .. m /\ i \in 1 .. n(s)
                                    /\ snapshot[s][i].price = P(s)[i]
                                    /\ snapshot[s][i].qty = LevelQty(b.levels[s][P(s)[i]])
                                    /\ snapshot[s][i].order_count = Len(b.levels[s][P(s)[i]])
    BY <2>1, <2>2, <2>3
  <2>6. DOMAIN snapshot[s] = 1 .. m
    BY <2>3
  <2> HIDE DEF snapshot
  <2>7. \A i \in DOMAIN snapshot[s] : /\ snapshot[s][i].qty > 0 /\ ~(snapshot[s][i].qty <= 0)
                                    /\ snapshot[s][i].order_count # 0
    BY <1>2, <2>1, <2>5
  <2>8. \A i \in 1 .. Len(snapshot[s]) - 1 :
          i \in DOMAIN snapshot[s] /\ i + 1 \in DOMAIN snapshot[s] /\ i < i + 1
    BY <2>2, <2>4, <2>6
  <2> QED
    BY <2>1, <2>5, <2>7, <2>8
<1> HIDE DEF snapshot, D
<1>5. "Buy" \in Side /\ "Sell" \in Side
  BY DEF Side
<1>6. ~(/\ HasLevel(b, "Buy") /\ HasLevel(b, "Sell") /\ BestPrice(b, "Buy") >= BestPrice(b, "Sell"))
  <2> SUFFICES ASSUME HasLevel(b, "Buy"), HasLevel(b, "Sell")
               PROVE  ~(BestPrice(b, "Buy") >= BestPrice(b, "Sell"))
    OBVIOUS
  <2>1. BestPrice(b, "Buy") \in D("Buy") /\ BestPrice(b, "Sell") \in D("Sell")
    BY <1>1, <1>5 DEF HasLevel, D
  <2>2. BestPrice(b, "Buy") < BestPrice(b, "Sell")
    BY <2>1 DEF BookSound, D
  <2>3. BestPrice(b, "Buy") \in Int /\ BestPrice(b, "Sell") \in Int
    BY <1>5, <2>1, PriceAssumption DEF BookSound, BookType, D
  <2> QED
    BY <2>2, <2>3
<1> DEFINE levels == ToSet(snapshot["Buy"]) \cup ToSet(snapshot["Sell"])
           adjacent(s) == {<<snapshot[s][i].price, snapshot[s][i + 1].price>> :
                             i \in 1 .. Len(snapshot[s]) - 1}
<1>7. \A l \in levels : l.qty > 0 /\ l.order_count # 0 /\ ~(l.qty <= 0)
  <2>1. \A s \in Side : \A l \in ToSet(snapshot[s]) : l.qty > 0 /\ l.order_count # 0 /\ ~(l.qty <= 0)
    BY <1>4 DEF ToSet
  <2> QED
    BY <1>5, <2>1
<1>8. \A pq \in adjacent("Buy") : ~(pq[2] >= pq[1])
  <2>1. \A i \in 1 .. Len(snapshot["Buy"]) - 1 :
          snapshot["Buy"][i].price > snapshot["Buy"][i + 1].price
    BY <1>4, <1>5 DEF Better
  <2> QED
    BY <1>4, <1>5, <2>1
<1>9. \A pq \in adjacent("Sell") : ~(pq[2] <= pq[1])
  <2>1. \A i \in 1 .. Len(snapshot["Sell"]) - 1 :
          snapshot["Sell"][i].price < snapshot["Sell"][i + 1].price
    BY <1>4, <1>5 DEF Better
  <2> QED
    BY <1>4, <1>5, <2>1
<1>10. ValidationErrors(b) =
         {e \in {"crossed", "quantity", "empty level", "bids", "asks"} :
            CASE e = "crossed"     -> /\ HasLevel(b, "Buy") /\ HasLevel(b, "Sell")
                                      /\ BestPrice(b, "Buy") >= BestPrice(b, "Sell")
              [] e = "quantity"    -> \E l \in levels : l.qty <= 0
              [] e = "empty level" -> \E l \in levels : l.order_count = 0
              [] e = "bids"        -> \E pq \in adjacent("Buy") : pq[2] >= pq[1]
              [] e = "asks"        -> \E pq \in adjacent("Sell") : pq[2] <= pq[1]}
  BY DEF ValidationErrors, snapshot, deepest, D
<1> HIDE DEF levels, adjacent
<1> QED
  BY Zenon, <1>6, <1>7, <1>8, <1>9, <1>10

\* The types of the engine's state, as TypeOK states them.
THEOREM EngineTypes == Spec => []TypeOK
<1>1. EngineInv => TypeOK
  <2> SUFFICES ASSUME EngineInv PROVE TypeOK
    OBVIOUS
  <2>1. EngineSound(Current) /\ now \in StartTime .. MaxTime
    BY DEF EngineInv
  <2>2. /\ BookSound(book) /\ next_order_id \in Nat /\ JournalSound(journal, next_order_id)
        /\ TradesSound(trade_log, book.next_trade_id)
    BY <2>1 DEF EngineSound, Current
  <2>3. /\ \A s \in Side : /\ DOMAIN book.levels[s] \subseteq Price
                          /\ \A px \in DOMAIN book.levels[s] : book.levels[s][px] \in Seq(Order)
        /\ book.next_trade_id \in Nat
    BY <2>2 DEF BookSound, BookType
  <2>4. \A id \in DOMAIN book.index : book.index[id] \in Side \X Price
    BY <2>2 DEF BookSound
  <2>5. /\ journal \in Seq(EngineEvent) /\ trade_log \in Seq(Trade)
        /\ \A i \in DOMAIN journal : EventTime(journal[i]) \in StartTime - SeedSpan .. MaxTime
    BY <2>2 DEF JournalSound, TradesSound, Times
  <2> QED
    BY <2>1, <2>2, <2>3, <2>4, <2>5 DEF TypeOK
<1> QED
  BY <1>1, EngineInvariant, PTL

\* Whatever was submitted, cancelled, seeded and reset: the index and the levels
\* describe the same orders, validate finds nothing to report, and the trades are
\* numbered in order.
THEOREM LiveBookIsSound == Spec => []LiveBookSound
<1>1. EngineInv => LiveBookSound
  <2> SUFFICES ASSUME EngineInv PROVE LiveBookSound
    OBVIOUS
  <2>1. EngineSound(Current)
    BY DEF EngineInv
  <2>2. BookSound(book) /\ TradesSound(trade_log, book.next_trade_id)
    BY <2>1 DEF EngineSound, Current
  <2>3. IndexMatchesLevels
    BY <2>2, BookIndexed DEF IndexMatchesLevels
  <2>4. LiveBookValid
    BY <2>2, SoundBookValid DEF LiveBookValid
  <2>5. TradesNumberedInOrder
    BY <2>2 DEF TradesSound, TradesNumberedInOrder
  <2> QED
    BY <2>3, <2>4, <2>5 DEF LiveBookSound
<1> QED
  BY <1>1, EngineInvariant, PTL

-----------------------------------------------------------------------------
(* Replay: the events of a sound journal, in whatever order.               *)

ReplayTurn(et, r, i) == ReplayEvent(r, et[1][i], et[2])
ReplayStep == INSTANCE SequenceLemmas WITH Step <- LAMBDA et, r, i : ReplayTurn(et, r, i)

\* What an event makes of a book, and the trades it makes.
After(b, e) == IF e.kind = "Submit" THEN Submit(b, e.order).book
                                    ELSE CancelOrder(b, e.order_id).book
Made(b, e)  == IF e.kind = "Submit" THEN Submit(b, e.order).result.trades ELSE << >>

NewReplay == [book |-> EmptyBook, trades |-> << >>, replayed |-> 0, skipped |-> 0]

\* The loop of replay_to.
ReplayTurns(g, events, target, n) ==
  /\ g[0] = NewReplay
  /\ \A k \in 1 .. n : g[k] = ReplayEvent(g[k - 1], events[ReplayOrder(events)[k]], target)
  /\ Replayed(events, target) = g[n]

\* A replay takes the events one by one, in its own order.
LEMMA ReplaySeries ==
  ASSUME NEW events, NEW target, NEW n \in Nat, DOMAIN ReplayOrder(events) = 1 .. n
  PROVE  \E g : ReplayTurns(g, events, target, n)
<1> DEFINE base == NewReplay
           P    == ReplayOrder(events)
           et   == <<events, target>>
<1>1. Replayed(events, target) = ReplayStep!Fold(et, base, P)
  BY DEF Replayed, NewReplay, ReplayTurn, FoldLeft, MapThenFoldSet, Max,
         ReplayStep!Fold, ReplayStep!FoldLeft, ReplayStep!MapThenFoldSet, ReplayStep!Max
<1>2. \E g : ReplayStep!Turns(g, et, base, P, n)
  <2>1. DOMAIN P = 1 .. n
    OBVIOUS
  <2> HIDE DEF base, P, et
  <2> QED
    BY <1>1, <2>1, ReplayStep!FoldTurns
<1>3. PICK g : /\ g[0] = base
               /\ \A k \in 1 .. n : g[k] = ReplayTurn(et, g[k - 1], P[k])
               /\ ReplayStep!Fold(et, base, P) = g[n]
  BY <1>2 DEF ReplayStep!Turns
<1>4. \A k \in 1 .. n : g[k] = ReplayEvent(g[k - 1], events[P[k]], target)
  BY <1>3 DEF ReplayTurn
<1>5. ReplayTurns(g, events, target, n)
  BY <1>1, <1>3, <1>4 DEF ReplayTurns
<1> QED
  BY <1>5

\* The order of events i and j of a journal: by time, then by position.
Earlier(events) ==
  {ij \in (DOMAIN events) \X (DOMAIN events) :
     \/ EventTime(events[ij[1]]) < EventTime(events[ij[2]])
     \/ EventTime(events[ij[1]]) = EventTime(events[ij[2]]) /\ ij[1] < ij[2]}

EventsTimed(events, n) ==
  n \in Nat /\ DOMAIN events = 1 .. n /\ \A i \in 1 .. n : EventTime(events[i]) \in Int

\* A sound journal's events have times.
LEMMA JournalTimed ==
  ASSUME NEW events, NEW N, JournalSound(events, N)
  PROVE  EventsTimed(events, Len(events)) /\ events \in Seq(EngineEvent)
<1>1. events \in Seq(EngineEvent) /\ \A i \in DOMAIN events : EventTime(events[i]) \in Times
  BY DEF JournalSound
<1>2. \A t \in Times : t \in Int
  BY TimeAssumption, SeedAssumption DEF Times
<1> QED
  BY <1>1, <1>2, LenProperties DEF EventsTimed

\* Replay visits every event once.
LEMMA ReplayOrderLists ==
  ASSUME NEW events, NEW n, EventsTimed(events, n)
  PROVE  /\ ListedAs(ReplayOrder(events), 1 .. n, Earlier(events), n)
         /\ ReplayOrder(events) = ByRank(RankSet(1 .. n, Earlier(events)), n)
<1> DEFINE D == DOMAIN events
           R == Earlier(events)
           P == ReplayOrder(events)
           ahead(j) == {i \in D : \/ EventTime(events[i]) < EventTime(events[j])
                                  \/ EventTime(events[i]) = EventTime(events[j]) /\ i < j}
           raw      == {<<x, Cardinality(ahead(x)) + 1>> : x \in D}
<1>1. n \in Nat /\ D = 1 .. n /\ \A i \in D : EventTime(events[i]) \in Int
  BY DEF EventsTimed
<1>2. \A i, j \in D : <<i, j>> \in R <=>
        \/ EventTime(events[i]) < EventTime(events[j])
        \/ EventTime(events[i]) = EventTime(events[j]) /\ i < j
  BY DEF Earlier
<1>3. P = ByRank(raw, Cardinality(D))
  BY DEF ReplayOrder, InOrder, ByRank
<1>4. IsFiniteSet(D) /\ Cardinality(D) = n
  BY <1>1, FS_Interval
<1>5. raw = RankSet(D, R)
  <2>1. \A x \in D : ahead(x) = {y \in D : <<y, x>> \in R}
    BY <1>2
  <2> HIDE DEF ahead, R, D
  <2> QED
    BY <2>1 DEF RankSet
<1> HIDE DEF R, D, P, raw
<1>6. StrictOrder(D, R)
  BY <1>1, <1>2 DEF StrictOrder
<1>7. P = ByRank(RankSet(D, R), n)
  BY <1>3, <1>4, <1>5
<1>8. ListedAs(P, D, R, n)
  BY <1>4, <1>6, <1>7, RankedIsListed
<1> QED
  BY <1>1, <1>7, <1>8 DEF R, P

\* The orders on a book were submitted by the events in J.
Known(b, events, J) ==
  \A id \in DOMAIN b.index : \E j \in J : j \in SubmittedIn(events) /\ events[j].order.id = id

EventTaken(b, e, events, J) ==
  /\ BookSound(After(b, e)) /\ Known(After(b, e), events, J)
  /\ Made(b, e) \in Seq(Trade)
  /\ After(b, e).next_trade_id = b.next_trade_id + Len(Made(b, e))
  /\ \A k \in 1 .. Len(Made(b, e)) : Made(b, e)[k].timestamp_ms = EventTime(e)

\* One more event of a sound journal, run into a sound book.
LEMMA EventSound ==
  ASSUME NEW events, NEW N, JournalSound(events, N), NEW b, BookSound(b),
         NEW J \in SUBSET DOMAIN events, Known(b, events, J),
         NEW i \in DOMAIN events, i \notin J, NEW e, e = events[i]
  PROVE  EventTaken(b, e, events, J \cup {i})
<1>1. /\ events \in Seq(EngineEvent) /\ e \in EngineEvent
      /\ \A k, j \in SubmittedIn(events) : events[k].order.id = events[j].order.id => k = j
  BY ElementOfSeq, LenProperties DEF JournalSound
<1>2. b.next_trade_id \in Nat
  BY DEF BookSound, BookType
<1>3. CASE e.kind = "Submit"
  <2> DEFINE s == Submit(b, e.order)
  <2>1. e.order \in Order /\ EventTime(e) = e.order.timestamp_ms
    BY <1>1, <1>3 DEF EngineEvent, EventTime
  <2>2. i \in SubmittedIn(events)
    BY <1>3 DEF SubmittedIn
  <2>3. e.order.id \notin DOMAIN b.index
    BY <1>1, <2>2 DEF Known
  <2>4. After(b, e) = s.book /\ Made(b, e) = s.result.trades
    BY <1>3 DEF After, Made
  <2>5. /\ BookSound(s.book) /\ s.result.trades \in Seq(Trade)
        /\ TradesGrown(s.result.trades, << >>, e.order, b.next_trade_id)
        /\ s.book.next_trade_id = b.next_trade_id + Len(s.result.trades)
        /\ DOMAIN s.book.index \subseteq DOMAIN b.index \cup {e.order.id}
    <3> HIDE DEF s
    <3> QED
      BY <2>1, <2>3, SubmitSound DEF s
  <2> HIDE DEF s
  <2>6. Known(s.book, events, J \cup {i})
    BY <2>2, <2>5 DEF Known
  <2>7. \A k \in 1 .. Len(s.result.trades) :
          s.result.trades[k].timestamp_ms = e.order.timestamp_ms
    <3>1. Len(<< >>) = 0
      OBVIOUS
    <3> QED
      BY <2>5, <3>1 DEF TradesGrown
  <2> QED
    BY <2>1, <2>4, <2>5, <2>6, <2>7 DEF EventTaken
<1>4. CASE e.kind # "Submit"
  <2> DEFINE r == CancelOrder(b, e.order_id).book
  <2>1. After(b, e) = r /\ Made(b, e) = << >>
    BY <1>4 DEF After, Made
  <2>2. /\ BookSound(r) /\ r.next_trade_id = b.next_trade_id
        /\ DOMAIN r.index = DOMAIN b.index \ {e.order_id}
    BY CancelSound
  <2> HIDE DEF r
  <2>3. Known(r, events, J \cup {i})
    BY <2>2 DEF Known
  <2> QED
    BY <1>2, <2>1, <2>2, <2>3 DEF EventTaken
<1> QED
  BY <1>3, <1>4

\* An event of the journal leads a replay from one sound value to the next.
ReplayValue(r) ==
  /\ r = [book |-> r.book, trades |-> r.trades, replayed |-> r.replayed, skipped |-> r.skipped]
  /\ BookSound(r.book) /\ r.trades \in Seq(Trade)

Turned(x, r, e, target) ==
  /\ x = [book |-> x.book, trades |-> x.trades, replayed |-> x.replayed, skipped |-> x.skipped]
  /\ EventTime(e) > target => x.book = r.book /\ x.trades = r.trades
  /\ ~(EventTime(e) > target) => /\ x.book = After(r.book, e)
                                 /\ x.trades = r.trades \o Made(r.book, e)

\* An event of a replay is left out or taken.
LEMMA ReplayEventIs ==
  ASSUME NEW r, ReplayValue(r), NEW e, NEW target, NEW x, x = ReplayEvent(r, e, target)
  PROVE  Turned(x, r, e, target)
<1>1. r = [book |-> r.book, trades |-> r.trades, replayed |-> r.replayed, skipped |-> r.skipped]
  BY DEF ReplayValue
<1>2. CASE EventTime(e) > target
  BY <1>1, <1>2 DEF ReplayEvent, Turned
<1>3. CASE ~(EventTime(e) > target) /\ e.kind = "Submit"
  <2>1. x = [[[r EXCEPT !.book = Submit(r.book, e.order).book]
                EXCEPT !.trades = r.trades \o Submit(r.book, e.order).result.trades]
               EXCEPT !.replayed = r.replayed + 1]
    BY <1>1, <1>3 DEF ReplayEvent
  <2> QED
    BY <1>1, <1>3, <2>1 DEF After, Made, Turned
<1>4. CASE ~(EventTime(e) > target) /\ e.kind # "Submit"
  <2>1. r.trades \o << >> = r.trades
    BY ConcatEmptySeq DEF ReplayValue
  <2>2. x = [[r EXCEPT !.book = CancelOrder(r.book, e.order_id).book]
               EXCEPT !.replayed = r.replayed + 1]
    BY <1>1, <1>4 DEF ReplayEvent
  <2> QED
    BY <1>1, <1>4, <2>1, <2>2 DEF After, Made, Turned
<1> QED
  BY <1>2, <1>3, <1>4

\* Whatever the order, a replay of a sound journal passes through sound values.
LEMMA ReplayTurnsSound ==
  ASSUME NEW events, NEW N, JournalSound(events, N), NEW target \in Int,
         NEW n \in Nat, n = Len(events),
         NEW g, ReplayTurns(g, events, target, n)
  PROVE  \A k \in 0 .. n : /\ ReplayValue(g[k])
                           /\ Known(g[k].book, events, {ReplayOrder(events)[j] : j \in 1 .. k})
<1> DEFINE P      == ReplayOrder(events)
           J(k)   == {P[j] : j \in 1 .. k}
           S(k)   == ReplayValue(g[k]) /\ Known(g[k].book, events, J(k))
           G      == {k \in 0 .. n : S(k)}
<1>1. EventsTimed(events, n)
  BY JournalTimed
<1>2. ListedAs(P, 1 .. n, Earlier(events), n)
  BY <1>1, ReplayOrderLists
<1>3. /\ DOMAIN events = 1 .. n
      /\ \A k \in 1 .. n : P[k] \in DOMAIN events
      /\ \A j, k \in 1 .. n : j < k => P[j] # P[k]
  <2>1. \A j, k \in 1 .. n : j < k => <<P[j], P[k]>> \in Earlier(events)
    BY <1>2 DEF ListedAs
  <2>2. \A i \in 1 .. n : <<i, i>> \notin Earlier(events)
    BY <1>1 DEF Earlier, EventsTimed
  <2> QED
    BY <1>1, <1>2, <2>1, <2>2 DEF ListedAs, EventsTimed
<1> HIDE DEF P
<1>4. S(0)
  <2>1. g[0] = NewReplay
    BY DEF ReplayTurns
  <2>2. BookSound(EmptyBook) /\ DOMAIN EmptyBook.index = {}
    BY EmptySound
  <2>3. << >> \in Seq(Trade)
    OBVIOUS
  <2> QED
    BY <2>1, <2>2, <2>3 DEF ReplayValue, NewReplay, Known
<1>5. ASSUME NEW k \in 1 .. n, S(k - 1)
      PROVE  S(k)
  <2> DEFINE r == g[k - 1]
             e == events[P[k]]
  <2>1. g[k] = ReplayEvent(r, e, target)
    BY DEF ReplayTurns, P
  <2>2. ReplayValue(r) /\ Known(r.book, events, J(k - 1)) /\ BookSound(r.book)
    BY <1>5 DEF ReplayValue
  <2>3. /\ J(k - 1) \in SUBSET DOMAIN events /\ P[k] \in DOMAIN events /\ P[k] \notin J(k - 1)
        /\ J(k) = J(k - 1) \cup {P[k]}
    <3>1. J(k - 1) \in SUBSET DOMAIN events /\ P[k] \in DOMAIN events
      BY <1>3
    <3>2. P[k] \notin J(k - 1)
      <4>1. \A j \in 1 .. k - 1 : j \in 1 .. n /\ j < k
        OBVIOUS
      <4> QED
        BY <1>3, <4>1
    <3>3. 1 .. k = (1 .. k - 1) \cup {k}
      OBVIOUS
    <3> QED
      BY <3>1, <3>2, <3>3
  <2> HIDE DEF J, r, e
  <2>4. /\ BookSound(After(r.book, e)) /\ Known(After(r.book, e), events, J(k - 1) \cup {P[k]})
        /\ Made(r.book, e) \in Seq(Trade)
    <3>1. EventTaken(r.book, e, events, J(k - 1) \cup {P[k]})
      BY <2>2, <2>3, EventSound DEF e
    <3> QED
      BY <3>1 DEF EventTaken
  <2>t. Turned(g[k], r, e, target)
    BY <2>1, <2>2, ReplayEventIs
  <2>5. CASE EventTime(e) > target
    <3>1. /\ g[k].book = r.book /\ g[k].trades = r.trades
          /\ g[k] = [book |-> g[k].book, trades |-> g[k].trades, replayed |-> g[k].replayed,
                     skipped |-> g[k].skipped]
      BY <2>5, <2>t DEF Turned
    <3>2. Known(r.book, events, J(k))
      BY <2>2, <2>3 DEF Known
    <3> QED
      BY <2>2, <3>1, <3>2 DEF ReplayValue
  <2>6. CASE ~(EventTime(e) > target)
    <3>1. /\ g[k].book = After(r.book, e) /\ g[k].trades = r.trades \o Made(r.book, e)
          /\ g[k] = [book |-> g[k].book, trades |-> g[k].trades, replayed |-> g[k].replayed,
                     skipped |-> g[k].skipped]
      BY <2>6, <2>t DEF Turned
    <3>2. g[k].trades \in Seq(Trade)
      BY <2>2, <2>4, <3>1, ConcatProperties DEF ReplayValue
    <3> QED
      BY <2>3, <2>4, <3>1, <3>2 DEF ReplayValue
  <2> QED
    BY <2>5, <2>6
<1> HIDE DEF S
<1>6. \A k \in 0 .. n : k \in G
  <2>1. 0 \in G
    BY <1>4
  <2>2. ASSUME NEW k \in 1 .. n, k - 1 \in G PROVE k \in G
    BY <1>5, <2>2
  <2> HIDE DEF G
  <2> QED
    BY <2>1, <2>2, Upwards
<1> QED
  BY <1>6 DEF S, P

\* A replay ends in a sound book.
LEMMA ReplayEndsSound ==
  ASSUME NEW events, NEW N, JournalSound(events, N), NEW target \in Int
  PROVE  ReplayValue(Replayed(events, target))
<1> DEFINE n == Len(events)
<1>1. EventsTimed(events, n) /\ n \in Nat
  BY JournalTimed DEF EventsTimed
<1>2. DOMAIN ReplayOrder(events) = 1 .. n
  BY <1>1, ReplayOrderLists DEF ListedAs
<1>3. PICK g : ReplayTurns(g, events, target, n)
  BY <1>1, <1>2, ReplaySeries
<1> HIDE DEF n
<1>4. \A k \in 0 .. n : ReplayValue(g[k])
  BY <1>1, <1>3, ReplayTurnsSound DEF n
<1> QED
  BY <1>1, <1>3, <1>4 DEF ReplayTurns

\* A replay to any time, of any reachable journal, however its timestamps are
\* ordered, ends in a book that validates.
THEOREM EveryReplayValidates == Spec => []ReplayValidates
<1>1. EngineInv => ReplayValidates
  <2> SUFFICES ASSUME EngineInv, NEW target \in Times
               PROVE  ReplayTo(journal, target).validation.errors = {}
    BY DEF ReplayValidates
  <2>1. JournalSound(journal, next_order_id)
    BY DEF EngineInv, EngineSound, Current
  <2>2. target \in Int
    BY TimeAssumption, SeedAssumption DEF Times
  <2>3. BookSound(Replayed(journal, target).book)
    BY <2>1, <2>2, ReplayEndsSound DEF ReplayValue
  <2>4. ValidationErrors(Replayed(journal, target).book) = {}
    BY <2>3, SoundBookValid
  <2> QED
    BY <2>4 DEF ReplayTo, Validate
<1> QED
  BY <1>1, EngineInvariant, PTL

-----------------------------------------------------------------------------
(* Replay of a journal in time order: the past as it was.                  *)

InTimeOrder(events, n) ==
  \A i, j \in 1 .. n : i < j => EventTime(events[i]) <= EventTime(events[j])

\* A journal in time order is replayed from its first event to its last.
LEMMA ReplayInPlace ==
  ASSUME NEW events, NEW n, EventsTimed(events, n), InTimeOrder(events, n)
  PROVE  \A k \in 1 .. n : ReplayOrder(events)[k] = k
<1> DEFINE R      == Earlier(events)
           ranked == RankSet(1 .. n, R)
<1>1. n \in Nat /\ DOMAIN events = 1 .. n /\ \A i \in 1 .. n : EventTime(events[i]) \in Int
  BY DEF EventsTimed
<1>2. ASSUME NEW i \in 1 .. n, NEW j \in 1 .. n
      PROVE  <<i, j>> \in R <=> i < j
  <2>1. /\ i < j => EventTime(events[i]) <= EventTime(events[j])
        /\ j < i => EventTime(events[j]) <= EventTime(events[i])
    BY DEF InTimeOrder
  <2>2. EventTime(events[i]) \in Int /\ EventTime(events[j]) \in Int /\ i \in Int /\ j \in Int
    BY <1>1
  <2> DEFINE earlier == \/ EventTime(events[i]) < EventTime(events[j])
                        \/ EventTime(events[i]) = EventTime(events[j]) /\ i < j
  <2>3. <<i, j>> \in R <=> earlier
    BY <1>1 DEF Earlier
  <2> QED
    BY <2>1, <2>2, <2>3
<1>3. ReplayOrder(events) = ByRank(ranked, n)
  BY ReplayOrderLists
<1> HIDE DEF R
<1>4. \A x \in 1 .. n : {y \in 1 .. n : <<y, x>> \in R} = 1 .. x - 1
  BY <1>1, <1>2
<1>5. \A x \in 1 .. n : Cardinality({y \in 1 .. n : <<y, x>> \in R}) + 1 = x
  <2> TAKE x \in 1 .. n
  <2> DEFINE before == {y \in 1 .. n : <<y, x>> \in R}
  <2>1. Cardinality(1 .. x - 1) = IF 1 > x - 1 THEN 0 ELSE x - 1 - 1 + 1
    BY <1>1, FS_Interval
  <2>2. before = 1 .. x - 1
    BY <1>4
  <2> HIDE DEF before
  <2>3. Cardinality(before) = Cardinality(1 .. x - 1)
    BY <2>2
  <2>4. Cardinality(before) + 1 = x
    BY <1>1, <2>1, <2>3
  <2> QED
    BY <2>4 DEF before
<1>6. ranked = {<<x, x>> : x \in 1 .. n}
  BY <1>5 DEF RankSet
<1> HIDE DEF ranked
<1>7. ASSUME NEW k \in 1 .. n PROVE ReplayOrder(events)[k] = k
  <2> DEFINE xr == CHOOSE z \in ranked : z[2] = k
  <2>1. ReplayOrder(events)[k] = xr[1]
    BY <1>3 DEF ByRank
  <2>2. <<k, k>> \in ranked /\ <<k, k>>[2] = k
    BY <1>6
  <2>3. xr \in ranked /\ xr[2] = k
    BY <2>2
  <2> HIDE DEF xr
  <2> QED
    BY <1>6, <2>1, <2>3
<1> QED
  BY <1>7

\* The journal run from the start, event by event.
RunTurns(f, events, n) ==
  /\ f[0] = NewRun
  /\ \A k \in 1 .. n : f[k] = RunEvent(f[k - 1], events[k])
  /\ RunFromStart(events) = f[n]

\* A journal runs from the start event by event.
LEMMA RunSeries ==
  ASSUME NEW events, NEW n \in Nat, DOMAIN events = 1 .. n
  PROVE  \E f : RunTurns(f, events, n)
<1> DEFINE base == NewRun
<1>1. RunFromStart(events) = RunStep!Fold(0, base, events)
  BY DEF RunFromStart, NewRun, FoldLeft, MapThenFoldSet, Max,
         RunStep!Fold, RunStep!FoldLeft, RunStep!MapThenFoldSet, RunStep!Max
<1>2. \E f : RunStep!Turns(f, 0, base, events, n)
  <2> HIDE DEF base
  <2> QED
    BY <1>1, RunStep!FoldTurns
<1>3. PICK f : /\ f[0] = base
               /\ \A k \in 1 .. n : f[k] = RunEvent(f[k - 1], events[k])
               /\ RunStep!Fold(0, base, events) = f[n]
  BY <1>2 DEF RunStep!Turns
<1>4. RunTurns(f, events, n)
  BY <1>1, <1>3 DEF RunTurns
<1> QED
  BY <1>4

\* A run's value after k events, with the books it passed through.
RunValue(r, f, k, n) ==
  /\ r = [book |-> r.book, trades |-> r.trades, live |-> r.live]
  /\ BookSound(r.book) /\ r.trades \in Seq(Trade)
  /\ r.live \in Seq({f[i].book : i \in 0 .. n}) /\ Len(r.live) = k
  /\ \A i \in 1 .. k : r.live[i] = f[i].book

RunNext(x, r, e) ==
  /\ x = [book |-> x.book, trades |-> x.trades, live |-> x.live]
  /\ x.book = After(r.book, e) /\ x.trades = r.trades \o Made(r.book, e)
  /\ x.live = Append(r.live, x.book)

\* What an event of a run does to book, trades and history.
LEMMA RunEventIs ==
  ASSUME NEW r, r.trades \in Seq(Trade), NEW e, NEW x, x = RunEvent(r, e)
  PROVE  RunNext(x, r, e)
<1>1. CASE e.kind = "Submit"
  BY <1>1 DEF RunEvent, RunNext, After, Made
<1>2. CASE e.kind # "Submit"
  <2>1. r.trades \o << >> = r.trades
    BY ConcatEmptySeq
  <2> QED
    BY <1>2, <2>1 DEF RunEvent, RunNext, After, Made
<1> QED
  BY <1>1, <1>2

\* Up to event k the run's book is sound and knows the events' identifiers only, and
\* event k makes trades of its own time.
RunSound(f, k, events, n) ==
  RunValue(f[k], f, k, n) /\ Known(f[k].book, events, 1 .. k)

RunStepped(f, k, events) ==
  LET made == Made(f[k - 1].book, events[k])
  IN /\ RunNext(f[k], f[k - 1], events[k])
     /\ made \in Seq(Trade)
     /\ \A i \in 1 .. Len(made) : made[i].timestamp_ms = EventTime(events[k])

RunAll(f, events, n) ==
  /\ \A k \in 0 .. n : RunSound(f, k, events, n)
  /\ \A k \in 1 .. n : RunStepped(f, k, events)

\* The run of a sound journal passes through sound books.
LEMMA RunTurnsSound ==
  ASSUME NEW events, NEW N, JournalSound(events, N), NEW n \in Nat, n = Len(events),
         NEW f, RunTurns(f, events, n)
  PROVE  RunAll(f, events, n)
<1> DEFINE Books == {f[i].book : i \in 0 .. n}
           S(k)     == RunSound(f, k, events, n)
           Next_(k) == RunStepped(f, k, events)
           G     == {k \in 0 .. n : S(k)}
<1>1. DOMAIN events = 1 .. n
  BY LenProperties DEF JournalSound
<1>2. S(0)
  <2>1. f[0] = NewRun
    BY DEF RunTurns
  <2>2. BookSound(EmptyBook) /\ DOMAIN EmptyBook.index = {}
    BY EmptySound
  <2>3. << >> \in Seq(Trade) /\ << >> \in Seq(Books) /\ Len(<< >>) = 0
    OBVIOUS
  <2> QED
    BY <2>1, <2>2, <2>3 DEF RunSound, RunValue, NewRun, Known
<1>3. ASSUME NEW k \in 1 .. n, S(k - 1)
      PROVE  S(k) /\ Next_(k)
  <2> DEFINE r == f[k - 1]
             e == events[k]
             J == 1 .. k - 1
  <2>1. f[k] = RunEvent(r, e)
    BY DEF RunTurns
  <2>2. /\ RunValue(r, f, k - 1, n) /\ Known(r.book, events, J)
        /\ BookSound(r.book) /\ r.trades \in Seq(Trade)
    BY <1>3 DEF RunSound, RunValue
  <2>3. J \in SUBSET DOMAIN events /\ k \in DOMAIN events /\ k \notin J /\ J \cup {k} = 1 .. k
    BY <1>1
  <2>b. f[k].book \in Books
    OBVIOUS
  <2>e. e = events[k]
    OBVIOUS
  <2> HIDE DEF J, r, e, Books
  <2>4. /\ BookSound(After(r.book, e)) /\ Known(After(r.book, e), events, J \cup {k})
        /\ Made(r.book, e) \in Seq(Trade)
        /\ \A i \in 1 .. Len(Made(r.book, e)) : Made(r.book, e)[i].timestamp_ms = EventTime(e)
    <3>1. EventTaken(r.book, e, events, J \cup {k})
      BY <2>2, <2>3, <2>e, EventSound
    <3> QED
      BY <3>1 DEF EventTaken
  <2>5. RunNext(f[k], r, e)
    BY <2>1, <2>2, RunEventIs
  <2>6. /\ f[k] = [book |-> f[k].book, trades |-> f[k].trades, live |-> f[k].live]
        /\ f[k].book = After(r.book, e) /\ f[k].trades = r.trades \o Made(r.book, e)
        /\ f[k].live = Append(r.live, f[k].book)
    BY <2>5 DEF RunNext
  <2>7. f[k].trades \in Seq(Trade)
    BY <2>2, <2>4, <2>6, ConcatProperties
  <2>8. /\ r.live \in Seq(Books) /\ Len(r.live) = k - 1
        /\ \A i \in 1 .. k - 1 : r.live[i] = f[i].book
    BY <2>2 DEF RunValue, Books
  <2>9. /\ f[k].live \in Seq(Books) /\ Len(f[k].live) = k
        /\ \A i \in 1 .. k : f[k].live[i] = f[i].book
    BY <2>b, <2>6, <2>8, AppendToQueue
  <2>10. RunValue(f[k], f, k, n)
    BY <2>4, <2>6, <2>7, <2>9 DEF RunValue, Books
  <2>11. Known(f[k].book, events, 1 .. k)
    BY <2>3, <2>4, <2>6
  <2> QED
    BY <2>4, <2>5, <2>10, <2>11 DEF RunSound, RunStepped, r, e
<1> HIDE DEF S, Next_
<1>4. \A k \in 0 .. n : k \in G
  <2>1. 0 \in G
    BY <1>2
  <2>2. ASSUME NEW k \in 1 .. n, k - 1 \in G PROVE k \in G
    BY <1>3, <2>2
  <2> HIDE DEF G
  <2> QED
    BY <2>1, <2>2, Upwards
<1>5. \A k \in 0 .. n : S(k)
  BY <1>4
<1>6. \A k \in 1 .. n : Next_(k)
  <2> TAKE k \in 1 .. n
  <2>1. S(k - 1)
    BY <1>5
  <2> QED
    BY <1>3, <2>1
<1> QED
  BY <1>5, <1>6 DEF S, Next_, RunAll

\* The first m events of a journal are those up to a time.
CutAt(events, n, target, m) ==
  /\ \A i \in 1 .. n : EventTime(events[i]) <= target <=> i <= m
  /\ Cardinality({i \in DOMAIN events : EventTime(events[i]) <= target}) = m

\* In a journal in time order the events up to a time come first.
LEMMA CutInTime ==
  ASSUME NEW events, NEW n, EventsTimed(events, n), InTimeOrder(events, n), NEW target \in Int
  PROVE  \E m \in 0 .. n : CutAt(events, n, target, m)
<1>1. n \in Nat /\ DOMAIN events = 1 .. n /\ \A i \in 1 .. n : EventTime(events[i]) \in Int
  BY DEF EventsTimed
<1> DEFINE S == {i \in 0 .. n : i = 0 \/ EventTime(events[i]) <= target}
           m == Max(S)
<1>2. S \in SUBSET Int /\ S # {} /\ n \in Int /\ \A y \in S : y <= n
  <2>1. 0 \in S
    BY <1>1
  <2>2. S \in SUBSET Int /\ \A y \in S : y <= n
    BY <1>1
  <2> HIDE DEF S
  <2> QED
    BY <1>1, <2>1, <2>2
<1> HIDE DEF S
<1>3. m \in S /\ \A y \in S : y <= m
  BY <1>1, <1>2, MaxOfSet
<1> HIDE DEF m
<1>4. m \in 0 .. n /\ (m = 0 \/ EventTime(events[m]) <= target)
  BY <1>3 DEF S
<1>5. ASSUME NEW i \in 1 .. n PROVE EventTime(events[i]) <= target <=> i <= m
  <2>1. EventTime(events[i]) <= target => i <= m
    BY <1>3 DEF S
  <2>2. CASE i <= m
    <3>1. m \in 1 .. n /\ EventTime(events[m]) <= target
      BY <1>1, <1>4, <2>2
    <3>2. EventTime(events[i]) <= EventTime(events[m])
      BY <1>1, <2>2, <3>1 DEF InTimeOrder
    <3>3. EventTime(events[i]) <= target
      BY <1>1, <3>1, <3>2
    <3> QED
      BY <2>2, <3>3
  <2> QED
    BY <2>1, <2>2
<1>6. {i \in DOMAIN events : EventTime(events[i]) <= target} = 1 .. m
  BY <1>1, <1>4, <1>5
<1>7. Cardinality(1 .. m) = m
  BY <1>1, <1>4, FS_Interval
<1>8. CutAt(events, n, target, m)
  BY <1>5, <1>6, <1>7 DEF CutAt
<1> QED
  BY <1>4, <1>8

\* The trades of a run that stops at event m are the first of the run's trades, and
\* the only ones as early as event m.
TradesCut(f, m, k, target) ==
  /\ k <= m => \A i \in 1 .. Len(f[k].trades) : f[k].trades[i].timestamp_ms <= target
  /\ m <= k => /\ Len(f[m].trades) <= Len(f[k].trades)
               /\ \A i \in 1 .. Len(f[m].trades) : f[k].trades[i] = f[m].trades[i]
               /\ \A i \in Len(f[m].trades) + 1 .. Len(f[k].trades) :
                    f[k].trades[i].timestamp_ms > target

\* The cut is kept by the trades of one more event.
LEMMA TradesCutNext ==
  ASSUME NEW f, NEW m \in Nat, NEW k \in Nat, k # 0, NEW target \in Int,
         TradesCut(f, m, k - 1, target), f[k - 1].trades \in Seq(Trade),
         f[m].trades \in Seq(Trade),
         NEW more \in Seq(Trade), f[k].trades = f[k - 1].trades \o more,
         NEW time \in Int, \A i \in 1 .. Len(more) : more[i].timestamp_ms = time,
         time <= target <=> k <= m
  PROVE  TradesCut(f, m, k, target)
<1> DEFINE old == f[k - 1].trades
           new == f[k].trades
<1>1. new = old \o more /\ old \in Seq(Trade)
  OBVIOUS
<1>2. new \in Seq(Trade) /\ Len(new) = Len(old) + Len(more)
  BY <1>1, ConcatProperties
<1>3. \A i \in 1 .. Len(old) + Len(more) :
        new[i] = IF i <= Len(old) THEN old[i] ELSE more[i - Len(old)]
  BY <1>1, ConcatProperties
<1>4. Len(old) \in Nat /\ Len(more) \in Nat /\ Len(f[m].trades) \in Nat
  BY LenProperties
<1>5. \A i \in 1 .. Len(old) : new[i] = old[i]
  BY <1>3, <1>4
<1>6. ASSUME NEW i \in Len(old) + 1 .. Len(old) + Len(more)
      PROVE  new[i].timestamp_ms = time
  <2>1. i - Len(old) \in 1 .. Len(more) /\ new[i] = more[i - Len(old)]
    BY <1>3, <1>4
  <2> QED
    BY <2>1
<1> HIDE DEF old, new
<1>7. CASE k <= m
  <2>1. \A i \in 1 .. Len(old) : old[i].timestamp_ms <= target
    BY <1>7 DEF TradesCut, old
  <2>2. \A i \in 1 .. Len(new) : new[i].timestamp_ms <= target
    <3> TAKE i \in 1 .. Len(new)
    <3>1. CASE i <= Len(old)
      <4>1. i \in 1 .. Len(old)
        BY <1>4, <3>1
      <4> QED
        BY <1>5, <2>1, <4>1
    <3>2. CASE ~(i <= Len(old))
      <4>1. i \in Len(old) + 1 .. Len(old) + Len(more)
        BY <1>2, <1>4, <3>2
      <4> QED
        BY <1>6, <1>7, <4>1
    <3> QED
      BY <3>1, <3>2
  <2>3. CASE k = m
    <3>1. f[m].trades = new
      BY <2>3 DEF new
    <3>2. Len(new) + 1 .. Len(new) = {}
      BY <1>2, <1>4
    <3> QED
      BY <1>2, <1>4, <2>2, <3>1, <3>2 DEF TradesCut, new
  <2>4. CASE k # m
    BY <1>7, <2>2, <2>4 DEF TradesCut, new
  <2> QED
    BY <2>3, <2>4
<1>8. CASE ~(k <= m)
  <2> DEFINE cut == f[m].trades
  <2>1. /\ Len(cut) <= Len(old) /\ \A i \in 1 .. Len(cut) : old[i] = cut[i]
        /\ \A i \in Len(cut) + 1 .. Len(old) : old[i].timestamp_ms > target
    BY <1>8 DEF TradesCut, old
  <2>2. time > target
    BY <1>8
  <2>4. Len(cut) \in Nat
    BY <1>4
  <2> HIDE DEF cut
  <2>5. Len(cut) <= Len(new) /\ \A i \in 1 .. Len(cut) : new[i] = cut[i]
    BY <1>2, <1>4, <1>5, <2>1, <2>4
  <2>6. ASSUME NEW i \in Len(cut) + 1 .. Len(new) PROVE new[i].timestamp_ms > target
    <3>1. CASE i <= Len(old)
      <4>1. i \in 1 .. Len(old) /\ i \in Len(cut) + 1 .. Len(old)
        BY <1>4, <2>4, <3>1
      <4> QED
        BY <1>5, <2>1, <4>1
    <3>2. CASE ~(i <= Len(old))
      <4>1. i \in Len(old) + 1 .. Len(old) + Len(more)
        BY <1>2, <1>4, <2>4, <3>2
      <4> QED
        BY <1>6, <2>2, <4>1
    <3> QED
      BY <3>1, <3>2
  <2> QED
    BY <1>8, <2>5, <2>6 DEF TradesCut, new, cut
<1> QED
  BY <1>7, <1>8

\* The trades that a run makes, cut at the last event that is early enough.
LEMMA RunTradesCut ==
  ASSUME NEW events, NEW N, JournalSound(events, N), NEW n \in Nat, n = Len(events),
         NEW f, RunTurns(f, events, n), NEW target \in Int, NEW m \in 0 .. n,
         CutAt(events, n, target, m)
  PROVE  \A k \in 0 .. n : TradesCut(f, m, k, target)
<1> DEFINE G == {k \in 0 .. n : TradesCut(f, m, k, target)}
<1>1. RunAll(f, events, n)
  BY RunTurnsSound
<1>2. \A k \in 0 .. n : f[k].trades \in Seq(Trade)
  BY <1>1 DEF RunAll, RunSound, RunValue
<1>3. 0 \in G
  <2>1. f[0].trades = << >> /\ Len(<< >>) = 0
    BY DEF RunTurns, NewRun
  <2> QED
    BY <2>1 DEF TradesCut
<1>4. ASSUME NEW k \in 1 .. n, k - 1 \in G PROVE k \in G
  <2> DEFINE more == Made(f[k - 1].book, events[k])
             time == EventTime(events[k])
  <2>1. TradesCut(f, m, k - 1, target)
    BY <1>4
  <2>2. /\ f[k].trades = f[k - 1].trades \o more /\ more \in Seq(Trade)
        /\ \A i \in 1 .. Len(more) : more[i].timestamp_ms = time
    BY <1>1 DEF RunAll, RunStepped, RunNext
  <2>3. f[k - 1].trades \in Seq(Trade) /\ f[m].trades \in Seq(Trade)
    BY <1>2
  <2>4. time \in Int /\ (time <= target <=> k <= m)
    BY JournalTimed DEF EventsTimed, CutAt
  <2>5. k \in Nat /\ k # 0 /\ m \in Nat
    OBVIOUS
  <2> HIDE DEF more, time
  <2>6. TradesCut(f, m, k, target)
    BY <2>1, <2>2, <2>3, <2>4, <2>5, TradesCutNext
  <2> QED
    BY <2>6
<1> HIDE DEF G
<1>5. \A k \in 0 .. n : k \in G
  BY <1>3, <1>4, Upwards
<1> QED
  BY <1>5 DEF G

\* A replay in place takes the run's steps and stops where the target cuts it.
LEMMA ReplayFollowsRun ==
  ASSUME NEW events, NEW N, JournalSound(events, N), NEW n \in Nat, n = Len(events),
         InTimeOrder(events, n),
         NEW f, RunTurns(f, events, n), NEW target \in Int, NEW m \in 0 .. n,
         CutAt(events, n, target, m),
         NEW g, ReplayTurns(g, events, target, n)
  PROVE  g[n].book = f[m].book /\ g[n].trades = f[m].trades
<1> DEFINE at(k) == IF k <= m THEN k ELSE m
           S(k)  == g[k].book = f[at(k)].book /\ g[k].trades = f[at(k)].trades
           G     == {k \in 0 .. n : S(k)}
<1>1. EventsTimed(events, n)
  BY JournalTimed
<1>2. \A k \in 1 .. n : ReplayOrder(events)[k] = k
  BY <1>1, ReplayInPlace
<1>3. /\ \A k \in 0 .. n : ReplayValue(g[k])
      /\ \A k \in 1 .. n : RunNext(f[k], f[k - 1], events[k])
  <2>1. RunAll(f, events, n)
    BY RunTurnsSound
  <2>2. \A k \in 0 .. n : ReplayValue(g[k])
    BY ReplayTurnsSound
  <2> QED
    BY <2>1, <2>2 DEF RunAll, RunStepped
<1>4. 0 \in G
  BY DEF ReplayTurns, RunTurns, NewReplay, NewRun
<1>5. ASSUME NEW k \in 1 .. n, S(k - 1) PROVE S(k)
  <2> DEFINE r == g[k - 1]
             e == events[k]
  <2>1. g[k] = ReplayEvent(r, e, target)
    BY <1>2 DEF ReplayTurns
  <2>2. Turned(g[k], r, e, target)
    <3>1. ReplayValue(r)
      BY <1>3
    <3> HIDE DEF r, e
    <3> QED
      BY <2>1, <3>1, ReplayEventIs
  <2>3. EventTime(e) \in Int /\ (EventTime(e) <= target <=> k <= m)
    BY <1>1 DEF EventsTimed, CutAt
  <2>4. CASE k <= m
    <3>1. g[k].book = After(r.book, e) /\ g[k].trades = r.trades \o Made(r.book, e)
      <4>1. ~(EventTime(e) > target)
        BY <2>3, <2>4
      <4> HIDE DEF r, e
      <4> QED
        BY <2>2, <4>1 DEF Turned
    <3>2. r.book = f[k - 1].book /\ r.trades = f[k - 1].trades
      BY <1>5, <2>4
    <3>3. /\ f[k].book = After(f[k - 1].book, e)
          /\ f[k].trades = f[k - 1].trades \o Made(f[k - 1].book, e)
      BY <1>3 DEF RunNext
    <3> QED
      BY <2>4, <3>1, <3>2, <3>3
  <2>5. CASE ~(k <= m)
    <3>1. g[k].book = r.book /\ g[k].trades = r.trades
      BY <2>2, <2>3, <2>5 DEF Turned
    <3>2. at(k) = m /\ at(k - 1) = m
      BY <2>5
    <3> QED
      BY <1>5, <3>1, <3>2
  <2> QED
    BY <2>4, <2>5
<1> HIDE DEF S
<1>6. \A k \in 0 .. n : k \in G
  <2>1. ASSUME NEW k \in 1 .. n, k - 1 \in G PROVE k \in G
    BY <1>5, <2>1
  <2> HIDE DEF G
  <2> QED
    BY <1>4, <2>1, Upwards
<1>7. S(n) /\ at(n) = m
  BY <1>6
<1> QED
  BY <1>7 DEF S

\* While the journal's timestamps do not decrease, a replay to any time of any
\* reachable engine is the live book as it stood then, order by order, and its
\* trades are those made until then.
THEOREM ReplayIsThePast == Spec => []ReplayReconstructs
<1>1. EngineInv => ReplayReconstructs
  <2> SUFFICES ASSUME EngineInv, JournalInTimeOrder, NEW target \in Times
               PROVE  /\ Replayed(journal, target).book = LiveBookAt(target)
                      /\ IsPrefix(Replayed(journal, target).trades, trade_log)
                      /\ \A i \in DOMAIN trade_log :
                           i <= Len(Replayed(journal, target).trades)
                             <=> trade_log[i].timestamp_ms <= target
    BY DEF ReplayReconstructs
  <2> DEFINE n == Len(journal)
             r == Replayed(journal, target)
  <2>1. /\ JournalSound(journal, next_order_id)
        /\ RunFromStart(journal) = [book |-> book, trades |-> trade_log, live |-> live]
    BY DEF EngineInv, EngineSound, Current
  <2>2. EventsTimed(journal, n) /\ n \in Nat /\ DOMAIN journal = 1 .. n
    BY <2>1, JournalTimed DEF EventsTimed
  <2>3. InTimeOrder(journal, n)
    BY <2>2 DEF InTimeOrder, JournalInTimeOrder
  <2>4. target \in Int
    BY TimeAssumption, SeedAssumption DEF Times
  <2> HIDE DEF n
  <2>5. PICK m \in 0 .. n : CutAt(journal, n, target, m)
    BY <2>2, <2>3, <2>4, CutInTime
  <2>6. PICK f : RunTurns(f, journal, n)
    BY <2>2, RunSeries
  <2>7. DOMAIN ReplayOrder(journal) = 1 .. n
    BY <2>2, ReplayOrderLists DEF ListedAs
  <2>8. PICK g : ReplayTurns(g, journal, target, n)
    BY <2>2, <2>7, ReplaySeries
  <2>9. g[n].book = f[m].book /\ g[n].trades = f[m].trades
    BY <2>1, <2>2, <2>3, <2>4, <2>5, <2>6, <2>8, ReplayFollowsRun DEF n
  <2>10. r = g[n]
    BY <2>8 DEF ReplayTurns
  <2>11. f[n] = [book |-> book, trades |-> trade_log, live |-> live]
    BY <2>1, <2>6 DEF RunTurns
  <2>12. RunValue(f[m], f, m, n) /\ RunValue(f[n], f, n, n)
    <3>1. RunAll(f, journal, n)
      BY <2>1, <2>2, <2>6, RunTurnsSound DEF n
    <3>2. m \in 0 .. n /\ n \in 0 .. n
      BY <2>2
    <3> QED
      BY <3>1, <3>2 DEF RunAll, RunSound
  <2>c. Cardinality({i \in DOMAIN journal : EventTime(journal[i]) <= target}) = m
    BY <2>5 DEF CutAt
  <2>13. r.book = LiveBookAt(target)
    <3>1. CASE m = 0
      <4>1. f[0].book = EmptyBook
        BY <2>6 DEF RunTurns, NewRun
      <4> QED
        BY <2>c, <2>9, <2>10, <3>1, <4>1 DEF LiveBookAt
    <3>2. CASE m # 0
      <4>1. f[n].live[m] = f[m].book
        BY <2>2, <2>5, <2>12, <3>2 DEF RunValue
      <4> QED
        BY <2>c, <2>9, <2>10, <2>11, <3>2, <4>1 DEF LiveBookAt
    <3> QED
      BY <3>1, <3>2
  <2>14. \A k \in 0 .. n : TradesCut(f, m, k, target)
    BY <2>1, <2>2, <2>4, <2>5, <2>6, RunTradesCut DEF n
  <2>15. /\ f[m].trades \in Seq(Trade) /\ trade_log \in Seq(Trade)
         /\ f[n].trades = trade_log /\ r.trades = f[m].trades
    BY <2>2, <2>5, <2>9, <2>10, <2>11, <2>12 DEF RunValue
  <2> HIDE DEF r
  <2>16. m <= n /\ m \in Nat /\ TradesCut(f, m, n, target) /\ TradesCut(f, m, m, target)
    BY <2>2, <2>14
  <2>17. /\ Len(r.trades) <= Len(trade_log)
         /\ \A i \in 1 .. Len(r.trades) : trade_log[i] = r.trades[i]
         /\ \A i \in Len(r.trades) + 1 .. Len(trade_log) : trade_log[i].timestamp_ms > target
    BY <2>15, <2>16 DEF TradesCut
  <2>18. IsPrefix(r.trades, trade_log)
    BY <2>15, <2>17, PrefixElements
  <2>19. \A i \in 1 .. Len(r.trades) : r.trades[i].timestamp_ms <= target
    BY <2>15, <2>16 DEF TradesCut
  <2>20. ASSUME NEW i \in DOMAIN trade_log
         PROVE  i <= Len(r.trades) <=> trade_log[i].timestamp_ms <= target
    <3>1. /\ i \in 1 .. Len(trade_log) /\ Len(trade_log) \in Nat /\ Len(r.trades) \in Nat
          /\ trade_log[i] \in Trade
      BY <2>15, LenProperties, ElementOfSeq
    <3>2. trade_log[i].timestamp_ms \in Int
      BY <3>1 DEF Trade
    <3>3. CASE i <= Len(r.trades)
      BY <2>17, <2>19, <3>1, <3>3
    <3>4. CASE ~(i <= Len(r.trades))
      <4>1. i \in Len(r.trades) + 1 .. Len(trade_log)
        BY <3>1, <3>4
      <4>2. trade_log[i].timestamp_ms > target
        BY <2>17, <4>1
      <4> QED
        BY <2>4, <3>2, <3>4, <4>2
    <3> QED
      BY <3>3, <3>4
  <2> QED
    BY <2>13, <2>18, <2>20 DEF r
<1> QED
  BY <1>1, EngineInvariant, PTL

-----------------------------------------------------------------------------
(* What an order traded: sums over trades.                                 *)

\* What a trade gives an order.
Share(t, id) == IF id \in {t.maker_order_id, t.taker_order_id} THEN t.qty ELSE 0

\* Filled adds a trade to the sum.
SumStep == INSTANCE SequenceLemmas
             WITH Step <- LAMBDA id, sum, t : IF id \in {t.maker_order_id, t.taker_order_id}
                                                THEN sum + t.qty ELSE sum

\* Filled is a fold.
LEMMA FilledIs ==
  ASSUME NEW trades, NEW id
  PROVE  Filled(trades, id) = SumStep!Fold(id, 0, trades)
BY DEF Filled, FoldLeft, MapThenFoldSet, Max,
       SumStep!Fold, SumStep!FoldLeft, SumStep!MapThenFoldSet, SumStep!Max

\* The series of sums of Filled.
SumTurns(f, trades, id, n) ==
  /\ f[0] = 0
  /\ \A k \in 1 .. n : f[k] = f[k - 1] + Share(trades[k], id)
  /\ Filled(trades, id) = f[n]
  /\ \A k \in 0 .. n : f[k] \in Int

\* What an order traded is added up trade by trade.
LEMMA SumSeries ==
  ASSUME NEW trades \in Seq(Trade), NEW id, NEW n, n = Len(trades)
  PROVE  \E f : SumTurns(f, trades, id, n)
<1>1. /\ n \in Nat /\ DOMAIN trades = 1 .. n
      /\ \A k \in 1 .. n : trades[k] \in Trade /\ Share(trades[k], id) \in Int
  <2>1. n \in Nat /\ DOMAIN trades = 1 .. n /\ \A k \in 1 .. n : trades[k] \in Trade
    BY LenProperties, ElementOfSeq
  <2> QED
    BY <2>1 DEF Share, Trade
<1>2. Filled(trades, id) = SumStep!Fold(id, 0, trades)
  BY FilledIs
<1>3. \E f : SumStep!Turns(f, id, 0, trades, n)
  BY <1>1, <1>2, SumStep!FoldTurns
<1>4. PICK f : /\ f[0] = 0
               /\ \A k \in 1 .. n : f[k] = IF id \in {trades[k].maker_order_id, trades[k].taker_order_id}
                                             THEN f[k - 1] + trades[k].qty ELSE f[k - 1]
               /\ SumStep!Fold(id, 0, trades) = f[n]
  BY <1>3 DEF SumStep!Turns
<1> DEFINE G == {k \in 0 .. n : f[k] \in Int}
<1>5. 0 \in G
  BY <1>1, <1>4
<1>6. ASSUME NEW k \in 1 .. n, k - 1 \in G PROVE k \in G
  <2>1. f[k] = IF id \in {trades[k].maker_order_id, trades[k].taker_order_id}
                 THEN f[k - 1] + trades[k].qty ELSE f[k - 1]
    BY <1>4
  <2>2. trades[k].qty \in Int
    BY <1>1 DEF Trade
  <2>3. f[k - 1] \in Int
    BY <1>6
  <2> QED
    BY <2>1, <2>2, <2>3
<1> HIDE DEF G
<1>7. \A k \in 0 .. n : k \in G
  BY <1>1, <1>5, <1>6, Upwards
<1>8. \A k \in 0 .. n : f[k] \in Int
  BY <1>7 DEF G
<1>9. ASSUME NEW k \in 1 .. n PROVE f[k] = f[k - 1] + Share(trades[k], id)
  <2>1. f[k] = IF id \in {trades[k].maker_order_id, trades[k].taker_order_id}
                 THEN f[k - 1] + trades[k].qty ELSE f[k - 1]
    BY <1>4
  <2>2. f[k - 1] \in Int
    BY <1>1, <1>8
  <2> QED
    BY <2>1, <2>2 DEF Share
<1>10. SumTurns(f, trades, id, n)
  BY <1>2, <1>4, <1>8, <1>9 DEF SumTurns
<1> QED
  BY <1>10

\* Without trades nothing was traded.
LEMMA FilledOfNothing == ASSUME NEW id PROVE Filled(<< >>, id) = 0
<1>1. SumStep!Fold(id, 0, << >>) = 0
  BY SumStep!FoldEmpty
<1> QED
  BY <1>1, FilledIs

\* What was traded is a number.
LEMMA FilledInt ==
  ASSUME NEW trades \in Seq(Trade), NEW id
  PROVE  Filled(trades, id) \in Int
<1> DEFINE n == Len(trades)
<1>1. n \in Nat
  BY LenProperties
<1>2. PICK f : SumTurns(f, trades, id, n)
  BY SumSeries
<1> HIDE DEF n
<1> QED
  BY <1>1, <1>2 DEF SumTurns

\* One more trade.
LEMMA FilledMore ==
  ASSUME NEW trades \in Seq(Trade), NEW t \in Trade, NEW id
  PROVE  Filled(Append(trades, t), id) = Filled(trades, id) + Share(t, id)
<1>1. SumStep!Fold(id, 0, Append(trades, t))
        = IF id \in {t.maker_order_id, t.taker_order_id}
            THEN SumStep!Fold(id, 0, trades) + t.qty ELSE SumStep!Fold(id, 0, trades)
  BY SumStep!FoldAppend
<1>2. Filled(trades, id) \in Int /\ t.qty \in Int
  BY FilledInt DEF Trade
<1>3. /\ Filled(Append(trades, t), id) = SumStep!Fold(id, 0, Append(trades, t))
      /\ Filled(trades, id) = SumStep!Fold(id, 0, trades)
  BY FilledIs
<1> QED
  BY <1>1, <1>2, <1>3 DEF Share

\* More trades: the sums add up.
LEMMA FilledConcat ==
  ASSUME NEW old \in Seq(Trade), NEW more \in Seq(Trade), NEW id
  PROVE  Filled(old \o more, id) = Filled(old, id) + Filled(more, id)
<1> DEFINE m   == Len(old)
           n   == Len(more)
           new == old \o more
<1>1. /\ m \in Nat /\ n \in Nat /\ new \in Seq(Trade) /\ Len(new) = m + n
      /\ \A k \in 1 .. m : new[k] = old[k]
      /\ \A k \in 1 .. n : new[m + k] = more[k]
  <2>1. m \in Nat /\ n \in Nat
    BY LenProperties
  <2>2. /\ new \in Seq(Trade) /\ Len(new) = Len(old) + Len(more)
        /\ \A i \in 1 .. Len(old) + Len(more) :
             new[i] = IF i <= Len(old) THEN old[i] ELSE more[i - Len(old)]
    BY ConcatProperties
  <2> HIDE DEF new
  <2>3. ASSUME NEW k \in 1 .. n PROVE new[m + k] = more[k]
    <3>1. m + k \in 1 .. Len(old) + Len(more) /\ ~(m + k <= Len(old)) /\ (m + k) - Len(old) = k
      BY <2>1
    <3> QED
      BY <2>2, <3>1
  <2> QED
    BY <2>1, <2>2, <2>3
<1> HIDE DEF m, n, new
<1>2. PICK f : SumTurns(f, new, id, m + n)
  BY <1>1, SumSeries
<1>3. PICK g : SumTurns(g, old, id, m)
  BY SumSeries DEF m
<1>4. PICK h : SumTurns(h, more, id, n)
  BY SumSeries DEF n
<1>5. f[m] = g[m]
  <2> DEFINE G == {k \in 0 .. m : f[k] = g[k]}
  <2>1. 0 \in G
    BY <1>1, <1>2, <1>3 DEF SumTurns
  <2>2. ASSUME NEW k \in 1 .. m, k - 1 \in G PROVE k \in G
    <3>1. k \in 1 .. m + n
      BY <1>1
    <3>2. f[k] = f[k - 1] + Share(new[k], id) /\ g[k] = g[k - 1] + Share(old[k], id)
      BY <1>2, <1>3, <3>1 DEF SumTurns
    <3> QED
      BY <1>1, <2>2, <3>2
  <2> HIDE DEF G
  <2>3. \A k \in 0 .. m : k \in G
    BY <1>1, <2>1, <2>2, Upwards
  <2> QED
    BY <1>1, <2>3 DEF G
<1>6. f[m + n] = f[m] + h[n]
  <2> DEFINE G == {k \in 0 .. n : f[m + k] = f[m] + h[k]}
  <2>0. f[m] \in Int
    BY <1>1, <1>2 DEF SumTurns
  <2>1. 0 \in G
    BY <1>1, <1>4, <2>0 DEF SumTurns
  <2>2. ASSUME NEW k \in 1 .. n, k - 1 \in G PROVE k \in G
    <3>1. m + k \in 1 .. m + n /\ (m + k) - 1 = m + (k - 1) /\ k - 1 \in 0 .. n
      BY <1>1
    <3>2. f[m + k] = f[(m + k) - 1] + Share(new[m + k], id) /\ h[k] = h[k - 1] + Share(more[k], id)
      BY <1>2, <1>4, <3>1 DEF SumTurns
    <3>3. f[m + (k - 1)] = f[m] + h[k - 1] /\ h[k - 1] \in Int
      BY <1>4, <2>2, <3>1 DEF SumTurns
    <3>4. Share(new[m + k], id) = Share(more[k], id) /\ Share(more[k], id) \in Int
      <4>1. new[m + k] = more[k] /\ more[k] \in Trade
        BY <1>1, ElementOfSeq DEF n
      <4> QED
        BY <4>1 DEF Share, Trade
    <3> QED
      BY <2>0, <3>1, <3>2, <3>3, <3>4
  <2> HIDE DEF G
  <2>3. \A k \in 0 .. n : k \in G
    BY <1>1, <2>1, <2>2, Upwards
  <2> QED
    BY <1>1, <2>3 DEF G
<1> QED
  BY <1>2, <1>3, <1>4, <1>5, <1>6 DEF SumTurns, new

-----------------------------------------------------------------------------
(* The inner loop accounts for every quantity.                             *)

\* What an order traded since there were the old trades.
Gained(new, old, id) == Filled(new, id) - Filled(old, id)

\* The sums of LevelQty.
LevelSums(h, level, n) ==
  /\ h[0] = 0
  /\ \A k \in 1 .. n : h[k] = h[k - 1] + level[k].remaining_qty
  /\ LevelQty(level) = h[n]
  /\ \A k \in 0 .. n : h[k] \in Int

\* The quantities of a level are added up order by order.
LEMMA LevelSeries ==
  ASSUME NEW level \in Seq(Order), NEW n, n = Len(level)
  PROVE  \E h : LevelSums(h, level, n)
<1>1. /\ n \in Nat /\ DOMAIN level = 1 .. n
      /\ \A k \in 1 .. n : level[k].remaining_qty \in Int
  <2>1. n \in Nat /\ DOMAIN level = 1 .. n /\ \A k \in 1 .. n : level[k] \in Order
    BY LenProperties, ElementOfSeq
  <2> QED
    BY <2>1 DEF Order
<1>2. LevelQty(level) = QtyStep!Fold(0, 0, level)
  BY DEF LevelQty, FoldLeft, MapThenFoldSet, Max,
         QtyStep!Fold, QtyStep!FoldLeft, QtyStep!MapThenFoldSet, QtyStep!Max
<1>3. \E h : QtyStep!Turns(h, 0, 0, level, n)
  BY <1>1, <1>2, QtyStep!FoldTurns
<1>4. PICK h : /\ h[0] = 0
               /\ \A k \in 1 .. n : h[k] = h[k - 1] + level[k].remaining_qty
               /\ LevelQty(level) = h[n]
  BY <1>2, <1>3 DEF QtyStep!Turns
<1> DEFINE G == {k \in 0 .. n : h[k] \in Int}
<1>5. \A k \in 0 .. n : k \in G
  <2>1. 0 \in G
    BY <1>1, <1>4
  <2>2. ASSUME NEW k \in 1 .. n, k - 1 \in G PROVE k \in G
    BY <1>1, <1>4, <2>2
  <2> HIDE DEF G
  <2> QED
    BY <1>1, <2>1, <2>2, Upwards
<1> QED
  BY <1>4, <1>5 DEF LevelSums

\* A maker loses to the trades what the queue no longer has of it; one that is no
\* longer in the queue has lost all but dust.
MakerSum(m, i, c, level, trades) ==
  /\ i <= c => /\ Gained(m.trades, trades, level[i].id) <= level[i].remaining_qty
               /\ level[i].remaining_qty - Gained(m.trades, trades, level[i].id) <= Eps
  /\ i > c  => m.queue[i - c].remaining_qty + Gained(m.trades, trades, level[i].id)
                 = level[i].remaining_qty

\* The loop after the makers 1 to k of the level, whose sums are h.
DrainSums(m, k, level, taker, trades, h) ==
  /\ \A i \in 1 .. k : MakerSum(m, i, k - Len(m.queue), level, trades)
  /\ \A id : id # taker.id /\ (\A i \in 1 .. k : level[i].id # id)
               => Gained(m.trades, trades, id) = 0
  /\ Gained(m.trades, trades, taker.id) = taker.remaining_qty - m.taker.remaining_qty
  /\ m.taker.remaining_qty = taker.remaining_qty \/ m.taker.remaining_qty >= 0
  /\ m.taker.remaining_qty > Eps => m.taker.remaining_qty = taker.remaining_qty - h[k]

\* One trade t of quantity qty with a maker leads from m to r.
Traded(r, m, maker, qty, t) ==
  /\ qty \in Int /\ qty > 0 /\ qty <= m.taker.remaining_qty /\ qty <= maker.remaining_qty
  /\ qty = m.taker.remaining_qty \/ qty = maker.remaining_qty
  /\ t \in Trade /\ t.maker_order_id = maker.id /\ t.taker_order_id = m.taker.id /\ t.qty = qty
  /\ r.trades = Append(m.trades, t)
  /\ r.taker.remaining_qty = m.taker.remaining_qty - qty
  /\ r.queue = IF maker.remaining_qty - qty <= Eps THEN m.queue
               ELSE Append(m.queue, [maker EXCEPT !.remaining_qty = maker.remaining_qty - qty])

\* A turn of the inner loop with a maker and a taker that want more is one trade, of
\* all that one of them has left.
LEMMA MakerTraded ==
  ASSUME NEW m, m.taker \in Order, m.next_trade_id \in Nat, NEW maker \in Order, NEW px \in Price,
         maker.remaining_qty > Eps, m.taker.remaining_qty > Eps
  PROVE  \E qty, t : Traded(FillMaker(m, maker, px), m, maker, qty, t)
<1> DEFINE left0 == m.taker.remaining_qty
           qty   == Min({left0, maker.remaining_qty})
           left  == maker.remaining_qty - qty
           trade == [id             |-> m.next_trade_id + 1,
                     maker_order_id |-> maker.id,
                     taker_order_id |-> m.taker.id,
                     price          |-> px,
                     qty            |-> qty,
                     timestamp_ms   |-> m.taker.timestamp_ms]
           r     == FillMaker(m, maker, px)
           less  == [m.taker EXCEPT !.remaining_qty = left0 - qty]
           kept  == [maker EXCEPT !.remaining_qty = left]
<1>1. /\ left0 \in Int /\ maker.remaining_qty \in Int /\ Eps \in Nat
      /\ maker.id \in Nat /\ m.taker.id \in Nat /\ m.taker.timestamp_ms \in Int
  BY EpsAssumption DEF Order
<1>2. /\ r.taker = less
      /\ r.trades = Append(m.trades, trade)
      /\ r.queue = IF left <= Eps THEN m.queue ELSE Append(m.queue, kept)
  <2>1. ~(m.taker.remaining_qty <= Eps)
    BY <1>1
  <2>2. r = [taker         |-> less,
             trades        |-> Append(m.trades, trade),
             next_trade_id |-> m.next_trade_id + 1,
             queue         |-> IF left <= Eps THEN m.queue ELSE Append(m.queue, kept),
             filled_ids    |-> IF left <= Eps THEN m.filled_ids \cup {maker.id}
                                              ELSE m.filled_ids]
    BY <2>1 DEF FillMaker
  <2> HIDE DEF r, less, trade, left, kept
  <2> QED
    BY <2>2
<1>3. /\ qty \in Int /\ qty > 0 /\ qty <= left0 /\ qty <= maker.remaining_qty
      /\ qty = left0 \/ qty = maker.remaining_qty
  <2>1. qty = IF left0 <= maker.remaining_qty THEN left0 ELSE maker.remaining_qty
    BY <1>1, MinOfTwo
  <2> QED
    BY <2>1, <1>1
<1> HIDE DEF r, qty
<1>4. less.remaining_qty = left0 - qty
  BY <1>1, <1>3, OrderReduced
<1>5. trade \in Trade
  BY <1>1, <1>3 DEF Trade
<1>6. Traded(r, m, maker, qty, trade)
  BY <1>2, <1>3, <1>4, <1>5 DEF Traded
<1> QED
  BY <1>6 DEF r

\* One more trade: what the maker, the taker and the others gained.
LEMMA GainedMore ==
  ASSUME NEW old \in Seq(Trade), NEW trades \in Seq(Trade), NEW t \in Trade, NEW id
  PROVE  /\ Gained(Append(trades, t), old, id) = Gained(trades, old, id) + Share(t, id)
         /\ Gained(trades, old, id) \in Int
<1>1. Filled(Append(trades, t), id) = Filled(trades, id) + Share(t, id)
  BY FilledMore
<1>2. Filled(trades, id) \in Int /\ Filled(old, id) \in Int
  BY FilledInt
<1>3. t.qty \in Int
  BY DEF Trade
<1>4. Share(t, id) \in Int
  BY <1>3 DEF Share
<1> QED
  BY <1>1, <1>2, <1>4 DEF Gained

\* One turn of the inner loop.
LEMMA DrainSumsStep ==
  ASSUME NEW level \in Seq(Order), NEW k \in 1 .. Len(level),
         \A i \in 1 .. Len(level) : level[i].remaining_qty > Eps,
         \A i, j \in 1 .. Len(level) : level[i].id = level[j].id => i = j,
         NEW taker \in Order, \A i \in 1 .. Len(level) : level[i].id # taker.id,
         NEW px \in Price, NEW trades \in Seq(Trade), NEW next_trade_id \in Nat,
         NEW h, LevelSums(h, level, Len(level)),
         NEW m, DrainState(m, k - 1, level, taker, trades, next_trade_id),
         DrainSums(m, k - 1, level, taker, trades, h),
         NEW r, r = FillMaker(m, level[k], px)
  PROVE  DrainSums(r, k, level, taker, trades, h)
<1> DEFINE maker == level[k]
           left0 == m.taker.remaining_qty
           z     == Len(m.queue)
           y     == Len(r.queue)
           c     == (k - 1) - z
           G(id) == Gained(m.trades, trades, id)
<1>1. /\ maker \in Order /\ maker.remaining_qty \in Int /\ maker.remaining_qty > Eps
      /\ Len(level) \in Nat /\ k \in Nat /\ Eps \in Nat /\ taker.remaining_qty \in Int
  <2>1. Len(level) \in Nat /\ maker \in Order
    BY ElementOfSeq, LenProperties
  <2>2. maker.remaining_qty \in Int /\ taker.remaining_qty \in Int
    BY <2>1 DEF Order
  <2> QED
    BY <2>1, <2>2, EpsAssumption
<1>2. /\ m.taker \in Order /\ m.trades \in Seq(Trade) /\ m.next_trade_id \in Nat
      /\ m.queue \in Seq(Order) /\ TakerReduced(m.taker, taker)
      /\ m.queue # << >> => left0 <= Eps
      /\ z \in Nat /\ c \in 0 .. k - 1
  <2>1. /\ m.taker \in Order /\ m.trades \in Seq(Trade) /\ m.next_trade_id \in Nat
        /\ m.queue \in Seq(Order) /\ TakerReduced(m.taker, taker)
        /\ m.queue # << >> => left0 <= Eps
    BY DEF DrainState
  <2>2. PICK d \in 0 .. k - 1 : QueueKept(m.queue, level, d, k - 1)
    BY DEF DrainState
  <2>3. Len(m.queue) = (k - 1) - d
    BY <2>2 DEF QueueKept
  <2>4. z = (k - 1) - d
    BY <2>3
  <2> HIDE DEF z
  <2>5. z \in Nat /\ (k - 1) - z \in 0 .. k - 1
    BY <2>4
  <2> QED
    BY <2>1, <2>5 DEF z
<1>3. left0 \in Int /\ m.taker.id = taker.id
  BY <1>2, ReducedTaker
<1>4. /\ \A i \in 1 .. k - 1 : MakerSum(m, i, c, level, trades)
      /\ \A id : id # taker.id /\ (\A i \in 1 .. k - 1 : level[i].id # id) => G(id) = 0
      /\ G(taker.id) = taker.remaining_qty - left0
      /\ left0 = taker.remaining_qty \/ left0 >= 0
      /\ left0 > Eps => left0 = taker.remaining_qty - h[k - 1]
  BY DEF DrainSums
<1> HIDE DEF z, y
<1>5. h[k] = h[k - 1] + maker.remaining_qty /\ h[k - 1] \in Int
  BY <1>1 DEF LevelSums
<1>6. G(maker.id) = 0 /\ maker.id # taker.id
  <2>1. \A i \in 1 .. k - 1 : i \in 1 .. Len(level) /\ i # k
    BY <1>1
  <2>2. \A i \in 1 .. k - 1 : level[i].id # maker.id
    BY <2>1
  <2> HIDE DEF G
  <2> QED
    BY <1>4, <2>2
<1>7. CASE left0 <= Eps
  <2>1. r = [m EXCEPT !.queue = Append(m.queue, maker)]
    BY <1>7 DEF FillMaker
  <2>2. r.taker = m.taker /\ r.trades = m.trades /\ r.queue = Append(m.queue, maker)
    BY <2>1 DEF DrainState
  <2>3. /\ y = z + 1
        /\ \A j \in 1 .. z : r.queue[j] = m.queue[j]
        /\ r.queue[z + 1] = maker
    BY <1>1, <1>2, <2>2, AppendProperties DEF y, z
  <2>4. k - y = c
    BY <1>1, <1>2, <2>3
  <2>5. ASSUME NEW i \in 1 .. k PROVE MakerSum(r, i, c, level, trades)
    <3>1. CASE i = k
      <4>1. i - c = z + 1 /\ i > c /\ ~(i <= c)
        BY <1>1, <1>2, <3>1
      <4>2. r.queue[i - c].remaining_qty + G(level[i].id) = level[i].remaining_qty
        BY <1>1, <1>6, <2>3, <3>1, <4>1
      <4> QED
        BY <2>2, <4>1, <4>2 DEF MakerSum
    <3>2. CASE i # k
      <4>1. i \in 1 .. k - 1
        BY <3>2
      <4>2. MakerSum(m, i, c, level, trades)
        BY <1>4, <4>1
      <4>3. i > c => i - c \in 1 .. z
        BY <1>2, <4>1
      <4> QED
        BY <2>2, <2>3, <4>2, <4>3 DEF MakerSum
    <3> QED
      BY <3>1, <3>2
  <2>6. ASSUME NEW id, id # taker.id, \A i \in 1 .. k : level[i].id # id
        PROVE  Gained(r.trades, trades, id) = 0
    <3>1. \A i \in 1 .. k - 1 : level[i].id # id
      BY <2>6
    <3> QED
      BY <1>4, <2>2, <2>6, <3>1
  <2>7. ~(left0 > Eps)
    BY <1>1, <1>3, <1>7
  <2> QED
    BY <1>4, <2>2, <2>4, <2>5, <2>6, <2>7 DEF DrainSums, y
<1>8. CASE left0 > Eps
  <2>1. PICK qty, t : Traded(r, m, maker, qty, t)
    BY <1>1, <1>2, <1>8, MakerTraded
  <2>2. /\ qty \in Int /\ qty > 0 /\ qty <= left0 /\ qty <= maker.remaining_qty
        /\ qty = left0 \/ qty = maker.remaining_qty
        /\ t \in Trade /\ t.maker_order_id = maker.id /\ t.taker_order_id = taker.id /\ t.qty = qty
        /\ r.trades = Append(m.trades, t)
        /\ r.taker.remaining_qty = left0 - qty
        /\ r.queue = IF maker.remaining_qty - qty <= Eps THEN m.queue
                     ELSE Append(m.queue, [maker EXCEPT !.remaining_qty = maker.remaining_qty - qty])
    BY <1>3, <2>1 DEF Traded
  <2>3. m.queue = << >> /\ z = 0 /\ c = k - 1
    BY <1>1, <1>2, <1>3, <1>8 DEF z
  <2>4. \A id : /\ Gained(r.trades, trades, id) = G(id) + Share(t, id)
                /\ G(id) \in Int
    BY <1>2, <2>2, GainedMore
  <2>5. /\ Share(t, maker.id) = qty /\ Share(t, taker.id) = qty
        /\ \A id : id # maker.id /\ id # taker.id => Share(t, id) = 0
    BY <2>2 DEF Share
  <2>6. Gained(r.trades, trades, maker.id) = qty
    BY <1>6, <2>2, <2>4, <2>5
  <2>7. ASSUME NEW id, id # maker.id, id # taker.id
        PROVE  Gained(r.trades, trades, id) = G(id)
    BY <2>4, <2>5, <2>7
  <2>h. y = 0 \/ y = 1
    BY <2>2, <2>3, AppendProperties, EmptySeq DEF y
  <2>8. ASSUME NEW i \in 1 .. k PROVE MakerSum(r, i, k - y, level, trades)
    <3>2. CASE i = k
      <4>1. CASE maker.remaining_qty - qty <= Eps
        <5>1. k - y = k /\ i <= k /\ ~(i > k)
          BY <1>1, <2>2, <2>3, <3>2, <4>1 DEF y
        <5> QED
          BY <2>2, <2>6, <3>2, <4>1, <5>1 DEF MakerSum
      <4>2. CASE ~(maker.remaining_qty - qty <= Eps)
        <5> DEFINE kept == [maker EXCEPT !.remaining_qty = maker.remaining_qty - qty]
        <5>1. kept \in Order /\ kept.remaining_qty = maker.remaining_qty - qty
          <6>1. maker.remaining_qty - qty \in Int /\ maker \in Order
            BY <1>1, <2>2
          <6> QED
            BY <6>1, OrderReduced
        <5>2. r.queue = Append(<< >>, kept)
          BY <2>2, <2>3, <4>2
        <5> HIDE DEF kept
        <5>3. y = 1 /\ r.queue[1] = kept
          BY <5>1, <5>2, AppendProperties, EmptySeq DEF y
        <5>4. k - y = k - 1 /\ ~(i <= k - 1) /\ i - (k - 1) = 1
          BY <1>1, <3>2, <5>3
        <5>5. r.queue[1].remaining_qty + qty = maker.remaining_qty
          BY <1>1, <2>2, <5>1, <5>3
        <5> QED
          BY <2>6, <3>2, <5>4, <5>5 DEF MakerSum
      <4> QED
        BY <4>1, <4>2
    <3>3. CASE i # k
      <4>1. i \in 1 .. k - 1 /\ i <= c /\ i \in 1 .. Len(level)
        BY <1>1, <2>3, <3>3
      <4>2. MakerSum(m, i, c, level, trades)
        BY <1>4, <4>1
      <4>3. i <= k - y /\ ~(i > k - y)
        BY <1>1, <2>h, <4>1
      <4>4. level[i].id # maker.id /\ level[i].id # taker.id
        BY <3>3, <4>1
      <4>5. Gained(r.trades, trades, level[i].id) = G(level[i].id)
        BY <2>7, <4>4
      <4> QED
        BY <4>1, <4>2, <4>3, <4>5 DEF MakerSum
    <3> QED
      BY <3>2, <3>3
  <2>9. ASSUME NEW id, id # taker.id, \A i \in 1 .. k : level[i].id # id
        PROVE  Gained(r.trades, trades, id) = 0
    <3>1. (\A i \in 1 .. k - 1 : level[i].id # id) /\ id # maker.id
      BY <1>1, <2>9
    <3> QED
      BY <1>4, <2>7, <2>9, <3>1
  <2>10. Gained(r.trades, trades, taker.id) = taker.remaining_qty - r.taker.remaining_qty
    <3>1. Gained(r.trades, trades, taker.id) = G(taker.id) + qty
      BY <2>4, <2>5
    <3> HIDE DEF G
    <3> QED
      BY <1>1, <1>3, <1>4, <2>2, <3>1
  <2>11. r.taker.remaining_qty >= 0
    BY <1>3, <2>2
  <2>12. r.taker.remaining_qty > Eps => r.taker.remaining_qty = taker.remaining_qty - h[k]
    <3>1. left0 = taker.remaining_qty - h[k - 1]
      BY <1>4, <1>8
    <3>2. left0 - qty > Eps => qty = maker.remaining_qty
      BY <1>1, <1>3, <2>2
    <3> QED
      BY <1>1, <1>5, <2>2, <3>1, <3>2
  <2> QED
    BY <2>8, <2>9, <2>10, <2>11, <2>12 DEF DrainSums, y
<1> QED
  BY <1>1, <1>3, <1>7, <1>8

\* The inner loop accounts for what it took from each order of the level.
LEMMA LevelSummed ==
  ASSUME NEW level \in Seq(Order),
         \A i \in 1 .. Len(level) : level[i].remaining_qty > Eps,
         \A i, j \in 1 .. Len(level) : level[i].id = level[j].id => i = j,
         NEW taker \in Order, \A i \in 1 .. Len(level) : level[i].id # taker.id,
         NEW px \in Price, NEW trades \in Seq(Trade), NEW next_trade_id \in Nat,
         taker.remaining_qty \in Int, NEW h, LevelSums(h, level, Len(level))
  PROVE  DrainSums(DrainLevel(level, taker, px, trades, next_trade_id), Len(level), level,
                   taker, trades, h)
<1> DEFINE n == Len(level)
           S(m, k) == DrainSums(m, k, level, taker, trades, h)
<1>1. n \in Nat
  BY LenProperties
<1>2. PICK f : DrainTurns(f, level, taker, px, trades, next_trade_id, n)
  BY DrainTurnsSound
<1>3. S(f[0], 0)
  <2>1. f[0].taker = taker /\ f[0].trades = trades /\ f[0].queue = << >>
    BY <1>2 DEF DrainTurns
  <2>2. \A id : Gained(trades, trades, id) = 0
    BY FilledInt DEF Gained
  <2>3. h[0] = 0
    BY DEF LevelSums
  <2> HIDE DEF n
  <2> QED
    BY <2>1, <2>2, <2>3 DEF DrainSums
<1>4. ASSUME NEW k \in 1 .. n, S(f[k - 1], k - 1) PROVE S(f[k], k)
  <2> DEFINE m == f[k - 1]
             r == FillMaker(m, level[k], px)
  <2>1. DrainState(m, k - 1, level, taker, trades, next_trade_id)
    <3>1. k - 1 \in 0 .. n
      BY <1>1
    <3> QED
      BY <1>2, <3>1 DEF DrainTurns
  <2>2. f[k] = r
    BY <1>2 DEF DrainTurns
  <2> HIDE DEF m
  <2>3. DrainSums(r, k, level, taker, trades, h)
    <3>1. DrainSums(m, k - 1, level, taker, trades, h)
      BY <1>4 DEF m
    <3> QED
      BY <2>1, <3>1, DrainSumsStep
  <2> QED
    BY <2>2, <2>3
<1> DEFINE G == {k \in 0 .. n : S(f[k], k)}
<1> HIDE DEF n, S
<1>5. \A k \in 0 .. n : k \in G
  <2>1. 0 \in G
    BY <1>1, <1>3
  <2>2. ASSUME NEW k \in 1 .. n, k - 1 \in G PROVE k \in G
    BY <1>1, <1>4, <2>2
  <2> HIDE DEF G
  <2> QED
    BY <1>1, <2>1, <2>2, Upwards
<1>6. S(f[n], n)
  BY <1>1, <1>5
<1>7. DrainLevel(level, taker, px, trades, next_trade_id) = f[n]
  BY <1>2 DEF DrainTurns
<1> QED
  BY <1>6, <1>7 DEF S, n

-----------------------------------------------------------------------------
(* What an operation takes from the orders of a book.                      *)

\* Wherever order id rests, it has q left.
LeftIs(b, id, q) ==
  \A s \in Side : \A px \in DOMAIN b.levels[s] : \A i \in 1 .. Len(b.levels[s][px]) :
    b.levels[s][px][i].id = id => b.levels[s][px][i].remaining_qty = q

\* From book b to book r order id traded g: it has so much less left, or it has left
\* the book and all but dust was traded; an order not on the book trades nothing.
Moves(b, r, id, g) ==
  /\ id \notin DOMAIN b.index => g = 0 /\ id \notin DOMAIN r.index
  /\ \A q \in Int :
       id \in DOMAIN b.index /\ LeftIs(b, id, q) =>
         /\ id \in DOMAIN r.index => LeftIs(r, id, q - g)
         /\ id \notin DOMAIN r.index => g <= q /\ q - g <= Eps

\* Moves add up.
LEMMA MovesOn ==
  ASSUME NEW b, NEW m, NEW r, NEW id, NEW g \in Int, NEW d \in Int,
         Moves(b, m, id, g), Moves(m, r, id, d)
  PROVE  Moves(b, r, id, g + d)
<1>1. CASE id \notin DOMAIN b.index
  BY <1>1 DEF Moves
<1>2. CASE id \in DOMAIN b.index
  <2> SUFFICES ASSUME NEW q \in Int, LeftIs(b, id, q)
               PROVE  /\ id \in DOMAIN r.index => LeftIs(r, id, q - (g + d))
                      /\ id \notin DOMAIN r.index => g + d <= q /\ q - (g + d) <= Eps
    BY <1>2 DEF Moves
  <2>1. CASE id \in DOMAIN m.index
    <3>1. LeftIs(m, id, q - g) /\ q - g \in Int
      BY <1>2, <2>1 DEF Moves
    <3>2. /\ id \in DOMAIN r.index => LeftIs(r, id, (q - g) - d)
          /\ id \notin DOMAIN r.index => d <= q - g /\ (q - g) - d <= Eps
      BY <2>1, <3>1 DEF Moves
    <3>3. (q - g) - d = q - (g + d)
      OBVIOUS
    <3>4. d <= q - g => g + d <= q
      OBVIOUS
    <3> QED
      BY <3>2, <3>3, <3>4
  <2>2. CASE id \notin DOMAIN m.index
    <3>1. g <= q /\ q - g <= Eps /\ d = 0 /\ id \notin DOMAIN r.index
      BY <1>2, <2>2 DEF Moves
    <3> QED
      BY <3>1
  <2> QED
    BY <2>1, <2>2
<1> QED
  BY <1>1, <1>2

\* Nothing moves.
LEMMA NoMove ==
  ASSUME NEW b, NEW id PROVE Moves(b, b, id, 0)
<1>1. \A q \in Int : q - 0 = q
  OBVIOUS
<1> QED
  BY <1>1 DEF Moves

\* An order of a level lost g: those that are gone all but dust, those in the queue
\* what the queue no longer has of them; an order of no level loses nothing.
Lost(queue, level, gone, id, g) ==
  /\ (\A i \in 1 .. Len(level) : level[i].id # id) => g = 0
  /\ \A i \in gone : level[i].id = id => /\ g <= level[i].remaining_qty
                                         /\ level[i].remaining_qty - g <= Eps
  /\ \A j \in 1 .. Len(queue) : queue[j].id = id =>
       \E i \in 1 .. Len(level) : /\ level[i].id = id
                                  /\ queue[j].remaining_qty + g = level[i].remaining_qty

\* An order moves by what its level lost.
LEMMA LevelMoves ==
  ASSUME NEW b, BookSound(b), NEW side \in Side, NEW px \in DOMAIN b.levels[side],
         NEW queue \in Seq(Order), NEW gone \in SUBSET (1 .. Len(b.levels[side][px])),
         NEW ids, ids = {b.levels[side][px][i].id : i \in gone},
         NEW r, Replaced(b, r, side, px, queue, ids),
         NEW id, NEW g \in Int, Lost(queue, b.levels[side][px], gone, id, g)
  PROVE  Moves(b, r, id, g)
<1> DEFINE level == b.levels[side][px]
<1>1. \A s \in Side : \A p \in DOMAIN b.levels[s] : \A i \in 1 .. Len(b.levels[s][p]) :
        /\ b.levels[s][p][i].id \in DOMAIN b.index
        /\ b.index[b.levels[s][p][i].id] = <<s, p>>
  BY DEF BookSound, PlacedSoundly
<1>2. /\ level \in Seq(Order) /\ \A i \in 1 .. Len(level) : level[i].remaining_qty \in Int
      /\ \A j \in 1 .. Len(queue) : queue[j].remaining_qty \in Int
  <2>1. level \in Seq(Order)
    BY DEF BookSound, BookType
  <2> HIDE DEF level
  <2>2. \A o \in Order : o.remaining_qty \in Int
    BY DEF Order
  <2> QED
    BY <2>1, <2>2, ElementOfSeq
<1>3. /\ DOMAIN r.index = DOMAIN b.index \ ids
      /\ \A s \in Side : s # side => r.levels[s] = b.levels[s]
      /\ \A p \in DOMAIN r.levels[side] :
           r.levels[side][p] = IF p = px THEN queue ELSE b.levels[side][p]
      /\ \A s \in Side : DOMAIN r.levels[s] \subseteq DOMAIN b.levels[s]
  BY DEF Replaced
<1>4. /\ (\A i \in 1 .. Len(level) : level[i].id # id) => g = 0
      /\ \A i \in gone : level[i].id = id => /\ g <= level[i].remaining_qty
                                             /\ level[i].remaining_qty - g <= Eps
      /\ \A j \in 1 .. Len(queue) : queue[j].id = id =>
           \E i \in 1 .. Len(level) : /\ level[i].id = id
                                      /\ queue[j].remaining_qty + g = level[i].remaining_qty
  BY DEF Lost
<1>5. CASE id \notin DOMAIN b.index
  <2>1. \A i \in 1 .. Len(level) : level[i].id # id
    BY <1>1, <1>5
  <2> HIDE DEF level
  <2> QED
    BY <1>3, <1>4, <1>5, <2>1 DEF Moves
<1>6. CASE id \in DOMAIN b.index
  <2> SUFFICES ASSUME NEW q \in Int, LeftIs(b, id, q)
               PROVE  /\ id \in DOMAIN r.index => LeftIs(r, id, q - g)
                      /\ id \notin DOMAIN r.index => g <= q /\ q - g <= Eps
    BY <1>6 DEF Moves
  <2>1. \A i \in 1 .. Len(level) : level[i].id = id => level[i].remaining_qty = q
    BY DEF LeftIs
  <2>2. ASSUME NEW s \in Side, NEW p \in DOMAIN r.levels[s], NEW i \in 1 .. Len(r.levels[s][p]),
               r.levels[s][p][i].id = id
        PROVE  r.levels[s][p][i].remaining_qty = q - g
    <3>1. CASE s = side /\ p = px
      <4>1. r.levels[s][p] = queue
        BY <1>3, <3>1
      <4>2. PICK l \in 1 .. Len(level) : /\ level[l].id = id
                                         /\ queue[i].remaining_qty + g = level[l].remaining_qty
        BY <1>4, <2>2, <4>1
      <4>3. level[l].remaining_qty = q /\ queue[i].remaining_qty \in Int
        BY <1>2, <2>1, <2>2, <4>1, <4>2
      <4> HIDE DEF level
      <4> QED
        BY <4>1, <4>2, <4>3
    <3>2. CASE ~(s = side /\ p = px)
      <4>1. p \in DOMAIN b.levels[s] /\ r.levels[s][p] = b.levels[s][p]
        BY <1>3, <3>2
      <4>2. b.index[id] = <<s, p>> /\ b.levels[s][p][i].remaining_qty = q
        BY <1>1, <2>2, <4>1 DEF LeftIs
      <4>3. \A l \in 1 .. Len(level) : level[l].id # id
        BY <1>1, <3>2, <4>2
      <4> HIDE DEF level
      <4>4. g = 0
        BY <1>4, <4>3
      <4> QED
        BY <4>1, <4>2, <4>4
    <3> QED
      BY <3>1, <3>2
  <2>3. ASSUME id \notin DOMAIN r.index PROVE g <= q /\ q - g <= Eps
    <3>1. PICK i \in gone : level[i].id = id
      BY <1>3, <1>6, <2>3
    <3>2. level[i].remaining_qty = q
      BY <2>1, <3>1
    <3> HIDE DEF level
    <3> QED
      BY <1>4, <3>1, <3>2
  <2> QED
    BY <2>2, <2>3 DEF LeftIs
<1> QED
  BY <1>5, <1>6

\* A cancellation takes nothing from the other orders.
LEMMA CancelMoves ==
  ASSUME NEW b, BookSound(b), NEW id, NEW r, r = CancelOrder(b, id).book,
         NEW other, other # id
  PROVE  Moves(b, r, other, 0)
<1>1. CASE id \notin DOMAIN b.index
  <2>1. r = b
    BY <1>1 DEF CancelOrder
  <2> QED
    BY <2>1, NoMove
<1>2. CASE id \in DOMAIN b.index
  <2>1. PICK s \in Side : \E px \in DOMAIN b.levels[s] : \E j \in 1 .. Len(b.levels[s][px]) :
          CancelReplaces(b, r, id, s, px, j)
    BY <1>2, CancelIs
  <2>2. PICK px \in DOMAIN b.levels[s] : \E j \in 1 .. Len(b.levels[s][px]) :
          CancelReplaces(b, r, id, s, px, j)
    BY <2>1
  <2>3. PICK j \in 1 .. Len(b.levels[s][px]) : CancelReplaces(b, r, id, s, px, j)
    BY <2>2
  <2> DEFINE level == b.levels[s][px]
             kept  == Retained(level, id)
  <2>4. /\ level[j].id = id /\ QueueFrom(kept, level, {j})
        /\ \A i \in 1 .. Len(kept) : \E k \in 1 .. Len(level) : kept[i] = level[k]
        /\ r = [levels        |-> [b.levels EXCEPT ![s] = LevelsWith(@, px, kept)],
                index         |-> Without(b.index, {id}),
                next_trade_id |-> b.next_trade_id]
    BY <2>3 DEF CancelReplaces
  <2>5. kept \in Seq(Order) /\ DOMAIN b.levels = Side /\ level \in Seq(Order)
    BY <2>4 DEF QueueFrom, BookSound, BookType
  <2> HIDE DEF kept
  <2>6. Replaced(b, r, s, px, kept, {id})
    BY <2>4, <2>5, LevelReplacedIs
  <2>7. Lost(kept, level, {j}, other, 0)
    <3> HIDE DEF level
    <3>1. \A i \in 1 .. Len(kept) : kept[i].remaining_qty \in Int
      <4>1. \A o \in Order : o.remaining_qty \in Int
        BY DEF Order
      <4> QED
        BY <2>5, <4>1, ElementOfSeq
    <3>2. ASSUME NEW i \in 1 .. Len(kept), kept[i].id = other
          PROVE  \E k \in 1 .. Len(level) : /\ level[k].id = other
                                            /\ kept[i].remaining_qty + 0 = level[k].remaining_qty
      <4>1. PICK k \in 1 .. Len(level) : kept[i] = level[k]
        BY <2>4
      <4> QED
        BY <3>1, <3>2, <4>1
    <3>3. \A i \in {j} : level[i].id # other
      BY <2>4
    <3> QED
      BY <3>2, <3>3 DEF Lost
  <2>8. {j} \in SUBSET (1 .. Len(level)) /\ {id} = {level[i].id : i \in {j}} /\ 0 \in Int
    BY <2>4
  <2> QED
    BY <2>5, <2>6, <2>7, <2>8, LevelMoves
<1> QED
  BY <1>1, <1>2

\* An order put on the book is left as much as it has, the others keep what they have.
LEMMA InsertMoves ==
  ASSUME NEW b, BookSound(b), NEW order \in Order, order.id \notin DOMAIN b.index,
         NEW r, r = InsertResting(b, order)
  PROVE  /\ \A id : id # order.id => Moves(b, r, id, 0)
         /\ LeftIs(r, order.id, order.remaining_qty) /\ order.id \in DOMAIN r.index
<1> DEFINE side  == order.side
           px    == order.price
           queue == IF px \in DOMAIN b.levels[side] THEN b.levels[side][px] ELSE << >>
<1>1. /\ b \in [levels : {b.levels}, index : {b.index}, next_trade_id : Nat]
      /\ DOMAIN b.levels = Side /\ side \in Side
      /\ \A s \in Side : \A p \in DOMAIN b.levels[s] : b.levels[s][p] \in Seq(Order)
      /\ queue \in Seq(Order)
  <2>1. side \in Side
    BY DEF Order
  <2>2. /\ b \in [levels : {b.levels}, index : {b.index}, next_trade_id : Nat]
        /\ DOMAIN b.levels = Side
        /\ \A s \in Side : \A p \in DOMAIN b.levels[s] : b.levels[s][p] \in Seq(Order)
    BY DEF BookSound, BookType
  <2>3. << >> \in Seq(Order)
    BY EmptySeq
  <2> QED
    BY <2>1, <2>2, <2>3
<1>2. \A s \in Side : \A p \in DOMAIN b.levels[s] : \A i \in 1 .. Len(b.levels[s][p]) :
        b.levels[s][p][i].id \in DOMAIN b.index
  BY DEF BookSound, PlacedSoundly
<1>3. /\ r.levels = [b.levels EXCEPT ![side] = With(b.levels[side], px, Append(queue, order))]
      /\ r.index = With(b.index, order.id, Place(order))
  BY <1>1 DEF InsertResting
<1> HIDE DEF queue
<1>4. /\ DOMAIN r.index = DOMAIN b.index \cup {order.id}
      /\ \A s \in Side : s # side => r.levels[s] = b.levels[s]
      /\ DOMAIN r.levels[side] = DOMAIN b.levels[side] \cup {px}
      /\ r.levels[side][px] = Append(queue, order)
      /\ \A p \in DOMAIN b.levels[side] : p # px => r.levels[side][p] = b.levels[side][p]
  BY <1>1, <1>3 DEF With
<1>5. ASSUME NEW s \in Side, NEW p \in DOMAIN r.levels[s], NEW i \in 1 .. Len(r.levels[s][p])
      PROVE  \/ r.levels[s][p][i] = order
             \/ /\ p \in DOMAIN b.levels[s] /\ i \in 1 .. Len(b.levels[s][p])
                /\ r.levels[s][p][i] = b.levels[s][p][i]
  <2>1. CASE s = side /\ p = px
    <3>1. /\ Len(Append(queue, order)) = Len(queue) + 1 /\ Len(queue) \in Nat
          /\ \A j \in 1 .. Len(queue) : Append(queue, order)[j] = queue[j]
          /\ Append(queue, order)[Len(queue) + 1] = order
      BY <1>1, AppendProperties, LenProperties
    <3>2. r.levels[s][p] = Append(queue, order)
      BY <1>4, <2>1
    <3>3. CASE i = Len(queue) + 1
      BY <3>1, <3>2, <3>3
    <3>4. CASE i # Len(queue) + 1
      <4>1. i \in 1 .. Len(queue) /\ r.levels[s][p][i] = queue[i]
        BY <3>1, <3>2, <3>4
      <4>2. px \in DOMAIN b.levels[side] /\ queue = b.levels[side][px]
        BY <4>1 DEF queue
      <4> QED
        BY <2>1, <4>1, <4>2
    <3> QED
      BY <3>3, <3>4
  <2>2. CASE ~(s = side /\ p = px)
    <3>1. p \in DOMAIN b.levels[s] /\ r.levels[s][p] = b.levels[s][p]
      BY <1>4, <2>2
    <3> QED
      BY <3>1
  <2> QED
    BY <2>1, <2>2
<1>6. ASSUME NEW id, id # order.id PROVE Moves(b, r, id, 0)
  <2>1. \A q \in Int : LeftIs(b, id, q) => LeftIs(r, id, q - 0)
    <3> SUFFICES ASSUME NEW q \in Int, LeftIs(b, id, q),
                        NEW s \in Side, NEW p \in DOMAIN r.levels[s],
                        NEW i \in 1 .. Len(r.levels[s][p]), r.levels[s][p][i].id = id
                 PROVE  r.levels[s][p][i].remaining_qty = q - 0
      BY DEF LeftIs
    <3>1. r.levels[s][p][i].remaining_qty = q
      BY <1>5, <1>6 DEF LeftIs
    <3> QED
      BY <3>1
  <2>2. id \in DOMAIN r.index <=> id \in DOMAIN b.index
    BY <1>4, <1>6
  <2> QED
    BY <2>1, <2>2 DEF Moves
<1>7. LeftIs(r, order.id, order.remaining_qty)
  <2> SUFFICES ASSUME NEW s \in Side, NEW p \in DOMAIN r.levels[s],
                      NEW i \in 1 .. Len(r.levels[s][p]), r.levels[s][p][i].id = order.id
               PROVE  r.levels[s][p][i].remaining_qty = order.remaining_qty
    BY DEF LeftIs
  <2>1. r.levels[s][p][i] = order
    BY <1>2, <1>5
  <2> QED
    BY <2>1
<1> QED
  BY <1>4, <1>6, <1>7

-----------------------------------------------------------------------------
(* The outer loop accounts for every quantity.                             *)

\* AvailableLiquidity adds a level to the sum.
AvailTurn(lo, sum, px) ==
  IF Crosses(lo[2], px) THEN sum + LevelQty(lo[1][Opposite(lo[2].side)][px]) ELSE sum

AvailStep == INSTANCE SequenceLemmas WITH Step <- LAMBDA lo, sum, px : AvailTurn(lo, sum, px)

\* The sums of AvailableLiquidity.
AvailSums(g, levels, order, prices, n) ==
  /\ g[0] = 0
  /\ \A k \in 1 .. n :
       g[k] = IF Crosses(order, prices[k])
                THEN g[k - 1] + LevelQty(levels[Opposite(order.side)][prices[k]]) ELSE g[k - 1]
  /\ AvailableLiquidity(levels, order) = g[n]
  /\ \A k \in 0 .. n : g[k] \in Int

\* The liquidity is added up level by level, best first.
LEMMA AvailSeries ==
  ASSUME NEW levels, NEW order, NEW prices,
         prices = PricesBestFirst(levels, Opposite(order.side)),
         NEW n \in Nat, DOMAIN prices = 1 .. n,
         \A k \in 1 .. n : levels[Opposite(order.side)][prices[k]] \in Seq(Order)
  PROVE  \E g : AvailSums(g, levels, order, prices, n)
<1> DEFINE lo == <<levels, order>>
<1>1. AvailableLiquidity(levels, order) = AvailStep!Fold(lo, 0, prices)
  BY DEF AvailableLiquidity, AvailTurn, FoldLeft, MapThenFoldSet, Max,
         AvailStep!Fold, AvailStep!FoldLeft, AvailStep!MapThenFoldSet, AvailStep!Max
<1>2. \E g : AvailStep!Turns(g, lo, 0, prices, n)
  <2> HIDE DEF lo
  <2> QED
    BY AvailStep!FoldTurns
<1>3. PICK g : /\ g[0] = 0
               /\ \A k \in 1 .. n : g[k] = AvailTurn(lo, g[k - 1], prices[k])
               /\ AvailableLiquidity(levels, order) = g[n]
  BY <1>1, <1>2 DEF AvailStep!Turns
<1>4. \A k \in 1 .. n :
        g[k] = IF Crosses(order, prices[k])
                 THEN g[k - 1] + LevelQty(levels[Opposite(order.side)][prices[k]]) ELSE g[k - 1]
  BY <1>3 DEF AvailTurn
<1>5. \A k \in 1 .. n : LevelQty(levels[Opposite(order.side)][prices[k]]) \in Int
  <2> TAKE k \in 1 .. n
  <2> DEFINE level == levels[Opposite(order.side)][prices[k]]
  <2>1. level \in Seq(Order)
    OBVIOUS
  <2> HIDE DEF level
  <2>2. PICK h : LevelSums(h, level, Len(level))
    BY <2>1, LevelSeries
  <2>3. LevelQty(level) \in Int
    BY <2>1, <2>2, LenProperties DEF LevelSums
  <2> QED
    BY <2>3 DEF level
<1> DEFINE G == {k \in 0 .. n : g[k] \in Int}
<1>6. \A k \in 0 .. n : k \in G
  <2>1. 0 \in G
    BY <1>3
  <2>2. ASSUME NEW k \in 1 .. n, k - 1 \in G PROVE k \in G
    BY <1>4, <1>5, <2>2
  <2> HIDE DEF G
  <2> QED
    BY <2>1, <2>2, Upwards
<1>7. AvailSums(g, levels, order, prices, n)
  BY <1>3, <1>4, <1>6 DEF AvailSums
<1> QED
  BY <1>7

\* What the inner loop did to the level is what the orders lost.
LEMMA LevelLost ==
  ASSUME NEW level \in Seq(Order), NEW taker, NEW trades \in Seq(Trade), NEW h,
         NEW m, m.trades \in Seq(Trade), DrainSums(m, Len(level), level, taker, trades, h),
         NEW c \in 0 .. Len(level), QueueKept(m.queue, level, c, Len(level)),
         NEW id, id # taker.id
  PROVE  Lost(m.queue, level, 1 .. c, id, Gained(m.trades, trades, id))
<1> DEFINE n == Len(level)
           q == m.queue
           g == Gained(m.trades, trades, id)
<1>1. n \in Nat /\ c \in 0 .. n
  BY LenProperties
<1>2. /\ Len(q) = n - c
      /\ \A j \in 1 .. n - c : q[j] = [level[c + j] EXCEPT !.remaining_qty = q[j].remaining_qty]
      /\ q \in Seq(Order)
  BY DEF QueueKept
<1>3. /\ \A i \in 1 .. n : MakerSum(m, i, n - Len(q), level, trades)
      /\ (\A i \in 1 .. n : level[i].id # id) => g = 0
  BY DEF DrainSums
<1>4. n - Len(q) = c
  BY <1>1, <1>2
<1>5. \A i \in 1 .. n : MakerSum(m, i, c, level, trades)
  BY <1>3, <1>4
<1>6. ASSUME NEW i \in 1 .. c, level[i].id = id
      PROVE  g <= level[i].remaining_qty /\ level[i].remaining_qty - g <= Eps
  <2>1. i \in 1 .. n /\ i <= c
    BY <1>1
  <2>2. MakerSum(m, i, c, level, trades)
    BY <1>5, <2>1
  <2> HIDE DEF n
  <2> QED
    BY <1>6, <2>1, <2>2 DEF MakerSum
<1>7. ASSUME NEW j \in 1 .. Len(q), q[j].id = id
      PROVE  \E i \in 1 .. n : level[i].id = id /\ q[j].remaining_qty + g = level[i].remaining_qty
  <2> DEFINE i == c + j
  <2>1. i \in 1 .. n /\ i > c /\ i - c = j /\ j \in 1 .. n - c
    BY <1>1, <1>2
  <2>2. level[i] \in Order /\ q[j] \in Order
    BY <1>2, <2>1, ElementOfSeq
  <2>3. q[j].remaining_qty \in Int
    BY <2>2 DEF Order
  <2>4. level[i].id = id
    <3>1. q[j] = [level[i] EXCEPT !.remaining_qty = q[j].remaining_qty]
      BY <1>2, <2>1
    <3>2. [level[i] EXCEPT !.remaining_qty = q[j].remaining_qty].id = level[i].id
      BY <2>2, <2>3, OrderReduced
    <3> QED
      BY <1>7, <3>1, <3>2
  <2> HIDE DEF i, q, n
  <2>5. q[j].remaining_qty + g = level[i].remaining_qty
    <3>1. MakerSum(m, i, c, level, trades)
      BY <1>5, <2>1
    <3> QED
      BY <2>1, <2>4, <3>1 DEF MakerSum, q
  <2> QED
    BY <2>1, <2>4, <2>5
<1>8. (\A i \in 1 .. Len(level) : level[i].id # id) => g = 0
  BY <1>3
<1>9. \A i \in 1 .. c : level[i].id = id => /\ g <= level[i].remaining_qty
                                            /\ level[i].remaining_qty - g <= Eps
  BY <1>6
<1>10. \A j \in 1 .. Len(m.queue) : m.queue[j].id = id =>
         \E i \in 1 .. Len(level) : /\ level[i].id = id
                                    /\ m.queue[j].remaining_qty + g = level[i].remaining_qty
  BY <1>7
<1> HIDE DEF g, n, q
<1>11. Lost(m.queue, level, 1 .. c, id, g)
  BY <1>8, <1>9, <1>10 DEF Lost
<1> QED
  BY <1>11 DEF g

\* The loop after the levels 1 to k of the side across.
MatchSums(m, k, b, order, prices, n, g) ==
  /\ \A id : id # order.id => Moves(b, m.book, id, Filled(m.trades, id))
  /\ Filled(m.trades, order.id) = order.remaining_qty - m.taker.remaining_qty
  /\ m.taker.remaining_qty = order.remaining_qty \/ m.taker.remaining_qty >= 0
  /\ m.taker.remaining_qty > Eps => m.taker.remaining_qty = order.remaining_qty - g[k]
  /\ \A j \in k + 1 .. n : m.book.levels[Opposite(order.side)][prices[j]]
                             = b.levels[Opposite(order.side)][prices[j]]

\* One turn of the outer loop.
LEMMA MatchSumsStep ==
  ASSUME NEW b, b.next_trade_id \in Nat, NEW order \in Order, order.id \notin DOMAIN b.index,
         NEW f, NEW prices, NEW n, MatchRun(f, b, order, prices, n),
         NEW g, AvailSums(g, b.levels, order, prices, n),
         NEW k \in 1 .. n, NEW m, MatchState(m, k - 1, b, order),
         MatchSums(m, k - 1, b, order, prices, n, g),
         NEW r, r = MatchLevel(m, prices[k])
  PROVE  MatchSums(r, k, b, order, prices, n, g)
<1> DEFINE across == Opposite(order.side)
           px     == prices[k]
<1>1. /\ n \in Nat /\ DOMAIN prices = 1 .. n /\ prices \in Seq(Price)
      /\ prices = PricesBestFirst(b.levels, across)
      /\ \A i, j \in 1 .. n : i < j => prices[i] # prices[j]
      /\ across \in Side /\ px \in Price /\ Len(prices) = n /\ Eps \in Nat
  <2>1. /\ n \in Nat /\ DOMAIN prices = 1 .. n /\ prices \in Seq(Price)
        /\ prices = PricesBestFirst(b.levels, across)
        /\ \A i, j \in 1 .. n : i < j => prices[i] # prices[j]
    BY DEF MatchRun
  <2>2. Len(prices) = n
    BY <2>1, LenProperties
  <2>3. px \in Price
    BY <2>1, <2>2, ElementOfSeq
  <2> QED
    BY <2>1, <2>2, <2>3, EpsAssumption DEF Opposite, Side
<1>2. /\ m.taker \in Order /\ m.trades \in Seq(Trade) /\ TakerReduced(m.taker, order)
      /\ BookSound(m.book)
      /\ order.id \notin DOMAIN m.book.index
      /\ px \in DOMAIN m.book.levels[across]
  <2>1. \A j \in (k - 1) + 1 .. Len(prices) : prices[j] \in DOMAIN m.book.levels[across]
    BY <1>1 DEF MatchState
  <2>2. k \in (k - 1) + 1 .. Len(prices)
    BY <1>1
  <2> QED
    BY <2>1, <2>2 DEF MatchState
<1>3. /\ m.taker.remaining_qty \in Int /\ m.taker.id = order.id /\ m.taker.side = order.side
      /\ \A p : Crosses(m.taker, p) <=> Crosses(order, p)
      /\ order.remaining_qty \in Int
  <2>1. order.remaining_qty \in Int
    BY DEF Order
  <2> QED
    BY <1>2, <2>1, ReducedTaker
<1>4. /\ \A id : id # order.id => Moves(b, m.book, id, Filled(m.trades, id))
      /\ Filled(m.trades, order.id) = order.remaining_qty - m.taker.remaining_qty
      /\ m.taker.remaining_qty = order.remaining_qty \/ m.taker.remaining_qty >= 0
      /\ m.taker.remaining_qty > Eps => m.taker.remaining_qty = order.remaining_qty - g[k - 1]
      /\ \A j \in (k - 1) + 1 .. n : m.book.levels[across][prices[j]] = b.levels[across][prices[j]]
  BY DEF MatchSums
<1>5. /\ g[k] = IF Crosses(order, px) THEN g[k - 1] + LevelQty(b.levels[across][px]) ELSE g[k - 1]
      /\ g[k - 1] \in Int
  <2>1. k - 1 \in 0 .. n
    BY <1>1
  <2> QED
    BY <2>1 DEF AvailSums
<1>6. CASE m.taker.remaining_qty <= Eps \/ ~Crosses(m.taker, px)
  <2>1. r = m
    BY <1>6 DEF MatchLevel
  <2>2. m.taker.remaining_qty > Eps => m.taker.remaining_qty = order.remaining_qty - g[k]
    BY <1>1, <1>3, <1>4, <1>5, <1>6
  <2>3. \A j \in k + 1 .. n : m.book.levels[across][prices[j]] = b.levels[across][prices[j]]
    BY <1>1, <1>4
  <2> QED
    BY <1>4, <2>1, <2>2, <2>3 DEF MatchSums
<1>7. CASE ~(m.taker.remaining_qty <= Eps \/ ~Crosses(m.taker, px))
  <2> DEFINE level == m.book.levels[across][px]
             d     == DrainLevel(level, m.taker, px, m.trades, m.book.next_trade_id)
  <2>1. /\ r.taker = d.taker /\ r.trades = d.trades
        /\ r.book = [levels        |-> [m.book.levels EXCEPT ![across] =
                                          LevelsWith(m.book.levels[across], px, d.queue)],
                     index         |-> Without(m.book.index, d.filled_ids),
                     next_trade_id |-> d.next_trade_id]
    BY <1>3, <1>7 DEF MatchLevel, LevelsWith
  <2>2. /\ m.book.next_trade_id \in Nat
        /\ DOMAIN m.book.levels = Side
        /\ level \in Seq(Order)
        /\ \A i \in 1 .. Len(level) : PlacedSoundly(m.book, across, px, i)
    BY <1>1, <1>2 DEF BookSound, BookType
  <2>3. /\ \A i \in 1 .. Len(level) : level[i].remaining_qty > Eps
        /\ \A i, j \in 1 .. Len(level) : level[i].id = level[j].id => i = j
        /\ \A i \in 1 .. Len(level) : level[i].id # m.taker.id
    BY Zenon, <1>2, <1>3, <2>2 DEF PlacedSoundly, ShouldRest
  <2>l. level = b.levels[across][px]
    <3>1. k \in (k - 1) + 1 .. n
      BY <1>1
    <3> QED
      BY <1>4, <3>1
  <2> HIDE DEF level
  <2>4. DrainState(d, Len(level), level, m.taker, m.trades, m.book.next_trade_id)
    BY <1>1, <1>2, <1>3, <2>2, <2>3, LevelDrained
  <2>5. PICK h : LevelSums(h, level, Len(level))
    BY <2>2, LevelSeries
  <2>6. DrainSums(d, Len(level), level, m.taker, m.trades, h)
    BY <1>1, <1>2, <1>3, <2>2, <2>3, <2>5, LevelSummed
  <2> HIDE DEF d
  <2>7. d.taker.remaining_qty \in Int /\ d.trades \in Seq(Trade) /\ d.queue \in Seq(Order)
    BY <2>4 DEF DrainState, TakerReduced
  <2>8. PICK c \in 0 .. Len(level) : /\ QueueKept(d.queue, level, c, Len(level))
                                     /\ d.filled_ids = {level[i].id : i \in 1 .. c}
    BY <2>4 DEF DrainState
  <2>9. Replaced(m.book, r.book, across, px, d.queue, d.filled_ids)
    BY <1>1, <1>2, <2>1, <2>2, LevelReplacedIs
  <2>10. \A id : /\ Filled(r.trades, id) = Filled(m.trades, id) + Gained(d.trades, m.trades, id)
                 /\ Filled(m.trades, id) \in Int /\ Gained(d.trades, m.trades, id) \in Int
    <3> TAKE id
    <3>1. Filled(m.trades, id) \in Int /\ Filled(d.trades, id) \in Int
      BY <1>2, <2>7, FilledInt
    <3> QED
      BY <2>1, <3>1 DEF Gained
  <2>11. ASSUME NEW id, id # order.id PROVE Moves(b, r.book, id, Filled(r.trades, id))
    <3> DEFINE gained == Gained(d.trades, m.trades, id)
    <3>1. Lost(d.queue, level, 1 .. c, id, gained)
      BY <1>2, <1>3, <2>2, <2>6, <2>7, <2>8, <2>11, LevelLost
    <3>2. gained \in Int
      BY <2>10
    <3>3. 1 .. c \in SUBSET (1 .. Len(level))
      BY <2>2, LenProperties
    <3> DEFINE B == m.book
    <3>4. /\ BookSound(B) /\ px \in DOMAIN B.levels[across]
          /\ Lost(d.queue, B.levels[across][px], 1 .. c, id, gained)
          /\ 1 .. c \in SUBSET (1 .. Len(B.levels[across][px]))
          /\ d.filled_ids = {B.levels[across][px][i].id : i \in 1 .. c}
          /\ Replaced(B, r.book, across, px, d.queue, d.filled_ids)
      BY Zenon, <1>2, <2>8, <2>9, <3>1, <3>3 DEF level
    <3> HIDE DEF B, gained
    <3>5. Moves(B, r.book, id, gained)
      BY Zenon, <1>1, <2>7, <3>2, <3>4, LevelMoves
    <3>6. Moves(b, B, id, Filled(m.trades, id))
      BY <1>4, <2>11 DEF B
    <3>7. Moves(b, r.book, id, Filled(m.trades, id) + gained)
      BY <2>10, <3>2, <3>5, <3>6, MovesOn
    <3> QED
      BY <2>10, <3>7 DEF gained
  <2>12. Filled(r.trades, order.id) = order.remaining_qty - r.taker.remaining_qty
    <3>1. Gained(d.trades, m.trades, order.id) = m.taker.remaining_qty - d.taker.remaining_qty
      BY <1>3, <2>6 DEF DrainSums
    <3> QED
      BY <1>3, <1>4, <2>1, <2>7, <2>10, <3>1
  <2>13. r.taker.remaining_qty >= 0
    <3>1. d.taker.remaining_qty = m.taker.remaining_qty \/ d.taker.remaining_qty >= 0
      BY <2>6 DEF DrainSums
    <3> QED
      BY <1>1, <1>3, <1>7, <2>1, <3>1
  <2>14. r.taker.remaining_qty > Eps => r.taker.remaining_qty = order.remaining_qty - g[k]
    <3>1. d.taker.remaining_qty > Eps =>
            d.taker.remaining_qty = m.taker.remaining_qty - LevelQty(level)
      BY <2>5, <2>6 DEF DrainSums, LevelSums
    <3>2. LevelQty(level) \in Int
      BY <2>2, <2>5, LenProperties DEF LevelSums
    <3>3. m.taker.remaining_qty = order.remaining_qty - g[k - 1]
      BY <1>1, <1>3, <1>4, <1>7
    <3>4. g[k] = g[k - 1] + LevelQty(level)
      BY <1>3, <1>5, <1>7, <2>l
    <3> QED
      BY <1>3, <1>5, <2>1, <3>1, <3>2, <3>3, <3>4
  <2>15. \A j \in k + 1 .. n : r.book.levels[across][prices[j]] = b.levels[across][prices[j]]
    <3> TAKE j \in k + 1 .. n
    <3>1. j \in (k - 1) + 1 .. n /\ j \in 1 .. n /\ k < j
      BY <1>1
    <3>2. prices[j] # px /\ prices[j] \in DOMAIN m.book.levels[across]
      BY <1>1, <3>1 DEF MatchState
    <3>3. prices[j] \in DOMAIN r.book.levels[across]
      BY <2>9, <3>2 DEF Replaced
    <3>4. r.book.levels[across][prices[j]] = m.book.levels[across][prices[j]]
      BY <2>9, <3>2, <3>3 DEF Replaced
    <3> QED
      BY <1>4, <3>1, <3>4
  <2> QED
    BY <2>11, <2>12, <2>13, <2>14, <2>15 DEF MatchSums
<1> QED
  BY <1>6, <1>7

\* What the matching of an order took from every order of the book, and what it gave.
Matched(m, b, order) ==
  /\ \A id : id # order.id => Moves(b, m.book, id, Filled(m.trades, id))
  /\ Filled(m.trades, order.id) = order.remaining_qty - m.taker.remaining_qty
  /\ m.taker.remaining_qty = order.remaining_qty \/ m.taker.remaining_qty >= 0
  /\ m.taker.remaining_qty > Eps =>
       m.taker.remaining_qty = order.remaining_qty - AvailableLiquidity(b.levels, order)
  /\ AvailableLiquidity(b.levels, order) \in Int

\* The outer loop accounts for every quantity.
LEMMA OrderSummed ==
  ASSUME NEW b, BookSound(b), NEW order \in Order, order.id \notin DOMAIN b.index,
         NEW m, m = MatchOrder(b, order)
  PROVE  Matched(m, b, order)
<1> DEFINE across == Opposite(order.side)
<1>1. PICK f, prices, n : MatchRun(f, b, order, prices, n)
  BY MatchTurnsSound
<1>2. /\ prices = PricesBestFirst(b.levels, across) /\ n \in Nat /\ DOMAIN prices = 1 .. n
      /\ \A k \in 0 .. n : MatchState(f[k], k, b, order)
      /\ MatchTurns(f, b, order, n)
      /\ prices \in Seq(Price) /\ Len(prices) = n
  BY <1>1, LenProperties DEF MatchRun
<1>3. /\ f[0] = [book |-> b, taker |-> order, trades |-> << >>]
      /\ \A k \in 1 .. n : f[k] = MatchLevel(f[k - 1], prices[k])
      /\ m = f[n]
  BY <1>2 DEF MatchTurns
<1>4. f[0].book = b /\ f[0].taker = order /\ f[0].trades = << >>
  BY <1>3
<1>5. b.next_trade_id \in Nat /\ across \in Side
      /\ \A s \in Side : \A p \in DOMAIN b.levels[s] : b.levels[s][p] \in Seq(Order)
  BY DEF BookSound, BookType, Opposite, Side
<1>6. \A k \in 1 .. n : b.levels[across][prices[k]] \in Seq(Order)
  <2>1. MatchState(f[0], 0, b, order) /\ Len(prices) = n
    BY <1>2
  <2>2. \A k \in 1 .. n : prices[k] \in DOMAIN b.levels[across]
    BY <1>2, <1>4, <2>1 DEF MatchState
  <2> HIDE DEF across
  <2> QED
    BY <1>5, <2>2
<1>7. PICK g : AvailSums(g, b.levels, order, prices, n)
  BY <1>2, <1>6, AvailSeries
<1>8. g[0] = 0 /\ AvailableLiquidity(b.levels, order) = g[n] /\ g[n] \in Int
  BY <1>2, <1>7 DEF AvailSums
<1>9. order.remaining_qty \in Int
  BY DEF Order
<1> DEFINE S(k) == MatchSums(f[k], k, b, order, prices, n, g)
           G    == {k \in 0 .. n : S(k)}
<1>10. S(0)
  <2>1. \A id : Moves(b, b, id, Filled(<< >>, id)) /\ Filled(<< >>, id) = 0
    BY NoMove, FilledOfNothing
  <2>2. order.remaining_qty = order.remaining_qty - 0
    BY <1>9
  <2> DEFINE x == f[0]
  <2>3. x.book = b /\ x.taker = order /\ x.trades = << >>
    BY <1>4
  <2> HIDE DEF x
  <2>4. /\ \A id : id # order.id => Moves(b, x.book, id, Filled(x.trades, id))
        /\ Filled(x.trades, order.id) = 0
    BY <2>1, <2>3
  <2>5. /\ x.taker.remaining_qty = order.remaining_qty
        /\ x.taker.remaining_qty = order.remaining_qty - g[0]
        /\ order.remaining_qty - x.taker.remaining_qty = 0
    BY <1>8, <1>9, <2>2, <2>3
  <2>6. MatchSums(x, 0, b, order, prices, n, g)
    BY <2>3, <2>4, <2>5 DEF MatchSums
  <2> QED
    BY <2>6 DEF x
<1>11. ASSUME NEW k \in 1 .. n, S(k - 1) PROVE S(k)
  <2>1. k - 1 \in 0 .. n
    BY <1>2
  <2> DEFINE x == f[k - 1]
             r == MatchLevel(x, prices[k])
  <2>2. MatchState(x, k - 1, b, order) /\ MatchSums(x, k - 1, b, order, prices, n, g)
    BY <1>2, <1>11, <2>1
  <2> HIDE DEF x
  <2>3. MatchSums(r, k, b, order, prices, n, g)
    BY <1>1, <1>5, <1>7, <2>2, MatchSumsStep
  <2> QED
    BY <1>3, <2>3 DEF x
<1> HIDE DEF S
<1>12. \A k \in 0 .. n : k \in G
  <2>1. 0 \in G
    BY <1>2, <1>10
  <2>2. ASSUME NEW k \in 1 .. n, k - 1 \in G PROVE k \in G
    BY <1>2, <1>11, <2>2
  <2> HIDE DEF G
  <2> QED
    BY <1>2, <2>1, <2>2, Upwards
<1>13. S(n)
  BY <1>2, <1>12
<1> QED
  BY <1>3, <1>8, <1>13 DEF S, MatchSums, Matched

-----------------------------------------------------------------------------
(* An order's account: what it traded, and what it has left on the book.   *)

\* An order never trades more than it asked for, what it traded and what it has left
\* add up, and a fill-or-kill order trades all or nothing and never rests.
Account(b, filled, o) ==
  /\ filled <= Max({o.qty, 0})
  /\ o.id \in DOMAIN b.index => LeftIs(b, o.id, o.qty - filled)
  /\ o.tif = "FOK" => /\ o.id \notin DOMAIN b.index
                      /\ filled = 0 \/ o.qty - filled <= Eps

\* An order that should rest is on the book, or it was filled.
Settled(b, filled, o) ==
  ShouldRest(o, o.qty) /\ o.id \notin DOMAIN b.index => o.qty - filled <= Eps

\* The larger of a quantity and zero.
LEMMA MaxWithZero == ASSUME NEW q \in Int PROVE Max({q, 0}) = IF q <= 0 THEN 0 ELSE q
<1> DEFINE S == {q, 0}
           x == Max(S)
<1>1. S \in SUBSET Int /\ S # {} /\ \A y \in S : y <= IF q <= 0 THEN 0 ELSE q
  OBVIOUS
<1> HIDE DEF S
<1>2. x \in S /\ \A y \in S : y <= x
  BY <1>1, MaxOfSet
<1> HIDE DEF x
<1>3. x \in {q, 0} /\ q <= x /\ 0 <= x
  BY <1>2 DEF S
<1>4. x = IF q <= 0 THEN 0 ELSE q
  BY <1>3
<1> QED
  BY <1>4 DEF x, S

\* What is left of an order on a sound book is more than dust.
LEMMA LeftOfResting ==
  ASSUME NEW b, BookSound(b), NEW id \in DOMAIN b.index, NEW q, LeftIs(b, id, q)
  PROVE  q > Eps
<1>1. PICK s \in Side, px \in Price : b.index[id] = <<s, px>>
  BY DEF BookSound
<1>2. IndexedAt(b, id, s, px)
  BY <1>1 DEF BookSound
<1>3. PICK i \in 1 .. Len(b.levels[s][px]) : b.levels[s][px][i].id = id
  BY <1>2 DEF IndexedAt
<1>4. px \in DOMAIN b.levels[s]
  BY <1>2 DEF IndexedAt
<1>5. b.levels[s][px][i].remaining_qty > Eps
  BY <1>3, <1>4 DEF BookSound, PlacedSoundly, ShouldRest
<1> QED
  BY <1>3, <1>4, <1>5 DEF LeftIs

\* An account stays in order as its order trades.
LEMMA AccountMoves ==
  ASSUME NEW b, NEW r, BookSound(r), NEW o \in Order, NEW filled \in Int, NEW g \in Int,
         Account(b, filled, o), Moves(b, r, o.id, g)
  PROVE  /\ Account(r, filled + g, o)
         /\ Settled(b, filled, o) => Settled(r, filled + g, o)
<1> DEFINE q == o.qty - filled
<1>1. o.qty \in Int /\ q \in Int /\ Eps \in Nat
  <2>1. o.qty \in Int
    BY QtyAssumption DEF Order
  <2> QED
    BY <2>1, EpsAssumption
<1>2. Max({o.qty, 0}) = IF o.qty <= 0 THEN 0 ELSE o.qty
  BY <1>1, MaxWithZero
<1>3. CASE o.id \notin DOMAIN b.index
  <2>1. g = 0 /\ o.id \notin DOMAIN r.index
    BY <1>3 DEF Moves
  <2>2. filled + g = filled
    BY <2>1
  <2> QED
    BY <1>3, <2>1, <2>2 DEF Account, Settled
<1>4. CASE o.id \in DOMAIN b.index
  <2>1. LeftIs(b, o.id, q) /\ o.tif # "FOK"
    BY <1>4 DEF Account
  <2>2. /\ o.id \in DOMAIN r.index => LeftIs(r, o.id, q - g)
        /\ o.id \notin DOMAIN r.index => g <= q /\ q - g <= Eps
    BY <1>1, <1>4, <2>1 DEF Moves
  <2>3. q - g = o.qty - (filled + g)
    BY <1>1
  <2>4. filled + g <= o.qty
    <3>1. CASE o.id \in DOMAIN r.index
      <4>1. q - g > Eps
        BY <2>2, <3>1, LeftOfResting
      <4> QED
        BY <1>1, <4>1
    <3>2. CASE o.id \notin DOMAIN r.index
      BY <1>1, <2>2, <3>2
    <3> QED
      BY <3>1, <3>2
  <2>5. filled + g <= Max({o.qty, 0})
    BY <1>1, <1>2, <2>4
  <2> HIDE DEF q
  <2> QED
    BY <2>1, <2>2, <2>3, <2>5 DEF Account, Settled
<1> QED
  BY <1>3, <1>4

\* What submitting an order does to the accounts.
Entered(b, r, trades, order) ==
  /\ \A id : id # order.id => Moves(b, r, id, Filled(trades, id))
  /\ Account(r, Filled(trades, order.id), order)
  /\ Settled(r, Filled(trades, order.id), order)

\* submit accounts for the order and for every other.
LEMMA SubmitSummed ==
  ASSUME NEW b, BookSound(b), NEW order \in Order, order.id \notin DOMAIN b.index,
         order.remaining_qty = order.qty, NEW s, s = Submit(b, order)
  PROVE  Entered(b, s.book, s.result.trades, order)
<1> DEFINE m    == MatchOrder(b, order)
           left == m.taker.remaining_qty
           id   == order.id
           f    == Filled(m.trades, id)
<1>1. order.qty \in Int
  BY QtyAssumption DEF Order
<1>2. Max({order.qty, 0}) = IF order.qty <= 0 THEN 0 ELSE order.qty
  BY <1>1, MaxWithZero
<1>3. CASE order.tif = "FOK" /\ AvailableLiquidity(b.levels, order) < order.qty
  <2>1. s.book = b /\ s.result.trades = << >>
    BY <1>3 DEF Submit
  <2>2. \A x : Moves(b, b, x, Filled(<< >>, x)) /\ Filled(<< >>, x) = 0
    BY NoMove, FilledOfNothing
  <2>3. Account(b, 0, order)
    BY <1>1, <1>2 DEF Account
  <2>4. Settled(b, 0, order)
    BY <1>3 DEF Settled, ShouldRest
  <2>5. Entered(b, b, << >>, order)
    BY <2>2, <2>3, <2>4 DEF Entered
  <2> QED
    BY <2>1, <2>5
<1>4. CASE ~(order.tif = "FOK" /\ AvailableLiquidity(b.levels, order) < order.qty)
  <2>1. /\ s.book = IF ShouldRest(order, left) THEN InsertResting(m.book, m.taker) ELSE m.book
        /\ s.result.trades = m.trades
    BY <1>4 DEF Submit
  <2> HIDE DEF m
  <2>2. /\ m.trades \in Seq(Trade) /\ TakerReduced(m.taker, order) /\ BookSound(m.book)
        /\ DOMAIN m.book.index \subseteq DOMAIN b.index
    BY OrderMatched DEF m
  <2>3. /\ m.taker \in Order /\ left \in Int /\ m.taker.id = id
        /\ id \notin DOMAIN m.book.index
    BY <2>2, ReducedTaker
  <2>4. Matched(m, b, order)
    BY OrderSummed DEF m
  <2>5. /\ \A x : x # id => Moves(b, m.book, x, Filled(m.trades, x))
        /\ f = order.qty - left
        /\ left = order.qty \/ left >= 0
        /\ left > Eps => left = order.qty - AvailableLiquidity(b.levels, order)
        /\ AvailableLiquidity(b.levels, order) \in Int
    BY <2>4 DEF Matched
  <2>6. \A x : Filled(m.trades, x) \in Int
    BY <2>2, FilledInt
  <2>7. f \in Int /\ order.qty - f = left /\ f <= Max({order.qty, 0})
    <3> HIDE DEF f
    <3> QED
      BY <1>1, <1>2, <2>3, <2>5
  <2> HIDE DEF f
  <2>8. CASE ShouldRest(order, left)
    <3> DEFINE r == InsertResting(m.book, m.taker)
    <3>1. /\ \A x : x # id => Moves(m.book, r, x, 0)
          /\ LeftIs(r, id, left) /\ id \in DOMAIN r.index
      <4> HIDE DEF r
      <4> QED
        BY <2>2, <2>3, InsertMoves DEF r
    <3>2. s.book = r
      BY <2>1, <2>8
    <3> HIDE DEF r
    <3>3. ASSUME NEW x, x # id PROVE Moves(b, r, x, Filled(m.trades, x))
      <4> DEFINE g == Filled(m.trades, x)
      <4>1. g \in Int /\ Moves(b, m.book, x, g) /\ Moves(m.book, r, x, 0)
        BY <2>5, <2>6, <3>1, <3>3
      <4> HIDE DEF g
      <4>2. Moves(b, r, x, g + 0)
        BY <4>1, MovesOn
      <4>3. g + 0 = g
        BY <4>1
      <4> QED
        BY <4>2, <4>3 DEF g
    <3>4. Account(r, f, order)
      BY <2>7, <2>8, <3>1 DEF Account, ShouldRest
    <3>5. Settled(r, f, order)
      BY <3>1 DEF Settled
    <3> QED
      BY <2>1, <3>2, <3>3, <3>4, <3>5 DEF Entered, f
  <2>9. CASE ~ShouldRest(order, left)
    <3>1. s.book = m.book
      BY <2>1, <2>9
    <3>2. order.tif = "FOK" => left <= Eps
      <4>1. order.tif = "FOK" => AvailableLiquidity(b.levels, order) >= order.qty
        BY <1>1, <1>4, <2>5
      <4> QED
        BY <1>1, <2>3, <2>5, <4>1, EpsAssumption
    <3>3. Account(m.book, f, order)
      BY <2>3, <2>7, <3>2 DEF Account
    <3>4. Settled(m.book, f, order)
      <4>1. ShouldRest(order, order.qty) => ~(left > Eps)
        BY <2>9 DEF ShouldRest
      <4> QED
        BY <2>3, <2>7, <4>1, EpsAssumption DEF Settled
    <3> QED
      BY <2>1, <2>5, <3>1, <3>3, <3>4 DEF Entered, f
  <2> QED
    BY <2>8, <2>9
<1> QED
  BY <1>3, <1>4

-----------------------------------------------------------------------------
(* The accounts of a journal's orders.                                     *)

\* The events in J were taken: their orders' accounts are in order; the orders of
\* the others traded nothing and are not on the book.
Accounts(b, trades, events, J) ==
  \A i \in SubmittedIn(events) :
    LET o == events[i].order
    IN  IF i \in J THEN Account(b, Filled(trades, o.id), o)
                   ELSE Filled(trades, o.id) = 0 /\ o.id \notin DOMAIN b.index

\* The orders of two submissions have different identifiers.
OwnIds(events) ==
  /\ \A i \in SubmittedIn(events) : /\ events[i].order \in Order
                                   /\ events[i].order.remaining_qty = events[i].order.qty
  /\ \A i, j \in SubmittedIn(events) : events[i].order.id = events[j].order.id => i = j

\* The orders of a sound journal have identifiers of their own.
LEMMA JournalOwns ==
  ASSUME NEW events, NEW N, JournalSound(events, N) PROVE OwnIds(events)
<1>1. events \in Seq(EngineEvent)
  BY DEF JournalSound
<1>2. \A i \in DOMAIN events : events[i] \in EngineEvent
  BY <1>1, ElementOfSeq, LenProperties
<1>3. \A i \in SubmittedIn(events) : events[i].order \in Order
  BY <1>2 DEF SubmittedIn, EngineEvent
<1> QED
  BY <1>3 DEF OwnIds, JournalSound

\* Event i of a journal cancels order id.
Cancels(events, i, id) == events[i].kind # "Submit" /\ events[i].order_id = id

\* Event i leads from one book and its trades to another.
Accounted(b, trades, r, all, events, J, i) ==
  /\ Accounts(r, all, events, J \cup {i})
  /\ \A j \in SubmittedIn(events) : LET o == events[j].order IN
       /\ j = i => Settled(r, Filled(all, o.id), o)
       /\ j \in J /\ j # i /\ ~Cancels(events, i, o.id) /\ Settled(b, Filled(trades, o.id), o)
            => Settled(r, Filled(all, o.id), o)

\* One more submission.
LEMMA SubmitAccounted ==
  ASSUME NEW events, OwnIds(events), NEW b, BookSound(b),
         NEW trades \in Seq(Trade), NEW J, Accounts(b, trades, events, J),
         NEW i \in SubmittedIn(events), i \notin J,
         NEW s, s = Submit(b, events[i].order),
         NEW all, all = trades \o s.result.trades
  PROVE  Accounted(b, trades, s.book, all, events, J, i)
<1> DEFINE order == events[i].order
           r     == s.book
           more  == s.result.trades
<1>1. order \in Order /\ order.remaining_qty = order.qty
  BY DEF OwnIds
<1>2. Filled(trades, order.id) = 0 /\ order.id \notin DOMAIN b.index
  BY DEF Accounts
<1> HIDE DEF order
<1>3. BookSound(r) /\ more \in Seq(Trade) /\ DOMAIN r.index \subseteq DOMAIN b.index \cup {order.id}
  BY <1>1, <1>2, SubmitSound DEF order
<1>4. Entered(b, r, more, order)
  BY <1>1, <1>2, SubmitSummed DEF order
<1> HIDE DEF r, more
<1>5. \A id : /\ Filled(all, id) = Filled(trades, id) + Filled(more, id)
              /\ Filled(trades, id) \in Int /\ Filled(more, id) \in Int
  <2>1. all = trades \o more
    BY DEF more
  <2> QED
    BY <1>3, <2>1, FilledConcat, FilledInt
<1>6. Filled(all, order.id) = Filled(more, order.id)
  BY <1>2, <1>5
<1>7. ASSUME NEW j \in SubmittedIn(events), j # i
      PROVE  /\ IF j \in J THEN Account(r, Filled(all, events[j].order.id), events[j].order)
                ELSE Filled(all, events[j].order.id) = 0 /\ events[j].order.id \notin DOMAIN r.index
             /\ j \in J /\ Settled(b, Filled(trades, events[j].order.id), events[j].order)
                  => Settled(r, Filled(all, events[j].order.id), events[j].order)
  <2> DEFINE o      == events[j].order
             filled == Filled(trades, o.id)
             g      == Filled(more, o.id)
  <2>1. o.id # order.id /\ o \in Order
    BY <1>7 DEF OwnIds, order
  <2>2. IF j \in J THEN Account(b, filled, o) ELSE filled = 0 /\ o.id \notin DOMAIN b.index
    BY DEF Accounts
  <2> HIDE DEF o
  <2>3. Moves(b, r, o.id, g)
    BY <1>4, <2>1 DEF Entered
  <2>4. filled \in Int /\ g \in Int /\ Filled(all, o.id) = filled + g
    BY <1>5
  <2> HIDE DEF filled, g
  <2>5. CASE j \in J
    <3>1. Account(r, filled + g, o) /\ (Settled(b, filled, o) => Settled(r, filled + g, o))
      BY <1>3, <2>1, <2>2, <2>3, <2>4, <2>5, AccountMoves
    <3> QED
      BY <2>4, <2>5, <3>1 DEF filled, o
  <2>6. CASE j \notin J
    <3>1. filled = 0 /\ o.id \notin DOMAIN b.index
      BY <2>2, <2>6
    <3>2. g = 0 /\ o.id \notin DOMAIN r.index
      BY <2>3, <3>1 DEF Moves
    <3>3. Filled(all, o.id) = 0
      BY <2>4, <3>1, <3>2
    <3> QED
      BY <2>6, <3>2, <3>3 DEF o
  <2> QED
    BY <2>5, <2>6
<1>8. /\ Account(r, Filled(all, order.id), order)
      /\ Settled(r, Filled(all, order.id), order)
  BY <1>4, <1>6 DEF Entered
<1>9. Accounts(r, all, events, J \cup {i})
  <2> SUFFICES ASSUME NEW j \in SubmittedIn(events)
               PROVE  IF j \in J \cup {i}
                        THEN Account(r, Filled(all, events[j].order.id), events[j].order)
                        ELSE /\ Filled(all, events[j].order.id) = 0
                             /\ events[j].order.id \notin DOMAIN r.index
    BY DEF Accounts
  <2>1. CASE j = i
    BY <1>8, <2>1 DEF order
  <2>2. CASE j # i
    BY <1>7, <2>2
  <2> QED
    BY <2>1, <2>2
<1>10. ASSUME NEW j \in SubmittedIn(events)
       PROVE  IF j = i THEN Settled(r, Filled(all, events[j].order.id), events[j].order)
              ELSE j \in J /\ Settled(b, Filled(trades, events[j].order.id), events[j].order)
                     => Settled(r, Filled(all, events[j].order.id), events[j].order)
  BY <1>7, <1>8 DEF order
<1> QED
  BY <1>9, <1>10 DEF r, Accounted

\* One more cancellation.
LEMMA CancelAccounted ==
  ASSUME NEW events, OwnIds(events), NEW b, BookSound(b),
         NEW trades \in Seq(Trade), NEW J, Accounts(b, trades, events, J),
         NEW id, NEW r, r = CancelOrder(b, id).book
  PROVE  /\ Accounts(r, trades, events, J)
         /\ \A j \in SubmittedIn(events) : LET o == events[j].order IN
              j \in J /\ o.id # id /\ Settled(b, Filled(trades, o.id), o)
                => Settled(r, Filled(trades, o.id), o)
<1>1. BookSound(r) /\ DOMAIN r.index = DOMAIN b.index \ {id}
  BY CancelSound
<1>2. ASSUME NEW j \in SubmittedIn(events)
      PROVE  /\ IF j \in J THEN Account(r, Filled(trades, events[j].order.id), events[j].order)
                ELSE Filled(trades, events[j].order.id) = 0 /\ events[j].order.id \notin DOMAIN r.index
             /\ j \in J /\ events[j].order.id # id
                  /\ Settled(b, Filled(trades, events[j].order.id), events[j].order)
                  => Settled(r, Filled(trades, events[j].order.id), events[j].order)
  <2> DEFINE o      == events[j].order
             filled == Filled(trades, o.id)
  <2>1. o \in Order
    BY DEF OwnIds
  <2>2. IF j \in J THEN Account(b, filled, o) ELSE filled = 0 /\ o.id \notin DOMAIN b.index
    BY DEF Accounts
  <2>3. filled \in Int
    BY FilledInt
  <2> HIDE DEF o, filled
  <2>4. CASE j \notin J
    BY <1>1, <2>2, <2>4 DEF o, filled
  <2>5. CASE j \in J /\ o.id = id
    <3>1. Account(b, filled, o) /\ o.id \notin DOMAIN r.index
      BY <1>1, <2>2, <2>5
    <3>2. Account(r, filled, o)
      BY <3>1 DEF Account
    <3> QED
      BY <2>5, <3>2 DEF o, filled
  <2>6. CASE j \in J /\ o.id # id
    <3>0. \A other : other # id => Moves(b, r, other, 0)
      BY CancelMoves
    <3>1. Moves(b, r, o.id, 0) /\ Account(b, filled, o)
      BY <2>2, <2>6, <3>0
    <3>2. Account(r, filled + 0, o) /\ (Settled(b, filled, o) => Settled(r, filled + 0, o))
      BY <1>1, <2>1, <2>3, <3>1, AccountMoves
    <3>3. filled + 0 = filled
      BY <2>3
    <3> QED
      BY <2>6, <3>2, <3>3 DEF o, filled
  <2> QED
    BY <2>4, <2>5, <2>6
<1>3. Accounts(r, trades, events, J)
  BY <1>2 DEF Accounts
<1> QED
  BY <1>2, <1>3

\* One more event of a journal.
LEMMA EventAccounted ==
  ASSUME NEW events, OwnIds(events), NEW b, BookSound(b),
         NEW trades \in Seq(Trade), NEW J, Accounts(b, trades, events, J),
         NEW i \in DOMAIN events, i \notin J, NEW e, e = events[i],
         NEW r, r = After(b, e), NEW all, all = trades \o Made(b, e)
  PROVE  Accounted(b, trades, r, all, events, J, i)
<1>1. CASE e.kind = "Submit"
  <2> DEFINE s == Submit(b, e.order)
  <2>1. i \in SubmittedIn(events) /\ ~\E id : Cancels(events, i, id)
    BY <1>1 DEF SubmittedIn, Cancels
  <2>2. r = s.book /\ all = trades \o s.result.trades
    BY <1>1 DEF After, Made
  <2>3. s = Submit(b, events[i].order)
    OBVIOUS
  <2> HIDE DEF s
  <2>4. Accounted(b, trades, s.book, all, events, J, i)
    BY <2>1, <2>2, <2>3, SubmitAccounted
  <2> QED
    BY <2>2, <2>4
<1>2. CASE e.kind # "Submit"
  <2> DEFINE id == e.order_id
  <2>1. i \notin SubmittedIn(events) /\ Cancels(events, i, id)
    BY <1>2 DEF SubmittedIn, Cancels
  <2>2. r = CancelOrder(b, id).book /\ all = trades
    BY <1>2, ConcatEmptySeq DEF After, Made
  <2> HIDE DEF id
  <2>3. /\ Accounts(r, trades, events, J)
        /\ \A j \in SubmittedIn(events) : LET o == events[j].order IN
             j \in J /\ o.id # id /\ Settled(b, Filled(trades, o.id), o)
               => Settled(r, Filled(trades, o.id), o)
    BY <2>2, CancelAccounted
  <2>4. Accounts(r, trades, events, J \cup {i})
    BY <2>1, <2>3 DEF Accounts
  <2> QED
    BY <2>1, <2>2, <2>3, <2>4 DEF Accounted
<1> QED
  BY <1>1, <1>2

\* Nothing was traded and nothing rests before the first event.
LEMMA NothingAccounted ==
  ASSUME NEW events PROVE Accounts(EmptyBook, << >>, events, {})
<1>1. DOMAIN EmptyBook.index = {}
  BY EmptySound
<1>2. \A id : Filled(<< >>, id) = 0
  BY FilledOfNothing
<1> QED
  BY <1>1, <1>2 DEF Accounts

\* An order on the levels of a sound book is in its index, and the other way round.
LEMMA RestingIs ==
  ASSUME NEW b, BookSound(b)
  PROVE  /\ \A x \in RestingOrders(b.levels) : \A q :
              x.id \in DOMAIN b.index /\ (LeftIs(b, x.id, q) => x.remaining_qty = q)
         /\ \A id \in DOMAIN b.index : \E x \in RestingOrders(b.levels) : x.id = id
<1>1. /\ \A s \in Side : \A px \in DOMAIN b.levels[s] : b.levels[s][px] \in Seq(Order)
      /\ \A s \in Side : \A px \in DOMAIN b.levels[s] : \A i \in 1 .. Len(b.levels[s][px]) :
           b.levels[s][px][i].id \in DOMAIN b.index
  BY DEF BookSound, BookType, PlacedSoundly
<1>2. \A s \in Side : \A px \in DOMAIN b.levels[s] :
        ToSet(b.levels[s][px]) = {b.levels[s][px][i] : i \in 1 .. Len(b.levels[s][px])}
  BY <1>1, LenProperties DEF ToSet
<1>3. ASSUME NEW x \in RestingOrders(b.levels), NEW q
      PROVE  x.id \in DOMAIN b.index /\ (LeftIs(b, x.id, q) => x.remaining_qty = q)
  <2>1. PICK s \in Side : x \in UNION {ToSet(b.levels[s][px]) : px \in DOMAIN b.levels[s]}
    BY DEF RestingOrders
  <2>2. PICK px \in DOMAIN b.levels[s] : x \in ToSet(b.levels[s][px])
    BY <2>1
  <2>3. PICK i \in 1 .. Len(b.levels[s][px]) : x = b.levels[s][px][i]
    BY <1>2, <2>2
  <2> QED
    BY <1>1, <2>3 DEF LeftIs
<1>4. ASSUME NEW id \in DOMAIN b.index PROVE \E x \in RestingOrders(b.levels) : x.id = id
  <2>1. PICK s \in Side, px \in Price : b.index[id] = <<s, px>>
    BY DEF BookSound
  <2>2. IndexedAt(b, id, s, px)
    BY <2>1 DEF BookSound
  <2>3. PICK i \in 1 .. Len(b.levels[s][px]) : b.levels[s][px][i].id = id
    BY <2>2 DEF IndexedAt
  <2>4. px \in DOMAIN b.levels[s]
    BY <2>2 DEF IndexedAt
  <2>5. b.levels[s][px][i] \in ToSet(b.levels[s][px])
    BY <1>2, <2>4
  <2>6. b.levels[s][px][i] \in RestingOrders(b.levels)
    BY <2>4, <2>5 DEF RestingOrders
  <2> QED
    BY <2>3, <2>6
<1> QED
  BY <1>3, <1>4

\* What the accounts say of one order of the journal.
Conserved(b, trades, o, taken) ==
  LET filled == Filled(trades, o.id) IN
  /\ filled <= Max({o.qty, 0}) /\ filled \in Int
  /\ ~taken => filled = 0
  /\ \A x \in RestingOrders(b.levels) : x.id = o.id => x.remaining_qty + filled = o.qty
  /\ taken /\ o.tif = "FOK" => /\ filled = 0 \/ o.qty - filled <= Eps
                               /\ \A x \in RestingOrders(b.levels) : x.id # o.id
  /\ (\A x \in RestingOrders(b.levels) : x.id # o.id) /\ Settled(b, filled, o)
       => (ShouldRest(o, o.qty) => o.qty - filled <= Eps)

\* Accounts in order conserve the quantity of each order.
LEMMA AccountsConserve ==
  ASSUME NEW events, OwnIds(events), NEW b, BookSound(b), NEW trades \in Seq(Trade),
         NEW J, Accounts(b, trades, events, J), NEW i \in SubmittedIn(events)
  PROVE  Conserved(b, trades, events[i].order, i \in J)
<1> DEFINE o      == events[i].order
           filled == Filled(trades, o.id)
           R      == RestingOrders(b.levels)
<1>1. o.qty \in Int
  <2>1. o \in Order
    BY DEF OwnIds
  <2> QED
    BY <2>1, QtyAssumption DEF Order
<1>2. IF i \in J THEN Account(b, filled, o) ELSE filled = 0 /\ o.id \notin DOMAIN b.index
  BY DEF Accounts
<1>3. filled \in Int
  BY FilledInt
<1>4. Max({o.qty, 0}) = IF o.qty <= 0 THEN 0 ELSE o.qty
  BY <1>1, MaxWithZero
<1> HIDE DEF o, filled, R
<1>5. /\ \A x \in R : \A q : x.id \in DOMAIN b.index /\ (LeftIs(b, x.id, q) => x.remaining_qty = q)
      /\ \A id \in DOMAIN b.index : \E x \in R : x.id = id
  BY RestingIs DEF R
<1>6. filled <= Max({o.qty, 0}) /\ (i \notin J => filled = 0)
  BY <1>1, <1>2, <1>4 DEF Account
<1>7. ASSUME NEW x \in R, x.id = o.id PROVE x.remaining_qty + filled = o.qty
  <2>1. o.id \in DOMAIN b.index
    BY <1>5, <1>7
  <2>2. LeftIs(b, o.id, o.qty - filled)
    BY <1>2, <2>1 DEF Account
  <2>3. x.remaining_qty = o.qty - filled
    BY <1>5, <1>7, <2>2
  <2> QED
    BY <1>1, <1>3, <2>3
<1>8. i \in J /\ o.tif = "FOK" => /\ filled = 0 \/ o.qty - filled <= Eps
                                  /\ \A x \in R : x.id # o.id
  BY <1>2, <1>5 DEF Account
<1>9. (\A x \in R : x.id # o.id) /\ Settled(b, filled, o)
        => (ShouldRest(o, o.qty) => o.qty - filled <= Eps)
  BY <1>5 DEF Settled
<1> QED
  BY <1>3, <1>6, <1>7, <1>8, <1>9 DEF Conserved, o, filled, R

\* The events a replay has taken after k turns.
TakenUpTo(events, target, k) ==
  {ReplayOrder(events)[j] : j \in {l \in 1 .. k : ~(EventTime(events[ReplayOrder(events)[l]]) > target)}}

\* A replay accounts for the orders it took.
LEMMA ReplayAccounted ==
  ASSUME NEW events, NEW N, JournalSound(events, N), NEW target \in Int,
         NEW n \in Nat, n = Len(events), NEW g, ReplayTurns(g, events, target, n)
  PROVE  \A k \in 0 .. n : Accounts(g[k].book, g[k].trades, events, TakenUpTo(events, target, k))
<1> DEFINE P    == ReplayOrder(events)
           J(k) == TakenUpTo(events, target, k)
           S(k) == Accounts(g[k].book, g[k].trades, events, J(k))
           G    == {k \in 0 .. n : S(k)}
<1>1. EventsTimed(events, n) /\ OwnIds(events)
  BY JournalTimed, JournalOwns
<1>2. ListedAs(P, 1 .. n, Earlier(events), n)
  BY <1>1, ReplayOrderLists
<1>3. /\ DOMAIN events = 1 .. n
      /\ \A k \in 1 .. n : P[k] \in DOMAIN events
      /\ \A j, k \in 1 .. n : j < k => P[j] # P[k]
  <2>1. \A j, k \in 1 .. n : j < k => <<P[j], P[k]>> \in Earlier(events)
    BY <1>2 DEF ListedAs
  <2>2. \A i \in 1 .. n : <<i, i>> \notin Earlier(events)
    BY <1>1 DEF Earlier, EventsTimed
  <2> QED
    BY <1>1, <1>2, <2>1, <2>2 DEF ListedAs, EventsTimed
<1>4. \A k \in 0 .. n : ReplayValue(g[k])
  BY ReplayTurnsSound
<1>5. \A k : J(k) = {P[j] : j \in {l \in 1 .. k : ~(EventTime(events[P[l]]) > target)}}
  BY DEF TakenUpTo
<1> HIDE DEF P, J
<1>6. S(0)
  <2>1. g[0].book = EmptyBook /\ g[0].trades = << >>
    BY DEF ReplayTurns, NewReplay
  <2>2. J(0) = {}
    BY <1>5
  <2> QED
    BY <2>1, <2>2, NothingAccounted
<1>7. ASSUME NEW k \in 1 .. n, S(k - 1) PROVE S(k)
  <2> DEFINE r == g[k - 1]
             e == events[P[k]]
  <2>0. k - 1 \in 0 .. n
    OBVIOUS
  <2>1. g[k] = ReplayEvent(r, e, target) /\ ReplayValue(r)
    BY <1>4, <2>0 DEF ReplayTurns, P
  <2>2. /\ Accounts(r.book, r.trades, events, J(k - 1))
        /\ BookSound(r.book) /\ r.trades \in Seq(Trade)
    BY <1>7, <2>1 DEF ReplayValue
  <2>3. P[k] \in DOMAIN events /\ P[k] \notin J(k - 1) /\ e = events[P[k]]
    <3>1. \A j \in 1 .. k - 1 : j \in 1 .. n /\ j < k
      OBVIOUS
    <3> QED
      BY <1>3, <1>5, <3>1
  <2>4. J(k) = IF EventTime(e) > target THEN J(k - 1) ELSE J(k - 1) \cup {P[k]}
    <3>1. 1 .. k = (1 .. k - 1) \cup {k}
      OBVIOUS
    <3> QED
      BY <1>5, <3>1
  <2> HIDE DEF r, e
  <2>5. Turned(g[k], r, e, target)
    BY <2>1, ReplayEventIs
  <2>6. CASE EventTime(e) > target
    BY <2>2, <2>4, <2>5, <2>6 DEF Turned
  <2>7. CASE ~(EventTime(e) > target)
    <3> DEFINE b == After(r.book, e)
               all == r.trades \o Made(r.book, e)
    <3>1. g[k].book = b /\ g[k].trades = all
      BY <2>5, <2>7 DEF Turned
    <3> HIDE DEF b, all
    <3>2. Accounted(r.book, r.trades, b, all, events, J(k - 1), P[k])
      BY <1>1, <2>2, <2>3, EventAccounted DEF b, all
    <3> QED
      BY <2>4, <2>7, <3>1, <3>2 DEF Accounted
  <2> QED
    BY <2>6, <2>7
<1> HIDE DEF S
<1>8. \A k \in 0 .. n : k \in G
  <2>1. 0 \in G
    BY <1>6
  <2>2. ASSUME NEW k \in 1 .. n, k - 1 \in G PROVE k \in G
    BY <1>7, <2>2
  <2> HIDE DEF G
  <2> QED
    BY <2>1, <2>2, Upwards
<1> QED
  BY <1>8 DEF S, J

\* A replay of any reachable journal, to any time and in whatever order it visits the
\* events, conserves the quantity of every order.
THEOREM EveryReplayConserves == Spec => []ReplayConserves
<1>1. EngineInv => ReplayConserves
  <2> SUFFICES ASSUME EngineInv, NEW target \in Times, NEW i \in SubmittedIn(journal)
               PROVE  LET r      == Replayed(journal, target)
                          o      == journal[i].order
                          filled == Filled(r.trades, o.id)
                      IN  /\ filled <= Max({o.qty, 0})
                          /\ EventTime(journal[i]) > target => filled = 0
                          /\ \A x \in RestingOrders(r.book.levels) :
                               x.id = o.id => x.remaining_qty + filled = o.qty
    BY DEF ReplayConserves
  <2> DEFINE n == Len(journal)
             r == Replayed(journal, target)
             J == TakenUpTo(journal, target, n)
  <2>1. JournalSound(journal, next_order_id)
    BY DEF EngineInv, EngineSound, Current
  <2>2. EventsTimed(journal, n) /\ n \in Nat /\ OwnIds(journal)
    BY <2>1, JournalTimed, JournalOwns DEF EventsTimed
  <2>3. target \in Int
    BY TimeAssumption, SeedAssumption DEF Times
  <2>4. DOMAIN ReplayOrder(journal) = 1 .. n
    BY <2>2, ReplayOrderLists DEF ListedAs
  <2>5. PICK g : ReplayTurns(g, journal, target, n)
    BY <2>2, <2>4, ReplaySeries
  <2>6. r = g[n]
    BY <2>5 DEF ReplayTurns
  <2>n. n = Len(journal)
    OBVIOUS
  <2> HIDE DEF n
  <2>7. \A k \in 0 .. n : Accounts(g[k].book, g[k].trades, journal, TakenUpTo(journal, target, k))
    BY <2>1, <2>2, <2>3, <2>5, <2>n, ReplayAccounted
  <2> HIDE DEF r
  <2>8. Accounts(r.book, r.trades, journal, J)
    BY <2>2, <2>6, <2>7
  <2>9. ReplayValue(r)
    BY <2>1, <2>3, ReplayEndsSound DEF r
  <2>10. EventTime(journal[i]) > target => i \notin J
    BY DEF TakenUpTo
  <2> HIDE DEF J
  <2>11. Conserved(r.book, r.trades, journal[i].order, i \in J)
    BY <2>2, <2>8, <2>9, AccountsConserve DEF ReplayValue
  <2> QED
    BY <2>10, <2>11 DEF Conserved, r
<1> QED
  BY <1>1, EngineInvariant, PTL

\* A replay in whatever order is sound: it validates and it conserves quantity.
THEOREM EveryReplayIsSound == Spec => []ReplaySound
<1>1. ReplayValidates /\ ReplayConserves => ReplaySound
  BY DEF ReplaySound
<1> QED
  BY <1>1, EveryReplayValidates, EveryReplayConserves, PTL

-----------------------------------------------------------------------------
(* The live engine: the run of its journal.                                *)

\* After k events of the run the accounts of those events' orders are in order, and
\* the orders that should rest and were not cancelled rest or were filled.
RunBooked(f, k, events) ==
  /\ Accounts(f[k].book, f[k].trades, events, 1 .. k)
  /\ \A i \in SubmittedIn(events) : LET o == events[i].order IN
       i <= k /\ (\A j \in DOMAIN events : i < j /\ j <= k => ~Cancels(events, j, o.id))
         => Settled(f[k].book, Filled(f[k].trades, o.id), o)

\* The run accounts for the orders of its events.
LEMMA RunAccounted ==
  ASSUME NEW events, NEW N, JournalSound(events, N), NEW n \in Nat, n = Len(events),
         NEW f, RunTurns(f, events, n)
  PROVE  \A k \in 0 .. n : RunBooked(f, k, events)
<1> DEFINE S(k) == RunBooked(f, k, events)
           G    == {k \in 0 .. n : S(k)}
<1>1. OwnIds(events) /\ DOMAIN events = 1 .. n
  BY JournalOwns, JournalTimed DEF EventsTimed
<1>2. /\ \A k \in 0 .. n : BookSound(f[k].book) /\ f[k].trades \in Seq(Trade)
      /\ \A k \in 1 .. n : RunNext(f[k], f[k - 1], events[k])
  BY RunTurnsSound DEF RunAll, RunSound, RunValue, RunStepped
<1>3. S(0)
  <2>1. f[0].book = EmptyBook /\ f[0].trades = << >>
    BY DEF RunTurns, NewRun
  <2>2. 1 .. 0 = {} /\ \A i \in SubmittedIn(events) : ~(i <= 0)
    BY <1>1 DEF SubmittedIn
  <2> QED
    BY <2>1, <2>2, NothingAccounted DEF RunBooked
<1>4. ASSUME NEW k \in 1 .. n, S(k - 1) PROVE S(k)
  <2> DEFINE b   == f[k - 1].book
             old == f[k - 1].trades
             r   == f[k].book
             all == f[k].trades
             J   == 1 .. k - 1
  <2>1. /\ k - 1 \in 0 .. n /\ k \in DOMAIN events /\ k \notin J /\ 1 .. k = J \cup {k}
    BY <1>1
  <2>2. /\ r = After(b, events[k]) /\ all = old \o Made(b, events[k])
        /\ BookSound(b) /\ old \in Seq(Trade)
    BY <1>2, <2>1 DEF RunNext
  <2>3. /\ Accounts(b, old, events, J)
        /\ \A i \in SubmittedIn(events) : LET o == events[i].order IN
             i <= k - 1 /\ (\A j \in DOMAIN events : i < j /\ j <= k - 1 => ~Cancels(events, j, o.id))
               => Settled(b, Filled(old, o.id), o)
    BY <1>4 DEF RunBooked
  <2> HIDE DEF b, old, r, all
  <2>4. Accounted(b, old, r, all, events, J, k)
    BY <1>1, <2>1, <2>2, <2>3, EventAccounted
  <2>5. Accounts(r, all, events, 1 .. k)
    BY <2>1, <2>4 DEF Accounted
  <2>6. ASSUME NEW i \in SubmittedIn(events), i <= k,
               \A j \in DOMAIN events : i < j /\ j <= k => ~Cancels(events, j, events[i].order.id)
        PROVE  Settled(r, Filled(all, events[i].order.id), events[i].order)
    <3>1. CASE i = k
      BY <2>4, <3>1 DEF Accounted
    <3>2. CASE i # k
      <4>1. i \in 1 .. n
        BY <1>1 DEF SubmittedIn
      <4>2. i <= k - 1 /\ i \in J
        BY <2>6, <3>2, <4>1
      <4>3. \A j \in DOMAIN events : i < j /\ j <= k - 1 => ~Cancels(events, j, events[i].order.id)
        BY <1>1, <2>6
      <4>4. Settled(b, Filled(old, events[i].order.id), events[i].order)
        BY <2>3, <4>2, <4>3
      <4>5. ~Cancels(events, k, events[i].order.id)
        BY <2>1, <2>6, <4>1, <4>2
      <4> QED
        BY <2>4, <3>2, <4>2, <4>4, <4>5 DEF Accounted
    <3> QED
      BY <3>1, <3>2
  <2> QED
    BY <2>5, <2>6 DEF RunBooked, r, all
<1> HIDE DEF S
<1>5. \A k \in 0 .. n : k \in G
  <2>1. 0 \in G
    BY <1>3
  <2>2. ASSUME NEW k \in 1 .. n, k - 1 \in G PROVE k \in G
    BY <1>4, <2>2
  <2> HIDE DEF G
  <2> QED
    BY <2>1, <2>2, Upwards
<1> QED
  BY <1>5 DEF S

\* What the accounts of the live engine say of an order of its journal.
LEMMA LiveConserves ==
  ASSUME EngineInv, NEW i \in SubmittedIn(journal)
  PROVE  /\ Conserved(book, trade_log, journal[i].order, TRUE)
         /\ ~CancelledAfter(journal, i)
              => Settled(book, Filled(trade_log, journal[i].order.id), journal[i].order)
<1> DEFINE n == Len(journal)
<1>1. /\ JournalSound(journal, next_order_id) /\ BookSound(book) /\ trade_log \in Seq(Trade)
      /\ RunFromStart(journal) = [book |-> book, trades |-> trade_log, live |-> live]
  BY DEF EngineInv, EngineSound, Current, TradesSound
<1>2. n \in Nat /\ DOMAIN journal = 1 .. n /\ OwnIds(journal) /\ journal \in Seq(EngineEvent)
  BY <1>1, JournalTimed, JournalOwns DEF EventsTimed
<1>n. n = Len(journal)
  OBVIOUS
<1> HIDE DEF n
<1>3. PICK f : RunTurns(f, journal, n)
  BY <1>2, RunSeries
<1>4. f[n].book = book /\ f[n].trades = trade_log
  BY <1>1, <1>3 DEF RunTurns
<1>5. RunBooked(f, n, journal)
  BY <1>1, <1>2, <1>3, <1>n, RunAccounted
<1>6. Accounts(book, trade_log, journal, 1 .. n) /\ i \in 1 .. n
  BY <1>2, <1>4, <1>5 DEF RunBooked, SubmittedIn
<1>7. Conserved(book, trade_log, journal[i].order, i \in 1 .. n)
  BY <1>1, <1>2, <1>6, AccountsConserve
<1>8. ASSUME ~CancelledAfter(journal, i)
      PROVE  Settled(book, Filled(trade_log, journal[i].order.id), journal[i].order)
  <2>1. \A j \in DOMAIN journal : journal[j].kind \in {"Submit", "Cancel"}
    <3>1. \A j \in DOMAIN journal : journal[j] \in EngineEvent
      BY <1>2, <1>n, ElementOfSeq
    <3> QED
      BY <3>1 DEF EngineEvent
  <2>2. \A j \in DOMAIN journal :
          i < j /\ j <= n => ~Cancels(journal, j, journal[i].order.id)
    <3> TAKE j \in DOMAIN journal
    <3>1. i < j => j > i
      BY <1>2, <1>6
    <3> QED
      BY <1>8, <2>1, <3>1 DEF CancelledAfter, Cancels
  <2>3. i <= n
    BY <1>2, <1>6
  <2> QED
    BY <1>4, <1>5, <2>2, <2>3 DEF RunBooked
<1> QED
  BY <1>6, <1>7, <1>8

\* No quantity is invented or lost, in any reachable engine: an order never trades
\* more than it asked for, what it traded and what it has left add up, and one that
\* should rest is on the book, was filled up to Eps, or was cancelled.
THEOREM QuantityIsConserved == Spec => []QuantityConserved
<1>1. EngineInv => QuantityConserved
  <2> SUFFICES ASSUME EngineInv, NEW i \in SubmittedIn(journal)
               PROVE  LET o       == journal[i].order
                          filled  == Filled(trade_log, o.id)
                          resting == {r \in RestingOrders(book.levels) : r.id = o.id}
                      IN  /\ filled <= Max({o.qty, 0})
                          /\ \A r \in resting : r.remaining_qty + filled = o.qty
                          /\ ShouldRest(o, o.qty) /\ resting = {} /\ ~CancelledAfter(journal, i)
                               => o.qty - filled <= Eps
    BY DEF QuantityConserved
  <2> DEFINE o       == journal[i].order
             filled  == Filled(trade_log, o.id)
             resting == {r \in RestingOrders(book.levels) : r.id = o.id}
  <2>1. /\ Conserved(book, trade_log, o, TRUE)
        /\ ~CancelledAfter(journal, i) => Settled(book, filled, o)
    BY LiveConserves
  <2>2. resting = {} => \A x \in RestingOrders(book.levels) : x.id # o.id
    OBVIOUS
  <2>3. /\ filled <= Max({o.qty, 0})
        /\ \A r \in resting : r.remaining_qty + filled = o.qty
    BY <2>1 DEF Conserved
  <2>4. ShouldRest(o, o.qty) /\ resting = {} /\ ~CancelledAfter(journal, i)
          => o.qty - filled <= Eps
    BY <2>1, <2>2 DEF Conserved
  <2> QED
    BY <2>3, <2>4
<1> QED
  BY <1>1, EngineInvariant, PTL

\* In every reachable engine a fill-or-kill order traded all of its quantity, up to
\* Eps, or nothing, and is not on the book.
THEOREM AllOrNothing == Spec => []FillOrKill
<1>1. EngineInv => FillOrKill
  <2> SUFFICES ASSUME EngineInv, NEW i \in SubmittedIn(journal), journal[i].order.tif = "FOK"
               PROVE  /\ \/ Filled(trade_log, journal[i].order.id) = 0
                         \/ journal[i].order.qty - Filled(trade_log, journal[i].order.id) <= Eps
                      /\ \A r \in RestingOrders(book.levels) : r.id # journal[i].order.id
    BY DEF FillOrKill
  <2>1. Conserved(book, trade_log, journal[i].order, TRUE)
    BY LiveConserves
  <2> QED
    BY <2>1 DEF Conserved
<1> QED
  BY <1>1, EngineInvariant, PTL

-----------------------------------------------------------------------------
(* The engine implements PriceTimeBook.                                    *)

\* The rules are the same under the names PriceTimeBook has them.
LEMMA RulesAre ==
  ASSUME NEW b, NEW o
  PROVE  /\ PriceTime!Makers(b, o) = Makers(b, o)
         /\ PriceTime!Reached(b, o) = Reached(b, o)
         /\ PriceTime!Killed(b, o) <=> Killed(b, o)
         /\ PriceTime!Left(b, o) = Left(b, o)
         /\ PriceTime!Trades(b, o) = Trades(b, o)
         /\ PriceTime!Rests(b, o) <=> Rests(b, o)
         /\ PriceTime!AfterSubmit(b, o) = AfterSubmit(b, o)
<1>1. PriceTime!Makers(b, o) = Makers(b, o)
  BY DEF PriceTime!Makers, Makers, PriceTime!Crosses, Crosses
<1>2. \A m, n : PriceTime!Ahead(m, n) <=> Ahead(m, n)
  BY DEF PriceTime!Ahead, Ahead, PriceTime!Better, Better
<1>3. \A m : PriceTime!Wanted(b, o, m) = Wanted(b, o, m)
  BY DEF PriceTime!Makers, Makers, PriceTime!Crosses, Crosses, PriceTime!Wanted, Wanted,
         PriceTime!Ahead, Ahead, PriceTime!Better, Better, PriceTime!MapThenSumSet, MapThenSumSet,
         PriceTime!Remaining, Remaining, PriceTime!MapThenFoldSet, MapThenFoldSet
<1>4. PriceTime!Reached(b, o) = Reached(b, o)
  BY <1>1, <1>3 DEF PriceTime!Reached, Reached
<1>5. PriceTime!Killed(b, o) <=> Killed(b, o)
  BY DEF PriceTime!Makers, Makers, PriceTime!Crosses, Crosses, PriceTime!Killed, Killed,
         PriceTime!MapThenSumSet, MapThenSumSet,
         PriceTime!Remaining, Remaining, PriceTime!MapThenFoldSet, MapThenFoldSet
<1>6. \A m : PriceTime!Given(b, o, m) = Given(b, o, m)
  BY <1>3 DEF PriceTime!Given, Given, PriceTime!Min, Min
<1>7. PriceTime!Left(b, o) = Left(b, o)
  BY DEF PriceTime!Left, Left, PriceTime!Reached, Reached, PriceTime!Given, Given, PriceTime!Min, Min,
         PriceTime!Makers, Makers, PriceTime!Crosses, Crosses, PriceTime!Wanted, Wanted,
         PriceTime!Ahead, Ahead, PriceTime!Better, Better, PriceTime!MapThenSumSet, MapThenSumSet,
         PriceTime!Remaining, Remaining, PriceTime!MapThenFoldSet, MapThenFoldSet
<1>8. \A S : PriceTime!InTurn(S) = InTurn(S)
  BY DEF PriceTime!InTurn, InTurn, PriceTime!Ahead, Ahead, PriceTime!Better, Better,
         PriceTime!Cardinality, Cardinality, PriceTime!IsFiniteSet, IsFiniteSet
<1>9. PriceTime!Trades(b, o) = Trades(b, o)
  BY <1>4, <1>6, <1>8 DEF PriceTime!Trades, Trades
<1>10. PriceTime!Rests(b, o) <=> Rests(b, o)
  BY <1>7 DEF PriceTime!Rests, Rests, PriceTime!ShouldRest, ShouldRest
<1>11. \A m : PriceTime!AfterTrade(b, o, m) = AfterTrade(b, o, m)
  BY <1>6 DEF PriceTime!AfterTrade, AfterTrade
<1>12. PriceTime!AfterSubmit(b, o) = AfterSubmit(b, o)
  BY <1>4, <1>5, <1>7, <1>10, <1>11 DEF PriceTime!AfterSubmit, AfterSubmit
<1> QED
  BY <1>1, <1>4, <1>5, <1>7, <1>9, <1>10, <1>12


\* An order as it is submitted.
LEMMA NewOrder ==
  ASSUME NEW id \in Nat, NEW t \in Template, NEW time \in Int, NEW o, o = MakeOrder(id, t, time)
  PROVE  o \in Order /\ o.id = id /\ o.remaining_qty = o.qty /\ Asked(o) = t
<1>1. t.qty \in Int
  BY QtyAssumption DEF Template
<1>2. o \in Order /\ o.id = id /\ o.remaining_qty = o.qty
  BY <1>1 DEF MakeOrder, Order, Template
<1>3. Asked(o) = t
  BY DEF MakeOrder, Asked, Template
<1> QED
  BY <1>2, <1>3

\* An engine's submit follows the rules, and its levels stay in order.
LEMMA SubmitToByRules ==
  ASSUME NEW e, EngineSound(e), OldestFirst(e.book),
         NEW t \in Template, NEW time \in Int, NEW r, r = SubmitTo(e, t, time),
         NEW o, o = MakeOrder(e.next_order_id + 1, t, time)
  PROVE  /\ r.next_order_id = e.next_order_id + 1 /\ OldestFirst(r.book)
         /\ SubmitObeys([book |-> r.book, result |-> r.result], RestingOrders(e.book.levels), o)
<1> DEFINE s == Submit(e.book, o)
<1>1. r.next_order_id = e.next_order_id + 1 /\ r.book = s.book /\ r.result = s.result
  BY DEF SubmitTo
<1>2. /\ e.next_order_id \in Nat /\ e.next_order_id + 1 \in Nat /\ BookSound(e.book)
      /\ DOMAIN e.book.index \subseteq 1 .. e.next_order_id
  BY DEF EngineSound
<1>3. o \in Order /\ o.id = e.next_order_id + 1 /\ o.remaining_qty = o.qty
  BY <1>2, NewOrder
<1>4. AllOlder(e.book, o.id)
  BY <1>2, <1>3 DEF AllOlder
<1>5. OldestFirst(s.book) /\ SubmitObeys(s, RestingOrders(e.book.levels), o)
  BY <1>2, <1>3, <1>4, SubmitByRules
<1> HIDE DEF s
<1>6. SubmitObeys([book |-> r.book, result |-> r.result], RestingOrders(e.book.levels), o)
  BY <1>1, <1>5 DEF SubmitObeys
<1> QED
  BY <1>1, <1>5, <1>6

\* The demo's orders by the rules: p has the identifier before the first and their times.
RuleStep == INSTANCE SequenceLemmas
              WITH Step <- LAMBDA p, acc, i :
                             PriceTime!AfterSubmit(acc, PriceTime!SeedOrder(p, i))

\* The demo's orders, one after the other, follow the rules.
LEMMA SeedByRules ==
  ASSUME NEW e, EngineSound(e), OldestFirst(e.book), NEW t \in StartTime .. MaxTime,
         SeedScript # << >>, NEW seq, seq = [i \in 1 .. Len(SeedScript) |-> i],
         NEW r, r = SeedStep!Fold(t, e, seq),
         NEW p, p = [first |-> e.next_order_id,
                     times |-> [i \in 1 .. Len(SeedScript) |-> SeedTimeFrom(t, i)]]
  PROVE  /\ OldestFirst(r.book) /\ r.next_order_id = e.next_order_id + Len(SeedScript)
         /\ RestingOrders(r.book.levels) = RuleStep!Fold(p, RestingOrders(e.book.levels), seq)
<1> DEFINE n == Len(SeedScript)
<1>1. n \in Nat /\ SeedScript \in Seq(Template) /\ DOMAIN seq = 1 .. n
  BY SeedAssumption, LenProperties
<1>2. PICK f : /\ f[0] = e
               /\ \A k \in 1 .. n : f[k] = SeedTurn(t, f[k - 1], seq[k])
               /\ SeedStep!Fold(t, e, seq) = f[n]
  <2> HIDE DEF n
  <2>1. \E f : SeedStep!Turns(f, t, e, seq, n)
    BY <1>1, SeedStep!FoldTurns
  <2> QED
    BY <2>1 DEF SeedStep!Turns
<1>3. PICK g : RuleStep!Turns(g, p, RestingOrders(e.book.levels), seq, n)
  <2> HIDE DEF n
  <2> QED
    BY <1>1, RuleStep!FoldTurns
<1>4. /\ g[0] = RestingOrders(e.book.levels)
      /\ \A k \in 1 .. n :
           g[k] = PriceTime!AfterSubmit(g[k - 1], PriceTime!SeedOrder(p, seq[k]))
      /\ RuleStep!Fold(p, RestingOrders(e.book.levels), seq) = g[n]
  BY <1>3 DEF RuleStep!Turns
<1>5. \A k \in 1 .. n : SeedScript[k] \in Template /\ seq[k] = k /\ p.times[k] = SeedTimeFrom(t, k)
  BY <1>1
<1>6. p.first = e.next_order_id
  OBVIOUS
<1> HIDE DEF n
<1> DEFINE H(k) == /\ EngineSound(f[k]) /\ OldestFirst(f[k].book)
                   /\ f[k].next_order_id = e.next_order_id + k
                   /\ RestingOrders(f[k].book.levels) = g[k]
           G == {k \in 0 .. n : H(k)}
<1>7. e.next_order_id \in Nat
  BY DEF EngineSound
<1>8. H(0)
  BY <1>2, <1>4, <1>7
<1>9. ASSUME NEW k \in 1 .. n, H(k - 1) PROVE H(k)
  <2> DEFINE x    == f[k - 1]
             time == SeedTimeFrom(t, k)
             o    == MakeOrder(x.next_order_id + 1, SeedScript[k], time)
  <2>1. time \in Times /\ time \in Int
    BY SeedTimesWithin DEF n
  <2>2. f[k] = SubmitTo(x, SeedScript[k], time) /\ SeedScript[k] \in Template
    BY <1>2, <1>5 DEF SeedTurn
  <2>3. /\ EngineSound(x) /\ OldestFirst(x.book)
        /\ x.next_order_id = e.next_order_id + (k - 1)
        /\ RestingOrders(x.book.levels) = g[k - 1]
    BY <1>9
  <2>4. x.next_order_id + 1 = e.next_order_id + k
    BY <1>7, <2>3
  <2>5. g[k] = AfterSubmit(g[k - 1], o)
    <3>1. g[k] = PriceTime!AfterSubmit(g[k - 1], PriceTime!SeedOrder(p, k))
      BY <1>4, <1>5
    <3>2. PriceTime!SeedOrder(p, k) = o
      <4>1. p.first + k = x.next_order_id + 1 /\ p.times[k] = time
        BY <1>5, <1>6, <2>4
      <4>2. PriceTime!SeedOrder(p, k) = MakeOrder(p.first + k, SeedScript[k], p.times[k])
        BY DEF PriceTime!SeedOrder, PriceTime!MakeOrder, MakeOrder
      <4> HIDE DEF time, x
      <4> QED
        BY <4>1, <4>2
    <3> HIDE DEF o, time
    <3> QED
      BY <3>1, <3>2, RulesAre
  <2> HIDE DEF time, x
  <2>6. EngineSound(f[k])
    BY <2>1, <2>2, <2>3, SubmitToSound
  <2>7. /\ f[k].next_order_id = x.next_order_id + 1 /\ OldestFirst(f[k].book)
        /\ SubmitObeys([book |-> f[k].book, result |-> f[k].result],
                       RestingOrders(x.book.levels), o)
    BY <2>1, <2>2, <2>3, SubmitToByRules
  <2> HIDE DEF o
  <2>8. RestingOrders(f[k].book.levels) = AfterSubmit(RestingOrders(x.book.levels), o)
    BY <2>7 DEF SubmitObeys
  <2> QED
    BY <2>3, <2>4, <2>5, <2>6, <2>7, <2>8
<1> HIDE DEF H
<1>10. n \in Nat /\ 0 \in G /\ \A k \in 1 .. n : k - 1 \in G => k \in G
  BY <1>1, <1>8, <1>9 DEF n
<1>11. \A k \in 0 .. n : k \in G
  <2> HIDE DEF G
  <2> QED
    BY <1>10, Upwards
<1>12. H(n)
  BY <1>10, <1>11
<1> QED
  BY <1>2, <1>4, <1>12 DEF H, n

\* What the abstract book is told of a submit.
LEMMA SubmitViewed ==
  ASSUME NEW o, NEW ts, NEW accepted, NEW left,
         outcome' = [op |-> "submit", order_id |-> o.id, asked |-> Asked(o), trades |-> ts,
                     accepted |-> accepted, resting_qty |-> left]
  PROVE  OutcomeView' = PriceTime!SubmitOutcome(o, Told(ts), accepted, left)
<1>1. OutcomeView' = [outcome' EXCEPT !.trades = Told(ts)]
  BY DEF OutcomeView, Told
<1>2. PriceTime!SubmitOutcome(o, Told(ts), accepted, left) =
        [op |-> "submit", order_id |-> o.id, asked |-> Asked(o), trades |-> Told(ts),
         accepted |-> accepted, resting_qty |-> left]
  BY DEF PriceTime!SubmitOutcome, PriceTime!Asked, Asked
<1> QED
  BY <1>1, <1>2

\* submit is a SubmitOrder of the abstract book.
LEMMA SubmitOrderByRules ==
  ASSUME EngineInv, OldestFirst(book), NEW t \in Templates, SubmitOrder(t)
  PROVE  OldestFirst(book') /\ PriceTime!SubmitOrder
<1> DEFINE e == SubmitTo(Current, t, now)
           o == MakeOrder(next_order_id + 1, t, now)
           B == RestingOrders(book.levels)
<1>1. EngineSound(Current) /\ now \in Times /\ now \in Int /\ t \in Template
  BY TimeAssumption, SeedAssumption, TemplatesAssumption DEF EngineInv, Times
<1>2. /\ Current.book = book /\ Current.next_order_id = next_order_id
      /\ next_order_id \in Nat
  BY <1>1 DEF Current, EngineSound
<1>3. o.id = next_order_id + 1 /\ Asked(o) = t
  BY <1>1, <1>2, NewOrder
<1>4. /\ e.next_order_id = next_order_id + 1 /\ OldestFirst(e.book)
      /\ SubmitObeys([book |-> e.book, result |-> e.result], B, o)
  BY <1>1, <1>2, SubmitToByRules
<1>5. /\ book' = e.book /\ next_order_id' = e.next_order_id
      /\ outcome' = [op |-> "submit", order_id |-> e.next_order_id, asked |-> t,
                     trades |-> e.result.trades, accepted |-> e.result.accepted,
                     resting_qty |-> e.result.resting_qty]
  BY DEF SubmitOrder, Become
<1> HIDE DEF e
<1>6. o = PriceTime!MakeOrder(next_order_id + 1, t, now)
  BY DEF MakeOrder, PriceTime!MakeOrder
<1> HIDE DEF o, B
<1>7. RestingOrders(book.levels)' = PriceTime!AfterSubmit(B, o)
  BY <1>4, <1>5, RulesAre DEF SubmitObeys
<1>8. OutcomeView' = PriceTime!SubmitOutcome(o, Told(e.result.trades), e.result.accepted,
                                             e.result.resting_qty)
  BY <1>3, <1>4, <1>5, SubmitViewed
<1>9. OutcomeView' = IF PriceTime!Killed(B, o)
                       THEN PriceTime!SubmitOutcome(o, << >>, FALSE, 0)
                       ELSE PriceTime!SubmitOutcome(o, PriceTime!Trades(B, o), TRUE,
                              IF PriceTime!Rests(B, o) THEN PriceTime!Left(B, o) ELSE 0)
  <2>1. CASE Killed(B, o)
    <3>1. e.result.trades = << >> /\ e.result.accepted = FALSE /\ e.result.resting_qty = 0
      BY <1>4, <2>1 DEF SubmitObeys
    <3>2. Told(<< >>) = << >>
      BY DEF Told
    <3> QED
      BY <1>8, <2>1, <3>1, <3>2, RulesAre
  <2>2. CASE ~Killed(B, o)
    <3>1. /\ e.result.accepted = TRUE /\ Told(e.result.trades) = Trades(B, o)
          /\ e.result.resting_qty = IF Rests(B, o) THEN Left(B, o) ELSE 0
      BY <1>4, <2>2 DEF SubmitObeys
    <3> QED
      BY <1>8, <2>2, <3>1, RulesAre
  <2> QED
    BY <2>1, <2>2
<1>10. PriceTime!SubmitOrder
  BY <1>1, <1>4, <1>5, <1>6, <1>7, <1>9 DEF PriceTime!SubmitOrder, B
<1> QED
  BY <1>4, <1>5, <1>10

\* cancel is a Cancel.
LEMMA CancelOfOrderByRules ==
  ASSUME EngineInv, OldestFirst(book), NEW id \in CancelIds, Cancel(id)
  PROVE  OldestFirst(book') /\ PriceTime!Cancel(id)
<1> DEFINE c == CancelOrder(book, id)
           B == RestingOrders(book.levels)
<1>1. BookSound(book)
  BY DEF EngineInv, EngineSound, Current
<1>2. /\ book' = c.book /\ next_order_id' = next_order_id
      /\ outcome' = [op |-> "cancel", order_id |-> id, found |-> c.found]
  BY DEF Cancel
<1>3. OldestFirst(c.book) /\ CancelObeys(c, B, id)
  BY <1>1, CancelByRules
<1> HIDE DEF c, B
<1>4. OutcomeView' = [op |-> "cancel", order_id |-> id, found |-> c.found]
  BY <1>2 DEF OutcomeView
<1>5. PriceTime!CancelOutcome(id, \E o \in B : o.id = id) =
        [op |-> "cancel", order_id |-> id, found |-> \E o \in B : o.id = id]
  BY DEF PriceTime!CancelOutcome
<1>6. c.found = (\E o \in B : o.id = id)
  BY <1>3 DEF CancelObeys
<1>7. OutcomeView' = PriceTime!CancelOutcome(id, \E o \in B : o.id = id)
  BY <1>4, <1>5, <1>6
<1>8. RestingOrders(book.levels)' = {o \in B : o.id # id}
  BY <1>2, <1>3 DEF CancelObeys
<1> QED
  BY <1>2, <1>3, <1>7, <1>8 DEF PriceTime!Cancel, B

\* seed_demo is a SeedDemo, its orders carrying the times the demo gives them.
LEMMA SeedDemoByRules ==
  ASSUME EngineInv, OldestFirst(book), SeedDemo
  PROVE  OldestFirst(book') /\ PriceTime!SeedDemo
<1> DEFINE seq   == [i \in 1 .. Len(SeedScript) |-> i]
           e     == FoldLeft(LAMBDA x, i : SubmitTo(x, SeedScript[i], SeedTime(i)), Current, seq)
           B     == RestingOrders(book.levels)
           times == [i \in 1 .. Len(SeedScript) |-> SeedTimeFrom(now, i)]
           p     == [first |-> next_order_id, times |-> times]
<1>1. EngineSound(Current) /\ now \in StartTime .. MaxTime
  BY DEF EngineInv
<1>2. Current.book = book /\ Current.next_order_id = next_order_id
  BY DEF Current
<1>3. e = SeedStep!Fold(now, Current, seq)
  BY DEF SeedTime, SeedTimeFrom, SeedTurn, FoldLeft, MapThenFoldSet, Max,
         SeedStep!Fold, SeedStep!FoldLeft, SeedStep!MapThenFoldSet, SeedStep!Max
<1>4. /\ book' = e.book /\ next_order_id' = e.next_order_id /\ outcome' = outcome
      /\ SeedScript # << >>
  BY Zenon DEF SeedDemo, Become
<1> HIDE DEF e
<1>5. /\ OldestFirst(e.book) /\ e.next_order_id = next_order_id + Len(SeedScript)
      /\ RestingOrders(e.book.levels) = RuleStep!Fold(p, B, seq)
  BY <1>1, <1>2, <1>3, <1>4, SeedByRules
<1>6. DOMAIN SeedScript = 1 .. Len(SeedScript)
  BY SeedAssumption, LenProperties
<1>7. times \in [DOMAIN SeedScript -> Times]
  BY <1>1, <1>4, <1>6, SeedTimesWithin
<1>8. p.first = next_order_id /\ p.times = times
  OBVIOUS
<1>9. RuleStep!Fold(p, B, seq) = PriceTime!AfterSeed(p)
  <2>1. seq = [i \in DOMAIN SeedScript |-> i]
    BY <1>6
  <2> HIDE DEF p, seq
  <2> QED
    BY <2>1 DEF B, PriceTime!AfterSeed, PriceTime!FoldLeft, PriceTime!MapThenFoldSet, PriceTime!Max,
                RuleStep!Fold, RuleStep!FoldLeft, RuleStep!MapThenFoldSet, RuleStep!Max
<1>10. RestingOrders(book.levels)' = PriceTime!AfterSeed(p)
  BY <1>4, <1>5, <1>9
<1>11. OutcomeView' = OutcomeView
  BY <1>4 DEF OutcomeView
<1> HIDE DEF times, B, seq
<1> QED
  BY <1>4, <1>5, <1>7, <1>10, <1>11 DEF PriceTime!SeedDemo

\* On an empty book nothing rests.
LEMMA NothingRests == OldestFirst(EmptyBook) /\ RestingOrders(EmptyBook.levels) = {}
<1>1. \A s \in Side : DOMAIN EmptyBook.levels[s] = {}
  BY DEF EmptyBook
<1> QED
  BY <1>1 DEF OldestFirst, RestingOrders

\* Every step of the engine is one of the abstract book, or none; the levels stay in
\* order.
LEMMA StepByRules ==
  ASSUME EngineInv, OldestFirst(book), [Next]_vars
  PROVE  OldestFirst(book') /\ [PriceTime!Next]_(PriceTime!bookVars)
<1>1. ASSUME NEW t \in Templates, SubmitOrder(t)
      PROVE  OldestFirst(book') /\ PriceTime!Next
  BY <1>1, SubmitOrderByRules DEF PriceTime!Next
<1>2. ASSUME NEW id \in CancelIds, Cancel(id)
      PROVE  OldestFirst(book') /\ PriceTime!Next
  BY <1>2, CancelOfOrderByRules DEF PriceTime!Next
<1>3. CASE SeedDemo
  BY <1>3, SeedDemoByRules DEF PriceTime!Next
<1>4. CASE Reset
  <2>1. book' = EmptyBook /\ next_order_id' = 0 /\ outcome' = NoOutcome
    BY <1>4 DEF Reset
  <2>2. OldestFirst(EmptyBook) /\ RestingOrders(EmptyBook.levels) = {}
    BY NothingRests
  <2>3. OutcomeView' = PriceTime!NoOutcome
    BY <2>1 DEF OutcomeView, NoOutcome, PriceTime!NoOutcome
  <2>4. PriceTime!Reset
    BY <2>1, <2>2, <2>3 DEF PriceTime!Reset
  <2> QED
    BY <2>1, <2>2, <2>4 DEF PriceTime!Next
<1>5. CASE Tick \/ ClockSetBack \/ UNCHANGED vars
  <2>1. book' = book /\ next_order_id' = next_order_id /\ outcome' = outcome
    BY <1>5 DEF Tick, ClockSetBack, vars, engineVars
  <2>2. UNCHANGED PriceTime!bookVars
    BY <2>1 DEF PriceTime!bookVars, OutcomeView
  <2> QED
    BY <2>1, <2>2
<1> QED
  BY <1>1, <1>2, <1>3, <1>4, <1>5 DEF Next

\* The engine implements PriceTimeBook: whatever is submitted, cancelled, seeded and
\* reset, the orders on its levels are those that price-time priority leaves, and every
\* caller is told the trades, the acceptance and the rest that it promises.
THEOREM EngineKeepsPriceTime == Spec => ImplementsPriceTimeBook
<1>1. Init => OldestFirst(book) /\ PriceTime!Init
  <2> SUFFICES ASSUME Init PROVE OldestFirst(book) /\ PriceTime!Init
    OBVIOUS
  <2>1. book = EmptyBook /\ next_order_id = 0 /\ outcome = NoOutcome
    BY DEF Init
  <2>2. OutcomeView = PriceTime!NoOutcome
    BY <2>1 DEF OutcomeView, NoOutcome, PriceTime!NoOutcome
  <2> QED
    BY <2>1, <2>2, NothingRests DEF PriceTime!Init
<1>2. EngineInv /\ OldestFirst(book) /\ [Next]_vars
        => OldestFirst(book)' /\ [PriceTime!Next]_(PriceTime!bookVars)
  BY StepByRules
<1>3. Spec => []EngineInv
  BY EngineInvariant
<1> QED
  BY <1>1, <1>2, <1>3, PTL DEF Spec, ImplementsPriceTimeBook, PriceTime!Spec

=============================================================================
