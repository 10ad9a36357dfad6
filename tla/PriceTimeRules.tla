---------------------------- MODULE PriceTimeRules ----------------------------
(***************************************************************************)
(* Price-time priority in closed form.  Among the resting orders a taker   *)
(* crosses, an order is reached when what the taker wanted exceeds (by     *)
(* more than Eps) everything resting ahead of it, and it then gives as     *)
(* much as it has or as the taker still wants.  Orders are ahead of one    *)
(* another by price, then by identifier, that is by arrival.               *)
(***************************************************************************)
EXTENDS Orders, FiniteSets, FiniteSetsExt, SequencesExt

Remaining(o) == o.remaining_qty

Ahead(m, n) == Better(m.side, m.price, n.price) \/ (m.price = n.price /\ m.id < n.id)

\* The orders of a book that o could trade with, and what o still wants when its
\* turn reaches m.
Makers(book, o)    == {m \in book : m.side # o.side /\ Crosses(o, m.price)}
Wanted(book, o, m) == o.qty - MapThenSumSet(Remaining, {n \in Makers(book, o) : Ahead(n, m)})

Reached(book, o)  == {m \in Makers(book, o) : Wanted(book, o, m) > Eps}
Given(book, o, m) == Min({m.remaining_qty, Wanted(book, o, m)})
Left(book, o)     == o.qty - MapThenSumSet(LAMBDA m : Given(book, o, m), Reached(book, o))

AfterTrade(book, o, m) == [m EXCEPT !.remaining_qty = @ - Given(book, o, m)]

\* The makers one by one, each after those ahead of it.
InTurn(makers) ==
  CHOOSE s \in [1 .. Cardinality(makers) -> makers] :
    \A i, j \in DOMAIN s : i < j => Ahead(s[i], s[j])

Trades(book, o) ==
  LET makers == InTurn(Reached(book, o))
  IN  [i \in 1 .. Len(makers) |->
         [maker_order_id |-> makers[i].id, price |-> makers[i].price,
          qty |-> Given(book, o, makers[i])]]

\* A fill-or-kill order that cannot be filled now leaves the book as it was.
Killed(book, o) == o.tif = "FOK" /\ o.qty > MapThenSumSet(Remaining, Makers(book, o))

Rests(book, o) == ShouldRest(o, Left(book, o))

AfterSubmit(book, o) ==
  LET kept == {m \in {AfterTrade(book, o, n) : n \in Reached(book, o)} : m.remaining_qty > Eps}
      own  == IF Rests(book, o) THEN {[o EXCEPT !.remaining_qty = Left(book, o)]} ELSE {}
  IN  IF Killed(book, o) THEN book ELSE (book \ Reached(book, o)) \cup kept \cup own

=============================================================================
