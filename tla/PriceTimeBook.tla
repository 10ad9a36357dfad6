---------------------------- MODULE PriceTimeBook ----------------------------
(***************************************************************************)
(* What the matching engine promises its callers, without levels, queues,  *)
(* an index or loops: a set of resting orders, and for each operation the  *)
(* outcome it must return.                                                 *)
(* PriceTimeRules has that outcome in closed form.                         *)
(*                                                                         *)
(* Matching (the loops) and Engine (the atomic operations) are both shown  *)
(* to implement this module.                                               *)
(***************************************************************************)
EXTENDS PriceTimeRules

CONSTANTS
  Templates,   \* the orders that may be submitted
  CancelIds,   \* the identifiers clients may try to cancel
  SeedScript,  \* the orders that may be submitted at one go
  Times        \* the times orders may carry

VARIABLES
  resting,        \* the set of resting orders
  next_order_id,  \* the identifier of the last order
  outcome         \* what the last operation was asked for and returned

bookVars == <<resting, next_order_id, outcome>>

NoOutcome == [op |-> "none"]

SubmitOutcome(o, trades, accepted, resting_qty) ==
  [op |-> "submit", order_id |-> o.id, asked |-> Asked(o), trades |-> trades,
   accepted |-> accepted, resting_qty |-> resting_qty]

CancelOutcome(id, found) == [op |-> "cancel", order_id |-> id, found |-> found]

-----------------------------------------------------------------------------

Init ==
  /\ resting = {}
  /\ next_order_id = 0
  /\ outcome = NoOutcome

\* An order may carry any time: it plays no part in matching.
SubmitOrder ==
  \E t \in Templates, time \in Times :
    LET o == MakeOrder(next_order_id + 1, t, time)
    IN  /\ next_order_id' = next_order_id + 1
        /\ resting' = AfterSubmit(resting, o)
        /\ outcome' = IF Killed(resting, o)
                        THEN SubmitOutcome(o, << >>, FALSE, 0)
                        ELSE SubmitOutcome(o, Trades(resting, o), TRUE,
                                           IF Rests(resting, o) THEN Left(resting, o) ELSE 0)

\* As if its orders were submitted one by one, but nobody is told the outcomes.
\* seed has the identifier before the first and the times they carry.
SeedOrder(seed, i) == MakeOrder(seed.first + i, SeedScript[i], seed.times[i])

AfterSeed(seed) ==
  FoldLeft(LAMBDA book, i : AfterSubmit(book, SeedOrder(seed, i)),
           resting, [i \in DOMAIN SeedScript |-> i])

SeedDemo ==
  /\ SeedScript # << >>
  /\ \E times \in [DOMAIN SeedScript -> Times] :
       resting' = AfterSeed([first |-> next_order_id, times |-> times])
  /\ next_order_id' = next_order_id + Len(SeedScript)
  /\ UNCHANGED outcome

Cancel(id) ==
  /\ resting' = {o \in resting : o.id # id}
  /\ outcome' = CancelOutcome(id, \E o \in resting : o.id = id)
  /\ UNCHANGED next_order_id

Reset == resting' = {} /\ next_order_id' = 0 /\ outcome' = NoOutcome

Next == SubmitOrder \/ (\E id \in CancelIds : Cancel(id)) \/ SeedDemo \/ Reset

Spec == Init /\ [][Next]_bookVars

=============================================================================
