------------------------------ MODULE MCBridge ------------------------------
(* Bridge on small instances; its orders with all four prefills, the walk  *)
(* at its ends, and clients' orders on both sides of half a tick, of zero  *)
(* and of the middle.                                                      *)
EXTENDS BridgeInvariant, TLC

CONSTANTS c1, c2

Submit(fits)   == [type |-> "submit_order", fits |-> fits]
Prefill        == [type |-> "run_prefill", kind |-> "Dense"]
Start(ms)      == [type |-> "start_stream", interval |-> ms]
Plain(type)    == [type |-> type]
OneOrder       == [Dense |-> 1]
TwoOrders      == [Dense |-> 2]

AllCommands  == {Submit(TRUE), Submit(FALSE), Prefill, Start(5), Plain("stop_stream"),
                 Plain("get_state"), Plain("malformed")}
LiveCommands == {Submit(TRUE), Prefill, Start(5), Plain("stop_stream")}

AllKinds    == {"Dense", "Sparse", "HighSpread", "LowSpread"}
WalkMids    == {50000, 100000, 500000}
WalkOffsets == {-1000, 4, 1999}
WalkDraws   == {0, 900}

Submitted == [side : {"Buy", "Sell"}, price : {-20, 4, 99994, 99996, 100004, 100006},
              qty : {-10, 4, 1006}]

MCClients == {c1, c2}
OneClient == {c1}
Symmetry  == Permutations(MCClients)
=============================================================================
