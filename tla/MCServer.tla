------------------------------ MODULE MCServer ------------------------------
(* Server on small instances.                                              *)
EXTENDS Server, TLC

CONSTANTS c1, c2

\* One command of each shape: change the book, look at it, switch the stream.
Start(ms) == [type |-> "start_stream", interval |-> ms]
Send1(type) == [type |-> type]

BookCommands   == {Send1("submit_order"), Send1("reset"), Send1("replay")}
LiveCommands   == {Send1("seed_demo"), Start(20), Start(100), Send1("stop_stream"), Send1("malformed")}

MCClients == {c1, c2}
OneClient == {c1}
Symmetry  == Permutations(MCClients)
=============================================================================
