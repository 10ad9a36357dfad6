------------------------------- MODULE MCDemo -------------------------------
(* The demo history, before or after a client's own order or cancellation. *)
EXTENDS Demo

\* Any order of the demo may be cancelled, and any may be submitted again.
MCCancelIds == 1 .. Len(DemoScript)
\* The bound on the clients' own events, which are the ones stamped now.
FewClientEvents ==
  Cardinality({i \in DOMAIN journal : EventTime(journal[i]) = now}) <= 1

=============================================================================
