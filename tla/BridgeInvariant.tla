---------------------------- MODULE BridgeInvariant ----------------------------
(***************************************************************************)
(* The inductive invariant of Bridge: why its properties hold.  Its parts  *)
(* say how the locals of the handlers and of the publisher thread, the     *)
(* channel, the wire, the counters and what was broadcast depend on one    *)
(* another between any two steps.                                          *)
(***************************************************************************)
EXTENDS Bridge

\* A handler holds an order from building it to putting it into the channel.
HasOrder(h) == h.pc = "send" /\ h.cmd.type = "submit_order"
Holds(c)    == HasOrder(handler[c])

\* What a handler is doing fits what it is about and what it is putting together.
Fits(c, h) ==
  /\ h.pc = "build" => h.cmd.type = "submit_order"
  /\ h.pc = "send"  => h.cmd.type \in {"submit_order", "run_prefill"}
  /\ h.pc = "send" /\ h.cmd.type = "run_prefill" => h.held = Nothing
  /\ HasOrder(h) => h.held \in Order /\ h.held.by = c
  /\ h.pc = "store" => h.cmd.type = "start_stream"
  /\ h.pc \in {"load_sent", "load_errors", "load_streaming"} => h.held \in StatsMsg
  /\ h.pc = "load_interval" => h.held \in StatsMsg \cup StatusMsg
  /\ h.pc = "say" => h.held \in StatsMsg \cup StatusMsg \cup ErrorMsg

\* Without a connection there is no handler, and the first thing it does is to greet,
\* with statistics asked for when the connection subscribed.
HandlersSound ==
  \A c \in Clients :
    LET h == handler[c]
    IN  /\ Fits(c, h)
        /\ conn[c] = "off" => h = Idle
        /\ conn[c] = "greeting" =>
             /\ h.pc \in {"load_sent", "load_errors", "load_streaming", "load_interval", "say"}
             /\ h.held \in StatsMsg /\ h.held.asked = since[c]

\* The thread has orders to publish exactly while it works on a job; they are of that
\* job.  An order has its sequence number before it is published, and is given up after
\* the last retry and not before.
Publishing == thread.pc \in {"ingress", "publish", "count", "ack"}

ThreadSound ==
  /\ Publishing => thread.todo # << >> /\ thread.job # "none"
  /\ ~Publishing /\ thread.pc # "build" => thread.todo = << >>
  /\ (thread.pc = "build") <=> (thread.build > 0)
  /\ thread.pc = "build" => thread.job \in {"prefill", "stream"}
  /\ thread.job = "stream" /\ thread.pc = "build" => thread.build = 1
  /\ thread.pc \in {"build", "ingress", "publish", "count", "ack"} =>
       \A n \in DOMAIN thread.todo :
         IF thread.job = "submit" THEN n = 1 /\ thread.todo[n].by \in Clients
                                  ELSE thread.todo[n].by = thread.job
  /\ thread.pc = "publish" => thread.retries <= MaxRetries /\ next_seq > 0
  /\ thread.pc \in {"count", "ack"} =>
       /\ thread.result # "none"
       /\ (thread.result = "gave_up") <=> (thread.retries = MaxRetries + 1)
  /\ thread.pc = "report" => thread.job = "prefill"
  /\ Dead => queue = << >>

\* Nothing was made up since the stop while the stream is on, or while the thread is
\* about to build the order it was on for.
StopCounted ==
  /\ streaming \/ (thread.pc = "build" /\ thread.job = "stream") => after_stop = 0
  /\ after_stop <= 1

\* What each part is doing fits its locals.
LocalInv == TypeOK /\ HandlersSound /\ ThreadSound /\ StopCounted

\* The identifiers of the orders that handlers hold, in the channel, with the thread,
\* and acknowledged: of each kind no two are the same, no two kinds share one, and
\* while the thread lives none of those given out is missing.
Queued    == {n \in DOMAIN queue : queue[n].cmd.type = "submit_order"}
HeldIds   == {handler[c].held.id : c \in {d \in Clients : Holds(d)}}
QueuedIds == {queue[n].order.id : n \in Queued}
TodoIds   == {thread.todo[n].id : n \in DOMAIN thread.todo}
AckedIds  == {log[n].order_id : n \in Acks}

EachOnce ==
  /\ \A c, d \in Clients : Holds(c) /\ Holds(d) /\ handler[c].held.id = handler[d].held.id => c = d
  /\ \A n, k \in Queued : queue[n].order.id = queue[k].order.id => n = k
  /\ \A n, k \in DOMAIN thread.todo : n < k => thread.todo[n].id < thread.todo[k].id
  /\ \A n, k \in Acks : log[n].order_id = log[k].order_id => n = k

OrdersSound ==
  /\ EachOnce
  /\ HeldIds \cap (QueuedIds \cup TodoIds \cup AckedIds) = {}
  /\ QueuedIds \cap (TodoIds \cup AckedIds) = {} /\ TodoIds \cap AckedIds = {}
  /\ HeldIds \cup QueuedIds \cup TodoIds \cup AckedIds \subseteq 1 .. next_order_id
  /\ ~Dead => 1 .. next_order_id \subseteq HeldIds \cup QueuedIds \cup TodoIds \cup AckedIds

\* On the wire are the orders acknowledged without an error, and the one that Aeron has
\* just accepted.
JustPublished == thread.pc \in {"count", "ack"} /\ thread.result = "ok"

WireSound ==
  /\ \A n, k \in DOMAIN wire : wire[n].id = wire[k].id => n = k
  /\ {wire[n].id : n \in DOMAIN wire}
       = {log[n].order_id : n \in {k \in Acks : ~Failed(k)}}
           \cup {thread.todo[n].id : n \in {k \in {1} : JustPublished}}
  /\ \A n \in Acks : (log[n].result = "gave_up") <=> (log[n].retries = MaxRetries + 1)

\* One client's orders stand in line: on the wire, with the thread, in the channel,
\* with the handler.
Ahead(a, b) == a.by = b.by /\ a.by \in Clients => a.id < b.id

ClientLine ==
  /\ \A n, k \in DOMAIN wire : n < k => Ahead(wire[n], wire[k])
  /\ thread.pc \in {"ingress", "publish"} =>
       \A n \in DOMAIN wire : Ahead(wire[n], thread.todo[1])
  /\ \A n \in DOMAIN wire, k \in Queued : Ahead(wire[n], queue[k].order)
  /\ \A n \in DOMAIN thread.todo, k \in Queued : Ahead(thread.todo[n], queue[k].order)
  /\ \A n, k \in Queued : n < k => Ahead(queue[n].order, queue[k].order)
  /\ \A c \in Clients : Holds(c) =>
       /\ \A n \in DOMAIN wire : Ahead(wire[n], handler[c].held)
       /\ \A n \in DOMAIN thread.todo : Ahead(thread.todo[n], handler[c].held)
       /\ \A n \in Queued : Ahead(queue[n].order, handler[c].held)

\* The counters, with what the thread has published but not counted, and counted but
\* not acknowledged.
Bad  == {n \in Acks : Failed(n)}
Good == {n \in Acks : ~Failed(n)}
When(pc, n) == IF thread.pc = pc THEN n ELSE 0

CountsSound ==
  /\ \A n, k \in DOMAIN wire : n < k => wire[n].seq < wire[k].seq
  /\ \A n \in DOMAIN wire : wire[n].seq < next_seq - When("publish", 1)
  /\ total_sent + When("count", Success) = Len(wire)
  /\ ~Dead => next_seq - FirstSeq
                = total_sent + total_errors + When("publish", 1) + When("count", 1)
  /\ total_sent = Cardinality(Good) + When("ack", Success)
  /\ total_errors = Cardinality(Bad) + When("ack", Failure)
  /\ AcksCount

\* A prefill under way: what was acknowledged since it began and what is left.
PrefillSound ==
  /\ PrefillTallied
  /\ thread.job = "prefill" =>
       \E m \in 0 .. Len(log) :
         LET own == {k \in Acks : m < k}
         IN  /\ Cardinality(own) + Len(thread.todo) + thread.build = thread.total
             /\ Cardinality({k \in own : ~Failed(k)}) + When("ack", Success) = thread.sent
             /\ \A k, l \in own : k < l => log[k].order_id < log[l].order_id
             /\ \A k \in own, n \in DOMAIN thread.todo : log[k].order_id < thread.todo[n].id

\* The statistics a handler is putting together: the counters it has loaded are no older
\* than the request and no newer than now.
StatsFit(h) ==
  LET s == h.held
  IN  (s \in StatsMsg /\ h.pc \in {"load_sent", "load_errors", "load_streaming", "load_interval", "say"}) =>
        /\ s.asked <= Len(log)
        /\ h.pc # "load_sent" =>
             s.total_sent \in Cardinality({n \in Good : n <= s.asked}) .. total_sent
        /\ h.pc \notin {"load_sent", "load_errors"} =>
             s.total_errors \in Cardinality({n \in Bad : n <= s.asked}) .. total_errors

StatsSound ==
  /\ StatsFresh
  /\ \A n \in Logged("stats") : log[n].asked < n
  /\ \A c \in Clients : StatsFit(handler[c])

\* The inductive invariant.
BridgeInv ==
  /\ LocalInv /\ OrdersSound /\ WireSound /\ ClientLine /\ CountsSound /\ PrefillSound /\ StatsSound
=============================================================================
