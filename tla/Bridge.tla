-------------------------------- MODULE Bridge --------------------------------
(***************************************************************************)
(* The bridge of src/src/bridge.rs from WebSocket clients to Aeron, and    *)
(* the publishing of src/src/publisher.rs that it drives: the handlers of  *)
(* the connections, the command channel, the one publisher thread with its *)
(* retry loop, the atomics they share and the broadcast channel.           *)
(*                                                                         *)
(* A handler and the thread take one step per atomic access, channel       *)
(* operation and attempt to publish.  An order is known by its identifier, *)
(* and by whether its numbers fit the integers of the ingress message;     *)
(* what the numbers become is the subject of Ingress.                      *)
(*                                                                         *)
(* The atomics are Relaxed.  Only the thread writes the counters and only  *)
(* handlers the switches, and what a client asks for because of a message  *)
(* is ordered after it by the channels; what Relaxed adds to the order of  *)
(* the program is that two loads of some statistics may be swapped, and    *)
(* the properties speak of each counter by itself.                         *)
(***************************************************************************)
EXTENDS Ingress, Sequences, FiniteSets, SequencesExt

CONSTANTS
  Clients,           \* the WebSocket connections
  Commands,          \* the messages clients send
  PrefillSize,       \* the number of orders of each kind of prefill (2 * Levels(kind))
  MaxRetries,        \* 1000
  Capacity,          \* of the broadcast channel (1024)
  FirstSeq,          \* 500000
  DefaultInterval,   \* 500 ms
  MinInterval,       \* 20 ms
  MaxCommands,       \* bounds on what the clients and the stream do
  MaxConnects,
  MaxStreamed

ClientMsg ==
  [type : {"submit_order"}, fits : BOOLEAN] \cup [type : {"run_prefill"}, kind : DOMAIN PrefillSize]
    \cup [type : {"start_stream"}, interval : Nat]
    \cup [type : {"stop_stream", "get_state", "malformed"}]

ASSUME CommandsAssumption == Commands \subseteq ClientMsg
ASSUME ClientsAssumption  == "prefill" \notin Clients /\ "stream" \notin Clients
ASSUME PrefillAssumption  == DOMAIN PrefillSize \subseteq Kinds /\ \A k \in DOMAIN PrefillSize : PrefillSize[k] \in Nat \ {0}
ASSUME LimitsAssumption   ==
  /\ MaxRetries \in Nat /\ Capacity \in Nat \ {0} /\ FirstSeq \in Nat
  /\ DefaultInterval \in Nat /\ MinInterval \in Nat
  /\ MaxCommands \in Nat /\ MaxConnects \in Nat /\ MaxStreamed \in Nat

VARIABLES
  next_order_id, next_seq,          \* counters of identifiers and sequence numbers
  queue,                            \* the command channel, cmd_tx to cmd_rx
  thread,                           \* the publisher thread
  total_sent, total_errors,         \* AtomicU64s, written by the thread only
  streaming, interval,              \* written by the handlers only
  conn, handler,                    \* each connection and its recv_task
  log,                              \* all that was broadcast so far
  cursor,                           \* how much of it each connection has forwarded
  wire,                             \* external: what Aeron has accepted
  since, greeting,                  \* history: log length at subscription, first stats
  after_stop,                       \* history: orders made up since the last stop
  commands, connects, streamed      \* how much of the bounds is used up

counters   == <<total_sent, total_errors>>
switches   == <<streaming, interval>>
netVars    == <<conn, cursor, since, greeting>>
threadVars == <<next_seq, thread, counters, wire>>
boundVars  == <<commands, connects, streamed>>
vars       == <<next_order_id, queue, threadVars, switches, netVars, handler, log, after_stop,
                boundVars>>

\* (asked is history: how much had been broadcast when the statistics were asked for.)
Stats(asked) == [type |-> "stats", total_sent |-> 0, total_errors |-> 0, streaming |-> FALSE,
                 interval |-> 0, asked |-> asked]
Status(flag, i) == [type |-> "stream_status", streaming |-> flag, interval |-> i]
Error(what)     == [type |-> "error", message |-> what]

\* The thread's locals: what it is doing, the orders it still has to publish, how
\* often the first of them failed and how it ended, and the tally of a prefill.
Resting == [pc |-> "recv", job |-> "none", build |-> 0, todo |-> << >>, retries |-> 0,
            result |-> "none", sent |-> 0, total |-> 0]

\* A handler's locals: the command, and the order or message it is putting together.
Nothing == Stats(0)
None    == [type |-> "none"]
Idle    == [pc |-> "idle", cmd |-> None, held |-> Nothing]

Dead == thread.pc = "dead"
Broadcast(msg) == log' = Append(log, msg)

Init ==
  /\ next_order_id = 0 /\ next_seq = FirstSeq
  /\ queue = << >> /\ thread = [Resting EXCEPT !.pc = "make"]
  /\ total_sent = 0 /\ total_errors = 0
  /\ streaming = FALSE /\ interval = DefaultInterval
  /\ conn = [c \in Clients |-> "off"] /\ handler = [c \in Clients |-> Idle]
  /\ log = << >> /\ cursor = [c \in Clients |-> 0] /\ wire = << >>
  /\ since = [c \in Clients |-> 0] /\ greeting = [c \in Clients |-> Nothing]
  /\ after_stop = 0 /\ commands = 0 /\ connects = 0 /\ streamed = 0

-----------------------------------------------------------------------------
(* A connection: handle_socket.                                            *)

\* Subscribe first, then load the statistics for the client's greeting.
Connect(c) ==
  /\ conn[c] = "off" /\ connects < MaxConnects
  /\ connects' = connects + 1
  /\ conn' = [conn EXCEPT ![c] = "greeting"]
  /\ cursor' = [cursor EXCEPT ![c] = Len(log)] /\ since' = [since EXCEPT ![c] = Len(log)]
  /\ handler' = [handler EXCEPT ![c] = [Idle EXCEPT !.pc = "load_sent", !.held = Stats(Len(log))]]
  /\ UNCHANGED <<next_order_id, queue, threadVars, switches, greeting, log, after_stop,
                 commands, streamed>>

\* Mutant of Greeted: the connection subscribes once the statistics are sent.
GreetedFirst(c) ==
  /\ conn[c] = "greeting" /\ handler[c].pc = "say"
  /\ conn' = [conn EXCEPT ![c] = "on"]
  /\ cursor' = [cursor EXCEPT ![c] = Len(log)] /\ since' = [since EXCEPT ![c] = Len(log)]
  /\ greeting' = [greeting EXCEPT ![c] = handler[c].held]
  /\ handler' = [handler EXCEPT ![c] = Idle]
  /\ UNCHANGED <<next_order_id, queue, threadVars, switches, log, after_stop, boundVars>>

\* send_stats puts the statistics into the socket itself; the two tasks start.
Greeted(c) ==
  /\ conn[c] = "greeting" /\ handler[c].pc = "say"
  /\ conn' = [conn EXCEPT ![c] = "on"]
  /\ greeting' = [greeting EXCEPT ![c] = handler[c].held]
  /\ handler' = [handler EXCEPT ![c] = Idle]
  /\ UNCHANGED <<next_order_id, queue, threadVars, switches, cursor, since, log, after_stop,
                 boundVars>>

Unread(c) == Len(log) - cursor[c]
Lagged(c) == Unread(c) > Capacity

\* send_task forwards the next message.
Deliver(c) ==
  /\ conn[c] = "on" /\ Unread(c) > 0 /\ ~Lagged(c)
  /\ cursor' = [cursor EXCEPT ![c] = @ + 1]
  /\ UNCHANGED <<next_order_id, queue, threadVars, switches, conn, since, greeting, handler,
                 log, after_stop, boundVars>>

\* Mutant of Close: recv_task is aborted wherever it is.
CloseAnywhere(c) ==
  /\ conn[c] = "on"
  /\ conn' = [conn EXCEPT ![c] = "off"]
  /\ handler' = [handler EXCEPT ![c] = Idle]
  /\ cursor' = [cursor EXCEPT ![c] = 0] /\ since' = [since EXCEPT ![c] = 0]
  /\ greeting' = [greeting EXCEPT ![c] = Nothing]
  /\ UNCHANGED <<next_order_id, queue, threadVars, switches, log, after_stop, boundVars>>

\* One of the two tasks ends and the other is aborted; the receiver is dropped.
\* handle_message never awaits, so recv_task is aborted between two messages only.
Close(c) ==
  /\ conn[c] = "on" /\ handler[c] = Idle
  /\ conn' = [conn EXCEPT ![c] = "off"]
  /\ cursor' = [cursor EXCEPT ![c] = 0] /\ since' = [since EXCEPT ![c] = 0]
  /\ greeting' = [greeting EXCEPT ![c] = Nothing]
  /\ UNCHANGED <<next_order_id, queue, threadVars, switches, handler, log, after_stop, boundVars>>

\* Mutant of DropLagged: send_task ignores the error.
DropLaggedNever(c) == FALSE
DropLagged(c)      == Lagged(c) /\ Close(c)

Leave(c) == ~Lagged(c) /\ Close(c)

(* A command: handle_message.                                              *)

Receive(c) ==
  /\ conn[c] = "on" /\ handler[c] = Idle /\ commands < MaxCommands
  /\ commands' = commands + 1
  /\ \E cmd \in Commands :
       handler' = [handler EXCEPT ![c] =
         CASE cmd.type = "submit_order" -> [Idle EXCEPT !.pc = "build", !.cmd = cmd]
           [] cmd.type = "run_prefill"  -> [Idle EXCEPT !.pc = "send", !.cmd = cmd]
           [] cmd.type = "start_stream" -> [Idle EXCEPT !.pc = "store", !.cmd = cmd]
           [] cmd.type = "stop_stream"  -> [Idle EXCEPT !.pc = "switch", !.cmd = cmd]
           [] cmd.type = "get_state"    -> [Idle EXCEPT !.pc = "load_sent", !.cmd = cmd,
                                                         !.held = Stats(Len(log))]
           [] OTHER -> [Idle EXCEPT !.pc = "say", !.cmd = cmd, !.held = Error("bad_message")]]
  /\ UNCHANGED <<next_order_id, queue, threadVars, switches, netVars, log, after_stop, connects,
                 streamed>>

NewId == next_order_id' = next_order_id + 1

\* The identifier is taken before the order enters the channel.
BuildOrder(c) ==
  /\ handler[c].pc = "build"
  /\ NewId
  /\ handler' = [handler EXCEPT ![c] =
                   [@ EXCEPT !.pc = "send",
                             !.held = [id |-> next_order_id', by |-> c,
                                       fits |-> handler[c].cmd.fits]]]
  /\ UNCHANGED <<queue, threadVars, switches, netVars, log, after_stop, boundVars>>

\* Mutant of Enqueue: the newest command comes first.
EnqueueFirst(command) == queue' = <<command>> \o queue
Enqueue(command)      == queue' = Append(queue, command)

\* The channel is open as long as the thread lives.
SendCommand(c) ==
  /\ handler[c].pc = "send"
  /\ IF Dead
       THEN /\ handler' = [handler EXCEPT ![c] = [@ EXCEPT !.pc = "say",
                                                           !.held = Error("not_running")]]
            /\ UNCHANGED queue
       ELSE /\ Enqueue([cmd |-> handler[c].cmd, order |-> handler[c].held])
            /\ handler' = [handler EXCEPT ![c] = Idle]
  /\ UNCHANGED <<next_order_id, threadVars, switches, netVars, log, after_stop, boundVars>>

\* Mutant of Clamped: any interval is taken.
Unclamped(ms) == ms
Clamped(ms)   == Max({ms, MinInterval})

StoreInterval(c) ==
  /\ handler[c].pc = "store"
  /\ interval' = Clamped(handler[c].cmd.interval)
  /\ handler' = [handler EXCEPT ![c].pc = "switch"]
  /\ UNCHANGED <<next_order_id, queue, threadVars, streaming, netVars, log, after_stop, boundVars>>

Switch(c) ==
  /\ handler[c].pc = "switch"
  /\ streaming' = (handler[c].cmd.type = "start_stream")
  /\ after_stop' = 0
  /\ handler' = [handler EXCEPT ![c] = [@ EXCEPT !.pc = "load_interval",
                                                 !.held = Status(streaming', 0)]]
  /\ UNCHANGED <<next_order_id, queue, threadVars, interval, netVars, log, boundVars>>

\* One load of an atomic into the message a handler is putting together.
Load(c, pc, msg, next) ==
  /\ handler[c].pc = pc
  /\ handler' = [handler EXCEPT ![c] = [@ EXCEPT !.pc = next, !.held = msg]]
  /\ UNCHANGED <<next_order_id, queue, threadVars, switches, netVars, log, after_stop, boundVars>>

\* The statistics of get_state and of the greeting are four loads, those of a
\* stream's status the last one only.
LoadNext(c) ==
  LET msg == handler[c].held
  IN  \/ Load(c, "load_sent", [msg EXCEPT !.total_sent = total_sent], "load_errors")
      \/ Load(c, "load_errors", [msg EXCEPT !.total_errors = total_errors], "load_streaming")
      \/ Load(c, "load_streaming", [msg EXCEPT !.streaming = streaming], "load_interval")
      \/ Load(c, "load_interval", [msg EXCEPT !.interval = interval], "say")

Say(c) ==
  /\ conn[c] = "on" /\ handler[c].pc = "say"
  /\ Broadcast(handler[c].held)
  /\ handler' = [handler EXCEPT ![c] = Idle]
  /\ UNCHANGED <<next_order_id, queue, threadVars, switches, netVars, after_stop, boundVars>>

-----------------------------------------------------------------------------
(* The publisher thread.                                                   *)

At(pc) == thread.pc = pc /\ UNCHANGED <<switches, netVars, handler, commands, connects>>

\* A panic ends the thread: the channel closes and what it held is gone.
Panic == thread' = [Resting EXCEPT !.pc = "dead"] /\ queue' = << >>

\* make_publisher waits for Aeron, and panics if the publisher cannot be made.
MakePublisher ==
  /\ At("make")
  /\ \/ thread' = Resting /\ UNCHANGED queue
     \/ Panic
  /\ UNCHANGED <<next_order_id, next_seq, counters, wire, log, after_stop, streamed>>

\* recv_timeout: a command, or nothing for 20 ms.
TakeCommand ==
  /\ At("recv") /\ queue # << >>
  /\ queue' = Tail(queue)
  /\ LET cmd == Head(queue).cmd
     IN  thread' = IF cmd.type = "submit_order"
                     THEN [Resting EXCEPT !.pc = "ingress", !.job = "submit",
                                          !.todo = <<Head(queue).order>>]
                     ELSE [Resting EXCEPT !.pc = "build", !.job = "prefill",
                                          !.build = PrefillSize[cmd.kind],
                                          !.total = PrefillSize[cmd.kind]]
  /\ UNCHANGED <<next_order_id, next_seq, counters, wire, log, after_stop, streamed>>

\* Mutant of NothingReceived: a turn without a command ends there.
NothingReceivedAgain ==
  /\ At("recv") /\ queue = << >>
  /\ UNCHANGED <<next_order_id, queue, threadVars, log, after_stop, streamed>>

NothingReceived ==
  /\ At("recv") /\ queue = << >>
  /\ thread' = [thread EXCEPT !.pc = "tick"]
  /\ UNCHANGED <<next_order_id, next_seq, queue, counters, wire, log, after_stop, streamed>>

\* Mutant of StreamOn: the flag is not looked at.
StreamIgnored == TRUE
StreamOn      == streaming

\* After each turn: if the stream is on and its interval is over, one more order.
StreamTick ==
  /\ At("tick") /\ StreamOn /\ streamed < MaxStreamed
  /\ streamed' = streamed + 1
  /\ thread' = [Resting EXCEPT !.pc = "build", !.job = "stream", !.build = 1]
  /\ UNCHANGED <<next_order_id, next_seq, queue, counters, wire, log, after_stop>>

NoTick ==
  /\ At("tick")
  /\ thread' = Resting
  /\ UNCHANGED <<next_order_id, next_seq, queue, counters, wire, log, after_stop, streamed>>

\* The orders of a prefill, or of the stream, get their identifiers here.  All the
\* orders of a prefill are built before the first one is published.
BuildNext ==
  /\ At("build")
  /\ NewId
  /\ thread' = [thread EXCEPT !.build = @ - 1, !.pc = IF thread.build = 1 THEN "ingress" ELSE @,
                  !.todo = Append(@, [id |-> next_order_id', by |-> thread.job, fits |-> TRUE])]
  /\ after_stop' = IF thread.job = "stream" /\ ~streaming THEN after_stop + 1 ELSE after_stop
  /\ UNCHANGED <<next_seq, queue, counters, wire, log, streamed>>

\* Mutant of NewSeq: the counter is read but not advanced.
SameSeq == UNCHANGED next_seq
NewSeq  == next_seq' = next_seq + 1

\* to_ingress_model takes a sequence number, then panics on a number that does
\* not fit its field.
ToIngress ==
  /\ At("ingress")
  /\ NewSeq
  /\ IF Head(thread.todo).fits
       THEN thread' = [thread EXCEPT !.pc = "publish", !.retries = 0] /\ UNCHANGED queue
       ELSE Panic
  /\ UNCHANGED <<next_order_id, counters, wire, log, after_stop, streamed>>

\* Mutant of Tries: the count starts again.
TriesAgain == (thread.retries + 1) % (MaxRetries + 1)

Tries      == thread.retries + 1
GivesUp(n) == n > MaxRetries

\* Mutant of GaveUp: the loop is left and the order counts as published.
GaveUpSilently == "ok"
GaveUp         == "gave_up"

\* One attempt to publish; a failure that says the publication is back-pressured,
\* not connected, administered or closed is tried again, up to a limit.
Publish ==
  /\ At("publish")
  /\ LET order == Head(thread.todo)
     IN  \/ /\ thread' = [thread EXCEPT !.pc = "count", !.result = "ok"]
            /\ wire' = Append(wire, [id |-> order.id, by |-> order.by, seq |-> next_seq - 1])
         \/ /\ thread' = IF GivesUp(Tries)
                           THEN [thread EXCEPT !.retries = Tries, !.pc = "count",
                                               !.result = GaveUp]
                           ELSE [thread EXCEPT !.retries = Tries]
            /\ UNCHANGED wire
         \/ /\ thread' = [thread EXCEPT !.pc = "count", !.result = "failed"]
            /\ UNCHANGED wire
  /\ UNCHANGED <<next_order_id, next_seq, queue, counters, log, after_stop, streamed>>

\* Mutant of Success: an order given up counts as sent.
SuccessUnlessError == IF thread.result = "failed" THEN 0 ELSE 1

Success == IF thread.result = "ok" THEN 1 ELSE 0
Failure == IF thread.result = "ok" THEN 0 ELSE 1

Count ==
  /\ At("count")
  /\ total_sent' = total_sent + Success
  /\ total_errors' = total_errors + Failure
  /\ thread' = [thread EXCEPT !.pc = "ack", !.sent = @ + Success]
  /\ UNCHANGED <<next_order_id, next_seq, queue, wire, log, after_stop, streamed>>

\* Where the thread goes after the last order of a job.
AfterJob == CASE thread.job = "prefill" -> [thread EXCEPT !.pc = "report", !.todo = << >>]
              [] thread.job = "submit"  -> [Resting EXCEPT !.pc = "tick"]
              [] OTHER                  -> Resting

\* The thread alone writes the counters: it may load them with the broadcast.
Acknowledge ==
  /\ At("ack")
  /\ Broadcast([type |-> "publish_ack", order_id |-> Head(thread.todo).id,
                result |-> thread.result, retries |-> thread.retries,
                total_sent |-> total_sent, total_errors |-> total_errors])
  /\ thread' = IF Len(thread.todo) > 1
                 THEN [thread EXCEPT !.pc = "ingress", !.todo = Tail(@)] ELSE AfterJob
  /\ UNCHANGED <<next_order_id, next_seq, queue, counters, wire, after_stop, streamed>>

Report ==
  /\ At("report")
  /\ Broadcast([type |-> "prefill_result", sent |-> thread.sent, total |-> thread.total])
  /\ thread' = [Resting EXCEPT !.pc = "tick"]
  /\ UNCHANGED <<next_order_id, next_seq, queue, counters, wire, after_stop, streamed>>

-----------------------------------------------------------------------------

Handle(c) ==
  \/ Greeted(c) \/ BuildOrder(c) \/ SendCommand(c) \/ StoreInterval(c) \/ Switch(c)
  \/ LoadNext(c) \/ Say(c)

publisher_thread ==
  \/ MakePublisher \/ TakeCommand \/ NothingReceived \/ StreamTick \/ NoTick
  \/ BuildNext \/ ToIngress \/ Publish \/ Count \/ Acknowledge \/ Report

Next ==
  \/ \E c \in Clients : \/ Connect(c) \/ Receive(c) \/ Leave(c)
                        \/ Deliver(c) \/ DropLagged(c) \/ Handle(c)
  \/ publisher_thread

Spec == Init /\ [][Next]_vars

\* The runtime polls the tasks, the thread runs, and time passes: a stream that
\* stays on is found due again and again.  Aeron need never accept a message.
FairSpec ==
  /\ Spec
  /\ WF_vars(publisher_thread) /\ SF_vars(StreamTick)
  /\ \A c \in Clients : WF_vars(Handle(c)) /\ WF_vars(Deliver(c)) /\ WF_vars(DropLagged(c))

-----------------------------------------------------------------------------
(* Properties.                                                             *)

(* Types. *)

\* An order, as far as the thread keeps it, and the commands in the channel.
Order == [id : Nat \ {0}, by : Clients \cup {"prefill", "stream"}, fits : BOOLEAN]

QueuedOrder   == [cmd   : [type : {"submit_order"}, fits : BOOLEAN],
                  order : [id : Nat \ {0}, by : Clients, fits : BOOLEAN]]
QueuedPrefill == [cmd : [type : {"run_prefill"}, kind : DOMAIN PrefillSize], order : {Nothing}]

\* What is broadcast.
StatsMsg  == [type : {"stats"}, total_sent : Nat, total_errors : Nat, streaming : BOOLEAN,
              interval : Nat, asked : Nat]
StatusMsg == [type : {"stream_status"}, streaming : BOOLEAN, interval : Nat]
ErrorMsg  == [type : {"error"}, message : {"bad_message", "not_running"}]
AckMsg    == [type : {"publish_ack"}, order_id : Nat \ {0}, result : {"ok", "failed", "gave_up"},
              retries : 0 .. MaxRetries + 1, total_sent : Nat, total_errors : Nat]
ResultMsg == [type : {"prefill_result"}, sent : Nat, total : Nat]

Thread ==
  [pc : {"make", "recv", "tick", "build", "ingress", "publish", "count", "ack", "report", "dead"},
   job : {"none", "submit", "prefill", "stream"}, build : Nat, todo : Seq(Order),
   retries : 0 .. MaxRetries + 1, result : {"none", "ok", "failed", "gave_up"},
   sent : Nat, total : Nat]

Handler ==
  [pc   : {"idle", "build", "send", "store", "switch", "load_sent", "load_errors",
           "load_streaming", "load_interval", "say"},
   cmd  : ClientMsg \cup {None},
   held : Order \cup StatsMsg \cup StatusMsg \cup ErrorMsg]

TypeOK ==
  /\ next_order_id \in Nat /\ next_seq \in Nat /\ total_sent \in Nat /\ total_errors \in Nat
  /\ queue \in Seq(QueuedOrder \cup QueuedPrefill) /\ thread \in Thread
  /\ streaming \in BOOLEAN /\ interval \in Nat /\ interval >= Min({MinInterval, DefaultInterval})
  /\ conn \in [Clients -> {"off", "greeting", "on"}] /\ handler \in [Clients -> Handler]
  /\ log \in Seq(AckMsg \cup ResultMsg \cup StatsMsg \cup StatusMsg \cup ErrorMsg)
  /\ wire \in Seq([id : Nat \ {0}, by : Clients \cup {"prefill", "stream"}, seq : Nat])
  /\ cursor \in [Clients -> Nat] /\ since \in [Clients -> Nat]
  /\ \A c \in Clients : since[c] <= cursor[c] /\ cursor[c] <= Len(log)
  /\ greeting \in [Clients -> StatsMsg]
  /\ after_stop \in Nat /\ commands \in Nat /\ connects \in Nat /\ streamed \in Nat

Logged(type)  == {n \in DOMAIN log : log[n].type = type}
Acks          == Logged("publish_ack")
AcksOf(id)    == {n \in Acks : log[n].order_id = id}
Wired(id)     == {n \in DOMAIN wire : wire[n].id = id}
Failed(n)     == log[n].result # "ok"

\* Where an order is: with the handler that built it, in the channel, with the
\* thread, or acknowledged.
Places(id) ==
  Cardinality({c \in Clients : handler[c].pc = "send" /\ handler[c].cmd.type = "submit_order"
                               /\ handler[c].held.id = id})
  + Cardinality({n \in DOMAIN queue : queue[n].cmd.type = "submit_order" /\ queue[n].order.id = id})
  + Cardinality({n \in DOMAIN thread.todo : thread.todo[n].id = id})
  + Cardinality(AcksOf(id))

\* As long as the thread lives no order is lost and none is acknowledged twice: each
\* is in exactly one place.  Once it has died an order is still in one place at most.
OrdersAccountedFor ==
  \A id \in 1 .. next_order_id : Places(id) <= 1 /\ (Dead \/ Places(id) = 1)

\* Acknowledgements tell what became of an order: Aeron has accepted it, once, if it
\* was acknowledged without an error, and not at all if with one.  "gave up publishing
\* order after 1000 retries" is said of an order that was tried once and then
\* MaxRetries times again, and of no other.
AcksTellTheWire ==
  \A n \in Acks :
    /\ Cardinality(Wired(log[n].order_id)) = IF Failed(n) THEN 0 ELSE 1
    /\ (log[n].result = "gave_up") <=> (log[n].retries = MaxRetries + 1)
    /\ log[n].retries <= MaxRetries + 1

\* Between two jobs the counters and the sequence numbers agree with the wire:
\* whoever reads it can count the orders given up from the gaps.
CountersTellTheWire ==
  /\ \A n, k \in DOMAIN wire : n < k => wire[n].seq < wire[k].seq
  /\ thread.pc \in {"recv", "tick"} =>
       /\ total_sent = Len(wire)
       /\ next_seq - FirstSeq = Len(wire) + total_errors

\* The counters in an acknowledgement are those of the moment it stands for: they
\* count it and all acknowledgements before it, and nothing else.
AcksCount ==
  \A n \in Acks :
    LET before == {k \in Acks : k <= n}
    IN  /\ log[n].total_errors = Cardinality({k \in before : Failed(k)})
        /\ log[n].total_sent + log[n].total_errors = Cardinality(before)

\* The counters tell the same as the wire and as the acknowledgements.
CountersAgree == CountersTellTheWire /\ AcksCount

\* The result of a prefill is the tally of the acknowledgements right before it: no
\* other order is published in the middle of a prefill.
PrefillTallied ==
  \A n \in Logged("prefill_result") :
    \E m \in 0 .. n - 1 :
      LET own == {k \in Acks : m < k /\ k < n}
      IN  /\ Cardinality(own) = log[n].total
          /\ Cardinality({k \in own : ~Failed(k)}) = log[n].sent
          /\ \A k, l \in own : k < l /\ (\A j \in own : ~(k < j /\ j < l))
                                 => log[l].order_id > log[k].order_id

\* One client's orders are published in the order it sent them, whatever the other
\* clients, the stream and the retries do.  (Their identifiers are taken before the
\* channel, so those of two clients, or of a prefill, may come in another order.)
ClientOrderKept ==
  \A n, k \in DOMAIN wire :
    n < k /\ wire[n].by = wire[k].by /\ wire[n].by \in Clients => wire[n].id < wire[k].id

\* The counters of some statistics are no older than the request for them, and no
\* newer than what was acknowledged when they were sent, up to the one order that is
\* counted but not acknowledged.  (They are loaded one after the other, so as a pair
\* they may never have been.)
Fresh(stats, end) ==
  LET by(n)  == {k \in Acks : k <= n}
      bad(n) == {k \in by(n) : Failed(k)}
  IN  /\ stats.total_errors \in Cardinality(bad(stats.asked)) .. Cardinality(bad(end)) + 1
      /\ stats.total_sent \in Cardinality(by(stats.asked) \ bad(stats.asked)) ..
                              Cardinality(by(end) \ bad(end)) + 1

AnswersFresh == \A n \in Logged("stats") : Fresh(log[n], n)

\* A client misses no order: those acknowledged before it subscribed are in the
\* statistics that greet it, the acknowledgements of all others are in its channel.
\* (Some may be in both: statistics are loaded after subscribing.)
NoAckMissed ==
  \A c \in Clients : conn[c] = "on" => Fresh([greeting[c] EXCEPT !.asked = since[c]], Len(log))

\* Statistics are fresh, those that answer and those that greet.
StatsFresh == AnswersFresh /\ NoAckMissed

\* Whatever numbers the orders on the wire had, the ticks stand for them: what crossed
\* crosses, and what an acknowledgement shows is what was published.
Maker(n) == IF wire[n].by \in Clients THEN "client" ELSE wire[n].by

TicksFaithful ==
  /\ \A n \in DOMAIN wire : Maker(n) \in AckShowsWire \cap QuantityPositive
  /\ \A n, k \in DOMAIN wire : n # k => <<Maker(n), Maker(k)>> \in CrossingKept

\* Orders of prefills on the wire add depth only: they do not trade with each other,
\* of whatever kinds the prefills were, and their levels stay apart.
PrefillsAddDepth ==
  \A n, k \in DOMAIN wire :
    n # k /\ Maker(n) = "prefill" /\ Maker(k) = "prefill"
      => PrefillsDoNotTrade /\ LevelsStayApart

\* Once the stream is switched off, at most one more of its orders is made up.
OneOrderAfterStop == after_stop <= 1

\* An order in the channel is acknowledged, even if Aeron accepts nothing any
\* more, unless the thread dies.
OrdersAcknowledged ==
  \A id \in 1 .. MaxCommands :
    (\E n \in DOMAIN queue : queue[n].cmd.type = "submit_order" /\ queue[n].order.id = id)
      ~> (AcksOf(id) # {} \/ Dead)

\* A stream that stays on goes on, whatever the commands and failures in between.
StreamGoesOn == <>[]streaming => <>(streamed = MaxStreamed \/ Dead)

\* A connection that stays and keeps up gets all that is broadcast.
LogDelivered == \A c \in Clients : conn[c] = "on" ~> (conn[c] # "on" \/ Unread(c) = 0)

=============================================================================
