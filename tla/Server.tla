-------------------------------- MODULE Server --------------------------------
(***************************************************************************)
(* The WebSocket server of src/src/ws.rs with the background generator of  *)
(* src/src/generator.rs: the tasks, the engine's lock, the broadcast       *)
(* channel and the streaming switches, and what each client's page shows.  *)
(*                                                                         *)
(* What the engine does under its lock is the subject of Engine.  Here the *)
(* live book is known by its version, the number of operations applied to  *)
(* it since the server started, and a snapshot by the version it shows.    *)
(* Between unlocking and each broadcast other tasks may run: a handler     *)
(* takes one step per lock, atomic access and broadcast.  A task can be    *)
(* aborted only where the code awaits.                                     *)
(***************************************************************************)
EXTENDS Integers, Sequences, FiniteSets, FiniteSetsExt, SequencesExt

CONSTANTS
  Clients,           \* the pages that connect
  Generator,         \* the generator's task
  Commands,          \* the messages clients send (besides the first get_state)
  DefaultInterval,   \* 500 ms
  MinInterval,       \* 50 ms, what start_stream clamps to
  Capacity,          \* of the broadcast channel, per receiver (1024)
  MaxCommands,       \* bounds on what the clients and the generator do
  MaxConnects,
  MaxGenerated

\* What a client may send.  Anything else is malformed.
LockingTypes == {"submit_order", "cancel_order", "seed_demo", "reset", "replay", "get_state"}
ClientMsg == [type : LockingTypes \cup {"stop_stream", "malformed"}]
               \cup [type : {"start_stream"}, interval : Nat]

ASSUME CommandsAssumption == Commands \subseteq ClientMsg
ASSUME BoundsAssumption   ==
  /\ DefaultInterval \in Nat /\ MinInterval \in Nat /\ Capacity \in Nat \ {0}
  /\ MaxCommands \in Nat /\ MaxConnects \in Nat /\ MaxGenerated \in Nat

VARIABLES
  version,      \* of the live book
  lock,         \* Mutex<Engine>: the client being greeted under it, or Free
  waiters,      \* the tasks queued for the lock, in order
  conn,         \* how far each client's connection is
  handler,      \* what each client's recv_task, and the generator, is doing
  inbox,        \* each receiver's unread messages
  lagged,       \* the receivers that were overrun
  streaming,    \* AtomicBool
  interval,     \* AtomicU64, stream_interval_ms
  armed,        \* the interval the generator sleeps for
  page,         \* what each client's page shows
  greeting,     \* history: the version each connection began with
  shown,        \* history: the versions each connection got from the channel
  last,         \* history: the version of the last snapshot broadcast
  after_stop,   \* history: orders generated since streaming was switched off
  commands, connects, generated   \* how much of the bounds is used up

engineVars == <<version, lock, waiters>>
netVars    == <<conn, inbox, lagged, page, greeting, shown, last>>
streamVars == <<streaming, interval, armed, after_stop>>
boundVars  == <<commands, connects, generated>>
vars       == <<engineVars, netVars, streamVars, boundVars, handler>>

Tasks == Clients \cup {Generator}
Free  == "free"

ASSUME TasksAssumption == Generator \notin Clients /\ Free \notin Clients

None  == [type |-> "none"]

Idle == [pc |-> "idle", cmd |-> None, outbox |-> << >>]

\* The messages of the server, as far as pages act on them.
Snapshot(v)  == [type |-> "book_snapshot", version |-> v]
Status(flag) == [type |-> "stream_status", streaming |-> flag]
Note(type)   == [type |-> type]

\* The operations that change the engine, and what each handler has to broadcast
\* once it has unlocked the engine, at version v.
Changing == {"submit_order", "cancel_order", "seed_demo", "reset"}

Replies(v) ==
  [submit_order |-> <<Note("order_ack"), Snapshot(v)>>,
   cancel_order |-> <<Note("cancel_ack"), Snapshot(v)>>,
   seed_demo    |-> <<Snapshot(v), Note("journal_info")>>,
   reset        |-> <<Snapshot(v)>>,
   replay       |-> <<Note("replay_result")>>,
   get_state    |-> <<Snapshot(v), Note("journal_info")>>]

\* A new receiver gets what is sent from now on.  A message that finds its queue
\* full overwrites the oldest: the next recv fails with Lagged.
Subscribed(c) == conn[c] # "off"

\* Mutants of Publish: nothing bounds the queue; the message that finds it full is
\* dropped.
PublishUnbounded(msg) ==
  /\ inbox' = [c \in Clients |-> IF Subscribed(c) THEN Append(inbox[c], msg) ELSE inbox[c]]
  /\ last' = IF msg.type = "book_snapshot" THEN msg.version ELSE last
  /\ UNCHANGED lagged

PublishDropsNewest(msg) ==
  /\ inbox' = [c \in Clients |-> IF Subscribed(c) /\ Len(inbox[c]) < Capacity
                                  THEN Append(inbox[c], msg) ELSE inbox[c]]
  /\ last' = IF msg.type = "book_snapshot" THEN msg.version ELSE last
  /\ UNCHANGED lagged

Publish(msg) ==
  LET full == {c \in Clients : Subscribed(c) /\ Len(inbox[c]) = Capacity}
  IN  /\ lagged' = lagged \cup full
      /\ inbox' = [c \in Clients |-> IF c \in lagged \cup full THEN << >>
                                     ELSE IF Subscribed(c) THEN Append(inbox[c], msg)
                                     ELSE inbox[c]]
      /\ last' = IF msg.type = "book_snapshot" THEN msg.version ELSE last

-----------------------------------------------------------------------------

Init ==
  /\ version = 0 /\ lock = Free /\ waiters = << >>
  /\ conn = [c \in Clients |-> "off"]
  /\ handler = [t \in Tasks |-> IF t = Generator THEN [Idle EXCEPT !.pc = "load"] ELSE Idle]
  /\ inbox = [c \in Clients |-> << >>] /\ lagged = {}
  /\ streaming = FALSE /\ interval = DefaultInterval /\ armed = DefaultInterval
  /\ page = [c \in Clients |-> [book |-> 0, streaming |-> FALSE]]
  /\ greeting = [c \in Clients |-> 0] /\ shown = [c \in Clients |-> {}]
  /\ last = 0 /\ after_stop = 0
  /\ commands = 0 /\ connects = 0 /\ generated = 0

(* A connection: handle_socket.                                            *)

\* handle_socket subscribes first, then queues for the lock to greet the client.
Connect(c) ==
  /\ conn[c] = "off" /\ connects < MaxConnects
  /\ connects' = connects + 1
  /\ conn' = [conn EXCEPT ![c] = "connecting"]
  /\ inbox' = [inbox EXCEPT ![c] = << >>]
  /\ lagged' = lagged \ {c}
  /\ shown' = [shown EXCEPT ![c] = {}]
  /\ waiters' = Append(waiters, c)
  /\ UNCHANGED <<version, lock, handler, page, greeting, last, streamVars, commands, generated>>

\* The snapshot is taken and sent under the lock: the lock is kept until the
\* client's socket has taken the message.
Greet(c) ==
  /\ conn[c] = "connecting" /\ lock = Free /\ waiters # << >> /\ Head(waiters) = c
  /\ waiters' = Tail(waiters)
  /\ lock' = c
  /\ conn' = [conn EXCEPT ![c] = "greeting"]
  /\ greeting' = [greeting EXCEPT ![c] = version]
  /\ UNCHANGED <<version, handler, inbox, lagged, page, shown, last, streamVars, boundVars>>

\* Mutant of Greeted: the lock is not released with the greeting.
GreetedKeepsLock(c) ==
  /\ conn[c] = "greeting"
  /\ conn' = [conn EXCEPT ![c] = "opened"]
  /\ page' = [page EXCEPT ![c].book = greeting[c]]
  /\ UNCHANGED <<engineVars, handler, inbox, lagged, greeting, shown, last, streamVars, boundVars>>

Greeted(c) ==
  /\ conn[c] = "greeting"
  /\ lock' = Free
  /\ conn' = [conn EXCEPT ![c] = "opened"]
  /\ page' = [page EXCEPT ![c].book = greeting[c]]
  /\ UNCHANGED <<version, waiters, handler, inbox, lagged, greeting, shown, last, streamVars,
                 boundVars>>

\* The page's first message, sent when the socket opens (app.js, onopen).
OpenPage(c) ==
  /\ conn[c] = "opened"
  /\ conn' = [conn EXCEPT ![c] = "on"]
  /\ handler' = [handler EXCEPT ![c] = [pc |-> "lock", cmd |-> [type |-> "get_state"],
                                        outbox |-> << >>]]
  /\ waiters' = Append(waiters, c)
  /\ UNCHANGED <<version, lock, inbox, lagged, page, greeting, shown, last, streamVars, boundVars>>

\* send_task forwards the next message; the page renders it.
Deliver(c) ==
  /\ conn[c] \in {"opened", "on"} /\ c \notin lagged /\ inbox[c] # << >>
  /\ LET msg == Head(inbox[c])
     IN  /\ page' = CASE msg.type = "book_snapshot" -> [page EXCEPT ![c].book = msg.version]
                      [] msg.type = "stream_status" -> [page EXCEPT ![c].streaming = msg.streaming]
                      [] OTHER -> page
         /\ shown' = IF msg.type = "book_snapshot"
                       THEN [shown EXCEPT ![c] = @ \cup {msg.version}] ELSE shown
  /\ inbox' = [inbox EXCEPT ![c] = Tail(@)]
  /\ UNCHANGED <<engineVars, conn, lagged, greeting, last, handler, streamVars, boundVars>>

\* Mutants of Close: the aborted task stays in the lock's queue; the task is
\* aborted wherever it is.
CloseKeepsPlace(c) ==
  /\ conn[c] \in {"opened", "on"} /\ handler[c].pc \in {"idle", "lock"}
  /\ conn' = [conn EXCEPT ![c] = "off"]
  /\ handler' = [handler EXCEPT ![c] = Idle]
  /\ inbox' = [inbox EXCEPT ![c] = << >>]
  /\ lagged' = lagged \ {c}
  /\ UNCHANGED <<engineVars, page, greeting, shown, last, streamVars, boundVars>>

CloseAnywhere(c) ==
  /\ conn[c] \in {"opened", "on"}
  /\ conn' = [conn EXCEPT ![c] = "off"]
  /\ handler' = [handler EXCEPT ![c] = Idle]
  /\ waiters' = RemoveFirst(waiters, c)
  /\ inbox' = [inbox EXCEPT ![c] = << >>]
  /\ lagged' = lagged \ {c}
  /\ UNCHANGED <<version, lock, page, greeting, shown, last, streamVars, boundVars>>

\* When one of the connection's tasks ends the other is aborted.  recv_task can
\* be aborted only where it awaits: its socket, or the engine's lock.
Close(c) ==
  /\ conn[c] \in {"opened", "on"} /\ handler[c].pc \in {"idle", "lock"}
  /\ conn' = [conn EXCEPT ![c] = "off"]
  /\ handler' = [handler EXCEPT ![c] = Idle]
  /\ waiters' = RemoveFirst(waiters, c)
  /\ inbox' = [inbox EXCEPT ![c] = << >>]
  /\ lagged' = lagged \ {c}
  /\ UNCHANGED <<version, lock, page, greeting, shown, last, streamVars, boundVars>>

\* send_task stops at the first error, and Lagged is one.
DropLagged(c) == c \in lagged /\ Close(c)

\* The client closes the connection, or the connection breaks.
Leave(c) == c \notin lagged /\ Close(c)

(* A command: handle_message.                                              *)

Receive(c) ==
  /\ conn[c] = "on" /\ handler[c] = Idle /\ commands < MaxCommands
  /\ commands' = commands + 1
  /\ \E cmd \in Commands :
       /\ handler' = [handler EXCEPT ![c] =
            CASE cmd.type \in LockingTypes -> [pc |-> "lock", cmd |-> cmd, outbox |-> << >>]
              [] cmd.type = "start_stream" -> [pc |-> "store", cmd |-> cmd, outbox |-> << >>]
              [] cmd.type = "stop_stream"  -> [pc |-> "switch", cmd |-> cmd, outbox |-> << >>]
              [] OTHER -> [pc |-> "send", cmd |-> cmd, outbox |-> <<Note("error")>>]]
       /\ waiters' = IF cmd.type \in LockingTypes THEN Append(waiters, c) ELSE waiters
  /\ UNCHANGED <<version, lock, netVars, streamVars, connects, generated>>

\* Lock, operate, take the snapshot, unlock: there is no await in between.
Operate(t) ==
  /\ handler[t].pc = "lock" /\ lock = Free /\ waiters # << >> /\ Head(waiters) = t
  /\ waiters' = Tail(waiters)
  /\ version' = IF handler[t].cmd.type \in Changing THEN version + 1 ELSE version
  /\ handler' = [handler EXCEPT ![t] =
                   [@ EXCEPT !.pc = "send", !.outbox = Replies(version')[handler[t].cmd.type]]]
  /\ after_stop' = IF t = Generator /\ ~streaming THEN after_stop + 1 ELSE after_stop
  /\ UNCHANGED <<lock, netVars, streaming, interval, armed, boundVars>>

\* Broadcast one message.  After its last one get_state still owes the streaming
\* status, which it reads only then; everyone else is done.
Send(t) ==
  /\ handler[t].pc = "send"
  /\ Publish(Head(handler[t].outbox))
  /\ LET left == Tail(handler[t].outbox)
     IN  handler' = [handler EXCEPT ![t] =
           IF left # << >> THEN [@ EXCEPT !.outbox = left]
           ELSE IF @.cmd.type = "get_state" THEN [@ EXCEPT !.pc = "status", !.outbox = << >>]
           ELSE IF t = Generator THEN [Idle EXCEPT !.pc = "load"]
           ELSE Idle]
  /\ UNCHANGED <<engineVars, conn, page, greeting, shown, streamVars, boundVars>>

ReadStatus(c) ==
  /\ handler[c].pc = "status"
  /\ handler' = [handler EXCEPT ![c] =
                   [pc |-> "send", cmd |-> None, outbox |-> <<Status(streaming)>>]]
  /\ UNCHANGED <<engineVars, netVars, streamVars, boundVars>>

StoreInterval(c) ==
  /\ handler[c].pc = "store"
  /\ interval' = Max({handler[c].cmd.interval, MinInterval})
  /\ handler' = [handler EXCEPT ![c].pc = "switch"]
  /\ UNCHANGED <<engineVars, netVars, streaming, armed, after_stop, boundVars>>

\* start_stream and stop_stream store the flag, then broadcast it.
Switch(c) ==
  LET on == handler[c].cmd.type = "start_stream"
  IN  /\ handler[c].pc = "switch"
      /\ streaming' = on
      /\ after_stop' = 0
      /\ handler' = [handler EXCEPT ![c] = [@ EXCEPT !.pc = "send", !.outbox = <<Status(on)>>]]
      /\ UNCHANGED <<engineVars, netVars, interval, armed, boundVars>>

(* The generator.                                                          *)

\* Mutant of LoadInterval: the interval the task was started with is kept.
LoadIntervalOnce ==
  /\ handler[Generator].pc = "load"
  /\ handler' = [handler EXCEPT ![Generator].pc = "sleep"]
  /\ UNCHANGED <<engineVars, netVars, streamVars, boundVars>>

\* (The generator's own lower bound, 20 ms, is below MinInterval.)
LoadInterval ==
  /\ handler[Generator].pc = "load"
  /\ armed' = interval
  /\ handler' = [handler EXCEPT ![Generator].pc = "sleep"]
  /\ UNCHANGED <<engineVars, netVars, streaming, interval, after_stop, boundVars>>

\* Mutant of Wake: the flag is not looked at.
WakeUnchecked ==
  /\ handler[Generator].pc = "sleep" /\ generated < MaxGenerated
  /\ generated' = generated + 1
  /\ handler' = [handler EXCEPT ![Generator] =
                   [pc |-> "lock", cmd |-> [type |-> "submit_order"], outbox |-> << >>]]
  /\ waiters' = Append(waiters, Generator)
  /\ UNCHANGED <<version, lock, netVars, streamVars, commands, connects>>

\* The sleep ends.  If streaming is on, an order is made up and submitted.
Wake ==
  /\ handler[Generator].pc = "sleep"
  /\ IF streaming /\ generated < MaxGenerated
       THEN /\ generated' = generated + 1
            /\ handler' = [handler EXCEPT ![Generator] =
                             [pc |-> "lock", cmd |-> [type |-> "submit_order"], outbox |-> << >>]]
            /\ waiters' = Append(waiters, Generator)
       ELSE /\ handler' = [handler EXCEPT ![Generator].pc = "load"]
            /\ UNCHANGED <<generated, waiters>>
  /\ UNCHANGED <<version, lock, netVars, streamVars, commands, connects>>

\* A step of the server that is not up to a client.
Run(t) == Operate(t) \/ Send(t)

Serve(c) ==
  \/ Greet(c) \/ Greeted(c) \/ OpenPage(c) \/ Deliver(c) \/ DropLagged(c)
  \/ Run(c) \/ ReadStatus(c) \/ StoreInterval(c) \/ Switch(c)

Generate == LoadInterval \/ Wake \/ Run(Generator)

Next ==
  \/ \E c \in Clients : Connect(c) \/ Receive(c) \/ Leave(c) \/ Serve(c)
  \/ Generate

Spec == Init /\ [][Next]_vars

\* The runtime polls every task that can go on, the mutex serves its queue in
\* order, and pages keep reading their sockets.  Nothing obliges a client to
\* connect, to send a command or to leave.
FairSpec ==
  /\ Spec
  /\ \A c \in Clients : /\ WF_vars(Greet(c)) /\ WF_vars(Greeted(c)) /\ WF_vars(OpenPage(c))
                        /\ WF_vars(Deliver(c)) /\ WF_vars(DropLagged(c))
                        /\ WF_vars(Run(c) \/ ReadStatus(c) \/ StoreInterval(c) \/ Switch(c))
  /\ WF_vars(Generate)

-----------------------------------------------------------------------------

Message ==
  [type : {"book_snapshot"}, version : Nat] \cup [type : {"stream_status"}, streaming : BOOLEAN]
    \cup [type : {"order_ack", "cancel_ack", "journal_info", "replay_result", "error"}]

Handler ==
  [pc     : {"idle", "lock", "store", "switch", "send", "status", "load", "sleep"},
   cmd    : ClientMsg \cup {None},
   outbox : Seq(Message)]

TypeOK ==
  /\ version \in Nat /\ lock \in Clients \cup {Free} /\ waiters \in Seq(Tasks)
  /\ conn \in [Clients -> {"off", "connecting", "greeting", "opened", "on"}]
  /\ handler \in [Tasks -> Handler]
  /\ inbox \in [Clients -> Seq(Message)] /\ \A c \in Clients : Len(inbox[c]) <= Capacity
  /\ lagged \subseteq Clients
  /\ streaming \in BOOLEAN /\ interval \in Nat /\ armed \in Nat
  /\ page \in [Clients -> [book : Nat, streaming : BOOLEAN]]
  /\ greeting \in [Clients -> Nat] /\ shown \in [Clients -> SUBSET Nat]
  /\ last \in Nat /\ after_stop \in Nat
  /\ commands \in Nat /\ connects \in Nat /\ generated \in Nat

\* The engine's lock excludes and forgets nobody: a client is greeted exactly
\* while it holds the lock, and a task waits in the queue, once, exactly while it
\* is about to be greeted or its handler wants the lock.  An aborted handler
\* leaves the queue; a lock kept or a place kept would block every other task.
LockSound ==
  /\ \A c \in Clients : (lock = c) <=> (conn[c] = "greeting")
  /\ IsInjective(waiters)
  /\ \A t \in Tasks : t \in ToSet(waiters) <=>
       (handler[t].pc = "lock" \/ (t \in Clients /\ conn[t] = "connecting"))

\* A client that is connected and keeps up misses no change of the engine: any
\* change made after the snapshot it was greeted with has been delivered to it,
\* is in its queue, or is still to be broadcast by the handler that made it.
\* (handle_socket subscribes before it takes the snapshot; a handler aborted
\* because its own client is gone has either changed nothing or broadcasts.)
NothingMissed ==
  \A c \in Clients : conn[c] \in {"opened", "on"} /\ c \notin lagged =>
    \A v \in greeting[c] + 1 .. version :
      \/ v \in shown[c]
      \/ Snapshot(v) \in ToSet(inbox[c])
      \/ \E t \in Tasks : Snapshot(v) \in ToSet(handler[t].outbox)

\* All pages that have caught up show the same book, that of the last snapshot
\* broadcast: they may be behind the engine, but not apart from one another.
CaughtUpPagesAgree ==
  \A c \in Clients :
    conn[c] \in {"opened", "on"} /\ c \notin lagged /\ inbox[c] = << >> /\ shown[c] # {}
      => page[c].book = last

\* Once streaming is switched off, at most one more order comes out of the
\* generator: the one it had already decided to submit when it checked the flag.
OneOrderAfterStop == after_stop <= 1

(* What the proofs need besides (Server_proofs).                           *)

\* A handler has something to broadcast exactly while it broadcasts, it knows the
\* command it is about, and without a connection there is no handler.
HandlersSound ==
  /\ \A t \in Tasks :
       LET h == handler[t]
       IN  /\ (h.pc = "send") <=> (h.outbox # << >>)
           /\ h.pc = "lock" => h.cmd.type \in LockingTypes
           /\ h.pc = "store" => h.cmd.type = "start_stream"
           /\ (h.pc \in {"load", "sleep"}) => t = Generator
           /\ t = Generator => /\ h.pc \in {"load", "sleep", "lock", "send"}
                               /\ h.cmd.type # "get_state"
  /\ \A c \in Clients : conn[c] # "on" => handler[c] = Idle

\* From the moment it subscribes, a client that keeps up is owed every change since
\* the snapshot that greets it.
NothingOwed ==
  \A c \in Clients : conn[c] \in {"greeting", "opened", "on"} /\ c \notin lagged =>
    \A v \in greeting[c] + 1 .. version :
      \/ v \in shown[c]
      \/ Snapshot(v) \in ToSet(inbox[c])
      \/ \E t \in Tasks : Snapshot(v) \in ToSet(handler[t].outbox)

\* The last snapshot a queue holds is the last one broadcast; a page whose queue holds
\* none shows that one, if it got any from the channel.
IsBook(msg) == msg.type = "book_snapshot"

QueuesEndAlike ==
  \A c \in Clients : conn[c] # "off" /\ c \notin lagged =>
    /\ conn[c] \in {"connecting", "greeting"} => shown[c] = {}
    /\ \A i \in 1 .. Len(inbox[c]) :
         IsBook(inbox[c][i]) /\ (\A j \in i + 1 .. Len(inbox[c]) : ~IsBook(inbox[c][j]))
           => inbox[c][i].version = last
    /\ (\A i \in 1 .. Len(inbox[c]) : ~IsBook(inbox[c][i])) /\ shown[c] # {}
         => page[c].book = last

\* Nothing was generated yet since the stop while the stream is on, or while the
\* generator still waits for the lock.
StopCounted ==
  /\ streaming \/ handler[Generator].pc = "lock" => after_stop = 0
  /\ after_stop <= 1

\* The inductive invariant.
ServerInv ==
  /\ TypeOK /\ LockSound /\ HandlersSound /\ NothingOwed /\ QueuesEndAlike /\ StopCounted

\* A command that waits for the engine gets it, or its connection is closed.
CommandsServed ==
  \A t \in Tasks : handler[t].pc = "lock" ~> handler[t].pc # "lock"

\* A client that is connecting is greeted, and what is broadcast to a client
\* reaches it unless it falls behind or goes away.
ClientsServed ==
  \A c \in Clients : /\ conn[c] = "connecting" ~> conn[c] \notin {"connecting", "greeting"}
                     /\ inbox[c] # << >> ~> inbox[c] = << >>

\* An interval that stays set is the one the generator ends up sleeping for,
\* without a restart of its task (ws.rs, stream_interval_ms).
IntervalValues ==
  {DefaultInterval} \cup {Max({cmd.interval, MinInterval}) :
                            cmd \in {m \in Commands : m.type = "start_stream"}}

IntervalTakesEffect ==
  \A i \in IntervalValues : <>[](interval = i) => <>[](armed = i)

-----------------------------------------------------------------------------
(* What the page claims, when nothing is under way any more.               *)

Quiet ==
  /\ lock = Free /\ waiters = << >> /\ lagged = {}
  /\ \A c \in Clients : /\ conn[c] \in {"off", "on"}
                        /\ handler[c] = Idle /\ inbox[c] = << >>
  /\ handler[Generator].pc = "sleep"

\* "Live Order Book": with nothing under way, a connected page shows the live book.
LiveBook == Quiet => \A c \in Clients : conn[c] = "on" => page[c].book = version

\* The STREAMING tag: with nothing under way, it is lit if and only if the
\* generator is switched on.
StreamTag == Quiet => \A c \in Clients : conn[c] = "on" => page[c].streaming = streaming

=============================================================================
