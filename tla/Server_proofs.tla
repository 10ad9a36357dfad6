---------------------------- MODULE Server_proofs ----------------------------
(***************************************************************************)
(* Proofs about Server, for every set of clients and of commands, every    *)
(* capacity of the channel and every bound on what clients do.             *)
(***************************************************************************)
EXTENDS Server, SequenceLemmas

-----------------------------------------------------------------------------
(* Types.                                                                  *)

\* What the type invariant says of one task's handler.
LEMMA HandlerType ==
  ASSUME TypeOK, NEW t \in Tasks
  PROVE  /\ handler[t] \in Handler
         /\ handler[t].pc \in {"idle", "lock", "store", "switch", "send", "status", "load", "sleep"}
         /\ handler[t].cmd \in ClientMsg \cup {None}
         /\ handler[t].outbox \in Seq(Message)
BY DEF TypeOK, Handler

\* The clients and the generator are the tasks, and they are different.
LEMMA TaskSets ==
  /\ Clients \subseteq Tasks /\ Generator \in Tasks /\ Generator \notin Clients
  /\ Free \notin Clients /\ \A t \in Tasks : t \in Clients \/ t = Generator
BY TasksAssumption DEF Tasks

\* A task without anything to do, and the messages of the server, have their types.
LEMMA MessageTypes ==
  /\ Idle \in Handler /\ << >> \in Seq(Message)
  /\ \A v \in Nat : Snapshot(v) \in Message
  /\ \A flag \in BOOLEAN : Status(flag) \in Message
  /\ \A type \in {"order_ack", "cancel_ack", "journal_info", "replay_result", "error"} :
       Note(type) \in Message
<1>1. << >> \in Seq(Message)
  BY EmptySeq
<1> QED
  BY <1>1 DEF Idle, Handler, Message, Snapshot, Status, Note, None

\* What an operation has to broadcast: messages, and at least one; and the snapshot of
\* the version it made, if it made one.
LEMMA RepliesType ==
  ASSUME NEW v \in Nat, NEW type \in LockingTypes
  PROVE  /\ Replies(v)[type] \in Seq(Message) /\ Replies(v)[type] # << >>
         /\ type \in Changing => Snapshot(v) \in ToSet(Replies(v)[type])
<1>1. \A a \in Message : <<a>> \in Seq(Message) /\ <<a>> # << >> /\ ToSet(<<a>>) = {a}
  BY DEF ToSet
<1>2. \A a, b \in Message : <<a, b>> \in Seq(Message) /\ <<a, b>> # << >>
                            /\ a \in ToSet(<<a, b>>) /\ b \in ToSet(<<a, b>>)
  BY DEF ToSet
<1>3. CASE type = "submit_order"
  BY <1>2, <1>3, MessageTypes DEF Replies
<1>4. CASE type = "cancel_order"
  BY <1>2, <1>4, MessageTypes DEF Replies
<1>5. CASE type = "seed_demo"
  BY <1>2, <1>5, MessageTypes DEF Replies
<1>6. CASE type = "reset"
  BY <1>1, <1>6, MessageTypes DEF Replies
<1>7. CASE type = "replay"
  BY <1>1, <1>7, MessageTypes DEF Replies, Changing
<1>8. CASE type = "get_state"
  BY <1>2, <1>8, MessageTypes DEF Replies, Changing
<1> QED
  BY <1>3, <1>4, <1>5, <1>6, <1>7, <1>8 DEF LockingTypes

-----------------------------------------------------------------------------
(* Steps in which one task's handler goes on and nothing else of the       *)
(* engine or of the network changes.                                       *)

LEMMA HandlerStep ==
  ASSUME ServerInv, NEW t \in Tasks, NEW h \in Handler,
         handler' = [handler EXCEPT ![t] = h],
         handler[t].outbox = << >>, handler[t] # Idle,
         handler[t].pc # "lock", h.pc # "lock",
         (h.pc = "send") <=> (h.outbox # << >>),
         h.pc = "store" => h.cmd.type = "start_stream",
         (h.pc \in {"load", "sleep"}) <=> (t = Generator),
         t = Generator => h.cmd.type # "get_state",
         UNCHANGED <<engineVars, netVars>>
  PROVE  LockSound' /\ HandlersSound' /\ NothingOwed' /\ QueuesEndAlike'
<1> USE DEF ServerInv
<1>1. /\ version' = version /\ lock' = lock /\ waiters' = waiters /\ conn' = conn
      /\ inbox' = inbox /\ lagged' = lagged /\ page' = page /\ greeting' = greeting
      /\ shown' = shown /\ last' = last
  BY DEF engineVars, netVars
<1>2. handler \in [Tasks -> Handler]
  BY DEF TypeOK
<1>3. /\ handler'[t] = h
      /\ \A u \in Tasks : u # t => handler'[u] = handler[u]
  BY <1>2
<1>4. LockSound'
  <2>1. \A u \in Tasks : (handler'[u].pc = "lock") <=> (handler[u].pc = "lock")
    BY <1>3
  <2> QED
    BY <1>1, <2>1 DEF LockSound
<1>5. HandlersSound'
  BY <1>1, <1>3, TaskSets DEF HandlersSound
<1>6. NothingOwed'
  <2>1. \A u \in Tasks : \A m : m \in ToSet(handler[u].outbox) => m \in ToSet(handler'[u].outbox)
    BY <1>3 DEF ToSet
  <2> QED
    BY <1>1, <2>1 DEF NothingOwed
<1>7. QueuesEndAlike'
  BY <1>1 DEF QueuesEndAlike
<1> QED
  BY <1>4, <1>5, <1>6, <1>7

-----------------------------------------------------------------------------
(* Init, and the life of a connection.                                     *)

LEMMA InitStep == Init => ServerInv
<1> SUFFICES ASSUME Init PROVE ServerInv
  OBVIOUS
<1> USE DEF Init
<1>1. \A t \in Tasks : handler[t] \in Handler /\ handler[t].outbox = << >>
                       /\ handler[t].pc = IF t = Generator THEN "load" ELSE "idle"
  BY MessageTypes DEF Idle, Handler
<1>2. waiters \in Seq(Tasks) /\ ToSet(waiters) = {} /\ IsInjective(waiters)
  BY EmptySeq DEF ToSet, IsInjective
<1>3. TypeOK
  <2>1. handler \in [Tasks -> Handler]
    BY <1>1
  <2>2. inbox \in [Clients -> Seq(Message)] /\ \A c \in Clients : Len(inbox[c]) <= Capacity
    BY EmptySeq, BoundsAssumption
  <2> QED
    BY <1>2, <2>1, <2>2, BoundsAssumption DEF TypeOK
<1>4. LockSound
  <2>1. \A c \in Clients : conn[c] = "off" /\ lock # c
    BY TaskSets
  <2> QED
    BY <1>1, <1>2, <2>1 DEF LockSound
<1>5. HandlersSound
  BY <1>1, TaskSets DEF HandlersSound, Idle, None
<1>6. NothingOwed /\ QueuesEndAlike /\ StopCounted
  BY <1>1, TaskSets DEF NothingOwed, QueuesEndAlike, StopCounted
<1> QED
  BY <1>3, <1>4, <1>5, <1>6 DEF ServerInv

\* The receiver is there before the client queues for the lock.
LEMMA ConnectStep ==
  ASSUME ServerInv, NEW c \in Clients, Connect(c)
  PROVE  ServerInv'
<1> USE DEF ServerInv
<1>1. /\ conn[c] = "off" /\ conn' = [conn EXCEPT ![c] = "connecting"]
      /\ inbox' = [inbox EXCEPT ![c] = << >>] /\ lagged' = lagged \ {c}
      /\ shown' = [shown EXCEPT ![c] = {}] /\ waiters' = Append(waiters, c)
      /\ connects' = connects + 1
      /\ UNCHANGED <<version, lock, handler, page, greeting, last, commands, generated>>
      /\ UNCHANGED <<streaming, interval, armed, after_stop>>
  BY DEF Connect, streamVars
<1>2. c \in Tasks /\ handler[c].pc = "idle" /\ c \notin ToSet(waiters)
  BY <1>1, TaskSets DEF HandlersSound, LockSound, Idle
<1>3. /\ waiters' \in Seq(Tasks) /\ ToSet(waiters') = ToSet(waiters) \cup {c}
      /\ IsInjective(waiters')
  BY <1>1, <1>2, AppendToQueue DEF TypeOK, LockSound
<1>4. TypeOK'
  <2>1. inbox' \in [Clients -> Seq(Message)] /\ \A d \in Clients : Len(inbox'[d]) <= Capacity
    BY <1>1, EmptySeq, BoundsAssumption DEF TypeOK
  <2> QED
    BY <1>1, <1>3, <2>1 DEF TypeOK
<1>5. LockSound'
  <2>1. \A d \in Clients : (lock' = d) <=> (conn'[d] = "greeting")
    BY <1>1 DEF LockSound, TypeOK
  <2>2. \A t \in Tasks : t \in ToSet(waiters') <=>
          (handler'[t].pc = "lock" \/ (t \in Clients /\ conn'[t] = "connecting"))
    BY <1>1, <1>3 DEF LockSound, TypeOK
  <2> QED
    BY <1>3, <2>1, <2>2 DEF LockSound
<1>6. HandlersSound'
  BY <1>1 DEF HandlersSound, TypeOK
<1>7. NothingOwed'
  BY <1>1 DEF NothingOwed, TypeOK
<1>8. QueuesEndAlike'
  <2>1. inbox'[c] = << >> /\ Len(inbox'[c]) = 0 /\ shown'[c] = {}
    BY <1>1, EmptySeq DEF TypeOK
  <2>2. \A d \in Clients \ {c} : /\ inbox'[d] = inbox[d] /\ shown'[d] = shown[d]
                                 /\ conn'[d] = conn[d] /\ (d \notin lagged' => d \notin lagged)
    BY <1>1 DEF TypeOK
  <2>3. page' = page /\ last' = last
    BY <1>1
  <2>4. ASSUME NEW d \in Clients, conn'[d] # "off", d \notin lagged'
        PROVE  /\ conn'[d] \in {"connecting", "greeting"} => shown'[d] = {}
               /\ \A i \in 1 .. Len(inbox'[d]) :
                    IsBook(inbox'[d][i]) /\ (\A j \in i + 1 .. Len(inbox'[d]) : ~IsBook(inbox'[d][j]))
                      => inbox'[d][i].version = last'
               /\ (\A i \in 1 .. Len(inbox'[d]) : ~IsBook(inbox'[d][i])) /\ shown'[d] # {}
                    => page'[d].book = last'
    <3>1. CASE d = c
      BY <2>1, <3>1
    <3>2. CASE d # c
      <4>1. /\ inbox'[d] = inbox[d] /\ shown'[d] = shown[d] /\ conn'[d] = conn[d]
            /\ page'[d] = page[d] /\ last' = last /\ d \notin lagged /\ conn[d] # "off"
        BY <2>2, <2>3, <2>4, <3>2
      <4> QED
        BY <4>1 DEF QueuesEndAlike
    <3> QED
      BY <3>1, <3>2
  <2> QED
    BY <2>4 DEF QueuesEndAlike
<1>9. StopCounted'
  BY <1>1 DEF StopCounted
<1> QED
  BY <1>4, <1>5, <1>6, <1>7, <1>8, <1>9

\* Its turn has come: it holds the lock and nothing is owed yet.
LEMMA GreetStep ==
  ASSUME ServerInv, NEW c \in Clients, Greet(c)
  PROVE  ServerInv'
<1> USE DEF ServerInv
<1>1. /\ conn[c] = "connecting" /\ lock = Free /\ waiters # << >> /\ Head(waiters) = c
      /\ waiters' = Tail(waiters) /\ lock' = c /\ conn' = [conn EXCEPT ![c] = "greeting"]
      /\ greeting' = [greeting EXCEPT ![c] = version]
      /\ UNCHANGED <<version, handler, inbox, lagged, page, shown, last>>
      /\ UNCHANGED <<streaming, interval, armed, after_stop, commands, connects, generated>>
  BY DEF Greet, streamVars, boundVars
<1>2. c \in Tasks /\ handler[c].pc = "idle"
  BY <1>1, TaskSets DEF HandlersSound, Idle
<1>3. /\ waiters' \in Seq(Tasks) /\ ToSet(waiters) = ToSet(waiters') \cup {c}
      /\ IsInjective(waiters') /\ c \notin ToSet(waiters')
  BY <1>1, TailOfQueue DEF TypeOK, LockSound
<1>4. TypeOK'
  BY <1>1, <1>3 DEF TypeOK
<1>5. LockSound'
  <2>1. \A d \in Clients : (lock' = d) <=> (conn'[d] = "greeting")
    BY <1>1, TaskSets DEF LockSound, TypeOK
  <2>2. \A t \in Tasks : t \in ToSet(waiters') <=>
          (handler'[t].pc = "lock" \/ (t \in Clients /\ conn'[t] = "connecting"))
    BY <1>1, <1>2, <1>3 DEF LockSound, TypeOK
  <2> QED
    BY <1>3, <2>1, <2>2 DEF LockSound
<1>6. HandlersSound'
  BY <1>1 DEF HandlersSound, TypeOK
<1>7. NothingOwed'
  BY <1>1 DEF NothingOwed, TypeOK
<1>8. QueuesEndAlike'
  BY <1>1 DEF QueuesEndAlike, TypeOK
<1>9. StopCounted'
  BY <1>1 DEF StopCounted
<1> QED
  BY <1>4, <1>5, <1>6, <1>7, <1>8, <1>9

\* The lock is released with the greeting, to whoever is first in the queue.
LEMMA GreetedStep ==
  ASSUME ServerInv, NEW c \in Clients, Greeted(c)
  PROVE  ServerInv'
<1> USE DEF ServerInv
<1>1. /\ conn[c] = "greeting" /\ lock' = Free /\ conn' = [conn EXCEPT ![c] = "opened"]
      /\ page' = [page EXCEPT ![c].book = greeting[c]]
      /\ UNCHANGED <<version, waiters, handler, inbox, lagged, greeting, shown, last>>
      /\ UNCHANGED <<streaming, interval, armed, after_stop, commands, connects, generated>>
  BY DEF Greeted, streamVars, boundVars
<1>2. lock = c
  BY <1>1 DEF LockSound
<1>3. TypeOK'
  BY <1>1 DEF TypeOK
<1>4. LockSound'
  <2>1. \A d \in Clients : (lock' = d) <=> (conn'[d] = "greeting")
    BY <1>1, <1>2, TaskSets DEF LockSound, TypeOK
  <2>2. \A t \in Tasks : t \in ToSet(waiters') <=>
          (handler'[t].pc = "lock" \/ (t \in Clients /\ conn'[t] = "connecting"))
    BY <1>1 DEF LockSound, TypeOK
  <2> QED
    BY <1>1, <2>1, <2>2 DEF LockSound
<1>5. HandlersSound'
  BY <1>1 DEF HandlersSound, TypeOK
<1>6. NothingOwed'
  BY <1>1 DEF NothingOwed, TypeOK
<1>7. QueuesEndAlike'
  BY <1>1 DEF QueuesEndAlike, TypeOK
<1>8. StopCounted'
  BY <1>1 DEF StopCounted
<1> QED
  BY <1>3, <1>4, <1>5, <1>6, <1>7, <1>8

\* The page's own get_state starts the connection's handler.
LEMMA OpenPageStep ==
  ASSUME ServerInv, NEW c \in Clients, OpenPage(c)
  PROVE  ServerInv'
<1> USE DEF ServerInv
<1> DEFINE h == [pc |-> "lock", cmd |-> [type |-> "get_state"], outbox |-> << >>]
<1>1. /\ conn[c] = "opened" /\ conn' = [conn EXCEPT ![c] = "on"]
      /\ handler' = [handler EXCEPT ![c] = h] /\ waiters' = Append(waiters, c)
      /\ UNCHANGED <<version, lock, inbox, lagged, page, greeting, shown, last>>
      /\ UNCHANGED <<streaming, interval, armed, after_stop, commands, connects, generated>>
  BY DEF OpenPage, streamVars, boundVars
<1>2. /\ c \in Tasks /\ c # Generator /\ handler[c].pc = "idle" /\ handler[c].outbox = << >>
      /\ c \notin ToSet(waiters)
  BY <1>1, TaskSets DEF HandlersSound, LockSound, Idle
<1>3. /\ waiters' \in Seq(Tasks) /\ ToSet(waiters') = ToSet(waiters) \cup {c}
      /\ IsInjective(waiters')
  BY <1>1, <1>2, AppendToQueue DEF TypeOK, LockSound
<1>4. h \in Handler /\ handler'[c] = h /\ \A u \in Tasks : u # c => handler'[u] = handler[u]
  <2>1. h \in Handler
    BY EmptySeq DEF Handler, ClientMsg, LockingTypes
  <2> QED
    BY <1>1, <1>2, <2>1 DEF TypeOK
<1>5. TypeOK'
  BY <1>1, <1>3, <1>4 DEF TypeOK
<1>6. LockSound'
  <2>1. \A d \in Clients : (lock' = d) <=> (conn'[d] = "greeting")
    BY <1>1 DEF LockSound, TypeOK
  <2>2. \A t \in Tasks : t \in ToSet(waiters') <=>
          (handler'[t].pc = "lock" \/ (t \in Clients /\ conn'[t] = "connecting"))
    BY <1>1, <1>3, <1>4 DEF LockSound, TypeOK
  <2> QED
    BY <1>3, <2>1, <2>2 DEF LockSound
<1>7. HandlersSound'
  BY <1>1, <1>2, <1>4 DEF HandlersSound, TypeOK, LockingTypes
<1>8. NothingOwed'
  <2>1. \A u \in Tasks : \A m : m \in ToSet(handler[u].outbox) => m \in ToSet(handler'[u].outbox)
    BY <1>2, <1>4 DEF ToSet
  <2> QED
    BY <1>1, <2>1 DEF NothingOwed, TypeOK
<1>9. QueuesEndAlike'
  BY <1>1 DEF QueuesEndAlike, TypeOK
<1>10. StopCounted'
  BY <1>1, <1>2, <1>4, TaskSets DEF StopCounted
<1> QED
  BY <1>5, <1>6, <1>7, <1>8, <1>9, <1>10

\* What leaves the queue has arrived.
LEMMA DeliverStep ==
  ASSUME ServerInv, NEW c \in Clients, Deliver(c)
  PROVE  ServerInv'
<1> USE DEF ServerInv
<1> DEFINE msg == Head(inbox[c])
<1>1. /\ conn[c] \in {"opened", "on"} /\ c \notin lagged /\ inbox[c] # << >>
      /\ inbox' = [inbox EXCEPT ![c] = Tail(@)]
      /\ UNCHANGED <<version, lock, waiters, conn, lagged, greeting, last, handler>>
      /\ UNCHANGED <<streaming, interval, armed, after_stop, commands, connects, generated>>
  BY DEF Deliver, engineVars, streamVars, boundVars
<1>2. /\ page' = CASE msg.type = "book_snapshot" -> [page EXCEPT ![c].book = msg.version]
                   [] msg.type = "stream_status" -> [page EXCEPT ![c].streaming = msg.streaming]
                   [] OTHER -> page
      /\ shown' = IF msg.type = "book_snapshot"
                    THEN [shown EXCEPT ![c] = @ \cup {msg.version}] ELSE shown
  BY DEF Deliver
<1>3. /\ inbox[c] \in Seq(Message) /\ Len(inbox[c]) \in Nat /\ Len(inbox[c]) > 0
      /\ msg \in Message /\ msg = inbox[c][1]
      /\ Tail(inbox[c]) \in Seq(Message) /\ Len(Tail(inbox[c])) = Len(inbox[c]) - 1
      /\ \A i \in 1 .. Len(inbox[c]) - 1 : Tail(inbox[c])[i] = inbox[c][i + 1]
      /\ ToSet(inbox[c]) = ToSet(Tail(inbox[c])) \cup {msg}
  <2>1. inbox[c] \in Seq(Message)
    BY DEF TypeOK
  <2> QED
    BY <1>1, <2>1, TailOfQueue, InQueue
<1>4. /\ inbox'[c] = Tail(inbox[c]) /\ inbox' \in [Clients -> Seq(Message)]
      /\ \A d \in Clients : d # c => inbox'[d] = inbox[d]
  BY <1>1, <1>3 DEF TypeOK
<1>5. CASE msg.type = "book_snapshot"
  <2>1. msg = Snapshot(msg.version) /\ msg.version \in Nat
    BY <1>3, <1>5 DEF Message, Snapshot
  <2>2. /\ page' = [page EXCEPT ![c].book = msg.version]
        /\ shown' = [shown EXCEPT ![c] = @ \cup {msg.version}]
    BY <1>2, <1>5
  <2> HIDE DEF msg
  <2>3. TypeOK'
    <3>1. Len(inbox[c]) <= Capacity /\ Len(inbox'[c]) = Len(inbox[c]) - 1 /\ Capacity \in Nat
      BY <1>3, <1>4, BoundsAssumption DEF TypeOK
    <3>2. \A d \in Clients : Len(inbox'[d]) <= Capacity
      BY <1>3, <1>4, <3>1 DEF TypeOK
    <3> QED
      BY <1>1, <1>4, <2>1, <2>2, <3>2 DEF TypeOK
  <2>4. NothingOwed'
    <3>1. \A d \in Clients, v \in Nat :
            v \in shown[d] \/ Snapshot(v) \in ToSet(inbox[d])
              => v \in shown'[d] \/ Snapshot(v) \in ToSet(inbox'[d])
      <4>1. \A v \in Nat : Snapshot(v) = msg => v = msg.version
        BY DEF Snapshot
      <4>2. /\ shown'[c] = shown[c] \cup {msg.version}
            /\ \A d \in Clients : d # c => shown'[d] = shown[d]
        BY <2>2 DEF TypeOK
      <4>3. ASSUME NEW v \in Nat, v \in shown[c] \/ Snapshot(v) \in ToSet(inbox[c])
            PROVE  v \in shown'[c] \/ Snapshot(v) \in ToSet(inbox'[c])
        BY <1>3, <1>4, <4>1, <4>2, <4>3
      <4> QED
        BY <1>4, <4>2, <4>3
    <3> QED
      BY <1>1, <3>1 DEF NothingOwed, TypeOK
  <2>5. QueuesEndAlike'
    <3>1. IsBook(msg)
      BY <1>5 DEF IsBook
    <3>2. page'[c].book = msg.version
      BY <2>2 DEF TypeOK
    <3>3. \A d \in Clients : d # c => shown'[d] = shown[d] /\ page'[d] = page[d]
      BY <2>2 DEF TypeOK
    <3>4. ASSUME NEW i \in 1 .. Len(inbox'[c]), IsBook(inbox'[c][i]),
                 \A j \in i + 1 .. Len(inbox'[c]) : ~IsBook(inbox'[c][j])
          PROVE  inbox'[c][i].version = last
      <4>1. i + 1 \in 1 .. Len(inbox[c]) /\ inbox'[c][i] = inbox[c][i + 1]
        BY <1>3, <1>4
      <4>2. ASSUME NEW j \in (i + 1) + 1 .. Len(inbox[c])
            PROVE  ~IsBook(inbox[c][j])
        <5>1. j - 1 \in i + 1 .. Len(inbox'[c]) /\ inbox'[c][j - 1] = inbox[c][j]
          BY <1>3, <1>4
        <5> QED
          BY <5>1, <3>4
      <4> QED
        BY <1>1, <3>4, <4>1, <4>2 DEF QueuesEndAlike
    <3>5. ASSUME \A i \in 1 .. Len(inbox'[c]) : ~IsBook(inbox'[c][i])
          PROVE  page'[c].book = last
      <4>1. ASSUME NEW j \in 1 + 1 .. Len(inbox[c])
            PROVE  ~IsBook(inbox[c][j])
        <5>1. j - 1 \in 1 .. Len(inbox'[c]) /\ inbox'[c][j - 1] = inbox[c][j]
          BY <1>3, <1>4
        <5> QED
          BY <5>1, <3>5
      <4>2. inbox[c][1].version = last
        BY <1>1, <1>3, <3>1, <4>1, 1 \in 1 .. Len(inbox[c]) DEF QueuesEndAlike
      <4> QED
        BY <1>3, <3>2, <4>2
    <3>6. ASSUME NEW d \in Clients, d # c, conn'[d] # "off", d \notin lagged'
          PROVE  /\ conn'[d] \in {"connecting", "greeting"} => shown'[d] = {}
                 /\ \A i \in 1 .. Len(inbox'[d]) :
                      IsBook(inbox'[d][i])
                      /\ (\A j \in i + 1 .. Len(inbox'[d]) : ~IsBook(inbox'[d][j]))
                        => inbox'[d][i].version = last'
                 /\ (\A i \in 1 .. Len(inbox'[d]) : ~IsBook(inbox'[d][i])) /\ shown'[d] # {}
                      => page'[d].book = last'
      BY <1>1, <1>4, <3>3, <3>6 DEF QueuesEndAlike
    <3>7. conn'[c] \notin {"connecting", "greeting"}
      BY <1>1
    <3> QED
      BY <1>1, <3>4, <3>5, <3>6, <3>7 DEF QueuesEndAlike
  <2> QED
    BY <1>1, <2>3, <2>4, <2>5 DEF LockSound, HandlersSound, StopCounted
<1>6. CASE msg.type # "book_snapshot"
  <2>1. shown' = shown /\ \A v : msg # Snapshot(v)
    BY <1>2, <1>6 DEF Snapshot
  <2>2. /\ page' \in [Clients -> [book : Nat, streaming : BOOLEAN]]
        /\ \A d \in Clients : page'[d].book = page[d].book
    <3>1. CASE msg.type = "stream_status"
      BY <1>2, <1>3, <3>1 DEF TypeOK, Message
    <3>2. CASE msg.type # "stream_status"
      BY <1>2, <1>6, <3>2 DEF TypeOK
    <3> QED
      BY <3>1, <3>2
  <2> HIDE DEF msg
  <2>3. TypeOK'
    <3>1. Len(inbox[c]) <= Capacity /\ Len(inbox'[c]) = Len(inbox[c]) - 1 /\ Capacity \in Nat
      BY <1>3, <1>4, BoundsAssumption DEF TypeOK
    <3>2. \A d \in Clients : Len(inbox'[d]) <= Capacity
      BY <1>3, <1>4, <3>1 DEF TypeOK
    <3> QED
      BY <1>1, <1>4, <2>1, <2>2, <3>2 DEF TypeOK
  <2>4. NothingOwed'
    <3>1. \A d \in Clients, v \in Nat :
            Snapshot(v) \in ToSet(inbox[d]) => Snapshot(v) \in ToSet(inbox'[d])
      BY <1>3, <1>4, <2>1
    <3> QED
      BY <1>1, <2>1, <3>1 DEF NothingOwed, TypeOK
  <2>5. QueuesEndAlike'
    <3>1. ~IsBook(msg)
      BY <1>6 DEF IsBook
    <3>2. ASSUME NEW i \in 1 .. Len(inbox'[c]), IsBook(inbox'[c][i]),
                 \A j \in i + 1 .. Len(inbox'[c]) : ~IsBook(inbox'[c][j])
          PROVE  inbox'[c][i].version = last
      <4>1. i + 1 \in 1 .. Len(inbox[c]) /\ inbox'[c][i] = inbox[c][i + 1]
        BY <1>3, <1>4
      <4>2. ASSUME NEW j \in (i + 1) + 1 .. Len(inbox[c])
            PROVE  ~IsBook(inbox[c][j])
        <5>1. j - 1 \in i + 1 .. Len(inbox'[c]) /\ inbox'[c][j - 1] = inbox[c][j]
          BY <1>3, <1>4
        <5> QED
          BY <5>1, <3>2
      <4> QED
        BY <1>1, <3>2, <4>1, <4>2 DEF QueuesEndAlike
    <3>3. ASSUME \A i \in 1 .. Len(inbox'[c]) : ~IsBook(inbox'[c][i]), shown'[c] # {}
          PROVE  page'[c].book = last
      <4>1. ASSUME NEW j \in 1 .. Len(inbox[c])
            PROVE  ~IsBook(inbox[c][j])
        <5>1. CASE j = 1
          BY <5>1, <1>3, <3>1
        <5>2. CASE j # 1
          <6>1. j - 1 \in 1 .. Len(inbox'[c]) /\ inbox'[c][j - 1] = inbox[c][j]
            BY <1>3, <1>4, <5>2
          <6> QED
            BY <6>1, <3>3
        <5> QED
          BY <5>1, <5>2
      <4> QED
        BY <1>1, <2>1, <2>2, <3>3, <4>1 DEF QueuesEndAlike
    <3> QED
      BY <1>1, <1>4, <2>1, <2>2, <3>2, <3>3 DEF QueuesEndAlike
  <2> QED
    BY <1>1, <2>3, <2>4, <2>5 DEF LockSound, HandlersSound, StopCounted
<1> QED
  BY <1>5, <1>6

\* The connection ends: its handler had nothing to broadcast, and leaves the queue.
LEMMA CloseStep ==
  ASSUME ServerInv, NEW c \in Clients, Close(c)
  PROVE  ServerInv'
<1> USE DEF ServerInv
<1>1. /\ conn[c] \in {"opened", "on"} /\ handler[c].pc \in {"idle", "lock"}
      /\ conn' = [conn EXCEPT ![c] = "off"] /\ handler' = [handler EXCEPT ![c] = Idle]
      /\ waiters' = RemoveFirst(waiters, c) /\ inbox' = [inbox EXCEPT ![c] = << >>]
      /\ lagged' = lagged \ {c}
      /\ UNCHANGED <<version, lock, page, greeting, shown, last>>
      /\ UNCHANGED <<streaming, interval, armed, after_stop, commands, connects, generated>>
  BY DEF Close, streamVars, boundVars
<1>2. c \in Tasks /\ c # Generator /\ handler[c].outbox = << >>
  BY <1>1, TaskSets DEF HandlersSound
<1>3. /\ waiters' \in Seq(Tasks) /\ ToSet(waiters') = ToSet(waiters) \ {c}
      /\ IsInjective(waiters')
  BY <1>1, <1>2, RemoveFromQueue DEF TypeOK, LockSound
<1>4. handler'[c] = Idle /\ \A u \in Tasks : u # c => handler'[u] = handler[u]
  BY <1>1, <1>2 DEF TypeOK
<1>5. /\ conn'[c] = "off"
      /\ \A d \in Clients : d # c => /\ conn'[d] = conn[d] /\ inbox'[d] = inbox[d]
                                     /\ (d \notin lagged' => d \notin lagged)
  BY <1>1 DEF TypeOK
<1>6. TypeOK'
  <2>1. handler' \in [Tasks -> Handler]
    BY <1>1, MessageTypes DEF TypeOK
  <2>2. inbox' \in [Clients -> Seq(Message)] /\ \A d \in Clients : Len(inbox'[d]) <= Capacity
    BY <1>1, EmptySeq, BoundsAssumption DEF TypeOK
  <2> QED
    BY <1>1, <1>3, <2>1, <2>2 DEF TypeOK
<1>7. LockSound'
  <2>1. \A d \in Clients : (lock' = d) <=> (conn'[d] = "greeting")
    BY <1>1, <1>5 DEF LockSound
  <2>2. \A t \in Tasks : t \in ToSet(waiters') <=>
          (handler'[t].pc = "lock" \/ (t \in Clients /\ conn'[t] = "connecting"))
    BY <1>3, <1>4, <1>5 DEF LockSound, Idle
  <2> QED
    BY <1>3, <2>1, <2>2 DEF LockSound
<1>8. HandlersSound'
  BY <1>1, <1>2, <1>4, <1>5 DEF HandlersSound, Idle
<1>9. NothingOwed'
  <2>1. \A u \in Tasks : \A m : m \in ToSet(handler[u].outbox) => m \in ToSet(handler'[u].outbox)
    BY <1>2, <1>4 DEF ToSet
  <2> QED
    BY <1>1, <1>5, <2>1 DEF NothingOwed
<1>10. QueuesEndAlike'
  BY <1>1, <1>5 DEF QueuesEndAlike
<1>11. StopCounted'
  BY <1>1, <1>2, <1>4, TaskSets DEF StopCounted
<1> QED
  BY <1>6, <1>7, <1>8, <1>9, <1>10, <1>11

-----------------------------------------------------------------------------
(* A command.                                                              *)

\* A command reaches an idle handler: it queues for the lock if it needs the engine.
LEMMA ReceiveStep ==
  ASSUME ServerInv, NEW c \in Clients, Receive(c)
  PROVE  ServerInv'
<1> USE DEF ServerInv
<1>1. /\ conn[c] = "on" /\ handler[c] = Idle /\ commands' = commands + 1
      /\ UNCHANGED <<version, lock, conn, inbox, lagged, page, greeting, shown, last>>
      /\ UNCHANGED <<streaming, interval, armed, after_stop, connects, generated>>
  BY DEF Receive, streamVars, netVars
<1> DEFINE H(cmd) ==
      CASE cmd.type \in LockingTypes -> [pc |-> "lock", cmd |-> cmd, outbox |-> << >>]
        [] cmd.type = "start_stream" -> [pc |-> "store", cmd |-> cmd, outbox |-> << >>]
        [] cmd.type = "stop_stream"  -> [pc |-> "switch", cmd |-> cmd, outbox |-> << >>]
        [] OTHER -> [pc |-> "send", cmd |-> cmd, outbox |-> <<Note("error")>>]
<1>2. PICK cmd \in Commands :
        /\ handler' = [handler EXCEPT ![c] = H(cmd)]
        /\ waiters' = IF cmd.type \in LockingTypes THEN Append(waiters, c) ELSE waiters
  BY DEF Receive
<1>3. cmd \in ClientMsg
  BY CommandsAssumption
<1> DEFINE h == H(cmd)
<1>4. /\ h.pc \in {"lock", "store", "switch", "send"} /\ h.cmd = cmd
      /\ (h.pc = "lock") <=> (cmd.type \in LockingTypes)
      /\ h.pc = "store" => cmd.type = "start_stream"
      /\ h.outbox = IF h.pc = "send" THEN <<Note("error")>> ELSE << >>
      /\ h = [pc |-> h.pc, cmd |-> h.cmd, outbox |-> h.outbox]
  <2>1. CASE cmd.type \in LockingTypes
    BY <2>1 DEF LockingTypes
  <2>2. CASE cmd.type = "start_stream"
    BY <2>2 DEF LockingTypes
  <2>3. CASE cmd.type = "stop_stream"
    BY <2>3 DEF LockingTypes
  <2>4. CASE cmd.type \notin LockingTypes \cup {"start_stream", "stop_stream"}
    BY <2>4
  <2> QED
    BY <2>1, <2>2, <2>3, <2>4
<1>5. handler' = [handler EXCEPT ![c] = h]
  BY <1>2
<1> HIDE DEF h
<1>6. h \in Handler /\ ((h.pc = "send") <=> (h.outbox # << >>))
  <2>1. <<Note("error")>> \in Seq(Message) /\ <<Note("error")>> # << >>
    BY MessageTypes
  <2> QED
    BY <1>3, <1>4, <2>1, EmptySeq DEF Handler
<1>7. /\ c \in Tasks /\ c # Generator /\ handler[c].pc = "idle" /\ handler[c].outbox = << >>
      /\ c \notin ToSet(waiters)
  BY <1>1, TaskSets DEF LockSound, Idle
<1>8. handler'[c] = h /\ \A u \in Tasks : u # c => handler'[u] = handler[u]
  BY <1>5, <1>7 DEF TypeOK
<1>9. /\ waiters' \in Seq(Tasks) /\ IsInjective(waiters')
      /\ ToSet(waiters') = IF cmd.type \in LockingTypes THEN ToSet(waiters) \cup {c}
                           ELSE ToSet(waiters)
  <2>1. waiters \in Seq(Tasks) /\ IsInjective(waiters)
    BY DEF TypeOK, LockSound
  <2>2. waiters' = IF cmd.type \in LockingTypes THEN Append(waiters, c) ELSE waiters
    BY <1>2
  <2>3. CASE cmd.type \in LockingTypes
    BY <1>7, <2>1, <2>2, <2>3, AppendToQueue
  <2>4. CASE cmd.type \notin LockingTypes
    BY <2>1, <2>2, <2>4
  <2> QED
    BY <2>3, <2>4
<1> HIDE DEF H
<1>10. TypeOK'
  <2>1. handler' \in [Tasks -> Handler]
    BY <1>5, <1>6 DEF TypeOK
  <2> QED
    BY <1>1, <1>9, <2>1 DEF TypeOK
<1>11. LockSound'
  <2>1. \A t \in Tasks : t \in ToSet(waiters') <=>
          (handler'[t].pc = "lock" \/ (t \in Clients /\ conn'[t] = "connecting"))
    BY <1>1, <1>4, <1>7, <1>8, <1>9 DEF LockSound
  <2> QED
    BY <1>1, <1>9, <2>1 DEF LockSound
<1>12. HandlersSound'
  <2>1. \A d \in Clients : conn'[d] # "on" => handler'[d] = Idle
    BY <1>1, <1>8, TaskSets DEF HandlersSound
  <2> QED
    BY <1>4, <1>6, <1>7, <1>8, <2>1 DEF HandlersSound
<1>13. NothingOwed'
  <2>1. \A u \in Tasks : \A m : m \in ToSet(handler[u].outbox) => m \in ToSet(handler'[u].outbox)
    BY <1>7, <1>8 DEF ToSet
  <2> QED
    BY <1>1, <2>1 DEF NothingOwed
<1>14. QueuesEndAlike'
  BY <1>1 DEF QueuesEndAlike
<1>15. StopCounted'
  BY <1>1, <1>7, <1>8, TaskSets DEF StopCounted
<1> QED
  BY <1>10, <1>11, <1>12, <1>13, <1>14, <1>15

\* The task that is first in the queue changes the engine: it owes everybody the
\* snapshot of the version it made.
LEMMA OperateStep ==
  ASSUME ServerInv, NEW t \in Tasks, Operate(t)
  PROVE  ServerInv'
<1> USE DEF ServerInv
<1> DEFINE type == handler[t].cmd.type
           replies == Replies(version')[type]
<1>1. /\ handler[t].pc = "lock" /\ lock = Free /\ waiters # << >> /\ Head(waiters) = t
      /\ waiters' = Tail(waiters)
      /\ version' = IF type \in Changing THEN version + 1 ELSE version
      /\ handler' = [handler EXCEPT ![t] = [@ EXCEPT !.pc = "send", !.outbox = replies]]
      /\ after_stop' = IF t = Generator /\ ~streaming THEN after_stop + 1 ELSE after_stop
      /\ UNCHANGED <<lock, conn, inbox, lagged, page, greeting, shown, last>>
      /\ UNCHANGED <<streaming, interval, armed, commands, connects, generated>>
  BY DEF Operate, netVars, boundVars
<1>2. type \in LockingTypes /\ handler[t].outbox = << >>
  BY <1>1 DEF HandlersSound
<1>3. version \in Nat /\ version' \in Nat
  BY <1>1 DEF TypeOK
<1>4. /\ replies \in Seq(Message) /\ replies # << >>
      /\ type \in Changing => Snapshot(version') \in ToSet(replies)
  BY <1>2, <1>3, RepliesType
<1> HIDE DEF replies
<1>5. /\ handler'[t].pc = "send" /\ handler'[t].outbox = replies
      /\ handler'[t].cmd = handler[t].cmd
      /\ handler' \in [Tasks -> Handler]
      /\ \A u \in Tasks : u # t => handler'[u] = handler[u]
  <2> DEFINE h == [handler[t] EXCEPT !.pc = "send", !.outbox = replies]
  <2>1. handler[t] \in Handler
    BY HandlerType
  <2>2. h \in Handler /\ h.pc = "send" /\ h.outbox = replies /\ h.cmd = handler[t].cmd
    BY <1>4, <2>1 DEF Handler
  <2>3. handler' = [handler EXCEPT ![t] = h]
    BY <1>1
  <2> HIDE DEF h
  <2> QED
    BY <2>2, <2>3 DEF TypeOK
<1>6. /\ waiters' \in Seq(Tasks) /\ ToSet(waiters) = ToSet(waiters') \cup {t}
      /\ IsInjective(waiters') /\ t \notin ToSet(waiters')
  BY <1>1, TailOfQueue DEF TypeOK, LockSound
<1>7. t \in Clients => conn[t] = "on"
  BY <1>1 DEF HandlersSound, Idle
<1>8. StopCounted' /\ after_stop' \in Nat
  <2>1. CASE t = Generator /\ ~streaming
    BY <1>1, <1>5, <2>1, TaskSets DEF StopCounted
  <2>2. CASE t = Generator /\ streaming
    BY <1>1, <1>5, <2>2, TaskSets DEF StopCounted, TypeOK
  <2>3. CASE t # Generator
    BY <1>1, <1>5, <2>3, TaskSets DEF StopCounted, TypeOK
  <2> QED
    BY <2>1, <2>2, <2>3
<1>9. TypeOK'
  BY <1>1, <1>3, <1>5, <1>6, <1>8 DEF TypeOK
<1>10. LockSound'
  <2>1. \A u \in Tasks : u \in ToSet(waiters') <=>
          (handler'[u].pc = "lock" \/ (u \in Clients /\ conn'[u] = "connecting"))
    BY <1>1, <1>5, <1>6, <1>7 DEF LockSound
  <2> QED
    BY <1>1, <1>6, <2>1 DEF LockSound
<1>11. HandlersSound'
  <2>1. /\ handler'[t].pc = "send" /\ handler'[t].outbox # << >>
        /\ handler'[t].cmd = handler[t].cmd
        /\ \A u \in Tasks : u # t => handler'[u] = handler[u]
    BY <1>4, <1>5
  <2>2. \A c \in Clients : conn'[c] # "on" => handler'[c] = Idle
    BY <1>1, <1>7, <2>1, TaskSets DEF HandlersSound
  <2> QED
    BY <2>1, <2>2 DEF HandlersSound
<1>12. NothingOwed'
  <2>1. ASSUME NEW c \in Clients, conn[c] \in {"greeting", "opened", "on"}, c \notin lagged,
               NEW v \in greeting[c] + 1 .. version'
        PROVE  \/ v \in shown[c]
               \/ Snapshot(v) \in ToSet(inbox[c])
               \/ \E u \in Tasks : Snapshot(v) \in ToSet(handler'[u].outbox)
    <3>1. CASE v = version' /\ type \in Changing
      BY <1>4, <1>5, <3>1
    <3>2. CASE ~(v = version' /\ type \in Changing)
      <4>1. v \in greeting[c] + 1 .. version
        BY <1>1, <1>3, <2>1, <3>2 DEF TypeOK
      <4>2. \A u \in Tasks : \A m : m \in ToSet(handler[u].outbox) => m \in ToSet(handler'[u].outbox)
        BY <1>2, <1>5 DEF ToSet
      <4> QED
        BY <2>1, <4>1, <4>2 DEF NothingOwed
    <3> QED
      BY <3>1, <3>2
  <2> QED
    BY <1>1, <2>1 DEF NothingOwed
<1>13. QueuesEndAlike'
  BY <1>1 DEF QueuesEndAlike
<1> QED
  BY <1>8, <1>9, <1>10, <1>11, <1>12, <1>13

-----------------------------------------------------------------------------
(* The broadcast.                                                          *)

\* Every receiver that is not overrun gets the message behind those it has not read.
LEMMA PublishEffect ==
  ASSUME TypeOK, NEW msg \in Message, Publish(msg)
  PROVE  /\ lagged \subseteq lagged' /\ lagged' \subseteq Clients
         /\ inbox' \in [Clients -> Seq(Message)] /\ \A c \in Clients : Len(inbox'[c]) <= Capacity
         /\ last' = IF msg.type = "book_snapshot" THEN msg.version ELSE last
         /\ last' \in Nat
         /\ \A c \in Clients : conn[c] # "off" /\ c \notin lagged'
              => inbox'[c] = Append(inbox[c], msg)
<1> DEFINE full == {c \in Clients : Subscribed(c) /\ Len(inbox[c]) = Capacity}
<1>1. /\ lagged' = lagged \cup full
      /\ inbox' = [c \in Clients |-> IF c \in lagged \cup full THEN << >>
                                     ELSE IF Subscribed(c) THEN Append(inbox[c], msg)
                                     ELSE inbox[c]]
      /\ last' = IF msg.type = "book_snapshot" THEN msg.version ELSE last
  BY DEF Publish
<1>2. ASSUME NEW c \in Clients
      PROVE  inbox'[c] \in Seq(Message) /\ Len(inbox'[c]) <= Capacity
  <2>1. /\ inbox[c] \in Seq(Message) /\ Len(inbox[c]) \in Nat /\ Len(inbox[c]) <= Capacity
        /\ Append(inbox[c], msg) \in Seq(Message) /\ Len(Append(inbox[c], msg)) = Len(inbox[c]) + 1
    <3>1. inbox[c] \in Seq(Message) /\ Len(inbox[c]) <= Capacity
      BY DEF TypeOK
    <3> QED
      BY <3>1, AppendToQueue, LenProperties
  <2>2. << >> \in Seq(Message) /\ Len(<< >>) = 0 /\ Capacity \in Nat
    BY EmptySeq, BoundsAssumption
  <2>3. CASE c \in lagged \cup full
    BY <1>1, <2>2, <2>3
  <2>4. CASE c \notin lagged \cup full /\ Subscribed(c)
    <3>1. Len(inbox[c]) # Capacity /\ inbox'[c] = Append(inbox[c], msg)
      BY <1>1, <2>4
    <3> QED
      BY <2>1, <2>2, <3>1
  <2>5. CASE c \notin lagged \cup full /\ ~Subscribed(c)
    BY <1>1, <2>1, <2>5
  <2> QED
    BY <2>3, <2>4, <2>5
<1>3. last' \in Nat
  BY <1>1 DEF TypeOK, Message
<1>4. inbox' \in [Clients -> Seq(Message)]
  BY <1>1, <1>2
<1> QED
  BY <1>1, <1>2, <1>3, <1>4 DEF Subscribed, TypeOK

\* A message behind the others: the last snapshot of a queue stays the last one
\* broadcast, and a queue that holds none held none.
LEMMA SendStep ==
  ASSUME ServerInv, NEW t \in Tasks, Send(t)
  PROVE  ServerInv'
<1> USE DEF ServerInv
<1> DEFINE outbox == handler[t].outbox
           msg == Head(outbox)
           left == Tail(outbox)
           h == IF left # << >> THEN [handler[t] EXCEPT !.outbox = left]
                ELSE IF handler[t].cmd.type = "get_state"
                       THEN [handler[t] EXCEPT !.pc = "status", !.outbox = << >>]
                ELSE IF t = Generator THEN [Idle EXCEPT !.pc = "load"]
                ELSE Idle
<1>1. /\ handler[t].pc = "send" /\ Publish(msg) /\ handler' = [handler EXCEPT ![t] = h]
      /\ UNCHANGED <<version, lock, waiters, conn, page, greeting, shown>>
      /\ UNCHANGED <<streaming, interval, armed, after_stop, commands, connects, generated>>
  BY DEF Send, engineVars, streamVars, boundVars
<1>2. /\ outbox \in Seq(Message) /\ outbox # << >> /\ handler[t] \in Handler
      /\ t \in Clients => conn[t] = "on"
      /\ t = Generator => handler[t].cmd.type # "get_state"
  BY <1>1, HandlerType DEF HandlersSound, Idle
<1>3. msg \in Message /\ left \in Seq(Message) /\ ToSet(outbox) = ToSet(left) \cup {msg}
  BY <1>2, TailOfQueue
<1>4. /\ h \in Handler /\ h.outbox = left /\ h.pc \in {"send", "status", "load", "idle"}
      /\ (h.pc = "send") <=> (h.outbox # << >>)
      /\ (h.pc = "load") => t = Generator
      /\ t = Generator => h.pc \in {"load", "send"} /\ h.cmd.type # "get_state"
  <2> HIDE DEF left
  <2>1. CASE left # << >>
    BY <1>1, <1>2, <1>3, <2>1 DEF Handler
  <2>2. CASE left = << >> /\ handler[t].cmd.type = "get_state"
    BY <1>1, <1>2, <1>3, <2>2 DEF Handler
  <2>3. CASE left = << >> /\ handler[t].cmd.type # "get_state"
    BY <1>1, <1>2, <1>3, <2>3, TaskSets DEF Handler, Idle, None
  <2> QED
    BY <2>1, <2>2, <2>3
<1> HIDE DEF h, left, msg
<1>5. handler'[t] = h /\ handler' \in [Tasks -> Handler]
      /\ \A u \in Tasks : u # t => handler'[u] = handler[u]
  BY <1>1, <1>4 DEF TypeOK
<1>6. /\ lagged \subseteq lagged' /\ lagged' \subseteq Clients
      /\ inbox' \in [Clients -> Seq(Message)] /\ \A c \in Clients : Len(inbox'[c]) <= Capacity
      /\ last' = IF msg.type = "book_snapshot" THEN msg.version ELSE last
      /\ last' \in Nat
      /\ \A c \in Clients : conn[c] # "off" /\ c \notin lagged'
           => inbox'[c] = Append(inbox[c], msg)
  BY <1>1, <1>3, PublishEffect
<1>7. TypeOK'
  BY <1>1, <1>5, <1>6 DEF TypeOK
<1>8. LockSound'
  <2>1. \A u \in Tasks : (handler'[u].pc = "lock") <=> (handler[u].pc = "lock")
    BY <1>1, <1>4, <1>5
  <2> QED
    BY <1>1, <2>1 DEF LockSound
<1>9. HandlersSound'
  <2>1. \A c \in Clients : conn'[c] # "on" => handler'[c] = Idle
    BY <1>1, <1>2, <1>5, TaskSets DEF HandlersSound
  <2>2. /\ handler'[t].pc = "send" <=> handler'[t].outbox # << >>
        /\ handler'[t].pc \notin {"lock", "store", "sleep"}
        /\ handler'[t].pc = "load" => t = Generator
        /\ t = Generator => handler'[t].pc \in {"load", "send"} /\ handler'[t].cmd.type # "get_state"
    BY <1>4, <1>5
  <2> QED
    BY <1>5, <2>1, <2>2 DEF HandlersSound
<1>10. StopCounted'
  BY <1>1, <1>4, <1>5 DEF StopCounted
<1>11. ASSUME NEW c \in Clients, conn[c] # "off", c \notin lagged'
       PROVE  /\ inbox[c] \in Seq(Message) /\ Len(inbox[c]) \in Nat
              /\ Len(inbox'[c]) = Len(inbox[c]) + 1
              /\ \A i \in 1 .. Len(inbox[c]) : inbox'[c][i] = inbox[c][i]
              /\ inbox'[c][Len(inbox[c]) + 1] = msg
              /\ ToSet(inbox'[c]) = ToSet(inbox[c]) \cup {msg}
  <2>1. inbox[c] \in Seq(Message) /\ inbox'[c] = Append(inbox[c], msg)
    BY <1>6, <1>11 DEF TypeOK
  <2>2. Len(inbox[c]) \in Nat
    BY <2>1, LenProperties
  <2> QED
    BY <1>3, <2>1, <2>2, AppendToQueue
<1>12. NothingOwed'
  <2>1. ASSUME NEW c \in Clients, conn[c] \in {"greeting", "opened", "on"}, c \notin lagged',
               NEW v \in greeting[c] + 1 .. version
        PROVE  \/ v \in shown[c]
               \/ Snapshot(v) \in ToSet(inbox'[c])
               \/ \E u \in Tasks : Snapshot(v) \in ToSet(handler'[u].outbox)
    <3>1. ToSet(inbox'[c]) = ToSet(inbox[c]) \cup {msg}
      BY <1>11, <2>1
    <3>2. CASE v \in shown[c] \/ Snapshot(v) \in ToSet(inbox[c])
      BY <3>1, <3>2
    <3>3. CASE \E u \in Tasks : Snapshot(v) \in ToSet(handler[u].outbox)
      <4> PICK u \in Tasks : Snapshot(v) \in ToSet(handler[u].outbox)
        BY <3>3
      <4>1. CASE u = t
        BY <1>3, <1>4, <1>5, <3>1, <4>1
      <4>2. CASE u # t
        BY <1>5, <4>2
      <4> QED
        BY <4>1, <4>2
    <3> QED
      BY <1>6, <2>1, <3>2, <3>3 DEF NothingOwed
  <2> QED
    BY <1>1, <2>1 DEF NothingOwed
<1>13. QueuesEndAlike'
  <2>1. ASSUME NEW c \in Clients, conn[c] # "off", c \notin lagged'
        PROVE  /\ conn[c] \in {"connecting", "greeting"} => shown[c] = {}
               /\ \A i \in 1 .. Len(inbox'[c]) :
                    IsBook(inbox'[c][i])
                    /\ (\A j \in i + 1 .. Len(inbox'[c]) : ~IsBook(inbox'[c][j]))
                      => inbox'[c][i].version = last'
               /\ (\A i \in 1 .. Len(inbox'[c]) : ~IsBook(inbox'[c][i])) /\ shown[c] # {}
                    => page[c].book = last'
    <3>1. /\ conn[c] \in {"connecting", "greeting"} => shown[c] = {}
          /\ \A i \in 1 .. Len(inbox[c]) :
               IsBook(inbox[c][i])
               /\ (\A j \in i + 1 .. Len(inbox[c]) : ~IsBook(inbox[c][j]))
                 => inbox[c][i].version = last
          /\ (\A i \in 1 .. Len(inbox[c]) : ~IsBook(inbox[c][i])) /\ shown[c] # {}
               => page[c].book = last
      BY <1>6, <2>1 DEF QueuesEndAlike
    <3> DEFINE n == Len(inbox[c])
    <3>2. /\ n \in Nat /\ Len(inbox'[c]) = n + 1 /\ inbox'[c][n + 1] = msg
          /\ \A i \in 1 .. n : inbox'[c][i] = inbox[c][i]
      BY <1>11, <2>1
    <3> HIDE DEF n
    <3>3. CASE IsBook(msg)
      <4>1. last' = msg.version
        BY <1>6, <3>3 DEF IsBook
      <4>2. ASSUME NEW i \in 1 .. n + 1, \A j \in i + 1 .. n + 1 : ~IsBook(inbox'[c][j])
            PROVE  i = n + 1
        <5>1. ~(n + 1 \in i + 1 .. n + 1)
          BY <3>2, <3>3, <4>2
        <5> QED
          BY <3>2, <5>1
      <4>3. IsBook(inbox'[c][n + 1]) /\ n + 1 \in 1 .. n + 1
        BY <3>2, <3>3
      <4> QED
        BY <3>1, <3>2, <4>1, <4>2, <4>3
    <3>4. CASE ~IsBook(msg)
      <4>1. last' = last
        BY <1>6, <3>4 DEF IsBook
      <4>2. ASSUME NEW i \in 1 .. n + 1, IsBook(inbox'[c][i]),
                   \A j \in i + 1 .. n + 1 : ~IsBook(inbox'[c][j])
            PROVE  inbox'[c][i].version = last
        <5>1. i \in 1 .. n /\ inbox'[c][i] = inbox[c][i]
          BY <3>2, <3>4, <4>2
        <5>2. \A j \in i + 1 .. n : ~IsBook(inbox[c][j])
          BY <3>2, <4>2
        <5> QED
          BY <3>1, <4>2, <5>1, <5>2 DEF n
      <4>3. ASSUME \A i \in 1 .. n + 1 : ~IsBook(inbox'[c][i])
            PROVE  \A i \in 1 .. n : ~IsBook(inbox[c][i])
        BY <3>2, <4>3
      <4> QED
        BY <3>1, <3>2, <4>1, <4>2, <4>3 DEF n
    <3> QED
      BY <3>3, <3>4
  <2> QED
    BY <1>1, <2>1 DEF QueuesEndAlike
<1> QED
  BY <1>7, <1>8, <1>9, <1>10, <1>12, <1>13

\* get_state's handler reads the flag, and owes its status.
LEMMA ReadStatusStep ==
  ASSUME ServerInv, NEW c \in Clients, ReadStatus(c)
  PROVE  ServerInv'
<1> USE DEF ServerInv
<1> DEFINE h == [pc |-> "send", cmd |-> None, outbox |-> <<Status(streaming)>>]
<1>1. /\ handler[c].pc = "status" /\ handler' = [handler EXCEPT ![c] = h]
      /\ UNCHANGED <<engineVars, netVars>>
      /\ UNCHANGED <<streaming, interval, armed, after_stop, commands, connects, generated>>
  BY DEF ReadStatus, streamVars, boundVars
<1>2. c \in Tasks /\ c # Generator /\ handler[c].outbox = << >> /\ handler[c] # Idle
  BY <1>1, TaskSets DEF HandlersSound, Idle
<1>3. h \in Handler /\ h.pc = "send" /\ h.outbox # << >>
  <2>1. Status(streaming) \in Message
    BY MessageTypes DEF TypeOK
  <2> QED
    BY <2>1 DEF Handler
<1> HIDE DEF h
<1>4. LockSound' /\ HandlersSound' /\ NothingOwed' /\ QueuesEndAlike'
  BY <1>1, <1>2, <1>3, HandlerStep
<1>5. TypeOK'
  BY <1>1, <1>3 DEF TypeOK, engineVars, netVars
<1>6. StopCounted'
  <2>1. handler'[Generator] = handler[Generator]
    BY <1>1, <1>2, TaskSets DEF TypeOK
  <2> QED
    BY <1>1, <2>1 DEF StopCounted
<1> QED
  BY <1>4, <1>5, <1>6

\* start_stream stores the interval, not below the least one.
LEMMA StoreIntervalStep ==
  ASSUME ServerInv, NEW c \in Clients, StoreInterval(c)
  PROVE  ServerInv'
<1> USE DEF ServerInv
<1> DEFINE h == [handler[c] EXCEPT !.pc = "switch"]
<1>1. /\ handler[c].pc = "store" /\ interval' = Max({handler[c].cmd.interval, MinInterval})
      /\ handler' = [handler EXCEPT ![c] = h]
      /\ UNCHANGED <<engineVars, netVars>>
      /\ UNCHANGED <<streaming, armed, after_stop, commands, connects, generated>>
  BY DEF StoreInterval, boundVars
<1>2. /\ c \in Tasks /\ c # Generator /\ handler[c].outbox = << >> /\ handler[c] # Idle
      /\ handler[c] \in Handler /\ handler[c].cmd \in ClientMsg \cup {None}
      /\ handler[c].cmd.type = "start_stream"
  BY <1>1, TaskSets, HandlerType DEF HandlersSound, Idle
<1>3. h \in Handler /\ h.pc = "switch" /\ h.outbox = << >>
  BY <1>2 DEF Handler
<1>4. interval' \in Nat
  <2>1. handler[c].cmd.interval \in Nat
    BY <1>2 DEF ClientMsg, LockingTypes, None
  <2> DEFINE i == handler[c].cmd.interval
  <2>2. i \in Nat /\ MinInterval \in Nat /\ interval' = Max({i, MinInterval})
    BY <1>1, <2>1, BoundsAssumption
  <2> HIDE DEF i
  <2>3. Max({i, MinInterval}) = IF i >= MinInterval THEN i ELSE MinInterval
    BY <2>2, MaxOfTwo
  <2> QED
    BY <2>2, <2>3
<1> HIDE DEF h
<1>5. LockSound' /\ HandlersSound' /\ NothingOwed' /\ QueuesEndAlike'
  BY <1>1, <1>2, <1>3, HandlerStep
<1>6. TypeOK'
  BY <1>1, <1>3, <1>4 DEF TypeOK, engineVars, netVars
<1>7. StopCounted'
  <2>1. handler'[Generator] = handler[Generator]
    BY <1>1, <1>2, TaskSets DEF TypeOK
  <2> QED
    BY <1>1, <2>1 DEF StopCounted
<1> QED
  BY <1>5, <1>6, <1>7

\* start_stream and stop_stream set the flag; the count of orders starts again.
LEMMA SwitchStep ==
  ASSUME ServerInv, NEW c \in Clients, Switch(c)
  PROVE  ServerInv'
<1> USE DEF ServerInv
<1> DEFINE on == handler[c].cmd.type = "start_stream"
           h == [handler[c] EXCEPT !.pc = "send", !.outbox = <<Status(on)>>]
<1>1. /\ handler[c].pc = "switch" /\ streaming' = on /\ after_stop' = 0
      /\ handler' = [handler EXCEPT ![c] = h]
      /\ UNCHANGED <<engineVars, netVars>>
      /\ UNCHANGED <<interval, armed, commands, connects, generated>>
  BY DEF Switch, boundVars
<1>2. /\ c \in Tasks /\ c # Generator /\ handler[c].outbox = << >> /\ handler[c] # Idle
      /\ handler[c] \in Handler /\ on \in BOOLEAN
  BY <1>1, TaskSets, HandlerType DEF HandlersSound, Idle
<1> HIDE DEF on
<1>3. h \in Handler /\ h.pc = "send" /\ h.outbox # << >>
  <2>1. Status(on) \in Message
    BY <1>2, MessageTypes
  <2>2. <<Status(on)>> \in Seq(Message) /\ <<Status(on)>> # << >>
    BY <2>1
  <2> QED
    BY <1>2, <2>2 DEF Handler
<1> HIDE DEF h
<1>4. LockSound' /\ HandlersSound' /\ NothingOwed' /\ QueuesEndAlike'
  BY <1>1, <1>2, <1>3, HandlerStep
<1>5. TypeOK'
  BY <1>1, <1>2, <1>3 DEF TypeOK, engineVars, netVars
<1>6. StopCounted'
  BY <1>1 DEF StopCounted
<1> QED
  BY <1>4, <1>5, <1>6

-----------------------------------------------------------------------------
(* The generator.                                                          *)

\* The generator takes the interval it is going to sleep for.
LEMMA LoadIntervalStep ==
  ASSUME ServerInv, LoadInterval
  PROVE  ServerInv'
<1> USE DEF ServerInv
<1> DEFINE h == [handler[Generator] EXCEPT !.pc = "sleep"]
<1>1. /\ handler[Generator].pc = "load" /\ armed' = interval
      /\ handler' = [handler EXCEPT ![Generator] = h]
      /\ UNCHANGED <<engineVars, netVars>>
      /\ UNCHANGED <<streaming, interval, after_stop, commands, connects, generated>>
  BY DEF LoadInterval, boundVars
<1>2. /\ Generator \in Tasks /\ handler[Generator].outbox = << >> /\ handler[Generator] # Idle
      /\ handler[Generator] \in Handler /\ handler[Generator].cmd.type # "get_state"
  BY <1>1, TaskSets, HandlerType DEF HandlersSound, Idle
<1>3. /\ h \in Handler /\ h.pc = "sleep" /\ h.outbox = << >> /\ h.cmd.type # "get_state"
  BY <1>2 DEF Handler
<1> HIDE DEF h
<1>4. LockSound' /\ HandlersSound' /\ NothingOwed' /\ QueuesEndAlike'
  BY <1>1, <1>2, <1>3, HandlerStep
<1>5. TypeOK'
  BY <1>1, <1>3 DEF TypeOK, engineVars, netVars
<1>6. StopCounted'
  <2>1. handler'[Generator].pc = "sleep"
    BY <1>1, <1>2, <1>3 DEF TypeOK
  <2> QED
    BY <1>1, <2>1 DEF StopCounted
<1> QED
  BY <1>4, <1>5, <1>6

\* The generator looks at the flag: with streaming on it queues for the lock.
LEMMA WakeStep ==
  ASSUME ServerInv, Wake
  PROVE  ServerInv'
<1> USE DEF ServerInv
<1>1. /\ handler[Generator].pc = "sleep"
      /\ UNCHANGED <<version, lock, netVars, streaming, interval, armed, after_stop>>
      /\ UNCHANGED <<commands, connects>>
  BY DEF Wake, streamVars
<1>2. /\ Generator \in Tasks /\ handler[Generator].outbox = << >> /\ handler[Generator] # Idle
      /\ handler[Generator] \in Handler /\ handler[Generator].cmd.type # "get_state"
  BY <1>1, TaskSets, HandlerType DEF HandlersSound, Idle
<1>3. CASE streaming /\ generated < MaxGenerated
  <2> DEFINE h == [pc |-> "lock", cmd |-> [type |-> "submit_order"], outbox |-> << >>]
  <2>1. /\ generated' = generated + 1 /\ handler' = [handler EXCEPT ![Generator] = h]
        /\ waiters' = Append(waiters, Generator)
    BY <1>3 DEF Wake
  <2>2. /\ conn' = conn /\ inbox' = inbox /\ lagged' = lagged /\ page' = page
        /\ greeting' = greeting /\ shown' = shown /\ last' = last
    BY <1>1 DEF netVars
  <2>3. h \in Handler
    BY EmptySeq DEF Handler, ClientMsg, LockingTypes
  <2>4. /\ handler'[Generator] = h /\ handler' \in [Tasks -> Handler]
        /\ \A u \in Tasks : u # Generator => handler'[u] = handler[u]
    BY <1>2, <2>1, <2>3 DEF TypeOK
  <2>5. Generator \notin ToSet(waiters)
    BY <1>1, <1>2, TaskSets DEF LockSound
  <2>6. /\ waiters' \in Seq(Tasks) /\ ToSet(waiters') = ToSet(waiters) \cup {Generator}
        /\ IsInjective(waiters')
    BY <1>2, <2>1, <2>5, AppendToQueue DEF TypeOK, LockSound
  <2>7. TypeOK'
    BY <1>1, <2>1, <2>2, <2>4, <2>6 DEF TypeOK
  <2>8. LockSound'
    <3>1. \A u \in Tasks : u \in ToSet(waiters') <=>
            (handler'[u].pc = "lock" \/ (u \in Clients /\ conn'[u] = "connecting"))
      BY <2>2, <2>4, <2>6 DEF LockSound
    <3> QED
      BY <1>1, <2>2, <2>6, <3>1 DEF LockSound
  <2>9. HandlersSound'
    <3>1. \A c \in Clients : conn'[c] # "on" => handler'[c] = Idle
      BY <2>2, <2>4, TaskSets DEF HandlersSound
    <3> QED
      BY <2>4, <3>1 DEF HandlersSound, LockingTypes
  <2>10. NothingOwed'
    <3>1. \A u \in Tasks : \A m : m \in ToSet(handler[u].outbox) => m \in ToSet(handler'[u].outbox)
      BY <1>2, <2>4 DEF ToSet
    <3> QED
      BY <1>1, <2>2, <3>1 DEF NothingOwed
  <2>11. QueuesEndAlike'
    BY <2>2 DEF QueuesEndAlike
  <2>12. StopCounted'
    BY <1>1, <1>3 DEF StopCounted
  <2> QED
    BY <2>7, <2>8, <2>9, <2>10, <2>11, <2>12
<1>4. CASE ~(streaming /\ generated < MaxGenerated)
  <2> DEFINE h == [handler[Generator] EXCEPT !.pc = "load"]
  <2>1. /\ handler' = [handler EXCEPT ![Generator] = h]
        /\ generated' = generated /\ UNCHANGED <<engineVars, netVars>>
    BY <1>1, <1>4 DEF Wake, engineVars
  <2>2. /\ h \in Handler /\ h.pc = "load" /\ h.outbox = << >> /\ h.cmd.type # "get_state"
    BY <1>2 DEF Handler
  <2> HIDE DEF h
  <2>3. LockSound' /\ HandlersSound' /\ NothingOwed' /\ QueuesEndAlike'
    BY <1>1, <1>2, <2>1, <2>2, HandlerStep
  <2>4. TypeOK'
    BY <1>1, <2>1, <2>2 DEF TypeOK, engineVars, netVars
  <2>5. StopCounted'
    <3>1. handler'[Generator].pc = "load"
      BY <1>2, <2>1, <2>2 DEF TypeOK
    <3> QED
      BY <1>1, <3>1 DEF StopCounted
  <2> QED
    BY <2>3, <2>4, <2>5
<1> QED
  BY <1>3, <1>4

-----------------------------------------------------------------------------
(* The theorems.                                                           *)

\* Every step of a task, and every step that is up to a client, keeps the invariant.
LEMMA NextStep == ServerInv /\ [Next]_vars => ServerInv'
<1> SUFFICES ASSUME ServerInv, [Next]_vars PROVE ServerInv'
  OBVIOUS
<1>1. ASSUME NEW c \in Clients, Connect(c) \/ Receive(c) \/ Leave(c)
      PROVE  ServerInv'
  BY <1>1, ConnectStep, ReceiveStep, CloseStep DEF Leave
<1>2. ASSUME NEW c \in Clients, Greet(c) \/ Greeted(c) \/ OpenPage(c) \/ Deliver(c) \/ DropLagged(c)
      PROVE  ServerInv'
  BY <1>2, GreetStep, GreetedStep, OpenPageStep, DeliverStep, CloseStep DEF DropLagged
<1>3. ASSUME NEW t \in Tasks, Run(t)
      PROVE  ServerInv'
  BY <1>3, OperateStep, SendStep DEF Run
<1>4. ASSUME NEW c \in Clients, ReadStatus(c) \/ StoreInterval(c) \/ Switch(c)
      PROVE  ServerInv'
  BY <1>4, ReadStatusStep, StoreIntervalStep, SwitchStep
<1>5. CASE Generate
  BY <1>3, <1>5, LoadIntervalStep, WakeStep, TaskSets DEF Generate
<1>6. CASE UNCHANGED vars
  BY <1>6 DEF vars, engineVars, netVars, streamVars, boundVars, ServerInv, TypeOK, LockSound,
     HandlersSound, NothingOwed, QueuesEndAlike, StopCounted
<1> QED
  BY <1>1, <1>2, <1>3, <1>4, <1>5, <1>6, TaskSets DEF Next, Serve

\* The inductive invariant: how the lock, the connections, the handlers, the queues
\* and the switches of the server depend on one another, whatever the order of their
\* steps.
THEOREM ServerInvariant == Spec => []ServerInv
<1>1. Init => ServerInv
  BY InitStep
<1>2. ServerInv /\ [Next]_vars => ServerInv'
  BY NextStep
<1> QED
  BY <1>1, <1>2, PTL DEF Spec

\* Every variable keeps its type; in particular no receiver's queue grows beyond the
\* channel's capacity.
THEOREM TypeCorrect == Spec => []TypeOK
<1>1. ServerInv => TypeOK
  BY DEF ServerInv
<1> QED
  BY <1>1, ServerInvariant, PTL

\* Mutex<Engine> excludes and forgets nobody, though handlers are aborted and greeted
\* clients keep the lock while their socket takes the greeting.
THEOREM LockIsSound == Spec => []LockSound
<1>1. ServerInv => LockSound
  BY DEF ServerInv
<1> QED
  BY <1>1, ServerInvariant, PTL

\* A connected client that keeps up misses no change of the engine: subscribing before
\* the greeting's snapshot is taken leaves no gap.
THEOREM NoChangeMissed == Spec => []NothingMissed
<1>1. ServerInv => NothingMissed
  BY DEF ServerInv, NothingOwed, NothingMissed
<1> QED
  BY <1>1, ServerInvariant, PTL

\* Pages that have caught up show the book of the last snapshot broadcast, in whatever
\* order handlers broadcast what they made under the lock.
THEOREM PagesAgree == Spec => []CaughtUpPagesAgree
<1>1. ServerInv => CaughtUpPagesAgree
  <2> SUFFICES ASSUME ServerInv, NEW c \in Clients, conn[c] \in {"opened", "on"},
                      c \notin lagged, inbox[c] = << >>, shown[c] # {}
               PROVE  page[c].book = last
    BY DEF CaughtUpPagesAgree
  <2>1. Len(inbox[c]) = 0
    BY EmptySeq
  <2> QED
    BY <2>1 DEF ServerInv, QueuesEndAlike
<1> QED
  BY <1>1, ServerInvariant, PTL

\* After streaming is switched off at most one more order is generated, whatever the
\* interval and however the generator's check and the switch interleave.
THEOREM AtMostOneOrderAfterStop == Spec => []OneOrderAfterStop
<1>1. ServerInv => OneOrderAfterStop
  BY DEF ServerInv, StopCounted, OneOrderAfterStop
<1> QED
  BY <1>1, ServerInvariant, PTL

=============================================================================
