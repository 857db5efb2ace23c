------------------------- MODULE SocketCommunicator -------------------------
(***************************************************************************)
(* dgl::network::SocketSender and SocketReceiver (src/src/rpc/network):    *)
(* num_sender processes send RPC messages to one receiver.                 *)
(*                                                                         *)
(*   Send -> msg_queue_ -> SendLoop -> TCP -> RecvLoop -> msg_queue_[i]    *)
(*                                                  \-> queue_sem_ -> Recv *)
(*                                                                         *)
(* An RPC message is one meta message that holds the number of its         *)
(* ndarrays, followed by one message per ndarray.  The receiver keeps one  *)
(* queue per sender, one semaphore for all queues, and max_thread_count    *)
(* threads: sender i is served by thread i % max_thread_count.             *)
(*                                                                         *)
(* The queues are the closable queues that MessageQueue implements         *)
(* (ClosableQueue), with messages of one unit.  On the wire a message is   *)
(* its size followed by its data, which may arrive later.                  *)
(*                                                                         *)
(* A definition whose name ends in _Bug is a faulty variant of the one     *)
(* after it; no specification uses it.                                     *)
(***************************************************************************)
EXTENDS Integers, Sequences, FiniteSets, SequencesExt

CONSTANTS
    num_sender,         \* connections of the receiver
    Configs,            \* the set-ups that are considered: receiver threads and
                        \* capacity of every message queue, in messages
    WireSize,           \* bound: sizes and data that fit into a TCP buffer
    MaxRpc,             \* bound: RPC messages each sender sends, and the
                        \* receiving application waits for
    MaxArrays,          \* bound: ndarrays of an RPC message
    ArraysOf            \* bound: sender -> its n-th RPC message -> the numbers
                        \* of ndarrays it may have

ASSUME SocketAssumption ==
    /\ num_sender \in Nat \ {0}
    /\ Configs \subseteq [max_thread_count : 1..num_sender, queue_size : Nat \ {0}]
    /\ WireSize \in Nat \ {0}
    /\ MaxRpc \in Nat
    /\ MaxArrays \in Nat

Senders == 0..(num_sender - 1)

ASSUME ArraysAssumption ==
    ArraysOf \in [Senders -> [1..MaxRpc -> (SUBSET (0..MaxArrays)) \ {{}}]]

\* A queued message: part 0 of RPC message rpc is its meta message.
Message == [rpc : 1..MaxRpc, part : 0..MaxArrays, arrays : 0..MaxArrays]
None == [rpc |-> 0, part |-> 0, arrays |-> 0]
EndSignal == [rpc |-> 0, part |-> 1, arrays |-> 0]
Token == [what : {"size", "data"}, msg : Message \cup {EndSignal}]

VARIABLES
    config,     \* one of Configs, chosen once
    app,        \* sender -> its application: the next part to send
    sendq,      \* sender -> SocketSender::msg_queue_, and whether it is closed
    loop,       \* sender -> SendLoop: message whose size is on the wire
    wire,       \* sender -> TCP stream
    worker,     \* thread -> RecvLoop: where it is, socket, message in hand
    pool,       \* thread -> senders left in its SocketPool
    pending,    \* thread -> pending_fds_ of the pool
    ctx,        \* sender -> RecvContext: message whose size was read
    recvq,      \* sender -> SocketReceiver::msg_queue_[sender]
    sem,        \* queue_sem_
    recv,       \* the application thread of the receiver
    delivered   \* sender -> sequence of RPC messages handed to the application

senderVars == <<config, app, sendq, loop>>
receiverVars == <<config, worker, pool, pending, ctx, recvq, sem, recv, delivered>>
vars == <<config, app, sendq, loop, wire, worker, pool, pending, ctx, recvq, sem, recv,
          delivered>>

max_thread_count == config.max_thread_count
queue_size == config.queue_size
Workers == 0..(max_thread_count - 1)

\* i % max_thread_count_
Sockets(w) == {i \in Senders : i % max_thread_count = w}

EmptyQueue == [msgs |-> <<>>, closed |-> FALSE]
HasRoom(q) == Len(q.msgs) < queue_size

Init ==
    /\ config \in Configs
    /\ app = [i \in Senders |-> [pc |-> "idle", next |-> None]]
    /\ sendq = [i \in Senders |-> EmptyQueue]
    /\ loop = [i \in Senders |-> [pc |-> "remove", msg |-> None]]
    /\ wire = [i \in Senders |-> <<>>]
    /\ worker = [w \in Workers |-> [pc |-> "poll", from |-> 0, msg |-> None]]
    /\ pool = [w \in Workers |-> Sockets(w)]
    /\ pending = [w \in Workers |-> {}]
    /\ ctx = [i \in Senders |-> None]
    /\ recvq = [i \in Senders |-> EmptyQueue]
    /\ sem = 0
    /\ recv = [pc |-> "wait", iter |-> 0, from |-> 0, parts |-> <<>>]
    /\ delivered = [i \in Senders |-> <<>>]

-----------------------------------------------------------------------------
(* SocketSender *)

\* The application calls Send(RPCMessage) with some number of ndarrays.
StartRpc(i, arrays) ==
    /\ app[i].pc = "idle"
    /\ app[i].next.rpc < MaxRpc
    /\ arrays \in ArraysOf[i][app[i].next.rpc + 1]
    /\ app' = [app EXCEPT ![i] =
                 [pc |-> "send",
                  next |-> [rpc |-> @.next.rpc + 1, part |-> 0, arrays |-> arrays]]]
    /\ UNCHANGED <<sendq, loop, wire, receiverVars>>

\* Send(Message) of the meta message, then of each ndarray: Add blocks.
SendPart(i) ==
    LET msg == app[i].next
    IN  /\ app[i].pc = "send"
        /\ HasRoom(sendq[i])
        /\ sendq' = [sendq EXCEPT ![i].msgs = Append(@, msg)]
        /\ app' = [app EXCEPT ![i] =
                     IF msg.part < msg.arrays
                     THEN [pc |-> "send", next |-> [msg EXCEPT !.part = msg.part + 1]]
                     ELSE [pc |-> "idle", next |-> msg]]
        /\ UNCHANGED <<loop, wire, receiverVars>>

\* SocketSender::Finalize: sleeps until the queue is empty, then closes it.
SenderFinalize(i) ==
    /\ app[i].pc = "idle"
    /\ app[i].next.rpc = MaxRpc
    /\ sendq[i].msgs = <<>>
    /\ sendq' = [sendq EXCEPT ![i].closed = TRUE]
    /\ app' = [app EXCEPT ![i].pc = "join"]
    /\ UNCHANGED <<loop, wire, receiverVars>>

\* The SendLoop thread has returned: join, and close the sockets.
SenderJoin(i) ==
    /\ app[i].pc = "join"
    /\ loop[i].pc = "exit"
    /\ app' = [app EXCEPT ![i].pc = "done"]
    /\ UNCHANGED <<sendq, loop, wire, receiverVars>>

\* SendLoop: Remove blocks; then SendCore writes the size.
SendSize(i) ==
    /\ loop[i].pc = "remove"
    /\ Len(wire[i]) < WireSize
    /\ sendq[i].msgs # <<>>
    /\ wire' = [wire EXCEPT ![i] =
                  Append(@, [what |-> "size", msg |-> Head(sendq[i].msgs)])]
    /\ loop' = [loop EXCEPT ![i] = [pc |-> "data", msg |-> Head(sendq[i].msgs)]]
    /\ sendq' = [sendq EXCEPT ![i].msgs = Tail(@)]
    /\ UNCHANGED <<app, receiverVars>>

SendData(i) ==
    /\ loop[i].pc = "data"
    /\ Len(wire[i]) < WireSize
    /\ wire' = [wire EXCEPT ![i] =
                  Append(@, [what |-> "data", msg |-> loop[i].msg])]
    /\ loop' = [loop EXCEPT ![i] = [pc |-> "remove", msg |-> None]]
    /\ UNCHANGED <<app, sendq, receiverVars>>

\* Stops without telling the receiver.
SendEnd_Bug(i) ==
    /\ loop[i].pc = "remove"
    /\ sendq[i].msgs = <<>>
    /\ sendq[i].closed
    /\ loop' = [loop EXCEPT ![i].pc = "exit"]
    /\ UNCHANGED <<app, sendq, wire, receiverVars>>

\* Remove returned QUEUE_CLOSE: a size of zero tells the receiver to stop.
SendEnd(i) ==
    /\ loop[i].pc = "remove"
    /\ sendq[i].msgs = <<>>
    /\ sendq[i].closed
    /\ Len(wire[i]) < WireSize
    /\ wire' = [wire EXCEPT ![i] = Append(@, [what |-> "size", msg |-> EndSignal])]
    /\ loop' = [loop EXCEPT ![i].pc = "exit"]
    /\ UNCHANGED <<app, sendq, receiverVars>>

-----------------------------------------------------------------------------
(* SocketReceiver::RecvLoop *)

\* The caller does not notice that the pool is empty.
RemoveSocket_Bug(w, i, pcOtherwise) ==
    /\ pool' = [pool EXCEPT ![w] = @ \ {i}]
    /\ worker' = [worker EXCEPT ![w] = [from |-> i, msg |-> EndSignal,
                                       pc |-> pcOtherwise]]

\* RemoveSocket; the thread returns when its pool is empty.
RemoveSocket(w, i, pcOtherwise) ==
    /\ pool' = [pool EXCEPT ![w] = @ \ {i}]
    /\ worker' = [worker EXCEPT ![w] =
                    [@ EXCEPT !.from = i, !.msg = EndSignal,
                              !.pc = IF pool[w] = {i} THEN "exit" ELSE pcOtherwise]]

\* Data that is not there yet is left for a later event; ctx remembers the
\* size that was read.
ReadSocket(w, i) ==
    LET first == Head(wire[i])
        both  == ctx[i] = None /\ Len(wire[i]) >= 2
        msg   == first.msg
    IN  \/ /\ ctx[i] = None
           /\ msg = EndSignal
           /\ RemoveSocket(w, i, "add")
           /\ wire' = [wire EXCEPT ![i] = Tail(@)]
           /\ UNCHANGED ctx
        \/ /\ ctx[i] = None
           /\ msg # EndSignal
           /\ ~both
           /\ ctx' = [ctx EXCEPT ![i] = msg]
           /\ wire' = [wire EXCEPT ![i] = Tail(@)]
           /\ worker' = [worker EXCEPT ![w].pc = "poll"]
           /\ UNCHANGED pool
        \/ /\ ctx[i] # None \/ (both /\ msg # EndSignal)
           /\ ctx' = [ctx EXCEPT ![i] = None]
           /\ wire' = [wire EXCEPT ![i] = SubSeq(@, IF both THEN 3 ELSE 2, Len(@))]
           /\ worker' = [worker EXCEPT ![w] = [pc |-> "add", from |-> i, msg |-> msg]]
           /\ UNCHANGED pool

\* The receiver has finalized this queue: the socket is dropped unread.
DropClosed(w, i) ==
    /\ recvq[i].msgs = <<>> /\ recvq[i].closed
    /\ RemoveSocket(w, i, "poll")
    /\ UNCHANGED <<wire, ctx>>

\* GetActiveSocket: the next pending socket that was not removed, or, when
\* none is pending, one of those that epoll_wait reports.
GetActiveSocket(w) ==
    LET live  == pending[w] \cap pool[w]
        ready == IF live # {} THEN live
                 ELSE {i \in pool[w] : wire[i] # <<>>}
    IN  /\ worker[w].pc = "poll"
        /\ \E i \in ready :
             /\ pending' = [pending EXCEPT ![w] = ready \ {i}]
             /\ \/ DropClosed(w, i)
                \/ /\ ~(recvq[i].msgs = <<>> /\ recvq[i].closed)
                   /\ ReadSocket(w, i)
        /\ UNCHANGED <<senderVars, recvq, sem, recv, delivered>>

\* Adds to a full queue.
AddToQueue_Bug(w) ==
    LET i == worker[w].from
    IN  /\ worker[w].pc = "add"
        /\ recvq' = [recvq EXCEPT ![i].msgs = Append(@, worker[w].msg)]
        /\ worker' = [worker EXCEPT ![w].pc = "post"]
        /\ UNCHANGED <<senderVars, wire, pool, pending, ctx, sem, recv, delivered>>

\* queues[sender_id]->Add(msg), its status ignored: an end signal has no bytes
\* and is refused, a closed queue refuses everything, a full queue blocks.
AddToQueue(w) ==
    LET i == worker[w].from
        refused == worker[w].msg = EndSignal \/ recvq[i].closed
    IN  /\ worker[w].pc = "add"
        /\ IF ~refused /\ HasRoom(recvq[i])
           THEN recvq' = [recvq EXCEPT ![i].msgs = Append(@, worker[w].msg)]
           ELSE UNCHANGED recvq
        /\ worker' = [worker EXCEPT ![w].pc =
                        IF refused \/ HasRoom(recvq[i]) THEN "post" ELSE "blocked"]
        /\ UNCHANGED <<senderVars, wire, pool, pending, ctx, sem, recv, delivered>>

\* The rest of a blocked Add; it does not look again whether the queue closed.
AddBlocked(w) ==
    LET i == worker[w].from
    IN  /\ worker[w].pc = "blocked"
        /\ HasRoom(recvq[i])
        /\ recvq' = [recvq EXCEPT ![i].msgs = Append(@, worker[w].msg)]
        /\ worker' = [worker EXCEPT ![w].pc = "post"]
        /\ UNCHANGED <<senderVars, wire, pool, pending, ctx, sem, recv, delivered>>

\* Signals once per RPC message instead of once per message.
Post_Bug(w) ==
    /\ worker[w].pc = "post"
    /\ sem' = IF worker[w].msg.part = 0 THEN sem + 1 ELSE sem
    /\ worker' = [worker EXCEPT ![w].pc = "poll"]
    /\ UNCHANGED <<senderVars, wire, pool, pending, ctx, recvq, recv, delivered>>

Post(w) ==
    /\ worker[w].pc = "post"
    /\ sem' = sem + 1
    /\ worker' = [worker EXCEPT ![w].pc = "poll"]
    /\ UNCHANGED <<senderVars, wire, pool, pending, ctx, recvq, recv, delivered>>

-----------------------------------------------------------------------------
(* SocketReceiver::Recv, called by one application thread *)

\* The application still waits for an RPC message.
Expecting == \E i \in Senders : Len(delivered[i]) < MaxRpc

\* queue_sem_.TimedWait succeeds, for the meta message or for an ndarray.  A
\* timeout changes nothing: RecvRPCMessage and RecvFrom's caller try again.
TimedWait ==
    /\ recv.pc = "waitData" \/ (recv.pc = "wait" /\ Expecting)
    /\ sem > 0
    /\ sem' = sem - 1
    /\ recv' = [recv EXCEPT !.pc = IF @ = "wait" THEN "scan" ELSE "take"]
    /\ UNCHANGED <<senderVars, wire, worker, pool, pending, ctx, recvq, delivered>>

\* A Recv in state r got the message msg from the queue of sender i: the RPC
\* message is complete, or its next ndarray is awaited from the same sender.
Received(r, i, msg) ==
    LET parts == Append(r.parts, msg)
    IN  IF Len(parts) = parts[1].arrays + 1
        THEN /\ delivered' = [delivered EXCEPT ![i] = Append(@, parts)]
             /\ recv' = [r EXCEPT !.pc = "wait", !.parts = <<>>]
        ELSE /\ recv' = [r EXCEPT !.pc = "waitData", !.from = i, !.parts = parts]
             /\ UNCHANGED delivered

\* One turn of the loop over msg_queue_: Remove(msg, false) of the queue at
\* mq_iter_, which goes round.
ScanQueue ==
    LET i == recv.iter
        moved == [recv EXCEPT !.iter = (i + 1) % num_sender]
    IN  /\ recv.pc = "scan"
        /\ \/ /\ recvq[i].msgs = <<>>
              /\ recv' = moved
              /\ UNCHANGED <<recvq, delivered>>
           \/ /\ recvq[i].msgs # <<>>
              /\ recvq' = [recvq EXCEPT ![i].msgs = Tail(@)]
              /\ Received(moved, i, Head(recvq[i].msgs))
        /\ UNCHANGED <<senderVars, wire, worker, pool, pending, ctx, sem>>

\* Takes the ndarray from whichever queue has a message.
TakeArray_Bug ==
    /\ recv.pc = "take"
    /\ \E i \in Senders :
         /\ recvq[i].msgs # <<>>
         /\ recvq' = [recvq EXCEPT ![i].msgs = Tail(@)]
         /\ Received(recv, recv.from, Head(recvq[i].msgs))
    /\ UNCHANGED <<senderVars, wire, worker, pool, pending, ctx, sem>>

\* RecvFrom's blocking Remove on the queue of the meta message's sender.
TakeArray ==
    LET i == recv.from
    IN  /\ recv.pc = "take"
        /\ recvq[i].msgs # <<>>
        /\ recvq' = [recvq EXCEPT ![i].msgs = Tail(@)]
        /\ Received(recv, i, Head(recvq[i].msgs))
        /\ UNCHANGED <<senderVars, wire, worker, pool, pending, ctx, sem>>

\* SocketReceiver::Finalize, called when the application has all it waits for:
\* queue after queue, wait until it is empty and close it.
ReceiverFinalize ==
    /\ recv.pc = "wait"
    /\ ~Expecting
    /\ recv' = [recv EXCEPT !.pc = "close", !.from = 0]
    /\ UNCHANGED <<senderVars, wire, worker, pool, pending, ctx, recvq, sem, delivered>>

CloseQueue ==
    /\ recv.pc = "close"
    /\ recvq[recv.from].msgs = <<>>
    /\ recvq' = [recvq EXCEPT ![recv.from].closed = TRUE]
    /\ recv' = IF recv.from = num_sender - 1
               THEN [recv EXCEPT !.pc = "join"]
               ELSE [recv EXCEPT !.from = @ + 1]
    /\ UNCHANGED <<senderVars, wire, worker, pool, pending, ctx, sem, delivered>>

ReceiverJoin ==
    /\ recv.pc = "join"
    /\ \A w \in Workers : worker[w].pc = "exit"
    /\ recv' = [recv EXCEPT !.pc = "done"]
    /\ UNCHANGED <<senderVars, wire, worker, pool, pending, ctx, recvq, sem, delivered>>

Terminated ==
    /\ recv.pc = "done"
    /\ \A i \in Senders : app[i].pc = "done"
    /\ UNCHANGED vars

-----------------------------------------------------------------------------
SenderStep(i) ==
    \/ \E n \in 0..MaxArrays : StartRpc(i, n)
    \/ SendPart(i) \/ SenderFinalize(i) \/ SenderJoin(i)

SendLoop(i) == SendSize(i) \/ SendData(i) \/ SendEnd(i)

RecvLoop(w) == GetActiveSocket(w) \/ AddToQueue(w) \/ AddBlocked(w) \/ Post(w)

Recv == TimedWait \/ ScanQueue \/ TakeArray

Finalize == ReceiverFinalize \/ CloseQueue \/ ReceiverJoin

Next ==
    \/ \E i \in Senders : SenderStep(i) \/ SendLoop(i)
    \/ \E w \in Workers : RecvLoop(w)
    \/ Recv
    \/ Finalize
    \/ Terminated

\* Every thread runs: the application threads go on sending and receiving, the
\* loops are loops and the kernel schedules them.
Fairness ==
    /\ \A i \in Senders : WF_vars(SenderStep(i)) /\ WF_vars(SendLoop(i))
    /\ \A w \in Senders : WF_vars(w \in Workers /\ RecvLoop(w))
    /\ WF_vars(Recv)
    /\ WF_vars(Finalize)

Spec == Init /\ [][Next]_vars
FairSpec == Spec /\ Fairness

-----------------------------------------------------------------------------
(* Properties *)

\* The messages in the queues of the receiver.
Queued == UNION {{i} \X (1..Len(recvq[i].msgs)) : i \in Senders}

\* The values the state of the threads, queues and streams can have.
TypeOK ==
    /\ config \in Configs
    /\ app \in [Senders -> [pc : {"idle", "send", "join", "done"},
                            next : Message \cup {None}]]
    /\ \A i \in Senders :
         /\ sendq[i].msgs \in Seq(Message) /\ Len(sendq[i].msgs) <= queue_size
         /\ recvq[i].msgs \in Seq(Message) /\ Len(recvq[i].msgs) <= queue_size
         /\ wire[i] \in Seq(Token) /\ Len(wire[i]) <= WireSize
    /\ loop \in [Senders -> [pc : {"remove", "data", "exit"},
                             msg : Message \cup {None}]]
    /\ worker \in [Workers -> [pc : {"poll", "add", "blocked", "post", "exit"},
                               from : Senders,
                               msg : Message \cup {None, EndSignal}]]
    /\ \A w \in Workers : pool[w] \subseteq Sockets(w) /\ pending[w] \subseteq Sockets(w)
    /\ ctx \in [Senders -> Message \cup {None}]
    /\ sem \in Nat
    /\ recv.pc \in {"wait", "scan", "waitData", "take", "close", "join", "done"}
    /\ recv.iter \in Senders /\ recv.from \in Senders

\* Whatever the threads interleave, the application gets the RPC messages of a
\* sender in the order they were sent, each put together from its own meta
\* message and exactly its own ndarrays in order: a Recv that has begun with
\* one sender never takes a message of another, and none is lost or doubled.
MessagesIntact ==
    \A i \in Senders : \A k \in DOMAIN delivered[i] :
        LET parts == delivered[i][k] IN
        \A j \in DOMAIN parts :
            parts[j] = [rpc |-> k, part |-> j - 1, arrays |-> Len(parts) - 1]

\* socket_communicator.cc: "queue_sem_ is a semaphore indicating how many
\* elements in multiple message queues": the tokens in the semaphore, the one
\* a Recv holds, and those about to be posted are the queued messages.  (A
\* thread that serves several sockets also posts for end signals.)
SemaphoreCounts ==
    max_thread_count = num_sender =>
    sem + (IF recv.pc \in {"scan", "take"} THEN 1 ELSE 0)
        + Cardinality({w \in Workers : worker[w].pc = "post"}) = Cardinality(Queued)

\* A Recv that waits for an ndarray of one sender will not get it: the thread
\* that reads this sender's socket is inside Add of another sender's full
\* queue, and only the application, which is inside Recv, would make room.
\* (It takes a thread that serves several sockets.)
Starved ==
    /\ recv.pc \in {"waitData", "take"}
    /\ recvq[recv.from].msgs = <<>>
    /\ LET w == worker[recv.from % max_thread_count]
       IN  w.pc = "blocked" /\ w.from # recv.from /\ ~HasRoom(recvq[w.from])

\* "As meta message has been received, data message is always expected unless
\* connection is closed": a Recv that has the meta message completes, unless
\* it starves, which is for good.
DataFollowsMeta ==
    /\ recv.pc = "waitData" ~> recv.pc = "wait" \/ Starved
    /\ [][Starved => Starved']_vars

\* Every RPC message sent is delivered, and both ends finalize: but for a Recv
\* that starves no thread of either side is left blocked on a queue, the
\* stream, the semaphore or a join.
AllFinish == <>((recv.pc = "done" /\ \A i \in Senders : app[i].pc = "done") \/ Starved)
=============================================================================
