--------------------------- MODULE MCMessageQueue ---------------------------
(* Instances of MessageQueue for TLC. *)
EXTENDS MessageQueue

CONSTANTS p1, p2, c1, c2

OneProducer == {p1}
TwoProducers == {p1, p2}
OneConsumer == {c1}
TwoConsumers == {c1, c2}

\* 0 and 4 are refused; 1 and 3 in a queue of 3 bytes make producers of
\* different sizes wait for each other.
EdgeSizes == {0, 1, 3, 4}

\* The queue of one sender at the receiver: RecvLoop adds, the application
\* removes.  SocketReceiver::Finalize has found the queue empty when it signals
\* for the thread (socket_communicator.cc, lines 346-352).
FinalizeNext == Next /\ (finished_producers_' # finished_producers_ => Empty)
FinalizeSpec == Init /\ [][FinalizeNext]_vars
=============================================================================
