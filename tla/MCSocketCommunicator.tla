------------------------ MODULE MCSocketCommunicator ------------------------
(* Instances of SocketCommunicator for TLC. *)
EXTENDS SocketCommunicator

SetUp(threads, size) == [max_thread_count |-> threads, queue_size |-> size]

\* A thread for each socket; one for both, with queues that fill up in the
\* middle of an RPC message, and with queues that fill up after one.
PerSocketAndShared == {SetUp(2, 1), SetUp(1, 1), SetUp(1, 2)}

\* Both senders send an RPC message with an ndarray and one without; a sender
\* of odd number the other way round.
OneOfTwo == [i \in 0..(num_sender - 1) |-> [n \in 1..MaxRpc |-> {(i + n) % 2}]]
=============================================================================
