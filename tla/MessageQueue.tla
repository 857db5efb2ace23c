---------------------------- MODULE MessageQueue ----------------------------
(***************************************************************************)
(* dgl::network::MessageQueue (src/src/rpc/network/msg_queue.{h,cc}): the  *)
(* byte-bounded FIFO between the threads of the socket communicators.      *)
(*                                                                         *)
(* Every critical section of mutex_ is one step.  A call is split only     *)
(* where the code lets go of the mutex, inside condition_variable::wait:   *)
(* a thread is "ready" (outside a call), "asleep" (in a wait set) or       *)
(* "woken" (taken out of the wait set, the mutex not yet reacquired and    *)
(* the predicate not yet evaluated again).                                 *)
(*                                                                         *)
(* A message is identified by the place of its first byte in the stream    *)
(* of all bytes ever pushed: it occupies [at, at + size).  inBytes and     *)
(* outBytes, the bytes pushed and popped so far, are history variables.    *)
(*                                                                         *)
(* A definition whose name ends in _Bug is a faulty variant of the one     *)
(* after it; no specification uses it.  PROJECT.json names the property    *)
(* that each of them breaks.                                               *)
(***************************************************************************)
EXTENDS Integers, Sequences, FiniteSets

CONSTANTS
    Producers,      \* threads that call Add; their producer ids
    Consumers,      \* threads that call Remove until they see QUEUE_CLOSE
    num_producers,  \* signals that close the queue
    queue_size,     \* capacity in bytes
    MsgSizes,       \* sizes the producers ask for, invalid ones included
    MaxAdds,        \* bound: calls of Add per producer
    OwnSignal       \* TRUE: only p itself signals p, between two of its calls
                    \* (SocketSender); FALSE: another thread signals while p
                    \* may be inside Add (SocketReceiver::Finalize)

ASSUME ThreadsAssumption == /\ Producers \cap Consumers = {}
                            /\ IsFiniteSet(Producers)
                            /\ IsFiniteSet(Consumers)
ASSUME SizesAssumption == queue_size \in Nat /\ MsgSizes \subseteq Int
ASSUME CountsAssumption == /\ num_producers \in 1..Cardinality(Producers)
                           /\ MaxAdds \in Nat
                           /\ OwnSignal \in BOOLEAN
                           /\ OwnSignal => num_producers = Cardinality(Producers)

VARIABLES
    queue_,         \* sequence of messages
    free_size_,     \* bytes left
    finished_producers_,
    exit_flag_,
    pc,             \* thread -> "ready" | "asleep" | "woken"
    arg,            \* producer -> size of the message its Add is about
    ret,            \* thread -> status its last call returned
    calls,          \* producer -> number of calls of Add
    inBytes, outBytes

vars == <<queue_, free_size_, finished_producers_, exit_flag_, pc, arg, ret,
          calls, inBytes, outBytes>>

Threads == Producers \cup Consumers
Status == {"NONE", "ADD_SUCCESS", "MSG_GT_SIZE", "MSG_LE_ZERO", "QUEUE_CLOSE",
           "QUEUE_FULL", "REMOVE_SUCCESS", "QUEUE_EMPTY"}
Message == [from : Producers, at : Nat, size : Nat \ {0}]

Asleep(S) == {t \in S : pc[t] = "asleep"}
Woken(S)  == {t \in S : pc[t] = "woken"}

\* finished_producers_.size() >= num_producers_
Closed == Cardinality(finished_producers_) >= num_producers

Empty == queue_ = <<>>
EmptyAndNoMoreAdd == Empty /\ Closed

Init ==
    /\ queue_ = <<>>
    /\ free_size_ = queue_size
    /\ finished_producers_ = {}
    /\ exit_flag_ = FALSE
    /\ pc = [t \in Threads |-> "ready"]
    /\ arg = [p \in Producers |-> 0]
    /\ ret = [t \in Threads |-> "NONE"]
    /\ calls = [p \in Producers |-> 0]
    /\ inBytes = 0
    /\ outBytes = 0

-----------------------------------------------------------------------------
\* condition_variable::notify_one on the variable the threads S wait on, once
\* thread t has left its call: any one sleeper, or nobody when none sleeps.
NotifyOne(S, t) ==
    IF Asleep(S) = {}
    THEN pc' = [pc EXCEPT ![t] = "ready"]
    ELSE \E w \in Asleep(S) : pc' = [pc EXCEPT ![t] = "ready", ![w] = "woken"]

\* cond_not_empty_.notify_one() and cond_not_full_.notify_one()
NotifyNotEmpty_Bug(p) == IF Empty THEN NotifyOne(Consumers, p) ELSE NotifyOne({}, p)
NotifyNotEmpty(p) == NotifyOne(Consumers, p)
NotifyNotFull_Bug(c) == NotifyOne({}, c)
NotifyNotFull(c) == NotifyOne(Producers, c)

\* cond_not_empty_.notify_all()
NotifyAllConsumers_Bug ==
    IF Asleep(Consumers) = {} THEN UNCHANGED pc
    ELSE \E w \in Asleep(Consumers) : pc' = [pc EXCEPT ![w] = "woken"]
NotifyAllConsumers ==
    pc' = [t \in Threads |-> IF t \in Asleep(Consumers) THEN "woken" ELSE pc[t]]

Return(t, status) ==
    /\ pc' = [pc EXCEPT ![t] = "ready"]
    /\ ret' = [ret EXCEPT ![t] = status]

Sleep(t) ==
    /\ pc' = [pc EXCEPT ![t] = "asleep"]
    /\ UNCHANGED ret

QueueUnchanged ==
    UNCHANGED <<queue_, free_size_, finished_producers_, exit_flag_, inBytes,
                outBytes>>

\* The end of Add: the message fits, it is pushed and one consumer notified.
Push(p, size) ==
    /\ queue_' = Append(queue_, [from |-> p, at |-> inBytes, size |-> size])
    /\ free_size_' = free_size_ - size
    /\ inBytes' = inBytes + size
    /\ NotifyNotEmpty(p)
    /\ ret' = [ret EXCEPT ![p] = "ADD_SUCCESS"]
    /\ UNCHANGED <<finished_producers_, exit_flag_, outBytes>>

\* The end of Remove: the front message is popped and one producer notified.
Pop(c) ==
    /\ queue_' = Tail(queue_)
    /\ free_size_' = free_size_ + Head(queue_).size
    /\ outBytes' = outBytes + Head(queue_).size
    /\ NotifyNotFull(c)
    /\ ret' = [ret EXCEPT ![c] = "REMOVE_SUCCESS"]
    /\ UNCHANGED <<finished_producers_, exit_flag_, inBytes>>

\* The size tests, made before the lock, and the predicate of the wait.
TooLong(size) == size > queue_size
TooShort_Bug(size) == size < 0
TooShort(size) == size <= 0
Fits_Bug(size) == TRUE
Fits(size) == size <= free_size_

\* Add up to its first wait: a closed queue is noticed here only.
AddCall(p, size, is_blocking) ==
    \/ /\ \/ TooLong(size) /\ Return(p, "MSG_GT_SIZE")
          \/ ~TooLong(size) /\ TooShort(size) /\ Return(p, "MSG_LE_ZERO")
       /\ QueueUnchanged
    \/ /\ ~TooLong(size) /\ ~TooShort(size)
       /\ \/ Closed /\ Return(p, "QUEUE_CLOSE")
          \/ /\ ~Closed /\ ~Fits(size)
             /\ IF is_blocking THEN Sleep(p) ELSE Return(p, "QUEUE_FULL")
       /\ QueueUnchanged
    \/ /\ ~TooLong(size) /\ ~TooShort(size)
       /\ ~Closed /\ Fits(size)
       /\ Push(p, size)

\* A producer makes at most MaxAdds calls, none once it has said it is done.
Add(p, size, is_blocking) ==
    /\ pc[p] = "ready"
    /\ calls[p] < MaxAdds
    /\ OwnSignal => p \notin finished_producers_
    /\ calls' = [calls EXCEPT ![p] = @ + 1]
    /\ arg' = [arg EXCEPT ![p] = size]
    /\ AddCall(p, size, is_blocking)

\* cond_not_full_.wait evaluates its predicate again, and nothing else.
AddResume(p) ==
    /\ pc[p] = "woken"
    /\ \/ Fits(arg[p]) /\ Push(p, arg[p])
       \/ ~Fits(arg[p]) /\ Sleep(p) /\ QueueUnchanged
    /\ UNCHANGED <<arg, calls>>

\* The end of Remove, after the wait.
Ended_Bug == Closed
Ended == Closed /\ Empty

FinishRemove(c) ==
    \/ Ended /\ Return(c, "QUEUE_CLOSE") /\ QueueUnchanged
    \/ ~Ended /\ Pop(c)

\* Remove up to its first wait.
Remove(c, is_blocking) ==
    /\ pc[c] = "ready"
    /\ ret[c] # "QUEUE_CLOSE"
    /\ \/ /\ Empty /\ ~is_blocking
          /\ Return(c, "QUEUE_EMPTY")
          /\ QueueUnchanged
       \/ /\ Empty /\ is_blocking
          /\ IF Closed THEN Return(c, "QUEUE_CLOSE") ELSE Sleep(c)
          /\ QueueUnchanged
       \/ ~Empty /\ FinishRemove(c)
    /\ UNCHANGED <<arg, calls>>

\* cond_not_empty_.wait evaluates its predicate again.
RemoveResume(c) ==
    /\ pc[c] = "woken"
    /\ \/ Empty /\ ~exit_flag_ /\ Sleep(c) /\ QueueUnchanged
       \/ (~Empty \/ exit_flag_) /\ FinishRemove(c)
    /\ UNCHANGED <<arg, calls>>

SignalFinished(p) ==
    /\ p \notin finished_producers_
    /\ OwnSignal => pc[p] = "ready"
    /\ finished_producers_' = finished_producers_ \cup {p}
    /\ IF Cardinality(finished_producers_') >= num_producers
       THEN exit_flag_' = TRUE /\ NotifyAllConsumers
       ELSE UNCHANGED <<exit_flag_, pc>>
    /\ UNCHANGED <<queue_, free_size_, arg, ret, calls, inBytes, outBytes>>

\* The standard allows a wait to return without a notification.
SpuriousWakeup(t) ==
    /\ pc[t] = "asleep"
    /\ pc' = [pc EXCEPT ![t] = "woken"]
    /\ UNCHANGED <<queue_, free_size_, finished_producers_, exit_flag_, arg,
                   ret, calls, inBytes, outBytes>>

\* Every consumer has been told that the queue is closed, no producer is
\* inside Add: the threads have left their loops.
Done ==
    /\ Closed
    /\ \A c \in Consumers : pc[c] = "ready" /\ ret[c] = "QUEUE_CLOSE"
    /\ \A p \in Producers : pc[p] = "ready"
    /\ UNCHANGED vars

Next ==
    \/ \E p \in Producers, size \in MsgSizes, b \in BOOLEAN : Add(p, size, b)
    \/ \E p \in Producers : AddResume(p)
    \/ \E c \in Consumers, b \in BOOLEAN : Remove(c, b)
    \/ \E c \in Consumers : RemoveResume(c)
    \/ \E p \in Producers : SignalFinished(p)
    \/ \E t \in Threads : SpuriousWakeup(t)
    \/ Done

Spec == Init /\ [][Next]_vars

\* A thread that was woken gets the mutex, a consumer loop (SendLoop) calls
\* Remove again and again; nothing makes a producer add or finish.
Fairness ==
    /\ \A p \in Producers : WF_vars(AddResume(p))
    /\ \A c \in Consumers : WF_vars(RemoveResume(c))
    /\ \A c \in Consumers : WF_vars(Remove(c, TRUE))

FairSpec == Spec /\ Fairness
-----------------------------------------------------------------------------
(* Properties *)

\* The values every variable of the queue and of its callers can have.
TypeOK ==
    /\ queue_ \in Seq(Message)
    /\ free_size_ \in Int
    /\ finished_producers_ \subseteq Producers
    /\ exit_flag_ \in BOOLEAN
    /\ pc \in [Threads -> {"ready", "asleep", "woken"}]
    /\ arg \in [Producers -> Int]
    /\ ret \in [Threads -> Status]
    /\ calls \in [Producers -> Nat]
    /\ inBytes \in Nat
    /\ outBytes \in Nat

\* free_size_ is the capacity less the bytes that are queued and never goes
\* negative, whatever sizes Add and Remove interleave; and the queued messages
\* tile exactly the bytes pushed and not yet popped, in order: nothing is lost,
\* doubled or overtaken on the way through.
Accounting ==
    /\ free_size_ = queue_size - (inBytes - outBytes)
    /\ free_size_ >= 0
    /\ Empty => inBytes = outBytes
    /\ ~Empty => /\ queue_[1].at = outBytes
                 /\ queue_[Len(queue_)].at + queue_[Len(queue_)].size = inBytes
    /\ \A i \in 1..(Len(queue_) - 1) :
          queue_[i + 1].at = queue_[i].at + queue_[i].size

\* No wake-up of cond_not_full_ is lost although Remove notifies one producer
\* of any size: while a producer sleeps inside Add, either a message is queued
\* (its removal will notify again) or a woken producer is about to run.
NoStrandedProducer ==
    Asleep(Producers) # {} => ~Empty \/ Woken(Producers) # {}

\* No wake-up of cond_not_empty_ is lost although other consumers may overtake
\* the notified one: while a consumer sleeps inside Remove the queue is open
\* and every queued message has a woken consumer coming for it.
NoStrandedConsumer ==
    Asleep(Consumers) # {} =>
        ~Closed /\ Len(queue_) <= Cardinality(Woken(Consumers))

\* Once any consumer was told QUEUE_CLOSE (SendLoop then stops), every message
\* whose Add succeeded has been removed, and none succeeds from then on.
DrainedAtClose ==
    (\E c \in Consumers : ret[c] = "QUEUE_CLOSE") => Closed /\ Empty

\* msg_queue.h: "Cannot add message when queue is closed".  Add looks at the
\* close before it waits and not after: what is promised holds if only the
\* producers signal, and not if another thread does, as Finalize of the receiver.
NoAddAfterClose == [][Closed => inBytes' = inBytes]_vars

\* No call blocks for ever.  "This signaling mechanism prevents consumers from
\* waiting after all producers have finished": every consumer loop ends once
\* the queue is closed; and a blocked Add returns while consumers keep removing.
BlockedCallsReturn ==
    /\ Closed ~> \A c \in Consumers : pc[c] = "ready" /\ ret[c] = "QUEUE_CLOSE"
    /\ \A p \in Producers : pc[p] # "ready" ~> pc[p] = "ready"

\* The condition-variable protocol implements the blocking queue with guards.
Abstract == INSTANCE ClosableQueue WITH
    Capacity <- queue_size,
    items    <- queue_,
    used     <- inBytes - outBytes,
    closed   <- Closed,
    ended    <- {c \in Consumers : ret[c] = "QUEUE_CLOSE"}
ImplementsClosableQueue == Abstract!Spec
=============================================================================
