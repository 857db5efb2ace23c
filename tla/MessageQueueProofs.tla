------------------------- MODULE MessageQueueProofs -------------------------
(***************************************************************************)
(* Proofs about MessageQueue, for any number of threads, any capacity, any *)
(* message sizes and any number of calls.                                  *)
(***************************************************************************)
EXTENDS MessageQueue, FiniteSetTheorems, SequenceTheorems, TLAPS

\* A thread inside Add waits for a size that the queue can hold at all.
ArgOK == \A p \in Producers : pc[p] # "ready" => arg[p] \in 1..queue_size

\* exit_flag_ is set in the critical section that closes the queue.
ExitOK == exit_flag_ <=> Closed

TypeInv == TypeOK /\ ArgOK

USE ThreadsAssumption, SizesAssumption, CountsAssumption

-----------------------------------------------------------------------------
(* Closing *)

\* A further signal never opens a closed queue.
LEMMA SignalKeepsClosed ==
    ASSUME finished_producers_ \subseteq Producers, NEW p \in Producers
    PROVE  Cardinality(finished_producers_) >= num_producers =>
             Cardinality(finished_producers_ \cup {p}) >= num_producers
<1>1. IsFiniteSet(finished_producers_)
  BY FS_Subset
<1>2. /\ Cardinality(finished_producers_) \in Nat
      /\ Cardinality(finished_producers_ \cup {p}) \in
           {Cardinality(finished_producers_), Cardinality(finished_producers_) + 1}
  BY <1>1, FS_CardinalityType, FS_AddElement
<1>3. num_producers \in Nat
  <2>1. Cardinality(Producers) \in Nat
    BY FS_CardinalityType
  <2> QED BY <2>1
<1> QED BY <1>2, <1>3

\* Only SignalFinished changes finished_producers_ and exit_flag_.
LEMMA OnlySignalCloses ==
    ASSUME [Next]_vars
    PROVE  \/ UNCHANGED <<finished_producers_, exit_flag_>>
           \/ \E p \in Producers : SignalFinished(p)
  BY DEF Next, vars, Add, AddCall, AddResume, Remove, RemoveResume, FinishRemove,
         Push, Pop, QueueUnchanged, SpuriousWakeup, Done

LEMMA ExitStep == TypeOK /\ ExitOK /\ [Next]_vars => ExitOK'
<1> SUFFICES ASSUME TypeOK, ExitOK, [Next]_vars PROVE ExitOK'
  OBVIOUS
<1>1. CASE UNCHANGED <<finished_producers_, exit_flag_>>
  BY <1>1, Zenon DEF ExitOK, Closed
<1>2. ASSUME NEW p \in Producers, SignalFinished(p) PROVE ExitOK'
  <2>1. CASE Cardinality(finished_producers_') >= num_producers
    BY <1>2, <2>1, Zenon DEF SignalFinished, ExitOK, Closed
  <2>2. CASE ~(Cardinality(finished_producers_') >= num_producers)
    <3>1. ~Closed
      BY <1>2, <2>2, SignalKeepsClosed DEF SignalFinished, TypeOK, Closed
    <3> QED BY <1>2, <2>2, <3>1, Zenon DEF SignalFinished, ExitOK, Closed
  <2> QED BY <2>1, <2>2
<1> QED BY <1>1, <1>2, OnlySignalCloses

-----------------------------------------------------------------------------
(* Type correctness *)

\* NotifyOne keeps pc a function to the three thread states, and sends nobody
\* to sleep: only sleepers of S change, and t is ready.
LEMMA NotifyOneType ==
    ASSUME NEW S \in SUBSET Threads, NEW t \in Threads,
           pc \in [Threads -> {"ready", "asleep", "woken"}],
           NotifyOne(S, t)
    PROVE  /\ pc' \in [Threads -> {"ready", "asleep", "woken"}]
           /\ \A u \in Threads \ {t} : \/ pc'[u] = pc[u]
                                       \/ u \in S /\ pc[u] = "asleep"
    BY DEF NotifyOne, Asleep

\* What Push does to the types.
LEMMA PushType ==
    ASSUME TypeInv, NEW p \in Producers, NEW size \in 1..queue_size,
           Push(p, size),
           arg' = [arg EXCEPT ![p] = size], calls' \in [Producers -> Nat]
    PROVE  TypeInv'
<1>1. pc' \in [Threads -> {"ready", "asleep", "woken"}]
      /\ \A u \in Threads \ {p} : pc'[u] = pc[u] \/ u \in Consumers
  BY NotifyOneType DEF Push, NotifyNotEmpty, TypeInv, TypeOK, Threads
<1>2. pc'[p] # "asleep" /\ pc'[p] # "woken"
  BY DEF Push, NotifyNotEmpty, NotifyOne, Asleep, TypeInv, TypeOK, Threads
<1>3. queue_' \in Seq(Message)
  BY DEF Push, TypeInv, TypeOK, Message
<1>4. ret' \in [Threads -> Status]
  BY DEF Push, TypeInv, TypeOK, Threads, Status
<1>5. exit_flag_' \in BOOLEAN
  BY Zenon DEF Push, TypeInv, TypeOK
<1>6. arg' \in [Producers -> Int] /\ inBytes' \in Nat /\ free_size_' \in Int
  BY DEF Push, TypeInv, TypeOK
<1>7. TypeOK'
  BY <1>1, <1>3, <1>4, <1>5, <1>6 DEF Push, TypeInv, TypeOK
<1>8. ArgOK'
  BY <1>1, <1>2 DEF ArgOK, TypeInv, TypeOK, Threads
<1> QED BY <1>7, <1>8 DEF TypeInv

\* What Pop does to the types.
LEMMA PopType ==
    ASSUME TypeInv, NEW c \in Consumers, ~Empty, Pop(c),
           UNCHANGED <<arg, calls>>
    PROVE  TypeInv'
<1>1. pc' \in [Threads -> {"ready", "asleep", "woken"}]
      /\ \A u \in Threads \ {c} : pc'[u] = pc[u] \/ pc[u] = "asleep"
  BY NotifyOneType DEF Pop, NotifyNotFull, TypeInv, TypeOK, Threads
<1>2. Head(queue_) \in Message /\ Tail(queue_) \in Seq(Message)
  BY HeadTailProperties DEF TypeInv, TypeOK, Empty
<1>3. ret' \in [Threads -> Status]
  BY DEF Pop, TypeInv, TypeOK, Threads, Status
<1>4. exit_flag_' \in BOOLEAN
  BY Zenon DEF Pop, TypeInv, TypeOK
<1>5. free_size_' \in Int /\ outBytes' \in Nat
  <2>1. Head(queue_).size \in Nat
    BY <1>2 DEF Message
  <2> QED BY <2>1 DEF Pop, TypeInv, TypeOK
<1>6. TypeOK'
  BY <1>1, <1>2, <1>3, <1>4, <1>5 DEF Pop, TypeInv, TypeOK
<1>7. ArgOK'
  BY <1>1 DEF ArgOK, TypeInv, TypeOK, Threads
<1> QED BY <1>6, <1>7 DEF TypeInv

\* What a step that leaves the queue alone does to the types.
LEMMA IdleType ==
    ASSUME TypeInv, QueueUnchanged, NEW t \in Threads,
           Sleep(t) \/ \E s \in Status : Return(t, s),
           arg' \in [Producers -> Int], calls' \in [Producers -> Nat],
           \A p \in Producers \ {t} : arg'[p] = arg[p],
           t \in Producers /\ Sleep(t) => arg'[t] \in 1..queue_size
    PROVE  TypeInv'
<1>1. exit_flag_' \in BOOLEAN
  BY Zenon DEF QueueUnchanged, TypeInv, TypeOK
<1>2. /\ pc' \in [Threads -> {"ready", "asleep", "woken"}]
      /\ \A u \in Threads \ {t} : pc'[u] = pc[u]
      /\ pc'[t] # "ready" => Sleep(t)
  BY DEF Sleep, Return, TypeInv, TypeOK
<1>3. ret' \in [Threads -> Status]
  BY DEF Sleep, Return, TypeInv, TypeOK
<1>4. TypeOK'
  BY <1>1, <1>2, <1>3 DEF QueueUnchanged, TypeInv, TypeOK
<1>5. ArgOK'
  BY <1>2 DEF TypeInv, ArgOK, Threads
<1> QED BY <1>4, <1>5 DEF TypeInv

LEMMA TypeStep == TypeInv /\ ExitOK /\ [Next]_vars => TypeInv'
<1> SUFFICES ASSUME TypeInv, ExitOK, [Next]_vars PROVE TypeInv'
  OBVIOUS
<1>1. ASSUME NEW p \in Producers, NEW size \in MsgSizes, NEW b \in BOOLEAN,
             Add(p, size, b)
      PROVE  TypeInv'
  <2>1. CASE Push(p, size) /\ size \in 1..queue_size
    <3>1. calls' \in [Producers -> Nat]
      BY <1>1 DEF Add, TypeInv, TypeOK
    <3> QED BY <1>1, <2>1, <3>1, PushType DEF Add
  <2>2. CASE ~(Push(p, size) /\ size \in 1..queue_size)
    <3>1. QueueUnchanged /\ \/ \E s \in Status : Return(p, s)
                            \/ Sleep(p) /\ size \in 1..queue_size
      BY <1>1, <2>2 DEF Add, AddCall, TooLong, TooShort, Status
    <3>2. /\ arg' \in [Producers -> Int] /\ arg'[p] = size
          /\ calls' \in [Producers -> Nat]
          /\ \A q \in Producers \ {p} : arg'[q] = arg[q]
      BY <1>1 DEF Add, TypeInv, TypeOK
    <3>3. Sleep(p) => size \in 1..queue_size
      BY <1>1, <2>2
         DEF Add, AddCall, TooLong, TooShort, Sleep, Return, TypeInv, TypeOK, Threads
    <3> QED BY <3>1, <3>2, <3>3, IdleType DEF Threads
  <2> QED BY <2>1, <2>2
<1>2. ASSUME NEW p \in Producers, AddResume(p) PROVE TypeInv'
  <2>1. arg[p] \in 1..queue_size
    BY <1>2 DEF AddResume, TypeInv, ArgOK
  <2>2. CASE Push(p, arg[p])
    BY <1>2, <2>1, <2>2, PushType DEF AddResume, TypeInv, TypeOK
  <2>3. CASE Sleep(p) /\ QueueUnchanged
    BY <1>2, <2>1, <2>3, IdleType DEF AddResume, TypeInv, TypeOK, Threads
  <2> QED BY <1>2, <2>2, <2>3 DEF AddResume
<1>3. ASSUME NEW c \in Consumers,
             \/ \E b \in BOOLEAN : Remove(c, b)
             \/ RemoveResume(c)
      PROVE  TypeInv'
  <2>1. CASE ~Empty /\ Pop(c)
    BY <1>3, <2>1, PopType DEF Remove, RemoveResume
  <2>2. CASE ~(~Empty /\ Pop(c))
    <3>1. QueueUnchanged /\ (Sleep(c) \/ \E s \in Status : Return(c, s))
      BY <1>3, <2>2
         DEF Remove, RemoveResume, FinishRemove, Ended, ExitOK, Status
    <3>2. UNCHANGED <<arg, calls>> /\ c \notin Producers
      BY <1>3 DEF Remove, RemoveResume
    <3> QED BY <3>1, <3>2, IdleType DEF TypeInv, TypeOK, Threads
  <2> QED BY <2>1, <2>2
<1>4. ASSUME NEW p \in Producers, SignalFinished(p) PROVE TypeInv'
  <2>1. pc' \in [Threads -> {"ready", "asleep", "woken"}]
        /\ \A u \in Producers : pc'[u] = pc[u]
    BY <1>4 DEF SignalFinished, NotifyAllConsumers, TypeInv, TypeOK, Asleep, Threads
  <2>2. exit_flag_' \in BOOLEAN
    BY <1>4, Zenon DEF SignalFinished, TypeInv, TypeOK
  <2> QED BY <1>4, <2>1, <2>2 DEF SignalFinished, TypeInv, TypeOK, ArgOK
<1>5. ASSUME NEW t \in Threads, SpuriousWakeup(t) PROVE TypeInv'
  <2>1. exit_flag_' \in BOOLEAN
    BY <1>5, Zenon DEF SpuriousWakeup, TypeInv, TypeOK
  <2> QED BY <1>5, <2>1 DEF SpuriousWakeup, TypeInv, TypeOK, ArgOK, Threads
<1>6. CASE UNCHANGED vars
  BY <1>6 DEF vars, TypeInv, TypeOK, ArgOK
<1> QED BY <1>1, <1>2, <1>3, <1>4, <1>5, <1>6 DEF Next, Done

LEMMA TypeInit == Init => TypeInv
<1> SUFFICES ASSUME Init PROVE TypeInv
  OBVIOUS
<1>1. queue_ \in Seq(Message)
  BY EmptySeq DEF Init
<1>2. exit_flag_ \in BOOLEAN
  BY Zenon DEF Init
<1>3. ArgOK
  BY DEF Init, ArgOK, Threads
<1>4. ret \in [Threads -> Status]
  BY DEF Init, Status
<1> QED BY <1>1, <1>2, <1>3, <1>4 DEF Init, TypeInv, TypeOK

LEMMA ExitInit == Init => ExitOK
<1>1. Cardinality({}) = 0
  BY FS_EmptySet
<1> QED BY <1>1 DEF Init, ExitOK, Closed

LEMMA TypeAlways == Spec => [](TypeInv /\ ExitOK)
<1>1. TypeInv /\ ExitOK /\ [Next]_vars => (TypeInv /\ ExitOK)'
  BY TypeStep, ExitStep DEF TypeInv
<1> QED BY TypeInit, ExitInit, <1>1, PTL DEF Spec

\* Every variable keeps its type, whatever the threads interleave.
THEOREM TypeCorrect == Spec => []TypeOK
<1>1. TypeInv => TypeOK
  BY DEF TypeInv
<1> QED BY TypeAlways, <1>1, PTL

-----------------------------------------------------------------------------
(* Accounting of bytes *)

\* What a step can do to the queue: nothing, push a message that fits, or pop.
LEMMA QueueEffect ==
    ASSUME TypeInv, ExitOK, [Next]_vars
    PROVE  \/ UNCHANGED <<queue_, free_size_, inBytes, outBytes>>
           \/ \E p \in Producers, size \in 1..queue_size :
                Fits(size) /\ Push(p, size)
           \/ \E c \in Consumers : ~Empty /\ Pop(c)
<1>1. ASSUME NEW p \in Producers, NEW size \in MsgSizes, NEW b \in BOOLEAN,
             Add(p, size, b)
      PROVE  \/ QueueUnchanged
             \/ size \in 1..queue_size /\ Fits(size) /\ Push(p, size)
  BY <1>1 DEF Add, AddCall, TooLong, TooShort
<1>2. ASSUME NEW p \in Producers, AddResume(p)
      PROVE  \/ QueueUnchanged
             \/ arg[p] \in 1..queue_size /\ Fits(arg[p]) /\ Push(p, arg[p])
  BY <1>2 DEF AddResume, TypeInv, ArgOK
<1>3. ASSUME NEW c \in Consumers,
             RemoveResume(c) \/ \E b \in BOOLEAN : Remove(c, b)
      PROVE  QueueUnchanged \/ (~Empty /\ Pop(c))
  BY <1>3 DEF Remove, RemoveResume, FinishRemove, Ended, ExitOK
<1>4. ASSUME \/ \E p \in Producers : SignalFinished(p)
             \/ \E t \in Threads : SpuriousWakeup(t)
             \/ Done
             \/ UNCHANGED vars
      PROVE  UNCHANGED <<queue_, free_size_, inBytes, outBytes>>
  BY <1>4 DEF SignalFinished, SpuriousWakeup, Done, vars
<1> QED BY <1>1, <1>2, <1>3, <1>4 DEF Next, QueueUnchanged

LEMMA AccountingStep ==
    TypeInv /\ ExitOK /\ Accounting /\ [Next]_vars => Accounting'
<1> SUFFICES ASSUME TypeInv, ExitOK, Accounting, [Next]_vars PROVE Accounting'
  OBVIOUS
<1>1. CASE UNCHANGED <<queue_, free_size_, inBytes, outBytes>>
  BY <1>1 DEF Accounting, Empty
<1>2. ASSUME NEW p \in Producers, NEW size \in 1..queue_size,
             Fits(size), Push(p, size)
      PROVE  Accounting'
  <2> DEFINE m == [from |-> p, at |-> inBytes, size |-> size]
             n == Len(queue_)
  <2>1. m \in Message /\ queue_ \in Seq(Message) /\ n \in Nat
    BY DEF TypeInv, TypeOK, Message
  <2>2. /\ queue_' = Append(queue_, m) /\ Len(queue_') = n + 1
        /\ queue_'[n + 1] = m /\ \A i \in 1..n : queue_'[i] = queue_[i]
    BY <1>2, <2>1 DEF Push
  <2>3. /\ free_size_' = queue_size - (inBytes' - outBytes') /\ free_size_' >= 0
        /\ inBytes' = inBytes + size /\ outBytes' = outBytes
    BY <1>2 DEF Push, Fits, Accounting, TypeInv, TypeOK
  <2>4. queue_'[1].at = outBytes'
    <3>1. CASE n = 0
      BY <2>1, <2>2, <2>3, <3>1 DEF Accounting, Empty
    <3>2. CASE n # 0
      BY <2>1, <2>2, <2>3, <3>2 DEF Accounting, Empty
    <3> QED BY <3>1, <3>2
  <2>5. \A i \in 1..n : queue_'[i + 1].at = queue_'[i].at + queue_'[i].size
    <3> TAKE i \in 1..n
    <3>1. CASE i = n
      BY <2>1, <2>2, <3>1 DEF Accounting, Empty
    <3>2. CASE i < n
      BY <2>1, <2>2, <3>2 DEF Accounting
    <3> QED BY <2>1, <3>1, <3>2
  <2>6. queue_'[n + 1].at + queue_'[n + 1].size = inBytes'
    BY <2>2, <2>3
  <2> QED BY SMTT(30), <2>1, <2>2, <2>3, <2>4, <2>5, <2>6 DEF Accounting, Empty
<1>3. ASSUME NEW c \in Consumers, ~Empty, Pop(c) PROVE Accounting'
  <2> DEFINE n == Len(queue_)
  <2>1. /\ queue_ \in Seq(Message) /\ queue_ # <<>> /\ n \in Nat /\ n >= 1
        /\ Head(queue_) = queue_[1]
    BY <1>3 DEF TypeInv, TypeOK, Empty
  <2>2. /\ queue_' = Tail(queue_) /\ Len(queue_') = n - 1
        /\ \A i \in 1..(n - 1) : queue_'[i] = queue_[i + 1]
    BY <1>3, <2>1, HeadTailProperties DEF Pop
  <2>3. \A i \in 1..n : queue_[i] \in Message
    BY <2>1, ElementOfSeq
  <2>4. queue_[1].size \in Nat /\ queue_[1].at \in Nat
    BY <2>1, <2>3 DEF Message
  <2>5. /\ free_size_' = queue_size - (inBytes' - outBytes') /\ free_size_' >= 0
        /\ inBytes' = inBytes /\ outBytes' = queue_[1].at + queue_[1].size
    BY SMTT(30), <1>3, <2>1, <2>4 DEF Pop, Accounting, TypeInv, TypeOK
  <2>6. CASE n = 1
    <3>1. queue_' = <<>>
      BY <2>1, <2>2, <2>6
    <3>2. inBytes' = outBytes'
      BY <1>3, <2>5, <2>6 DEF Accounting
    <3> QED BY <2>5, <3>1, <3>2 DEF Accounting, Empty
  <2>7. CASE n > 1
    <3>1. queue_' # <<>> /\ queue_'[1] = queue_[2] /\ queue_'[n - 1] = queue_[n]
      BY <2>1, <2>2, <2>7
    <3>2. queue_'[1].at = outBytes'
      BY <2>1, <2>5, <2>7, <3>1 DEF Accounting
    <3>3. queue_'[n - 1].at + queue_'[n - 1].size = inBytes'
      BY <1>3, <2>5, <3>1 DEF Accounting
    <3>4. \A i \in 1..(n - 2) : queue_'[i + 1].at = queue_'[i].at + queue_'[i].size
      BY <2>1, <2>2, <2>7 DEF Accounting
    <3>5. \A i \in 1..(Len(queue_') - 1) :
            queue_'[i + 1].at = queue_'[i].at + queue_'[i].size
      BY <2>1, <2>2, <3>4
    <3>6. queue_'[Len(queue_')].at + queue_'[Len(queue_')].size = inBytes'
      BY <2>2, <3>3
    <3> QED BY <2>5, <3>1, <3>2, <3>5, <3>6 DEF Accounting, Empty
  <2>8. n = 1 \/ n > 1
    <3>1. n \in Nat /\ n >= 1
      BY <2>1
    <3> HIDE DEF n
    <3> QED BY <3>1
  <2> QED BY <2>6, <2>7, <2>8, Zenon
<1> QED BY <1>1, <1>2, <1>3, QueueEffect

\* For every capacity and all message sizes, free_size_ is exact and never
\* negative, and the queue holds the bytes pushed and not popped, in order.
THEOREM BytesAccounted == Spec => []Accounting
<1>1. Init => Accounting
  BY DEF Init, Accounting, Empty
<1>2. Spec => [](TypeInv /\ ExitOK)
  BY TypeAlways
<1> QED BY <1>1, <1>2, AccountingStep, PTL DEF Spec

-----------------------------------------------------------------------------
(* No lost wake-ups *)

\* A message that the queue could hold but that does not fit now finds the
\* queue non-empty.
LEMMA FullIsNotEmpty ==
    ASSUME TypeInv, Accounting, NEW size \in 1..queue_size, ~Fits(size)
    PROVE  ~Empty
  BY DEF TypeInv, TypeOK, Accounting, Empty, Fits

LEMMA ProducerStep ==
    TypeInv /\ ExitOK /\ Accounting /\ NoStrandedProducer /\ [Next]_vars
      => NoStrandedProducer'
<1> SUFFICES ASSUME TypeInv, ExitOK, Accounting, NoStrandedProducer, [Next]_vars
             PROVE  NoStrandedProducer'
  OBVIOUS
<1> USE DEF TypeInv, TypeOK, Threads
<1>1. ASSUME NEW p \in Producers, NEW size \in 1..queue_size, Push(p, size)
      PROVE  NoStrandedProducer'
  <2>1. queue_' # <<>>
    BY <1>1 DEF Push
  <2> QED BY <2>1 DEF NoStrandedProducer, Empty
<1>2. ASSUME NEW c \in Consumers, Pop(c) PROVE NoStrandedProducer'
  <2>1. CASE Asleep(Producers) = {}
    BY <1>2, <2>1 DEF Pop, NotifyNotFull, NotifyOne, Asleep, NoStrandedProducer
  <2>2. CASE Asleep(Producers) # {}
    <3>1. PICK w \in Asleep(Producers) :
            pc' = [pc EXCEPT ![c] = "ready", ![w] = "woken"]
      BY <1>2, <2>2 DEF Pop, NotifyNotFull, NotifyOne
    <3>2. w \in Producers /\ pc'[w] = "woken"
      BY <3>1 DEF Asleep
    <3> QED BY <3>2 DEF NoStrandedProducer, Woken
  <2> QED BY <2>1, <2>2
<1>3. ASSUME NEW p \in Producers, NEW size \in 1..queue_size,
             ~Fits(size), Sleep(p), QueueUnchanged
      PROVE  NoStrandedProducer'
  <2>1. ~Empty
    BY <1>3, FullIsNotEmpty
  <2> QED BY <1>3, <2>1 DEF QueueUnchanged, NoStrandedProducer, Empty
<1>4. ASSUME UNCHANGED queue_, \A p \in Producers : pc'[p] = pc[p]
      PROVE  NoStrandedProducer'
  <2>1. Asleep(Producers)' = Asleep(Producers) /\ Woken(Producers)' = Woken(Producers)
    BY <1>4 DEF Asleep, Woken
  <2> QED BY <1>4, <2>1 DEF NoStrandedProducer, Empty
<1>5. ASSUME NEW p \in Producers, NEW size \in MsgSizes, NEW b \in BOOLEAN,
             Add(p, size, b)
      PROVE  NoStrandedProducer'
  <2>1. CASE size \in 1..queue_size /\ (Push(p, size) \/ (~Fits(size) /\ Sleep(p) /\ QueueUnchanged))
    BY <1>1, <1>3, <2>1
  <2>2. CASE QueueUnchanged /\ \E s \in Status : Return(p, s)
    BY <1>4, <1>5, <2>2 DEF Add, Return, QueueUnchanged
  <2> QED BY <1>5, <2>1, <2>2 DEF Add, AddCall, TooLong, TooShort, Status
<1>6. ASSUME NEW p \in Producers, AddResume(p) PROVE NoStrandedProducer'
  <2>1. arg[p] \in 1..queue_size
    BY <1>6 DEF AddResume, ArgOK
  <2> QED BY <1>1, <1>3, <1>6, <2>1 DEF AddResume
<1>7. ASSUME NEW c \in Consumers,
             RemoveResume(c) \/ \E b \in BOOLEAN : Remove(c, b)
      PROVE  NoStrandedProducer'
  <2>1. \/ Pop(c)
        \/ QueueUnchanged /\ (Sleep(c) \/ \E s \in Status : Return(c, s))
    BY <1>7 DEF Remove, RemoveResume, FinishRemove, Status
  <2>2. ASSUME QueueUnchanged, Sleep(c) \/ \E s \in Status : Return(c, s)
        PROVE  NoStrandedProducer'
    BY <1>4, <2>2 DEF QueueUnchanged, Sleep, Return
  <2> QED BY <1>2, <2>1, <2>2
<1>8. ASSUME NEW p \in Producers, SignalFinished(p) PROVE NoStrandedProducer'
  BY <1>4, <1>8 DEF SignalFinished, NotifyAllConsumers, Asleep
<1>9. ASSUME NEW t \in Threads, SpuriousWakeup(t) PROVE NoStrandedProducer'
  <2>1. CASE t \in Producers
    BY <1>9, <2>1 DEF SpuriousWakeup, NoStrandedProducer, Woken
  <2>2. CASE t \notin Producers
    BY <1>4, <1>9, <2>2 DEF SpuriousWakeup
  <2> QED BY <2>1, <2>2
<1>10. CASE UNCHANGED vars
  BY <1>4, <1>10 DEF vars
<1> QED BY <1>5, <1>6, <1>7, <1>8, <1>9, <1>10 DEF Next, Done

\* No producer is left asleep in Add with nothing queued that could free bytes.
THEOREM ProducersNotStranded == Spec => []NoStrandedProducer
<1>1. Init => NoStrandedProducer
  BY DEF Init, NoStrandedProducer, Asleep, Threads
<1> QED BY <1>1, TypeAlways, BytesAccounted, ProducerStep, PTL DEF Spec

\* The woken consumers are finitely many; one more or one less counts.
LEMMA WokenCount ==
    /\ IsFiniteSet(Woken(Consumers)) /\ Cardinality(Woken(Consumers)) \in Nat
    /\ \A c : Cardinality(Woken(Consumers) \cup {c}) =
             IF c \in Woken(Consumers) THEN Cardinality(Woken(Consumers))
             ELSE Cardinality(Woken(Consumers)) + 1
    /\ \A c : Cardinality(Woken(Consumers) \ {c}) =
             IF c \in Woken(Consumers) THEN Cardinality(Woken(Consumers)) - 1
             ELSE Cardinality(Woken(Consumers))
<1>1. IsFiniteSet(Woken(Consumers))
  BY FS_Subset DEF Woken
<1> QED BY <1>1, FS_CardinalityType, FS_AddElement, FS_RemoveElement

LEMMA ConsumerStep ==
    TypeInv /\ ExitOK /\ NoStrandedConsumer /\ [Next]_vars => NoStrandedConsumer'
<1> SUFFICES ASSUME TypeInv, ExitOK, NoStrandedConsumer, [Next]_vars
             PROVE  NoStrandedConsumer'
  OBVIOUS
<1> USE DEF TypeInv, TypeOK, Threads
<1> DEFINE A == Asleep(Consumers)
           W == Woken(Consumers)
<1>0. Len(queue_) \in Nat
  OBVIOUS
<1>1. ASSUME NEW p \in Producers, NEW size \in 1..queue_size, Push(p, size)
      PROVE  NoStrandedConsumer'
  <2>1. Len(queue_') = Len(queue_) + 1 /\ Closed' = Closed
    BY <1>1 DEF Push, Closed
  <2>2. CASE A = {}
    <3>1. A' = {}
      BY <1>1, <2>2 DEF Push, NotifyNotEmpty, NotifyOne, Asleep
    <3> QED BY <3>1 DEF NoStrandedConsumer
  <2>3. CASE A # {}
    <3>1. PICK w \in A : pc' = [pc EXCEPT ![p] = "ready", ![w] = "woken"]
      BY <1>1, <2>3 DEF Push, NotifyNotEmpty, NotifyOne
    <3>2. W' = W \cup {w} /\ w \notin W
      BY <3>1 DEF Asleep, Woken
    <3>3. Cardinality(W') = Cardinality(W) + 1 /\ Cardinality(W) \in Nat
      BY <3>2, WokenCount
    <3>4. ~Closed /\ Len(queue_) <= Cardinality(W)
      BY <2>3 DEF NoStrandedConsumer
    <3> QED BY <1>0, <2>1, <3>3, <3>4 DEF NoStrandedConsumer
  <2> QED BY <2>2, <2>3
<1>2. ASSUME NEW c \in Consumers, ~Empty, Pop(c), pc[c] \in {"ready", "woken"}
      PROVE  NoStrandedConsumer'
  <2>1. Len(queue_') = Len(queue_) - 1 /\ Closed' = Closed
    BY <1>2, HeadTailProperties DEF Pop, Closed, Empty
  <2>2. A' = A /\ W' = W \ {c}
    BY <1>2 DEF Pop, NotifyNotFull, NotifyOne, Asleep, Woken
  <2>3. /\ Cardinality(W) \in Nat
        /\ Cardinality(W') = Cardinality(W) - 1 \/ Cardinality(W') = Cardinality(W)
    BY <2>2, WokenCount, Zenon
  <2>4. Cardinality(W') \in Nat
    BY <2>2, WokenCount, FS_RemoveElement, FS_CardinalityType
  <2> QED BY <1>0, <2>1, <2>2, <2>3, <2>4 DEF NoStrandedConsumer
<1>3. ASSUME QueueUnchanged, \A c \in Consumers : pc'[c] = pc[c]
      PROVE  NoStrandedConsumer'
  <2>1. A' = A /\ W' = W /\ Closed' = Closed
    BY <1>3 DEF Asleep, Woken, QueueUnchanged, Closed
  <2> QED BY <1>3, <2>1 DEF NoStrandedConsumer, QueueUnchanged
<1>4. ASSUME NEW c \in Consumers, Empty, ~Closed, Sleep(c), QueueUnchanged
      PROVE  NoStrandedConsumer'
  <2>1. Len(queue_') = 0 /\ ~Closed'
    BY <1>4 DEF QueueUnchanged, Empty, Closed
  <2>2. Cardinality(W') \in Nat
    <3>1. W' \subseteq Consumers
      BY DEF Woken
    <3> QED BY <3>1, FS_Subset, FS_CardinalityType
  <2> QED BY <2>1, <2>2 DEF NoStrandedConsumer
<1>5. ASSUME NEW c \in Consumers, Closed, QueueUnchanged,
             pc[c] \in {"ready", "woken"}, Return(c, "QUEUE_CLOSE")
      PROVE  NoStrandedConsumer'
  <2>1. A' = {}
    BY <1>5 DEF NoStrandedConsumer, Asleep, Return
  <2> QED BY <2>1 DEF NoStrandedConsumer
<1>6. ASSUME NEW p \in Producers, NEW size \in MsgSizes, NEW b \in BOOLEAN,
             Add(p, size, b)
      PROVE  NoStrandedConsumer'
  <2>1. CASE size \in 1..queue_size /\ Push(p, size)
    BY <1>1, <2>1
  <2>2. CASE QueueUnchanged /\ (Sleep(p) \/ \E s \in Status : Return(p, s))
    BY <1>3, <2>2 DEF Return, Sleep
  <2> QED BY <1>6, <2>1, <2>2 DEF Add, AddCall, TooLong, TooShort, Status
<1>7. ASSUME NEW p \in Producers, AddResume(p) PROVE NoStrandedConsumer'
  <2>1. arg[p] \in 1..queue_size
    BY <1>7 DEF AddResume, ArgOK
  <2>2. CASE QueueUnchanged /\ Sleep(p)
    BY <1>3, <2>2 DEF Sleep
  <2> QED BY <1>1, <1>7, <2>1, <2>2 DEF AddResume
<1>8. ASSUME NEW c \in Consumers, NEW b \in BOOLEAN, Remove(c, b)
      PROVE  NoStrandedConsumer'
  <2>1. CASE ~Empty /\ FinishRemove(c)
    BY <1>2, <1>8, <2>1 DEF Remove, FinishRemove, Ended
  <2>2. CASE QueueUnchanged /\ Return(c, "QUEUE_EMPTY")
    BY <1>3, <1>8, <2>2 DEF Remove, Return
  <2>3. CASE QueueUnchanged /\ Empty /\ IF Closed THEN Return(c, "QUEUE_CLOSE")
                                       ELSE Sleep(c)
    BY <1>4, <1>5, <1>8, <2>3 DEF Remove
  <2> QED BY <1>8, <2>1, <2>2, <2>3 DEF Remove
<1>9. ASSUME NEW c \in Consumers, RemoveResume(c) PROVE NoStrandedConsumer'
  <2>1. CASE Empty /\ ~exit_flag_ /\ Sleep(c) /\ QueueUnchanged
    BY <1>4, <2>1 DEF ExitOK
  <2>2. CASE (~Empty \/ exit_flag_) /\ FinishRemove(c)
    BY <1>2, <1>5, <1>9, <2>2 DEF RemoveResume, FinishRemove, Ended, ExitOK
  <2> QED BY <1>9, <2>1, <2>2 DEF RemoveResume
<1>10. ASSUME NEW p \in Producers, SignalFinished(p) PROVE NoStrandedConsumer'
  <2>1. CASE Closed'
    <3>1. A' = {}
      BY <1>10, <2>1 DEF SignalFinished, NotifyAllConsumers, Asleep, Closed
    <3> QED BY <3>1 DEF NoStrandedConsumer
  <2>2. CASE ~Closed'
    <3>1. A' = A /\ W' = W /\ queue_' = queue_
      BY <1>10, <2>2 DEF SignalFinished, Asleep, Woken, Closed
    <3> QED BY <2>2, <3>1 DEF NoStrandedConsumer
  <2> QED BY <2>1, <2>2
<1>11. ASSUME NEW t \in Threads, SpuriousWakeup(t) PROVE NoStrandedConsumer'
  <2>1. CASE t \in Consumers
    <3>1. A # {} /\ W' = W \cup {t} /\ queue_' = queue_ /\ Closed' = Closed
      BY <1>11, <2>1 DEF SpuriousWakeup, Asleep, Woken, Closed
    <3>2. /\ Cardinality(W) \in Nat
          /\ Cardinality(W') = Cardinality(W) \/ Cardinality(W') = Cardinality(W) + 1
      BY <3>1, WokenCount, Zenon
    <3> QED BY <1>0, <3>1, <3>2 DEF NoStrandedConsumer
  <2>2. CASE t \notin Consumers
    BY <1>3, <1>11, <2>2 DEF SpuriousWakeup, QueueUnchanged
  <2> QED BY <2>1, <2>2
<1>12. CASE UNCHANGED vars
  BY <1>3, <1>12 DEF vars, QueueUnchanged
<1> QED BY <1>6, <1>7, <1>8, <1>9, <1>10, <1>11, <1>12 DEF Next, Done

\* No consumer is left asleep in Remove on a closed queue, nor while more
\* messages are queued than consumers are coming for them.
THEOREM ConsumersNotStranded == Spec => []NoStrandedConsumer
<1>1. Init => NoStrandedConsumer
  BY DEF Init, NoStrandedConsumer, Asleep, Threads
<1> QED BY <1>1, TypeAlways, ConsumerStep, PTL DEF Spec

-----------------------------------------------------------------------------
(* Closing loses nothing, when producers signal for themselves *)

\* A producer that has signalled is outside Add.
FinishedReady == \A p \in finished_producers_ : pc[p] = "ready"

CloseInv == FinishedReady /\ DrainedAtClose

\* When all signals are in, every producer has given one.
LEMMA AllFinished ==
    ASSUME OwnSignal, TypeInv, Closed PROVE finished_producers_ = Producers
<1>1. finished_producers_ \subseteq Producers
  BY DEF TypeInv, TypeOK
<1>2. /\ Cardinality(finished_producers_) \in Nat /\ Cardinality(Producers) \in Nat
      /\ Cardinality(finished_producers_) <= Cardinality(Producers)
      /\ Cardinality(Producers) = Cardinality(finished_producers_)
           => Producers = finished_producers_
  BY <1>1, FS_Subset, FS_CardinalityType
<1>3. Cardinality(finished_producers_) >= Cardinality(Producers)
  BY DEF Closed
<1> QED BY <1>2, <1>3

LEMMA FinishedStep ==
    ASSUME OwnSignal, TypeInv, ExitOK, FinishedReady, [Next]_vars
    PROVE  FinishedReady'
<1> USE DEF TypeInv, TypeOK, Threads, FinishedReady
<1>1. ASSUME NEW t \in Threads, t \notin finished_producers_,
             UNCHANGED finished_producers_,
             \A u \in Threads \ {t} : pc'[u] = pc[u] \/ pc[u] = "asleep"
      PROVE  FinishedReady'
  BY <1>1
<1>2. ASSUME NEW p \in Producers, NEW size \in MsgSizes, NEW b \in BOOLEAN,
             Add(p, size, b)
      PROVE  FinishedReady'
  <2>1. p \notin finished_producers_
    BY <1>2 DEF Add
  <2>2. \/ Push(p, size)
        \/ QueueUnchanged /\ (Sleep(p) \/ \E s \in Status : Return(p, s))
    BY <1>2 DEF Add, AddCall, Status
  <2>3. /\ UNCHANGED finished_producers_
        /\ \A u \in Threads \ {p} : pc'[u] = pc[u] \/ pc[u] = "asleep"
    BY <2>2, NotifyOneType
       DEF Push, NotifyNotEmpty, QueueUnchanged, Sleep, Return
  <2> QED BY <1>1, <2>1, <2>3
<1>3. ASSUME NEW p \in Producers, AddResume(p) PROVE FinishedReady'
  <2>1. p \notin finished_producers_
    BY <1>3 DEF AddResume
  <2>2. /\ UNCHANGED finished_producers_
        /\ \A u \in Threads \ {p} : pc'[u] = pc[u] \/ pc[u] = "asleep"
    BY <1>3, NotifyOneType DEF AddResume, Push, NotifyNotEmpty, QueueUnchanged, Sleep
  <2> QED BY <1>1, <2>1, <2>2
<1>4. ASSUME NEW c \in Consumers,
             RemoveResume(c) \/ \E b \in BOOLEAN : Remove(c, b)
      PROVE  FinishedReady'
  <2>1. \/ Pop(c)
        \/ QueueUnchanged /\ (Sleep(c) \/ \E s \in Status : Return(c, s))
    BY <1>4 DEF Remove, RemoveResume, FinishRemove, Status
  <2>2. /\ UNCHANGED finished_producers_
        /\ \A u \in Threads \ {c} : pc'[u] = pc[u] \/ pc[u] = "asleep"
    BY <2>1, NotifyOneType DEF Pop, NotifyNotFull, QueueUnchanged, Sleep, Return
  <2> QED BY <1>1, <2>2
<1>5. ASSUME NEW p \in Producers, SignalFinished(p) PROVE FinishedReady'
  BY <1>5 DEF SignalFinished, NotifyAllConsumers, Asleep
<1>6. ASSUME NEW t \in Threads, SpuriousWakeup(t) PROVE FinishedReady'
  BY <1>6 DEF SpuriousWakeup
<1>7. CASE UNCHANGED vars
  BY <1>7 DEF vars
<1> QED BY <1>2, <1>3, <1>4, <1>5, <1>6, <1>7 DEF Next, Done

\* No step pushes a message once the queue is closed.
LEMMA ClosedStep ==
    ASSUME OwnSignal, TypeInv, ExitOK, FinishedReady, Closed, [Next]_vars
    PROVE  inBytes' = inBytes
<1>1. finished_producers_ = Producers
  BY AllFinished
<1>2. \A p \in Producers : pc[p] = "ready" /\ p \in finished_producers_
  BY <1>1 DEF FinishedReady
<1>3. /\ \A p \in Producers : ~AddResume(p)
      /\ \A p \in Producers, size \in MsgSizes, b \in BOOLEAN : ~Add(p, size, b)
  BY <1>2 DEF Add, AddResume
<1> QED BY <1>3
        DEF Next, Remove, RemoveResume, FinishRemove, Pop, QueueUnchanged,
            SignalFinished, SpuriousWakeup, Done, vars

LEMMA DrainedStep ==
    ASSUME OwnSignal, TypeInv, ExitOK, FinishedReady, DrainedAtClose, [Next]_vars
    PROVE  DrainedAtClose'
<1> USE DEF TypeInv, TypeOK, Threads
<1>1. CASE Closed /\ Empty
  <2>1. inBytes' = inBytes
    BY <1>1, ClosedStep
  <2>2. UNCHANGED queue_
    <3>1. ASSUME NEW p \in Producers, NEW size \in 1..queue_size, Push(p, size)
          PROVE  FALSE
      BY <2>1, <3>1 DEF Push
    <3> QED BY <1>1, <3>1, QueueEffect
  <2>3. Closed'
    BY <1>1, OnlySignalCloses, SignalKeepsClosed DEF SignalFinished, Closed
  <2> QED BY <1>1, <2>2, <2>3 DEF DrainedAtClose, Empty
<1>2. CASE ~(Closed /\ Empty)
  <2>1. \A c \in Consumers : ret[c] # "QUEUE_CLOSE"
    BY <1>2 DEF DrainedAtClose
  <2>2. ASSUME NEW c \in Consumers, ret'[c] = "QUEUE_CLOSE" PROVE FALSE
    <3>1. ASSUME NEW p \in Producers, UNCHANGED ret \/ \E s \in Status :
                   ret' = [ret EXCEPT ![p] = s]
          PROVE  FALSE
      BY <2>1, <2>2, <3>1
    <3>2. ASSUME NEW d \in Consumers, NEW s \in Status \ {"QUEUE_CLOSE"},
                 ret' = [ret EXCEPT ![d] = s]
          PROVE  FALSE
      BY <2>1, <2>2, <3>2
    <3>3. ASSUME UNCHANGED ret PROVE FALSE
      BY <2>1, <2>2, <3>3
    <3>4. ASSUME NEW p \in Producers,
                 AddResume(p) \/ \E size \in MsgSizes, b \in BOOLEAN : Add(p, size, b)
          PROVE  FALSE
      BY <3>1, <3>4 DEF Add, AddCall, AddResume, Push, Return, Sleep, Status
    <3>5. ASSUME NEW d \in Consumers,
                 RemoveResume(d) \/ \E b \in BOOLEAN : Remove(d, b)
          PROVE  FALSE
      BY <1>2, <3>2, <3>3, <3>5
         DEF Remove, RemoveResume, FinishRemove, Ended, Pop, Return, Sleep, Status
    <3> QED BY <3>3, <3>4, <3>5 DEF Next, SignalFinished, SpuriousWakeup, Done, vars
  <2> QED BY <2>2 DEF DrainedAtClose
<1> QED BY <1>1, <1>2

LEMMA CloseAlways ==
    ASSUME OwnSignal PROVE Spec => []CloseInv
<1>1. Init => CloseInv
  BY DEF Init, CloseInv, FinishedReady, DrainedAtClose, Threads
<1>2. TypeInv /\ ExitOK /\ CloseInv /\ [Next]_vars => CloseInv'
  BY FinishedStep, DrainedStep DEF CloseInv
<1> QED BY <1>1, <1>2, TypeAlways, PTL DEF Spec

\* A consumer is told QUEUE_CLOSE only when every message whose Add succeeded
\* has been removed, and no Add succeeds afterwards.
THEOREM CloseDrains ==
    ASSUME OwnSignal PROVE Spec => []DrainedAtClose
<1>1. CloseInv => DrainedAtClose
  BY DEF CloseInv
<1> QED BY <1>1, CloseAlways, PTL

-----------------------------------------------------------------------------
(* The queue implements ClosableQueue *)

\* The consumers that have been told that the queue is closed.
Told == {c \in Consumers : ret[c] = "QUEUE_CLOSE"}

\* Every step is a step of ClosableQueue or none, when producers signal for
\* themselves.
LEMMA RefinementStep ==
    ASSUME OwnSignal, TypeInv, ExitOK, CloseInv, Accounting, [Next]_vars
    PROVE  [Abstract!Next]_(Abstract!vars)
<1> USE DEF TypeInv, TypeOK
<1>0. UNCHANGED <<queue_, inBytes, outBytes, Closed, Told>> => UNCHANGED Abstract!vars
  BY Zenon DEF Abstract!vars, Told
<1>1. ASSUME NEW p \in Producers, NEW size \in 1..queue_size, Fits(size), Push(p, size)
      PROVE  Abstract!PutAny
  <2> DEFINE m == [from |-> p, at |-> inBytes, size |-> size]
  <2>1. ~Closed
    BY <1>1, ClosedStep DEF CloseInv, Push
  <2>2. queue_' = Append(queue_, m) /\ m \in Message
    BY <1>1 DEF Push, Message
  <2>3. /\ Len(queue_') = Len(queue_) + 1
        /\ queue_'[Len(queue_')] = m
    BY <2>2, AppendProperties
  <2>4. /\ (inBytes - outBytes) + size <= queue_size
        /\ inBytes' - outBytes' = (inBytes - outBytes) + size
    <3>1. size \in Int /\ inBytes \in Int /\ outBytes \in Int /\ queue_size \in Int
      OBVIOUS
    <3>2. size <= free_size_ /\ free_size_ = queue_size - (inBytes - outBytes)
      BY <1>1 DEF Fits, Accounting
    <3>3. inBytes' = inBytes + size /\ outBytes' = outBytes
      BY <1>1 DEF Push
    <3> QED BY ONLY <3>1, <3>2, <3>3
  <2>5. Told' = Told
    BY <1>1 DEF Push, Told, Threads
  <2>6. Closed' = Closed
    BY <1>1 DEF Push, Closed
  <2> QED BY <2>1, <2>2, <2>3, <2>4, <2>5, <2>6 DEF Abstract!PutAny, Abstract!Put, Told
<1>2. ASSUME NEW c \in Consumers, ~Empty, Pop(c)
      PROVE  Abstract!Take
  <2>1. Head(queue_) \in Message
    BY <1>2, HeadTailProperties DEF Empty
  <2>2. Told = {} /\ Told' = {}
    BY <1>2 DEF Pop, Told, Threads, CloseInv, DrainedAtClose
  <2>3. inBytes' - outBytes' = (inBytes - outBytes) - Head(queue_).size
    BY <1>2, <2>1 DEF Pop, Message
  <2>4. Closed' = Closed
    BY <1>2 DEF Pop, Closed
  <2> QED BY <1>2, <2>2, <2>3, <2>4 DEF Abstract!Take, Told, Pop, Empty
<1>3. ASSUME NEW t \in Threads, QueueUnchanged, Sleep(t)
      PROVE  UNCHANGED Abstract!vars
  BY <1>0, <1>3 DEF QueueUnchanged, Sleep, Told, Closed
<1>4. ASSUME NEW t \in Threads, NEW s, QueueUnchanged, Return(t, s),
             t \in Producers \/ (s # "QUEUE_CLOSE" /\ ret[t] # "QUEUE_CLOSE")
      PROVE  UNCHANGED Abstract!vars
  <2>1. Told' = Told
    BY <1>4 DEF Return, Told, Threads
  <2> QED BY <1>0, <1>4, <2>1 DEF QueueUnchanged, Closed
<1>5. ASSUME NEW c \in Consumers, QueueUnchanged, Closed, Empty, Return(c, "QUEUE_CLOSE")
      PROVE  Abstract!End(c) \/ UNCHANGED Abstract!vars
  <2>1. Told' = Told \cup {c}
    BY <1>5 DEF Return, Told, Threads
  <2>2. Closed' = Closed /\ UNCHANGED <<queue_, inBytes, outBytes>>
    BY <1>5 DEF QueueUnchanged, Closed
  <2>3. CASE c \in Told
    <3>1. Told' = Told
      BY <2>1, <2>3
    <3> QED BY <1>0, <2>2, <3>1
  <2>4. CASE c \notin Told
    BY <1>5, <2>1, <2>2, <2>4 DEF Abstract!End, Told, Empty
  <2> QED BY <2>3, <2>4
<1>6. ASSUME NEW p \in Producers, SignalFinished(p)
      PROVE  Abstract!Close \/ UNCHANGED Abstract!vars
  <2>1. Told' = Told /\ UNCHANGED <<queue_, inBytes, outBytes>>
    BY <1>6 DEF SignalFinished, Told
  <2>2. CASE Closed'
    BY <2>1, <2>2, Zenon DEF Abstract!Close, Told
  <2>3. CASE ~Closed'
    <3>1. ~Closed
      BY <1>6, <2>3, SignalKeepsClosed DEF SignalFinished, Closed
    <3>2. Closed' = Closed
      BY <2>3, <3>1 DEF Closed
    <3> QED BY <1>0, <2>1, <3>2
  <2> QED BY <2>2, <2>3
<1>7. ASSUME NEW p \in Producers,
             AddResume(p) \/ \E size \in MsgSizes, b \in BOOLEAN : Add(p, size, b)
      PROVE  Abstract!PutAny \/ UNCHANGED Abstract!vars
  <2>1. \/ \E size \in 1..queue_size : Fits(size) /\ Push(p, size)
        \/ QueueUnchanged /\ Sleep(p)
        \/ QueueUnchanged /\ \E s \in Status : Return(p, s)
    BY <1>7 DEF AddResume, Add, AddCall, TooLong, TooShort, ArgOK, Status
  <2> QED BY <1>1, <1>3, <1>4, <2>1 DEF Threads
<1>8. ASSUME NEW c \in Consumers,
             RemoveResume(c) \/ \E b \in BOOLEAN : Remove(c, b)
      PROVE  Abstract!Take \/ Abstract!End(c) \/ UNCHANGED Abstract!vars
  <2>1. \/ ~Empty /\ Pop(c)
        \/ QueueUnchanged /\ Sleep(c)
        \/ QueueUnchanged /\ Return(c, "QUEUE_EMPTY") /\ ret[c] # "QUEUE_CLOSE"
        \/ QueueUnchanged /\ Closed /\ Empty /\ Return(c, "QUEUE_CLOSE")
    BY <1>8 DEF RemoveResume, Remove, FinishRemove, Ended, ExitOK
  <2> QED BY <1>2, <1>3, <1>4, <1>5, <2>1 DEF Threads
<1>9. ASSUME (\E t \in Threads : SpuriousWakeup(t)) \/ Done \/ UNCHANGED vars
      PROVE  UNCHANGED Abstract!vars
  BY <1>0, <1>9 DEF SpuriousWakeup, Done, vars, Told, Closed
<1> QED BY <1>6, <1>7, <1>8, <1>9 DEF Next, Abstract!Next

\* The condition variables implement the blocking queue with guards: for any
\* number of threads and any sizes, Add, Remove and SignalFinished are the
\* steps of a first-in first-out queue that ends only when closed and drained.
THEOREM QueueRefined ==
    ASSUME OwnSignal PROVE Spec => Abstract!SafetySpec
<1>1. Init => Abstract!Init
  BY FS_EmptySet DEF Init, Abstract!Init, Closed, Threads
<1>2. TypeInv /\ ExitOK /\ CloseInv /\ Accounting /\ [Next]_vars
        => [Abstract!Next]_(Abstract!vars)
  BY RefinementStep
<1> QED BY <1>1, <1>2, TypeAlways, CloseAlways, BytesAccounted, PTL
        DEF Spec, Abstract!SafetySpec
=============================================================================
