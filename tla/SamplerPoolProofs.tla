------------------------- MODULE SamplerPoolProofs --------------------------
(***************************************************************************)
(* Proofs about SamplerPool, for any loaders, number of workers, batches   *)
(* and epochs: no task of a loader is lost, doubled or handed to another,  *)
(* so that every epoch is complete, and only loops left early fail.        *)
(***************************************************************************)
EXTENDS SamplerPool, ListLemmas, FunctionTheorems

\* The tasks of loader l.
Call(l) == [cmd : {"call"}, loader : {l}, batch : Nat, epoch : Nat]
AnyCall == [cmd : {"call"}, loader : Loaders, batch : Nat, epoch : Nat]

LoaderFields ==
    [pc : {"new", "open", "loop", "stopped", "deleted"}, epoch : Nat, current_pos : Nat,
     num_pending : Nat, recv_idxs : Nat, out : Seq(AnyCall), left : BOOLEAN]
MainFields ==
    [pc : {"idle", "request", "get", "KeyError", "assert", "collect", "client_barrier",
           "join", "done"}, loader : Loaders]
WorkerFields ==
    [pc : {"poll", "barrier", "client_barrier", "exit", "KeyError"}, fns : SUBSET Loaders]

Types ==
    /\ loader \in [Loaders -> LoaderFields]
    /\ main \in MainFields
    /\ task_queues \in [Workers -> Seq(Commands)]
    /\ result_queue \in Seq(AnyCall)
    /\ results \in [Loaders -> Seq(AnyCall)]
    /\ current_proc_id \in Workers
    /\ worker \in [Workers -> WorkerFields]
    /\ broadcasts \in 0..MaxBroadcasts

\* Results are sorted by loader.
Sorted == \A l \in Loaders : loader[l].out \in Seq(Call(l)) /\ results[l] \in Seq(Call(l))

\* How far the epoch of loader l is: the batches requested are those that came
\* out and those pending, in this order of their positions.
Asked(l) == loader[l].num_pending + loader[l].recv_idxs
Position(l, k) == IF k * batch_size > dataset[l] THEN dataset[l] ELSE k * batch_size
Progress(l) ==
    /\ loader[l].epoch <= MaxEpochs[l]
    /\ loader[l].num_pending <= queue_size[l]
    /\ Asked(l) <= expected_idxs(l)
    /\ loader[l].current_pos = Position(l, Asked(l))
    /\ Len(loader[l].out) = loader[l].recv_idxs
    /\ loader[l].pc = "stopped" => AllReceived(l)
    /\ loader[l].pc \in {"loop", "deleted"} \/ loader[l].num_pending = 0
    /\ loader[l].pc = "deleted" /\ ~loader[l].left => loader[l].num_pending = 0

\* Where the trainer is.
InCall ==
    /\ main.pc \in {"request", "get"} => loader[main.loader].pc = "loop"
    /\ main.pc = "get" => loader[main.loader].num_pending # 0
    /\ main.pc # "assert"
    /\ main.pc = "KeyError" => \E l \in Loaders : loader[l].pc = "deleted" /\ loader[l].left

\* Where tasks and results are kept.
Slots == {<<"task", w>> : w \in Workers} \cup {<<"result", 0>>, <<"fetched", 0>>, <<"out", 0>>}
Places(tq, rq, rs, out) ==
    [x \in Slots |-> CASE x[1] = "task"    -> tq[x[2]]
                      [] x[1] = "result"  -> rq
                      [] x[1] = "fetched" -> rs
                      [] x[1] = "out"     -> out]

\* The batches of loader l in q.
Batches(q, l) == {q[i].batch : i \in Mine(q, l)}

\* They are all of epoch e, and none is there twice.
Once(q, l, e) ==
    /\ \A i \in Mine(q, l) : q[i].epoch = e
    /\ \A i, j \in Mine(q, l) : q[i].batch = q[j].batch => i = j

\* Every batch of the first k is in one place of C.
First(k) == {i * batch_size : i \in 0..(k - 1)}
WholeOf(C, l, e, k) ==
    /\ \A x \in Slots : Once(C[x], l, e)
    /\ \A x, y \in Slots : x # y => Batches(C[x], l) \cap Batches(C[y], l) = {}
    /\ UNION {Batches(C[x], l) : x \in Slots} = First(k)
Whole(l) ==
    WholeOf(Places(task_queues, result_queue, results[l], loader[l].out),
            l, loader[l].epoch, Asked(l))

\* Command t is about loader l.
Concerns(t, l) == t.loader = l /\ t.cmd \in {"set", "call", "delete"}

\* A worker learns the collate function of a loader first and forgets it last.
Is(t, l, cmd) == t.loader = l /\ t.cmd = cmd
Told(q, l) == \E i \in 1..Len(q) : Is(q[i], l, "set")
Commanded(pc, q, fns, l) ==
    /\ pc = "new" => l \notin fns /\ \A i \in 1..Len(q) : ~Concerns(q[i], l)
    /\ \A i, j \in 1..Len(q) : Is(q[i], l, "set") /\ Concerns(q[j], l) =>
         l \notin fns /\ i <= j
    /\ \A i, j \in 1..Len(q) : Is(q[i], l, "delete") /\ Concerns(q[j], l) =>
         pc = "deleted" /\ j <= i
    /\ pc \in {"open", "loop", "stopped"} => l \in fns \/ Told(q, l)
    /\ \A i \in 1..Len(q) : Is(q[i], l, "call") \/ Is(q[i], l, "delete") =>
         l \in fns \/ Told(q, l)

Knows(w) ==
    /\ worker[w].pc # "KeyError"
    /\ \A l \in Loaders : Commanded(loader[l].pc, task_queues[w], worker[w].fns, l)

IInv ==
    /\ Types /\ Sorted /\ InCall
    /\ \A l \in Loaders : Progress(l)
    /\ \A l \in Loaders : ~loader[l].left => Whole(l)
    /\ \A w \in Workers : Knows(w)

-----------------------------------------------------------------------------
(* Positions and numbers of batches *)

\* The constants.
LEMMA Sizes ==
    /\ batch_size \in Nat /\ batch_size > 0 /\ num_workers \in Nat /\ num_workers > 0
    /\ \A l \in Loaders : /\ dataset[l] \in Nat /\ queue_size[l] \in Nat /\ queue_size[l] > 0
                          /\ MaxEpochs[l] \in Nat
  BY PoolAssumption

\* Multiplication keeps the order.
LEMMA Multiples ==
    ASSUME NEW b \in Nat, b > 0, NEW i \in Nat, NEW j \in Nat
    PROVE  /\ i * b \in Nat /\ (i + 1) * b = i * b + b
           /\ i < j => i * b + b <= j * b
           /\ i * b = j * b => i = j
<1>1. i * b \in Nat /\ (i + 1) * b = i * b + b
  OBVIOUS
<1>2. ASSUME NEW m \in Nat, NEW n \in Nat, m < n PROVE m * b + b <= n * b
  <2>1. n - m - 1 \in Nat /\ n = m + 1 + (n - m - 1)
    BY <1>2
  <2>2. (n - m - 1) * b \in Nat
    BY <2>1
  <2>3. n * b = m * b + b + (n - m - 1) * b
    BY <2>1
  <2>4. m * b \in Nat /\ n * b \in Nat
    OBVIOUS
  <2> QED BY <2>2, <2>3, <2>4
<1>3. i * b = j * b => i = j
  <2>1. i * b \in Nat /\ j * b \in Nat
    OBVIOUS
  <2> QED BY <1>2, <2>1
<1> QED BY <1>1, <1>2, <1>3

\* A length in batches and a rest.
LEMMA Division ==
    ASSUME NEW d \in Nat, NEW b \in Nat, b > 0
    PROVE  /\ d \div b \in Nat /\ d % b \in Nat /\ d % b < b
           /\ d = (d \div b) * b + (d % b)
  OBVIOUS

\* expected_idxs is the number of batches that start within the dataset.
LEMMA Expected ==
    ASSUME NEW l \in Loaders
    PROVE  /\ expected_idxs(l) \in Nat
           /\ \A k \in Nat : k < expected_idxs(l) <=>
                /\ k * batch_size < dataset[l]
                /\ l \in DropLast => k * batch_size + batch_size <= dataset[l]
<1> DEFINE d == dataset[l]
           b == batch_size
           q == d \div b
           r == d % b
<1>1. d \in Nat /\ b \in Nat /\ b > 0
  BY Sizes
<1>2. q \in Nat /\ r \in Nat /\ r < b /\ d = q * b + r
  BY <1>1, Division
<1>3. /\ l \in DropLast => expected_idxs(l) = q
      /\ l \notin DropLast /\ r = 0 => expected_idxs(l) = q
      /\ l \notin DropLast /\ r # 0 => expected_idxs(l) = q + 1
  BY <1>2 DEF expected_idxs
<1> HIDE DEF d, b, q, r
<1>4. q * b \in Nat
  BY <1>1, <1>2, Multiples
<1>5. ASSUME NEW k \in Nat
      PROVE  k < expected_idxs(l) <=> (k * b < d /\ (l \in DropLast => k * b + b <= d))
  <2>1. /\ k * b \in Nat
        /\ k < q => k * b + b <= q * b
        /\ q < k => q * b + b <= k * b
    BY <1>1, <1>2, Multiples
  <2>2. CASE k < q
    BY <1>1, <1>2, <1>3, <1>4, <2>1, <2>2
  <2>3. CASE k = q
    BY <1>1, <1>2, <1>3, <1>4, <2>1, <2>3
  <2>4. CASE q < k
    BY <1>1, <1>2, <1>3, <1>4, <2>1, <2>4
  <2> QED BY <1>2, <2>2, <2>3, <2>4
<1>6. expected_idxs(l) \in Nat
  BY <1>2, <1>3
<1> QED BY <1>5, <1>6 DEF d, b

\* _next_data, when k batches have been cut.
LEMMA NextData ==
    ASSUME NEW l \in Loaders, NEW k \in Nat, k <= expected_idxs(l),
           loader[l].current_pos = Position(l, k)
    PROVE  /\ HasNextData(l) <=> k < expected_idxs(l)
           /\ HasNextData(l) =>
                /\ loader[l].current_pos = k * batch_size
                /\ (IF loader[l].current_pos + batch_size > dataset[l] THEN dataset[l]
                    ELSE loader[l].current_pos + batch_size) = Position(l, k + 1)
<1> DEFINE d == dataset[l]
           b == batch_size
           p == loader[l].current_pos
<1>1. d \in Nat /\ b \in Nat /\ b > 0
  BY Sizes
<1>2. /\ expected_idxs(l) \in Nat
      /\ k < expected_idxs(l) <=> (k * b < d /\ (l \in DropLast => k * b + b <= d))
  BY Expected
<1>3. k * b \in Nat /\ (k + 1) * b = k * b + b
  BY <1>1, Multiples
<1>4. p = IF k * b > d THEN d ELSE k * b
  BY DEF Position
<1>5. HasNextData(l) <=> p # d /\ (l \in DropLast => p + b <= d)
  BY DEF HasNextData
<1>6. Position(l, k + 1) = IF k * b + b > d THEN d ELSE k * b + b
  BY <1>3 DEF Position
<1> HIDE DEF d, b, p
<1>7. HasNextData(l) <=> k < expected_idxs(l)
  BY <1>1, <1>2, <1>3, <1>4, <1>5
<1>8. HasNextData(l) => p = k * b
  BY <1>1, <1>3, <1>4, <1>5
<1> QED BY <1>6, <1>7, <1>8 DEF d, b, p

\* The positions of the first k batches.
LEMMA FirstProperties ==
    ASSUME NEW k \in Nat
    PROVE  /\ IsFiniteSet(First(k)) /\ Cardinality(First(k)) = k
           /\ First(k + 1) = First(k) \cup {k * batch_size}
           /\ k * batch_size \notin First(k) /\ First(0) = {}
<1> DEFINE b == batch_size
           f == [i \in 0..(k - 1) |-> i * b]
<1>1. b \in Nat /\ b > 0
  BY Sizes
<1>2. \A i, j \in Nat : i * b = j * b => i = j
  BY <1>1, Multiples
<1>3. f \in Bijection(0..(k - 1), First(k))
  <2>1. f \in [0..(k - 1) -> First(k)]
    BY DEF First
  <2>2. \A i, j \in 0..(k - 1) : f[i] = f[j] => i = j
    BY <1>2
  <2>3. \A p \in First(k) : \E i \in 0..(k - 1) : f[i] = p
    BY DEF First
  <2> HIDE DEF f
  <2> QED BY <2>1, <2>2, <2>3 DEF Bijection, Injection, Surjection, IsInjective
<1>4. IsFiniteSet(0..(k - 1)) /\ Cardinality(0..(k - 1)) = k
  <2>1. IsFiniteSet(0..(k - 1)) /\ Cardinality(0..(k - 1)) = IF 0 > k - 1 THEN 0 ELSE (k - 1) - 0 + 1
    BY FS_Interval
  <2> QED BY <2>1
<1>5. ExistsBijection(0..(k - 1), First(k))
  BY <1>3 DEF ExistsBijection
<1>6. IsFiniteSet(First(k)) /\ Cardinality(First(k)) = k
  BY <1>4, <1>5, FS_Bijection
<1>7. First(k + 1) = First(k) \cup {k * b}
  <2>1. 0..((k + 1) - 1) = 0..(k - 1) \cup {k}
    OBVIOUS
  <2> QED BY <2>1 DEF First
<1>8. k * b \notin First(k)
  BY <1>2 DEF First
<1>9. First(0) = {}
  BY DEF First
<1> QED BY <1>6, <1>7, <1>8, <1>9

\* The batches of an epoch.
LEMMA EpochBatches ==
    ASSUME NEW l \in Loaders PROVE Starts(l) = First(expected_idxs(l))
<1> DEFINE d == dataset[l]
           b == batch_size
           n == expected_idxs(l)
<1>1. d \in Nat /\ b \in Nat /\ b > 0 /\ n \in Nat
  BY Sizes, Expected
<1>2. \A k \in Nat : k < n <=> (k * b < d /\ (l \in DropLast => k * b + b <= d))
  BY Expected
<1> HIDE DEF n
<1>3. ASSUME NEW p \in Starts(l) PROVE p \in First(n)
  <2>1. p \in Nat /\ p <= d /\ p % b = 0 /\ p # d /\ (l \in DropLast => p + b <= d)
    BY <1>1 DEF Starts
  <2>2. p \div b \in Nat /\ p = (p \div b) * b
    BY <1>1, <2>1, Division
  <2> DEFINE i == p \div b
  <2> HIDE DEF i
  <2>3. i \in Nat /\ p = i * b
    BY <2>2 DEF i
  <2>4. i < n
    BY <1>1, <1>2, <2>1, <2>3
  <2>5. i \in 0..(n - 1)
    BY <1>1, <2>3, <2>4
  <2> QED BY <2>3, <2>5 DEF First
<1>4. ASSUME NEW p \in First(n) PROVE p \in Starts(l)
  <2>1. PICK i \in 0..(n - 1) : p = i * b
    BY DEF First
  <2>2. i \in Nat /\ i < n
    BY <1>1
  <2>3. p \in Nat /\ p < d /\ (l \in DropLast => p + b <= d)
    BY <1>1, <1>2, <2>1, <2>2, Multiples
  <2>4. p % b = 0
    BY <1>1, <2>1, <2>2
  <2> QED BY <1>1, <2>3, <2>4 DEF Starts
<1> QED BY <1>3, <1>4 DEF n

-----------------------------------------------------------------------------
(* What the queues hold of a loader *)

\* From q to r nothing changes for loader l; its task t comes; its task t goes.
Kept(q, r, l) ==
    Batches(r, l) = Batches(q, l) /\ \A e : Once(q, l, e) => Once(r, l, e)
Gains(q, r, l, t) ==
    /\ Batches(r, l) = Batches(q, l) \cup {t.batch}
    /\ Once(q, l, t.epoch) /\ t.batch \notin Batches(q, l) => Once(r, l, t.epoch)
Loses(q, r, l, t) ==
    /\ t.batch \in Batches(q, l)
    /\ \A e : Once(q, l, e) =>
         t.epoch = e /\ Once(r, l, e) /\ Batches(r, l) = Batches(q, l) \ {t.batch}

LEMMA KeptSame == ASSUME NEW q, NEW l PROVE Kept(q, q, l)
  BY DEF Kept

\* put
LEMMA AppendMine ==
    ASSUME NEW S, NEW q \in Seq(S), NEW t \in S, NEW l
    PROVE  /\ t.cmd = "call" /\ t.loader = l => Gains(q, Append(q, t), l, t)
           /\ ~(t.cmd = "call" /\ t.loader = l) => Kept(q, Append(q, t), l)
<1> DEFINE r == Append(q, t)
           n == Len(q)
<1>1. /\ n \in Nat /\ DOMAIN q = 1..n /\ DOMAIN r = 1..(n + 1)
      /\ r[n + 1] = t /\ \A i \in 1..n : r[i] = q[i]
  BY LenProperties, AppendProperties
<1>2. 1..(n + 1) = 1..n \cup {n + 1} /\ n + 1 \notin 1..n
  BY <1>1
<1> HIDE DEF r, n
<1>3. CASE t.cmd = "call" /\ t.loader = l
  <2>1. Mine(r, l) = Mine(q, l) \cup {n + 1}
    BY <1>1, <1>2, <1>3 DEF Mine
  <2>2. \A i \in Mine(q, l) : r[i] = q[i]
    BY <1>1 DEF Mine
  <2>3. Batches(r, l) = Batches(q, l) \cup {t.batch}
    BY <1>1, <2>1, <2>2 DEF Batches
  <2>4. ASSUME Once(q, l, t.epoch), t.batch \notin Batches(q, l) PROVE Once(r, l, t.epoch)
    BY <1>1, <2>1, <2>2, <2>4 DEF Once, Batches
  <2> QED BY <1>3, <2>3, <2>4 DEF Gains, r
<1>4. CASE ~(t.cmd = "call" /\ t.loader = l)
  <2>1. Mine(r, l) = Mine(q, l)
    BY <1>1, <1>2, <1>4 DEF Mine
  <2>2. \A i \in Mine(q, l) : r[i] = q[i]
    BY <1>1 DEF Mine
  <2>3. Batches(r, l) = Batches(q, l)
    BY <2>1, <2>2 DEF Batches
  <2>4. ASSUME NEW e, Once(q, l, e) PROVE Once(r, l, e)
    BY <2>1, <2>2, <2>4 DEF Once
  <2> QED BY <1>4, <2>3, <2>4 DEF Kept, r
<1> QED BY <1>3, <1>4

\* get
LEMMA TailMine ==
    ASSUME NEW S, NEW q \in Seq(S), q # <<>>, NEW l
    PROVE  /\ Head(q).cmd = "call" /\ Head(q).loader = l => Loses(q, Tail(q), l, Head(q))
           /\ ~(Head(q).cmd = "call" /\ Head(q).loader = l) => Kept(q, Tail(q), l)
<1> DEFINE r == Tail(q)
           n == Len(q)
           t == Head(q)
<1>1. n \in Nat /\ n # 0 /\ DOMAIN q = 1..n /\ t = q[1]
  BY LenProperties, EmptySeq
<1>2. DOMAIN r = 1..(n - 1) /\ \A i \in 1..(n - 1) : r[i] = q[i + 1]
  BY HeadTailProperties, LenProperties, EmptySeq
<1> HIDE DEF r, n, t
<1>3. /\ \A i \in Mine(r, l) : i + 1 \in Mine(q, l) /\ r[i] = q[i + 1]
      /\ \A i \in Mine(q, l) : i # 1 => i - 1 \in Mine(r, l) /\ r[i - 1] = q[i]
      /\ \A i \in Mine(q, l) \cup Mine(r, l) : i \in Nat
  <2>1. ASSUME NEW i \in Mine(r, l) PROVE i + 1 \in Mine(q, l) /\ r[i] = q[i + 1] /\ i \in Nat
    BY <1>1, <1>2 DEF Mine
  <2>2. ASSUME NEW i \in Mine(q, l) PROVE i \in Nat /\ i \in 1..n
    BY <1>1 DEF Mine
  <2>3. ASSUME NEW i \in Mine(q, l), i # 1 PROVE i - 1 \in Mine(r, l) /\ r[i - 1] = q[i]
    <3>1. i - 1 \in 1..(n - 1) /\ (i - 1) + 1 = i
      BY <1>1, <2>2, <2>3
    <3>2. r[i - 1] = q[i]
      BY <1>2, <3>1
    <3> QED BY <1>2, <2>3, <3>1, <3>2 DEF Mine
  <2> QED BY <2>1, <2>2, <2>3
<1>4. \A e : Once(q, l, e) => Once(r, l, e)
  <2> SUFFICES ASSUME NEW e, Once(q, l, e) PROVE Once(r, l, e)
    OBVIOUS
  <2>1. \A i \in Mine(r, l) : r[i].epoch = e
    BY <1>3 DEF Once
  <2>2. ASSUME NEW i \in Mine(r, l), NEW j \in Mine(r, l), r[i].batch = r[j].batch PROVE i = j
    <3>1. i + 1 = j + 1
      BY <1>3, <2>2 DEF Once
    <3> QED BY <1>3, <3>1
  <2> QED BY <2>1, <2>2 DEF Once
<1>5. Batches(r, l) \subseteq Batches(q, l)
  BY <1>3 DEF Batches
<1>6. CASE t.cmd = "call" /\ t.loader = l
  <2>1. 1 \in Mine(q, l)
    BY <1>1, <1>6 DEF Mine
  <2>2. ASSUME NEW e, Once(q, l, e)
        PROVE  t.epoch = e /\ Batches(r, l) = Batches(q, l) \ {t.batch}
    <3>1. ASSUME NEW b \in Batches(q, l), b # t.batch PROVE b \in Batches(r, l)
      <4>1. PICK i \in Mine(q, l) : b = q[i].batch
        BY DEF Batches
      <4>2. i # 1
        BY <1>1, <3>1, <4>1
      <4> QED BY <1>3, <4>1, <4>2 DEF Batches
    <3>2. t.batch \notin Batches(r, l)
      <4> SUFFICES ASSUME NEW i \in Mine(r, l), r[i].batch = t.batch PROVE FALSE
        BY DEF Batches
      <4>1. i + 1 = 1
        BY <1>1, <1>3, <2>1, <2>2 DEF Once
      <4>2. i \in 1..(n - 1)
        BY <1>2 DEF Mine
      <4> QED BY <1>1, <4>1, <4>2
    <3> QED BY <1>1, <1>5, <2>1, <2>2, <3>1, <3>2 DEF Once
  <2>3. t.batch \in Batches(q, l)
    BY <1>1, <2>1 DEF Batches
  <2> QED BY <1>4, <1>6, <2>2, <2>3 DEF Loses, r, t
<1>7. CASE ~(t.cmd = "call" /\ t.loader = l)
  <2>1. 1 \notin Mine(q, l)
    BY <1>1, <1>7 DEF Mine
  <2>2. Batches(q, l) \subseteq Batches(r, l)
    BY <1>3, <2>1 DEF Batches
  <2> QED BY <1>4, <1>5, <1>7, <2>2 DEF Kept, r, t
<1> QED BY <1>6, <1>7 DEF t

\* No place changes for the loader.
LEMMA WholeStays ==
    ASSUME NEW C, NEW D, NEW l, NEW e, NEW k, WholeOf(C, l, e, k),
           \A x \in Slots : Kept(C[x], D[x], l)
    PROVE  WholeOf(D, l, e, k)
<1>1. \A x \in Slots : Once(D[x], l, e) /\ Batches(D[x], l) = Batches(C[x], l)
  BY DEF WholeOf, Kept
<1>2. UNION {Batches(D[x], l) : x \in Slots} = UNION {Batches(C[x], l) : x \in Slots}
  BY <1>1
<1> QED BY <1>1, <1>2 DEF WholeOf

\* A task or result of the loader goes from one place to another.
LEMMA WholeMoves ==
    ASSUME NEW C, NEW D, NEW l, NEW e, NEW k, WholeOf(C, l, e, k),
           NEW x \in Slots, NEW y \in Slots, x # y, NEW t,
           Loses(C[x], D[x], l, t), Gains(C[y], D[y], l, t),
           \A z \in Slots \ {x, y} : Kept(C[z], D[z], l)
    PROVE  WholeOf(D, l, e, k)
<1> DEFINE B(z) == Batches(C[z], l)
           A(z) == Batches(D[z], l)
<1>1. /\ \A z \in Slots : Once(C[z], l, e)
      /\ \A z, w \in Slots : z # w => B(z) \cap B(w) = {}
      /\ UNION {B(z) : z \in Slots} = First(k)
  BY DEF WholeOf
<1>2. t.batch \in B(x) /\ t.epoch = e /\ Once(D[x], l, e) /\ A(x) = B(x) \ {t.batch}
  BY <1>1 DEF Loses
<1>3. t.batch \notin B(y)
  BY <1>1, <1>2
<1>4. Once(D[y], l, e) /\ A(y) = B(y) \cup {t.batch}
  BY <1>1, <1>2, <1>3 DEF Gains
<1>5. \A z \in Slots \ {x, y} : Once(D[z], l, e) /\ A(z) = B(z)
  BY <1>1 DEF Kept
<1> HIDE DEF A, B
<1>6. \A z \in Slots : Once(D[z], l, e)
  BY <1>2, <1>4, <1>5
<1>7. \A z, w \in Slots : z # w => A(z) \cap A(w) = {}
  BY <1>1, <1>2, <1>4, <1>5
<1>8. UNION {A(z) : z \in Slots} = UNION {B(z) : z \in Slots}
  <2>1. \A b : (\E z \in Slots : b \in A(z)) <=> \E z \in Slots : b \in B(z)
    BY <1>2, <1>4, <1>5
  <2> QED BY <2>1
<1> QED BY <1>1, <1>6, <1>7, <1>8 DEF WholeOf, A, B

\* The next batch is requested.
LEMMA WholeGrows ==
    ASSUME NEW C, NEW D, NEW l, NEW k \in Nat, NEW t, WholeOf(C, l, t.epoch, k),
           NEW x \in Slots, t.batch = k * batch_size,
           Gains(C[x], D[x], l, t), \A z \in Slots \ {x} : Kept(C[z], D[z], l)
    PROVE  WholeOf(D, l, t.epoch, k + 1)
<1> DEFINE e == t.epoch
           B(z) == Batches(C[z], l)
           A(z) == Batches(D[z], l)
<1>1. /\ \A z \in Slots : Once(C[z], l, e)
      /\ \A z, w \in Slots : z # w => B(z) \cap B(w) = {}
      /\ UNION {B(z) : z \in Slots} = First(k)
  BY DEF WholeOf
<1>2. t.batch \notin First(k) /\ First(k + 1) = First(k) \cup {t.batch}
  BY FirstProperties
<1>3. \A z \in Slots : t.batch \notin B(z)
  BY <1>1, <1>2
<1>4. Once(D[x], l, e) /\ A(x) = B(x) \cup {t.batch}
  BY <1>1, <1>3 DEF Gains
<1>5. \A z \in Slots \ {x} : Once(D[z], l, e) /\ A(z) = B(z)
  BY <1>1 DEF Kept
<1> HIDE DEF A, B, e
<1>6. \A z \in Slots : Once(D[z], l, e)
  BY <1>4, <1>5
<1>7. \A z, w \in Slots : z # w => A(z) \cap A(w) = {}
  BY <1>1, <1>3, <1>4, <1>5
<1>8. UNION {A(z) : z \in Slots} = (UNION {B(z) : z \in Slots}) \cup {t.batch}
  <2>1. \A b : (\E z \in Slots : b \in A(z)) <=> b = t.batch \/ \E z \in Slots : b \in B(z)
    BY <1>4, <1>5
  <2> QED BY <2>1
<1> QED BY <1>1, <1>2, <1>6, <1>7, <1>8 DEF WholeOf, A, B, e

-----------------------------------------------------------------------------
(* The commands of a worker *)

\* A command at the end of the queue.
LEMMA AppendCommand ==
    ASSUME NEW q \in Seq(Commands), NEW t \in Commands, NEW fns, NEW l, NEW pc, NEW new,
           Commanded(pc, q, fns, l),
           \/ ~Concerns(t, l) /\ new = pc
           \/ Is(t, l, "set") /\ pc = "new" /\ new = "open"
           \/ Is(t, l, "call") /\ pc = "loop" /\ new = "loop"
           \/ Is(t, l, "delete") /\ pc \in {"open", "loop", "stopped"} /\ new = "deleted"
    PROVE  Commanded(new, Append(q, t), fns, l)
<1> DEFINE r == Append(q, t)
           n == Len(q)
<1>1. n \in Nat /\ Len(r) = n + 1 /\ r[n + 1] = t /\ \A i \in 1..n : r[i] = q[i]
  BY LenProperties, AppendProperties
<1>2. 1..Len(r) = 1..n \cup {n + 1} /\ \A i \in 1..n : i <= n + 1 /\ i # n + 1
  BY <1>1
<1> HIDE DEF r, n
<1>3. Told(q, l) => Told(r, l)
  BY <1>1, <1>2 DEF Told, n
<1>4. CASE ~Concerns(t, l) /\ new = pc
  <2>1. ~Is(t, l, "set") /\ ~Is(t, l, "call") /\ ~Is(t, l, "delete")
    BY <1>4 DEF Concerns, Is
  <2> QED BY <1>1, <1>2, <1>3, <1>4, <2>1 DEF Commanded, r, n
<1>5. CASE Is(t, l, "set") /\ pc = "new" /\ new = "open"
  <2>1. /\ l \notin fns /\ ~Is(t, l, "call") /\ ~Is(t, l, "delete")
        /\ \A i \in 1..n : ~Concerns(q[i], l)
    BY <1>5 DEF Commanded, Is, n
  <2>2. \A i \in 1..n : ~Is(q[i], l, "set") /\ ~Is(q[i], l, "call") /\ ~Is(q[i], l, "delete")
    BY <2>1 DEF Concerns, Is
  <2>3. Told(r, l)
    BY <1>1, <1>2, <1>5 DEF Told
  <2>4. n + 1 <= n + 1
    BY <1>1
  <2> QED BY <1>1, <1>2, <1>5, <2>1, <2>2, <2>3, <2>4 DEF Commanded, r
<1>6. CASE Is(t, l, "call") /\ pc = "loop" /\ new = "loop"
  <2>1. ~Is(t, l, "set") /\ ~Is(t, l, "delete")
    BY <1>6 DEF Is
  <2>2. l \in fns \/ Told(r, l)
    BY <1>3, <1>6 DEF Commanded
  <2>3. \A i \in 1..n : ~Is(q[i], l, "delete")
    BY <1>6 DEF Commanded, Concerns, Is, n
  <2>4. \A i \in 1..n : Is(q[i], l, "set") => l \notin fns
    BY DEF Commanded, Concerns, Is, n
  <2> QED BY <1>1, <1>2, <1>6, <2>1, <2>2, <2>3, <2>4 DEF Commanded, r, n
<1>7. CASE Is(t, l, "delete") /\ pc \in {"open", "loop", "stopped"} /\ new = "deleted"
  <2>1. ~Is(t, l, "set") /\ ~Is(t, l, "call")
    BY <1>7 DEF Is
  <2>2. l \in fns \/ Told(r, l)
    BY <1>3, <1>7 DEF Commanded
  <2>3. \A i \in 1..n : ~Is(q[i], l, "delete")
    BY <1>7 DEF Commanded, Concerns, Is, n
  <2>4. \A i \in 1..n : Is(q[i], l, "set") => l \notin fns
    BY DEF Commanded, Concerns, Is, n
  <2>5. n + 1 <= n + 1
    BY <1>1
  <2> QED BY <1>1, <1>2, <1>7, <2>1, <2>2, <2>3, <2>4, <2>5 DEF Commanded, r, n
<1> QED BY <1>4, <1>5, <1>6, <1>7

\* A loader that knows its function goes on.
LEMMA GoesOn ==
    ASSUME NEW q, NEW fns, NEW l, NEW pc \in {"open", "loop", "stopped"},
           NEW new \in {"open", "loop", "stopped"}, Commanded(pc, q, fns, l)
    PROVE  Commanded(new, q, fns, l)
<1>1. \A i \in 1..Len(q) : ~Is(q[i], l, "delete")
  BY DEF Commanded, Concerns, Is
<1> QED BY <1>1 DEF Commanded

\* The worker takes a command: it knows the function that it needs.
LEMMA TakeCommand ==
    ASSUME NEW q \in Seq(Commands), q # <<>>, NEW fns, NEW now, NEW l, NEW pc,
           Commanded(pc, q, fns, l),
           \/ ~Concerns(Head(q), l) /\ (l \in now <=> l \in fns)
           \/ Is(Head(q), l, "set") /\ l \in now
           \/ Is(Head(q), l, "call") /\ (l \in now <=> l \in fns)
           \/ Is(Head(q), l, "delete") /\ l \notin now
    PROVE  /\ Commanded(pc, Tail(q), now, l)
           /\ Is(Head(q), l, "call") \/ Is(Head(q), l, "delete") => l \in fns
<1> DEFINE r == Tail(q)
           n == Len(q)
           t == Head(q)
<1>1. n \in Nat /\ n # 0 /\ t = q[1] /\ 1 \in 1..n
  BY LenProperties, EmptySeq
<1>2. Len(r) = n - 1 /\ \A i \in 1..(n - 1) : r[i] = q[i + 1]
  BY HeadTailProperties, LenProperties, EmptySeq
<1> HIDE DEF r, n, t
<1>3. \A i \in 1..Len(r) : i + 1 \in 1..n /\ i + 1 # 1 /\ r[i] = q[i + 1]
  BY <1>1, <1>2
<1>4. \A i \in 1..n : i # 1 => i - 1 \in 1..Len(r) /\ r[i - 1] = q[i]
  <2> SUFFICES ASSUME NEW i \in 1..n, i # 1 PROVE i - 1 \in 1..Len(r) /\ r[i - 1] = q[i]
    OBVIOUS
  <2>1. i - 1 \in 1..(n - 1) /\ (i - 1) + 1 = i
    BY <1>1
  <2> QED BY <1>2, <2>1
<1>5. \A i, j \in 1..Len(r) : (i <= j <=> i + 1 <= j + 1) /\ ~(i + 1 <= 1)
  BY <1>1, <1>2
<1>6. Told(q, l) /\ ~Is(t, l, "set") => Told(r, l)
  BY <1>1, <1>4 DEF Told, n
<1>7. Is(t, l, "call") \/ Is(t, l, "delete") => l \in fns
  <2> SUFFICES ASSUME Is(t, l, "call") \/ Is(t, l, "delete"), Told(q, l) PROVE l \in fns
    BY <1>1 DEF Commanded, n
  <2>1. Concerns(q[1], l) /\ ~Is(q[1], l, "set")
    BY <1>1 DEF Concerns, Is
  <2>2. PICK i \in 1..n : Is(q[i], l, "set")
    BY DEF Told, n
  <2>3. i <= 1
    BY <1>1, <2>1, <2>2 DEF Commanded, n
  <2>4. i = 1
    BY <1>1, <2>3
  <2> QED BY <2>1, <2>2, <2>4
<1>8. CASE (~Concerns(t, l) \/ Is(t, l, "call")) /\ (l \in now <=> l \in fns)
  <2>1. ~Is(t, l, "set") /\ ~Is(t, l, "delete")
    BY <1>8 DEF Concerns, Is
  <2> QED BY <1>3, <1>5, <1>6, <1>7, <1>8, <2>1 DEF Commanded, r, t, n
<1>9. CASE Is(t, l, "set") /\ l \in now
  <2>1. Concerns(t, l)
    BY <1>9 DEF Concerns, Is
  <2>2. \A i \in 1..Len(r) : ~Is(r[i], l, "set")
    BY <1>1, <1>3, <1>5, <1>9, <2>1 DEF Commanded, n
  <2>3. pc # "new"
    BY <1>1, <2>1 DEF Commanded, n
  <2> QED BY <1>3, <1>5, <1>7, <1>9, <2>2, <2>3 DEF Commanded, r, t, n
<1>10. CASE Is(t, l, "delete") /\ l \notin now
  <2>1. Concerns(t, l)
    BY <1>10 DEF Concerns, Is
  <2>2. pc = "deleted" /\ \A i \in 1..Len(r) : ~Concerns(r[i], l)
    BY <1>1, <1>3, <1>5, <1>10, <2>1 DEF Commanded, n
  <2>3. \A i \in 1..Len(r) : ~Is(r[i], l, "set") /\ ~Is(r[i], l, "call") /\ ~Is(r[i], l, "delete")
    BY <2>2 DEF Concerns, Is
  <2> QED BY <1>7, <2>2, <2>3 DEF Commanded, r, t
<1> QED BY <1>8, <1>9, <1>10 DEF t

-----------------------------------------------------------------------------
(* What is under way *)

\* The slots, one by one.
LEMMA PlacesOf ==
    ASSUME NEW tq, NEW rq, NEW rs, NEW out
    PROVE  LET P == Places(tq, rq, rs, out)
           IN  /\ \A w \in Workers : <<"task", w>> \in Slots /\ P[<<"task", w>>] = tq[w]
               /\ <<"result", 0>> \in Slots /\ P[<<"result", 0>>] = rq
               /\ <<"fetched", 0>> \in Slots /\ P[<<"fetched", 0>>] = rs
               /\ <<"out", 0>> \in Slots /\ P[<<"out", 0>>] = out
               /\ \A x \in Slots : \/ \E w \in Workers : x = <<"task", w>>
                                   \/ x = <<"result", 0>> \/ x = <<"fetched", 0>> \/ x = <<"out", 0>>
  BY DEF Places, Slots

LEMMA SlotsDiffer ==
    /\ <<"result", 0>> # <<"fetched", 0>> /\ <<"result", 0>> # <<"out", 0>>
    /\ <<"fetched", 0>> # <<"out", 0>>
    /\ \A w \in Workers : <<"task", w>> # <<"result", 0>> /\ <<"task", w>> # <<"fetched", 0>>
                          /\ <<"task", w>> # <<"out", 0>>
    /\ \A v, w \in Workers : <<"task", v>> = <<"task", w>> => v = w
  OBVIOUS

\* Nothing of the loader is put or taken anywhere.
LEMMA PlacesStay ==
    ASSUME NEW l, NEW e, NEW k, NEW tq, NEW rq, NEW rs, NEW out,
           NEW tq2, NEW rq2, NEW rs2, NEW out2,
           WholeOf(Places(tq, rq, rs, out), l, e, k),
           \A w \in Workers : Kept(tq[w], tq2[w], l),
           Kept(rq, rq2, l), Kept(rs, rs2, l), Kept(out, out2, l)
    PROVE  WholeOf(Places(tq2, rq2, rs2, out2), l, e, k)
<1> DEFINE C == Places(tq, rq, rs, out)
           D == Places(tq2, rq2, rs2, out2)
<1>1. \A x \in Slots : Kept(C[x], D[x], l)
  <2> SUFFICES ASSUME NEW x \in Slots PROVE Kept(C[x], D[x], l)
    OBVIOUS
  <2>1. CASE \E w \in Workers : x = <<"task", w>>
    BY <2>1, PlacesOf
  <2>2. CASE x = <<"result", 0>> \/ x = <<"fetched", 0>> \/ x = <<"out", 0>>
    BY <2>2, PlacesOf
  <2> QED BY <2>1, <2>2, PlacesOf
<1> QED BY <1>1, WholeStays

\* A worker makes a task of the loader its result; it is fetched; it is returned.
LEMMA TaskDone ==
    ASSUME NEW l, NEW e, NEW k, NEW tq, NEW rq, NEW rs, NEW out, NEW tq2, NEW rq2,
           WholeOf(Places(tq, rq, rs, out), l, e, k), NEW w \in Workers, NEW t,
           Loses(tq[w], tq2[w], l, t), \A v \in Workers \ {w} : tq2[v] = tq[v],
           Gains(rq, rq2, l, t)
    PROVE  WholeOf(Places(tq2, rq2, rs, out), l, e, k)
<1> DEFINE C == Places(tq, rq, rs, out)
           D == Places(tq2, rq2, rs, out)
           x == <<"task", w>>
           y == <<"result", 0>>
<1>1. x \in Slots /\ y \in Slots /\ x # y
  BY PlacesOf, SlotsDiffer
<1>2. Loses(C[x], D[x], l, t) /\ Gains(C[y], D[y], l, t)
  BY PlacesOf
<1>3. \A z \in Slots \ {x, y} : Kept(C[z], D[z], l)
  <2> SUFFICES ASSUME NEW z \in Slots, z # x, z # y PROVE C[z] = D[z]
    BY KeptSame
  <2>1. CASE \E v \in Workers : z = <<"task", v>>
    BY <2>1, PlacesOf
  <2>2. CASE z = <<"fetched", 0>> \/ z = <<"out", 0>>
    BY <2>2, PlacesOf
  <2> QED BY <2>1, <2>2, PlacesOf
<1> HIDE DEF C, D, x, y
<1>4. WholeOf(C, l, e, k)
  BY DEF C
<1>5. WholeOf(D, l, e, k)
  BY <1>1, <1>2, <1>3, <1>4, WholeMoves
<1> QED BY <1>5 DEF D

LEMMA ResultFetched ==
    ASSUME NEW l, NEW e, NEW k, NEW tq, NEW rq, NEW rs, NEW out, NEW rq2, NEW rs2,
           WholeOf(Places(tq, rq, rs, out), l, e, k), NEW t,
           Loses(rq, rq2, l, t), Gains(rs, rs2, l, t)
    PROVE  WholeOf(Places(tq, rq2, rs2, out), l, e, k)
<1> DEFINE C == Places(tq, rq, rs, out)
           D == Places(tq, rq2, rs2, out)
           x == <<"result", 0>>
           y == <<"fetched", 0>>
<1>1. x \in Slots /\ y \in Slots /\ x # y
  BY PlacesOf, SlotsDiffer
<1>2. Loses(C[x], D[x], l, t) /\ Gains(C[y], D[y], l, t)
  BY PlacesOf
<1>3. \A z \in Slots \ {x, y} : Kept(C[z], D[z], l)
  <2> SUFFICES ASSUME NEW z \in Slots, z # x, z # y PROVE C[z] = D[z]
    BY KeptSame
  <2>1. CASE \E v \in Workers : z = <<"task", v>>
    BY <2>1, PlacesOf
  <2>2. CASE z = <<"out", 0>>
    BY <2>2, PlacesOf
  <2> QED BY <2>1, <2>2, PlacesOf
<1> HIDE DEF C, D, x, y
<1>4. WholeOf(C, l, e, k)
  BY DEF C
<1>5. WholeOf(D, l, e, k)
  BY <1>1, <1>2, <1>3, <1>4, WholeMoves
<1> QED BY <1>5 DEF D

LEMMA ResultReturned ==
    ASSUME NEW l, NEW e, NEW k, NEW tq, NEW rq, NEW rs, NEW out, NEW rs2, NEW out2,
           WholeOf(Places(tq, rq, rs, out), l, e, k), NEW t,
           Loses(rs, rs2, l, t), Gains(out, out2, l, t)
    PROVE  WholeOf(Places(tq, rq, rs2, out2), l, e, k)
<1> DEFINE C == Places(tq, rq, rs, out)
           D == Places(tq, rq, rs2, out2)
           x == <<"fetched", 0>>
           y == <<"out", 0>>
<1>1. x \in Slots /\ y \in Slots /\ x # y
  BY PlacesOf, SlotsDiffer
<1>2. Loses(C[x], D[x], l, t) /\ Gains(C[y], D[y], l, t)
  BY PlacesOf
<1>3. \A z \in Slots \ {x, y} : Kept(C[z], D[z], l)
  <2> SUFFICES ASSUME NEW z \in Slots, z # x, z # y PROVE C[z] = D[z]
    BY KeptSame
  <2>1. CASE \E v \in Workers : z = <<"task", v>>
    BY <2>1, PlacesOf
  <2>2. CASE z = <<"result", 0>>
    BY <2>2, PlacesOf
  <2> QED BY <2>1, <2>2, PlacesOf
<1> HIDE DEF C, D, x, y
<1>4. WholeOf(C, l, e, k)
  BY DEF C
<1>5. WholeOf(D, l, e, k)
  BY <1>1, <1>2, <1>3, <1>4, WholeMoves
<1> QED BY <1>5 DEF D

\* The next task of the loader is put into a queue.
LEMMA TaskAsked ==
    ASSUME NEW l, NEW k \in Nat, NEW tq, NEW rq, NEW rs, NEW out, NEW tq2, NEW t,
           WholeOf(Places(tq, rq, rs, out), l, t.epoch, k), NEW w \in Workers,
           t.batch = k * batch_size,
           Gains(tq[w], tq2[w], l, t), \A v \in Workers \ {w} : tq2[v] = tq[v]
    PROVE  WholeOf(Places(tq2, rq, rs, out), l, t.epoch, k + 1)
<1> DEFINE C == Places(tq, rq, rs, out)
           D == Places(tq2, rq, rs, out)
           x == <<"task", w>>
<1>1. x \in Slots /\ Gains(C[x], D[x], l, t)
  BY PlacesOf
<1>3. \A z \in Slots \ {x} : Kept(C[z], D[z], l)
  <2> SUFFICES ASSUME NEW z \in Slots, z # x PROVE C[z] = D[z]
    BY KeptSame
  <2>1. CASE \E v \in Workers : z = <<"task", v>>
    BY <2>1, PlacesOf
  <2>2. CASE z = <<"result", 0>> \/ z = <<"fetched", 0>> \/ z = <<"out", 0>>
    BY <2>2, PlacesOf
  <2> QED BY <2>1, <2>2, PlacesOf
<1> HIDE DEF C, D, x
<1>4. WholeOf(C, l, t.epoch, k)
  BY DEF C
<1>5. WholeOf(D, l, t.epoch, k + 1)
  BY <1>1, <1>3, <1>4, WholeGrows
<1> QED BY <1>5 DEF D

\* The batches that came out.
LEMMA OutBatches ==
    ASSUME NEW l, NEW out \in Seq(Call(l)), NEW e, Once(out, l, e)
    PROVE  /\ Mine(out, l) = DOMAIN out
           /\ IsFiniteSet(Batches(out, l)) /\ Cardinality(Batches(out, l)) = Len(out)
<1> DEFINE n == Len(out)
           f == [i \in 1..n |-> out[i].batch]
<1>1. n \in Nat /\ DOMAIN out = 1..n /\ \A i \in 1..n : out[i] \in Call(l)
  BY LenProperties, ElementOfSeq
<1>2. Mine(out, l) = 1..n
  BY <1>1 DEF Mine, Call
<1>3. f \in Bijection(1..n, Batches(out, l))
  <2>1. f \in [1..n -> Batches(out, l)]
    BY <1>2 DEF Batches
  <2>2. \A i, j \in 1..n : f[i] = f[j] => i = j
    BY <1>2 DEF Once
  <2>3. \A p \in Batches(out, l) : \E i \in 1..n : f[i] = p
    BY <1>2 DEF Batches
  <2> HIDE DEF f
  <2> QED BY <2>1, <2>2, <2>3 DEF Bijection, Injection, Surjection, IsInjective
<1>4. IsFiniteSet(1..n) /\ Cardinality(1..n) = n
  <2>1. IsFiniteSet(1..n) /\ Cardinality(1..n) = IF 1 > n THEN 0 ELSE n - 1 + 1
    BY <1>1, FS_Interval
  <2> QED BY <1>1, <2>1
<1>5. ExistsBijection(1..n, Batches(out, l))
  BY <1>3 DEF ExistsBijection
<1>6. IsFiniteSet(Batches(out, l)) /\ Cardinality(Batches(out, l)) = n
  BY <1>4, <1>5, FS_Bijection
<1> QED BY <1>1, <1>2, <1>6

\* A loader of which every requested batch is somewhere has num_pending of them
\* under way.
LEMMA PendingPlaces ==
    ASSUME Types, Sorted, NEW l \in Loaders, Progress(l), Whole(l)
    PROVE  IsFiniteSet(UnderWay(l)) /\ Cardinality(UnderWay(l)) = loader[l].num_pending
<1> DEFINE out == loader[l].out
           C == Places(task_queues, result_queue, results[l], out)
           e == loader[l].epoch
           k == Asked(l)
           o == <<"out", 0>>
           Slot(u) == <<u[1], u[2]>>
           U == UnderWay(l)
           T == First(k) \ Batches(out, l)
           f == [u \in U |-> C[Slot(u)][u[3]].batch]
<1>1. /\ \A x \in Slots : Once(C[x], l, e)
      /\ \A x, y \in Slots : x # y => Batches(C[x], l) \cap Batches(C[y], l) = {}
      /\ UNION {Batches(C[x], l) : x \in Slots} = First(k)
  BY DEF Whole, WholeOf
<1>2. o \in Slots /\ C[o] = out
  BY PlacesOf
<1>3. Mine(results[l], l) = DOMAIN results[l]
  <2>1. results[l] \in Seq(Call(l))
    BY DEF Sorted
  <2>2. C[<<"fetched", 0>>] = results[l] /\ <<"fetched", 0>> \in Slots
    BY PlacesOf
  <2>3. Once(results[l], l, e)
    BY <1>1, <2>2
  <2> QED BY <2>1, <2>3, OutBatches
<1>4. ASSUME NEW u \in U
      PROVE  /\ u = <<u[1], u[2], u[3]>> /\ Slot(u) \in Slots /\ Slot(u) # o
             /\ u[3] \in Mine(C[Slot(u)], l)
  <2>1. CASE \E w \in Workers : \E i \in Mine(task_queues[w], l) : u = <<"task", w, i>>
    <3>1. PICK w \in Workers : \E i \in Mine(task_queues[w], l) : u = <<"task", w, i>>
      BY <2>1
    <3>2. PICK i \in Mine(task_queues[w], l) : u = <<"task", w, i>>
      BY <3>1
    <3>3. Slot(u) = <<"task", w>> /\ u[3] = i /\ u = <<u[1], u[2], u[3]>>
      BY <3>2
    <3> HIDE DEF C
    <3>4. <<"task", w>> \in Slots /\ C[<<"task", w>>] = task_queues[w] /\ <<"task", w>> # o
      BY PlacesOf, SlotsDiffer DEF C
    <3> QED BY <3>3, <3>4
  <2>2. CASE \E i \in Mine(result_queue, l) : u = <<"result", 0, i>>
    <3>1. PICK i \in Mine(result_queue, l) : u = <<"result", 0, i>>
      BY <2>2
    <3>3. Slot(u) = <<"result", 0>> /\ u[3] = i /\ u = <<u[1], u[2], u[3]>>
      BY <3>1
    <3> HIDE DEF C
    <3>4. <<"result", 0>> \in Slots /\ C[<<"result", 0>>] = result_queue /\ <<"result", 0>> # o
      BY PlacesOf, SlotsDiffer DEF C
    <3> QED BY <3>3, <3>4
  <2>3. CASE \E i \in DOMAIN results[l] : u = <<"fetched", 0, i>>
    <3>1. PICK i \in DOMAIN results[l] : u = <<"fetched", 0, i>>
      BY <2>3
    <3>3. Slot(u) = <<"fetched", 0>> /\ u[3] = i /\ u = <<u[1], u[2], u[3]>>
      BY <3>1
    <3> HIDE DEF C
    <3>4. <<"fetched", 0>> \in Slots /\ C[<<"fetched", 0>>] = results[l] /\ <<"fetched", 0>> # o
      BY PlacesOf, SlotsDiffer DEF C
    <3> QED BY <1>3, <3>3, <3>4
  <2> QED BY <2>1, <2>2, <2>3 DEF UnderWay
<1>5. ASSUME NEW x \in Slots, x # o, NEW i \in Mine(C[x], l)
      PROVE  \E u \in U : Slot(u) = x /\ u[3] = i
  <2>1. CASE \E w \in Workers : x = <<"task", w>>
    <3>1. PICK w \in Workers : x = <<"task", w>>
      BY <2>1
    <3>2. i \in Mine(task_queues[w], l)
      BY <1>5, <3>1, PlacesOf
    <3>3. <<"task", w, i>> \in U
      BY <3>2 DEF UnderWay
    <3> QED BY <3>1, <3>3
  <2>2. CASE x = <<"result", 0>>
    <3>2. i \in Mine(result_queue, l)
      BY <1>5, <2>2, PlacesOf
    <3>3. <<"result", 0, i>> \in U
      BY <3>2 DEF UnderWay
    <3> QED BY <2>2, <3>3
  <2>3. CASE x = <<"fetched", 0>>
    <3>2. i \in DOMAIN results[l]
      BY <1>3, <1>5, <2>3, PlacesOf
    <3>3. <<"fetched", 0, i>> \in U
      BY <3>2 DEF UnderWay
    <3> QED BY <2>3, <3>3
  <2> QED BY <1>5, <2>1, <2>2, <2>3, PlacesOf
<1> HIDE DEF C, o, U
<1>6. \A u \in U : f[u] \in Batches(C[Slot(u)], l) /\ f[u] = C[Slot(u)][u[3]].batch
  BY <1>4 DEF Batches
<1>7. f \in [U -> T]
  <2> SUFFICES ASSUME NEW u \in U PROVE f[u] \in T
    OBVIOUS
  <2>1. f[u] \in First(k)
    BY <1>1, <1>4, <1>6
  <2>2. f[u] \notin Batches(out, l)
    BY <1>1, <1>2, <1>4, <1>6
  <2> QED BY <2>1, <2>2
<1>8. ASSUME NEW u \in U, NEW v \in U, f[u] = f[v] PROVE u = v
  <2>1. Slot(u) = Slot(v)
    BY <1>1, <1>4, <1>6, <1>8
  <2>2. u[3] = v[3]
    BY <1>1, <1>4, <1>6, <1>8, <2>1 DEF Once
  <2>3. u[1] = v[1] /\ u[2] = v[2]
    BY <2>1
  <2> QED BY <1>4, <2>2, <2>3
<1>9. ASSUME NEW b \in T PROVE \E u \in U : f[u] = b
  <2>1. PICK x \in Slots : b \in Batches(C[x], l)
    BY <1>1
  <2>2. x # o
    BY <1>2, <2>1
  <2>3. PICK i \in Mine(C[x], l) : b = C[x][i].batch
    BY <2>1 DEF Batches
  <2> QED BY <1>5, <2>2, <2>3
<1> HIDE DEF f, T
<1>10. ExistsBijection(U, T)
  <2>1. f \in Bijection(U, T)
    BY <1>7, <1>8, <1>9 DEF Bijection, Injection, Surjection, IsInjective
  <2> QED BY <2>1 DEF ExistsBijection
<1>11. IsFiniteSet(T) /\ Cardinality(T) = loader[l].num_pending
  <2>1. /\ loader[l].num_pending \in Nat /\ loader[l].recv_idxs \in Nat /\ k \in Nat
        /\ k - loader[l].recv_idxs = loader[l].num_pending
    BY DEF Types, LoaderFields, Asked
  <2>2. IsFiniteSet(First(k)) /\ Cardinality(First(k)) = k
    BY <2>1, FirstProperties
  <2>3. out \in Seq(Call(l)) /\ Len(out) = loader[l].recv_idxs
    BY DEF Sorted, Progress
  <2>4. IsFiniteSet(Batches(out, l)) /\ Cardinality(Batches(out, l)) = loader[l].recv_idxs
    BY <1>1, <1>2, <2>3, OutBatches
  <2>5. Batches(out, l) \subseteq First(k)
    BY <1>1, <1>2
  <2>6. First(k) \cap Batches(out, l) = Batches(out, l)
    BY <2>5
  <2>7. /\ IsFiniteSet(First(k) \ Batches(out, l))
        /\ Cardinality(First(k) \ Batches(out, l)) = Cardinality(First(k)) - Cardinality(First(k) \cap Batches(out, l))
    BY <2>2, <2>4, FS_Difference
  <2> QED BY <2>1, <2>2, <2>4, <2>6, <2>7 DEF T
<1>12. ExistsBijection(T, U)
  BY <1>10, Fun_ExistsBijSymmetric
<1>13. IsFiniteSet(U) /\ Cardinality(U) = Cardinality(T)
  BY <1>11, <1>12, FS_Bijection
<1> QED BY <1>11, <1>13 DEF U

\* Nothing pending: nothing of the loader is in a queue.
LEMMA NothingUnderWay ==
    ASSUME Types, Sorted, NEW l \in Loaders, Progress(l), Whole(l), loader[l].num_pending = 0
    PROVE  /\ \A w \in Workers : Mine(task_queues[w], l) = {}
           /\ Mine(result_queue, l) = {} /\ Mine(results[l], l) = {} /\ Len(results[l]) = 0
<1>1. UnderWay(l) = {}
  BY PendingPlaces, FS_EmptySet
<1>2. ASSUME NEW w \in Workers PROVE Mine(task_queues[w], l) = {}
  <2>1. \A i \in Mine(task_queues[w], l) : <<"task", w, i>> \in UnderWay(l)
    BY DEF UnderWay
  <2> QED BY <1>1, <2>1
<1>3. Mine(result_queue, l) = {}
  <2>1. \A i \in Mine(result_queue, l) : <<"result", 0, i>> \in UnderWay(l)
    BY DEF UnderWay
  <2> QED BY <1>1, <2>1
<1>4. DOMAIN results[l] = {}
  <2>1. \A i \in DOMAIN results[l] : <<"fetched", 0, i>> \in UnderWay(l)
    BY DEF UnderWay
  <2> QED BY <1>1, <2>1
<1>5. Len(results[l]) \in Nat /\ DOMAIN results[l] = 1..Len(results[l])
  BY LenProperties DEF Types
<1>6. Len(results[l]) = 0
  <2>1. 1 \notin 1..Len(results[l])
    BY <1>4, <1>5
  <2> QED BY <1>5, <2>1
<1> QED BY <1>2, <1>3, <1>4, <1>6 DEF Mine

\* Queues without a task of the loader.
LEMMA NoneMine ==
    ASSUME NEW l, NEW e, NEW C, \A x \in Slots : Mine(C[x], l) = {}
    PROVE  WholeOf(C, l, e, 0)
<1>1. \A x \in Slots : Once(C[x], l, e) /\ Batches(C[x], l) = {}
  BY DEF Once, Batches
<1>2. First(0) = {}
  BY FirstProperties
<1> QED BY <1>1, <1>2 DEF WholeOf

-----------------------------------------------------------------------------
(* Steps that leave a loader alone *)

\* Its fields.
LEMMA LoaderOf ==
    ASSUME Types, NEW l \in Loaders
    PROVE  /\ loader[l] \in LoaderFields
           /\ loader[l].pc \in {"new", "open", "loop", "stopped", "deleted"}
           /\ loader[l].epoch \in Nat /\ loader[l].current_pos \in Nat
           /\ loader[l].num_pending \in Nat /\ loader[l].recv_idxs \in Nat
           /\ loader[l].left \in BOOLEAN /\ loader[l].out \in Seq(AnyCall)
           /\ results[l] \in Seq(AnyCall)
  BY DEF Types, LoaderFields

LEMMA SameProgress ==
    ASSUME NEW l \in Loaders, Progress(l), loader'[l] = loader[l]
    PROVE  Progress(l)'
  BY DEF Progress, Asked, AllReceived

LEMMA SameWhole ==
    ASSUME NEW l \in Loaders, Whole(l), Asked(l)' = Asked(l),
           loader'[l].epoch = loader[l].epoch, Kept(loader[l].out, loader'[l].out, l),
           \A w \in Workers : Kept(task_queues[w], task_queues'[w], l),
           Kept(result_queue, result_queue', l), Kept(results[l], results'[l], l)
    PROVE  Whole(l)'
<1>1. WholeOf(Places(task_queues', result_queue', results'[l], loader'[l].out),
              l, loader[l].epoch, Asked(l))
  BY PlacesStay DEF Whole
<1>2. Whole(l)' = WholeOf(Places(task_queues', result_queue', results'[l], loader'[l].out),
                          l, loader'[l].epoch, Asked(l)')
  BY DEF Whole
<1> QED BY <1>1, <1>2

LEMMA SameAsked ==
    ASSUME NEW l, loader'[l] = loader[l] PROVE Asked(l)' = Asked(l)
  BY DEF Asked

\* A command for every worker.
LEMMA PutAllCommand ==
    ASSUME Types, NEW cmd \in {"set", "delete", "barrier", "fn", "finalize"},
           NEW l \in Loaders, PutAll(cmd, l)
    PROVE  /\ task_queues' \in [Workers -> Seq(Commands)]
           /\ \A w \in Workers, m \in Loaders : Kept(task_queues[w], task_queues'[w], m)
           /\ \E t \in Commands : /\ t.cmd = cmd /\ t.loader = l
                                  /\ \A w \in Workers : task_queues'[w] = Append(task_queues[w], t)
<1> DEFINE t == [cmd |-> cmd, loader |-> l, batch |-> 0, epoch |-> 0]
<1>1. t \in Commands /\ t.cmd = cmd /\ t.loader = l /\ t.cmd # "call"
  BY DEF Commands
<1>2. task_queues' = [w \in Workers |-> Append(task_queues[w], t)]
  BY DEF PutAll
<1> HIDE DEF t
<1>3. \A w \in Workers : task_queues[w] \in Seq(Commands) /\ task_queues'[w] = Append(task_queues[w], t)
  BY <1>2 DEF Types
<1>4. \A w \in Workers : Append(task_queues[w], t) \in Seq(Commands)
  BY <1>1, <1>3, AppendProperties
<1>5. \A w \in Workers, m \in Loaders : Kept(task_queues[w], task_queues'[w], m)
  BY <1>1, <1>3, AppendMine
<1> QED BY <1>1, <1>2, <1>3, <1>4, <1>5

\* A command that is about no loader.
LEMMA PlainCommand ==
    ASSUME Types, NEW cmd \in {"barrier", "fn", "finalize"}, NEW l \in Loaders, PutAll(cmd, l),
           NEW w \in Workers, Knows(w), UNCHANGED <<loader, worker>>
    PROVE  Knows(w)'
<1>1. PICK t \in Commands : /\ t.cmd = cmd /\ t.loader = l
                            /\ \A v \in Workers : task_queues'[v] = Append(task_queues[v], t)
  BY PutAllCommand
<1>2. \A m \in Loaders : ~Concerns(t, m)
  BY <1>1 DEF Concerns
<1>3. task_queues[w] \in Seq(Commands)
  BY DEF Types
<1>4. ASSUME NEW m \in Loaders
      PROVE  Commanded(loader[m].pc, task_queues'[w], worker[w].fns, m)
  <2>1. Commanded(loader[m].pc, task_queues[w], worker[w].fns, m)
    BY DEF Knows
  <2> QED BY <1>1, <1>2, <1>3, <2>1, AppendCommand
<1> QED BY <1>4 DEF Knows

\* Steps that change no queue and none of the loaders but possibly the place of
\* the trainer.
LEMMA OnlyMainMoves ==
    ASSUME IInv, UNCHANGED <<loader, task_queues, result_queue, results, worker>>,
           current_proc_id' = current_proc_id, broadcasts' = broadcasts,
           main' \in MainFields, InCall'
    PROVE  IInv'
<1>1. Types' /\ Sorted'
  BY DEF IInv, Types, Sorted
<1>2. \A l \in Loaders : Progress(l)'
  BY SameProgress DEF IInv
<1>3. \A l \in Loaders : ~loader'[l].left => Whole(l)'
  BY DEF IInv, Whole, Asked
<1>4. \A w \in Workers : Knows(w)'
  BY DEF IInv, Knows
<1> QED BY <1>1, <1>2, <1>3, <1>4 DEF IInv

LEMMA CallNextStep ==
    ASSUME IInv, NEW l \in Loaders, CallNext(l) PROVE IInv'
<1>1. main' \in MainFields
  BY DEF CallNext, MainFields
<1>2. InCall'
  BY DEF CallNext, InCall
<1> QED BY <1>1, <1>2, OnlyMainMoves DEF CallNext, workerVars

\* What has been requested and did not come out is awaited.
LEMMA AwaitResultStep ==
    ASSUME IInv, AwaitResult PROVE IInv'
<1> DEFINE l == main.loader
           k == Asked(l)
<1>1. l \in Loaders /\ Types /\ Progress(l)
  BY DEF IInv, Types, MainFields
<1>2. /\ main' \in MainFields /\ main'.loader = l /\ main'.pc = "get"
  BY <1>1 DEF AwaitResult, MainFields, Types
<1>3. loader[l].num_pending # 0
  <2>1. /\ loader[l].num_pending \in Nat /\ loader[l].recv_idxs \in Nat
        /\ k = loader[l].num_pending + loader[l].recv_idxs /\ k \in Nat
    BY <1>1, LoaderOf DEF Asked
  <2>2. /\ expected_idxs(l) \in Nat /\ queue_size[l] \in Nat /\ queue_size[l] > 0
    BY <1>1, Expected, Sizes
  <2>3. ~(loader[l].recv_idxs >= expected_idxs(l)) /\ k <= expected_idxs(l)
    BY <1>1 DEF AwaitResult, AllReceived, Progress
  <2>4. HasNextData(l) <=> k < expected_idxs(l)
    BY <1>1, <2>1, <2>3, NextData DEF Progress
  <2>5. ~(queue_size[l] - loader[l].num_pending > 0 /\ HasNextData(l))
    BY DEF AwaitResult, Requests, NumReqs
  <2> HIDE DEF k, l
  <2> QED BY <2>1, <2>2, <2>3, <2>4, <2>5
<1>4. InCall'
  BY <1>2, <1>3 DEF AwaitResult, IInv, InCall
<1> QED BY <1>2, <1>4, OnlyMainMoves DEF AwaitResult, workerVars

LEMMA JoinStep ==
    ASSUME IInv, Join PROVE IInv'
<1>1. main' \in MainFields /\ main'.pc = "done"
  BY DEF IInv, Types, Join, MainFields
<1>2. InCall'
  BY <1>1 DEF InCall
<1> QED BY <1>1, <1>2, OnlyMainMoves DEF Join, workerVars

LEMMA EnterClientBarrierStep ==
    ASSUME IInv, EnterClientBarrier PROVE IInv'
<1>1. main' \in MainFields /\ main'.pc = "client_barrier"
  BY DEF IInv, Types, EnterClientBarrier, MainFields
<1>2. InCall'
  BY <1>1 DEF InCall
<1> QED BY <1>1, <1>2, OnlyMainMoves DEF EnterClientBarrier, workerVars

LEMMA StutterStep ==
    ASSUME IInv, UNCHANGED vars PROVE IInv'
<1>1. main' \in MainFields
  BY DEF IInv, Types, vars
<1>2. InCall'
  BY DEF IInv, InCall, vars
<1> QED BY <1>1, <1>2, OnlyMainMoves DEF vars

\* Broadcast and ClosePool put a command that is about no loader.
LEMMA PlainCommandStep ==
    ASSUME IInv, NEW cmd \in {"barrier", "fn", "finalize"}, PutAll(cmd, main.loader),
           UNCHANGED <<loader, result_queue, results, worker, current_proc_id>>,
           main' \in MainFields, main'.pc \in {"idle", "collect"}, broadcasts' \in 0..MaxBroadcasts
    PROVE  IInv'
<1>0. Types /\ main.loader \in Loaders
  BY DEF IInv, Types, MainFields
<1>1. /\ task_queues' \in [Workers -> Seq(Commands)]
      /\ \A w \in Workers, m \in Loaders : Kept(task_queues[w], task_queues'[w], m)
  BY <1>0, PutAllCommand
<1>2. Types' /\ Sorted'
  BY <1>1 DEF IInv, Types, Sorted
<1>3. InCall'
  BY DEF InCall
<1>4. \A l \in Loaders : Progress(l)'
  BY SameProgress DEF IInv
<1>5. \A l \in Loaders : ~loader'[l].left => Whole(l)'
  BY <1>1, SameWhole, SameAsked, KeptSame DEF IInv
<1>6. \A w \in Workers : Knows(w)'
  BY <1>0, PlainCommand DEF IInv
<1> QED BY <1>2, <1>3, <1>4, <1>5, <1>6 DEF IInv

LEMMA BroadcastStep ==
    ASSUME IInv, NEW cmd \in {"barrier", "fn"}, Broadcast(cmd) PROVE IInv'
<1>1. broadcasts' \in 0..MaxBroadcasts
  BY PoolAssumption DEF IInv, Types, Broadcast
<1>2. main' \in MainFields /\ main'.pc \in {"idle", "collect"}
  BY DEF IInv, Types, Broadcast
<1> QED BY <1>1, <1>2, PlainCommandStep DEF Broadcast

LEMMA ClosePoolStep ==
    ASSUME IInv, ClosePool PROVE IInv'
<1>1. broadcasts' \in 0..MaxBroadcasts
  BY DEF IInv, Types, ClosePool
<1>2. main' \in MainFields /\ main'.pc \in {"idle", "collect"}
  BY DEF IInv, Types, ClosePool, MainFields
<1> QED BY <1>1, <1>2, PlainCommandStep DEF ClosePool

LEMMA CreateStep ==
    ASSUME IInv, NEW l \in Loaders, Create(l) PROVE IInv'
<1>0. Types /\ main.pc = "idle" /\ loader[l].pc = "new" /\ PutAll("set", l)
  BY DEF IInv, Create
<1>1. /\ loader' = [loader EXCEPT ![l].pc = "open"]
      /\ UNCHANGED <<main, result_queue, results, current_proc_id, worker, broadcasts>>
  BY DEF Create
<1>2. /\ \A m \in Loaders : m # l => loader'[m] = loader[m]
      /\ loader'[l] = [loader[l] EXCEPT !.pc = "open"]
      /\ DOMAIN loader' = Loaders
  BY <1>0, <1>1 DEF Types
<1>3. /\ loader'[l] \in LoaderFields /\ loader'[l].pc = "open"
      /\ loader'[l].epoch = loader[l].epoch /\ loader'[l].current_pos = loader[l].current_pos
      /\ loader'[l].num_pending = loader[l].num_pending
      /\ loader'[l].recv_idxs = loader[l].recv_idxs
      /\ loader'[l].out = loader[l].out /\ loader'[l].left = loader[l].left
  BY <1>0, <1>2, LoaderOf DEF LoaderFields
<1>4. /\ task_queues' \in [Workers -> Seq(Commands)]
      /\ \A w \in Workers, m \in Loaders : Kept(task_queues[w], task_queues'[w], m)
  BY <1>0, PutAllCommand
<1>5. Types'
  <2>1. loader' \in [Loaders -> LoaderFields]
    BY <1>0, <1>1, <1>3 DEF Types
  <2> QED BY <1>0, <1>1, <1>4, <2>1 DEF Types
<1>6. Sorted'
  BY <1>1, <1>2, <1>3 DEF IInv, Sorted
<1>7. InCall'
  BY <1>0, <1>1 DEF InCall
<1>8. ASSUME NEW m \in Loaders PROVE Progress(m)'
  <2>1. CASE m = l
    BY <1>0, <1>3, <2>1 DEF IInv, Progress, Asked, AllReceived
  <2>2. CASE m # l
    BY <1>2, <2>2, SameProgress DEF IInv
  <2> QED BY <2>1, <2>2
<1>9. ASSUME NEW m \in Loaders, ~loader'[m].left PROVE Whole(m)'
  <2>1. /\ Asked(m)' = Asked(m) /\ loader'[m].epoch = loader[m].epoch
        /\ loader'[m].out = loader[m].out /\ loader'[m].left = loader[m].left
    BY <1>2, <1>3 DEF Asked
  <2> QED BY <1>1, <1>4, <1>9, <2>1, SameWhole, KeptSame DEF IInv
<1>10. ASSUME NEW w \in Workers PROVE Knows(w)'
  <2>1. PICK t \in Commands : /\ t.cmd = "set" /\ t.loader = l
                              /\ \A v \in Workers : task_queues'[v] = Append(task_queues[v], t)
    BY <1>0, PutAllCommand
  <2>2. ASSUME NEW m \in Loaders
        PROVE  Commanded(loader'[m].pc, task_queues'[w], worker[w].fns, m)
    <3>1. Commanded(loader[m].pc, task_queues[w], worker[w].fns, m) /\ task_queues[w] \in Seq(Commands)
      BY <1>0 DEF IInv, Knows, Types
    <3>2. \/ ~Concerns(t, m) /\ loader'[m].pc = loader[m].pc
          \/ Is(t, m, "set") /\ loader[m].pc = "new" /\ loader'[m].pc = "open"
      BY <1>0, <1>2, <1>3, <2>1 DEF Concerns, Is
    <3> QED BY <2>1, <3>1, <3>2, AppendCommand
  <2> QED BY <1>1, <2>2 DEF IInv, Knows
<1> QED BY <1>5, <1>6, <1>7, <1>8, <1>9, <1>10 DEF IInv

\* The loader has nothing under way, or its loop was left.
LEMMA DeleteStep ==
    ASSUME IInv, NEW l \in Loaders, Delete(l) PROVE IInv'
<1> DEFINE me == loader[l]
<1>0. /\ Types /\ Sorted /\ main.pc \in {"idle", "collect"}
      /\ me.pc \in {"open", "loop", "stopped"} /\ PutAll("delete", l)
  BY DEF IInv, Delete
<1>1. /\ loader' = [loader EXCEPT ![l] = [me EXCEPT !.pc = "deleted", !.left = me.left \/ me.pc = "loop"]]
      /\ results' = [results EXCEPT ![l] = <<>>]
      /\ UNCHANGED <<main, result_queue, current_proc_id, worker, broadcasts>>
  BY DEF Delete
<1>2. /\ \A m \in Loaders : m # l => loader'[m] = loader[m] /\ results'[m] = results[m]
      /\ loader'[l] = [me EXCEPT !.pc = "deleted", !.left = me.left \/ me.pc = "loop"]
      /\ results'[l] = <<>>
  BY <1>0, <1>1 DEF Types
<1>3. /\ loader'[l] \in LoaderFields /\ loader'[l].pc = "deleted"
      /\ loader'[l].epoch = me.epoch /\ loader'[l].current_pos = me.current_pos
      /\ loader'[l].num_pending = me.num_pending
      /\ loader'[l].recv_idxs = me.recv_idxs
      /\ loader'[l].out = me.out /\ loader'[l].left = (me.left \/ me.pc = "loop")
  BY <1>0, <1>2, LoaderOf DEF LoaderFields
<1>4. /\ task_queues' \in [Workers -> Seq(Commands)]
      /\ \A w \in Workers, m \in Loaders : Kept(task_queues[w], task_queues'[w], m)
  BY <1>0, PutAllCommand
<1>5. Types'
  <2>1. loader' \in [Loaders -> LoaderFields]
    BY <1>0, <1>1, <1>3 DEF Types
  <2>2. results' \in [Loaders -> Seq(AnyCall)]
    <3>1. <<>> \in Seq(AnyCall)
      OBVIOUS
    <3> QED BY <1>0, <1>1, <3>1 DEF Types
  <2> QED BY <1>0, <1>1, <1>4, <2>1, <2>2 DEF Types
<1>6. Sorted'
  <2>1. <<>> \in Seq(Call(l))
    OBVIOUS
  <2> QED BY <1>0, <1>1, <1>2, <1>3, <2>1 DEF Sorted
<1>7. InCall'
  BY <1>0, <1>1 DEF InCall
<1>8. ASSUME NEW m \in Loaders PROVE Progress(m)'
  <2>1. CASE m = l
    BY <1>0, <1>3, <2>1 DEF IInv, Progress, Asked, AllReceived
  <2>2. CASE m # l
    BY <1>2, <2>2, SameProgress DEF IInv
  <2> QED BY <2>1, <2>2
<1>9. ASSUME NEW m \in Loaders, ~loader'[m].left PROVE Whole(m)'
  <2>1. /\ Asked(m)' = Asked(m) /\ loader'[m].epoch = loader[m].epoch
        /\ loader'[m].out = loader[m].out /\ ~loader[m].left
    BY <1>2, <1>3, <1>9 DEF Asked
  <2>2. Progress(m) /\ Whole(m)
    BY <2>1 DEF IInv
  <2>3. Kept(results[m], results'[m], m)
    <3>1. CASE m # l
      BY <1>2, <3>1, KeptSame
    <3>2. CASE m = l
      <4>1. loader[l].num_pending = 0
        BY <1>0, <1>3, <1>9, <2>2, <3>2 DEF Progress
      <4>2. Mine(results[l], l) = {}
        BY <1>0, <2>2, <3>2, <4>1, NothingUnderWay
      <4>3. Mine(<<>>, l) = {}
        BY DEF Mine
      <4> QED BY <1>2, <3>2, <4>2, <4>3 DEF Kept, Once, Batches
    <3> QED BY <3>1, <3>2
  <2> QED BY <1>1, <1>4, <2>1, <2>2, <2>3, SameWhole, KeptSame
<1>10. ASSUME NEW w \in Workers PROVE Knows(w)'
  <2>1. PICK t \in Commands : /\ t.cmd = "delete" /\ t.loader = l
                              /\ \A v \in Workers : task_queues'[v] = Append(task_queues[v], t)
    BY <1>0, PutAllCommand
  <2>2. ASSUME NEW m \in Loaders
        PROVE  Commanded(loader'[m].pc, task_queues'[w], worker[w].fns, m)
    <3>1. Commanded(loader[m].pc, task_queues[w], worker[w].fns, m) /\ task_queues[w] \in Seq(Commands)
      BY <1>0 DEF IInv, Knows, Types
    <3>2. \/ ~Concerns(t, m) /\ loader'[m].pc = loader[m].pc
          \/ /\ Is(t, m, "delete") /\ loader[m].pc \in {"open", "loop", "stopped"}
             /\ loader'[m].pc = "deleted"
      BY <1>0, <1>2, <1>3, <2>1 DEF Concerns, Is
    <3> QED BY <2>1, <3>1, <3>2, AppendCommand
  <2> QED BY <1>1, <2>2 DEF IInv, Knows
<1> QED BY <1>5, <1>6, <1>7, <1>8, <1>9, <1>10 DEF IInv

\* A new epoch: nothing of the last one is under way, or its loop was left.
LEMMA IterStep ==
    ASSUME IInv, NEW l \in Loaders, Iter(l) PROVE IInv'
<1> DEFINE me == loader[l]
           new == [pc |-> "loop", epoch |-> me.epoch + 1, current_pos |-> 0,
                   num_pending |-> 0, recv_idxs |-> 0, out |-> <<>>,
                   left |-> me.left \/ me.pc = "loop"]
<1>0. /\ Types /\ Sorted /\ main.pc = "idle" /\ me.pc \in {"open", "loop", "stopped"}
      /\ me.epoch < MaxEpochs[l]
  BY DEF IInv, Iter
<1>1. /\ loader' = [loader EXCEPT ![l] = new]
      /\ UNCHANGED <<main, workerVars, results, current_proc_id, broadcasts>>
  BY DEF Iter
<1>2. /\ \A m \in Loaders : m # l => loader'[m] = loader[m]
      /\ loader'[l] = new
  BY <1>0, <1>1 DEF Types
<1>3. /\ loader'[l] \in LoaderFields /\ loader'[l].pc = "loop"
      /\ loader'[l].epoch = me.epoch + 1 /\ loader'[l].current_pos = 0
      /\ loader'[l].num_pending = 0 /\ loader'[l].recv_idxs = 0
      /\ loader'[l].out = <<>> /\ loader'[l].left = (me.left \/ me.pc = "loop")
  BY <1>0, <1>2, LoaderOf DEF LoaderFields
<1>5. Types'
  <2>1. loader' \in [Loaders -> LoaderFields]
    BY <1>0, <1>1, <1>3 DEF Types
  <2> QED BY <1>0, <1>1, <2>1 DEF Types, workerVars
<1>6. Sorted'
  <2>1. <<>> \in Seq(Call(l))
    OBVIOUS
  <2> QED BY <1>0, <1>1, <1>2, <1>3, <2>1 DEF Sorted
<1>7. InCall'
  BY <1>0, <1>1 DEF InCall
<1>8. ASSUME NEW m \in Loaders PROVE Progress(m)'
  <2>1. CASE m = l
    <3>1. Asked(l)' = 0
      BY <1>3 DEF Asked
    <3>2. Position(l, 0) = 0
      BY Sizes DEF Position
    <3>3. expected_idxs(l) \in Nat /\ 0 <= queue_size[l] /\ me.epoch + 1 <= MaxEpochs[l]
      BY <1>0, Expected, Sizes, LoaderOf
    <3>4. Len(loader'[l].out) = 0
      BY <1>3
    <3> QED BY <1>3, <2>1, <3>1, <3>2, <3>3, <3>4 DEF Progress
  <2>2. CASE m # l
    BY <1>2, <2>2, SameProgress DEF IInv
  <2> QED BY <2>1, <2>2
<1>9. ASSUME NEW m \in Loaders, ~loader'[m].left PROVE Whole(m)'
  <2>1. CASE m # l
    BY <1>1, <1>2, <1>9, <2>1, SameWhole, SameAsked, KeptSame DEF IInv, workerVars
  <2>2. CASE m = l
    <3>1. ~me.left /\ me.pc # "loop" /\ Progress(l) /\ Whole(l)
      BY <1>3, <1>9, <2>2 DEF IInv
    <3>2. me.num_pending = 0
      BY <1>0, <3>1 DEF Progress
    <3>3. /\ \A w \in Workers : Mine(task_queues[w], l) = {}
          /\ Mine(result_queue, l) = {} /\ Mine(results[l], l) = {} /\ Mine(<<>>, l) = {}
      BY <1>0, <3>1, <3>2, NothingUnderWay DEF Mine
    <3> DEFINE C == Places(task_queues, result_queue, results[l], <<>>)
    <3>4. ASSUME NEW x \in Slots PROVE Mine(C[x], l) = {}
      <4>1. CASE \E w \in Workers : x = <<"task", w>>
        BY <3>3, <4>1, PlacesOf
      <4>2. CASE x = <<"result", 0>>
        BY <3>3, <4>2, PlacesOf
      <4>3. CASE x = <<"fetched", 0>>
        BY <3>3, <4>3, PlacesOf
      <4>4. CASE x = <<"out", 0>>
        <5>1. C[x] = <<>>
          BY <4>4, PlacesOf
        <5> QED BY <3>3, <5>1
      <4> QED BY <4>1, <4>2, <4>3, <4>4, PlacesOf
    <3> HIDE DEF C
    <3>5. WholeOf(C, l, me.epoch + 1, 0)
      BY <3>4, NoneMine
    <3>6. Asked(l)' = 0
      BY <1>3 DEF Asked
    <3> QED BY <1>1, <1>3, <2>2, <3>5, <3>6 DEF Whole, workerVars, C
  <2> QED BY <2>1, <2>2
<1>10. ASSUME NEW w \in Workers PROVE Knows(w)'
  <2>2. ASSUME NEW m \in Loaders
        PROVE  Commanded(loader'[m].pc, task_queues[w], worker[w].fns, m)
    <3>1. Commanded(loader[m].pc, task_queues[w], worker[w].fns, m)
      BY DEF IInv, Knows
    <3>2. CASE m # l
      BY <1>2, <3>1, <3>2
    <3>3. CASE m = l
      BY <1>0, <1>3, <3>1, <3>3, GoesOn
    <3> QED BY <3>2, <3>3
  <2> QED BY <1>1, <2>2 DEF IInv, Knows, workerVars
<1> QED BY <1>5, <1>6, <1>7, <1>8, <1>9, <1>10 DEF IInv

\* The next batch, if the epoch has one, goes into the queue of the next worker.
LEMMA RequestNextBatchStep ==
    ASSUME IInv, NEW l \in Loaders, l = main.loader, RequestNextBatch PROVE IInv'
<1> DEFINE me == loader[l]
           k == Asked(l)
           w == current_proc_id
           next == IF me.current_pos + batch_size > dataset[l] THEN dataset[l]
                   ELSE me.current_pos + batch_size
           new == [me EXCEPT !.num_pending = me.num_pending + 1, !.current_pos = next]
           t == [cmd |-> "call", loader |-> l, batch |-> me.current_pos, epoch |-> me.epoch]
<1>0. /\ Types /\ Sorted /\ main.pc = "request" /\ l \in Loaders /\ w \in Workers
      /\ Requests(l) /\ Progress(l) /\ me.pc = "loop"
  BY DEF IInv, RequestNextBatch, Types, MainFields, InCall
<1>1. /\ loader' = [loader EXCEPT ![l] = new]
      /\ task_queues' = [task_queues EXCEPT ![w] = Append(task_queues[w], t)]
      /\ current_proc_id' = NextProc
      /\ UNCHANGED <<main, result_queue, results, worker, broadcasts>>
  BY DEF RequestNextBatch
<1>2. /\ me.num_pending \in Nat /\ me.recv_idxs \in Nat /\ me.current_pos \in Nat
      /\ me.epoch \in Nat /\ k \in Nat /\ k = me.num_pending + me.recv_idxs
      /\ expected_idxs(l) \in Nat /\ queue_size[l] \in Nat
      /\ batch_size \in Nat /\ dataset[l] \in Nat
  BY <1>0, LoaderOf, Expected, Sizes DEF Asked
<1>3. /\ HasNextData(l) /\ me.num_pending < queue_size[l]
      /\ k <= expected_idxs(l) /\ me.current_pos = Position(l, k)
  BY <1>0, <1>2 DEF Requests, NumReqs, Progress
<1>4. k < expected_idxs(l) /\ me.current_pos = k * batch_size /\ next = Position(l, k + 1)
  BY <1>0, <1>2, <1>3, NextData
<1>5. /\ \A m \in Loaders : m # l => loader'[m] = loader[m]
      /\ loader'[l] = new
  BY <1>0, <1>1 DEF Types
<1>6. next \in Nat
  BY <1>2
<1> HIDE DEF next
<1>7. /\ loader'[l] \in LoaderFields /\ loader'[l].pc = "loop"
      /\ loader'[l].epoch = me.epoch /\ loader'[l].current_pos = next
      /\ loader'[l].num_pending = me.num_pending + 1 /\ loader'[l].recv_idxs = me.recv_idxs
      /\ loader'[l].out = me.out /\ loader'[l].left = me.left
  <2>1. me \in LoaderFields /\ me.num_pending + 1 \in Nat
    BY <1>0, <1>2, LoaderOf
  <2> HIDE DEF me
  <2>2. new \in LoaderFields
    BY <1>6, <2>1 DEF LoaderFields
  <2> QED BY <1>0, <1>5, <2>1, <2>2 DEF LoaderFields
<1>8. Asked(l)' = k + 1
  BY <1>2, <1>7 DEF Asked
<1>9. /\ t \in Commands /\ t.cmd = "call" /\ t.loader = l /\ t.batch = me.current_pos
      /\ t.epoch = me.epoch
  BY <1>0, <1>2 DEF Commands
<1> HIDE DEF t, new, k
<1>10. /\ task_queues[w] \in Seq(Commands) /\ Append(task_queues[w], t) \in Seq(Commands)
       /\ task_queues'[w] = Append(task_queues[w], t)
       /\ \A v \in Workers : v # w => task_queues'[v] = task_queues[v]
  <2>1. task_queues[w] \in Seq(Commands)
    BY <1>0 DEF Types
  <2>2. Append(task_queues[w], t) \in Seq(Commands)
    BY <1>9, <2>1, AppendProperties
  <2> QED BY <1>0, <1>1, <2>1, <2>2 DEF Types
<1>11. Types'
  <2>1. loader' \in [Loaders -> LoaderFields]
    BY <1>0, <1>1, <1>5, <1>7 DEF Types
  <2>2. task_queues' \in [Workers -> Seq(Commands)]
    BY <1>0, <1>1, <1>10 DEF Types
  <2>3. current_proc_id' \in Workers
    <3>1. w \in Nat /\ num_workers \in Nat /\ num_workers > 0
      BY <1>0, Sizes DEF Workers
    <3>2. (w + 1) % num_workers \in 0..(num_workers - 1)
      BY <3>1
    <3> QED BY <1>1, <3>2 DEF NextProc, Workers
  <2> QED BY <1>0, <1>1, <2>1, <2>2, <2>3 DEF Types
<1>12. Sorted'
  BY <1>0, <1>1, <1>5, <1>7 DEF Sorted
<1>13. InCall'
  BY <1>0, <1>1, <1>7 DEF InCall
<1>14. ASSUME NEW m \in Loaders PROVE Progress(m)'
  <2>1. CASE m = l
    <3>1. k + 1 <= expected_idxs(l) /\ me.num_pending + 1 <= queue_size[l]
      BY <1>2, <1>3, <1>4
    <3>2. me.epoch <= MaxEpochs[l] /\ Len(me.out) = me.recv_idxs
      BY <1>0 DEF Progress
    <3> QED BY <1>4, <1>7, <1>8, <2>1, <3>1, <3>2 DEF Progress
  <2>2. CASE m # l
    BY <1>5, <2>2, SameProgress DEF IInv
  <2> QED BY <2>1, <2>2
<1>15. ASSUME NEW m \in Loaders, ~loader'[m].left PROVE Whole(m)'
  <2>1. CASE m # l
    <3>1. ~loader[m].left /\ Whole(m)
      BY <1>5, <1>15, <2>1 DEF IInv
    <3>2. Kept(task_queues[w], task_queues'[w], m)
      BY <1>9, <1>10, <2>1, AppendMine
    <3>3. \A v \in Workers : Kept(task_queues[v], task_queues'[v], m)
      BY <1>10, <3>2, KeptSame
    <3> QED BY <1>1, <1>5, <2>1, <3>1, <3>3, SameWhole, SameAsked, KeptSame
  <2>2. CASE m = l
    <3>1. WholeOf(Places(task_queues, result_queue, results[l], me.out), l, t.epoch, k)
      BY <1>7, <1>9, <1>15, <2>2 DEF IInv, Whole, k
    <3>2. Gains(task_queues[w], task_queues'[w], l, t)
      BY <1>9, <1>10, AppendMine
    <3>3. WholeOf(Places(task_queues', result_queue, results[l], me.out), l, t.epoch, k + 1)
      <4>1. k \in Nat /\ t.batch = k * batch_size /\ w \in Workers
        BY <1>0, <1>2, <1>4, <1>9
      <4>2. \A v \in Workers \ {w} : task_queues'[v] = task_queues[v]
        BY <1>10
      <4> HIDE DEF w, me
      <4> QED BY <3>1, <3>2, <4>1, <4>2, TaskAsked
    <3> QED BY <1>1, <1>7, <1>8, <1>9, <2>2, <3>3 DEF Whole
  <2> QED BY <2>1, <2>2
<1>16. ASSUME NEW v \in Workers PROVE Knows(v)'
  <2>1. ASSUME NEW m \in Loaders
        PROVE  Commanded(loader'[m].pc, task_queues'[v], worker[v].fns, m)
    <3>1. Commanded(loader[m].pc, task_queues[v], worker[v].fns, m)
      BY DEF IInv, Knows
    <3>2. loader'[m].pc = loader[m].pc
      BY <1>0, <1>5, <1>7
    <3>3. CASE v # w
      BY <1>10, <3>1, <3>2, <3>3
    <3>4. CASE v = w
      <4>1. \/ ~Concerns(t, m)
            \/ Is(t, m, "call") /\ loader[m].pc = "loop"
        BY <1>0, <1>9 DEF Concerns, Is
      <4> QED BY <1>9, <1>10, <3>1, <3>2, <3>4, <4>1, AppendCommand
    <3> QED BY <3>3, <3>4
  <2> QED BY <1>1, <2>1 DEF IInv, Knows
<1> QED BY <1>11, <1>12, <1>13, <1>14, <1>15, <1>16 DEF IInv

\* The end of an epoch: the assertion holds.
LEMMA StopIterationStep ==
    ASSUME IInv, NEW l \in Loaders, l = main.loader, StopIteration PROVE IInv'
<1> DEFINE me == loader[l]
<1>0. /\ Types /\ Sorted /\ main.pc = "request" /\ l \in Loaders
      /\ AllReceived(l) /\ Progress(l) /\ me.pc = "loop"
  BY DEF IInv, StopIteration, Types, MainFields, InCall
<1>1. /\ loader' = [loader EXCEPT ![l].pc = "stopped"]
      /\ main' = [main EXCEPT !.pc = IF me.num_pending = 0 THEN "idle" ELSE "assert"]
      /\ UNCHANGED <<workerVars, results, current_proc_id, broadcasts>>
  BY DEF StopIteration
<1>2. me.num_pending = 0
  <2>1. /\ me.num_pending \in Nat /\ me.recv_idxs \in Nat /\ expected_idxs(l) \in Nat
    BY <1>0, LoaderOf, Expected
  <2>2. me.recv_idxs >= expected_idxs(l) /\ me.num_pending + me.recv_idxs <= expected_idxs(l)
    BY <1>0 DEF AllReceived, Progress, Asked
  <2> HIDE DEF me
  <2> QED BY <2>1, <2>2
<1>3. main' \in MainFields /\ main'.pc = "idle"
  BY <1>0, <1>1, <1>2 DEF Types, MainFields
<1>5. /\ \A m \in Loaders : m # l => loader'[m] = loader[m]
      /\ loader'[l] = [me EXCEPT !.pc = "stopped"]
  BY <1>0, <1>1 DEF Types
<1>7. /\ loader'[l] \in LoaderFields /\ loader'[l].pc = "stopped"
      /\ loader'[l].epoch = me.epoch /\ loader'[l].current_pos = me.current_pos
      /\ loader'[l].num_pending = me.num_pending /\ loader'[l].recv_idxs = me.recv_idxs
      /\ loader'[l].out = me.out /\ loader'[l].left = me.left
  BY <1>0, <1>5, LoaderOf DEF LoaderFields
<1>11. Types'
  <2>1. loader' \in [Loaders -> LoaderFields]
    BY <1>0, <1>1, <1>7 DEF Types
  <2> QED BY <1>0, <1>1, <1>3, <2>1 DEF Types, workerVars
<1>12. Sorted'
  BY <1>0, <1>1, <1>5, <1>7 DEF Sorted
<1>13. InCall'
  BY <1>3 DEF InCall
<1>14. ASSUME NEW m \in Loaders PROVE Progress(m)'
  <2>1. CASE m = l
    BY <1>0, <1>2, <1>7, <2>1 DEF Progress, Asked, AllReceived
  <2>2. CASE m # l
    BY <1>5, <2>2, SameProgress DEF IInv
  <2> QED BY <2>1, <2>2
<1>15. ASSUME NEW m \in Loaders, ~loader'[m].left PROVE Whole(m)'
  <2>1. /\ Asked(m)' = Asked(m) /\ loader'[m].epoch = loader[m].epoch
        /\ loader'[m].out = loader[m].out /\ ~loader[m].left
    BY <1>5, <1>7, <1>15 DEF Asked
  <2> QED BY <1>1, <2>1, SameWhole, KeptSame DEF IInv, workerVars
<1>16. ASSUME NEW w \in Workers PROVE Knows(w)'
  <2>2. ASSUME NEW m \in Loaders
        PROVE  Commanded(loader'[m].pc, task_queues[w], worker[w].fns, m)
    <3>1. Commanded(loader[m].pc, task_queues[w], worker[w].fns, m)
      BY DEF IInv, Knows
    <3>2. CASE m # l
      BY <1>5, <3>1, <3>2
    <3>3. CASE m = l
      BY <1>0, <1>7, <3>1, <3>3, GoesOn
    <3> QED BY <3>2, <3>3
  <2> QED BY <1>1, <2>2 DEF IInv, Knows, workerVars
<1> QED BY <1>11, <1>12, <1>13, <1>14, <1>15, <1>16 DEF IInv

\* A result goes to its own loader.  One of a deleted loader is there only if
\* its loop was left.
LEMMA FetchStep ==
    ASSUME IInv, Fetch PROVE IInv'
<1> DEFINE r == Head(result_queue)
           o == r.loader
<1>0. /\ Types /\ Sorted /\ main.pc = "get" /\ result_queue # <<>>
      /\ result_queue \in Seq(AnyCall)
  BY DEF IInv, Fetch, Types
<1>1. /\ result_queue' = Tail(result_queue)
      /\ UNCHANGED <<loader, task_queues, current_proc_id, worker, broadcasts>>
      /\ \/ /\ loader[o].pc = "deleted" /\ main' = [main EXCEPT !.pc = "KeyError"]
            /\ results' = results
         \/ /\ loader[o].pc # "deleted" /\ main' = main
            /\ results' = [results EXCEPT ![o] = Append(results[o], r)]
  BY DEF Fetch
<1>2. /\ r \in AnyCall /\ Tail(result_queue) \in Seq(AnyCall)
      /\ Len(result_queue) \in Nat /\ Len(result_queue) # 0
      /\ DOMAIN result_queue = 1..Len(result_queue) /\ r = result_queue[1]
  BY <1>0, HeadTailProperties, LenProperties, EmptySeq
<1> HIDE DEF r
<1>3. r.cmd = "call" /\ o \in Loaders /\ r \in Call(o)
  BY <1>2 DEF AnyCall, Call
<1>4. 1 \in Mine(result_queue, o)
  BY <1>2, <1>3 DEF Mine
<1>5. \A m \in Loaders : Progress(m)'
  BY <1>1, SameProgress DEF IInv
<1>6. \A w \in Workers : Knows(w)'
  BY <1>1 DEF IInv, Knows
<1>7. /\ \A m \in Loaders : m # o => Kept(result_queue, result_queue', m)
      /\ Loses(result_queue, result_queue', o, r)
  BY <1>0, <1>1, <1>3, TailMine DEF r
<1>8. CASE /\ loader[o].pc = "deleted" /\ main' = [main EXCEPT !.pc = "KeyError"]
           /\ results' = results
  <2>1. loader[o].left
    <3> SUFFICES ASSUME ~loader[o].left PROVE FALSE
      OBVIOUS
    <3>1. Progress(o) /\ Whole(o)
      BY <1>3 DEF IInv
    <3>2. loader[o].num_pending = 0
      BY <1>8, <3>1 DEF Progress
    <3>3. Mine(result_queue, o) = {}
      BY <1>0, <1>3, <3>1, <3>2, NothingUnderWay
    <3> QED BY <1>4, <3>3
  <2>2. main' \in MainFields /\ main'.pc = "KeyError"
    BY <1>0, <1>8 DEF Types, MainFields
  <2>3. Types' /\ Sorted'
    BY <1>0, <1>1, <1>2, <1>8, <2>2 DEF Types, Sorted
  <2>4. InCall'
    BY <1>1, <1>3, <1>8, <2>1, <2>2 DEF InCall
  <2>5. ASSUME NEW m \in Loaders, ~loader'[m].left PROVE Whole(m)'
    <3>1. m # o /\ Whole(m)
      BY <1>1, <2>1, <2>5 DEF IInv
    <3> QED BY <1>1, <1>7, <1>8, <3>1, SameWhole, SameAsked, KeptSame
  <2> QED BY <1>5, <1>6, <2>3, <2>4, <2>5 DEF IInv
<1>9. CASE /\ loader[o].pc # "deleted" /\ main' = main
           /\ results' = [results EXCEPT ![o] = Append(results[o], r)]
  <2>1. /\ results[o] \in Seq(AnyCall) /\ results[o] \in Seq(Call(o))
        /\ Append(results[o], r) \in Seq(AnyCall) /\ Append(results[o], r) \in Seq(Call(o))
    <3>1. results[o] \in Seq(AnyCall) /\ results[o] \in Seq(Call(o))
      BY <1>0, <1>3 DEF Types, Sorted
    <3> QED BY <1>2, <1>3, <3>1, AppendProperties
  <2>2. /\ results'[o] = Append(results[o], r)
        /\ \A m \in Loaders : m # o => results'[m] = results[m]
        /\ results' \in [Loaders -> Seq(AnyCall)]
    BY <1>0, <1>3, <1>9, <2>1 DEF Types
  <2>3. Types'
    BY <1>0, <1>1, <1>2, <1>9, <2>2 DEF Types
  <2>4. Sorted'
    BY <1>0, <1>1, <2>1, <2>2 DEF Sorted
  <2>5. InCall'
    BY <1>1, <1>9 DEF IInv, InCall
  <2>6. ASSUME NEW m \in Loaders, ~loader'[m].left PROVE Whole(m)'
    <3>1. Whole(m)
      BY <1>1, <2>6 DEF IInv
    <3>2. CASE m # o
      BY <1>1, <1>7, <2>2, <3>1, <3>2, SameWhole, SameAsked, KeptSame
    <3>3. CASE m = o
      <4>1. Gains(results[o], results'[o], o, r)
        BY <1>3, <2>1, <2>2, AppendMine
      <4>2. WholeOf(Places(task_queues, result_queue', results'[o], loader[o].out),
                    o, loader[o].epoch, Asked(o))
        BY <1>7, <3>1, <3>3, <4>1, ResultFetched DEF Whole
      <4>3. Asked(m)' = Asked(m)
        BY <1>1 DEF Asked
      <4> QED BY <1>1, <3>3, <4>2, <4>3 DEF Whole
    <3> QED BY <3>2, <3>3
  <2> QED BY <1>5, <1>6, <2>3, <2>4, <2>5, <2>6 DEF IInv
<1> QED BY <1>1, <1>8, <1>9

\* A result comes out.
LEMMA ReturnStep ==
    ASSUME IInv, NEW l \in Loaders, l = main.loader, Return PROVE IInv'
<1> DEFINE me == loader[l]
           r == Head(results[l])
           new == [me EXCEPT !.recv_idxs = me.recv_idxs + 1, !.num_pending = me.num_pending - 1,
                             !.out = Append(me.out, r)]
<1>0. /\ Types /\ Sorted /\ main.pc = "get" /\ results[l] # <<>>
      /\ Progress(l) /\ me.pc = "loop" /\ me.num_pending # 0
  BY DEF IInv, Return, InCall
<1>1. /\ loader' = [loader EXCEPT ![l] = new]
      /\ results' = [results EXCEPT ![l] = Tail(results[l])]
      /\ main' = [main EXCEPT !.pc = "idle"]
      /\ UNCHANGED <<workerVars, current_proc_id, broadcasts>>
  BY DEF Return
<1>2. /\ results[l] \in Seq(Call(l)) /\ r \in Call(l) /\ Tail(results[l]) \in Seq(Call(l))
      /\ results[l] \in Seq(AnyCall) /\ r \in AnyCall /\ Tail(results[l]) \in Seq(AnyCall)
  <2>1. results[l] \in Seq(Call(l)) /\ results[l] \in Seq(AnyCall)
    BY <1>0 DEF Types, Sorted
  <2> QED BY <1>0, <2>1, HeadTailProperties
<1>3. r.cmd = "call" /\ r.loader = l
  BY <1>2 DEF Call
<1>4. /\ me.out \in Seq(AnyCall) /\ Append(me.out, r) \in Seq(AnyCall)
      /\ me.out \in Seq(Call(l)) /\ Append(me.out, r) \in Seq(Call(l))
      /\ Len(Append(me.out, r)) = Len(me.out) + 1
  <2>1. me.out \in Seq(AnyCall) /\ me.out \in Seq(Call(l))
    BY <1>0, LoaderOf DEF Sorted
  <2> QED BY <1>2, <2>1, AppendProperties
<1>5. /\ \A m \in Loaders : m # l => loader'[m] = loader[m] /\ results'[m] = results[m]
      /\ loader'[l] = new /\ results'[l] = Tail(results[l])
  BY <1>0, <1>1 DEF Types
<1>6. /\ me.num_pending \in Nat /\ me.recv_idxs \in Nat
      /\ me.num_pending - 1 \in Nat /\ me.recv_idxs + 1 \in Nat
  BY <1>0, LoaderOf
<1>7. /\ loader'[l] \in LoaderFields /\ loader'[l].pc = "loop"
      /\ loader'[l].epoch = me.epoch /\ loader'[l].current_pos = me.current_pos
      /\ loader'[l].num_pending = me.num_pending - 1 /\ loader'[l].recv_idxs = me.recv_idxs + 1
      /\ loader'[l].out = Append(me.out, r) /\ loader'[l].left = me.left
  <2>1. me \in LoaderFields
    BY <1>0, LoaderOf
  <2> HIDE DEF me, r
  <2>2. new \in LoaderFields
    BY <1>4, <1>6, <2>1 DEF LoaderFields
  <2> QED BY <1>0, <1>5, <2>1, <2>2 DEF LoaderFields
<1> HIDE DEF r, new
<1>8. Asked(l)' = Asked(l)
  <2>1. Asked(l)' = (me.num_pending - 1) + (me.recv_idxs + 1) /\ Asked(l) = me.num_pending + me.recv_idxs
    BY <1>7 DEF Asked
  <2> HIDE DEF me
  <2> QED BY <1>6, <2>1
<1>9. main' \in MainFields /\ main'.pc = "idle"
  BY <1>0, <1>1 DEF Types, MainFields
<1>11. Types'
  <2>1. loader' \in [Loaders -> LoaderFields]
    BY <1>0, <1>1, <1>5, <1>7 DEF Types
  <2>2. results' \in [Loaders -> Seq(AnyCall)]
    BY <1>0, <1>1, <1>2 DEF Types
  <2> QED BY <1>0, <1>1, <1>9, <2>1, <2>2 DEF Types, workerVars
<1>12. Sorted'
  <2> SUFFICES ASSUME NEW m \in Loaders
               PROVE  loader'[m].out \in Seq(Call(m)) /\ results'[m] \in Seq(Call(m))
    BY Zenon DEF Sorted
  <2> HIDE DEF me
  <2>1. CASE m = l
    <3>1. loader'[l].out \in Seq(Call(l))
      BY <1>4, <1>7
    <3>2. results'[l] \in Seq(Call(l))
      BY <1>2, <1>5
    <3> QED BY <2>1, <3>1, <3>2
  <2>2. CASE m # l
    <3>1. loader[m].out \in Seq(Call(m)) /\ results[m] \in Seq(Call(m))
      BY <1>0, Zenon DEF Sorted
    <3>2. loader'[m] = loader[m] /\ results'[m] = results[m]
      BY <1>5, <2>2
    <3> QED BY <3>1, <3>2, Zenon
  <2> QED BY <2>1, <2>2
<1>13. InCall'
  BY <1>9 DEF InCall
<1>14. ASSUME NEW m \in Loaders PROVE Progress(m)'
  <2>1. CASE m = l
    <3>1. me.num_pending - 1 <= queue_size[l]
      <4>1. me.num_pending <= queue_size[l] /\ queue_size[l] \in Nat
        BY <1>0, Sizes DEF Progress
      <4> HIDE DEF me
      <4> QED BY <1>6, <4>1
    <3>2. Len(loader'[l].out) = loader'[l].recv_idxs
      BY <1>0, <1>4, <1>7 DEF Progress
    <3> QED BY <1>0, <1>7, <1>8, <2>1, <3>1, <3>2 DEF Progress
  <2>2. CASE m # l
    BY <1>5, <2>2, SameProgress DEF IInv
  <2> QED BY <2>1, <2>2
<1>15. ASSUME NEW m \in Loaders, ~loader'[m].left PROVE Whole(m)'
  <2>1. CASE m # l
    <3>1. Whole(m)
      BY <1>5, <1>15, <2>1 DEF IInv
    <3> QED BY <1>1, <1>5, <2>1, <3>1, SameWhole, SameAsked, KeptSame DEF workerVars
  <2>2. CASE m = l
    <3>1. WholeOf(Places(task_queues, result_queue, results[l], me.out), l, me.epoch, Asked(l))
      BY <1>7, <1>15, <2>2 DEF IInv, Whole
    <3>2. Loses(results[l], results'[l], l, r)
      BY <1>0, <1>2, <1>3, <1>5, TailMine DEF r
    <3>3. Gains(me.out, loader'[l].out, l, r)
      BY <1>2, <1>3, <1>4, <1>7, AppendMine
    <3>4. WholeOf(Places(task_queues, result_queue, results'[l], loader'[l].out),
                  l, me.epoch, Asked(l))
      BY <3>1, <3>2, <3>3, ResultReturned
    <3> QED BY <1>1, <1>7, <1>8, <2>2, <3>4 DEF Whole, workerVars
  <2> QED BY <2>1, <2>2
<1>16. ASSUME NEW w \in Workers PROVE Knows(w)'
  <2>1. \A m \in Loaders : loader'[m].pc = loader[m].pc
    BY <1>0, <1>5, <1>7
  <2> QED BY <1>1, <2>1 DEF IInv, Knows, workerVars
<1> QED BY <1>11, <1>12, <1>13, <1>14, <1>15, <1>16 DEF IInv

-----------------------------------------------------------------------------
(* Steps of the workers *)

\* What every command of a worker has in common.
LEMMA TakenCommand ==
    ASSUME IInv, NEW w \in Workers, task_queues[w] # <<>>,
           task_queues' = [task_queues EXCEPT ![w] = Tail(task_queues[w])],
           UNCHANGED <<loader, main, results, current_proc_id, broadcasts>>,
           worker' \in [Workers -> WorkerFields], worker'[w].pc # "KeyError",
           \A v \in Workers : v # w => worker'[v] = worker[v],
           \A l \in Loaders :
               \/ ~Concerns(Head(task_queues[w]), l) /\ (l \in worker'[w].fns <=> l \in worker[w].fns)
               \/ Is(Head(task_queues[w]), l, "set") /\ l \in worker'[w].fns
               \/ Is(Head(task_queues[w]), l, "call") /\ (l \in worker'[w].fns <=> l \in worker[w].fns)
               \/ Is(Head(task_queues[w]), l, "delete") /\ l \notin worker'[w].fns,
           result_queue' \in Seq(AnyCall),
           \A l \in Loaders : ~loader[l].left => Whole(l)'
    PROVE  IInv'
<1>1. task_queues[w] \in Seq(Commands) /\ Tail(task_queues[w]) \in Seq(Commands)
  <2>1. task_queues[w] \in Seq(Commands)
    BY DEF IInv, Types
  <2> QED BY <2>1, HeadTailProperties
<1>2. /\ task_queues' \in [Workers -> Seq(Commands)] /\ task_queues'[w] = Tail(task_queues[w])
      /\ \A v \in Workers : v # w => task_queues'[v] = task_queues[v]
  BY <1>1 DEF IInv, Types
<1>3. Types' /\ Sorted'
  BY <1>2 DEF IInv, Types, Sorted
<1>4. InCall'
  BY DEF IInv, InCall
<1>5. \A l \in Loaders : Progress(l)'
  BY SameProgress DEF IInv
<1>6. \A l \in Loaders : ~loader'[l].left => Whole(l)'
  OBVIOUS
<1>7. ASSUME NEW v \in Workers PROVE Knows(v)'
  <2>1. CASE v # w
    BY <1>2, <2>1 DEF IInv, Knows
  <2>2. CASE v = w
    <3>1. ASSUME NEW l \in Loaders
          PROVE  Commanded(loader[l].pc, task_queues'[w], worker'[w].fns, l)
      <4>1. Commanded(loader[l].pc, task_queues[w], worker[w].fns, l)
        BY DEF IInv, Knows
      <4> QED BY <1>1, <1>2, <4>1, TakeCommand
    <3> QED BY <2>2, <3>1 DEF Knows
  <2> QED BY <2>1, <2>2
<1> QED BY <1>3, <1>4, <1>5, <1>6, <1>7 DEF IInv

\* A command that is not a task.
LEMMA OtherCommand ==
    ASSUME IInv, NEW w \in Workers, task_queues[w] # <<>>, Head(task_queues[w]).cmd # "call",
           task_queues' = [task_queues EXCEPT ![w] = Tail(task_queues[w])],
           UNCHANGED <<loader, result_queue, results>>, NEW l \in Loaders, ~loader[l].left
    PROVE  Whole(l)'
<1>1. task_queues[w] \in Seq(Commands)
  BY DEF IInv, Types
<1>2. /\ task_queues'[w] = Tail(task_queues[w])
      /\ \A v \in Workers : v # w => task_queues'[v] = task_queues[v]
  BY DEF IInv, Types
<1>3. Kept(task_queues[w], task_queues'[w], l)
  BY <1>1, <1>2, TailMine
<1>4. \A v \in Workers : Kept(task_queues[v], task_queues'[v], l)
  BY <1>2, <1>3, KeptSame
<1> QED BY <1>4, SameWhole, SameAsked, KeptSame DEF IInv

\* What a worker becomes.
LEMMA BecomesFields ==
    ASSUME Types, NEW w \in Workers, NEW pc \in {"poll", "barrier", "client_barrier"},
           NEW fns \in SUBSET Loaders, Becomes(w, pc, fns)
    PROVE  /\ worker' \in [Workers -> WorkerFields]
           /\ worker'[w].pc # "KeyError" /\ worker'[w].fns = fns
           /\ \A v \in Workers : v # w => worker'[v] = worker[v]
<1>1. [pc |-> pc, fns |-> fns] \in WorkerFields
  BY DEF WorkerFields
<1> QED BY <1>1 DEF Types, Becomes

\* A worker takes a command: it knows the function that a task or a deletion
\* needs.
LEMMA PollStep ==
    ASSUME IInv, NEW w \in Workers, Poll(w) PROVE IInv'
<1> DEFINE t == Head(task_queues[w])
           fns == worker[w].fns
<1>0. /\ Types /\ task_queues[w] # <<>> /\ worker[w].pc = "poll"
      /\ task_queues' = [task_queues EXCEPT ![w] = Tail(task_queues[w])]
      /\ UNCHANGED <<loader, main, results, current_proc_id, broadcasts>>
      /\ SetCollateFn(w, t) \/ DeleteCollateFn(w, t) \/ CallCollateFn(w, t) \/ Follow(w, t)
  BY DEF IInv, Poll
<1>1. task_queues[w] \in Seq(Commands) /\ t \in Commands
  <2>1. task_queues[w] \in Seq(Commands)
    BY <1>0 DEF Types
  <2> QED BY <1>0, <2>1, HeadTailProperties
<1>2. t.loader \in Loaders /\ t.batch \in Nat /\ t.epoch \in Nat
  BY <1>1 DEF Commands
<1>3. fns \in SUBSET Loaders /\ worker[w] \in WorkerFields /\ result_queue \in Seq(AnyCall)
  BY <1>0 DEF Types, WorkerFields
<1>4. t.cmd \in {"call", "delete"} => t.loader \in fns
  <2> SUFFICES ASSUME t.cmd \in {"call", "delete"} PROVE t.loader \in fns
    OBVIOUS
  <2> DEFINE l == t.loader
  <2>1. Commanded(loader[l].pc, task_queues[w], fns, l)
    BY <1>2 DEF IInv, Knows
  <2>2. Is(t, l, "call") \/ Is(t, l, "delete")
    BY DEF Is
  <2>3. CASE Is(t, l, "call")
    BY <1>0, <1>1, <2>1, <2>3, TakeCommand
  <2>4. CASE Is(t, l, "delete")
    <3>1. l \notin fns \ {l}
      OBVIOUS
    <3> QED BY <1>0, <1>1, <2>1, <2>4, <3>1, TakeCommand
  <2> QED BY <2>2, <2>3, <2>4
<1>5. CASE SetCollateFn(w, t)
  <2>1. /\ t.cmd = "set" /\ Becomes(w, "poll", fns \cup {t.loader}) /\ result_queue' = result_queue
    BY <1>5 DEF SetCollateFn
  <2>2. fns \cup {t.loader} \in SUBSET Loaders
    BY <1>2, <1>3
  <2>3. /\ worker' \in [Workers -> WorkerFields]
        /\ worker'[w].pc # "KeyError" /\ worker'[w].fns = fns \cup {t.loader}
        /\ \A v \in Workers : v # w => worker'[v] = worker[v]
    BY <1>0, <2>1, <2>2, BecomesFields
  <2>4. \A l \in Loaders : ~loader[l].left => Whole(l)'
    BY <1>0, <2>1, OtherCommand
  <2>5. \A l \in Loaders :
          \/ ~Concerns(t, l) /\ (l \in worker'[w].fns <=> l \in fns)
          \/ Is(t, l, "set") /\ l \in worker'[w].fns
    BY <2>1, <2>3 DEF Concerns, Is
  <2> QED BY <1>0, <1>3, <2>1, <2>3, <2>4, <2>5, TakenCommand
<1>6. CASE DeleteCollateFn(w, t)
  <2>1. /\ t.cmd = "delete" /\ Becomes(w, "poll", fns \ {t.loader}) /\ result_queue' = result_queue
    BY <1>4, <1>6 DEF DeleteCollateFn
  <2>2. fns \ {t.loader} \in SUBSET Loaders
    BY <1>3
  <2>3. /\ worker' \in [Workers -> WorkerFields]
        /\ worker'[w].pc # "KeyError" /\ worker'[w].fns = fns \ {t.loader}
        /\ \A v \in Workers : v # w => worker'[v] = worker[v]
    BY <1>0, <2>1, <2>2, BecomesFields
  <2>4. \A l \in Loaders : ~loader[l].left => Whole(l)'
    BY <1>0, <2>1, OtherCommand
  <2>5. \A l \in Loaders :
          \/ ~Concerns(t, l) /\ (l \in worker'[w].fns <=> l \in fns)
          \/ Is(t, l, "delete") /\ l \notin worker'[w].fns
    BY <2>1, <2>3 DEF Concerns, Is
  <2> QED BY <1>0, <1>3, <2>1, <2>3, <2>4, <2>5, TakenCommand
<1>7. CASE CallCollateFn(w, t)
  <2>1. t.cmd = "call" /\ result_queue' = Append(result_queue, t) /\ worker' = worker
    BY <1>4, <1>7 DEF CallCollateFn
  <2>2. t \in AnyCall
    BY <1>1, <2>1 DEF Commands, AnyCall
  <2>3. Append(result_queue, t) \in Seq(AnyCall)
    BY <1>3, <2>2, AppendProperties
  <2>4. /\ worker' \in [Workers -> WorkerFields] /\ worker'[w].pc # "KeyError"
    BY <1>0, <2>1 DEF Types
  <2>5. /\ task_queues'[w] = Tail(task_queues[w])
        /\ \A v \in Workers : v # w => task_queues'[v] = task_queues[v]
    BY <1>0 DEF Types
  <2>6. ASSUME NEW l \in Loaders, ~loader[l].left PROVE Whole(l)'
    <3>1. Whole(l)
      BY <2>6 DEF IInv
    <3>2. CASE l # t.loader
      <4>1. Kept(task_queues[w], task_queues'[w], l)
        BY <1>0, <1>1, <2>5, <3>2, TailMine
      <4>2. \A v \in Workers : Kept(task_queues[v], task_queues'[v], l)
        BY <2>5, <4>1, KeptSame
      <4>3. Kept(result_queue, result_queue', l)
        BY <1>3, <2>1, <2>2, <3>2, AppendMine
      <4> QED BY <1>0, <3>1, <4>2, <4>3, SameWhole, SameAsked, KeptSame
    <3>3. CASE l = t.loader
      <4>1. Loses(task_queues[w], task_queues'[w], l, t)
        BY <1>0, <1>1, <2>1, <2>5, <3>3, TailMine
      <4>2. Gains(result_queue, result_queue', l, t)
        BY <1>3, <2>1, <2>2, <3>3, AppendMine
      <4>3. \A v \in Workers \ {w} : task_queues'[v] = task_queues[v]
        BY <2>5
      <4>4. WholeOf(Places(task_queues, result_queue, results[l], loader[l].out),
                    l, loader[l].epoch, Asked(l))
        BY <3>1 DEF Whole
      <4> HIDE DEF t
      <4>5. WholeOf(Places(task_queues', result_queue', results[l], loader[l].out),
                    l, loader[l].epoch, Asked(l))
        BY <4>1, <4>2, <4>3, <4>4, TaskDone
      <4>6. Asked(l)' = Asked(l)
        BY <1>0 DEF Asked
      <4> QED BY <1>0, <4>5, <4>6 DEF Whole
    <3> QED BY <3>2, <3>3
  <2>7. \A l \in Loaders :
          \/ ~Concerns(t, l) /\ (l \in worker'[w].fns <=> l \in fns)
          \/ Is(t, l, "call") /\ (l \in worker'[w].fns <=> l \in fns)
    BY <2>1 DEF Concerns, Is
  <2> QED BY <1>0, <2>1, <2>3, <2>4, <2>6, <2>7, TakenCommand
<1>8. CASE Follow(w, t)
  <2>1. /\ t.cmd \in {"barrier", "finalize", "fn"} /\ result_queue' = result_queue
        /\ \/ \E pc \in {"barrier", "client_barrier"} : Becomes(w, pc, fns)
           \/ worker' = worker
    BY <1>8 DEF Follow
  <2>2. /\ worker' \in [Workers -> WorkerFields]
        /\ worker'[w].pc # "KeyError" /\ worker'[w].fns = fns
        /\ \A v \in Workers : v # w => worker'[v] = worker[v]
    <3>1. CASE \E pc \in {"barrier", "client_barrier"} : Becomes(w, pc, fns)
      BY <1>0, <1>3, <3>1, BecomesFields
    <3>2. CASE worker' = worker
      BY <1>0, <3>2 DEF Types
    <3> QED BY <2>1, <3>1, <3>2
  <2>3. \A l \in Loaders : ~loader[l].left => Whole(l)'
    BY <1>0, <2>1, OtherCommand
  <2>4. \A l \in Loaders : ~Concerns(t, l) /\ (l \in worker'[w].fns <=> l \in fns)
    BY <2>1, <2>2 DEF Concerns
  <2> QED BY <1>0, <1>3, <2>1, <2>2, <2>3, <2>4, TakenCommand
<1> QED BY <1>0, <1>5, <1>6, <1>7, <1>8

\* All workers go on at once, from a barrier.
LEMMA WorkersGoOn ==
    ASSUME IInv, NEW pc \in {"poll", "exit"},
           worker' = [w \in Workers |-> [worker[w] EXCEPT !.pc = pc]],
           UNCHANGED <<loader, task_queues, result_queue, results, current_proc_id, broadcasts>>,
           main' \in MainFields, InCall'
    PROVE  IInv'
<1>1. ASSUME NEW w \in Workers
      PROVE  worker'[w] \in WorkerFields /\ worker'[w].pc = pc /\ worker'[w].fns = worker[w].fns
  <2>1. worker[w] \in WorkerFields /\ worker'[w] = [worker[w] EXCEPT !.pc = pc]
    BY DEF IInv, Types
  <2> QED BY <2>1 DEF WorkerFields
<1>2. worker' \in [Workers -> WorkerFields]
  BY <1>1
<1>3. Types' /\ Sorted'
  BY <1>2 DEF IInv, Types, Sorted
<1>4. \A l \in Loaders : Progress(l)'
  BY SameProgress DEF IInv
<1>5. \A l \in Loaders : ~loader'[l].left => Whole(l)'
  BY SameWhole, SameAsked, KeptSame DEF IInv
<1>6. \A w \in Workers : Knows(w)'
  BY <1>1 DEF IInv, Knows
<1> QED BY <1>3, <1>4, <1>5, <1>6 DEF IInv

LEMMA PassBarrierStep ==
    ASSUME IInv, PassBarrier PROVE IInv'
<1>1. main' \in MainFields /\ InCall'
  BY DEF PassBarrier, IInv, Types, InCall
<1> QED BY <1>1, WorkersGoOn DEF PassBarrier

LEMMA PassClientBarrierStep ==
    ASSUME IInv, PassClientBarrier PROVE IInv'
<1>1. main' \in MainFields /\ main'.pc = "join"
  BY DEF IInv, Types, PassClientBarrier, MainFields
<1>2. InCall'
  BY <1>1 DEF InCall
<1> QED BY <1>1, <1>2, WorkersGoOn DEF PassClientBarrier

-----------------------------------------------------------------------------
(* The theorems *)

LEMMA InitIInv ==
    ASSUME Init PROVE IInv
<1> DEFINE start == [pc |-> "new", epoch |-> 0, current_pos |-> 0, num_pending |-> 0,
                     recv_idxs |-> 0, out |-> <<>>, left |-> FALSE]
<1>1. /\ loader = [l \in Loaders |-> start]
      /\ main = [pc |-> "idle", loader |-> CHOOSE l \in Loaders : TRUE]
      /\ task_queues = [w \in Workers |-> <<>>] /\ result_queue = <<>>
      /\ results = [l \in Loaders |-> <<>>] /\ current_proc_id = 0 /\ broadcasts = 0
      /\ worker = [w \in Workers |-> [pc |-> "poll", fns |-> {}]]
  BY DEF Init
<1>2. /\ start \in LoaderFields /\ start.pc = "new" /\ start.epoch = 0 /\ start.current_pos = 0
      /\ start.num_pending = 0 /\ start.recv_idxs = 0 /\ start.out = <<>>
  BY DEF LoaderFields
<1> HIDE DEF start
<1>3. (CHOOSE l \in Loaders : TRUE) \in Loaders
  BY PoolAssumption
<1>4. main \in MainFields /\ main.pc = "idle"
  BY <1>1, <1>3 DEF MainFields
<1>5. \A l \in Loaders : loader[l] = start /\ results[l] = <<>>
  BY <1>1
<1>6. Types
  <2>1. 0 \in Workers /\ 0 \in 0..MaxBroadcasts
    BY Sizes, PoolAssumption DEF Workers
  <2>2. worker \in [Workers -> WorkerFields]
    BY <1>1 DEF WorkerFields
  <2>3. <<>> \in Seq(AnyCall) /\ <<>> \in Seq(Commands)
    OBVIOUS
  <2>4. loader \in [Loaders -> LoaderFields] /\ results \in [Loaders -> Seq(AnyCall)]
    BY <1>1, <1>2, <2>3
  <2>5. task_queues \in [Workers -> Seq(Commands)]
    BY <1>1, <2>3
  <2> QED BY <1>1, <1>4, <2>1, <2>2, <2>3, <2>4, <2>5 DEF Types
<1>7. Sorted
  <2> SUFFICES ASSUME NEW l \in Loaders
               PROVE  loader[l].out \in Seq(Call(l)) /\ results[l] \in Seq(Call(l))
    BY DEF Sorted
  <2>1. <<>> \in Seq(Call(l))
    OBVIOUS
  <2> QED BY <1>2, <1>5, <2>1
<1>8. InCall
  BY <1>4 DEF InCall
<1>9. ASSUME NEW l \in Loaders PROVE Progress(l)
  <2>1. Asked(l) = 0
    BY <1>2, <1>5 DEF Asked
  <2>2. Position(l, 0) = 0
    BY Sizes DEF Position
  <2>3. expected_idxs(l) \in Nat /\ 0 <= queue_size[l] /\ 0 <= MaxEpochs[l]
    BY Expected, Sizes
  <2>4. Len(loader[l].out) = 0
    BY <1>2, <1>5
  <2> QED BY <1>2, <1>5, <2>1, <2>2, <2>3, <2>4 DEF Progress
<1>10. ASSUME NEW l \in Loaders PROVE Whole(l)
  <2> DEFINE C == Places(task_queues, result_queue, results[l], loader[l].out)
  <2>1. Mine(<<>>, l) = {}
    BY DEF Mine
  <2>2. /\ \A w \in Workers : Mine(task_queues[w], l) = {}
        /\ Mine(result_queue, l) = {} /\ Mine(results[l], l) = {} /\ Mine(loader[l].out, l) = {}
    BY <1>1, <1>2, <1>5, <2>1
  <2>3. \A x \in Slots : Mine(C[x], l) = {}
    BY <2>2, PlacesOf
  <2> HIDE DEF C
  <2>4. WholeOf(C, l, loader[l].epoch, 0)
    BY <2>3, NoneMine
  <2>5. Asked(l) = 0
    BY <1>2, <1>5 DEF Asked
  <2> QED BY <2>4, <2>5 DEF Whole, C
<1>11. ASSUME NEW w \in Workers PROVE Knows(w)
  <2>1. worker[w].pc = "poll" /\ worker[w].fns = {} /\ Len(task_queues[w]) = 0
    BY <1>1
  <2>2. \A i \in 1..Len(task_queues[w]) : FALSE
    BY <2>1
  <2> QED BY <1>2, <1>5, <2>1, <2>2 DEF Knows, Commanded
<1> QED BY <1>6, <1>7, <1>8, <1>9, <1>10, <1>11 DEF IInv

LEMMA NextIInv ==
    ASSUME IInv, [Next]_vars PROVE IInv'
<1>0. main.loader \in Loaders
  BY DEF IInv, Types, MainFields
<1>1. CASE \E l \in Loaders : Create(l) \/ Delete(l) \/ Iter(l) \/ CallNext(l)
  BY <1>1, CreateStep, DeleteStep, IterStep, CallNextStep
<1>2. CASE \E cmd \in {"barrier", "fn"} : Broadcast(cmd)
  BY <1>2, BroadcastStep
<1>3. CASE ClosePool \/ Leave
  BY <1>3, ClosePoolStep, EnterClientBarrierStep, PassClientBarrierStep, JoinStep DEF Leave
<1>4. CASE RequestNextBatch
  BY <1>0, <1>4, RequestNextBatchStep
<1>5. CASE AwaitResult
  BY <1>5, AwaitResultStep
<1>6. CASE StopIteration
  BY <1>0, <1>6, StopIterationStep
<1>7. CASE Fetch
  BY <1>7, FetchStep
<1>8. CASE Return
  BY <1>0, <1>8, ReturnStep
<1>9. CASE \E w \in Workers : Poll(w)
  BY <1>9, PollStep
<1>10. CASE PassBarrier
  BY <1>10, PassBarrierStep
<1>11. CASE Over \/ UNCHANGED vars
  BY <1>11, StutterStep DEF Over
<1> QED BY <1>1, <1>2, <1>3, <1>4, <1>5, <1>6, <1>7, <1>8, <1>9, <1>10, <1>11
        DEF Next, Trainer, InNext

\* The invariant: all that the loaders requested, and nothing else, is in the
\* queues, and every worker knows the functions that its commands need.
THEOREM Invariance == Spec => []IInv
  BY InitIInv, NextIInv, PTL DEF Spec

\* Every variable keeps its type (TypeOK): submit_task always names a queue, and
\* no batch begins outside of the dataset.
THEOREM TypeCorrect == Spec => []TypeOK
<1>1. ASSUME IInv PROVE TypeOK
  <2>0. Types
    BY <1>1 DEF IInv
  <2>1. ASSUME NEW l \in Loaders
        PROVE  /\ loader[l].pc \in {"new", "open", "loop", "stopped", "deleted"}
               /\ loader[l].epoch \in 0..MaxEpochs[l] /\ loader[l].left \in BOOLEAN
               /\ loader[l].current_pos \in 0..dataset[l]
               /\ loader[l].recv_idxs \in Nat /\ loader[l].num_pending \in Nat
               /\ loader[l].out \in Seq(Commands) /\ results[l] \in Seq(Commands)
    <3>1. Progress(l) /\ MaxEpochs[l] \in Nat /\ dataset[l] \in Nat
      BY <1>1, Sizes DEF IInv
    <3>2. loader[l].epoch \in 0..MaxEpochs[l]
      BY <2>0, <3>1, LoaderOf DEF Progress
    <3>3. loader[l].current_pos \in 0..dataset[l]
      <4>1. loader[l].current_pos \in Nat /\ Asked(l) \in Nat
        BY <2>0, LoaderOf DEF Asked
      <4>2. Asked(l) * batch_size \in Nat
        BY <4>1, Sizes, Multiples
      <4>3. loader[l].current_pos = Position(l, Asked(l))
        BY <3>1 DEF Progress
      <4> QED BY <3>1, <4>1, <4>2, <4>3 DEF Position
    <3>4. AnyCall \subseteq Commands
      BY DEF AnyCall, Commands
    <3>5. loader[l].out \in Seq(Commands) /\ results[l] \in Seq(Commands)
      BY <2>0, <3>4, LoaderOf
    <3> QED BY <2>0, <3>2, <3>3, <3>5, LoaderOf
  <2>2. AnyCall \subseteq Commands
    BY DEF AnyCall, Commands
  <2>3. result_queue \in Seq(Commands)
    BY <2>0, <2>2 DEF Types
  <2>4. /\ main \in [pc : {"idle", "request", "get", "KeyError", "assert", "collect",
                           "client_barrier", "join", "done"}, loader : Loaders]
        /\ task_queues \in [Workers -> Seq(Commands)] /\ current_proc_id \in Workers
        /\ broadcasts \in 0..MaxBroadcasts
    BY <2>0 DEF Types, MainFields
  <2>5. worker \in [Workers -> [pc : {"poll", "barrier", "client_barrier", "exit", "KeyError"},
                                fns : SUBSET Loaders]]
    BY <2>0 DEF Types, WorkerFields
  <2> QED BY <2>1, <2>3, <2>4, <2>5 DEF TypeOK
<1> QED BY <1>1, Invariance, PTL

\* Only loops left early make the pool fail (OnlyLeftLoopsFail): init_process
\* never misses a collate function, the assertion of __next__ holds, and
\* get_result meets a deleted loader only if its loop was left.
THEOREM OnlyLeftFail == Spec => []OnlyLeftLoopsFail
<1>1. IInv => OnlyLeftLoopsFail
  BY DEF IInv, Knows, InCall, OnlyLeftLoopsFail
<1> QED BY <1>1, Invariance, PTL

\* num_pending counts what is under way (PendingAccounted): __next__ never
\* awaits a result that nobody will put, nor requests more than queue_size.
THEOREM PendingCounted == Spec => []PendingAccounted
<1>1. ASSUME IInv PROVE PendingAccounted
  <2> SUFFICES ASSUME NEW l \in Loaders, ~loader[l].left
               PROVE  /\ loader[l].num_pending <= queue_size[l]
                      /\ loader[l].num_pending = Cardinality(UnderWay(l))
    BY DEF PendingAccounted
  <2>1. Types /\ Sorted /\ Progress(l) /\ Whole(l)
    BY <1>1 DEF IInv
  <2>2. Cardinality(UnderWay(l)) = loader[l].num_pending
    BY <2>1, PendingPlaces
  <2> QED BY <2>1, <2>2 DEF Progress
<1> QED BY <1>1, Invariance, PTL

\* An epoch that ends has given every batch once (EpochExact), for every
\* dataset, batch size, drop_last, number of workers and of loaders.
THEOREM EpochsExact == Spec => []EpochExact
<1>1. ASSUME IInv PROVE EpochExact
  <2> SUFFICES ASSUME NEW l \in Loaders, loader[l].pc = "stopped", ~loader[l].left
               PROVE  /\ IsInjective(loader[l].out)
                      /\ Range(loader[l].out) = {[cmd |-> "call", loader |-> l, batch |-> p,
                                                  epoch |-> loader[l].epoch] : p \in Starts(l)}
    BY DEF EpochExact
  <2> DEFINE out == loader[l].out
             n == Len(out)
             e == loader[l].epoch
             k == Asked(l)
             C == Places(task_queues, result_queue, results[l], out)
             o == <<"out", 0>>
             T(p) == [cmd |-> "call", loader |-> l, batch |-> p, epoch |-> e]
  <2>1. Types /\ Sorted /\ Progress(l) /\ Whole(l)
    BY <1>1 DEF IInv
  <2>2. /\ loader[l].num_pending = 0 /\ n = loader[l].recv_idxs /\ out \in Seq(Call(l))
        /\ AllReceived(l) /\ k <= expected_idxs(l)
    BY <2>1 DEF Progress, Sorted
  <2>3. k = expected_idxs(l) /\ n = k
    <3>1. loader[l].recv_idxs \in Nat /\ expected_idxs(l) \in Nat
      BY <2>1, LoaderOf, Expected
    <3>2. k = loader[l].recv_idxs /\ loader[l].recv_idxs >= expected_idxs(l)
      BY <2>2, <3>1 DEF Asked, AllReceived
    <3> HIDE DEF k, n
    <3> QED BY <2>2, <3>1, <3>2
  <2>4. /\ \A x \in Slots : Once(C[x], l, e)
        /\ UNION {Batches(C[x], l) : x \in Slots} = First(k)
    BY <2>1 DEF Whole, WholeOf
  <2>5. o \in Slots /\ C[o] = out
    BY PlacesOf
  <2>6. Once(out, l, e) /\ Batches(out, l) \subseteq First(k)
    BY <2>4, <2>5
  <2>7. Mine(out, l) = DOMAIN out /\ IsFiniteSet(Batches(out, l)) /\ Cardinality(Batches(out, l)) = n
    BY <2>2, <2>6, OutBatches
  <2>8. Batches(out, l) = First(k)
    <3>1. k \in Nat
      BY <2>3, Expected
    <3>2. IsFiniteSet(First(k)) /\ Cardinality(First(k)) = k
      BY <3>1, FirstProperties
    <3> QED BY <2>3, <2>6, <2>7, <3>2, FS_Subset
  <2>9. Batches(out, l) = Starts(l)
    BY <2>3, <2>8, EpochBatches
  <2>10. ASSUME NEW i \in DOMAIN out PROVE out[i] = T(out[i].batch)
    <3>1. out[i] \in Call(l)
      BY <2>2, ElementOfSeq, LenProperties
    <3>2. out[i].epoch = e
      BY <2>6, <2>7 DEF Once
    <3> QED BY <3>1, <3>2 DEF Call
  <2>11. IsInjective(out)
    BY <2>6, <2>7 DEF Once, IsInjective
  <2>12. Range(out) = {T(p) : p \in Starts(l)}
    <3>1. \A i \in DOMAIN out : out[i].batch \in Starts(l)
      BY <2>7, <2>9 DEF Batches
    <3>2. \A p \in Starts(l) : \E i \in DOMAIN out : out[i].batch = p
      BY <2>7, <2>9 DEF Batches
    <3> HIDE DEF T
    <3> QED BY <2>10, <3>1, <3>2 DEF Range
  <2> QED BY <2>11, <2>12
<1> QED BY <1>1, Invariance, PTL
=============================================================================
