# Verification of dgl-ascend

TLA+ models, TLC runs and TLAPS proofs for the concurrent parts of dgl-ascend,
the Deep Graph Library with an Ascend NPU backend. Paths below are relative to
the repository.

## 1. The system and its parts

**Distributed training** (`python/dgl/distributed`, `src/rpc`). Servers keep a
partition of the graph and of its features; trainers and sampler processes are
their clients. Every Python request goes through the C++ RPC layer:
`rpc.py` -> `rpc.cc` -> `SocketSender` -> TCP -> `SocketReceiver`.

**GraphBolt** (`graphbolt/`, `python/dgl/graphbolt`). The sampling and feature
loading pipeline of a trainer, with C++ caches for features that do not fit
into memory.

**Runtime and kernels** (`src/runtime`, `src/array`, `src/graph`). Thread pool,
device APIs (CPU, CUDA, Ascend), workspace pools, graph data structures and
numeric kernels.

| component | state it keeps | operations | interacts by | what is hard | what makes it correct |
|---|---|---|---|---|---|
| RPC message queue (`msg_queue.cc`) | FIFO of messages, free bytes, producers that finished, exit flag | Add, Remove (blocking or not), SignalFinished, Empty, EmptyAndNoMoreAdd | mutex, two condition variables | lost wake-ups, messages of different sizes, closing while a thread waits | FIFO, bytes add up, nobody sleeps for ever, nothing is left behind at the close |
| Socket communicator (`socket_communicator.cc`, `socket_pool.cc`, `semaphore_wrapper.cc`) | a queue per connection, one semaphore, epoll pools, partly received messages | Send, SendLoop, RecvLoop, Recv, RecvFrom, Finalize | TCP, queues, semaphore | one semaphore for many queues, several sockets per thread, partial reads, shutdown | RPC messages are put together from their own parts in order; both sides finish |
| Cache policies and CPU feature cache (`cache_policy.{h,cc}`, `feature_cache.cc`, `cpu_feature_cache.py`) | key index, FIFO/LRU lists, hand, ghost queue, reference counts, rows | Query, QueryAndReplace, Replace, ReadingCompleted, WritingCompleted | mutex for the policy, atomic counts for the rows | rows are used after the mutex is released; EndUse races with Evict; Evict spins | an entry in use is never evicted, readers get the row of their key, calls return |
| Partitioned cache policy | policies, mutex | the same, in parallel over partitions | parallel_for, mutex unlocked by the last task | mutex released by another thread | as above, per partition |
| RPC context and Python protocol (`rpc.cc`, `rpc.py`, `rpc_server.py`, `rpc_client.py`, `role.py`) | client registry, namebooks, roles, barrier counts, sequence numbers | register, send/recv request/response, remote_call, barrier, shutdown | RPC messages | late answers after a timeout, client numbering by each server, barrier reuse | all servers agree on client ids; a barrier releases nobody early; every server shuts down |
| KVStore (`kvstore.py`) | named tensors, partition policies, push/pull handlers | init_data, push, pull, delete_data, barrier | RPC, shared memory | asynchronous push, groups of servers, several writers | only an overtaken push can kill a server, every push is applied, with the newest handler; what a pull after a barrier sees is in section 4 |
| Sampler pool (`dist_context.py`, `dist_dataloader.py`) | process queues, collate functions, results | submit_task, get_result, set/delete_collate_fn, exit_client | multiprocessing queues, barriers | results of a deleted loader, the exit of workers with unread results | every task has one result, for the right loader; the pool can be closed |
| Concurrent id hash map, io_uring reader | hash slots, queue slots | insert/lookup, submit/complete | compare-and-swap, semaphores | races | unique ids get one slot; slots are not reused early |
| Thread pool, workspace pool, shared memory, Ascend device API | tasks, free pages, names, streams | push/pop, alloc/free, create/open | locks, OS | wake-ups, reuse order | no task lost, no page handed out twice |
| Graph structures, kernels, data sets, NN modules, tools | arrays | numeric | calls | size | unit tests; out of a model checker's reach |

`PROJECT.json` lists every component with its status and, under `hazards`, the
places where the code is hard to test.

## 2. Modules

A definition ending in `_Bug` is a faulty variant of the definition after it
(a dropped guard, a missing notify ...). No specification uses it; it is there
to show that the properties can fail.

### MessageQueue, ClosableQueue

`MessageQueue` models `MessageQueue` of `msg_queue.cc`. Its variables have the
names of the members. One action is one critical section, since everything
happens under `mutex_`: `Add` and `Remove` run up to their first wait,
`AddResume` and `RemoveResume` are what a woken thread does when it evaluates
the predicate of its `condition_variable` again, `SignalFinished` closes.
`pc[t]` says whether a thread is outside a call, asleep, or notified and not yet
running. `NotifyOne` wakes any sleeper; `SpuriousWakeup` is what the standard
allows. A message is its producer, its size and `at`, the number of bytes that
were added before it: `inBytes` and `outBytes` are history counters for the
properties. `OwnSignal` separates the two ways the code closes a queue: a
producer signals for itself (`SocketSender`), or another thread signals while
the producer may be inside `Add` (`SocketReceiver::Finalize`). The run `mq` is the first
case, `mq_foreign_close` the second: there the signal comes when the queue is empty, which is what
`Finalize` has just seen.

`ClosableQueue` is what the queue promises: a bounded FIFO of bytes that is
closed once, and whose consumers end only when it is closed and empty. It has
no threads, locks or sleepers. `MessageQueue!ImplementsClosableQueue` is the
refinement.

### SocketCommunicator

`num_sender` senders, each with its queue and `SendLoop`, and one receiver with
a queue per sender, `max_thread_count` `RecvLoop` threads (sender `i` belongs to
thread `i % max_thread_count`) and one application thread in `Recv`. The queues
are closable queues of one-unit messages, which is what `ClosableQueue`
promises, except that the action `AddBlocked` keeps the one thing a blocked
`Add` does in addition: it does not look at the close again.

* An RPC message is a meta message with the number of its ndarrays, then the
  ndarrays (`StartRpc`, `SendPart`; `Received` puts them together again).
* On the wire a message is a size and its data, which may arrive in separate
  events; `ctx` is `RecvContext`. Size and data are the atoms; their bytes are not.
* `GetActiveSocket` is one round of `RecvLoop` up to `Add`: epoll, pending
  events, sockets that were removed, the end signal, a queue that was closed.
* `TimedWait` succeeds only; a timeout changes no state and the callers loop.
* Deliberately kept: the end signal on a shared thread falls through to `Add`
  (refused, it has no bytes) and `Post`.
* `Configs` are the numbers of threads and queue sizes an instance may have, `ArraysOf` the numbers of
  ndarrays that the RPC messages of a sender may have (a bound of the instance).
* `Starved` is the deadlock of a shared thread: it is blocked in `Add` of one sender's full queue while
  `Recv` has the meta message of another sender of this thread and waits for the ndarray.

### CachePolicy

The four policies of `cache_policy.h` in one module, chosen by the variable
`policy`, which never changes; the parts in which they differ are small (`Touched`, `Cooled`,
`FromSmall`, the hand). Lists hold keys, front first; a `CacheKey*` is its key.

* A call takes `mtx_` (`Lock`), handles its keys one by one (`StartRead`,
  `StartReadThrows`, `MissBeingWritten`, `Miss`, `Insert`), releases the mutex
  (`Unlock`), and then, without it, uses the rows and drops its references:
  `EndRead`, `Fetch` (`reader_fn`), `WriteRows`, `EndWrite`, `Return`.
* `Evict` has one action per iteration of its loops (`PassSmall`, `EvictSmall`,
  `PassBack`, `EvictBack`, `PassHand`, `EvictHand`), so that an `EndUse` of
  another client can come between any two.
* `reference_count_` is an `int8_t`: `MaxRef` stands for 127, and `Wrap` is the
  wrap-around of `fetch_add`. `StartReadThrows` is the `TORCH_CHECK` that fails
  after the count has wrapped; the exception releases the mutex and the
  references of the call stay.
* The capacity check for unique positions is not an action: `RowsUnique` shows
  that it can not fail.
* `SmallTarget` and `GhostCapacity` stand for the code's `capacity / 10` and
  `capacity - capacity / 10`, which need a capacity of ten.
* `tensor` holds the key and version of every row, `source` the versions in the
  fallback storage; `Update` is `CPUCachedFeature.update(value, ids)`. Without `ids`, `update` replaces the
  fallback and makes a new cache, which is a new instance of this module; that is not an action of it.

### RpcSession, GroupBarrier

The life of one client group with its servers, from `connect_to_server` to
`exit_client`. `client[c].pc` is the request whose answer a client waits for (or
`start`, `accept`, `work`, `shutdown`, `final`, `done`); `server[s]` is the loop of
`start_server` with its `recv_clients` and its `client_namebook`. Requests and answers
travel in first-in first-out channels, one for each pair, and a receiver takes the
next message of any channel: this is what `SocketCommunicator` provides
(`MessagesIntact`).

* `Register`, `AcceptServers` and `Receive` are `connect_to_server` and `init_role`:
  register at every server, wait until all have connected back, learn the own number,
  ask for the number of clients, register the role, fetch the roles.
* `Serve` is one turn of the server's loop: `recv_request` and the whole
  `process_request` of the request (`HandleRegister` ... `HandleShutdown`), its
  responses included. `ConnectBack` is the part of the loop that runs when a group is complete.
* `GLOBAL_RANK` is the numbering that `init_role` computes from the role table.
* `EnterKvBarrier` is `KVClient.barrier` (counted for each role), `EnterBarrier`
  is `client_barrier` (counted for the group), called by the application, `MaxBarriers` times, and at last by
  `exit_client`; `GoesOn` says what follows it. Collective calls must come in the same order at every client; the model has
  those of `client_barrier` first, then those of `KVClient.barrier`.
* `recv_response` raises when an answer is not for this client; the model also treats an answer to
  another question as a failure (`"failed"`), since the code then uses a response of the wrong type.
* `HandleShutdown`: a request that has already arrived in a queue of a server that shuts down
  is never taken and `finalize_receiver` waits for ever (`"hung"`); one that is still
  under way is refused.

`GroupBarrier` is what a barrier promises to groups of processes that call it again
and again: nobody returns before its whole group has made the call. Both barriers of the
session are shown to implement it, with different counters as refinement mappings.

### KVStore

One named tensor with one row on each machine, in shared memory that the main server of
a machine creates and its backup servers map. All clients run the same `Script`; the
collective calls are sequences of its steps as in the code (`init_data` is a barrier, the
requests to the group, a barrier, the mapping by clients and backups, a barrier). Between them, in `work`,
clients push and pull. A push to the own machine is done by the client in two steps
(`PushLocal`, `WriteLocal`), one to another machine by a server of it in two (`PushRequest`,
`Write`), because the handlers read and then write rows without a lock. A row is the set of the
pushes it shows. An uncaught error in `process_request` ends a server (`Die`, with the request it died of).
The channels are those of RpcSession; of the answers only their number matters.

The module assumes of the program (`ProgramAssumption`) what the code asserts or cannot do without: collective calls are
made as a whole by all clients (a barrier returns to nobody before), `init_data` only when there is no tensor of the name
(it asserts this), pushes, pulls and `register_push_handler` only when there is one (`push` and `pull` look its policy
up at the client; a handler registered before would be replaced by the default one), and every machine has a client, which alone creates the part
of its machine. That a tensor exists when it is deleted is asserted by the code too; the proofs do not need it.

### SamplerPool

A trainer with its loaders, the command queue of each worker and the result queue they
share. The trainer is one thread: `main.pc` is `request` while `__next__` requests batches
(`CallNext`, then one `RequestNextBatch` for each), `get` while it is inside `get_result`.
`num_reqs` is computed before the requests; since each adds one to `num_pending`, the model asks before each
of them whether `queue_size - num_pending` is still positive. Requests for which `_next_data` returns `None` change nothing and are left out.
A batch is the position it starts at; `epoch` in a command is history, for `EpochExact`.
`left` remembers that a loop was left before its end, which is what the exceptions in the
properties are about.

The pool is closed as in `exit_client` of the trainer: `ClosePool` sends `FINALIZE_POOL` to the workers, `gc.collect`
may still delete loaders (`collect`: their `DELETE_COLLATE_FN` comes after the `FINALIZE_POOL` and is never
read), then the trainer enters `client_barrier`. A worker that takes `FINALIZE_POOL` calls `exit_client` too
and waits in the same barrier (`Follow`). It passes when all are there (`PassClientBarrier`); then the
worker processes end and the trainer joins them. The process of a worker does not end while its results are neither read nor written to the pipe of
`result_queue`, which takes `PipeSize` of them (`Flushed`). The other clients of the group are
assumed to call `client_barrier` at some time; what `exit_client` does with the servers is in RpcSession.

## 3. Runs

| run | instance | shows |
|---|---|---|
| `mq` | 2 producers, 2 consumers, 3 bytes, sizes 0, 1, 3 and 4, 2 calls each, fairness | `Accounting`, `NoStrandedProducer`, `NoStrandedConsumer`, `DrainedAtClose`, `BlockedCallsReturn`, refinement of `ClosableQueue` |
| `mq_foreign_close` (violation) | 1 producer, 1 consumer, another thread closes the queue when it is empty | a message is added to the closed queue |
| `socket` | 2 senders of 2 RPC messages each, one of them with an ndarray; a thread per socket with queues of 1, or one thread for both with queues of 1 or 2; fairness | `MessagesIntact`, `SemaphoreCounts`, `DataFollowsMeta`, `AllFinish` |
| `cache_reads` | all policies, 2 rows, 3 keys, ghost queue of 2, 2 clients that read batches of up to 2 keys, a key twice included, symmetry | `IndexConsistent`, `RowsUnique`, `NoEvictionInUse`, `ReadersSeeTheirRow`, `RefCountsUse`, `GhostsConsistent` |
| `cache_writes` | all policies and every call, 1 row, 2 keys, an update per key, `MaxRef` = 1 | `NoEvictionInUse` with leaked references, the overflow and batches that never get their rows |
| `cache_live` | SIEVE, batches up to `Capacity`, fairness | `LockReleased` |
| `cache_update` (violation) | `update` of a cached key | the old row is still served |
| `session` | 3 clients (2 trainers on 2 machines, 1 sampler), 2 servers, 2 calls of `client_barrier` before the one of `exit_client`, 2 barriers of a role, a call or push of one client, fairness | `IdsAgree`, `AnswersMatch`, `RanksAgree`, `BarrierFlushesServer0`, both barriers implement `GroupBarrier`, `AllExit` |
| `kvstore` | 3 clients, 2 machines with a main and a backup server, a tensor is created, written, given a handler, written, deleted, created anew and written, fairness | `OnlyOvertakenPushesFail`, `HandlerNotOutdated`, `AllApplied` |
| `kv_concurrent_writes` (violation) | 1 machine, 1 server, 2 clients that add to a row | an add is lost |
| `kv_pull_after_barrier` (violation) | 2 machines with a main and a backup server, 2 clients that push, call barrier and pull | the pull is answered while a push from before the barrier is on its way |
| `sampler` | 2 loaders, 2 workers; one loader may be left early and has a smaller last batch, the other drops it; a broadcast, 2 epochs and 1; the pool is closed at any time with a pipe that takes 1 result; fairness | `EpochExact`, `OnlyLeftLoopsFail`, `PendingAccounted`, `NextReturns`, `PoolCloses` |

**Bounds.** Message queue: sizes 1 and 3 in 3 bytes make a small producer and a
large one wait for each other, and two calls per producer make the second one
meet a queue that is full, closing or closed; 0 and 4 are the refused sizes. That a blocked `Add` returns
also relies on the bound on the calls of its competitors: smaller messages could otherwise be added ahead of a large one for ever.
Sockets: two senders are the fewest that can be mixed up; `WireSize` 2 lets a size
arrive with or without its data. With queues of 1 and 2 a second RPC message of one sender blocks a shared thread in `Add`
while the other sender's ndarray is awaited; one ndarray, in the first message of one sender and the second of the other, is enough
for a meta message to be followed by its data or by the next one. The run does not check for deadlock, since a `Recv` that starves
really stops everything; `AllFinish` says that nothing else does. Cache: two rows and three keys with two
clients make inserts evict while the other client holds entries, and a batch
of `Capacity` keys is the largest that can be inserted. `MaxRef` 1 makes the
overflow happen; the other runs use 127. Session: three clients register in every order
at two servers that number them separately; two rounds of each barrier let a fast client enter the second while a
slow one has not left the first, and the third client is of another role; one client
that calls or pushes is enough for a request to meet the barriers and the shutdown. KVStore:
the working client is alone on its machine, so that its pushes and pulls go to main and backup of the
other one, during every collective call. Sampler: the first loader has both its batches
pending at once on two workers, the second one request at a time; an epoch of a loop that
was left is followed by another one; with a pipe that takes one result two unread results are too many. Histories are bounded only by the calls
of the models; the clients of the cache call for ever.

**Fairness.** Weak fairness of every thread or process that is inside a call or a loop of the
code: the kernel schedules it and the mutex goes to a woken thread. Nobody has to
start a call of the queue or of the cache: producers need not add or finish, cache clients need not call. In the
socket, session and KVStore models the application goes on with its program (it sends and receives
all its messages, gets to its barriers and exits), since the servers, which wait for all clients, can end in no
other way. In the sampler model the workers run, and the trainer only while it is inside
`__next__` or has begun `exit_client`; whether it calls `__next__` again or closes the pool is left open. The
barrier of `exit_client` is fair: the other clients of the group exit too. No strong
fairness is used, so nothing is said about a client that waits for `mtx_` while others take it again and again.

Every mutant in `PROJECT.json` replaces a definition by its `_Bug` variant; TLC then finds
the property violated.

## 4. Where code and documents disagree, and known limits

The violation runs contradict a line of the repository, quoted under `findings`.

1. `cache_update`: `Replace` of a cached key writes nothing, so the cache keeps the old
   row; it also starts a read that never ends, so the entry can not be evicted any more,
   and 128 such calls make the count overflow. `cache_writes` includes this
   behaviour and shows that it never leads to an eviction in use.
2. `kv_concurrent_writes`: the guide recommends one server process on a machine to avoid
   concurrent writes to a row. Clients write the rows of their own machine themselves, so two
   clients of one machine lose an update with one server too.
3. `mq_foreign_close`: `Add` looks at the close before it waits and not after. A producer that `Remove` has woken can lose its turn to
   `SocketReceiver::Finalize`, which finds the queue empty and signals for it; then it adds its message to the closed queue. With
   `OwnSignal` this can not happen, as nobody who signalled adds again.
4. `kv_pull_after_barrier`: a test writes a distributed tensor, calls the barrier and asserts what it reads. Pushes are not answered and the
   barrier is kept by server 0, so a push to another server may still be under way, and a pull of another client is answered before it.

Behaviour the models include, with properties that state exactly how far it goes:

* With fewer threads than sockets (`DGL_SOCKET_MAX_THREAD_COUNT`; the default is a
  thread per socket) a receiver thread can block in `Add` for one sender while `Recv` waits for the ndarray of another, and neither
  goes on. No size of the queue excludes it (20 GB by default): it is enough that what one sender sends ahead fills its queue. `DataFollowsMeta`
  and `AllFinish` say that this state (`Starved`) is the only one in which the receiver or a sender is stuck, and that it
  can not be left. With shared threads the end signal also posts the
  semaphore without a message (`SemaphoreCounts` speaks of a thread per socket).
* A batch of more keys than the cache has rows makes `Evict` spin under the mutex: the capacity check
  can not fail, since `Evict` never returns the row of an entry in use. S3-FIFO can spin
  even with a batch of `Capacity` keys: when they are all in the main queue and the entry
  that could be evicted is in the small queue, at its target size.
  `LockReleased` is checked for SIEVE and batches up to `Capacity`.
* `client_barrier` is counted by server 0 only. What clients sent to it before has then been handled
  (`BarrierFlushesServer0`); pushes to other servers may still be under way, and a pull, the shutdown
  or a `delete_data` may overtake them. `AllExit` and `OnlyOvertakenPushesFail` say that nothing else
  can keep a server from ending or make it die.
* A loop over a loader that is left early (`break`) does not take back its requests:
  the next epoch of the loader gets their results, and after `__del__` the loop of another
  loader fails with a `KeyError`. `OnlyLeftLoopsFail` and `EpochExact` say that nothing goes wrong otherwise; of a loop begun after one
  that was left they promise nothing.
* The results that nobody reads (of a loop that was left, or of requests ahead) keep a worker process from ending when the pipe does not
  take them, and the trainer joins the workers without reading: `exit_client` hangs. `PoolCloses` says that it returns unless more results are
  unread than the pipe takes.

## 5. Proofs

### MessageQueueProofs

For any sets of producers and consumers, any queue size, any message sizes and any number of calls:

| theorem | statement | assumes |
|---|---|---|
| `TypeCorrect` | `Spec => []TypeOK` | the constants' types |
| `BytesAccounted` | `Spec => []Accounting` | " |
| `ProducersNotStranded` | `Spec => []NoStrandedProducer` | " |
| `ConsumersNotStranded` | `Spec => []NoStrandedConsumer` | " |
| `CloseDrains` | `Spec => []DrainedAtClose` | `OwnSignal` |
| `QueueRefined` | `Spec => Abstract!SafetySpec` | `OwnSignal` |

The invariants are not inductive as they stand. Three facts strengthen them:

* `ArgOK`: a thread inside `Add` waits for a size in `1..queue_size`. Without it the
  bytes pushed after a wait could be anything, and an empty queue could leave a
  producer asleep.
* `ExitOK`: `exit_flag_` is set exactly when the queue is closed. `RemoveResume`
  tests the flag, `Remove` the set; a consumer may sleep only if both agree.
* `FinishedReady` (with `OwnSignal`): a producer that signalled is outside `Add`.
  With all producers finished nobody is left who could push; this is what fails
  when the signal is foreign.

`NoStrandedConsumer` is counted: every queued message has a woken consumer as long
as one sleeps. A push adds a message and wakes a sleeper, a pop by the woken
consumer removes both, and a pop by another one removes a message only.

`QueueRefined` is the safety part of the refinement: a push is `PutAny`, a pop is `Take`, the last
signal is `Close`, a consumer that is told `QUEUE_CLOSE` is `End`, all else is no step. It needs
`Accounting` (what fits into `free_size_` fits into the capacity), `DrainedAtClose` (a
consumer that was told never takes a message again) and, as the abstract queue puts nothing after the close, `FinishedReady` (lemma `ClosedStep`).

### CachePolicyProofs, ListLemmas

For any capacity, targets, keys, clients, batches and `MaxRef`, and for all four policies:
`TypeCorrect`, `IndexAgrees` (`IndexConsistent`), `RowsAreUnique` (`RowsUnique`), `InUseStays`
(`NoEvictionInUse`), `ReadersSafe` (`ReadersSeeTheirRow`), `GhostsAgree` (`GhostsConsistent`). All
follow from one inductive invariant, `IInv`:

* `Types`, `Locking` (the mutex is held exactly inside the loops of the policy, hence at most
  one client evicts) and `EvictState` (the entry being inserted is in the lists, without a row and
  being written, and all rows are given out).
* `Lists`: the lists have no duplicates and are disjoint, `map` is what is in them, and
  together they are as long as `usage`, plus the entry being inserted. Without
  the length the bounds of `TypeOK` do not follow.
* `RowOf`: rows given out are below `usage` and unique. A fresh row is `usage` itself,
  hence nobody's; an evicted entry leaves its row to the new one in the same step.
* `Pointers`: `reference_count_` is at least the number of pointers held for reading, where a
  wrapped count stands for `MaxRef + 1`. Equality (`RefCountsUse`) is not inductive once references
  leak (`StartReadThrows`, `Update`), the inequality is; and it is what keeps a used entry from
  count 0, which is all that `Evict` looks at. `EndRead` needs it too: the count it decrements is not 0.
* `Placed`: an entry to be written has count -1 and one writer.
* `RowData`: the row of an entry that nobody writes holds the feature of its key; this
  is what a reader relies on after the mutex was released.

Two more theorems state `RefCountsUse`, for clients that only `query` and `query_and_replace` (`ReadThrough`; `ReplaceImpl`
ignores the read that `Emplace` has started, so its count is never dropped). `CountsExact`: the counts are exact as long as no `StartRead`
throws. `CountsExactWithRoom`: they are exact without this condition when all the pointers the clients can hold, `MaxBatch` each, fit
into `MaxRef`. Their invariant `Exact` has the bound that `Pointers` lacks (a count that is not -1 is at most the number of
pointers, and -1 has a writer) and that a client has dropped its pointers before it writes or returns.
`Bounded` (the keys a call has left and the pointers it holds are at most `MaxBatch`) shows that `StartRead` can not throw: the pointers to one entry and the one that is
asked for have different places in the batches of the clients.

The operations on lists (`Without`, `ToFront`, push and pop) keep them free of duplicates and
change the set of their elements by one: these facts about sequences are in `ListLemmas`.

### RpcSessionProofs

For any number of clients and servers, roles, machines and bounds: `NumbersAgree`, `Spec => []IdsAgree`. The
invariant says that every namebook is empty or `Book`, in which every client has the place of its own address. It rests on

* `Requested`: a registration is the first message of its channel, and while it is under way
  its client is not among `recv_clients`. So nobody is registered twice (`Registered`), and a list of `num_clients`
  different clients is all of them: sorting makes its order irrelevant (`NumberedIsBook`);
* `Joined`: a client is past `AcceptServers` only when every server has its namebook, and carries its own number
  from then on. So every later request finds a namebook and asks under the sender's number;
* `Answered`: every answer to a client carries that client's number, which is what the client takes as its own.

### RpcDialogueProofs

The rest of the session, for any number of clients, servers, roles, machines, barriers, rounds and calls: `TypeCorrect`,
`Matched` (`AnswersMatch`), `RanksAgreed` (`RanksAgree`), `Server0Flushed` (`BarrierFlushesServer0`), and the two
refinements `RoleBarriersRefined` and `ClientBarrierRefined`. On top of the invariant of RpcSessionProofs, `DInv` says of
each client (`Own`):

* `Talk`: between a client and all servers together there is at most one request that is answered, as the last one
  of its channel, or at most one answer, of the kind that the client waits for. This is `AnswersMatch` made inductive: `recv_response`
  takes any message, and there is only one that it can take;
* `Joining`, `Knows`: no server numbers the clients twice, and no client goes on, or is told a role table, before the table
  is complete;
* `Round`, `Calls`: a client is in at most one barrier, and only its last `client_barrier` is followed by the shutdown;

and of all of them (`Joint`): the role table holds those whose registration was handled (`Table`), each counter is the number
of clients whose request was handled and who were not told (`KvCounts`, `ExitCount`) and never all of them, clients of a role have been told the same number
of times (`SameRound`), those of the group have been told to leave `client_barrier` the same number of times (`SameExit`), and
once that is the last time nothing before the shutdown is on its way to server 0 (`Exits`). A client leaves a barrier only with its
answer in hand; with `SameRound` and `SameExit` everybody of its group has then entered it as often, which is the guard of the
abstract `Pass`.

The ranks need more than the tables being equal. `GLOBAL_RANK` counts predecessors in an order by role, machine and number; the order of roles is
the order of their first entries, so it is total only because every role has a least entry. Counting predecessors in a strict total order is
injective into `0..num_clients - 1`, hence onto it; roles, and machines within them, are intervals of the order.

### SocketCommunicatorProofs

For any number of senders and receiver threads, queue and wire sizes and messages: `TypeCorrect`, `Intact` (`MessagesIntact`) and
`SemaphoreIsCount` (`SemaphoreCounts`).

* Every message has a *slot*: its RPC message and its part, and it determines the slot that follows. `Pipes` follows the way of
  one sender from the application to `Recv`: the queue, the TCP stream, the `RecvContext`, the message a thread is about to add
  and the receiver's queue each continue the chain of slots where the one after it ends. Each step takes a message at one end of a piece and puts it at the other,
  so the chain stays; what `Recv` takes from the queue is then the part it awaits.
* `Stream` is the chain within the TCP stream, where a message is two tokens: a size is followed by its own data, unless it is the last token and `SendLoop` is
  about to write the data, or the first and the context holds it.
* `Threads`: a thread reads only its own sockets, and events that are pending are of sockets that still have data.
* `Receiving`: nobody finalizes while parts are awaited, so that a closed queue never cuts an RPC message in two.
* The semaphore is counted over pairs of a sender and a place in its queue; with a thread for each socket no thread ever adds an end signal
  (`NoEndSignal`), which is where the count fails for shared threads.

### SamplerPoolProofs

For any loaders, workers, datasets, batch and prefetch sizes and epochs: `TypeCorrect`, `EpochsExact` (`EpochExact`),
`OnlyLeftFail` (`OnlyLeftLoopsFail`) and `PendingCounted` (`PendingAccounted`).

* `Whole` speaks of all places where a task or result of a loader can be: the task queues, the result queue, the fetched results
  and what came out. Of a loader whose loops were never left, each of the first `num_pending + recv_idxs` batches of the epoch is in exactly one of these
  places. A step moves one batch or adds the next one.
* `Progress`: `current_pos` is the position after so many batches, and they are at most `expected_idxs`. Together with the arithmetic (`Expected`, `NextData`:
  `_next_data` returns a batch as long as fewer than `expected_idxs` were cut, with and without `drop_last`) the assertion of
  `__next__` holds, and a loop that ends has had everything.
* `PendingPlaces`: the places that are under way and the batches that did not come out are in bijection, so `num_pending` counts them. Hence a loader with
  nothing pending has nothing in any queue, which is why a new epoch and a deletion are safe when no loop was left.
* `Knows`: in the queue of a worker the `set` of a loader precedes its tasks and the `delete` follows them, and a worker that has no
  `set` before it knows the function.

### KVStoreProofs

For any clients, machines, groups of servers, programs and bounds: `TypeCorrect`, `DiesOfOvertakenPushes`
(`OnlyOvertakenPushesFail`) and `AppliedWithNewestHandler` (`HandlerNotOutdated`). The first needs only `KVAssumption` and holds
for every `Script`; the other two need `ProgramAssumption`.

What makes them hold is not local: a push carries no answer and a server is told nothing about the others, so all
order comes from the barriers, which one server counts. The first invariant, `CInv`, is about requests on their way:

* `Channels`: a request that is not a push is the last one of its channel, and of the step its client is at;
  `Waits`: the servers that have such a request (`Awaiting`) are at most the missing answers. So a client that goes on leaves only pushes behind.
* `Counting`: `barrier_count` is the number of clients whose barrier request was taken (`Counted`), never all of them.
  With `Together`, all clients have passed the same barriers: when the last request comes all others are counted, and at the same barrier.
  Hence no client is more than a barrier ahead of another, and in a collective call all clients are in the same one.
* `Flushed`: server 0 has handled the pushes from before a barrier when the barrier is passed, since they are ahead of the
  barrier request in the same channel. This is why server 0 can not die of an overtaken push and any other server can.

The second one, `SInv`, is about what the servers have. `SomeHandled(s, i)` says that `s` has handled a request of the step at `i`.

* `InitOK`, `MapOK`, `RegisterOK`: from then on, until somebody reaches a `delete_data`, the server has policy and handler, the main server also data and shared memory,
  the backup server its data once it has mapped it, and the registered handler. The requests of one step come from several clients and
  meet servers that have handled none or some of them: a second `init` is ignored by a main server and repeats the first one at a backup server, and `map` finds
  the memory of the main server because a barrier is between them.
* `DataOK`: conversely, a server with data has not handled a later `delete_data`. Otherwise `init_data` would be taken for a duplicate and ignored,
  and the old handler or a missing memory would remain.
* `ClientsOK`, `Requests`, `BusyOK`: a push was sent with the handler of the last call before it (`SentWith`); `DeathOK`: the request that a server died of.

`WorkFinds` then says that a server has the tensor as long as nobody has reached a `delete_data` after the push was sent, and a handler at least as new follows from
`RegisterOK`.

### Only model-checked

* Liveness (`BlockedCallsReturn`, `DataFollowsMeta`, `AllFinish`, `LockReleased`, `AllExit`, `AllApplied`, `NextReturns`, `PoolCloses`, and
  the fairness of `ImplementsClosableQueue`): fairness and `ENABLED` are out of the prover's reach.
* `NoAddAfterClose`, `UpdatesVisible`, `AddsKept` and `PullsSeePushes` are violated, so there is nothing to prove.

Every other invariant and action property of the runs has a theorem.

## 6. Not modelled

* Sockets: connection set-up and broken connections (the code retries, then aborts the
  process), payloads and their memory, several receivers per sender.
* Cache: several partitions and the parallel tasks that release the mutex, the staged `read_async`
  generators, GPU caches and streams, `update` without `ids` (a new cache), the ring indices of the circular queue.
* Session: several client groups and long-lived servers, timeouts of `remote_call` and answers that
  come late, clients or servers that crash (the code has no recovery for them).
* KVStore: pull handlers, `map_shared_data`, `count_nonzero`, the standalone store, tensors of several
  rows (rows are independent of each other).
* Sampler pool: the 1800 s timeouts of the queues, workers that crash, loaders without workers,
  the other clients of the group (they are assumed to exit).
* The components marked `not_modelled` in `PROJECT.json`, with their reasons. Most of the repository is
  there: graph structures, numeric kernels, neural network modules, data sets and examples are
  sequential functions of large arrays, which a model of control does not describe.

## 7. Order of the work, and what is left

The modules were written from the bottom of the distributed stack upwards, and the cache beside it: MessageQueue,
SocketCommunicator (which uses what ClosableQueue promises), CachePolicy, RpcSession (which uses the channels of
SocketCommunicator), KVStore (which uses those of RpcSession), SamplerPool. What a later
version would add, most useful first:

1. `PartitionedCachePolicy` (parallel tasks and the mutex released by the last one) and the staged `read_async`.
2. `ConcurrentIdHashMap`, thread pool, workspace pool and shared memory.
