---------------------------- MODULE SamplerPool -----------------------------
(***************************************************************************)
(* The sampler processes of a trainer (dist_context.py: CustomPool and     *)
(* init_process) and the data loaders that share them                      *)
(* (dist_dataloader.py: DistDataLoader).                                   *)
(*                                                                         *)
(* The trainer is one thread.  It puts commands into one queue per worker  *)
(* and takes results from one queue that all workers share; __next__ of a  *)
(* loader keeps up to queue_size batches requested ahead.                  *)
(*                                                                         *)
(* A batch is the part of the loader's index it was cut from; what the     *)
(* collate function makes of it, and the shuffling of the index, are left  *)
(* out.                                                                    *)
(*                                                                         *)
(* A definition whose name ends in _Bug is a faulty variant of the one     *)
(* after it; no specification uses it.                                     *)
(***************************************************************************)
EXTENDS Integers, Sequences, FiniteSets, Functions

CONSTANTS
    Loaders,
    num_workers,
    queue_size,     \* loader -> batches it requests ahead
    dataset,        \* loader -> length of its dataset
    batch_size,
    DropLast,       \* the loaders with drop_last
    MayBreak,       \* the loaders whose loop the trainer may leave early
    PipeSize,       \* results that fit into the pipe of result_queue
    MaxEpochs,      \* bound: loader -> epochs it is iterated over
    MaxBroadcasts   \* bound: call_barrier and submit_task_to_all_workers

ASSUME PoolAssumption ==
    /\ Loaders # {}
    /\ num_workers \in Nat \ {0}
    /\ queue_size \in [Loaders -> Nat \ {0}]
    /\ dataset \in [Loaders -> Nat]
    /\ batch_size \in Nat \ {0}
    /\ DropLast \subseteq Loaders /\ MayBreak \subseteq Loaders
    /\ MaxEpochs \in [Loaders -> Nat] /\ MaxBroadcasts \in Nat
    /\ PipeSize \in Nat

Workers == 0..(num_workers - 1)

VARIABLES
    loader,             \* loader -> its fields; epoch, the batches of the epoch
                        \* that came out, and whether a loop was left early
    main,               \* the trainer: where it is, with which loader
    task_queues,        \* worker -> commands
    result_queue,
    results,            \* loader -> results fetched for it and not returned yet
    current_proc_id,    \* worker that gets the next task
    worker,             \* worker -> where it is, names in collate_fn_dict
    broadcasts          \* call_barrier and submit_task_to_all_workers made

vars == <<loader, main, task_queues, result_queue, results, current_proc_id, worker,
          broadcasts>>

Init ==
    /\ loader = [l \in Loaders |->
                   [pc |-> "new", epoch |-> 0, current_pos |-> 0, num_pending |-> 0,
                    recv_idxs |-> 0, out |-> <<>>, left |-> FALSE]]
    /\ main = [pc |-> "idle", loader |-> CHOOSE l \in Loaders : TRUE]
    /\ task_queues = [w \in Workers |-> <<>>]
    /\ result_queue = <<>>
    /\ results = [l \in Loaders |-> <<>>]
    /\ current_proc_id = 0
    /\ worker = [w \in Workers |-> [pc |-> "poll", fns |-> {}]]
    /\ broadcasts = 0

workerVars == <<task_queues, result_queue, worker>>

-----------------------------------------------------------------------------
(* CustomPool *)

\* The last worker is left out.
PutAll_Bug(cmd, l) ==
    task_queues' = [w \in Workers |->
                      IF w = num_workers - 1 /\ cmd = "finalize" THEN task_queues[w]
                      ELSE Append(task_queues[w], [cmd |-> cmd, loader |-> l, batch |-> 0, epoch |-> 0])]

\* A command goes into the queue of every worker.
PutAll(cmd, l) ==
    task_queues' = [w \in Workers |->
                      Append(task_queues[w], [cmd |-> cmd, loader |-> l, batch |-> 0, epoch |-> 0])]

\* DistDataLoader.__init__ registers its collate function with the pool.
Create(l) ==
    /\ main.pc = "idle"
    /\ loader[l].pc = "new"
    /\ loader' = [loader EXCEPT ![l].pc = "open"]
    /\ PutAll("set", l)
    /\ UNCHANGED <<main, result_queue, results, current_proc_id, worker, broadcasts>>

\* __del__: delete_collate_fn.  Results of the loader may still be under way.
\* gc.collect of exit_client may call it too, behind the last command.
Delete(l) ==
    /\ main.pc \in {"idle", "collect"}
    /\ loader[l].pc \in {"open", "stopped"} \/ (loader[l].pc = "loop" /\ l \in MayBreak)
    /\ LET me == loader[l] IN
       loader' = [loader EXCEPT ![l] =
                    [me EXCEPT !.pc = "deleted", !.left = me.left \/ me.pc = "loop"]]
    /\ results' = [results EXCEPT ![l] = <<>>]
    /\ PutAll("delete", l)
    /\ UNCHANGED <<main, result_queue, current_proc_id, worker, broadcasts>>

\* call_barrier ("barrier") and submit_task_to_all_workers ("fn").
Broadcast(cmd) ==
    /\ main.pc = "idle"
    /\ broadcasts < MaxBroadcasts
    /\ broadcasts' = broadcasts + 1
    /\ PutAll(cmd, main.loader)
    /\ UNCHANGED <<loader, main, result_queue, results, current_proc_id, worker>>

\* exit_client starts with finalize_worker, which puts a last command.  It is
\* called by the application, or at exit, also after an exception.
ClosePool ==
    /\ main.pc \in {"idle", "KeyError", "assert"}
    /\ main' = [main EXCEPT !.pc = "collect"]
    /\ PutAll("finalize", main.loader)
    /\ UNCHANGED <<loader, result_queue, results, current_proc_id, worker, broadcasts>>

\* exit_client of the trainer is done with gc.collect and calls client_barrier.
EnterClientBarrier ==
    /\ main.pc = "collect"
    /\ main' = [main EXCEPT !.pc = "client_barrier"]
    /\ UNCHANGED <<loader, workerVars, results, current_proc_id, broadcasts>>

\* client_barrier: the clients of the group are there, the trainer and its
\* workers among them.  What exit_client does with the servers then is left to
\* RpcSession; here the workers leave their loops and the trainer joins them.
PassClientBarrier ==
    /\ main.pc = "client_barrier"
    /\ \A w \in Workers : worker[w].pc = "client_barrier"
    /\ main' = [main EXCEPT !.pc = "join"]
    /\ worker' = [w \in Workers |-> [worker[w] EXCEPT !.pc = "exit"]]
    /\ UNCHANGED <<loader, task_queues, result_queue, results, current_proc_id, broadcasts>>

\* The process of a worker ends when what it put into result_queue has been
\* written to the pipe, which nobody reads any more.
Flushed == Len(result_queue) <= PipeSize

\* join_finalize_worker
Join ==
    /\ main.pc = "join"
    /\ \A w \in Workers : worker[w].pc = "exit"
    /\ Flushed
    /\ main' = [main EXCEPT !.pc = "done"]
    /\ UNCHANGED <<loader, workerVars, results, current_proc_id, broadcasts>>

-----------------------------------------------------------------------------
(* DistDataLoader *)

\* The last batch is not counted when it is smaller than the others.
expected_idxs_Bug(l) == dataset[l] \div batch_size

expected_idxs(l) ==
    dataset[l] \div batch_size
      + (IF l \notin DropLast /\ dataset[l] % batch_size # 0 THEN 1 ELSE 0)

\* __iter__: also called when an earlier loop was left early.
Iter(l) ==
    /\ main.pc = "idle"
    /\ loader[l].pc \in {"open", "stopped"} \/ (loader[l].pc = "loop" /\ l \in MayBreak)
    /\ loader[l].epoch < MaxEpochs[l]
    /\ LET me == loader[l] IN
       loader' = [loader EXCEPT ![l] =
                    [pc |-> "loop", epoch |-> me.epoch + 1, current_pos |-> 0,
                     num_pending |-> 0, recv_idxs |-> 0, out |-> <<>>,
                     left |-> me.left \/ me.pc = "loop"]]
    /\ UNCHANGED <<main, workerVars, results, current_proc_id, broadcasts>>

\* __next__ is called.
CallNext(l) ==
    /\ main.pc = "idle"
    /\ loader[l].pc = "loop"
    /\ main' = [pc |-> "request", loader |-> l]
    /\ UNCHANGED <<loader, workerVars, results, current_proc_id, broadcasts>>

\* _next_data does not return None.
HasNextData(l) ==
    /\ loader[l].current_pos # dataset[l]
    /\ l \in DropLast => loader[l].current_pos + batch_size <= dataset[l]

\* One batch too many is requested.
NumReqs_Bug(l) == queue_size[l] - loader[l].num_pending + 1

\* How many batches __next__ requests, or still has to.
NumReqs(l) == queue_size[l] - loader[l].num_pending
Requests(l) == NumReqs(l) > 0 /\ HasNextData(l)

\* submit_task wraps around one worker too late.
NextProc_Bug == (current_proc_id + 1) % (num_workers + 1)

\* Tasks are dealt out in turn.
NextProc == (current_proc_id + 1) % num_workers

\* _request_next_batch
RequestNextBatch ==
    LET l == main.loader
        me == loader[l]
        end_pos == me.current_pos + batch_size
        task == [cmd |-> "call", loader |-> l, batch |-> me.current_pos, epoch |-> me.epoch]
    IN  /\ main.pc = "request"
        /\ Requests(l)
        /\ task_queues' = [task_queues EXCEPT ![current_proc_id] = Append(@, task)]
        /\ current_proc_id' = NextProc
        /\ loader' = [loader EXCEPT ![l] =
                        [me EXCEPT !.num_pending = me.num_pending + 1,
                                   !.current_pos = IF end_pos > dataset[l] THEN dataset[l]
                                                   ELSE end_pos]]
        /\ UNCHANGED <<main, result_queue, results, worker, broadcasts>>

\* A result more than the epoch has is awaited.
AllReceived_Bug(l) == loader[l].recv_idxs > expected_idxs(l)

AllReceived(l) == loader[l].recv_idxs >= expected_idxs(l)

\* __next__ has requested what it could and waits for a result.
AwaitResult ==
    /\ main.pc = "request"
    /\ ~Requests(main.loader)
    /\ ~AllReceived(main.loader)
    /\ main' = [main EXCEPT !.pc = "get"]
    /\ UNCHANGED <<loader, workerVars, results, current_proc_id, broadcasts>>

\* __next__ after the last result, with its assertion.
StopIteration ==
    LET l == main.loader
    IN  /\ main.pc = "request"
        /\ ~Requests(l)
        /\ AllReceived(l)
        /\ main' = [main EXCEPT !.pc = IF loader[l].num_pending = 0 THEN "idle" ELSE "assert"]
        /\ loader' = [loader EXCEPT ![l].pc = "stopped"]
        /\ UNCHANGED <<workerVars, results, current_proc_id, broadcasts>>

\* Results go to whoever asks.
Fetch_Bug ==
    LET r == Head(result_queue)
    IN  /\ main.pc = "get"
        /\ results[main.loader] = <<>>
        /\ result_queue # <<>>
        /\ result_queue' = Tail(result_queue)
        /\ results' = [results EXCEPT ![main.loader] = Append(@, r)]
        /\ UNCHANGED <<loader, main, task_queues, current_proc_id, worker, broadcasts>>

\* get_result: sorts what comes out of the shared queue by loader.  A loader
\* that was deleted has no list any more: KeyError.
Fetch ==
    LET r == Head(result_queue)
    IN  /\ main.pc = "get"
        /\ results[main.loader] = <<>>
        /\ result_queue # <<>>
        /\ result_queue' = Tail(result_queue)
        /\ IF loader[r.loader].pc = "deleted"
           THEN main' = [main EXCEPT !.pc = "KeyError"] /\ UNCHANGED results
           ELSE results' = [results EXCEPT ![r.loader] = Append(@, r)] /\ UNCHANGED main
        /\ UNCHANGED <<loader, task_queues, current_proc_id, worker, broadcasts>>

Return ==
    LET l == main.loader
        me == loader[l]
    IN  /\ main.pc = "get"
        /\ results[l] # <<>>
        /\ results' = [results EXCEPT ![l] = Tail(@)]
        /\ loader' = [loader EXCEPT ![l] =
                        [me EXCEPT !.recv_idxs = me.recv_idxs + 1,
                                   !.num_pending = me.num_pending - 1,
                                   !.out = Append(me.out, Head(results[l]))]]
        /\ main' = [main EXCEPT !.pc = "idle"]
        /\ UNCHANGED <<workerVars, current_proc_id, broadcasts>>

-----------------------------------------------------------------------------
(* init_process *)

Becomes(w, pc, fns) == worker' = [worker EXCEPT ![w] = [pc |-> pc, fns |-> fns]]

\* SET_COLLATE_FN
SetCollateFn(w, t) ==
    /\ t.cmd = "set"
    /\ Becomes(w, "poll", worker[w].fns \cup {t.loader})
    /\ UNCHANGED result_queue

\* DELETE_COLLATE_FN: del of a name that is not in the dict raises.
DeleteCollateFn(w, t) ==
    /\ t.cmd = "delete"
    /\ Becomes(w, IF t.loader \in worker[w].fns THEN "poll" ELSE "KeyError",
               worker[w].fns \ {t.loader})
    /\ UNCHANGED result_queue

\* CALL_COLLATE_FN: puts its result, or finds no function of that name.
CallCollateFn(w, t) ==
    /\ t.cmd = "call"
    /\ IF t.loader \in worker[w].fns
       THEN result_queue' = Append(result_queue, t) /\ UNCHANGED worker
       ELSE Becomes(w, "KeyError", worker[w].fns) /\ UNCHANGED result_queue

\* CALL_BARRIER waits, CALL_FN_ALL_WORKERS goes on.  FINALIZE_POOL calls
\* exit_client, where the worker waits in client_barrier before it leaves.
Follow(w, t) ==
    /\ \/ t.cmd = "barrier" /\ Becomes(w, "barrier", worker[w].fns)
       \/ t.cmd = "finalize" /\ Becomes(w, "client_barrier", worker[w].fns)
       \/ t.cmd = "fn" /\ UNCHANGED worker
    /\ UNCHANGED result_queue

\* Takes the next command.
Poll(w) ==
    /\ worker[w].pc = "poll"
    /\ task_queues[w] # <<>>
    /\ task_queues' = [task_queues EXCEPT ![w] = Tail(@)]
    /\ LET t == Head(task_queues[w])
       IN  SetCollateFn(w, t) \/ DeleteCollateFn(w, t) \/ CallCollateFn(w, t) \/ Follow(w, t)
    /\ UNCHANGED <<loader, main, results, current_proc_id, broadcasts>>

\* barrier.wait(): all workers are there.
PassBarrier ==
    /\ \A w \in Workers : worker[w].pc = "barrier"
    /\ worker' = [w \in Workers |-> [worker[w] EXCEPT !.pc = "poll"]]
    /\ UNCHANGED <<loader, main, task_queues, result_queue, results, current_proc_id, broadcasts>>

-----------------------------------------------------------------------------
Leave == EnterClientBarrier \/ PassClientBarrier \/ Join
InNext == RequestNextBatch \/ AwaitResult \/ StopIteration \/ Fetch \/ Return

Trainer ==
    \/ \E l \in Loaders : Create(l) \/ Delete(l) \/ Iter(l) \/ CallNext(l)
    \/ \E cmd \in {"barrier", "fn"} : Broadcast(cmd)
    \/ ClosePool \/ Leave
    \/ InNext

\* Nothing has to happen any more: the trainer is done, or failed and is not
\* ended, or joins processes that do not end.
Over ==
    /\ main.pc \in {"done", "KeyError", "assert"} \/ (main.pc = "join" /\ ~Flushed)
    /\ UNCHANGED vars

Next == Trainer \/ (\E w \in Workers : Poll(w)) \/ PassBarrier \/ Over

\* The worker processes run, and the trainer inside a call; what it calls next
\* is up to the application.  PassClientBarrier is fair: the other clients of the
\* group exit at some time.
Fairness ==
    /\ WF_vars(InNext) /\ WF_vars(Leave)
    /\ \A w \in Workers : WF_vars(Poll(w))
    /\ WF_vars(PassBarrier)

Spec == Init /\ [][Next]_vars
FairSpec == Spec /\ Fairness

-----------------------------------------------------------------------------
(* Properties *)

\* What a command may be.
Commands ==
    [cmd : {"set", "delete", "barrier", "fn", "finalize", "call"}, loader : Loaders,
     batch : Nat, epoch : Nat]

\* Every variable has its type; current_proc_id always names a queue.
TypeOK ==
    /\ \A l \in Loaders :
         /\ loader[l].pc \in {"new", "open", "loop", "stopped", "deleted"}
         /\ loader[l].epoch \in 0..MaxEpochs[l] /\ loader[l].left \in BOOLEAN
         /\ loader[l].current_pos \in 0..dataset[l]
         /\ loader[l].recv_idxs \in Nat /\ loader[l].num_pending \in Nat
         /\ loader[l].out \in Seq(Commands) /\ results[l] \in Seq(Commands)
    /\ main \in [pc : {"idle", "request", "get", "KeyError", "assert", "collect", "client_barrier",
                       "join", "done"}, loader : Loaders]
    /\ task_queues \in [Workers -> Seq(Commands)]
    /\ result_queue \in Seq(Commands)
    /\ current_proc_id \in Workers
    /\ worker \in [Workers -> [pc : {"poll", "barrier", "client_barrier", "exit", "KeyError"},
                               fns : SUBSET Loaders]]
    /\ broadcasts \in 0..MaxBroadcasts

\* The positions that the batches of an epoch start at.
Starts(l) ==
    {p \in 0..dataset[l] : /\ p % batch_size = 0 /\ p # dataset[l]
                           /\ l \in DropLast => p + batch_size <= dataset[l]}

\* When __next__ raises StopIteration, the loop has seen every batch of its own
\* loader and of this epoch, and none of them twice, in whatever order the
\* workers finished them and however the calls of several loaders were mixed.
\* A loader whose loop was left early is excepted: __iter__ does not take back
\* what that loop requested.
EpochExact ==
    \A l \in Loaders :
        LET me == loader[l]
        IN  me.pc = "stopped" /\ ~me.left =>
              /\ IsInjective(me.out)
              /\ Range(me.out) = {[cmd |-> "call", loader |-> l, batch |-> p,
                                   epoch |-> me.epoch] : p \in Starts(l)}

\* Only a loop that was left early makes the pool fail.  A worker always knows
\* the collate function of its next task and never deletes one twice, "assert
\* self.num_pending == 0" holds, and get_result meets a result of a deleted
\* loader only if the loop of that loader was left.
OnlyLeftLoopsFail ==
    /\ \A w \in Workers : worker[w].pc # "KeyError"
    /\ main.pc # "assert"
    /\ main.pc = "KeyError" => \E l \in Loaders : loader[l].pc = "deleted" /\ loader[l].left

\* The places in q that hold a task or a result of the loader.
Mine(q, l) == {i \in DOMAIN q : q[i].cmd = "call" /\ q[i].loader = l}

\* All places where one is under way.
UnderWay(l) ==
    (UNION {{<<"task", w, i>> : i \in Mine(task_queues[w], l)} : w \in Workers})
      \cup {<<"result", 0, i>> : i \in Mine(result_queue, l)}
      \cup {<<"fetched", 0, i>> : i \in DOMAIN results[l]}

\* num_pending is the number of batches under way: in a task queue, in the
\* result queue, or fetched by a call of another loader.  It stays within
\* queue_size.
PendingAccounted ==
    \A l \in Loaders : ~loader[l].left =>
        /\ loader[l].num_pending <= queue_size[l]
        /\ loader[l].num_pending = Cardinality(UnderWay(l))

\* __next__ returns: the result it waits for is always under way.
NextReturns == main.pc \in {"request", "get"} ~> main.pc \notin {"request", "get"}

\* The results in result_queue of loops that did not end.
Unread ==
    {i \in DOMAIN result_queue :
       LET me == loader[result_queue[i].loader] IN me.left \/ me.pc = "loop"}

\* exit_client returns: every worker finds its last command, also behind barriers
\* and tasks nobody waits for, and all meet in client_barrier.  The one exception
\* is a trainer that left loops with more results unread than the pipe holds: the
\* workers cannot flush them, and join waits for ever.
PoolCloses ==
    main.pc \in {"collect", "client_barrier", "join"}
      ~> main.pc = "done" \/ Cardinality(Unread) > PipeSize
=============================================================================
