------------------------------ MODULE KVStore -------------------------------
(***************************************************************************)
(* The distributed key-value store (python/dgl/distributed/kvstore.py):    *)
(* KVClient and KVServer with one named tensor, of which every machine     *)
(* holds one row in shared memory.                                         *)
(*                                                                         *)
(* A machine runs group_count servers: a main server that creates the      *)
(* shared memory and backup servers that map it.  Clients run the same     *)
(* program (Script): the calls that all of them make together are built    *)
(* from barriers and rounds of requests, and between them, in "work", each *)
(* client pushes and pulls rows.  A client reads and writes the row of its *)
(* own machine itself and sends requests to any server of another machine; *)
(* a push is not answered.                                                 *)
(*                                                                         *)
(* As in RpcSession every client has a first-in first-out channel to every *)
(* server.  Of the answers only their number matters: a client waits until *)
(* none is missing.                                                        *)
(*                                                                         *)
(* A definition whose name ends in _Bug is a faulty variant of the one     *)
(* after it; no specification uses it.                                     *)
(***************************************************************************)
EXTENDS Naturals, Sequences, FiniteSets, Functions

CONSTANTS
    num_clients,
    machine_count,
    group_count,    \* servers of a machine
    machine_id,     \* client -> its machine
    Script,         \* the steps all clients go through
    MaxWork         \* bound: client -> pushes and pulls it makes

Clients == 0..(num_clients - 1)
Machines == 0..(machine_count - 1)
Servers == 0..(machine_count * group_count - 1)

Steps == {"barrier", "init", "map", "register", "delete", "unmap", "work"}

ASSUME KVAssumption ==
    /\ num_clients \in Nat \ {0}
    /\ machine_count \in Nat \ {0}
    /\ group_count \in Nat \ {0}
    /\ machine_id \in [Clients -> Machines]
    /\ Script \in Seq(Steps)
    /\ MaxWork \in [Clients -> Nat]

\* The steps of the calls that all clients make together.
init_data == <<"barrier", "init", "barrier", "map", "barrier">>
register_push_handler == <<"barrier", "register", "barrier">>
delete_data == <<"barrier", "delete", "barrier", "unmap", "barrier">>

MachineOf(s) == s \div group_count
Group(m) == {s \in Servers : MachineOf(s) = m}
is_backup_server(s) == s % group_count # 0

\* The application calls init_data, register_push_handler and delete_data as a
\* whole, from all clients.  It creates a tensor when there is none of its name,
\* and uses it or gives it a handler when there is one.  Every machine has a
\* client, which has its servers create their part of a tensor.
StepAt(i) == IF i \in DOMAIN Script THEN Script[i] ELSE "none"
Places(step) == {i \in DOMAIN Script : Script[i] = step}
Occurs(call, i) == \A n \in DOMAIN call : StepAt(i + n) = call[n]
Created(p) == \E i \in Places("init") : i < p /\ \A k \in Places("delete") : ~(i < k /\ k < p)

ASSUME ProgramAssumption ==
    /\ \A i \in DOMAIN Script : Script[i] \notin {"barrier", "work"} =>
         \E call \in {init_data, register_push_handler, delete_data} :
             \E n \in DOMAIN call : n <= i /\ Occurs(call, i - n)
    /\ \A p \in Places("init") : ~Created(p)
    /\ \A p \in Places("work") \cup Places("register") : Created(p)
    /\ \A m \in Machines : \E c \in Clients : machine_id[c] = m

\* Push handlers: none, the default one that overwrites the row, and one that
\* is registered and adds to it (add_push in test_new_kvstore.py).
NoHandler == 0
Default == 1
Added == 2

Idle == [kind |-> "idle"]

VARIABLES
    client,     \* client -> step of Script, answers missing, push handler,
                \* pushes and pulls made, local push it is in the middle of
    server,     \* server -> whether data_store and part_policy have the name,
                \* its push handler, the push it is in the middle of, the
                \* request it died of
    mem,        \* machine -> whether the shared memory exists, and its row: the
                \* pushes it shows
    count,      \* barrier_count at server 0
    req,        \* client -> server -> requests under way or queued
    added       \* machine -> adds that were written (history)

vars == <<client, server, mem, count, req, added>>

Init ==
    /\ client = [c \in Clients |-> [at |-> 0, wait |-> 0,
                   handler |-> NoHandler, work |-> 0, busy |-> Idle]]
    /\ server = [s \in Servers |-> [data |-> FALSE, policy |-> FALSE,
                   handler |-> NoHandler, busy |-> Idle, died |-> Idle]]
    /\ mem = [m \in Machines |-> [exists |-> FALSE, row |-> {}]]
    /\ count = 0
    /\ req = [c \in Clients |-> [s \in Servers |-> <<>>]]
    /\ added = [m \in Machines |-> {}]

Step(c) == StepAt(client[c].at)
Done(c) == client[c].at > Len(Script)
MyGroup(c) == Group(machine_id[c])

-----------------------------------------------------------------------------
(* KVClient *)

\* send_request of request r to all servers of a set.
SendTo(c, servers, r) ==
    req' = [req EXCEPT ![c] = [s \in Servers |->
              IF s \in servers THEN Append(@[s], r) ELSE @[s]]]

\* The servers a step sends its request to; the client waits for all answers.
Targets(c, step) ==
    CASE step = "barrier"  -> {0}
      [] step \in {"init", "delete"} -> MyGroup(c)
      [] step = "map"      -> {s \in MyGroup(c) : is_backup_server(s)}
      [] step = "register" -> Servers
      [] OTHER -> {}

\* The first answer is enough.
Answers_Bug(c) == client[c].wait < Cardinality(Targets(c, Step(c))) \/ client[c].wait = 0

\* All answers of a step are there.
Answers(c) == client[c].wait = 0

\* The client ends a step and sends the requests of the next.  After "register"
\* it takes the handler itself; "map" maps the shared memory of the main
\* server, which has to exist, and takes the default handler.
Advance(c) ==
    LET at == client[c].at + 1
        next == StepAt(at)
        handler == IF Step(c) = "register" THEN Added
                   ELSE IF next = "map" THEN Default
                   ELSE IF next = "unmap" THEN NoHandler
                   ELSE client[c].handler
    IN  /\ ~Done(c)
        /\ Answers(c)
        /\ client[c].busy = Idle
        /\ next = "map" => mem[machine_id[c]].exists
        /\ client' = [client EXCEPT ![c] =
                         [client[c] EXCEPT !.at = at, !.handler = handler,
                                           !.wait = Cardinality(Targets(c, next))]]
        /\ SendTo(c, Targets(c, next),
                  [kind |-> next, id |-> <<c, 0>>, handler |-> handler, at |-> at])
        /\ UNCHANGED <<server, mem, count, added>>

\* A request made in "work".
Request(c, kind) == [kind |-> kind, id |-> <<c, client[c].work>>,
                     handler |-> client[c].handler, at |-> client[c].at]

CanWork(c) ==
    /\ Step(c) = "work"
    /\ client[c].wait = 0 /\ client[c].busy = Idle

\* push to the row of a remote machine: to a random server of it.
PushRemote(c, s) ==
    /\ CanWork(c) /\ client[c].work < MaxWork[c]
    /\ MachineOf(s) # machine_id[c]
    /\ SendTo(c, {s}, Request(c, "push"))
    /\ client' = [client EXCEPT ![c].work = @ + 1]
    /\ UNCHANGED <<server, mem, count, added>>

\* push to the row of its own machine: the client's handler reads the row...
PushLocal(c) ==
    /\ CanWork(c) /\ client[c].work < MaxWork[c]
    /\ client' = [client EXCEPT ![c].work = @ + 1,
                    ![c].busy = [kind |-> "push", id |-> <<c, client[c].work>>,
                                 read |-> mem[machine_id[c]].row]]
    /\ UNCHANGED <<server, mem, count, req, added>>

\* ... and a push handler writes it, at a client or at a server.
Written(m, handler, w) ==
    /\ mem' = [mem EXCEPT ![m].row = IF handler = Added THEN w.read \cup {w.id} ELSE {w.id}]
    /\ added' = IF handler = Added THEN [added EXCEPT ![m] = @ \cup {w.id}]
                ELSE [added EXCEPT ![m] = {}]

WriteLocal(c) ==
    /\ client[c].busy # Idle
    /\ Written(machine_id[c], client[c].handler, client[c].busy)
    /\ client' = [client EXCEPT ![c].busy = Idle]
    /\ UNCHANGED <<server, count, req>>

\* pull of rows: one request to a random server of each remote machine.
Pull(c, servers) ==
    /\ CanWork(c) /\ client[c].work < MaxWork[c]
    /\ \A s, t \in servers : MachineOf(s) = MachineOf(t) => s = t
    /\ servers # {} /\ servers \cap MyGroup(c) = {}
    /\ SendTo(c, servers, Request(c, "pull"))
    /\ client' = [client EXCEPT ![c].work = @ + 1, ![c].wait = Cardinality(servers)]
    /\ UNCHANGED <<server, mem, count, added>>

-----------------------------------------------------------------------------
(* KVServer: process_request of each request *)

\* The response to client c is on its way.
Answered(cs) == client' = [c \in Clients |->
                  IF c \in cs THEN [client[c] EXCEPT !.wait = @ - 1] ELSE client[c]]

\* An uncaught error in process_request ends start_server.
Die(s, r) ==
    /\ server' = [server EXCEPT ![s].died = r]
    /\ UNCHANGED <<client, mem, count, added>>

\* The count goes on from where it was.
BarrierRequest_Bug(s, c, r) ==
    /\ r.kind = "barrier"
    /\ count' = count + 1
    /\ Answered(IF count + 1 = num_clients THEN Clients ELSE {})
    /\ UNCHANGED <<server, mem, added>>

BarrierRequest(s, c, r) ==
    /\ r.kind = "barrier"
    /\ count' = IF count + 1 = num_clients THEN 0 ELSE count + 1
    /\ Answered(IF count + 1 = num_clients THEN Clients ELSE {})
    /\ UNCHANGED <<server, mem, added>>

\* Ignored when it is a duplicate; a backup server has no data yet.
InitDataRequest(s, c, r) ==
    /\ r.kind = "init"
    /\ server' = IF server[s].data THEN server
                 ELSE [server EXCEPT ![s] = [@ EXCEPT !.policy = TRUE, !.handler = Default,
                                                      !.data = ~is_backup_server(s)]]
    /\ mem' = IF server[s].data \/ is_backup_server(s) THEN mem
              ELSE [mem EXCEPT ![MachineOf(s)] = [exists |-> TRUE, row |-> {}]]
    /\ Answered({c})
    /\ UNCHANGED <<count, added>>

\* Maps the shared memory, or asserts that nothing has changed.
SendMetaToBackupRequest(s, c, r) ==
    /\ r.kind = "map"
    /\ IF IF server[s].data THEN server[s].handler = r.handler
          ELSE mem[MachineOf(s)].exists
       THEN /\ server' = [server EXCEPT ![s] =
                            [@ EXCEPT !.data = TRUE, !.policy = TRUE, !.handler = r.handler]]
            /\ Answered({c})
            /\ UNCHANGED <<mem, count, added>>
       ELSE Die(s, r)

RegisterPushHandlerRequest(s, c, r) ==
    /\ r.kind = "register"
    /\ server' = [server EXCEPT ![s].handler = Added]
    /\ Answered({c})
    /\ UNCHANGED <<mem, count, added>>

\* The main server created the shared memory, which goes with its tensor.
DeleteDataRequest(s, c, r) ==
    /\ r.kind = "delete"
    /\ server' = IF server[s].data
                 THEN [server EXCEPT ![s] = [@ EXCEPT !.data = FALSE, !.policy = FALSE,
                                                      !.handler = NoHandler]]
                 ELSE server
    /\ mem' = IF is_backup_server(s) THEN mem ELSE [mem EXCEPT ![MachineOf(s)].exists = FALSE]
    /\ Answered({c})
    /\ UNCHANGED <<count, added>>

PullRequest(s, c, r) ==
    /\ r.kind = "pull"
    /\ IF server[s].policy /\ server[s].data
       THEN /\ Answered({c})
            /\ UNCHANGED <<server, mem, count, added>>
       ELSE Die(s, r)

\* The push handler reads the row.
PushRequest(s, c, r) ==
    /\ r.kind = "push"
    /\ IF server[s].policy /\ server[s].data
       THEN /\ server' = [server EXCEPT ![s].busy =
                            [kind |-> "push", id |-> r.id, handler |-> r.handler, at |-> r.at,
                             read |-> mem[MachineOf(s)].row]]
            /\ UNCHANGED <<client, mem, count, added>>
       ELSE Die(s, r)

Serve(s) ==
    /\ server[s].died = Idle /\ server[s].busy = Idle
    /\ \E c \in Clients :
         LET r == Head(req[c][s])
         IN  /\ req[c][s] # <<>>
             /\ req' = [req EXCEPT ![c][s] = Tail(@)]
             /\ \/ BarrierRequest(s, c, r) \/ InitDataRequest(s, c, r)
                \/ SendMetaToBackupRequest(s, c, r) \/ RegisterPushHandlerRequest(s, c, r)
                \/ DeleteDataRequest(s, c, r) \/ PullRequest(s, c, r) \/ PushRequest(s, c, r)

\* The push handler writes the row.
Write(s) ==
    /\ server[s].busy # Idle
    /\ Written(MachineOf(s), server[s].handler, server[s].busy)
    /\ server' = [server EXCEPT ![s].busy = Idle]
    /\ UNCHANGED <<client, count, req>>

-----------------------------------------------------------------------------
ClientStep(c) ==
    \/ Advance(c)
    \/ \E s \in Servers : PushRemote(c, s)
    \/ PushLocal(c) \/ WriteLocal(c)
    \/ \E servers \in SUBSET Servers : Pull(c, servers)

Quiet ==
    /\ \A c \in Clients : Done(c)
    /\ \A c \in Clients, s \in Servers : req[c][s] = <<>>
    /\ \A s \in Servers : server[s].busy = Idle

SomeDied == \E s \in Servers : server[s].died # Idle

\* All is done, or a server is missing.
Over == (Quiet \/ SomeDied) /\ UNCHANGED vars

Next ==
    \/ \E c \in Clients : ClientStep(c)
    \/ \E s \in Servers : Serve(s) \/ Write(s)
    \/ Over

Fairness ==
    /\ \A c \in Clients : WF_vars(ClientStep(c))
    /\ \A s \in Servers : WF_vars(Serve(s) \/ Write(s))

Spec == Init /\ [][Next]_vars
FairSpec == Spec /\ Fairness

-----------------------------------------------------------------------------
(* Properties *)

Ids == Clients \X Nat
Handlers == {NoHandler, Default, Added}

\* The values the state of clients, servers, rows and channels can have.
TypeOK ==
    /\ \A c \in Clients :
         /\ client[c].at \in 0..(Len(Script) + 1)
         /\ client[c].wait \in 0..Cardinality(Servers)
         /\ client[c].handler \in Handlers
         /\ client[c].work \in 0..MaxWork[c]
    /\ \A s \in Servers : server[s].handler \in Handlers
    /\ \A m \in Machines : mem[m].row \subseteq Ids /\ added[m] \subseteq Ids
    /\ count \in 0..(num_clients - 1)

\* Some client has reached a delete_data after the step r was sent in.
Overtaken(r) ==
    \E c \in Clients : \E i \in r.at..client[c].at : i <= Len(Script) /\ Script[i] = "delete"

\* The tensor exists from init_data to delete_data: no request meets a server,
\* main or backup, of any machine that has no data, or another handler than it
\* asserts, but for a push that a delete_data overtook on its way to another
\* server than the one that counts the barriers.
OnlyOvertakenPushesFail ==
    \A s \in Servers :
        LET r == server[s].died
        IN  r # Idle => r.kind = "push" /\ s # 0 /\ Overtaken(r)

\* A push that a client sends after register_push_handler has returned is
\* applied with the registered handler, by every server of every machine: a
\* server may be ahead of the sender of a push, never behind it.  (A push that
\* a delete_data overtook may find the tensor created anew.)
HandlerNotOutdated ==
    \A s \in Servers :
        LET r == server[s].busy
        IN  r # Idle => server[s].handler >= r.handler \/ Overtaken(r)

\* Every client gets through its program and every push is applied, unless a
\* server died of an overtaken push.
AllApplied == <>[](Quiet \/ SomeDied)

\* distributed-apis.rst: "One way to avoid concurrent writes to the same row of
\* data is to run one server process on a machine": an add that was written to
\* a row is not lost.
AddsKept == group_count = 1 => \A m \in Machines : added[m] \subseteq mem[m].row

\* Pushes that have not been applied to the row of machine m, and whether the
\* program has a barrier between two of its steps.
UnderWay(m) ==
    {r \in UNION {Range(req[c][s]) : c \in Clients, s \in Group(m)}
           \cup {server[s].busy : s \in Group(m)} : r.kind = "push"}
BarrierBetween(i, j) == \E k \in Places("barrier") : i < k /\ k < j

\* run_dist_objects.py writes a DistTensor, calls barrier, and asserts what it
\* reads: a pull is not answered while a push from before a barrier that the
\* reader has passed is still under way to the row.
PullsSeePushes ==
    [][\A s \in Servers, c \in Clients :
         LET r == Head(req[c][s])
         IN  req[c][s] # <<>> /\ req'[c][s] = Tail(req[c][s]) /\ r.kind = "pull"
             => \A p \in UnderWay(MachineOf(s)) : ~BarrierBetween(p.at, r.at)]_vars
=============================================================================
