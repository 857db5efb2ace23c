----------------------------- MODULE RpcSession -----------------------------
(***************************************************************************)
(* A session of a client group with the servers (python/dgl/distributed):  *)
(* registration (connect_to_server, start_server), roles and ranks         *)
(* (init_role), calls and pushes, the barrier of a role (KVClient.barrier) *)
(* and of all clients (client_barrier), and the shutdown (exit_client).    *)
(*                                                                         *)
(* Clients are numbered in the order of their addresses.  What             *)
(* SocketCommunicator provides is taken for granted: every pair of a       *)
(* sender and a receiver has a first-in first-out channel, and a receiver  *)
(* takes the next message of any of them.                                  *)
(*                                                                         *)
(* A definition whose name ends in _Bug is a faulty variant of the one     *)
(* after it; no specification uses it.                                     *)
(***************************************************************************)
EXTENDS Integers, Sequences, FiniteSets, Functions

CONSTANTS
    num_clients,
    num_servers,
    Role,           \* client -> its role
    Machine,        \* client -> its machine
    MaxBarriers,    \* bound: calls of client_barrier before the one of exit_client
    MaxRounds,      \* bound: barriers of its role each client calls after these
    MaxWork         \* bound: client -> calls and pushes it makes

Clients == 0..(num_clients - 1)
Servers == 0..(num_servers - 1)
Roles == {Role[c] : c \in Clients}

\* There is a trainer, and a role that runs on a machine also runs on all
\* machines before it: init_role raises KeyError otherwise.
ASSUME SessionAssumption ==
    /\ num_clients \in Nat \ {0}
    /\ num_servers \in Nat \ {0}
    /\ DOMAIN Role = Clients
    /\ "default" \in Roles
    /\ Machine \in [Clients -> Nat]
    /\ \A c \in Clients : \A i \in 0..Machine[c] :
         \E d \in Clients : Role[d] = Role[c] /\ Machine[d] = i
    /\ MaxBarriers \in Nat /\ MaxRounds \in Nat
    /\ MaxWork \in [Clients -> Nat]

NoId == -1

VARIABLES
    client,         \* client -> its program: where it is, its rank, the role
                    \* table it got, calls of client_barrier, barriers of
                    \* its role, calls and pushes
    server,         \* server -> start_server: where it is, recv_clients and
                    \* the client_namebook (rank -> client)
    roles,          \* server_state.roles of server 0: registrations in order
    barrier_count,  \* client_barrier's count at server 0
    kv_count,       \* role -> kv_store.barrier_count at server 0
    req,            \* client -> server -> requests under way or queued
    ans             \* server -> client -> responses under way or queued

vars == <<client, server, roles, barrier_count, kv_count, req, ans>>

Init ==
    /\ client = [c \in Clients |->
                   [pc |-> "start", id |-> NoId, table |-> <<>>, barriers |-> 0,
                    entered |-> 0, passed |-> 0, work |-> 0]]
    /\ server = [s \in Servers |->
                   [pc |-> "wait", recv_clients |-> <<>>, namebook |-> <<>>]]
    /\ roles = <<>>
    /\ barrier_count = 0
    /\ kv_count = [r \in Roles |-> 0]
    /\ req = [c \in Clients |-> [s \in Servers |-> <<>>]]
    /\ ans = [s \in Servers |-> [c \in Clients |-> <<>>]]

serverVars == <<server, roles, barrier_count, kv_count>>

-----------------------------------------------------------------------------
(* Ranks (role.py, init_role) *)

\* Position of a role in role_names: "default", then the order of the dict.
RoleOrder(table, r) ==
    IF r = "default" THEN 0
    ELSE CHOOSE i \in DOMAIN table :
           table[i].role = r /\ \A j \in 1..(i - 1) : table[j].role # r

\* Whether client a is numbered before client b: by role, machine and rank.
Before(table, a, b) ==
    LET ra == RoleOrder(table, a.role)
        rb == RoleOrder(table, b.role)
    IN  \/ ra < rb
        \/ ra = rb /\ a.machine < b.machine
        \/ ra = rb /\ a.machine = b.machine /\ a.id < b.id

GLOBAL_RANK(table) ==
    [id \in {table[i].id : i \in DOMAIN table} |->
       LET me == CHOOSE i \in DOMAIN table : table[i].id = id
       IN  Cardinality({i \in DOMAIN table : Before(table, table[i], table[me])})]

-----------------------------------------------------------------------------
(* Requests of the clients *)

\* send_request(s, request): does not wait.
Send(c, s, kind) ==
    req' = [req EXCEPT ![c][s] =
              Append(@, [kind |-> kind, from |-> c, id |-> client[c].id])]

Become(c, pc) == client' = [client EXCEPT ![c].pc = pc]

\* connect_to_server: connects to every server and sends its address.
Register(c) ==
    /\ client[c].pc = "start"
    /\ req' = [req EXCEPT ![c] = [s \in Servers |->
                 Append(@[s], [kind |-> "register", from |-> c, id |-> NoId])]]
    /\ Become(c, "accept")
    /\ UNCHANGED <<serverVars, ans>>

\* wait_for_senders: every server has connected back.
AcceptServers(c) ==
    /\ client[c].pc = "accept"
    /\ \A s \in Servers : server[s].namebook # <<>>
    /\ Become(c, "register")
    /\ UNCHANGED <<serverVars, req, ans>>

\* Where a client goes on after the response it waited for; some responses are
\* followed by the next request to server 0 at once.
After == [register |-> "num", num |-> "role", role |-> "roles", roles |-> "work",
          call |-> "work", kvbarrier |-> "work", barrier |-> "shutdown"]
Requests == {"num", "role", "roles"}

\* Only the client_barrier of exit_client is followed by the shutdown.
GoesOn(me) ==
    IF me.pc = "barrier" /\ me.barriers <= MaxBarriers THEN "work" ELSE After[me.pc]

\* What the client learns from response a.
Learnt(me, a) ==
    CASE a.kind = "register"  -> [me EXCEPT !.id = a.id]
      [] a.kind = "roles"     -> [me EXCEPT !.table = a.table]
      [] a.kind = "kvbarrier" -> [me EXCEPT !.passed = @ + 1]
      [] OTHER -> me

\* recv_response: an answer to another rank or of another kind raises.
Receive(c, s) ==
    LET a == Head(ans[s][c])
        pc == client[c].pc
        expected == a.kind = pc /\ client[c].id \in {a.id, NoId}
        now == [Learnt(client[c], a) EXCEPT !.pc = GoesOn(client[c])]
    IN  /\ pc \in DOMAIN After
        /\ ans[s][c] # <<>>
        /\ ans' = [ans EXCEPT ![s][c] = Tail(@)]
        /\ client' = [client EXCEPT ![c] = IF expected THEN now
                                           ELSE [@ EXCEPT !.pc = "failed"]]
        /\ req' = IF expected /\ now.pc \in Requests
                  THEN [req EXCEPT ![c][0] =
                          Append(@, [kind |-> now.pc, from |-> c, id |-> now.id])]
                  ELSE req
        /\ UNCHANGED serverVars

\* A call waits for its answer, a push has none.
Call(c, s) ==
    /\ client[c].pc = "work"
    /\ client[c].work < MaxWork[c]
    /\ client' = [client EXCEPT ![c].pc = "call", ![c].work = @ + 1]
    /\ Send(c, s, "call")
    /\ UNCHANGED <<serverVars, ans>>

Push(c, s) ==
    /\ client[c].pc = "work"
    /\ client[c].work < MaxWork[c]
    /\ client' = [client EXCEPT ![c].work = @ + 1]
    /\ Send(c, s, "push")
    /\ UNCHANGED <<serverVars, ans>>

\* KVClient.barrier. Collective calls come in the same order at every client:
\* here those of client_barrier first.
EnterKvBarrier(c) ==
    /\ client[c].pc = "work"
    /\ client[c].barriers = MaxBarriers
    /\ client[c].entered < MaxRounds
    /\ client' = [client EXCEPT ![c].pc = "kvbarrier", ![c].entered = @ + 1]
    /\ Send(c, 0, "kvbarrier")
    /\ UNCHANGED <<serverVars, ans>>

\* client_barrier does not wait.
EnterBarrier_Bug(c) ==
    /\ client[c].pc = "work"
    /\ client[c].barriers < MaxBarriers \/ client[c].entered = MaxRounds
    /\ client' = [client EXCEPT ![c].pc = IF client[c].barriers < MaxBarriers THEN "work" ELSE "shutdown",
                               ![c].barriers = @ + 1]
    /\ UNCHANGED <<serverVars, req, ans>>

\* client_barrier: called by the application, and at last by exit_client.
EnterBarrier(c) ==
    /\ client[c].pc = "work"
    /\ client[c].barriers < MaxBarriers \/ client[c].entered = MaxRounds
    /\ client' = [client EXCEPT ![c].pc = "barrier", ![c].barriers = @ + 1]
    /\ Send(c, 0, "barrier")
    /\ UNCHANGED <<serverVars, ans>>

\* Shuts down its own server only.
ShutdownServers_Bug(c) ==
    /\ client[c].pc = "shutdown"
    /\ Become(c, "final")
    /\ IF client[c].id = 0 THEN Send(c, 0, "shutdown") ELSE UNCHANGED req
    /\ UNCHANGED <<serverVars, ans>>

\* exit_client: _shutdown_servers, then the sender is finalized.
ShutdownServers(c) ==
    /\ client[c].pc = "shutdown"
    /\ Become(c, "final")
    /\ IF client[c].id = 0
       THEN req' = [req EXCEPT ![c] = [s \in Servers |->
                      Append(@[s], [kind |-> "shutdown", from |-> c, id |-> 0])]]
       ELSE UNCHANGED req
    /\ UNCHANGED <<serverVars, ans>>

\* finalize_receiver: its threads end when every server has closed its sender.
Exit(c) ==
    /\ client[c].pc = "final"
    /\ \A s \in Servers : server[s].pc \in {"closing", "hung", "done"}
    /\ \A s \in Servers : ans[s][c] = <<>>
    /\ Become(c, "done")
    /\ UNCHANGED <<serverVars, req, ans>>

-----------------------------------------------------------------------------
(* Servers *)

AllIds == 0..(num_clients - 1)

\* wait_for_senders(num_clients)
Listen(s) ==
    /\ server[s].pc = "wait"
    /\ \A c \in Clients : client[c].pc # "start"
    /\ server' = [server EXCEPT ![s].pc = "serve"]
    /\ UNCHANGED <<client, roles, barrier_count, kv_count, req, ans>>

\* Clients are numbered in the order their registrations arrived in.
Numbered_Bug(ips) == [id \in 0..(Len(ips) - 1) |-> ips[id + 1]]

\* dict(enumerate(ips)), after ips.sort().
Numbered(ips) ==
    [id \in 0..(Len(ips) - 1) |->
       CHOOSE a \in Range(ips) : Cardinality({b \in Range(ips) : b < a}) = id]

Ready(s) == Len(server[s].recv_clients) = num_clients

\* send_response of server s to the clients ids, addressed by its namebook.
Answer(s, ids, kind, table) ==
    ans' = [ans EXCEPT ![s] = [c \in Clients |->
              IF \E id \in ids : server[s].namebook[id] = c
              THEN Append(@[c], [kind |-> kind, table |-> table,
                     id |-> CHOOSE id \in ids : server[s].namebook[id] = c])
              ELSE @[c]]]

\* A group is complete: the server connects to its clients, and server 0 tells
\* them their numbers.
ConnectBack(s) ==
    LET book == Numbered(server[s].recv_clients)
    IN  /\ server[s].pc = "serve"
        /\ Ready(s)
        /\ server' = [server EXCEPT ![s].recv_clients = <<>>, ![s].namebook = book]
        /\ ans' = IF s # 0 THEN ans
                  ELSE [ans EXCEPT ![0] = [c \in Clients |->
                          Append(@[c], [kind |-> "register", table |-> <<>>,
                                        id |-> CHOOSE id \in DOMAIN book : book[id] = c])]]
        /\ UNCHANGED <<client, roles, barrier_count, kv_count, req>>

HandleRegister(s, m) ==
    /\ m.kind = "register"
    /\ server' = [server EXCEPT ![s].recv_clients = Append(@, m.from)]
    /\ UNCHANGED <<ans, roles, barrier_count, kv_count>>

\* GetNumberClients, or any call the application makes.
HandleCall(s, m) ==
    /\ m.kind \in {"num", "call"}
    /\ Answer(s, {m.id}, m.kind, <<>>)
    /\ UNCHANGED <<server, roles, barrier_count, kv_count>>

HandlePush(m) ==
    /\ m.kind = "push"
    /\ UNCHANGED <<ans, server, roles, barrier_count, kv_count>>

\* Answers every client at once.
HandleRole_Bug(s, m) ==
    /\ m.kind = "role"
    /\ roles' = Append(roles, [id |-> m.id, role |-> Role[m.from], machine |-> Machine[m.from]])
    /\ Answer(s, {m.id}, "role", <<>>)
    /\ UNCHANGED <<server, barrier_count, kv_count>>

\* RegisterRoleRequest: answers nobody before all have registered.
HandleRole(s, m) ==
    LET me == [id |-> m.id, role |-> Role[m.from], machine |-> Machine[m.from]]
        now == IF me \in Range(roles) THEN roles ELSE Append(roles, me)
    IN  /\ m.kind = "role"
        /\ roles' = now
        /\ kv_count' = IF \E i \in DOMAIN roles : roles[i].role = me.role THEN kv_count
                       ELSE [kv_count EXCEPT ![me.role] = 0]
        /\ Answer(s, IF Len(now) = num_clients THEN AllIds ELSE {}, "role", <<>>)
        /\ UNCHANGED <<server, barrier_count>>

HandleGetRole(s, m) ==
    /\ m.kind = "roles"
    /\ Answer(s, {m.id}, "roles", roles)
    /\ UNCHANGED <<server, roles, barrier_count, kv_count>>

\* The count is not reset.
HandleKvBarrier_Bug(s, m) ==
    LET role == Role[m.from]
        members == {roles[i].id : i \in {j \in DOMAIN roles : roles[j].role = role}}
        count == kv_count[role] + 1
    IN  /\ m.kind = "kvbarrier"
        /\ kv_count' = [kv_count EXCEPT ![role] = count]
        /\ Answer(s, IF count >= Cardinality(members) THEN members ELSE {}, "kvbarrier", <<>>)
        /\ UNCHANGED <<server, roles, barrier_count>>

\* kvstore.py, BarrierRequest: counts the clients of one role.
HandleKvBarrier(s, m) ==
    LET role == Role[m.from]
        members == {roles[i].id : i \in {j \in DOMAIN roles : roles[j].role = role}}
        count == kv_count[role] + 1
        full == count = Cardinality(members)
    IN  /\ m.kind = "kvbarrier"
        /\ kv_count' = [kv_count EXCEPT ![role] = IF full THEN 0 ELSE count]
        /\ Answer(s, IF full THEN members ELSE {}, "kvbarrier", <<>>)
        /\ UNCHANGED <<server, roles, barrier_count>>

\* The count is not reset.
HandleBarrier_Bug(s, m) ==
    LET count == barrier_count + 1
    IN  /\ m.kind = "barrier"
        /\ barrier_count' = count
        /\ Answer(s, IF count >= num_clients THEN AllIds ELSE {}, "barrier", <<>>)
        /\ UNCHANGED <<server, roles, kv_count>>

\* rpc.py, ClientBarrierRequest
HandleBarrier(s, m) ==
    LET count == barrier_count + 1
        full == count = num_clients
    IN  /\ m.kind = "barrier"
        /\ barrier_count' = IF full THEN 0 ELSE count
        /\ Answer(s, IF full THEN AllIds ELSE {}, "barrier", <<>>)
        /\ UNCHANGED <<server, roles, kv_count>>

\* ShutDownRequest: finalize_sender, then finalize_receiver closes a queue when
\* it is empty.  Nobody takes requests any more: one that has arrived in its
\* queue holds the server for ever, one still under way is refused.
HandleShutdown(s, m, arrived) ==
    /\ m.kind = "shutdown"
    /\ m.id = 0
    /\ arrived \subseteq {c \in Clients : req'[c][s] # <<>>}
    /\ server' = [server EXCEPT ![s].pc = IF arrived = {} THEN "closing" ELSE "hung"]
    /\ UNCHANGED <<ans, roles, barrier_count, kv_count>>

\* One turn of start_server's loop: recv_request and process_request.
Serve(s) ==
    /\ server[s].pc = "serve"
    /\ ~Ready(s)
    /\ \E c \in Clients :
         LET m == Head(req[c][s])
         IN  /\ req[c][s] # <<>>
             /\ req' = [req EXCEPT ![c][s] = Tail(@)]
             /\ \/ HandleRegister(s, m) \/ HandleCall(s, m) \/ HandlePush(m)
                \/ HandleRole(s, m) \/ HandleGetRole(s, m)
                \/ HandleKvBarrier(s, m) \/ HandleBarrier(s, m)
                \/ \E arrived \in SUBSET Clients : HandleShutdown(s, m, arrived)
    /\ UNCHANGED client

\* finalize_receiver returns when every client has finalized its sender.
Close(s) ==
    /\ server[s].pc = "closing"
    /\ \A c \in Clients : client[c].pc \in {"final", "done"}
    /\ server' = [server EXCEPT ![s].pc = "done"]
    /\ req' = [c \in Clients |-> [req[c] EXCEPT ![s] = <<>>]]
    /\ UNCHANGED <<client, roles, barrier_count, kv_count, ans>>

-----------------------------------------------------------------------------
Step(c) ==
    \/ Register(c) \/ AcceptServers(c)
    \/ \E s \in Servers : Receive(c, s) \/ Call(c, s) \/ Push(c, s)
    \/ EnterKvBarrier(c) \/ EnterBarrier(c)
    \/ ShutdownServers(c) \/ Exit(c)

StartServer(s) == Listen(s) \/ ConnectBack(s) \/ Serve(s) \/ Close(s)

Over ==
    /\ \A c \in Clients : client[c].pc = "done"
    /\ \A s \in Servers : server[s].pc \in {"hung", "done"}
    /\ UNCHANGED vars

Next ==
    \/ \E c \in Clients : Step(c)
    \/ \E s \in Servers : StartServer(s)
    \/ Over

\* Every process runs: a client goes on with its program (MaxWork, MaxBarriers
\* and MaxRounds bound it), a server with its loop.
Fairness ==
    /\ \A c \in Clients : WF_vars(Step(c))
    /\ \A s \in Servers : WF_vars(StartServer(s))

Spec == Init /\ [][Next]_vars
FairSpec == Spec /\ Fairness

-----------------------------------------------------------------------------
(* Properties *)

Pcs == {"start", "accept", "register", "num", "role", "roles", "work", "call",
        "kvbarrier", "barrier", "shutdown", "final", "done", "failed"}
Kinds == {"register", "num", "role", "roles", "call", "push", "kvbarrier",
          "barrier", "shutdown"}
Request == [kind : Kinds, from : Clients, id : Clients \cup {NoId}]
Registration == [id : Clients, role : Roles, machine : Nat]

\* The values the state of clients, servers and channels can have.
TypeOK ==
    /\ \A c \in Clients :
         /\ client[c].pc \in Pcs
         /\ client[c].id \in Clients \cup {NoId}
         /\ client[c].table \in Seq(Registration)
         /\ client[c].barriers \in 0..(MaxBarriers + 1)
         /\ client[c].entered \in 0..MaxRounds /\ client[c].passed \in 0..MaxRounds
         /\ client[c].work \in 0..MaxWork[c]
    /\ \A s \in Servers :
         /\ server[s].pc \in {"wait", "serve", "closing", "hung", "done"}
         /\ server[s].recv_clients \in Seq(Clients)
         /\ server[s].namebook = <<>> \/ server[s].namebook \in [Clients -> Clients]
    /\ roles \in Seq(Registration) /\ Len(roles) <= num_clients
    /\ barrier_count \in 0..(num_clients - 1)
    /\ kv_count \in [Roles -> 0..(num_clients - 1)]
    /\ \A c \in Clients, s \in Servers : req[c][s] \in Seq(Request)
    /\ \A c \in Clients, s \in Servers : Len(ans[s][c]) <= 1

\* Every server numbers the clients by itself, in whatever order they reach it,
\* and no server tells another: still all of them, and the clients themselves,
\* have the same number for the same client.
IdsAgree ==
    /\ \A s, t \in Servers : server[s].namebook # <<>> /\ server[t].namebook # <<>>
          => server[s].namebook = server[t].namebook
    /\ \A c \in Clients, s \in Servers : client[c].id # NoId
          => server[s].namebook[client[c].id] = c

\* No client is handed an answer to another client or to another question
\* than the one it waits for, although a client takes the next response of any
\* server and the answers of barriers and registrations are sent to everybody.
AnswersMatch == \A c \in Clients : client[c].pc # "failed"

\* Every client computes the same ranks, from tables it got at different times:
\* a numbering of all clients from 0, trainers first, in which the clients of a
\* role, and of a role on a machine, are contiguous.
RanksAgree ==
    LET tables == {client[c].table : c \in Clients} \ {<<>>}
    IN  \A table \in tables :
          LET rank == GLOBAL_RANK(table)
              place == [k \in Range(rank) |->
                          LET i == CHOOSE i \in DOMAIN table : rank[table[i].id] = k
                          IN  <<table[i].role, table[i].machine>>]
          IN  /\ \A other \in tables : GLOBAL_RANK(other) = rank
              /\ DOMAIN rank = AllIds /\ Range(rank) = AllIds
              /\ place[0][1] = "default"
              /\ \A i, j, k \in AllIds : i < j /\ j < k =>
                    /\ place[i][1] = place[k][1] => place[j][1] = place[i][1]
                    /\ place[i] = place[k] => place[j] = place[i]

\* Once a client has left the last barrier, server 0 has handled all that any
\* client sent it before the barrier: every client's channel is in order and
\* server 0 itself counts.  (Of the other servers this is not true.)
BarrierFlushesServer0 ==
    \A c \in Clients : client[c].pc \in {"shutdown", "final", "done"} =>
        \A d \in Clients : \A i \in DOMAIN req[d][0] : req[d][0][i].kind = "shutdown"

\* The counter of client_barrier, with the answers on their way, is a barrier
\* of all clients, as often as they call it: a client that calls it again before
\* a slow one has its answer counts for the next one.
ClientBarrier == INSTANCE GroupBarrier WITH
    Member <- Clients, Group <- [c \in Clients |-> "all"],
    entered <- [c \in Clients |-> client[c].barriers],
    passed <- [c \in Clients |-> client[c].barriers - IF client[c].pc = "barrier" THEN 1 ELSE 0]
ImplementsClientBarrier == ClientBarrier!Spec

\* The counters of KVClient.barrier are a barrier of each role's clients, as
\* often as they call it.
RoleBarriers == INSTANCE GroupBarrier WITH
    Member <- Clients, Group <- Role,
    entered <- [c \in Clients |-> client[c].entered],
    passed <- [c \in Clients |-> client[c].passed]
ImplementsRoleBarriers == RoleBarriers!Spec

\* Every client gets through registration, its barriers and the shutdown, and
\* every server ends, unless the shutdown of client 0 overtook a push of a
\* client that had its barrier answer before the push arrived.
AllExit ==
    /\ \A c \in Clients : <>(client[c].pc = "done")
    /\ \A s \in Servers :
         <>(\/ server[s].pc = "done"
            \/ /\ server[s].pc = "hung" /\ s # 0
               /\ \E c \in Clients \ {0} : \E i \in DOMAIN req[c][s] : req[c][s][i].kind = "push")
=============================================================================
