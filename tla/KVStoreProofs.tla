--------------------------- MODULE KVStoreProofs ----------------------------
(***************************************************************************)
(* Proofs about KVStore, for any clients, machines, groups of servers and  *)
(* programs.                                                               *)
(*                                                                         *)
(* CInv says where the requests are: what is on its way fits the step its  *)
(* client is at, an answer is missing for each request that has one, and   *)
(* server 0 counts the clients that wait in a barrier; so all clients have *)
(* passed the same barriers, and behind a barrier nothing is on its way to *)
(* server 0.  The type invariant follows, for every Script.                *)
(*                                                                         *)
(* SInv adds what the servers have: from which calls on they have tensor,  *)
(* shared memory and handler, and with which handler a push was sent.  It  *)
(* needs ProgramAssumption: a program that pushes to a tensor it has not   *)
(* created does make the servers fail.                                     *)
(***************************************************************************)
EXTENDS KVStore, Integers, FiniteSetTheorems, SequenceTheorems, TLAPS

-----------------------------------------------------------------------------
(* The records of the state. *)

Kinds == Steps \cup {"none", "push", "pull"}
Req == [kind : Kinds, id : Ids, handler : Handlers, at : Nat]
LocalPush == [kind : {"push"}, id : Ids, read : SUBSET Ids]
ServerPush == [kind : {"push"}, id : Ids, handler : Handlers, at : Nat, read : SUBSET Ids]

ClientState == [at : 0..(Len(Script) + 1), wait : Int, handler : Handlers, work : Nat,
                busy : {Idle} \cup LocalPush]
ServerState == [data : BOOLEAN, policy : BOOLEAN, handler : Handlers,
                busy : {Idle} \cup ServerPush, died : {Idle} \cup Req]
Memory == [exists : BOOLEAN, row : SUBSET Ids]

Types ==
    /\ client \in [Clients -> ClientState]
    /\ server \in [Servers -> ServerState]
    /\ mem \in [Machines -> Memory]
    /\ count \in Nat
    /\ req \in [Clients -> [Servers -> Seq(Req)]]
    /\ added \in [Machines -> SUBSET Ids]

-----------------------------------------------------------------------------
(* Machines and servers *)

\* A product of a number and a positive number is at least the number.
LEMMA Product ==
    ASSUME NEW a \in Nat, NEW b \in Nat, NEW g \in Nat, a >= b
    PROVE  a * g >= b * g
<1>1. PICK d \in Nat : a = b + d
  <2>1. a - b \in Nat /\ a = b + (a - b)
    OBVIOUS
  <2> QED BY <2>1
<1>2. a * g = b * g + d * g
  BY <1>1, SMT
<1>3. d * g >= 0
  BY SMT
<1>4. a * g \in Int /\ b * g \in Int /\ d * g \in Int
  OBVIOUS
<1> QED BY <1>2, <1>3, <1>4

\* The machine of a server is one of the machines.
LEMMA MachineType == \A s \in Servers : MachineOf(s) \in Machines
<1> SUFFICES ASSUME NEW s \in Servers PROVE MachineOf(s) \in Machines
  OBVIOUS
<1> DEFINE g == group_count
           q == s \div group_count
<1>1. g \in Nat /\ g > 0 /\ machine_count \in Nat /\ machine_count > 0
  BY KVAssumption
<1>2. machine_count * g \in Nat
  BY <1>1
<1>3. s \in Nat /\ s < machine_count * g
  BY <1>2 DEF Servers
<1>4. q \in Nat /\ s >= q * g
  BY <1>1, <1>3, SMT
<1> HIDE DEF g, q
<1>5. q < machine_count
  <2> SUFFICES ASSUME q >= machine_count PROVE FALSE
    BY <1>1, <1>4
  <2>1. q * g >= machine_count * g
    BY <1>1, <1>4, Product
  <2>2. q * g \in Nat
    BY <1>1, <1>4
  <2> QED BY <1>2, <1>3, <1>4, <2>1, <2>2
<1>6. q \in 0..(machine_count - 1)
  BY <1>1, <1>4, <1>5
<1> QED BY <1>6 DEF q, MachineOf, Machines

\* The first server of a machine is its main server.
LEMMA MainServer ==
    \A m \in Machines : \E s \in Servers : MachineOf(s) = m /\ ~is_backup_server(s)
<1> SUFFICES ASSUME NEW m \in Machines
             PROVE  \E s \in Servers : MachineOf(s) = m /\ ~is_backup_server(s)
  OBVIOUS
<1> DEFINE g == group_count
           s == m * group_count
<1>1. g \in Nat /\ g > 0 /\ machine_count \in Nat /\ machine_count > 0
  BY KVAssumption
<1>2. m \in Nat /\ m + 1 <= machine_count
  BY <1>1 DEF Machines
<1>3. machine_count * g >= (m + 1) * g
  BY <1>1, <1>2, Product
<1>4. (m + 1) * g = s + g /\ s \in Nat /\ machine_count * g \in Nat
  BY <1>1, <1>2, SMT
<1>5. s \in 0..(machine_count * g - 1)
  <2> HIDE DEF s
  <2>1. s + g <= machine_count * g
    BY <1>3, <1>4
  <2> QED BY <1>1, <1>4, <2>1
<1>6. s \div g = m /\ s % g = 0
  BY <1>1, <1>2, SMT
<1> QED BY <1>5, <1>6 DEF MachineOf, is_backup_server, Servers

\* Server 0 exists, there are finitely many servers and clients.
LEMMA FiniteParts ==
    /\ 0 \in Servers /\ IsFiniteSet(Servers)
    /\ IsFiniteSet(Clients) /\ Cardinality(Clients) = num_clients
<1>1. machine_count \in Nat /\ group_count \in Nat /\ num_clients \in Nat
      /\ machine_count > 0 /\ group_count > 0 /\ num_clients > 0
  BY KVAssumption
<1>2. machine_count * group_count \in Nat /\ machine_count * group_count >= 1 * group_count
  BY <1>1, Product
<1>3. 0 \in Servers
  BY <1>1, <1>2 DEF Servers
<1>4. IsFiniteSet(Servers)
  BY <1>2, FS_Interval DEF Servers
<1>5. IsFiniteSet(Clients) /\ Cardinality(Clients) = num_clients
  <2>1. 0 <= num_clients - 1 /\ num_clients - 1 \in Int
    BY <1>1
  <2>2. Cardinality(0..(num_clients - 1)) = (num_clients - 1) - 0 + 1 /\ IsFiniteSet(0..(num_clients - 1))
    BY <2>1, FS_Interval
  <2> QED BY <1>1, <2>2 DEF Clients
<1> QED BY <1>3, <1>4, <1>5

\* The targets of a step are finitely many servers; a barrier request goes to
\* server 0 alone.
LEMMA TargetsType ==
    ASSUME NEW c \in Clients, NEW step
    PROVE  /\ Targets(c, step) \subseteq Servers /\ IsFiniteSet(Targets(c, step))
           /\ Cardinality(Targets(c, step)) \in Nat
           /\ Cardinality(Targets(c, step)) <= Cardinality(Servers)
           /\ step = "barrier" => Targets(c, step) = {0} /\ Cardinality(Targets(c, step)) = 1
<1>1. Targets(c, step) \subseteq Servers
  BY FiniteParts DEF Targets, MyGroup, Group
<1>2. IsFiniteSet(Targets(c, step)) /\ Cardinality(Targets(c, step)) <= Cardinality(Servers)
  BY <1>1, FiniteParts, FS_Subset
<1>3. step = "barrier" => Targets(c, step) = {0}
  BY DEF Targets
<1>4. Cardinality({0}) = 1
  BY FS_Singleton
<1> QED BY <1>1, <1>2, <1>3, <1>4, FS_CardinalityType

-----------------------------------------------------------------------------
(* Channels *)

\* What send_request does to the channels: one more request at the end of the
\* channels from c to a set of servers.
SentOne(c, servers, r) ==
    /\ \A d \in Clients, s \in Servers : ~(d = c /\ s \in servers) =>
         req'[d][s] = req[d][s]
    /\ \A s \in servers :
         /\ Len(req'[c][s]) = Len(req[c][s]) + 1
         /\ \A i \in 1..Len(req[c][s]) : req'[c][s][i] = req[c][s][i]
         /\ req'[c][s][Len(req[c][s]) + 1] = r

\* send_request appends the request to the channels of its targets, and to no other.
LEMMA SendToOne ==
    ASSUME NEW c \in Clients, NEW servers \in SUBSET Servers, NEW r \in Req,
           req \in [Clients -> [Servers -> Seq(Req)]], SendTo(c, servers, r)
    PROVE  req' \in [Clients -> [Servers -> Seq(Req)]] /\ SentOne(c, servers, r)
<1> DEFINE q == [s \in Servers |-> IF s \in servers THEN Append(req[c][s], r) ELSE req[c][s]]
<1>1. req' = [req EXCEPT ![c] = q]
  BY DEF SendTo
<1>2. \A s \in Servers : req[c][s] \in Seq(Req)
  OBVIOUS
<1>3. q \in [Servers -> Seq(Req)]
  <2> SUFFICES ASSUME NEW s \in Servers
               PROVE  (IF s \in servers THEN Append(req[c][s], r) ELSE req[c][s]) \in Seq(Req)
    OBVIOUS
  <2>1. Append(req[c][s], r) \in Seq(Req)
    BY <1>2, AppendProperties
  <2> QED BY <1>2, <2>1
<1>4. \A s \in Servers : ~(s \in servers) => q[s] = req[c][s]
  OBVIOUS
<1>5. ASSUME NEW s \in servers
      PROVE  /\ Len(q[s]) = Len(req[c][s]) + 1
             /\ \A i \in 1..Len(req[c][s]) : q[s][i] = req[c][s][i]
             /\ q[s][Len(req[c][s]) + 1] = r
  <2>1. q[s] = Append(req[c][s], r) /\ req[c][s] \in Seq(Req)
    BY <1>2
  <2> QED BY <2>1, AppendProperties
<1> HIDE DEF q
<1>6. req' \in [Clients -> [Servers -> Seq(Req)]]
  BY <1>1, <1>3
<1>7. req'[c] = q /\ \A d \in Clients : d # c => req'[d] = req[d]
  BY <1>1
<1> QED BY <1>4, <1>5, <1>6, <1>7 DEF SentOne

\* What serving a request does to the channels.
TakenOne(c, s) ==
    /\ \A d \in Clients, t \in Servers : ~(d = c /\ t = s) => req'[d][t] = req[d][t]
    /\ Len(req[c][s]) >= 1
    /\ Len(req'[c][s]) = Len(req[c][s]) - 1
    /\ \A i \in 1..Len(req'[c][s]) : req'[c][s][i] = req[c][s][i + 1]

\* Taking a request shortens its channel at the front.
LEMMA TakeOne ==
    ASSUME NEW c \in Clients, NEW s \in Servers,
           req \in [Clients -> [Servers -> Seq(Req)]],
           req[c][s] # <<>>, req' = [req EXCEPT ![c][s] = Tail(@)]
    PROVE  /\ req' \in [Clients -> [Servers -> Seq(Req)]] /\ TakenOne(c, s)
           /\ Head(req[c][s]) = req[c][s][1] /\ Head(req[c][s]) \in Req
<1> DEFINE q == req[c][s]
<1>1. q \in Seq(Req) /\ q # <<>>
  OBVIOUS
<1>2. req' = [req EXCEPT ![c] = [req[c] EXCEPT ![s] = Tail(q)]]
  OBVIOUS
<1>3. req[c] \in [Servers -> Seq(Req)]
  OBVIOUS
<1> HIDE DEF q
<1>4. /\ Tail(q) \in Seq(Req) /\ Len(Tail(q)) = Len(q) - 1 /\ Len(q) \in Nat
      /\ \A i \in 1..Len(Tail(q)) : Tail(q)[i] = q[i + 1]
      /\ Head(q) \in Req
      /\ Head(q) = q[1] /\ Len(q) >= 1
  <2>1. Len(q) \in Nat /\ Len(q) # 0
    BY <1>1, EmptySeq, LenProperties
  <2>2. Len(Tail(q)) = Len(q) - 1
    BY <1>1, HeadTailProperties
  <2> QED BY <1>1, <2>1, <2>2, HeadTailProperties
<1>5. [req[c] EXCEPT ![s] = Tail(q)] \in [Servers -> Seq(Req)]
  BY <1>3, <1>4
<1>6. req' \in [Clients -> [Servers -> Seq(Req)]]
  BY <1>2, <1>5
<1>7. req'[c][s] = Tail(q) /\ \A t \in Servers : t # s => req'[c][t] = req[c][t]
  BY <1>2, <1>3
<1>8. \A d \in Clients : d # c => req'[d] = req[d]
  BY <1>2
<1> QED BY <1>4, <1>6, <1>7, <1>8 DEF TakenOne, q

-----------------------------------------------------------------------------
(* Every step keeps the types. *)

\* A step of the program, or none.
LEMMA StepAtType == \A i \in Nat : StepAt(i) \in Steps \cup {"none"}
<1>1. \A i \in DOMAIN Script : Script[i] \in Steps
  BY KVAssumption
<1> QED BY <1>1 DEF StepAt

\* The pushes and pulls that clients send are requests.
LEMMA RequestType ==
    ASSUME Types, NEW c \in Clients, NEW kind \in Kinds
    PROVE  Request(c, kind) \in Req
<1>1. client[c] \in ClientState
  BY DEF Types
<1>2. client[c].handler \in Handlers /\ client[c].at \in Nat /\ client[c].work \in Nat
  BY <1>1, KVAssumption, LenProperties DEF ClientState
<1>3. <<c, client[c].work>> \in Ids
  BY <1>2 DEF Ids
<1> QED BY <1>2, <1>3 DEF Request, Req

\* What Advance does: the new state of the client, and its requests.
AdvanceRequest(c) ==
    [kind |-> StepAt(client[c].at + 1), id |-> <<c, 0>>, handler |-> client'[c].handler,
     at |-> client[c].at + 1]

\* The step moves its client only, and sends one well-typed request to each target.
LEMMA AdvanceEffect ==
    ASSUME Types, NEW c \in Clients, Advance(c)
    PROVE  /\ client' \in [Clients -> ClientState]
           /\ \A d \in Clients : d # c => client'[d] = client[d]
           /\ client'[c].at = client[c].at + 1
           /\ client'[c].wait = Cardinality(Targets(c, StepAt(client[c].at + 1)))
           /\ client'[c].work = client[c].work
           /\ client'[c].handler = IF Step(c) = "register" THEN Added
                                   ELSE IF StepAt(client[c].at + 1) = "map" THEN Default
                                   ELSE IF StepAt(client[c].at + 1) = "unmap" THEN NoHandler
                                   ELSE client[c].handler
           /\ AdvanceRequest(c) \in Req
           /\ SendTo(c, Targets(c, StepAt(client[c].at + 1)), AdvanceRequest(c))
<1> DEFINE next == StepAt(client[c].at + 1)
           h == IF Step(c) = "register" THEN Added
                ELSE IF next = "map" THEN Default
                ELSE IF next = "unmap" THEN NoHandler ELSE client[c].handler
           r == [client[c] EXCEPT !.at = client[c].at + 1, !.handler = h,
                                  !.wait = Cardinality(Targets(c, next))]
<1>1. client[c] \in ClientState
  BY DEF Types
<1>2. h = IF Step(c) = "register" THEN Added
          ELSE IF next = "map" THEN Default
          ELSE IF next = "unmap" THEN NoHandler ELSE client[c].handler
  OBVIOUS
<1>3. client' = [client EXCEPT ![c] = r]
  BY DEF Advance
<1>4. SendTo(c, Targets(c, next), [kind |-> next, id |-> <<c, 0>>, handler |-> h,
                                   at |-> client[c].at + 1])
  BY DEF Advance
<1>5. client[c].at \in 0..(Len(Script) + 1) /\ ~(client[c].at > Len(Script)) /\ Len(Script) \in Nat
  BY <1>1, KVAssumption, LenProperties DEF Advance, Done, ClientState
<1>6. client[c].at + 1 \in 0..(Len(Script) + 1) /\ client[c].at + 1 \in Nat
  BY <1>5
<1>7. next \in Kinds
  BY <1>6, StepAtType DEF Kinds
<1>8. Cardinality(Targets(c, next)) \in Int
  BY TargetsType
<1> HIDE DEF next
<1>9. h \in Handlers
  BY <1>1, <1>2 DEF ClientState, Handlers
<1> HIDE DEF h
<1>10. /\ r \in ClientState /\ r.at = client[c].at + 1 /\ r.handler = h
       /\ r.wait = Cardinality(Targets(c, next)) /\ r.work = client[c].work
  BY <1>1, <1>6, <1>8, <1>9 DEF ClientState
<1> HIDE DEF r
<1>11. client \in [Clients -> ClientState]
  BY DEF Types
<1>12. /\ client' \in [Clients -> ClientState]
       /\ \A d \in Clients : d # c => client'[d] = client[d]
       /\ client'[c] = r
  BY <1>3, <1>10, <1>11
<1>13. AdvanceRequest(c) = [kind |-> next, id |-> <<c, 0>>, handler |-> h, at |-> client[c].at + 1]
  BY <1>10, <1>12 DEF AdvanceRequest, next
<1>14. AdvanceRequest(c) \in Req
  BY <1>6, <1>7, <1>9, <1>13 DEF Req, Ids
<1> QED BY <1>2, <1>4, <1>10, <1>12, <1>13, <1>14 DEF next

\* What the actions between the collective calls do to the client.
LEMMA WorkEffect ==
    ASSUME Types, NEW c \in Clients,
           \/ \E s \in Servers : PushRemote(c, s)
           \/ PushLocal(c) \/ WriteLocal(c)
           \/ \E servers \in SUBSET Servers : Pull(c, servers)
    PROVE  /\ client' \in [Clients -> ClientState]
           /\ \A d \in Clients : d # c => client'[d] = client[d]
           /\ client'[c].at = client[c].at /\ client'[c].handler = client[c].handler
           /\ client[c].work <= MaxWork[c] => client'[c].work <= MaxWork[c]
           /\ UNCHANGED <<server, count>>
<1>1. client[c] \in ClientState /\ client \in [Clients -> ClientState]
      /\ machine_id[c] \in Machines /\ mem \in [Machines -> Memory] /\ MaxWork[c] \in Nat
  BY KVAssumption DEF Types
<1>2. mem[machine_id[c]].row \in SUBSET Ids
  BY <1>1 DEF Memory
<1> DEFINE w == client[c].work + 1
<1>3. /\ client[c].work \in Nat /\ w \in Nat
      /\ client[c].work < MaxWork[c] => w <= MaxWork[c]
  <2>1. client[c].work \in Nat
    BY <1>1 DEF ClientState
  <2> QED BY <1>1, <2>1
<1>4. <<c, client[c].work>> \in Ids
  BY <1>3 DEF Ids
<1>5. ASSUME NEW r, client' = [client EXCEPT ![c] = r], r \in ClientState,
             r.at = client[c].at, r.handler = client[c].handler,
             client[c].work <= MaxWork[c] => r.work <= MaxWork[c]
      PROVE  /\ client' \in [Clients -> ClientState]
             /\ \A d \in Clients : d # c => client'[d] = client[d]
             /\ client'[c].at = client[c].at /\ client'[c].handler = client[c].handler
             /\ client[c].work <= MaxWork[c] => client'[c].work <= MaxWork[c]
  BY <1>1, <1>5
<1>6. ASSUME NEW s \in Servers, PushRemote(c, s)
      PROVE  \E r : /\ client' = [client EXCEPT ![c] = r] /\ r \in ClientState
                    /\ r.at = client[c].at /\ r.handler = client[c].handler
                    /\ client[c].work <= MaxWork[c] => r.work <= MaxWork[c]
  <2> DEFINE r == [client[c] EXCEPT !.work = w]
  <2>1. client' = [client EXCEPT ![c] = r] /\ client[c].work < MaxWork[c]
    BY <1>6 DEF PushRemote
  <2> HIDE DEF w
  <2>2. r \in ClientState /\ r.at = client[c].at /\ r.handler = client[c].handler
        /\ r.work = w
    BY <1>1, <1>3 DEF ClientState
  <2> HIDE DEF r
  <2>3. client[c].work <= MaxWork[c] => r.work <= MaxWork[c]
    BY <1>1, <1>3, <2>1, <2>2
  <2> QED BY <2>1, <2>2, <2>3
<1>7. ASSUME PushLocal(c)
      PROVE  \E r : /\ client' = [client EXCEPT ![c] = r] /\ r \in ClientState
                    /\ r.at = client[c].at /\ r.handler = client[c].handler
                    /\ client[c].work <= MaxWork[c] => r.work <= MaxWork[c]
  <2> DEFINE b == [kind |-> "push", id |-> <<c, client[c].work>>, read |-> mem[machine_id[c]].row]
             r == [client[c] EXCEPT !.work = w, !.busy = b]
  <2>1. client' = [client EXCEPT ![c] = r] /\ client[c].work < MaxWork[c]
    BY <1>7 DEF PushLocal
  <2> HIDE DEF w
  <2>2. b \in LocalPush
    BY <1>2, <1>4 DEF LocalPush
  <2> HIDE DEF b
  <2>3. r \in ClientState /\ r.at = client[c].at /\ r.handler = client[c].handler
        /\ r.work = w
    BY <1>1, <1>3, <2>2 DEF ClientState
  <2> HIDE DEF r
  <2>4. client[c].work <= MaxWork[c] => r.work <= MaxWork[c]
    BY <1>1, <1>3, <2>1, <2>3
  <2> QED BY <2>1, <2>3, <2>4
<1>8. ASSUME WriteLocal(c)
      PROVE  \E r : /\ client' = [client EXCEPT ![c] = r] /\ r \in ClientState
                    /\ r.at = client[c].at /\ r.handler = client[c].handler
                    /\ client[c].work <= MaxWork[c] => r.work <= MaxWork[c]
  <2> DEFINE r == [client[c] EXCEPT !.busy = Idle]
  <2>1. client' = [client EXCEPT ![c] = r]
    BY <1>8 DEF WriteLocal
  <2>2. r \in ClientState /\ r.at = client[c].at /\ r.handler = client[c].handler
        /\ r.work = client[c].work
    BY <1>1 DEF ClientState
  <2> HIDE DEF r
  <2> QED BY <2>1, <2>2
<1>9. ASSUME NEW servers \in SUBSET Servers, Pull(c, servers)
      PROVE  \E r : /\ client' = [client EXCEPT ![c] = r] /\ r \in ClientState
                    /\ r.at = client[c].at /\ r.handler = client[c].handler
                    /\ client[c].work <= MaxWork[c] => r.work <= MaxWork[c]
  <2> DEFINE r == [client[c] EXCEPT !.work = w, !.wait = Cardinality(servers)]
  <2>1. client' = [client EXCEPT ![c] = r] /\ client[c].work < MaxWork[c]
    <3>1. client' = [client EXCEPT ![c].work = @ + 1, ![c].wait = Cardinality(servers)]
          /\ client[c].work < MaxWork[c]
      BY <1>9 DEF Pull
    <3>2. client' = [client EXCEPT ![c] = r]
      BY <3>1
    <3> QED BY <3>1, <3>2
  <2> HIDE DEF w
  <2>2. Cardinality(servers) \in Int
    BY FiniteParts, FS_Subset, FS_CardinalityType
  <2>3. r \in ClientState /\ r.at = client[c].at /\ r.handler = client[c].handler
        /\ r.work = w
    BY <1>1, <1>3, <2>2 DEF ClientState
  <2> HIDE DEF r
  <2>4. client[c].work <= MaxWork[c] => r.work <= MaxWork[c]
    BY <1>1, <1>3, <2>1, <2>3
  <2> QED BY <2>1, <2>3, <2>4
<1>10. UNCHANGED <<server, count>>
  BY DEF PushRemote, PushLocal, WriteLocal, Pull
<1>11. PICK r : /\ client' = [client EXCEPT ![c] = r] /\ r \in ClientState
                /\ r.at = client[c].at /\ r.handler = client[c].handler
                /\ client[c].work <= MaxWork[c] => r.work <= MaxWork[c]
  BY <1>6, <1>7, <1>8, <1>9
<1> QED BY <1>5, <1>10, <1>11

\* The response to some of the clients: they wait for one answer less.
AnsweredEffect(cs) ==
    /\ client' \in [Clients -> ClientState]
    /\ \A d \in Clients :
         /\ client'[d].at = client[d].at /\ client'[d].handler = client[d].handler
         /\ client'[d].work = client[d].work
         /\ client'[d].wait = IF d \in cs THEN client[d].wait - 1 ELSE client[d].wait

\* A response takes one from the missing answers of the clients it is for.
LEMMA AnsweredOne ==
    ASSUME Types, NEW cs, Answered(cs)
    PROVE  AnsweredEffect(cs)
<1> SUFFICES ASSUME NEW d \in Clients
             PROVE  /\ client'[d] \in ClientState
                    /\ client'[d].at = client[d].at /\ client'[d].handler = client[d].handler
                    /\ client'[d].work = client[d].work
                    /\ client'[d].wait = IF d \in cs THEN client[d].wait - 1 ELSE client[d].wait
  BY DEF Answered, AnsweredEffect
<1> DEFINE w == client[d].wait - 1
           r == [client[d] EXCEPT !.wait = w]
<1>1. client[d] \in ClientState
  BY DEF Types
<1>2. w \in Int
  BY <1>1 DEF ClientState
<1>3. client'[d] = IF d \in cs THEN r ELSE client[d]
  BY DEF Answered
<1> HIDE DEF w
<1>4. /\ r \in ClientState /\ r.at = client[d].at /\ r.handler = client[d].handler
      /\ r.work = client[d].work /\ r.wait = w
  BY <1>1, <1>2 DEF ClientState
<1> HIDE DEF r
<1>5. CASE d \in cs
  BY <1>1, <1>3, <1>4, <1>5 DEF w
<1>6. CASE d \notin cs
  BY <1>1, <1>3, <1>6
<1> QED BY <1>5, <1>6

\* What a request does.
Handles(s, c, r) ==
    \/ BarrierRequest(s, c, r) \/ InitDataRequest(s, c, r)
    \/ SendMetaToBackupRequest(s, c, r) \/ RegisterPushHandlerRequest(s, c, r)
    \/ DeleteDataRequest(s, c, r) \/ PullRequest(s, c, r) \/ PushRequest(s, c, r)

\* A request changes only the server it is at, and the memory of its machine.
ServerEffect(s) ==
    /\ server' \in [Servers -> ServerState]
    /\ \A t \in Servers : t # s => server'[t] = server[t]
    /\ mem' \in [Machines -> Memory]
    /\ added' \in [Machines -> SUBSET Ids]

\* The assignment of a server changes that server only.
LEMMA NewServer ==
    ASSUME Types, NEW s \in Servers, NEW v \in ServerState, server' = [server EXCEPT ![s] = v]
    PROVE  /\ server' \in [Servers -> ServerState]
           /\ \A t \in Servers : t # s => server'[t] = server[t]
           /\ server'[s] = v
  BY DEF Types

\* The assignment of a memory changes that memory only.
LEMMA NewMemory ==
    ASSUME Types, NEW m \in Machines, NEW v \in Memory, mem' = [mem EXCEPT ![m] = v]
    PROVE  /\ mem' \in [Machines -> Memory]
           /\ \A n \in Machines : n # m => mem'[n] = mem[n]
           /\ mem'[m] = v
  BY DEF Types

\* The server dies of a request.
LEMMA DieEffect ==
    ASSUME Types, NEW s \in Servers, NEW r \in Req, Die(s, r)
    PROVE  /\ ServerEffect(s) /\ UNCHANGED <<client, mem, count>>
           /\ server'[s].died = r /\ server'[s].busy = server[s].busy
           /\ server'[s].data = server[s].data /\ server'[s].policy = server[s].policy
           /\ server'[s].handler = server[s].handler
<1> DEFINE v == [server[s] EXCEPT !.died = r]
<1>1. server[s] \in ServerState
  BY DEF Types
<1>2. server' = [server EXCEPT ![s] = v] /\ UNCHANGED <<client, mem, count, added>>
  BY DEF Die
<1>3. /\ v \in ServerState /\ v.died = r /\ v.busy = server[s].busy /\ v.data = server[s].data
      /\ v.policy = server[s].policy /\ v.handler = server[s].handler
  BY <1>1 DEF ServerState
<1> HIDE DEF v
<1>4. /\ server' \in [Servers -> ServerState] /\ server'[s] = v
      /\ \A t \in Servers : t # s => server'[t] = server[t]
  BY <1>2, <1>3, NewServer
<1> QED BY <1>2, <1>3, <1>4 DEF ServerEffect, Types

\* init_data: a server that has no data takes the tensor.
InitEffect(s) ==
    /\ ServerEffect(s)
    /\ server'[s].died = server[s].died /\ server'[s].busy = server[s].busy
    /\ server[s].data => server'[s] = server[s]
    /\ ~server[s].data => /\ server'[s].policy /\ server'[s].handler = Default
                          /\ server'[s].data = ~is_backup_server(s)
    /\ \A m \in Machines : mem[m].exists => mem'[m].exists
    /\ ~server[s].data /\ ~is_backup_server(s) => mem'[MachineOf(s)].exists

\* InitDataRequest is answered; a main server then has the shared memory.
LEMMA InitRequest ==
    ASSUME Types, NEW s \in Servers, NEW c \in Clients, NEW r \in Req, InitDataRequest(s, c, r)
    PROVE  InitEffect(s) /\ AnsweredEffect({c}) /\ UNCHANGED count
<1> DEFINE b == ~is_backup_server(s)
           v == [server[s] EXCEPT !.policy = TRUE, !.handler = Default, !.data = b]
           m == MachineOf(s)
           w == [exists |-> TRUE, row |-> {}]
<1>1. server[s] \in ServerState /\ server \in [Servers -> ServerState] /\ m \in Machines
      /\ mem \in [Machines -> Memory] /\ b \in BOOLEAN
  BY MachineType DEF Types
<1>2. /\ server' = IF server[s].data THEN server ELSE [server EXCEPT ![s] = v]
      /\ mem' = IF server[s].data \/ is_backup_server(s) THEN mem ELSE [mem EXCEPT ![m] = w]
      /\ Answered({c}) /\ UNCHANGED <<count, added>>
  BY DEF InitDataRequest
<1>3. w \in Memory /\ w.exists
  BY DEF Memory
<1>4. b = ~is_backup_server(s)
  OBVIOUS
<1> HIDE DEF b
<1>5. /\ v \in ServerState /\ v.died = server[s].died /\ v.busy = server[s].busy
      /\ v.policy = TRUE /\ v.handler = Default /\ v.data = b
  BY <1>1 DEF ServerState, Handlers
<1> HIDE DEF v, m, w
<1>6. /\ server' \in [Servers -> ServerState]
      /\ \A t \in Servers : t # s => server'[t] = server[t]
      /\ server[s].data => server'[s] = server[s]
      /\ ~server[s].data => server'[s] = v
  <2>1. CASE server[s].data
    BY <1>1, <1>2, <2>1
  <2>2. CASE ~server[s].data
    BY <1>2, <1>5, <2>2, NewServer
  <2> QED BY <2>1, <2>2
<1>7. /\ mem' \in [Machines -> Memory]
      /\ \A n \in Machines : mem[n].exists => mem'[n].exists
      /\ ~server[s].data /\ ~is_backup_server(s) => mem'[m].exists
  <2>1. CASE server[s].data \/ is_backup_server(s)
    BY <1>1, <1>2, <2>1
  <2>2. CASE ~server[s].data /\ ~is_backup_server(s)
    <3>1. /\ mem' \in [Machines -> Memory]
          /\ \A n \in Machines : n # m => mem'[n] = mem[n]
          /\ mem'[m] = w
      BY <1>1, <1>2, <1>3, <2>2, NewMemory
    <3> QED BY <1>3, <3>1
  <2> QED BY <2>1, <2>2
<1>8. InitEffect(s)
  BY <1>1, <1>2, <1>4, <1>5, <1>6, <1>7 DEF InitEffect, ServerEffect, Types, m
<1> QED BY <1>2, <1>8, AnsweredOne

\* send_meta_to_backup, when the server does not die of it.
MapEffect(s, r) ==
    /\ ServerEffect(s)
    /\ server'[s].died = server[s].died /\ server'[s].busy = server[s].busy
    /\ server'[s].data /\ server'[s].policy /\ server'[s].handler = r.handler

\* SendMetaToBackupRequest, where it passes its check, is answered.
LEMMA MapRequest ==
    ASSUME Types, NEW s \in Servers, NEW c \in Clients, NEW r \in Req,
           SendMetaToBackupRequest(s, c, r),
           IF server[s].data THEN server[s].handler = r.handler ELSE mem[MachineOf(s)].exists
    PROVE  MapEffect(s, r) /\ AnsweredEffect({c}) /\ UNCHANGED <<mem, count>>
<1> DEFINE v == [server[s] EXCEPT !.data = TRUE, !.policy = TRUE, !.handler = r.handler]
<1>1. server[s] \in ServerState /\ r.handler \in Handlers
  BY DEF Types, Req
<1>2. server' = [server EXCEPT ![s] = v] /\ Answered({c}) /\ UNCHANGED <<mem, count, added>>
  BY DEF SendMetaToBackupRequest
<1>3. /\ v \in ServerState /\ v.died = server[s].died /\ v.busy = server[s].busy
      /\ v.data = TRUE /\ v.policy = TRUE /\ v.handler = r.handler
  BY <1>1 DEF ServerState
<1> HIDE DEF v
<1>4. /\ server' \in [Servers -> ServerState] /\ server'[s] = v
      /\ \A t \in Servers : t # s => server'[t] = server[t]
  BY <1>2, <1>3, NewServer
<1>5. MapEffect(s, r)
  BY <1>2, <1>3, <1>4 DEF MapEffect, ServerEffect, Types
<1> QED BY <1>2, <1>5, AnsweredOne

\* A server that did not pass the check of send_meta_to_backup dies.
LEMMA MapDies ==
    ASSUME NEW s, NEW c, NEW r, SendMetaToBackupRequest(s, c, r),
           ~IF server[s].data THEN server[s].handler = r.handler ELSE mem[MachineOf(s)].exists
    PROVE  Die(s, r)
  BY DEF SendMetaToBackupRequest

\* register_push_handler.
RegisterEffect(s) ==
    /\ ServerEffect(s)
    /\ server'[s].died = server[s].died /\ server'[s].busy = server[s].busy
    /\ server'[s].data = server[s].data /\ server'[s].policy = server[s].policy
    /\ server'[s].handler = Added

\* RegisterPushHandlerRequest is answered; memory stays.
LEMMA RegisterRequest ==
    ASSUME Types, NEW s \in Servers, NEW c \in Clients, NEW r \in Req,
           RegisterPushHandlerRequest(s, c, r)
    PROVE  RegisterEffect(s) /\ AnsweredEffect({c}) /\ UNCHANGED <<mem, count>>
<1> DEFINE v == [server[s] EXCEPT !.handler = Added]
<1>1. server[s] \in ServerState
  BY DEF Types
<1>2. server' = [server EXCEPT ![s] = v] /\ Answered({c}) /\ UNCHANGED <<mem, count, added>>
  BY DEF RegisterPushHandlerRequest
<1>3. /\ v \in ServerState /\ v.died = server[s].died /\ v.busy = server[s].busy
      /\ v.data = server[s].data /\ v.policy = server[s].policy /\ v.handler = Added
  BY <1>1 DEF ServerState, Handlers
<1> HIDE DEF v
<1>4. /\ server' \in [Servers -> ServerState] /\ server'[s] = v
      /\ \A t \in Servers : t # s => server'[t] = server[t]
  BY <1>2, <1>3, NewServer
<1>5. RegisterEffect(s)
  BY <1>2, <1>3, <1>4 DEF RegisterEffect, ServerEffect, Types
<1> QED BY <1>2, <1>5, AnsweredOne

\* delete_data: afterwards the server has no data.
DeleteEffect(s) ==
    /\ ServerEffect(s)
    /\ server'[s].died = server[s].died /\ server'[s].busy = server[s].busy
    /\ ~server'[s].data

\* DeleteDataRequest is answered; the memory of other machines stays.
LEMMA DeleteRequest ==
    ASSUME Types, NEW s \in Servers, NEW c \in Clients, NEW r \in Req, DeleteDataRequest(s, c, r)
    PROVE  /\ DeleteEffect(s) /\ AnsweredEffect({c}) /\ UNCHANGED count
           /\ \A m \in Machines : m # MachineOf(s) => mem'[m] = mem[m]
<1> DEFINE v == [server[s] EXCEPT !.data = FALSE, !.policy = FALSE, !.handler = NoHandler]
           m == MachineOf(s)
           w == [mem[m] EXCEPT !.exists = FALSE]
<1>1. server[s] \in ServerState /\ server \in [Servers -> ServerState] /\ m \in Machines
      /\ mem \in [Machines -> Memory] /\ mem[m] \in Memory
  BY MachineType DEF Types
<1>2. /\ server' = IF server[s].data THEN [server EXCEPT ![s] = v] ELSE server
      /\ mem' = IF is_backup_server(s) THEN mem ELSE [mem EXCEPT ![m] = w]
      /\ Answered({c}) /\ UNCHANGED <<count, added>>
  BY DEF DeleteDataRequest
<1>3. w \in Memory
  BY <1>1 DEF Memory
<1>4. /\ v \in ServerState /\ v.died = server[s].died /\ v.busy = server[s].busy
      /\ v.data = FALSE
  BY <1>1 DEF ServerState, Handlers
<1> HIDE DEF v, m, w
<1>5. /\ server' \in [Servers -> ServerState]
      /\ \A t \in Servers : t # s => server'[t] = server[t]
      /\ server'[s].died = server[s].died /\ server'[s].busy = server[s].busy
      /\ ~server'[s].data
  <2>1. CASE server[s].data
    <3>1. /\ server' \in [Servers -> ServerState] /\ server'[s] = v
          /\ \A t \in Servers : t # s => server'[t] = server[t]
      BY <1>2, <1>4, <2>1, NewServer
    <3> QED BY <1>4, <3>1
  <2>2. CASE ~server[s].data
    BY <1>1, <1>2, <2>2
  <2> QED BY <2>1, <2>2
<1>6. mem' \in [Machines -> Memory] /\ \A n \in Machines : n # m => mem'[n] = mem[n]
  <2>1. CASE is_backup_server(s)
    BY <1>1, <1>2, <2>1
  <2>2. CASE ~is_backup_server(s)
    BY <1>1, <1>2, <1>3, <2>2, NewMemory
  <2> QED BY <2>1, <2>2
<1>7. DeleteEffect(s)
  BY <1>2, <1>5, <1>6 DEF DeleteEffect, ServerEffect, Types
<1> QED BY <1>2, <1>6, <1>7, AnsweredOne DEF m

\* A pull is answered or kills the server.
LEMMA PullEffect ==
    ASSUME Types, NEW s \in Servers, NEW c \in Clients, NEW r \in Req, PullRequest(s, c, r),
           server[s].policy, server[s].data
    PROVE  ServerEffect(s) /\ AnsweredEffect({c}) /\ UNCHANGED <<server, mem, count>>
<1>1. Answered({c}) /\ UNCHANGED <<server, mem, count, added>>
  BY DEF PullRequest
<1> QED BY <1>1, AnsweredOne DEF ServerEffect, Types

\* A push: the push handler reads the row.
PushEffect(s, r) ==
    /\ ServerEffect(s)
    /\ server'[s].died = server[s].died
    /\ server'[s].busy.kind = "push"
    /\ server'[s].busy.at = r.at /\ server'[s].busy.handler = r.handler
    /\ server'[s].data = server[s].data /\ server'[s].policy = server[s].policy
    /\ server'[s].handler = server[s].handler

\* PushRequest, where the tensor is there, answers nobody.
LEMMA PushEffectOf ==
    ASSUME Types, NEW s \in Servers, NEW c \in Clients, NEW r \in Req, PushRequest(s, c, r),
           server[s].policy, server[s].data
    PROVE  PushEffect(s, r) /\ UNCHANGED <<client, mem, count>>
<1> DEFINE b == [kind |-> "push", id |-> r.id, handler |-> r.handler, at |-> r.at,
                 read |-> mem[MachineOf(s)].row]
           v == [server[s] EXCEPT !.busy = b]
<1>1. /\ server[s] \in ServerState /\ mem[MachineOf(s)] \in Memory
      /\ r.id \in Ids /\ r.handler \in Handlers /\ r.at \in Nat
  BY MachineType DEF Types, Req
<1>2. server' = [server EXCEPT ![s] = v] /\ UNCHANGED <<client, mem, count, added>>
  BY DEF PushRequest
<1>3. b \in ServerPush /\ b.kind = "push" /\ b.at = r.at /\ b.handler = r.handler
  BY <1>1 DEF ServerPush, Memory
<1> HIDE DEF b
<1>4. /\ v \in ServerState /\ v.died = server[s].died /\ v.busy = b
      /\ v.data = server[s].data /\ v.policy = server[s].policy /\ v.handler = server[s].handler
  BY <1>1, <1>3 DEF ServerState
<1> HIDE DEF v
<1>5. /\ server' \in [Servers -> ServerState] /\ server'[s] = v
      /\ \A t \in Servers : t # s => server'[t] = server[t]
  BY <1>2, <1>4, NewServer
<1> QED BY <1>2, <1>3, <1>4, <1>5 DEF PushEffect, ServerEffect, Types

\* A pull or a push that finds no data kills the server.
LEMMA NoDataDies ==
    ASSUME NEW s, NEW c, NEW r, PullRequest(s, c, r) \/ PushRequest(s, c, r),
           ~(server[s].policy /\ server[s].data)
    PROVE  Die(s, r)
  BY DEF PullRequest, PushRequest

\* The write of a push changes a row and the adds, not what exists.
LEMMA WrittenEffect ==
    ASSUME Types, NEW m \in Machines, NEW h, NEW w, w.id \in Ids, w.read \in SUBSET Ids,
           Written(m, h, w)
    PROVE  /\ mem' \in [Machines -> Memory] /\ added' \in [Machines -> SUBSET Ids]
           /\ \A n \in Machines : mem'[n].exists = mem[n].exists
<1> DEFINE row == IF h = Added THEN w.read \cup {w.id} ELSE {w.id}
           v == [mem[m] EXCEPT !.row = row]
<1>1. mem[m] \in Memory /\ mem \in [Machines -> Memory] /\ added \in [Machines -> SUBSET Ids]
  BY DEF Types
<1>2. mem' = [mem EXCEPT ![m] = v]
  BY DEF Written
<1>3. row \in SUBSET Ids
  OBVIOUS
<1> HIDE DEF row
<1>4. v \in Memory /\ v.exists = mem[m].exists
  BY <1>1, <1>3 DEF Memory
<1> HIDE DEF v
<1>5. mem' \in [Machines -> Memory] /\ mem'[m] = v /\ \A n \in Machines : n # m => mem'[n] = mem[n]
  BY <1>2, <1>4, NewMemory
<1>6. added' \in [Machines -> SUBSET Ids]
  <2>1. CASE h = Added
    BY <1>1, <2>1 DEF Written
  <2>2. CASE h # Added
    BY <1>1, <2>2 DEF Written
  <2> QED BY <2>1, <2>2
<1> QED BY <1>4, <1>5, <1>6

\* The server's push handler writes the row.
LEMMA WriteEffect ==
    ASSUME Types, NEW s \in Servers, Write(s)
    PROVE  /\ ServerEffect(s) /\ UNCHANGED <<client, req, count>>
           /\ \A n \in Machines : mem'[n].exists = mem[n].exists
           /\ server'[s].busy = Idle /\ server'[s].died = server[s].died
           /\ server'[s].data = server[s].data /\ server'[s].policy = server[s].policy
           /\ server'[s].handler = server[s].handler
<1> DEFINE v == [server[s] EXCEPT !.busy = Idle]
           b == server[s].busy
<1>1. server[s] \in ServerState /\ MachineOf(s) \in Machines
  BY MachineType DEF Types
<1>2. /\ server' = [server EXCEPT ![s] = v] /\ UNCHANGED <<client, req, count>>
      /\ b # Idle /\ Written(MachineOf(s), server[s].handler, b)
  BY DEF Write
<1>3. b \in ServerPush
  BY <1>1, <1>2 DEF ServerState
<1>4. b.id \in Ids /\ b.read \in SUBSET Ids
  BY <1>3 DEF ServerPush
<1> HIDE DEF b
<1>5. /\ mem' \in [Machines -> Memory] /\ added' \in [Machines -> SUBSET Ids]
      /\ \A n \in Machines : mem'[n].exists = mem[n].exists
  BY <1>1, <1>2, <1>4, WrittenEffect
<1>6. /\ v \in ServerState /\ v.busy = Idle /\ v.died = server[s].died
      /\ v.data = server[s].data /\ v.policy = server[s].policy /\ v.handler = server[s].handler
  BY <1>1 DEF ServerState
<1> HIDE DEF v
<1>7. /\ server' \in [Servers -> ServerState] /\ server'[s] = v
      /\ \A t \in Servers : t # s => server'[t] = server[t]
  BY <1>2, <1>6, NewServer
<1> QED BY <1>2, <1>5, <1>6, <1>7 DEF ServerEffect

-----------------------------------------------------------------------------
(* What is on its way.  A client has a push in work behind it for each push   *)
(* in a channel; any other request is the last one of its channel, of the     *)
(* step the client is at, and the client waits for its answer.                *)

\* The servers that have not handled the request of the step the client is at.
Awaiting(c) == {s \in Servers : \E i \in 1..Len(req[c][s]) : req[c][s][i].kind # "push"}

\* A request that client c may have sent to s.
Fits(c, s, r) ==
    IF r.kind = "push" THEN r.at <= client[c].at /\ StepAt(r.at) = "work"
    ELSE /\ r.at = client[c].at
         /\ \/ r.kind = "pull" /\ Step(c) = "work"
            \/ r.kind = Step(c) /\ s \in Targets(c, Step(c))

ChannelOK(c, s) ==
    \A i \in 1..Len(req[c][s]) :
        /\ Fits(c, s, req[c][s][i])
        /\ req[c][s][i].kind # "push" => i = Len(req[c][s])

Channels == \A c \in Clients, s \in Servers : ChannelOK(c, s)

\* At least the answers of the requests on their way are missing; of a barrier
\* it is one answer.
WaitOK(c) ==
    /\ Cardinality(Awaiting(c)) <= client[c].wait
    /\ client[c].wait <= Cardinality(Servers)
    /\ Step(c) = "barrier" => client[c].wait <= 1
    /\ client[c].work <= MaxWork[c]

Waits == \A c \in Clients : WaitOK(c)

\* Server 0 has counted the barrier request of the client.
Counted(c) == Step(c) = "barrier" /\ client[c].wait = 1 /\ 0 \notin Awaiting(c)
Counting == count = Cardinality({c \in Clients : Counted(c)}) /\ count < num_clients

\* The client has passed the barrier at b: all clients have, or none.
Passed(c, b) == client[c].at > b \/ (client[c].at = b /\ client[c].wait = 0)
Together ==
    \A b \in Places("barrier") : \A c, d \in Clients : Passed(c, b) => Passed(d, b)

\* A barrier request goes to server 0 behind all pushes to it: what client c
\* sent it before the barrier at b has been handled when c has passed it.
FlushedOf(c) ==
    /\ Counted(c) => Len(req[c][0]) = 0
    /\ \A i \in 1..Len(req[c][0]) : req[c][0][i].kind = "push" =>
         \A b \in Places("barrier") : req[c][0][i].at < b => ~Passed(c, b)
Flushed == \A c \in Clients : FlushedOf(c)

CInv == Types /\ Channels /\ Waits /\ Counting /\ Together /\ Flushed

\* The types of what is used most.
LEMMA ClientTypes ==
    ASSUME Types, NEW c \in Clients
    PROVE  /\ client[c].at \in Nat /\ client[c].at <= Len(Script) + 1 /\ client[c].wait \in Int
           /\ client[c].handler \in Handlers
<1>1. client[c] \in ClientState
  BY DEF Types
<1> QED BY <1>1, KVAssumption, LenProperties DEF ClientState

\* The requests in a channel, and the steps they were sent at, are well-typed.
LEMMA SentTypes ==
    ASSUME Types, NEW c \in Clients, NEW s \in Servers
    PROVE  /\ Len(req[c][s]) \in Nat
           /\ \A i \in 1..Len(req[c][s]) : req[c][s][i] \in Req
           /\ \A i \in 1..Len(req[c][s]) : req[c][s][i].at \in Nat
<1>1. req[c][s] \in Seq(Req)
  BY DEF Types
<1>2. \A i \in 1..Len(req[c][s]) : req[c][s][i] \in Req
  BY <1>1, ElementOfSeq
<1>3. \A i \in 1..Len(req[c][s]) : req[c][s][i].at \in Nat
  BY <1>2 DEF Req
<1> QED BY <1>1, <1>2, <1>3, LenProperties

\* No request is missing: nothing but pushes is on its way.
LEMMA NoneAwaiting ==
    ASSUME Types, Channels, Waits, NEW c \in Clients
    PROVE  /\ IsFiniteSet(Awaiting(c)) /\ Cardinality(Awaiting(c)) \in Nat
           /\ client[c].wait \in Nat
           /\ client[c].wait = 0 => Awaiting(c) = {}
<1>1. IsFiniteSet(Awaiting(c)) /\ Cardinality(Awaiting(c)) \in Nat
  BY FiniteParts, FS_Subset, FS_CardinalityType DEF Awaiting
<1>2. client[c].wait \in Int
  BY DEF Types, ClientState
<1>3. Cardinality(Awaiting(c)) <= client[c].wait
  BY DEF Waits, WaitOK
<1>4. client[c].wait = 0 => Cardinality(Awaiting(c)) = 0
  BY <1>1, <1>2, <1>3
<1>5. Cardinality(Awaiting(c)) = 0 => Awaiting(c) = {}
  BY <1>1, FS_EmptySet
<1>6. client[c].wait \in Nat
  BY <1>1, <1>2, <1>3
<1> QED BY <1>1, <1>4, <1>5, <1>6

\* The channel stays, and the client where it is unless none is missing.
LEMMA SameChannel ==
    ASSUME Types, NEW c \in Clients, NEW s \in Servers, ChannelOK(c, s),
           req'[c][s] = req[c][s],
           client'[c].at = client[c].at \/ (s \notin Awaiting(c) /\ client'[c].at = client[c].at + 1)
    PROVE  ChannelOK(c, s)'
<1>1. client[c].at \in Nat /\ \A i \in 1..Len(req[c][s]) : req[c][s][i].at \in Nat
  BY ClientTypes, SentTypes
<1>2. CASE client'[c].at = client[c].at
  BY <1>2 DEF ChannelOK, Fits, Step, Targets, MyGroup
<1>3. CASE s \notin Awaiting(c) /\ client'[c].at = client[c].at + 1
  <2>1. \A i \in 1..Len(req[c][s]) : req[c][s][i].kind = "push"
    BY <1>3 DEF Awaiting
  <2>2. \A i \in 1..Len(req[c][s]) :
          req[c][s][i].at <= client[c].at /\ StepAt(req[c][s][i].at) = "work"
    BY <2>1 DEF ChannelOK, Fits
  <2>3. \A i \in 1..Len(req[c][s]) : req[c][s][i].at <= client'[c].at
    BY <1>1, <1>3, <2>2
  <2> QED BY <2>1, <2>2, <2>3 DEF ChannelOK, Fits
<1> QED BY <1>2, <1>3

\* A request more in a channel that has only pushes.
LEMMA LongerChannel ==
    ASSUME Types, NEW c \in Clients, NEW s \in Servers, ChannelOK(c, s), NEW r \in Req,
           Len(req'[c][s]) = Len(req[c][s]) + 1,
           \A i \in 1..Len(req[c][s]) : req'[c][s][i] = req[c][s][i],
           req'[c][s][Len(req[c][s]) + 1] = r,
           s \notin Awaiting(c),
           client'[c].at = client[c].at \/ client'[c].at = client[c].at + 1,
           Fits(c, s, r)'
    PROVE  ChannelOK(c, s)'
<1>1. /\ client[c].at \in Nat /\ Len(req[c][s]) \in Nat
      /\ \A i \in 1..Len(req[c][s]) : req[c][s][i].at \in Nat
  BY ClientTypes, SentTypes
<1>2. \A i \in 1..Len(req[c][s]) : req[c][s][i].kind = "push"
  BY DEF Awaiting
<1>3. \A i \in 1..Len(req[c][s]) :
        req[c][s][i].at <= client[c].at /\ StepAt(req[c][s][i].at) = "work"
  BY <1>2 DEF ChannelOK, Fits
<1>4. \A i \in 1..Len(req[c][s]) : req[c][s][i].at <= client'[c].at
  BY <1>1, <1>3
<1> SUFFICES ASSUME NEW i \in 1..Len(req'[c][s])
             PROVE  /\ Fits(c, s, req[c][s][i])'
                    /\ req'[c][s][i].kind # "push" => i = Len(req'[c][s])
  BY DEF ChannelOK
<1>5. CASE i = Len(req[c][s]) + 1
  BY <1>5
<1>6. CASE i # Len(req[c][s]) + 1
  <2>1. i \in 1..Len(req[c][s])
    BY <1>1, <1>6
  <2> QED BY <1>2, <1>3, <1>4, <2>1 DEF Fits
<1> QED BY <1>5, <1>6

\* A request less.
LEMMA ShorterChannel ==
    ASSUME Types, NEW c \in Clients, NEW s \in Servers, ChannelOK(c, s), TakenOne(c, s),
           client'[c].at = client[c].at
    PROVE  ChannelOK(c, s)'
<1>1. Len(req[c][s]) \in Nat
  BY LenProperties DEF Types
<1> SUFFICES ASSUME NEW i \in 1..Len(req'[c][s])
             PROVE  /\ Fits(c, s, req[c][s][i])'
                    /\ req'[c][s][i].kind # "push" => i = Len(req'[c][s])
  BY DEF ChannelOK
<1>2. i + 1 \in 1..Len(req[c][s]) /\ req'[c][s][i] = req[c][s][i + 1]
      /\ (i + 1 = Len(req[c][s]) => i = Len(req'[c][s]))
  <2>1. Len(req'[c][s]) = Len(req[c][s]) - 1
    BY DEF TakenOne
  <2>2. req'[c][s][i] = req[c][s][i + 1]
    BY DEF TakenOne
  <2> QED BY <1>1, <2>1, <2>2
<1>3. /\ Fits(c, s, req[c][s][i + 1])
      /\ req[c][s][i + 1].kind # "push" => i + 1 = Len(req[c][s])
  BY <1>2 DEF ChannelOK
<1> QED BY <1>2, <1>3 DEF Fits, Step, Targets, MyGroup

-----------------------------------------------------------------------------
(* A client goes to its next step. *)

\* It had all answers, and waits for those of the new step.
AdvanceWaits(c) ==
    LET next == StepAt(client[c].at + 1)
    IN  /\ Awaiting(c) = {} /\ client[c].wait = 0
        /\ Awaiting(c)' = Targets(c, next)
        /\ \A d \in Clients : d # c => client'[d] = client[d] /\ Awaiting(d)' = Awaiting(d)

\* The client had all answers; it awaits exactly the targets of its new step.
LEMMA AdvanceSends ==
    ASSUME CInv, NEW c \in Clients, Advance(c)
    PROVE  /\ Types' /\ SentOne(c, Targets(c, StepAt(client[c].at + 1)), AdvanceRequest(c))
           /\ AdvanceWaits(c)
<1> DEFINE next == StepAt(client[c].at + 1)
           r == AdvanceRequest(c)
           servers == Targets(c, next)
<1>1. Types /\ Channels /\ Waits
  BY DEF CInv
<1>2. /\ client' \in [Clients -> ClientState] /\ r \in Req /\ SendTo(c, servers, r)
      /\ \A d \in Clients : d # c => client'[d] = client[d]
  BY <1>1, AdvanceEffect
<1>3. servers \subseteq Servers
  BY TargetsType
<1>4. r.kind = next
  BY DEF AdvanceRequest
<1>5. next # "push"
  BY <1>1, ClientTypes, StepAtType DEF Steps
<1> HIDE DEF r, servers
<1>6. req' \in [Clients -> [Servers -> Seq(Req)]] /\ SentOne(c, servers, r)
  BY <1>1, <1>2, <1>3, SendToOne DEF Types
<1>7. UNCHANGED <<server, mem, count, added>>
  BY DEF Advance
<1>8. Types'
  BY <1>1, <1>2, <1>6, <1>7 DEF Types
<1>9. client[c].wait = 0 /\ Awaiting(c) = {}
  BY <1>1, NoneAwaiting DEF Advance, Answers
<1>10. ASSUME NEW s \in Servers, s \notin servers PROVE s \notin Awaiting(c)'
  <2>1. req'[c][s] = req[c][s]
    BY <1>6, <1>10 DEF SentOne
  <2> QED BY <1>9, <2>1 DEF Awaiting
<1>11. ASSUME NEW s \in servers PROVE s \in Awaiting(c)'
  <2>1. Len(req[c][s]) \in Nat /\ s \in Servers
    BY <1>1, <1>3, SentTypes
  <2>2. Len(req'[c][s]) = Len(req[c][s]) + 1 /\ req'[c][s][Len(req[c][s]) + 1] = r
    BY <1>6 DEF SentOne
  <2>3. Len(req[c][s]) + 1 \in 1..Len(req'[c][s])
    BY <2>1, <2>2
  <2> QED BY <1>4, <1>5, <2>1, <2>2, <2>3 DEF Awaiting
<1>12. Awaiting(c)' = servers
  BY <1>3, <1>10, <1>11 DEF Awaiting
<1>13. ASSUME NEW d \in Clients, d # c PROVE Awaiting(d)' = Awaiting(d)
  <2>1. \A s \in Servers : req'[d][s] = req[d][s]
    BY <1>6, <1>13 DEF SentOne
  <2> QED BY <2>1 DEF Awaiting
<1> QED BY <1>2, <1>6, <1>8, <1>9, <1>12, <1>13 DEF AdvanceWaits, servers, r

\* The barriers that the client has passed stay the same: it is before the next.
LEMMA AdvancePassed ==
    ASSUME CInv, NEW c \in Clients, Advance(c)
    PROVE  \A b \in Places("barrier") : \A d \in Clients : Passed(d, b)' <=> Passed(d, b)
<1> SUFFICES ASSUME NEW b \in Places("barrier"), NEW d \in Clients
             PROVE  Passed(d, b)' <=> Passed(d, b)
  OBVIOUS
<1>1. Types /\ AdvanceWaits(c)
  BY AdvanceSends DEF CInv
<1>2. CASE d # c
  BY <1>1, <1>2 DEF AdvanceWaits, Passed
<1>3. CASE d = c
  <2>1. client[c].at \in Nat /\ client[c].wait = 0
    BY <1>1, ClientTypes DEF AdvanceWaits
  <2>2. client'[c].at = client[c].at + 1
        /\ client'[c].wait = Cardinality(Targets(c, StepAt(client[c].at + 1)))
    BY <1>1, AdvanceEffect
  <2>3. b \in Nat /\ StepAt(b) = "barrier"
    BY KVAssumption, LenProperties DEF Places, StepAt
  <2>4. client'[c].at = b => client'[c].wait = 1
    BY <2>2, <2>3, TargetsType
  <2> QED BY <1>3, <2>1, <2>2, <2>3, <2>4 DEF Passed
<1> QED BY <1>2, <1>3

\* CInv holds when a client goes on: its channels held pushes only.
LEMMA AdvanceKeeps ==
    ASSUME CInv, NEW c \in Clients, Advance(c)
    PROVE  CInv'
<1> DEFINE next == StepAt(client[c].at + 1)
           r == AdvanceRequest(c)
           servers == Targets(c, next)
<1>1. /\ Types /\ Channels /\ Waits /\ Counting /\ Together /\ Flushed
      /\ Types' /\ SentOne(c, servers, r) /\ AdvanceWaits(c)
  BY AdvanceSends DEF CInv
<1>2. /\ client'[c].at = client[c].at + 1 /\ client'[c].wait = Cardinality(servers)
      /\ client'[c].work = client[c].work /\ r \in Req
  BY <1>1, AdvanceEffect
<1>3. /\ client[c].at \in Nat /\ Awaiting(c) = {} /\ client[c].wait = 0
      /\ Awaiting(c)' = servers
      /\ \A d \in Clients : d # c => client'[d] = client[d] /\ Awaiting(d)' = Awaiting(d)
  BY <1>1, ClientTypes DEF AdvanceWaits
<1>4. r.kind = next /\ r.at = client[c].at + 1 /\ Step(c)' = next /\ next # "push"
  <2>1. next # "push"
    BY <1>3, StepAtType DEF Steps
  <2> QED BY <1>2, <2>1 DEF AdvanceRequest, Step
<1>5. /\ servers \subseteq Servers /\ Cardinality(servers) \in Nat
      /\ Cardinality(servers) <= Cardinality(Servers)
      /\ next = "barrier" => servers = {0} /\ Cardinality(servers) = 1
  BY TargetsType
<1>6. ASSUME NEW d \in Clients, d # c
      PROVE  Step(d)' = Step(d) /\ client'[d] = client[d] /\ Awaiting(d)' = Awaiting(d)
             /\ \A s \in Servers : req'[d][s] = req[d][s]
  BY <1>1, <1>3, <1>6 DEF Step, SentOne
<1>7. Channels'
  <2> SUFFICES ASSUME NEW d \in Clients, NEW s \in Servers PROVE ChannelOK(d, s)'
    BY DEF Channels
  <2>1. ChannelOK(d, s)
    BY <1>1 DEF Channels
  <2>2. CASE d # c
    BY <1>1, <1>6, <2>1, <2>2, SameChannel
  <2>3. CASE d = c /\ s \notin servers
    <3>1. req'[c][s] = req[c][s]
      BY <1>1, <2>3 DEF SentOne
    <3> QED BY <1>1, <1>2, <1>3, <2>1, <2>3, <3>1, SameChannel
  <2>4. CASE d = c /\ s \in servers
    <3>1. /\ Len(req'[c][s]) = Len(req[c][s]) + 1
          /\ \A i \in 1..Len(req[c][s]) : req'[c][s][i] = req[c][s][i]
          /\ req'[c][s][Len(req[c][s]) + 1] = r
      BY <1>1, <2>4 DEF SentOne
    <3>2. s \in Targets(c, next)
      BY <2>4
    <3> HIDE DEF r, servers, next
    <3>3. PICK q \in Req : q = r
      BY <1>2
    <3>4. Fits(c, s, q)'
      BY <1>2, <1>4, <3>2, <3>3 DEF Fits, Targets, MyGroup
    <3> QED BY <1>1, <1>2, <1>3, <2>1, <2>4, <3>1, <3>3, <3>4, LongerChannel
  <2> QED BY <2>2, <2>3, <2>4
<1>8. Waits'
  <2> SUFFICES ASSUME NEW d \in Clients PROVE WaitOK(d)'
    BY DEF Waits
  <2>1. WaitOK(d)
    BY <1>1 DEF Waits
  <2>2. CASE d # c
    BY <1>6, <2>1, <2>2 DEF WaitOK
  <2>3. CASE d = c
    BY <1>2, <1>3, <1>4, <1>5, <2>1, <2>3 DEF WaitOK
  <2> QED BY <2>2, <2>3
<1>9. Counting'
  <2>1. ASSUME NEW d \in Clients PROVE Counted(d)' <=> Counted(d)
    <3>1. CASE d # c
      BY <1>6, <3>1 DEF Counted
    <3>2. CASE d = c
      BY <1>3, <1>4, <1>5, <3>2 DEF Counted
    <3> QED BY <3>1, <3>2
  <2>2. {d \in Clients : Counted(d)}' = {d \in Clients : Counted(d)}
    BY <2>1
  <2> QED BY <1>1, <2>2 DEF Counting, Advance
<1>10. Together'
  BY <1>1, AdvancePassed DEF Together
<1>11. Flushed'
  <2> SUFFICES ASSUME NEW d \in Clients PROVE FlushedOf(d)'
    BY DEF Flushed
  <2>1. FlushedOf(d) /\ 0 \in Servers
    BY <1>1, FiniteParts DEF Flushed
  <2>2. ASSUME NEW b \in Places("barrier") PROVE Passed(d, b)' <=> Passed(d, b)
    BY AdvancePassed
  <2>3. CASE d # c
    BY <1>6, <2>1, <2>2, <2>3 DEF FlushedOf, Counted
  <2>4. CASE d = c
    <3>1. ~Counted(c)'
      BY <1>3, <1>4, <1>5 DEF Counted
    <3>2. ASSUME NEW i \in 1..Len(req'[c][0]), req'[c][0][i].kind = "push"
          PROVE  i \in 1..Len(req[c][0]) /\ req'[c][0][i] = req[c][0][i]
      <4>1. CASE 0 \notin servers
        BY <1>1, <2>1, <4>1 DEF SentOne
      <4>2. CASE 0 \in servers
        <5>1. /\ Len(req'[c][0]) = Len(req[c][0]) + 1 /\ Len(req[c][0]) \in Nat
              /\ \A j \in 1..Len(req[c][0]) : req'[c][0][j] = req[c][0][j]
              /\ req'[c][0][Len(req[c][0]) + 1] = r
          BY <1>1, <2>1, <4>2, SentTypes DEF SentOne
        <5> HIDE DEF r, next, servers
        <5>2. i # Len(req[c][0]) + 1
          BY <1>4, <3>2, <5>1
        <5> QED BY <5>1, <5>2
      <4> QED BY <4>1, <4>2
    <3>3. ASSUME NEW i \in 1..Len(req'[c][0]), req'[c][0][i].kind = "push",
                 NEW b \in Places("barrier"), req'[c][0][i].at < b
          PROVE  ~Passed(c, b)'
      BY <2>1, <2>2, <2>4, <3>2, <3>3 DEF FlushedOf
    <3> QED BY <2>4, <3>1, <3>3 DEF FlushedOf
  <2> QED BY <2>3, <2>4
<1> QED BY <1>1, <1>7, <1>8, <1>9, <1>10, <1>11 DEF CInv

-----------------------------------------------------------------------------
(* A client works. *)

\* A step that sends and answers nothing.
Silent ==
    /\ UNCHANGED <<req, count>>
    /\ \A d \in Clients : /\ client'[d].at = client[d].at /\ client'[d].wait = client[d].wait
                          /\ client'[d].work <= MaxWork[d]

\* CInv speaks of channels, places and the count, which a silent step leaves.
LEMMA SilentKeeps ==
    ASSUME CInv, Types', Silent
    PROVE  CInv' /\ \A d \in Clients : Awaiting(d)' = Awaiting(d)
<1>1. /\ Types /\ Channels /\ Waits /\ Counting /\ Together /\ Flushed
      /\ req' = req /\ count' = count
  BY DEF CInv, Silent
<1>2. ASSUME NEW d \in Clients
      PROVE  /\ Awaiting(d)' = Awaiting(d) /\ client'[d].at = client[d].at
             /\ client'[d].wait = client[d].wait /\ Step(d)' = Step(d)
             /\ client'[d].work <= MaxWork[d]
  BY <1>1 DEF Awaiting, Step, Silent
<1>3. Channels'
  BY <1>1, <1>2, SameChannel DEF Channels
<1>4. ASSUME NEW d \in Clients PROVE WaitOK(d)' /\ (Counted(d)' <=> Counted(d))
  BY <1>1, <1>2 DEF Waits, WaitOK, Counted
<1>5. {d \in Clients : Counted(d)}' = {d \in Clients : Counted(d)}
  BY <1>4
<1>6. ASSUME NEW d \in Clients, NEW b PROVE Passed(d, b)' <=> Passed(d, b)
  BY <1>2 DEF Passed
<1>7. Waits' /\ Counting' /\ Together'
  BY <1>1, <1>4, <1>5, <1>6 DEF Waits, Counting, Together
<1>8. Flushed'
  BY <1>1, <1>4, <1>6 DEF Flushed, FlushedOf
<1> QED BY <1>1, <1>2, <1>3, <1>7, <1>8 DEF CInv

\* A client in work sends a push or a pull.
WorkSend(c, servers, r) ==
    /\ Step(c) = "work" /\ client[c].wait = 0
    /\ SentOne(c, servers, r)
    /\ r.kind \in {"push", "pull"} /\ r.at = client[c].at
    /\ \A d \in Clients : d # c => client'[d] = client[d]
    /\ client'[c].at = client[c].at
    /\ client'[c].wait = IF r.kind = "push" THEN 0 ELSE Cardinality(servers)
    /\ client'[c].work <= MaxWork[c]
    /\ count' = count

\* A push awaits nobody, a pull the servers it goes to.
LEMMA WorkSendWaits ==
    ASSUME CInv, NEW c \in Clients, NEW servers \in SUBSET Servers, NEW r \in Req,
           WorkSend(c, servers, r)
    PROVE  /\ Awaiting(c) = {}
           /\ Awaiting(c)' = IF r.kind = "push" THEN {} ELSE servers
           /\ \A d \in Clients : d # c => Awaiting(d)' = Awaiting(d)
<1>1. Types /\ Awaiting(c) = {}
  BY NoneAwaiting DEF CInv, WorkSend
<1>2. ASSUME NEW s \in Servers, s \notin servers PROVE s \notin Awaiting(c)'
  <2>1. req'[c][s] = req[c][s]
    BY <1>2 DEF WorkSend, SentOne
  <2> QED BY <1>1, <2>1 DEF Awaiting
<1>3. ASSUME NEW s \in servers PROVE s \in Awaiting(c)' <=> r.kind # "push"
  <2>1. Len(req[c][s]) \in Nat /\ s \in Servers
    BY <1>1, SentTypes
  <2>2. /\ Len(req'[c][s]) = Len(req[c][s]) + 1 /\ req'[c][s][Len(req[c][s]) + 1] = r
        /\ \A i \in 1..Len(req[c][s]) : req'[c][s][i] = req[c][s][i]
    BY DEF WorkSend, SentOne
  <2>3. \A i \in 1..Len(req[c][s]) : req[c][s][i].kind = "push"
    BY <1>1, <2>1 DEF Awaiting
  <2>4. \A i \in 1..Len(req'[c][s]) : i \in 1..Len(req[c][s]) \/ i = Len(req[c][s]) + 1
    BY <2>1, <2>2
  <2>5. Len(req[c][s]) + 1 \in 1..Len(req'[c][s])
    BY <2>1, <2>2
  <2> QED BY <2>1, <2>2, <2>3, <2>4, <2>5 DEF Awaiting
<1>4. Awaiting(c)' = IF r.kind = "push" THEN {} ELSE servers
  <2>1. Awaiting(c)' \subseteq Servers
    BY DEF Awaiting
  <2> QED BY <1>2, <1>3, <2>1
<1>5. ASSUME NEW d \in Clients, d # c PROVE Awaiting(d)' = Awaiting(d)
  <2>1. \A s \in Servers : req'[d][s] = req[d][s]
    BY <1>5 DEF WorkSend, SentOne
  <2> QED BY <2>1 DEF Awaiting
<1> QED BY <1>1, <1>4, <1>5

\* CInv holds when a client in work sends: it has passed the same barriers.
LEMMA WorkSendKeeps ==
    ASSUME CInv, Types', NEW c \in Clients, NEW servers \in SUBSET Servers, NEW r \in Req,
           WorkSend(c, servers, r)
    PROVE  CInv'
<1>1. /\ Types /\ Channels /\ Waits /\ Counting /\ Together /\ Flushed
      /\ SentOne(c, servers, r) /\ client[c].at \in Nat
  BY ClientTypes DEF CInv, WorkSend
<1>2. /\ Step(c) = "work" /\ client[c].wait = 0 /\ client'[c].at = client[c].at
      /\ client'[c].wait = IF r.kind = "push" THEN 0 ELSE Cardinality(servers)
      /\ client'[c].work <= MaxWork[c] /\ Step(c)' = "work"
      /\ r.kind \in {"push", "pull"} /\ r.at = client[c].at /\ count' = count
  BY DEF WorkSend, Step
<1>3. Awaiting(c) = {} /\ Awaiting(c)' = IF r.kind = "push" THEN {} ELSE servers
  BY WorkSendWaits
<1>4. ASSUME NEW d \in Clients, d # c
      PROVE  Step(d)' = Step(d) /\ client'[d] = client[d] /\ Awaiting(d)' = Awaiting(d)
             /\ \A s \in Servers : req'[d][s] = req[d][s]
  BY <1>1, <1>4, WorkSendWaits DEF Step, SentOne, WorkSend
<1>5. ASSUME NEW d \in Clients, NEW b \in Places("barrier") PROVE Passed(d, b)' <=> Passed(d, b)
  <2>1. CASE d # c
    BY <1>4, <2>1 DEF Passed
  <2>2. CASE d = c
    <3>1. client[c].at # b
      BY <1>2 DEF Places, Step, StepAt
    <3> QED BY <1>2, <2>2, <3>1 DEF Passed
  <2> QED BY <2>1, <2>2
<1>6. Channels'
  <2> SUFFICES ASSUME NEW d \in Clients, NEW s \in Servers PROVE ChannelOK(d, s)'
    BY DEF Channels
  <2>1. ChannelOK(d, s)
    BY <1>1 DEF Channels
  <2>2. CASE d # c
    BY <1>1, <1>4, <2>1, <2>2, SameChannel
  <2>3. CASE d = c /\ s \notin servers
    <3>1. req'[c][s] = req[c][s]
      BY <1>1, <2>3 DEF SentOne
    <3> QED BY <1>1, <1>2, <2>1, <2>3, <3>1, SameChannel
  <2>4. CASE d = c /\ s \in servers
    <3>1. /\ Len(req'[c][s]) = Len(req[c][s]) + 1
          /\ \A i \in 1..Len(req[c][s]) : req'[c][s][i] = req[c][s][i]
          /\ req'[c][s][Len(req[c][s]) + 1] = r
      BY <1>1, <2>4 DEF SentOne
    <3>2. Fits(c, s, r)'
      BY <1>1, <1>2 DEF Fits, Step
    <3> QED BY <1>1, <1>2, <1>3, <2>1, <2>4, <3>1, <3>2, LongerChannel
  <2> QED BY <2>2, <2>3, <2>4
<1>7. Waits'
  <2> SUFFICES ASSUME NEW d \in Clients PROVE WaitOK(d)'
    BY DEF Waits
  <2>1. WaitOK(d)
    BY <1>1 DEF Waits
  <2>2. CASE d # c
    BY <1>4, <2>1, <2>2 DEF WaitOK
  <2>3. CASE d = c
    <3>1. Cardinality({}) = 0 /\ Cardinality(servers) \in Nat
          /\ Cardinality(servers) <= Cardinality(Servers) /\ Cardinality(Servers) \in Nat
      BY FiniteParts, FS_Subset, FS_CardinalityType, FS_EmptySet
    <3>2. CASE r.kind = "push"
      BY <1>2, <1>3, <2>3, <3>1, <3>2 DEF WaitOK
    <3>3. CASE r.kind # "push"
      BY <1>2, <1>3, <2>3, <3>1, <3>3 DEF WaitOK
    <3> QED BY <3>2, <3>3
  <2> QED BY <2>2, <2>3
<1>8. ASSUME NEW d \in Clients PROVE Counted(d)' <=> Counted(d)
  BY <1>2, <1>4 DEF Counted
<1>9. Counting'
  <2>1. {d \in Clients : Counted(d)}' = {d \in Clients : Counted(d)}
    BY <1>8
  <2> QED BY <1>1, <1>2, <2>1 DEF Counting
<1>10. Together'
  BY <1>1, <1>5 DEF Together
<1>11. Flushed'
  <2> SUFFICES ASSUME NEW d \in Clients PROVE FlushedOf(d)'
    BY DEF Flushed
  <2>1. FlushedOf(d) /\ 0 \in Servers
    BY <1>1, FiniteParts DEF Flushed
  <2>2. CASE d # c
    BY <1>4, <1>5, <1>8, <2>1, <2>2 DEF FlushedOf
  <2>3. CASE d = c
    <3>1. ~Counted(c)'
      BY <1>2 DEF Counted
    <3>2. ASSUME NEW i \in 1..Len(req'[c][0])
          PROVE  \/ i \in 1..Len(req[c][0]) /\ req'[c][0][i] = req[c][0][i]
                 \/ req'[c][0][i] = r
      <4>1. CASE 0 \notin servers
        BY <1>1, <2>1, <4>1 DEF SentOne
      <4>2. CASE 0 \in servers
        <5>1. /\ Len(req'[c][0]) = Len(req[c][0]) + 1 /\ Len(req[c][0]) \in Nat
              /\ \A j \in 1..Len(req[c][0]) : req'[c][0][j] = req[c][0][j]
              /\ req'[c][0][Len(req[c][0]) + 1] = r
          BY <1>1, <2>1, <4>2, SentTypes DEF SentOne
        <5> QED BY <5>1
      <4> QED BY <4>1, <4>2
    <3>3. ASSUME NEW i \in 1..Len(req'[c][0]), req'[c][0][i].kind = "push",
                 NEW b \in Places("barrier"), req'[c][0][i].at < b
          PROVE  ~Passed(c, b)'
      <4>1. CASE req'[c][0][i] = r
        <5>1. b \in Nat
          BY KVAssumption, LenProperties DEF Places
        <5> QED BY <1>1, <1>2, <3>3, <4>1, <5>1 DEF Passed
      <4>2. CASE i \in 1..Len(req[c][0]) /\ req'[c][0][i] = req[c][0][i]
        BY <1>5, <2>1, <2>3, <3>3, <4>2 DEF FlushedOf
      <4> QED BY <3>2, <4>1, <4>2
    <3> QED BY <2>3, <3>1, <3>3 DEF FlushedOf
  <2> QED BY <2>2, <2>3
<1> QED BY <1>6, <1>7, <1>9, <1>10, <1>11 DEF CInv

-----------------------------------------------------------------------------
(* A server takes a request. *)

\* A push is taken: nothing was awaited for it.
LEMMA PushTaken ==
    ASSUME Types, NEW c \in Clients, NEW s \in Servers, TakenOne(c, s),
           req[c][s][1].kind = "push"
    PROVE  \A d \in Clients : Awaiting(d)' = Awaiting(d)
<1> SUFFICES ASSUME NEW d \in Clients, NEW t \in Servers
             PROVE  t \in Awaiting(d)' <=> t \in Awaiting(d)
  BY DEF Awaiting
<1>1. CASE ~(d = c /\ t = s)
  <2>1. req'[d][t] = req[d][t]
    BY <1>1 DEF TakenOne
  <2> QED BY <2>1 DEF Awaiting
<1>2. CASE d = c /\ t = s
  <2>1. /\ Len(req[c][s]) \in Nat /\ Len(req[c][s]) >= 1
        /\ Len(req'[c][s]) = Len(req[c][s]) - 1
        /\ \A i \in 1..Len(req'[c][s]) : req'[c][s][i] = req[c][s][i + 1]
    BY SentTypes DEF TakenOne
  <2>2. ASSUME NEW i \in 1..Len(req[c][s]), req[c][s][i].kind # "push"
        PROVE  i - 1 \in 1..Len(req'[c][s]) /\ req'[c][s][i - 1] = req[c][s][i]
    <3>1. i # 1
      BY <2>2
    <3>2. i - 1 \in 1..Len(req'[c][s]) /\ (i - 1) + 1 = i
      BY <2>1, <3>1
    <3> QED BY <2>1, <3>2
  <2>3. ASSUME NEW i \in 1..Len(req'[c][s])
        PROVE  i + 1 \in 1..Len(req[c][s]) /\ req'[c][s][i] = req[c][s][i + 1]
    BY <2>1
  <2>4. ASSUME s \in Awaiting(c) PROVE s \in Awaiting(c)'
    <3>1. PICK i \in 1..Len(req[c][s]) : req[c][s][i].kind # "push"
      BY <2>4 DEF Awaiting
    <3> QED BY <2>2, <3>1 DEF Awaiting
  <2>5. ASSUME s \in Awaiting(c)' PROVE s \in Awaiting(c)
    <3>1. PICK i \in 1..Len(req'[c][s]) : req'[c][s][i].kind # "push"
      BY <2>5 DEF Awaiting
    <3> QED BY <2>3, <3>1 DEF Awaiting
  <2> QED BY <1>2, <2>4, <2>5
<1> QED BY <1>1, <1>2

\* Another request is taken: it was the only one of its channel, and the server
\* one that the client awaited.
CallOut(c, s) ==
    /\ Len(req'[c][s]) = 0 /\ s \in Awaiting(c) /\ Awaiting(c)' = Awaiting(c) \ {s}
    /\ \A d \in Clients : d # c => Awaiting(d)' = Awaiting(d)
    /\ \/ req[c][s][1].kind = "pull" /\ Step(c) = "work"
       \/ req[c][s][1].kind = Step(c) /\ s \in Targets(c, Step(c))
    /\ req[c][s][1].at = client[c].at

\* A request that is not a push was the last of its channel.
LEMMA CallTaken ==
    ASSUME Types, Channels, NEW c \in Clients, NEW s \in Servers, TakenOne(c, s),
           req[c][s][1].kind # "push"
    PROVE  CallOut(c, s)
<1>1. /\ Len(req[c][s]) \in Nat /\ Len(req[c][s]) >= 1
      /\ Len(req'[c][s]) = Len(req[c][s]) - 1
  BY SentTypes DEF TakenOne
<1>2. 1 \in 1..Len(req[c][s])
  BY <1>1
<1>3. Fits(c, s, req[c][s][1]) /\ 1 = Len(req[c][s])
  BY <1>2 DEF Channels, ChannelOK
<1>4. Len(req'[c][s]) = 0
  BY <1>1, <1>3
<1>5. s \in Awaiting(c)
  BY <1>2 DEF Awaiting
<1>6. ASSUME NEW d \in Clients, NEW t \in Servers, ~(d = c /\ t = s)
      PROVE  t \in Awaiting(d)' <=> t \in Awaiting(d)
  <2>1. req'[d][t] = req[d][t]
    BY <1>6 DEF TakenOne
  <2> QED BY <2>1 DEF Awaiting
<1>7. s \notin Awaiting(c)'
  BY <1>4 DEF Awaiting
<1>8. Awaiting(c)' = Awaiting(c) \ {s}
  BY <1>6, <1>7 DEF Awaiting
<1>9. \A d \in Clients : d # c => Awaiting(d)' = Awaiting(d)
  BY <1>6 DEF Awaiting
<1> QED BY <1>3, <1>4, <1>5, <1>8, <1>9 DEF CallOut, Fits

\* The requests that are left in the channels to server 0 were there before.
LEMMA TakenLeaves ==
    ASSUME Types, NEW c \in Clients, NEW s \in Servers, TakenOne(c, s), NEW d \in Clients
    PROVE  /\ Len(req[d][0]) = 0 => Len(req'[d][0]) = 0
           /\ \A i \in 1..Len(req'[d][0]) : \E j \in 1..Len(req[d][0]) :
                req'[d][0][i] = req[d][0][j]
<1>1. 0 \in Servers
  BY FiniteParts
<1>2. CASE ~(d = c /\ s = 0)
  BY <1>1, <1>2 DEF TakenOne
<1>3. CASE d = c /\ s = 0
  <2>1. /\ Len(req[c][0]) \in Nat /\ Len(req[c][0]) >= 1
        /\ Len(req'[c][0]) = Len(req[c][0]) - 1
        /\ \A i \in 1..Len(req'[c][0]) : req'[c][0][i] = req[c][0][i + 1]
    BY <1>1, <1>3, SentTypes DEF TakenOne
  <2>2. \A i \in 1..Len(req'[c][0]) : i + 1 \in 1..Len(req[c][0])
    BY <2>1
  <2> QED BY <1>3, <2>1, <2>2
<1> QED BY <1>2, <1>3

\* A client's place in its program, and the work it has done, are as before.
SamePlace ==
    \A d \in Clients : client'[d].at = client[d].at /\ client'[d].work = client[d].work

\* Taking a request keeps what there is to say of the channels.
LEMMA TakenChannels ==
    ASSUME Types, Channels, NEW c \in Clients, NEW s \in Servers, TakenOne(c, s), SamePlace
    PROVE  Channels'
<1> SUFFICES ASSUME NEW d \in Clients, NEW t \in Servers PROVE ChannelOK(d, t)'
  BY DEF Channels
<1>1. ChannelOK(d, t) /\ client'[d].at = client[d].at
  BY DEF Channels, SamePlace
<1>2. CASE ~(d = c /\ t = s)
  <2>1. req'[d][t] = req[d][t]
    BY <1>2 DEF TakenOne
  <2> QED BY <1>1, <2>1, SameChannel
<1>3. CASE d = c /\ t = s
  BY <1>1, <1>3, ShorterChannel
<1> QED BY <1>2, <1>3

\* Requests that are neither barriers nor the last answer to one.
LEMMA TakenKeeps ==
    ASSUME CInv, Types', NEW c \in Clients, NEW s \in Servers, TakenOne(c, s), SamePlace,
           count' = count,
           \A d \in Clients : d # c => client'[d].wait = client[d].wait,
           IF req[c][s][1].kind = "push" THEN client'[c].wait = client[c].wait
           ELSE req[c][s][1].kind # "barrier" /\ client'[c].wait \in {client[c].wait, client[c].wait - 1}
    PROVE  CInv'
<1>1. Types /\ Channels /\ Waits /\ Counting /\ Together /\ Flushed
  BY DEF CInv
<1>2. Channels'
  BY <1>1, TakenChannels
<1>3. ASSUME NEW d \in Clients
      PROVE  /\ client'[d].at = client[d].at /\ Step(d)' = Step(d)
             /\ client'[d].work = client[d].work
  BY DEF SamePlace, Step
<1>4. ASSUME NEW d \in Clients
      PROVE  \/ client'[d].wait = client[d].wait /\ Awaiting(d)' = Awaiting(d)
             \/ /\ d = c /\ Step(d) # "barrier" /\ CallOut(c, s)
                /\ client'[d].wait \in {client[d].wait, client[d].wait - 1}
  <2>1. CASE req[c][s][1].kind = "push"
    BY <1>1, <2>1, PushTaken
  <2>2. CASE req[c][s][1].kind # "push"
    <3>1. CallOut(c, s)
      BY <1>1, <2>2, CallTaken
    <3>2. Step(c) # "barrier"
      BY <2>2, <3>1 DEF CallOut
    <3> QED BY <2>2, <3>1, <3>2 DEF CallOut
  <2> QED BY <2>1, <2>2
<1>5. ASSUME NEW d \in Clients PROVE Counted(d)' <=> Counted(d)
  BY <1>3, <1>4 DEF Counted
<1>6. ASSUME NEW d \in Clients, NEW b \in Places("barrier") PROVE Passed(d, b)' <=> Passed(d, b)
  <2>1. client[d].at = b => Step(d) = "barrier"
    BY DEF Places, Step, StepAt
  <2> QED BY <1>3, <1>4, <2>1 DEF Passed
<1>7. Waits'
  <2> SUFFICES ASSUME NEW d \in Clients PROVE WaitOK(d)'
    BY DEF Waits
  <2>1. WaitOK(d)
    BY <1>1 DEF Waits
  <2>2. CASE client'[d].wait = client[d].wait /\ Awaiting(d)' = Awaiting(d)
    BY <1>3, <2>1, <2>2 DEF WaitOK
  <2>3. CASE /\ d = c /\ Step(d) # "barrier" /\ CallOut(c, s)
             /\ client'[d].wait \in {client[d].wait, client[d].wait - 1}
    <3>1. IsFiniteSet(Awaiting(d)) /\ Cardinality(Awaiting(d)) \in Nat /\ client[d].wait \in Nat
      BY <1>1, NoneAwaiting
    <3>2. Awaiting(d)' = Awaiting(d) \ {s} /\ s \in Awaiting(d)
      BY <2>3 DEF CallOut
    <3>3. Cardinality(Awaiting(d)') = Cardinality(Awaiting(d)) - 1
      BY <3>1, <3>2, FS_RemoveElement
    <3>4. Cardinality(Servers) \in Nat
      BY FiniteParts, FS_CardinalityType
    <3> QED BY <1>3, <2>1, <2>3, <3>1, <3>3, <3>4 DEF WaitOK
  <2> QED BY <1>4, <2>2, <2>3
<1>8. Counting'
  <2>1. {d \in Clients : Counted(d)}' = {d \in Clients : Counted(d)}
    BY <1>5
  <2> QED BY <1>1, <2>1 DEF Counting
<1>9. Together'
  BY <1>1, <1>6 DEF Together
<1>10. Flushed'
  <2> SUFFICES ASSUME NEW d \in Clients PROVE FlushedOf(d)'
    BY DEF Flushed
  <2>1. FlushedOf(d)
    BY <1>1 DEF Flushed
  <2>2. /\ Len(req[d][0]) = 0 => Len(req'[d][0]) = 0
        /\ \A i \in 1..Len(req'[d][0]) : \E j \in 1..Len(req[d][0]) :
                req'[d][0][i] = req[d][0][j]
    BY <1>1, TakenLeaves
  <2> QED BY <1>5, <1>6, <2>1, <2>2 DEF FlushedOf
<1> QED BY <1>2, <1>7, <1>8, <1>9, <1>10 DEF CInv

\* A barrier request: it is at server 0, and its client waits for one answer.
LEMMA BarrierTaken ==
    ASSUME CInv, NEW c \in Clients, NEW s \in Servers, TakenOne(c, s),
           req[c][s][1].kind = "barrier"
    PROVE  /\ s = 0 /\ Step(c) = "barrier" /\ client[c].wait = 1 /\ ~Counted(c)
           /\ Awaiting(c)' = {} /\ Awaiting(c) = {0} /\ Len(req'[c][0]) = 0
           /\ \A d \in Clients : d # c => Awaiting(d)' = Awaiting(d)
<1>1. Types /\ Channels /\ Waits
  BY DEF CInv
<1>2. CallOut(c, s)
  BY <1>1, CallTaken
<1>3. Step(c) = "barrier" /\ s = 0
  BY <1>2 DEF CallOut, Targets
<1>4. IsFiniteSet(Awaiting(c)) /\ Cardinality(Awaiting(c)) \in Nat /\ client[c].wait \in Nat
  BY <1>1, NoneAwaiting
<1>5. Awaiting(c)' = Awaiting(c) \ {0} /\ 0 \in Awaiting(c) /\ Len(req'[c][0]) = 0
  BY <1>2, <1>3 DEF CallOut
<1>6. Cardinality(Awaiting(c) \ {0}) = Cardinality(Awaiting(c)) - 1
      /\ IsFiniteSet(Awaiting(c) \ {0}) /\ Cardinality(Awaiting(c) \ {0}) \in Nat
  BY <1>4, <1>5, FS_RemoveElement, FS_CardinalityType
<1>7. Cardinality(Awaiting(c)) <= client[c].wait /\ client[c].wait <= 1
  BY <1>1, <1>3 DEF Waits, WaitOK
<1>8. client[c].wait = 1 /\ Cardinality(Awaiting(c) \ {0}) = 0
  BY <1>4, <1>6, <1>7
<1>9. Awaiting(c) \ {0} = {}
  BY <1>6, <1>8, FS_EmptySet
<1>10. ~Counted(c)
  BY <1>5 DEF Counted
<1> QED BY <1>2, <1>3, <1>5, <1>8, <1>9, <1>10 DEF CallOut

\* A client that is counted awaits nothing else.
LEMMA CountedAwaits ==
    ASSUME CInv, NEW d \in Clients, Counted(d)
    PROVE  Awaiting(d) = {}
<1> SUFFICES ASSUME NEW s \in Servers, s \in Awaiting(d) PROVE FALSE
  BY DEF Awaiting
<1>1. PICK i \in 1..Len(req[d][s]) : req[d][s][i].kind # "push"
  BY DEF Awaiting
<1>2. Fits(d, s, req[d][s][i])
  BY DEF CInv, Channels, ChannelOK
<1>3. s \in Targets(d, "barrier")
  BY <1>1, <1>2 DEF Fits, Counted
<1>4. s = 0
  BY <1>3, TargetsType
<1> QED BY <1>4 DEF Counted

\* Server 0 counts the request, others are missing.
LEMMA BarrierCounts ==
    ASSUME CInv, Types', NEW c \in Clients, NEW s \in Servers, TakenOne(c, s), SamePlace,
           req[c][s][1].kind = "barrier", count + 1 # num_clients, count' = count + 1,
           \A d \in Clients : client'[d].wait = client[d].wait
    PROVE  CInv'
<1>1. Types /\ Channels /\ Waits /\ Counting /\ Together /\ Flushed /\ count \in Nat
  BY DEF CInv, Types
<1>2. /\ s = 0 /\ Step(c) = "barrier" /\ client[c].wait = 1 /\ ~Counted(c)
      /\ Awaiting(c)' = {} /\ Awaiting(c) = {0} /\ Len(req'[c][0]) = 0
      /\ \A d \in Clients : d # c => Awaiting(d)' = Awaiting(d)
  BY BarrierTaken
<1>3. ASSUME NEW d \in Clients
      PROVE  /\ client'[d].at = client[d].at /\ Step(d)' = Step(d)
             /\ client'[d].wait = client[d].wait /\ client'[d].work = client[d].work
  BY DEF SamePlace, Step
<1>4. Channels'
  BY <1>1, TakenChannels
<1>5. ASSUME NEW d \in Clients, NEW b PROVE Passed(d, b)' <=> Passed(d, b)
  BY <1>3 DEF Passed
<1>6. ASSUME NEW d \in Clients PROVE Counted(d)' <=> (Counted(d) \/ d = c)
  BY <1>2, <1>3 DEF Counted
<1>7. Waits'
  <2> SUFFICES ASSUME NEW d \in Clients PROVE WaitOK(d)'
    BY DEF Waits
  <2>1. WaitOK(d)
    BY <1>1 DEF Waits
  <2>2. CASE d # c
    BY <1>2, <1>3, <2>1, <2>2 DEF WaitOK
  <2>3. CASE d = c
    <3>1. Cardinality(Awaiting(c))' = 0 /\ client'[c].wait = 1 /\ client[c].wait = 1
      BY <1>2, <1>3, FS_EmptySet
    <3> QED BY <1>3, <2>1, <2>3, <3>1 DEF WaitOK
  <2> QED BY <2>2, <2>3
<1>8. Counting'
  <2> DEFINE before == {d \in Clients : Counted(d)}
  <2>1. {d \in Clients : Counted(d)}' = before \cup {c}
    BY <1>6
  <2>2. IsFiniteSet(before) /\ c \notin before
    BY <1>2, FiniteParts, FS_Subset
  <2>3. count = Cardinality(before) /\ count < num_clients /\ num_clients \in Nat
    BY <1>1, KVAssumption DEF Counting
  <2> HIDE DEF before
  <2>4. Cardinality(before \cup {c}) = Cardinality(before) + 1
    BY <2>2, FS_AddElement
  <2>5. count' < num_clients
    BY <1>1, <2>3
  <2> QED BY <2>1, <2>3, <2>4, <2>5 DEF Counting
<1>9. Together'
  BY <1>1, <1>5 DEF Together
<1>10. Flushed'
  <2> SUFFICES ASSUME NEW d \in Clients PROVE FlushedOf(d)'
    BY DEF Flushed
  <2>1. FlushedOf(d)
    BY <1>1 DEF Flushed
  <2>2. /\ Len(req[d][0]) = 0 => Len(req'[d][0]) = 0
        /\ \A i \in 1..Len(req'[d][0]) : \E j \in 1..Len(req[d][0]) :
                req'[d][0][i] = req[d][0][j]
    BY <1>1, TakenLeaves
  <2>3. Counted(d)' => Len(req'[d][0]) = 0
    BY <1>2, <1>6, <2>1, <2>2 DEF FlushedOf
  <2>4. ASSUME NEW i \in 1..Len(req'[d][0]), req'[d][0][i].kind = "push",
               NEW b \in Places("barrier"), req'[d][0][i].at < b
        PROVE  ~Passed(d, b)'
    BY <1>5, <2>1, <2>2, <2>4 DEF FlushedOf
  <2> QED BY <2>3, <2>4 DEF FlushedOf
<1> QED BY <1>4, <1>7, <1>8, <1>9, <1>10 DEF CInv

\* When one request is missing, all other clients are counted, at the same barrier.
LEMMA LastBarrier ==
    ASSUME CInv, NEW c \in Clients, Step(c) = "barrier", client[c].wait = 1, ~Counted(c),
           count + 1 = num_clients
    PROVE  \A d \in Clients : /\ d # c => Counted(d)
                              /\ client[d].wait = 1 /\ client[d].at = client[c].at
<1> DEFINE before == {d \in Clients : Counted(d)}
           rest == Clients \ {c}
<1>1. Types /\ Counting /\ Together
  BY DEF CInv
<1>2. IsFiniteSet(rest) /\ Cardinality(rest) = num_clients - 1 /\ num_clients \in Nat
  BY FiniteParts, FS_RemoveElement, KVAssumption
<1>3. before \subseteq rest /\ Cardinality(before) = num_clients - 1
  <2>1. count = Cardinality(before) /\ count \in Nat
    BY <1>1 DEF Counting, Types
  <2> QED BY <1>2, <2>1
<1>4. before = rest
  BY <1>2, <1>3, FS_Subset
<1>5. ASSUME NEW d \in Clients, d # c PROVE Counted(d)
  BY <1>4, <1>5
<1>6. ASSUME NEW d \in Clients
      PROVE  client[d].wait = 1 /\ client[d].at \in Places("barrier") /\ client[d].at \in Nat
  BY <1>1, <1>5, ClientTypes DEF Counted, Step, StepAt, Places
<1>7. ASSUME NEW d \in Clients, NEW e \in Clients PROVE ~(client[d].at < client[e].at)
  <2> SUFFICES ASSUME client[d].at < client[e].at PROVE FALSE
    OBVIOUS
  <2> DEFINE b == client[d].at
  <2>1. Passed(e, b)
    BY <1>6 DEF Passed
  <2>2. Passed(d, b)
    BY <1>1, <1>6, <2>1 DEF Together
  <2> QED BY <1>6, <2>2 DEF Passed
<1> QED BY <1>5, <1>6, <1>7

\* The last request of a barrier answers all clients.
LEMMA BarrierAnswers ==
    ASSUME CInv, Types', NEW c \in Clients, NEW s \in Servers, TakenOne(c, s), SamePlace,
           req[c][s][1].kind = "barrier", count + 1 = num_clients, count' = 0,
           \A d \in Clients : client'[d].wait = client[d].wait - 1
    PROVE  CInv'
<1>1. Types /\ Channels /\ Waits /\ Counting /\ Together /\ Flushed /\ count \in Nat
  BY DEF CInv, Types
<1>2. /\ s = 0 /\ Step(c) = "barrier" /\ client[c].wait = 1 /\ ~Counted(c)
      /\ Awaiting(c)' = {} /\ Len(req'[c][0]) = 0
      /\ \A d \in Clients : d # c => Awaiting(d)' = Awaiting(d)
  BY BarrierTaken
<1>3. ASSUME NEW d \in Clients
      PROVE  /\ client[d].wait = 1 /\ client[d].at = client[c].at
             /\ d # c => Counted(d)
  BY <1>2, LastBarrier
<1>4. ASSUME NEW d \in Clients
      PROVE  /\ client'[d].at = client[c].at /\ client'[d].wait = 0
             /\ client'[d].work = client[d].work
  BY <1>3 DEF SamePlace
<1>5. ASSUME NEW d \in Clients PROVE Awaiting(d)' = {}
  BY <1>2, <1>3, CountedAwaits
<1>6. Channels'
  BY <1>1, TakenChannels
<1>7. Waits'
  <2>1. Cardinality({}) = 0 /\ Cardinality(Servers) \in Nat
    BY FS_EmptySet, FiniteParts, FS_CardinalityType
  <2> SUFFICES ASSUME NEW d \in Clients PROVE WaitOK(d)'
    BY DEF Waits
  <2>2. client'[d].work <= MaxWork[d] /\ client'[d].wait = 0
    BY <1>1, <1>4 DEF Waits, WaitOK
  <2>3. Cardinality(Awaiting(d))' = 0
    BY <1>5, <2>1
  <2> QED BY <2>1, <2>2, <2>3 DEF WaitOK
<1>8. ASSUME NEW d \in Clients PROVE ~Counted(d)'
  BY <1>4 DEF Counted
<1>9. Counting'
  <2>1. {d \in Clients : Counted(d)}' = {}
    BY <1>8
  <2>2. Cardinality({d \in Clients : Counted(d)})' = 0
    BY <2>1, FS_EmptySet
  <2> QED BY <2>2, KVAssumption DEF Counting
<1>10. Together'
  BY <1>4 DEF Together, Passed
<1>11. Flushed'
  <2> SUFFICES ASSUME NEW d \in Clients PROVE FlushedOf(d)'
    BY DEF Flushed
  <2>1. Len(req'[d][0]) = 0
    <3>1. d # c => Len(req[d][0]) = 0
      BY <1>1, <1>3 DEF Flushed, FlushedOf
    <3> QED BY <1>1, <1>2, <3>1, TakenLeaves
  <2>2. 1..Len(req'[d][0]) = {}
    BY <2>1
  <2> QED BY <2>1, <2>2 DEF FlushedOf
<1> QED BY <1>6, <1>7, <1>9, <1>10, <1>11 DEF CInv

-----------------------------------------------------------------------------
(* Every action. *)

\* PushRemote and Pull are such sends.
LEMMA WorkSends ==
    ASSUME CInv, NEW c \in Clients, NEW servers \in SUBSET Servers, NEW kind \in {"push", "pull"},
           \/ kind = "push" /\ \E s \in Servers : servers = {s} /\ PushRemote(c, s)
           \/ kind = "pull" /\ Pull(c, servers)
    PROVE  /\ Types' /\ WorkSend(c, servers, Request(c, kind)) /\ Request(c, kind) \in Req
           /\ UNCHANGED <<server, mem>>
<1> DEFINE r == Request(c, kind)
<1>1. Types /\ Waits
  BY DEF CInv
<1>2. /\ CanWork(c) /\ SendTo(c, servers, r) /\ UNCHANGED <<server, mem, count, added>>
      /\ client'[c].wait = IF kind = "push" THEN client[c].wait ELSE Cardinality(servers)
  <2>1. client[c] \in ClientState /\ client \in [Clients -> ClientState]
    BY <1>1 DEF Types
  <2>2. CASE kind = "push"
    <3>1. PICK s \in Servers : servers = {s} /\ PushRemote(c, s)
      BY <2>2
    <3> DEFINE w == client[c].work + 1
               v == [client[c] EXCEPT !.work = w]
    <3>2. /\ CanWork(c) /\ SendTo(c, servers, r) /\ UNCHANGED <<server, mem, count, added>>
          /\ client' = [client EXCEPT ![c] = v]
      BY <2>2, <3>1 DEF PushRemote
    <3>3. v.wait = client[c].wait
      BY <2>1 DEF ClientState
    <3> HIDE DEF v
    <3>4. client'[c] = v
      BY <2>1, <3>2
    <3> QED BY <2>2, <3>2, <3>3, <3>4
  <2>3. CASE kind = "pull"
    <3> DEFINE w == client[c].work + 1
               n == Cardinality(servers)
               v == [client[c] EXCEPT !.work = w, !.wait = n]
    <3>1. Pull(c, servers)
      BY <2>3
    <3>2. /\ CanWork(c) /\ SendTo(c, servers, r) /\ UNCHANGED <<server, mem, count, added>>
          /\ client' = [client EXCEPT ![c] = v]
      BY <2>3, <3>1 DEF Pull
    <3>3. v.wait = n
      BY <2>1 DEF ClientState
    <3> HIDE DEF v
    <3>4. client'[c] = v
      BY <2>1, <3>2
    <3> QED BY <2>3, <3>2, <3>3, <3>4
  <2> QED BY <2>2, <2>3
<1>3. r \in Req /\ r.kind = kind /\ r.at = client[c].at
  <2>1. kind \in Kinds
    BY DEF Kinds
  <2> QED BY <1>1, <2>1, RequestType DEF Request
<1> HIDE DEF r
<1>4. req' \in [Clients -> [Servers -> Seq(Req)]] /\ SentOne(c, servers, r)
  BY <1>1, <1>2, <1>3, SendToOne DEF Types
<1>5. /\ client' \in [Clients -> ClientState]
      /\ \A d \in Clients : d # c => client'[d] = client[d]
      /\ client'[c].at = client[c].at
      /\ client'[c].work <= MaxWork[c]
  BY <1>1, WorkEffect DEF Waits, WaitOK
<1>6. Types'
  BY <1>1, <1>2, <1>4, <1>5 DEF Types
<1>7. WorkSend(c, servers, r)
  BY <1>2, <1>3, <1>4, <1>5 DEF WorkSend, CanWork
<1> QED BY <1>2, <1>3, <1>6, <1>7 DEF r

\* The local push, in both its steps, is silent.
LEMMA LocalSilent ==
    ASSUME CInv, NEW c \in Clients, PushLocal(c) \/ WriteLocal(c)
    PROVE  /\ Types' /\ Silent /\ UNCHANGED server
           /\ \A m \in Machines : mem'[m].exists = mem[m].exists
           /\ \A d \in Clients : client'[d].handler = client[d].handler
<1>1. Types /\ Waits
  BY DEF CInv
<1>2. /\ client' \in [Clients -> ClientState]
      /\ \A d \in Clients : d # c => client'[d] = client[d]
      /\ client'[c].at = client[c].at /\ client'[c].handler = client[c].handler
      /\ client'[c].work <= MaxWork[c]
      /\ UNCHANGED <<server, count>>
  BY <1>1, WorkEffect DEF Waits, WaitOK
<1>3. client[c] \in ClientState /\ client \in [Clients -> ClientState]
      /\ machine_id[c] \in Machines
  BY <1>1, KVAssumption DEF Types
<1>4. client'[c].wait = client[c].wait
  <2>1. CASE PushLocal(c)
    <3> DEFINE w == client[c].work + 1
               b == [kind |-> "push", id |-> <<c, client[c].work>>, read |-> mem[machine_id[c]].row]
               v == [client[c] EXCEPT !.work = w, !.busy = b]
    <3>1. client' = [client EXCEPT ![c] = v]
      BY <2>1 DEF PushLocal
    <3>2. v.wait = client[c].wait
      BY <1>3 DEF ClientState
    <3> HIDE DEF v
    <3> QED BY <1>3, <3>1, <3>2
  <2>2. CASE WriteLocal(c)
    <3> DEFINE v == [client[c] EXCEPT !.busy = Idle]
    <3>1. client' = [client EXCEPT ![c] = v]
      BY <2>2 DEF WriteLocal
    <3>2. v.wait = client[c].wait
      BY <1>3 DEF ClientState
    <3> HIDE DEF v
    <3> QED BY <1>3, <3>1, <3>2
  <2> QED BY <2>1, <2>2
<1>5. /\ req' = req /\ mem' \in [Machines -> Memory] /\ added' \in [Machines -> SUBSET Ids]
      /\ \A m \in Machines : mem'[m].exists = mem[m].exists
  <2>1. CASE PushLocal(c)
    BY <1>1, <2>1 DEF PushLocal, Types
  <2>2. CASE WriteLocal(c)
    <3>1. client[c].busy \in LocalPush
      BY <1>3, <2>2 DEF WriteLocal, ClientState
    <3>2. client[c].busy.id \in Ids /\ client[c].busy.read \in SUBSET Ids
      BY <3>1 DEF LocalPush
    <3>3. Written(machine_id[c], client[c].handler, client[c].busy) /\ req' = req
      BY <2>2 DEF WriteLocal
    <3> QED BY <1>1, <1>3, <3>2, <3>3, WrittenEffect
  <2> QED BY <2>1, <2>2
<1>6. Types'
  BY <1>1, <1>2, <1>5 DEF Types
<1>7. Silent
  <2>1. \A d \in Clients : client[d].work <= MaxWork[d]
    BY <1>1 DEF Waits, WaitOK
  <2> QED BY <1>2, <1>4, <1>5, <2>1 DEF Silent
<1> QED BY <1>2, <1>5, <1>6, <1>7

\* The push handler of a server writes silently.
LEMMA WriteSilent ==
    ASSUME CInv, NEW s \in Servers, Write(s)
    PROVE  Types' /\ Silent
<1>1. /\ Types /\ ServerEffect(s) /\ UNCHANGED <<client, req, count>>
      /\ \A d \in Clients : client[d].work <= MaxWork[d]
  BY WriteEffect DEF CInv, Waits, WaitOK
<1> QED BY <1>1 DEF Types, Silent, ServerEffect

\* A server that is not busy takes the first request of a client.
Takes(s, c, r) ==
    /\ server[s].died = Idle /\ server[s].busy = Idle
    /\ TakenOne(c, s) /\ req' \in [Clients -> [Servers -> Seq(Req)]]
    /\ r \in Req /\ r = req[c][s][1] /\ Handles(s, c, r)

\* Serve takes a request of some client.
LEMMA ServeTakes ==
    ASSUME Types, NEW s \in Servers, Serve(s)
    PROVE  \E c \in Clients : \E r \in Req : Takes(s, c, r)
<1>1. PICK c \in Clients : /\ req[c][s] # <<>> /\ req' = [req EXCEPT ![c][s] = Tail(@)]
                           /\ Handles(s, c, Head(req[c][s]))
  BY DEF Serve, Handles
<1>2. /\ req' \in [Clients -> [Servers -> Seq(Req)]] /\ TakenOne(c, s)
      /\ Head(req[c][s]) = req[c][s][1] /\ Head(req[c][s]) \in Req
  BY <1>1, TakeOne DEF Types
<1>3. Takes(s, c, Head(req[c][s]))
  BY <1>1, <1>2 DEF Takes, Serve
<1> QED BY <1>2, <1>3

\* What becomes of the request: the kind says which.
LEMMA Outcome ==
    ASSUME Types, NEW s \in Servers, NEW c \in Clients, NEW r \in Req, Handles(s, c, r)
    PROVE  \/ r.kind = "barrier" /\ BarrierRequest(s, c, r)
           \/ r.kind # "barrier" /\ Die(s, r)
           \/ /\ r.kind \in {"init", "map", "register", "delete", "pull"}
              /\ ServerEffect(s) /\ AnsweredEffect({c}) /\ count' = count
           \/ r.kind = "push" /\ PushEffect(s, r) /\ UNCHANGED <<client, mem, count>>
<1>1. CASE BarrierRequest(s, c, r)
  BY <1>1 DEF BarrierRequest
<1>2. CASE InitDataRequest(s, c, r)
  BY <1>2, InitRequest DEF InitDataRequest, InitEffect
<1>3. CASE SendMetaToBackupRequest(s, c, r)
  <2>1. r.kind = "map"
    BY <1>3 DEF SendMetaToBackupRequest
  <2>2. CASE IF server[s].data THEN server[s].handler = r.handler ELSE mem[MachineOf(s)].exists
    BY <1>3, <2>1, <2>2, MapRequest DEF MapEffect
  <2>3. CASE ~IF server[s].data THEN server[s].handler = r.handler ELSE mem[MachineOf(s)].exists
    BY <1>3, <2>1, <2>3, MapDies
  <2> QED BY <2>2, <2>3
<1>4. CASE RegisterPushHandlerRequest(s, c, r)
  BY <1>4, RegisterRequest DEF RegisterPushHandlerRequest, RegisterEffect
<1>5. CASE DeleteDataRequest(s, c, r)
  BY <1>5, DeleteRequest DEF DeleteDataRequest, DeleteEffect
<1>6. CASE PullRequest(s, c, r)
  <2>1. r.kind = "pull"
    BY <1>6 DEF PullRequest
  <2>2. CASE server[s].policy /\ server[s].data
    BY <1>6, <2>1, <2>2, PullEffect
  <2>3. CASE ~(server[s].policy /\ server[s].data)
    BY <1>6, <2>1, <2>3, NoDataDies
  <2> QED BY <2>2, <2>3
<1>7. CASE PushRequest(s, c, r)
  <2>1. r.kind = "push"
    BY <1>7 DEF PushRequest
  <2>2. CASE server[s].policy /\ server[s].data
    BY <1>7, <2>1, <2>2, PushEffectOf
  <2>3. CASE ~(server[s].policy /\ server[s].data)
    BY <1>7, <2>1, <2>3, NoDataDies
  <2> QED BY <2>2, <2>3
<1> QED BY <1>1, <1>2, <1>3, <1>4, <1>5, <1>6, <1>7 DEF Handles

\* CInv holds when a server takes a request, whatever becomes of it.
LEMMA TakesKeeps ==
    ASSUME CInv, NEW s \in Servers, NEW c \in Clients, NEW r \in Req, Takes(s, c, r)
    PROVE  CInv'
<1>1. /\ Types /\ TakenOne(c, s) /\ req' \in [Clients -> [Servers -> Seq(Req)]]
      /\ r = req[c][s][1] /\ Handles(s, c, r)
  BY DEF CInv, Takes
<1>2. CASE r.kind = "barrier" /\ BarrierRequest(s, c, r)
  <2> DEFINE cs == IF count + 1 = num_clients THEN Clients ELSE {}
  <2>1. Answered(cs) /\ UNCHANGED <<server, mem, added>>
        /\ count' = IF count + 1 = num_clients THEN 0 ELSE count + 1
    BY <1>2 DEF BarrierRequest
  <2>2. AnsweredEffect(cs)
    BY <1>1, <2>1, AnsweredOne
  <2>3. Types'
    <3>1. count' \in Nat
      BY <1>1, <2>1 DEF Types
    <3>2. client' \in [Clients -> ClientState] /\ UNCHANGED <<server, mem, added>>
      BY <2>1, <2>2 DEF AnsweredEffect
    <3> QED BY <1>1, <3>1, <3>2 DEF Types
  <2>4. SamePlace
    BY <2>2 DEF AnsweredEffect, SamePlace
  <2>5. CASE count + 1 = num_clients
    <3>1. \A d \in Clients : client'[d].wait = client[d].wait - 1
      BY <2>2, <2>5 DEF AnsweredEffect
    <3> QED BY <1>1, <1>2, <2>1, <2>3, <2>4, <2>5, <3>1, BarrierAnswers
  <2>6. CASE count + 1 # num_clients
    <3>1. \A d \in Clients : client'[d].wait = client[d].wait
      BY <2>2, <2>6 DEF AnsweredEffect
    <3> QED BY <1>1, <1>2, <2>1, <2>3, <2>4, <2>6, <3>1, BarrierCounts
  <2> QED BY <2>5, <2>6
<1>3. CASE r.kind # "barrier" /\ Die(s, r)
  <2>1. ServerEffect(s) /\ UNCHANGED <<client, mem, count>>
    BY <1>1, <1>3, DieEffect
  <2>2. Types'
    BY <1>1, <2>1 DEF Types, ServerEffect
  <2>3. SamePlace
    BY <2>1 DEF SamePlace
  <2> QED BY <1>1, <1>3, <2>1, <2>2, <2>3, TakenKeeps
<1>4. CASE /\ r.kind \in {"init", "map", "register", "delete", "pull"}
           /\ ServerEffect(s) /\ AnsweredEffect({c}) /\ count' = count
  <2>1. Types'
    BY <1>1, <1>4 DEF Types, ServerEffect, AnsweredEffect
  <2>2. SamePlace
    BY <1>4 DEF AnsweredEffect, SamePlace
  <2>3. client'[c].wait = client[c].wait - 1
        /\ \A d \in Clients : d # c => client'[d].wait = client[d].wait
    BY <1>4 DEF AnsweredEffect
  <2> QED BY <1>1, <1>4, <2>1, <2>2, <2>3, TakenKeeps
<1>5. CASE r.kind = "push" /\ PushEffect(s, r) /\ UNCHANGED <<client, mem, count>>
  <2>1. Types'
    BY <1>1, <1>5 DEF Types, PushEffect, ServerEffect
  <2>2. SamePlace
    BY <1>5 DEF SamePlace
  <2> QED BY <1>1, <1>5, <2>1, <2>2, TakenKeeps
<1> QED BY <1>1, <1>2, <1>3, <1>4, <1>5, Outcome

\* CInv holds at first: nothing is sent, counted or awaited.
LEMMA InitCInv == Init => CInv
<1> SUFFICES ASSUME Init PROVE CInv
  OBVIOUS
<1>1. Types
  <2>1. 0 \in 0..(Len(Script) + 1)
    BY KVAssumption, LenProperties
  <2>2. [at |-> 0, wait |-> 0, handler |-> NoHandler, work |-> 0, busy |-> Idle] \in ClientState
    BY <2>1 DEF ClientState, Handlers
  <2>3. [data |-> FALSE, policy |-> FALSE, handler |-> NoHandler, busy |-> Idle, died |-> Idle]
          \in ServerState
    BY DEF ServerState, Handlers
  <2>4. [exists |-> FALSE, row |-> {}] \in Memory /\ <<>> \in Seq(Req)
    BY DEF Memory
  <2> QED BY <2>2, <2>3, <2>4 DEF Init, Types
<1>2. ASSUME NEW c \in Clients
      PROVE  /\ client[c].at = 0 /\ client[c].wait = 0 /\ client[c].work = 0
             /\ \A s \in Servers : Len(req[c][s]) = 0
  BY DEF Init
<1>3. ASSUME NEW c \in Clients PROVE Awaiting(c) = {} /\ ~Counted(c)
  BY <1>2 DEF Awaiting, Counted
<1>4. Channels
  BY <1>2 DEF Channels, ChannelOK
<1>5. Waits
  <2>1. Cardinality({}) = 0 /\ Cardinality(Servers) \in Nat
    BY FS_EmptySet, FiniteParts, FS_CardinalityType
  <2> SUFFICES ASSUME NEW c \in Clients PROVE WaitOK(c)
    BY DEF Waits
  <2>2. Cardinality(Awaiting(c)) = 0 /\ MaxWork[c] \in Nat
    BY <1>3, <2>1, KVAssumption
  <2> QED BY <1>2, <2>1, <2>2 DEF WaitOK
<1>6. Counting
  <2>1. {c \in Clients : Counted(c)} = {}
    BY <1>3
  <2>2. Cardinality({c \in Clients : Counted(c)}) = 0
    BY <2>1, FS_EmptySet
  <2> QED BY <2>2, KVAssumption DEF Counting, Init
<1>7. Together
  BY <1>2 DEF Together, Passed
<1>8. Flushed
  BY <1>2, <1>3, FiniteParts DEF Flushed, FlushedOf
<1> QED BY <1>1, <1>4, <1>5, <1>6, <1>7, <1>8 DEF CInv

\* Every action keeps CInv.
LEMMA NextCInv == CInv /\ [Next]_vars => CInv'
<1> SUFFICES ASSUME CInv, [Next]_vars PROVE CInv'
  OBVIOUS
<1>1. ASSUME NEW c \in Clients, Advance(c) PROVE CInv'
  BY <1>1, AdvanceKeeps
<1>2. ASSUME NEW c \in Clients, NEW s \in Servers, PushRemote(c, s) PROVE CInv'
  <2>1. {s} \in SUBSET Servers
    OBVIOUS
  <2> QED BY <1>2, <2>1, WorkSends, WorkSendKeeps
<1>3. ASSUME NEW c \in Clients, PushLocal(c) \/ WriteLocal(c) PROVE CInv'
  BY <1>3, LocalSilent, SilentKeeps
<1>4. ASSUME NEW c \in Clients, NEW servers \in SUBSET Servers, Pull(c, servers) PROVE CInv'
  BY <1>4, WorkSends, WorkSendKeeps
<1>5. ASSUME NEW s \in Servers, Serve(s) PROVE CInv'
  <2>1. PICK c \in Clients : \E r \in Req : Takes(s, c, r)
    BY <1>5, ServeTakes DEF CInv
  <2> QED BY <2>1, TakesKeeps
<1>6. ASSUME NEW s \in Servers, Write(s) PROVE CInv'
  BY <1>6, WriteSilent, SilentKeeps
<1>7. ASSUME UNCHANGED vars PROVE CInv'
  <2>1. Types' /\ Silent
    BY <1>7 DEF vars, CInv, Types, Silent, Waits, WaitOK
  <2> QED BY <2>1, SilentKeeps
<1> QED BY <1>1, <1>2, <1>3, <1>4, <1>5, <1>6, <1>7 DEF Next, ClientStep, Over

\* CInv is an invariant.
LEMMA CInvHolds == Spec => []CInv
  BY InitCInv, NextCInv, PTL DEF Spec

\* The state of clients, servers, rows and channels is well-typed: a client
\* never waits for more answers than there are servers, and server 0 counts
\* fewer barrier requests than there are clients (barrier_count), whatever the
\* program of the clients.
THEOREM TypeCorrect == Spec => []TypeOK
<1>1. CInv => TypeOK
  <2> SUFFICES ASSUME CInv PROVE TypeOK
    OBVIOUS
  <2>1. Types /\ Channels /\ Waits /\ Counting
    BY DEF CInv
  <2>2. ASSUME NEW c \in Clients
        PROVE  /\ client[c].at \in 0..(Len(Script) + 1)
               /\ client[c].wait \in 0..Cardinality(Servers)
               /\ client[c].handler \in Handlers
               /\ client[c].work \in 0..MaxWork[c]
    <3>1. client[c] \in ClientState /\ MaxWork[c] \in Nat
      BY <2>1, KVAssumption DEF Types
    <3>2. Cardinality(Servers) \in Nat
      BY FiniteParts, FS_CardinalityType
    <3>3. client[c].wait \in Nat
      BY <2>1, NoneAwaiting
    <3>4. client[c].wait <= Cardinality(Servers) /\ client[c].work <= MaxWork[c]
      BY <2>1 DEF Waits, WaitOK
    <3> QED BY <3>1, <3>2, <3>3, <3>4 DEF ClientState
  <2>3. ASSUME NEW s \in Servers PROVE server[s].handler \in Handlers
    BY <2>1 DEF Types, ServerState
  <2>4. ASSUME NEW m \in Machines PROVE mem[m].row \subseteq Ids /\ added[m] \subseteq Ids
    BY <2>1 DEF Types, Memory
  <2>5. count \in 0..(num_clients - 1)
    BY <2>1, KVAssumption DEF Types, Counting
  <2> QED BY <2>2, <2>3, <2>4, <2>5 DEF TypeOK
<1> QED BY CInvHolds, <1>1, PTL

-----------------------------------------------------------------------------
(* The program: the steps around those of a collective call. *)

Calls == {"init", "map", "register", "delete"}
CallPlaces == {i \in DOMAIN Script : Script[i] \in Calls}

\* Places of steps are positions of the script.
LEMMA PlacesType ==
    /\ DOMAIN Script = 1..Len(Script) /\ Len(Script) \in Nat
    /\ \A step \in Steps : \A i \in Places(step) : i \in Nat /\ i >= 1 /\ StepAt(i) = step
    /\ \A step \in Steps : \A i \in Nat : StepAt(i) = step => i \in Places(step)
    /\ \A i \in CallPlaces : i \in Nat /\ i >= 1 /\ StepAt(i) \in Calls
    /\ \A i \in Nat : StepAt(i) \in Calls => i \in CallPlaces
<1>1. DOMAIN Script = 1..Len(Script) /\ Len(Script) \in Nat
  BY KVAssumption, LenProperties
<1>2. "none" \notin Steps /\ "none" \notin Calls
  BY DEF Steps, Calls
<1> QED BY <1>1, <1>2 DEF Places, StepAt, CallPlaces

\* A step of a collective call stands where the call has it.
LEMMA InCall ==
    ASSUME NEW i \in Nat, StepAt(i) \in Steps \ {"barrier", "work"}
    PROVE  \E call \in {init_data, register_push_handler, delete_data} :
             \E n \in DOMAIN call : n <= i /\ Occurs(call, i - n) /\ call[n] = StepAt(i)
<1>1. i \in DOMAIN Script /\ Script[i] = StepAt(i)
  BY DEF StepAt, Steps
<1>2. PICK call \in {init_data, register_push_handler, delete_data} :
        \E n \in DOMAIN call : n <= i /\ Occurs(call, i - n)
  BY <1>1, ProgramAssumption
<1>3. PICK n \in DOMAIN call : n <= i /\ Occurs(call, i - n)
  BY <1>2
<1>4. n \in Int
  BY <1>2 DEF init_data, register_push_handler, delete_data
<1>5. (i - n) + n = i
  BY <1>4
<1>6. call[n] = StepAt(i)
  BY <1>3, <1>5 DEF Occurs
<1> QED BY <1>3, <1>6

\* The steps of init_data, by number.
LEMMA InitCall ==
    /\ DOMAIN init_data = 1..5
    /\ init_data[1] = "barrier" /\ init_data[2] = "init" /\ init_data[3] = "barrier"
    /\ init_data[4] = "map" /\ init_data[5] = "barrier"
  BY DEF init_data

\* The steps of register_push_handler, by number.
LEMMA RegisterCall ==
    /\ DOMAIN register_push_handler = 1..3
    /\ register_push_handler[1] = "barrier" /\ register_push_handler[2] = "register"
    /\ register_push_handler[3] = "barrier"
  BY DEF register_push_handler

\* The steps of delete_data, by number.
LEMMA DeleteCall ==
    /\ DOMAIN delete_data = 1..5
    /\ delete_data[1] = "barrier" /\ delete_data[2] = "delete" /\ delete_data[3] = "barrier"
    /\ delete_data[4] = "unmap" /\ delete_data[5] = "barrier"
  BY DEF delete_data

\* init is the second step of init_data, and so on.
LEMMA Around ==
    ASSUME NEW i \in Nat
    PROVE  /\ StepAt(i) = "init" => /\ StepAt(i - 1) = "barrier" /\ StepAt(i + 1) = "barrier"
                                    /\ StepAt(i + 2) = "map" /\ StepAt(i + 3) = "barrier"
           /\ StepAt(i) = "map" => /\ i >= 3 /\ StepAt(i - 2) = "init" /\ StepAt(i - 1) = "barrier"
                                   /\ StepAt(i + 1) = "barrier"
           /\ StepAt(i) = "register" => StepAt(i - 1) = "barrier" /\ StepAt(i + 1) = "barrier"
           /\ StepAt(i) = "delete" => /\ StepAt(i - 1) = "barrier" /\ StepAt(i + 1) = "barrier"
                                      /\ StepAt(i + 2) = "unmap" /\ StepAt(i + 3) = "barrier"
           /\ StepAt(i) = "unmap" => /\ i >= 3 /\ StepAt(i - 2) = "delete"
                                     /\ StepAt(i - 1) = "barrier" /\ StepAt(i + 1) = "barrier"
<1>1. ASSUME StepAt(i) = "init"
      PROVE  /\ StepAt(i - 1) = "barrier" /\ StepAt(i + 1) = "barrier"
             /\ StepAt(i + 2) = "map" /\ StepAt(i + 3) = "barrier"
  <2>1. PICK call \in {init_data, register_push_handler, delete_data} :
          \E n \in DOMAIN call : n <= i /\ Occurs(call, i - n) /\ call[n] = StepAt(i)
    BY <1>1, InCall DEF Steps
  <2>2. PICK n \in DOMAIN call : n <= i /\ Occurs(call, i - n) /\ call[n] = "init"
    BY <1>1, <2>1
  <2>3. call = init_data /\ n = 2
    BY <2>1, <2>2, InitCall, RegisterCall, DeleteCall
  <2>4. \A k \in 1..5 : StepAt((i - 2) + k) = init_data[k]
    BY <2>2, <2>3, InitCall DEF Occurs
  <2>5. StepAt((i - 2) + 1) = init_data[1] /\ StepAt((i - 2) + 3) = init_data[3]
        /\ StepAt((i - 2) + 4) = init_data[4] /\ StepAt((i - 2) + 5) = init_data[5]
    BY <2>4
  <2>6. (i - 2) + 1 = i - 1 /\ (i - 2) + 3 = i + 1 /\ (i - 2) + 4 = i + 2 /\ (i - 2) + 5 = i + 3
    BY <2>2, <2>3
  <2> QED BY <2>5, <2>6, InitCall
<1>2. ASSUME StepAt(i) = "map"
      PROVE  /\ i >= 3 /\ StepAt(i - 2) = "init" /\ StepAt(i - 1) = "barrier"
             /\ StepAt(i + 1) = "barrier"
  <2>1. PICK call \in {init_data, register_push_handler, delete_data} :
          \E n \in DOMAIN call : n <= i /\ Occurs(call, i - n) /\ call[n] = StepAt(i)
    BY <1>2, InCall DEF Steps
  <2>2. PICK n \in DOMAIN call : n <= i /\ Occurs(call, i - n) /\ call[n] = "map"
    BY <1>2, <2>1
  <2>3. call = init_data /\ n = 4
    BY <2>1, <2>2, InitCall, RegisterCall, DeleteCall
  <2>4. \A k \in 1..5 : StepAt((i - 4) + k) = init_data[k]
    BY <2>2, <2>3, InitCall DEF Occurs
  <2>5. StepAt((i - 4) + 2) = init_data[2] /\ StepAt((i - 4) + 3) = init_data[3]
        /\ StepAt((i - 4) + 5) = init_data[5]
    BY <2>4
  <2>6. (i - 4) + 2 = i - 2 /\ (i - 4) + 3 = i - 1 /\ (i - 4) + 5 = i + 1 /\ i >= 3
    BY <2>2, <2>3
  <2> QED BY <2>5, <2>6, InitCall
<1>3. ASSUME StepAt(i) = "register"
      PROVE  StepAt(i - 1) = "barrier" /\ StepAt(i + 1) = "barrier"
  <2>1. PICK call \in {init_data, register_push_handler, delete_data} :
          \E n \in DOMAIN call : n <= i /\ Occurs(call, i - n) /\ call[n] = StepAt(i)
    BY <1>3, InCall DEF Steps
  <2>2. PICK n \in DOMAIN call : n <= i /\ Occurs(call, i - n) /\ call[n] = "register"
    BY <1>3, <2>1
  <2>3. call = register_push_handler /\ n = 2
    BY <2>1, <2>2, InitCall, RegisterCall, DeleteCall
  <2>4. \A k \in 1..3 : StepAt((i - 2) + k) = register_push_handler[k]
    BY <2>2, <2>3, RegisterCall DEF Occurs
  <2>5. StepAt((i - 2) + 1) = register_push_handler[1] /\ StepAt((i - 2) + 3) = register_push_handler[3]
    BY <2>4
  <2>6. (i - 2) + 1 = i - 1 /\ (i - 2) + 3 = i + 1
    BY <2>2, <2>3
  <2> QED BY <2>5, <2>6, RegisterCall
<1>4. ASSUME StepAt(i) = "delete"
      PROVE  /\ StepAt(i - 1) = "barrier" /\ StepAt(i + 1) = "barrier"
             /\ StepAt(i + 2) = "unmap" /\ StepAt(i + 3) = "barrier"
  <2>1. PICK call \in {init_data, register_push_handler, delete_data} :
          \E n \in DOMAIN call : n <= i /\ Occurs(call, i - n) /\ call[n] = StepAt(i)
    BY <1>4, InCall DEF Steps
  <2>2. PICK n \in DOMAIN call : n <= i /\ Occurs(call, i - n) /\ call[n] = "delete"
    BY <1>4, <2>1
  <2>3. call = delete_data /\ n = 2
    BY <2>1, <2>2, InitCall, RegisterCall, DeleteCall
  <2>4. \A k \in 1..5 : StepAt((i - 2) + k) = delete_data[k]
    BY <2>2, <2>3, DeleteCall DEF Occurs
  <2>5. StepAt((i - 2) + 1) = delete_data[1] /\ StepAt((i - 2) + 3) = delete_data[3]
        /\ StepAt((i - 2) + 4) = delete_data[4] /\ StepAt((i - 2) + 5) = delete_data[5]
    BY <2>4
  <2>6. (i - 2) + 1 = i - 1 /\ (i - 2) + 3 = i + 1 /\ (i - 2) + 4 = i + 2 /\ (i - 2) + 5 = i + 3
    BY <2>2, <2>3
  <2> QED BY <2>5, <2>6, DeleteCall
<1>5. ASSUME StepAt(i) = "unmap"
      PROVE  /\ i >= 3 /\ StepAt(i - 2) = "delete" /\ StepAt(i - 1) = "barrier"
             /\ StepAt(i + 1) = "barrier"
  <2>1. PICK call \in {init_data, register_push_handler, delete_data} :
          \E n \in DOMAIN call : n <= i /\ Occurs(call, i - n) /\ call[n] = StepAt(i)
    BY <1>5, InCall DEF Steps
  <2>2. PICK n \in DOMAIN call : n <= i /\ Occurs(call, i - n) /\ call[n] = "unmap"
    BY <1>5, <2>1
  <2>3. call = delete_data /\ n = 4
    BY <2>1, <2>2, InitCall, RegisterCall, DeleteCall
  <2>4. \A k \in 1..5 : StepAt((i - 4) + k) = delete_data[k]
    BY <2>2, <2>3, DeleteCall DEF Occurs
  <2>5. StepAt((i - 4) + 2) = delete_data[2] /\ StepAt((i - 4) + 3) = delete_data[3]
        /\ StepAt((i - 4) + 5) = delete_data[5]
    BY <2>4
  <2>6. (i - 4) + 2 = i - 2 /\ (i - 4) + 3 = i - 1 /\ (i - 4) + 5 = i + 1 /\ i >= 3
    BY <2>2, <2>3
  <2> QED BY <2>5, <2>6, DeleteCall
<1> QED BY <1>1, <1>2, <1>3, <1>4, <1>5

-----------------------------------------------------------------------------
(* How far the clients are apart: at most one barrier. *)

\* Nobody is behind the barrier after the step of a client.
LEMMA Ahead ==
    ASSUME CInv, NEW c \in Clients, StepAt(client[c].at + 1) = "barrier", NEW d \in Clients
    PROVE  client[d].at <= client[c].at + 1
<1> DEFINE b == client[c].at + 1
<1>1. client[c].at \in Nat /\ client[d].at \in Nat /\ Together
  BY ClientTypes DEF CInv
<1>2. b \in Places("barrier")
  BY <1>1, PlacesType DEF Steps
<1> SUFFICES ASSUME client[d].at > b PROVE FALSE
  BY <1>1
<1>3. Passed(c, b)
  BY <1>1, <1>2 DEF Together, Passed
<1> QED BY <1>1, <1>3 DEF Passed

\* When a client is after a barrier all clients have come to it.
LEMMA Behind ==
    ASSUME CInv, NEW c \in Clients, NEW b \in Nat, StepAt(b) = "barrier", client[c].at > b,
           NEW d \in Clients
    PROVE  client[d].at >= b
<1>1. client[c].at \in Nat /\ client[d].at \in Nat /\ Together
  BY ClientTypes DEF CInv
<1>2. b \in Places("barrier")
  BY PlacesType DEF Steps
<1>3. Passed(d, b)
  BY <1>1, <1>2 DEF Together, Passed
<1> QED BY <1>1, <1>3 DEF Passed

-----------------------------------------------------------------------------
(* The tensor at the servers. *)

\* Server s has handled the request of client c of the step at i.
Handled(c, s, i) ==
    /\ s \in Targets(c, StepAt(i))
    /\ client[c].at > i \/ (client[c].at = i /\ s \notin Awaiting(c))
SomeHandled(s, i) == \E c \in Clients : Handled(c, s, i)

\* Some client has reached a step of this name after i.
Reached(step, i) ==
    \E d \in Clients : \E k \in Places(step) : i < k /\ k <= client[d].at

\* From init_data to delete_data the servers have the tensor, a main server at
\* once and a backup server when it has mapped the shared memory.
InitOK(s) ==
    \A i \in Places("init") : SomeHandled(s, i) /\ ~Reached("delete", i) =>
        /\ server[s].policy /\ server[s].handler >= Default
        /\ ~is_backup_server(s) => server[s].data /\ mem[MachineOf(s)].exists
        /\ ~Reached("register", i) => server[s].handler = Default
MapOK(s) ==
    \A i \in Places("map") : SomeHandled(s, i) /\ ~Reached("delete", i) => server[s].data
RegisterOK(s) ==
    \A i \in Places("register") : SomeHandled(s, i) /\ ~Reached("delete", i) =>
        server[s].handler = Added

\* A server that has data has it from an init_data after its last delete_data.
DataOK(s) ==
    server[s].data => \E i \in Places("init") :
        SomeHandled(s, i) /\ \A k \in Places("delete") : k > i => ~SomeHandled(s, k)

ServerOK(s) == InitOK(s) /\ MapOK(s) /\ RegisterOK(s) /\ DataOK(s)

\* A step after which server t has handled the requests of the same steps, and
\* its tensor is as before.
SteadyHandled(t) ==
    /\ \A j \in CallPlaces : SomeHandled(t, j)' <=> SomeHandled(t, j)
    /\ \A d \in Clients : client'[d].at >= client[d].at
Steady(t) ==
    /\ SteadyHandled(t)
    /\ server'[t].data = server[t].data /\ server'[t].policy = server[t].policy
    /\ server'[t].handler = server[t].handler

\* The places of the calls are places of collective steps.
LEMMA PlacesCalls ==
    ASSUME NEW step \in Calls
    PROVE  Places(step) \subseteq CallPlaces /\ \A i \in Places(step) : i \in Nat /\ StepAt(i) = step
  BY PlacesType DEF Places, CallPlaces, Calls, Steps

\* Clients do not go back.
LEMMA ReachedStays ==
    ASSUME Types, Types', \A d \in Clients : client'[d].at >= client[d].at,
           NEW step \in Calls, NEW i \in Nat, Reached(step, i)
    PROVE  Reached(step, i)'
<1>1. PICK d \in Clients, k \in Places(step) : i < k /\ k <= client[d].at
  BY DEF Reached
<1>2. client[d].at \in Nat /\ client'[d].at \in Nat /\ k \in Nat
  <2>1. client[d] \in ClientState /\ client'[d] \in ClientState
    BY DEF Types
  <2> QED BY <2>1, PlacesCalls, PlacesType DEF ClientState
<1>3. k <= client'[d].at
  BY <1>1, <1>2
<1> QED BY <1>1, <1>3 DEF Reached, Places

\* Equal handling, for the places of one step.
LEMMA SteadySome ==
    ASSUME NEW t \in Servers, SteadyHandled(t), NEW step \in Calls, NEW i \in Places(step)
    PROVE  SomeHandled(t, i)' <=> SomeHandled(t, i)
<1>1. i \in CallPlaces
  BY PlacesCalls
<1> QED BY <1>1 DEF SteadyHandled

\* A steady step keeps what mapping, registration and deletion say of a server.
LEMMA SteadyKeeps ==
    ASSUME Types, Types', NEW t \in Servers, Steady(t), MapOK(t), RegisterOK(t), DataOK(t)
    PROVE  MapOK(t)' /\ RegisterOK(t)' /\ DataOK(t)'
<1>1. /\ SteadyHandled(t) /\ \A d \in Clients : client'[d].at >= client[d].at
      /\ server'[t].data = server[t].data /\ server'[t].handler = server[t].handler
  BY DEF Steady, SteadyHandled
<1>2. ASSUME NEW step \in Calls, NEW i \in Places(step)
      PROVE  SomeHandled(t, i)' <=> SomeHandled(t, i)
  BY <1>1, SteadySome
<1>3. ASSUME NEW step \in Calls, NEW i \in Places(step), ~Reached("delete", i)'
      PROVE  ~Reached("delete", i)
  <2>1. i \in Nat /\ "delete" \in Calls
    BY PlacesCalls DEF Calls
  <2> QED BY <1>1, <1>3, <2>1, ReachedStays
<1>4. MapOK(t)'
  BY <1>1, <1>2, <1>3 DEF MapOK, Places, Calls
<1>5. RegisterOK(t)'
  BY <1>1, <1>2, <1>3 DEF RegisterOK, Places, Calls
<1>6. DataOK(t)'
  BY <1>1, <1>2 DEF DataOK, Places, Calls
<1> QED BY <1>4, <1>5, <1>6

\* The same for init_data, as long as the shared memory stays.
LEMMA SteadyInit ==
    ASSUME Types, Types', NEW t \in Servers, Steady(t), InitOK(t),
           mem[MachineOf(t)].exists => mem'[MachineOf(t)].exists
    PROVE  InitOK(t)'
<1>1. /\ SteadyHandled(t) /\ \A d \in Clients : client'[d].at >= client[d].at
      /\ server'[t].data = server[t].data /\ server'[t].handler = server[t].handler
      /\ server'[t].policy = server[t].policy
  BY DEF Steady, SteadyHandled
<1> SUFFICES ASSUME NEW i \in Places("init"), SomeHandled(t, i)', ~Reached("delete", i)'
             PROVE  /\ server'[t].policy /\ server'[t].handler >= Default
                    /\ ~is_backup_server(t) => server'[t].data /\ mem'[MachineOf(t)].exists
                    /\ ~Reached("register", i)' => server'[t].handler = Default
  BY DEF InitOK, Places, MachineOf, is_backup_server
<1>2. i \in Nat /\ "delete" \in Calls /\ "register" \in Calls /\ "init" \in Calls
  BY PlacesCalls DEF Calls
<1>3. SomeHandled(t, i)
  BY <1>1, <1>2, SteadySome
<1>4. ~Reached("delete", i)
  BY <1>1, <1>2, ReachedStays
<1>5. ~Reached("register", i)' => ~Reached("register", i)
  BY <1>1, <1>2, ReachedStays
<1> QED BY <1>1, <1>3, <1>4, <1>5 DEF InitOK

\* When a client goes on it has had all its requests handled, and none of the
\* requests of its new step is.
LEMMA AdvanceSteady ==
    ASSUME CInv, NEW c \in Clients, Advance(c), NEW t \in Servers
    PROVE  Steady(t)
<1>1. Types /\ AdvanceWaits(c) /\ client'[c].at = client[c].at + 1
  BY AdvanceSends, AdvanceEffect DEF CInv
<1>2. client[c].at \in Nat /\ Awaiting(c) = {} /\ Awaiting(c)' = Targets(c, StepAt(client[c].at + 1))
  BY <1>1, ClientTypes DEF AdvanceWaits
<1>3. ASSUME NEW d \in Clients
      PROVE  /\ client'[d].at >= client[d].at /\ client[d].at \in Nat
             /\ d # c => client'[d].at = client[d].at /\ Awaiting(d)' = Awaiting(d)
  BY <1>1, ClientTypes DEF AdvanceWaits
<1>4. ASSUME NEW d \in Clients, NEW j \in CallPlaces PROVE Handled(d, t, j)' <=> Handled(d, t, j)
  <2>1. j \in Nat
    BY PlacesType
  <2>2. CASE d # c
    BY <1>3, <2>2 DEF Handled, Targets, MyGroup
  <2>3. CASE d = c
    <3>1. client'[c].at = j => StepAt(client[c].at + 1) = StepAt(j)
      BY <1>1
    <3>2. Handled(c, t, j) <=> t \in Targets(c, StepAt(j)) /\ client[c].at >= j
      BY <1>2, <2>1 DEF Handled
    <3>3. Handled(c, t, j)' <=> t \in Targets(c, StepAt(j)) /\ client'[c].at > j
      BY <1>1, <1>2, <2>1, <3>1 DEF Handled, Targets, MyGroup
    <3> QED BY <1>1, <1>2, <2>1, <2>3, <3>2, <3>3
  <2> QED BY <2>2, <2>3
<1>5. SteadyHandled(t)
  BY <1>3, <1>4 DEF SteadyHandled, SomeHandled
<1>6. server' = server
  BY DEF Advance
<1> QED BY <1>5, <1>6 DEF Steady

\* Work handles no request of a call.
LEMMA WorkSteady ==
    ASSUME CInv, NEW c \in Clients, NEW servers \in SUBSET Servers, NEW r \in Req,
           WorkSend(c, servers, r), NEW t \in Servers
    PROVE  SteadyHandled(t)
<1>1. /\ \A d \in Clients : d # c => client'[d] = client[d]
      /\ client'[c].at = client[c].at /\ Step(c) = "work"
      /\ \A d \in Clients : d # c => Awaiting(d)' = Awaiting(d)
  BY WorkSendWaits DEF WorkSend
<1>2. ASSUME NEW d \in Clients PROVE client'[d].at = client[d].at /\ client[d].at \in Nat
  BY <1>1, ClientTypes DEF CInv
<1>3. ASSUME NEW d \in Clients, NEW j \in CallPlaces PROVE Handled(d, t, j)' <=> Handled(d, t, j)
  <2>1. CASE d # c
    BY <1>1, <2>1 DEF Handled, Targets, MyGroup
  <2>2. CASE d = c
    <3>1. client[c].at # j
      BY <1>1, PlacesType DEF Step, Calls
    <3> QED BY <1>1, <2>2, <3>1 DEF Handled, Targets, MyGroup
  <2> QED BY <2>1, <2>2
<1> QED BY <1>2, <1>3 DEF SteadyHandled, SomeHandled

\* Silent steps handle no request of a call.
LEMMA SilentSteady ==
    ASSUME CInv, Types', Silent, NEW t \in Servers
    PROVE  SteadyHandled(t)
<1>1. ASSUME NEW d \in Clients
      PROVE  client'[d].at = client[d].at /\ Awaiting(d)' = Awaiting(d) /\ client[d].at \in Nat
  BY SilentKeeps, ClientTypes DEF Silent, CInv
<1>2. ASSUME NEW d \in Clients, NEW j \in CallPlaces PROVE Handled(d, t, j)' <=> Handled(d, t, j)
  BY <1>1 DEF Handled, Targets, MyGroup
<1> QED BY <1>1, <1>2 DEF SteadyHandled, SomeHandled

\* A server that takes a request handles that of its client's step.
LEMMA TakenHandled ==
    ASSUME CInv, NEW c \in Clients, NEW s \in Servers, TakenOne(c, s), SamePlace,
           NEW d \in Clients, NEW t \in Servers, NEW j \in CallPlaces
    PROVE  Handled(d, t, j)' <=>
             \/ Handled(d, t, j)
             \/ /\ d = c /\ t = s /\ j = client[c].at /\ req[c][s][1].kind # "push"
                /\ s \in Targets(c, StepAt(j))
<1>1. Types /\ Channels /\ client'[d].at = client[d].at
  BY DEF CInv, SamePlace
<1>2. client[d].at \in Nat /\ j \in Nat
  BY <1>1, ClientTypes, PlacesType
<1>3. CASE req[c][s][1].kind = "push"
  <2>1. Awaiting(d)' = Awaiting(d)
    BY <1>1, <1>3, PushTaken
  <2> QED BY <1>1, <1>3, <2>1 DEF Handled, Targets, MyGroup
<1>4. CASE req[c][s][1].kind # "push"
  <2>1. CallOut(c, s)
    BY <1>1, <1>4, CallTaken
  <2>2. t \in Awaiting(d)' <=> t \in Awaiting(d) /\ ~(d = c /\ t = s)
    BY <2>1 DEF CallOut
  <2>3. s \in Awaiting(c)
    BY <2>1 DEF CallOut
  <2>4. Handled(d, t, j)' <=> /\ t \in Targets(d, StepAt(j))
                              /\ client[d].at > j \/ (client[d].at = j /\ t \notin Awaiting(d)')
    BY <1>1 DEF Handled, Targets, MyGroup
  <2>5. CASE ~(d = c /\ t = s)
    BY <2>2, <2>4, <2>5 DEF Handled
  <2>6. CASE d = c /\ t = s
    BY <1>2, <1>4, <2>2, <2>3, <2>4, <2>6 DEF Handled
  <2> QED BY <2>5, <2>6
<1> QED BY <1>3, <1>4

\* The other servers handle nothing.
LEMMA TakenOther ==
    ASSUME CInv, NEW c \in Clients, NEW s \in Servers, TakenOne(c, s), SamePlace,
           NEW t \in Servers, t # s \/ req[c][s][1].kind = "push" \/ client[c].at \notin CallPlaces
    PROVE  SteadyHandled(t)
<1>1. \A d \in Clients : client'[d].at = client[d].at /\ client[d].at \in Nat
  BY ClientTypes DEF SamePlace, CInv
<1>2. \A d \in Clients, j \in CallPlaces : Handled(d, t, j)' <=> Handled(d, t, j)
  BY TakenHandled
<1> QED BY <1>1, <1>2 DEF SteadyHandled, SomeHandled

\* Server s handles the request of client c of the step at p.
LEMMA TakenSome ==
    ASSUME CInv, NEW c \in Clients, NEW s \in Servers, TakenOne(c, s), SamePlace,
           req[c][s][1].kind # "push", NEW i \in CallPlaces
    PROVE  SomeHandled(s, i)' <=>
             SomeHandled(s, i) \/ (i = client[c].at /\ s \in Targets(c, StepAt(i)))
<1>1. ASSUME NEW d \in Clients
      PROVE  Handled(d, s, i)' <=> Handled(d, s, i) \/ (d = c /\ i = client[c].at /\ s \in Targets(c, StepAt(i)))
  BY TakenHandled
<1> QED BY <1>1 DEF SomeHandled

-----------------------------------------------------------------------------
(* The requests of the calls find the tensor as they expect it. *)

Tensors == \A s \in Servers : ServerOK(s)

\* While a client is at a call nobody is at a later one.
LEMMA AtCall ==
    ASSUME CInv, NEW c \in Clients, StepAt(client[c].at) \in Calls
    PROVE  /\ client[c].at \in CallPlaces /\ client[c].at \in Nat
           /\ \A d \in Clients, k \in CallPlaces : k <= client[d].at => k <= client[c].at
           /\ \A s \in Servers, k \in CallPlaces : SomeHandled(s, k) => k <= client[c].at
<1> DEFINE p == client[c].at
<1>1. p \in Nat /\ p \in CallPlaces
  BY ClientTypes, PlacesType DEF CInv
<1>2. StepAt(p + 1) = "barrier"
  BY <1>1, Around DEF Calls
<1>3. ASSUME NEW d \in Clients, NEW k \in CallPlaces, k <= client[d].at PROVE k <= p
  <2>1. client[d].at <= p + 1 /\ client[d].at \in Nat /\ k \in Nat
    BY <1>2, Ahead, ClientTypes, PlacesType DEF CInv
  <2>2. k # p + 1
    BY <1>2, PlacesType DEF Calls
  <2> QED BY <1>1, <1>3, <2>1, <2>2
<1>4. ASSUME NEW s \in Servers, NEW k \in CallPlaces, SomeHandled(s, k) PROVE k <= p
  <2>1. PICK d \in Clients : client[d].at > k \/ client[d].at = k
    BY <1>4 DEF SomeHandled, Handled
  <2>2. k <= client[d].at
    BY <2>1, ClientTypes, PlacesType DEF CInv
  <2> QED BY <1>3, <2>2
<1> QED BY <1>1, <1>3, <1>4

\* What a client has left behind has been handled by all servers it is for.
LEMMA HandledBefore ==
    ASSUME CInv, NEW c \in Clients, NEW i \in CallPlaces, client[c].at > i + 1, NEW s \in Servers,
           StepAt(i) = "map" => is_backup_server(s)
    PROVE  SomeHandled(s, i)
<1>1. i \in Nat /\ StepAt(i) \in Calls /\ client[c].at \in Nat /\ CInv
  BY PlacesType, ClientTypes DEF CInv
<1>2. StepAt(i + 1) = "barrier"
  BY <1>1, Around DEF Calls
<1>3. PICK d \in Clients : machine_id[d] = MachineOf(s)
  BY MachineType, ProgramAssumption
<1>4. client[d].at >= i + 1 /\ client[d].at \in Nat
  BY <1>1, <1>2, Behind, ClientTypes DEF CInv
<1>5. s \in Targets(d, StepAt(i))
  <2>1. s \in MyGroup(d)
    BY <1>3 DEF MyGroup, Group
  <2>2. CASE StepAt(i) = "init"
    BY <2>1, <2>2 DEF Targets
  <2>3. CASE StepAt(i) = "map"
    BY <2>1, <2>3 DEF Targets
  <2>4. CASE StepAt(i) = "register"
    BY <2>4 DEF Targets
  <2>5. CASE StepAt(i) = "delete"
    BY <2>1, <2>5 DEF Targets
  <2> QED BY <1>1, <2>2, <2>3, <2>4, <2>5 DEF Calls
<1>6. client[d].at > i
  BY <1>1, <1>4
<1> QED BY <1>5, <1>6 DEF SomeHandled, Handled

\* A server that is handling the request of a call.
Handling(s, c, kind) ==
    /\ TakenOne(c, s) /\ SamePlace /\ Types'
    /\ StepAt(client[c].at) = kind /\ req[c][s][1].kind = kind
    /\ s \in Targets(c, kind)
    /\ \A t \in Servers : t # s => server'[t] = server[t]

\* Handling it is the one thing that changes; other servers are steady.
LEMMA HandlingSome ==
    ASSUME CInv, NEW c \in Clients, NEW s \in Servers, NEW kind \in Calls, Handling(s, c, kind)
    PROVE  /\ client[c].at \in Places(kind) /\ client[c].at \in Nat
           /\ \A d \in Clients : client'[d].at = client[d].at /\ client[d].at \in Nat
           /\ \A i \in CallPlaces : SomeHandled(s, i)' <=> SomeHandled(s, i) \/ i = client[c].at
           /\ \A t \in Servers : t # s => Steady(t)
           /\ \A step \in Calls, i \in Nat : Reached(step, i)' <=> Reached(step, i)
<1>1. /\ TakenOne(c, s) /\ SamePlace /\ kind # "push" /\ StepAt(client[c].at) = kind
      /\ req[c][s][1].kind # "push" /\ s \in Targets(c, StepAt(client[c].at))
      /\ \A t \in Servers : t # s => server'[t] = server[t]
  BY DEF Handling, Calls
<1>2. \A d \in Clients : client'[d].at = client[d].at /\ client[d].at \in Nat
  BY <1>1, ClientTypes DEF SamePlace, CInv
<1>3. client[c].at \in Places(kind)
  BY <1>1, <1>2, PlacesType DEF Calls, Steps
<1>4. \A i \in CallPlaces : SomeHandled(s, i)' <=> SomeHandled(s, i) \/ i = client[c].at
  BY <1>1, TakenSome
<1>5. \A t \in Servers : t # s => Steady(t)
  BY <1>1, TakenOther DEF Steady
<1>6. \A step \in Calls, i \in Nat : Reached(step, i)' <=> Reached(step, i)
  BY <1>2 DEF Reached, Places
<1> QED BY <1>2, <1>3, <1>4, <1>5, <1>6

\* init_data.
LEMMA InitHandled ==
    ASSUME CInv, Tensors, NEW c \in Clients, NEW s \in Servers, Handling(s, c, "init"), InitEffect(s)
    PROVE  Tensors'
<1> DEFINE p == client[c].at
<1>1. /\ p \in Places("init") /\ p \in Nat /\ p \in CallPlaces /\ StepAt(p) = "init"
      /\ \A d \in Clients : client'[d].at = client[d].at /\ client[d].at \in Nat
      /\ \A i \in CallPlaces : SomeHandled(s, i)' <=> SomeHandled(s, i) \/ i = p
      /\ \A t \in Servers : t # s => Steady(t)
      /\ \A step \in Calls, i \in Nat : Reached(step, i)' <=> Reached(step, i)
  BY HandlingSome, AtCall DEF Calls, Handling
<1>2. \A k \in CallPlaces : SomeHandled(s, k) => k <= p
  BY <1>1, AtCall DEF Calls
<1>3. \A i \in Places("init") : i < p => \E k \in Places("delete") : i < k /\ k < p
  BY <1>1, ProgramAssumption DEF Created
<1>4. Types /\ Types' /\ ServerOK(s) /\ \A t \in Servers : ServerOK(t)
  BY DEF CInv, Tensors, Handling
<1>5. \A m \in Machines : mem[m].exists => mem'[m].exists
  BY DEF InitEffect
<1>6. ASSUME NEW t \in Servers, t # s PROVE ServerOK(t)'
  <2>1. Steady(t) /\ (mem[MachineOf(t)].exists => mem'[MachineOf(t)].exists)
    BY <1>1, <1>5, <1>6, MachineType
  <2> QED BY <1>4, <2>1, SteadyKeeps, SteadyInit DEF ServerOK
<1>7. ServerOK(s)'
  <2>1. CASE server[s].data
    <3>1. PICK i \in Places("init") :
            SomeHandled(s, i) /\ \A k \in Places("delete") : k > i => ~SomeHandled(s, k)
      BY <1>4, <2>1 DEF ServerOK, DataOK
    <3>2. i <= p /\ i \in Nat
      BY <1>2, <3>1, PlacesCalls DEF Calls
    <3>3. ~(i < p)
      <4> SUFFICES ASSUME i < p PROVE FALSE
        OBVIOUS
      <4>1. PICK k \in Places("delete") : i < k /\ k < p
        BY <1>3, <3>1
      <4>2. k \in CallPlaces /\ k \in Nat /\ StepAt(k) = "delete"
        BY PlacesCalls DEF Calls
      <4>3. p # k + 1
        BY <1>1, <4>2, Around
      <4>4. p > k + 1
        BY <1>1, <4>1, <4>2, <4>3
      <4>5. SomeHandled(s, k)
        BY <4>2, <4>4, HandledBefore
      <4> QED BY <3>1, <3>2, <4>1, <4>2, <4>5
    <3>4. i = p
      BY <1>1, <3>2, <3>3
    <3>5. SteadyHandled(s)
      BY <1>1, <3>1, <3>4 DEF SteadyHandled
    <3>6. Steady(s)
      BY <2>1, <3>5 DEF Steady, InitEffect
    <3> QED BY <1>4, <1>5, <3>6, MachineType, SteadyKeeps, SteadyInit DEF ServerOK
  <2>2. CASE ~server[s].data
    <3>1. /\ server'[s].policy /\ server'[s].handler = Default
          /\ server'[s].data = ~is_backup_server(s)
          /\ ~is_backup_server(s) => mem'[MachineOf(s)].exists
      BY <2>2 DEF InitEffect
    <3>2. InitOK(s)'
      <4>1. server'[s].handler >= Default
        BY <3>1 DEF Default
      <4> QED BY <3>1, <4>1 DEF InitOK, Places, MachineOf, is_backup_server
    <3>3. MapOK(s)'
      <4> SUFFICES ASSUME NEW i \in Places("map"), SomeHandled(s, i)', ~Reached("delete", i)'
                   PROVE  FALSE
        BY DEF MapOK, Places
      <4>1. i \in CallPlaces /\ i \in Nat /\ StepAt(i) = "map" /\ "delete" \in Calls
        BY PlacesCalls DEF Calls
      <4>2. SomeHandled(s, i) /\ ~Reached("delete", i)
        BY <1>1, <4>1
      <4> QED BY <1>4, <2>2, <4>2 DEF ServerOK, MapOK
    <3>4. RegisterOK(s)'
      <4> SUFFICES ASSUME NEW j \in Places("register"), SomeHandled(s, j)', ~Reached("delete", j)'
                   PROVE  FALSE
        BY DEF RegisterOK, Places
      <4>1. j \in CallPlaces /\ j \in Nat /\ StepAt(j) = "register" /\ "delete" \in Calls
        BY PlacesCalls DEF Calls
      <4>2. SomeHandled(s, j) /\ ~Reached("delete", j)
        BY <1>1, <4>1
      <4>3. j < p
        BY <1>1, <1>2, <4>1, <4>2
      <4>4. PICK i \in Places("init") :
              i < j /\ \A k \in Places("delete") : ~(i < k /\ k < j)
        BY ProgramAssumption DEF Created
      <4>5. i \in Nat
        BY PlacesCalls DEF Calls
      <4>6. PICK k \in Places("delete") : i < k /\ k < p
        BY <1>1, <1>3, <4>1, <4>3, <4>4, <4>5
      <4>7. k \in Nat /\ k # j
        BY <4>1, PlacesCalls DEF Calls
      <4>8. j < k /\ k <= client[c].at
        BY <1>1, <4>1, <4>4, <4>6, <4>7
      <4> QED BY <4>2, <4>8 DEF Reached
    <3>5. DataOK(s)'
      <4>1. PICK q \in Places("init") : q = p
        BY <1>1
      <4>2. SomeHandled(s, q)'
        BY <1>1, <4>1
      <4>3. ASSUME NEW k \in Places("delete"), k > q, SomeHandled(s, k)' PROVE FALSE
        <5>1. k \in CallPlaces /\ k \in Nat
          BY PlacesCalls DEF Calls
        <5>2. k # p
          BY <1>1, <4>1, <4>3, <5>1
        <5> QED BY <1>1, <1>2, <4>1, <4>3, <5>1, <5>2
      <4> QED BY <4>2, <4>3 DEF DataOK, Places
    <3> QED BY <3>2, <3>3, <3>4, <3>5 DEF ServerOK
  <2> QED BY <2>1, <2>2
<1> QED BY <1>6, <1>7 DEF Tensors

\* send_meta_to_backup finds the tensor at the main server, with the default handler.
LEMMA MapFinds ==
    ASSUME CInv, Tensors, NEW c \in Clients, NEW s \in Servers,
           StepAt(client[c].at) = "map", s \in Targets(c, "map")
    PROVE  \E i \in Places("init") :
             /\ SomeHandled(s, i) /\ ~Reached("delete", i)
             /\ \A k \in Places("delete") : k > i => k > client[c].at
             /\ server[s].policy /\ server[s].handler = Default
             /\ mem[MachineOf(s)].exists
<1> DEFINE p == client[c].at
           i == client[c].at - 2
<1>1. p \in Nat /\ p \in CallPlaces
      /\ \A d \in Clients, k \in CallPlaces : k <= client[d].at => k <= p
  BY AtCall DEF Calls
<1>2. /\ p >= 3 /\ StepAt(p - 2) = "init" /\ StepAt(p - 1) = "barrier" /\ StepAt(p) = "map"
  BY <1>1, Around
<1>3. i \in Nat /\ i \in Places("init") /\ i + 2 = p /\ i + 1 = p - 1 /\ StepAt(i) = "init"
  BY <1>1, <1>2, PlacesType DEF Steps
<1> HIDE DEF i
<1>4. s \in MyGroup(c) /\ MachineOf(s) = machine_id[c]
  BY DEF Targets, MyGroup, Group
<1>5. ASSUME NEW t \in MyGroup(c) PROVE SomeHandled(t, i)
  <2>1. t \in Targets(c, "init")
    BY DEF Targets
  <2>2. client[c].at > i
    BY <1>1, <1>3
  <2> QED BY <1>3, <2>1, <2>2 DEF SomeHandled, Handled
<1>6. ASSUME NEW step \in {"delete", "register"}, NEW k \in Places(step), k > i PROVE k > p
  <2>1. k \in Nat /\ StepAt(k) = step /\ step \in Calls
    BY PlacesCalls DEF Calls
  <2>2. k # p - 1 /\ k # p
    BY <1>2, <2>1
  <2> QED BY <1>1, <1>3, <1>6, <2>1, <2>2
<1>7. ASSUME NEW step \in {"delete", "register"} PROVE ~Reached(step, i)
  <2> SUFFICES ASSUME NEW d \in Clients, NEW k \in Places(step), i < k, k <= client[d].at
               PROVE  FALSE
    BY DEF Reached
  <2>1. k \in CallPlaces /\ k \in Nat
    BY PlacesCalls DEF Calls
  <2>2. k > p
    BY <1>3, <1>6, <2>1
  <2> QED BY <1>1, <2>1, <2>2
<1>8. server[s].policy /\ server[s].handler = Default
  BY <1>3, <1>4, <1>5, <1>7 DEF Tensors, ServerOK, InitOK
<1>9. mem[MachineOf(s)].exists
  <2>1. PICK t \in Servers : MachineOf(t) = MachineOf(s) /\ ~is_backup_server(t)
    BY MachineType, MainServer
  <2>2. t \in MyGroup(c)
    BY <1>4, <2>1 DEF MyGroup, Group
  <2> QED BY <1>3, <1>5, <1>7, <2>1, <2>2 DEF Tensors, ServerOK, InitOK
<1>10. SomeHandled(s, i)
  BY <1>4, <1>5
<1> QED BY <1>3, <1>6, <1>7, <1>8, <1>9, <1>10

\* The backup server has mapped the memory, with the handler it had.
LEMMA MapHandled ==
    ASSUME CInv, Tensors, NEW c \in Clients, NEW s \in Servers, NEW r \in Req,
           Handling(s, c, "map"), MapEffect(s, r), r.handler = Default, mem' = mem
    PROVE  Tensors'
<1> DEFINE p == client[c].at
<1>1. /\ p \in Places("map") /\ p \in Nat /\ p \in CallPlaces /\ StepAt(p) = "map"
      /\ \A i \in CallPlaces : SomeHandled(s, i)' <=> SomeHandled(s, i) \/ i = p
      /\ \A t \in Servers : t # s => Steady(t)
      /\ \A step \in Calls, i \in Nat : Reached(step, i)' <=> Reached(step, i)
      /\ s \in Targets(c, "map")
  BY HandlingSome, AtCall DEF Calls, Handling
<1>2. \A k \in CallPlaces : SomeHandled(s, k) => k <= p
  BY <1>1, AtCall DEF Calls
<1>3. Types /\ Types' /\ ServerOK(s) /\ \A t \in Servers : ServerOK(t)
  BY DEF CInv, Tensors, Handling
<1>4. PICK i \in Places("init") :
        /\ SomeHandled(s, i) /\ ~Reached("delete", i)
        /\ \A k \in Places("delete") : k > i => k > p
        /\ server[s].policy /\ server[s].handler = Default
        /\ mem[MachineOf(s)].exists
  BY <1>1, MapFinds
<1>5. server'[s].data /\ server'[s].policy /\ server'[s].handler = Default
  BY DEF MapEffect
<1>6. ASSUME NEW t \in Servers, t # s PROVE ServerOK(t)'
  <2>1. Steady(t) /\ (mem[MachineOf(t)].exists => mem'[MachineOf(t)].exists)
    BY <1>1, <1>6
  <2> QED BY <1>3, <2>1, SteadyKeeps, SteadyInit DEF ServerOK
<1>7. InitOK(s)'
  <2>1. server'[s].handler >= Default
    BY <1>5 DEF Default
  <2> QED BY <1>4, <1>5, <2>1 DEF InitOK, Places, MachineOf, is_backup_server
<1>8. MapOK(s)'
  BY <1>5 DEF MapOK, Places
<1>9. RegisterOK(s)'
  <2> SUFFICES ASSUME NEW j \in Places("register"), SomeHandled(s, j)', ~Reached("delete", j)'
               PROVE  FALSE
    BY DEF RegisterOK, Places
  <2>1. j \in CallPlaces /\ j \in Nat /\ StepAt(j) = "register" /\ "delete" \in Calls
    BY PlacesCalls DEF Calls
  <2>2. SomeHandled(s, j) /\ ~Reached("delete", j)
    BY <1>1, <2>1
  <2>3. server[s].handler = Added
    BY <1>3, <2>2 DEF ServerOK, RegisterOK
  <2> QED BY <1>4, <2>3 DEF Default, Added
<1>10. DataOK(s)'
  <2>1. i \in CallPlaces
    BY PlacesCalls DEF Calls
  <2>2. SomeHandled(s, i)'
    BY <1>1, <1>4, <2>1
  <2>3. ASSUME NEW k \in Places("delete"), k > i, SomeHandled(s, k)' PROVE FALSE
    <3>1. k \in CallPlaces /\ k \in Nat /\ k > p
      BY <1>4, <2>3, PlacesCalls DEF Calls
    <3>2. k # p
      BY <1>1, <3>1
    <3> QED BY <1>1, <1>2, <2>3, <3>1, <3>2
  <2> QED BY <2>2, <2>3 DEF DataOK, Places
<1>11. ServerOK(s)'
  BY <1>7, <1>8, <1>9, <1>10 DEF ServerOK
<1> QED BY <1>6, <1>11 DEF Tensors

\* register_push_handler.
LEMMA RegisterHandled ==
    ASSUME CInv, Tensors, NEW c \in Clients, NEW s \in Servers,
           Handling(s, c, "register"), RegisterEffect(s), mem' = mem
    PROVE  Tensors'
<1> DEFINE p == client[c].at
<1>1. /\ p \in Places("register") /\ p \in Nat /\ p \in CallPlaces /\ StepAt(p) = "register"
      /\ \A i \in CallPlaces : SomeHandled(s, i)' <=> SomeHandled(s, i) \/ i = p
      /\ \A t \in Servers : t # s => Steady(t)
      /\ \A step \in Calls, i \in Nat : Reached(step, i)' <=> Reached(step, i)
  BY HandlingSome, AtCall DEF Calls, Handling
<1>2. \A k \in CallPlaces : SomeHandled(s, k) => k <= p
  BY <1>1, AtCall DEF Calls
<1>3. Types /\ Types' /\ ServerOK(s) /\ \A t \in Servers : ServerOK(t)
  BY DEF CInv, Tensors, Handling
<1>4. /\ server'[s].data = server[s].data /\ server'[s].policy = server[s].policy
      /\ server'[s].handler = Added
  BY DEF RegisterEffect
<1>5. ASSUME NEW t \in Servers, t # s PROVE ServerOK(t)'
  <2>1. Steady(t) /\ (mem[MachineOf(t)].exists => mem'[MachineOf(t)].exists)
    BY <1>1, <1>5
  <2> QED BY <1>3, <2>1, SteadyKeeps, SteadyInit DEF ServerOK
<1>6. ASSUME NEW step \in {"init", "map", "delete"}, NEW i \in Places(step)
      PROVE  /\ SomeHandled(s, i)' <=> SomeHandled(s, i)
             /\ Reached("delete", i)' <=> Reached("delete", i)
             /\ i \in Nat /\ i \in CallPlaces /\ i # p
  <2>1. i \in Nat /\ i \in CallPlaces /\ StepAt(i) = step /\ "delete" \in Calls
    BY PlacesCalls DEF Calls
  <2>2. i # p
    BY <1>1, <2>1
  <2> QED BY <1>1, <2>1, <2>2
<1>7. InitOK(s)'
  <2> SUFFICES ASSUME NEW i \in Places("init"), SomeHandled(s, i)', ~Reached("delete", i)'
               PROVE  /\ server'[s].policy /\ server'[s].handler >= Default
                      /\ ~is_backup_server(s) => server'[s].data /\ mem'[MachineOf(s)].exists
                      /\ ~Reached("register", i)' => server'[s].handler = Default
    BY DEF InitOK, Places, MachineOf, is_backup_server
  <2>1. SomeHandled(s, i) /\ ~Reached("delete", i) /\ i \in Nat
    BY <1>6
  <2>2. /\ server[s].policy
        /\ ~is_backup_server(s) => server[s].data /\ mem[MachineOf(s)].exists
    BY <1>3, <2>1 DEF ServerOK, InitOK
  <2>3. i < p
    BY <1>1, <1>2, <1>6, <2>1
  <2>4. Reached("register", i)
    BY <1>1, <2>3 DEF Reached
  <2>5. Reached("register", i)'
    BY <1>1, <2>1, <2>4 DEF Calls
  <2>6. server'[s].handler >= Default
    BY <1>4 DEF Added, Default
  <2> QED BY <1>4, <2>2, <2>5, <2>6
<1>8. MapOK(s)'
  BY <1>3, <1>4, <1>6 DEF ServerOK, MapOK, Places
<1>9. RegisterOK(s)'
  BY <1>4 DEF RegisterOK, Places
<1>10. DataOK(s)'
  BY <1>3, <1>4, <1>6 DEF ServerOK, DataOK, Places
<1>11. ServerOK(s)'
  BY <1>7, <1>8, <1>9, <1>10 DEF ServerOK
<1> QED BY <1>5, <1>11 DEF Tensors

\* delete_data.
LEMMA DeleteHandled ==
    ASSUME CInv, Tensors, NEW c \in Clients, NEW s \in Servers,
           Handling(s, c, "delete"), DeleteEffect(s)
    PROVE  Tensors'
<1> DEFINE p == client[c].at
<1>1. /\ p \in Places("delete") /\ p \in Nat /\ p \in CallPlaces /\ StepAt(p) = "delete"
      /\ \A i \in CallPlaces : SomeHandled(s, i)' <=> SomeHandled(s, i) \/ i = p
      /\ \A t \in Servers : t # s => Steady(t)
      /\ \A step \in Calls, i \in Nat : Reached(step, i)' <=> Reached(step, i)
  BY HandlingSome, AtCall DEF Calls, Handling
<1>2. \A t \in Servers : \A k \in CallPlaces : SomeHandled(t, k) => k <= p
  BY <1>1, AtCall DEF Calls
<1>3. Types /\ Types' /\ \A t \in Servers : ServerOK(t)
  BY DEF CInv, Tensors, Handling
<1>4. ASSUME NEW t \in Servers, NEW step \in {"init", "map", "register"}, NEW i \in Places(step),
             SomeHandled(t, i)'
      PROVE  Reached("delete", i)'
  <2>1. i \in Nat /\ i \in CallPlaces /\ StepAt(i) = step /\ step \in Calls /\ "delete" \in Calls
    BY PlacesCalls DEF Calls
  <2>2. i # p
    BY <1>1, <2>1
  <2>3. SomeHandled(t, i)
    <3>1. CASE t = s
      BY <1>1, <1>4, <2>1, <2>2, <3>1
    <3>2. CASE t # s
      BY <1>1, <1>4, <2>1, <3>2 DEF Steady, SteadyHandled
    <3> QED BY <3>1, <3>2
  <2>4. i < p
    BY <1>1, <1>2, <2>1, <2>2, <2>3
  <2>5. Reached("delete", i)
    BY <1>1, <2>4 DEF Reached
  <2> QED BY <1>1, <2>1, <2>5
<1>5. ASSUME NEW t \in Servers PROVE InitOK(t)' /\ MapOK(t)' /\ RegisterOK(t)'
  BY <1>4 DEF InitOK, MapOK, RegisterOK, Places
<1>6. ASSUME NEW t \in Servers, t # s PROVE DataOK(t)'
  BY <1>1, <1>3, <1>6, SteadyKeeps DEF ServerOK
<1>7. DataOK(s)'
  BY DEF DataOK, DeleteEffect
<1> QED BY <1>5, <1>6, <1>7 DEF Tensors, ServerOK

-----------------------------------------------------------------------------
(* The push handlers that pushes are sent with. *)

\* A push sent at p with this handler was sent after its call, and before the
\* next unmap.
SentWith(p, h) ==
    /\ h = Added => \E j \in Places("register") :
         j < p /\ \A u \in Places("unmap") : ~(j < u /\ u <= p)
    /\ h = Default => \E j \in Places("map") :
         j <= p /\ \A u \in Places("unmap") : ~(j < u /\ u <= p)

ClientsOK == \A c \in Clients : SentWith(client[c].at, client[c].handler)

RequestOK(r) ==
    /\ r.kind = "push" => SentWith(r.at, r.handler)
    /\ r.kind = "map" => r.handler = Default

Requests ==
    \A c \in Clients, s \in Servers : \A i \in 1..Len(req[c][s]) : RequestOK(req[c][s][i])

\* The push a server is in the middle of.
BusyOK(s) ==
    server[s].busy # Idle =>
        /\ StepAt(server[s].busy.at) = "work"
        /\ SentWith(server[s].busy.at, server[s].busy.handler)
        /\ \E c \in Clients : server[s].busy.at <= client[c].at

\* The request a server died of.
DeathOK(s) ==
    server[s].died # Idle =>
        /\ server[s].died.kind = "push" /\ s # 0 /\ StepAt(server[s].died.at) = "work"
        /\ Reached("delete", server[s].died.at)

SInv ==
    /\ CInv /\ Tensors /\ ClientsOK /\ Requests
    /\ \A s \in Servers : BusyOK(s) /\ DeathOK(s)

\* The handler that a client has when it goes to its next step.
LEMMA AdvanceHandler ==
    ASSUME CInv, NEW c \in Clients, Advance(c), SentWith(client[c].at, client[c].handler)
    PROVE  /\ SentWith(client[c].at, client[c].handler)'
           /\ RequestOK(AdvanceRequest(c))
<1> DEFINE p == client[c].at
           h == client'[c].handler
<1>1. Types /\ p \in Nat /\ client'[c].at = p + 1
      /\ h = IF Step(c) = "register" THEN Added
             ELSE IF StepAt(p + 1) = "map" THEN Default
             ELSE IF StepAt(p + 1) = "unmap" THEN NoHandler
             ELSE client[c].handler
  BY AdvanceEffect, ClientTypes DEF CInv
<1>2. p + 1 \in Nat /\ StepAt(p) = Step(c)
  BY <1>1 DEF Step
<1>3. StepAt(p) = "register" => StepAt(p + 1) = "barrier"
  BY <1>1, Around
<1>4. ASSUME NEW u \in Places("unmap") PROVE u \in Nat /\ StepAt(u) = "unmap"
  BY PlacesType DEF Steps
<1>5. SentWith(p + 1, h)
  <2>1. CASE Step(c) = "register"
    <3>1. h = Added /\ p \in Places("register")
      BY <1>1, <1>2, <2>1, PlacesType DEF Steps
    <3>2. ASSUME NEW u \in Places("unmap") PROVE ~(p < u /\ u <= p + 1)
      <4>1. u # p + 1
        BY <1>2, <1>3, <1>4, <2>1
      <4> QED BY <1>1, <1>4, <4>1
    <3> QED BY <1>1, <3>1, <3>2 DEF SentWith, Added, Default
  <2>2. CASE Step(c) # "register" /\ StepAt(p + 1) = "map"
    <3>1. h = Default /\ p + 1 \in Places("map")
      BY <1>1, <1>2, <2>2, PlacesType DEF Steps
    <3>2. p + 1 <= p + 1 /\ \A u \in Places("unmap") : ~(p + 1 < u /\ u <= p + 1)
      BY <1>1, <1>4
    <3> QED BY <3>1, <3>2 DEF SentWith, Added, Default
  <2>3. CASE Step(c) # "register" /\ StepAt(p + 1) # "map" /\ StepAt(p + 1) = "unmap"
    BY <1>1, <2>3 DEF SentWith, NoHandler, Added, Default
  <2>4. CASE Step(c) # "register" /\ StepAt(p + 1) # "map" /\ StepAt(p + 1) # "unmap"
    <3>1. h = client[c].handler
      BY <1>1, <2>4
    <3>2. ASSUME NEW j \in Nat, j <= p, \A u \in Places("unmap") : ~(j < u /\ u <= p)
          PROVE  j < p + 1 /\ \A u \in Places("unmap") : ~(j < u /\ u <= p + 1)
      <4>1. ASSUME NEW u \in Places("unmap"), u <= p + 1 PROVE u <= p
        BY <1>1, <1>4, <2>4, <4>1
      <4> QED BY <1>1, <3>2, <4>1
    <3>3. ASSUME h = Added
          PROVE  \E j \in Places("register") :
                   j < p + 1 /\ \A u \in Places("unmap") : ~(j < u /\ u <= p + 1)
      <4>1. PICK j \in Places("register") : j < p /\ \A u \in Places("unmap") : ~(j < u /\ u <= p)
        BY <3>1, <3>3 DEF SentWith
      <4>2. j \in Nat /\ j <= p
        BY <1>1, <4>1, PlacesType DEF Steps
      <4> QED BY <3>2, <4>1, <4>2
    <3>4. ASSUME h = Default
          PROVE  \E j \in Places("map") :
                   j <= p + 1 /\ \A u \in Places("unmap") : ~(j < u /\ u <= p + 1)
      <4>1. PICK j \in Places("map") : j <= p /\ \A u \in Places("unmap") : ~(j < u /\ u <= p)
        BY <3>1, <3>4 DEF SentWith
      <4>2. j \in Nat /\ j <= p + 1
        BY <1>1, <4>1, PlacesType DEF Steps
      <4> QED BY <3>2, <4>1, <4>2
    <3> QED BY <3>3, <3>4 DEF SentWith
  <2> QED BY <2>1, <2>2, <2>3, <2>4
<1>6. RequestOK(AdvanceRequest(c))
  <2>1. AdvanceRequest(c).kind = StepAt(p + 1) /\ AdvanceRequest(c).handler = h
    BY DEF AdvanceRequest
  <2>2. StepAt(p + 1) # "push"
    BY <1>2, StepAtType DEF Steps
  <2>3. StepAt(p + 1) = "map" => h = Default
    BY <1>1, <1>2, <1>3
  <2> QED BY <2>1, <2>2, <2>3 DEF RequestOK
<1> QED BY <1>1, <1>5, <1>6 DEF SentWith, Places

\* All requests but a new one were there before.
LEMMA SendRequests ==
    ASSUME Types, Requests, NEW c \in Clients, NEW servers \in SUBSET Servers, NEW r,
           SentOne(c, servers, r), RequestOK(r)
    PROVE  Requests'
<1> SUFFICES ASSUME NEW d \in Clients, NEW s \in Servers, NEW i \in 1..Len(req'[d][s])
             PROVE  RequestOK(req'[d][s][i])
  BY DEF Requests, RequestOK, SentWith, Places
<1>1. CASE ~(d = c /\ s \in servers)
  <2>1. req'[d][s] = req[d][s]
    BY <1>1 DEF SentOne
  <2> QED BY <2>1 DEF Requests
<1>2. CASE d = c /\ s \in servers
  <2>1. /\ Len(req'[c][s]) = Len(req[c][s]) + 1 /\ Len(req[c][s]) \in Nat
        /\ \A j \in 1..Len(req[c][s]) : req'[c][s][j] = req[c][s][j]
        /\ req'[c][s][Len(req[c][s]) + 1] = r
    BY <1>2, SentTypes DEF SentOne
  <2>2. CASE i = Len(req[c][s]) + 1
    BY <1>2, <2>1, <2>2
  <2>3. CASE i # Len(req[c][s]) + 1
    <3>1. i \in 1..Len(req[c][s])
      BY <1>2, <2>1, <2>3
    <3> QED BY <1>2, <2>1, <3>1 DEF Requests
  <2> QED BY <2>2, <2>3
<1> QED BY <1>1, <1>2

\* Taking a request leaves the others, and the one taken was one of them.
LEMMA TakeRequests ==
    ASSUME Types, Requests, NEW c \in Clients, NEW s \in Servers, TakenOne(c, s)
    PROVE  Requests' /\ RequestOK(req[c][s][1])
<1>1. /\ Len(req[c][s]) \in Nat /\ Len(req[c][s]) >= 1
      /\ Len(req'[c][s]) = Len(req[c][s]) - 1
      /\ \A i \in 1..Len(req'[c][s]) : req'[c][s][i] = req[c][s][i + 1]
  BY SentTypes DEF TakenOne
<1>2. RequestOK(req[c][s][1])
  <2>1. 1 \in 1..Len(req[c][s])
    BY <1>1
  <2> QED BY <2>1 DEF Requests
<1>3. ASSUME NEW d \in Clients, NEW t \in Servers, NEW i \in 1..Len(req'[d][t])
      PROVE  RequestOK(req'[d][t][i])
  <2>1. CASE ~(d = c /\ t = s)
    <3>1. req'[d][t] = req[d][t]
      BY <2>1 DEF TakenOne
    <3> QED BY <3>1 DEF Requests
  <2>2. CASE d = c /\ t = s
    <3>1. i + 1 \in 1..Len(req[c][s])
      BY <1>1, <2>2
    <3> QED BY <1>1, <2>2, <3>1 DEF Requests
  <2> QED BY <2>1, <2>2
<1> QED BY <1>2, <1>3 DEF Requests, RequestOK, SentWith, Places

-----------------------------------------------------------------------------
(* What a push or a pull finds. *)

\* Between the calls that make a tensor and delete it every server has it.
LEMMA WorkFinds ==
    ASSUME CInv, Tensors, NEW c \in Clients, NEW p \in Places("work"), p <= client[c].at,
           ~Reached("delete", p), NEW s \in Servers
    PROVE  server[s].policy /\ server[s].data
<1>1. p \in Nat /\ StepAt(p) = "work" /\ client[c].at \in Nat
  BY PlacesType, ClientTypes DEF Steps, CInv
<1>2. PICK i \in Places("init") : i < p /\ \A k \in Places("delete") : ~(i < k /\ k < p)
  BY ProgramAssumption DEF Created
<1>3. i \in Nat /\ i \in CallPlaces /\ StepAt(i) = "init"
  BY PlacesCalls DEF Calls
<1>4. StepAt(i + 1) = "barrier" /\ StepAt(i + 2) = "map" /\ StepAt(i + 3) = "barrier"
  BY <1>3, Around
<1>5. p # i + 1 /\ p # i + 2 /\ p # i + 3
  BY <1>1, <1>4
<1>6. client[c].at > i + 3
  BY <1>1, <1>2, <1>3, <1>5
<1>7. i + 2 \in Places("map") /\ i + 2 \in CallPlaces
  BY <1>3, <1>4, PlacesType DEF Steps, Calls
<1>8. ASSUME NEW d \in Clients, NEW k \in Places("delete"), i < k, k <= client[d].at PROVE FALSE
  <2>1. k \in Nat /\ StepAt(k) = "delete"
    BY PlacesCalls DEF Calls
  <2>2. k # p
    BY <1>1, <2>1
  <2>3. p < k
    BY <1>1, <1>2, <1>8, <2>1, <2>2
  <2> QED BY <1>8, <2>3 DEF Reached
<1>9. ~Reached("delete", i)
  BY <1>8 DEF Reached
<1>10. ~Reached("delete", i + 2)
  <2> SUFFICES ASSUME NEW d \in Clients, NEW k \in Places("delete"), i + 2 < k, k <= client[d].at
               PROVE  FALSE
    BY DEF Reached
  <2>1. k \in Nat
    BY PlacesCalls DEF Calls
  <2>2. i < k
    BY <1>3, <2>1
  <2> QED BY <1>8, <2>2
<1>11. SomeHandled(s, i)
  <2>1. client[c].at > i + 1
    BY <1>1, <1>3, <1>6
  <2>2. StepAt(i) # "map"
    BY <1>3
  <2> QED BY <1>3, <2>1, <2>2, HandledBefore
<1>12. server[s].policy /\ (~is_backup_server(s) => server[s].data)
  BY <1>9, <1>11 DEF Tensors, ServerOK, InitOK
<1>13. CASE is_backup_server(s)
  <2>1. client[c].at > (i + 2) + 1
    BY <1>1, <1>3, <1>6
  <2>2. SomeHandled(s, i + 2)
    BY <1>7, <1>13, <2>1, HandledBefore
  <2>3. server[s].data
    BY <1>7, <1>10, <2>2 DEF Tensors, ServerOK, MapOK
  <2> QED BY <1>12, <2>3
<1>14. CASE ~is_backup_server(s)
  BY <1>12, <1>14
<1> QED BY <1>13, <1>14

\* A delete_data is reached after a barrier that comes after the work before it.
LEMMA DeleteBarrier ==
    ASSUME CInv, NEW p \in Places("work"), Reached("delete", p), NEW c \in Clients
    PROVE  \E b \in Places("barrier") : p < b /\ Passed(c, b)
<1>1. PICK d \in Clients, k \in Places("delete") : p < k /\ k <= client[d].at
  BY DEF Reached
<1>2. /\ p \in Nat /\ p >= 1 /\ StepAt(p) = "work" /\ k \in Nat /\ StepAt(k) = "delete"
      /\ client[d].at \in Nat
  BY PlacesType, ClientTypes DEF Steps, CInv
<1>3. StepAt(k - 1) = "barrier" /\ k - 1 \in Nat
  BY <1>1, <1>2, Around
<1>4. k - 1 \in Places("barrier")
  BY <1>3, PlacesType DEF Steps
<1>5. p # k - 1
  BY <1>2, <1>3
<1>6. p < k - 1 /\ client[d].at > k - 1
  BY <1>1, <1>2, <1>5
<1>7. Passed(c, k - 1)
  BY <1>4, <1>6 DEF CInv, Together, Passed
<1> QED BY <1>4, <1>6, <1>7

\* A client that is still at work waits with the others before the delete_data.
LEMMA AtWork ==
    ASSUME CInv, NEW c \in Clients, Step(c) = "work"
    PROVE  client[c].at \in Places("work") /\ ~Reached("delete", client[c].at)
<1>1. client[c].at \in Nat
  BY ClientTypes DEF CInv
<1>2. client[c].at \in Places("work")
  BY <1>1, PlacesType DEF Step, Steps
<1>3. ASSUME Reached("delete", client[c].at) PROVE FALSE
  <2>1. PICK b \in Places("barrier") : client[c].at < b /\ Passed(c, b)
    BY <1>2, <1>3, DeleteBarrier
  <2>2. b \in Nat
    BY PlacesType DEF Steps
  <2> QED BY <1>1, <2>1, <2>2 DEF Passed
<1> QED BY <1>2, <1>3

\* The first request to a server, when it is a push.
LEMMA PushAt ==
    ASSUME CInv, NEW c \in Clients, NEW s \in Servers, TakenOne(c, s), req[c][s][1].kind = "push"
    PROVE  /\ req[c][s][1].at \in Places("work") /\ req[c][s][1].at <= client[c].at
           /\ s = 0 => ~Reached("delete", req[c][s][1].at)
<1> DEFINE p == req[c][s][1].at
<1>1. Len(req[c][s]) \in Nat /\ Len(req[c][s]) >= 1 /\ 1 \in 1..Len(req[c][s])
  BY SentTypes DEF TakenOne, CInv
<1>2. p \in Nat /\ Fits(c, s, req[c][s][1])
  BY <1>1, SentTypes DEF CInv, Channels, ChannelOK
<1>3. p \in Places("work") /\ p <= client[c].at
  BY <1>2, PlacesType DEF Fits, Steps
<1>4. ASSUME s = 0, Reached("delete", p) PROVE FALSE
  <2>1. PICK b \in Places("barrier") : p < b /\ Passed(c, b)
    BY <1>3, <1>4, DeleteBarrier
  <2> QED BY <1>1, <1>4, <2>1 DEF CInv, Flushed, FlushedOf
<1> QED BY <1>3, <1>4

-----------------------------------------------------------------------------
(* Pushes in progress and deaths. *)

\* The types of what servers hold of a request.
LEMMA ServerTypes ==
    ASSUME Types, NEW s \in Servers
    PROVE  /\ server[s].busy # Idle => server[s].busy.at \in Nat
           /\ server[s].died # Idle => server[s].died.at \in Nat
           /\ server[s].handler \in Handlers
           /\ server[s].busy # Idle => server[s].busy.handler \in Handlers
<1>1. server[s] \in ServerState
  BY DEF Types
<1> QED BY <1>1 DEF ServerState, ServerPush, Req

\* A push in progress stays what it is until it is written.
LEMMA BusyStays ==
    ASSUME Types, Types', \A d \in Clients : client'[d].at >= client[d].at,
           NEW s \in Servers, BusyOK(s),
           server'[s].busy = server[s].busy \/ server'[s].busy = Idle
    PROVE  BusyOK(s)'
<1> SUFFICES ASSUME server'[s].busy # Idle
             PROVE  /\ StepAt(server'[s].busy.at) = "work"
                    /\ SentWith(server'[s].busy.at, server'[s].busy.handler)
                    /\ \E c \in Clients : server'[s].busy.at <= client'[c].at
  BY DEF BusyOK, StepAt, SentWith, Places
<1>1. server'[s].busy = server[s].busy /\ server[s].busy # Idle
  OBVIOUS
<1>2. PICK c \in Clients : server[s].busy.at <= client[c].at
  BY <1>1 DEF BusyOK
<1>3. server[s].busy.at \in Nat /\ client[c].at \in Nat /\ client'[c].at \in Nat
  <2>1. client'[c] \in ClientState
    BY DEF Types
  <2>2. client'[c].at \in Nat
    BY <2>1, PlacesType DEF ClientState
  <2> QED BY <1>1, <2>2, ServerTypes, ClientTypes
<1>4. server[s].busy.at <= client'[c].at
  BY <1>2, <1>3
<1> QED BY <1>1, <1>4 DEF BusyOK

\* A death stays explained: clients only go on.
LEMMA DeathStays ==
    ASSUME Types, Types', \A d \in Clients : client'[d].at >= client[d].at,
           NEW s \in Servers, DeathOK(s), server'[s].died = server[s].died
    PROVE  DeathOK(s)'
<1>1. CASE server[s].died = Idle
  BY <1>1 DEF DeathOK
<1>2. CASE server[s].died # Idle
  <2>1. /\ server[s].died.kind = "push" /\ s # 0 /\ StepAt(server[s].died.at) = "work"
        /\ Reached("delete", server[s].died.at) /\ server[s].died.at \in Nat
    BY <1>2, ServerTypes DEF DeathOK
  <2>2. PICK p \in Nat : p = server[s].died.at
    BY <2>1
  <2>3. Reached("delete", p)'
    BY <2>1, <2>2, ReachedStays DEF Calls
  <2>4. server'[s].died.at = p
    BY <2>2
  <2> QED BY <2>1, <2>3, <2>4 DEF DeathOK, Reached, StepAt
<1> QED BY <1>1, <1>2

-----------------------------------------------------------------------------
(* Every action keeps SInv. *)

\* SInv holds when a client goes to its next step.
LEMMA AdvanceSInv ==
    ASSUME SInv, NEW c \in Clients, Advance(c)
    PROVE  SInv'
<1>1. CInv /\ Types /\ Tensors /\ ClientsOK /\ Requests /\ \A s \in Servers : BusyOK(s) /\ DeathOK(s)
  BY DEF SInv, CInv
<1>2. CInv' /\ Types' /\ SentOne(c, Targets(c, StepAt(client[c].at + 1)), AdvanceRequest(c))
      /\ UNCHANGED <<server, mem>>
  BY <1>1, AdvanceKeeps, AdvanceSends DEF Advance
<1>3. ASSUME NEW t \in Servers PROVE Steady(t)
  BY <1>1, AdvanceSteady
<1>4. ASSUME NEW d \in Clients
      PROVE client'[d].at >= client[d].at /\ (d # c => client'[d] = client[d])
  <2>1. client[d].at \in Nat /\ client'[c].at = client[c].at + 1 /\ (d # c => client'[d] = client[d])
    BY <1>1, AdvanceEffect, ClientTypes
  <2> QED BY <2>1
<1>5. Tensors'
  BY <1>1, <1>2, <1>3, SteadyKeeps, SteadyInit DEF Tensors, ServerOK
<1>6. SentWith(client[c].at, client[c].handler)' /\ RequestOK(AdvanceRequest(c))
  BY <1>1, AdvanceHandler DEF ClientsOK
<1>7. ClientsOK'
  BY <1>1, <1>4, <1>6 DEF ClientsOK, SentWith, Places
<1>8. Requests'
  <2>1. Targets(c, StepAt(client[c].at + 1)) \in SUBSET Servers
    BY TargetsType
  <2> QED BY <1>1, <1>2, <1>6, <2>1, SendRequests
<1>9. ASSUME NEW s \in Servers PROVE BusyOK(s)' /\ DeathOK(s)'
  BY <1>1, <1>2, <1>4, BusyStays, DeathStays
<1> QED BY <1>2, <1>5, <1>7, <1>8, <1>9 DEF SInv

\* SInv holds when a client sends a push or a pull.
LEMMA WorkSInv ==
    ASSUME SInv, NEW c \in Clients, NEW servers \in SUBSET Servers, NEW kind \in {"push", "pull"},
           \/ kind = "push" /\ \E s \in Servers : servers = {s} /\ PushRemote(c, s)
           \/ kind = "pull" /\ Pull(c, servers)
    PROVE  SInv'
<1> DEFINE r == Request(c, kind)
<1>1. CInv /\ Types /\ Tensors /\ ClientsOK /\ Requests /\ \A s \in Servers : BusyOK(s) /\ DeathOK(s)
  BY DEF SInv, CInv
<1>2. Types' /\ WorkSend(c, servers, r) /\ r \in Req /\ UNCHANGED <<server, mem>>
  BY <1>1, WorkSends
<1>3. r.kind = kind /\ r.at = client[c].at /\ r.handler = client[c].handler
  BY DEF Request
<1> HIDE DEF r
<1>4. CInv'
  BY <1>1, <1>2, WorkSendKeeps
<1>5. ASSUME NEW t \in Servers PROVE Steady(t)
  BY <1>1, <1>2, WorkSteady DEF Steady
<1>6. ASSUME NEW d \in Clients
      PROVE client'[d].at = client[d].at /\ client'[d].handler = client[d].handler
            /\ client'[d].at >= client[d].at
  <2>1. client'[d].at = client[d].at /\ client'[d].handler = client[d].handler
    BY <1>1, WorkEffect
  <2> QED BY <1>1, <2>1, ClientTypes
<1>7. Tensors'
  BY <1>1, <1>2, <1>5, SteadyKeeps, SteadyInit DEF Tensors, ServerOK
<1>8. ClientsOK'
  BY <1>1, <1>6 DEF ClientsOK, SentWith, Places
<1>9. RequestOK(r)
  BY <1>1, <1>3 DEF RequestOK, ClientsOK
<1>10. Requests'
  BY <1>1, <1>2, <1>9, SendRequests DEF WorkSend
<1>11. ASSUME NEW s \in Servers PROVE BusyOK(s)' /\ DeathOK(s)'
  BY <1>1, <1>2, <1>6, BusyStays, DeathStays
<1> QED BY <1>4, <1>7, <1>8, <1>10, <1>11 DEF SInv

\* Steps that send nothing and leave the tensor as it is.
LEMMA SilentSInv ==
    ASSUME SInv, Types', Silent,
           \A d \in Clients : client'[d].handler = client[d].handler,
           \A m \in Machines : mem'[m].exists = mem[m].exists,
           \A s \in Servers :
             /\ server'[s].busy = server[s].busy \/ server'[s].busy = Idle
             /\ server'[s].died = server[s].died
             /\ server'[s].data = server[s].data /\ server'[s].policy = server[s].policy
             /\ server'[s].handler = server[s].handler
    PROVE  SInv'
<1>1. CInv /\ Types /\ Tensors /\ ClientsOK /\ Requests /\ \A s \in Servers : BusyOK(s) /\ DeathOK(s)
  BY DEF SInv, CInv
<1>2. CInv' /\ req' = req
  BY <1>1, SilentKeeps DEF Silent
<1>3. ASSUME NEW d \in Clients
      PROVE client'[d].at = client[d].at /\ client'[d].at >= client[d].at
  <2>1. client'[d].at = client[d].at
    BY DEF Silent
  <2> QED BY <1>1, <2>1, ClientTypes
<1>4. ASSUME NEW t \in Servers PROVE Steady(t) /\ mem'[MachineOf(t)].exists = mem[MachineOf(t)].exists
  BY <1>1, SilentSteady, MachineType DEF Steady
<1>5. Tensors'
  BY <1>1, <1>4, SteadyKeeps, SteadyInit DEF Tensors, ServerOK
<1>6. ClientsOK' /\ Requests'
  BY <1>1, <1>2, <1>3 DEF ClientsOK, Requests, RequestOK, SentWith, Places
<1>7. ASSUME NEW s \in Servers PROVE BusyOK(s)' /\ DeathOK(s)'
  BY <1>1, <1>3, BusyStays, DeathStays
<1> QED BY <1>2, <1>5, <1>6, <1>7 DEF SInv

\* Every request but an overtaken push finds what it needs; what a server then
\* does keeps the tensors, the pushes in progress, and the deaths.
LEMMA TakesTensors ==
    ASSUME SInv, NEW s \in Servers, NEW c \in Clients, NEW r \in Req, Takes(s, c, r), Types'
    PROVE  /\ Tensors' /\ SamePlace
           /\ \A d \in Clients : client'[d].handler = client[d].handler
           /\ \A t \in Servers : BusyOK(t)' /\ DeathOK(t)'
<1>1. /\ CInv /\ Types /\ Channels /\ Tensors /\ ClientsOK /\ Requests
      /\ \A t \in Servers : BusyOK(t) /\ DeathOK(t)
  BY DEF SInv, CInv
<1>2. /\ TakenOne(c, s) /\ r = req[c][s][1] /\ Handles(s, c, r) /\ RequestOK(r)
  BY <1>1, TakeRequests DEF Takes
<1>3. ASSUME NEW cs, AnsweredEffect(cs)
      PROVE  SamePlace /\ \A d \in Clients : client'[d].handler = client[d].handler
  BY <1>3 DEF SamePlace, AnsweredEffect
<1>4. ASSUME client' = client
      PROVE  SamePlace /\ \A d \in Clients : client'[d].handler = client[d].handler
  BY <1>4 DEF SamePlace
<1>5. ASSUME SamePlace PROVE \A d \in Clients : client'[d].at >= client[d].at
  BY <1>1, <1>5, ClientTypes DEF SamePlace
<1>6. ASSUME SamePlace, NEW t \in Servers,
             server'[t].busy = server[t].busy \/ server'[t].busy = Idle,
             server'[t].died = server[t].died
      PROVE  BusyOK(t)' /\ DeathOK(t)'
  BY <1>1, <1>5, <1>6, BusyStays, DeathStays
<1>7. r.kind # "push" => CallOut(c, s)
  BY <1>1, <1>2, CallTaken
<1>8. ASSUME r.kind \in Calls
      PROVE  StepAt(client[c].at) = r.kind /\ s \in Targets(c, r.kind)
  BY <1>2, <1>7, <1>8 DEF CallOut, Calls, Step
<1>9. ASSUME NEW kind \in Calls, r.kind = kind, ServerEffect(s), SamePlace
      PROVE  Handling(s, c, kind)
  BY <1>2, <1>8, <1>9 DEF Handling, ServerEffect
<1>10. ASSUME SamePlace, \A t \in Servers : server'[t].data = server[t].data
              /\ server'[t].policy = server[t].policy /\ server'[t].handler = server[t].handler,
              mem' = mem, r.kind \notin Calls
       PROVE  Tensors'
  <2>1. r.kind = "push" \/ client[c].at \notin CallPlaces
    <3> SUFFICES ASSUME r.kind # "push", client[c].at \in CallPlaces PROVE FALSE
      OBVIOUS
    <3>1. Step(c) \in Calls
      BY PlacesType DEF Step
    <3>2. (r.kind = "pull" /\ Step(c) = "work") \/ r.kind = Step(c)
      BY <1>2, <1>7 DEF CallOut
    <3> QED BY <1>10, <3>1, <3>2 DEF Calls
  <2>2. \A t \in Servers : Steady(t)
    BY <1>1, <1>2, <1>10, <2>1, TakenOther DEF Steady
  <2> QED BY <1>1, <1>10, <2>2, SteadyKeeps, SteadyInit DEF Tensors, ServerOK
<1>11. CASE BarrierRequest(s, c, r)
  <2>1. PICK cs : Answered(cs)
    BY <1>11 DEF BarrierRequest
  <2>2. UNCHANGED <<server, mem>> /\ r.kind = "barrier"
    BY <1>11 DEF BarrierRequest
  <2>3. SamePlace /\ \A d \in Clients : client'[d].handler = client[d].handler
    BY <1>1, <1>3, <2>1, AnsweredOne
  <2> QED BY <1>6, <1>10, <2>2, <2>3 DEF Calls
<1>12. CASE InitDataRequest(s, c, r)
  <2>1. InitEffect(s) /\ AnsweredEffect({c}) /\ r.kind = "init"
    BY <1>1, <1>12, InitRequest DEF InitDataRequest
  <2>2. SamePlace /\ \A d \in Clients : client'[d].handler = client[d].handler
    BY <1>3, <2>1
  <2>3. Handling(s, c, "init")
    BY <1>9, <2>1, <2>2 DEF InitEffect, Calls
  <2>4. \A t \in Servers : server'[t].busy = server[t].busy /\ server'[t].died = server[t].died
    BY <2>1 DEF InitEffect, ServerEffect
  <2> QED BY <1>1, <1>6, <2>1, <2>2, <2>3, <2>4, InitHandled
<1>13. CASE SendMetaToBackupRequest(s, c, r)
  <2>1. r.kind = "map" /\ r.handler = Default
    BY <1>2, <1>13 DEF SendMetaToBackupRequest, RequestOK
  <2>2. StepAt(client[c].at) = "map" /\ s \in Targets(c, "map")
    BY <1>8, <2>1 DEF Calls
  <2>3. server[s].handler = Default /\ mem[MachineOf(s)].exists
    BY <1>1, <2>2, MapFinds
  <2>4. MapEffect(s, r) /\ AnsweredEffect({c}) /\ UNCHANGED mem
    BY <1>1, <1>13, <2>1, <2>3, MapRequest
  <2>5. SamePlace /\ \A d \in Clients : client'[d].handler = client[d].handler
    BY <1>3, <2>4
  <2>6. Handling(s, c, "map")
    BY <1>9, <2>1, <2>4, <2>5 DEF MapEffect, Calls
  <2>7. \A t \in Servers : server'[t].busy = server[t].busy /\ server'[t].died = server[t].died
    BY <2>4 DEF MapEffect, ServerEffect
  <2> QED BY <1>1, <1>6, <2>1, <2>4, <2>5, <2>6, <2>7, MapHandled
<1>14. CASE RegisterPushHandlerRequest(s, c, r)
  <2>1. RegisterEffect(s) /\ AnsweredEffect({c}) /\ UNCHANGED mem /\ r.kind = "register"
    BY <1>1, <1>14, RegisterRequest DEF RegisterPushHandlerRequest
  <2>2. SamePlace /\ \A d \in Clients : client'[d].handler = client[d].handler
    BY <1>3, <2>1
  <2>3. Handling(s, c, "register")
    BY <1>9, <2>1, <2>2 DEF RegisterEffect, Calls
  <2>4. \A t \in Servers : server'[t].busy = server[t].busy /\ server'[t].died = server[t].died
    BY <2>1 DEF RegisterEffect, ServerEffect
  <2> QED BY <1>1, <1>6, <2>1, <2>2, <2>3, <2>4, RegisterHandled
<1>15. CASE DeleteDataRequest(s, c, r)
  <2>1. DeleteEffect(s) /\ AnsweredEffect({c}) /\ r.kind = "delete"
    BY <1>1, <1>15, DeleteRequest DEF DeleteDataRequest
  <2>2. SamePlace /\ \A d \in Clients : client'[d].handler = client[d].handler
    BY <1>3, <2>1
  <2>3. Handling(s, c, "delete")
    BY <1>9, <2>1, <2>2 DEF DeleteEffect, Calls
  <2>4. \A t \in Servers : server'[t].busy = server[t].busy /\ server'[t].died = server[t].died
    BY <2>1 DEF DeleteEffect, ServerEffect
  <2> QED BY <1>1, <1>6, <2>1, <2>2, <2>3, <2>4, DeleteHandled
<1>16. CASE PullRequest(s, c, r)
  <2>1. r.kind = "pull"
    BY <1>16 DEF PullRequest
  <2>2. Step(c) = "work"
    BY <1>1, <1>2, <1>7, <2>1, ClientTypes, StepAtType DEF CallOut, Step, Steps
  <2>3. client[c].at \in Places("work") /\ ~Reached("delete", client[c].at) /\ client[c].at \in Nat
    BY <1>1, <2>2, AtWork, ClientTypes
  <2>4. server[s].policy /\ server[s].data
    BY <1>1, <2>3, WorkFinds
  <2>5. AnsweredEffect({c}) /\ UNCHANGED <<server, mem>>
    BY <1>1, <1>16, <2>4, PullEffect
  <2>6. SamePlace /\ \A d \in Clients : client'[d].handler = client[d].handler
    BY <1>3, <2>5
  <2> QED BY <1>6, <1>10, <2>1, <2>5, <2>6 DEF Calls
<1>17. CASE PushRequest(s, c, r)
  <2>1. r.kind = "push"
    BY <1>17 DEF PushRequest
  <2>2. /\ r.at \in Places("work") /\ r.at <= client[c].at /\ SentWith(r.at, r.handler)
        /\ s = 0 => ~Reached("delete", r.at)
    BY <1>1, <1>2, <2>1, PushAt DEF RequestOK
  <2>3. StepAt(r.at) = "work" /\ r.at \in Nat
    BY <2>2, PlacesType DEF Steps
  <2>4. CASE server[s].policy /\ server[s].data
    <3>1. PushEffect(s, r) /\ UNCHANGED <<client, mem>>
      BY <1>1, <1>17, <2>4, PushEffectOf
    <3>2. SamePlace /\ \A d \in Clients : client'[d].handler = client[d].handler
      BY <1>4, <3>1
    <3>3. Tensors'
      BY <1>10, <2>1, <3>1, <3>2 DEF PushEffect, ServerEffect, Calls
    <3>4. BusyOK(s)'
      <4>1. server'[s].busy.at = r.at /\ server'[s].busy.handler = r.handler
        BY <3>1 DEF PushEffect
      <4>2. r.at <= client'[c].at
        BY <2>2, <3>1
      <4> QED BY <2>2, <2>3, <4>1, <4>2 DEF BusyOK, StepAt, SentWith, Places
    <3>5. DeathOK(s)'
      BY <1>1, <1>5, <3>1, <3>2, DeathStays DEF PushEffect
    <3>6. \A t \in Servers : t # s => BusyOK(t)' /\ DeathOK(t)'
      BY <1>6, <3>1, <3>2 DEF PushEffect, ServerEffect
    <3> QED BY <3>2, <3>3, <3>4, <3>5, <3>6
  <2>5. CASE ~(server[s].policy /\ server[s].data)
    <3>1. /\ ServerEffect(s) /\ UNCHANGED <<client, mem>>
          /\ server'[s].died = r /\ server'[s].busy = server[s].busy
          /\ server'[s].data = server[s].data /\ server'[s].policy = server[s].policy
          /\ server'[s].handler = server[s].handler
      BY <1>1, <1>17, <2>5, NoDataDies, DieEffect
    <3>2. SamePlace /\ \A d \in Clients : client'[d].handler = client[d].handler
      BY <1>4, <3>1
    <3>3. Tensors'
      BY <1>10, <2>1, <3>1, <3>2 DEF ServerEffect, Calls
    <3>4. Reached("delete", r.at)
      BY <1>1, <2>2, <2>5, WorkFinds
    <3>5. Reached("delete", r.at)'
      BY <3>1, <3>4 DEF Reached, Places
    <3>6. DeathOK(s)'
      BY <2>1, <2>2, <2>3, <3>1, <3>4, <3>5 DEF DeathOK, StepAt, Reached, Places
    <3>7. BusyOK(s)'
      BY <1>1, <1>5, <3>1, <3>2, BusyStays
    <3>8. \A t \in Servers : t # s => BusyOK(t)' /\ DeathOK(t)'
      BY <1>6, <3>1, <3>2 DEF ServerEffect
    <3> QED BY <3>2, <3>3, <3>6, <3>7, <3>8
  <2> QED BY <2>4, <2>5
<1> QED BY <1>2, <1>11, <1>12, <1>13, <1>14, <1>15, <1>16, <1>17 DEF Handles

\* SInv holds when a server takes a request.
LEMMA TakesSInv ==
    ASSUME SInv, NEW s \in Servers, NEW c \in Clients, NEW r \in Req, Takes(s, c, r)
    PROVE  SInv'
<1>1. CInv /\ Types /\ ClientsOK /\ Requests
  BY DEF SInv, CInv
<1>2. CInv' /\ Types'
  BY <1>1, TakesKeeps DEF CInv
<1>3. /\ Tensors' /\ SamePlace
      /\ \A d \in Clients : client'[d].handler = client[d].handler
      /\ \A t \in Servers : BusyOK(t)' /\ DeathOK(t)'
  BY <1>2, TakesTensors
<1>4. ClientsOK'
  BY <1>1, <1>3 DEF ClientsOK, SamePlace, SentWith, Places
<1>5. Requests'
  BY <1>1, TakeRequests DEF Takes
<1> QED BY <1>2, <1>3, <1>4, <1>5 DEF SInv

\* SInv holds at first: nobody has handled anything.
LEMMA InitSInv == Init => SInv
<1> SUFFICES ASSUME Init PROVE SInv
  OBVIOUS
<1>1. CInv
  BY InitCInv
<1>2. ASSUME NEW c \in Clients
      PROVE  client[c].at = 0 /\ client[c].handler = NoHandler
             /\ \A s \in Servers : Len(req[c][s]) = 0
  BY DEF Init
<1>3. ASSUME NEW s \in Servers
      PROVE  ~server[s].data /\ server[s].busy = Idle /\ server[s].died = Idle
  BY DEF Init
<1>4. ASSUME NEW s \in Servers, NEW i \in CallPlaces PROVE ~SomeHandled(s, i)
  <2>1. i \in Nat /\ i >= 1
    BY PlacesType
  <2> QED BY <1>2, <2>1 DEF SomeHandled, Handled
<1>5. Tensors
  BY <1>3, <1>4, PlacesCalls DEF Tensors, ServerOK, InitOK, MapOK, RegisterOK, DataOK, Calls
<1>6. ClientsOK
  BY <1>2 DEF ClientsOK, SentWith, NoHandler, Default, Added
<1>7. Requests
  BY <1>2 DEF Requests
<1>8. \A s \in Servers : BusyOK(s) /\ DeathOK(s)
  BY <1>3 DEF BusyOK, DeathOK
<1> QED BY <1>1, <1>5, <1>6, <1>7, <1>8 DEF SInv

\* Every action keeps SInv.
LEMMA NextSInv == SInv /\ [Next]_vars => SInv'
<1> SUFFICES ASSUME SInv, [Next]_vars PROVE SInv'
  OBVIOUS
<1>1. ASSUME NEW c \in Clients, Advance(c) PROVE SInv'
  BY <1>1, AdvanceSInv
<1>2. ASSUME NEW c \in Clients, NEW s \in Servers, PushRemote(c, s) PROVE SInv'
  <2>1. {s} \in SUBSET Servers
    OBVIOUS
  <2> QED BY <1>2, <2>1, WorkSInv
<1>3. ASSUME NEW c \in Clients, PushLocal(c) \/ WriteLocal(c) PROVE SInv'
  <2>1. CInv
    BY DEF SInv
  <2>2. /\ Types' /\ Silent /\ UNCHANGED server
        /\ \A m \in Machines : mem'[m].exists = mem[m].exists
        /\ \A d \in Clients : client'[d].handler = client[d].handler
    BY <1>3, <2>1, LocalSilent
  <2> QED BY <2>2, SilentSInv
<1>4. ASSUME NEW c \in Clients, NEW servers \in SUBSET Servers, Pull(c, servers) PROVE SInv'
  BY <1>4, WorkSInv
<1>5. ASSUME NEW s \in Servers, Serve(s) PROVE SInv'
  <2>1. PICK c \in Clients : \E r \in Req : Takes(s, c, r)
    BY <1>5, ServeTakes DEF SInv, CInv
  <2> QED BY <2>1, TakesSInv
<1>6. ASSUME NEW s \in Servers, Write(s) PROVE SInv'
  <2>1. CInv /\ Types
    BY DEF SInv, CInv
  <2>2. Types' /\ Silent
    BY <1>6, <2>1, WriteSilent
  <2>3. /\ ServerEffect(s) /\ UNCHANGED client
        /\ \A n \in Machines : mem'[n].exists = mem[n].exists
        /\ server'[s].busy = Idle /\ server'[s].died = server[s].died
        /\ server'[s].data = server[s].data /\ server'[s].policy = server[s].policy
        /\ server'[s].handler = server[s].handler
    BY <1>6, <2>1, WriteEffect
  <2>4. \A t \in Servers :
          /\ server'[t].busy = server[t].busy \/ server'[t].busy = Idle
          /\ server'[t].died = server[t].died
          /\ server'[t].data = server[t].data /\ server'[t].policy = server[t].policy
          /\ server'[t].handler = server[t].handler
    BY <2>3 DEF ServerEffect
  <2> QED BY <2>2, <2>3, <2>4, SilentSInv
<1>7. ASSUME UNCHANGED vars PROVE SInv'
  <2>1. Types' /\ Silent /\ UNCHANGED <<client, server, mem>>
    BY <1>7 DEF vars, SInv, CInv, Types, Silent, Waits, WaitOK
  <2> QED BY <2>1, SilentSInv
<1> QED BY <1>1, <1>2, <1>3, <1>4, <1>5, <1>6, <1>7 DEF Next, ClientStep, Over

\* SInv is an invariant.
LEMMA SInvHolds == Spec => []SInv
  BY InitSInv, NextSInv, PTL DEF Spec

\* Between init_data and delete_data no request finds a server without data or
\* with another handler than it asserts (kvstore.py: the lookups in part_policy
\* and data_store, the asserts of SendMetaToBackupRequest): the only one that
\* can is a push that a delete_data overtook on its way to a server other than
\* the one of the barriers.
THEOREM DiesOfOvertakenPushes == Spec => []OnlyOvertakenPushesFail
<1>1. SInv => OnlyOvertakenPushesFail
  <2> SUFFICES ASSUME SInv, NEW s \in Servers, server[s].died # Idle
               PROVE  server[s].died.kind = "push" /\ s # 0 /\ Overtaken(server[s].died)
    BY DEF OnlyOvertakenPushesFail
  <2>1. /\ server[s].died.kind = "push" /\ s # 0
        /\ Reached("delete", server[s].died.at)
    BY DEF SInv, DeathOK
  <2>2. Types /\ server[s].died.at \in Nat
    BY ServerTypes DEF SInv, CInv
  <2>3. PICK d \in Clients, k \in Places("delete") :
          server[s].died.at < k /\ k <= client[d].at
    BY <2>1 DEF Reached
  <2>4. client[d].at \in Nat /\ k \in Nat /\ k <= Len(Script) /\ Script[k] = "delete"
    BY <2>2, ClientTypes, PlacesType DEF Places
  <2>5. k \in (server[s].died.at)..(client[d].at)
    BY <2>2, <2>3, <2>4
  <2> QED BY <2>1, <2>4, <2>5 DEF Overtaken
<1> QED BY SInvHolds, <1>1, PTL

\* A push is applied with a handler at least as new as the one its client had
\* when it sent it, at every server of every machine: register_push_handler
\* ends with a barrier, after every server has answered.
THEOREM AppliedWithNewestHandler == Spec => []HandlerNotOutdated
<1>1. SInv => HandlerNotOutdated
  <2> SUFFICES ASSUME SInv, NEW s \in Servers, server[s].busy # Idle, ~Overtaken(server[s].busy)
               PROVE  server[s].handler >= server[s].busy.handler
    BY DEF HandlerNotOutdated
  <2> DEFINE p == server[s].busy.at
             h == server[s].busy.handler
  <2>1. /\ CInv /\ Types /\ Tensors /\ StepAt(p) = "work" /\ SentWith(p, h)
        /\ \E c \in Clients : p <= client[c].at
    BY DEF SInv, CInv, BusyOK
  <2>2. PICK c \in Clients : p <= client[c].at
    BY <2>1
  <2>3. /\ p \in Nat /\ h \in Handlers /\ server[s].handler \in Handlers
        /\ client[c].at \in Nat
    BY <2>1, ServerTypes, ClientTypes
  <2>4. ASSUME NEW d \in Clients, NEW k \in Places("delete"), k <= client[d].at PROVE k < p
    <3>1. /\ client[d].at \in Nat /\ k \in Nat /\ k <= Len(Script) /\ Script[k] = "delete"
          /\ StepAt(k) = "delete"
      BY <2>1, ClientTypes, PlacesType, PlacesCalls DEF Places, Calls
    <3>2. k \notin p..(client[d].at)
      BY <3>1 DEF Overtaken
    <3> QED BY <2>3, <2>4, <3>1, <3>2
  <2>5. ASSUME NEW j \in Nat, j < p, \A u \in Places("unmap") : ~(j < u /\ u <= p)
        PROVE  ~Reached("delete", j)
    <3> SUFFICES ASSUME NEW d \in Clients, NEW k \in Places("delete"), j < k, k <= client[d].at
                 PROVE  FALSE
      BY DEF Reached
    <3>1. k \in Nat /\ StepAt(k) = "delete" /\ k < p
      BY <2>4, PlacesCalls DEF Calls
    <3>2. StepAt(k + 1) = "barrier" /\ StepAt(k + 2) = "unmap"
      BY <3>1, Around
    <3>3. p # k + 1 /\ k + 2 \in Places("unmap")
      BY <2>1, <3>1, <3>2, PlacesType DEF Steps
    <3>4. j < k + 2 /\ k + 2 <= p
      BY <2>3, <3>1, <3>3
    <3> QED BY <2>5, <3>3, <3>4
  <2>6. CASE h = Added
    <3>1. PICK j \in Places("register") : j < p /\ \A u \in Places("unmap") : ~(j < u /\ u <= p)
      BY <2>1, <2>6 DEF SentWith
    <3>2. j \in Nat /\ j \in CallPlaces /\ StepAt(j) = "register"
      BY PlacesCalls DEF Calls
    <3>3. StepAt(j + 1) = "barrier"
      BY <3>2, Around
    <3>4. client[c].at > j + 1
      <4>1. p # j + 1
        BY <2>1, <3>3
      <4> QED BY <2>2, <2>3, <3>1, <3>2, <4>1
    <3>5. SomeHandled(s, j)
      BY <2>1, <3>2, <3>4, HandledBefore
    <3>6. ~Reached("delete", j)
      BY <2>5, <3>1, <3>2
    <3>7. server[s].handler = Added
      BY <2>1, <3>5, <3>6 DEF Tensors, ServerOK, RegisterOK
    <3> QED BY <2>6, <3>7 DEF Added
  <2>7. CASE h = Default
    <3>1. PICK j \in Places("map") : j <= p /\ \A u \in Places("unmap") : ~(j < u /\ u <= p)
      BY <2>1, <2>7 DEF SentWith, Added, Default
    <3>2. j \in Nat /\ StepAt(j) = "map"
      BY PlacesCalls DEF Calls
    <3>3. j >= 3 /\ StepAt(j - 2) = "init" /\ StepAt(j - 1) = "barrier"
      BY <3>2, Around
    <3> DEFINE i == j - 2
    <3>4. i \in Places("init") /\ i \in CallPlaces /\ i \in Nat /\ i + 1 = j - 1 /\ i + 2 = j
          /\ StepAt(i) = "init"
      BY <3>2, <3>3, PlacesType DEF Steps, Calls
    <3> HIDE DEF i
    <3>5. j # p
      BY <2>1, <3>2
    <3>6. client[c].at > i + 1
      BY <2>2, <2>3, <3>1, <3>2, <3>4
    <3>7. SomeHandled(s, i)
      <4>1. StepAt(i) # "map"
        BY <3>4
      <4> QED BY <2>1, <3>4, <3>6, <4>1, HandledBefore
    <3>8. ~Reached("delete", i)
      <4> SUFFICES ASSUME NEW d \in Clients, NEW k \in Places("delete"), i < k, k <= client[d].at
                   PROVE  FALSE
        BY DEF Reached
      <4>1. k \in Nat /\ StepAt(k) = "delete"
        BY PlacesCalls DEF Calls
      <4>2. k # j - 1 /\ k # j
        BY <3>2, <3>3, <4>1
      <4>3. j < k
        BY <3>2, <3>4, <4>1, <4>2
      <4>4. j < p
        BY <2>3, <3>1, <3>2, <3>5
      <4>5. ~Reached("delete", j)
        BY <2>5, <3>1, <3>2, <4>4
      <4> QED BY <4>3, <4>5 DEF Reached
    <3>9. server[s].handler >= Default
      BY <2>1, <3>4, <3>7, <3>8 DEF Tensors, ServerOK, InitOK
    <3> QED BY <2>7, <3>9
  <2>8. CASE h = NoHandler
    BY <2>3, <2>8 DEF Handlers, NoHandler, Default, Added
  <2> QED BY <2>3, <2>6, <2>7, <2>8 DEF Handlers
<1> QED BY SInvHolds, <1>1, PTL
=============================================================================
