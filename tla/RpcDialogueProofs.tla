------------------------- MODULE RpcDialogueProofs --------------------------
(***************************************************************************)
(* Proofs about the requests and answers of RpcSession, for any number of  *)
(* clients, servers, roles and rounds: every answer is the one its client  *)
(* waits for, and the counters at server 0 are barriers.                   *)
(***************************************************************************)
EXTENDS RpcSessionProofs

-----------------------------------------------------------------------------
(* The dialogue of a client with the servers *)

\* Requests that are answered, at once or when others have made them too.
Awaiting == {"num", "role", "roles", "call", "kvbarrier", "barrier"}

\* Such a request is in channel q.
Pending(q) == \E i \in 1..Len(q) : q[i].kind \in Awaiting

\* Nothing the client waits for is under way, in its requests Q or answers A.
Quiet(Q, A) == \A s \in Servers : ~Pending(Q[s]) /\ Len(A[s]) = 0

\* An answer is under way.
Told(A) == \E s \in Servers : Len(A[s]) # 0

\* What may be under way for a client at pc: one request that it waits for,
\* as the last one of a channel, or the answer to it, or neither.
Asked(pc, Q) ==
    /\ \A s \in Servers : \A i \in 1..Len(Q[s]) :
         /\ Q[s][i].kind \in Awaiting =>
              Q[s][i].kind = pc /\ i = Len(Q[s]) /\ (pc # "call" => s = 0)
         /\ Q[s][i].kind = "shutdown" => pc \in {"final", "done"}
    /\ \A s, t \in Servers : Pending(Q[s]) /\ Pending(Q[t]) => s = t
    /\ pc = "barrier" => Len(Q[0]) = 0 \/ Pending(Q[0])

Heard(pc, Q, A) ==
    /\ \A s \in Servers : Len(A[s]) <= 1
    /\ \A s, t \in Servers : Len(A[s]) # 0 /\ Len(A[t]) # 0 => s = t
    /\ \A s \in Servers : Len(A[s]) # 0 =>
         /\ \A t \in Servers : ~Pending(Q[t])
         /\ \/ A[s][1].kind = pc /\ pc \in Awaiting
            \/ A[s][1].kind = "register" /\ pc \in {"accept", "register"}
         /\ pc # "call" => s = 0

Talk(pc, Q, A) == pc # "failed" /\ Asked(pc, Q) /\ Heard(pc, Q, A)

Answers(c) == [s \in Servers |-> ans[s][c]]

\* A server numbers the clients once, when all have registered.
Joining(c) ==
    /\ \A s \in Servers : server[s].namebook # <<>> =>
         /\ client[c].pc # "start"
         /\ \A i \in 1..Len(req[c][s]) : req[c][s][i].kind # "register"
    /\ Told(Answers(c)) => server[0].namebook # <<>>

\* Nobody goes on before the table of roles is complete, and nobody gets an
\* incomplete one.
Complete == Len(roles) = num_clients
Knows(c) ==
    /\ client[c].pc \notin {"start", "accept", "register", "num", "role"} => Complete
    /\ client[c].pc = "role" /\ Told(Answers(c)) => Complete
    /\ client[c].pc = "roles" /\ Told(Answers(c)) => ans[0][c][1].table = roles
    /\ client[c].table = <<>> \/ (client[c].table = roles /\ Complete)

\* A client is in at most one barrier.
Round(c) ==
    /\ client[c].entered = client[c].passed + IF client[c].pc = "kvbarrier" THEN 1 ELSE 0
    /\ client[c].entered <= MaxRounds /\ client[c].work <= MaxWork[c]

\* Only the last client_barrier of a client is followed by its exit.
Left == {"shutdown", "final", "done"}
Calls(c) ==
    /\ client[c].barriers <= MaxBarriers + 1
    /\ client[c].pc \in Left => client[c].barriers = MaxBarriers + 1
    /\ client[c].pc \notin Left \cup {"barrier"} => client[c].barriers <= MaxBarriers

\* What is about client c and its messages.
Own(c) ==
    /\ Talk(client[c].pc, req[c], Answers(c)) /\ Joining(c) /\ Knows(c)
    /\ Round(c) /\ Calls(c)

NumberedOnce ==
    \A s \in Servers : server[s].namebook # <<>> => Len(server[s].recv_clients) = 0

\* The table of roles holds those whose registration was handled.
Entry(c) == [id |-> c, role |-> Role[c], machine |-> Machine[c]]
HasRegistered(c) ==
    /\ client[c].pc \notin {"start", "accept", "register", "num"}
    /\ client[c].pc = "role" => ~Pending(req[c][0])
Table ==
    /\ \A i \in 1..Len(roles) : roles[i] = Entry(roles[i].id)
    /\ \A i, j \in 1..Len(roles) : roles[i].id = roles[j].id => i = j
    /\ \A c \in Clients : HasRegistered(c) <=> \E i \in 1..Len(roles) : roles[i].id = c

\* The barriers that the server has ended for c: as many as for all of its role.
Ended(c) ==
    client[c].passed + IF client[c].pc = "kvbarrier" /\ Told(Answers(c)) THEN 1 ELSE 0
SameRound == \A c, d \in Clients : Role[d] = Role[c] => Ended(d) = Ended(c)

\* Those who wait for others at server 0.
Counted(kind) == {c \in Clients : client[c].pc = kind /\ Quiet(req[c], Answers(c))}

\* The counters are the number of those who wait, never all of them.
Members(r) == {c \in Clients : Role[c] = r}
KvCounts ==
    /\ kv_count \in [Roles -> Nat]
    /\ \A r \in Roles :
         /\ kv_count[r] = Cardinality(Counted("kvbarrier") \cap Members(r))
         /\ kv_count[r] < Cardinality(Members(r))
ExitCount ==
    barrier_count = Cardinality(Counted("barrier")) /\ barrier_count < num_clients

\* The calls of client_barrier that the server has ended for c: as many as for
\* everybody else.
Through(c) ==
    client[c].barriers - IF client[c].pc = "barrier" /\ ~Told(Answers(c)) THEN 1 ELSE 0
SameExit == \A c, d \in Clients : Through(d) = Through(c)

\* A client that is through the last barrier, or is about to be told: then only
\* client 0's shutdown can be on the way to server 0.
Released(c) == Through(c) = MaxBarriers + 1
Flushed(c) == \A i \in 1..Len(req[c][0]) : req[c][0][i].kind = "shutdown"
Exits == \A c, d \in Clients : Released(c) => Flushed(d)

\* What is about how the clients stand to each other and to the servers.
Joint == NumberedOnce /\ Table /\ SameRound /\ SameExit /\ KvCounts /\ ExitCount /\ Exits

DInv == Joint /\ \A c \in Clients : Own(c)

-----------------------------------------------------------------------------
(* What is under way for one client *)

\* The requests and answers of a client.
LEMMA Channels ==
    ASSUME IInv, NEW c \in Clients
    PROVE  \A s \in Servers :
             /\ req[c][s] \in Seq(RequestOf(c)) /\ Len(req[c][s]) \in Nat
             /\ ans[s][c] \in Seq(ResponseTo(c)) /\ Len(ans[s][c]) \in Nat
             /\ Answers(c)[s] = ans[s][c]
<1>1. \A s \in Servers : req[c][s] \in Seq(RequestOf(c))
  BY QuietRequests DEF InOrder
<1>2. \A s \in Servers : ans[s][c] \in Seq(ResponseTo(c))
  BY DEF IInv, Answered
<1> QED BY <1>1, <1>2, LenProperties DEF Answers

\* Only what the client waits for is pending.
LEMMA AskedPending ==
    ASSUME NEW pc, NEW Q, Asked(pc, Q), NEW s \in Servers, Pending(Q[s])
    PROVE  pc \in Awaiting /\ (pc # "call" => s = 0)
  BY DEF Asked, Pending

\* A client that waits for nothing sends messages that are not answered.
LEMMA AskedNothing ==
    ASSUME NEW pc, NEW Q, pc # "barrier",
           \A s \in Servers : \A i \in 1..Len(Q[s]) :
             /\ Q[s][i].kind \notin Awaiting
             /\ Q[s][i].kind = "shutdown" => pc \in {"final", "done"}
    PROVE  Asked(pc, Q) /\ \A s \in Servers : ~Pending(Q[s])
  BY DEF Asked, Pending

\* A client that waits for nothing sends request m to server s; Q and P are its
\* channels before and after that.
Asks(Q, P, s, m, S) ==
    /\ \A t \in Servers : Q[t] \in Seq(S)
    /\ \A t \in Servers : \A i \in 1..Len(Q[t]) :
         Q[t][i].kind \notin Awaiting /\ Q[t][i].kind # "shutdown"
    /\ s \in Servers /\ m \in S /\ m.kind \in Awaiting /\ (m.kind # "call" => s = 0)
    /\ P[s] = Append(Q[s], m) /\ \A t \in Servers \ {s} : P[t] = Q[t]

LEMMA AskedOne ==
    ASSUME NEW S, NEW Q, NEW P, NEW s, NEW m, Asks(Q, P, s, m, S)
    PROVE  /\ Asked(m.kind, P) /\ Pending(P[s])
           /\ \A t \in Servers \ {s} : ~Pending(P[t])
           /\ \A i \in 1..Len(P[s]) : P[s][i] = m \/ \E j \in 1..Len(Q[s]) : P[s][i] = Q[s][j]
<1> USE DEF Asks
<1>1. /\ Len(Q[s]) \in Nat /\ Len(P[s]) = Len(Q[s]) + 1 /\ P[s][Len(Q[s]) + 1] = m
      /\ \A i \in 1..Len(Q[s]) : P[s][i] = Q[s][i]
  BY AppendProperties, LenProperties
<1>2. \A i \in 1..Len(P[s]) : IF i = Len(P[s]) THEN P[s][i] = m
                              ELSE i \in 1..Len(Q[s]) /\ P[s][i] = Q[s][i]
  BY <1>1
<1>3. Pending(P[s])
  <2>1. Len(P[s]) \in 1..Len(P[s]) /\ P[s][Len(P[s])] = m
    BY <1>1
  <2> QED BY <2>1 DEF Pending
<1>4. \A t \in Servers \ {s} : ~Pending(P[t])
  BY DEF Pending
<1>5. ASSUME NEW t \in Servers, NEW i \in 1..Len(P[t])
      PROVE  /\ P[t][i].kind \in Awaiting =>
                  P[t][i].kind = m.kind /\ i = Len(P[t]) /\ (m.kind # "call" => t = 0)
             /\ P[t][i].kind # "shutdown"
  <2>1. m.kind # "shutdown"
    BY DEF Awaiting
  <2>2. CASE t = s
    BY <1>2, <2>1, <2>2
  <2>3. CASE t # s
    BY <2>3
  <2> QED BY <2>2, <2>3
<1>6. m.kind = "barrier" => s = 0
  OBVIOUS
<1> QED BY <1>2, <1>3, <1>4, <1>5, <1>6 DEF Asked

\* Server s takes the first request of a channel with it.
Takes(Q, P, s, S) ==
    /\ \A t \in Servers : Q[t] \in Seq(S)
    /\ s \in Servers /\ Q[s] # <<>>
    /\ P[s] = Tail(Q[s]) /\ \A t \in Servers \ {s} : P[t] = Q[t]

LEMMA AskedTake ==
    ASSUME NEW S, NEW Q, NEW P, NEW pc, NEW s, Asked(pc, Q), Takes(Q, P, s, S)
    PROVE  /\ Asked(pc, P)
           /\ Q[s][1].kind \in Awaiting =>
                /\ Q[s][1].kind = pc /\ Len(P[s]) = 0 /\ (pc # "call" => s = 0)
                /\ Pending(Q[s])
                /\ \A t \in Servers : ~Pending(P[t])
           /\ Q[s][1].kind \notin Awaiting => \A t \in Servers : Pending(P[t]) <=> Pending(Q[t])
           /\ \A i \in 1..Len(P[s]) : i + 1 \in 1..Len(Q[s]) /\ P[s][i] = Q[s][i + 1]
<1> USE DEF Takes
<1>1. /\ Len(Q[s]) \in Nat \ {0} /\ Len(P[s]) = Len(Q[s]) - 1 /\ 1 \in 1..Len(Q[s])
      /\ \A i \in 1..Len(P[s]) : P[s][i] = Q[s][i + 1]
  BY HeadTailProperties, LenProperties, EmptySeq
<1>2. \A i \in 1..Len(P[s]) : i + 1 \in 1..Len(Q[s]) /\ P[s][i] = Q[s][i + 1]
  BY <1>1
<1>3. \A i \in 1..Len(P[s]) : i + 1 = Len(Q[s]) => i = Len(P[s])
  BY <1>1
<1>4. Pending(P[s]) => Pending(Q[s])
  BY <1>2 DEF Pending
<1>5. Q[s][1].kind \notin Awaiting => (Pending(Q[s]) => Pending(P[s]))
  <2> SUFFICES ASSUME Q[s][1].kind \notin Awaiting, NEW i \in 1..Len(Q[s]), Q[s][i].kind \in Awaiting
               PROVE  Pending(P[s])
    BY DEF Pending
  <2>1. i # 1
    OBVIOUS
  <2>2. i - 1 \in 1..Len(P[s]) /\ (i - 1) + 1 = i
    BY <1>1, <2>1
  <2>3. P[s][i - 1] = Q[s][i]
    BY <1>2, <2>2
  <2> QED BY <2>2, <2>3 DEF Pending
<1>6. Q[s][1].kind \in Awaiting =>
        /\ Q[s][1].kind = pc /\ Len(P[s]) = 0 /\ (pc # "call" => s = 0) /\ Pending(Q[s])
  <2> SUFFICES ASSUME Q[s][1].kind \in Awaiting
               PROVE  /\ Q[s][1].kind = pc /\ Len(P[s]) = 0 /\ (pc # "call" => s = 0)
                      /\ Pending(Q[s])
    OBVIOUS
  <2>1. Q[s][1].kind = pc /\ 1 = Len(Q[s]) /\ (pc # "call" => s = 0)
    BY <1>1 DEF Asked
  <2>2. Len(P[s]) = 0
    BY <1>1, <2>1
  <2>3. Pending(Q[s])
    BY <1>1 DEF Pending
  <2> QED BY <2>1, <2>2, <2>3
<1>7. Q[s][1].kind \in Awaiting => \A t \in Servers : ~Pending(P[t])
  <2> SUFFICES ASSUME Q[s][1].kind \in Awaiting, NEW t \in Servers PROVE ~Pending(P[t])
    OBVIOUS
  <2>1. CASE t = s
    <3>1. Len(P[t]) = 0
      BY <1>6, <2>1
    <3>2. 1..0 = {}
      OBVIOUS
    <3> QED BY <3>1, <3>2 DEF Pending
  <2>2. CASE t # s
    BY <1>6, <2>2 DEF Asked
  <2> QED BY <2>1, <2>2
<1>8. \A t \in Servers : Pending(P[t]) => Pending(Q[t])
  BY <1>4
<1>9. ASSUME NEW t \in Servers, NEW i \in 1..Len(P[t])
      PROVE  /\ P[t][i].kind \in Awaiting =>
                  P[t][i].kind = pc /\ i = Len(P[t]) /\ (pc # "call" => t = 0)
             /\ P[t][i].kind = "shutdown" => pc \in {"final", "done"}
  <2>1. CASE t = s
    <3>1. /\ i + 1 \in 1..Len(Q[s]) /\ P[t][i] = Q[s][i + 1]
          /\ i + 1 = Len(Q[s]) => i = Len(P[t])
      BY <1>2, <1>3, <2>1
    <3>2. /\ Q[s][i + 1].kind \in Awaiting =>
               Q[s][i + 1].kind = pc /\ i + 1 = Len(Q[s]) /\ (pc # "call" => s = 0)
          /\ Q[s][i + 1].kind = "shutdown" => pc \in {"final", "done"}
      BY <3>1 DEF Asked
    <3> QED BY <2>1, <3>1, <3>2
  <2>2. CASE t # s
    BY <2>2 DEF Asked
  <2> QED BY <2>1, <2>2
<1>10. pc = "barrier" => Len(P[0]) = 0 \/ Pending(P[0])
  <2> SUFFICES ASSUME pc = "barrier" PROVE Len(P[0]) = 0 \/ Pending(P[0])
    OBVIOUS
  <2>1. Len(Q[0]) = 0 \/ Pending(Q[0])
    BY DEF Asked
  <2>2. 0 \in Servers
    BY NoIdProperties
  <2>3. CASE s = 0
    <3>1. Len(Q[0]) # 0
      BY <1>1, <2>3
    <3> QED BY <1>5, <1>6, <2>1, <2>3, <3>1
  <2>4. CASE s # 0
    BY <2>1, <2>2, <2>4
  <2> QED BY <2>3, <2>4
<1>11. Asked(pc, P)
  BY <1>8, <1>9, <1>10 DEF Asked
<1>12. Q[s][1].kind \notin Awaiting => \A t \in Servers : Pending(P[t]) <=> Pending(Q[t])
  BY <1>4, <1>5
<1> QED BY <1>2, <1>6, <1>7, <1>11, <1>12

\* Without an answer under way there is nothing to say.
LEMMA HeardNothing ==
    ASSUME NEW pc, NEW Q, NEW A, \A s \in Servers : Len(A[s]) = 0
    PROVE  Heard(pc, Q, A) /\ ~Told(A)
  BY DEF Heard, Told

\* One answer to a client that waits for nothing else.
LEMMA HeardOne ==
    ASSUME NEW pc, NEW Q, NEW A, NEW s \in Servers, Len(A[s]) = 1,
           \A t \in Servers \ {s} : Len(A[t]) = 0,
           \A t \in Servers : ~Pending(Q[t]),
           \/ A[s][1].kind = pc /\ pc \in Awaiting
           \/ A[s][1].kind = "register" /\ pc \in {"accept", "register"},
           pc # "call" => s = 0
    PROVE  Heard(pc, Q, A) /\ Told(A) /\ ~Quiet(Q, A)
<1>1. \A t \in Servers : Len(A[t]) # 0 => t = s
  OBVIOUS
<1>2. \A t \in Servers : Len(A[t]) <= 1
  <2> SUFFICES ASSUME NEW t \in Servers PROVE Len(A[t]) <= 1
    OBVIOUS
  <2>1. Len(A[t]) \in {0, 1}
    BY Zenon
  <2>2. \A n \in {0, 1} : n <= 1
    OBVIOUS
  <2> QED BY <2>1, <2>2, Zenon
<1>3. Heard(pc, Q, A)
  BY <1>1, <1>2 DEF Heard
<1> QED BY <1>3 DEF Told, Quiet

-----------------------------------------------------------------------------
(* Steps of a client *)

\* The messages of a client do not change.
SameMessages(d) == req'[d] = req[d] /\ \A s \in Servers : ans'[s][d] = ans[s][d]

LEMMA SameAnswers ==
    ASSUME NEW d, \A s \in Servers : ans'[s][d] = ans[s][d] PROVE Answers(d)' = Answers(d)
  BY DEF Answers

\* Whether a client is through the last barrier.
LEMMA ReleasedWhen ==
    ASSUME IInv, NEW c \in Clients, Calls(c)
    PROVE  /\ client[c].barriers \in Nat /\ MaxBarriers \in Nat
           /\ client[c].pc # "barrier" \/ Told(Answers(c)) => Through(c) = client[c].barriers
           /\ client[c].pc \in Left => Released(c)
           /\ client[c].pc \notin Left \cup {"barrier"} => ~Released(c)
<1>1. client[c].barriers \in Nat /\ MaxBarriers \in Nat
  BY SessionAssumption DEF IInv, Types, Program
<1>2. client[c].pc # "barrier" \/ Told(Answers(c)) => Through(c) = client[c].barriers
  BY <1>1 DEF Through
<1>3. client[c].pc \in Left => Released(c)
  BY <1>2 DEF Calls, Left, Released
<1>4. client[c].pc \notin Left \cup {"barrier"} => ~Released(c)
  BY <1>1, <1>2 DEF Calls, Released
<1> QED BY <1>1, <1>2, <1>3, <1>4

\* What a client step has to ensure: what is about the client itself, and that
\* the others see no difference.
LEMMA ClientOwns ==
    ASSUME IInv, IInv', DInv, NEW c \in Clients, UNCHANGED serverVars, Changes(c),
           \A d \in Clients \ {c} : SameMessages(d),
           Own(c)',
           HasRegistered(c)' <=> HasRegistered(c),
           Ended(c)' = Ended(c),
           c \in Counted("kvbarrier")' <=> c \in Counted("kvbarrier"),
           c \in Counted("barrier")' <=> c \in Counted("barrier"),
           Through(c)' = Through(c),
           Released(c) => Flushed(c)'
    PROVE  DInv'
<1>1. /\ server' = server /\ roles' = roles /\ barrier_count' = barrier_count
      /\ kv_count' = kv_count
  BY DEF serverVars
<1>2. \A d \in Clients \ {c} :
        /\ client'[d] = client[d] /\ req'[d] = req[d] /\ Answers(d)' = Answers(d)
        /\ \A s \in Servers : ans'[s][d] = ans[s][d]
  BY SameAnswers DEF Changes, SameMessages
<1>3. 0 \in Servers
  BY NoIdProperties
<1>4. /\ NumberedOnce /\ Table /\ SameRound /\ SameExit /\ KvCounts /\ ExitCount /\ Exits
      /\ \A d \in Clients : Own(d)
  BY DEF DInv, Joint
<1>5. \A d \in Clients \ {c} :
        /\ HasRegistered(d)' <=> HasRegistered(d)
        /\ Ended(d)' = Ended(d)
        /\ Through(d)' = Through(d)
        /\ Flushed(d)' <=> Flushed(d)
        /\ d \in Counted("kvbarrier")' <=> d \in Counted("kvbarrier")
        /\ d \in Counted("barrier")' <=> d \in Counted("barrier")
  BY <1>2 DEF HasRegistered, Ended, Through, Counted, Flushed
<1>6. \A d \in Clients :
        /\ HasRegistered(d)' <=> HasRegistered(d)
        /\ Ended(d)' = Ended(d)
        /\ Through(d)' = Through(d)
        /\ Released(c) /\ Flushed(d) => Flushed(d)'
        /\ d \in Counted("kvbarrier")' <=> d \in Counted("kvbarrier")
        /\ d \in Counted("barrier")' <=> d \in Counted("barrier")
  BY <1>5
<1>7. /\ Counted("kvbarrier")' = Counted("kvbarrier") /\ Counted("barrier")' = Counted("barrier")
  BY <1>6 DEF Counted
<1>8. ASSUME NEW d \in Clients \ {c} PROVE Own(d)'
  <2>1. Own(d)
    BY <1>4
  <2>2. /\ client'[d] = client[d] /\ req'[d] = req[d] /\ Answers(d)' = Answers(d)
        /\ ans'[0][d] = ans[0][d] /\ Complete' = Complete
    BY <1>1, <1>2, <1>3 DEF Complete
  <2> QED BY <1>1, <2>1, <2>2, Zenon DEF Own, Joining, Knows, Round, Calls
<1>9. KvCounts' /\ ExitCount'
  BY <1>1, <1>4, <1>7 DEF KvCounts, ExitCount
<1>10. SameExit'
  BY <1>4, <1>6, Zenon DEF SameExit
<1>11. Exits'
  <2>1. \A d \in Clients : Released(d)' <=> Released(c)
    BY <1>4, <1>6 DEF SameExit, Released
  <2> QED BY <1>4, <1>6, <2>1, Zenon DEF Exits
<1>12. NumberedOnce' /\ Table' /\ SameRound'
  BY <1>1, <1>4, <1>6, Zenon DEF NumberedOnce, Table, SameRound
<1> QED BY <1>8, <1>9, <1>10, <1>11, <1>12 DEF DInv, Joint

\* Nothing is under way for a client that waits for nothing.
LEMMA AtWork ==
    ASSUME IInv, NEW c \in Clients, Own(c),
           client[c].pc \notin Awaiting \cup {"accept", "register"}
    PROVE  /\ \A s \in Servers : Len(Answers(c)[s]) = 0 /\ ~Pending(req[c][s])
           /\ \A s \in Servers : \A i \in 1..Len(req[c][s]) :
                /\ req[c][s][i].kind \notin Awaiting
                /\ client[c].pc \notin {"final", "done"} => req[c][s][i].kind # "shutdown"
           /\ ~Told(Answers(c)) /\ Quiet(req[c], Answers(c))
<1>1. Asked(client[c].pc, req[c]) /\ Heard(client[c].pc, req[c], Answers(c))
  BY DEF Own, Talk
<1>2. \A s \in Servers : ~Pending(req[c][s])
  BY <1>1, AskedPending
<1>3. \A s \in Servers : Len(Answers(c)[s]) = 0
  BY <1>1 DEF Heard
<1>4. \A s \in Servers : \A i \in 1..Len(req[c][s]) :
        /\ req[c][s][i].kind \notin Awaiting
        /\ client[c].pc \notin {"final", "done"} => req[c][s][i].kind # "shutdown"
  BY <1>1, <1>2 DEF Asked, Pending
<1> QED BY <1>2, <1>3, <1>4 DEF Told, Quiet

\* A client's record with some of its fields replaced keeps the others.
LEMMA OtherFields ==
    ASSUME NEW r \in Program, NEW pc \in Pcs
    PROVE  /\ [r EXCEPT !.pc = pc].table = r.table
           /\ [r EXCEPT !.pc = pc].entered = r.entered
           /\ [r EXCEPT !.pc = pc].passed = r.passed
           /\ [r EXCEPT !.pc = pc].work = r.work
           /\ [r EXCEPT !.pc = pc, !.work = @ + 1].table = r.table
           /\ [r EXCEPT !.pc = pc, !.work = @ + 1].entered = r.entered
           /\ [r EXCEPT !.pc = pc, !.work = @ + 1].passed = r.passed
           /\ [r EXCEPT !.pc = pc, !.work = @ + 1].work = r.work + 1
           /\ [r EXCEPT !.pc = pc, !.entered = @ + 1].table = r.table
           /\ [r EXCEPT !.pc = pc, !.entered = @ + 1].entered = r.entered + 1
           /\ [r EXCEPT !.pc = pc, !.entered = @ + 1].passed = r.passed
           /\ [r EXCEPT !.pc = pc, !.entered = @ + 1].work = r.work
           /\ [r EXCEPT !.work = @ + 1].table = r.table
           /\ [r EXCEPT !.work = @ + 1].entered = r.entered
           /\ [r EXCEPT !.work = @ + 1].passed = r.passed
           /\ [r EXCEPT !.work = @ + 1].work = r.work + 1
<1>1. /\ [r EXCEPT !.pc = pc].table = r.table
      /\ [r EXCEPT !.pc = pc].entered = r.entered
      /\ [r EXCEPT !.pc = pc].passed = r.passed
      /\ [r EXCEPT !.pc = pc].work = r.work
  BY DEF Program
<1>2. /\ [r EXCEPT !.pc = pc, !.work = @ + 1].table = r.table
      /\ [r EXCEPT !.pc = pc, !.work = @ + 1].entered = r.entered
      /\ [r EXCEPT !.pc = pc, !.work = @ + 1].passed = r.passed
      /\ [r EXCEPT !.pc = pc, !.work = @ + 1].work = r.work + 1
  BY DEF Program
<1>3. /\ [r EXCEPT !.pc = pc, !.entered = @ + 1].table = r.table
      /\ [r EXCEPT !.pc = pc, !.entered = @ + 1].entered = r.entered + 1
      /\ [r EXCEPT !.pc = pc, !.entered = @ + 1].passed = r.passed
      /\ [r EXCEPT !.pc = pc, !.entered = @ + 1].work = r.work
  BY DEF Program
<1>4. /\ [r EXCEPT !.work = @ + 1].table = r.table
      /\ [r EXCEPT !.work = @ + 1].entered = r.entered
      /\ [r EXCEPT !.work = @ + 1].passed = r.passed
      /\ [r EXCEPT !.work = @ + 1].work = r.work + 1
  BY DEF Program
<1> QED BY <1>1, <1>2, <1>3, <1>4

LEMMA OtherBarriers ==
    ASSUME NEW r \in Program, NEW pc \in Pcs
    PROVE  /\ [r EXCEPT !.pc = pc].barriers = r.barriers
           /\ [r EXCEPT !.pc = pc, !.work = @ + 1].barriers = r.barriers
           /\ [r EXCEPT !.pc = pc, !.entered = @ + 1].barriers = r.barriers
           /\ [r EXCEPT !.work = @ + 1].barriers = r.barriers
  BY DEF Program

LEMMA BarriersFields ==
    ASSUME NEW r \in Program, NEW pc \in Pcs
    PROVE  /\ [r EXCEPT !.pc = pc, !.barriers = @ + 1].barriers = r.barriers + 1
           /\ [r EXCEPT !.pc = pc, !.barriers = @ + 1].table = r.table
           /\ [r EXCEPT !.pc = pc, !.barriers = @ + 1].entered = r.entered
           /\ [r EXCEPT !.pc = pc, !.barriers = @ + 1].passed = r.passed
           /\ [r EXCEPT !.pc = pc, !.barriers = @ + 1].work = r.work
  BY DEF Program

\* A client that only goes to another place in its program.
Moves(c) ==
    /\ client'[c].barriers = client[c].barriers
    /\ client'[c].table = client[c].table /\ client'[c].entered = client[c].entered
    /\ client'[c].passed = client[c].passed /\ client'[c].work = client[c].work

LEMMA BecomeMoves ==
    ASSUME IInv, NEW c \in Clients, NEW pc \in Pcs, Become(c, pc)
    PROVE  Changes(c) /\ client'[c].pc = pc /\ Moves(c)
<1>1. client[c] \in Program /\ client' = [client EXCEPT ![c].pc = pc] /\ DOMAIN client = Clients
  BY DEF Become, IInv, Types
<1>2. client'[c] = [client[c] EXCEPT !.pc = pc]
  BY <1>1
<1> QED BY <1>1, <1>2, OtherFields, OtherBarriers, BecomeProperties DEF Moves

\* connect_to_server: no server has numbered the clients yet.
LEMMA RegisterOwns ==
    ASSUME IInv, IInv', DInv, NEW c \in Clients, Register(c) PROVE DInv'
<1> DEFINE m == [kind |-> "register", from |-> c, id |-> NoId]
<1>1. /\ client[c].pc = "start" /\ UNCHANGED serverVars /\ ans' = ans
      /\ Become(c, "accept") /\ "accept" \in Pcs
  BY DEF Register, Pcs
<1>2. Changes(c) /\ client'[c].pc = "accept" /\ Moves(c)
  BY <1>1, BecomeMoves
<1>3. /\ \A d \in Clients \ {c} : req'[d] = req[d]
      /\ \A s \in Servers : req'[c][s] = Append(req[c][s], m)
  BY QuietRequests DEF Register
<1>4. \A s \in Servers : \A i \in 1..Len(req'[c][s]) : req'[c][s][i].kind = "register"
  <2> SUFFICES ASSUME NEW s \in Servers
               PROVE  \A i \in 1..Len(req'[c][s]) : req'[c][s][i].kind = "register"
    OBVIOUS
  <2>1. req[c][s] = <<>>
    BY <1>1 DEF IInv, Requested
  <2>2. req'[c][s] = <<m>>
    BY <1>3, <2>1
  <2> QED BY <2>2
<1>5. Own(c) /\ \A d \in Clients \ {c} : SameMessages(d)
  BY <1>1, <1>3 DEF DInv, SameMessages
<1>6. /\ \A s \in Servers : Len(Answers(c)[s]) = 0
      /\ ~Told(Answers(c)) /\ Answers(c)' = Answers(c)
  BY <1>1, <1>5, AtWork, SameAnswers DEF Awaiting
<1>7. Talk(client[c].pc, req[c], Answers(c))'
  <2>1. Asked("accept", req'[c])
    BY <1>4, AskedNothing DEF Awaiting
  <2>2. Heard("accept", req'[c], Answers(c))
    BY <1>6, HeardNothing
  <2> QED BY <1>2, <1>6, <2>1, <2>2 DEF Talk
<1>8. Joining(c)'
  BY <1>1, <1>5, <1>6 DEF serverVars, Own, Joining
<1>9. Knows(c)'
  BY <1>1, <1>2, <1>5 DEF serverVars, Own, Knows, Moves, Complete
<1>10. Round(c)'
  BY <1>1, <1>2, <1>5 DEF serverVars, Own, Round, Moves
<1>14. Calls(c)'
  BY <1>1, <1>2, <1>5 DEF Own, Calls, Moves, Left
<1>11. Own(c)'
  BY <1>7, <1>8, <1>9, <1>10, <1>14 DEF Own
<1>12. /\ ~HasRegistered(c) /\ ~HasRegistered(c)'
       /\ c \notin Counted("kvbarrier") /\ c \notin Counted("kvbarrier")'
       /\ c \notin Counted("barrier") /\ c \notin Counted("barrier")'
  BY <1>1, <1>2 DEF HasRegistered, Counted
<1>13. Ended(c)' = Ended(c) /\ Through(c)' = Through(c)
  BY <1>1, <1>2 DEF Ended, Through, Moves
<1>15. ~Released(c)
  BY <1>1, <1>5, ReleasedWhen DEF Own, Left
<1> QED BY <1>1, <1>2, <1>5, <1>11, <1>12, <1>13, <1>15, ClientOwns

\* wait_for_senders of a client: the answer to its registration may be there.
LEMMA AcceptOwns ==
    ASSUME IInv, IInv', DInv, NEW c \in Clients, AcceptServers(c) PROVE DInv'
<1>1. /\ client[c].pc = "accept" /\ UNCHANGED serverVars /\ ans' = ans /\ req' = req
      /\ Become(c, "register") /\ "register" \in Pcs
  BY DEF AcceptServers, Pcs
<1>2. Changes(c) /\ client'[c].pc = "register" /\ Moves(c)
  BY <1>1, BecomeMoves
<1>3. Own(c) /\ (\A d \in Clients \ {c} : SameMessages(d)) /\ Answers(c)' = Answers(c)
  BY <1>1, SameAnswers DEF DInv, SameMessages
<1>4. Talk(client[c].pc, req[c], Answers(c))'
  <2>1. Asked("accept", req[c]) /\ Heard("accept", req[c], Answers(c))
    BY <1>1, <1>3 DEF Own, Talk
  <2>2. \A s \in Servers : ~Pending(req[c][s])
    BY <2>1, AskedPending DEF Awaiting
  <2>3. Asked("register", req[c])
    BY <2>1, <2>2 DEF Asked, Pending
  <2>4. Heard("register", req[c], Answers(c))
    BY <2>1 DEF Heard, Awaiting
  <2> QED BY <1>1, <1>2, <1>3, <2>3, <2>4 DEF Talk
<1>5. Joining(c)'
  BY <1>1, <1>2, <1>3 DEF serverVars, Own, Joining
<1>6. Knows(c)'
  BY <1>1, <1>2, <1>3 DEF serverVars, Own, Knows, Moves, Complete
<1>7. Round(c)' /\ Calls(c)'
  BY <1>1, <1>2, <1>3 DEF serverVars, Own, Round, Calls, Moves, Left
<1>8. Own(c)'
  BY <1>4, <1>5, <1>6, <1>7 DEF Own
<1>9. /\ ~HasRegistered(c) /\ ~HasRegistered(c)'
      /\ c \notin Counted("kvbarrier") /\ c \notin Counted("kvbarrier")'
      /\ c \notin Counted("barrier") /\ c \notin Counted("barrier")'
  BY <1>1, <1>2 DEF HasRegistered, Counted
<1>10. Ended(c)' = Ended(c) /\ Through(c)' = Through(c)
  BY <1>1, <1>2 DEF Ended, Through, Moves
<1>11. ~Released(c)
  BY <1>1, <1>3, ReleasedWhen DEF Own, Left
<1> QED BY <1>1, <1>2, <1>3, <1>8, <1>9, <1>10, <1>11, ClientOwns

\* A client at work sends request m to server s, and waits if it is answered.
LEMMA WorkOwns ==
    ASSUME IInv, IInv', DInv, NEW c \in Clients, UNCHANGED <<serverVars, ans>>, Changes(c),
           client[c].pc = "work",
           client'[c].table = client[c].table, client'[c].passed = client[c].passed,
           Round(c)', Calls(c)',
           NEW s \in Servers, NEW m \in RequestOf(c),
           m.kind \in {"push", "call", "kvbarrier", "barrier"},
           m.kind \in {"kvbarrier", "barrier"} => s = 0,
           client'[c].pc = IF m.kind = "push" THEN "work" ELSE m.kind,
           client'[c].barriers = client[c].barriers + IF m.kind = "barrier" THEN 1 ELSE 0,
           req' = [req EXCEPT ![c][s] = Append(@, m)]
    PROVE  DInv'
<1>1. Own(c) /\ Answers(c)' = Answers(c)
  BY SameAnswers DEF DInv
<1>2. /\ \A t \in Servers : Len(Answers(c)[t]) = 0 /\ ~Pending(req[c][t])
      /\ \A t \in Servers : \A i \in 1..Len(req[c][t]) :
           req[c][t][i].kind \notin Awaiting /\ req[c][t][i].kind # "shutdown"
      /\ ~Told(Answers(c))
  BY <1>1, AtWork DEF Awaiting
<1>3. /\ \A d \in Clients \ {c} : req'[d] = req[d]
      /\ req'[c][s] = Append(req[c][s], m)
      /\ \A t \in Servers \ {s} : req'[c][t] = req[c][t]
  BY QuietRequests
<1>4. \A d \in Clients \ {c} : SameMessages(d)
  BY <1>3 DEF SameMessages
<1>5. \A t \in Servers : req[c][t] \in Seq(RequestOf(c)) /\ Len(req[c][t]) \in Nat
  BY Channels
<1>6. /\ Len(req'[c][s]) = Len(req[c][s]) + 1
      /\ \A i \in 1..Len(req'[c][s]) : req'[c][s][i] = m \/
           \E j \in 1..Len(req[c][s]) : req'[c][s][i] = req[c][s][j]
  <2>1. /\ Len(req'[c][s]) = Len(req[c][s]) + 1
        /\ \A i \in 1..Len(req[c][s]) : req'[c][s][i] = req[c][s][i]
        /\ req'[c][s][Len(req[c][s]) + 1] = m
    BY <1>3, <1>5, AppendProperties
  <2>2. \A i \in 1..Len(req'[c][s]) : i \in 1..Len(req[c][s]) \/ i = Len(req[c][s]) + 1
    BY <1>5, <2>1
  <2> QED BY <2>1, <2>2
<1>7. /\ Asked(client'[c].pc, req'[c])
      /\ m.kind # "push" => Pending(req'[c][s])
  <2>1. CASE m.kind = "push"
    <3>1. \A t \in Servers : \A i \in 1..Len(req'[c][t]) :
            /\ req'[c][t][i].kind \notin Awaiting
            /\ req'[c][t][i].kind # "shutdown"
      <4> SUFFICES ASSUME NEW t \in Servers, NEW i \in 1..Len(req'[c][t])
                   PROVE  req'[c][t][i].kind \notin Awaiting \cup {"shutdown"}
        OBVIOUS
      <4>1. CASE t = s
        BY <1>2, <1>6, <2>1, <4>1 DEF Awaiting
      <4>2. CASE t # s
        BY <1>2, <1>3, <4>2
      <4> QED BY <4>1, <4>2
    <3>2. client'[c].pc = "work"
      BY <2>1
    <3>3. Asked("work", req'[c])
      BY <3>1, AskedNothing
    <3> QED BY <2>1, <3>2, <3>3
  <2>2. CASE m.kind # "push"
    <3>1. m.kind \in Awaiting /\ (m.kind # "call" => s = 0) /\ client'[c].pc = m.kind
      BY <2>2 DEF Awaiting
    <3>2. /\ \A t \in Servers : req[c][t] \in Seq(RequestOf(c))
          /\ \A t \in Servers : \A i \in 1..Len(req[c][t]) :
               req[c][t][i].kind \notin Awaiting /\ req[c][t][i].kind # "shutdown"
      BY <1>2, <1>5
    <3>3. Asked(m.kind, req'[c]) /\ Pending(req'[c][s])
      <4>1. Asks(req[c], req'[c], s, m, RequestOf(c))
        BY <1>3, <3>1, <3>2 DEF Asks
      <4> QED BY <4>1, AskedOne
    <3> QED BY <3>1, <3>3
  <2> QED BY <2>1, <2>2
<1>8. client'[c].pc \in {"work", "call", "kvbarrier", "barrier"}
  OBVIOUS
<1>9. Talk(client[c].pc, req[c], Answers(c))'
  <2>1. Heard(client'[c].pc, req'[c], Answers(c))
    BY <1>2, HeardNothing
  <2> QED BY <1>1, <1>7, <1>8, <2>1 DEF Talk
<1>10. Joining(c)'
  <2>1. server' = server
    BY DEF serverVars
  <2>2. \A t \in Servers : server[t].namebook # <<>> =>
          \A i \in 1..Len(req'[c][t]) : req'[c][t][i].kind # "register"
    <3> SUFFICES ASSUME NEW t \in Servers, server[t].namebook # <<>>,
                        NEW i \in 1..Len(req'[c][t])
                 PROVE  req'[c][t][i].kind # "register"
      OBVIOUS
    <3>1. \A j \in 1..Len(req[c][t]) : req[c][t][j].kind # "register"
      BY <1>1 DEF Own, Joining
    <3>2. CASE t = s
      BY <1>6, <3>1, <3>2
    <3>3. CASE t # s
      BY <1>3, <3>1, <3>3
    <3> QED BY <3>2, <3>3
  <2> QED BY <1>1, <1>2, <1>8, <2>1, <2>2 DEF Joining
<1>11. Knows(c)'
  <2>1. roles' = roles
    BY DEF serverVars
  <2> QED BY <1>1, <1>2, <1>8, <2>1 DEF Own, Knows, Complete
<1>12. Own(c)'
  BY <1>9, <1>10, <1>11 DEF Own
<1>13. HasRegistered(c) /\ HasRegistered(c)' /\ ~Released(c)
  <2>1. ~Released(c)
    BY <1>1, ReleasedWhen DEF Own, Left
  <2> QED BY <1>1, <1>2, <1>8, <2>1 DEF HasRegistered
<1>14. Ended(c)' = Ended(c) /\ Through(c)' = Through(c)
  <2>1. client[c].barriers \in Nat
    BY <1>1, ReleasedWhen DEF Own
  <2>2. Through(c) = client[c].barriers
    BY <2>1 DEF Through
  <2>3. client'[c].pc = "barrier" <=> m.kind = "barrier"
    OBVIOUS
  <2>4. Through(c)' = client[c].barriers
    BY <1>1, <1>2, <2>1, <2>3 DEF Through
  <2> QED BY <1>1, <1>2, <2>2, <2>4 DEF Ended
<1>15. /\ c \notin Counted("kvbarrier") /\ c \notin Counted("kvbarrier")'
       /\ c \notin Counted("barrier") /\ c \notin Counted("barrier")'
  <2>1. client'[c].pc \in {"kvbarrier", "barrier"} => ~Quiet(req'[c], Answers(c)')
    BY <1>7 DEF Quiet
  <2> QED BY <2>1 DEF Counted
<1>16. UNCHANGED serverVars
  OBVIOUS
<1> QED BY <1>4, <1>12, <1>13, <1>14, <1>15, <1>16, ClientOwns

\* Calls, pushes and barriers.
LEMMA WorkStepOwns ==
    ASSUME IInv, IInv', DInv, NEW c \in Clients, NEW s \in Servers,
           \/ Call(c, s) \/ Push(c, s) \/ EnterKvBarrier(c) \/ EnterBarrier(c)
    PROVE  DInv'
<1> DEFINE r == client[c]
           M(kind) == [kind |-> kind, from |-> c, id |-> client[c].id]
<1>1. /\ 0 \in Servers /\ r \in Program /\ r.pc = "work" /\ r.id = c
      /\ DOMAIN client = Clients
  BY NoIdProperties DEF Call, Push, EnterKvBarrier, EnterBarrier, IInv, Types, Joined
<1>2. /\ r.entered \in Nat /\ r.passed \in Nat /\ r.work \in Nat
      /\ r.entered = r.passed /\ r.entered <= MaxRounds /\ r.work <= MaxWork[c]
      /\ MaxRounds \in Nat /\ MaxWork[c] \in Nat
  <2>1. r.entered \in Nat /\ r.passed \in Nat /\ r.work \in Nat
    BY <1>1 DEF Program
  <2>2. MaxRounds \in Nat /\ MaxWork[c] \in Nat
    BY SessionAssumption
  <2>3. Round(c)
    BY DEF DInv, Own
  <2> QED BY <1>1, <2>1, <2>2, <2>3 DEF Round
<1>9. /\ r.barriers \in Nat /\ MaxBarriers \in Nat /\ r.barriers <= MaxBarriers
  <2>1. Calls(c)
    BY DEF DInv, Own
  <2> QED BY <1>1, <2>1, ReleasedWhen DEF Calls, Left
<1>3. "work" \in Pcs /\ "call" \in Pcs /\ "kvbarrier" \in Pcs /\ "barrier" \in Pcs
  BY DEF Pcs
<1>4. \A kind \in {"push", "call", "kvbarrier", "barrier"} :
        M(kind) \in RequestOf(c) /\ M(kind).kind = kind
  BY <1>1 DEF RequestOf, Kinds
<1>5. CASE Call(c, s)
  <2> DEFINE now == [r EXCEPT !.pc = "call", !.work = @ + 1]
  <2>1. /\ UNCHANGED <<serverVars, ans>> /\ r.work < MaxWork[c]
        /\ req' = [req EXCEPT ![c][s] = Append(@, M("call"))]
        /\ client' = [client EXCEPT ![c] = now]
    BY <1>1, <1>5 DEF Call, Send
  <2>2. now \in Program
    BY <1>1, <1>3, RecordProperties
  <2>3. /\ now.pc = "call" /\ now.table = r.table
        /\ now.entered = r.entered /\ now.passed = r.passed
        /\ now.work = r.work + 1 /\ now.barriers = r.barriers
    BY ZenonT(60), <1>1, <1>3, RecordProperties, OtherFields, OtherBarriers
  <2> HIDE DEF now
  <2>4. Changes(c) /\ client'[c] = now
    BY <2>1, <2>2, ChangesOne
  <2>5. Round(c)' /\ Calls(c)'
    BY <1>2, <1>9, <2>1, <2>3, <2>4 DEF Round, Calls, Left
  <2>6. client'[c].barriers = r.barriers + 0
    BY <1>9, <2>3, <2>4
  <2> HIDE DEF r, M
  <2> QED BY <1>1, <1>4, <2>1, <2>3, <2>4, <2>5, <2>6, WorkOwns DEF r
<1>6. CASE Push(c, s)
  <2> DEFINE now == [r EXCEPT !.work = @ + 1]
  <2>1. /\ UNCHANGED <<serverVars, ans>> /\ r.work < MaxWork[c]
        /\ req' = [req EXCEPT ![c][s] = Append(@, M("push"))]
        /\ client' = [client EXCEPT ![c] = now]
    BY <1>1, <1>6 DEF Push, Send
  <2>2. now \in Program
    BY <1>1, <1>3, RecordProperties
  <2>3. /\ now.pc = "work" /\ now.table = r.table
        /\ now.entered = r.entered /\ now.passed = r.passed
        /\ now.work = r.work + 1 /\ now.barriers = r.barriers
    BY ZenonT(60), <1>1, <1>3, RecordProperties, OtherFields, OtherBarriers
  <2> HIDE DEF now
  <2>4. Changes(c) /\ client'[c] = now
    BY <2>1, <2>2, ChangesOne
  <2>5. Round(c)' /\ Calls(c)'
    BY <1>2, <1>9, <2>1, <2>3, <2>4 DEF Round, Calls, Left
  <2>6. client'[c].barriers = r.barriers + 0
    BY <1>9, <2>3, <2>4
  <2> HIDE DEF r, M
  <2> QED BY <1>1, <1>4, <2>1, <2>3, <2>4, <2>5, <2>6, WorkOwns DEF r
<1>7. CASE EnterKvBarrier(c)
  <2> DEFINE now == [r EXCEPT !.pc = "kvbarrier", !.entered = @ + 1]
  <2>1. /\ UNCHANGED <<serverVars, ans>> /\ r.entered < MaxRounds
        /\ req' = [req EXCEPT ![c][0] = Append(@, M("kvbarrier"))]
        /\ client' = [client EXCEPT ![c] = now]
    BY <1>1, <1>7 DEF EnterKvBarrier, Send
  <2>2. now \in Program
    BY <1>1, <1>3, RecordProperties
  <2>3. /\ now.pc = "kvbarrier" /\ now.table = r.table
        /\ now.entered = r.entered + 1 /\ now.passed = r.passed
        /\ now.work = r.work /\ now.barriers = r.barriers
    BY ZenonT(60), <1>1, <1>3, RecordProperties, OtherFields, OtherBarriers
  <2> HIDE DEF now
  <2>4. Changes(c) /\ client'[c] = now
    BY <2>1, <2>2, ChangesOne
  <2>5. Round(c)' /\ Calls(c)'
    BY <1>2, <1>9, <2>1, <2>3, <2>4 DEF Round, Calls, Left
  <2>6. client'[c].barriers = r.barriers + 0
    BY <1>9, <2>3, <2>4
  <2> HIDE DEF r, M
  <2> QED BY <1>1, <1>4, <2>1, <2>3, <2>4, <2>5, <2>6, WorkOwns DEF r
<1>8. CASE EnterBarrier(c)
  <2> DEFINE now == [r EXCEPT !.pc = "barrier", !.barriers = @ + 1]
  <2>1. /\ UNCHANGED <<serverVars, ans>>
        /\ req' = [req EXCEPT ![c][0] = Append(@, M("barrier"))]
        /\ client' = [client EXCEPT ![c] = now]
    BY <1>1, <1>8 DEF EnterBarrier, Send
  <2>2. now \in Program /\ now.pc = "barrier"
    BY <1>1, <1>3, BarriersProperties
  <2>3. /\ now.table = r.table /\ now.entered = r.entered /\ now.passed = r.passed
        /\ now.work = r.work /\ now.barriers = r.barriers + 1
    BY <1>1, <1>3, BarriersFields
  <2> HIDE DEF now
  <2>4. Changes(c) /\ client'[c] = now
    BY <2>1, <2>2, ChangesOne
  <2>5. Round(c)' /\ Calls(c)'
    BY <1>2, <1>9, <2>2, <2>3, <2>4 DEF Round, Calls, Left
  <2> HIDE DEF r, M
  <2> QED BY <1>1, <1>4, <2>1, <2>2, <2>3, <2>4, <2>5, WorkOwns DEF r
<1> QED BY <1>5, <1>6, <1>7, <1>8

\* exit_client: client 0 tells every server to shut down, and everybody ends.
LEMMA LeaveOwns ==
    ASSUME IInv, IInv', DInv, NEW c \in Clients, ShutdownServers(c) \/ Exit(c) PROVE DInv'
<1>1. PICK pc \in {"final", "done"} : Become(c, pc) /\ UNCHANGED serverVars /\ ans' = ans
  BY DEF ShutdownServers, Exit
<1>2. client[c].pc \in {"shutdown", "final"}
  BY DEF ShutdownServers, Exit
<1>3. Changes(c) /\ client'[c].pc = pc /\ Moves(c)
  BY <1>1, BecomeMoves DEF Pcs
<1>4. Own(c) /\ Answers(c)' = Answers(c)
  BY <1>1, SameAnswers DEF DInv
<1>5. /\ \A s \in Servers : Len(Answers(c)[s]) = 0
      /\ \A s \in Servers : \A i \in 1..Len(req[c][s]) : req[c][s][i].kind \notin Awaiting
      /\ ~Told(Answers(c))
  BY <1>2, <1>4, AtWork DEF Awaiting
<1>6. /\ \A d \in Clients \ {c} : req'[d] = req[d]
      /\ \A s \in Servers : \A i \in 1..Len(req'[c][s]) :
           req'[c][s][i].kind = "shutdown" \/
             \E j \in 1..Len(req[c][s]) : req'[c][s][i] = req[c][s][j]
  <2>1. CASE UNCHANGED req
    BY <2>1
  <2>2. CASE ~UNCHANGED req
    <3> DEFINE m == [kind |-> "shutdown", from |-> c, id |-> 0]
    <3>1. req' = [req EXCEPT ![c] = [s \in Servers |-> Append(@[s], m)]]
      BY <2>2 DEF ShutdownServers, Exit
    <3>2. /\ \A d \in Clients \ {c} : req'[d] = req[d]
          /\ \A s \in Servers : req'[c][s] = Append(req[c][s], m)
      BY <3>1, QuietRequests
    <3>3. ASSUME NEW s \in Servers, NEW i \in 1..Len(req'[c][s])
          PROVE  req'[c][s][i].kind = "shutdown" \/
                   \E j \in 1..Len(req[c][s]) : req'[c][s][i] = req[c][s][j]
      <4> DEFINE q == req[c][s]
      <4>1. q \in Seq(RequestOf(c)) /\ Len(q) \in Nat
        BY Channels
      <4>2. m.kind = "shutdown" /\ req'[c][s] = Append(q, m)
        BY <3>2
      <4>3. CASE c = 0
        <5>1. m \in RequestOf(c)
          BY <4>3 DEF RequestOf, Kinds
        <5> HIDE DEF q, m
        <5>2. /\ Len(req'[c][s]) = Len(q) + 1
              /\ \A j \in 1..Len(q) : req'[c][s][j] = q[j]
              /\ req'[c][s][Len(q) + 1] = m
          BY <4>1, <4>2, <5>1, AppendProperties
        <5>3. i \in 1..Len(q) \/ i = Len(q) + 1
          BY <4>1, <5>2
        <5> QED BY <4>2, <5>2, <5>3 DEF q
      <4>4. CASE c # 0
        <5>1. client[c].id = c
          BY <1>2 DEF IInv, Joined
        <5> QED BY <2>2, <4>4, <5>1 DEF ShutdownServers, Exit
      <4> QED BY <4>3, <4>4
    <3> QED BY <3>2, <3>3
  <2> QED BY <2>1, <2>2
<1>7. Talk(client[c].pc, req[c], Answers(c))'
  <2>1. Asked(pc, req'[c])
    <3>1. \A s \in Servers : \A i \in 1..Len(req'[c][s]) : req'[c][s][i].kind \notin Awaiting
      BY <1>5, <1>6 DEF Awaiting
    <3> QED BY <3>1, AskedNothing
  <2>2. Heard(pc, req'[c], Answers(c))
    BY <1>5, HeardNothing
  <2> QED BY <1>3, <1>4, <2>1, <2>2 DEF Talk
<1>8. Joining(c)'
  <2>1. server' = server
    BY <1>1 DEF serverVars
  <2>2. ASSUME NEW s \in Servers, server[s].namebook # <<>>, NEW i \in 1..Len(req'[c][s])
        PROVE  req'[c][s][i].kind # "register"
    <3>1. \A j \in 1..Len(req[c][s]) : req[c][s][j].kind # "register"
      BY <1>4, <2>2 DEF Own, Joining
    <3> QED BY <1>6, <3>1
  <2> QED BY <1>3, <1>4, <1>5, <2>1, <2>2 DEF Joining
<1>9. Knows(c)'
  <2>1. roles' = roles
    BY <1>1 DEF serverVars
  <2> QED BY <1>2, <1>3, <1>4, <2>1 DEF Own, Knows, Complete, Moves
<1>10. Round(c)' /\ Calls(c)'
  BY <1>2, <1>3, <1>4 DEF Own, Round, Calls, Moves, Left
<1>11. Own(c)'
  BY <1>7, <1>8, <1>9, <1>10 DEF Own
<1>12. /\ HasRegistered(c) /\ HasRegistered(c)'
       /\ c \notin Counted("kvbarrier") /\ c \notin Counted("kvbarrier")'
       /\ c \notin Counted("barrier") /\ c \notin Counted("barrier")'
  BY <1>2, <1>3 DEF HasRegistered, Counted
<1>13. Ended(c)' = Ended(c) /\ Through(c)' = Through(c)
  BY <1>2, <1>3 DEF Ended, Through, Moves
<1>14. Flushed(c)'
  <2>1. Released(c)
    BY <1>2, <1>4, ReleasedWhen DEF Own, Left
  <2>2. Flushed(c) /\ 0 \in Servers
    BY <2>1, NoIdProperties DEF DInv, Joint, Exits
  <2> QED BY <1>6, <2>2 DEF Flushed
<1>15. \A d \in Clients \ {c} : SameMessages(d)
  BY <1>1, <1>6 DEF SameMessages
<1> QED BY <1>1, <1>3, <1>11, <1>12, <1>13, <1>14, <1>15, ClientOwns

\* What an answer changes in the client's record.
LEMMA LearntFields ==
    ASSUME NEW c \in Clients, NEW r \in Program, NEW a \in ResponseTo(c), NEW pc \in Pcs
    PROVE  /\ [Learnt(r, a) EXCEPT !.pc = pc].table = IF a.kind = "roles" THEN a.table ELSE r.table
           /\ [Learnt(r, a) EXCEPT !.pc = pc].passed =
                IF a.kind = "kvbarrier" THEN r.passed + 1 ELSE r.passed
           /\ [Learnt(r, a) EXCEPT !.pc = pc].entered = r.entered
           /\ [Learnt(r, a) EXCEPT !.pc = pc].work = r.work
           /\ [Learnt(r, a) EXCEPT !.pc = pc].barriers = r.barriers
<1>1. a.table \in Seq(Registration) /\ a.id = c
  BY DEF ResponseTo
<1>2. /\ Learnt(r, a) \in Program
      /\ Learnt(r, a).table = IF a.kind = "roles" THEN a.table ELSE r.table
      /\ Learnt(r, a).passed = IF a.kind = "kvbarrier" THEN r.passed + 1 ELSE r.passed
      /\ Learnt(r, a).entered = r.entered
      /\ Learnt(r, a).work = r.work /\ Learnt(r, a).barriers = r.barriers
  <2>1. CASE a.kind = "register"
    <3>1. Learnt(r, a) = [r EXCEPT !.id = c]
      BY <1>1, <2>1 DEF Learnt
    <3>2. /\ [r EXCEPT !.id = c] \in Program
          /\ [r EXCEPT !.id = c].table = r.table /\ [r EXCEPT !.id = c].passed = r.passed
          /\ [r EXCEPT !.id = c].entered = r.entered /\ [r EXCEPT !.id = c].work = r.work
          /\ [r EXCEPT !.id = c].barriers = r.barriers
      BY DEF Program
    <3> QED BY <2>1, <3>1, <3>2
  <2>2. CASE a.kind = "roles"
    <3>1. Learnt(r, a) = [r EXCEPT !.table = a.table]
      BY <2>2 DEF Learnt
    <3>2. ASSUME NEW t \in Seq(Registration)
          PROVE  /\ [r EXCEPT !.table = t] \in Program
                 /\ [r EXCEPT !.table = t].table = t /\ [r EXCEPT !.table = t].passed = r.passed
                 /\ [r EXCEPT !.table = t].entered = r.entered
                 /\ [r EXCEPT !.table = t].work = r.work
                 /\ [r EXCEPT !.table = t].barriers = r.barriers
      BY DEF Program
    <3> QED BY <1>1, <2>2, <3>1, <3>2
  <2>3. CASE a.kind = "kvbarrier"
    <3>1. Learnt(r, a) = [r EXCEPT !.passed = r.passed + 1] /\ r.passed + 1 \in Nat
      BY <2>3 DEF Learnt, Program
    <3>2. ASSUME NEW n \in Nat
          PROVE  /\ [r EXCEPT !.passed = n] \in Program
                 /\ [r EXCEPT !.passed = n].table = r.table /\ [r EXCEPT !.passed = n].passed = n
                 /\ [r EXCEPT !.passed = n].entered = r.entered
                 /\ [r EXCEPT !.passed = n].work = r.work
                 /\ [r EXCEPT !.passed = n].barriers = r.barriers
      BY DEF Program
    <3> QED BY <2>3, <3>1, <3>2
  <2>4. CASE a.kind \notin {"register", "roles", "kvbarrier"}
    <3>1. Learnt(r, a) = r
      BY <2>4 DEF Learnt
    <3> QED BY <2>4, <3>1
  <2> QED BY <2>1, <2>2, <2>3, <2>4
<1> HIDE DEF Learnt
<1> QED BY <1>2, OtherFields, OtherBarriers

\* recv_response: the answer is the one the client waits for, so it goes on
\* and may send its next request.
LEMMA ReceiveOwns ==
    ASSUME IInv, IInv', DInv, NEW c \in Clients, NEW s \in Servers, Receive(c, s)
    PROVE  DInv'
<1> DEFINE a == Head(ans[s][c])
           pc == client[c].pc
           expected == a.kind = pc /\ client[c].id \in {a.id, NoId}
           now == [Learnt(client[c], a) EXCEPT !.pc = GoesOn(client[c])]
           m == [kind |-> now.pc, from |-> c, id |-> now.id]
<1>1. /\ pc \in DOMAIN After /\ ans[s][c] # <<>>
      /\ ans' = [ans EXCEPT ![s][c] = Tail(@)]
      /\ expected => client' = [client EXCEPT ![c] = now]
      /\ expected => req' = IF now.pc \in Requests THEN [req EXCEPT ![c][0] = Append(@, m)] ELSE req
      /\ UNCHANGED serverVars
  <2>1. /\ pc \in DOMAIN After /\ ans[s][c] # <<>>
        /\ ans' = [ans EXCEPT ![s][c] = Tail(@)]
        /\ client' = [client EXCEPT ![c] = IF expected THEN now
                                           ELSE [client[c] EXCEPT !.pc = "failed"]]
        /\ req' = IF expected /\ now.pc \in Requests
                  THEN [req EXCEPT ![c][0] = Append(@, m)] ELSE req
        /\ UNCHANGED serverVars
    BY DEF Receive
  <2> HIDE DEF expected, now, m, a
  <2> QED BY <2>1
<1>2. Own(c) /\ Asked(pc, req[c]) /\ Heard(pc, req[c], Answers(c))
  BY DEF DInv, Own, Talk
<1>3. /\ ans[s][c] \in Seq(ResponseTo(c)) /\ Len(ans[s][c]) # 0 /\ Len(ans[s][c]) \in Nat
      /\ Answers(c)[s] = ans[s][c] /\ a \in ResponseTo(c) /\ a = ans[s][c][1] /\ a.id = c
      /\ Len(Tail(ans[s][c])) = Len(ans[s][c]) - 1
  <2>1. ans[s][c] \in Seq(ResponseTo(c)) /\ Answers(c)[s] = ans[s][c] /\ Len(ans[s][c]) \in Nat
    BY Channels
  <2>2. /\ Len(ans[s][c]) # 0 /\ a \in ResponseTo(c) /\ a = ans[s][c][1]
        /\ Len(Tail(ans[s][c])) = Len(ans[s][c]) - 1
    BY <1>1, <2>1, HeadTailProperties, EmptySeq
  <2> HIDE DEF a
  <2>3. a.id = c
    BY <2>2 DEF ResponseTo
  <2> QED BY <2>1, <2>2, <2>3
<1> HIDE DEF a
<1>4. /\ a.kind = pc /\ (pc # "call" => s = 0) /\ Len(ans[s][c]) <= 1
      /\ \A t \in Servers : ~Pending(req[c][t])
      /\ \A t \in Servers \ {s} : Len(Answers(c)[t]) = 0
  <2>1. pc # "accept"
    BY <1>1 DEF After
  <2> QED BY <1>2, <1>3, <2>1 DEF Heard
<1>5. Told(Answers(c))
  BY <1>3 DEF Told
<1>6. expected
  BY <1>3, <1>4 DEF IInv, Joined
<1>7. pc \in {"register", "num", "role", "roles", "call", "kvbarrier", "barrier"}
  BY <1>1 DEF After
<1>8. client[c] \in Program /\ pc \in Pcs
  BY DEF IInv, Types, Program
<1>9. GoesOn(client[c]) \in Pcs
  BY <1>1, AfterProperties
<1>10. /\ now \in Program /\ now.pc = GoesOn(client[c])
       /\ now.id = IF a.kind = "register" THEN c ELSE client[c].id
       /\ now.table = IF a.kind = "roles" THEN a.table ELSE client[c].table
       /\ now.passed = IF a.kind = "kvbarrier" THEN client[c].passed + 1 ELSE client[c].passed
       /\ now.entered = client[c].entered /\ now.work = client[c].work
       /\ now.barriers = client[c].barriers
  <2>1. /\ now \in Program /\ now.pc = GoesOn(client[c])
        /\ now.id = IF a.kind = "register" THEN c ELSE client[c].id
    BY <1>3, <1>8, <1>9, LearntProperties
  <2>2. /\ now.table = IF a.kind = "roles" THEN a.table ELSE client[c].table
        /\ now.passed = IF a.kind = "kvbarrier" THEN client[c].passed + 1 ELSE client[c].passed
        /\ now.entered = client[c].entered /\ now.work = client[c].work
        /\ now.barriers = client[c].barriers
    BY <1>3, <1>8, <1>9, LearntFields
  <2> QED BY <2>1, <2>2
<1>11. now.id = c
  BY <1>4, <1>7, <1>10 DEF IInv, Joined
<1> HIDE DEF now, expected
<1>12. Changes(c) /\ client'[c] = now
  BY <1>1, <1>6, <1>10, ChangesOne
<1>13. \A t \in Servers : Len(Answers(c)'[t]) = 0
  <2> SUFFICES ASSUME NEW t \in Servers PROVE Len(Answers(c)'[t]) = 0
    OBVIOUS
  <2>0. DOMAIN ans = Servers /\ \A u \in Servers : DOMAIN ans[u] = Clients
    BY DEF IInv, Answered
  <2>1. Answers(c)'[t] = ans'[t][c]
    BY DEF Answers
  <2>2. CASE t = s
    <3>1. ans'[t][c] = Tail(ans[s][c])
      BY <1>1, <2>0, <2>2
    <3>2. Len(Tail(ans[s][c])) = 0
      <4>1. \A n \in Nat : n # 0 /\ n <= 1 => n - 1 = 0
        OBVIOUS
      <4> QED BY <1>3, <1>4, <4>1, Zenon
    <3> QED BY <2>1, <3>1, <3>2
  <2>3. CASE t # s
    <3>1. ans'[t][c] = ans[t][c]
      BY <1>1, <2>0, <2>3
    <3>2. ans[t][c] = Answers(c)[t]
      BY DEF Answers
    <3>3. Len(Answers(c)[t]) = 0
      BY <1>4, <2>3
    <3> QED BY <2>1, <3>1, <3>2, <3>3
  <2> QED BY <2>2, <2>3
<1>14. ~Told(Answers(c)')
  BY <1>13 DEF Told
<1>15. \A t \in Servers : \A i \in 1..Len(req[c][t]) :
         req[c][t][i].kind \notin Awaiting /\ req[c][t][i].kind # "shutdown"
  BY <1>2, <1>4, <1>7 DEF Asked, Pending
<1>16. /\ pc = "register" => now.pc = "num"
       /\ pc = "num" => now.pc = "role"
       /\ pc = "role" => now.pc = "roles"
       /\ pc \in {"roles", "call", "kvbarrier"} => now.pc = "work"
       /\ pc = "barrier" => now.pc = IF client[c].barriers <= MaxBarriers THEN "work" ELSE "shutdown"
  BY <1>10 DEF After, GoesOn
<1>17. /\ \A d \in Clients \ {c} : req'[d] = req[d]
       /\ \A t \in Servers : \A i \in 1..Len(req'[c][t]) :
            req'[c][t][i].kind \in Requests \/
              \E j \in 1..Len(req[c][t]) : req'[c][t][i] = req[c][t][j]
       /\ Asked(now.pc, req'[c])
       /\ now.pc \in Requests => Pending(req'[c][0])
       /\ now.pc \notin Requests => req' = req
  <2>1. CASE now.pc \in Requests
    <3>1. /\ req' = [req EXCEPT ![c][0] = Append(@, m)] /\ 0 \in Servers
          /\ m.kind = now.pc /\ m.kind \in Awaiting
      BY <1>1, <1>6, <2>1, NoIdProperties DEF Requests, Awaiting
    <3>2. m \in RequestOf(c)
      BY <1>11, <2>1 DEF RequestOf, Kinds, Requests
    <3> HIDE DEF m
    <3>3. /\ \A d \in Clients \ {c} : req'[d] = req[d]
          /\ req'[c][0] = Append(req[c][0], m)
          /\ \A t \in Servers \ {0} : req'[c][t] = req[c][t]
      BY <3>1, QuietRequests
    <3>4. \A t \in Servers : req[c][t] \in Seq(RequestOf(c))
      BY Channels
    <3>5. Asks(req[c], req'[c], 0, m, RequestOf(c))
      BY <1>15, <3>1, <3>2, <3>3, <3>4 DEF Asks
    <3>6. /\ Asked(m.kind, req'[c]) /\ Pending(req'[c][0])
          /\ \A i \in 1..Len(req'[c][0]) :
               req'[c][0][i] = m \/ \E j \in 1..Len(req[c][0]) : req'[c][0][i] = req[c][0][j]
      BY <3>5, AskedOne
    <3>7. ASSUME NEW t \in Servers, NEW i \in 1..Len(req'[c][t])
          PROVE  req'[c][t][i].kind \in Requests \/
                   \E j \in 1..Len(req[c][t]) : req'[c][t][i] = req[c][t][j]
      <4>1. CASE t = 0
        BY <2>1, <3>1, <3>6, <4>1
      <4>2. CASE t # 0
        BY <3>3, <4>2
      <4> QED BY <4>1, <4>2
    <3> QED BY <2>1, <3>1, <3>3, <3>6, <3>7
  <2>2. CASE now.pc \notin Requests
    <3>1. req' = req
      BY <1>1, <1>6, <2>2
    <3>2. now.pc \in {"work", "shutdown"}
      BY <1>7, <1>16, <2>2 DEF Requests
    <3>3. Asked(now.pc, req[c])
      BY <1>15, <3>2, AskedNothing
    <3> QED BY <2>2, <3>1, <3>3
  <2> QED BY <2>1, <2>2
<1>18. Talk(client[c].pc, req[c], Answers(c))'
  <2>1. Heard(now.pc, req'[c], Answers(c)')
    BY <1>13, HeardNothing
  <2>2. now.pc # "failed"
    BY <1>7, <1>16
  <2> QED BY <1>12, <1>17, <2>1, <2>2 DEF Talk
<1>19. Joining(c)'
  <2>1. server' = server
    BY <1>1 DEF serverVars
  <2>2. ASSUME NEW t \in Servers, server[t].namebook # <<>>, NEW i \in 1..Len(req'[c][t])
        PROVE  req'[c][t][i].kind # "register"
    <3>1. \A j \in 1..Len(req[c][t]) : req[c][t][j].kind # "register"
      BY <1>2, <2>2 DEF Own, Joining
    <3> QED BY <1>17, <3>1 DEF Requests
  <2>3. client'[c].pc # "start"
    BY <1>7, <1>12, <1>16
  <2> QED BY <1>14, <2>1, <2>2, <2>3 DEF Joining
<1>20. Knows(c)'
  <2>1. roles' = roles /\ Complete' = Complete
    BY <1>1 DEF serverVars, Complete
  <2>2. Knows(c)
    BY <1>2 DEF Own
  <2>3. pc = "roles" => a.table = roles
    BY <1>3, <1>4, <1>5, <2>2 DEF Knows
  <2>4. pc \notin {"register", "num"} => Complete
    BY <1>5, <1>7, <2>2 DEF Knows
  <2>5. client'[c].pc \notin {"start", "accept", "register", "num", "role"} => Complete
    BY <1>7, <1>12, <1>16, <2>4
  <2>6. client'[c].table = <<>> \/ (client'[c].table = roles /\ Complete)
    <3>1. CASE pc = "roles"
      BY <1>4, <1>10, <1>12, <2>3, <2>4, <3>1
    <3>2. CASE pc # "roles"
      <4>1. client'[c].table = client[c].table
        BY <1>4, <1>10, <1>12, <3>2
      <4> QED BY <2>2, <4>1 DEF Knows
    <3> QED BY <3>1, <3>2
  <2> QED BY <1>14, <2>1, <2>5, <2>6 DEF Knows
<1>21. Round(c)'
  <2>1. Round(c) /\ client[c].passed \in Nat
    BY <1>2, <1>8 DEF Own, Program
  <2>2. client'[c].pc # "kvbarrier"
    BY <1>7, <1>12, <1>16
  <2>3. CASE pc = "kvbarrier"
    <3>1. now.passed = client[c].passed + 1
      BY <1>4, <1>10, <2>3
    <3> QED BY <1>10, <1>12, <2>1, <2>2, <2>3, <3>1 DEF Round
  <2>4. CASE pc # "kvbarrier"
    <3>1. now.passed = client[c].passed
      BY <1>4, <1>10, <2>4
    <3> QED BY <1>10, <1>12, <2>1, <2>2, <2>4, <3>1 DEF Round
  <2> QED BY <2>3, <2>4
<1>29. Calls(c) /\ client[c].barriers \in Nat /\ MaxBarriers \in Nat
  BY <1>2, ReleasedWhen DEF Own
<1>30. Calls(c)'
  <2>1. client'[c].barriers = client[c].barriers /\ client'[c].pc = now.pc
    BY <1>10, <1>12
  <2>2. CASE pc = "barrier"
    BY <1>16, <1>29, <2>1, <2>2 DEF Calls, Left
  <2>3. CASE pc # "barrier"
    <3>1. client[c].barriers <= MaxBarriers
      BY <1>7, <1>29, <2>3 DEF Calls, Left
    <3>2. now.pc \notin Left \cup {"barrier"}
      BY <1>7, <1>16, <2>3 DEF Left
    <3> QED BY <1>29, <2>1, <3>1, <3>2 DEF Calls, Left
  <2> QED BY <2>2, <2>3
<1>22. Own(c)'
  BY <1>18, <1>19, <1>20, <1>21, <1>30 DEF Own
<1>23. HasRegistered(c)' <=> HasRegistered(c)
  <2>1. 0 \in Servers
    BY NoIdProperties
  <2> QED BY <1>4, <1>7, <1>12, <1>16, <1>17, <2>1 DEF HasRegistered, Requests
<1>24. Ended(c)' = Ended(c)
  <2>1. client'[c].pc # "kvbarrier" /\ client[c].passed \in Nat
    BY <1>7, <1>8, <1>12, <1>16 DEF Program
  <2>2. CASE pc = "kvbarrier"
    <3>1. now.passed = client[c].passed + 1
      BY <1>4, <1>10, <2>2
    <3> QED BY <1>5, <1>12, <2>1, <2>2, <3>1 DEF Ended
  <2>3. CASE pc # "kvbarrier"
    <3>1. now.passed = client[c].passed
      BY <1>4, <1>10, <2>3
    <3> QED BY <1>12, <2>1, <2>3, <3>1 DEF Ended
  <2> QED BY <2>2, <2>3
<1>25. /\ c \notin Counted("kvbarrier") /\ c \notin Counted("kvbarrier")'
       /\ c \notin Counted("barrier") /\ c \notin Counted("barrier")'
  <2>1. ~Quiet(req[c], Answers(c))
    BY <1>5 DEF Told, Quiet
  <2>2. client'[c].pc \notin {"kvbarrier", "barrier"}
    BY <1>7, <1>12, <1>16
  <2> QED BY <2>1, <2>2 DEF Counted
<1>26. Through(c)' = Through(c)
  <2>1. client'[c].pc # "barrier" /\ client'[c].barriers = client[c].barriers
    BY <1>7, <1>10, <1>12, <1>16
  <2> QED BY <1>5, <2>1 DEF Through
<1>27. Released(c) => Flushed(c)'
  <2> SUFFICES ASSUME Released(c) PROVE Flushed(c)'
    OBVIOUS
  <2>1. pc = "barrier"
    BY <1>7, <1>29, ReleasedWhen DEF Left
  <2>2. req' = req
    BY <1>16, <1>17, <2>1 DEF Requests
  <2>3. Flushed(c)
    BY DEF DInv, Joint, Exits
  <2> QED BY <2>2, <2>3 DEF Flushed
<1>28. \A d \in Clients \ {c} : SameMessages(d)
  <2>1. DOMAIN ans = Servers /\ \A u \in Servers : DOMAIN ans[u] = Clients
    BY DEF IInv, Answered
  <2>2. \A t \in Servers : \A d \in Clients \ {c} : ans'[t][d] = ans[t][d]
    BY <1>1, <2>1
  <2> QED BY <1>17, <2>2 DEF SameMessages
<1> QED BY <1>1, <1>12, <1>22, <1>23, <1>24, <1>25, <1>26, <1>27, <1>28, ClientOwns

\* Every step of a client keeps the invariant.
LEMMA StepOwns ==
    ASSUME IInv, IInv', DInv, NEW c \in Clients, Step(c) PROVE DInv'
  BY RegisterOwns, AcceptOwns, ReceiveOwns, WorkStepOwns, LeaveOwns, NoIdProperties DEF Step

-----------------------------------------------------------------------------
(* Steps of a server *)

\* What the others and the servers see of client d does not change.
Stands(d) ==
    /\ HasRegistered(d)' <=> HasRegistered(d)
    /\ Ended(d)' = Ended(d)
    /\ Through(d)' = Through(d)
    /\ d \in Counted("kvbarrier")' <=> d \in Counted("kvbarrier")
    /\ d \in Counted("barrier")' <=> d \in Counted("barrier")

\* No message is new in the client's channels.
NoneNew(d) ==
    \A t \in Servers : \A i \in 1..Len(req'[d][t]) :
      \E j \in 1..Len(req[d][t]) : req'[d][t][i] = req[d][t][j]

SameBooks == \A t \in Servers : server'[t].namebook = server[t].namebook

LEMMA NoneNewFlushed ==
    ASSUME NEW d \in Clients, NoneNew(d) PROVE Flushed(d) => Flushed(d)'
  BY SMTT(30), NoIdProperties DEF NoneNew, Flushed

\* A step in which every client stands as before.
LEMMA JointKeeps ==
    ASSUME DInv, UNCHANGED <<roles, barrier_count, kv_count>>, NumberedOnce',
           \A d \in Clients : Stands(d) /\ NoneNew(d)
    PROVE  Joint'
<1>1. NumberedOnce /\ Table /\ SameRound /\ SameExit /\ KvCounts /\ ExitCount /\ Exits
  BY DEF DInv, Joint
<1>2. Counted("kvbarrier")' = Counted("kvbarrier") /\ Counted("barrier")' = Counted("barrier")
  BY DEF Stands, Counted
<1>3. Table' /\ SameRound' /\ SameExit'
  BY <1>1, Zenon DEF Table, SameRound, SameExit, Stands
<1>4. KvCounts' /\ ExitCount'
  BY <1>1, <1>2 DEF KvCounts, ExitCount
<1>5. Exits'
  BY <1>1, NoneNewFlushed, Zenon DEF Exits, Stands, Released
<1> QED BY <1>3, <1>4, <1>5 DEF Joint

\* A client whose messages do not change.
LEMMA OthersOwn ==
    ASSUME DInv, NEW d \in Clients, UNCHANGED client, SameMessages(d), SameBooks, roles' = roles
    PROVE  Own(d)' /\ Stands(d) /\ NoneNew(d)
<1>1. /\ client'[d] = client[d] /\ req'[d] = req[d] /\ Answers(d)' = Answers(d)
      /\ ans'[0][d] = ans[0][d] /\ Complete' = Complete
  BY NoIdProperties, SameAnswers DEF SameMessages, Complete
<1>2. Talk(client[d].pc, req[d], Answers(d))' /\ Knows(d)' /\ Round(d)' /\ Calls(d)'
  BY <1>1 DEF DInv, Own, Knows, Round, Calls
<1>3. Joining(d)'
  <2>1. Joining(d) /\ 0 \in Servers
    BY NoIdProperties DEF DInv, Own
  <2> QED BY <1>1, <2>1, Zenon DEF Joining, SameBooks
<1>4. Stands(d)
  BY <1>1 DEF Stands, HasRegistered, Ended, Through, Counted
<1>5. NoneNew(d)
  BY <1>1 DEF NoneNew
<1> QED BY <1>2, <1>3, <1>4, <1>5 DEF Own

\* A client loses messages that are not answered; nothing else happens to it.
LEMMA LosesOwn ==
    ASSUME DInv, NEW d \in Clients, UNCHANGED <<client, ans>>, SameBooks, roles' = roles,
           NoneNew(d), Asked(client[d].pc, req'[d]),
           \A t \in Servers : Pending(req'[d][t]) <=> Pending(req[d][t])
    PROVE  Own(d)' /\ Stands(d)
<1>1. /\ client'[d] = client[d] /\ Answers(d)' = Answers(d)
      /\ ans'[0][d] = ans[0][d] /\ Complete' = Complete /\ 0 \in Servers
  BY NoIdProperties, SameAnswers DEF Complete
<1>2. Own(d) /\ Talk(client[d].pc, req[d], Answers(d)) /\ Joining(d)
  BY DEF DInv, Own
<1>3. Heard(client[d].pc, req'[d], Answers(d))
  BY <1>2 DEF Talk, Heard
<1>4. Talk(client[d].pc, req[d], Answers(d))'
  BY <1>1, <1>2, <1>3 DEF Talk
<1>5. Joining(d)'
  <2>1. ASSUME NEW t \in Servers, server[t].namebook # <<>>, NEW i \in 1..Len(req'[d][t])
        PROVE  req'[d][t][i].kind # "register"
    BY <1>2, <2>1 DEF Joining, NoneNew
  <2> QED BY <1>1, <1>2, <2>1, Zenon DEF Joining, SameBooks
<1>6. Knows(d)' /\ Round(d)' /\ Calls(d)'
  BY <1>1, <1>2 DEF Own, Knows, Round, Calls
<1>7. Quiet(req[d], Answers(d))' <=> Quiet(req[d], Answers(d))
  BY <1>1 DEF Quiet
<1>8. Stands(d)
  BY <1>1, <1>7 DEF Stands, HasRegistered, Ended, Through, Counted
<1> QED BY <1>4, <1>5, <1>6, <1>8 DEF Own

\* The server takes the first request of client c's channel.
Pops(c, s) == req[c][s] # <<>> /\ req' = [req EXCEPT ![c][s] = Tail(@)]

LEMMA Taken ==
    ASSUME IInv, DInv, NEW s \in Servers, NEW c \in Clients, Pops(c, s)
    PROVE  /\ Head(req[c][s]) \in RequestOf(c) /\ Head(req[c][s]) = req[c][s][1]
           /\ 1 \in 1..Len(req[c][s])
           /\ \A d \in Clients \ {c} : req'[d] = req[d]
           /\ Asked(client[c].pc, req'[c]) /\ NoneNew(c)
           /\ Head(req[c][s]).kind \in Awaiting =>
                /\ Head(req[c][s]).kind = client[c].pc
                /\ client[c].pc # "call" => s = 0
                /\ Len(req'[c][s]) = 0 /\ Pending(req[c][s])
                /\ \A t \in Servers : ~Pending(req'[c][t]) /\ Len(Answers(c)[t]) = 0
           /\ Head(req[c][s]).kind \notin Awaiting =>
                \A t \in Servers : Pending(req'[c][t]) <=> Pending(req[c][t])
<1>0. req[c][s] # <<>> /\ req' = [req EXCEPT ![c][s] = Tail(@)]
  BY DEF Pops
<1>1. /\ \A d \in Clients \ {c} : req'[d] = req[d]
      /\ req'[c][s] = Tail(req[c][s])
      /\ \A t \in Servers \ {s} : req'[c][t] = req[c][t]
  BY <1>0, QuietRequests
<1>2. \A t \in Servers : req[c][t] \in Seq(RequestOf(c)) /\ Len(req[c][t]) \in Nat
  BY Channels
<1>3. /\ Head(req[c][s]) \in RequestOf(c) /\ Head(req[c][s]) = req[c][s][1]
      /\ 1 \in 1..Len(req[c][s])
  <2>1. /\ Head(req[c][s]) \in RequestOf(c) /\ Head(req[c][s]) = req[c][s][1]
        /\ Len(req[c][s]) # 0
    BY <1>0, <1>2, HeadTailProperties, EmptySeq
  <2> QED BY <1>2, <2>1
<1>4. Asked(client[c].pc, req[c]) /\ Heard(client[c].pc, req[c], Answers(c))
  BY DEF DInv, Own, Talk
<1>5. Takes(req[c], req'[c], s, RequestOf(c))
  BY <1>0, <1>1, <1>2 DEF Takes
<1>6. /\ Asked(client[c].pc, req'[c])
      /\ req[c][s][1].kind \in Awaiting =>
           /\ req[c][s][1].kind = client[c].pc /\ Len(req'[c][s]) = 0
           /\ (client[c].pc # "call" => s = 0)
           /\ Pending(req[c][s])
           /\ \A t \in Servers : ~Pending(req'[c][t])
      /\ req[c][s][1].kind \notin Awaiting =>
           \A t \in Servers : Pending(req'[c][t]) <=> Pending(req[c][t])
      /\ \A i \in 1..Len(req'[c][s]) :
           i + 1 \in 1..Len(req[c][s]) /\ req'[c][s][i] = req[c][s][i + 1]
  <2> DEFINE Q == req[c]
             P == req'[c]
             pc == client[c].pc
  <2>1. Asked(pc, Q) /\ Takes(Q, P, s, RequestOf(c))
    BY <1>4, <1>5
  <2> HIDE DEF Q, P, pc
  <2>2. /\ Asked(pc, P)
        /\ Q[s][1].kind \in Awaiting =>
             /\ Q[s][1].kind = pc /\ Len(P[s]) = 0 /\ (pc # "call" => s = 0)
             /\ Pending(Q[s])
             /\ \A t \in Servers : ~Pending(P[t])
        /\ Q[s][1].kind \notin Awaiting => \A t \in Servers : Pending(P[t]) <=> Pending(Q[t])
        /\ \A i \in 1..Len(P[s]) : i + 1 \in 1..Len(Q[s]) /\ P[s][i] = Q[s][i + 1]
    BY <2>1, AskedTake, SMTT(30)
  <2> QED BY <2>2 DEF Q, P, pc
<1>7. NoneNew(c)
  <2> SUFFICES ASSUME NEW t \in Servers, NEW i \in 1..Len(req'[c][t])
               PROVE  \E j \in 1..Len(req[c][t]) : req'[c][t][i] = req[c][t][j]
    BY DEF NoneNew
  <2>1. CASE t = s
    BY <1>6, <2>1
  <2>2. CASE t # s
    BY <1>1, <2>2
  <2> QED BY <2>1, <2>2
<1>8. Pending(req[c][s]) => \A t \in Servers : Len(Answers(c)[t]) = 0
  BY <1>4 DEF Heard
<1> QED BY <1>1, <1>3, <1>6, <1>7, <1>8

\* A request that is answered is the last one of its channel, and the only
\* thing under way.
LastTaken(c, s) ==
    /\ Head(req[c][s]).kind = client[c].pc
    /\ client[c].pc # "call" => s = 0
    /\ Len(req'[c][s]) = 0 /\ Pending(req[c][s])
    /\ \A t \in Servers : ~Pending(req'[c][t]) /\ Len(Answers(c)[t]) = 0
    /\ Head(req[c][s]).id = c /\ Head(req[c][s]).from = c
    /\ Numbering /\ server[s].namebook = Book
    /\ \A d \in Clients \ {c} : req'[d] = req[d]
    /\ Asked(client[c].pc, req'[c]) /\ NoneNew(c)

LEMMA TakenAwaited ==
    ASSUME IInv, DInv, NEW s \in Servers, NEW c \in Clients, Pops(c, s),
           Head(req[c][s]).kind \in Awaiting
    PROVE  LastTaken(c, s)
<1>1. /\ Head(req[c][s]).kind = client[c].pc
      /\ client[c].pc # "call" => s = 0
      /\ Len(req'[c][s]) = 0 /\ Pending(req[c][s])
      /\ \A t \in Servers : ~Pending(req'[c][t]) /\ Len(Answers(c)[t]) = 0
  BY Taken, Zenon
<1>2. Head(req[c][s]) \in RequestOf(c)
  BY Taken, Zenon
<1>3. Head(req[c][s]).id = c /\ Head(req[c][s]).from = c
  BY <1>2 DEF RequestOf, Awaiting
<1>4. Numbering /\ server[s].namebook = Book
  BY <1>1 DEF IInv, Joined, Types, ServerLoop, Numbering, Awaiting
<1>5. /\ \A d \in Clients \ {c} : req'[d] = req[d]
      /\ Asked(client[c].pc, req'[c]) /\ NoneNew(c)
  <2>1. NoneNew(c)
    BY Taken
  <2>2. Asked(client[c].pc, req'[c])
    BY Taken
  <2>3. \A d \in Clients \ {c} : req'[d] = req[d]
    BY Taken
  <2> QED BY <2>1, <2>2, <2>3
<1> QED BY <1>1, <1>3, <1>4, <1>5 DEF LastTaken

\* Registrations, pushes and shutdowns are not answered.
LEMMA SilentOwns ==
    ASSUME IInv, IInv', DInv, NEW s \in Servers, NEW c \in Clients, UNCHANGED client,
           Pops(c, s),
           \/ HandleRegister(s, Head(req[c][s])) \/ HandlePush(Head(req[c][s]))
           \/ \E arrived \in SUBSET Clients : HandleShutdown(s, Head(req[c][s]), arrived)
    PROVE  DInv'
<1> DEFINE m == Head(req[c][s])
<1>1. m.kind \in {"register", "push", "shutdown"} /\ UNCHANGED <<ans, roles, barrier_count, kv_count>>
  BY DEF HandleRegister, HandlePush, HandleShutdown
<1>2. m.kind \notin Awaiting
  BY <1>1 DEF Awaiting
<1>3. /\ m = req[c][s][1] /\ 1 \in 1..Len(req[c][s])
      /\ \A d \in Clients \ {c} : req'[d] = req[d]
      /\ Asked(client[c].pc, req'[c]) /\ NoneNew(c)
      /\ \A t \in Servers : Pending(req'[c][t]) <=> Pending(req[c][t])
  BY <1>2, Taken
<1>4. SameBooks /\ NumberedOnce'
  <2>0. NumberedOnce
    BY DEF DInv, Joint
  <2>1. CASE HandleRegister(s, m)
    <3> DEFINE now == [server[s] EXCEPT !.recv_clients = Append(server[s].recv_clients, m.from)]
    <3>0. DOMAIN server = Servers /\ server[s] \in ServerLoop
      BY DEF IInv, Types
    <3>1. server' = [server EXCEPT ![s] = now] /\ m.kind = "register"
      BY <2>1, <3>0 DEF HandleRegister
    <3>2. now.namebook = server[s].namebook
      BY <3>0 DEF ServerLoop
    <3>3. server[s].namebook = <<>>
      <4>1. Joining(c)
        BY DEF DInv, Own
      <4> QED BY <1>3, <3>1, <4>1 DEF Joining
    <3> HIDE DEF now
    <3>4. server'[s].namebook = server[s].namebook /\ \A t \in Servers \ {s} : server'[t] = server[t]
      BY <3>0, <3>1, <3>2
    <3>5. SameBooks
      BY <3>4 DEF SameBooks
    <3>6. ASSUME NEW t \in Servers, server'[t].namebook # <<>>
          PROVE  Len(server'[t].recv_clients) = 0
      <4>1. t # s
        BY <3>3, <3>4, <3>6
      <4>2. server'[t] = server[t]
        BY <3>4, <4>1
      <4> QED BY <2>0, <3>6, <4>2 DEF NumberedOnce
    <3> QED BY <3>5, <3>6 DEF NumberedOnce
  <2>2. CASE HandlePush(m)
    BY <2>0, <2>2 DEF HandlePush, SameBooks, NumberedOnce
  <2>3. ASSUME NEW arrived \in SUBSET Clients, HandleShutdown(s, m, arrived)
        PROVE  SameBooks /\ NumberedOnce'
    <3>1. PICK pc \in {"wait", "serve", "closing", "hung", "done"} :
            server' = [server EXCEPT ![s].pc = pc]
      BY <2>3 DEF HandleShutdown
    <3>2. /\ ServerChanges(s)
          /\ server'[s].recv_clients = server[s].recv_clients
          /\ server'[s].namebook = server[s].namebook
      BY <3>1, PcChanges
    <3> QED BY <2>0, <3>2 DEF ServerChanges, SameBooks, NumberedOnce
  <2> QED BY <2>1, <2>2, <2>3
<1> HIDE DEF m
<1>5. ASSUME NEW d \in Clients PROVE Own(d)' /\ Stands(d) /\ NoneNew(d)
  <2>1. CASE d = c
    BY <1>1, <1>3, <1>4, <2>1, LosesOwn
  <2>2. CASE d # c
    <3>1. SameMessages(d)
      BY <1>1, <1>3, <2>2 DEF SameMessages
    <3> QED BY <1>1, <1>4, <3>1, OthersOwn
  <2> QED BY <2>1, <2>2
<1> QED BY <1>1, <1>4, <1>5, JointKeeps DEF DInv

\* wait_for_senders and finalize_receiver of a server.
LEMMA ListenCloseOwns ==
    ASSUME IInv, IInv', DInv, NEW s \in Servers, Listen(s) \/ Close(s) PROVE DInv'
<1>1. PICK pc \in {"wait", "serve", "closing", "hung", "done"} :
        server' = [server EXCEPT ![s].pc = pc]
  BY DEF Listen, Close
<1>2. UNCHANGED <<client, ans, roles, barrier_count, kv_count>>
  BY DEF Listen, Close
<1>3. /\ ServerChanges(s)
      /\ server'[s].recv_clients = server[s].recv_clients
      /\ server'[s].namebook = server[s].namebook
  BY <1>1, PcChanges
<1>4. SameBooks /\ NumberedOnce'
  BY <1>3 DEF ServerChanges, SameBooks, DInv, Joint, NumberedOnce
<1>5. CASE Listen(s)
  <2>1. \A d \in Clients : Own(d)' /\ Stands(d) /\ NoneNew(d)
    BY <1>2, <1>4, <1>5, OthersOwn DEF Listen, SameMessages
  <2> QED BY <1>2, <1>4, <2>1, JointKeeps DEF DInv
<1>6. CASE Close(s)
  <2>1. /\ \A d \in Clients : \A t \in Servers \ {s} : req'[d][t] = req[d][t]
        /\ \A d \in Clients : req'[d][s] = <<>>
    BY <1>6, QuietRequests DEF Close
  <2>2. \A d \in Clients : client[d].pc \in {"final", "done"}
    BY <1>6 DEF Close
  <2>3. ASSUME NEW d \in Clients PROVE Own(d)' /\ Stands(d) /\ NoneNew(d)
    <3>1. /\ \A t \in Servers : ~Pending(req[d][t])
          /\ \A t \in Servers : \A i \in 1..Len(req[d][t]) : req[d][t][i].kind \notin Awaiting
      BY <2>2, AtWork DEF Awaiting, DInv
    <3>2. NoneNew(d)
      <4> SUFFICES ASSUME NEW t \in Servers, NEW i \in 1..Len(req'[d][t])
                   PROVE  \E j \in 1..Len(req[d][t]) : req'[d][t][i] = req[d][t][j]
        BY DEF NoneNew
      <4>1. t # s
        <5>1. 1..Len(req'[d][s]) = {}
          BY <2>1
        <5> QED BY <5>1
      <4> QED BY <2>1, <4>1
    <3>3. Asked(client[d].pc, req'[d]) /\ \A t \in Servers : ~Pending(req'[d][t])
      <4>1. \A t \in Servers : \A i \in 1..Len(req'[d][t]) : req'[d][t][i].kind \notin Awaiting
        BY <3>1, <3>2 DEF NoneNew
      <4> QED BY <2>2, <4>1, AskedNothing
    <3>4. Own(d)' /\ Stands(d)
      BY <1>2, <1>4, <3>1, <3>2, <3>3, LosesOwn
    <3> QED BY <3>2, <3>4
  <2> QED BY <1>2, <1>4, <2>3, JointKeeps DEF DInv
<1> QED BY <1>5, <1>6

\* A client for which no answer is under way gets answer a from server s.
Tells(d, s, a) ==
    /\ s \in Servers /\ a \in ResponseTo(d)
    /\ \A t \in Servers : Len(Answers(d)[t]) = 0
    /\ ans'[s][d] = Append(ans[s][d], a)
    /\ \A t \in Servers \ {s} : ans'[t][d] = ans[t][d]

LEMMA TellsAnswers ==
    ASSUME IInv, NEW d \in Clients, NEW s, NEW a, Tells(d, s, a)
    PROVE  /\ Len(Answers(d)'[s]) = 1 /\ Answers(d)'[s][1] = a /\ ans'[s][d][1] = a
           /\ \A t \in Servers \ {s} : Len(Answers(d)'[t]) = 0
           /\ Told(Answers(d)')
<1>1. /\ s \in Servers /\ a \in ResponseTo(d) /\ Len(Answers(d)[s]) = 0
      /\ ans'[s][d] = Append(ans[s][d], a)
  BY DEF Tells
<1>2. \A t \in Servers : ans[t][d] \in Seq(ResponseTo(d)) /\ Answers(d)[t] = ans[t][d]
  BY Channels
<1>3. \A t \in Servers : Answers(d)'[t] = ans'[t][d]
  BY DEF Answers
<1>4. Len(ans[s][d]) = 0
  BY <1>1, <1>2
<1>5. Len(ans'[s][d]) = 1 /\ ans'[s][d][1] = a
  <2>1. Len(ans'[s][d]) = Len(ans[s][d]) + 1 /\ ans'[s][d][Len(ans[s][d]) + 1] = a
    BY <1>1, <1>2, AppendProperties
  <2>2. 0 + 1 = 1
    OBVIOUS
  <2> QED BY <1>4, <2>1, <2>2, Zenon
<1>6. \A t \in Servers \ {s} : Len(Answers(d)'[t]) = 0
  BY <1>2, <1>3 DEF Tells
<1>7. Len(Answers(d)'[s]) = 1 /\ Answers(d)'[s][1] = a
  BY <1>1, <1>3, <1>5
<1> QED BY <1>1, <1>5, <1>6, <1>7 DEF Told

\* A client that waits gets its answer, from a server that knows its clients.
LEMMA TellsOwn ==
    ASSUME IInv, IInv', DInv, NEW d \in Clients, NEW s, NEW a, Tells(d, s, a),
           UNCHANGED client, SameBooks, Numbering, Knows(d)',
           NoneNew(d), Asked(client[d].pc, req'[d]), \A t \in Servers : ~Pending(req'[d][t]),
           a.kind = client[d].pc, client[d].pc \in Awaiting, client[d].pc # "call" => s = 0
    PROVE  Own(d)' /\ Told(Answers(d)') /\ ~Quiet(req'[d], Answers(d)')
<1>1. /\ Len(Answers(d)'[s]) = 1 /\ Answers(d)'[s][1] = a
      /\ \A t \in Servers \ {s} : Len(Answers(d)'[t]) = 0
      /\ Told(Answers(d)') /\ s \in Servers
  BY TellsAnswers DEF Tells
<1>2. /\ Heard(client[d].pc, req'[d], Answers(d)')
      /\ ~Quiet(req'[d], Answers(d)')
  BY <1>1, HeardOne
<1>3. Own(d) /\ Talk(client[d].pc, req[d], Answers(d)) /\ Joining(d)
  BY DEF DInv, Own
<1>4. Talk(client[d].pc, req[d], Answers(d))'
  BY <1>2, <1>3 DEF Talk
<1>5. Joining(d)'
  <2>1. ASSUME NEW t \in Servers, server[t].namebook # <<>>, NEW i \in 1..Len(req'[d][t])
        PROVE  req'[d][t][i].kind # "register"
    BY <1>3, <2>1 DEF Joining, NoneNew
  <2>2. server'[0].namebook # <<>>
    BY NoIdProperties DEF SameBooks, Numbering
  <2> QED BY <1>3, <2>1, <2>2, Zenon DEF Joining, SameBooks
<1>6. Round(d)' /\ Calls(d)'
  BY <1>3 DEF Own, Round, Calls
<1> QED BY <1>1, <1>2, <1>4, <1>5, <1>6 DEF Own

\* send_response reaches the clients of its ids.
LEMMA AnswerTells ==
    ASSUME IInv, NEW s \in Servers, server[s].namebook = Book,
           NEW ids \in SUBSET Clients, NEW kind, NEW table, Answer(s, ids, kind, table)
    PROVE  \A d \in Clients :
             /\ \A t \in Servers \ {s} : ans'[t][d] = ans[t][d]
             /\ d \in ids =>
                  ans'[s][d] = Append(ans[s][d], [kind |-> kind, table |-> table, id |-> d])
             /\ d \notin ids => ans'[s][d] = ans[s][d]
<1>0. DOMAIN ans = Servers /\ \A t \in Servers : DOMAIN ans[t] = Clients
  BY DEF IInv, Answered
<1>1. ans' = [ans EXCEPT ![s] = [c \in Clients |->
                IF \E id \in ids : Book[id] = c
                THEN Append(@[c], [kind |-> kind, table |-> table,
                       id |-> CHOOSE id \in ids : Book[id] = c])
                ELSE @[c]]]
  BY DEF Answer
<1> SUFFICES ASSUME NEW d \in Clients
             PROVE  /\ \A t \in Servers \ {s} : ans'[t][d] = ans[t][d]
                    /\ d \in ids =>
                         ans'[s][d] = Append(ans[s][d], [kind |-> kind, table |-> table, id |-> d])
                    /\ d \notin ids => ans'[s][d] = ans[s][d]
  OBVIOUS
<1>2. \A t \in Servers \ {s} : ans'[t][d] = ans[t][d]
  BY <1>0, <1>1
<1>3. ASSUME d \in ids
      PROVE  ans'[s][d] = Append(ans[s][d], [kind |-> kind, table |-> table, id |-> d])
  <2>1. /\ \E id \in ids : Book[id] = d
        /\ (CHOOSE id \in ids : Book[id] = d) = d
    BY <1>3, BookProperties
  <2> DEFINE i == CHOOSE id \in ids : Book[id] = d
  <2>2. ans'[s][d] = Append(ans[s][d], [kind |-> kind, table |-> table, id |-> i])
    BY <1>0, <1>1, <2>1
  <2>3. i = d
    BY <2>1
  <2> HIDE DEF i
  <2> QED BY <2>2, <2>3
<1>4. ASSUME d \notin ids PROVE ans'[s][d] = ans[s][d]
  <2>1. ~\E id \in ids : Book[id] = d
    BY <1>4, BookProperties
  <2> QED BY <1>0, <1>1, <2>1
<1> QED BY <1>2, <1>3, <1>4

\* A complete group: all its clients have registered and wait, and server 0
\* tells them their numbers.
LEMMA ConnectBackOwns ==
    ASSUME IInv, IInv', DInv, NEW s \in Servers, ConnectBack(s) PROVE DInv'
<1>1. /\ server[s] \in ServerLoop /\ server[s].recv_clients \in Seq(Clients)
      /\ Len(server[s].recv_clients) = num_clients
  BY DEF IInv, Types, ServerLoop, ConnectBack, Ready
<1>2. Numbered(server[s].recv_clients) = Book /\ Range(server[s].recv_clients) = Clients
  BY <1>1, NumberedIsBook DEF IInv, Registered
<1>3. /\ server' = [server EXCEPT ![s].recv_clients = <<>>, ![s].namebook = Book]
      /\ UNCHANGED <<client, roles, barrier_count, kv_count, req>>
      /\ ans' = IF s # 0 THEN ans
                ELSE [ans EXCEPT ![0] = [c \in Clients |->
                        Append(@[c], [kind |-> "register", table |-> <<>>,
                               id |-> CHOOSE id \in DOMAIN Book : Book[id] = c])]]
  BY <1>2 DEF ConnectBack
<1>4. ServerChanges(s) /\ server'[s].recv_clients = <<>> /\ server'[s].namebook = Book
  <2> DEFINE now == [server[s] EXCEPT !.recv_clients = <<>>, !.namebook = Book]
  <2>1. server' = [server EXCEPT ![s] = now]
    BY <1>3 DEF IInv, Types
  <2>3. now \in ServerLoop /\ now.recv_clients = <<>> /\ now.namebook = Book
    BY <1>1, LoopProperties, Zenon
  <2> HIDE DEF now
  <2> QED BY <2>1, <2>3, ServerChangesOne
<1>5. server[s].namebook = <<>>
  BY <1>1, Counts DEF DInv, Joint, NumberedOnce
<1>6. NumberedOnce'
  <2>1. Len(<<>>) = 0
    OBVIOUS
  <2>2. \A t \in Servers \ {s} : server'[t] = server[t]
    BY <1>4 DEF ServerChanges
  <2>3. NumberedOnce
    BY DEF DInv, Joint
  <2> QED BY <1>4, <2>1, <2>2, <2>3 DEF NumberedOnce
<1>7. ASSUME NEW d \in Clients
      PROVE  /\ client[d].pc # "start"
             /\ \A i \in 1..Len(req[d][s]) : req[d][s][i].kind # "register"
  BY <1>2 DEF IInv, Requested
<1>8. ASSUME NEW d \in Clients
      PROVE  \A t \in Servers : server'[t].namebook # <<>> =>
               /\ client'[d].pc # "start"
               /\ \A i \in 1..Len(req'[d][t]) : req'[d][t][i].kind # "register"
  <2> SUFFICES ASSUME NEW t \in Servers, server'[t].namebook # <<>>
               PROVE  /\ client'[d].pc # "start"
                      /\ \A i \in 1..Len(req'[d][t]) : req'[d][t][i].kind # "register"
    OBVIOUS
  <2>1. CASE t = s
    BY <1>3, <1>7, <2>1
  <2>2. CASE t # s
    <3>1. server[t].namebook # <<>> /\ Joining(d)
      BY <1>4, <2>2 DEF ServerChanges, DInv, Own
    <3> QED BY <1>3, <3>1 DEF Joining
  <2> QED BY <2>1, <2>2
<1>9. \A t \in Servers : server[t].namebook # <<>> => server'[t].namebook # <<>>
  BY <1>4, <1>5 DEF ServerChanges
<1>10. \A d \in Clients : NoneNew(d)
  BY <1>3 DEF NoneNew
<1>11. CASE s # 0
  <2>1. ans' = ans
    BY <1>3, <1>11
  <2>2. ASSUME NEW d \in Clients PROVE Own(d)' /\ Stands(d)
    <3>1. /\ client'[d] = client[d] /\ req'[d] = req[d] /\ Answers(d)' = Answers(d)
          /\ ans'[0][d] = ans[0][d] /\ Complete' = Complete /\ 0 \in Servers
      BY <1>3, <2>1, NoIdProperties, SameAnswers DEF Complete
    <3>2. Own(d)
      BY DEF DInv
    <3>3. Joining(d)'
      <4>1. Told(Answers(d)') => server'[0].namebook # <<>>
        BY <1>9, <3>1, <3>2 DEF Own, Joining
      <4> QED BY <1>8, <4>1 DEF Joining
    <3>4. Talk(client[d].pc, req[d], Answers(d))' /\ Knows(d)' /\ Round(d)' /\ Calls(d)'
      BY <1>3, <3>1, <3>2 DEF Own, Knows, Round, Calls
    <3>5. Stands(d)
      BY <3>1 DEF Stands, HasRegistered, Ended, Through, Counted
    <3> QED BY <3>3, <3>4, <3>5 DEF Own
  <2> QED BY <1>3, <1>6, <1>10, <2>2, JointKeeps DEF DInv
<1>12. CASE s = 0
  <2>1. ASSUME NEW d \in Clients PROVE Own(d)' /\ Stands(d)
    <3>1. Own(d) /\ Joining(d) /\ Asked(client[d].pc, req[d]) /\ 0 \in Servers
      BY NoIdProperties DEF DInv, Own, Talk
    <3>2. client[d].pc = "accept"
      <4>1. ~Numbering
        BY <1>5 DEF Numbering
      <4> QED BY <1>7, <4>1 DEF IInv, Joined
    <3>3. \A t \in Servers : ~Pending(req[d][t])
      BY <3>1, <3>2, AskedPending DEF Awaiting
    <3>4. \A t \in Servers : Len(Answers(d)[t]) = 0
      BY <1>5, <1>12, <3>1 DEF Joining, Told
    <3> DEFINE i == CHOOSE id \in DOMAIN Book : Book[id] = d
               a == [kind |-> "register", table |-> <<>>, id |-> i]
    <3>5. DOMAIN ans = Servers /\ \A t \in Servers : DOMAIN ans[t] = Clients
      BY DEF IInv, Answered
    <3>6. ans'[0][d] = Append(ans[0][d], a) /\ \A t \in Servers \ {0} : ans'[t][d] = ans[t][d]
      BY <1>3, <1>12, <3>1, <3>5
    <3>7. i = d
      BY BookProperties
    <3> HIDE DEF i
    <3>8. a \in ResponseTo(d) /\ a.kind = "register"
      BY <3>7 DEF ResponseTo, Kinds
    <3> HIDE DEF a
    <3>9. Tells(d, 0, a)
      BY <3>1, <3>4, <3>6, <3>8 DEF Tells
    <3>10. /\ Len(Answers(d)'[0]) = 1 /\ Answers(d)'[0][1] = a
           /\ \A t \in Servers \ {0} : Len(Answers(d)'[t]) = 0
      BY <3>9, TellsAnswers
    <3>11. Heard("accept", req[d], Answers(d)')
      BY <3>1, <3>3, <3>8, <3>10, HeardOne
    <3>12. Talk(client[d].pc, req[d], Answers(d))'
      BY <1>3, <3>1, <3>2, <3>11 DEF Talk
    <3>13. Joining(d)'
      BY <1>4, <1>8, <1>12, BookProperties DEF Joining
    <3>14. Knows(d)' /\ Round(d)' /\ Calls(d)'
      BY <1>3, <3>1, <3>2 DEF Own, Knows, Round, Calls, Complete
    <3>15. Stands(d)
      BY <1>3, <3>2 DEF Stands, HasRegistered, Ended, Through, Counted
    <3> QED BY <3>12, <3>13, <3>14, <3>15 DEF Own
  <2> QED BY <1>3, <1>6, <1>10, <2>1, JointKeeps DEF DInv
<1> QED BY <1>11, <1>12

\* A request that is answered at once: the number of clients, a call, and the
\* table of roles.
LEMMA AnswerOneOwns ==
    ASSUME IInv, IInv', DInv, NEW s \in Servers, NEW c \in Clients, UNCHANGED client,
           Pops(c, s),
           HandleCall(s, Head(req[c][s])) \/ HandleGetRole(s, Head(req[c][s]))
    PROVE  DInv'
<1> DEFINE m == Head(req[c][s])
<1>1. m.kind \in {"num", "call", "roles"} /\ m.kind \in Awaiting
  BY DEF HandleCall, HandleGetRole, Awaiting
<1>2. LastTaken(c, s)
  BY <1>1, TakenAwaited
<1>3. PICK table \in {<<>>, roles} :
        /\ Answer(s, {m.id}, m.kind, table) /\ (m.kind = "roles" => table = roles)
        /\ UNCHANGED <<server, roles, barrier_count, kv_count>>
  BY DEF HandleCall, HandleGetRole
<1>4. /\ client[c].pc = m.kind /\ (client[c].pc # "call" => s = 0) /\ m.id = c
      /\ \A t \in Servers : ~Pending(req'[c][t]) /\ Len(Answers(c)[t]) = 0
  BY <1>2 DEF LastTaken
<1>5. /\ Numbering /\ server[s].namebook = Book
      /\ \A d \in Clients \ {c} : req'[d] = req[d]
      /\ Asked(client[c].pc, req'[c]) /\ NoneNew(c)
  BY <1>2 DEF LastTaken
<1> HIDE DEF m
<1> DEFINE a == [kind |-> m.kind, table |-> table, id |-> c]
<1>6. \A d \in Clients :
        /\ \A t \in Servers \ {s} : ans'[t][d] = ans[t][d]
        /\ d \in {c} => ans'[s][d] = Append(ans[s][d], [kind |-> m.kind, table |-> table, id |-> d])
        /\ d \notin {c} => ans'[s][d] = ans[s][d]
  <2>1. {c} \in SUBSET Clients /\ Answer(s, {c}, m.kind, table)
    BY <1>3, <1>4
  <2> QED BY <1>5, <2>1, AnswerTells
<1>7. a \in ResponseTo(c) /\ a.kind = m.kind /\ a.table = table
  <2>1. roles \in Seq(Registration) /\ <<>> \in Seq(Registration)
    BY DEF IInv, Types
  <2>2. table \in Seq(Registration)
    BY <2>1
  <2> QED BY <1>1, <2>2 DEF ResponseTo, Kinds
<1>8. ans'[s][c] = Append(ans[s][c], a)
  BY <1>6
<1> HIDE DEF a
<1>9. Tells(c, s, a)
  BY <1>4, <1>6, <1>7, <1>8 DEF Tells
<1>10. SameBooks /\ NumberedOnce' /\ roles' = roles
  BY <1>3 DEF SameBooks, DInv, Joint, NumberedOnce
<1>11. Knows(c)'
  <2>1. Knows(c) /\ Complete' = Complete
    BY <1>10 DEF DInv, Own, Complete
  <2>2. client[c].pc = "roles" => ans'[0][c][1].table = roles
    <3>1. ans'[s][c][1] = a
      BY <1>9, TellsAnswers
    <3> QED BY <1>3, <1>4, <1>7, <3>1
  <2>3. client[c].pc # "role"
    BY <1>1, <1>4
  <2> QED BY <1>10, <2>1, <2>2, <2>3 DEF Knows
<1>12. Own(c)'
  BY <1>1, <1>4, <1>5, <1>7, <1>9, <1>10, <1>11, TellsOwn
<1>13. Stands(c)
  BY <1>1, <1>4 DEF Stands, HasRegistered, Ended, Through, Counted
<1>14. ASSUME NEW d \in Clients PROVE Own(d)' /\ Stands(d) /\ NoneNew(d)
  <2>1. CASE d = c
    BY <1>5, <1>12, <1>13, <2>1
  <2>2. CASE d # c
    <3>1. SameMessages(d)
      BY <1>5, <1>6, <2>2 DEF SameMessages
    <3> QED BY <1>10, <3>1, OthersOwn
  <2> QED BY <2>1, <2>2
<1> QED BY <1>3, <1>10, <1>14, JointKeeps DEF DInv

-----------------------------------------------------------------------------
(* Roles *)

\* What the table says when it is complete, and when it is not.
LEMMA TableProperties ==
    ASSUME IInv, DInv
    PROVE  /\ roles \in Seq(Registration) /\ Len(roles) \in Nat /\ Len(roles) <= num_clients
           /\ DOMAIN roles = 1..Len(roles)
           /\ Complete => \A c \in Clients : HasRegistered(c)
           /\ ~Complete => \A c \in Clients :
                /\ client[c].pc \in {"start", "accept", "register", "num", "role"}
                /\ client[c].pc = "role" => ~Told(Answers(c))
                /\ client[c].table = <<>>
<1>1. roles \in Seq(Registration) /\ Len(roles) \in Nat /\ DOMAIN roles = 1..Len(roles)
  BY LenProperties DEF IInv, Types
<1>2. Table
  BY DEF DInv, Joint
<1>3. \A i, j \in 1..Len(roles) : roles[i].id = roles[j].id => i = j
  BY <1>2 DEF Table
<1>4. /\ Len(roles) <= num_clients
      /\ Complete => \A c \in Clients : \E i \in 1..Len(roles) : roles[i].id = c
  BY <1>1, <1>3, TableSize DEF Complete
<1>5. Complete => \A c \in Clients : HasRegistered(c)
  BY <1>2, <1>4 DEF Table
<1>6. ASSUME ~Complete, NEW c \in Clients
      PROVE  /\ client[c].pc \in {"start", "accept", "register", "num", "role"}
             /\ client[c].pc = "role" => ~Told(Answers(c))
             /\ client[c].table = <<>>
  BY <1>6 DEF DInv, Own, Knows
<1> QED BY <1>1, <1>4, <1>5, <1>6

\* The table with one more entry.
LEMMA TableAppend ==
    ASSUME IInv, DInv, NEW c \in Clients, ~HasRegistered(c),
           roles' = Append(roles, Entry(c)), HasRegistered(c)',
           \A d \in Clients \ {c} : HasRegistered(d)' <=> HasRegistered(d)
    PROVE  Table'
<1>1. roles \in Seq(Registration) /\ Len(roles) \in Nat
  BY TableProperties
<1>2. Entry(c) \in Registration /\ Entry(c).id = c
  <2>1. Role[c] \in Roles /\ Machine[c] \in Nat
    BY SessionAssumption DEF Roles
  <2> QED BY <2>1 DEF Entry, Registration
<1>3. /\ Len(roles') = Len(roles) + 1 /\ roles'[Len(roles) + 1] = Entry(c)
      /\ \A i \in 1..Len(roles) : roles'[i] = roles[i]
  BY <1>1, <1>2, AppendProperties
<1>4. Table
  BY DEF DInv, Joint
<1>5. \A i \in 1..Len(roles') :
        IF i = Len(roles) + 1 THEN roles'[i] = Entry(c)
        ELSE i \in 1..Len(roles) /\ roles'[i] = roles[i]
  BY <1>1, <1>3
<1>6. \A i \in 1..Len(roles) : i \in 1..Len(roles') /\ i # Len(roles) + 1
  BY <1>1, <1>3
<1>7. Len(roles) + 1 \in 1..Len(roles')
  BY <1>1, <1>3
<1>8. \A i \in 1..Len(roles) : roles[i].id # c
  BY <1>4 DEF Table
<1>9. \A i \in 1..Len(roles') : roles'[i] = Entry(roles'[i].id)
  BY <1>2, <1>4, <1>5 DEF Table
<1>10. \A i, j \in 1..Len(roles') : roles'[i].id = roles'[j].id => i = j
  <2> SUFFICES ASSUME NEW i \in 1..Len(roles'), NEW j \in 1..Len(roles'),
                      roles'[i].id = roles'[j].id
               PROVE  i = j
    OBVIOUS
  <2> QED BY <1>2, <1>4, <1>5, <1>8 DEF Table
<1>11. ASSUME NEW d \in Clients
       PROVE  HasRegistered(d)' <=> \E i \in 1..Len(roles') : roles'[i].id = d
  <2>1. CASE d = c
    BY <1>2, <1>3, <1>7, <2>1
  <2>2. CASE d # c
    <3>1. HasRegistered(d) <=> \E i \in 1..Len(roles) : roles[i].id = d
      BY <1>4 DEF Table
    <3>2. (\E i \in 1..Len(roles) : roles[i].id = d) => \E i \in 1..Len(roles') : roles'[i].id = d
      BY <1>5, <1>6
    <3>3. (\E i \in 1..Len(roles') : roles'[i].id = d) => \E i \in 1..Len(roles) : roles[i].id = d
      BY <1>2, <1>5, <2>2
    <3> QED BY <2>2, <3>1, <3>2, <3>3
  <2> QED BY <2>1, <2>2
<1> QED BY <1>9, <1>10, <1>11, Zenon DEF Table

\* RegisterRoleRequest: the last client's registration releases all of them.
LEMMA RoleOwns ==
    ASSUME IInv, IInv', DInv, NEW s \in Servers, NEW c \in Clients, UNCHANGED client,
           Pops(c, s), HandleRole(s, Head(req[c][s]))
    PROVE  DInv'
<1> DEFINE m == Head(req[c][s])
           early == {"start", "accept", "register", "num", "role"}
           ids == IF Len(roles') = num_clients THEN AllIds ELSE {}
<1>1. m.kind = "role" /\ m.kind \in Awaiting
  BY DEF HandleRole, Awaiting
<1>2. LastTaken(c, s)
  BY <1>1, TakenAwaited
<1>3. /\ client[c].pc = "role" /\ s = 0 /\ m.id = c /\ m.from = c
      /\ \A t \in Servers : ~Pending(req'[c][t]) /\ Len(Answers(c)[t]) = 0
      /\ Pending(req[c][0])
  BY <1>1, <1>2 DEF LastTaken
<1>4. /\ Numbering /\ server[s].namebook = Book
      /\ \A d \in Clients \ {c} : req'[d] = req[d]
      /\ Asked(client[c].pc, req'[c]) /\ NoneNew(c)
  BY <1>2 DEF LastTaken
<1>5. ~HasRegistered(c) /\ ~Complete
  BY <1>3, TableProperties DEF HasRegistered
<1>6. \A d \in Clients :
        /\ client[d].pc \in early
        /\ client[d].pc = "role" => ~Told(Answers(d))
        /\ client[d].table = <<>>
  BY <1>5, TableProperties
<1>7. /\ roles' = Append(roles, Entry(c)) /\ server' = server /\ barrier_count' = barrier_count
      /\ kv_count' \in {kv_count, [kv_count EXCEPT ![Role[c]] = 0]}
      /\ Answer(s, ids, "role", <<>>)
  <2>1. Entry(c) \notin Range(roles)
    <3>1. Entry(c).id = c /\ DOMAIN roles = 1..Len(roles)
      BY TableProperties DEF Entry
    <3>2. \A i \in 1..Len(roles) : roles[i].id # c
      BY <1>5 DEF DInv, Joint, Table
    <3> QED BY <3>1, <3>2 DEF Range
  <2>2. Entry(c) = [id |-> m.id, role |-> Role[m.from], machine |-> Machine[m.from]]
    BY <1>3 DEF Entry
  <2>3. /\ roles' = (IF Entry(c) \in Range(roles) THEN roles ELSE Append(roles, Entry(c)))
        /\ server' = server /\ barrier_count' = barrier_count
        /\ kv_count' \in {kv_count, [kv_count EXCEPT ![Entry(c).role] = 0]}
    BY <2>2 DEF HandleRole
  <2>4. Entry(c).role = Role[c]
    BY DEF Entry
  <2>5. Answer(s, ids, "role", <<>>)
    BY DEF HandleRole
  <2> QED BY <2>1, <2>3, <2>4, <2>5
<1> HIDE DEF m
<1>8. AllIds = Clients
  BY DEF AllIds, Clients
<1>9. \A d \in Clients :
        /\ \A t \in Servers \ {0} : ans'[t][d] = ans[t][d]
        /\ d \in ids => ans'[0][d] = Append(ans[0][d], [kind |-> "role", table |-> <<>>, id |-> d])
        /\ d \notin ids => ans'[0][d] = ans[0][d]
  <2>1. ids \in SUBSET Clients
    BY <1>8
  <2> HIDE DEF ids
  <2> QED BY <1>3, <1>4, <1>7, <2>1, AnswerTells
<1>10. /\ HasRegistered(c)'
       /\ \A d \in Clients \ {c} : HasRegistered(d)' <=> HasRegistered(d)
  BY <1>3, <1>4, NoIdProperties DEF HasRegistered
<1>11. Table'
  BY <1>5, <1>7, <1>10, TableAppend
<1>12. \A d \in Clients : NoneNew(d) /\ Asked(client[d].pc, req'[d])
  BY SMTT(30), <1>4 DEF NoneNew, DInv, Own, Talk
<1>13. ASSUME Complete', NEW d \in Clients
       PROVE  /\ Heard(client[d].pc, req'[d], Answers(d)')
              /\ client[d].pc = "role"
  <2>1. \A i, j \in 1..Len(roles') : roles'[i].id = roles'[j].id => i = j
    BY <1>11 DEF Table
  <2>2. roles' \in Seq(Registration)
    BY DEF IInv, Types
  <2>3. \E i \in 1..Len(roles') : roles'[i].id = d
    BY <1>13, <2>1, <2>2, TableSize DEF Complete
  <2>4. HasRegistered(d)'
    BY <1>11, <2>3 DEF Table
  <2>5. client[d].pc = "role" /\ ~Pending(req'[d][0])
    BY <1>6, <2>4 DEF HasRegistered
  <2>6. \A t \in Servers : ~Pending(req'[d][t])
    BY <1>12, <2>5, AskedPending
  <2>7. \A t \in Servers : Len(Answers(d)[t]) = 0
    BY <1>6, <2>5 DEF Told
  <2> DEFINE a == [kind |-> "role", table |-> <<>>, id |-> d]
  <2>8. ans'[0][d] = Append(ans[0][d], a)
    BY <1>8, <1>9, <1>13 DEF Complete
  <2>9. a \in ResponseTo(d) /\ a.kind = "role" /\ 0 \in Servers
    BY NoIdProperties DEF ResponseTo, Kinds
  <2> HIDE DEF a
  <2>10. Tells(d, 0, a)
    BY <1>9, <2>7, <2>8, <2>9 DEF Tells
  <2>11. /\ Len(Answers(d)'[0]) = 1 /\ Answers(d)'[0][1] = a
         /\ \A t \in Servers \ {0} : Len(Answers(d)'[t]) = 0
    BY <2>10, TellsAnswers
  <2>12. Heard("role", req'[d], Answers(d)')
    BY <2>6, <2>9, <2>11, HeardOne DEF Awaiting
  <2> QED BY <2>5, <2>12
<1>14. ASSUME ~Complete', NEW d \in Clients
       PROVE  Heard(client[d].pc, req'[d], Answers(d)') /\ Answers(d)' = Answers(d)
  <2>1. Answers(d)' = Answers(d)
    <3>1. \A t \in Servers : ans'[t][d] = ans[t][d]
      BY <1>9, <1>14 DEF Complete
    <3> QED BY <3>1, SameAnswers
  <2>2. CASE d = c
    <3>1. \A t \in Servers : Len(Answers(d)'[t]) = 0
      BY <1>3, <2>1, <2>2
    <3> QED BY <2>1, <3>1, HeardNothing
  <2>3. CASE d # c
    BY <1>4, <2>1, <2>3 DEF DInv, Own, Talk
  <2> QED BY <2>2, <2>3
<1>15. ASSUME NEW d \in Clients PROVE Own(d)'
  <2>1. Own(d)
    BY DEF DInv
  <2>2. Talk(client[d].pc, req[d], Answers(d))'
    BY <1>6, <1>12, <1>13, <1>14 DEF Talk
  <2>3. Joining(d)'
    <3>1. ASSUME NEW t \in Servers, server[t].namebook # <<>>, NEW i \in 1..Len(req'[d][t])
          PROVE  req'[d][t][i].kind # "register"
      <4>1. NoneNew(d) /\ Joining(d)
        BY <1>12, <2>1 DEF Own
      <4>2. \A j \in 1..Len(req[d][t]) : req[d][t][j].kind # "register"
        BY <3>1, <4>1 DEF Joining
      <4> QED BY <4>1, <4>2 DEF NoneNew
    <3>2. server'[0].namebook # <<>>
      BY <1>4, <1>7, NoIdProperties DEF Numbering
    <3> QED BY <1>7, <2>1, <3>1, <3>2, Zenon DEF Joining, Own
  <2>4. Knows(d)'
    <3>1. client[d].pc = "role" /\ Told(Answers(d)') => Complete'
      BY <1>6, <1>14
    <3> QED BY <1>6, <3>1 DEF Knows
  <2>5. Round(d)' /\ Calls(d)'
    BY <2>1 DEF Own, Round, Calls
  <2> QED BY <2>2, <2>3, <2>4, <2>5 DEF Own
<1>16. \A d \in Clients :
         /\ Ended(d)' = Ended(d) /\ Through(d)' = Through(d)
         /\ d \notin Counted("kvbarrier")' /\ d \notin Counted("barrier")'
         /\ d \notin Counted("kvbarrier") /\ d \notin Counted("barrier")
  BY <1>6 DEF Ended, Through, Counted
<1>17. /\ Counted("kvbarrier")' = {} /\ Counted("barrier")' = {}
       /\ Counted("kvbarrier") = {} /\ Counted("barrier") = {}
  BY <1>16 DEF Counted
<1>18. NumberedOnce' /\ SameRound' /\ SameExit' /\ Exits'
  <2>1. NumberedOnce /\ SameRound /\ SameExit /\ Exits
    BY DEF DInv, Joint
  <2>2. NumberedOnce'
    BY <1>7, <2>1 DEF NumberedOnce
  <2>3. SameRound' /\ SameExit'
    BY <1>16, <2>1 DEF SameRound, SameExit
  <2>4. Exits'
    BY <1>12, <1>16, <2>1, NoneNewFlushed, Zenon DEF Exits, Released
  <2> QED BY <2>2, <2>3, <2>4
<1>19. KvCounts'
  <2>1. KvCounts
    BY DEF DInv, Joint
  <2>2. \A r \in Roles : {} \cap Members(r) = {}
    OBVIOUS
  <2>3. \A r \in Roles : kv_count[r] = 0
    BY <1>17, <2>1, <2>2, FS_EmptySet DEF KvCounts
  <2>4. kv_count' \in [Roles -> Nat] /\ \A r \in Roles : kv_count'[r] = kv_count[r]
    BY <1>7, <2>1, <2>3 DEF KvCounts
  <2> QED BY <1>17, <2>1, <2>4 DEF KvCounts
<1>20. ExitCount'
  BY <1>7, <1>17 DEF DInv, Joint, ExitCount
<1> QED BY <1>11, <1>15, <1>18, <1>19, <1>20 DEF DInv, Joint

-----------------------------------------------------------------------------
(* Barriers *)

\* A client's request is counted and not answered yet.
LEMMA CountedOwn ==
    ASSUME IInv, DInv, NEW c \in Clients, NEW s \in Servers, LastTaken(c, s),
           UNCHANGED client, SameBooks, roles' = roles, client[c].pc # "role",
           \A t \in Servers : ans'[t][c] = ans[t][c]
    PROVE  /\ Own(c)' /\ Quiet(req'[c], Answers(c)') /\ ~Told(Answers(c)')
           /\ Answers(c)' = Answers(c)
<1>1. /\ Answers(c)' = Answers(c)
      /\ \A t \in Servers : ~Pending(req'[c][t]) /\ Len(Answers(c)[t]) = 0
      /\ Asked(client[c].pc, req'[c]) /\ NoneNew(c)
  BY SameAnswers DEF LastTaken
<1>2. Heard(client[c].pc, req'[c], Answers(c)) /\ ~Told(Answers(c))
  BY <1>1, HeardNothing
<1>3. Own(c) /\ Joining(c) /\ Knows(c)
  BY DEF DInv, Own
<1>4. Talk(client[c].pc, req[c], Answers(c))'
  BY <1>1, <1>2, <1>3 DEF Talk, Own
<1>5. Joining(c)'
  <2>1. ASSUME NEW t \in Servers, server[t].namebook # <<>>, NEW i \in 1..Len(req'[c][t])
        PROVE  req'[c][t][i].kind # "register"
    <3>1. \A j \in 1..Len(req[c][t]) : req[c][t][j].kind # "register"
      BY <1>3, <2>1 DEF Joining
    <3> QED BY <1>1, <3>1 DEF NoneNew
  <2> QED BY <1>1, <1>2, <1>3, <2>1, Zenon DEF Joining, SameBooks
<1>6. Knows(c)' /\ Round(c)' /\ Calls(c)'
  BY <1>1, <1>2, <1>3 DEF Own, Knows, Complete, Round, Calls
<1>7. Quiet(req'[c], Answers(c))
  BY <1>1 DEF Quiet
<1> QED BY <1>1, <1>2, <1>4, <1>5, <1>6, <1>7 DEF Own

\* A client that was counted is told that the barrier is complete.
LEMMA ReleasedOwn ==
    ASSUME IInv, IInv', DInv, NEW d \in Clients, NEW kind \in {"kvbarrier", "barrier"},
           UNCHANGED client, SameBooks, roles' = roles, Numbering,
           client[d].pc = kind, Quiet(req'[d], Answers(d)),
           Asked(client[d].pc, req'[d]), NoneNew(d),
           ans'[0][d] = Append(ans[0][d], [kind |-> kind, table |-> <<>>, id |-> d]),
           \A t \in Servers \ {0} : ans'[t][d] = ans[t][d]
    PROVE  Own(d)' /\ Told(Answers(d)') /\ ~Quiet(req'[d], Answers(d)')
<1> DEFINE a == [kind |-> kind, table |-> <<>>, id |-> d]
<1>1. a \in ResponseTo(d) /\ a.kind = kind /\ 0 \in Servers
  BY NoIdProperties DEF ResponseTo, Kinds
<1>2. ans'[0][d] = Append(ans[0][d], a)
  OBVIOUS
<1> HIDE DEF a
<1>3. /\ \A t \in Servers : ~Pending(req'[d][t])
      /\ \A t \in Servers : Len(Answers(d)[t]) = 0
  BY DEF Quiet
<1>4. Tells(d, 0, a)
  BY <1>1, <1>2, <1>3 DEF Tells
<1>5. Knows(d)'
  BY DEF DInv, Own, Knows, Complete
<1>6. client[d].pc \in Awaiting
  BY DEF Awaiting
<1> QED BY <1>1, <1>3, <1>4, <1>5, <1>6, TellsOwn

\* The table names the members of a role.
LEMMA MembersFound ==
    ASSUME IInv, DInv, Complete, NEW r
    PROVE  {roles[i].id : i \in {j \in DOMAIN roles : roles[j].role = r}} = Members(r)
<1>1. /\ DOMAIN roles = 1..Len(roles) /\ \A c \in Clients : HasRegistered(c)
      /\ roles \in Seq(Registration)
  BY TableProperties
<1>2. Table
  BY DEF DInv, Joint
<1>3. ASSUME NEW i \in 1..Len(roles)
      PROVE  roles[i].id \in Clients /\ roles[i].role = Role[roles[i].id]
  <2>1. roles[i] \in Registration
    BY <1>1, ElementOfSeq
  <2>2. roles[i] = Entry(roles[i].id)
    BY <1>2 DEF Table
  <2>3. \A c : Entry(c).role = Role[c]
    BY DEF Entry
  <2>4. roles[i].id \in Clients
    BY <2>1 DEF Registration
  <2> QED BY <2>2, <2>3, <2>4
<1>4. ASSUME NEW c \in Clients PROVE \E i \in 1..Len(roles) : roles[i].id = c
  BY <1>1, <1>2 DEF Table
<1> QED BY <1>1, <1>3, <1>4 DEF Members

\* The last one of a group: the counted ones and it are the group.
LEMMA LastOne ==
    ASSUME NEW G \in SUBSET Clients, NEW S \in SUBSET G, NEW c \in G, c \notin S
    PROVE  /\ IsFiniteSet(S) /\ Cardinality(S) \in Nat /\ Cardinality(G) \in Nat
           /\ Cardinality(S \cup {c}) = Cardinality(S) + 1
           /\ Cardinality(S) + 1 <= Cardinality(G)
           /\ Cardinality(S) + 1 = Cardinality(G) => S \cup {c} = G
<1>1. IsFiniteSet(G) /\ IsFiniteSet(S)
  BY ClientNumbers, FS_Subset
<1>2. Cardinality(S) \in Nat /\ Cardinality(G) \in Nat
  BY <1>1, FS_CardinalityType
<1>3. Cardinality(S \cup {c}) = Cardinality(S) + 1
  BY <1>1, FS_AddElement
<1>4. S \cup {c} \in SUBSET G
  OBVIOUS
<1>5. /\ Cardinality(S \cup {c}) <= Cardinality(G)
      /\ Cardinality(G) = Cardinality(S \cup {c}) => G = S \cup {c}
  BY <1>1, <1>4, FS_Subset
<1> QED BY <1>1, <1>2, <1>3, <1>5

\* BarrierRequest of the kvstore: the last of a role's clients releases all of
\* them, and all their rounds end.
LEMMA KvBarrierOwns ==
    ASSUME IInv, IInv', DInv, NEW s \in Servers, NEW c \in Clients, UNCHANGED client,
           Pops(c, s), HandleKvBarrier(s, Head(req[c][s]))
    PROVE  DInv'
<1> DEFINE m == Head(req[c][s])
           r == Role[c]
           G == Members(r)
           S == Counted("kvbarrier") \cap G
           full == kv_count[r] + 1 = Cardinality(G)
           ids == IF full THEN G ELSE {}
<1>1. m.kind = "kvbarrier" /\ m.kind \in Awaiting
  BY DEF HandleKvBarrier, Awaiting
<1>2. LastTaken(c, s)
  BY <1>1, TakenAwaited
<1>3. /\ client[c].pc = "kvbarrier" /\ s = 0 /\ m.id = c /\ m.from = c
      /\ \A t \in Servers : ~Pending(req'[c][t]) /\ Len(Answers(c)[t]) = 0
      /\ Pending(req[c][0]) /\ 0 \in Servers
  BY <1>1, <1>2, NoIdProperties DEF LastTaken
<1>4. /\ Numbering /\ server[s].namebook = Book
      /\ \A d \in Clients \ {c} : req'[d] = req[d]
      /\ Asked(client[c].pc, req'[c]) /\ NoneNew(c)
  BY <1>2 DEF LastTaken
<1>5. Complete /\ KvCounts /\ SameRound /\ SameExit /\ NumberedOnce /\ Table /\ ExitCount /\ Exits
  BY <1>3 DEF DInv, Joint, Own, Knows
<1>6. /\ kv_count' = [kv_count EXCEPT ![r] = IF full THEN 0 ELSE kv_count[r] + 1]
      /\ Answer(s, ids, "kvbarrier", <<>>)
      /\ UNCHANGED <<server, roles, barrier_count>>
  <2>1. {roles[i].id : i \in {j \in DOMAIN roles : roles[j].role = Role[m.from]}} = G
    BY <1>3, <1>5, MembersFound
  <2> QED BY <1>3, <2>1, Zenon DEF HandleKvBarrier
<1> HIDE DEF m
<1>7. /\ G \in SUBSET Clients /\ S \in SUBSET G /\ c \in G /\ c \notin S /\ r \in Roles
  <2>1. ~Quiet(req[c], Answers(c))
    BY <1>3 DEF Quiet
  <2> QED BY <2>1 DEF Members, Counted, Roles
<1>8. /\ IsFiniteSet(S) /\ Cardinality(S) \in Nat /\ Cardinality(G) \in Nat
      /\ Cardinality(S \cup {c}) = Cardinality(S) + 1
      /\ Cardinality(S) + 1 <= Cardinality(G)
      /\ Cardinality(S) + 1 = Cardinality(G) => S \cup {c} = G
  <2> HIDE DEF S, G
  <2> QED BY <1>7, LastOne
<1>9. kv_count[r] = Cardinality(S) /\ (full => S \cup {c} = G)
  BY <1>5, <1>7, <1>8 DEF KvCounts
<1>10. \A d \in Clients :
         /\ \A t \in Servers \ {0} : ans'[t][d] = ans[t][d]
         /\ d \in ids =>
              ans'[0][d] = Append(ans[0][d], [kind |-> "kvbarrier", table |-> <<>>, id |-> d])
         /\ d \notin ids => ans'[0][d] = ans[0][d]
  <2>1. ids \in SUBSET Clients
    BY <1>7
  <2> HIDE DEF ids
  <2> QED BY <1>3, <1>4, <1>6, <2>1, AnswerTells
<1>11. SameBooks /\ roles' = roles /\ NumberedOnce'
  BY <1>5, <1>6 DEF SameBooks, NumberedOnce
<1>12. \A d \in S : client[d].pc = "kvbarrier" /\ Quiet(req[d], Answers(d)) /\ d # c
  BY <1>7 DEF Counted
<1>13. ASSUME full, NEW d \in G
       PROVE  /\ client[d].pc = "kvbarrier" /\ ~Told(Answers(d))
              /\ Own(d)' /\ Told(Answers(d)') /\ ~Quiet(req'[d], Answers(d)') /\ NoneNew(d)
  <2>1. client[d].pc = "kvbarrier" /\ Quiet(req'[d], Answers(d))
        /\ Asked(client[d].pc, req'[d]) /\ NoneNew(d)
    <3>1. CASE d = c
      BY <1>3, <1>4, <3>1 DEF Quiet
    <3>2. CASE d # c
      <4>1. d \in S
        BY <1>9, <1>13, <3>2
      <4>2. req'[d] = req[d] /\ d \in Clients
        BY <1>4, <1>7, <3>2
      <4> QED BY <1>12, <4>1, <4>2 DEF NoneNew, DInv, Own, Talk
    <3> QED BY <3>1, <3>2
  <2>2. /\ d \in Clients
        /\ ans'[0][d] = Append(ans[0][d], [kind |-> "kvbarrier", table |-> <<>>, id |-> d])
        /\ \A t \in Servers \ {0} : ans'[t][d] = ans[t][d]
    BY <1>7, <1>10, <1>13
  <2>3. Own(d)' /\ Told(Answers(d)') /\ ~Quiet(req'[d], Answers(d)')
    BY <1>4, <1>11, <2>1, <2>2, ReleasedOwn
  <2>4. ~Told(Answers(d))
    BY <2>1 DEF Quiet, Told
  <2> QED BY <2>1, <2>3, <2>4
<1>14. ASSUME ~full
       PROVE  /\ Own(c)' /\ Quiet(req'[c], Answers(c)') /\ ~Told(Answers(c)')
              /\ ~Told(Answers(c)) /\ NoneNew(c)
  <2>1. \A t \in Servers : ans'[t][c] = ans[t][c]
    BY <1>10, <1>14
  <2>2. /\ Own(c)' /\ Quiet(req'[c], Answers(c)') /\ ~Told(Answers(c)')
        /\ Answers(c)' = Answers(c)
    BY <1>2, <1>3, <1>11, <2>1, CountedOwn
  <2> QED BY <1>4, <2>2
<1> DEFINE out == IF full THEN G ELSE {c}
<1>15. ASSUME NEW d \in Clients \ out PROVE Own(d)' /\ Stands(d) /\ NoneNew(d)
  <2>1. d # c /\ d \notin ids
    BY <1>7
  <2>2. SameMessages(d)
    BY <1>4, <1>10, <2>1 DEF SameMessages
  <2> QED BY <1>11, <2>2, OthersOwn
<1>16. ASSUME NEW d \in out
       PROVE  /\ d \in Clients /\ client[d].pc = "kvbarrier" /\ ~Told(Answers(d))
              /\ Own(d)' /\ NoneNew(d)
              /\ full <=> Told(Answers(d)')
              /\ ~full <=> Quiet(req'[d], Answers(d)')
  BY <1>3, <1>7, <1>13, <1>14
<1>17. \A d \in Clients : Own(d)' /\ NoneNew(d)
  BY <1>15, <1>16
<1>18. \A d \in Clients :
         /\ HasRegistered(d)' <=> HasRegistered(d)
         /\ Through(d)' = Through(d)
         /\ d \in Counted("barrier")' <=> d \in Counted("barrier")
  <2> SUFFICES ASSUME NEW d \in Clients
               PROVE  /\ HasRegistered(d)' <=> HasRegistered(d)
                      /\ Through(d)' = Through(d)
                      /\ d \in Counted("barrier")' <=> d \in Counted("barrier")
    OBVIOUS
  <2>1. CASE d \in out
    <3>1. client[d].pc = "kvbarrier"
      BY <1>16, <2>1
    <3> QED BY <3>1 DEF HasRegistered, Through, Counted
  <2>2. CASE d \notin out
    BY <1>15, <2>2 DEF Stands
  <2> QED BY <2>1, <2>2
<1>19. Table' /\ SameExit' /\ Exits' /\ ExitCount'
  <2>1. Table'
    BY <1>5, <1>11, <1>18, Zenon DEF Table
  <2>2. SameExit' /\ Exits'
    BY <1>5, <1>17, <1>18, NoneNewFlushed, Zenon DEF SameExit, Exits, Released
  <2>3. Counted("barrier")' = Counted("barrier")
    BY <1>18 DEF Counted
  <2> QED BY <1>5, <1>6, <2>1, <2>2, <2>3 DEF ExitCount
<1>20. SameRound'
  <2> SUFFICES ASSUME NEW x \in Clients, NEW y \in Clients, Role[y] = Role[x]
               PROVE  Ended(y)' = Ended(x)'
    BY DEF SameRound
  <2>1. Ended(y) = Ended(x)
    BY <1>5 DEF SameRound
  <2>2. ASSUME NEW d \in Clients
        PROVE  Ended(d)' = IF full /\ d \in G THEN Ended(d) + 1 ELSE Ended(d)
    <3>1. client[d].passed \in Nat
      BY DEF IInv, Types, Program
    <3>2. CASE full /\ d \in G
      BY <1>13, <3>1, <3>2 DEF Ended
    <3>3. CASE ~full /\ d = c
      BY <1>14, <3>1, <3>3 DEF Ended
    <3>4. CASE d \notin out
      BY <1>7, <1>15, <3>4 DEF Stands
    <3> QED BY <3>2, <3>3, <3>4
  <2>3. x \in G <=> y \in G
    BY DEF Members
  <2> QED BY <2>1, <2>2, <2>3
<1>21. KvCounts'
  <2>1. ASSUME NEW q \in Roles
        PROVE  /\ kv_count'[q] = Cardinality(Counted("kvbarrier")' \cap Members(q))
               /\ kv_count'[q] < Cardinality(Members(q))
    <3>0. /\ kv_count \in [Roles -> Nat]
          /\ kv_count[q] = Cardinality(Counted("kvbarrier") \cap Members(q))
          /\ kv_count[q] < Cardinality(Members(q))
      BY <1>5 DEF KvCounts
    <3>1. CASE q # r
      <4>1. out \cap Members(q) = {}
        BY <1>7, <3>1 DEF Members
      <4>2. Counted("kvbarrier")' \cap Members(q) = Counted("kvbarrier") \cap Members(q)
        BY <1>15, <4>1 DEF Stands, Members
      <4>3. kv_count'[q] = kv_count[q]
        BY <1>6, <3>0, <3>1
      <4> QED BY <3>0, <4>2, <4>3
    <3>2. CASE q = r /\ full
      <4>1. Counted("kvbarrier")' \cap Members(q) = {}
        BY <1>7, <1>13, <3>2 DEF Counted
      <4>2. kv_count'[q] = 0
        BY <1>6, <3>0, <3>2
      <4>3. 0 < Cardinality(G)
        BY <1>8
      <4> QED BY <3>2, <4>1, <4>2, <4>3, FS_EmptySet
    <3>3. CASE q = r /\ ~full
      <4>1. Counted("kvbarrier")' \cap G = S \cup {c}
        <5>1. c \in Counted("kvbarrier")'
          BY <1>3, <1>14, <3>3 DEF Counted
        <5>2. \A d \in G \ {c} : d \in Counted("kvbarrier")' <=> d \in Counted("kvbarrier")
          BY <1>7, <1>15, <3>3 DEF Stands
        <5> QED BY <1>7, <5>1, <5>2
      <4>2. kv_count'[q] = kv_count[r] + 1
        BY <1>6, <3>0, <3>3
      <4>3. kv_count'[q] = Cardinality(S \cup {c})
        BY <1>8, <1>9, <4>2
      <4>4. kv_count'[q] < Cardinality(G)
        BY <1>8, <1>9, <3>3, <4>2
      <4> QED BY <3>3, <4>1, <4>3, <4>4
    <3> QED BY <3>1, <3>2, <3>3
  <2>2. kv_count' \in [Roles -> Nat]
    <3>1. (IF full THEN 0 ELSE kv_count[r] + 1) \in Nat
      BY <1>8, <1>9
    <3>2. kv_count \in [Roles -> Nat]
      BY <1>5 DEF KvCounts
    <3> HIDE DEF full
    <3> QED BY <1>6, <3>1, <3>2
  <2> QED BY <2>1, <2>2 DEF KvCounts
<1> QED BY <1>11, <1>17, <1>19, <1>20, <1>21 DEF DInv, Joint

\* ClientBarrierRequest: the last client releases all of them, and nothing that
\* any of them sent before is left in the channels to server 0.
LEMMA BarrierOwns ==
    ASSUME IInv, IInv', DInv, NEW s \in Servers, NEW c \in Clients, UNCHANGED client,
           Pops(c, s), HandleBarrier(s, Head(req[c][s]))
    PROVE  DInv'
<1> DEFINE m == Head(req[c][s])
           S == Counted("barrier")
           full == barrier_count + 1 = num_clients
           ids == IF full THEN Clients ELSE {}
<1>1. m.kind = "barrier" /\ m.kind \in Awaiting
  BY DEF HandleBarrier, Awaiting
<1>2. LastTaken(c, s)
  BY <1>1, TakenAwaited
<1>3. /\ client[c].pc = "barrier" /\ s = 0 /\ m.id = c /\ m.from = c
      /\ \A t \in Servers : ~Pending(req'[c][t]) /\ Len(Answers(c)[t]) = 0
      /\ Pending(req[c][0]) /\ 0 \in Servers /\ Len(req'[c][0]) = 0
  BY <1>1, <1>2, NoIdProperties DEF LastTaken
<1>4. /\ Numbering /\ server[s].namebook = Book
      /\ \A d \in Clients \ {c} : req'[d] = req[d]
      /\ Asked(client[c].pc, req'[c]) /\ NoneNew(c)
  BY <1>2 DEF LastTaken
<1>5. KvCounts /\ SameRound /\ SameExit /\ NumberedOnce /\ Table /\ ExitCount /\ Exits
  BY DEF DInv, Joint
<1>6. /\ barrier_count' = (IF full THEN 0 ELSE barrier_count + 1)
      /\ Answer(s, ids, "barrier", <<>>)
      /\ UNCHANGED <<server, roles, kv_count>>
  <2>1. AllIds = Clients
    BY DEF AllIds, Clients
  <2> QED BY <2>1, Zenon DEF HandleBarrier
<1> HIDE DEF m
<1>7. S \in SUBSET Clients /\ c \notin S
  <2>1. ~Quiet(req[c], Answers(c))
    BY <1>3 DEF Quiet
  <2> QED BY <2>1 DEF Counted
<1>8. /\ IsFiniteSet(S) /\ Cardinality(S) \in Nat /\ Cardinality(Clients) = num_clients
      /\ num_clients \in Nat
      /\ Cardinality(S \cup {c}) = Cardinality(S) + 1
      /\ Cardinality(S) + 1 <= Cardinality(Clients)
      /\ Cardinality(S) + 1 = Cardinality(Clients) => S \cup {c} = Clients
  <2>1. Cardinality(Clients) = num_clients /\ Clients \in SUBSET Clients /\ num_clients \in Nat
    BY ClientNumbers, Counts
  <2> HIDE DEF S
  <2> QED BY <1>7, <2>1, LastOne
<1>9. barrier_count = Cardinality(S) /\ (full => S \cup {c} = Clients)
  BY <1>5, <1>8 DEF ExitCount
<1>10. \A d \in Clients :
         /\ \A t \in Servers \ {0} : ans'[t][d] = ans[t][d]
         /\ d \in ids =>
              ans'[0][d] = Append(ans[0][d], [kind |-> "barrier", table |-> <<>>, id |-> d])
         /\ d \notin ids => ans'[0][d] = ans[0][d]
  <2>1. ids \in SUBSET Clients
    OBVIOUS
  <2> HIDE DEF ids
  <2> QED BY <1>3, <1>4, <1>6, <2>1, AnswerTells
<1>11. SameBooks /\ roles' = roles /\ NumberedOnce'
  BY <1>5, <1>6 DEF SameBooks, NumberedOnce
<1>12. \A d \in S : client[d].pc = "barrier" /\ Quiet(req[d], Answers(d)) /\ d # c
  BY <1>7 DEF Counted
<1>13. ASSUME full, NEW d \in Clients
       PROVE  /\ client[d].pc = "barrier" /\ ~Told(Answers(d)) /\ Own(d)' /\ Told(Answers(d)')
              /\ ~Quiet(req'[d], Answers(d)') /\ NoneNew(d) /\ Len(req'[d][0]) = 0
  <2>1. client[d].pc = "barrier" /\ Quiet(req'[d], Answers(d))
        /\ Asked(client[d].pc, req'[d]) /\ NoneNew(d)
    <3>1. CASE d = c
      BY <1>3, <1>4, <3>1 DEF Quiet
    <3>2. CASE d # c
      <4>1. d \in S
        BY <1>9, <1>13, <3>2
      <4>2. req'[d] = req[d]
        BY <1>4, <3>2
      <4> QED BY <1>12, <4>1, <4>2 DEF NoneNew, DInv, Own, Talk
    <3> QED BY <3>1, <3>2
  <2>2. /\ ans'[0][d] = Append(ans[0][d], [kind |-> "barrier", table |-> <<>>, id |-> d])
        /\ \A t \in Servers \ {0} : ans'[t][d] = ans[t][d]
    BY <1>10, <1>13
  <2>3. Own(d)' /\ Told(Answers(d)') /\ ~Quiet(req'[d], Answers(d)')
    BY <1>4, <1>11, <2>1, <2>2, ReleasedOwn
  <2>4. Len(req'[d][0]) = 0
    BY <1>3, <2>1 DEF Asked, Quiet
  <2>5. ~Told(Answers(d))
    BY <2>1 DEF Quiet, Told
  <2> QED BY <2>1, <2>3, <2>4, <2>5
<1>14. ASSUME ~full
       PROVE  /\ Own(c)' /\ Quiet(req'[c], Answers(c)') /\ ~Told(Answers(c)')
              /\ ~Told(Answers(c)) /\ NoneNew(c)
  <2>1. \A t \in Servers : ans'[t][c] = ans[t][c]
    BY <1>10, <1>14
  <2>2. /\ Own(c)' /\ Quiet(req'[c], Answers(c)') /\ ~Told(Answers(c)')
        /\ Answers(c)' = Answers(c)
    BY <1>2, <1>3, <1>11, <2>1, CountedOwn
  <2> QED BY <1>4, <2>2
<1>15. ASSUME ~full, NEW d \in Clients \ {c} PROVE Own(d)' /\ Stands(d) /\ NoneNew(d)
  <2>1. SameMessages(d)
    BY <1>4, <1>10, <1>15 DEF SameMessages
  <2> QED BY <1>11, <2>1, OthersOwn
<1>16. \A d \in Clients : Own(d)' /\ NoneNew(d)
  BY <1>13, <1>14, <1>15
<1>17. \A d \in Clients :
         /\ HasRegistered(d)' <=> HasRegistered(d)
         /\ Ended(d)' = Ended(d)
         /\ d \in Counted("kvbarrier")' <=> d \in Counted("kvbarrier")
  <2> SUFFICES ASSUME NEW d \in Clients
               PROVE  /\ HasRegistered(d)' <=> HasRegistered(d)
                      /\ Ended(d)' = Ended(d)
                      /\ d \in Counted("kvbarrier")' <=> d \in Counted("kvbarrier")
    OBVIOUS
  <2>1. CASE client[d].pc = "barrier"
    BY <2>1 DEF HasRegistered, Ended, Counted
  <2>2. CASE client[d].pc # "barrier"
    <3>1. ~full /\ d # c
      BY <1>3, <1>13, <2>2
    <3> QED BY <1>15, <3>1 DEF Stands
  <2> QED BY <2>1, <2>2
<1>18. Table' /\ SameRound' /\ KvCounts'
  <2>1. Table' /\ SameRound'
    BY <1>5, <1>11, <1>17, Zenon DEF Table, SameRound
  <2>2. Counted("kvbarrier")' = Counted("kvbarrier")
    BY <1>17 DEF Counted
  <2> QED BY <1>5, <1>6, <2>1, <2>2 DEF KvCounts
<1>19. SameExit' /\ Exits'
  <2>1. CASE full
    <3>1. ASSUME NEW d \in Clients PROVE Through(d)' = Through(d) + 1
      <4>1. client[d].barriers \in Nat
        BY DEF IInv, Types, Program
      <4> QED BY <1>13, <2>1, <4>1 DEF Through
    <3>2. ASSUME NEW d \in Clients PROVE Flushed(d)'
      <4>1. Len(req'[d][0]) = 0
        BY <1>13, <2>1
      <4>2. 1..0 = {}
        OBVIOUS
      <4> QED BY <4>1, <4>2 DEF Flushed
    <3> QED BY <1>5, <3>1, <3>2, Zenon DEF SameExit, Exits
  <2>2. CASE ~full
    <3>1. ASSUME NEW d \in Clients PROVE Through(d)' = Through(d)
      <4>1. CASE d = c
        BY <1>3, <1>14, <2>2, <4>1 DEF Through
      <4>2. CASE d # c
        BY <1>15, <2>2, <4>2 DEF Stands
      <4> QED BY <4>1, <4>2
    <3> QED BY <1>5, <1>16, <3>1, NoneNewFlushed, Zenon DEF SameExit, Exits, Released
  <2> QED BY <2>1, <2>2
<1>20. ExitCount'
  <2>1. CASE full
    <3>1. Counted("barrier")' = {}
      BY <1>13, <2>1 DEF Counted
    <3>2. barrier_count' = 0 /\ 0 < num_clients
      BY <1>6, <2>1, Counts
    <3> QED BY <3>1, <3>2, FS_EmptySet DEF ExitCount
  <2>2. CASE ~full
    <3>1. Counted("barrier")' = S \cup {c}
      <4>1. c \in Counted("barrier")'
        BY <1>3, <1>14, <2>2 DEF Counted
      <4>2. \A d \in Clients \ {c} : d \in Counted("barrier")' <=> d \in Counted("barrier")
        BY <1>15, <2>2 DEF Stands
      <4>3. Counted("barrier")' \subseteq Clients
        BY DEF Counted
      <4> QED BY <1>7, <4>1, <4>2, <4>3
    <3>2. barrier_count' = barrier_count + 1
      BY <1>6, <2>2
    <3>3. barrier_count' = Cardinality(S \cup {c})
      BY <1>8, <1>9, <3>2
    <3>4. barrier_count' < num_clients
      BY <1>8, <1>9, <2>2, <3>2
    <3> QED BY <3>1, <3>3, <3>4 DEF ExitCount
  <2> QED BY <2>1, <2>2
<1> QED BY <1>11, <1>16, <1>18, <1>19, <1>20 DEF DInv, Joint

\* One turn of start_server's loop.
LEMMA ServeOwns ==
    ASSUME IInv, IInv', DInv, NEW s \in Servers, Serve(s) PROVE DInv'
<1>1. PICK c \in Clients :
        /\ Pops(c, s)
        /\ \/ HandleRegister(s, Head(req[c][s])) \/ HandlePush(Head(req[c][s]))
           \/ \E arrived \in SUBSET Clients : HandleShutdown(s, Head(req[c][s]), arrived)
           \/ HandleCall(s, Head(req[c][s])) \/ HandleGetRole(s, Head(req[c][s]))
           \/ HandleRole(s, Head(req[c][s]))
           \/ HandleKvBarrier(s, Head(req[c][s])) \/ HandleBarrier(s, Head(req[c][s]))
  BY DEF Serve, Pops
<1>2. UNCHANGED client
  BY DEF Serve
<1>3. CASE \/ HandleRegister(s, Head(req[c][s])) \/ HandlePush(Head(req[c][s]))
           \/ \E arrived \in SUBSET Clients : HandleShutdown(s, Head(req[c][s]), arrived)
  BY <1>1, <1>2, <1>3, SilentOwns
<1>4. CASE HandleCall(s, Head(req[c][s])) \/ HandleGetRole(s, Head(req[c][s]))
  BY <1>1, <1>2, <1>4, AnswerOneOwns
<1>5. CASE HandleRole(s, Head(req[c][s]))
  BY <1>1, <1>2, <1>5, RoleOwns
<1>6. CASE HandleKvBarrier(s, Head(req[c][s]))
  BY <1>1, <1>2, <1>6, KvBarrierOwns
<1>7. CASE HandleBarrier(s, Head(req[c][s]))
  BY <1>1, <1>2, <1>7, BarrierOwns
<1> QED BY <1>1, <1>3, <1>4, <1>5, <1>6, <1>7

-----------------------------------------------------------------------------
(* Theorems *)

\* Nobody has asked anything.
LEMMA InitOwns == Init => DInv
<1> SUFFICES ASSUME Init PROVE DInv
  OBVIOUS
<1>1. /\ \A c \in Clients :
           /\ client[c].pc = "start" /\ client[c].table = <<>> /\ client[c].barriers = 0
           /\ client[c].entered = 0 /\ client[c].passed = 0 /\ client[c].work = 0
           /\ \A s \in Servers : req[c][s] = <<>> /\ ans[s][c] = <<>>
      /\ \A s \in Servers : server[s].namebook = <<>> /\ server[s].recv_clients = <<>>
      /\ roles = <<>> /\ barrier_count = 0 /\ kv_count = [r \in Roles |-> 0]
  BY DEF Init
<1>2. Len(<<>>) = 0 /\ 1..0 = {}
  OBVIOUS
<1>3. ASSUME NEW c \in Clients
      PROVE  /\ \A s \in Servers : Len(req[c][s]) = 0 /\ Len(Answers(c)[s]) = 0
             /\ 1..Len(<<>>) = {}
  BY <1>1, <1>2 DEF Answers
<1>4. ASSUME NEW c \in Clients PROVE Own(c)
  <2>1. Asked("start", req[c])
    <3>1. \A s \in Servers : 1..Len(req[c][s]) = {}
      BY <1>2, <1>3
    <3> QED BY <3>1, AskedNothing
  <2>2. Heard("start", req[c], Answers(c)) /\ ~Told(Answers(c))
    BY <1>3, HeardNothing
  <2>3. Talk(client[c].pc, req[c], Answers(c))
    BY <1>1, <2>1, <2>2 DEF Talk
  <2>4. Joining(c) /\ Knows(c)
    BY <1>1, <2>2 DEF Joining, Knows
  <2>5. Round(c) /\ Calls(c)
    BY <1>1, SessionAssumption DEF Round, Calls, Left
  <2> QED BY <2>3, <2>4, <2>5 DEF Own
<1>5. NumberedOnce
  BY <1>1 DEF NumberedOnce
<1>6. Table
  <2>1. 1..Len(roles) = {}
    BY <1>1, <1>2
  <2>2. \A c \in Clients : ~HasRegistered(c)
    BY <1>1 DEF HasRegistered
  <2> QED BY <2>1, <2>2 DEF Table
<1>7. SameRound /\ SameExit
  BY <1>1 DEF SameRound, Ended, SameExit, Through
<1>8. Counted("kvbarrier") = {} /\ Counted("barrier") = {}
  BY <1>1 DEF Counted
<1>9. KvCounts
  <2>1. ASSUME NEW r \in Roles
        PROVE  0 = Cardinality({} \cap Members(r)) /\ 0 < Cardinality(Members(r))
    <3>1. {} \cap Members(r) = {}
      OBVIOUS
    <3>2. PICK c \in Clients : Role[c] = r
      BY DEF Roles
    <3>3. c \in Members(r) /\ Members(r) \in SUBSET Clients /\ Members(r) # {}
      BY <3>2 DEF Members
    <3>4. IsFiniteSet(Members(r))
      BY <3>3, ClientNumbers, FS_Subset
    <3>5. Cardinality(Members(r)) \in Nat /\ Cardinality(Members(r)) # 0
      BY <3>3, <3>4, FS_CardinalityType, FS_EmptySet
    <3> QED BY <3>1, <3>5, FS_EmptySet
  <2>2. kv_count \in [Roles -> Nat] /\ \A r \in Roles : kv_count[r] = 0
    BY <1>1
  <2> QED BY <1>8, <2>1, <2>2, Zenon DEF KvCounts
<1>10. ExitCount
  BY <1>1, <1>8, FS_EmptySet, Counts DEF ExitCount
<1>11. Exits
  BY <1>1, SessionAssumption DEF Exits, Released, Through
<1> QED BY <1>4, <1>5, <1>6, <1>7, <1>9, <1>10, <1>11 DEF DInv, Joint

\* Every step keeps the invariant.
LEMMA NextOwns ==
    ASSUME IInv, IInv', DInv, [Next]_vars PROVE DInv'
<1>1. ASSUME NEW s \in Servers, StartServer(s) PROVE DInv'
  BY <1>1, ListenCloseOwns, ConnectBackOwns, ServeOwns DEF StartServer
<1>2. CASE UNCHANGED vars
  <2>1. UNCHANGED <<client, server, roles, barrier_count, kv_count, req, ans>>
    BY <1>2 DEF vars
  <2>2. SameBooks /\ NumberedOnce' /\ \A d \in Clients : SameMessages(d)
    BY <2>1 DEF SameBooks, SameMessages, DInv, Joint, NumberedOnce
  <2>3. \A d \in Clients : Own(d)' /\ Stands(d) /\ NoneNew(d)
    BY <2>1, <2>2, OthersOwn
  <2> QED BY <2>1, <2>2, <2>3, JointKeeps DEF DInv
<1> QED BY StepOwns, <1>1, <1>2 DEF Next, Over

\* What is under way between clients and servers is always what they wait for.
THEOREM Dialogue == Spec => [](IInv /\ DInv)
<1>1. DInv /\ IInv /\ IInv' /\ [Next]_vars => DInv'
  BY NextOwns
<1> QED BY InitOwns, Invariance, <1>1, PTL DEF Spec

\* The values of TypeOK, where the invariants imply the bounds.
LEMMA TypeImplied == ASSUME IInv, DInv PROVE TypeOK
<1>1. ASSUME NEW c \in Clients
      PROVE  /\ client[c].pc \in Pcs
             /\ client[c].id \in Clients \cup {NoId}
             /\ client[c].table \in Seq(Registration)
             /\ client[c].barriers \in 0..(MaxBarriers + 1)
             /\ client[c].entered \in 0..MaxRounds /\ client[c].passed \in 0..MaxRounds
             /\ client[c].work \in 0..MaxWork[c]
  <2>1. /\ client[c].pc \in Pcs /\ client[c].id \in Clients \cup {NoId}
        /\ client[c].table \in Seq(Registration)
        /\ client[c].entered \in Nat /\ client[c].passed \in Nat /\ client[c].work \in Nat
    BY DEF IInv, Types, Program
  <2>2. Round(c)
    BY DEF DInv, Own
  <2>3. MaxRounds \in Nat /\ MaxWork[c] \in Nat
    BY SessionAssumption
  <2>4. client[c].entered \in 0..MaxRounds /\ client[c].passed \in 0..MaxRounds
    BY <2>1, <2>2, <2>3 DEF Round
  <2>5. client[c].work \in 0..MaxWork[c]
    BY <2>1, <2>2, <2>3 DEF Round
  <2>6. client[c].barriers \in 0..(MaxBarriers + 1)
    BY ReleasedWhen DEF DInv, Own, Calls
  <2> QED BY <2>1, <2>4, <2>5, <2>6
<1>2. ASSUME NEW s \in Servers
      PROVE  /\ server[s].pc \in {"wait", "serve", "closing", "hung", "done"}
             /\ server[s].recv_clients \in Seq(Clients)
             /\ server[s].namebook = <<>> \/ server[s].namebook \in [Clients -> Clients]
  <2>1. server[s] \in ServerLoop
    BY DEF IInv, Types
  <2>2. Book \in [Clients -> Clients]
    BY DEF Book
  <2> HIDE DEF Book
  <2> QED BY <2>1, <2>2 DEF ServerLoop
<1>3. roles \in Seq(Registration) /\ Len(roles) <= num_clients
  BY TableProperties
<1>4. barrier_count \in 0..(num_clients - 1)
  <2>1. Counted("barrier") \in SUBSET Clients
    BY DEF Counted
  <2>2. IsFiniteSet(Counted("barrier"))
    BY <2>1, ClientNumbers, FS_Subset
  <2>3. Cardinality(Counted("barrier")) \in Nat
    BY <2>2, FS_CardinalityType
  <2>4. barrier_count \in Nat /\ barrier_count < num_clients
    BY <2>3 DEF DInv, Joint, ExitCount
  <2> QED BY <2>4, Counts
<1>5. kv_count \in [Roles -> 0..(num_clients - 1)]
  <2>1. kv_count \in [Roles -> Nat] /\ \A r \in Roles : kv_count[r] < Cardinality(Members(r))
    BY DEF DInv, Joint, KvCounts
  <2>2. ASSUME NEW r \in Roles PROVE kv_count[r] \in 0..(num_clients - 1)
    <3>1. Members(r) \in SUBSET Clients
      BY DEF Members
    <3>2. IsFiniteSet(Members(r)) /\ Cardinality(Members(r)) <= num_clients
      BY <3>1, ClientNumbers, FS_Subset
    <3>3. Cardinality(Members(r)) \in Nat
      BY <3>2, FS_CardinalityType
    <3>4. kv_count[r] \in Nat /\ kv_count[r] < Cardinality(Members(r))
      BY <2>1
    <3> QED BY <3>2, <3>3, <3>4, Counts
  <2> QED BY <2>1, <2>2
<1>6. ASSUME NEW c \in Clients, NEW s \in Servers PROVE req[c][s] \in Seq(Request)
  <2>1. RequestOf(c) \subseteq Request
    BY DEF RequestOf, Request, Kinds
  <2>2. req[c][s] \in Seq(RequestOf(c))
    BY Channels
  <2> HIDE DEF RequestOf, Request
  <2>3. /\ Len(req[c][s]) \in Nat
        /\ \A i \in 1..Len(req[c][s]) : req[c][s][i] \in Request
        /\ DOMAIN req[c][s] = 1..Len(req[c][s])
    BY <2>1, <2>2, LenProperties, ElementOfSeq
  <2> QED BY <2>1, <2>2, <2>3
<1>7. ASSUME NEW c \in Clients, NEW s \in Servers PROVE Len(ans[s][c]) <= 1
  BY Channels DEF DInv, Own, Talk, Heard
<1> QED BY <1>1, <1>2, <1>3, <1>4, <1>5, <1>6, <1>7 DEF TypeOK

\* The types of the session's state, and its bounds: no counter at server 0
\* gets past its barrier, no client has two answers under way, the role table
\* has one entry for each client at most.
THEOREM TypeCorrect == Spec => []TypeOK
  BY Dialogue, TypeImplied, PTL

\* recv_response never raises: no client is handed an answer to another client
\* or to another question.
THEOREM Matched == Spec => []AnswersMatch
<1>1. IInv /\ DInv => AnswersMatch
  BY DEF DInv, Own, Talk, AnswersMatch
<1> QED BY Dialogue, <1>1, PTL

\* Once exit_client is through client_barrier anywhere, server 0 has handled
\* what any client sent it before.
THEOREM Server0Flushed == Spec => []BarrierFlushesServer0
<1>1. ASSUME IInv, DInv PROVE BarrierFlushesServer0
  <2>1. ASSUME NEW c \in Clients, client[c].pc \in {"shutdown", "final", "done"},
               NEW d \in Clients, NEW i \in DOMAIN req[d][0]
        PROVE  req[d][0][i].kind = "shutdown"
    <3>1. Flushed(d)
      BY <1>1, <2>1, ReleasedWhen DEF DInv, Own, Joint, Exits, Left
    <3>2. DOMAIN req[d][0] = 1..Len(req[d][0])
      <4>1. req[d][0] \in Seq(RequestOf(d))
        BY <1>1, NoIdProperties, Channels
      <4> QED BY <4>1, LenProperties
    <3> QED BY <2>1, <3>1, <3>2 DEF Flushed
  <2> QED BY <2>1, Zenon DEF BarrierFlushesServer0
<1> QED BY Dialogue, <1>1, PTL

-----------------------------------------------------------------------------
(* Barriers *)

\* How a step of client c moves it into a barrier and out of it: out only with
\* the answer.
Crosses(c) ==
    /\ Changes(c)
    /\ \/ /\ client[c].pc = "work" /\ client'[c].pc = "kvbarrier"
          /\ client'[c].entered = client[c].entered + 1
       \/ /\ client'[c].entered = client[c].entered
          /\ client'[c].pc # "kvbarrier"
          /\ client[c].pc = "kvbarrier" => Told(Answers(c))
    /\ \/ /\ client[c].pc = "work" /\ client'[c].pc = "barrier"
          /\ client'[c].barriers = client[c].barriers + 1
       \/ /\ client'[c].barriers = client[c].barriers
          /\ client'[c].pc # "barrier"
          /\ client[c].pc = "barrier" => Told(Answers(c))

LEMMA StepCrosses ==
    ASSUME IInv, IInv', DInv, DInv', NEW c \in Clients, Step(c) PROVE Crosses(c)
<1> DEFINE r == client[c]
<1>0. r \in Program /\ DOMAIN client = Clients /\ r.pc \in Pcs /\ client'[c].pc # "failed"
  BY DEF IInv, Types, Program, DInv, Own, Talk
<1>1. ASSUME NEW now \in Program, client' = [client EXCEPT ![c] = now]
      PROVE  Changes(c) /\ client'[c] = now
  BY <1>1, ChangesOne
<1>2. \A pc \in Pcs : Become(c, pc) =>
        Changes(c) /\ client'[c].pc = pc /\ client'[c].entered = r.entered
        /\ client'[c].barriers = r.barriers
  BY BecomeMoves DEF Moves
<1>3. /\ "accept" \in Pcs /\ "register" \in Pcs /\ "call" \in Pcs /\ "kvbarrier" \in Pcs
      /\ "barrier" \in Pcs /\ "final" \in Pcs /\ "done" \in Pcs
  BY DEF Pcs
<1>4. CASE Register(c)
  <2>1. r.pc = "start" /\ Become(c, "accept")
    BY <1>4 DEF Register
  <2> QED BY <1>2, <1>3, <2>1 DEF Crosses
<1>5. CASE AcceptServers(c)
  <2>1. r.pc = "accept" /\ Become(c, "register")
    BY <1>5 DEF AcceptServers
  <2> QED BY <1>2, <1>3, <2>1 DEF Crosses
<1>6. ASSUME NEW s \in Servers, Receive(c, s) PROVE Crosses(c)
  <2> DEFINE a == Head(ans[s][c])
             new == [Learnt(r, a) EXCEPT !.pc = GoesOn(r)]
             failed == [r EXCEPT !.pc = "failed"]
             now == IF a.kind = r.pc /\ r.id \in {a.id, NoId} THEN new ELSE failed
  <2>1. r.pc \in DOMAIN After /\ ans[s][c] # <<>> /\ client' = [client EXCEPT ![c] = now]
    BY <1>6 DEF Receive
  <2>2. ans[s][c] \in Seq(ResponseTo(c)) /\ Len(ans[s][c]) \in Nat /\ Answers(c)[s] = ans[s][c]
    BY Channels
  <2>3. Len(ans[s][c]) # 0 /\ a \in ResponseTo(c)
    BY <2>1, <2>2, HeadTailProperties, EmptySeq
  <2>4. GoesOn(r) \in Pcs /\ "failed" \in Pcs
    BY <2>1, AfterProperties DEF Pcs
  <2>5. Told(Answers(c))
    BY <2>2, <2>3 DEF Told
  <2> HIDE DEF a
  <2>6. new \in Program /\ new.pc = GoesOn(r) /\ new.entered = r.entered
        /\ new.barriers = r.barriers
    BY <1>0, <2>3, <2>4, LearntProperties, LearntFields
  <2>7. failed \in Program /\ failed.pc = "failed" /\ failed.entered = r.entered
        /\ failed.barriers = r.barriers
    BY ZenonT(60), <1>0, <2>4, RecordProperties, OtherFields, OtherBarriers
  <2> HIDE DEF new, failed
  <2>8. now \in Program /\ now.entered = r.entered /\ now.pc \in {GoesOn(r), "failed"}
        /\ now.barriers = r.barriers
    BY <2>6, <2>7
  <2> HIDE DEF now
  <2>9. Changes(c) /\ client'[c] = now
    BY <1>1, <2>1, <2>8
  <2>10. /\ client'[c].pc = GoesOn(r) /\ client'[c].entered = r.entered
         /\ client'[c].barriers = r.barriers
    BY <1>0, <2>8, <2>9
  <2>11. GoesOn(r) \notin {"kvbarrier", "barrier"}
    BY <2>1 DEF After, GoesOn
  <2> QED BY <2>5, <2>9, <2>10, <2>11 DEF Crosses
<1>7. ASSUME NEW s \in Servers, Call(c, s) PROVE Crosses(c)
  <2> DEFINE now == [r EXCEPT !.pc = "call", !.work = @ + 1]
  <2>1. r.pc = "work" /\ client' = [client EXCEPT ![c] = now]
    BY <1>0, <1>7 DEF Call
  <2>2. now \in Program /\ now.pc = "call" /\ now.entered = r.entered
        /\ now.barriers = r.barriers
    BY ZenonT(60), <1>0, <1>3, RecordProperties, OtherFields, OtherBarriers
  <2> HIDE DEF now
  <2> QED BY <1>1, <2>1, <2>2 DEF Crosses
<1>8. ASSUME NEW s \in Servers, Push(c, s) PROVE Crosses(c)
  <2> DEFINE now == [r EXCEPT !.work = @ + 1]
  <2>1. r.pc = "work" /\ client' = [client EXCEPT ![c] = now]
    BY <1>0, <1>8 DEF Push
  <2>2. now \in Program /\ now.pc = "work" /\ now.entered = r.entered
        /\ now.barriers = r.barriers
    BY ZenonT(60), <1>0, <1>3, <2>1, RecordProperties, OtherFields, OtherBarriers
  <2> HIDE DEF now
  <2> QED BY <1>1, <2>1, <2>2 DEF Crosses
<1>9. CASE EnterKvBarrier(c)
  <2> DEFINE now == [r EXCEPT !.pc = "kvbarrier", !.entered = @ + 1]
  <2>1. r.pc = "work" /\ client' = [client EXCEPT ![c] = now]
    BY <1>0, <1>9 DEF EnterKvBarrier
  <2>2. now \in Program
    BY <1>0, <1>3, RecordProperties
  <2>3. now.pc = "kvbarrier" /\ now.entered = r.entered + 1 /\ now.barriers = r.barriers
    <3>1. now.pc = "kvbarrier"
      BY <1>0 DEF Program
    <3>2. now.entered = r.entered + 1
      BY <1>0, <1>3, OtherFields, Zenon
    <3>3. now.barriers = r.barriers
      BY <1>0, <1>3, OtherBarriers, Zenon
    <3> QED BY <3>1, <3>2, <3>3
  <2> HIDE DEF now
  <2> QED BY <1>1, <2>1, <2>2, <2>3 DEF Crosses
<1>10. CASE EnterBarrier(c)
  <2> DEFINE now == [r EXCEPT !.pc = "barrier", !.barriers = @ + 1]
  <2>1. r.pc = "work" /\ client' = [client EXCEPT ![c] = now]
    BY <1>0, <1>10 DEF EnterBarrier
  <2>2. now \in Program /\ now.pc = "barrier"
    BY <1>0, <1>3, BarriersProperties
  <2>3. now.barriers = r.barriers + 1 /\ now.entered = r.entered
    BY <1>0, <1>3, BarriersFields
  <2> HIDE DEF now
  <2> QED BY <1>1, <2>1, <2>2, <2>3 DEF Crosses
<1>11. CASE ShutdownServers(c)
  <2>1. r.pc = "shutdown" /\ Become(c, "final")
    BY <1>11 DEF ShutdownServers
  <2> QED BY <1>2, <1>3, <2>1 DEF Crosses
<1>12. CASE Exit(c)
  <2>1. r.pc = "final" /\ Become(c, "done")
    BY <1>12 DEF Exit
  <2> QED BY <1>2, <1>3, <2>1 DEF Crosses
<1> HIDE DEF r
<1> QED BY <1>4, <1>5, <1>6, <1>7, <1>8, <1>9, <1>10, <1>11, <1>12 DEF Step

\* A step of a server leaves the clients alone.
LEMMA ServerCrosses ==
    ASSUME NEW s \in Servers, StartServer(s) PROVE client' = client
  BY DEF StartServer, Listen, ConnectBack, Serve, Close

\* A step of KVClient.barrier's callers is a step of a barrier of each role.
LEMMA RoleBarrierStep ==
    ASSUME IInv, DInv, DInv', NEW c \in Clients, Crosses(c)
    PROVE  [RoleBarriers!Next]_(RoleBarriers!vars)
<1> DEFINE In == [d \in Clients |-> client[d].entered]
           Out == [d \in Clients |-> client[d].passed]
<1>1. Round(c) /\ Round(c)' /\ Changes(c) /\ \A d \in Clients : client[d] \in Program
  BY DEF DInv, Own, Crosses, IInv, Types
<1>2. client[c].entered \in Nat /\ client[c].passed \in Nat /\ client'[c] \in Program
  BY <1>1 DEF Program, Changes
<1>6. client'[c].entered \in Nat /\ client'[c].passed \in Nat
  BY <1>2 DEF Program
<1>3. CASE client[c].pc = "work" /\ client'[c].pc = "kvbarrier"
           /\ client'[c].entered = client[c].entered + 1
  <2>1. client[c].entered = client[c].passed /\ client'[c].passed = client[c].passed
    BY <1>1, <1>2, <1>6, <1>3 DEF Round
  <2>2. In[c] = Out[c] /\ In' = [In EXCEPT ![c] = @ + 1] /\ Out' = Out
    BY <1>1, <1>3, <2>1 DEF Changes
  <2>3. RoleBarriers!Enter(c)
    BY <2>2 DEF RoleBarriers!Enter
  <2> QED BY <2>3 DEF RoleBarriers!Next
<1>4. CASE client'[c].entered = client[c].entered /\ client'[c].pc # "kvbarrier"
           /\ client[c].pc = "kvbarrier" /\ Told(Answers(c))
  <2>1. client[c].entered = client[c].passed + 1 /\ client'[c].passed = client[c].passed + 1
    BY <1>1, <1>2, <1>6, <1>4 DEF Round
  <2>2. In' = In /\ Out' = [Out EXCEPT ![c] = @ + 1]
    BY <1>1, <1>4, <2>1 DEF Changes
  <2>3. ASSUME NEW d \in Clients, Role[d] = Role[c] PROVE Out[c] < In[d]
    <3>1. Ended(d) = Ended(c)
      BY <2>3 DEF DInv, Joint, SameRound
    <3>2. Ended(c) = client[c].passed + 1
      BY <1>4 DEF Ended
    <3>3. Round(d) /\ client[d].entered \in Nat /\ client[d].passed \in Nat
      BY <1>1 DEF DInv, Own, Program
    <3>4. Ended(d) <= client[d].entered
      BY <3>3 DEF Ended, Round
    <3>5. client[c].passed < client[d].entered
      BY <1>2, <3>1, <3>2, <3>3, <3>4
    <3> QED BY <3>5
  <2>4. Out[c] < In[c]
    BY <2>3
  <2>5. RoleBarriers!Pass(c)
    BY <2>2, <2>3, <2>4 DEF RoleBarriers!Pass
  <2> QED BY <2>5 DEF RoleBarriers!Next
<1>5. CASE client'[c].entered = client[c].entered /\ client'[c].pc # "kvbarrier"
           /\ client[c].pc # "kvbarrier"
  <2>1. client'[c].passed = client[c].passed
    BY <1>1, <1>2, <1>6, <1>5 DEF Round
  <2>2. In' = In /\ Out' = Out
    BY <1>1, <1>5, <2>1 DEF Changes
  <2> QED BY <2>2 DEF RoleBarriers!vars
<1> QED BY <1>3, <1>4, <1>5 DEF Crosses

\* A step of client_barrier's callers is a step of a barrier of all.
LEMMA ClientBarrierStep ==
    ASSUME IInv, DInv, NEW c \in Clients, Crosses(c)
    PROVE  [ClientBarrier!Next]_(ClientBarrier!vars)
<1> DEFINE In == [d \in Clients |-> client[d].barriers]
           Out == [d \in Clients |->
                     client[d].barriers - IF client[d].pc = "barrier" THEN 1 ELSE 0]
<1>1. \A d \in Clients \ {c} : client'[d] = client[d]
  BY DEF Crosses, Changes
<1>2. \A d \in Clients : client[d].barriers \in Nat
  BY DEF IInv, Types, Program
<1>3. CASE client[c].pc = "work" /\ client'[c].pc = "barrier"
           /\ client'[c].barriers = client[c].barriers + 1
  <2>1. In[c] = Out[c] /\ Out'[c] = Out[c]
    BY <1>2, <1>3
  <2>2. In' = [In EXCEPT ![c] = @ + 1] /\ Out' = Out
    BY <1>1, <1>3, <2>1
  <2>3. ClientBarrier!Enter(c)
    BY <2>1, <2>2 DEF ClientBarrier!Enter
  <2> QED BY <2>3 DEF ClientBarrier!Next
<1>4. CASE client'[c].barriers = client[c].barriers /\ client'[c].pc # "barrier"
           /\ client[c].pc = "barrier" /\ Told(Answers(c))
  <2>1. Out'[c] = Out[c] + 1
    BY <1>2, <1>4
  <2>2. In' = In /\ Out' = [Out EXCEPT ![c] = @ + 1]
    BY <1>1, <1>4, <2>1
  <2>3. ASSUME NEW d \in Clients PROVE Out[c] < In[d]
    <3>1. Through(d) = Through(c)
      BY DEF DInv, Joint, SameExit
    <3>2. Through(c) = client[c].barriers
      BY <1>2, <1>4 DEF Through
    <3>3. Through(d) <= client[d].barriers
      BY <1>2 DEF Through
    <3>4. client[c].barriers - 1 < client[d].barriers
      BY <1>2, <3>1, <3>2, <3>3
    <3> QED BY <1>4, <3>4
  <2>4. Out[c] < In[c]
    BY <2>3
  <2>5. ClientBarrier!Pass(c)
    BY <2>2, <2>3, <2>4 DEF ClientBarrier!Pass
  <2> QED BY <2>5 DEF ClientBarrier!Next
<1>5. CASE client'[c].barriers = client[c].barriers /\ client'[c].pc # "barrier"
           /\ client[c].pc # "barrier"
  <2>1. In' = In /\ Out' = Out
    BY <1>1, <1>2, <1>5
  <2> QED BY <2>1 DEF ClientBarrier!vars
<1> QED BY <1>3, <1>4, <1>5 DEF Crosses

\* The counters at server 0, with the requests and answers on their way, are
\* barriers: KVClient.barrier returns at no client before all clients of its
\* role have called it as often.
THEOREM RoleBarriersRefined == Spec => ImplementsRoleBarriers
<1>1. Init => RoleBarriers!Init
  BY DEF Init, RoleBarriers!Init
<1>2. IInv /\ DInv /\ IInv' /\ DInv' /\ [Next]_vars => [RoleBarriers!Next]_(RoleBarriers!vars)
  <2> SUFFICES ASSUME IInv, DInv, IInv', DInv', [Next]_vars
               PROVE  [RoleBarriers!Next]_(RoleBarriers!vars)
    OBVIOUS
  <2>1. CASE client' = client
    BY <2>1 DEF RoleBarriers!vars
  <2>2. ASSUME NEW c \in Clients, Step(c) PROVE [RoleBarriers!Next]_(RoleBarriers!vars)
    BY <2>2, StepCrosses, RoleBarrierStep
  <2> QED BY <2>1, <2>2, ServerCrosses DEF Next, Over, vars
<1> QED BY <1>1, <1>2, Dialogue, PTL DEF Spec, ImplementsRoleBarriers, RoleBarriers!Spec

\* client_barrier returns at no client before all clients have called it as
\* often; so exit_client shuts nothing down before all have called it.
THEOREM ClientBarrierRefined == Spec => ImplementsClientBarrier
<1>1. Init => ClientBarrier!Init
  BY DEF Init, ClientBarrier!Init
<1>2. IInv /\ DInv /\ IInv' /\ DInv' /\ [Next]_vars => [ClientBarrier!Next]_(ClientBarrier!vars)
  <2> SUFFICES ASSUME IInv, DInv, IInv', DInv', [Next]_vars
               PROVE  [ClientBarrier!Next]_(ClientBarrier!vars)
    OBVIOUS
  <2>1. CASE client' = client
    BY <2>1 DEF ClientBarrier!vars
  <2>2. ASSUME NEW c \in Clients, Step(c) PROVE [ClientBarrier!Next]_(ClientBarrier!vars)
    BY <2>2, StepCrosses, ClientBarrierStep
  <2> QED BY <2>1, <2>2, ServerCrosses DEF Next, Over, vars
<1> QED BY <1>1, <1>2, Dialogue, PTL DEF Spec, ImplementsClientBarrier, ClientBarrier!Spec

\* init_role numbers the clients the same everywhere.
THEOREM RanksAgreed == Spec => []RanksAgree
<1>1. ASSUME IInv, DInv PROVE RanksAgree
  <2> DEFINE tables == {client[c].table : c \in Clients} \ {<<>>}
  <2>1. ASSUME NEW table \in tables PROVE table = roles /\ FullTable(roles)
    <3>1. table = roles /\ Complete
      BY <1>1, <2>1 DEF DInv, Own, Knows
    <3>2. Table /\ roles \in Seq(Registration)
      BY <1>1, TableProperties DEF DInv, Joint
    <3>3. \E i \in 1..Len(roles) : roles[i].role = "default"
      <4>1. PICK c \in Clients : Role[c] = "default"
        BY SessionAssumption DEF Roles
      <4>2. PICK i \in 1..Len(roles) : roles[i].id = c
        BY <1>1, <3>1, <3>2, TableProperties DEF Table
      <4>3. roles[i].role = "default"
        <5>1. roles[i] = Entry(c)
          BY <3>2, <4>2 DEF Table
        <5> QED BY <4>1, <5>1 DEF Entry
      <4> QED BY <4>3
    <3> QED BY <3>1, <3>2, <3>3 DEF FullTable, Table, Complete
  <2>2. ASSUME NEW table \in tables
        PROVE  RanksOf(table) /\ \A other \in tables : GLOBAL_RANK(other) = GLOBAL_RANK(table)
    BY <2>1, <2>2, RanksOfTable
  <2> QED BY <2>2, Zenon DEF RanksAgree, RanksOf
<1> QED BY Dialogue, <1>1, PTL
=============================================================================
