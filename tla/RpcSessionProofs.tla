-------------------------- MODULE RpcSessionProofs --------------------------
(***************************************************************************)
(* Proofs about RpcSession, for any number of clients and servers, roles   *)
(* and machines: all servers and all clients agree on the clients' numbers *)
(* although every server numbers them by itself, and the ranks computed    *)
(* from a complete table of roles number all clients.                      *)
(***************************************************************************)
EXTENDS RpcSession, ListLemmas, WellFoundedInduction

\* The namebook that every server comes to.
Book == [id \in Clients |-> id]

Program ==
    [pc : Pcs, id : Clients \cup {NoId}, table : Seq(Registration),
     barriers : Nat, entered : Nat, passed : Nat, work : Nat]
ServerLoop ==
    [pc : {"wait", "serve", "closing", "hung", "done"},
     recv_clients : Seq(Clients), namebook : {<<>>, Book}]

\* Client c sends its number with every request but the registration, and
\* every answer to it carries that number.
RequestOf(c) ==
    [kind : {"register"}, from : {c}, id : {NoId}]
      \cup [kind : Kinds \ {"register"}, from : {c}, id : {c}]
ResponseTo(c) == [kind : Kinds, table : Seq(Registration), id : {c}]

\* Every server has numbered the clients.
Numbering == \A s \in Servers : server[s].namebook # <<>>

Types ==
    /\ client \in [Clients -> Program]
    /\ server \in [Servers -> ServerLoop]
    /\ roles \in Seq(Registration)

\* A client has its own number or none; it goes on after connect_to_server only
\* when every server has connected back.
Joined ==
    \A c \in Clients :
      /\ client[c].id \in {NoId, c}
      /\ client[c].pc \in {"start", "accept"} => client[c].id = NoId
      /\ client[c].pc \notin {"start", "accept"} => Numbering
      /\ client[c].pc \notin {"start", "accept", "register", "failed"} => client[c].id = c

\* A registration is the first thing a client sends and arrives once; all
\* else is sent when the servers know their clients.
Requested ==
    /\ DOMAIN req = Clients
    /\ \A c \in Clients : DOMAIN req[c] = Servers
    /\ \A c \in Clients, s \in Servers :
         /\ req[c][s] \in Seq(RequestOf(c))
         /\ \A i \in 1..Len(req[c][s]) :
              IF req[c][s][i].kind = "register"
              THEN i = 1 /\ c \notin Range(server[s].recv_clients)
              ELSE Numbering
         /\ client[c].pc = "start" =>
              req[c][s] = <<>> /\ c \notin Range(server[s].recv_clients)

Registered == \A s \in Servers : IsInjective(server[s].recv_clients)

Answered ==
    /\ DOMAIN ans = Servers
    /\ \A s \in Servers : DOMAIN ans[s] = Clients
    /\ \A s \in Servers, c \in Clients : ans[s][c] \in Seq(ResponseTo(c))

IInv == Types /\ Joined /\ Requested /\ Registered /\ Answered

\* The numbers of clients and servers.
LEMMA Counts == num_clients \in Nat \ {0} /\ num_servers \in Nat \ {0}
  BY SessionAssumption

-----------------------------------------------------------------------------
(* The numbering *)

\* There are as many clients as num_clients says, and the numbers below one of
\* them are as many as it says itself.
LEMMA ClientNumbers ==
    /\ IsFiniteSet(Clients) /\ Cardinality(Clients) = num_clients
    /\ \A a \in Clients : Cardinality({b \in Clients : b < a}) = a
<1>1. IsFiniteSet(Clients) /\ Cardinality(Clients) = num_clients
  <2>1. /\ IsFiniteSet(0..(num_clients - 1))
        /\ Cardinality(0..(num_clients - 1)) =
             IF 0 > num_clients - 1 THEN 0 ELSE (num_clients - 1) - 0 + 1
    BY Counts, FS_Interval
  <2> QED BY Counts, <2>1 DEF Clients
<1>2. ASSUME NEW a \in Clients PROVE Cardinality({b \in Clients : b < a}) = a
  <2>0. num_clients \in Int /\ a \in Int /\ 0 <= a /\ a <= num_clients - 1
    BY Counts DEF Clients
  <2>1. {b \in Clients : b < a} = 0..(a - 1)
    <3>1. ASSUME NEW b \in Clients, b < a PROVE b \in 0..(a - 1)
      BY <2>0, <3>1 DEF Clients
    <3>2. ASSUME NEW b \in 0..(a - 1) PROVE b \in Clients /\ b < a
      BY <2>0 DEF Clients
    <3> QED BY <3>1, <3>2
  <2>2. Cardinality(0..(a - 1)) = IF 0 > a - 1 THEN 0 ELSE (a - 1) - 0 + 1
    BY <2>0, FS_Interval
  <2>3. Cardinality(0..(a - 1)) = a
    BY <2>0, <2>2
  <2> QED BY <2>1, <2>3, Zenon
<1> QED BY <1>1, <1>2

\* Whatever order the registrations arrived in, sorting them numbers every
\* client by its own address.
LEMMA NumberedIsBook ==
    ASSUME NEW ips \in Seq(Clients), IsInjective(ips), Len(ips) = num_clients
    PROVE  Range(ips) = Clients /\ Numbered(ips) = Book
<1>1. Range(ips) \subseteq Clients
  BY ElementOfSeq, LenProperties DEF Range
<1>2. Cardinality(Range(ips)) = num_clients
  BY InjectiveCardinality
<1>3. Range(ips) = Clients
  BY Counts, <1>1, <1>2, ClientNumbers, FS_Subset
<1>4. ASSUME NEW id \in Clients
      PROVE  (CHOOSE a \in Clients : Cardinality({b \in Clients : b < a}) = id) = id
  BY ClientNumbers
<1>5. 0..(Len(ips) - 1) = Clients
  BY Counts DEF Clients
<1>6. Numbered(ips) = [id \in Clients |->
                         CHOOSE a \in Clients : Cardinality({b \in Clients : b < a}) = id]
  <2> DEFINE N(R, D) == [id \in D |->
                           CHOOSE a \in R : Cardinality({b \in R : b < a}) = id]
  <2>1. Numbered(ips) = N(Range(ips), 0..(Len(ips) - 1))
    BY DEF Numbered
  <2>2. ASSUME NEW R, NEW D, R = Clients, D = Clients PROVE N(R, D) = N(Clients, Clients)
    BY <2>2
  <2> HIDE DEF N
  <2>3. Numbered(ips) = N(Clients, Clients)
    BY <1>3, <1>5, <2>1, <2>2
  <2> QED BY <2>3 DEF N
<1>7. Numbered(ips) = Book
  BY <1>4, <1>6, Zenon DEF Book
<1> QED BY <1>3, <1>7

\* The book is not the empty one, and finds every client under its number.
LEMMA BookProperties ==
    /\ Book # <<>> /\ DOMAIN Book = Clients
    /\ \A id \in Clients : Book[id] = id
    /\ \A ids \in SUBSET Clients : \A c \in Clients :
         /\ (\E id \in ids : Book[id] = c) <=> c \in ids
         /\ c \in ids => (CHOOSE id \in ids : Book[id] = c) = c
<1>1. DOMAIN Book = Clients /\ \A id \in Clients : Book[id] = id
  BY DEF Book
<1>2. 0 \in Clients /\ DOMAIN <<>> = {}
  BY Counts DEF Clients
<1>3. Book # <<>>
  BY <1>1, <1>2
<1>4. ASSUME NEW ids \in SUBSET Clients, NEW c \in Clients
      PROVE  /\ (\E id \in ids : Book[id] = c) <=> c \in ids
             /\ c \in ids => (CHOOSE id \in ids : Book[id] = c) = c
  BY <1>1
<1> QED BY <1>1, <1>3, <1>4

\* No client has the number of none.
LEMMA NoIdProperties == NoId \notin Clients /\ 0 \in Servers /\ 0 \in Clients
  BY Counts DEF NoId, Clients, Servers

-----------------------------------------------------------------------------
(* Ranks *)

\* A set of numbers has a least one.
LEMMA LeastOne ==
    ASSUME NEW T \in SUBSET Nat, T # {} PROVE \E x \in T : \A y \in T : x <= y
<1> DEFINE R == OpToRel(<, Nat)
<1>1. PICK x \in T : \A y \in T : ~(<<y, x>> \in R)
  <2> HIDE DEF R
  <2>1. IsWellFoundedOn(R, Nat)
    BY NatLessThanWellFounded, Zenon DEF R
  <2> QED BY <2>1, WFMin
<1>2. ASSUME NEW y \in T PROVE x <= y
  <2>1. ~(y < x)
    <3> SUFFICES ASSUME y < x PROVE <<y, x>> \in R
      BY <1>1
    <3> QED BY Zenon DEF OpToRel
  <2> QED BY <2>1
<1> QED BY <1>2

\* A table in which every client is once has at most all clients, and then each.
LEMMA TableSize ==
    ASSUME NEW table \in Seq(Registration),
           \A i, j \in 1..Len(table) : table[i].id = table[j].id => i = j
    PROVE  /\ Len(table) <= num_clients
           /\ Len(table) = num_clients =>
                \A c \in Clients : \E i \in 1..Len(table) : table[i].id = c
<1> DEFINE n == Len(table)
           ids == [i \in 1..n |-> table[i].id]
<1>1. n \in Nat /\ \A i \in 1..n : table[i] \in Registration
  BY LenProperties, ElementOfSeq
<1>2. \A i \in 1..n : table[i].id \in Clients
  BY <1>1 DEF Registration
<1>3. ids \in Seq(Clients) /\ Len(ids) = n /\ DOMAIN ids = 1..n
  <2>1. ids \in [1..n -> Clients]
    BY <1>2
  <2> HIDE DEF ids, n
  <2> QED BY <1>1, <2>1
<1>4. IsInjective(ids)
  BY <1>3 DEF IsInjective
<1>5. IsFiniteSet(Range(ids)) /\ Cardinality(Range(ids)) = n
  BY <1>3, <1>4, InjectiveCardinality
<1>6. Range(ids) \subseteq Clients
  BY <1>2, <1>3 DEF Range
<1>7. /\ Cardinality(Range(ids)) <= Cardinality(Clients)
      /\ Cardinality(Range(ids)) = Cardinality(Clients) => Range(ids) = Clients
  BY <1>6, ClientNumbers, FS_Subset
<1>8. n <= num_clients /\ (n = num_clients => Range(ids) = Clients)
  BY <1>5, <1>7, ClientNumbers
<1>9. ASSUME NEW c \in Clients, c \in Range(ids) PROVE \E i \in 1..n : table[i].id = c
  BY <1>3, <1>9 DEF Range
<1> HIDE DEF ids
<1> QED BY <1>8, <1>9

\* A complete table of roles: every client once.
FullTable(table) ==
    /\ table \in Seq(Registration) /\ Len(table) = num_clients
    /\ \A i, j \in 1..Len(table) : table[i].id = table[j].id => i = j
    /\ \E i \in 1..Len(table) : table[i].role = "default"

LEMMA TableEntries ==
    ASSUME NEW table, FullTable(table)
    PROVE  /\ DOMAIN table = 1..Len(table) /\ Len(table) \in Nat
           /\ \A i \in 1..Len(table) :
                table[i].id \in Clients /\ table[i].id \in Int /\ table[i].machine \in Nat
<1>1. Len(table) \in Nat /\ DOMAIN table = 1..Len(table)
  BY LenProperties DEF FullTable
<1>2. \A i \in 1..Len(table) : table[i] \in Registration
  BY <1>1, ElementOfSeq DEF FullTable
<1>3. \A c \in Clients : c \in Int
  BY Counts DEF Clients
<1> QED BY <1>1, <1>2, <1>3 DEF Registration

\* role_names: "default" is the first of them, and no two roles share a place.
LEMMA RoleOrders ==
    ASSUME NEW table, FullTable(table), NEW i \in 1..Len(table)
    PROVE  /\ RoleOrder(table, table[i].role) \in Nat
           /\ RoleOrder(table, table[i].role) = 0 <=> table[i].role = "default"
           /\ table[i].role # "default" =>
                /\ RoleOrder(table, table[i].role) \in 1..Len(table)
                /\ table[RoleOrder(table, table[i].role)].role = table[i].role
<1> DEFINE r == table[i].role
           First(k) == table[k].role = r /\ \A j \in 1..(k - 1) : table[j].role # r
           T == {k \in 1..Len(table) : table[k].role = r}
<1>1. CASE r = "default"
  BY <1>1 DEF RoleOrder
<1>2. CASE r # "default"
  <2>1. Len(table) \in Nat /\ DOMAIN table = 1..Len(table)
    BY TableEntries
  <2>2. T \in SUBSET Nat /\ T # {}
    BY <2>1
  <2>3. PICK x \in T : \A y \in T : x <= y
    <3> HIDE DEF T
    <3> QED BY <2>2, LeastOne
  <2>4. First(x)
    BY <2>1, <2>3
  <2>5. RoleOrder(table, r) = CHOOSE k \in DOMAIN table : First(k)
    BY <1>2 DEF RoleOrder
  <2>6. x \in DOMAIN table
    BY <2>1
  <2> HIDE DEF First, r
  <2>7. RoleOrder(table, r) \in DOMAIN table /\ First(RoleOrder(table, r))
    BY <2>4, <2>5, <2>6
  <2>8. RoleOrder(table, r) \in 1..Len(table) /\ table[RoleOrder(table, r)].role = r
    BY <2>1, <2>7 DEF First
  <2>9. RoleOrder(table, r) \in Nat /\ RoleOrder(table, r) # 0
    BY <2>1, <2>8
  <2> QED BY <1>2, <2>8, <2>9 DEF r
<1> QED BY <1>1, <1>2

\* Whether entry i is numbered before entry j.
Precedes(table, i, j) == Before(table, table[i], table[j])
Place(table, i) == RoleOrder(table, table[i].role)

LEMMA PrecedesMeans ==
    ASSUME NEW table, NEW i, NEW j
    PROVE  Precedes(table, i, j) <=>
             \/ Place(table, i) < Place(table, j)
             \/ Place(table, i) = Place(table, j) /\ table[i].machine < table[j].machine
             \/ /\ Place(table, i) = Place(table, j) /\ table[i].machine = table[j].machine
                /\ table[i].id < table[j].id
  BY DEF Precedes, Before, Place

\* The clients of a role share its place.
LEMMA PlaceOfRole ==
    ASSUME NEW table, FullTable(table), NEW i \in 1..Len(table), NEW j \in 1..Len(table)
    PROVE  /\ Place(table, i) \in Nat
           /\ Place(table, i) = Place(table, j) <=> table[i].role = table[j].role
           /\ Place(table, i) = 0 <=> table[i].role = "default"
<1>1. Place(table, i) \in Nat /\ (Place(table, i) = 0 <=> table[i].role = "default")
  BY RoleOrders DEF Place
<1>2. table[i].role = table[j].role => Place(table, i) = Place(table, j)
  BY DEF Place
<1>3. ASSUME Place(table, i) = Place(table, j) PROVE table[i].role = table[j].role
  <2>1. CASE table[i].role = "default" \/ table[j].role = "default"
    BY <1>3, <2>1, RoleOrders DEF Place
  <2>2. CASE table[i].role # "default" /\ table[j].role # "default"
    BY <1>3, <2>2, RoleOrders DEF Place
  <2> QED BY <2>1, <2>2
<1> QED BY <1>1, <1>2, <1>3

\* The order of the ranks is a strict total order of the entries.
LEMMA PrecedesOrder ==
    ASSUME NEW table, FullTable(table)
    PROVE  \A i, j \in 1..Len(table) :
             /\ ~Precedes(table, i, i)
             /\ i # j => Precedes(table, i, j) \/ Precedes(table, j, i)
             /\ \A k \in 1..Len(table) :
                  Precedes(table, i, j) /\ Precedes(table, j, k) => Precedes(table, i, k)
<1> SUFFICES ASSUME NEW i \in 1..Len(table), NEW j \in 1..Len(table), NEW k \in 1..Len(table)
             PROVE  /\ ~Precedes(table, i, i)
                    /\ i # j => Precedes(table, i, j) \/ Precedes(table, j, i)
                    /\ Precedes(table, i, j) /\ Precedes(table, j, k) => Precedes(table, i, k)
  OBVIOUS
<1>1. \A x \in {i, j, k} :
        Place(table, x) \in Nat /\ table[x].id \in Int /\ table[x].machine \in Nat
  BY PlaceOfRole, TableEntries
<1>2. i # j => table[i].id # table[j].id
  BY DEF FullTable
<1>3. ~Precedes(table, i, i)
  BY SMTT(30), <1>1, PrecedesMeans
<1>4. i # j => Precedes(table, i, j) \/ Precedes(table, j, i)
  BY SMTT(30), <1>1, <1>2, PrecedesMeans
<1>5. ASSUME Precedes(table, i, j), Precedes(table, j, k) PROVE Precedes(table, i, k)
  <2> DEFINE Lex(p, m, a, q, n, b) == p < q \/ (p = q /\ m < n) \/ (p = q /\ m = n /\ a < b)
  <2> HIDE DEF Lex
  <2>1. \A x, y \in {i, j, k} : Precedes(table, x, y) <=>
          Lex(Place(table, x), table[x].machine, table[x].id,
              Place(table, y), table[y].machine, table[y].id)
    BY PrecedesMeans DEF Lex
  <2>2. /\ Lex(Place(table, i), table[i].machine, table[i].id,
               Place(table, j), table[j].machine, table[j].id)
        /\ Lex(Place(table, j), table[j].machine, table[j].id,
               Place(table, k), table[k].machine, table[k].id)
    BY <1>5, <2>1
  <2>3. Lex(Place(table, i), table[i].machine, table[i].id,
            Place(table, k), table[k].machine, table[k].id)
    BY SMTT(30), <1>1, <2>2 DEF Lex
  <2> QED BY <2>1, <2>3
<1> QED BY <1>3, <1>4, <1>5

\* The number of entries before entry i.
Below(table, i) == {j \in 1..Len(table) : Precedes(table, j, i)}
Rank(table, i) == Cardinality(Below(table, i))

LEMMA RankOrder ==
    ASSUME NEW table, FullTable(table)
    PROVE  \A i, j \in 1..Len(table) :
             /\ Rank(table, i) \in Clients
             /\ Precedes(table, i, j) <=> Rank(table, i) < Rank(table, j)
             /\ Rank(table, i) = Rank(table, j) => i = j
<1> DEFINE I == 1..Len(table)
<1>0. Len(table) = num_clients /\ num_clients \in Nat /\ I \subseteq Nat
  BY Counts, TableEntries DEF FullTable
<1>1. IsFiniteSet(I) /\ Cardinality(I) = num_clients
  <2>1. /\ IsFiniteSet(1..num_clients)
        /\ Cardinality(1..num_clients) = IF 1 > num_clients THEN 0 ELSE num_clients - 1 + 1
    BY <1>0, FS_Interval
  <2> QED BY <1>0, <2>1, Counts
<1>2. ASSUME NEW i \in I
      PROVE  /\ Below(table, i) \in SUBSET I /\ i \notin Below(table, i)
             /\ IsFiniteSet(Below(table, i)) /\ Rank(table, i) \in Nat
             /\ Rank(table, i) < num_clients
  <2>1. Below(table, i) \in SUBSET I /\ i \notin Below(table, i)
    BY PrecedesOrder DEF Below
  <2>2. /\ IsFiniteSet(Below(table, i)) /\ Rank(table, i) <= num_clients
        /\ Rank(table, i) = num_clients => Below(table, i) = I
    BY <1>1, <2>1, FS_Subset DEF Rank
  <2>3. Rank(table, i) \in Nat
    BY <2>2, FS_CardinalityType DEF Rank
  <2> HIDE DEF I
  <2> QED BY <1>0, <2>1, <2>2, <2>3
<1>3. ASSUME NEW i \in I, NEW j \in I, Precedes(table, i, j)
      PROVE  Rank(table, i) < Rank(table, j)
  <2>1. Below(table, i) \in SUBSET Below(table, j)
    BY <1>3, PrecedesOrder DEF Below
  <2>2. i \in Below(table, j) /\ i \notin Below(table, i)
    BY <1>2, <1>3 DEF Below
  <2>3. Rank(table, i) <= Rank(table, j) /\ Rank(table, i) # Rank(table, j)
    BY <1>2, <2>1, <2>2, FS_Subset DEF Rank
  <2> QED BY <1>2, <2>3
<1> SUFFICES ASSUME NEW i \in I, NEW j \in I
             PROVE  /\ Rank(table, i) \in Clients
                    /\ Precedes(table, i, j) <=> Rank(table, i) < Rank(table, j)
                    /\ Rank(table, i) = Rank(table, j) => i = j
  OBVIOUS
<1>4. Rank(table, i) \in Nat /\ Rank(table, j) \in Nat /\ Rank(table, i) < num_clients
  BY <1>2
<1>5. Rank(table, i) \in Clients
  BY <1>0, <1>4 DEF Clients
<1>6. i # j => Precedes(table, i, j) \/ Precedes(table, j, i)
  BY PrecedesOrder
<1> QED BY <1>3, <1>4, <1>5, <1>6

\* The ranks are the numbers of all clients.
LEMMA EveryRank ==
    ASSUME NEW table, FullTable(table), NEW k \in Clients
    PROVE  \E i \in 1..Len(table) : Rank(table, i) = k
<1> DEFINE n == Len(table)
           ranks == [i \in 1..n |-> Rank(table, i)]
<1>1. n \in Nat /\ n = num_clients
  BY TableEntries DEF FullTable
<1>2. ranks \in [1..n -> Clients] /\ \A i, j \in 1..n : ranks[i] = ranks[j] => i = j
  BY RankOrder
<1>3. ranks \in Seq(Clients) /\ Len(ranks) = n /\ DOMAIN ranks = 1..n
  <2> HIDE DEF ranks, n
  <2> QED BY <1>1, <1>2
<1>4. IsInjective(ranks)
  BY <1>2, <1>3 DEF IsInjective
<1>5. Range(ranks) = Clients
  BY <1>1, <1>3, <1>4, NumberedIsBook
<1>6. k \in Range(ranks)
  BY <1>5
<1> QED BY <1>3, <1>6 DEF Range

\* init_role gives entry i its rank.
LEMMA GlobalRank ==
    ASSUME NEW table, FullTable(table)
    PROVE  /\ DOMAIN GLOBAL_RANK(table) = Clients
           /\ \A i \in 1..Len(table) : GLOBAL_RANK(table)[table[i].id] = Rank(table, i)
<1> DEFINE n == Len(table)
           ids == {table[i].id : i \in DOMAIN table}
           me(id) == CHOOSE i \in DOMAIN table : table[i].id = id
           count(x) == Cardinality({i \in DOMAIN table : Before(table, table[i], table[x])})
<1>1. DOMAIN table = 1..n /\ \A i \in 1..n : table[i].id \in Clients
  BY TableEntries
<1>2. GLOBAL_RANK(table) = [id \in ids |-> count(me(id))]
  BY DEF GLOBAL_RANK
<1>3. ids = Clients
  <2>1. \A c \in Clients : \E i \in 1..n : table[i].id = c
    BY TableSize DEF FullTable
  <2> QED BY <1>1, <2>1
<1>4. ASSUME NEW i \in 1..n PROVE me(table[i].id) = i
  BY <1>1, <1>4 DEF FullTable
<1>5. ASSUME NEW i \in 1..n PROVE count(i) = Rank(table, i)
  BY <1>1 DEF Rank, Below, Precedes
<1> HIDE DEF ids, me, count
<1>6. ASSUME NEW i \in 1..n PROVE GLOBAL_RANK(table)[table[i].id] = Rank(table, i)
  BY <1>1, <1>2, <1>3, <1>4, <1>5
<1> QED BY <1>2, <1>3, <1>6

\* Entries between two of a role, or of a role on a machine, are of it too.
LEMMA Contiguous ==
    ASSUME NEW table, FullTable(table),
           NEW i \in 1..Len(table), NEW j \in 1..Len(table), NEW k \in 1..Len(table),
           Rank(table, i) < Rank(table, j), Rank(table, j) < Rank(table, k),
           table[i].role = table[k].role
    PROVE  /\ table[j].role = table[i].role
           /\ table[i].machine = table[k].machine => table[j].machine = table[i].machine
<1>1. Precedes(table, i, j) /\ Precedes(table, j, k)
  BY RankOrder
<1>2. /\ Place(table, i) \in Nat /\ Place(table, j) \in Nat /\ Place(table, k) \in Nat
      /\ table[i].machine \in Nat /\ table[j].machine \in Nat /\ table[k].machine \in Nat
  BY PlaceOfRole, TableEntries
<1>3. Place(table, i) = Place(table, k)
  BY PlaceOfRole
<1>4. Place(table, j) = Place(table, i)
  BY <1>1, <1>2, <1>3, PrecedesMeans
<1>5. table[i].machine <= table[j].machine /\ table[j].machine <= table[k].machine
  BY <1>1, <1>2, <1>3, <1>4, PrecedesMeans
<1>6. table[j].role = table[i].role
  BY <1>4, PlaceOfRole
<1>7. table[i].machine = table[k].machine => table[j].machine = table[i].machine
  BY <1>2, <1>5
<1> QED BY <1>6, <1>7

\* The ranks of a complete table.
RanksOf(table) ==
    LET rank == GLOBAL_RANK(table)
        place == [k \in Range(rank) |->
                    LET i == CHOOSE i \in DOMAIN table : rank[table[i].id] = k
                    IN  <<table[i].role, table[i].machine>>]
    IN  /\ DOMAIN rank = AllIds /\ Range(rank) = AllIds
        /\ place[0][1] = "default"
        /\ \A i, j, k \in AllIds : i < j /\ j < k =>
              /\ place[i][1] = place[k][1] => place[j][1] = place[i][1]
              /\ place[i] = place[k] => place[j] = place[i]

LEMMA RanksOfTable == ASSUME NEW table, FullTable(table) PROVE RanksOf(table)
<1> DEFINE n == Len(table)
           rank == GLOBAL_RANK(table)
           entry(k) == CHOOSE i \in DOMAIN table : rank[table[i].id] = k
           place == [k \in Range(rank) |-> <<table[entry(k)].role, table[entry(k)].machine>>]
<1>1. DOMAIN table = 1..n /\ AllIds = Clients /\ 0 \in Clients
  BY TableEntries, NoIdProperties DEF AllIds, Clients
<1>2. DOMAIN rank = Clients /\ \A i \in 1..n : rank[table[i].id] = Rank(table, i)
  BY GlobalRank
<1>3. \A i \in 1..n : Rank(table, i) \in Clients /\ table[i].id \in Clients
  BY RankOrder, TableEntries
<1> HIDE DEF rank
<1>4. ASSUME NEW k \in Clients
      PROVE  entry(k) \in 1..n /\ Rank(table, entry(k)) = k
  <2>1. PICK i \in 1..n : Rank(table, i) = k
    BY EveryRank
  <2>2. entry(k) \in DOMAIN table /\ rank[table[entry(k)].id] = k
    BY <1>1, <1>2, <2>1
  <2> QED BY <1>1, <1>2, <2>2
<1>5. Range(rank) = Clients
  <2>1. ASSUME NEW k \in Clients PROVE k \in Range(rank)
    BY <1>2, <1>3, <1>4 DEF Range
  <2>2. ASSUME NEW c \in Clients PROVE rank[c] \in Clients
    <3>1. PICK i \in 1..n : table[i].id = c
      BY TableSize DEF FullTable
    <3> QED BY <1>2, <1>3, <3>1
  <2> QED BY <1>2, <2>1, <2>2 DEF Range
<1> HIDE DEF entry
<1>6. \A k \in Clients : place[k] = <<table[entry(k)].role, table[entry(k)].machine>>
  BY <1>5
<1>7. place[0][1] = "default"
  <2>1. PICK i \in 1..n : table[i].role = "default"
    BY DEF FullTable
  <2>2. entry(0) \in 1..n /\ Rank(table, entry(0)) = 0
    BY <1>1, <1>4
  <2>3. Rank(table, i) \in Nat /\ Place(table, i) = 0 /\ Place(table, entry(0)) \in Nat
    BY <1>3, <2>1, <2>2, PlaceOfRole, Counts DEF Clients
  <2>4. place[0] = <<table[entry(0)].role, table[entry(0)].machine>>
    BY <1>1, <1>6
  <2> HIDE DEF place
  <2>5. CASE i = entry(0)
    BY <2>1, <2>5, <2>4
  <2>6. CASE i # entry(0)
    <3>1. Precedes(table, entry(0), i)
      <4>1. Rank(table, entry(0)) # Rank(table, i)
        BY <2>2, <2>6, RankOrder
      <4>2. Rank(table, entry(0)) < Rank(table, i)
        BY <2>2, <2>3, <4>1
      <4> QED BY <2>2, <4>2, RankOrder
    <3>2. Place(table, entry(0)) = 0
      BY <2>3, <3>1, PrecedesMeans
    <3>3. table[entry(0)].role = "default"
      BY <2>2, <3>2, PlaceOfRole
    <3> QED BY <2>4, <3>3
  <2> QED BY <2>5, <2>6
<1>8. ASSUME NEW i \in Clients, NEW j \in Clients, NEW k \in Clients, i < j, j < k
      PROVE  /\ place[i][1] = place[k][1] => place[j][1] = place[i][1]
             /\ place[i] = place[k] => place[j] = place[i]
  <2> DEFINE x == entry(i)
             y == entry(j)
             z == entry(k)
  <2>1. /\ x \in 1..n /\ y \in 1..n /\ z \in 1..n
        /\ Rank(table, x) < Rank(table, y) /\ Rank(table, y) < Rank(table, z)
    BY <1>4, <1>8
  <2>2. /\ place[i] = <<table[x].role, table[x].machine>>
        /\ place[j] = <<table[y].role, table[y].machine>>
        /\ place[k] = <<table[z].role, table[z].machine>>
    BY <1>6
  <2> HIDE DEF x, y, z, place
  <2>3. table[x].role = table[z].role =>
          /\ table[y].role = table[x].role
          /\ table[x].machine = table[z].machine => table[y].machine = table[x].machine
    BY <2>1, Contiguous
  <2> QED BY <2>2, <2>3
<1>9. RanksOf(table) <=>
        /\ DOMAIN rank = AllIds /\ Range(rank) = AllIds
        /\ place[0][1] = "default"
        /\ \A i, j, k \in AllIds : i < j /\ j < k =>
              /\ place[i][1] = place[k][1] => place[j][1] = place[i][1]
              /\ place[i] = place[k] => place[j] = place[i]
  BY DEF RanksOf, rank, entry
<1> HIDE DEF place
<1> QED BY <1>1, <1>2, <1>5, <1>7, <1>8, <1>9

-----------------------------------------------------------------------------
(* Requests *)

\* Which messages a channel may hold for its client and server.
InOrder(c, s, q) ==
    /\ q \in Seq(RequestOf(c))
    /\ \A i \in 1..Len(q) :
         IF q[i].kind = "register"
         THEN i = 1 /\ c \notin Range(server[s].recv_clients)
         ELSE Numbering

\* A further request, sent when the servers know their clients.
LEMMA AppendRequest ==
    ASSUME NEW c \in Clients, NEW s \in Servers, NEW q, InOrder(c, s, q), Numbering,
           NEW kind \in Kinds \ {"register"}
    PROVE  InOrder(c, s, Append(q, [kind |-> kind, from |-> c, id |-> c]))
<1> DEFINE m == [kind |-> kind, from |-> c, id |-> c]
<1>1. m \in RequestOf(c) /\ m.kind # "register"
  BY DEF RequestOf
<1> HIDE DEF m
<1>2. /\ Append(q, m) \in Seq(RequestOf(c))
      /\ Len(Append(q, m)) = Len(q) + 1
      /\ \A i \in 1..Len(q) : Append(q, m)[i] = q[i]
      /\ Append(q, m)[Len(q) + 1] = m
      /\ Len(q) \in Nat
  BY <1>1, AppendProperties, LenProperties DEF InOrder
<1> QED BY <1>1, <1>2 DEF InOrder, m

\* Taking the first request: none of the others is a registration.
LEMMA TakeRequest ==
    ASSUME NEW c \in Clients, NEW s \in Servers, NEW q, InOrder(c, s, q), q # <<>>
    PROVE  /\ Head(q) \in RequestOf(c)
           /\ Head(q).kind = "register" => c \notin Range(server[s].recv_clients)
           /\ Head(q).kind # "register" => Numbering
           /\ Tail(q) \in Seq(RequestOf(c))
           /\ \A i \in 1..Len(Tail(q)) : Tail(q)[i].kind # "register" /\ Numbering
<1>1. /\ Len(q) \in Nat /\ Len(q) # 0
      /\ Head(q) = q[1] /\ Head(q) \in RequestOf(c)
      /\ Tail(q) \in Seq(RequestOf(c))
      /\ Len(Tail(q)) = Len(q) - 1
      /\ \A i \in 1..Len(Tail(q)) : Tail(q)[i] = q[i + 1]
  BY HeadTailProperties, LenProperties, EmptySeq DEF InOrder
<1>2. \A i \in 1..Len(Tail(q)) : i + 1 \in 1..Len(q) /\ i + 1 # 1
  BY <1>1
<1>3. 1 \in 1..Len(q)
  BY <1>1
<1> QED BY <1>1, <1>2, <1>3 DEF InOrder

\* What Requested says of one channel.
LEMMA RequestedChannels ==
    Requested <=>
      /\ DOMAIN req = Clients
      /\ \A c \in Clients : DOMAIN req[c] = Servers
      /\ \A c \in Clients, s \in Servers :
           /\ InOrder(c, s, req[c][s])
           /\ client[c].pc = "start" =>
                req[c][s] = <<>> /\ c \notin Range(server[s].recv_clients)
  BY DEF Requested, InOrder

\* The same of the state after a step.
LEMMA RequestedChannelsNext ==
    ASSUME DOMAIN req' = Clients,
           \A c \in Clients : DOMAIN req'[c] = Servers,
           \A c \in Clients, s \in Servers : InOrder(c, s, req[c][s])',
           \A c \in Clients, s \in Servers : client'[c].pc = "start" =>
              req'[c][s] = <<>> /\ c \notin Range(server'[s].recv_clients)
    PROVE  Requested'
  BY DEF Requested, InOrder

-----------------------------------------------------------------------------
(* Steps of a client *)

\* Only client c changes.
Changes(c) ==
    /\ client' \in [Clients -> Program]
    /\ \A d \in Clients \ {c} : client'[d] = client[d]

\* A client's record is replaced.
LEMMA ChangesOne ==
    ASSUME IInv, NEW c \in Clients, NEW now \in Program,
           client' = [client EXCEPT ![c] = now]
    PROVE  Changes(c) /\ client'[c] = now
  BY DEF IInv, Types, Changes

\* What a step of client c has to ensure, since it leaves the servers alone.
LEMMA ClientKeeps ==
    ASSUME IInv, NEW c \in Clients, UNCHANGED serverVars,
           Changes(c),
           client'[c].pc # "start",
           client'[c].id \in {NoId, c},
           client'[c].pc = "accept" => client'[c].id = NoId,
           client'[c].pc # "accept" => Numbering,
           client'[c].pc \notin {"accept", "register", "failed"} => client'[c].id = c,
           DOMAIN req' = Clients, \A d \in Clients : DOMAIN req'[d] = Servers,
           \A d \in Clients \ {c} : req'[d] = req[d],
           \A s \in Servers : InOrder(c, s, req'[c][s]),
           Answered'
    PROVE  IInv'
<1>1. /\ client' \in [Clients -> Program]
      /\ \A d \in Clients \ {c} : client'[d] = client[d]
  BY DEF Changes
<1>2. server' = server /\ roles' = roles
  BY DEF serverVars
<1>3. Types'
  BY <1>1, <1>2 DEF IInv, Types
<1>4. Numbering' = Numbering
  BY <1>2 DEF Numbering
<1>5. Joined'
  <2> SUFFICES ASSUME NEW d \in Clients
               PROVE  /\ client'[d].id \in {NoId, d}
                      /\ client'[d].pc \in {"start", "accept"} => client'[d].id = NoId
                      /\ client'[d].pc \notin {"start", "accept"} => Numbering'
                      /\ client'[d].pc \notin {"start", "accept", "register", "failed"}
                           => client'[d].id = d
    BY DEF Joined
  <2>1. CASE d = c
    BY <1>1, <1>4, <2>1
  <2>2. CASE d # c
    BY <1>1, <1>4, <2>2 DEF IInv, Joined
  <2> QED BY <2>1, <2>2
<1>6. Requested'
  <2>1. ASSUME NEW d \in Clients, NEW s \in Servers
        PROVE  /\ InOrder(d, s, req'[d][s])
               /\ client'[d].pc = "start" =>
                    req'[d][s] = <<>> /\ d \notin Range(server[s].recv_clients)
    <3>1. CASE d = c
      BY <1>1, <3>1
    <3>2. CASE d # c
      <4>1. req'[d][s] = req[d][s] /\ client'[d] = client[d]
        BY <1>1, <3>2
      <4> QED BY <4>1, RequestedChannels DEF IInv
    <3> QED BY <3>1, <3>2
  <2>2. ASSUME NEW d \in Clients, NEW s \in Servers PROVE InOrder(d, s, req[d][s])'
    <3>1. InOrder(d, s, req'[d][s])
      BY <2>1
    <3> QED BY <1>2, <3>1, Zenon DEF InOrder, Numbering
  <2>3. ASSUME NEW d \in Clients, NEW s \in Servers, client'[d].pc = "start"
        PROVE  req'[d][s] = <<>> /\ d \notin Range(server'[s].recv_clients)
    BY <1>2, <2>1, <2>3
  <2> QED BY <2>2, <2>3, RequestedChannelsNext
<1>7. Registered'
  BY <1>2 DEF IInv, Registered
<1> QED BY <1>3, <1>5, <1>6, <1>7 DEF IInv

\* Requests a client leaves alone stay in order.
LEMMA QuietRequests ==
    ASSUME IInv
    PROVE  /\ DOMAIN req = Clients /\ \A d \in Clients : DOMAIN req[d] = Servers
           /\ \A d \in Clients, s \in Servers : InOrder(d, s, req[d][s])
  BY RequestedChannels DEF IInv

\* send_request keeps the channel in order.
LEMMA SendKeeps ==
    ASSUME IInv, NEW c \in Clients, NEW s \in Servers, Numbering,
           NEW kind \in Kinds \ {"register"},
           req' = [req EXCEPT ![c][s] =
                     Append(@, [kind |-> kind, from |-> c, id |-> c])]
    PROVE  /\ DOMAIN req' = Clients /\ \A d \in Clients : DOMAIN req'[d] = Servers
           /\ \A d \in Clients \ {c} : req'[d] = req[d]
           /\ \A t \in Servers : InOrder(c, t, req'[c][t])
<1>1. InOrder(c, s, Append(req[c][s], [kind |-> kind, from |-> c, id |-> c]))
  BY QuietRequests, AppendRequest
<1>2. /\ DOMAIN req' = Clients /\ \A d \in Clients : DOMAIN req'[d] = Servers
      /\ \A d \in Clients \ {c} : req'[d] = req[d]
      /\ req'[c][s] = Append(req[c][s], [kind |-> kind, from |-> c, id |-> c])
      /\ \A t \in Servers \ {s} : req'[c][t] = req[c][t]
  BY QuietRequests
<1>3. ASSUME NEW t \in Servers PROVE InOrder(c, t, req'[c][t])
  <2>1. CASE t = s
    BY <1>1, <1>2, <2>1
  <2>2. CASE t # s
    BY <1>2, <2>2, QuietRequests
  <2> QED BY <2>1, <2>2
<1> QED BY <1>2, <1>3

\* A client's record with some of its fields replaced.
LEMMA RecordProperties ==
    ASSUME NEW r \in Program, NEW pc \in Pcs
    PROVE  /\ [r EXCEPT !.pc = pc] \in Program
           /\ [r EXCEPT !.pc = pc].pc = pc
           /\ [r EXCEPT !.pc = pc].id = r.id
           /\ [r EXCEPT !.pc = pc, !.work = @ + 1] \in Program
           /\ [r EXCEPT !.pc = pc, !.work = @ + 1].pc = pc
           /\ [r EXCEPT !.pc = pc, !.work = @ + 1].id = r.id
           /\ [r EXCEPT !.pc = pc, !.entered = @ + 1] \in Program
           /\ [r EXCEPT !.pc = pc, !.entered = @ + 1].pc = pc
           /\ [r EXCEPT !.pc = pc, !.entered = @ + 1].id = r.id
           /\ [r EXCEPT !.work = @ + 1] \in Program
           /\ [r EXCEPT !.work = @ + 1].pc = r.pc
           /\ [r EXCEPT !.work = @ + 1].id = r.id
<1>1. /\ [r EXCEPT !.pc = pc] \in Program
      /\ [r EXCEPT !.pc = pc].pc = pc
      /\ [r EXCEPT !.pc = pc].id = r.id
  BY DEF Program
<1>2. [r EXCEPT !.pc = pc, !.work = @ + 1] \in Program
  <2>1. r.work + 1 \in Nat
    BY DEF Program
  <2>2. ASSUME NEW n \in Nat PROVE [r EXCEPT !.pc = pc, !.work = n] \in Program
    BY DEF Program
  <2> QED BY <2>1, <2>2
<1>3. /\ [r EXCEPT !.pc = pc, !.work = @ + 1].pc = pc
      /\ [r EXCEPT !.pc = pc, !.work = @ + 1].id = r.id
  BY DEF Program
<1>5. [r EXCEPT !.pc = pc, !.entered = @ + 1] \in Program
  <2>1. r.entered + 1 \in Nat
    BY DEF Program
  <2>2. ASSUME NEW n \in Nat PROVE [r EXCEPT !.pc = pc, !.entered = n] \in Program
    BY DEF Program
  <2> QED BY <2>1, <2>2
<1>6. /\ [r EXCEPT !.pc = pc, !.entered = @ + 1].pc = pc
      /\ [r EXCEPT !.pc = pc, !.entered = @ + 1].id = r.id
  BY DEF Program
<1>4. /\ [r EXCEPT !.work = @ + 1] \in Program
      /\ [r EXCEPT !.work = @ + 1].pc = r.pc
      /\ [r EXCEPT !.work = @ + 1].id = r.id
  BY DEF Program
<1> QED BY <1>1, <1>2, <1>3, <1>4, <1>5, <1>6

LEMMA BarriersProperties ==
    ASSUME NEW r \in Program, NEW pc \in Pcs
    PROVE  /\ [r EXCEPT !.pc = pc, !.barriers = @ + 1] \in Program
           /\ [r EXCEPT !.pc = pc, !.barriers = @ + 1].pc = pc
           /\ [r EXCEPT !.pc = pc, !.barriers = @ + 1].id = r.id
<1>1. r.barriers + 1 \in Nat
  BY DEF Program
<1>2. ASSUME NEW n \in Nat
      PROVE  /\ [r EXCEPT !.pc = pc, !.barriers = n] \in Program
             /\ [r EXCEPT !.pc = pc, !.barriers = n].pc = pc
             /\ [r EXCEPT !.pc = pc, !.barriers = n].id = r.id
  BY DEF Program
<1> QED BY <1>1, <1>2

\* The client's record with another place in its program.
LEMMA BecomeProperties ==
    ASSUME IInv, NEW c \in Clients, NEW pc \in Pcs, Become(c, pc)
    PROVE  Changes(c) /\ client'[c].pc = pc /\ client'[c].id = client[c].id
<1>1. client[c] \in Program /\ DOMAIN client = Clients
  BY DEF IInv, Types
<1> DEFINE now == [client[c] EXCEPT !.pc = pc]
<1>2. client' = [client EXCEPT ![c] = now]
  BY <1>1 DEF Become
<1>3. now \in Program /\ now.pc = pc /\ now.id = client[c].id
  BY <1>1, RecordProperties
<1> HIDE DEF now
<1> QED BY <1>2, <1>3, ChangesOne

\* connect_to_server: the registration is the only message of its channel.
LEMMA RegisterStep ==
    ASSUME IInv, NEW c \in Clients, Register(c) PROVE IInv'
<1> DEFINE m == [kind |-> "register", from |-> c, id |-> NoId]
<1>1. m \in RequestOf(c) /\ m.kind = "register"
  BY DEF RequestOf
<1>2. /\ DOMAIN req' = Clients /\ \A d \in Clients : DOMAIN req'[d] = Servers
      /\ \A d \in Clients \ {c} : req'[d] = req[d]
      /\ \A s \in Servers : req'[c][s] = Append(req[c][s], m)
  BY QuietRequests DEF Register
<1>3. client[c].id = NoId
  BY DEF Register, IInv, Joined
<1>4. ASSUME NEW s \in Servers PROVE InOrder(c, s, req'[c][s])
  <2>1. req[c][s] = <<>> /\ c \notin Range(server[s].recv_clients)
    BY DEF Register, IInv, Requested
  <2>2. req'[c][s] = <<m>>
    BY <1>2, <2>1
  <2> HIDE DEF m
  <2> QED BY <1>1, <2>1, <2>2 DEF InOrder
<1>5. Answered'
  BY DEF Register, IInv, Answered
<1>6. UNCHANGED serverVars /\ Become(c, "accept")
  BY DEF Register
<1>7. "accept" \in Pcs
  BY DEF Pcs
<1>8. Changes(c) /\ client'[c].pc = "accept" /\ client'[c].id = NoId
  BY <1>3, <1>6, <1>7, BecomeProperties
<1> QED BY <1>2, <1>4, <1>5, <1>6, <1>8, ClientKeeps

\* A client goes on when every server has numbered the clients.
LEMMA AcceptStep ==
    ASSUME IInv, NEW c \in Clients, AcceptServers(c) PROVE IInv'
<1>1. client[c].id = NoId /\ Numbering
  BY DEF AcceptServers, IInv, Joined, Numbering
<1>2. UNCHANGED <<serverVars, req, ans>> /\ Become(c, "register") /\ "register" \in Pcs
  BY DEF AcceptServers, Pcs
<1>3. Answered'
  BY <1>2 DEF IInv, Answered
<1>4. Changes(c) /\ client'[c].pc = "register" /\ client'[c].id = NoId
  BY <1>1, <1>2, BecomeProperties
<1> QED BY <1>1, <1>2, <1>3, <1>4, QuietRequests, ClientKeeps

\* A client that has joined goes on, with or without a request to one server.
LEMMA GoOn ==
    ASSUME IInv, NEW c \in Clients, UNCHANGED <<serverVars, ans>>,
           client[c].pc \in Pcs \ {"start", "accept", "register", "failed"},
           Changes(c), client'[c].pc \notin {"start", "accept"},
           client'[c].id = client[c].id,
           \/ UNCHANGED req
           \/ \E s \in Servers, kind \in Kinds \ {"register"} : Send(c, s, kind)
    PROVE  IInv'
<1>1. client[c].id = c /\ Numbering
  BY DEF IInv, Joined
<1>2. Answered'
  BY DEF IInv, Answered
<1>3. CASE UNCHANGED req
  BY <1>1, <1>2, <1>3, QuietRequests, ClientKeeps
<1>4. ASSUME NEW s \in Servers, NEW kind \in Kinds \ {"register"}, Send(c, s, kind)
      PROVE  IInv'
  <2>1. req' = [req EXCEPT ![c][s] = Append(@, [kind |-> kind, from |-> c, id |-> c])]
    BY <1>1, <1>4 DEF Send
  <2> QED BY <1>1, <1>2, <2>1, SendKeeps, ClientKeeps
<1> QED BY <1>3, <1>4

\* Calls, pushes and barriers carry the client's own number.
LEMMA WorkStep ==
    ASSUME IInv, NEW c \in Clients, NEW s \in Servers,
           \/ Call(c, s) \/ Push(c, s) \/ EnterKvBarrier(c) \/ EnterBarrier(c)
    PROVE  IInv'
<1>1. 0 \in Servers
  BY NoIdProperties
<1>2. client[c] \in Program /\ client[c].pc = "work"
  BY DEF Call, Push, EnterKvBarrier, EnterBarrier, IInv, Types
<1>3. {"call", "push", "kvbarrier", "barrier"} \subseteq Kinds \ {"register"}
  BY DEF Kinds
<1>4. {"work", "call", "kvbarrier", "barrier"}
        \subseteq Pcs \ {"start", "accept", "register", "failed"}
  BY DEF Pcs
<1>5. CASE Call(c, s)
  <2> DEFINE now == [client[c] EXCEPT !.pc = "call", !.work = @ + 1]
  <2>1. now \in Program /\ now.pc = "call" /\ now.id = client[c].id
    BY <1>2, <1>4, RecordProperties
  <2>2. client' = [client EXCEPT ![c] = now] /\ Send(c, s, "call")
        /\ UNCHANGED <<serverVars, ans>>
    BY <1>5 DEF Call, IInv, Types
  <2> HIDE DEF now
  <2>3. Changes(c) /\ client'[c].pc = "call" /\ client'[c].id = client[c].id
    BY <2>1, <2>2, ChangesOne
  <2> QED BY <1>1, <1>2, <1>3, <1>4, <2>2, <2>3, GoOn
<1>6. CASE Push(c, s)
  <2> DEFINE now == [client[c] EXCEPT !.work = @ + 1]
  <2>1. now \in Program /\ now.pc = "work" /\ now.id = client[c].id
    BY <1>2, <1>4, RecordProperties
  <2>2. client' = [client EXCEPT ![c] = now] /\ Send(c, s, "push")
        /\ UNCHANGED <<serverVars, ans>>
    BY <1>6 DEF Push, IInv, Types
  <2> HIDE DEF now
  <2>3. Changes(c) /\ client'[c].pc = "work" /\ client'[c].id = client[c].id
    BY <2>1, <2>2, ChangesOne
  <2> QED BY <1>1, <1>2, <1>3, <1>4, <2>2, <2>3, GoOn
<1>7. CASE EnterKvBarrier(c)
  <2> DEFINE now == [client[c] EXCEPT !.pc = "kvbarrier", !.entered = @ + 1]
  <2>1. now \in Program /\ now.pc = "kvbarrier" /\ now.id = client[c].id
    BY <1>2, <1>4, RecordProperties
  <2>2. client' = [client EXCEPT ![c] = now] /\ Send(c, 0, "kvbarrier")
        /\ UNCHANGED <<serverVars, ans>>
    <3>1. /\ client' = [client EXCEPT ![c].pc = "kvbarrier", ![c].entered = @ + 1]
          /\ Send(c, 0, "kvbarrier") /\ UNCHANGED <<serverVars, ans>>
      BY <1>7 DEF EnterKvBarrier
    <3>2. client \in [Clients -> Program]
      BY DEF IInv, Types
    <3> QED BY <3>1, <3>2
  <2> HIDE DEF now
  <2>3. Changes(c) /\ client'[c].pc = "kvbarrier" /\ client'[c].id = client[c].id
    BY <2>1, <2>2, ChangesOne
  <2> QED BY <1>1, <1>2, <1>3, <1>4, <2>2, <2>3, GoOn
<1>8. CASE EnterBarrier(c)
  <2> DEFINE now == [client[c] EXCEPT !.pc = "barrier", !.barriers = @ + 1]
  <2>1. now \in Program /\ now.pc = "barrier" /\ now.id = client[c].id
    BY <1>2, <1>4, BarriersProperties
  <2>2. client' = [client EXCEPT ![c] = now] /\ Send(c, 0, "barrier")
        /\ UNCHANGED <<serverVars, ans>>
    <3>1. /\ client' = [client EXCEPT ![c].pc = "barrier", ![c].barriers = @ + 1]
          /\ Send(c, 0, "barrier") /\ UNCHANGED <<serverVars, ans>>
      BY <1>8 DEF EnterBarrier
    <3>2. client \in [Clients -> Program]
      BY DEF IInv, Types
    <3> QED BY <3>1, <3>2
  <2> HIDE DEF now
  <2>3. Changes(c) /\ client'[c].pc = "barrier" /\ client'[c].id = client[c].id
    BY <2>1, <2>2, ChangesOne
  <2> QED BY <1>1, <1>2, <1>3, <1>4, <2>2, <2>3, GoOn
<1> QED BY <1>5, <1>6, <1>7, <1>8

\* exit_client after the barrier: client 0 tells every server to shut down.
LEMMA ShutdownStep ==
    ASSUME IInv, NEW c \in Clients, ShutdownServers(c) PROVE IInv'
<1>1. /\ client[c].id = c /\ Numbering
      /\ client[c].pc \in Pcs \ {"start", "accept", "register", "failed"}
  BY DEF ShutdownServers, IInv, Joined, Pcs
<1>2. Changes(c) /\ client'[c].pc = "final" /\ client'[c].id = client[c].id
  BY BecomeProperties DEF ShutdownServers, Pcs
<1>3. UNCHANGED <<serverVars, ans>>
  BY DEF ShutdownServers
<1>4. CASE c # 0
  BY <1>1, <1>2, <1>3, <1>4, GoOn DEF ShutdownServers
<1>5. CASE c = 0
  <2> DEFINE m == [kind |-> "shutdown", from |-> c, id |-> c]
  <2>1. req' = [req EXCEPT ![c] = [s \in Servers |-> Append(@[s], m)]]
    BY <1>1, <1>5 DEF ShutdownServers
  <2>2. /\ DOMAIN req' = Clients /\ \A d \in Clients : DOMAIN req'[d] = Servers
        /\ \A d \in Clients \ {c} : req'[d] = req[d]
        /\ \A s \in Servers : req'[c][s] = Append(req[c][s], m)
    BY <2>1, QuietRequests
  <2>3. "shutdown" \in Kinds \ {"register"}
    BY DEF Kinds
  <2>4. \A s \in Servers : InOrder(c, s, req'[c][s])
    <3> SUFFICES ASSUME NEW s \in Servers PROVE InOrder(c, s, req'[c][s])
      OBVIOUS
    <3>1. InOrder(c, s, req[c][s])
      BY QuietRequests
    <3>2. InOrder(c, s, Append(req[c][s], m))
      BY <1>1, <2>3, <3>1, AppendRequest
    <3> QED BY <2>2, <3>2
  <2>5. Answered'
    BY <1>3 DEF IInv, Answered
  <2> QED BY <1>1, <1>2, <1>3, <2>2, <2>4, <2>5, ClientKeeps
<1> QED BY <1>4, <1>5

\* finalize_receiver of a client.
LEMMA ExitStep ==
    ASSUME IInv, NEW c \in Clients, Exit(c) PROVE IInv'
<1>1. Changes(c) /\ client'[c].pc = "done" /\ client'[c].id = client[c].id
  BY BecomeProperties DEF Exit, Pcs
<1>2. client[c].pc \in Pcs \ {"start", "accept", "register", "failed"}
  BY DEF Exit, Pcs
<1>3. UNCHANGED <<serverVars, ans, req>>
  BY DEF Exit
<1> QED BY <1>1, <1>2, <1>3, GoOn

\* Where a response leads.
LEMMA AfterProperties ==
    /\ DOMAIN After \subseteq Pcs \ {"start", "accept", "failed"}
    /\ \A me : me.pc \in DOMAIN After =>
         GoesOn(me) \in Pcs \ {"start", "accept", "register", "failed"}
    /\ Requests \subseteq Kinds \ {"register"}
  BY DEF After, GoesOn, Pcs, Kinds, Requests

\* What a client learns is its own number, a role table, or that a barrier is
\* over.
LEMMA LearntProperties ==
    ASSUME NEW c \in Clients, NEW r \in Program, NEW a \in ResponseTo(c), NEW pc \in Pcs
    PROVE  /\ [Learnt(r, a) EXCEPT !.pc = pc] \in Program
           /\ [Learnt(r, a) EXCEPT !.pc = pc].pc = pc
           /\ [Learnt(r, a) EXCEPT !.pc = pc].id = IF a.kind = "register" THEN c ELSE r.id
<1>1. a.id = c /\ a.table \in Seq(Registration)
  BY DEF ResponseTo
<1>2. /\ Learnt(r, a) \in Program
      /\ Learnt(r, a).id = IF a.kind = "register" THEN c ELSE r.id
  <2>1. CASE a.kind = "register"
    <3>1. Learnt(r, a) = [r EXCEPT !.id = c]
      BY <1>1, <2>1 DEF Learnt
    <3>2. [r EXCEPT !.id = c] \in Program /\ [r EXCEPT !.id = c].id = c
      BY DEF Program
    <3> QED BY <2>1, <3>1, <3>2
  <2>2. CASE a.kind = "roles"
    <3>1. Learnt(r, a) = [r EXCEPT !.table = a.table]
      BY <2>2 DEF Learnt
    <3>2. ASSUME NEW t \in Seq(Registration)
          PROVE  [r EXCEPT !.table = t] \in Program /\ [r EXCEPT !.table = t].id = r.id
      BY DEF Program
    <3> QED BY <1>1, <2>2, <3>1, <3>2
  <2>3. CASE a.kind = "kvbarrier"
    <3>1. Learnt(r, a) = [r EXCEPT !.passed = r.passed + 1] /\ r.passed + 1 \in Nat
      BY <2>3 DEF Learnt, Program
    <3>2. ASSUME NEW n \in Nat
          PROVE  [r EXCEPT !.passed = n] \in Program /\ [r EXCEPT !.passed = n].id = r.id
      BY DEF Program
    <3> QED BY <2>3, <3>1, <3>2
  <2>4. CASE a.kind \notin {"register", "roles", "kvbarrier"}
    <3>1. Learnt(r, a) = r
      BY <2>4 DEF Learnt
    <3> QED BY <2>4, <3>1
  <2> QED BY <2>1, <2>2, <2>3, <2>4
<1> QED BY <1>2, RecordProperties

\* recv_response: the number a client learns is its own.
LEMMA ReceiveStep ==
    ASSUME IInv, NEW c \in Clients, NEW s \in Servers, Receive(c, s) PROVE IInv'
<1> DEFINE a == Head(ans[s][c])
           pc == client[c].pc
           expected == a.kind = pc /\ client[c].id \in {a.id, NoId}
           now == [Learnt(client[c], a) EXCEPT !.pc = GoesOn(client[c])]
           lost == [client[c] EXCEPT !.pc = "failed"]
<1>1. /\ pc \in DOMAIN After /\ ans[s][c] # <<>>
      /\ ans' = [ans EXCEPT ![s][c] = Tail(@)]
      /\ client' = [client EXCEPT ![c] = IF expected THEN now ELSE lost]
      /\ req' = IF expected /\ now.pc \in Requests
                THEN [req EXCEPT ![c][0] =
                        Append(@, [kind |-> now.pc, from |-> c, id |-> now.id])]
                ELSE req
      /\ UNCHANGED serverVars
  BY DEF Receive
<1>2. a \in ResponseTo(c) /\ a.id = c /\ Tail(ans[s][c]) \in Seq(ResponseTo(c))
  <2>1. ans[s][c] \in Seq(ResponseTo(c))
    BY DEF IInv, Answered
  <2>2. a \in ResponseTo(c) /\ Tail(ans[s][c]) \in Seq(ResponseTo(c))
    BY <1>1, <2>1, HeadTailProperties
  <2> HIDE DEF a
  <2> QED BY <2>2 DEF ResponseTo
<1>3. Answered'
  BY <1>1, <1>2 DEF IInv, Answered
<1>4. client[c] \in Program /\ pc \in Pcs \ {"start", "accept", "failed"} /\ Numbering
  BY <1>1, AfterProperties DEF IInv, Types, Joined
<1>5. GoesOn(client[c]) \in Pcs \ {"start", "accept", "register", "failed"}
  BY <1>1, AfterProperties
<1>6. now \in Program /\ now.pc = GoesOn(client[c])
      /\ now.id = IF a.kind = "register" THEN c ELSE client[c].id
  BY <1>2, <1>4, <1>5, LearntProperties
<1>7. lost \in Program /\ lost.pc = "failed" /\ lost.id = client[c].id
  BY ZenonT(60), <1>4, RecordProperties DEF Pcs
<1>8. expected => now.id = c
  <2>1. CASE pc = "register"
    BY <1>6, <2>1
  <2>2. CASE pc # "register"
    BY <1>4, <1>6, <2>2 DEF IInv, Joined
  <2> QED BY <2>1, <2>2
<1>9. client[c].id \in {NoId, c}
  BY DEF IInv, Joined
<1> HIDE DEF now, lost, expected, a
<1>10. CASE expected
  <2>1. Changes(c) /\ client'[c] = now
    BY <1>1, <1>6, <1>10, ChangesOne
  <2>2. CASE now.pc \in Requests
    <3>1. now.pc \in Kinds \ {"register"} /\ 0 \in Servers
      BY <2>2, AfterProperties, NoIdProperties
    <3>2. req' = [req EXCEPT ![c][0] = Append(@, [kind |-> now.pc, from |-> c, id |-> c])]
      BY <1>1, <1>8, <1>10, <2>2
    <3>3. /\ DOMAIN req' = Clients /\ \A d \in Clients : DOMAIN req'[d] = Servers
          /\ \A d \in Clients \ {c} : req'[d] = req[d]
          /\ \A t \in Servers : InOrder(c, t, req'[c][t])
      BY <1>4, <3>1, <3>2, SendKeeps
    <3> QED BY <1>1, <1>3, <1>4, <1>5, <1>6, <1>8, <1>10, <2>1, <3>3, ClientKeeps
  <2>3. CASE now.pc \notin Requests
    <3>1. UNCHANGED req
      BY <1>1, <2>3
    <3> QED BY <1>1, <1>3, <1>4, <1>5, <1>6, <1>8, <1>10, <2>1, <3>1, QuietRequests, ClientKeeps
  <2> QED BY <2>2, <2>3
<1>11. CASE ~expected
  <2>1. Changes(c) /\ client'[c] = lost /\ UNCHANGED req
    BY <1>1, <1>7, <1>11, ChangesOne
  <2> QED BY <1>1, <1>3, <1>4, <1>7, <1>9, <2>1, QuietRequests, ClientKeeps
<1> QED BY <1>10, <1>11

\* Every step of a client keeps the invariant.
LEMMA StepKeeps ==
    ASSUME IInv, NEW c \in Clients, Step(c) PROVE IInv'
  BY RegisterStep, AcceptStep, ReceiveStep, WorkStep, ShutdownStep, ExitStep,
     NoIdProperties DEF Step

-----------------------------------------------------------------------------
(* Steps of a server *)

\* Server s goes on as now; the others are as they were.
ServerChanges(s) ==
    /\ server' \in [Servers -> ServerLoop]
    /\ \A t \in Servers \ {s} : server'[t] = server[t]

\* A server's record is replaced.
LEMMA ServerChangesOne ==
    ASSUME IInv, NEW s \in Servers, NEW now \in ServerLoop,
           server' = [server EXCEPT ![s] = now]
    PROVE  ServerChanges(s) /\ server'[s] = now
  BY DEF IInv, Types, ServerChanges

\* A channel with server s after a step of it.
StillInOrder(d, s) ==
    /\ req'[d][s] \in Seq(RequestOf(d))
    /\ \A i \in 1..Len(req'[d][s]) :
         IF req'[d][s][i].kind = "register"
         THEN i = 1 /\ d \notin Range(server'[s].recv_clients)
         ELSE Numbering
    /\ client[d].pc = "start" =>
         req'[d][s] = <<>> /\ d \notin Range(server'[s].recv_clients)

\* What a step of server s has to ensure, since it leaves the clients alone.
LEMMA ServerKeeps ==
    ASSUME IInv, NEW s \in Servers, UNCHANGED client,
           ServerChanges(s),
           IsInjective(server'[s].recv_clients),
           server[s].namebook # <<>> => server'[s].namebook # <<>>,
           roles' \in Seq(Registration),
           DOMAIN req' = Clients, \A d \in Clients : DOMAIN req'[d] = Servers,
           \A d \in Clients : \A t \in Servers \ {s} : req'[d][t] = req[d][t],
           \A d \in Clients : StillInOrder(d, s),
           Answered'
    PROVE  IInv'
<1>1. Types'
  BY DEF IInv, Types, ServerChanges
<1>2. Numbering => Numbering'
  <2> SUFFICES ASSUME Numbering, NEW t \in Servers PROVE server'[t].namebook # <<>>
    BY DEF Numbering
  <2>1. server[t].namebook # <<>>
    BY DEF Numbering
  <2>2. CASE t = s
    BY <2>1, <2>2
  <2>3. CASE t # s
    BY <2>1, <2>3 DEF ServerChanges
  <2> QED BY <2>2, <2>3
<1>3. Joined'
  BY <1>2 DEF IInv, Joined
<1>4. Registered'
  <2> SUFFICES ASSUME NEW t \in Servers PROVE IsInjective(server'[t].recv_clients)
    BY DEF Registered
  <2>1. CASE t = s
    BY <2>1
  <2>2. CASE t # s
    BY <2>2 DEF ServerChanges, IInv, Registered
  <2> QED BY <2>1, <2>2
<1>5. ASSUME NEW d \in Clients, NEW t \in Servers
      PROVE  /\ InOrder(d, t, req[d][t])'
             /\ client'[d].pc = "start" =>
                  req'[d][t] = <<>> /\ d \notin Range(server'[t].recv_clients)
  <2>1. CASE t = s
    <3>1. StillInOrder(d, t)
      BY <2>1
    <3> QED BY <1>2, <3>1 DEF InOrder, StillInOrder
  <2>2. CASE t # s
    <3>1. req'[d][t] = req[d][t] /\ server'[t] = server[t]
      BY <2>2 DEF ServerChanges
    <3>2. /\ InOrder(d, t, req[d][t])
          /\ client[d].pc = "start" =>
               req[d][t] = <<>> /\ d \notin Range(server[t].recv_clients)
      BY RequestedChannels DEF IInv
    <3>3. InOrder(d, t, req[d][t])'
      BY <1>2, <3>1, <3>2 DEF InOrder
    <3> QED BY <3>1, <3>2, <3>3
  <2> QED BY <2>1, <2>2
<1>6. Requested'
  BY <1>5, RequestedChannelsNext
<1> QED BY <1>1, <1>3, <1>4, <1>6 DEF IInv

\* A channel that the server does not touch, in a step in which its client does
\* not get registered.
LEMMA UntouchedChannel ==
    ASSUME IInv, NEW d \in Clients, NEW s \in Servers, req'[d][s] = req[d][s],
           d \in Range(server'[s].recv_clients) => d \in Range(server[s].recv_clients)
    PROVE  StillInOrder(d, s)
<1>1. /\ InOrder(d, s, req[d][s])
      /\ client[d].pc = "start" =>
           req[d][s] = <<>> /\ d \notin Range(server[s].recv_clients)
  BY RequestedChannels DEF IInv
<1> QED BY <1>1 DEF InOrder, StillInOrder

\* A server's record with some of its fields replaced.
LEMMA LoopProperties ==
    ASSUME NEW r \in ServerLoop
    PROVE  /\ r.recv_clients \in Seq(Clients)
           /\ \A pc \in {"wait", "serve", "closing", "hung", "done"} :
                /\ [r EXCEPT !.pc = pc] \in ServerLoop
                /\ [r EXCEPT !.pc = pc].recv_clients = r.recv_clients
                /\ [r EXCEPT !.pc = pc].namebook = r.namebook
           /\ \A ips \in Seq(Clients) :
                /\ [r EXCEPT !.recv_clients = ips] \in ServerLoop
                /\ [r EXCEPT !.recv_clients = ips].recv_clients = ips
                /\ [r EXCEPT !.recv_clients = ips].namebook = r.namebook
           /\ [r EXCEPT !.recv_clients = <<>>, !.namebook = Book] \in ServerLoop
           /\ [r EXCEPT !.recv_clients = <<>>, !.namebook = Book].recv_clients = <<>>
           /\ [r EXCEPT !.recv_clients = <<>>, !.namebook = Book].namebook = Book
<1>1. ASSUME NEW pc \in {"wait", "serve", "closing", "hung", "done"}
      PROVE  /\ [r EXCEPT !.pc = pc] \in ServerLoop
             /\ [r EXCEPT !.pc = pc].recv_clients = r.recv_clients
             /\ [r EXCEPT !.pc = pc].namebook = r.namebook
  BY DEF ServerLoop
<1>2. ASSUME NEW ips \in Seq(Clients)
      PROVE  /\ [r EXCEPT !.recv_clients = ips] \in ServerLoop
             /\ [r EXCEPT !.recv_clients = ips].recv_clients = ips
             /\ [r EXCEPT !.recv_clients = ips].namebook = r.namebook
  BY DEF ServerLoop
<1>3. [r EXCEPT !.recv_clients = <<>>, !.namebook = Book] \in ServerLoop
  <2>1. ASSUME NEW ips \in Seq(Clients)
        PROVE  [r EXCEPT !.recv_clients = ips, !.namebook = Book] \in ServerLoop
    BY DEF ServerLoop
  <2>2. <<>> \in Seq(Clients)
    OBVIOUS
  <2> QED BY <2>1, <2>2, Zenon
<1>4. /\ [r EXCEPT !.recv_clients = <<>>, !.namebook = Book].recv_clients = <<>>
      /\ [r EXCEPT !.recv_clients = <<>>, !.namebook = Book].namebook = Book
  BY DEF ServerLoop
<1>5. r.recv_clients \in Seq(Clients)
  BY DEF ServerLoop
<1> QED BY <1>1, <1>2, <1>3, <1>4, <1>5, Zenon

\* A step that changes only where the server is.
LEMMA PcChanges ==
    ASSUME IInv, NEW s \in Servers,
           NEW pc \in {"wait", "serve", "closing", "hung", "done"},
           server' = [server EXCEPT ![s].pc = pc]
    PROVE  /\ ServerChanges(s)
           /\ server'[s].recv_clients = server[s].recv_clients
           /\ server'[s].namebook = server[s].namebook
           /\ IsInjective(server'[s].recv_clients)
<1> DEFINE now == [server[s] EXCEPT !.pc = pc]
<1>1. server[s] \in ServerLoop /\ server' = [server EXCEPT ![s] = now]
  BY DEF IInv, Types
<1>2. /\ now \in ServerLoop /\ now.recv_clients = server[s].recv_clients
      /\ now.namebook = server[s].namebook
  BY <1>1, LoopProperties, Zenon
<1>3. IsInjective(server[s].recv_clients)
  BY DEF IInv, Registered
<1> HIDE DEF now
<1> QED BY <1>1, <1>2, <1>3, ServerChangesOne

\* wait_for_senders of a server.
LEMMA ListenStep ==
    ASSUME IInv, NEW s \in Servers, Listen(s) PROVE IInv'
<1>1. /\ UNCHANGED <<client, roles, req, ans>>
      /\ server' = [server EXCEPT ![s].pc = "serve"]
  BY DEF Listen
<1>2. /\ ServerChanges(s)
      /\ server'[s].recv_clients = server[s].recv_clients
      /\ server'[s].namebook = server[s].namebook
      /\ IsInjective(server'[s].recv_clients)
  BY <1>1, PcChanges
<1>3. \A d \in Clients : StillInOrder(d, s)
  BY <1>1, <1>2, UntouchedChannel
<1>4. Answered' /\ roles' \in Seq(Registration)
  BY <1>1 DEF IInv, Types, Answered
<1> QED BY <1>1, <1>2, <1>3, <1>4, QuietRequests, ServerKeeps

\* send_response: every addressee is told its own number.
LEMMA AnswerKeeps ==
    ASSUME IInv, NEW s \in Servers, server[s].namebook = Book,
           NEW ids \in SUBSET Clients, NEW kind \in Kinds, NEW table \in Seq(Registration),
           Answer(s, ids, kind, table)
    PROVE  Answered'
<1>0. DOMAIN ans = Servers /\ \A t \in Servers : DOMAIN ans[t] = Clients
  BY DEF IInv, Answered
<1>1. ans' = [ans EXCEPT ![s] = [c \in Clients |->
                IF \E id \in ids : Book[id] = c
                THEN Append(@[c], [kind |-> kind, table |-> table,
                       id |-> CHOOSE id \in ids : Book[id] = c])
                ELSE @[c]]]
  BY DEF Answer
<1>2. /\ DOMAIN ans' = Servers /\ \A t \in Servers : DOMAIN ans'[t] = Clients
      /\ \A t \in Servers \ {s} : ans'[t] = ans[t]
  BY <1>0, <1>1
<1>3. ASSUME NEW c \in Clients PROVE ans'[s][c] \in Seq(ResponseTo(c))
  <2>1. ans[s][c] \in Seq(ResponseTo(c))
    BY DEF IInv, Answered
  <2>2. CASE c \in ids
    <3>1. /\ \E id \in ids : Book[id] = c
          /\ (CHOOSE id \in ids : Book[id] = c) = c
      BY <2>2, BookProperties
    <3> DEFINE i == CHOOSE id \in ids : Book[id] = c
               a == [kind |-> kind, table |-> table, id |-> i]
    <3>2. ans'[s][c] = Append(ans[s][c], a)
      BY <1>0, <1>1, <3>1
    <3>3. i = c
      BY <3>1
    <3> HIDE DEF i
    <3>4. a \in ResponseTo(c)
      BY <3>3 DEF ResponseTo
    <3> HIDE DEF a
    <3> QED BY <2>1, <3>2, <3>4, AppendProperties
  <2>3. CASE c \notin ids
    <3>1. ~\E id \in ids : Book[id] = c
      BY <2>3, BookProperties
    <3>2. ans'[s][c] = ans[s][c]
      BY <1>0, <1>1, <3>1
    <3> QED BY <2>1, <3>2
  <2> QED BY <2>2, <2>3
<1>4. ASSUME NEW t \in Servers, NEW c \in Clients PROVE ans'[t][c] \in Seq(ResponseTo(c))
  <2>1. CASE t = s
    BY <1>3, <2>1
  <2>2. CASE t # s
    BY <1>2, <2>2 DEF IInv, Answered
  <2> QED BY <2>1, <2>2
<1> QED BY <1>2, <1>4 DEF Answered

\* A complete group: whatever order its clients came in, the namebook is Book.
LEMMA ConnectBackStep ==
    ASSUME IInv, NEW s \in Servers, ConnectBack(s) PROVE IInv'
<1>1. server[s] \in ServerLoop /\ server[s].recv_clients \in Seq(Clients)
  BY DEF IInv, Types, ServerLoop
<1>2. Numbered(server[s].recv_clients) = Book
  BY <1>1, NumberedIsBook DEF ConnectBack, Ready, IInv, Registered
<1>3. /\ server' = [server EXCEPT ![s].recv_clients = <<>>, ![s].namebook = Book]
      /\ UNCHANGED <<client, roles, req>>
      /\ ans' = IF s # 0 THEN ans
                ELSE [ans EXCEPT ![0] = [c \in Clients |->
                        Append(@[c], [kind |-> "register", table |-> <<>>,
                               id |-> CHOOSE id \in DOMAIN Book : Book[id] = c])]]
  BY <1>2 DEF ConnectBack
<1>4. ServerChanges(s) /\ server'[s].recv_clients = <<>> /\ server'[s].namebook = Book
  <2> DEFINE now == [server[s] EXCEPT !.recv_clients = <<>>, !.namebook = Book]
  <2>1. server' = [server EXCEPT ![s] = now]
    BY <1>3 DEF IInv, Types
  <2>3. now \in ServerLoop /\ now.recv_clients = <<>> /\ now.namebook = Book
    BY <1>1, LoopProperties, Zenon
  <2> HIDE DEF now
  <2> QED BY <2>1, <2>3, ServerChangesOne
<1>5. \A d \in Clients : StillInOrder(d, s)
  BY <1>3, <1>4, EmptyList, UntouchedChannel
<1>6. Answered'
  <2>1. CASE s # 0
    BY <1>3, <2>1 DEF IInv, Answered
  <2>2. CASE s = 0
    <3>0. DOMAIN ans = Servers /\ \A t \in Servers : DOMAIN ans[t] = Clients
      BY DEF IInv, Answered
    <3>1. /\ DOMAIN ans' = Servers /\ \A t \in Servers : DOMAIN ans'[t] = Clients
          /\ \A t \in Servers \ {s} : ans'[t] = ans[t]
      BY <1>3, <2>2, <3>0
    <3>2. ASSUME NEW c \in Clients PROVE ans'[s][c] \in Seq(ResponseTo(c))
      <4> DEFINE i == CHOOSE id \in DOMAIN Book : Book[id] = c
                 a == [kind |-> "register", table |-> <<>>, id |-> i]
      <4>1. ans'[s][c] = Append(ans[s][c], a)
        BY <1>3, <2>2, <3>0
      <4>2. i = c
        BY BookProperties
      <4> HIDE DEF i
      <4>3. a \in ResponseTo(c)
        BY <4>2 DEF ResponseTo, Kinds
      <4>4. ans[s][c] \in Seq(ResponseTo(c))
        BY DEF IInv, Answered
      <4> HIDE DEF a
      <4> QED BY <4>1, <4>3, <4>4, AppendProperties
    <3>3. ASSUME NEW t \in Servers, NEW c \in Clients
          PROVE  ans'[t][c] \in Seq(ResponseTo(c))
      <4>1. CASE t = s
        BY <3>2, <4>1
      <4>2. CASE t # s
        BY <3>1, <4>2 DEF IInv, Answered
      <4> QED BY <4>1, <4>2
    <3> QED BY <3>1, <3>3 DEF Answered
  <2> QED BY <2>1, <2>2
<1>7. roles' \in Seq(Registration)
  BY <1>3 DEF IInv, Types
<1> QED BY <1>3, <1>4, <1>5, <1>6, <1>7, EmptyList, BookProperties, QuietRequests, ServerKeeps

\* finalize_receiver of a server drops what is under way.
LEMMA CloseStep ==
    ASSUME IInv, NEW s \in Servers, Close(s) PROVE IInv'
<1>1. /\ UNCHANGED <<client, roles, ans>>
      /\ server' = [server EXCEPT ![s].pc = "done"]
      /\ req' = [c \in Clients |-> [req[c] EXCEPT ![s] = <<>>]]
  BY DEF Close
<1>2. /\ ServerChanges(s)
      /\ server'[s].recv_clients = server[s].recv_clients
      /\ server'[s].namebook = server[s].namebook
      /\ IsInjective(server'[s].recv_clients)
  BY <1>1, PcChanges
<1>3. /\ DOMAIN req' = Clients /\ \A d \in Clients : DOMAIN req'[d] = Servers
      /\ \A d \in Clients : \A t \in Servers \ {s} : req'[d][t] = req[d][t]
      /\ \A d \in Clients : req'[d][s] = <<>>
  BY <1>1, QuietRequests
<1>4. ASSUME NEW d \in Clients PROVE StillInOrder(d, s)
  <2>1. client[d].pc # "start"
    BY DEF Close
  <2>2. req'[d][s] = <<>>
    BY <1>3
  <2> QED BY <2>1, <2>2 DEF StillInOrder
<1>5. Answered' /\ roles' \in Seq(Registration)
  BY <1>1 DEF IInv, Types, Answered
<1> QED BY <1>1, <1>2, <1>3, <1>4, <1>5, ServerKeeps

\* What the handlers of requests other than registrations do.
LEMMA HandlerKeeps ==
    ASSUME IInv, NEW s \in Servers, NEW c \in Clients, Numbering,
           NEW m \in RequestOf(c), m.kind # "register",
           \/ HandleCall(s, m) \/ HandlePush(m) \/ HandleRole(s, m) \/ HandleGetRole(s, m)
           \/ HandleKvBarrier(s, m) \/ HandleBarrier(s, m)
    PROVE  server' = server /\ roles' \in Seq(Registration) /\ Answered'
<1>1. m.kind \in Kinds /\ m.from = c /\ m.id = c
  BY DEF RequestOf
<1>2. server[s].namebook = Book
  BY DEF Numbering, IInv, Types, ServerLoop
<1>3. roles \in Seq(Registration)
  BY DEF IInv, Types
<1>4. <<>> \in Seq(Registration) /\ {c} \in SUBSET Clients /\ {} \in SUBSET Clients
  OBVIOUS
<1>5. CASE HandleCall(s, m)
  <2>1. Answer(s, {c}, m.kind, <<>>) /\ server' = server /\ roles' = roles
    BY <1>1, <1>5 DEF HandleCall
  <2>2. Answered'
    BY <1>1, <1>2, <1>4, <2>1, AnswerKeeps
  <2> QED BY <1>3, <2>1, <2>2
<1>6. CASE HandlePush(m)
  BY <1>3, <1>6 DEF HandlePush, IInv, Answered
<1>7. CASE HandleRole(s, m)
  <2> DEFINE me == [id |-> m.id, role |-> Role[m.from], machine |-> Machine[m.from]]
             now == IF me \in Range(roles) THEN roles ELSE Append(roles, me)
             ids == IF Len(now) = num_clients THEN AllIds ELSE {}
  <2>1. me \in Registration
    <3>1. Role[c] \in Roles /\ Machine[c] \in Nat
      BY SessionAssumption DEF Roles
    <3> QED BY <1>1, <3>1 DEF Registration
  <2>2. now \in Seq(Registration)
    BY <1>3, <2>1, AppendProperties
  <2>3. roles' = now /\ server' = server /\ Answer(s, ids, "role", <<>>)
    BY <1>7 DEF HandleRole
  <2>4. ids \in SUBSET Clients /\ "role" \in Kinds
    BY DEF AllIds, Clients, Kinds
  <2> HIDE DEF now, ids
  <2>5. Answered'
    BY <1>2, <1>4, <2>3, <2>4, AnswerKeeps
  <2> QED BY <2>2, <2>3, <2>5
<1>8. CASE HandleGetRole(s, m)
  <2>1. Answer(s, {c}, "roles", roles) /\ server' = server /\ roles' = roles
    BY <1>1, <1>8 DEF HandleGetRole
  <2>2. Answered'
    BY <1>2, <1>3, <1>4, <2>1, AnswerKeeps DEF Kinds
  <2> QED BY <1>3, <2>1, <2>2
<1>9. CASE HandleKvBarrier(s, m)
  <2>1. PICK ids \in SUBSET Clients :
          Answer(s, ids, "kvbarrier", <<>>) /\ server' = server /\ roles' = roles
    <3> DEFINE members == {roles[i].id : i \in {j \in DOMAIN roles : roles[j].role = Role[m.from]}}
               full == kv_count[Role[m.from]] + 1 = Cardinality(members)
    <3>1. members \in SUBSET Clients
      <4>1. \A i \in DOMAIN roles : roles[i] \in Registration
        BY <1>3, ElementOfSeq, LenProperties
      <4> QED BY <4>1 DEF Registration
    <3>2. /\ Answer(s, IF full THEN members ELSE {}, "kvbarrier", <<>>)
          /\ server' = server /\ roles' = roles
      BY <1>9 DEF HandleKvBarrier
    <3> HIDE DEF members, full
    <3> QED BY <3>1, <3>2
  <2>2. "kvbarrier" \in Kinds
    BY DEF Kinds
  <2>3. Answered'
    BY <1>2, <1>4, <2>1, <2>2, AnswerKeeps
  <2> QED BY <1>3, <2>1, <2>3
<1>10. CASE HandleBarrier(s, m)
  <2>1. PICK ids \in SUBSET Clients :
          Answer(s, ids, "barrier", <<>>) /\ server' = server /\ roles' = roles
    <3>1. AllIds = Clients
      BY DEF AllIds, Clients
    <3> QED BY <1>10, <3>1 DEF HandleBarrier
  <2>2. "barrier" \in Kinds
    BY DEF Kinds
  <2>3. Answered'
    BY <1>2, <1>4, <2>1, <2>2, AnswerKeeps
  <2> QED BY <1>3, <2>1, <2>3
<1> QED BY <1>5, <1>6, <1>7, <1>8, <1>9, <1>10

\* One turn of start_server's loop.
LEMMA ServeStep ==
    ASSUME IInv, NEW s \in Servers, Serve(s) PROVE IInv'
<1>1. PICK c \in Clients :
        /\ req[c][s] # <<>>
        /\ req' = [req EXCEPT ![c][s] = Tail(@)]
        /\ \/ HandleRegister(s, Head(req[c][s]))
           \/ \/ HandleCall(s, Head(req[c][s])) \/ HandlePush(Head(req[c][s]))
              \/ HandleRole(s, Head(req[c][s])) \/ HandleGetRole(s, Head(req[c][s]))
              \/ HandleKvBarrier(s, Head(req[c][s])) \/ HandleBarrier(s, Head(req[c][s]))
           \/ \E arrived \in SUBSET Clients : HandleShutdown(s, Head(req[c][s]), arrived)
  BY DEF Serve
<1> DEFINE m == Head(req[c][s])
<1>2. InOrder(c, s, req[c][s])
  BY QuietRequests
<1>3. /\ m \in RequestOf(c)
      /\ m.kind = "register" => c \notin Range(server[s].recv_clients)
      /\ m.kind # "register" => Numbering
      /\ Tail(req[c][s]) \in Seq(RequestOf(c))
      /\ \A i \in 1..Len(Tail(req[c][s])) :
           Tail(req[c][s])[i].kind # "register" /\ Numbering
  BY <1>1, <1>2, TakeRequest
<1>4. /\ DOMAIN req' = Clients /\ \A d \in Clients : DOMAIN req'[d] = Servers
      /\ \A d \in Clients : \A t \in Servers \ {s} : req'[d][t] = req[d][t]
      /\ \A d \in Clients \ {c} : req'[d][s] = req[d][s]
      /\ req'[c][s] = Tail(req[c][s])
  BY <1>1, QuietRequests
<1>5. client[c].pc # "start" /\ UNCHANGED client
  BY <1>1 DEF IInv, Requested, Serve
<1>6. StillInOrder(c, s)
  BY <1>3, <1>4, <1>5 DEF StillInOrder
<1>7. server[s] \in ServerLoop /\ IsInjective(server[s].recv_clients)
      /\ server[s].recv_clients \in Seq(Clients) /\ roles \in Seq(Registration)
  BY LoopProperties DEF IInv, Types, Registered
<1> HIDE DEF m
<1>8. CASE HandleRegister(s, m)
  <2> DEFINE ips == Append(server[s].recv_clients, c)
             now == [server[s] EXCEPT !.recv_clients = ips]
  <2>1. m.kind = "register" /\ m.from = c /\ UNCHANGED <<ans, roles>>
    BY <1>3, <1>8 DEF HandleRegister, RequestOf
  <2>2. server' = [server EXCEPT ![s] = now]
    BY <1>8, <2>1 DEF HandleRegister, IInv, Types
  <2>3. /\ ips \in Seq(Clients) /\ IsInjective(ips)
        /\ Range(ips) = Range(server[s].recv_clients) \cup {c}
    BY <1>3, <1>7, <2>1, AppendNew
  <2> HIDE DEF ips
  <2>4. now \in ServerLoop /\ now.recv_clients = ips /\ now.namebook = server[s].namebook
    BY <1>7, <2>3, LoopProperties, Zenon
  <2> HIDE DEF now
  <2>5. ServerChanges(s) /\ server'[s].recv_clients = ips
        /\ server'[s].namebook = server[s].namebook
    BY <2>2, <2>4, ServerChangesOne
  <2>6. ASSUME NEW d \in Clients PROVE StillInOrder(d, s)
    <3>1. CASE d = c
      BY <1>6, <3>1
    <3>2. CASE d # c
      BY <1>4, <2>3, <2>5, <3>2, UntouchedChannel
    <3> QED BY <3>1, <3>2
  <2>7. Answered' /\ roles' \in Seq(Registration)
    BY <1>7, <2>1 DEF IInv, Answered
  <2> QED BY <1>4, <1>5, <2>3, <2>5, <2>6, <2>7, ServerKeeps
<1>9. CASE \/ HandleCall(s, m) \/ HandlePush(m) \/ HandleRole(s, m) \/ HandleGetRole(s, m)
           \/ HandleKvBarrier(s, m) \/ HandleBarrier(s, m)
  <2>1. m.kind # "register"
    BY <1>9 DEF HandleCall, HandlePush, HandleRole, HandleGetRole, HandleKvBarrier,
                HandleBarrier
  <2>2. server' = server /\ roles' \in Seq(Registration) /\ Answered'
    BY <1>3, <1>9, <2>1, HandlerKeeps
  <2>3. ServerChanges(s)
    BY <2>2 DEF IInv, Types, ServerChanges
  <2>4. ASSUME NEW d \in Clients PROVE StillInOrder(d, s)
    <3>1. CASE d = c
      BY <1>6, <3>1
    <3>2. CASE d # c
      BY <1>4, <2>2, <3>2, UntouchedChannel
    <3> QED BY <3>1, <3>2
  <2> QED BY <1>4, <1>5, <1>7, <2>2, <2>3, <2>4, ServerKeeps
<1>10. ASSUME NEW arrived \in SUBSET Clients, HandleShutdown(s, m, arrived)
       PROVE  IInv'
  <2>1. PICK pc \in {"closing", "hung"} : server' = [server EXCEPT ![s].pc = pc]
    BY <1>10 DEF HandleShutdown
  <2>2. /\ ServerChanges(s)
        /\ server'[s].recv_clients = server[s].recv_clients
        /\ server'[s].namebook = server[s].namebook
        /\ IsInjective(server'[s].recv_clients)
    BY <2>1, PcChanges
  <2>3. ASSUME NEW d \in Clients PROVE StillInOrder(d, s)
    <3>1. CASE d = c
      BY <1>6, <3>1
    <3>2. CASE d # c
      BY <1>4, <2>2, <3>2, UntouchedChannel
    <3> QED BY <3>1, <3>2
  <2>4. Answered' /\ roles' \in Seq(Registration)
    BY <1>7, <1>10 DEF HandleShutdown, IInv, Answered
  <2> QED BY <1>4, <1>5, <2>2, <2>3, <2>4, ServerKeeps
<1> QED BY <1>1, <1>8, <1>9, <1>10 DEF m

-----------------------------------------------------------------------------
(* Theorems *)

\* Nobody has registered and nothing is under way.
LEMMA InitKeeps == Init => IInv
<1> SUFFICES ASSUME Init PROVE IInv
  OBVIOUS
<1>1. Types
  <2>1. /\ "start" \in Pcs /\ <<>> \in Seq(Registration) /\ <<>> \in Seq(Clients)
        /\ 0 \in Nat /\ NoId \in Clients \cup {NoId}
    BY DEF Pcs
  <2>2. [pc |-> "start", id |-> NoId, table |-> <<>>, barriers |-> 0, entered |-> 0, passed |-> 0,
         work |-> 0] \in Program
    BY <2>1 DEF Program
  <2>3. [pc |-> "wait", recv_clients |-> <<>>, namebook |-> <<>>] \in ServerLoop
    BY <2>1 DEF ServerLoop
  <2> QED BY <2>1, <2>2, <2>3 DEF Init, Types
<1>2. Joined
  BY DEF Init, Joined
<1>3. Requested
  BY EmptyList DEF Init, Requested
<1>4. Registered
  BY EmptyList DEF Init, Registered
<1>5. Answered
  BY DEF Init, Answered
<1> QED BY <1>1, <1>2, <1>3, <1>4, <1>5 DEF IInv

\* The invariant holds whatever clients and servers do, and in whatever order
\* the messages arrive.
THEOREM Invariance == Spec => []IInv
<1>1. IInv /\ [Next]_vars => IInv'
  <2> SUFFICES ASSUME IInv, [Next]_vars PROVE IInv'
    OBVIOUS
  <2>1. ASSUME NEW s \in Servers, StartServer(s) PROVE IInv'
    BY <2>1, ListenStep, ConnectBackStep, ServeStep, CloseStep DEF StartServer
  <2>2. CASE UNCHANGED vars
    <3>1. client' = client /\ server' = server /\ roles' = roles /\ req' = req /\ ans' = ans
      BY <2>2 DEF vars
    <3>2. Types' /\ Joined'
      BY <3>1 DEF IInv, Types, Joined, Numbering
    <3>3. Requested'
      <4>1. ASSUME NEW c \in Clients, NEW s \in Servers PROVE InOrder(c, s, req[c][s])'
        BY <3>1, QuietRequests DEF InOrder, Numbering
      <4>2. ASSUME NEW c \in Clients, NEW s \in Servers, client'[c].pc = "start"
            PROVE  req'[c][s] = <<>> /\ c \notin Range(server'[s].recv_clients)
        BY <3>1, <4>2 DEF IInv, Requested
      <4> QED BY <3>1, <4>1, <4>2, QuietRequests, RequestedChannelsNext
    <3>4. Registered' /\ Answered'
      BY <3>1 DEF IInv, Registered, Answered
    <3> QED BY <3>2, <3>3, <3>4 DEF IInv
  <2> QED BY StepKeeps, <2>1, <2>2 DEF Next, Over
<1> QED BY InitKeeps, <1>1, PTL DEF Spec

\* Every server that has numbered the clients has the same numbers, and every
\* client that was told its number finds itself under it at every server: the
\* sort of start_server makes the order of the registrations irrelevant, for
\* any number of clients and servers.
THEOREM NumbersAgree == Spec => []IdsAgree
<1>1. IInv => IdsAgree
  <2> SUFFICES ASSUME IInv PROVE IdsAgree
    OBVIOUS
  <2>1. \A s \in Servers : server[s].namebook \in {<<>>, Book}
    BY DEF IInv, Types, ServerLoop
  <2>2. ASSUME NEW c \in Clients, NEW s \in Servers, client[c].id # NoId
        PROVE  server[s].namebook[client[c].id] = c
    <3>1. client[c].id = c /\ Numbering
      BY <2>2 DEF IInv, Joined
    <3>2. server[s].namebook = Book
      BY <2>1, <3>1 DEF Numbering
    <3> QED BY <3>1, <3>2, BookProperties
  <2> QED BY <2>1, <2>2 DEF IdsAgree
<1> QED BY <1>1, Invariance, PTL
=============================================================================
