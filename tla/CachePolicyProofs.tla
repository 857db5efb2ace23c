------------------------- MODULE CachePolicyProofs -------------------------
(***************************************************************************)
(* Proofs about CachePolicy, for every policy, any number of clients, keys *)
(* and rows, batches of any length and any width of reference_count_.      *)
(***************************************************************************)
EXTENDS CachePolicy, ListLemmas, FiniteSetTheorems, SequenceTheorems, TLAPS

-----------------------------------------------------------------------------
(* Lists *)

\* erase of an element that is in the list.
LEMMA Erase ==
    ASSUME NEW S, NEW s \in Seq(S), IsInjective(s), NEW k \in Range(s)
    PROVE  /\ IndexOf(s, k) \in 1..Len(s) /\ s[IndexOf(s, k)] = k
           /\ Without(k, s) \in Seq(S)
           /\ Len(Without(k, s)) = Len(s) - 1
           /\ Range(Without(k, s)) = Range(s) \ {k}
           /\ IsInjective(Without(k, s))
<1>1. IndexOf(s, k) \in DOMAIN s /\ s[IndexOf(s, k)] = k
  BY DEF IndexOf, Range
<1>2. DOMAIN s = 1..Len(s)
  BY LenProperties
<1> QED BY <1>1, <1>2, RemoveAtProperties DEF Without

\* Moving an element to the front, as LRU does on a hit.
LEMMA MoveToFront ==
    ASSUME NEW S, NEW s \in Seq(S), IsInjective(s), NEW k \in Range(s)
    PROVE  /\ ToFront(k, s) \in Seq(S)
           /\ Len(ToFront(k, s)) = Len(s)
           /\ Range(ToFront(k, s)) = Range(s)
           /\ IsInjective(ToFront(k, s))
<1>1. k \in S
  BY RangeOfSeq
<1>2. /\ Without(k, s) \in Seq(S)
      /\ Len(Without(k, s)) = Len(s) - 1
      /\ Range(Without(k, s)) = Range(s) \ {k}
      /\ IsInjective(Without(k, s))
  BY Erase
<1>3. Len(s) \in Nat
  BY LenProperties
<1>4. /\ ToFront(k, s) \in Seq(S)
      /\ Len(ToFront(k, s)) = Len(Without(k, s)) + 1
      /\ Range(ToFront(k, s)) = Range(Without(k, s)) \cup {k}
      /\ IsInjective(ToFront(k, s))
  BY <1>1, <1>2, PushFront DEF ToFront
<1> QED BY <1>2, <1>3, <1>4

\* Moving the last element to the front, as the eviction loops do.
LEMMA PassProperties ==
    ASSUME NEW S, NEW s \in Seq(S), IsInjective(s), s # <<>>
    PROVE  /\ Pass(s) \in Seq(S)
           /\ Len(Pass(s)) = Len(s)
           /\ Range(Pass(s)) = Range(s)
           /\ IsInjective(Pass(s))
<1>1. Last(s) \in S /\ Len(s) \in Nat
  BY PopBack, RangeOfSeq, LenProperties
<1>2. /\ Front(s) \in Seq(S)
      /\ Len(Front(s)) = Len(s) - 1
      /\ Range(Front(s)) = Range(s) \ {Last(s)}
      /\ IsInjective(Front(s))
  BY PopBack
<1>3. /\ Pass(s) \in Seq(S)
      /\ Len(Pass(s)) = Len(Front(s)) + 1
      /\ Range(Pass(s)) = Range(Front(s)) \cup {Last(s)}
      /\ IsInjective(Pass(s))
  BY <1>1, <1>2, PushFront DEF Pass
<1>4. Last(s) \in Range(s)
  BY PopBack
<1> QED BY <1>1, <1>2, <1>3, <1>4

-----------------------------------------------------------------------------
(* Reference counts *)

\* The remainder of a number below the modulus.
LEMMA SmallModulo ==
    ASSUME NEW m \in Nat \ {0}, NEW n \in 0..(m - 1)
    PROVE  n % m = n
  OBVIOUS

\* The remainders one step outside.
LEMMA ModuloEnds ==
    ASSUME NEW m \in Nat \ {0}
    PROVE  m % m = 0 /\ (-1) % m = m - 1
  OBVIOUS

\* reference_count_ wraps around at both ends of its range and nowhere else.
LEMMA WrapValue ==
    /\ \A n \in (-MaxRef - 1)..MaxRef : Wrap(n) = n
    /\ Wrap(MaxRef + 1) = -MaxRef - 1
    /\ Wrap(-MaxRef - 2) = MaxRef
<1> DEFINE m == 2 * MaxRef + 2
<1>1. MaxRef \in Nat /\ m \in Nat \ {0}
  BY CacheAssumption
<1>2. ASSUME NEW n \in (-MaxRef - 1)..MaxRef PROVE Wrap(n) = n
  <2>1. n + MaxRef + 1 \in 0..(m - 1)
    BY <1>1
  <2>2. (n + MaxRef + 1) % m = n + MaxRef + 1
    BY <1>1, <2>1, SmallModulo
  <2> QED BY <1>1, <2>2 DEF Wrap
<1>3. Wrap(MaxRef + 1) = -MaxRef - 1
  <2>1. MaxRef + 1 + MaxRef + 1 = m
    BY <1>1
  <2>2. m % m = 0
    BY <1>1, ModuloEnds
  <2> HIDE DEF m
  <2>3. (MaxRef + 1 + MaxRef + 1) % m = 0
    BY <2>1, <2>2
  <2> QED BY <1>1, <2>3 DEF Wrap, m
<1>4. Wrap(-MaxRef - 2) = MaxRef
  <2>1. -MaxRef - 2 + MaxRef + 1 = -1
    BY <1>1
  <2>2. (-1) % m = m - 1
    BY <1>1, ModuloEnds
  <2> QED BY <1>1, <2>1, <2>2 DEF Wrap
<1> QED BY <1>2, <1>3, <1>4

\* The elements of Held(k), before and after a step.
LEMMA HeldElements ==
    ASSUME NEW k
    PROVE  /\ \A x : x \in Held(k) <=>
                \E c \in Clients : \E i \in DOMAIN client[c].found :
                    client[c].found[i] = k /\ x = <<c, i>>
           /\ \A x : x \in Held(k)' <=>
                \E c \in Clients : \E i \in DOMAIN client'[c].found :
                    client'[c].found[i] = k /\ x = <<c, i>>
  BY DEF Held

\* The pointers of a client that takes none, or loses the ones it has.
LEMMA HeldShrinks ==
    ASSUME NEW k, \A d \in Clients : client'[d].found \in {client[d].found, <<>>}
    PROVE  Held(k)' \subseteq Held(k)
<1> SUFFICES ASSUME NEW x \in Held(k)' PROVE x \in Held(k)
  OBVIOUS
<1>1. PICK c \in Clients : \E i \in DOMAIN client'[c].found :
                              client'[c].found[i] = k /\ x = <<c, i>>
  BY HeldElements
<1>2. DOMAIN <<>> = {}
  OBVIOUS
<1>3. client'[c].found = client[c].found
  BY <1>1, <1>2
<1> QED BY <1>1, <1>3, HeldElements

\* One more pointer to the entry of j.
LEMMA HeldGrows ==
    ASSUME NEW c \in Clients, NEW j \in Keys, NEW k \in Keys,
           client[c].found \in Seq(Keys),
           client'[c].found = Append(client[c].found, j),
           \A d \in Clients \ {c} : client'[d].found = client[d].found
    PROVE  Held(k)' \subseteq
             IF k = j THEN Held(k) \cup {<<c, Len(client[c].found) + 1>>} ELSE Held(k)
<1> DEFINE f == client[c].found
<1>1. /\ Len(f) \in Nat /\ DOMAIN f = 1..Len(f)
      /\ DOMAIN Append(f, j) = 1..(Len(f) + 1)
      /\ \A i \in 1..Len(f) : Append(f, j)[i] = f[i]
      /\ Append(f, j)[Len(f) + 1] = j
  BY AppendProperties, LenProperties
<1> SUFFICES ASSUME NEW x \in Held(k)'
             PROVE  x \in Held(k) \/ (k = j /\ x = <<c, Len(f) + 1>>)
  OBVIOUS
<1>2. PICK d \in Clients : \E i \in DOMAIN client'[d].found :
                              client'[d].found[i] = k /\ x = <<d, i>>
  BY HeldElements
<1>3. CASE d # c
  BY <1>2, <1>3, HeldElements
<1>4. CASE d = c
  <2> HIDE DEF f
  <2>1. PICK i \in 1..(Len(f) + 1) : Append(f, j)[i] = k /\ x = <<c, i>>
    BY <1>1, <1>2, <1>4 DEF f
  <2>2. CASE i = Len(f) + 1
    BY <1>1, <2>1, <2>2
  <2>3. CASE i # Len(f) + 1
    <3>1. i \in DOMAIN f /\ f[i] = k
      BY <1>1, <2>1, <2>3
    <3> QED BY <2>1, <3>1, HeldElements DEF f
  <2> QED BY <2>2, <2>3
<1> QED BY <1>3, <1>4

\* A client drops its first pointer: the other ones move up by one place.
LEMMA HeldDrops ==
    ASSUME NEW c \in Clients, NEW k \in Keys,
           client[c].found \in Seq(Keys), client[c].found # <<>>,
           client'[c].found = Tail(client[c].found),
           \A d \in Clients \ {c} : client'[d].found = client[d].found,
           IsFiniteSet(Held(k))
    PROVE  /\ IsFiniteSet(Held(k)')
           /\ Cardinality(Held(k)') <= Cardinality(Held(k))
           /\ k = Head(client[c].found) => Cardinality(Held(k)') <= Cardinality(Held(k)) - 1
           /\ Held(k)' # {} => Held(k) # {}
<1> DEFINE f == client[c].found
           up == [x \in Held(k)' |-> IF x[1] = c THEN <<c, x[2] + 1>> ELSE x]
           Rest == Held(k) \ {<<c, 1>>}
<1>1. /\ Len(f) \in Nat \ {0} /\ DOMAIN f = 1..Len(f)
      /\ DOMAIN Tail(f) = 1..(Len(f) - 1)
      /\ \A i \in 1..(Len(f) - 1) : Tail(f)[i] = f[i + 1]
      /\ Head(f) = f[1]
  BY HeadTailProperties, LenProperties, EmptySeq
<1>2. ASSUME NEW x \in Held(k)'
      PROVE  /\ x[1] = c => /\ x = <<c, x[2]>> /\ x[2] \in 1..(Len(f) - 1)
                            /\ <<c, x[2] + 1>> \in Rest
             /\ x[1] # c => x \in Rest
  <2>1. PICK d \in Clients : \E i \in DOMAIN client'[d].found :
                                client'[d].found[i] = k /\ x = <<d, i>>
    BY HeldElements
  <2>2. CASE d # c
    <3>1. x \in Held(k)
      BY <2>1, <2>2, HeldElements
    <3> QED BY <2>1, <2>2, <3>1
  <2>3. CASE d = c
    <3> HIDE DEF f
    <3>1. PICK i \in 1..(Len(f) - 1) : Tail(f)[i] = k /\ x = <<c, i>>
      BY <1>1, <2>1, <2>3 DEF f
    <3>2. i + 1 \in DOMAIN f /\ f[i + 1] = k /\ i + 1 # 1
      BY <1>1, <3>1
    <3>3. <<c, i + 1>> \in Held(k)
      BY <3>2, HeldElements DEF f
    <3> QED BY <3>1, <3>2, <3>3
  <2> QED BY <2>2, <2>3
<1> HIDE DEF f
<1>3. up \in Injection(Held(k)', Rest)
  <2>1. up \in [Held(k)' -> Rest]
    BY <1>2
  <2>2. ASSUME NEW x \in Held(k)', NEW y \in Held(k)', up[x] = up[y] PROVE x = y
    <3>1. CASE x[1] = c /\ y[1] = c
      <4>1. x[2] + 1 = y[2] + 1 /\ x[2] \in Int /\ y[2] \in Int
        BY <1>1, <1>2, <2>2, <3>1
      <4>2. x = <<c, x[2]>> /\ y = <<c, y[2]>>
        BY <1>2, <3>1
      <4>3. x[2] = y[2]
        BY <4>1
      <4> QED BY <4>2, <4>3
    <3>2. CASE x[1] # c /\ y[1] # c
      BY <2>2, <3>2
    <3>3. CASE x[1] = c /\ y[1] # c
      <4>1. y = <<c, x[2] + 1>>
        BY <2>2, <3>3
      <4> QED BY <4>1, <3>3
    <3>4. CASE x[1] # c /\ y[1] = c
      <4>1. x = <<c, y[2] + 1>>
        BY <2>2, <3>4
      <4> QED BY <4>1, <3>4
    <3> QED BY <3>1, <3>2, <3>3, <3>4
  <2> HIDE DEF up
  <2>3. DOMAIN up = Held(k)'
    BY <2>1
  <2> QED BY <2>1, <2>2, <2>3 DEF Injection, IsInjective
<1>4. /\ IsFiniteSet(Rest)
      /\ Cardinality(Rest) =
           IF <<c, 1>> \in Held(k) THEN Cardinality(Held(k)) - 1 ELSE Cardinality(Held(k))
  BY FS_RemoveElement
<1>5. Cardinality(Held(k)) \in Nat
  BY FS_CardinalityType
<1> HIDE DEF up, Rest
<1>6. IsFiniteSet(Held(k)') /\ Cardinality(Held(k)') <= Cardinality(Rest)
  BY <1>3, <1>4, FS_Injection
<1>7. Cardinality(Held(k)') \in Nat
  BY <1>6, FS_CardinalityType
<1>8. k = Head(f) => <<c, 1>> \in Held(k)
  <2>1. 1 \in DOMAIN f
    BY <1>1
  <2> QED BY <1>1, <2>1, HeldElements DEF f
<1>9. Held(k)' # {} => Held(k) # {}
  BY <1>2 DEF Rest
<1> QED BY <1>4, <1>5, <1>6, <1>7, <1>8, <1>9 DEF f

-----------------------------------------------------------------------------
(* The inductive invariant *)

\* Client c is looking for a row for its new entry k.
Inserting(c, k) == Evicting(c) /\ Head(client[c].batch) = k

\* Types, without the bounds that follow from Lists.
ClientState ==
    [pc : {"idle", "lock", "keys", "evict", "read", "write", "wrote"},
     call : {"query", "query_and_replace", "replace"},
     batch : Seq(Keys), found : Seq(Keys), placed : Seq(Keys),
     val : [Keys -> 0..MaxVersion]]

Types ==
    /\ policy \in Policies
    /\ mtx \in Clients \cup {NoClient}
    /\ map \subseteq Keys
    /\ small \in Seq(Keys) /\ queue \in Seq(Keys)
    /\ freq \in [Keys -> 0..3]
    /\ ref \in [Keys -> (-MaxRef - 1)..MaxRef]
    /\ pos \in [Keys -> Rows \cup {Unset}]
    /\ usage \in 0..Capacity
    /\ ghost_queue \in Seq(Keys) /\ Len(ghost_queue) <= GhostCapacity
    /\ ghost_set \subseteq Keys
    /\ tensor \in [Rows -> [key : Keys \cup {NoKey}, ver : 0..MaxVersion]]
    /\ source \in [Keys -> 0..MaxVersion]
    /\ client \in [Clients -> ClientState]

\* The mutex is held exactly inside the loops of the policy.
Locking == \A c \in Clients : client[c].pc \in {"keys", "evict"} <=> mtx = c

\* The entry being inserted is in the lists without a row, in use; no row is
\* free, and the hand of SIEVE is on an entry.
EvictState ==
    \A c \in Clients : Evicting(c) =>
        /\ client[c].batch # <<>>
        /\ Head(client[c].batch) \in map
        /\ ref[Head(client[c].batch)] = -1
        /\ pos[Head(client[c].batch)] = Unset
        /\ usage = Capacity
        /\ policy = "sieve" => hand # End

Extra == IF \E c \in Clients : Evicting(c) THEN 1 ELSE 0

Lists ==
    /\ IsInjective(small) /\ IsInjective(queue)
    /\ Range(small) \cap Range(queue) = {}
    /\ map = Range(small) \cup Range(queue)
    /\ small_size = Len(small)
    /\ Len(small) + Len(queue) = usage + Extra
    /\ hand \in Range(queue) \cup {End}
    /\ policy # "sieve" => hand = End
    /\ policy # "s3-fifo" => small = <<>>

\* Every entry has a row of its own, but for the one being inserted.
RowOf ==
    /\ \A k \in map : \/ pos[k] \in 0..(usage - 1)
                      \/ pos[k] = Unset /\ \E c \in Clients : Inserting(c, k)
    /\ \A k, l \in map : k # l /\ pos[k] = pos[l] => pos[k] = Unset

\* The number of pointers that reference_count_ stands for.  It wraps around
\* to the least value when StartRead throws.
Uses(r) == IF r < 0 THEN MaxRef + 1 ELSE r

\* reference_count_ is never less than the number of pointers clients hold for
\* reading (it is more when a call threw or ReplaceImpl ignored a read).
Pointers ==
    \A k \in Keys :
        /\ ref[k] \in {-MaxRef - 1, -1} \cup 0..MaxRef
        /\ IsFiniteSet(Held(k))
        /\ Held(k) # {} => k \in map /\ ref[k] # -1 /\ Cardinality(Held(k)) <= Uses(ref[k])

\* An entry to be written has one writer, and its count says so.
Placed ==
    \A c \in Clients :
        /\ IsInjective(client[c].placed)
        /\ \A k \in Range(client[c].placed) :
             /\ k \in map /\ ref[k] = -1
             /\ \A d \in Clients : ~Inserting(d, k)
             /\ \A d \in Clients \ {c} : k \notin Range(client[d].placed)

\* The row of an entry that is not being written holds its feature.
RowData ==
    /\ \A k \in map : ref[k] # -1 => tensor[pos[k]].key = k
    /\ \A c \in Clients : client[c].pc = "wrote" =>
         \A k \in Range(client[c].placed) : tensor[pos[k]].key = k

IInv ==
    /\ Types /\ Locking /\ EvictState /\ Lists /\ RowOf /\ Pointers /\ Placed
    /\ RowData /\ GhostsConsistent

\* At most one client is in Evict.
LEMMA OneEvictor ==
    ASSUME Locking, NEW c \in Clients, NEW d \in Clients, Evicting(c), Evicting(d)
    PROVE  c = d
  BY DEF Locking, Evicting

\* A client that holds a pointer for reading counts in Held.
LEMMA ReadingHeld ==
    ASSUME NEW c \in Clients, NEW k, Reading(c, k)
    PROVE  Held(k) # {}
<1>1. PICK i \in DOMAIN client[c].found : client[c].found[i] = k
  BY DEF Reading, Range
<1>2. <<c, i>> \in Held(k)
  BY <1>1, HeldElements
<1> QED BY <1>2

\* The bounds of TypeOK follow from the length of the lists.
LEMMA ImpliesTypeOK == IInv => TypeOK
<1> SUFFICES ASSUME IInv PROVE TypeOK
  OBVIOUS
<1> USE DEF IInv
<1>1. /\ Len(small) \in Nat /\ Len(queue) \in Nat
      /\ Len(Mapped) = Len(small) + Len(queue)
  BY LenProperties, ConcatProperties DEF Types, Mapped
<1>2. Len(Mapped) <= Capacity + Extra /\ small_size \in 0..(Capacity + 1)
  BY <1>1, CacheAssumption DEF Types, Lists, Extra
<1>3. hand \in Keys \cup {End}
  BY RangeOfSeq DEF Lists, Types
<1> QED BY <1>2, <1>3 DEF TypeOK, Types, ClientState, Extra

\* Two disjoint lists without duplicates are as long as map is large.
LEMMA ImpliesIndexConsistent == IInv => IndexConsistent
<1> SUFFICES ASSUME IInv PROVE IndexConsistent
  OBVIOUS
<1> USE DEF IInv
<1>1. map = Range(Mapped)
  BY RangeConcatenation DEF Lists, Types, Mapped
<1>2. Cardinality(map) = Len(Mapped)
  <2>1. /\ IsFiniteSet(Range(small)) /\ Cardinality(Range(small)) = Len(small)
        /\ IsFiniteSet(Range(queue)) /\ Cardinality(Range(queue)) = Len(queue)
    BY InjectiveCardinality DEF Lists, Types
  <2>2. Cardinality(Range(small) \cup Range(queue)) =
          Cardinality(Range(small)) + Cardinality(Range(queue))
            - Cardinality(Range(small) \cap Range(queue))
    BY <2>1, FS_Union
  <2>3. Cardinality(Range(small) \cap Range(queue)) = 0
    BY FS_EmptySet DEF Lists
  <2>4. Len(Mapped) = Len(small) + Len(queue) /\ Len(small) \in Nat /\ Len(queue) \in Nat
    BY ConcatProperties, LenProperties DEF Types, Mapped
  <2> QED BY <2>1, <2>2, <2>3, <2>4 DEF Lists
<1> QED BY <1>1, <1>2 DEF IndexConsistent, Lists

\* An entry without a row is the one being inserted.
LEMMA ImpliesRowsUnique == IInv => RowsUnique
<1> SUFFICES ASSUME IInv PROVE RowsUnique
  OBVIOUS
<1>1. usage \in Int
  BY DEF IInv, Types
<1>2. ASSUME NEW k \in map, pos[k] = Unset
      PROVE  \E c \in Clients : Evicting(c) /\ Head(client[c].batch) = k
  BY <1>1, <1>2 DEF IInv, RowOf, Unset, Inserting
<1> QED BY <1>2 DEF IInv, RowOf, RowsUnique

\* A pointer for reading keeps the count from 0 and -1, one for writing at -1.
LEMMA ImpliesNoEvictionInUse == IInv => NoEvictionInUse
<1> SUFFICES ASSUME IInv, NEW c \in Clients, NEW k \in Keys
             PROVE  /\ Reading(c, k) \/ Writing(c, k) => k \in map /\ ref[k] # 0
                    /\ Writing(c, k) =>
                         \A d \in Clients \ {c} : ~Reading(d, k) /\ ~Writing(d, k)
  BY DEF NoEvictionInUse
<1>1. ASSUME NEW d \in Clients, Reading(d, k) PROVE k \in map /\ ref[k] # 0 /\ ref[k] # -1
  <2>1. Held(k) # {} /\ IsFiniteSet(Held(k))
    BY <1>1, ReadingHeld DEF IInv, Pointers
  <2>2. Cardinality(Held(k)) \in Nat \ {0}
    BY <2>1, FS_CardinalityType, FS_EmptySet
  <2>3. k \in map /\ ref[k] # -1 /\ Cardinality(Held(k)) <= Uses(ref[k]) /\ ref[k] \in Int
    BY <2>1, CacheAssumption DEF IInv, Pointers
  <2> QED BY <2>2, <2>3, CacheAssumption DEF Uses
<1>2. ASSUME NEW d \in Clients, Writing(d, k) PROVE k \in map /\ ref[k] = -1
  BY <1>2 DEF IInv, Writing, Placed, EvictState
<1>3. ASSUME Writing(c, k), NEW d \in Clients \ {c}, Writing(d, k) PROVE FALSE
  <2>1. CASE k \in Range(client[c].placed)
    BY <1>3, <2>1 DEF IInv, Writing, Placed, Inserting
  <2>2. CASE Inserting(c, k)
    BY <1>3, <2>2, OneEvictor DEF IInv, Writing, Placed, Inserting
  <2> QED BY <1>3, <2>1, <2>2 DEF Writing, Inserting
<1> QED BY <1>1, <1>2, <1>3

\* A reader's entry is not being written, so its row holds its feature.
LEMMA ImpliesReadersSeeTheirRow == IInv => ReadersSeeTheirRow
<1> SUFFICES ASSUME IInv, NEW c \in Clients, NEW k \in Keys, Reading(c, k)
             PROVE  tensor[pos[k]].key = k
  BY DEF ReadersSeeTheirRow
<1>1. k \in map /\ ref[k] # -1
  BY ReadingHeld DEF IInv, Pointers
<1> QED BY <1>1 DEF IInv, RowData

-----------------------------------------------------------------------------
(* Initial states *)

\* The empty cache.
LEMMA InitIInv == Init => IInv
<1> SUFFICES ASSUME Init PROVE IInv
  OBVIOUS
<1> USE DEF Init
<1>1. <<>> \in Seq(Keys) /\ Len(<<>>) = 0 /\ DOMAIN <<>> = {}
  OBVIOUS
<1>2. Range(<<>>) = {} /\ IsInjective(<<>>)
  BY <1>1 DEF Range, IsInjective
<1>3. Types
  BY <1>1, CacheAssumption DEF Types, ClientState, Idle, Rows, Unset
<1>4. \A k : Held(k) = {}
  BY <1>1, HeldElements DEF Idle
<1>5. Locking /\ EvictState /\ ~\E c \in Clients : Evicting(c)
  BY CacheAssumption DEF Locking, EvictState, Evicting, Idle
<1>6. Lists
  BY <1>1, <1>2, <1>5 DEF Lists, Extra
<1>7. RowOf /\ RowData /\ GhostsConsistent
  BY <1>2 DEF RowOf, RowData, GhostsConsistent, Idle
<1>8. Pointers
  <2> SUFFICES ASSUME NEW k \in Keys
               PROVE  ref[k] \in 0..MaxRef /\ IsFiniteSet(Held(k)) /\ Held(k) = {}
    BY DEF Pointers
  <2>1. ref[k] \in 0..MaxRef
    BY CacheAssumption
  <2> QED BY <1>4, <2>1, FS_EmptySet
<1>9. Placed
  BY <1>2 DEF Placed, Idle
<1> QED BY <1>3, <1>5, <1>6, <1>7, <1>8, <1>9 DEF IInv

-----------------------------------------------------------------------------
(* Steps that change no entry *)

\* What an update of one client leaves of the others.
LEMMA SetClient ==
    ASSUME client \in [Clients -> ClientState], NEW c \in Clients, NEW r \in ClientState,
           client' = [client EXCEPT ![c] = r]
    PROVE  /\ client' \in [Clients -> ClientState]
           /\ client'[c] = r
           /\ \A d \in Clients \ {c} : client'[d] = client[d]
  OBVIOUS

\* An idle client holds nothing.
LEMMA IdleState == Idle \in ClientState /\ Idle.pc = "idle" /\ Idle.found = <<>> /\ Idle.placed = <<>>
  BY CacheAssumption DEF Idle, ClientState

\* A step outside Evict that writes no row and neither starts nor ends a write
\* of an entry; its effect on the lists and on the counts is shown apart.
LEMMA EntriesStay ==
    ASSUME IInv, Types', Locking', Lists', Pointers',
           NEW c \in Clients, NEW r \in ClientState,
           client' = [client EXCEPT ![c] = r],
           UNCHANGED <<map, pos, usage, hand, ghosts, tensor, policy>>,
           \A k \in Keys : ref'[k] = -1 <=> ref[k] = -1,
           r.placed \in {client[c].placed, <<>>},
           client[c].pc # "evict" /\ r.pc # "evict",
           r.pc = "wrote" => client[c].pc = "wrote"
    PROVE  IInv'
<1>0. /\ client' \in [Clients -> ClientState]
      /\ client'[c] = r
      /\ \A d \in Clients \ {c} : client'[d] = client[d]
  BY SetClient DEF IInv, Types
<1>1. map \subseteq Keys
  BY DEF IInv, Types
<1>2. \A d \in Clients : Evicting(d)' <=> Evicting(d)
  BY <1>0 DEF Evicting
<1>3. \A d \in Clients : \A k : Inserting(d, k)' <=> Inserting(d, k)
  BY <1>0 DEF Inserting, Evicting
<1>4. EvictState'
  BY <1>0, <1>1 DEF IInv, EvictState, Evicting
<1>5. RowOf'
  BY <1>3 DEF IInv, RowOf
<1>6. \A e \in Clients : client'[e].placed \in {client[e].placed, <<>>}
  BY <1>0
<1>7. Placed'
  <2> SUFFICES ASSUME NEW d \in Clients
               PROVE  /\ IsInjective(client'[d].placed)
                      /\ \A k \in Range(client'[d].placed) :
                           /\ k \in map /\ ref'[k] = -1
                           /\ \A e \in Clients : ~Inserting(e, k)'
                           /\ \A e \in Clients \ {d} : k \notin Range(client'[e].placed)
    BY Zenon DEF Placed
  <2>1. \A e \in Clients : Range(client'[e].placed) \subseteq Range(client[e].placed)
    BY <1>6, EmptyList
  <2>2. IsInjective(client'[d].placed)
    BY <1>6, EmptyList DEF IInv, Placed
  <2>3. \A k \in Range(client[d].placed) :
           /\ k \in map /\ ref[k] = -1
           /\ \A e \in Clients : ~Inserting(e, k)
           /\ \A e \in Clients \ {d} : k \notin Range(client[e].placed)
    BY DEF IInv, Placed
  <2> QED BY <1>1, <1>3, <2>1, <2>2, <2>3
<1>8. RowData'
  BY <1>0, <1>1, EmptyList DEF IInv, RowData
<1>9. GhostsConsistent'
  BY DEF IInv, GhostsConsistent, ghosts
<1> QED BY <1>4, <1>5, <1>7, <1>8, <1>9 DEF IInv

\* Fewer pointers, and the same counts.
LEMMA PointersShrink ==
    ASSUME IInv, UNCHANGED <<map, ref>>,
           \A d \in Clients : client'[d].found \in {client[d].found, <<>>}
    PROVE  Pointers'
<1> SUFFICES ASSUME NEW k \in Keys
             PROVE  /\ ref[k] \in {-MaxRef - 1, -1} \cup 0..MaxRef
                    /\ IsFiniteSet(Held(k)')
                    /\ Held(k)' # {} => k \in map /\ ref[k] # -1
                                         /\ Cardinality(Held(k)') <= Uses(ref[k])
  BY DEF Pointers, Uses
<1>1. Held(k)' \subseteq Held(k)
  BY HeldShrinks
<1>2. IsFiniteSet(Held(k)) /\ Cardinality(Held(k)) \in Nat
  BY FS_CardinalityType DEF IInv, Pointers
<1>3. /\ IsFiniteSet(Held(k)') /\ Cardinality(Held(k)') <= Cardinality(Held(k))
      /\ Cardinality(Held(k)') \in Nat
  BY <1>1, <1>2, FS_Subset, FS_CardinalityType
<1>4. Uses(ref[k]) \in Int
  BY CacheAssumption DEF IInv, Types, Uses
<1> QED BY <1>1, <1>2, <1>3, <1>4 DEF IInv, Pointers

\* A client moves on: it takes no pointer, and does not enter or leave Evict.
LEMMA ClientOnly ==
    ASSUME IInv, NEW c \in Clients, NEW r \in ClientState,
           client' = [client EXCEPT ![c] = r],
           source' \in [Keys -> 0..MaxVersion],
           UNCHANGED <<lists, entries, ghosts, tensor, policy>>,
           r.found \in {client[c].found, <<>>},
           r.placed \in {client[c].placed, <<>>},
           client[c].pc # "evict" /\ r.pc # "evict",
           r.pc = "wrote" => client[c].pc = "wrote",
           \/ mtx' = mtx /\ (client[c].pc = "keys" <=> r.pc = "keys")
           \/ mtx' = NoClient /\ client[c].pc = "keys" /\ r.pc # "keys"
           \/ mtx = NoClient /\ mtx' = c /\ r.pc = "keys"
    PROVE  IInv'
<1>0. /\ client' \in [Clients -> ClientState]
      /\ client'[c] = r
      /\ \A d \in Clients \ {c} : client'[d] = client[d]
  BY SetClient DEF IInv, Types
<1>1. UNCHANGED <<map, small, small_size, queue, hand, freq, ref, pos, usage, ghosts,
                  ghost_queue, ghost_set, tensor, policy>>
  BY DEF lists, entries, ghosts
<1>2. \A d \in Clients : Evicting(d)' <=> Evicting(d)
  BY <1>0 DEF Evicting
<1>3. Types'
  BY <1>0, <1>1 DEF IInv, Types
<1>4. Locking'
  BY <1>0, CacheAssumption DEF IInv, Locking
<1>5. Lists'
  BY <1>1, <1>2 DEF IInv, Lists, Extra
<1>6. Pointers'
  BY <1>0, <1>1, PointersShrink
<1> QED BY <1>1, <1>3, <1>4, <1>5, <1>6, EntriesStay

\* A batch is a list of keys.
LEMMA BatchIsSeq == \A batch \in Batch : batch \in Seq(Keys)
  BY CacheAssumption DEF Batch

\* Query, QueryAndReplace or Replace is called.
LEMMA CallStep ==
    ASSUME IInv, NEW c \in Clients, NEW call \in Calls, NEW batch \in Batch,
           Call(c, call, batch)
    PROVE  IInv'
<1> DEFINE r == [client[c] EXCEPT !.pc = "lock", !.call = call, !.batch = batch,
                                  !.val = IF call = "replace" THEN source ELSE client[c].val]
<1>1. client[c] \in ClientState /\ source \in [Keys -> 0..MaxVersion]
  BY DEF IInv, Types
<1>2. call \in {"query", "query_and_replace", "replace"} /\ batch \in Seq(Keys)
  BY BatchIsSeq, CacheAssumption DEF Call
<1>3. /\ r \in ClientState /\ r.pc = "lock"
      /\ r.found = client[c].found /\ r.placed = client[c].placed
  BY <1>1, <1>2 DEF ClientState
<1>4. /\ client' = [client EXCEPT ![c] = r] /\ client[c].pc = "idle" /\ mtx' = mtx
      /\ UNCHANGED <<lists, entries, ghosts, tensor, policy, source>>
  BY DEF Call, data
<1> HIDE DEF r
<1> QED BY <1>1, <1>3, <1>4, ClientOnly

\* CPUCachedFeature.update is called.
LEMMA UpdateStep ==
    ASSUME IInv, NEW c \in Clients, NEW batch \in Batch, Update(c, batch)
    PROVE  IInv'
<1> DEFINE r == [client[c] EXCEPT !.pc = "lock", !.call = "replace", !.batch = batch,
                                  !.val = source']
<1>1. client[c] \in ClientState /\ batch \in Seq(Keys)
  BY BatchIsSeq DEF IInv, Types
<1>2. source' \in [Keys -> 0..MaxVersion]
  <2> SUFFICES ASSUME NEW k \in Keys, k \in Range(batch)
               PROVE  source[k] + 1 \in 0..MaxVersion
    BY DEF IInv, Types, Update
  <2>1. source[k] < MaxVersion
    BY DEF Update, Range
  <2> QED BY <2>1, CacheAssumption DEF IInv, Types
<1>3. /\ r \in ClientState /\ r.pc = "lock"
      /\ r.found = client[c].found /\ r.placed = client[c].placed
  BY <1>1, <1>2 DEF ClientState
<1>4. /\ client' = [client EXCEPT ![c] = r] /\ client[c].pc = "idle" /\ mtx' = mtx
      /\ UNCHANGED <<lists, entries, ghosts, tensor, policy>>
  BY DEF Update
<1> HIDE DEF r
<1> QED BY <1>2, <1>3, <1>4, ClientOnly

\* mtx_ is taken or released.
LEMMA LockStep ==
    ASSUME IInv, NEW c \in Clients, Lock(c) \/ Unlock(c)
    PROVE  IInv'
<1>1. client[c] \in ClientState /\ source \in [Keys -> 0..MaxVersion]
  BY DEF IInv, Types
<1>2. CASE Lock(c)
  <2> DEFINE r == [client[c] EXCEPT !.pc = "keys"]
  <2>1. /\ r \in ClientState /\ r.pc = "keys"
        /\ r.found = client[c].found /\ r.placed = client[c].placed
    BY <1>1 DEF ClientState
  <2>2. /\ client' = [client EXCEPT ![c] = r] /\ client[c].pc = "lock"
        /\ mtx = NoClient /\ mtx' = c
        /\ UNCHANGED <<lists, entries, ghosts, tensor, policy, source>>
    BY <1>2 DEF Lock, data
  <2> HIDE DEF r
  <2> QED BY <1>1, <2>1, <2>2, ClientOnly
<1>3. CASE Unlock(c)
  <2> DEFINE r == [client[c] EXCEPT !.pc = "read"]
  <2>1. /\ r \in ClientState /\ r.pc = "read"
        /\ r.found = client[c].found /\ r.placed = client[c].placed
    BY <1>1 DEF ClientState
  <2>2. /\ client' = [client EXCEPT ![c] = r] /\ client[c].pc = "keys" /\ mtx' = NoClient
        /\ UNCHANGED <<lists, entries, ghosts, tensor, policy, source>>
    BY <1>3 DEF Unlock, data
  <2> HIDE DEF r
  <2> QED BY <1>1, <2>1, <2>2, ClientOnly
<1> QED BY <1>2, <1>3

\* The missing features are fetched, or the call returns.
LEMMA FetchStep ==
    ASSUME IInv, NEW c \in Clients, Fetch(c) \/ Return(c)
    PROVE  IInv'
<1>1. client[c] \in ClientState /\ source \in [Keys -> 0..MaxVersion]
  BY DEF IInv, Types
<1>2. CASE Fetch(c)
  <2> DEFINE r == [client[c] EXCEPT !.pc = "write",
                     !.val = IF client[c].call = "query_and_replace"
                             THEN source ELSE client[c].val]
  <2>1. /\ r \in ClientState /\ r.pc = "write"
        /\ r.found = client[c].found /\ r.placed = client[c].placed
    BY <1>1 DEF ClientState
  <2>2. /\ client' = [client EXCEPT ![c] = r] /\ client[c].pc = "read" /\ mtx' = mtx
        /\ UNCHANGED <<lists, entries, ghosts, tensor, policy, source>>
    BY <1>2 DEF Fetch, data
  <2> HIDE DEF r
  <2> QED BY <1>1, <2>1, <2>2, ClientOnly
<1>3. CASE Return(c)
  <2>1. /\ client' = [client EXCEPT ![c] = Idle] /\ client[c].pc = "wrote" /\ mtx' = mtx
        /\ UNCHANGED <<lists, entries, ghosts, tensor, policy, source>>
    BY <1>3 DEF Return, data
  <2> QED BY <1>1, <2>1, IdleState, ClientOnly
<1> QED BY <1>2, <1>3

\* What the end of one round of the loop over the keys does to its client.
LEMMA NextKeyClient ==
    ASSUME IInv, NEW c \in Clients, client[c].batch # <<>>,
           NEW field \in {"found", "placed", "none"}, NextKey(c, field)
    PROVE  \E r \in ClientState :
             /\ client' = [client EXCEPT ![c] = r]
             /\ r.pc = "keys"
             /\ r.found = IF field = "found" THEN Append(client[c].found, Head(client[c].batch))
                                             ELSE client[c].found
             /\ r.placed = IF field = "placed" THEN Append(client[c].placed, Head(client[c].batch))
                                               ELSE client[c].placed
<1> DEFINE me == client[c]
           Took(f, list) == IF field = f THEN Append(list, Head(me.batch)) ELSE list
           r == [me EXCEPT !.pc = "keys", !.batch = Tail(me.batch),
                           !.found = Took("found", me.found),
                           !.placed = Took("placed", me.placed)]
<1>1. client[c] \in ClientState
  BY DEF IInv, Types
<1>2. /\ client[c].batch \in Seq(Keys) /\ client[c].found \in Seq(Keys)
      /\ client[c].placed \in Seq(Keys)
  BY <1>1 DEF ClientState
<1>3. Tail(client[c].batch) \in Seq(Keys) /\ Head(client[c].batch) \in Keys
  BY <1>2, HeadTailProperties
<1>4. /\ Append(client[c].found, Head(client[c].batch)) \in Seq(Keys)
      /\ Append(client[c].placed, Head(client[c].batch)) \in Seq(Keys)
  BY <1>2, <1>3, AppendProperties
<1>5. /\ r \in ClientState
      /\ r.pc = "keys"
      /\ r.found = IF field = "found" THEN Append(client[c].found, Head(client[c].batch))
                                      ELSE client[c].found
      /\ r.placed = IF field = "placed" THEN Append(client[c].placed, Head(client[c].batch))
                                        ELSE client[c].placed
  BY <1>1, <1>2, <1>3, <1>4 DEF ClientState
<1>6. client' = [client EXCEPT ![c] = r]
  BY DEF NextKey
<1> HIDE DEF r
<1> QED BY <1>5, <1>6

\* Query of a key that is not cached.
LEMMA MissStep ==
    ASSUME IInv, NEW c \in Clients, NEW k \in Keys, Miss(c, k)
    PROVE  IInv'
<1>1. /\ client[c].batch # <<>> /\ client[c].pc = "keys" /\ NextKey(c, "none") /\ mtx' = mtx
      /\ UNCHANGED <<lists, entries, ghosts, tensor, policy, source>>
  BY DEF Miss, AtKey, data
<1>2. PICK r \in ClientState :
         /\ client' = [client EXCEPT ![c] = r] /\ r.pc = "keys"
         /\ r.found = client[c].found /\ r.placed = client[c].placed
  BY <1>1, NextKeyClient
<1>3. source \in [Keys -> 0..MaxVersion]
  BY DEF IInv, Types
<1> QED BY <1>1, <1>2, <1>3, ClientOnly

-----------------------------------------------------------------------------
(* Steps that use an entry *)

\* While a client is at its keys, nobody is in Evict.
LEMMA NobodyEvicts ==
    ASSUME IInv, NEW c \in Clients, client[c].pc = "keys", NEW d \in Clients
    PROVE  ~Evicting(d)
  BY DEF IInv, Locking, Evicting

\* A hit reorders queue at most.
LEMMA HitLists ==
    ASSUME IInv, NEW k \in Keys, Hit(k), \A d \in Clients : Evicting(d)' <=> Evicting(d)
    PROVE  /\ queue' \in Seq(Keys) /\ freq' \in [Keys -> 0..3]
           /\ UNCHANGED <<map, small, small_size, hand, pos, usage, ghosts, ghost_queue,
                          ghost_set, tensor, source, policy>>
           /\ Lists'
<1>1. UNCHANGED <<map, small, small_size, hand, pos, usage, ghosts, ghost_queue,
                  ghost_set, tensor, source, policy>>
  BY DEF Hit, ghosts, data
<1>2. freq' \in [Keys -> 0..3]
  <2>1. Touched(k) \in 0..3
    BY DEF IInv, Types, Touched
  <2> HIDE DEF Touched
  <2> QED BY <2>1 DEF IInv, Types, Hit
<1>3. Extra' = Extra
  BY DEF Extra
<1>4. /\ queue' \in Seq(Keys) /\ IsInjective(queue') /\ Range(queue') = Range(queue)
      /\ Len(queue') = Len(queue)
  <2>1. CASE policy # "lru"
    BY <2>1 DEF IInv, Types, Lists, Hit
  <2>2. CASE policy = "lru"
    <3>1. k \in Range(queue)
      BY <2>2, EmptyList DEF IInv, Lists, Hit
    <3>2. queue' = ToFront(k, queue)
      BY <2>2 DEF Hit
    <3> QED BY <3>1, <3>2, MoveToFront DEF IInv, Types, Lists
  <2> QED BY <2>1, <2>2
<1>5. Lists'
  BY <1>1, <1>3, <1>4 DEF IInv, Lists
<1> QED BY <1>1, <1>2, <1>4, <1>5

\* A hit outside a write: the counts of the other entries stay.
LEMMA HitStep ==
    ASSUME IInv, NEW c \in Clients, NEW k \in Keys, AtKey(c, k), Hit(k),
           NEW r \in ClientState, client' = [client EXCEPT ![c] = r],
           r.placed \in {client[c].placed, <<>>},
           \/ r.pc = "keys" /\ mtx' = mtx
           \/ r.pc = "idle" /\ mtx' = NoClient,
           ref' \in [Keys -> (-MaxRef - 1)..MaxRef],
           \A j \in Keys : ref'[j] = -1 <=> ref[j] = -1,
           Pointers'
    PROVE  IInv'
<1>0. /\ client' \in [Clients -> ClientState]
      /\ client'[c] = r
      /\ \A d \in Clients \ {c} : client'[d] = client[d]
  BY SetClient DEF IInv, Types
<1>1. client[c].pc = "keys"
  BY DEF AtKey
<1>2. \A d \in Clients : Evicting(d)' <=> Evicting(d)
  BY <1>0, <1>1 DEF Evicting
<1>3. /\ queue' \in Seq(Keys) /\ freq' \in [Keys -> 0..3]
      /\ UNCHANGED <<map, small, small_size, hand, pos, usage, ghosts, ghost_queue,
                     ghost_set, tensor, source, policy>>
      /\ Lists'
  BY <1>2, HitLists
<1>4. Types'
  BY <1>0, <1>3 DEF IInv, Types
<1>5. Locking'
  BY <1>0, <1>1, CacheAssumption DEF IInv, Locking
<1> QED BY <1>1, <1>3, <1>4, <1>5, EntriesStay

\* One pointer more, and one more in the count.
LEMMA StartReadStep ==
    ASSUME IInv, NEW c \in Clients, NEW k \in Keys, StartRead(c, k)
    PROVE  IInv'
<1> DEFINE field == IF client[c].call = "replace" THEN "none" ELSE "found"
<1>1. /\ AtKey(c, k) /\ Hit(k) /\ mtx' = mtx /\ ref' = [ref EXCEPT ![k] = ref[k] + 1]
      /\ client[c].batch # <<>> /\ Head(client[c].batch) = k /\ NextKey(c, field)
      /\ k \in map /\ map' = map
  BY DEF StartRead, AtKey, Hit
<1>2. ref[k] \in 0..(MaxRef - 1) /\ ref \in [Keys -> (-MaxRef - 1)..MaxRef] /\ MaxRef \in Nat
  BY CacheAssumption DEF StartRead, BeingWritten, IInv, Types
<1>3. /\ ref' \in [Keys -> (-MaxRef - 1)..MaxRef] /\ ref'[k] = ref[k] + 1
      /\ \A j \in Keys : j # k => ref'[j] = ref[j]
      /\ \A j \in Keys : ref'[j] = -1 <=> ref[j] = -1
  BY <1>1, <1>2
<1>4. PICK r \in ClientState :
         /\ client' = [client EXCEPT ![c] = r] /\ r.pc = "keys"
         /\ r.found \in {client[c].found, Append(client[c].found, k)}
         /\ r.placed = client[c].placed
  BY <1>1, NextKeyClient
<1>5. /\ client'[c] = r /\ \A d \in Clients \ {c} : client'[d] = client[d]
      /\ client[c].found \in Seq(Keys)
  BY <1>4, SetClient DEF IInv, Types, ClientState
<1>6. Pointers'
  <2> SUFFICES ASSUME NEW j \in Keys
               PROVE  /\ ref'[j] \in {-MaxRef - 1, -1} \cup 0..MaxRef
                      /\ IsFiniteSet(Held(j)')
                      /\ Held(j)' # {} => j \in map /\ ref'[j] # -1
                                           /\ Cardinality(Held(j)') <= Uses(ref'[j])
    BY <1>1 DEF Pointers, Uses
  <2>1. IsFiniteSet(Held(j)) /\ Cardinality(Held(j)) \in Nat
    BY FS_CardinalityType DEF IInv, Pointers
  <2>2. Held(j)' \subseteq
          IF j = k THEN Held(j) \cup {<<c, Len(client[c].found) + 1>>} ELSE Held(j)
    <3>1. CASE r.found = client[c].found
      BY <1>5, <3>1, HeldShrinks
    <3>2. CASE r.found = Append(client[c].found, k)
      BY <1>5, <3>2, HeldGrows
    <3> QED BY <1>4, <3>1, <3>2
  <2>3. CASE j # k
    <3>1. /\ IsFiniteSet(Held(j)') /\ Cardinality(Held(j)') <= Cardinality(Held(j))
          /\ Cardinality(Held(j)') \in Nat
      BY <2>1, <2>2, <2>3, FS_Subset, FS_CardinalityType
    <3>2. ref'[j] = ref[j] /\ Uses(ref[j]) \in Int
      BY <1>2, <1>3, <2>3, CacheAssumption DEF Uses
    <3> QED BY <2>1, <2>2, <2>3, <3>1, <3>2 DEF IInv, Pointers
  <2>4. CASE j = k
    <3> DEFINE new == <<c, Len(client[c].found) + 1>>
               More == Held(j) \cup {new}
    <3>1. /\ IsFiniteSet(More) /\ Cardinality(More) <= Cardinality(Held(j)) + 1
          /\ Cardinality(More) \in Nat
      <4> HIDE DEF new
      <4>1. /\ IsFiniteSet(More)
            /\ Cardinality(More) = IF new \in Held(j) THEN Cardinality(Held(j))
                                                      ELSE Cardinality(Held(j)) + 1
        BY <2>1, FS_AddElement
      <4> HIDE DEF More
      <4> QED BY <2>1, <4>1, FS_CardinalityType
    <3>2. Held(j)' \subseteq More
      BY <2>2, <2>4
    <3> HIDE DEF More
    <3>3. /\ IsFiniteSet(Held(j)') /\ Cardinality(Held(j)') <= Cardinality(More)
          /\ Cardinality(Held(j)') \in Nat
      BY <3>1, <3>2, FS_Subset, FS_CardinalityType
    <3>4. Cardinality(Held(j)) <= ref[j]
      <4>1. CASE Held(j) = {}
        BY <1>2, <2>4, <4>1, FS_EmptySet
      <4>2. CASE Held(j) # {}
        BY <1>2, <2>4, <4>2 DEF IInv, Pointers, Uses
      <4> QED BY <4>1, <4>2
    <3>5. Uses(ref'[j]) = ref[j] + 1 /\ ref'[j] \in 0..MaxRef
      BY <1>2, <1>3, <2>4 DEF Uses
    <3>6. Cardinality(Held(j)') <= ref[j] + 1
      BY <1>2, <2>1, <2>4, <3>1, <3>3, <3>4
    <3> QED BY <1>1, <1>2, <2>4, <3>3, <3>5, <3>6
  <2> QED BY <2>3, <2>4
<1> QED BY <1>1, <1>3, <1>4, <1>6, HitStep

\* The count wraps around and the client loses its pointers.
LEMMA StartReadThrowsStep ==
    ASSUME IInv, NEW c \in Clients, NEW k \in Keys, StartReadThrows(c, k)
    PROVE  IInv'
<1>1. /\ AtKey(c, k) /\ Hit(k) /\ mtx' = NoClient
      /\ ref' = [ref EXCEPT ![k] = Wrap(ref[k] + 1)]
      /\ client' = [client EXCEPT ![c] = Idle] /\ k \in map /\ map' = map
  BY DEF StartReadThrows, Hit
<1>2. /\ ref[k] = MaxRef /\ ref \in [Keys -> (-MaxRef - 1)..MaxRef]
      /\ MaxRef \in Nat \ {0} /\ Wrap(MaxRef + 1) = -MaxRef - 1
  BY WrapValue, CacheAssumption DEF StartReadThrows, IInv, Types
<1>3. /\ ref' \in [Keys -> (-MaxRef - 1)..MaxRef] /\ ref'[k] = -MaxRef - 1
      /\ \A j \in Keys : j # k => ref'[j] = ref[j]
      /\ \A j \in Keys : ref'[j] = -1 <=> ref[j] = -1
  BY <1>1, <1>2
<1>4. client'[c] = Idle /\ \A d \in Clients \ {c} : client'[d] = client[d]
  BY <1>1, IdleState, SetClient DEF IInv, Types
<1>5. Pointers'
  <2> SUFFICES ASSUME NEW j \in Keys
               PROVE  /\ ref'[j] \in {-MaxRef - 1, -1} \cup 0..MaxRef
                      /\ IsFiniteSet(Held(j)')
                      /\ Held(j)' # {} => j \in map /\ ref'[j] # -1
                                           /\ Cardinality(Held(j)') <= Uses(ref'[j])
    BY <1>1 DEF Pointers, Uses
  <2>1. IsFiniteSet(Held(j)) /\ Cardinality(Held(j)) \in Nat
    BY FS_CardinalityType DEF IInv, Pointers
  <2>2. Held(j)' \subseteq Held(j)
    BY <1>4, IdleState, HeldShrinks
  <2>3. /\ IsFiniteSet(Held(j)') /\ Cardinality(Held(j)') <= Cardinality(Held(j))
        /\ Cardinality(Held(j)') \in Nat
    BY <2>1, <2>2, FS_Subset, FS_CardinalityType
  <2>4. Uses(ref[j]) <= Uses(ref'[j]) /\ Uses(ref[j]) \in Int /\ Uses(ref'[j]) \in Int
    BY <1>2, <1>3 DEF Uses
  <2>5. ref'[j] \in {-MaxRef - 1, -1} \cup 0..MaxRef
    BY <1>3 DEF IInv, Pointers
  <2>6. Held(j) # {} => j \in map /\ ref[j] # -1 /\ Cardinality(Held(j)) <= Uses(ref[j])
    BY DEF IInv, Pointers
  <2> QED BY <1>3, <2>1, <2>2, <2>3, <2>4, <2>5, <2>6
<1> QED BY <1>1, <1>3, <1>5, IdleState, HitStep

\* A miss on an entry that is being written.
LEMMA MissBeingWrittenStep ==
    ASSUME IInv, NEW c \in Clients, NEW k \in Keys, MissBeingWritten(c, k)
    PROVE  IInv'
<1>1. /\ AtKey(c, k) /\ Hit(k) /\ mtx' = mtx /\ ref' = ref /\ map' = map
      /\ client[c].batch # <<>> /\ NextKey(c, "none")
  BY DEF MissBeingWritten, AtKey, Hit
<1>2. PICK r \in ClientState :
         /\ client' = [client EXCEPT ![c] = r] /\ r.pc = "keys"
         /\ r.found = client[c].found /\ r.placed = client[c].placed
  BY <1>1, NextKeyClient
<1>3. client'[c] = r /\ \A d \in Clients \ {c} : client'[d] = client[d]
  BY <1>2, SetClient DEF IInv, Types
<1>4. Pointers'
  BY <1>1, <1>2, <1>3, PointersShrink
<1>5. ref \in [Keys -> (-MaxRef - 1)..MaxRef]
  BY DEF IInv, Types
<1> QED BY <1>1, <1>2, <1>4, <1>5, HitStep

\* EndUse of a reader: the count and the pointers go down together.
LEMMA EndReadStep ==
    ASSUME IInv, NEW c \in Clients, EndRead(c)
    PROVE  IInv'
<1> DEFINE f == client[c].found
           k == Head(f)
           r == [client[c] EXCEPT !.found = Tail(f)]
<1>1. /\ client[c].pc = "read" /\ f # <<>> /\ mtx' = mtx
      /\ ref' = [ref EXCEPT ![k] = Wrap(ref[k] - 1)]
      /\ client' = [client EXCEPT ![c] = r]
      /\ UNCHANGED <<map, small, small_size, queue, hand, freq, pos, usage, ghosts,
                     ghost_queue, ghost_set, tensor, source, policy>>
  BY DEF EndRead, EndUse, lists, ghosts, data
<1>2. client[c] \in ClientState /\ f \in Seq(Keys)
  BY DEF IInv, Types, ClientState
<1>3. k \in Keys /\ Tail(f) \in Seq(Keys)
  BY <1>1, <1>2, HeadTailProperties
<1>4. /\ r \in ClientState /\ r.pc = client[c].pc
      /\ r.found = Tail(f) /\ r.placed = client[c].placed
  BY <1>2, <1>3 DEF ClientState
<1> HIDE DEF r
<1>5. /\ client' \in [Clients -> ClientState]
      /\ client'[c] = r /\ \A d \in Clients \ {c} : client'[d] = client[d]
  BY <1>1, <1>4, SetClient DEF IInv, Types
<1>6. /\ ref \in [Keys -> (-MaxRef - 1)..MaxRef] /\ MaxRef \in Nat \ {0}
      /\ ref[k] \in {-MaxRef - 1} \cup 1..MaxRef
  <2>1. ref \in [Keys -> (-MaxRef - 1)..MaxRef] /\ MaxRef \in Nat \ {0}
    BY CacheAssumption DEF IInv, Types
  <2>2. Reading(c, k)
    <3>1. 1 \in DOMAIN f /\ f[1] = k
      BY <1>1, <1>2, EmptySeq, LenProperties
    <3> HIDE DEF k
    <3> QED BY <3>1 DEF Reading, Range
  <2> HIDE DEF k
  <2>3. ref[k] # 0 /\ ref[k] # -1
    BY <1>3, <2>2, ReadingHeld, ImpliesNoEvictionInUse DEF NoEvictionInUse, IInv, Pointers
  <2>4. ref[k] \in {-MaxRef - 1, -1} \cup 0..MaxRef
    BY <1>3 DEF IInv, Pointers
  <2> QED BY <2>1, <2>3, <2>4
<1> HIDE DEF k
<1>7. /\ Wrap(ref[k] - 1) \in 0..MaxRef
      /\ Wrap(ref[k] - 1) = Uses(ref[k]) - 1
  <2>1. CASE ref[k] = -MaxRef - 1
    <3>1. ref[k] - 1 = -MaxRef - 2
      BY <1>6, <2>1
    <3>2. Wrap(ref[k] - 1) = MaxRef
      BY <3>1, WrapValue
    <3> QED BY <1>6, <2>1, <3>2 DEF Uses
  <2>2. CASE ref[k] \in 1..MaxRef
    <3>1. ref[k] - 1 \in (-MaxRef - 1)..MaxRef
      BY <1>6, <2>2
    <3>2. Wrap(ref[k] - 1) = ref[k] - 1
      BY <3>1, WrapValue
    <3> QED BY <1>6, <2>2, <3>2 DEF Uses
  <2> QED BY <1>6, <2>1, <2>2
<1>8. /\ ref' \in [Keys -> (-MaxRef - 1)..MaxRef]
      /\ ref'[k] = Uses(ref[k]) - 1 /\ ref'[k] \in 0..MaxRef
      /\ \A j \in Keys : j # k => ref'[j] = ref[j]
      /\ \A j \in Keys : ref'[j] = -1 <=> ref[j] = -1
  BY <1>1, <1>3, <1>6, <1>7
<1>9. Pointers'
  <2> SUFFICES ASSUME NEW j \in Keys
               PROVE  /\ ref'[j] \in {-MaxRef - 1, -1} \cup 0..MaxRef
                      /\ IsFiniteSet(Held(j)')
                      /\ Held(j)' # {} => j \in map /\ ref'[j] # -1
                                           /\ Cardinality(Held(j)') <= Uses(ref'[j])
    BY <1>1 DEF Pointers, Uses
  <2>1. IsFiniteSet(Held(j)) /\ Cardinality(Held(j)) \in Nat
    BY FS_CardinalityType DEF IInv, Pointers
  <2>2. /\ IsFiniteSet(Held(j)')
        /\ Cardinality(Held(j)') <= Cardinality(Held(j))
        /\ j = k => Cardinality(Held(j)') <= Cardinality(Held(j)) - 1
        /\ Held(j)' # {} => Held(j) # {}
    BY <1>1, <1>2, <1>4, <1>5, <2>1, HeldDrops DEF k
  <2>3. Cardinality(Held(j)') \in Nat
    BY <2>2, FS_CardinalityType
  <2>4. Held(j) # {} => j \in map /\ ref[j] # -1 /\ Cardinality(Held(j)) <= Uses(ref[j])
    BY DEF IInv, Pointers
  <2>5. CASE j # k
    <3>1. ref'[j] = ref[j] /\ Uses(ref[j]) \in Int
      BY <1>6, <1>8, <2>5, CacheAssumption DEF Uses
    <3> QED BY <2>1, <2>2, <2>3, <2>4, <2>5, <3>1 DEF IInv, Pointers
  <2>6. CASE j = k
    <3>1. Uses(ref'[k]) = Uses(ref[k]) - 1 /\ Uses(ref[k]) \in Int
      BY <1>6, <1>8 DEF Uses
    <3> QED BY <1>8, <2>1, <2>2, <2>3, <2>4, <2>6, <3>1
  <2> QED BY <2>5, <2>6
<1>10. \A d \in Clients : Evicting(d)' <=> Evicting(d)
  BY <1>4, <1>5 DEF Evicting
<1>11. Types'
  BY <1>1, <1>5, <1>8 DEF IInv, Types
<1>12. Locking'
  BY <1>1, <1>4, <1>5 DEF IInv, Locking
<1>13. Lists'
  BY <1>1, <1>10 DEF IInv, Lists, Extra
<1> QED BY <1>1, <1>4, <1>8, <1>9, <1>11, <1>12, <1>13, EntriesStay

\* The pointers do not change, and only counts of entries nobody reads do.
LEMMA PointersStay ==
    ASSUME IInv, \A d \in Clients : client'[d].found = client[d].found,
           \A k \in Keys : Held(k) # {} => k \in map' /\ ref'[k] = ref[k],
           \A k \in Keys : ref'[k] \in {-MaxRef - 1, -1} \cup 0..MaxRef
    PROVE  Pointers'
<1> SUFFICES ASSUME NEW k \in Keys
             PROVE  /\ IsFiniteSet(Held(k)')
                    /\ Held(k)' # {} => k \in map' /\ ref'[k] # -1
                                         /\ Cardinality(Held(k)') <= Uses(ref'[k])
  BY DEF Pointers, Uses
<1>1. Held(k)' = Held(k)
  <2>1. \A x : x \in Held(k)' <=> x \in Held(k)
    BY HeldElements
  <2> QED BY <2>1
<1> QED BY <1>1 DEF IInv, Pointers

\* EndUse of a writer: its row is written, the entry can be read.
LEMMA EndWriteStep ==
    ASSUME IInv, NEW c \in Clients, EndWrite(c)
    PROVE  IInv'
<1> DEFINE f == client[c].placed
           k == Head(f)
           r == [client[c] EXCEPT !.placed = Tail(f)]
<1>1. /\ client[c].pc = "wrote" /\ f # <<>> /\ mtx' = mtx
      /\ ref' = [ref EXCEPT ![k] = Wrap(ref[k] + 1)]
      /\ client' = [client EXCEPT ![c] = r]
      /\ UNCHANGED <<map, small, small_size, queue, hand, freq, pos, usage, ghosts,
                     ghost_queue, ghost_set, tensor, source, policy>>
  BY DEF EndWrite, EndUse, lists, ghosts, data
<1>2. client[c] \in ClientState /\ f \in Seq(Keys)
  BY DEF IInv, Types, ClientState
<1>3. k \in Keys /\ Tail(f) \in Seq(Keys)
  BY <1>1, <1>2, HeadTailProperties
<1>4. /\ r \in ClientState /\ r.pc = client[c].pc /\ r.batch = client[c].batch
      /\ r.placed = Tail(f) /\ r.found = client[c].found
  BY <1>2, <1>3 DEF ClientState
<1> HIDE DEF r
<1>5. /\ client' \in [Clients -> ClientState]
      /\ client'[c] = r /\ \A d \in Clients \ {c} : client'[d] = client[d]
  BY <1>1, <1>4, SetClient DEF IInv, Types
<1>6. k \in Range(f) /\ Range(Tail(f)) = Range(f) \ {k} /\ IsInjective(Tail(f))
  <2>1. /\ Len(f) \in Nat \ {0} /\ DOMAIN f = 1..Len(f)
        /\ DOMAIN Tail(f) = 1..(Len(f) - 1)
        /\ \A i \in 1..(Len(f) - 1) : Tail(f)[i] = f[i + 1]
        /\ k = f[1]
    BY <1>1, <1>2, HeadTailProperties, LenProperties, EmptySeq
  <2>2. IsInjective(f)
    BY DEF IInv, Placed
  <2> HIDE DEF f, k
  <2>3. k \in Range(f)
    BY <2>1 DEF Range
  <2>4. IsInjective(Tail(f))
    BY <2>1, <2>2 DEF IsInjective
  <2>5. ASSUME NEW i \in 1..(Len(f) - 1) PROVE Tail(f)[i] \in Range(f) \ {k}
    BY <2>1, <2>2 DEF IsInjective, Range
  <2>6. ASSUME NEW i \in 1..Len(f), f[i] # k PROVE f[i] \in Range(Tail(f))
    <3>1. i - 1 \in 1..(Len(f) - 1) /\ (i - 1) + 1 = i
      BY <2>1, <2>6
    <3>2. Tail(f)[i - 1] = f[i]
      BY <2>1, <3>1
    <3> QED BY <2>1, <3>1, <3>2 DEF Range
  <2>7. Range(Tail(f)) \subseteq Range(f) \ {k}
    BY <2>1, <2>5 DEF Range
  <2>8. Range(f) \ {k} \subseteq Range(Tail(f))
    BY <2>1, <2>6 DEF Range
  <2> QED BY <2>3, <2>4, <2>7, <2>8
<1>7. /\ k \in map /\ ref[k] = -1 /\ \A d \in Clients : ~Inserting(d, k)
      /\ \A d \in Clients \ {c} : k \notin Range(client[d].placed)
  BY <1>6 DEF IInv, Placed
<1> HIDE DEF f, k
<1>8. /\ ref' \in [Keys -> (-MaxRef - 1)..MaxRef] /\ ref'[k] = 0
      /\ \A j \in Keys : j # k => ref'[j] = ref[j]
  <2>1. MaxRef \in Nat \ {0} /\ ref \in [Keys -> (-MaxRef - 1)..MaxRef]
    BY CacheAssumption DEF IInv, Types
  <2>2. Wrap(ref[k] + 1) = 0
    BY <1>7, <2>1, WrapValue
  <2> QED BY <1>1, <1>3, <2>1, <2>2
<1>9. /\ \A d \in Clients : Evicting(d)' <=> Evicting(d)
      /\ \A d \in Clients : \A j : Inserting(d, j)' <=> Inserting(d, j)
  BY <1>4, <1>5 DEF Evicting, Inserting
<1>10. Types'
  BY <1>1, <1>5, <1>8 DEF IInv, Types
<1>11. Locking'
  BY <1>1, <1>4, <1>5 DEF IInv, Locking
<1>12. EvictState'
  <2> SUFFICES ASSUME NEW d \in Clients, Evicting(d)
               PROVE  Head(client[d].batch) \in Keys /\ Head(client[d].batch) # k
    BY <1>1, <1>4, <1>5, <1>8, <1>9 DEF IInv, EvictState
  <2> QED BY <1>7 DEF IInv, EvictState, Inserting, Types
<1>13. Lists'
  BY <1>1, <1>9 DEF IInv, Lists, Extra
<1>14. RowOf'
  BY <1>1, <1>9 DEF IInv, RowOf
<1>15. Pointers'
  <2>1. \A d \in Clients : client'[d].found = client[d].found
    BY <1>4, <1>5
  <2>2. \A j \in Keys : Held(j) # {} => j \in map' /\ ref'[j] = ref[j]
    BY <1>1, <1>7, <1>8 DEF IInv, Pointers
  <2>3. \A j \in Keys : ref'[j] \in {-MaxRef - 1, -1} \cup 0..MaxRef
    BY <1>8, CacheAssumption DEF IInv, Pointers
  <2> QED BY <2>1, <2>2, <2>3, PointersStay
<1>16. Placed'
  <2> SUFFICES ASSUME NEW d \in Clients
               PROVE  /\ IsInjective(client'[d].placed)
                      /\ \A j \in Range(client'[d].placed) :
                           /\ j \in map /\ ref'[j] = -1
                           /\ \A e \in Clients : ~Inserting(e, j)'
                           /\ \A e \in Clients \ {d} : j \notin Range(client'[e].placed)
    BY <1>1, Zenon DEF Placed
  <2>1. \A e \in Clients : Range(client'[e].placed) \subseteq Range(client[e].placed) \ {k}
    BY <1>4, <1>5, <1>6, <1>7 DEF f
  <2>2. IsInjective(client'[d].placed)
    BY <1>4, <1>5, <1>6 DEF IInv, Placed
  <2>3. \A j \in Range(client[d].placed) :
           /\ j \in map /\ ref[j] = -1
           /\ \A e \in Clients : ~Inserting(e, j)
           /\ \A e \in Clients \ {d} : j \notin Range(client[e].placed)
    BY DEF IInv, Placed
  <2>4. map \subseteq Keys
    BY DEF IInv, Types
  <2> QED BY <1>8, <1>9, <2>1, <2>2, <2>3, <2>4
<1>17. RowData'
  <2>1. tensor[pos[k]].key = k
    BY <1>1, <1>6 DEF IInv, RowData, f
  <2>2. \A e \in Clients : Range(client'[e].placed) \subseteq Range(client[e].placed)
    BY <1>4, <1>5, <1>6 DEF f
  <2>3. \A e \in Clients : client'[e].pc = client[e].pc
    BY <1>4, <1>5
  <2>4. map \subseteq Keys
    BY DEF IInv, Types
  <2> QED BY <1>1, <1>8, <2>1, <2>2, <2>3, <2>4 DEF IInv, RowData
<1>18. GhostsConsistent'
  BY <1>1 DEF IInv, GhostsConsistent
<1> QED BY <1>10, <1>11, <1>12, <1>13, <1>14, <1>15, <1>16, <1>17, <1>18 DEF IInv

\* FeatureCache::Replace writes the rows of the entries the client was given,
\* which no other entry has.
LEMMA WriteRowsStep ==
    ASSUME IInv, NEW c \in Clients, WriteRows(c)
    PROVE  IInv'
<1> DEFINE mine == Range(client[c].placed)
           r == [client[c] EXCEPT !.pc = "wrote"]
<1>1. /\ client[c].pc = "write" /\ mtx' = mtx /\ client' = [client EXCEPT ![c] = r]
      /\ UNCHANGED <<map, small, small_size, queue, hand, freq, ref, pos, usage, ghosts,
                     ghost_queue, ghost_set, source, policy>>
      /\ tensor' = [q \in Rows |->
           IF \E k \in mine : pos[k] = q
           THEN LET k == CHOOSE k \in mine : pos[k] = q
                IN [key |-> k, ver |-> client[c].val[k]]
           ELSE tensor[q]]
  BY DEF WriteRows, lists, entries, ghosts
<1>2. client[c] \in ClientState
  BY DEF IInv, Types
<1>3. /\ r \in ClientState /\ r.pc = "wrote" /\ r.batch = client[c].batch
      /\ r.placed = client[c].placed /\ r.found = client[c].found
      /\ client[c].val \in [Keys -> 0..MaxVersion] /\ mine \subseteq Keys
  BY <1>2, RangeOfSeq DEF ClientState
<1> HIDE DEF r, mine
<1>4. /\ client' \in [Clients -> ClientState]
      /\ client'[c] = r /\ \A d \in Clients \ {c} : client'[d] = client[d]
  BY <1>1, <1>3, SetClient DEF IInv, Types
<1>5. \A d \in Clients : /\ client'[d].placed = client[d].placed
                         /\ client'[d].found = client[d].found
                         /\ client'[d].batch = client[d].batch
                         /\ Evicting(d)' <=> Evicting(d)
                         /\ \A k : Inserting(d, k)' <=> Inserting(d, k)
  BY <1>1, <1>3, <1>4 DEF Evicting, Inserting
<1>6. \A k \in mine : k \in map /\ ref[k] = -1 /\ pos[k] \in Rows
  <2> SUFFICES ASSUME NEW k \in mine PROVE k \in map /\ ref[k] = -1 /\ pos[k] \in Rows
    OBVIOUS
  <2>1. k \in map /\ ref[k] = -1 /\ ~\E d \in Clients : Inserting(d, k)
    BY DEF IInv, Placed, mine
  <2>2. pos[k] \in 0..(usage - 1)
    BY <2>1 DEF IInv, RowOf
  <2> QED BY <2>1, <2>2, CacheAssumption DEF IInv, Types, Rows
<1>7. \A k \in mine, j \in map : pos[j] = pos[k] => j = k
  BY <1>6, CacheAssumption DEF IInv, RowOf, Rows, Unset
<1>8. tensor' \in [Rows -> [key : Keys \cup {NoKey}, ver : 0..MaxVersion]]
  <2>1. ASSUME NEW q \in Rows, \E k \in mine : pos[k] = q
        PROVE  LET k == CHOOSE k \in mine : pos[k] = q
               IN [key |-> k, ver |-> client[c].val[k]]
                    \in [key : Keys \cup {NoKey}, ver : 0..MaxVersion]
    <3>1. PICK k \in mine : k = CHOOSE l \in mine : pos[l] = q
      BY <2>1
    <3> QED BY <1>3, <3>1
  <2>2. tensor \in [Rows -> [key : Keys \cup {NoKey}, ver : 0..MaxVersion]]
    BY DEF IInv, Types
  <2> QED BY <1>1, <2>1, <2>2
<1>9. \A k \in mine : tensor'[pos[k]].key = k
  <2> SUFFICES ASSUME NEW k \in mine PROVE tensor'[pos[k]].key = k
    OBVIOUS
  <2>1. (CHOOSE l \in mine : pos[l] = pos[k]) = k
    BY <1>6, <1>7
  <2> QED BY <1>1, <1>6, <2>1
<1>10. \A j \in map \ mine : pos[j] \in Rows => tensor'[pos[j]] = tensor[pos[j]]
  BY <1>1, <1>7
<1>11. Types'
  BY <1>1, <1>4, <1>8 DEF IInv, Types
<1>12. Locking'
  BY <1>1, <1>3, <1>4 DEF IInv, Locking
<1>13. EvictState'
  BY <1>1, <1>5 DEF IInv, EvictState
<1>14. Lists'
  BY <1>1, <1>5 DEF IInv, Lists, Extra
<1>15. RowOf'
  BY <1>1, <1>5 DEF IInv, RowOf
<1>16. Pointers'
  BY <1>1, <1>5, PointersStay DEF IInv, Pointers
<1>17. Placed'
  BY <1>1, <1>5 DEF IInv, Placed
<1>18. RowData'
  <2>1. ASSUME NEW j \in map, ref[j] # -1 PROVE tensor'[pos[j]].key = j
    <3>1. j \notin mine /\ tensor[pos[j]].key = j
      BY <1>6, <2>1 DEF IInv, RowData
    <3>2. ~\E d \in Clients : Inserting(d, j)
      BY <2>1 DEF IInv, EvictState, Inserting
    <3>3. pos[j] \in Rows
      BY <3>2, CacheAssumption DEF IInv, RowOf, Types, Rows
    <3> QED BY <1>10, <3>1, <3>3
  <2>2. ASSUME NEW d \in Clients, client'[d].pc = "wrote", NEW j \in Range(client'[d].placed)
        PROVE  tensor'[pos[j]].key = j
    <3>1. CASE d = c
      BY <1>3, <1>4, <1>9, <2>2, <3>1 DEF mine
    <3>2. CASE d # c
      <4>1. j \in Range(client[d].placed) /\ client[d].pc = "wrote"
        BY <1>4, <2>2, <3>2
      <4>2. j \in map /\ j \notin mine /\ tensor[pos[j]].key = j
        BY <3>2, <4>1 DEF IInv, Placed, RowData, mine
      <4>3. ~\E e \in Clients : Inserting(e, j)
        BY <4>1 DEF IInv, Placed
      <4>4. pos[j] \in Rows
        BY <4>2, <4>3, CacheAssumption DEF IInv, RowOf, Types, Rows
      <4> QED BY <1>10, <4>2, <4>4
    <3> QED BY <3>1, <3>2
  <2> QED BY <1>1, <2>1, <2>2 DEF RowData
<1>19. GhostsConsistent'
  BY <1>1 DEF IInv, GhostsConsistent
<1> QED BY <1>11, <1>12, <1>13, <1>14, <1>15, <1>16, <1>17, <1>18, <1>19 DEF IInv

-----------------------------------------------------------------------------
(* Evict *)

\* Evict finds entries in the list it looks at.
LEMMA VictimList ==
    ASSUME IInv, NEW c \in Clients, Evicting(c)
    PROVE  /\ FromSmall => small # <<>>
           /\ ~FromSmall => queue # <<>>
<1>1. /\ Len(small) \in Nat /\ Len(queue) \in Nat
      /\ small = <<>> => Len(small) = 0
      /\ queue = <<>> => Len(queue) = 0
  BY LenProperties DEF IInv, Types
<1>2. small_size = Len(small) /\ Len(small) + Len(queue) = Capacity + 1
  BY DEF IInv, Lists, EvictState, Extra
<1>3. FromSmall => small # <<>>
  BY <1>1, <1>2, CacheAssumption DEF FromSmall
<1>4. ~FromSmall => queue # <<>>
  BY <1>1, <1>2, CacheAssumption DEF FromSmall, IInv, Lists
<1> QED BY <1>3, <1>4

\* One round of an eviction loop that evicts nothing.
LEMMA PassStep ==
    ASSUME IInv, KeepLooking,
           freq' \in [Keys -> 0..3], small' \in Seq(Keys), queue' \in Seq(Keys),
           Lists', policy = "sieve" => hand' # End
    PROVE  IInv'
<1>1. UNCHANGED <<mtx, map, ref, pos, usage, ghost_queue, ghost_set, tensor, source,
                  policy, client>>
  BY DEF KeepLooking, ghosts, data
<1>2. \A d \in Clients : /\ Evicting(d)' <=> Evicting(d)
                         /\ \A k : Inserting(d, k)' <=> Inserting(d, k)
  BY <1>1 DEF Evicting, Inserting
<1>3. Types'
  BY <1>1 DEF IInv, Types
<1>4. Locking'
  BY <1>1 DEF IInv, Locking
<1>5. EvictState'
  BY <1>1, <1>2 DEF IInv, EvictState
<1>6. RowOf'
  BY <1>1, <1>2 DEF IInv, RowOf
<1>7. Pointers'
  BY <1>1, PointersStay DEF IInv, Pointers
<1>8. Placed'
  BY <1>1, <1>2 DEF IInv, Placed
<1>9. RowData' /\ GhostsConsistent'
  BY <1>1 DEF IInv, RowData, GhostsConsistent
<1> QED BY <1>3, <1>4, <1>5, <1>6, <1>7, <1>8, <1>9 DEF IInv

\* KeepLooking leaves the entry being inserted alone.
LEMMA ExtraStays == ASSUME KeepLooking PROVE Extra' = Extra /\ UNCHANGED <<map, usage, policy>>
  BY DEF KeepLooking, Extra, Evicting, data

\* A hot entry moves from small to queue.
LEMMA PassSmallStep ==
    ASSUME IInv, NEW c \in Clients, PassSmall(c)
    PROVE  IInv'
<1> DEFINE k == Last(small)
<1>1. /\ Evicting(c) /\ FromSmall /\ KeepLooking /\ hand' = hand
      /\ freq' = [freq EXCEPT ![k] = 0]
      /\ queue' = <<k>> \o queue /\ small' = Front(small) /\ small_size' = small_size - 1
  BY DEF PassSmall
<1>2. /\ small \in Seq(Keys) /\ queue \in Seq(Keys)
      /\ IsInjective(small) /\ IsInjective(queue) /\ small # <<>>
  BY <1>1, VictimList DEF IInv, Types, Lists
<1>3. /\ k \in Range(small) /\ Front(small) \in Seq(Keys)
      /\ Len(Front(small)) = Len(small) - 1
      /\ Range(Front(small)) = Range(small) \ {k} /\ IsInjective(Front(small))
  BY <1>2, PopBack
<1>4. k \in Keys /\ k \notin Range(queue)
  BY <1>2, <1>3, RangeOfSeq DEF IInv, Lists
<1> HIDE DEF k
<1>5. /\ queue' \in Seq(Keys) /\ Len(queue') = Len(queue) + 1
      /\ Range(queue') = Range(queue) \cup {k} /\ IsInjective(queue')
  BY <1>1, <1>2, <1>4, PushFront
<1>6. Len(small) \in Nat /\ Len(queue) \in Nat /\ Len(small) + Len(queue) = usage + Extra
  BY <1>2, LenProperties DEF IInv, Lists
<1>7. Lists'
  <2>1. policy = "s3-fifo"
    BY <1>1 DEF FromSmall
  <2>2. Len(small') + Len(queue') = usage + Extra
    BY <1>1, <1>3, <1>5, <1>6
  <2> QED BY <1>1, <1>3, <1>5, <2>1, <2>2, ExtraStays DEF IInv, Lists
<1>8. freq' \in [Keys -> 0..3]
  BY <1>1, <1>4 DEF IInv, Types
<1>9. policy # "sieve"
  BY <1>1 DEF FromSmall
<1> QED BY <1>1, <1>3, <1>5, <1>7, <1>8, <1>9, PassStep

\* A hot entry moves from the back of queue to its front.
LEMMA PassBackStep ==
    ASSUME IInv, NEW c \in Clients, PassBack(c)
    PROVE  IInv'
<1>1. /\ Evicting(c) /\ ~FromSmall /\ policy # "sieve" /\ KeepLooking
      /\ freq' = [freq EXCEPT ![Last(queue)] = Cooled(Last(queue))]
      /\ queue' = Pass(queue) /\ UNCHANGED <<small, small_size, hand>>
  BY DEF PassBack
<1>2. queue \in Seq(Keys) /\ small \in Seq(Keys) /\ IsInjective(queue) /\ queue # <<>>
  BY <1>1, VictimList DEF IInv, Types, Lists
<1>3. /\ queue' \in Seq(Keys) /\ Len(queue') = Len(queue)
      /\ Range(queue') = Range(queue) /\ IsInjective(queue')
  BY <1>1, <1>2, PassProperties
<1>4. Last(queue) \in Keys
  BY <1>2, PopBack, RangeOfSeq
<1>5. freq' \in [Keys -> 0..3]
  <2>1. freq \in [Keys -> 0..3]
    BY DEF IInv, Types
  <2>2. Cooled(Last(queue)) \in 0..3
    BY <1>4, <2>1 DEF Cooled
  <2> QED BY <1>1, <2>1, <2>2
<1>6. Lists'
  BY <1>1, <1>3, ExtraStays DEF IInv, Lists
<1> QED BY <1>1, <1>2, <1>3, <1>5, <1>6, PassStep

\* The hand of SIEVE moves on, around the end.
LEMMA PassHandStep ==
    ASSUME IInv, NEW c \in Clients, PassHand(c)
    PROVE  IInv'
<1>1. /\ Evicting(c) /\ policy = "sieve" /\ KeepLooking
      /\ freq' = [freq EXCEPT ![hand] = 0] /\ hand' = Before(hand)
      /\ UNCHANGED <<small, small_size, queue>>
  BY DEF PassHand
<1>2. /\ queue \in Seq(Keys) /\ small \in Seq(Keys) /\ IsInjective(queue)
      /\ hand \in Range(queue)
  BY <1>1 DEF IInv, Types, Lists, EvictState
<1>3. /\ Len(queue) \in Nat /\ DOMAIN queue = 1..Len(queue) /\ queue # <<>>
      /\ IndexOf(queue, hand) \in 1..Len(queue) /\ queue[IndexOf(queue, hand)] = hand
  BY <1>2, LenProperties, Erase, EmptyList
<1>4. Head(queue) = queue[1] /\ Last(queue) \in Range(queue)
  <2>1. Last(queue) \in Range(queue)
    BY <1>2, <1>3, PopBack
  <2>2. Head(queue) = queue[1]
    BY <1>2, <1>3, HeadTailProperties, EmptySeq
  <2> QED BY <2>1, <2>2
<1>5. Before(hand) \in Range(queue)
  <2>1. CASE hand = Head(queue)
    BY <1>4, <2>1 DEF Before
  <2>2. CASE hand # Head(queue)
    <3>1. IndexOf(queue, hand) - 1 \in DOMAIN queue
      BY <1>3, <1>4, <2>2
    <3>2. queue[IndexOf(queue, hand) - 1] \in Range(queue)
      BY <3>1 DEF Range
    <3> QED BY <2>2, <3>2 DEF Before
  <2> QED BY <2>1, <2>2
<1>6. hand' \in Range(queue) /\ hand' # End /\ hand \in Keys
  BY <1>1, <1>2, <1>5, RangeOfSeq, CacheAssumption DEF End
<1>7. freq' \in [Keys -> 0..3]
  BY <1>1, <1>6 DEF IInv, Types
<1>8. Lists'
  BY <1>1, <1>6, ExtraStays DEF IInv, Lists
<1> QED BY <1>1, <1>2, <1>6, <1>7, <1>8, PassStep

\* Nobody is in Evict once the client that was leaves it.
LEMMA LeaveEvict ==
    ASSUME IInv, NEW c \in Clients, Evicting(c) \/ client[c].pc = "keys",
           client'[c].pc # "evict", \A d \in Clients \ {c} : client'[d] = client[d]
    PROVE  /\ \A d \in Clients : ~Evicting(d)'
           /\ \A d \in Clients : \A k : ~Inserting(d, k)'
           /\ Extra' = 0
  BY DEF IInv, Locking, Evicting, Inserting, Extra

\* The victim leaves, its row goes to the entry being inserted.
LEMMA GiveRowStep ==
    ASSUME IInv, NEW c \in Clients, Evicting(c), NEW victim \in map, ref[victim] = 0,
           GiveRow(c, victim), small' \in Seq(Keys), queue' \in Seq(Keys),
           Lists', ghost_queue' \in Seq(Keys), Len(ghost_queue') <= GhostCapacity,
           ghost_set' \subseteq Range(ghost_queue') \ map'
    PROVE  IInv'
<1> DEFINE n == Head(client[c].batch)
<1>1. /\ map' = map \ {victim} /\ freq' = [freq EXCEPT ![victim] = 0]
      /\ ref' = [ref EXCEPT ![victim] = 0]
      /\ pos' = [pos EXCEPT ![n] = pos[victim], ![victim] = Unset]
      /\ NextKey(c, "placed") /\ UNCHANGED <<mtx, usage, tensor, source, policy>>
  BY DEF GiveRow, Forget, data
<1>2. /\ client[c].batch # <<>> /\ n \in map /\ ref[n] = -1 /\ pos[n] = Unset
      /\ client[c].pc = "evict" /\ n # victim
  BY DEF IInv, EvictState, Evicting
<1>3. PICK r \in ClientState :
         /\ client' = [client EXCEPT ![c] = r] /\ r.pc = "keys"
         /\ r.found = client[c].found /\ r.placed = Append(client[c].placed, n)
  BY <1>1, <1>2, NextKeyClient
<1> HIDE DEF n
<1>4. /\ client' \in [Clients -> ClientState]
      /\ client'[c] = r /\ \A d \in Clients \ {c} : client'[d] = client[d]
  BY <1>3, SetClient DEF IInv, Types
<1>5. map \subseteq Keys /\ victim \in Keys /\ n \in Keys
  BY <1>2 DEF IInv, Types
<1>6. /\ \A d \in Clients : ~Evicting(d)'
      /\ \A d \in Clients : \A k : ~Inserting(d, k)'
  BY <1>3, <1>4, LeaveEvict
<1>7. \A k : (\E d \in Clients : Inserting(d, k)) => k = n
  BY OneEvictor DEF IInv, Inserting, n
<1>8. pos[victim] \in 0..(usage - 1) /\ pos[victim] \in Rows
  <2>1. pos[victim] \in 0..(usage - 1)
    BY <1>2, <1>7 DEF IInv, RowOf
  <2> QED BY SMTT(30), <2>1, CacheAssumption DEF IInv, Types, Rows
<1>9. /\ pos' \in [Keys -> Rows \cup {Unset}]
      /\ pos'[n] = pos[victim] /\ \A k \in Keys \ {n, victim} : pos'[k] = pos[k]
  BY <1>1, <1>2, <1>5, <1>8 DEF IInv, Types
<1>10. /\ ref' \in [Keys -> (-MaxRef - 1)..MaxRef]
       /\ \A k \in Keys : ref'[k] = ref[k]
  BY <1>1, <1>5, CacheAssumption DEF IInv, Types
<1>11. client[c].placed \in Seq(Keys)
  BY DEF IInv, Types, ClientState
<1>12. Types'
  <2>1. freq' \in [Keys -> 0..3]
    BY <1>1, <1>5 DEF IInv, Types
  <2>2. ghost_set' \subseteq Keys
    BY RangeOfSeq
  <2> QED BY <1>1, <1>4, <1>5, <1>9, <1>10, <2>1, <2>2 DEF IInv, Types
<1>13. Locking'
  BY <1>1, <1>2, <1>3, <1>4 DEF IInv, Locking
<1>14. EvictState'
  BY <1>6 DEF EvictState
<1>15. RowOf'
  <2>1. ASSUME NEW k \in map' PROVE pos'[k] \in 0..(usage' - 1)
    BY <1>1, <1>5, <1>7, <1>8, <1>9, <2>1 DEF IInv, RowOf
  <2>2. ASSUME NEW k \in map', NEW l \in map', k # l, pos'[k] = pos'[l]
        PROVE  pos'[k] = Unset
    <3>1. \A x \in map \ {n} : x # victim => pos[x] # pos[victim]
      BY <1>8 DEF IInv, RowOf, Unset
    <3>2. CASE k = n \/ l = n
      BY <1>1, <1>5, <1>9, <2>2, <3>1, <3>2
    <3>3. CASE k # n /\ l # n
      BY <1>1, <1>5, <1>9, <2>2, <3>3 DEF IInv, RowOf
    <3> QED BY <3>2, <3>3
  <2> QED BY <2>1, <2>2 DEF RowOf
<1>16. Pointers'
  <2>1. \A d \in Clients : client'[d].found = client[d].found
    BY <1>3, <1>4
  <2>2. \A k \in Keys : Held(k) # {} => k \in map' /\ ref'[k] = ref[k]
    <3> SUFFICES ASSUME NEW k \in Keys, Held(k) # {} PROVE k \in map /\ ref[k] # 0
      BY <1>1, <1>10
    <3>1. IsFiniteSet(Held(k)) /\ k \in map /\ Cardinality(Held(k)) <= Uses(ref[k])
      BY DEF IInv, Pointers
    <3>2. Cardinality(Held(k)) \in Nat \ {0}
      BY <3>1, FS_CardinalityType, FS_EmptySet
    <3> QED BY <3>1, <3>2 DEF Uses
  <2>3. \A k \in Keys : ref'[k] \in {-MaxRef - 1, -1} \cup 0..MaxRef
    BY <1>10 DEF IInv, Pointers
  <2> QED BY <2>1, <2>2, <2>3, PointersStay
<1>17. n \notin Range(client[c].placed) /\ \A d \in Clients : n \notin Range(client[d].placed)
  BY DEF IInv, Placed, Inserting, n
<1>18. /\ IsInjective(r.placed)
       /\ Range(r.placed) = Range(client[c].placed) \cup {n}
  BY <1>3, <1>5, <1>11, <1>17, AppendNew DEF IInv, Placed
<1>19. \A d \in Clients : Range(client'[d].placed) \subseteq
                            IF d = c THEN Range(client[d].placed) \cup {n}
                                     ELSE Range(client[d].placed)
  BY <1>4, <1>18
<1>20. \A d \in Clients : \A k \in Range(client[d].placed) :
          /\ k \in map /\ ref[k] = -1
          /\ \A e \in Clients \ {d} : k \notin Range(client[e].placed)
  BY DEF IInv, Placed
<1>21. Placed'
  <2> SUFFICES ASSUME NEW d \in Clients
               PROVE  /\ IsInjective(client'[d].placed)
                      /\ \A k \in Range(client'[d].placed) :
                           /\ k \in map' /\ ref'[k] = -1
                           /\ \A e \in Clients : ~Inserting(e, k)'
                           /\ \A e \in Clients \ {d} : k \notin Range(client'[e].placed)
    BY Zenon DEF Placed
  <2>1. IsInjective(client'[d].placed)
    BY <1>4, <1>18 DEF IInv, Placed
  <2>2. ASSUME NEW k \in Range(client'[d].placed)
        PROVE  /\ k \in map' /\ ref'[k] = -1
               /\ \A e \in Clients \ {d} : k \notin Range(client'[e].placed)
    <3>1. k \in map /\ ref[k] = -1
      BY <1>2, <1>19, <1>20
    <3>2. k # victim
      BY <3>1
    <3>3. ASSUME NEW e \in Clients \ {d} PROVE k \notin Range(client'[e].placed)
      <4>1. CASE k = n
        <5>1. d = c
          BY <1>17, <1>19, <4>1
        <5> QED BY <1>17, <1>19, <4>1, <5>1
      <4>2. CASE k # n
        <5>1. k \in Range(client[d].placed)
          BY <1>19, <4>2
        <5>2. k \notin Range(client[e].placed)
          BY <1>20, <5>1
        <5> QED BY <1>19, <4>2, <5>2
      <4> QED BY <4>1, <4>2
    <3> QED BY <1>1, <1>5, <1>10, <3>1, <3>2, <3>3
  <2> QED BY <1>6, <2>1, <2>2
<1>22. RowData'
  <2>1. ASSUME NEW k \in map', ref'[k] # -1 PROVE tensor'[pos'[k]].key = k
    <3>1. k \in map /\ k # victim /\ k # n /\ ref[k] # -1
      BY <1>1, <1>2, <1>5, <1>10, <2>1
    <3> QED BY <1>1, <1>5, <1>9, <3>1 DEF IInv, RowData
  <2>2. ASSUME NEW d \in Clients, client'[d].pc = "wrote", NEW k \in Range(client'[d].placed)
        PROVE  tensor'[pos'[k]].key = k
    <3>1. d # c /\ client[d].pc = "wrote" /\ k \in Range(client[d].placed)
      BY <1>3, <1>4, <2>2
    <3>2. k \in map /\ k # victim /\ k # n
      BY <1>17, <1>20, <3>1
    <3> QED BY <1>1, <1>5, <1>9, <3>1, <3>2 DEF IInv, RowData
  <2> QED BY <2>1, <2>2 DEF RowData
<1>23. GhostsConsistent'
  BY DEF GhostsConsistent
<1> QED BY <1>12, <1>13, <1>14, <1>15, <1>16, <1>21, <1>22, <1>23 DEF IInv

\* Only an entry that nobody uses is not hot.
LEMMA ColdUnused == ASSUME NEW k, ~Hot(k) PROVE ref[k] = 0
  BY DEF Hot, InUse

\* The ghosts after a step that remembers none.
LEMMA GhostsStay ==
    ASSUME IInv, UNCHANGED ghosts, NEW victim, map' = map \ {victim}
    PROVE  /\ ghost_queue' \in Seq(Keys) /\ Len(ghost_queue') <= GhostCapacity
           /\ ghost_set' \subseteq Range(ghost_queue') \ map'
  BY DEF IInv, Types, GhostsConsistent, ghosts

\* What GiveRow leaves of the lists: one entry less, and nobody in Evict.
LEMMA GiveRowExtra ==
    ASSUME IInv, NEW c \in Clients, Evicting(c), NEW victim, GiveRow(c, victim)
    PROVE  /\ Extra = 1 /\ Extra' = 0 /\ map' = map \ {victim}
           /\ UNCHANGED <<usage, policy>>
<1>1. client[c].batch # <<>> /\ NextKey(c, "placed")
  BY DEF IInv, EvictState, GiveRow
<1>2. PICK r \in ClientState : client' = [client EXCEPT ![c] = r] /\ r.pc = "keys"
  BY <1>1, NextKeyClient
<1>3. client'[c] = r /\ \A d \in Clients \ {c} : client'[d] = client[d]
  BY <1>2, SetClient DEF IInv, Types
<1>4. Extra' = 0
  BY <1>2, <1>3, LeaveEvict
<1> QED BY <1>4 DEF Extra, GiveRow, Forget, data

\* A cold entry leaves small and becomes a ghost.
LEMMA EvictSmallStep ==
    ASSUME IInv, NEW c \in Clients, EvictSmall(c)
    PROVE  IInv'
<1> DEFINE k == Last(small)
<1>1. /\ Evicting(c) /\ FromSmall /\ ~Hot(k) /\ Remember(k) /\ GiveRow(c, k)
      /\ small' = Front(small) /\ small_size' = small_size - 1
      /\ queue' = queue /\ hand' = hand
  BY DEF EvictSmall
<1>2. small \in Seq(Keys) /\ queue \in Seq(Keys) /\ IsInjective(small) /\ small # <<>>
  BY <1>1, VictimList DEF IInv, Types, Lists
<1>3. /\ k \in Range(small) /\ small' \in Seq(Keys) /\ Len(small') = Len(small) - 1
      /\ Range(small') = Range(small) \ {k} /\ IsInjective(small')
  BY <1>1, <1>2, PopBack
<1>4. k \in map /\ k \in Keys /\ k \notin Range(queue)
  BY <1>3 DEF IInv, Lists, Types
<1> HIDE DEF k
<1>5. /\ Extra = 1 /\ Extra' = 0 /\ map' = map \ {k} /\ UNCHANGED <<usage, policy>>
  BY <1>1, GiveRowExtra
<1>6. Lists'
  <2>1. Len(small') + Len(queue') = usage' + Extra'
    <3>1. /\ Len(small) \in Nat /\ Len(queue) \in Nat /\ usage \in Nat
          /\ Len(small) + Len(queue) = usage + Extra
      BY <1>2, LenProperties, CacheAssumption DEF IInv, Lists, Types
    <3> QED BY <1>1, <1>3, <1>5, <3>1
  <2> QED BY <1>1, <1>3, <1>4, <1>5, <2>1 DEF IInv, Lists, FromSmall
<1>7. /\ ghost_queue' \in Seq(Keys) /\ Len(ghost_queue') <= GhostCapacity
      /\ ghost_set' \subseteq Range(ghost_queue') \ map'
  <2> DEFINE full == Len(ghost_queue) = GhostCapacity
             g == IF full THEN Tail(ghost_queue) ELSE ghost_queue
             h == IF full THEN ghost_set \ {Head(ghost_queue)} ELSE ghost_set
  <2>1. ghost_queue' = Append(g, k) /\ ghost_set' = h \cup {k}
    BY <1>1 DEF Remember
  <2>2. /\ ghost_queue \in Seq(Keys) /\ Len(ghost_queue) \in Nat
        /\ Len(ghost_queue) <= GhostCapacity /\ GhostCapacity \in Nat \ {0}
        /\ ghost_set \subseteq Range(ghost_queue) \ map
    BY LenProperties, CacheAssumption DEF IInv, Types, GhostsConsistent
  <2>3. g \in Seq(Keys) /\ Len(g) \in Nat /\ Len(g) < GhostCapacity /\ h \subseteq Range(g) \ map
    <3>1. CASE ~full
      BY <2>2, <3>1
    <3>2. CASE full
      <4>1. ghost_queue # <<>>
        BY <2>2, <3>2, EmptySeq
      <4>2. /\ Tail(ghost_queue) \in Seq(Keys)
            /\ Len(Tail(ghost_queue)) = Len(ghost_queue) - 1
            /\ \A i \in 1..(Len(ghost_queue) - 1) : Tail(ghost_queue)[i] = ghost_queue[i + 1]
            /\ Head(ghost_queue) = ghost_queue[1]
            /\ DOMAIN ghost_queue = 1..Len(ghost_queue)
            /\ DOMAIN Tail(ghost_queue) = 1..(Len(ghost_queue) - 1)
        BY <2>2, <4>1, HeadTailProperties, LenProperties
      <4>3. Range(ghost_queue) \ {Head(ghost_queue)} \subseteq Range(Tail(ghost_queue))
        <5> SUFFICES ASSUME NEW i \in 1..Len(ghost_queue), ghost_queue[i] # Head(ghost_queue)
                     PROVE  ghost_queue[i] \in Range(Tail(ghost_queue))
          BY <4>2 DEF Range
        <5>1. i - 1 \in 1..(Len(ghost_queue) - 1) /\ (i - 1) + 1 = i
          BY <2>2, <4>2
        <5>2. Tail(ghost_queue)[i - 1] = ghost_queue[i]
          BY <4>2, <5>1
        <5> QED BY <4>2, <5>1, <5>2 DEF Range
      <4> QED BY <2>2, <3>2, <4>2, <4>3
    <3> QED BY <3>1, <3>2
  <2> HIDE DEF g, h
  <2>4. /\ Append(g, k) \in Seq(Keys) /\ Len(Append(g, k)) = Len(g) + 1
        /\ Range(Append(g, k)) = Range(g) \cup {k}
    BY <1>4, <2>3, AppendNew, AppendProperties
  <2>5. Len(ghost_queue') <= GhostCapacity
    BY <2>1, <2>2, <2>3, <2>4
  <2> QED BY <1>5, <2>1, <2>3, <2>4, <2>5
<1>8. ref[k] = 0
  BY <1>1, ColdUnused
<1> QED BY <1>1, <1>2, <1>3, <1>4, <1>6, <1>7, <1>8, GiveRowStep

\* A cold entry leaves the back of queue.
LEMMA EvictBackStep ==
    ASSUME IInv, NEW c \in Clients, EvictBack(c)
    PROVE  IInv'
<1> DEFINE k == Last(queue)
<1>1. /\ Evicting(c) /\ ~FromSmall /\ policy # "sieve" /\ ~Hot(k) /\ GiveRow(c, k)
      /\ queue' = Front(queue) /\ UNCHANGED <<small, small_size, hand, ghosts>>
  BY DEF EvictBack
<1>2. small \in Seq(Keys) /\ queue \in Seq(Keys) /\ IsInjective(queue) /\ queue # <<>>
  BY <1>1, VictimList DEF IInv, Types, Lists
<1>3. /\ k \in Range(queue) /\ queue' \in Seq(Keys) /\ Len(queue') = Len(queue) - 1
      /\ Range(queue') = Range(queue) \ {k} /\ IsInjective(queue')
  BY <1>1, <1>2, PopBack
<1>4. k \in map /\ k \in Keys /\ k \notin Range(small)
  BY <1>3 DEF IInv, Lists, Types
<1> HIDE DEF k
<1>5. /\ Extra = 1 /\ Extra' = 0 /\ map' = map \ {k} /\ UNCHANGED <<usage, policy>>
  BY <1>1, GiveRowExtra
<1>6. Lists'
  <2>1. Len(small') + Len(queue') = usage' + Extra'
    <3>1. /\ Len(small) \in Nat /\ Len(queue) \in Nat /\ usage \in Nat
          /\ Len(small) + Len(queue) = usage + Extra
      BY <1>2, LenProperties, CacheAssumption DEF IInv, Lists, Types
    <3> QED BY <1>1, <1>3, <1>5, <3>1
  <2> QED BY <1>1, <1>3, <1>4, <1>5, <2>1 DEF IInv, Lists
<1>7. /\ ghost_queue' \in Seq(Keys) /\ Len(ghost_queue') <= GhostCapacity
      /\ ghost_set' \subseteq Range(ghost_queue') \ map'
  BY <1>1, <1>5, GhostsStay
<1>8. ref[k] = 0
  BY <1>1, ColdUnused
<1> QED BY <1>1, <1>2, <1>3, <1>4, <1>6, <1>7, <1>8, GiveRowStep

\* The hand of SIEVE leaves the entry it evicts.
LEMMA EvictHandStep ==
    ASSUME IInv, NEW c \in Clients, EvictHand(c)
    PROVE  IInv'
<1>1. /\ Evicting(c) /\ policy = "sieve" /\ ~Hot(hand) /\ GiveRow(c, hand)
      /\ hand' = After(hand) /\ queue' = Without(hand, queue)
      /\ UNCHANGED <<small, small_size, ghosts>>
  BY DEF EvictHand
<1>2. /\ small \in Seq(Keys) /\ queue \in Seq(Keys) /\ IsInjective(queue)
      /\ hand \in Range(queue)
  BY <1>1 DEF IInv, Types, Lists, EvictState
<1>3. /\ IndexOf(queue, hand) \in 1..Len(queue) /\ queue[IndexOf(queue, hand)] = hand
      /\ queue' \in Seq(Keys) /\ Len(queue') = Len(queue) - 1
      /\ Range(queue') = Range(queue) \ {hand} /\ IsInjective(queue')
  BY <1>1, <1>2, Erase
<1>4. hand \in map /\ hand \in Keys /\ hand \notin Range(small)
  BY <1>2 DEF IInv, Lists, Types
<1>5. /\ Extra = 1 /\ Extra' = 0 /\ map' = map \ {hand} /\ UNCHANGED <<usage, policy>>
  BY <1>1, GiveRowExtra
<1>6. After(hand) \in Range(queue') \cup {End}
  <2>1. CASE hand \in {Head(queue), Last(queue)}
    BY <2>1 DEF After
  <2>2. CASE hand \notin {Head(queue), Last(queue)}
    <3> DEFINE i == IndexOf(queue, hand)
    <3>0. Len(queue) \in Nat /\ i \in 1..Len(queue)
      BY <1>2, <1>3, LenProperties
    <3>1. DOMAIN queue = 1..Len(queue) /\ queue[i] = hand
      BY <1>2, <1>3, LenProperties
    <3>2. After(hand) = queue[i + 1]
      BY <2>2 DEF After
    <3> HIDE DEF i
    <3>3. i # Len(queue)
      BY <2>2, <3>1 DEF Last
    <3>4. i + 1 \in DOMAIN queue /\ i + 1 # i /\ i \in DOMAIN queue
      <4>1. i + 1 \in 1..Len(queue) /\ i + 1 # i
        BY <3>0, <3>3
      <4> QED BY <3>0, <3>1, <4>1
    <3>5. queue[i + 1] # hand /\ queue[i + 1] \in Range(queue)
      BY <1>2, <3>1, <3>4 DEF IsInjective, Range
    <3> QED BY <1>3, <3>2, <3>5
  <2> QED BY <2>1, <2>2
<1>7. Lists'
  <2>1. Len(small') + Len(queue') = usage' + Extra'
    <3>1. /\ Len(small) \in Nat /\ Len(queue) \in Nat /\ usage \in Nat
          /\ Len(small) + Len(queue) = usage + Extra
      BY <1>2, LenProperties, CacheAssumption DEF IInv, Lists, Types
    <3> QED BY <1>1, <1>3, <1>5, <3>1
  <2> QED BY <1>1, <1>3, <1>4, <1>5, <1>6, <2>1 DEF IInv, Lists
<1>8. /\ ghost_queue' \in Seq(Keys) /\ Len(ghost_queue') <= GhostCapacity
      /\ ghost_set' \subseteq Range(ghost_queue') \ map'
  BY <1>1, <1>5, GhostsStay
<1>9. ref[hand] = 0
  BY <1>1, ColdUnused
<1> QED BY <1>1, <1>2, <1>3, <1>4, <1>7, <1>8, <1>9, GiveRowStep

-----------------------------------------------------------------------------
(* Insert *)

\* The lists after Insert, but for their length and the hand.
LEMMA InsertLists ==
    ASSUME IInv, NEW c \in Clients, NEW k \in Keys, Insert(c, k)
    PROVE  /\ small' \in Seq(Keys) /\ queue' \in Seq(Keys)
           /\ IsInjective(small') /\ IsInjective(queue')
           /\ Range(small') \cap Range(queue') = {}
           /\ map' = Range(small') \cup Range(queue')
           /\ small_size' = Len(small')
           /\ Len(small') + Len(queue') = Len(small) + Len(queue) + 1
           /\ Range(queue) \subseteq Range(queue')
           /\ policy # "s3-fifo" => small' = <<>> /\ queue' = <<k>> \o queue
<1>1. /\ k \notin map /\ map' = map \cup {k}
      /\ small' = IF InSmall(k) THEN <<k>> \o small ELSE small
      /\ small_size' = IF InSmall(k) THEN small_size + 1 ELSE small_size
      /\ queue' = IF InSmall(k) THEN queue ELSE <<k>> \o queue
  BY DEF Insert
<1>2. /\ small \in Seq(Keys) /\ queue \in Seq(Keys)
      /\ Len(small) \in Nat /\ Len(queue) \in Nat
      /\ IsInjective(small) /\ IsInjective(queue)
      /\ Range(small) \cap Range(queue) = {} /\ map = Range(small) \cup Range(queue)
      /\ small_size = Len(small) /\ (policy # "s3-fifo" => small = <<>>)
  BY LenProperties DEF IInv, Types, Lists
<1>3. CASE InSmall(k)
  <2>1. /\ small' \in Seq(Keys) /\ Len(small') = Len(small) + 1
        /\ Range(small') = Range(small) \cup {k} /\ IsInjective(small')
    BY <1>1, <1>2, <1>3, PushFront
  <2>2. queue' = queue /\ small_size' = small_size + 1 /\ policy = "s3-fifo"
    BY <1>1, <1>3 DEF InSmall
  <2> QED BY <1>1, <1>2, <2>1, <2>2
<1>4. CASE ~InSmall(k)
  <2>1. /\ queue' \in Seq(Keys) /\ Len(queue') = Len(queue) + 1
        /\ Range(queue') = Range(queue) \cup {k} /\ IsInjective(queue')
    BY <1>1, <1>2, <1>4, PushFront
  <2>2. small' = small /\ small_size' = small_size /\ queue' = <<k>> \o queue
    BY <1>1, <1>4
  <2> QED BY <1>1, <1>2, <2>1, <2>2
<1> QED BY <1>3, <1>4

\* Insert when a row is free.
LEMMA InsertFreeStep ==
    ASSUME IInv, NEW c \in Clients, NEW k \in Keys, Insert(c, k), HasFreeRow
    PROVE  IInv'
<1>1. /\ AtKey(c, k) /\ k \notin map /\ map' = map \cup {k}
      /\ ghost_set' = ghost_set \ {k}
      /\ freq' = [freq EXCEPT ![k] = 0] /\ ref' = [ref EXCEPT ![k] = -1]
      /\ pos' = [pos EXCEPT ![k] = usage] /\ usage' = usage + 1 /\ hand' = hand
      /\ NextKey(c, "placed") /\ UNCHANGED <<mtx, ghost_queue, tensor, source, policy>>
  BY DEF Insert, TakeRow, EraseGhost, data
<1>2. client[c].pc = "keys" /\ client[c].batch # <<>> /\ Head(client[c].batch) = k
  BY <1>1 DEF AtKey
<1>3. PICK r \in ClientState :
         /\ client' = [client EXCEPT ![c] = r] /\ r.pc = "keys"
         /\ r.found = client[c].found /\ r.placed = Append(client[c].placed, k)
  BY <1>1, <1>2, NextKeyClient
<1>4. /\ client' \in [Clients -> ClientState]
      /\ client'[c] = r /\ \A d \in Clients \ {c} : client'[d] = client[d]
  BY <1>3, SetClient DEF IInv, Types
<1>5. /\ \A d \in Clients : ~Evicting(d)'
      /\ \A d \in Clients : \A j : ~Inserting(d, j)'
      /\ Extra' = 0
  BY <1>2, <1>3, <1>4, LeaveEvict
<1>6. /\ \A d \in Clients : \A j : ~Inserting(d, j)
      /\ Extra = 0
  BY <1>2, NobodyEvicts DEF Inserting, Extra
<1>7. usage \in 0..(Capacity - 1) /\ Capacity \in Nat /\ map \subseteq Keys
  BY CacheAssumption DEF IInv, Types, HasFreeRow
<1>8. /\ pos' \in [Keys -> Rows \cup {Unset}]
      /\ pos'[k] = usage /\ \A j \in Keys \ {k} : pos'[j] = pos[j]
  BY <1>1, <1>7 DEF IInv, Types, Rows
<1>9. /\ ref' \in [Keys -> (-MaxRef - 1)..MaxRef]
      /\ ref'[k] = -1 /\ \A j \in Keys \ {k} : ref'[j] = ref[j]
  BY <1>1, CacheAssumption DEF IInv, Types
<1>10. Types'
  <2>1. freq' \in [Keys -> 0..3]
    BY <1>1 DEF IInv, Types
  <2>2. usage' \in 0..Capacity
    BY <1>1, <1>7
  <2> QED BY <1>1, <1>4, <1>8, <1>9, <2>1, <2>2, InsertLists DEF IInv, Types
<1>11. Locking'
  BY <1>1, <1>2, <1>3, <1>4 DEF IInv, Locking
<1>12. EvictState'
  BY <1>5 DEF EvictState
<1>13. Lists'
  <2>1. Len(small') + Len(queue') = usage' + Extra'
    <3>1. Len(small) + Len(queue) = usage + Extra
      BY DEF IInv, Lists
    <3>2. Len(small') + Len(queue') = Len(small) + Len(queue) + 1
      BY InsertLists
    <3> QED BY <1>1, <1>5, <1>6, <1>7, <3>1, <3>2
  <2>2. hand' \in Range(queue') \cup {End} /\ (policy # "sieve" => hand' = End)
    BY <1>1, InsertLists DEF IInv, Lists
  <2> QED BY <1>1, <2>1, <2>2, InsertLists DEF Lists
<1>14. RowOf'
  <2>1. \A j \in map : pos[j] \in 0..(usage - 1)
    BY <1>6 DEF IInv, RowOf
  <2>2. ASSUME NEW j \in map' PROVE pos'[j] \in 0..(usage' - 1)
    BY <1>1, <1>7, <1>8, <2>1
  <2>3. ASSUME NEW j \in map', NEW l \in map', j # l, pos'[j] = pos'[l]
        PROVE  pos'[j] = Unset
    <3>1. j # k /\ l # k
      BY <1>1, <1>7, <1>8, <2>1, <2>3
    <3> QED BY <1>1, <1>7, <1>8, <2>3, <3>1 DEF IInv, RowOf
  <2> QED BY <2>2, <2>3 DEF RowOf
<1>15. Pointers'
  <2>1. \A d \in Clients : client'[d].found = client[d].found
    BY <1>3, <1>4
  <2>2. \A j \in Keys : Held(j) # {} => j \in map' /\ ref'[j] = ref[j]
    BY <1>1, <1>9 DEF IInv, Pointers
  <2>3. \A j \in Keys : ref'[j] \in {-MaxRef - 1, -1} \cup 0..MaxRef
    BY <1>9 DEF IInv, Pointers
  <2> QED BY <2>1, <2>2, <2>3, PointersStay
<1>16. \A d \in Clients : \A j \in Range(client[d].placed) :
          /\ j \in map /\ ref[j] = -1
          /\ \A e \in Clients \ {d} : j \notin Range(client[e].placed)
  BY DEF IInv, Placed
<1>17. /\ IsInjective(r.placed)
       /\ Range(r.placed) = Range(client[c].placed) \cup {k}
  <2>1. client[c].placed \in Seq(Keys) /\ IsInjective(client[c].placed)
    BY DEF IInv, Types, ClientState, Placed
  <2> QED BY <1>1, <1>3, <1>16, <2>1, AppendNew
<1>18. \A d \in Clients : Range(client'[d].placed) \subseteq
                            IF d = c THEN Range(client[d].placed) \cup {k}
                                     ELSE Range(client[d].placed)
  BY <1>4, <1>17
<1>19. Placed'
  <2> SUFFICES ASSUME NEW d \in Clients
               PROVE  /\ IsInjective(client'[d].placed)
                      /\ \A j \in Range(client'[d].placed) :
                           /\ j \in map' /\ ref'[j] = -1
                           /\ \A e \in Clients : ~Inserting(e, j)'
                           /\ \A e \in Clients \ {d} : j \notin Range(client'[e].placed)
    BY Zenon DEF Placed
  <2>1. IsInjective(client'[d].placed)
    BY <1>4, <1>17 DEF IInv, Placed
  <2>2. ASSUME NEW j \in Range(client'[d].placed)
        PROVE  /\ j \in map' /\ ref'[j] = -1
               /\ \A e \in Clients \ {d} : j \notin Range(client'[e].placed)
    <3>1. CASE j = k
      <4>1. d = c
        BY <1>1, <1>16, <1>18, <3>1
      <4> QED BY <1>1, <1>9, <1>16, <1>18, <3>1, <4>1
    <3>2. CASE j # k
      <4>1. j \in Range(client[d].placed)
        BY <1>18, <3>2
      <4>2. j \in map /\ ref[j] = -1 /\ \A e \in Clients \ {d} : j \notin Range(client[e].placed)
        BY <1>16, <4>1
      <4> QED BY <1>1, <1>7, <1>9, <1>18, <3>2, <4>2
    <3> QED BY <3>1, <3>2
  <2> QED BY <1>5, <2>1, <2>2
<1>20. RowData'
  <2>1. ASSUME NEW j \in map', ref'[j] # -1 PROVE tensor'[pos'[j]].key = j
    BY <1>1, <1>7, <1>8, <1>9, <2>1 DEF IInv, RowData
  <2>2. ASSUME NEW d \in Clients, client'[d].pc = "wrote", NEW j \in Range(client'[d].placed)
        PROVE  tensor'[pos'[j]].key = j
    <3>1. d # c /\ client[d].pc = "wrote" /\ j \in Range(client[d].placed)
      BY <1>3, <1>4, <2>2
    <3>2. j \in map /\ j # k
      BY <1>1, <1>16, <3>1
    <3> QED BY <1>1, <1>7, <1>8, <3>1, <3>2 DEF IInv, RowData
  <2> QED BY <2>1, <2>2 DEF RowData
<1>21. GhostsConsistent'
  BY <1>1 DEF IInv, GhostsConsistent
<1> QED BY <1>10, <1>11, <1>12, <1>13, <1>14, <1>15, <1>19, <1>20, <1>21 DEF IInv

\* Insert when every row is taken: the client enters Evict.
LEMMA InsertFullStep ==
    ASSUME IInv, NEW c \in Clients, NEW k \in Keys, Insert(c, k), ~HasFreeRow
    PROVE  IInv'
<1> DEFINE r == [client[c] EXCEPT !.pc = "evict"]
<1>1. /\ AtKey(c, k) /\ k \notin map /\ map' = map \cup {k}
      /\ ghost_set' = ghost_set \ {k}
      /\ freq' = [freq EXCEPT ![k] = 0] /\ ref' = [ref EXCEPT ![k] = -1]
      /\ pos' = [pos EXCEPT ![k] = Unset] /\ usage' = usage
      /\ hand' = IF policy = "sieve" THEN Prev(hand) ELSE hand
      /\ client' = [client EXCEPT ![c] = r]
      /\ UNCHANGED <<mtx, ghost_queue, tensor, source, policy>>
  BY DEF Insert, EraseGhost, data
<1>2. client[c].pc = "keys" /\ client[c].batch # <<>> /\ Head(client[c].batch) = k
  BY <1>1 DEF AtKey
<1>3. /\ r \in ClientState /\ r.pc = "evict" /\ r.batch = client[c].batch
      /\ r.found = client[c].found /\ r.placed = client[c].placed
  <2>1. client[c] \in ClientState
    BY DEF IInv, Types
  <2> QED BY <2>1 DEF ClientState
<1> HIDE DEF r
<1>4. /\ client' \in [Clients -> ClientState]
      /\ client'[c] = r /\ \A d \in Clients \ {c} : client'[d] = client[d]
  BY <1>1, <1>3, SetClient DEF IInv, Types
<1>5. /\ \A d \in Clients : ~Evicting(d)
      /\ \A d \in Clients : \A j : ~Inserting(d, j)
      /\ Extra = 0
  BY <1>2, NobodyEvicts DEF Inserting, Extra
<1>6. /\ \A d \in Clients : Evicting(d)' <=> d = c
      /\ \A d \in Clients : \A j : Inserting(d, j)' <=> d = c /\ j = k
      /\ Extra' = 1
  <2>1. \A d \in Clients : Evicting(d)' <=> d = c
    BY <1>3, <1>4, <1>5 DEF Evicting
  <2>2. \A d \in Clients : \A j : Inserting(d, j)' <=> d = c /\ j = k
    BY <1>2, <1>3, <1>4, <2>1 DEF Inserting
  <2> QED BY <2>1, <2>2 DEF Extra
<1>7. usage = Capacity /\ Capacity \in Nat /\ map \subseteq Keys
  BY CacheAssumption DEF IInv, Types, HasFreeRow
<1>8. /\ pos' \in [Keys -> Rows \cup {Unset}]
      /\ pos'[k] = Unset /\ \A j \in Keys \ {k} : pos'[j] = pos[j]
  BY <1>1 DEF IInv, Types
<1>9. /\ ref' \in [Keys -> (-MaxRef - 1)..MaxRef]
      /\ ref'[k] = -1 /\ \A j \in Keys \ {k} : ref'[j] = ref[j]
  BY <1>1, CacheAssumption DEF IInv, Types
<1>10. /\ hand' \in Range(queue') \cup {End}
       /\ policy # "sieve" => hand' = End
       /\ policy = "sieve" => hand' \in Range(queue')
  <2>1. CASE policy # "sieve"
    BY <1>1, <2>1 DEF IInv, Lists
  <2>2. CASE policy = "sieve"
    <3>1. /\ queue \in Seq(Keys) /\ IsInjective(queue) /\ k \notin Range(queue)
          /\ hand \in Range(queue) \cup {End} /\ queue' = <<k>> \o queue
      BY <1>1, <2>2, InsertLists DEF IInv, Types, Lists
    <3>2. /\ queue' \in Seq(Keys) /\ Len(queue') = Len(queue) + 1 /\ queue'[1] = k
          /\ Range(queue') = Range(queue) \cup {k} /\ IsInjective(queue')
      BY <3>1, PushFront
    <3>3. /\ Len(queue) \in Nat /\ DOMAIN queue' = 1..(Len(queue) + 1) /\ queue' # <<>>
      BY <3>1, <3>2, LenProperties, EmptyList
    <3>4. hand' = Prev(hand)
      BY <1>1, <2>2
    <3>5. CASE hand = End
      <4>1. Prev(hand) = Last(queue')
        BY <3>5 DEF Prev
      <4>2. Last(queue') \in Range(queue')
        BY <3>2, <3>3, PopBack
      <4> QED BY <2>2, <3>4, <4>1, <4>2
    <3>6. CASE hand # End
      <4> DEFINE i == IndexOf(queue', hand)
      <4>1. hand \in Range(queue') /\ hand # k
        BY <3>1, <3>2, <3>6
      <4>2. i \in 1..Len(queue') /\ queue'[i] = hand
        BY <3>2, <4>1, Erase
      <4>3. Prev(hand) = queue'[i - 1]
        BY <3>6 DEF Prev
      <4> HIDE DEF i
      <4>4. i - 1 \in 1..(Len(queue) + 1)
        BY <3>2, <3>3, <4>1, <4>2
      <4>5. queue'[i - 1] \in Range(queue')
        BY <3>3, <4>4 DEF Range
      <4> QED BY <2>2, <3>4, <4>3, <4>5
    <3> QED BY <3>5, <3>6
  <2> QED BY <2>1, <2>2
<1>11. Types'
  <2>1. freq' \in [Keys -> 0..3]
    BY <1>1 DEF IInv, Types
  <2> QED BY <1>1, <1>4, <1>8, <1>9, <2>1, InsertLists DEF IInv, Types
<1>12. Locking'
  BY <1>1, <1>2, <1>3, <1>4 DEF IInv, Locking
<1>13. EvictState'
  <2>1. policy = "sieve" => hand' # End
    <3>1. Range(queue') \subseteq Keys
      BY InsertLists, RangeOfSeq
    <3> QED BY <1>10, <3>1, CacheAssumption DEF End
  <2> QED BY <1>1, <1>2, <1>3, <1>4, <1>6, <1>7, <1>8, <1>9, <2>1 DEF EvictState
<1>14. Lists'
  <2>1. Len(small') + Len(queue') = usage' + Extra'
    <3>1. Len(small) + Len(queue) = usage + Extra
      BY DEF IInv, Lists
    <3>2. Len(small') + Len(queue') = Len(small) + Len(queue) + 1
      BY InsertLists
    <3> QED BY <1>1, <1>5, <1>6, <1>7, <3>1, <3>2
  <2> QED BY <1>1, <1>10, <2>1, InsertLists DEF Lists
<1>15. RowOf'
  <2>1. \A j \in map : pos[j] \in 0..(usage - 1)
    BY <1>5 DEF IInv, RowOf
  <2>2. ASSUME NEW j \in map'
        PROVE  \/ pos'[j] \in 0..(usage' - 1)
               \/ pos'[j] = Unset /\ \E d \in Clients : Inserting(d, j)'
    <3>1. CASE j = k
      BY <1>6, <1>8, <3>1
    <3>2. CASE j # k
      BY <1>1, <1>7, <1>8, <2>1, <3>2
    <3> QED BY <3>1, <3>2
  <2>3. ASSUME NEW j \in map', NEW l \in map', j # l, pos'[j] = pos'[l]
        PROVE  pos'[j] = Unset
    <3>1. CASE j = k \/ l = k
      BY <1>8, <2>3, <3>1
    <3>2. CASE j # k /\ l # k
      BY <1>1, <1>7, <1>8, <2>3, <3>2 DEF IInv, RowOf
    <3> QED BY <3>1, <3>2
  <2> QED BY <2>2, <2>3 DEF RowOf
<1>16. \A d \in Clients : client'[d].found = client[d].found /\ client'[d].placed = client[d].placed
  BY <1>3, <1>4
<1>17. Pointers'
  <2>1. \A j \in Keys : Held(j) # {} => j \in map' /\ ref'[j] = ref[j]
    BY <1>1, <1>9 DEF IInv, Pointers
  <2>2. \A j \in Keys : ref'[j] \in {-MaxRef - 1, -1} \cup 0..MaxRef
    BY <1>9 DEF IInv, Pointers
  <2> QED BY <1>16, <2>1, <2>2, PointersStay
<1>18. \A d \in Clients : \A j \in Range(client[d].placed) :
          /\ j \in map /\ j # k /\ ref[j] = -1
          /\ \A e \in Clients \ {d} : j \notin Range(client[e].placed)
  BY <1>1 DEF IInv, Placed
<1>19. Placed'
  <2> SUFFICES ASSUME NEW d \in Clients
               PROVE  /\ IsInjective(client'[d].placed)
                      /\ \A j \in Range(client'[d].placed) :
                           /\ j \in map' /\ ref'[j] = -1
                           /\ \A e \in Clients : ~Inserting(e, j)'
                           /\ \A e \in Clients \ {d} : j \notin Range(client'[e].placed)
    BY Zenon DEF Placed
  <2>1. IsInjective(client'[d].placed)
    BY <1>16 DEF IInv, Placed
  <2>2. ASSUME NEW j \in Range(client[d].placed)
        PROVE  j \in map' /\ ref'[j] = -1
    BY <1>1, <1>7, <1>9, <1>18
  <2> QED BY <1>6, <1>16, <1>18, <2>1, <2>2
<1>20. RowData'
  <2>1. ASSUME NEW j \in map', ref'[j] # -1 PROVE tensor'[pos'[j]].key = j
    BY <1>1, <1>7, <1>8, <1>9, <2>1 DEF IInv, RowData
  <2>2. ASSUME NEW d \in Clients, client'[d].pc = "wrote", NEW j \in Range(client'[d].placed)
        PROVE  tensor'[pos'[j]].key = j
    <3>1. client[d].pc = "wrote" /\ j \in Range(client[d].placed)
      BY <1>3, <1>4, <1>16, <2>2
    <3>2. j \in map /\ j # k
      BY <1>18, <3>1
    <3> QED BY <1>1, <1>7, <1>8, <3>1, <3>2 DEF IInv, RowData
  <2> QED BY <2>1, <2>2 DEF RowData
<1>21. GhostsConsistent'
  BY <1>1 DEF IInv, GhostsConsistent
<1> QED BY <1>11, <1>12, <1>13, <1>14, <1>15, <1>17, <1>19, <1>20, <1>21 DEF IInv

-----------------------------------------------------------------------------
(* The theorems *)

\* A step that changes nothing.
LEMMA StutterStep == ASSUME IInv, UNCHANGED vars PROVE IInv'
<1>1. UNCHANGED <<policy, mtx, map, small, small_size, queue, hand, freq, ref, pos, usage,
                  ghost_queue, ghost_set, tensor, source, client>>
  BY DEF vars, lists, entries, ghosts, data
<1>2. Types'
  BY <1>1 DEF IInv, Types
<1>3. Pointers'
  BY <1>1, PointersStay DEF IInv, Pointers
<1>4. Locking' /\ EvictState' /\ Lists' /\ RowOf' /\ Placed' /\ RowData' /\ GhostsConsistent'
  BY <1>1 DEF IInv, Locking, EvictState, Lists, RowOf, Placed, RowData, GhostsConsistent,
              Evicting, Inserting, Extra
<1> QED BY <1>2, <1>3, <1>4 DEF IInv

\* Every step preserves the invariant.
LEMMA NextIInv == IInv /\ [Next]_vars => IInv'
<1> SUFFICES ASSUME IInv, [Next]_vars PROVE IInv'
  OBVIOUS
<1>1. CASE UNCHANGED vars
  BY <1>1, StutterStep
<1>2. ASSUME NEW c \in Clients, NEW batch \in Batch, NEW call \in Calls, Call(c, call, batch)
      PROVE  IInv'
  BY <1>2, CallStep
<1>3. ASSUME NEW c \in Clients, NEW batch \in Batch, Update(c, batch) PROVE IInv'
  BY <1>3, UpdateStep
<1>4. ASSUME NEW c \in Clients, Step(c) PROVE IInv'
  <2>1. CASE Lock(c) \/ Unlock(c)
    BY <2>1, LockStep
  <2>2. ASSUME NEW k \in Keys, StartRead(c, k) PROVE IInv'
    BY <2>2, StartReadStep
  <2>3. ASSUME NEW k \in Keys, StartReadThrows(c, k) PROVE IInv'
    BY <2>3, StartReadThrowsStep
  <2>4. ASSUME NEW k \in Keys, MissBeingWritten(c, k) PROVE IInv'
    BY <2>4, MissBeingWrittenStep
  <2>5. ASSUME NEW k \in Keys, Miss(c, k) PROVE IInv'
    BY <2>5, MissStep
  <2>6. ASSUME NEW k \in Keys, Insert(c, k) PROVE IInv'
    BY <2>6, InsertFreeStep, InsertFullStep
  <2>7. CASE PassSmall(c) \/ EvictSmall(c)
    BY <2>7, PassSmallStep, EvictSmallStep
  <2>8. CASE PassBack(c) \/ EvictBack(c)
    BY <2>8, PassBackStep, EvictBackStep
  <2>9. CASE PassHand(c) \/ EvictHand(c)
    BY <2>9, PassHandStep, EvictHandStep
  <2>10. CASE EndRead(c) \/ EndWrite(c)
    BY <2>10, EndReadStep, EndWriteStep
  <2>11. CASE Fetch(c) \/ Return(c)
    BY <2>11, FetchStep
  <2>12. CASE WriteRows(c)
    BY <2>12, WriteRowsStep
  <2> QED BY <1>4, <2>1, <2>2, <2>3, <2>4, <2>5, <2>6, <2>7, <2>8, <2>9, <2>10, <2>11, <2>12
          DEF Step
<1> QED BY <1>1, <1>2, <1>3, <1>4 DEF Next

\* The strengthened invariant holds in every state.
THEOREM Invariance == Spec => []IInv
  BY InitIInv, NextIInv, PTL DEF Spec

\* Every variable of the cache keeps its type and its bound: in particular the
\* lists never hold more than Capacity entries and the one being inserted.
THEOREM TypeCorrect == Spec => []TypeOK
  BY Invariance, ImpliesTypeOK, PTL

\* key_to_cache_key_, the lists, small_queue_size_ and hand_ always agree, for
\* each of the four policies.
THEOREM IndexAgrees == Spec => []IndexConsistent
  BY Invariance, ImpliesIndexConsistent, PTL

\* No two entries ever share a row of the tensor.
THEOREM RowsAreUnique == Spec => []RowsUnique
  BY Invariance, ImpliesRowsUnique, PTL

\* No entry is evicted while a client holds a pointer to it, and no row is
\* written while another client reads or writes it, even when StartRead throws
\* or Replace leaks a count.
THEOREM InUseStays == Spec => []NoEvictionInUse
  BY Invariance, ImpliesNoEvictionInUse, PTL

\* A client that found a key reads the row of that key.
THEOREM ReadersSafe == Spec => []ReadersSeeTheirRow
  BY Invariance, ImpliesReadersSeeTheirRow, PTL

\* ghost_set_ only holds keys that the ghost queue remembers and the cache has
\* dropped.
THEOREM GhostsAgree == Spec => []GhostsConsistent
<1>1. IInv => GhostsConsistent
  BY DEF IInv
<1> QED BY <1>1, Invariance, PTL

-----------------------------------------------------------------------------
(* The exact value of reference_count_ *)

\* Clients that read through the cache: no Replace, no update of a feature.
ReadThrough == Calls \subseteq {"query", "query_and_replace"}

\* A read for which the count has no room.
Throws == \E c \in Clients, k \in Keys : StartReadThrows(c, k)

\* No call of Replace is under way, and the pointers for reading are all dropped
\* before a client writes or returns.
Callers ==
    \A c \in Clients :
        /\ client[c].call # "replace"
        /\ client[c].pc \in {"idle", "lock", "write", "wrote"} => Len(client[c].found) = 0

\* A count stands for a writer, or for no more than the pointers there are.
Counts ==
    \A k \in map : \/ ref[k] = -1 /\ \E c \in Clients : Writing(c, k)
                   \/ ref[k] \in 0..Readers(k)

Exact == Callers /\ Counts

\* With Pointers, which has the other bound, Counts is RefCountsUse.
LEMMA ImpliesRefCountsUse == IInv /\ Exact => RefCountsUse
<1> SUFFICES ASSUME IInv, Exact, NEW k \in map
             PROVE  ref[k] = IF \E c \in Clients : Writing(c, k) THEN -1 ELSE Readers(k)
  BY DEF RefCountsUse
<1>1. k \in Keys
  BY DEF IInv, Types
<1>2. CASE \E c \in Clients : Writing(c, k)
  <2>1. ref[k] = -1
    BY <1>2 DEF IInv, Writing, Placed, EvictState
  <2> QED BY <1>2, <2>1
<1>3. CASE ~\E c \in Clients : Writing(c, k)
  <2>1. ref[k] \in 0..Readers(k)
    BY <1>3 DEF Exact, Counts
  <2>2. IsFiniteSet(Held(k)) /\ (Held(k) # {} => Cardinality(Held(k)) <= Uses(ref[k]))
    BY <1>1 DEF IInv, Pointers
  <2>3. Readers(k) \in Nat /\ (Held(k) = {} => Readers(k) = 0)
    BY <2>2, FS_CardinalityType, FS_EmptySet DEF Readers
  <2>4. Uses(ref[k]) = ref[k]
    BY <2>1, <2>3 DEF Uses
  <2>5. Readers(k) <= ref[k]
    BY <2>1, <2>2, <2>3, <2>4 DEF Readers
  <2>6. ref[k] = Readers(k)
    BY <2>1, <2>3, <2>5
  <2> QED BY <1>3, <2>6
<1> QED BY <1>2, <1>3

\* Nobody holds a pointer in the empty cache.
LEMMA InitExact == Init => Exact
<1> SUFFICES ASSUME Init PROVE Exact
  OBVIOUS
<1>1. Counts
  BY DEF Init, Counts
<1>2. Idle.call = "query" /\ Len(Idle.found) = 0
  BY DEF Idle
<1>3. Callers
  BY <1>2 DEF Init, Callers
<1> QED BY <1>1, <1>3 DEF Exact

\* Only client c changes.
Only(c) == \A d \in Clients : d # c => client'[d] = client[d]

\* The pointers for reading stay.
LEMMA HeldStays ==
    ASSUME NEW k, \A d \in Clients : client'[d].found = client[d].found
    PROVE  Held(k)' = Held(k) /\ Readers(k)' = Readers(k)
<1>1. \A x : x \in Held(k)' <=> x \in Held(k)
  BY HeldElements
<1>2. Held(k)' = Held(k)
  BY <1>1
<1> QED BY <1>2 DEF Readers

\* What a client at its keys has after NextKey.
LEMMA NextKeyFields ==
    ASSUME IInv, NEW c \in Clients, NEW field \in {"found", "placed", "none"}, NextKey(c, field)
    PROVE  /\ Only(c)
           /\ client'[c].pc = "keys" /\ client'[c].call = client[c].call
           /\ client'[c].batch = Tail(client[c].batch)
           /\ client'[c].found = IF field = "found"
                                 THEN Append(client[c].found, Head(client[c].batch))
                                 ELSE client[c].found
           /\ client'[c].placed = IF field = "placed"
                                  THEN Append(client[c].placed, Head(client[c].batch))
                                  ELSE client[c].placed
<1> DEFINE me == client[c]
           Took(f, list) == IF field = f THEN Append(list, Head(me.batch)) ELSE list
           r == [me EXCEPT !.pc = "keys", !.batch = Tail(me.batch),
                           !.found = Took("found", me.found),
                           !.placed = Took("placed", me.placed)]
<1>1. client \in [Clients -> ClientState] /\ client[c] \in ClientState
  BY DEF IInv, Types
<1>2. client' = [client EXCEPT ![c] = r]
  BY DEF NextKey
<1>3. /\ r.pc = "keys" /\ r.call = client[c].call /\ r.batch = Tail(client[c].batch)
      /\ r.found = Took("found", me.found) /\ r.placed = Took("placed", me.placed)
  BY <1>1 DEF ClientState
<1> HIDE DEF r
<1>4. client'[c] = r /\ Only(c)
  BY <1>1, <1>2 DEF Only
<1> QED BY <1>3, <1>4

\* A step that changes no count, no pointer and no writer.
Quiet(c) ==
    /\ Only(c) /\ map' = map /\ ref' = ref
    /\ client'[c].call # "replace"
    /\ client'[c].found = client[c].found /\ client'[c].placed = client[c].placed
    /\ client'[c].pc = "evict" <=> client[c].pc = "evict"
    /\ client[c].pc = "evict" => client'[c].batch = client[c].batch
    /\ client'[c].pc \in {"idle", "lock", "write", "wrote"} => Len(client[c].found) = 0

\* A quiet step keeps the counts exact.
LEMMA QuietStep == ASSUME Exact, NEW c \in Clients, Quiet(c) PROVE Exact'
<1>1. \A d \in Clients : client'[d].found = client[d].found
  BY DEF Quiet, Only
<1>2. ASSUME NEW d \in Clients, NEW k, Writing(d, k) PROVE Writing(d, k)'
  BY <1>2 DEF Quiet, Only, Writing, Evicting
<1>3. Callers'
  BY DEF Exact, Callers, Quiet, Only
<1>4. Counts'
  <2> SUFFICES ASSUME NEW k \in map
               PROVE  \/ ref[k] = -1 /\ \E d \in Clients : Writing(d, k)'
                      \/ ref[k] \in 0..Readers(k)'
    BY DEF Counts, Quiet
  <2>1. CASE ref[k] = -1 /\ \E d \in Clients : Writing(d, k)
    BY <1>2, <2>1
  <2>2. CASE ref[k] \in 0..Readers(k)
    BY <1>1, <2>2, HeldStays
  <2> QED BY <2>1, <2>2 DEF Exact, Counts
<1> QED BY <1>3, <1>4 DEF Exact

\* The calls and the steps around the loop over the keys are of this kind.
LEMMA OutsideQuiet ==
    ASSUME ReadThrough, IInv, Exact, NEW c \in Clients,
           \/ \E call \in Calls, batch \in Batch : Call(c, call, batch)
           \/ Lock(c) \/ Unlock(c) \/ Fetch(c) \/ WriteRows(c) \/ Return(c)
    PROVE  Quiet(c)
<1> DEFINE me == client[c]
<1>1. /\ client \in [Clients -> ClientState] /\ me \in ClientState
      /\ me.found \in Seq(Keys) /\ me.placed \in Seq(Keys)
  BY DEF IInv, Types, ClientState
<1>2. me.call # "replace" /\ (me.pc \in {"idle", "lock", "write", "wrote"} => Len(me.found) = 0)
  BY DEF Exact, Callers
<1>3. ASSUME NEW r \in ClientState, client' = [client EXCEPT ![c] = r], map' = map, ref' = ref,
             r.call # "replace", r.found = me.found, r.placed = me.placed,
             r.pc # "evict", me.pc # "evict",
             r.pc \in {"idle", "lock", "write", "wrote"} => Len(me.found) = 0
      PROVE  Quiet(c)
  <2>1. client'[c] = r /\ Only(c)
    BY <1>1, <1>3 DEF Only
  <2> QED BY <1>3, <2>1 DEF Quiet
<1>4. ASSUME NEW call \in Calls, NEW batch \in Batch, Call(c, call, batch) PROVE Quiet(c)
  <2> DEFINE r == [me EXCEPT !.pc = "lock", !.call = call, !.batch = batch,
                             !.val = IF call = "replace" THEN source ELSE me.val]
  <2>1. call \in {"query", "query_and_replace"} /\ batch \in Seq(Keys)
        /\ source \in [Keys -> 0..MaxVersion]
    BY BatchIsSeq DEF ReadThrough, IInv, Types
  <2>2. /\ r \in ClientState /\ r.pc = "lock" /\ r.call = call
        /\ r.found = me.found /\ r.placed = me.placed
    BY <1>1, <2>1 DEF ClientState
  <2>3. client' = [client EXCEPT ![c] = r] /\ me.pc = "idle" /\ map' = map /\ ref' = ref
    BY <1>4 DEF Call, lists, entries
  <2> HIDE DEF r
  <2> QED BY <1>2, <1>3, <2>1, <2>2, <2>3
<1>5. CASE Lock(c)
  <2> DEFINE r == [me EXCEPT !.pc = "keys"]
  <2>1. /\ r \in ClientState /\ r.pc = "keys" /\ r.call = me.call
        /\ r.found = me.found /\ r.placed = me.placed
    BY <1>1 DEF ClientState
  <2>2. client' = [client EXCEPT ![c] = r] /\ me.pc = "lock" /\ map' = map /\ ref' = ref
    BY <1>5 DEF Lock, lists, entries
  <2> HIDE DEF r
  <2> QED BY <1>2, <1>3, <2>1, <2>2
<1>6. CASE Unlock(c)
  <2> DEFINE r == [me EXCEPT !.pc = "read"]
  <2>1. /\ r \in ClientState /\ r.pc = "read" /\ r.call = me.call
        /\ r.found = me.found /\ r.placed = me.placed
    BY <1>1 DEF ClientState
  <2>2. client' = [client EXCEPT ![c] = r] /\ me.pc = "keys" /\ map' = map /\ ref' = ref
    BY <1>6 DEF Unlock, lists, entries
  <2> HIDE DEF r
  <2> QED BY <1>2, <1>3, <2>1, <2>2
<1>7. CASE Fetch(c)
  <2> DEFINE r == [me EXCEPT !.pc = "write",
                     !.val = IF me.call = "query_and_replace" THEN source ELSE me.val]
  <2>1. /\ r \in ClientState /\ r.pc = "write" /\ r.call = me.call
        /\ r.found = me.found /\ r.placed = me.placed
    BY <1>1 DEF ClientState, IInv, Types
  <2>2. client' = [client EXCEPT ![c] = r] /\ me.pc = "read" /\ map' = map /\ ref' = ref
    BY <1>7 DEF Fetch, lists, entries
  <2>3. me.found = <<>>
    BY <1>7 DEF Fetch
  <2>4. Len(me.found) = 0
    BY <1>1, <2>3, EmptySeq
  <2> HIDE DEF r
  <2> QED BY <1>2, <1>3, <2>1, <2>2, <2>4
<1>8. CASE WriteRows(c)
  <2> DEFINE r == [me EXCEPT !.pc = "wrote"]
  <2>1. /\ r \in ClientState /\ r.pc = "wrote" /\ r.call = me.call
        /\ r.found = me.found /\ r.placed = me.placed
    BY <1>1 DEF ClientState
  <2>2. client' = [client EXCEPT ![c] = r] /\ me.pc = "write" /\ map' = map /\ ref' = ref
    BY <1>8 DEF WriteRows, lists, entries
  <2> HIDE DEF r
  <2> QED BY <1>2, <1>3, <2>1, <2>2
<1>9. CASE Return(c)
  <2>1. client' = [client EXCEPT ![c] = Idle] /\ me.pc = "wrote" /\ map' = map /\ ref' = ref
        /\ me.placed = <<>>
    BY <1>9 DEF Return, lists, entries
  <2>2. Len(me.found) = 0
    BY <1>2, <2>1
  <2>3. me.found = <<>>
    BY <1>1, <2>2, EmptySeq
  <2>4. Idle.call = "query"
    BY DEF Idle
  <2> QED BY <1>3, <2>1, <2>2, <2>3, <2>4, IdleState
<1> QED BY <1>4, <1>5, <1>6, <1>7, <1>8, <1>9

\* So are the misses, and an iteration of Evict that passes over an entry.
LEMMA InsideQuiet ==
    ASSUME IInv, Exact, NEW c \in Clients,
           \/ \E k \in Keys : MissBeingWritten(c, k) \/ Miss(c, k)
           \/ PassSmall(c) \/ PassBack(c) \/ PassHand(c)
    PROVE  Quiet(c)
<1>1. client[c].call # "replace"
  BY DEF Exact, Callers
<1>2. ASSUME NEW k \in Keys, MissBeingWritten(c, k) \/ Miss(c, k) PROVE Quiet(c)
  <2>1. NextKey(c, "none") /\ client[c].pc = "keys" /\ map' = map /\ ref' = ref
    BY <1>2 DEF MissBeingWritten, Miss, AtKey, Hit, lists, entries
  <2> QED BY <1>1, <2>1, NextKeyFields DEF Quiet
<1>3. ASSUME PassSmall(c) \/ PassBack(c) \/ PassHand(c) PROVE Quiet(c)
  <2>1. client' = client /\ map' = map /\ ref' = ref /\ client[c].pc = "evict"
    BY <1>3 DEF PassSmall, PassBack, PassHand, KeepLooking, Evicting
  <2> QED BY <1>1, <2>1 DEF Quiet, Only
<1> QED BY <1>2, <1>3

\* The pointers for reading stay; the count of every entry stays with its
\* writers, becomes -1 with a writer, or becomes 0.
Recounted(j) ==
    \/ ref'[j] = -1 /\ \E d \in Clients : Writing(d, j)'
    \/ j \in map /\ ref'[j] = ref[j] /\ \A d \in Clients : Writing(d, j) => Writing(d, j)'
    \/ ref'[j] = 0

\* Such a step keeps Counts.
LEMMA RecountedStep ==
    ASSUME Exact, IInv', \A d \in Clients : client'[d].found = client[d].found,
           \A j \in map' : Recounted(j)
    PROVE  Counts'
<1> SUFFICES ASSUME NEW j \in map'
             PROVE  \/ ref'[j] = -1 /\ \E d \in Clients : Writing(d, j)'
                    \/ ref'[j] \in 0..Readers(j)'
  BY DEF Counts
<1>1. Readers(j)' \in Nat
  <2>1. j \in Keys /\ IsFiniteSet(Held(j)')
    BY DEF IInv, Types, Pointers
  <2> QED BY <2>1, FS_CardinalityType DEF Readers
<1>2. CASE j \in map /\ ref'[j] = ref[j] /\ \A d \in Clients : Writing(d, j) => Writing(d, j)'
  <2>1. Readers(j)' = Readers(j)
    BY HeldStays
  <2> QED BY <1>2, <2>1 DEF Exact, Counts
<1>3. CASE ref'[j] = 0
  BY <1>1, <1>3
<1> QED BY <1>2, <1>3 DEF Recounted

\* Calls and pointers for reading of a client that stays inside its call.
LEMMA CallersStay ==
    ASSUME Exact, NEW c \in Clients, Only(c), client'[c].call = client[c].call,
           \/ client'[c].pc \in {"keys", "evict", "read"}
           \/ client'[c].found = client[c].found /\ client'[c].pc = client[c].pc
    PROVE  Callers'
  BY DEF Exact, Callers, Only

\* Insert: the new entry has its writer, in its pointers or in Evict.
LEMMA InsertExact ==
    ASSUME IInv, IInv', Exact, NEW c \in Clients, NEW k \in Keys, Insert(c, k)
    PROVE  Exact'
<1>1. /\ client[c].pc = "keys" /\ Head(client[c].batch) = k /\ k \notin map
      /\ map' = map \cup {k} /\ ref' = [ref EXCEPT ![k] = -1]
  BY DEF Insert, AtKey
<1>2. /\ client \in [Clients -> ClientState] /\ client[c] \in ClientState
      /\ client[c].placed \in Seq(Keys) /\ ref \in [Keys -> (-MaxRef - 1)..MaxRef]
      /\ map \subseteq Keys
  BY DEF IInv, Types, ClientState
<1>3. ref'[k] = -1 /\ \A j \in map : ref'[j] = ref[j]
  BY <1>1, <1>2
<1>4. \A d \in Clients : ~Evicting(d)
  BY <1>1, NobodyEvicts
<1>5. /\ Only(c) /\ client'[c].call = client[c].call /\ client'[c].pc \in {"keys", "evict"}
      /\ client'[c].found = client[c].found
      /\ Range(client[c].placed) \subseteq Range(client'[c].placed)
      /\ Writing(c, k)'
  <2>1. CASE HasFreeRow
    <3>1. NextKey(c, "placed")
      BY <2>1 DEF Insert
    <3>2. Range(Append(client[c].placed, k)) = Range(client[c].placed) \cup {k}
      BY <1>2, AppendNew
    <3>3. /\ Only(c) /\ client'[c].call = client[c].call /\ client'[c].pc = "keys"
          /\ client'[c].found = client[c].found
          /\ client'[c].placed = Append(client[c].placed, k)
      BY <1>1, <3>1, NextKeyFields
    <3> QED BY <3>2, <3>3 DEF Writing
  <2>2. CASE ~HasFreeRow
    <3> DEFINE r == [client[c] EXCEPT !.pc = "evict"]
    <3>1. client' = [client EXCEPT ![c] = r]
      BY <2>2 DEF Insert
    <3>2. /\ r.pc = "evict" /\ r.call = client[c].call /\ r.batch = client[c].batch
          /\ r.found = client[c].found /\ r.placed = client[c].placed
      BY <1>2 DEF ClientState
    <3> HIDE DEF r
    <3>3. client'[c] = r /\ Only(c)
      BY <1>2, <3>1 DEF Only
    <3> QED BY <1>1, <3>2, <3>3 DEF Writing, Evicting
  <2> QED BY <2>1, <2>2
<1>6. Callers'
  BY <1>5, CallersStay
<1>7. ASSUME NEW j \in map' PROVE Recounted(j)
  <2>1. CASE j = k
    BY <1>3, <1>5, <2>1 DEF Recounted
  <2>2. CASE j # k
    <3>1. j \in map /\ ref'[j] = ref[j]
      BY <1>1, <1>3, <2>2
    <3>2. ASSUME NEW d \in Clients, Writing(d, j) PROVE Writing(d, j)'
      BY <1>4, <1>5, <3>2 DEF Writing, Only
    <3> QED BY <3>1, <3>2 DEF Recounted
  <2> QED BY <2>1, <2>2
<1>8. \A d \in Clients : client'[d].found = client[d].found
  BY <1>5 DEF Only
<1>9. Counts'
  BY <1>7, <1>8, RecountedStep
<1> QED BY <1>6, <1>9 DEF Exact

\* Evict gives the row of its victim: the victim is gone with its count.
LEMMA GiveRowExact ==
    ASSUME IInv, IInv', Exact, NEW c \in Clients, Evicting(c), NEW victim, GiveRow(c, victim)
    PROVE  Exact'
<1> DEFINE n == Head(client[c].batch)
<1>1. /\ map' = map \ {victim} /\ ref' = [ref EXCEPT ![victim] = 0] /\ NextKey(c, "placed")
  BY DEF GiveRow, Forget
<1>2. /\ client[c].placed \in Seq(Keys) /\ ref \in [Keys -> (-MaxRef - 1)..MaxRef]
      /\ map \subseteq Keys /\ n \in Keys
  BY DEF IInv, Types, ClientState, EvictState
<1>3. /\ Only(c) /\ client'[c].call = client[c].call /\ client'[c].pc = "keys"
      /\ client'[c].found = client[c].found
      /\ client'[c].placed = Append(client[c].placed, n)
  BY <1>1, NextKeyFields
<1>4. Range(client'[c].placed) = Range(client[c].placed) \cup {n}
  BY <1>2, <1>3, AppendNew
<1>5. ASSUME NEW d \in Clients, NEW j, Writing(d, j) PROVE Writing(d, j)'
  <2>1. CASE d = c
    BY <1>4, <1>5, <2>1 DEF Writing
  <2>2. CASE d # c
    BY <1>3, <1>5, <2>2 DEF Writing, Only, Evicting
  <2> QED BY <2>1, <2>2
<1>6. \A j \in map' : Recounted(j)
  BY <1>1, <1>2, <1>5 DEF Recounted
<1>7. \A d \in Clients : client'[d].found = client[d].found
  BY <1>3 DEF Only
<1>8. Callers' /\ Counts'
  BY <1>3, <1>6, <1>7, RecountedStep, CallersStay
<1> QED BY <1>8 DEF Exact

\* EndUse of a writer: the count goes from -1 to 0.
LEMMA EndWriteExact ==
    ASSUME IInv, IInv', Exact, NEW c \in Clients, EndWrite(c)
    PROVE  Exact'
<1> DEFINE f == client[c].placed
           k == Head(f)
           r == [client[c] EXCEPT !.placed = Tail(f)]
<1>1. /\ client[c].pc = "wrote" /\ f # <<>> /\ map' = map
      /\ ref' = [ref EXCEPT ![k] = Wrap(ref[k] + 1)]
      /\ client' = [client EXCEPT ![c] = r]
  BY DEF EndWrite, EndUse, lists
<1>2. /\ client \in [Clients -> ClientState] /\ client[c] \in ClientState /\ f \in Seq(Keys)
      /\ ref \in [Keys -> (-MaxRef - 1)..MaxRef] /\ map \subseteq Keys
  BY DEF IInv, Types, ClientState
<1>3. /\ r.pc = "wrote" /\ r.call = client[c].call /\ r.batch = client[c].batch
      /\ r.placed = Tail(f) /\ r.found = client[c].found
  BY <1>1, <1>2 DEF ClientState
<1> HIDE DEF r
<1>4. client'[c] = r /\ Only(c)
  BY <1>1, <1>2 DEF Only
<1>5. /\ Len(f) \in Nat \ {0} /\ DOMAIN f = 1..Len(f)
      /\ DOMAIN Tail(f) = 1..(Len(f) - 1)
      /\ \A i \in 1..(Len(f) - 1) : Tail(f)[i] = f[i + 1]
      /\ k = f[1] /\ k \in Keys
  BY <1>1, <1>2, HeadTailProperties, LenProperties, EmptySeq
<1> HIDE DEF f, k
<1>6. k \in Range(f)
  BY <1>5 DEF Range
<1>7. ref[k] = -1
  BY <1>6 DEF IInv, Placed, f
<1>8. ref'[k] = 0 /\ \A j \in map : j # k => ref'[j] = ref[j]
  <2>1. Wrap(0) = 0
    BY WrapValue, CacheAssumption
  <2> QED BY <1>1, <1>2, <1>5, <1>7, <2>1
<1>9. ASSUME NEW j \in Range(f), j # k PROVE j \in Range(Tail(f))
  <2>1. PICK i \in 1..Len(f) : f[i] = j
    BY <1>5, <1>9 DEF Range
  <2>2. i - 1 \in 1..(Len(f) - 1) /\ (i - 1) + 1 = i
    BY <1>5, <1>9, <2>1
  <2>3. Tail(f)[i - 1] = j
    BY <1>5, <2>1, <2>2
  <2> QED BY <1>5, <2>2, <2>3 DEF Range
<1>10. ASSUME NEW d \in Clients, NEW j, j # k, Writing(d, j) PROVE Writing(d, j)'
  <2>1. CASE d # c
    BY <1>4, <1>10, <2>1 DEF Writing, Only, Evicting
  <2>2. CASE d = c
    <3>1. j \in Range(f)
      BY <1>1, <1>10, <2>2 DEF Writing, Evicting, f
    <3>2. j \in Range(client'[c].placed)
      BY <1>3, <1>4, <1>9, <1>10, <3>1
    <3> QED BY <2>2, <3>2 DEF Writing
  <2> QED BY <2>1, <2>2
<1>11. \A j \in map' : Recounted(j)
  BY <1>1, <1>8, <1>10 DEF Recounted
<1>12. \A d \in Clients : client'[d].found = client[d].found
  BY <1>3, <1>4 DEF Only
<1>13. Callers' /\ Counts'
  BY <1>1, <1>3, <1>4, <1>11, <1>12, RecountedStep, CallersStay
<1> QED BY <1>13 DEF Exact

\* A client drops its first pointer: no other pointer is lost.
LEMMA HeldDropsOne ==
    ASSUME NEW c \in Clients, NEW k \in Keys,
           client[c].found \in Seq(Keys), client[c].found # <<>>,
           client'[c].found = Tail(client[c].found), Only(c),
           IsFiniteSet(Held(k)), IsFiniteSet(Held(k)')
    PROVE  /\ Readers(k)' >= Readers(k) - 1
           /\ k # Head(client[c].found) => Readers(k)' >= Readers(k)
<1> DEFINE f == client[c].found
           Rest == Held(k) \ {<<c, 1>>}
           down == [x \in Rest |-> IF x[1] = c THEN <<c, x[2] - 1>> ELSE x]
<1>1. /\ Len(f) \in Nat \ {0} /\ DOMAIN f = 1..Len(f)
      /\ DOMAIN Tail(f) = 1..(Len(f) - 1)
      /\ \A i \in 1..(Len(f) - 1) : Tail(f)[i] = f[i + 1]
      /\ Head(f) = f[1]
  BY HeadTailProperties, LenProperties, EmptySeq
<1>2. ASSUME NEW x \in Rest
      PROVE  /\ x[1] = c => /\ x = <<c, x[2]>> /\ x[2] \in 2..Len(f)
                            /\ <<c, x[2] - 1>> \in Held(k)'
             /\ x[1] # c => x \in Held(k)'
  <2>1. PICK d \in Clients : \E i \in DOMAIN client[d].found :
                                client[d].found[i] = k /\ x = <<d, i>>
    BY HeldElements
  <2>2. CASE d # c
    <3>1. x \in Held(k)'
      BY <2>1, <2>2, HeldElements DEF Only
    <3> QED BY <2>1, <2>2, <3>1
  <2>3. CASE d = c
    <3> HIDE DEF f
    <3>1. PICK i \in 1..Len(f) : f[i] = k /\ x = <<c, i>> /\ i # 1
      BY <1>1, <2>1, <2>3 DEF f
    <3>2. i \in 2..Len(f) /\ i - 1 \in 1..(Len(f) - 1) /\ (i - 1) + 1 = i
      BY <1>1, <3>1
    <3>3. i - 1 \in DOMAIN Tail(f) /\ Tail(f)[i - 1] = k
      BY <1>1, <3>1, <3>2
    <3>4. <<c, i - 1>> \in Held(k)'
      BY <3>3, HeldElements DEF f
    <3> QED BY <3>1, <3>2, <3>4
  <2> QED BY <2>2, <2>3
<1> HIDE DEF f
<1>3. down \in Injection(Rest, Held(k)')
  <2>1. down \in [Rest -> Held(k)']
    BY <1>2
  <2>2. ASSUME NEW x \in Rest, NEW y \in Rest, down[x] = down[y] PROVE x = y
    <3>1. CASE x[1] = c /\ y[1] = c
      <4>1. x[2] - 1 = y[2] - 1 /\ x[2] \in Int /\ y[2] \in Int
        BY <1>1, <1>2, <2>2, <3>1
      <4>2. x = <<c, x[2]>> /\ y = <<c, y[2]>>
        BY <1>2, <3>1
      <4>3. x[2] = y[2]
        BY <4>1
      <4> QED BY <4>2, <4>3
    <3>2. CASE x[1] # c /\ y[1] # c
      BY <2>2, <3>2
    <3>3. CASE x[1] = c /\ y[1] # c
      <4>1. y = <<c, x[2] - 1>>
        BY <2>2, <3>3
      <4> QED BY <4>1, <3>3
    <3>4. CASE x[1] # c /\ y[1] = c
      <4>1. x = <<c, y[2] - 1>>
        BY <2>2, <3>4
      <4> QED BY <4>1, <3>4
    <3> QED BY <3>1, <3>2, <3>3, <3>4
  <2> HIDE DEF down
  <2>3. DOMAIN down = Rest
    BY <2>1
  <2> QED BY <2>1, <2>2, <2>3 DEF Injection, IsInjective
<1>4. /\ IsFiniteSet(Rest)
      /\ Cardinality(Rest) =
           IF <<c, 1>> \in Held(k) THEN Cardinality(Held(k)) - 1 ELSE Cardinality(Held(k))
  BY FS_RemoveElement
<1>5. Cardinality(Held(k)) \in Nat /\ Cardinality(Held(k)') \in Nat
  BY FS_CardinalityType
<1> HIDE DEF down, Rest
<1>6. Cardinality(Rest) <= Cardinality(Held(k)')
  BY <1>3, <1>4, FS_Injection
<1>7. k # Head(f) => <<c, 1>> \notin Held(k)
  BY <1>1, HeldElements DEF f
<1> QED BY <1>4, <1>5, <1>6, <1>7 DEF f, Readers

\* EndUse of a reader: the count goes down with the pointers.
LEMMA EndReadExact ==
    ASSUME IInv, IInv', Exact, NEW c \in Clients, EndRead(c)
    PROVE  Exact'
<1> DEFINE f == client[c].found
           k == Head(f)
           r == [client[c] EXCEPT !.found = Tail(f)]
<1>1. /\ client[c].pc = "read" /\ f # <<>> /\ map' = map
      /\ ref' = [ref EXCEPT ![k] = Wrap(ref[k] - 1)]
      /\ client' = [client EXCEPT ![c] = r]
  BY DEF EndRead, EndUse, lists
<1>2. /\ client \in [Clients -> ClientState] /\ client[c] \in ClientState /\ f \in Seq(Keys)
      /\ ref \in [Keys -> (-MaxRef - 1)..MaxRef] /\ map \subseteq Keys
  BY DEF IInv, Types, ClientState
<1>3. /\ r.pc = "read" /\ r.call = client[c].call /\ r.batch = client[c].batch
      /\ r.found = Tail(f) /\ r.placed = client[c].placed
  BY <1>1, <1>2 DEF ClientState
<1> HIDE DEF r
<1>4. client'[c] = r /\ Only(c)
  BY <1>1, <1>2 DEF Only
<1>5. k \in Keys /\ Reading(c, k)
  <2>1. 1 \in DOMAIN f /\ f[1] = k /\ k \in Keys
    BY <1>1, <1>2, HeadTailProperties, LenProperties, EmptySeq
  <2> HIDE DEF k
  <2> QED BY <2>1 DEF Reading, Range
<1> HIDE DEF k
<1>6. k \in map /\ ref[k] # 0 /\ ref[k] # -1
  BY <1>5, ReadingHeld, ImpliesNoEvictionInUse DEF NoEvictionInUse, IInv, Pointers
<1>7. \A j \in Keys : /\ IsFiniteSet(Held(j)) /\ IsFiniteSet(Held(j)')
                      /\ Readers(j) \in Nat /\ Readers(j)' \in Nat
  BY FS_CardinalityType DEF IInv, Pointers, Readers
<1>8. \A j \in Keys : /\ Readers(j)' >= Readers(j) - 1
                      /\ j # k => Readers(j)' >= Readers(j)
  BY <1>1, <1>2, <1>3, <1>4, <1>7, HeldDropsOne DEF k
<1>9. ref[k] \in 1..MaxRef /\ ref[k] <= Readers(k)
  BY <1>2, <1>5, <1>6, <1>7 DEF Exact, Counts
<1>10. ref'[k] = ref[k] - 1 /\ \A j \in map : j # k => ref'[j] = ref[j]
  <2>1. Wrap(ref[k] - 1) = ref[k] - 1
    <3>1. ref[k] - 1 \in (-MaxRef - 1)..MaxRef
      BY <1>9, CacheAssumption
    <3> QED BY <3>1, WrapValue
  <2> QED BY <1>1, <1>2, <1>5, <2>1
<1>11. ASSUME NEW d \in Clients, NEW j, Writing(d, j) PROVE Writing(d, j)'
  BY <1>1, <1>3, <1>4, <1>11 DEF Writing, Only, Evicting
<1>12. Counts'
  <2> SUFFICES ASSUME NEW j \in map
               PROVE  \/ ref'[j] = -1 /\ \E d \in Clients : Writing(d, j)'
                      \/ ref'[j] \in 0..Readers(j)'
    BY <1>1 DEF Counts
  <2>0. j \in Keys
    BY <1>2
  <2>1. CASE j = k
    BY <1>5, <1>7, <1>8, <1>9, <1>10, <2>1
  <2>2. CASE j # k
    <3>1. ref'[j] = ref[j]
      BY <1>10, <2>2
    <3>2. CASE ref[j] = -1 /\ \E d \in Clients : Writing(d, j)
      BY <1>11, <3>1, <3>2
    <3>3. CASE ref[j] \in 0..Readers(j)
      BY <1>7, <1>8, <2>0, <2>2, <3>1, <3>3
    <3> QED BY <3>2, <3>3 DEF Exact, Counts
  <2> QED BY <2>1, <2>2
<1>13. Callers'
  BY <1>3, <1>4, CallersStay
<1> QED BY <1>12, <1>13 DEF Exact

\* One more pointer to the entry of k, and no other is lost.
LEMMA HeldGrowsByOne ==
    ASSUME NEW c \in Clients, NEW k \in Keys, NEW j \in Keys,
           client[c].found \in Seq(Keys),
           client'[c].found = Append(client[c].found, k), Only(c),
           IsFiniteSet(Held(j)), IsFiniteSet(Held(j)')
    PROVE  Readers(j)' >= IF j = k THEN Readers(j) + 1 ELSE Readers(j)
<1> DEFINE f == client[c].found
           new == <<c, Len(f) + 1>>
<1>1. /\ Len(f) \in Nat /\ DOMAIN f = 1..Len(f)
      /\ DOMAIN Append(f, k) = 1..(Len(f) + 1)
      /\ \A i \in 1..Len(f) : Append(f, k)[i] = f[i]
      /\ Append(f, k)[Len(f) + 1] = k
  BY AppendProperties, LenProperties
<1> HIDE DEF f
<1>2. ASSUME NEW x \in Held(j) PROVE x \in Held(j)' /\ x # new
  <2>1. PICK d \in Clients : \E i \in DOMAIN client[d].found :
                                client[d].found[i] = j /\ x = <<d, i>>
    BY HeldElements
  <2>2. CASE d # c
    BY <2>1, <2>2, HeldElements DEF Only
  <2>3. CASE d = c
    <3>1. PICK i \in 1..Len(f) : f[i] = j /\ x = <<c, i>>
      BY <1>1, <2>1, <2>3 DEF f
    <3>2. i \in 1..(Len(f) + 1) /\ i # Len(f) + 1
      BY <1>1
    <3>3. <<c, i>> \in Held(j)'
      BY <1>1, <3>1, <3>2, HeldElements DEF f
    <3> QED BY <3>1, <3>2, <3>3
  <2> QED BY <2>2, <2>3
<1>3. j = k => new \in Held(j)'
  <2>1. Len(f) + 1 \in 1..(Len(f) + 1)
    BY <1>1
  <2> QED BY <1>1, <2>1, HeldElements DEF f
<1> HIDE DEF new
<1>4. Cardinality(Held(j)) \in Nat /\ Cardinality(Held(j)') \in Nat
  BY FS_CardinalityType
<1>5. Cardinality(Held(j)) <= Cardinality(Held(j)')
  BY <1>2, FS_Subset
<1>6. ASSUME j = k PROVE Cardinality(Held(j)) + 1 <= Cardinality(Held(j)')
  <2> DEFINE More == Held(j) \cup {new}
  <2>1. Cardinality(More) = Cardinality(Held(j)) + 1
    BY <1>2, FS_AddElement
  <2>2. More \subseteq Held(j)'
    BY <1>2, <1>3, <1>6
  <2> HIDE DEF More
  <2> QED BY <2>1, <2>2, FS_Subset
<1> QED BY <1>4, <1>5, <1>6 DEF Readers

\* StartRead: the count goes up with the pointers.
LEMMA StartReadExact ==
    ASSUME IInv, IInv', Exact, NEW c \in Clients, NEW k \in Keys, StartRead(c, k)
    PROVE  Exact'
<1>1. /\ client[c].pc = "keys" /\ Head(client[c].batch) = k /\ ref[k] >= 0
      /\ map' = map /\ k \in map /\ ref' = [ref EXCEPT ![k] = ref[k] + 1]
  BY DEF StartRead, AtKey, Hit, BeingWritten, IInv, Types
<1>2. /\ ref \in [Keys -> (-MaxRef - 1)..MaxRef] /\ map \subseteq Keys
      /\ client[c].found \in Seq(Keys)
  BY DEF IInv, Types, ClientState
<1>3. NextKey(c, "found")
  BY DEF StartRead, Exact, Callers
<1>4. /\ Only(c) /\ client'[c].call = client[c].call /\ client'[c].pc = "keys"
      /\ client'[c].found = Append(client[c].found, k)
      /\ client'[c].placed = client[c].placed
  BY <1>1, <1>3, NextKeyFields
<1>5. \A j \in Keys : /\ IsFiniteSet(Held(j)) /\ IsFiniteSet(Held(j)')
                      /\ Readers(j) \in Nat /\ Readers(j)' \in Nat
  BY FS_CardinalityType DEF IInv, Pointers, Readers
<1>6. \A j \in Keys : Readers(j)' >= IF j = k THEN Readers(j) + 1 ELSE Readers(j)
  BY <1>2, <1>4, <1>5, HeldGrowsByOne
<1>7. ref[k] \in 0..Readers(k)
  BY <1>1 DEF Exact, Counts
<1>8. ref'[k] = ref[k] + 1 /\ \A j \in map : j # k => ref'[j] = ref[j]
  BY <1>1, <1>2
<1>9. ASSUME NEW d \in Clients, NEW j, Writing(d, j) PROVE Writing(d, j)'
  BY <1>1, <1>4, <1>9 DEF Writing, Only, Evicting
<1>10. Counts'
  <2> SUFFICES ASSUME NEW j \in map
               PROVE  \/ ref'[j] = -1 /\ \E d \in Clients : Writing(d, j)'
                      \/ ref'[j] \in 0..Readers(j)'
    BY <1>1 DEF Counts
  <2>0. j \in Keys
    BY <1>2
  <2>1. CASE j = k
    BY <1>5, <1>6, <1>7, <1>8, <2>1
  <2>2. CASE j # k
    <3>1. ref'[j] = ref[j]
      BY <1>8, <2>2
    <3>2. CASE ref[j] = -1 /\ \E d \in Clients : Writing(d, j)
      BY <1>9, <3>1, <3>2
    <3>3. CASE ref[j] \in 0..Readers(j)
      BY <1>5, <1>6, <2>0, <2>2, <3>1, <3>3
    <3> QED BY <3>2, <3>3 DEF Exact, Counts
  <2> QED BY <2>1, <2>2
<1>11. Callers'
  BY <1>4, CallersStay
<1> QED BY <1>10, <1>11 DEF Exact

\* Every step of clients that read through the cache keeps the counts exact,
\* unless StartRead throws.
LEMMA NextExact ==
    ASSUME ReadThrough, IInv, IInv', Exact, [Next]_vars, [~Throws]_vars
    PROVE  Exact'
<1>1. CASE UNCHANGED vars
  <2>1. map' = map /\ ref' = ref /\ client' = client
    BY <1>1 DEF vars, lists, entries
  <2>2. \A d \in Clients : client'[d].found = client[d].found
    BY <2>1
  <2>3. \A k \in map' : Recounted(k)
    BY <2>1 DEF Recounted, Writing, Evicting
  <2>4. Counts'
    BY <2>2, <2>3, RecountedStep
  <2>5. Callers'
    BY <2>1 DEF Exact, Callers
  <2> QED BY <2>4, <2>5 DEF Exact
<1>2. CASE Next /\ ~UNCHANGED vars
  <2>0. ~Throws
    BY <1>2
  <2>1. PICK c \in Clients :
           \/ \E batch \in Batch : \/ \E call \in Calls : Call(c, call, batch)
                                   \/ Update(c, batch)
           \/ Step(c)
    BY <1>2 DEF Next
  <2>2. ASSUME Quiet(c) PROVE Exact'
    BY <2>2, QuietStep
  <2>3. ASSUME NEW batch \in Batch, Update(c, batch) PROVE FALSE
    BY <2>3 DEF Update, ReadThrough
  <2>4. ASSUME NEW batch \in Batch, NEW call \in Calls, Call(c, call, batch) PROVE Exact'
    BY <2>2, <2>4, OutsideQuiet
  <2>5. CASE Lock(c) \/ Unlock(c) \/ Fetch(c) \/ WriteRows(c) \/ Return(c)
    BY <2>2, <2>5, OutsideQuiet
  <2>6. CASE PassSmall(c) \/ PassBack(c) \/ PassHand(c)
    BY <2>2, <2>6, InsideQuiet
  <2>7. ASSUME NEW k \in Keys, MissBeingWritten(c, k) \/ Miss(c, k) PROVE Exact'
    BY <2>2, <2>7, InsideQuiet
  <2>8. ASSUME NEW k \in Keys, StartRead(c, k) PROVE Exact'
    BY <2>8, StartReadExact
  <2>9. ASSUME NEW k \in Keys, StartReadThrows(c, k) PROVE FALSE
    BY <2>0, <2>9 DEF Throws
  <2>10. ASSUME NEW k \in Keys, Insert(c, k) PROVE Exact'
    BY <2>10, InsertExact
  <2>11. CASE EvictSmall(c) \/ EvictBack(c) \/ EvictHand(c)
    <3>1. Evicting(c) /\ \E victim : GiveRow(c, victim)
      BY <2>11 DEF EvictSmall, EvictBack, EvictHand
    <3> QED BY <3>1, GiveRowExact
  <2>12. CASE EndRead(c)
    BY <2>12, EndReadExact
  <2>13. CASE EndWrite(c)
    BY <2>13, EndWriteExact
  <2> QED BY <2>1, <2>3, <2>4, <2>5, <2>6, <2>7, <2>8, <2>9, <2>10, <2>11, <2>12, <2>13 DEF Step
<1> QED BY <1>1, <1>2

\* Clients that read through the cache never leave a count behind: as long as
\* no StartRead throws, reference_count_ of every entry is -1 while its row is
\* written and otherwise the number of pointers held for reading, so that an
\* entry nobody uses can be evicted.
THEOREM CountsExact ==
    ASSUME ReadThrough
    PROVE  Spec /\ [][~Throws]_vars => []RefCountsUse
<1>1. IInv /\ IInv' /\ Exact /\ [Next]_vars /\ [~Throws]_vars => Exact'
  BY NextExact
<1>2. Spec /\ [][~Throws]_vars => []Exact
  BY <1>1, Invariance, InitExact, PTL DEF Spec
<1> QED BY <1>2, Invariance, ImpliesRefCountsUse, PTL

-----------------------------------------------------------------------------
(* Counts that can not overflow *)

\* The keys of a call are those it has left and those it did not drop.
Load(c) == Len(client[c].found) + Len(client[c].batch)
Bounded == \A c \in Clients : Load(c) <= MaxBatch

\* Sums of two lengths.
LEMMA Sums ==
    ASSUME NEW a \in Nat, NEW b \in Nat, NEW p \in Nat, NEW q \in Nat
    PROVE  /\ a + b \in Nat
           /\ p <= a /\ q <= b => p + q <= a + b
           /\ p <= a + 1 /\ q = b - 1 => p + q <= a + b
           /\ a + b <= p => a <= p
           /\ a + b <= p /\ b # 0 => a + 1 \in 1..p
           /\ a <= b /\ b <= p => a <= p
  OBVIOUS

\* The types of the lists of a client.
LEMMA Loads ==
    ASSUME IInv, NEW c \in Clients
    PROVE  /\ client[c] \in ClientState
           /\ client[c].found \in Seq(Keys) /\ client[c].batch \in Seq(Keys)
           /\ Len(client[c].found) \in Nat /\ Len(client[c].batch) \in Nat
           /\ Load(c) \in Nat
<1>1. /\ client[c] \in ClientState
      /\ client[c].found \in Seq(Keys) /\ client[c].batch \in Seq(Keys)
  BY DEF IInv, Types, ClientState
<1>2. Len(client[c].found) \in Nat /\ Len(client[c].batch) \in Nat
  BY <1>1, LenProperties
<1>3. Load(c) \in Nat
  BY <1>2, Sums DEF Load
<1> QED BY <1>1, <1>2, <1>3

\* The number of keys of a batch.
LEMMA BatchLength == \A batch \in Batch : Len(batch) \in 1..MaxBatch
<1> SUFFICES ASSUME NEW n \in 1..MaxBatch, NEW batch \in [1..n -> Keys]
             PROVE  Len(batch) \in 1..MaxBatch
  BY DEF Batch
<1>1. n \in Nat
  BY CacheAssumption
<1>2. batch \in Seq(Keys) /\ DOMAIN batch = 1..n
  BY <1>1
<1>3. Len(batch) = n
  BY <1>1, <1>2
<1> QED BY <1>3

\* A new client has no keys.
LEMMA InitBounded == Init => Bounded
<1> SUFFICES ASSUME Init PROVE Bounded
  OBVIOUS
<1>1. Len(Idle.found) + Len(Idle.batch) <= MaxBatch
  BY CacheAssumption DEF Idle
<1>2. \A c \in Clients : client[c] = Idle
  BY DEF Init
<1> QED BY <1>1, <1>2 DEF Bounded, Load

\* The lists of a client that does not start a call only shrink, but for a key
\* that moves from its batch to its pointers.
Shrinks(c) ==
    /\ Only(c)
    /\ Load(c)' <= Load(c)

\* Such a step keeps the bound.
LEMMA ShrinksStep ==
    ASSUME IInv, IInv', Bounded, NEW c \in Clients, Shrinks(c) PROVE Bounded'
<1> SUFFICES ASSUME NEW d \in Clients PROVE Load(d)' <= MaxBatch
  BY DEF Bounded
<1>1. CASE d = c
  <2>1. Load(c) \in Nat /\ Load(c) <= MaxBatch /\ Load(c)' <= Load(c) /\ MaxBatch \in Nat
    BY Loads, CacheAssumption DEF Bounded, Shrinks
  <2>2. Load(c)' \in Nat
    <3>1. client'[c].found \in Seq(Keys) /\ client'[c].batch \in Seq(Keys)
      BY DEF IInv, Types, ClientState
    <3>2. Len(client'[c].found) \in Nat /\ Len(client'[c].batch) \in Nat
      BY <3>1, LenProperties
    <3> QED BY <3>2, Sums DEF Load
  <2> QED BY <1>1, <2>1, <2>2, Sums
<1>2. CASE d # c
  <2>1. Load(d)' = Load(d)
    BY <1>2 DEF Shrinks, Only, Load
  <2> QED BY <2>1 DEF Bounded
<1> QED BY <1>1, <1>2

\* The end of one round of the loop over the keys is one.
LEMMA NextKeyShrinks ==
    ASSUME IInv, NEW c \in Clients, client[c].batch # <<>>,
           NEW field \in {"found", "placed", "none"}, NextKey(c, field)
    PROVE  Shrinks(c)
<1> DEFINE f == client[c].found
           b == client[c].batch
<1>1. f \in Seq(Keys) /\ b \in Seq(Keys)
  BY DEF IInv, Types, ClientState
<1>2. Len(f) \in Nat /\ Len(b) \in Nat /\ Len(Tail(b)) = Len(b) - 1 /\ Head(b) \in Keys
  BY <1>1, HeadTailProperties, LenProperties
<1>3. Len(Append(f, Head(b))) = Len(f) + 1
  BY <1>1, <1>2, AppendProperties
<1>4. /\ Only(c) /\ client'[c].batch = Tail(b)
      /\ client'[c].found \in {f, Append(f, Head(b))}
  BY NextKeyFields
<1> HIDE DEF f, b
<1>5. Len(client'[c].found) <= Len(f) + 1 /\ Len(client'[c].found) \in Nat
  BY <1>2, <1>3, <1>4
<1>6. b # <<>>
  BY DEF b
<1>7. Len(client'[c].batch) = Len(b) - 1 /\ Len(b) # 0
  BY <1>1, <1>2, <1>4, <1>6, EmptySeq
<1>8. Len(client'[c].batch) \in Nat
  BY <1>2, <1>7
<1>9. Len(client'[c].found) + Len(client'[c].batch) <= Len(f) + Len(b)
  BY <1>2, <1>5, <1>7, <1>8, Sums
<1> QED BY <1>4, <1>9 DEF Shrinks, Load, f, b

\* Every step keeps the bound.
LEMMA NextBounded ==
    ASSUME ReadThrough, IInv, IInv', Exact, Bounded, [Next]_vars
    PROVE  Bounded'
<1>1. CASE UNCHANGED vars
  BY <1>1 DEF vars, Bounded, Load
<1>2. ASSUME NEW c \in Clients, Shrinks(c) PROVE Bounded'
  BY <1>2, ShrinksStep
<1>3. ASSUME NEW c \in Clients, NEW r, client' = [client EXCEPT ![c] = r],
             r.batch = client[c].batch,
             Len(r.found) \in Nat /\ Len(r.found) <= Len(client[c].found)
      PROVE  Shrinks(c)
  <2>1. client'[c] = r /\ Only(c)
    BY <1>3 DEF IInv, Types, Only
  <2>2. Len(r.found) + Len(r.batch) <= Len(client[c].found) + Len(client[c].batch)
    BY <1>3, Loads, Sums
  <2> QED BY <2>1, <2>2 DEF Shrinks, Load
<1>4. ASSUME NEW c \in Clients, NEW call \in Calls, NEW batch \in Batch, Call(c, call, batch)
      PROVE  Bounded'
  <2> DEFINE r == [client[c] EXCEPT !.pc = "lock", !.call = call, !.batch = batch,
                     !.val = IF call = "replace" THEN source ELSE client[c].val]
  <2>1. client' = [client EXCEPT ![c] = r] /\ client[c].pc = "idle"
    BY <1>4 DEF Call
  <2>2. r.found = client[c].found /\ r.batch = batch
    BY Loads DEF ClientState
  <2> HIDE DEF r
  <2>3. client'[c] = r /\ Only(c)
    BY <2>1 DEF IInv, Types, Only
  <2>4. Len(client[c].found) = 0 /\ Len(batch) \in 1..MaxBatch
    BY <2>1, BatchLength DEF Exact, Callers
  <2>5. Len(r.found) + Len(r.batch) <= MaxBatch
    BY <2>2, <2>4, CacheAssumption
  <2> SUFFICES ASSUME NEW d \in Clients PROVE Load(d)' <= MaxBatch
    BY DEF Bounded
  <2>6. CASE d = c
    BY <2>3, <2>5, <2>6 DEF Load
  <2>7. CASE d # c
    <3>1. Load(d)' = Load(d)
      BY <2>3, <2>7 DEF Only, Load
    <3> QED BY <3>1 DEF Bounded
  <2> QED BY <2>6, <2>7
<1>5. ASSUME NEW c \in Clients, NEW batch \in Batch, Update(c, batch) PROVE FALSE
  BY <1>5 DEF Update, ReadThrough
<1>6. ASSUME NEW c \in Clients, Return(c) \/ \E k \in Keys : StartReadThrows(c, k)
      PROVE  Shrinks(c)
  <2>1. client' = [client EXCEPT ![c] = Idle]
    BY <1>6 DEF Return, StartReadThrows
  <2>2. client'[c] = Idle /\ Only(c)
    BY <2>1 DEF IInv, Types, Only
  <2>3. Len(Idle.found) = 0 /\ Len(Idle.batch) = 0
    BY DEF Idle
  <2>4. Load(c)' = 0
    BY <2>2, <2>3 DEF Load
  <2> QED BY <2>2, <2>4, Loads DEF Shrinks
<1>7. ASSUME NEW c \in Clients, NEW pc, client' = [client EXCEPT ![c].pc = pc] PROVE Shrinks(c)
  <2> DEFINE r == [client[c] EXCEPT !.pc = pc]
  <2>1. client' = [client EXCEPT ![c] = r]
    BY <1>7
  <2>2. r.batch = client[c].batch /\ r.found = client[c].found
    BY Loads DEF ClientState
  <2> HIDE DEF r
  <2>3. Len(r.found) \in Nat /\ Len(r.found) <= Len(client[c].found)
    BY <2>2, Loads
  <2> QED BY <1>3, <2>1, <2>2, <2>3
<1>8. ASSUME NEW c \in Clients, Fetch(c) \/ EndRead(c) \/ EndWrite(c) PROVE Shrinks(c)
  <2> DEFINE me == client[c]
             t == [me EXCEPT !.found = Tail(me.found)]
             v == [me EXCEPT !.pc = "write",
                     !.val = IF me.call = "query_and_replace" THEN source ELSE me.val]
             w == [me EXCEPT !.placed = Tail(me.placed)]
  <2>1. me \in ClientState /\ me.found \in Seq(Keys) /\ Len(me.found) \in Nat
    BY Loads
  <2>2. /\ t.batch = me.batch /\ t.found = Tail(me.found)
        /\ v.batch = me.batch /\ v.found = me.found
        /\ w.batch = me.batch /\ w.found = me.found
    BY <2>1 DEF ClientState
  <2>3. \/ client' = [client EXCEPT ![c] = v]
        \/ client' = [client EXCEPT ![c] = w]
        \/ client' = [client EXCEPT ![c] = t] /\ me.found # <<>>
    BY <1>8 DEF Fetch, EndRead, EndWrite
  <2> HIDE DEF t, v, w
  <2>4. CASE client' = [client EXCEPT ![c] = v] \/ client' = [client EXCEPT ![c] = w]
    <3>1. Len(me.found) <= Len(me.found)
      BY <2>1
    <3> QED BY <1>3, <2>1, <2>2, <2>4, <3>1
  <2>5. CASE client' = [client EXCEPT ![c] = t] /\ me.found # <<>>
    <3>1. Len(me.found) # 0 /\ Len(t.found) = Len(me.found) - 1
      BY <2>1, <2>2, <2>5, EmptySeq, HeadTailProperties
    <3>2. Len(t.found) \in Nat /\ Len(t.found) <= Len(me.found)
      BY <2>1, <3>1
    <3> QED BY <1>3, <2>2, <2>5, <3>2
  <2> QED BY <2>3, <2>4, <2>5
<1>9. ASSUME NEW c \in Clients, PassSmall(c) \/ PassBack(c) \/ PassHand(c) PROVE Shrinks(c)
  <2>1. client' = client
    BY <1>9 DEF PassSmall, PassBack, PassHand, KeepLooking
  <2>2. Load(c)' = Load(c)
    BY <2>1 DEF Load
  <2> QED BY <2>1, <2>2, Loads DEF Shrinks, Only
<1>10. ASSUME NEW c \in Clients, EvictSmall(c) \/ EvictBack(c) \/ EvictHand(c) PROVE Shrinks(c)
  <2>1. client[c].batch # <<>> /\ NextKey(c, "placed")
    BY <1>10 DEF EvictSmall, EvictBack, EvictHand, GiveRow, IInv, EvictState
  <2> QED BY <2>1, NextKeyShrinks
<1>11. ASSUME NEW c \in Clients, NEW k \in Keys,
              StartRead(c, k) \/ MissBeingWritten(c, k) \/ Miss(c, k)
       PROVE  Shrinks(c)
  <2>1. client[c].batch # <<>> /\ (NextKey(c, "found") \/ NextKey(c, "none"))
    BY <1>11 DEF StartRead, MissBeingWritten, Miss, AtKey
  <2> QED BY <2>1, NextKeyShrinks
<1>12. ASSUME NEW c \in Clients, NEW k \in Keys, Insert(c, k) PROVE Shrinks(c)
  <2>1. CASE HasFreeRow
    <3>1. client[c].batch # <<>> /\ NextKey(c, "placed")
      BY <1>12, <2>1 DEF Insert, AtKey
    <3> QED BY <3>1, NextKeyShrinks
  <2>2. CASE ~HasFreeRow
    <3>1. client' = [client EXCEPT ![c].pc = "evict"]
      BY <1>12, <2>2 DEF Insert
    <3> QED BY <1>7, <3>1
  <2> QED BY <2>1, <2>2
<1>13. ASSUME NEW c \in Clients, Lock(c) \/ Unlock(c) \/ WriteRows(c) PROVE Shrinks(c)
  <2>1. \E pc : client' = [client EXCEPT ![c].pc = pc]
    BY <1>13 DEF Lock, Unlock, WriteRows
  <2> QED BY <1>7, <2>1
<1> QED BY <1>1, <1>2, <1>4, <1>5, <1>6, <1>8, <1>9, <1>10, <1>11, <1>12, <1>13 DEF Next, Step

\* With room for every pointer the clients can hold, StartRead never throws: the
\* pointers to one entry, and the one being asked for, have different places.
LEMMA RoomForAll ==
    ASSUME IsFiniteSet(Clients), Cardinality(Clients) * MaxBatch <= MaxRef,
           IInv, Exact, Bounded
    PROVE  ~Throws
<1> SUFFICES ASSUME NEW c \in Clients, NEW k \in Keys, StartReadThrows(c, k) PROVE FALSE
  BY DEF Throws
<1> DEFINE All == Clients \X (1..MaxBatch)
           new == <<c, Len(client[c].found) + 1>>
<1>1. MaxRef \in Nat \ {0} /\ MaxBatch \in Nat \ {0}
  BY CacheAssumption
<1>2. k \in map /\ ref[k] = MaxRef /\ client[c].batch # <<>>
  BY DEF StartReadThrows, Hit, AtKey
<1>3. Readers(k) >= MaxRef /\ Readers(k) \in Nat /\ IsFiniteSet(Held(k))
  <2>1. IsFiniteSet(Held(k))
    BY DEF IInv, Pointers
  <2>2. Readers(k) \in Nat
    BY <2>1, FS_CardinalityType DEF Readers
  <2>3. ref[k] \in 0..Readers(k)
    BY <1>1, <1>2 DEF Exact, Counts
  <2> QED BY <1>1, <1>2, <2>1, <2>2, <2>3
<1>4. ASSUME NEW d \in Clients
      PROVE  /\ Len(client[d].found) \in Nat /\ Len(client[d].found) <= MaxBatch
             /\ DOMAIN client[d].found = 1..Len(client[d].found)
  <2>1. Len(client[d].found) + Len(client[d].batch) <= MaxBatch
    BY DEF Bounded, Load
  <2>2. /\ Len(client[d].found) \in Nat /\ Len(client[d].batch) \in Nat
        /\ DOMAIN client[d].found = 1..Len(client[d].found)
    BY Loads, LenProperties
  <2> QED BY <1>1, <2>1, <2>2, Sums
<1>5. Len(client[c].found) + 1 \in 1..MaxBatch
  <2>1. Len(client[c].found) + Len(client[c].batch) <= MaxBatch
    BY DEF Bounded, Load
  <2>2. /\ Len(client[c].found) \in Nat /\ Len(client[c].batch) \in Nat
        /\ client[c].batch \in Seq(Keys)
    BY Loads
  <2>3. Len(client[c].batch) # 0
    BY <1>2, <2>2, EmptySeq
  <2> QED BY <1>1, <2>1, <2>2, <2>3, Sums
<1>6. ASSUME NEW x \in Held(k) PROVE x \in All /\ x # new
  <2>1. PICK d \in Clients : \E i \in DOMAIN client[d].found :
                                client[d].found[i] = k /\ x = <<d, i>>
    BY HeldElements
  <2>2. PICK i \in 1..Len(client[d].found) : x = <<d, i>>
    BY <1>4, <2>1
  <2>3. i \in 1..MaxBatch
    BY <1>1, <1>4
  <2>4. i # Len(client[d].found) + 1
    BY <1>4
  <2> QED BY <2>2, <2>3, <2>4
<1>7. IsFiniteSet(All) /\ Cardinality(All) = Cardinality(Clients) * MaxBatch
  <2>1. IsFiniteSet(1..MaxBatch) /\ Cardinality(1..MaxBatch) = MaxBatch
    BY <1>1, FS_Interval
  <2> QED BY <2>1, FS_Product
<1> DEFINE More == Held(k) \cup {new}
<1>8. More \subseteq All
  BY <1>5, <1>6
<1> HIDE DEF All, new
<1>9. Cardinality(More) = Readers(k) + 1
  BY <1>3, <1>6, FS_AddElement DEF Readers
<1> HIDE DEF More
<1>10. Cardinality(More) <= Cardinality(All)
  BY <1>7, <1>8, FS_Subset
<1>11. Cardinality(Clients) * MaxBatch \in Nat
  BY <1>7, FS_CardinalityType
<1> QED BY <1>1, <1>3, <1>7, <1>9, <1>10, <1>11

\* The exact counts without a condition on the run: when all the pointers the
\* clients can hold at a time fit into the int8_t, no StartRead throws and
\* RefCountsUse is an invariant.
THEOREM CountsExactWithRoom ==
    ASSUME ReadThrough, IsFiniteSet(Clients), Cardinality(Clients) * MaxBatch <= MaxRef
    PROVE  Spec => []RefCountsUse
<1> DEFINE EInv == IInv /\ Exact /\ Bounded
<1>1. Init => EInv
  BY InitIInv, InitExact, InitBounded
<1>2. ASSUME EInv, [Next]_vars PROVE EInv'
  <2>1. IInv'
    BY <1>2, NextIInv
  <2>2. ~Throws
    BY <1>2, RoomForAll
  <2>3. Exact' /\ Bounded'
    BY <1>2, <2>1, <2>2, NextExact, NextBounded
  <2> QED BY <2>1, <2>3
<1>3. EInv => RefCountsUse
  BY ImpliesRefCountsUse
<1> HIDE DEF EInv
<1>4. EInv /\ [Next]_vars => EInv'
  BY <1>2
<1> QED BY <1>1, <1>3, <1>4, PTL DEF Spec

=============================================================================
