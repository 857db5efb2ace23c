---------------------------- MODULE CachePolicy ----------------------------
(***************************************************************************)
(* The CPU feature cache of GraphBolt: one cache policy (graphbolt/src/    *)
(* cache_policy.{h,cc}: S3-FIFO, SIEVE, LRU or CLOCK) behind the mutex of  *)
(* PartitionedCachePolicy (one partition), the rows of FeatureCache, and   *)
(* the clients of CPUFeatureCache.                                         *)
(*                                                                         *)
(* The policy decides under mtx_ which row holds which key.  The rows are  *)
(* read and written after the mutex is released; reference_count_ keeps    *)
(* an entry from being evicted meanwhile, and is dropped by EndUse without *)
(* the mutex, also while another client is inside Evict.                   *)
(*                                                                         *)
(* The head of a list is the front of the std::list.  A CacheKey pointer   *)
(* is the key it points to, with the fields freq, ref and pos.             *)
(*                                                                         *)
(* A definition whose name ends in _Bug is a faulty variant of the one     *)
(* after it; no specification uses it.                                     *)
(***************************************************************************)
EXTENDS Integers, Sequences, FiniteSets, SequencesExt

CONSTANTS
    Policies,       \* those to look at: "s3-fifo", "sieve", "lru", "clock"
    Capacity,       \* capacity_, the number of rows
    SmallTarget,    \* small_queue_size_target_ (capacity / 10 in the code)
    GhostCapacity,  \* capacity of ghost_queue_ (capacity - capacity / 10)
    MaxRef,         \* largest reference_count_ (int8_t: 127)
    Keys,           \* feature ids
    NoKey,          \* no key; also queue_.end()
    Clients,        \* threads that use the cache
    NoClient,
    Calls,          \* the calls they make
    MaxBatch,       \* bound: keys of one call
    MaxVersion      \* bound: updates of one feature

ASSUME CacheAssumption ==
    /\ Policies \subseteq {"s3-fifo", "sieve", "lru", "clock"}
    /\ Capacity \in Nat \ {0}
    /\ SmallTarget \in 1..Capacity
    /\ GhostCapacity \in Nat \ {0}
    /\ MaxRef \in Nat \ {0}
    /\ NoKey \notin Keys
    /\ NoClient \notin Clients
    /\ Calls \subseteq {"query", "query_and_replace", "replace", "update"}
    /\ MaxBatch \in Nat \ {0}
    /\ MaxVersion \in Nat

Rows == 0..(Capacity - 1)
Unset == -1                 \* position of an entry that has no row yet
End == NoKey
Batch == UNION {[1..n -> Keys] : n \in 1..MaxBatch}

VARIABLES
    policy,         \* class of the policy, fixed when the cache is created
    mtx,            \* holder of PartitionedCachePolicy::mtx_
    map,            \* keys of key_to_cache_key_
    small,          \* small_queue_ (S3-FIFO)
    small_size,     \* small_queue_size_
    queue,          \* queue_, or main_queue_ of S3-FIFO
    hand,           \* hand_ (SIEVE)
    freq, ref, pos, \* fields of the CacheKey of each key
    usage,          \* cache_usage_
    ghost_queue, ghost_set,
    tensor,         \* FeatureCache::tensor_: what each row holds
    source,         \* version of each feature in the fallback storage
    client          \* client -> its call

lists == <<map, small, small_size, queue, hand>>
ghosts == <<ghost_queue, ghost_set>>
entries == <<freq, ref, pos, usage>>
data == <<tensor, source, policy>>
vars == <<mtx, lists, entries, ghosts, data, client>>

\* batch: keys left; found, placed: pointers got for reading and for writing;
\* val: versions of the features the client is going to write.
Idle == [pc |-> "idle", call |-> "query", batch |-> <<>>, found |-> <<>>,
         placed |-> <<>>, val |-> [k \in Keys |-> 0]]

Init ==
    /\ policy \in Policies
    /\ mtx = NoClient
    /\ map = {} /\ small = <<>> /\ small_size = 0 /\ queue = <<>> /\ hand = End
    /\ freq = [k \in Keys |-> 0]
    /\ ref = [k \in Keys |-> 0]
    /\ pos = [k \in Keys |-> Unset]
    /\ usage = 0
    /\ ghost_queue = <<>> /\ ghost_set = {}
    /\ tensor = [r \in Rows |-> [key |-> NoKey, ver |-> 0]]
    /\ source = [k \in Keys |-> 0]
    /\ client = [c \in Clients |-> Idle]

-----------------------------------------------------------------------------
(* CacheKey *)

\* reference_count_ is an int8_t whose atomic fetch_add wraps around.
Wrap(n) == ((n + MaxRef + 1) % (2 * MaxRef + 2)) - (MaxRef + 1)

BeingWritten_Bug(k) == FALSE
BeingWritten(k) == ref[k] < 0

InUse_Bug(k) == ref[k] < 0
InUse(k) == ref[k] # 0

\* The eviction loops pass over an entry that was used or is in use.
Hot(k) == freq[k] > 0 \/ InUse(k)

\* What a hit does to freq_: Increment, SetFreq, or nothing.
Touched(k) ==
    CASE policy = "s3-fifo" -> IF freq[k] < 3 THEN freq[k] + 1 ELSE 3
      [] policy = "lru" -> freq[k]
      [] OTHER -> 1

\* What an eviction loop does to freq_ of an entry it passes over in queue.
Cooled(k) == IF policy = "s3-fifo" /\ freq[k] > 0 THEN freq[k] - 1 ELSE 0

IndexOf(s, k) == CHOOSE i \in DOMAIN s : s[i] = k
Without(k, s) == RemoveAt(s, IndexOf(s, k))
ToFront(k, s) == <<k>> \o Without(k, s)
Pass(s) == <<Last(s)>> \o Front(s)

-----------------------------------------------------------------------------
(* Calls, and the loop over their keys under mtx_ *)

\* A client calls Query, QueryAndReplace or Replace of CPUFeatureCache.  The
\* values passed to Replace are those the fallback storage holds.
Call(c, call, batch) ==
    /\ client[c].pc = "idle"
    /\ call \in Calls \ {"update"}
    /\ client' = [client EXCEPT ![c] =
                    [@ EXCEPT !.pc = "lock", !.call = call, !.batch = batch,
                              !.val = IF call = "replace" THEN source ELSE client[c].val]]
    /\ UNCHANGED <<mtx, lists, entries, ghosts, data>>

\* CPUCachedFeature.update(value, ids): the fallback storage is updated, then
\* the cache is called with the same values.
Update(c, batch) ==
    /\ client[c].pc = "idle"
    /\ "update" \in Calls
    /\ \A i \in DOMAIN batch : source[batch[i]] < MaxVersion
    /\ source' = [k \in Keys |-> IF k \in Range(batch) THEN source[k] + 1
                                                       ELSE source[k]]
    /\ client' = [client EXCEPT ![c] =
                    [@ EXCEPT !.pc = "lock", !.call = "replace", !.batch = batch,
                              !.val = source']]
    /\ UNCHANGED <<mtx, lists, entries, ghosts, tensor, policy>>

Lock(c) ==
    /\ client[c].pc = "lock"
    /\ mtx = NoClient
    /\ mtx' = c
    /\ client' = [client EXCEPT ![c].pc = "keys"]
    /\ UNCHANGED <<lists, entries, ghosts, data>>

\* The key the loop of client c is at, while c holds mtx_.
AtKey(c, k) == client[c].pc = "keys" /\ client[c].batch # <<>> /\ Head(client[c].batch) = k

NextKey(c, field) ==
    LET me == client[c]
        Took(f, list) == IF field = f THEN Append(list, Head(me.batch)) ELSE list
    IN client' = [client EXCEPT ![c] =
                    [me EXCEPT !.pc = "keys", !.batch = Tail(me.batch),
                               !.found = Took("found", me.found),
                               !.placed = Took("placed", me.placed)]]

\* Read or Emplace of a key in the map: the entry counts as used.
Hit(k) ==
    /\ k \in map
    /\ freq' = [freq EXCEPT ![k] = Touched(k)]
    /\ queue' = IF policy = "lru" THEN ToFront(k, queue) ELSE queue
    /\ UNCHANGED <<map, small, small_size, hand, pos, usage, ghosts, data>>

\* Readable: StartRead.  ReplaceImpl ignores that Emplace has started a read,
\* and returns a null pointer.
StartRead(c, k) ==
    /\ AtKey(c, k)
    /\ Hit(k)
    /\ ~BeingWritten(k)
    /\ ref[k] < MaxRef
    /\ ref' = [ref EXCEPT ![k] = @ + 1]
    /\ NextKey(c, IF client[c].call = "replace" THEN "none" ELSE "found")
    /\ UNCHANGED mtx

\* The TORCH_CHECK of StartRead, after the fetch_add has wrapped around: the
\* exception releases mtx_ and the pointers of the call are lost.
StartReadThrows(c, k) ==
    /\ AtKey(c, k)
    /\ Hit(k)
    /\ ~BeingWritten(k)
    /\ ref[k] = MaxRef
    /\ ref' = [ref EXCEPT ![k] = Wrap(@ + 1)]
    /\ client' = [client EXCEPT ![c] = Idle]
    /\ mtx' = NoClient

\* Being written by another client, or earlier in this batch: a miss without a
\* row (position INT64_MIN, null pointer).
MissBeingWritten(c, k) ==
    /\ AtKey(c, k)
    /\ Hit(k)
    /\ BeingWritten(k)
    /\ NextKey(c, "none")
    /\ UNCHANGED <<mtx, ref>>

\* Query of a key that is not in the map.
Miss(c, k) ==
    /\ AtKey(c, k)
    /\ k \notin map
    /\ client[c].call = "query"
    /\ NextKey(c, "none")
    /\ UNCHANGED <<mtx, lists, entries, ghosts, data>>

\* Insert: the new entry goes to the front of its list, in use by its writer.
\* A free row is taken at once, otherwise the eviction loop starts.
InSmall(k) == policy = "s3-fifo" /\ k \notin ghost_set
Prev(k) == IF k = End THEN Last(queue') ELSE queue'[IndexOf(queue', k) - 1]

HasFreeRow_Bug == usage <= Capacity
HasFreeRow == usage < Capacity

TakeRow_Bug(k) ==
    /\ pos' = [pos EXCEPT ![k] = usage]
    /\ usage' = usage

TakeRow(k) ==
    /\ pos' = [pos EXCEPT ![k] = usage]
    /\ usage' = usage + 1

EraseGhost_Bug(k) == ghost_set' = ghost_set
EraseGhost(k) == ghost_set' = ghost_set \ {k}

Insert(c, k) ==
    /\ AtKey(c, k)
    /\ k \notin map
    /\ client[c].call # "query"
    /\ map' = map \cup {k}
    /\ EraseGhost(k)
    /\ small' = IF InSmall(k) THEN <<k>> \o small ELSE small
    /\ small_size' = IF InSmall(k) THEN small_size + 1 ELSE small_size
    /\ queue' = IF InSmall(k) THEN queue ELSE <<k>> \o queue
    /\ freq' = [freq EXCEPT ![k] = 0]
    /\ ref' = [ref EXCEPT ![k] = -1]
    /\ IF HasFreeRow
       THEN /\ TakeRow(k)
            /\ hand' = hand
            /\ NextKey(c, "placed")
       ELSE /\ pos' = [pos EXCEPT ![k] = Unset]
            /\ usage' = usage
            /\ hand' = IF policy = "sieve" THEN Prev(hand) ELSE hand
            /\ client' = [client EXCEPT ![c].pc = "evict"]
    /\ UNCHANGED <<mtx, ghost_queue, data>>

-----------------------------------------------------------------------------
(* Evict: one action per iteration of its loops *)

FromSmall == policy = "s3-fifo" /\ small_size > SmallTarget
Evicting(c) == client[c].pc = "evict"

\* key_to_cache_key_.erase
Forget_Bug(victim) == map' = map
Forget(victim) == map' = map \ {victim}

\* The row of the victim goes to the new entry; the victim is destroyed.
GiveRow(c, victim) ==
    /\ Forget(victim)
    /\ freq' = [freq EXCEPT ![victim] = 0]
    /\ ref' = [ref EXCEPT ![victim] = 0]
    /\ pos' = [pos EXCEPT ![Head(client[c].batch)] = pos[victim], ![victim] = Unset]
    /\ NextKey(c, "placed")
    /\ UNCHANGED <<mtx, usage, data>>

KeepLooking == UNCHANGED <<mtx, map, ref, pos, usage, ghosts, data, client>>

\* EvictSmallQueue moves an entry that is hot to the main queue.
PassSmall(c) ==
    /\ Evicting(c) /\ FromSmall
    /\ LET k == Last(small) IN
       /\ Hot(k)
       /\ freq' = [freq EXCEPT ![k] = 0]
       /\ queue' = <<k>> \o queue
    /\ small' = Front(small)
    /\ small_size' = small_size - 1
    /\ UNCHANGED hand
    /\ KeepLooking

\* The ghost queue forgets its oldest key when it is full.
Remember(k) ==
    LET full == Len(ghost_queue) = GhostCapacity IN
    /\ ghost_queue' = Append(IF full THEN Tail(ghost_queue) ELSE ghost_queue, k)
    /\ ghost_set' = (IF full THEN ghost_set \ {Head(ghost_queue)} ELSE ghost_set) \cup {k}

EvictSmall(c) ==
    /\ Evicting(c) /\ FromSmall
    /\ LET k == Last(small) IN ~Hot(k) /\ Remember(k) /\ GiveRow(c, k)
    /\ small' = Front(small)
    /\ small_size' = small_size - 1
    /\ UNCHANGED <<queue, hand>>

\* EvictMainQueue, and Evict of LRU and CLOCK, move a hot entry to the front.
PassBack(c) ==
    /\ Evicting(c) /\ ~FromSmall /\ policy # "sieve"
    /\ Hot(Last(queue))
    /\ freq' = [freq EXCEPT ![Last(queue)] = Cooled(Last(queue))]
    /\ queue' = Pass(queue)
    /\ UNCHANGED <<small, small_size, hand>>
    /\ KeepLooking

EvictBack(c) ==
    /\ Evicting(c) /\ ~FromSmall /\ policy # "sieve"
    /\ ~Hot(Last(queue))
    /\ GiveRow(c, Last(queue))
    /\ queue' = Front(queue)
    /\ UNCHANGED <<small, small_size, hand, ghosts>>

\* SIEVE moves only its hand, from the back to the front and around.
Before(k) == IF k = Head(queue) THEN Last(queue) ELSE queue[IndexOf(queue, k) - 1]

After_Bug(k) == k
After(k) == IF k \in {Head(queue), Last(queue)} THEN End ELSE queue[IndexOf(queue, k) + 1]

PassHand(c) ==
    /\ Evicting(c) /\ policy = "sieve"
    /\ Hot(hand)
    /\ freq' = [freq EXCEPT ![hand] = 0]
    /\ hand' = Before(hand)
    /\ UNCHANGED <<small, small_size, queue>>
    /\ KeepLooking

EvictHand(c) ==
    /\ Evicting(c) /\ policy = "sieve"
    /\ ~Hot(hand)
    /\ GiveRow(c, hand)
    /\ hand' = After(hand)
    /\ queue' = Without(hand, queue)
    /\ UNCHANGED <<small, small_size, ghosts>>

-----------------------------------------------------------------------------
(* The client after its call: rows, then EndUse, without mtx_ *)

Unlock(c) ==
    /\ client[c].pc = "keys"
    /\ client[c].batch = <<>>
    /\ mtx' = NoClient
    /\ client' = [client EXCEPT ![c].pc = "read"]
    /\ UNCHANGED <<lists, entries, ghosts, data>>

\* EndUse<write>: fetch_add of 1 for a writer and of -1 for a reader.
EndUse_Bug(k, write) == ref' = [ref EXCEPT ![k] = Wrap(@ + 1)]
EndUse(k, write) == ref' = [ref EXCEPT ![k] = Wrap(IF write THEN @ + 1 ELSE @ - 1)]

\* ReadingCompleted drops the pointers one by one, once the rows are copied.
EndRead(c) ==
    /\ client[c].pc = "read"
    /\ client[c].found # <<>>
    /\ EndUse(Head(client[c].found), FALSE)
    /\ client' = [client EXCEPT ![c].found = Tail(@)]
    /\ UNCHANGED <<mtx, lists, freq, pos, usage, ghosts, data>>

\* reader_fn(missing_keys) of query_and_replace.
Fetch(c) ==
    /\ client[c].pc = "read"
    /\ client[c].found = <<>>
    /\ client' = [client EXCEPT ![c] =
                    [@ EXCEPT !.pc = "write",
                              !.val = IF client[c].call = "query_and_replace"
                                      THEN source ELSE client[c].val]]
    /\ UNCHANGED <<mtx, lists, entries, ghosts, data>>

\* FeatureCache::Replace of the rows the call was given.
WriteRows(c) ==
    /\ client[c].pc = "write"
    /\ tensor' = [r \in Rows |->
         IF \E k \in Range(client[c].placed) : pos[k] = r
         THEN LET k == CHOOSE k \in Range(client[c].placed) : pos[k] = r
              IN [key |-> k, ver |-> client[c].val[k]]
         ELSE tensor[r]]
    /\ client' = [client EXCEPT ![c].pc = "wrote"]
    /\ UNCHANGED <<mtx, lists, entries, ghosts, source, policy>>

EndWrite(c) ==
    /\ client[c].pc = "wrote"
    /\ client[c].placed # <<>>
    /\ EndUse(Head(client[c].placed), TRUE)
    /\ client' = [client EXCEPT ![c].placed = Tail(@)]
    /\ UNCHANGED <<mtx, lists, freq, pos, usage, ghosts, data>>

Return(c) ==
    /\ client[c].pc = "wrote"
    /\ client[c].placed = <<>>
    /\ client' = [client EXCEPT ![c] = Idle]
    /\ UNCHANGED <<mtx, lists, entries, ghosts, data>>

-----------------------------------------------------------------------------
Step(c) ==
    \/ Lock(c) \/ Unlock(c)
    \/ \E k \in Keys : \/ StartRead(c, k) \/ StartReadThrows(c, k)
                       \/ MissBeingWritten(c, k) \/ Miss(c, k) \/ Insert(c, k)
    \/ PassSmall(c) \/ EvictSmall(c) \/ PassBack(c) \/ EvictBack(c)
    \/ PassHand(c) \/ EvictHand(c)
    \/ EndRead(c) \/ Fetch(c) \/ WriteRows(c) \/ EndWrite(c) \/ Return(c)

Next ==
    \E c \in Clients :
        \/ \E batch \in Batch : \/ \E call \in Calls : Call(c, call, batch)
                                \/ Update(c, batch)
        \/ Step(c)

Spec == Init /\ [][Next]_vars

\* A thread that is inside a call keeps running; nobody has to call.
FairSpec == Spec /\ \A c \in Clients : WF_vars(Step(c))

-----------------------------------------------------------------------------
(* Properties *)

Mapped == small \o queue
Reading(c, k) == k \in Range(client[c].found)
Writing(c, k) ==
    k \in Range(client[c].placed) \/ (Evicting(c) /\ k = Head(client[c].batch))

\* Every variable has its type; at most Capacity entries are cached, plus the
\* one that is being inserted while Evict looks for its row.
TypeOK ==
    /\ policy \in Policies
    /\ mtx \in Clients \cup {NoClient}
    /\ map \subseteq Keys
    /\ small \in Seq(Keys) /\ queue \in Seq(Keys)
    /\ Len(Mapped) <= Capacity + (IF \E c \in Clients : Evicting(c) THEN 1 ELSE 0)
    /\ small_size \in 0..(Capacity + 1)
    /\ hand \in Keys \cup {End}
    /\ freq \in [Keys -> 0..3]
    /\ ref \in [Keys -> (-MaxRef - 1)..MaxRef]
    /\ pos \in [Keys -> Rows \cup {Unset}]
    /\ usage \in 0..Capacity
    /\ ghost_queue \in Seq(Keys) /\ Len(ghost_queue) <= GhostCapacity
    /\ ghost_set \subseteq Keys
    /\ tensor \in [Rows -> [key : Keys \cup {NoKey}, ver : 0..MaxVersion]]
    /\ source \in [Keys -> 0..MaxVersion]
    /\ client \in [Clients ->
         [pc : {"idle", "lock", "keys", "evict", "read", "write", "wrote"},
          call : {"query", "query_and_replace", "replace"},
          batch : Seq(Keys), found : Seq(Keys), placed : Seq(Keys),
          val : [Keys -> 0..MaxVersion]]]

\* key_to_cache_key_ maps exactly the entries of the lists, each of them is in
\* one list once, small_queue_size_ is the length of small_queue_, and hand_
\* points to an entry or to end(): no pointer or iterator dangles.
IndexConsistent ==
    /\ map = Range(Mapped)
    /\ Cardinality(map) = Len(Mapped)
    /\ small_size = Len(small)
    /\ hand \in Range(queue) \cup {End}

\* The TORCH_CHECK for unique positions can not fail: two entries never have
\* the same row, and only the entry being inserted has none.
RowsUnique ==
    /\ \A k, l \in map : k # l /\ pos[k] = pos[l] => pos[k] = Unset
    /\ \A k \in map : pos[k] = Unset =>
         \E c \in Clients : Evicting(c) /\ Head(client[c].batch) = k

\* An entry whose pointer a client still holds is never evicted, whatever the
\* other clients insert, and a row is never written while it is read or
\* written by another client.
NoEvictionInUse ==
    \A c \in Clients, k \in Keys :
        /\ Reading(c, k) \/ Writing(c, k) => k \in map /\ ref[k] # 0
        /\ Writing(c, k) => \A d \in Clients \ {c} : ~Reading(d, k) /\ ~Writing(d, k)

\* A client that found a key reads the row of that key: the writer of the row
\* had finished, and nobody has reused the row.
ReadersSeeTheirRow ==
    \A c \in Clients, k \in Keys : Reading(c, k) => tensor[pos[k]].key = k

\* The ghost queue remembers every key of ghost_set, and no cached key counts
\* as a ghost.
GhostsConsistent == ghost_set \subseteq Range(ghost_queue) \ map

\* The pointers to the entry of k that clients hold for reading.
Held(k) == UNION {{<<c, i>> : i \in {j \in DOMAIN client[c].found : client[c].found[j] = k}} :
                  c \in Clients}
Readers(k) == Cardinality(Held(k))

\* reference_count_ is -1 while the entry is written and the number of pointers
\* held for reading otherwise (clients that only read through the cache).
RefCountsUse ==
    \A k \in map : ref[k] = IF \E c \in Clients : Writing(c, k) THEN -1 ELSE Readers(k)

\* Row ids[i] is updated to value[i]: once update has returned, a reader that
\* finds the key in the cache gets the version the fallback storage has.
UpdatesVisible ==
    (\A c \in Clients : client[c].pc = "idle") =>
        \A k \in map : tensor[pos[k]].ver = source[k]

\* A call releases mtx_: Evict finds a row, since the clients that keep entries
\* in use complete without the mutex.
LockReleased == mtx # NoClient ~> mtx = NoClient
=============================================================================
