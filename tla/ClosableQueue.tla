---------------------------- MODULE ClosableQueue ----------------------------
(***************************************************************************)
(* What a MessageQueue promises its callers, with blocking as a guard:     *)
(* producers put messages that fit while the queue is open, consumers take *)
(* them in order, and a consumer is told that the queue ended only when it *)
(* is closed and everything put into it has been taken.                    *)
(***************************************************************************)
EXTENDS Integers, Sequences

CONSTANTS Producers, Consumers, Capacity

VARIABLES
    items,      \* messages put and not yet taken
    used,       \* their bytes
    closed,     \* no producer will put anything any more
    ended       \* consumers that were told so

vars == <<items, used, closed, ended>>

Init ==
    /\ items = <<>>
    /\ used = 0
    /\ closed = FALSE
    /\ ended = {}

Put(m) ==
    /\ ~closed
    /\ used + m.size <= Capacity
    /\ items' = Append(items, m)
    /\ used' = used + m.size
    /\ UNCHANGED <<closed, ended>>

Take ==
    /\ items # <<>>
    /\ items' = Tail(items)
    /\ used' = used - Head(items).size
    /\ UNCHANGED <<closed, ended>>

Close ==
    /\ closed' = TRUE
    /\ UNCHANGED <<items, used, ended>>

End(c) ==
    /\ closed
    /\ items = <<>>
    /\ c \notin ended
    /\ ended' = ended \cup {c}
    /\ UNCHANGED <<items, used, closed>>

\* A message put is one that ends up last: its size is all that matters here.
PutAny ==
    /\ Len(items') = Len(items) + 1
    /\ Put(items'[Len(items')])

Next == PutAny \/ Take \/ Close \/ \E c \in Consumers : End(c)

SafetySpec == Init /\ [][Next]_vars

\* Something queued is taken, and a consumer of a closed queue learns of it.
Spec == /\ SafetySpec
        /\ WF_vars(Take)
        /\ \A c \in Consumers : WF_vars(End(c))
=============================================================================
