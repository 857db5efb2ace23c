---------------------------- MODULE GroupBarrier ----------------------------
(***************************************************************************)
(* What barriers promise to groups of processes that call them any number  *)
(* of times: nobody returns from a call before its group has made it.      *)
(***************************************************************************)
EXTENDS Naturals

CONSTANTS
    Member,
    Group       \* member -> its group

VARIABLES
    entered,    \* member -> calls it has made
    passed      \* member -> calls that have returned

vars == <<entered, passed>>

Init ==
    /\ entered = [m \in Member |-> 0]
    /\ passed = [m \in Member |-> 0]

Enter(m) ==
    /\ entered[m] = passed[m]
    /\ entered' = [entered EXCEPT ![m] = @ + 1]
    /\ UNCHANGED passed

Pass(m) ==
    /\ passed[m] < entered[m]
    /\ \A n \in Member : Group[n] = Group[m] => passed[m] < entered[n]
    /\ passed' = [passed EXCEPT ![m] = @ + 1]
    /\ UNCHANGED entered

Next == \E m \in Member : Enter(m) \/ Pass(m)

Spec == Init /\ [][Next]_vars
=============================================================================
