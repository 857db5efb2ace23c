----------------------------- MODULE MCKVStore ------------------------------
(* Instances of KVStore for TLC. *)
EXTENDS KVStore

\* Clients take turns on the machines.
MCMachine == [c \in 0..(num_clients - 1) |-> c % machine_count]

\* A tensor is created, used, given a handler, used, deleted and created anew.
Life == init_data \o <<"work">> \o register_push_handler \o <<"work">> \o delete_data
            \o init_data \o <<"work">>

\* test_new_kvstore.py: rows are added to, and read after a barrier.
AddAndBarrier == init_data \o register_push_handler \o <<"work", "barrier">>

\* node_split_test: rows are written, and read after a barrier.
WriteBarrierRead == init_data \o <<"work", "barrier", "work">>

\* The client of the second machine works: its pushes meet every collective call.
OneWorks == [c \in 0..(num_clients - 1) |-> IF c = 1 THEN 1 ELSE 0]
TwoWorks == [c \in 0..(num_clients - 1) |-> IF c = 1 THEN 2 ELSE 0]
AllWork == [c \in 0..(num_clients - 1) |-> 1]
=============================================================================
