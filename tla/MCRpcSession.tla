---------------------------- MODULE MCRpcSession ----------------------------
(* Instances of RpcSession for TLC. *)
EXTENDS RpcSession

\* A trainer on each of two machines, and a sampler on the first.
MCRole == [c \in 0..(num_clients - 1) |-> IF c = 0 THEN "sampler" ELSE "default"]
MCMachine == [c \in 0..(num_clients - 1) |-> IF c = 2 THEN 0 ELSE IF c = 1 THEN 1 ELSE 0]

\* The call or push of one client meets the barriers and the shutdown.
MCWork == [c \in 0..(num_clients - 1) |-> IF c = 1 THEN 1 ELSE 0]
=============================================================================
