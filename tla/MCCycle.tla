------------------------------ MODULE MCCycle ------------------------------
(* Instances of Cycle for TLC: one tenant, which every contract was deployed *)
(* for, and the runs, request keys and contracts that may be exchanged for   *)
(* one another.                                                              *)
EXTENDS Cycle, TLC

CONSTANT t1

AllForOne == [k \in Contract |-> t1]

Exchangeable ==
  Permutations(Call) \cup Permutations(Key) \cup Permutations(Contract)
=============================================================================
