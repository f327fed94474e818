----------------------------- MODULE MCTenancy ------------------------------
(* Instances of Tenancy for TLC. *)
EXTENDS Tenancy, TLC

CONSTANTS team, pro

OneOrTwo == [p \in Plans |-> IF p = pro THEN 1 ELSE 2]

Symmetric == Permutations(Instances) \cup Permutations(Adds)
=============================================================================
