---------------------------- MODULE MCTokenPool -----------------------------
(* Instances of TokenPool for TLC. *)
EXTENDS TokenPool, TLC

Symmetric == Permutations(Listers) \cup Permutations(Importers)
=============================================================================
