----------------------------- MODULE MCDataApi -----------------------------
(* Instance of DataApi for TLC: interchangeable tenants, requests and       *)
(* connections.                                                             *)
EXTENDS DataApi, TLC

CONSTANTS t1, t2, r1, r2, c1, c2, q1, q2

Symmetry == Permutations(Req) \cup Permutations(Conn)
=============================================================================
