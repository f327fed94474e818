------------------------------ MODULE MCDigest -------------------------------
(* Instance of Digest for TLC: an administrator and a user with different   *)
(* weekdays.                                                                *)
EXTENDS Digest, TLC

CONSTANTS admin, user, r1, r2

MCDay == (admin :> 0) @@ (user :> 2)
Symmetry == Permutations(Run)
=============================================================================
