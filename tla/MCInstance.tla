----------------------------- MODULE MCInstance -----------------------------
(* Instance of Instance for TLC: two releases, the newer one with a further *)
(* migration in each set.                                                   *)
EXTENDS Instance, TLC

CONSTANTS old, new

MCFiles == (old :> <<{1, 2}, {1}>>) @@ (new :> <<{1, 2, 4}, {1, 3}>>)
=============================================================================
