------------------------------ MODULE MCSignIn -------------------------------
(* Instance of SignIn for TLC: two browsers behind one address. *)
EXTENDS SignIn, TLC

CONSTANTS b1, b2, u1, ip, s1, s2

MCAddr == [b \in Browser |-> ip]
Symmetry == Permutations(Slot) \cup Permutations(Browser)
=============================================================================
