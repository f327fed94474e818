----------------------------- MODULE ListingCopy -----------------------------
(***************************************************************************)
(* What the import of container versions promises, however many imports    *)
(* run at once and whichever of their requests fail: the table has every   *)
(* second of GitHub's listing up to some version, and of each second the   *)
(* versions up to some one; it moves on in single steps, and reaches as    *)
(* far as any import has said.                                             *)
(***************************************************************************)
EXTENDS Integers

VARIABLES listed,    \* the length of the listing
          tied,      \* items created in the same second as the one before
          stored,    \* the items copied
          promised   \* the length an import that succeeded found

Init == listed \in Nat /\ tied \in SUBSET (2 .. listed) /\ stored = {} /\ promised = 0

Extend ==
    /\ listed' = listed + 1 /\ tied' \in {tied, tied \cup {listed'}}
    /\ UNCHANGED <<stored, promised>>

(* No second is left out, and a second is copied from its first item on. *)
Whole(S, n) ==
    /\ S \subseteq 1 .. n /\ (1 .. n) \ S \subseteq tied
    /\ \A i \in S \cap tied : i - 1 \in S

CopyUpTo(n) ==
    /\ stored \subseteq stored' /\ Whole(stored', n)
    /\ promised' \in promised .. n
    /\ UNCHANGED <<listed, tied>>

Next == Extend \/ \E n \in 0 .. listed : CopyUpTo(n)

Spec == Init /\ [][Next]_<<listed, tied, stored, promised>>
=============================================================================
