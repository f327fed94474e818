------------------------------ MODULE SchemaLog ------------------------------
(***************************************************************************)
(* What schema migration promises, whoever starts, fails or is killed      *)
(* while it runs: the migrations of a set are executed one at a time, in   *)
(* the order of their numbers, and none of them twice.                     *)
(***************************************************************************)
EXTENDS Naturals, Sequences

CONSTANT Version          \* the numbers migrations may have

VARIABLE log              \* the migrations executed so far, in order

Init == log = <<>>

Execute(v) ==
    /\ \A i \in DOMAIN log : log[i] < v
    /\ log' = Append(log, v)

Next == \E v \in Version : Execute(v)

Spec == Init /\ [][Next]_log
=============================================================================
