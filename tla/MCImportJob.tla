---------------------------- MODULE MCImportJob -----------------------------
(* Instance of ImportJob for TLC: two tasks, or one beside an execution on   *)
(* demand, and three repositories, in the order of their names.              *)
EXTENDS ImportJob, TLC

CONSTANTS a, b, c

MCRank == a :> 1 @@ b :> 2 @@ c :> 3

(* One repository is larger than the others. *)
MCCounts == {a :> 2 @@ b :> 0 @@ c :> 0}
=============================================================================
