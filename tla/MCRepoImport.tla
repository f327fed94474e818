---------------------------- MODULE MCRepoImport ----------------------------
(* Small instances of RepoImport. Days count from FirstDay = 10. *)
EXTENDS RepoImport, TLC

Item(k, c, u) == [kind |-> k, created |-> c, updated |-> u, opened |-> c]
Review(c, o) == [kind |-> "review", created |-> c, updated |-> c, opened |-> o]

(* A pull request in the first chunk, an issue in the fresh window. *)
OverlapItems == {Item("pr", 8, 8), Item("issue", 9, 9)}

(* A reviewed pull request in the first chunk of day 10, older than the first *)
(* chunk of later days, and a fork that may come on day 10, before or after a *)
(* pass of that day, or never.                                              *)
PullReviewFork == {Item("pr", 8, 8), Review(8, 8), Item("fork", 10, 10)}

(* A fork in the fresh window. *)
OneFork == {Item("fork", 9, 9)}

Executions2 == Permutations(Executions)
=============================================================================
