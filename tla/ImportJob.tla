----------------------------- MODULE ImportJob ------------------------------
(***************************************************************************)
(* One execution of the import job of pkg/importer: parallel tasks that    *)
(* read the work list, share it out by ShardRepos and hand their shard to  *)
(* worker goroutines, and on-demand executions for a single repository.    *)
(* They share the database only: event counts and the error counters of    *)
(* devpulse_tenant_repo (pkg/tenant/import.go).                            *)
(*                                                                         *)
(* What importing a repository does to its events is module RepoImport.    *)
(***************************************************************************)
EXTENDS Integers

CONSTANTS
  TaskCount,   \* CLOUD_RUN_TASK_COUNT
  OnDemand,    \* executions with IMPORT_ORG and IMPORT_REPO set
  Workers,     \* goroutines of a task, IMPORT_WORKERS of them
  Repos,       \* repositories
  Rank,        \* their order by lower(repo), lower(org)
  Tenants,
  ErrorLimit,  \* counters from here on keep a row out of the work list (5)
  NoRepo,
  OldCounts,   \* bound: event counts an earlier execution may have left
  OldErrors,   \* bound: error counters an earlier execution may have left
  MaxChanges,  \* bound: what happens around and to the executions, see Change
  Startable    \* bound: sets of executions that may be started together

Tasks == 0 .. TaskCount - 1
Runs == Tasks \cup OnDemand

(* devpulse_tenant_repo: a repository is tracked by any number of tenants. *)
Rows == Repos \X Tenants

ASSUME JobAssumption ==
  /\ TaskCount \in Nat \ {0} /\ OnDemand \cap Int = {}
  /\ ErrorLimit \in Nat \ {0} /\ MaxChanges \in Nat
  /\ NoRepo \notin Repos /\ OldCounts \subseteq [Repos -> Nat] /\ OldErrors \subseteq Nat
  /\ Rank \in [Repos -> Nat] /\ \A q, r \in Repos : Rank[q] = Rank[r] => q = r

VARIABLES
  eventCount,  \* devpulse_event rows by repository
  active,      \* rows a tenant in good standing tracks
  errors,      \* devpulse_tenant_repo.import_errors
  pc,          \* by task: idle, shard, send, wait, ended
  listed,      \* the rows of its work list
  weight,      \* the event counts of its work list
  rest,        \* ShardRepos: repositories not yet assigned
  load,        \* ShardRepos: taskWeights
  bin,         \* ShardRepos: assignments
  unsent,      \* the part of myRepos the send loop has not sent
  cancelled,   \* taskCtx.Err() # nil
  worker,      \* its goroutines
  failures,    \* totalErrors
  completed,   \* totalRepos
  outcome,     \* what dispatchAndFinalize returned
  changes,
  (* History variable, never read by the program. *)
  handled      \* repositories whose import ran to its end

database == <<eventCount, active, errors>>
sharding == <<listed, weight, rest, load, bin>>
tallies == <<failures, completed, handled>>
vars == <<database, pc, sharding, unsent, cancelled, worker, tallies, outcome, changes>>

(* A worker waits or has returned, or has a repository in hand; rows are    *)
(* those markImportSuccess has still to reset.                              *)
Idler == [pc : {"recv", "done"}, repo : {NoRepo}, rows : {{}}]
Importer == [pc : {"got", "import", "mark", "fail"}, repo : Repos, rows : SUBSET Rows]
Worker == Idler \cup Importer

Doing(wpc, r) == [pc |-> wpc, repo |-> r, rows |-> {}]

Init ==
  /\ eventCount \in OldCounts
  /\ active = Rows
  /\ errors \in [Rows -> OldErrors]
  /\ pc = [i \in Runs |-> "idle"]
  /\ listed = [i \in Runs |-> {}]
  /\ weight = [i \in Runs |-> [r \in Repos |-> 0]]
  /\ rest = [i \in Runs |-> {}]
  /\ load = [i \in Runs |-> [t \in Tasks |-> 0]]
  /\ bin = [i \in Runs |-> [t \in Tasks |-> {}]]
  /\ unsent = [i \in Runs |-> {}]
  /\ cancelled = [i \in Runs |-> FALSE]
  /\ worker = [i \in Runs |-> [w \in Workers |-> Doing("recv", NoRepo)]]
  /\ failures = [i \in Runs |-> 0]
  /\ completed = [i \in Runs |-> 0]
  /\ outcome = [i \in Runs |-> "none"]
  /\ changes = 0
  /\ handled = [i \in Runs |-> {}]

-----------------------------------------------------------------------------
(* The work list and its shards. *)

RowsOf(r, rows) == {row \in rows : row[1] = r}

(* The scheduler, a user or an administrator starts an execution. *)
CanStart(i) ==
  /\ pc[i] = "idle"
  /\ \E S \in Startable : {j \in Runs : pc[j] # "idle"} \cup {i} \subseteq S

(* ListImportWork and BuildWorkList: every task reads its own snapshot. *)
ListImportWork(i) ==
  /\ i \in Tasks /\ CanStart(i)
  /\ LET rows == {row \in active : errors[row] < ErrorLimit}
     IN  /\ listed' = [listed EXCEPT ![i] = rows]
         /\ rest' = [rest EXCEPT ![i] = {row[1] : row \in rows}]
  /\ weight' = [weight EXCEPT ![i] = eventCount]
  /\ pc' = [pc EXCEPT ![i] = "shard"]
  /\ UNCHANGED <<database, load, bin, unsent, cancelled, worker, tallies, outcome, changes>>

(* ListImportWorkForRepo: an on-demand execution ignores the error counters *)
(* and keeps the repository to itself.                                      *)
ListImportWorkForRepo(i, r) ==
  /\ i \in OnDemand /\ CanStart(i)
  /\ listed' = [listed EXCEPT ![i] = RowsOf(r, active)]
  /\ weight' = [weight EXCEPT ![i] = eventCount]
  /\ unsent' = [unsent EXCEPT ![i] = {q \in {r} : RowsOf(q, active) # {}}]
  /\ pc' = [pc EXCEPT ![i] = IF RowsOf(r, active) = {} THEN "ended" ELSE "send"]
  /\ outcome' = [outcome EXCEPT ![i] = IF RowsOf(r, active) = {} THEN "ok" ELSE @]
  /\ UNCHANGED <<database, rest, load, bin, cancelled, worker, tallies, changes>>

(* The query fails: runImport returns the error. *)
WorkListFails(i) ==
  /\ CanStart(i)
  /\ pc' = [pc EXCEPT ![i] = "ended"]
  /\ outcome' = [outcome EXCEPT ![i] = "no work list"]
  /\ UNCHANGED <<database, sharding, unsent, cancelled, worker, tallies, changes>>

(* Wrong variant: lightest first. *)
HeavierLast(w, q, r) ==
  \/ w[q] < w[r]
  \/ w[q] = w[r] /\ Rank[q] < Rank[r]

(* Heavy repositories first, then by name. *)
Heavier(w, q, r) ==
  \/ w[q] > w[r]
  \/ w[q] = w[r] /\ Rank[q] < Rank[r]

FirstOf(w, r, S) == r \in S /\ \A q \in S \ {r} : Heavier(w, r, q)

(* The task with the lowest cumulative weight, the first of them. *)
minTask(l, t) == \A u \in Tasks : l[t] < l[u] \/ (l[t] = l[u] /\ t <= u)

Cost(n) == IF n < 1 THEN 1 ELSE n

(* ShardRepos, one round of the greedy assignment. *)
Assign(i) ==
  /\ i \in Tasks /\ pc[i] = "shard"
  /\ \E r \in rest[i], t \in Tasks :
       /\ FirstOf(weight[i], r, rest[i]) /\ minTask(load[i], t)
       /\ rest' = [rest EXCEPT ![i] = @ \ {r}]
       /\ load' = [load EXCEPT ![i][t] = @ + Cost(weight[i][r])]
       /\ bin' = [bin EXCEPT ![i][t] = @ \cup {r}]
  /\ UNCHANGED <<database, pc, listed, weight, unsent, cancelled, worker, tallies, outcome,
                 changes>>

(* ShardRepos returns the task's own shard; an empty one ends the task. *)
Sharded(i) ==
  /\ i \in Tasks /\ pc[i] = "shard" /\ rest[i] = {}
  /\ unsent' = [unsent EXCEPT ![i] = bin[i][i]]
  /\ pc' = [pc EXCEPT ![i] = IF bin[i][i] = {} THEN "ended" ELSE "send"]
  /\ outcome' = [outcome EXCEPT ![i] = IF bin[i][i] = {} THEN "ok" ELSE @]
  /\ UNCHANGED <<database, sharding, cancelled, worker, tallies, changes>>

(* The shard a task works on: myRepos. *)
MyRepos(i) == IF i \in Tasks THEN bin[i][i] ELSE {row[1] : row \in listed[i]}

-----------------------------------------------------------------------------
(* runWorkers. *)

(* A repository gains events, an execution is cut short, a row is changed.  *)
Change == changes < MaxChanges /\ changes' = changes + 1

Busy(i, w, s) == worker' = [worker EXCEPT ![i][w] = s]

(* work <- rw: the channel is unbuffered, the send is the receipt. *)
Send(i, w) ==
  /\ pc[i] = "send" /\ worker[i][w].pc = "recv"
  /\ \E r \in unsent[i] : /\ FirstOf(weight[i], r, unsent[i])
                          /\ unsent' = [unsent EXCEPT ![i] = @ \ {r}]
                          /\ Busy(i, w, Doing("got", r))
  /\ UNCHANGED <<database, pc, sharding, cancelled, tallies, outcome, changes>>

(* Everything is sent or the context is done: close(work). *)
Close(i) ==
  /\ pc[i] = "send" /\ (unsent[i] = {} \/ cancelled[i])
  /\ pc' = [pc EXCEPT ![i] = "wait"]
  /\ UNCHANGED <<database, sharding, unsent, cancelled, worker, tallies, outcome, changes>>

(* A worker's loop ends when the channel is closed. *)
Drained(i, w) ==
  /\ pc[i] = "wait" /\ worker[i][w].pc = "recv"
  /\ Busy(i, w, Doing("done", NoRepo))
  /\ UNCHANGED <<database, pc, sharding, unsent, cancelled, tallies, outcome, changes>>

(* The worker looks at the context before it starts an import. *)
Check(i, w) ==
  /\ worker[i][w].pc = "got"
  /\ Busy(i, w, IF cancelled[i] THEN Doing("done", NoRepo)
                ELSE Doing("import", worker[i][w].repo))
  /\ UNCHANGED <<database, pc, sharding, unsent, cancelled, tallies, outcome, changes>>

(* importRepoWork: imported; skipped as unchanged or turned away because    *)
(* every tenant is at its weekly limit, neither of which is an error; or    *)
(* failed, in part or by cancellation.                                      *)
ImportRepoWork(i, w) ==
  LET r == worker[i][w].repo
  IN  /\ worker[i][w].pc = "import"
      /\ \/ UNCHANGED <<eventCount, changes>>
         \/ Change /\ eventCount' = [eventCount EXCEPT ![r] = @ + 1]
      /\ \/ /\ Busy(i, w, [pc |-> "mark", repo |-> r, rows |-> RowsOf(r, listed[i])])
            /\ UNCHANGED failures
         \/ /\ Busy(i, w, Doing("fail", r))
            /\ failures' = [failures EXCEPT ![i] = @ + 1]
      /\ handled' = [handled EXCEPT ![i] = @ \cup {r}]
      /\ UNCHANGED <<active, errors, pc, sharding, unsent, cancelled, completed, outcome>>

(* markImportSuccess, row by row. A failed update, as on a cancelled        *)
(* context, is only logged.                                                 *)
ResetImportErrors(i, w, row) ==
  /\ worker[i][w].pc = "mark" /\ row \in worker[i][w].rows
  /\ \/ ~cancelled[i] /\ errors' = [errors EXCEPT ![row] = 0]
     \/ UNCHANGED errors
  /\ Busy(i, w, [worker[i][w] EXCEPT !.rows = @ \ {row}])
  /\ UNCHANGED <<eventCount, active, pc, sharding, unsent, cancelled, tallies, outcome, changes>>

(* Wrong variant: the worker returns when the update fails. *)
IncrementOrReturn(i, w) ==
  LET r == worker[i][w].repo
  IN  /\ worker[i][w].pc = "fail"
      /\ \/ /\ ~cancelled[i]
            /\ errors' = [row \in Rows |-> IF row \in RowsOf(r, active)
                                           THEN errors[row] + 1 ELSE errors[row]]
            /\ Busy(i, w, Doing("mark", r))
         \/ UNCHANGED errors /\ Busy(i, w, Doing("done", NoRepo))
      /\ UNCHANGED <<eventCount, active, pc, sharding, unsent, cancelled, tallies, outcome,
                     changes>>

(* IncrementImportErrorsByRepo: every row that tracks the repository now. *)
IncrementImportErrorsByRepo(i, w) ==
  LET r == worker[i][w].repo
  IN  /\ worker[i][w].pc = "fail"
      /\ \/ /\ ~cancelled[i]
            /\ errors' = [row \in Rows |-> IF row \in RowsOf(r, active)
                                           THEN errors[row] + 1 ELSE errors[row]]
         \/ UNCHANGED errors
      /\ Busy(i, w, Doing("mark", r))
      /\ UNCHANGED <<eventCount, active, pc, sharding, unsent, cancelled, tallies, outcome,
                     changes>>

(* The repository is counted and the worker takes the next. *)
Count(i, w) ==
  /\ worker[i][w].pc = "mark" /\ worker[i][w].rows = {}
  /\ completed' = [completed EXCEPT ![i] = @ + 1]
  /\ Busy(i, w, Doing("recv", NoRepo))
  /\ UNCHANGED <<database, pc, sharding, unsent, cancelled, failures, handled, outcome, changes>>

-----------------------------------------------------------------------------
(* dispatchAndFinalize. *)

(* Wrong variant: the first worker that returns releases the task. *)
AnyDone(i) == \E w \in Workers : worker[i][w].pc = "done"

(* Wrong variant: wg counts the repositories too, also those never started. *)
AllCounted(i) == handled[i] = MyRepos(i) /\ \A w \in Workers : worker[i][w].pc = "done"

AllDone(i) == \A w \in Workers : worker[i][w].pc = "done"

(* Wrong variant: an interrupted task reports success. *)
FinalizeIgnoringContext(i) ==
  /\ pc[i] = "wait" /\ AllDone(i)
  /\ pc' = [pc EXCEPT ![i] = "ended"]
  /\ outcome' = [outcome EXCEPT ![i] =
       IF failures[i] > 0 /\ failures[i] = completed[i] THEN "all failed" ELSE "ok"]
  /\ UNCHANGED <<database, sharding, unsent, cancelled, worker, tallies, changes>>

(* wg.Wait returned; the post-import phases touch none of this state. *)
Finalize(i) ==
  /\ pc[i] = "wait" /\ AllDone(i)
  /\ pc' = [pc EXCEPT ![i] = "ended"]
  /\ outcome' = [outcome EXCEPT ![i] =
       IF failures[i] > 0 /\ failures[i] = completed[i] THEN "all failed"
       ELSE IF cancelled[i] THEN "interrupted" ELSE "ok"]
  /\ UNCHANGED <<database, sharding, unsent, cancelled, worker, tallies, changes>>

(* The task's timeout, or a shutdown signal. *)
Cancel(i) ==
  /\ pc[i] \notin {"idle", "ended"} /\ ~cancelled[i] /\ Change
  /\ cancelled' = [cancelled EXCEPT ![i] = TRUE]
  /\ UNCHANGED <<database, pc, sharding, unsent, worker, tallies, outcome>>

-----------------------------------------------------------------------------
(* Users and administrators while the job runs. *)

SetActive(row) ==
  /\ Change
  /\ active' \in {active \cup {row}, active \ {row}} /\ active' # active
  /\ UNCHANGED <<eventCount, errors, pc, sharding, unsent, cancelled, worker, tallies, outcome>>

ResetImportErrorsByRepo(r) ==
  /\ Change
  /\ errors' = [row \in Rows |-> IF row[1] = r THEN 0 ELSE errors[row]]
  /\ UNCHANGED <<eventCount, active, pc, sharding, unsent, cancelled, worker, tallies, outcome>>

Work(i) ==
  \/ Assign(i) \/ Sharded(i) \/ Close(i) \/ Finalize(i)
  \/ \E w \in Workers :
       \/ Send(i, w) \/ Drained(i, w) \/ Check(i, w) \/ ImportRepoWork(i, w)
       \/ IncrementImportErrorsByRepo(i, w) \/ Count(i, w)
       \/ \E row \in Rows : ResetImportErrors(i, w, row)

Next ==
  \/ \E i \in Runs : \/ ListImportWork(i) \/ WorkListFails(i) \/ Work(i) \/ Cancel(i)
                     \/ \E r \in Repos : ListImportWorkForRepo(i, r)
  \/ \E row \in Rows : SetActive(row)
  \/ \E r \in Repos : ResetImportErrorsByRepo(r)

Spec == Init /\ [][Next]_vars

(* As long as a started execution can go on, one of them does, and every    *)
(* import ends: its requests time out and its retries are bounded.  That    *)
(* each goroutine is scheduled is more than this asks for.  No cancellation *)
(* is assumed.                                                              *)
FairSpec == Spec /\ WF_vars(\E i \in Runs : Work(i))

-----------------------------------------------------------------------------
(* The types of the work list, of the shards and of the workers: rows are   *)
(* grouped by repository before they are sharded (ListImportWork).          *)
TypeOK ==
  /\ eventCount \in [Repos -> Nat]
  /\ active \subseteq Rows /\ errors \in [Rows -> Nat]
  /\ pc \in [Runs -> {"idle", "shard", "send", "wait", "ended"}]
  /\ listed \in [Runs -> SUBSET Rows]
  /\ weight \in [Runs -> [Repos -> Nat]]
  /\ rest \in [Runs -> SUBSET Repos]
  /\ load \in [Runs -> [Tasks -> Nat]]
  /\ bin \in [Runs -> [Tasks -> SUBSET Repos]]
  /\ unsent \in [Runs -> SUBSET Repos]
  /\ cancelled \in [Runs -> BOOLEAN]
  /\ worker \in [Runs -> [Workers -> Worker]]
  /\ failures \in [Runs -> Nat] /\ completed \in [Runs -> Nat]
  /\ outcome \in [Runs -> {"none", "ok", "interrupted", "all failed", "no work list"}]
  /\ changes \in Nat
  /\ handled \in [Runs -> SUBSET Repos]

(* The greedy assignment of ShardRepos is balanced at every round: no task  *)
(* is heavier than another by more than the lightest repository it has. In  *)
(* particular no task gets a second repository while another has none ("set *)
(* import_parallelism >= N so each large repo gets its own task",           *)
(* INFRASTRUCTURE.md).                                                      *)
BalancedShards ==
  \A i \in Tasks : \A t, u \in Tasks : \A r \in bin[i][t] :
    load[i][t] <= load[i][u] + Cost(weight[i][r])

(* A task that ends without an error has taken every repository of its      *)
(* shard to the end of importRepoWork (imported, skipped, turned away, or   *)
(* failed and counted), whatever its workers, its timeout and the other     *)
(* tasks did (dispatchAndFinalize, runWorkers).                             *)
SuccessMeansHandled ==
  \A i \in Runs : outcome[i] = "ok" => handled[i] = MyRepos(i)

(* No goroutine of a task takes a repository a sibling has, and none is     *)
(* still at work when the task ends (wg.Wait before the final phases).      *)
WorkersDisjoint ==
  \A i \in Runs : \A v, w \in Workers :
    worker[i][v].repo # NoRepo =>
      /\ v # w => worker[i][v].repo # worker[i][w].repo
      /\ worker[i][v].repo \notin unsent[i]
      /\ pc[i] # "ended"

(* While a repository is still to be sent and the context is not done,      *)
(* every goroutine of the task takes another one, whatever came of those it *)
(* had: the send on the unbuffered channel does not wait for workers that   *)
(* have returned (runWorkers).                                              *)
SenderIsHeard ==
  \A i \in Runs : pc[i] = "send" /\ unsent[i] # {} /\ ~cancelled[i] =>
    \A w \in Workers : worker[i][w].pc # "done"

(* Every execution that is started ends, and stays so: neither the send     *)
(* loop nor wg.Wait is left waiting when workers stop at a done context     *)
(* (runWorkers, dispatchAndFinalize).                                       *)
TaskEnds == <>[](\A i \in Runs : pc[i] \in {"idle", "ended"})

(* "Each task gets a disjoint slice of repos" (ARCHITECTURE.md).  It does   *)
(* not hold: tasks shard lists read at different times, with other weights. *)
DisjointShards ==
  \A i, j \in Tasks : i # j => handled[i] \cap handled[j] = {}

-----------------------------------------------------------------------------
(* The inductive invariants behind BalancedShards and SuccessMeansHandled. *)

(* ShardRepos assigns heavy repositories first. *)
ShardInv(i) ==
  /\ pc[i] = "idle" => \A t \in Tasks : bin[i][t] = {}
  /\ \A t \in Tasks : \A r \in bin[i][t], q \in rest[i] : weight[i][q] <= weight[i][r]

(* Until the task ends, a repository of its shard is handled, in a worker's *)
(* hands or still to be sent, unless the context is done; nothing else is.  *)
InHand(i, r) == \E w \in Workers : worker[i][w].repo = r
Known(i, r) == r \in handled[i] \/ r \in unsent[i] \/ InHand(i, r)

DispatchInv(i) ==
  /\ \A w \in Workers : worker[i][w].pc \in {"mark", "fail"} => worker[i][w].repo \in handled[i]
  /\ pc[i] \in {"idle", "shard", "ended"} => \A w \in Workers : worker[i][w].repo = NoRepo
  /\ pc[i] \in {"idle", "shard"} => unsent[i] = {} /\ handled[i] = {}
  /\ pc[i] # "ended" => outcome[i] = "none"
  /\ pc[i] \in {"send", "wait"} =>
       \A r \in Repos : /\ Known(i, r) => r \in MyRepos(i)
                        /\ r \in MyRepos(i) /\ ~cancelled[i] => Known(i, r)
  /\ pc[i] = "wait" => cancelled[i] \/ unsent[i] = {}

=============================================================================
