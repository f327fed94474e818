-------------------------- MODULE ImportJobProofs ---------------------------
(***************************************************************************)
(* Proofs for ImportJob: type correctness, the balance of the greedy       *)
(* sharding and the completeness of the dispatch, for any number of tasks, *)
(* workers, repositories and tenants.                                      *)
(***************************************************************************)
EXTENDS ImportJob, TLAPS

(* Updating one worker keeps the type of worker. *)
LEMMA WorkerType ==
  ASSUME TypeOK, NEW i \in Runs, NEW w \in Workers, NEW s \in Worker
  PROVE  [worker EXCEPT ![i][w] = s] \in [Runs -> [Workers -> Worker]]
<1>1. worker \in [Runs -> [Workers -> Worker]]
  BY DEF TypeOK
<1>2. [worker[i] EXCEPT ![w] = s] \in [Workers -> Worker]
  BY <1>1
<1> QED BY <1>1, <1>2

(* What a worker is when it waits or ends, and when it has a repository. *)
LEMMA WorkerRecords ==
  /\ \A wpc \in {"recv", "done"} : Doing(wpc, NoRepo) \in Worker
  /\ \A wpc \in {"got", "import", "mark", "fail"}, r \in Repos : Doing(wpc, r) \in Worker
  /\ \A r \in Repos, rows \in SUBSET Rows :
       [pc |-> "mark", repo |-> r, rows |-> rows] \in Worker
BY DEF Doing, Worker, Idler, Importer

(* A worker that is not waiting or returned has a repository. *)
LEMMA WorkerRepo ==
  ASSUME NEW s \in Worker
  PROVE  /\ s.pc \in {"got", "import", "mark", "fail"} => s \in Importer
         /\ s.repo # NoRepo <=> s.pc \in {"got", "import", "mark", "fail"}
         /\ s.repo \in Repos \cup {NoRepo}
BY JobAssumption DEF Worker, Idler, Importer

(* Every step of a worker gives it a worker's record, and the repository    *)
(* it has in hand stays, goes or is one the task had to send.               *)
LEMMA WorkerStep ==
  ASSUME TypeOK, NEW i \in Runs, NEW w \in Workers,
         \/ Send(i, w) \/ Drained(i, w) \/ Check(i, w) \/ Count(i, w)
         \/ IncrementImportErrorsByRepo(i, w) \/ ImportRepoWork(i, w)
         \/ \E row \in Rows : ResetImportErrors(i, w, row)
  PROVE  \E s \in Worker : worker' = [worker EXCEPT ![i][w] = s]
<1>1. worker[i][w] \in Worker
  BY DEF TypeOK
<1>2. CASE Send(i, w)
  <2>1. PICK r \in unsent[i] : worker' = [worker EXCEPT ![i][w] = Doing("got", r)]
    BY <1>2 DEF Send, Busy
  <2>2. r \in Repos
    BY DEF TypeOK
  <2> QED BY <2>1, <2>2, WorkerRecords
<1>3. CASE Drained(i, w) \/ Count(i, w)
  BY <1>3, WorkerRecords DEF Drained, Count, Busy
<1>4. CASE Check(i, w)
  <2>1. worker[i][w].repo \in Repos
    BY <1>1, <1>4, WorkerRepo DEF Check, Importer
  <2> QED BY <1>4, <2>1, WorkerRecords DEF Check, Busy
<1>5. CASE IncrementImportErrorsByRepo(i, w)
  <2>1. worker[i][w].repo \in Repos
    BY <1>1, <1>5, WorkerRepo DEF IncrementImportErrorsByRepo, Importer
  <2>2. Doing("mark", worker[i][w].repo) \in Worker
    BY <2>1 DEF Doing, Worker, Importer
  <2> QED BY <1>5, <2>2 DEF IncrementImportErrorsByRepo, Busy
<1>6. CASE ImportRepoWork(i, w)
  <2>1. worker[i][w].repo \in Repos
    BY <1>1, <1>6, WorkerRepo DEF ImportRepoWork, Importer
  <2>2. RowsOf(worker[i][w].repo, listed[i]) \in SUBSET Rows
    BY DEF TypeOK, RowsOf
  <2> QED BY <1>6, <2>1, <2>2, WorkerRecords DEF ImportRepoWork, Busy
<1>7. ASSUME NEW row \in Rows, ResetImportErrors(i, w, row)
      PROVE  \E s \in Worker : worker' = [worker EXCEPT ![i][w] = s]
  <2>1. worker[i][w] \in Importer
    BY <1>1, <1>7, WorkerRepo DEF ResetImportErrors
  <2>2. [worker[i][w] EXCEPT !.rows = @ \ {row}] \in Worker
    BY <2>1 DEF Worker, Importer
  <2> QED BY <1>7, <2>2 DEF ResetImportErrors, Busy
<1> QED BY <1>2, <1>3, <1>4, <1>5, <1>6, <1>7

(* The step of a worker keeps the type of worker. *)
LEMMA WorkerTypeStep ==
  ASSUME TypeOK, NEW i \in Runs, NEW w \in Workers,
         \/ Send(i, w) \/ Drained(i, w) \/ Check(i, w) \/ Count(i, w)
         \/ IncrementImportErrorsByRepo(i, w) \/ ImportRepoWork(i, w)
         \/ \E row \in Rows : ResetImportErrors(i, w, row)
  PROVE  worker' \in [Runs -> [Workers -> Worker]]
<1>1. PICK s \in Worker : worker' = [worker EXCEPT ![i][w] = s]
  BY WorkerStep
<1> QED BY <1>1, WorkerType

(* Every step keeps the types. *)
LEMMA TypeStep ==
  ASSUME TypeOK, [Next]_vars
  PROVE  TypeOK'
<1>a. /\ errors \in [Rows -> Nat] /\ active \subseteq Rows
      /\ eventCount \in [Repos -> Nat] /\ weight \in [Runs -> [Repos -> Nat]]
  BY DEF TypeOK
<1>b. /\ rest \in [Runs -> SUBSET Repos] /\ unsent \in [Runs -> SUBSET Repos]
      /\ handled \in [Runs -> SUBSET Repos]
  BY DEF TypeOK
<1>c. load \in [Runs -> [Tasks -> Nat]] /\ bin \in [Runs -> [Tasks -> SUBSET Repos]]
  BY DEF TypeOK
<1>d. changes \in Nat
  BY DEF TypeOK
<1>e. \A row \in Rows : row[1] \in Repos
  BY DEF Rows
<1>1. ASSUME NEW i \in Runs, ListImportWork(i)
      PROVE  TypeOK'
  <2>1. {row \in active : errors[row] < ErrorLimit} \in SUBSET Rows
    BY <1>a
  <2>2. {row[1] : row \in {row \in active : errors[row] < ErrorLimit}} \in SUBSET Repos
    BY <1>a, <1>e
  <2> QED BY <1>1, <2>1, <2>2 DEF ListImportWork, database, tallies, TypeOK
<1>2. ASSUME NEW i \in Runs, NEW r \in Repos, ListImportWorkForRepo(i, r)
      PROVE  TypeOK'
  <2>1. RowsOf(r, active) \in SUBSET Rows /\ {q \in {r} : RowsOf(q, active) # {}} \in SUBSET Repos
    BY <1>a DEF RowsOf
  <2> QED BY <1>2, <2>1 DEF ListImportWorkForRepo, database, tallies, TypeOK
<1>3. ASSUME NEW i \in Runs, WorkListFails(i)
      PROVE  TypeOK'
  BY <1>3 DEF WorkListFails, database, sharding, tallies, TypeOK
<1>4. ASSUME NEW i \in Runs, Assign(i)
      PROVE  TypeOK'
  <2>1. PICK r \in rest[i], t \in Tasks :
          /\ rest' = [rest EXCEPT ![i] = @ \ {r}]
          /\ load' = [load EXCEPT ![i][t] = @ + Cost(weight[i][r])]
          /\ bin' = [bin EXCEPT ![i][t] = @ \cup {r}]
    BY <1>4 DEF Assign
  <2>2. r \in Repos /\ weight[i][r] \in Nat
    BY <1>a, <1>b, <2>1
  <2>3. Cost(weight[i][r]) \in Nat
    BY <2>2 DEF Cost
  <2>4. load' \in [Runs -> [Tasks -> Nat]]
    <3>1. load[i] \in [Tasks -> Nat]
      BY <1>c
    <3>2. [load[i] EXCEPT ![t] = @ + Cost(weight[i][r])] \in [Tasks -> Nat]
      BY <2>3, <3>1
    <3> QED BY <1>c, <2>1, <3>2
  <2>5. bin' \in [Runs -> [Tasks -> SUBSET Repos]]
    <3>1. bin[i] \in [Tasks -> SUBSET Repos]
      BY <1>c
    <3>2. [bin[i] EXCEPT ![t] = @ \cup {r}] \in [Tasks -> SUBSET Repos]
      BY <2>2, <3>1
    <3> QED BY <1>c, <2>1, <3>2
  <2>6. rest' \in [Runs -> SUBSET Repos]
    BY <1>b, <2>1
  <2> QED BY <1>4, <2>4, <2>5, <2>6 DEF Assign, database, tallies, TypeOK
<1>5. ASSUME NEW i \in Runs, Sharded(i)
      PROVE  TypeOK'
  <2>1. bin[i][i] \in SUBSET Repos
    BY <1>5, <1>c DEF Sharded
  <2> QED BY <1>5, <2>1 DEF Sharded, database, sharding, tallies, TypeOK
<1>6. ASSUME NEW i \in Runs, Close(i) \/ Finalize(i) \/ Cancel(i)
      PROVE  TypeOK'
  <2>1. changes' \in Nat
    <3>1. CASE Close(i) \/ Finalize(i)
      BY <3>1, <1>d DEF Close, Finalize
    <3>2. CASE Cancel(i)
      BY <3>2, <1>d DEF Cancel, Change
    <3> QED BY <1>6, <3>1, <3>2
  <2> QED BY <1>6, <2>1 DEF Close, Finalize, Cancel, database, sharding, tallies, TypeOK
<1>7. ASSUME NEW i \in Runs, NEW w \in Workers, Send(i, w)
      PROVE  TypeOK'
  <2>1. worker' \in [Runs -> [Workers -> Worker]]
    BY <1>7, WorkerTypeStep
  <2>2. unsent' \in [Runs -> SUBSET Repos]
    BY <1>7, <1>b DEF Send
  <2> QED BY <1>7, <2>1, <2>2 DEF Send, database, sharding, tallies, TypeOK
<1>8. ASSUME NEW i \in Runs, NEW w \in Workers, Drained(i, w) \/ Check(i, w) \/ Count(i, w)
      PROVE  TypeOK'
  <2>1. worker' \in [Runs -> [Workers -> Worker]]
    BY <1>8, WorkerTypeStep
  <2>2. completed' \in [Runs -> Nat]
    <3>1. completed \in [Runs -> Nat]
      BY DEF TypeOK
    <3>2. CASE Count(i, w)
      BY <3>1, <3>2 DEF Count
    <3>3. CASE Drained(i, w) \/ Check(i, w)
      BY <3>1, <3>3 DEF Drained, Check, tallies
    <3> QED BY <1>8, <3>2, <3>3
  <2> QED BY <1>8, <2>1, <2>2 DEF Drained, Check, Count, database, sharding, tallies, TypeOK
<1>9. ASSUME NEW i \in Runs, NEW w \in Workers, IncrementImportErrorsByRepo(i, w)
      PROVE  TypeOK'
  <2>1. worker' \in [Runs -> [Workers -> Worker]]
    BY <1>9, WorkerTypeStep
  <2>2. errors' \in [Rows -> Nat]
    BY <1>9, <1>a DEF IncrementImportErrorsByRepo
  <2> QED BY <1>9, <2>1, <2>2 DEF IncrementImportErrorsByRepo, sharding, tallies, TypeOK
<1>10. ASSUME NEW i \in Runs, NEW w \in Workers, ImportRepoWork(i, w)
       PROVE  TypeOK'
  <2>1. worker' \in [Runs -> [Workers -> Worker]]
    BY <1>10, WorkerTypeStep
  <2>2. worker[i][w] \in Worker
    BY DEF TypeOK
  <2>3. worker[i][w].repo \in Repos
    BY <1>10, <2>2, WorkerRepo DEF ImportRepoWork, Importer
  <2>4. eventCount' \in [Repos -> Nat]
    BY <1>10, <1>a, <2>3 DEF ImportRepoWork
  <2>5. handled' \in [Runs -> SUBSET Repos]
    BY <1>10, <1>b, <2>3 DEF ImportRepoWork
  <2>6. failures' \in [Runs -> Nat]
    <3>1. failures \in [Runs -> Nat]
      BY DEF TypeOK
    <3>2. failures' = failures \/ failures' = [failures EXCEPT ![i] = @ + 1]
      BY <1>10 DEF ImportRepoWork
    <3> QED BY <3>1, <3>2
  <2>7. changes' \in Nat
    BY <1>10, <1>d DEF ImportRepoWork, Change
  <2> QED BY <1>10, <2>1, <2>4, <2>5, <2>6, <2>7 DEF ImportRepoWork, sharding, TypeOK
<1>11. ASSUME NEW i \in Runs, NEW w \in Workers, NEW row \in Rows, ResetImportErrors(i, w, row)
       PROVE  TypeOK'
  <2>1. worker' \in [Runs -> [Workers -> Worker]]
    BY <1>11, WorkerTypeStep
  <2>2. errors' \in [Rows -> Nat]
    BY <1>11, <1>a DEF ResetImportErrors
  <2> QED BY <1>11, <2>1, <2>2 DEF ResetImportErrors, sharding, tallies, TypeOK
<1>12. ASSUME NEW row \in Rows, SetActive(row)
       PROVE  TypeOK'
  <2>1. active' \subseteq Rows
    BY <1>12, <1>a DEF SetActive
  <2>2. changes' \in Nat
    BY <1>12, <1>d DEF SetActive, Change
  <2> QED BY <1>12, <2>1, <2>2 DEF SetActive, sharding, tallies, TypeOK
<1>13. ASSUME NEW r \in Repos, ResetImportErrorsByRepo(r)
       PROVE  TypeOK'
  <2>1. errors' \in [Rows -> Nat]
    BY <1>13, <1>a DEF ResetImportErrorsByRepo
  <2>2. changes' \in Nat
    BY <1>13, <1>d DEF ResetImportErrorsByRepo, Change
  <2> QED BY <1>13, <2>1, <2>2 DEF ResetImportErrorsByRepo, sharding, tallies, TypeOK
<1>14. CASE UNCHANGED vars
  BY <1>14 DEF vars, database, sharding, tallies, TypeOK
<1> QED BY <1>1, <1>2, <1>3, <1>4, <1>5, <1>6, <1>7, <1>8, <1>9, <1>10, <1>11, <1>12,
           <1>13, <1>14
        DEF Next, Work

(* Every variable of the job keeps its type, whatever tasks overlap and     *)
(* are cancelled: in particular the work list a task shards is one of       *)
(* repositories, each once, whoever tracks them (BuildWorkList).            *)
THEOREM TypeCorrect == Spec => []TypeOK
<1>1. Init => TypeOK
  <2> SUFFICES ASSUME Init PROVE TypeOK
    OBVIOUS
  <2>1. eventCount \in [Repos -> Nat] /\ errors \in [Rows -> Nat] /\ active \subseteq Rows
    BY JobAssumption DEF Init
  <2>2. worker \in [Runs -> [Workers -> Worker]]
    BY WorkerRecords DEF Init
  <2> QED BY <2>1, <2>2 DEF Init, TypeOK
<1>2. TypeOK /\ [Next]_vars => TypeOK'
  BY TypeStep
<1> QED BY <1>1, <1>2, PTL DEF Spec

-----------------------------------------------------------------------------
(* ShardRepos. *)

(* A step that leaves the sharding of task i alone. *)
ShardingKept(i) ==
  /\ weight'[i] = weight[i] /\ rest'[i] = rest[i]
  /\ load'[i] = load[i] /\ bin'[i] = bin[i]
  /\ pc'[i] = "idle" => pc[i] = "idle"

(* Only reading the work list and the assignment loop change it. *)
LEMMA ShardingSteps ==
  ASSUME TypeOK, [Next]_vars, NEW i \in Tasks
  PROVE  ListImportWork(i) \/ Assign(i) \/ ShardingKept(i)
<1>a. i \in Runs
  BY DEF Runs
<1>b. /\ pc \in [Runs -> {"idle", "shard", "send", "wait", "ended"}]
      /\ weight \in [Runs -> [Repos -> Nat]] /\ rest \in [Runs -> SUBSET Repos]
      /\ load \in [Runs -> [Tasks -> Nat]] /\ bin \in [Runs -> [Tasks -> SUBSET Repos]]
  BY DEF TypeOK
<1>1. ASSUME NEW j \in Runs, ListImportWork(j), i # j
      PROVE  ShardingKept(i)
  BY <1>1, <1>a, <1>b DEF ListImportWork, ShardingKept
<1>2. ASSUME NEW j \in Runs, NEW r \in Repos, ListImportWorkForRepo(j, r)
      PROVE  ShardingKept(i)
  <2>1. i # j
    BY <1>2, JobAssumption DEF ListImportWorkForRepo, Tasks
  <2> QED BY <1>2, <2>1, <1>a, <1>b DEF ListImportWorkForRepo, ShardingKept
<1>3. ASSUME NEW j \in Runs, Assign(j), i # j
      PROVE  ShardingKept(i)
  BY <1>3, <1>a, <1>b DEF Assign, ShardingKept
<1>4. ASSUME NEW j \in Runs, WorkListFails(j) \/ Sharded(j) \/ Close(j) \/ Finalize(j)
      PROVE  ShardingKept(i)
  BY <1>4, <1>a, <1>b DEF WorkListFails, Sharded, Close, Finalize, ShardingKept, sharding
<1>5. ASSUME UNCHANGED <<pc, sharding>>
      PROVE  ShardingKept(i)
  BY <1>5 DEF ShardingKept, sharding
<1>6. ASSUME NEW j \in Runs, NEW w \in Workers,
             \/ Send(j, w) \/ Drained(j, w) \/ Check(j, w) \/ Count(j, w)
             \/ IncrementImportErrorsByRepo(j, w) \/ ImportRepoWork(j, w)
             \/ \E row \in Rows : ResetImportErrors(j, w, row)
      PROVE  UNCHANGED <<pc, sharding>>
  BY <1>6 DEF Send, Drained, Check, Count, IncrementImportErrorsByRepo, ImportRepoWork,
              ResetImportErrors
<1>7. ASSUME \/ \E j \in Runs : Cancel(j)
             \/ \E row \in Rows : SetActive(row)
             \/ \E r \in Repos : ResetImportErrorsByRepo(r)
             \/ UNCHANGED vars
      PROVE  UNCHANGED <<pc, sharding>>
  BY <1>7 DEF Cancel, SetActive, ResetImportErrorsByRepo, vars
<1> QED BY <1>1, <1>2, <1>3, <1>4, <1>5, <1>6, <1>7 DEF Next, Work

(* The balance of one task's assignments. *)
Balanced(i) ==
  \A t, u \in Tasks : \A r \in bin[i][t] : load[i][t] <= load[i][u] + Cost(weight[i][r])

(* One round of the greedy assignment keeps the balance: the new repository *)
(* is no heavier than those before it and goes to the lightest task.        *)
LEMMA AssignBalanced ==
  ASSUME TypeOK, NEW i \in Tasks, ShardInv(i), Balanced(i), Assign(i)
  PROVE  ShardInv(i)' /\ Balanced(i)'
<1>a. i \in Runs
  BY DEF Runs
<1>1. PICK r \in rest[i], t \in Tasks :
        /\ FirstOf(weight[i], r, rest[i]) /\ minTask(load[i], t)
        /\ rest' = [rest EXCEPT ![i] = @ \ {r}]
        /\ load' = [load EXCEPT ![i][t] = @ + Cost(weight[i][r])]
        /\ bin' = [bin EXCEPT ![i][t] = @ \cup {r}]
  BY DEF Assign
<1>2. weight' = weight /\ pc' = pc /\ pc[i] = "shard"
  BY DEF Assign
<1>3. /\ rest[i] \subseteq Repos /\ weight[i] \in [Repos -> Nat]
      /\ load[i] \in [Tasks -> Nat] /\ bin[i] \in [Tasks -> SUBSET Repos]
  BY <1>a DEF TypeOK
<1>4. /\ rest'[i] = rest[i] \ {r}
      /\ load'[i] = [load[i] EXCEPT ![t] = @ + Cost(weight[i][r])]
      /\ bin'[i] = [bin[i] EXCEPT ![t] = @ \cup {r}]
  BY <1>1, <1>a DEF TypeOK
<1>5. \A n \in Nat : Cost(n) \in Nat /\ Cost(n) >= 1
  BY DEF Cost
<1>6. \A q \in rest[i] : weight[i][q] <= weight[i][r]
  BY <1>1, <1>3 DEF FirstOf, Heavier
<1>7. \A u \in Tasks : \A q \in bin[i][u] : weight[i][r] <= weight[i][q]
  BY <1>1 DEF ShardInv
<1>8. ShardInv(i)'
  BY <1>2, <1>3, <1>4, <1>6 DEF ShardInv
<1>9. ASSUME NEW x \in Tasks, NEW u \in Tasks, NEW q \in bin'[i][x]
      PROVE  load'[i][x] <= load'[i][u] + Cost(weight[i][q])
  <2>1. /\ load[i][x] \in Nat /\ load[i][u] \in Nat /\ load[i][t] \in Nat
        /\ load[i][t] <= load[i][u]
    BY <1>1, <1>3 DEF minTask
  <2>2. q \in Repos /\ weight[i][q] \in Nat /\ weight[i][r] \in Nat
    BY <1>3, <1>4
  <2>3. Cost(weight[i][q]) \in Nat /\ Cost(weight[i][r]) \in Nat
    BY <2>2, <1>5
  <2>4. load'[i][u] >= load[i][u] /\ load'[i][u] \in Nat
    BY <1>3, <1>4, <2>1, <2>3
  <2>5. CASE x = t
    <3>1. weight[i][r] <= weight[i][q]
      BY <1>4, <1>3, <1>7, <2>2, <2>5
    <3>2. Cost(weight[i][r]) <= Cost(weight[i][q])
      BY <2>2, <3>1 DEF Cost
    <3>3. load'[i][x] = load[i][t] + Cost(weight[i][r])
      BY <1>3, <1>4, <2>5
    <3> QED BY <2>1, <2>3, <2>4, <3>2, <3>3
  <2>6. CASE x # t
    <3>1. load'[i][x] = load[i][x] /\ q \in bin[i][x]
      BY <1>3, <1>4, <2>6
    <3>2. load[i][x] <= load[i][u] + Cost(weight[i][q])
      BY <3>1 DEF Balanced
    <3> QED BY <2>1, <2>3, <2>4, <3>1, <3>2
  <2> QED BY <2>5, <2>6
<1> QED BY <1>2, <1>8, <1>9 DEF Balanced

(* Every step keeps the balance. *)
LEMMA BalanceStep ==
  ASSUME TypeOK, [Next]_vars, NEW i \in Tasks, ShardInv(i), Balanced(i)
  PROVE  ShardInv(i)' /\ Balanced(i)'
<1>a. i \in Runs
  BY DEF Runs
<1>1. CASE ListImportWork(i)
  <2>1. \A t \in Tasks : bin[i][t] = {}
    BY <1>1 DEF ListImportWork, CanStart, ShardInv
  <2>2. bin' = bin /\ pc'[i] # "idle"
    BY <1>1, <1>a DEF ListImportWork, TypeOK
  <2> QED BY <2>1, <2>2 DEF ShardInv, Balanced
<1>2. CASE Assign(i)
  BY <1>2, AssignBalanced
<1>3. CASE ShardingKept(i)
  BY <1>3 DEF ShardingKept, ShardInv, Balanced
<1> QED BY <1>1, <1>2, <1>3, ShardingSteps

(* ShardRepos is balanced for every work list and number of tasks: no task  *)
(* is heavier than another by more than the lightest repository it has.     *)
THEOREM BalanceTheorem == Spec => []BalancedShards
<1> DEFINE Inv == \A i \in Tasks : ShardInv(i) /\ Balanced(i)
<1>1. Init => Inv
  BY DEF Init, ShardInv, Balanced, Runs
<1>2. TypeOK /\ Inv /\ [Next]_vars => Inv'
  BY BalanceStep
<1>3. Inv => BalancedShards
  BY DEF Balanced, BalancedShards
<1> QED BY <1>1, <1>2, <1>3, TypeCorrect, PTL DEF Spec

-----------------------------------------------------------------------------
(* runWorkers. *)

(* The parts of SuccessMeansHandled and WorkersDisjoint for one task. *)
Handed(i) == outcome[i] = "ok" => handled[i] = MyRepos(i)

Disjoint(i) ==
  \A v, w \in Workers : worker[i][v].repo # NoRepo =>
    /\ v # w => worker[i][v].repo # worker[i][w].repo
    /\ worker[i][v].repo \notin unsent[i]

DispatchOK(i) == DispatchInv(i) /\ Handed(i) /\ Disjoint(i)

(* A step that leaves the dispatch of task i alone. *)
DispatchKept(i) ==
  /\ pc'[i] = pc[i] /\ listed'[i] = listed[i] /\ bin'[i] = bin[i]
  /\ unsent'[i] = unsent[i] /\ cancelled'[i] = cancelled[i] /\ worker'[i] = worker[i]
  /\ handled'[i] = handled[i] /\ outcome'[i] = outcome[i]

LEMMA KeptDispatch ==
  ASSUME NEW i \in Runs, DispatchOK(i), DispatchKept(i)
  PROVE  DispatchOK(i)'
BY DEF DispatchOK, DispatchInv, Handed, Disjoint, DispatchKept, Known, InHand, MyRepos

(* Everything a task changes is its own entry. *)
LEMMA OtherTasks ==
  ASSUME TypeOK, NEW i \in Runs, NEW j \in Runs, i # j,
         \/ ListImportWork(j) \/ WorkListFails(j) \/ Work(j) \/ Cancel(j)
         \/ \E r \in Repos : ListImportWorkForRepo(j, r)
  PROVE  DispatchKept(i)
<1>a. /\ pc \in [Runs -> {"idle", "shard", "send", "wait", "ended"}]
      /\ listed \in [Runs -> SUBSET Rows] /\ bin \in [Runs -> [Tasks -> SUBSET Repos]]
      /\ unsent \in [Runs -> SUBSET Repos] /\ cancelled \in [Runs -> BOOLEAN]
      /\ worker \in [Runs -> [Workers -> Worker]] /\ handled \in [Runs -> SUBSET Repos]
      /\ outcome \in [Runs -> {"none", "ok", "interrupted", "all failed", "no work list"}]
  BY DEF TypeOK
<1>1. ASSUME \/ ListImportWork(j) \/ WorkListFails(j) \/ Cancel(j)
             \/ \E r \in Repos : ListImportWorkForRepo(j, r)
      PROVE  DispatchKept(i)
  BY <1>1, <1>a DEF ListImportWork, WorkListFails, Cancel, ListImportWorkForRepo,
                    DispatchKept, tallies, sharding
<1>2. ASSUME Assign(j) \/ Sharded(j) \/ Close(j) \/ Finalize(j)
      PROVE  DispatchKept(i)
  BY <1>2, <1>a DEF Assign, Sharded, Close, Finalize, DispatchKept, tallies, sharding
<1>3. ASSUME NEW w \in Workers, Send(j, w) \/ Drained(j, w) \/ Check(j, w) \/ Count(j, w)
      PROVE  DispatchKept(i)
  BY <1>3, <1>a DEF Send, Drained, Check, Count, Busy, DispatchKept, tallies, sharding
<1>4. ASSUME NEW w \in Workers,
             \/ IncrementImportErrorsByRepo(j, w) \/ ImportRepoWork(j, w)
             \/ \E row \in Rows : ResetImportErrors(j, w, row)
      PROVE  DispatchKept(i)
  BY <1>4, <1>a DEF IncrementImportErrorsByRepo, ImportRepoWork, ResetImportErrors, Busy,
                    DispatchKept, tallies, sharding
<1> QED BY <1>1, <1>2, <1>3, <1>4 DEF Work

(* Once every worker of a task has returned, none has a repository in hand. *)
LEMMA DoneIsIdle ==
  ASSUME TypeOK, NEW i \in Runs, AllDone(i), NEW w \in Workers
  PROVE  worker[i][w].repo = NoRepo
<1>1. worker[i][w] \in Worker
  BY DEF TypeOK
<1>2. worker[i][w].pc = "done"
  BY DEF AllDone
<1> QED BY <1>1, <1>2, WorkerRepo

(* A task that reads its work list, shards it, closes the channel or ends. *)
LEMMA TaskSteps ==
  ASSUME TypeOK, NEW i \in Runs, DispatchOK(i),
         \/ ListImportWork(i) \/ WorkListFails(i) \/ Assign(i) \/ Sharded(i)
         \/ Close(i) \/ Finalize(i) \/ Cancel(i)
         \/ \E r \in Repos : ListImportWorkForRepo(i, r)
  PROVE  DispatchOK(i)'
<1>a. /\ pc \in [Runs -> {"idle", "shard", "send", "wait", "ended"}]
      /\ listed \in [Runs -> SUBSET Rows] /\ bin \in [Runs -> [Tasks -> SUBSET Repos]]
      /\ unsent \in [Runs -> SUBSET Repos] /\ cancelled \in [Runs -> BOOLEAN]
      /\ worker \in [Runs -> [Workers -> Worker]] /\ handled \in [Runs -> SUBSET Repos]
      /\ outcome \in [Runs -> {"none", "ok", "interrupted", "all failed", "no work list"}]
  BY DEF TypeOK
<1> USE DEF DispatchOK, DispatchInv, Handed, Disjoint
<1>1. CASE ListImportWork(i)
  BY <1>1, <1>a DEF ListImportWork, CanStart, tallies
<1>2. CASE WorkListFails(i)
  BY <1>2, <1>a DEF WorkListFails, CanStart, tallies
<1>3. CASE Assign(i)
  BY <1>3, <1>a DEF Assign, tallies
<1>4. CASE Sharded(i)
  <2>1. /\ MyRepos(i)' = bin[i][i] /\ unsent'[i] = bin[i][i]
        /\ worker' = worker /\ handled' = handled /\ cancelled' = cancelled
        /\ pc'[i] = (IF bin[i][i] = {} THEN "ended" ELSE "send")
        /\ outcome'[i] = (IF bin[i][i] = {} THEN "ok" ELSE outcome[i])
        /\ pc[i] = "shard"
    BY <1>4, <1>a DEF Sharded, MyRepos, sharding, tallies
  <2>2. /\ \A w \in Workers : worker[i][w].repo = NoRepo
        /\ handled[i] = {} /\ outcome[i] = "none"
    BY <2>1
  <2>3. bin[i][i] \subseteq Repos
    BY <1>4, <1>a DEF Sharded
  <2> QED BY <2>1, <2>2, <2>3, JobAssumption DEF Known, InHand
<1>5. CASE Close(i)
  BY <1>5, <1>a DEF Close, Known, InHand, MyRepos, sharding, tallies
<1>6. CASE Finalize(i)
  <2>1. /\ MyRepos(i)' = MyRepos(i) /\ UNCHANGED <<unsent, cancelled, worker, handled>>
        /\ pc[i] = "wait" /\ pc'[i] = "ended" /\ AllDone(i)
        /\ outcome'[i] = "ok" => ~cancelled[i]
    BY <1>6, <1>a DEF Finalize, MyRepos, sharding, tallies
  <2>2. \A w \in Workers : worker[i][w].repo = NoRepo
    BY <2>1, DoneIsIdle
  <2>3. MyRepos(i) \subseteq Repos
    <3>1. \A row \in Rows : row[1] \in Repos
      BY DEF Rows
    <3>2. listed[i] \subseteq Rows /\ (i \in Tasks => bin[i][i] \subseteq Repos)
      BY <1>a
    <3> QED BY <3>1, <3>2 DEF MyRepos
  <2>4. handled[i] \subseteq MyRepos(i)
    BY <2>1, <1>a DEF Known
  <2>5. ~cancelled[i] => handled[i] = MyRepos(i)
    <3> SUFFICES ASSUME ~cancelled[i], NEW r \in MyRepos(i) PROVE r \in handled[i]
      BY <2>4
    <3>1. r \in Repos /\ r # NoRepo
      BY <2>3, JobAssumption
    <3>2. Known(i, r)
      BY <2>1, <3>1
    <3>3. unsent[i] = {}
      BY <2>1
    <3> QED BY <2>2, <3>1, <3>2, <3>3 DEF Known, InHand
  <2> QED BY <2>1, <2>2, <2>5
<1>7. CASE Cancel(i)
  BY <1>7, <1>a DEF Cancel, Known, InHand, MyRepos, sharding, tallies
<1>8. ASSUME NEW r \in Repos, ListImportWorkForRepo(i, r)
      PROVE  DispatchOK(i)'
  <2> DEFINE rows == RowsOf(r, active)
  <2>1. /\ listed'[i] = rows /\ unsent'[i] = {q \in {r} : RowsOf(q, active) # {}}
        /\ worker' = worker /\ handled' = handled /\ cancelled' = cancelled
        /\ pc'[i] = (IF rows = {} THEN "ended" ELSE "send")
        /\ outcome'[i] = (IF rows = {} THEN "ok" ELSE outcome[i])
        /\ pc[i] = "idle"
    BY <1>8, <1>a DEF ListImportWorkForRepo, CanStart, tallies
  <2>2. /\ \A w \in Workers : worker[i][w].repo = NoRepo
        /\ handled[i] = {} /\ outcome[i] = "none"
    BY <2>1
  <2>3. unsent'[i] = IF rows = {} THEN {} ELSE {r}
    BY <2>1
  <2>4. \A row \in rows : row[1] = r
    BY DEF RowsOf
  <2>5. MyRepos(i)' = IF rows = {} THEN {} ELSE {r}
    <3>1. i \notin Tasks
      BY <1>8, JobAssumption DEF ListImportWorkForRepo, Tasks
    <3> QED BY <2>1, <2>4, <3>1 DEF MyRepos
  <2> HIDE DEF rows
  <2> QED BY <2>1, <2>2, <2>3, <2>5, JobAssumption DEF Known, InHand
<1> QED BY <1>1, <1>2, <1>3, <1>4, <1>5, <1>6, <1>7, <1>8

(* The steps of a task's workers. *)
LEMMA WorkerSteps ==
  ASSUME TypeOK, NEW i \in Runs, NEW w \in Workers, DispatchOK(i),
         \/ Send(i, w) \/ Drained(i, w) \/ Check(i, w) \/ Count(i, w)
         \/ IncrementImportErrorsByRepo(i, w) \/ ImportRepoWork(i, w)
         \/ \E row \in Rows : ResetImportErrors(i, w, row)
  PROVE  DispatchOK(i)'
<1>a. /\ unsent \in [Runs -> SUBSET Repos] /\ handled \in [Runs -> SUBSET Repos]
      /\ worker \in [Runs -> [Workers -> Worker]]
  BY DEF TypeOK
<1>b. worker[i][w] \in Worker
  BY <1>a
<1>c. /\ worker[i][w].repo # NoRepo <=> worker[i][w].pc \in {"got", "import", "mark", "fail"}
      /\ worker[i][w].repo \in Repos \cup {NoRepo}
  BY <1>b, WorkerRepo
<1>d. /\ pc' = pc /\ cancelled' = cancelled /\ outcome' = outcome
      /\ listed' = listed /\ bin' = bin /\ MyRepos(i)' = MyRepos(i)
  BY DEF Send, Drained, Check, Count, IncrementImportErrorsByRepo, ImportRepoWork,
         ResetImportErrors, sharding, MyRepos
<1>e. /\ worker'[i][w] \in Worker
      /\ \A v \in Workers : v # w => worker'[i][v] = worker[i][v]
  <2>1. PICK s \in Worker : worker' = [worker EXCEPT ![i][w] = s]
    BY WorkerStep
  <2> QED BY <2>1, <1>a
<1>1. CASE Send(i, w)
  <2>1. PICK r \in unsent[i] : /\ unsent' = [unsent EXCEPT ![i] = @ \ {r}]
                              /\ worker' = [worker EXCEPT ![i][w] = Doing("got", r)]
    BY <1>1 DEF Send, Busy
  <2>2. /\ r \in Repos /\ r # NoRepo /\ handled' = handled /\ pc[i] = "send"
        /\ worker[i][w].pc = "recv"
    BY <1>1, <1>a, <2>1, JobAssumption DEF Send, tallies
  <2>3. worker'[i][w].repo = r /\ worker'[i][w].pc = "got" /\ unsent'[i] = unsent[i] \ {r}
    BY <2>1, <1>a DEF Doing
  <2>4. worker[i][w].repo = NoRepo
    BY <1>c, <2>2
  <2>5. \A v \in Workers : worker[i][v].repo # r
    BY <2>1, <2>2 DEF DispatchOK, Disjoint
  <2>6. \A q : q # NoRepo => (Known(i, q)' <=> Known(i, q))
    BY <1>e, <2>1, <2>2, <2>3, <2>4 DEF Known, InHand
  <2>7. Disjoint(i)'
    BY <1>e, <2>3, <2>5 DEF DispatchOK, Disjoint
  <2>8. DispatchInv(i)'
    BY <1>d, <1>e, <2>2, <2>3, <2>6, JobAssumption DEF DispatchOK, DispatchInv
  <2> QED BY <1>d, <2>2, <2>7, <2>8 DEF DispatchOK, Handed, DispatchInv
<1>2. CASE Drained(i, w)
  <2>1. worker'[i][w].repo = NoRepo /\ worker'[i][w].pc = "done"
    BY <1>2, <1>a DEF Drained, Busy, Doing
  <2>2. unsent' = unsent /\ handled' = handled /\ worker[i][w].pc = "recv"
    BY <1>2 DEF Drained, tallies
  <2>3. worker[i][w].repo = NoRepo
    BY <1>c, <2>2
  <2>4. \A q : Known(i, q)' <=> Known(i, q)
    BY <1>e, <2>1, <2>2, <2>3 DEF Known, InHand
  <2> QED BY <1>d, <1>e, <2>1, <2>2, <2>3, <2>4 DEF DispatchOK, DispatchInv, Handed, Disjoint
<1>3. ASSUME worker'[i][w].repo = worker[i][w].repo, unsent' = unsent,
             handled' = [handled EXCEPT ![i] = @ \cup {worker[i][w].repo}] \/ handled' = handled,
             worker'[i][w].pc \in {"mark", "fail"} => worker[i][w].repo \in handled'[i],
             worker[i][w].repo # NoRepo
      PROVE  DispatchOK(i)'
  <2>1. /\ handled[i] \subseteq handled'[i]
        /\ \A q \in handled'[i] : q \in handled[i] \/ q = worker[i][w].repo
    BY <1>3, <1>a
  <2>2. \A q : InHand(i, q)' <=> InHand(i, q)
    BY <1>3, <1>e DEF InHand
  <2>3. \A q : Known(i, q)' <=> Known(i, q)
    BY <1>3, <2>1, <2>2 DEF Known, InHand
  <2>4. pc[i] \notin {"idle", "shard", "ended"}
    BY <1>3 DEF DispatchOK, DispatchInv
  <2>5. Disjoint(i)'
    BY <1>3, <1>e DEF DispatchOK, Disjoint
  <2>6. DispatchInv(i)'
    BY <1>3, <1>d, <1>e, <2>1, <2>3, <2>4 DEF DispatchOK, DispatchInv
  <2> QED BY <1>d, <2>4, <2>5, <2>6 DEF DispatchOK, DispatchInv, Handed
<1>4. CASE Check(i, w)
  <2>1. unsent' = unsent /\ handled' = handled /\ worker[i][w].pc = "got"
    BY <1>4 DEF Check, tallies
  <2>2. CASE ~cancelled[i]
    <3>1. worker'[i][w].repo = worker[i][w].repo /\ worker'[i][w].pc = "import"
      BY <1>4, <2>2, <1>a DEF Check, Busy, Doing
    <3> QED BY <1>3, <1>c, <2>1, <3>1
  <2>3. CASE cancelled[i]
    <3>1. worker'[i][w].repo = NoRepo /\ worker'[i][w].pc = "done"
      BY <1>4, <2>3, <1>a DEF Check, Busy, Doing
    <3>2. \A q : q # NoRepo => (Known(i, q)' => Known(i, q))
      BY <1>e, <2>1, <3>1 DEF Known, InHand
    <3>3. Disjoint(i)'
      BY <1>e, <2>1, <3>1 DEF DispatchOK, Disjoint
    <3>4. DispatchInv(i)'
      BY <1>d, <1>e, <2>1, <2>3, <3>1, <3>2, JobAssumption DEF DispatchOK, DispatchInv
    <3> QED BY <1>d, <2>1, <3>3, <3>4 DEF DispatchOK, Handed
  <2> QED BY <2>2, <2>3
<1>5. CASE ImportRepoWork(i, w)
  <2>1. /\ unsent' = unsent /\ worker[i][w].pc = "import"
        /\ handled' = [handled EXCEPT ![i] = @ \cup {worker[i][w].repo}]
    BY <1>5 DEF ImportRepoWork
  <2>2. worker'[i][w].repo = worker[i][w].repo
    BY <1>5, <1>a DEF ImportRepoWork, Busy, Doing
  <2>3. worker[i][w].repo \in handled'[i]
    BY <2>1, <1>a
  <2> QED BY <1>3, <1>c, <2>1, <2>2, <2>3
<1>6. CASE IncrementImportErrorsByRepo(i, w)
  <2>1. unsent' = unsent /\ handled' = handled /\ worker[i][w].pc = "fail"
    BY <1>6 DEF IncrementImportErrorsByRepo, tallies
  <2>2. worker'[i][w].repo = worker[i][w].repo
    BY <1>6, <1>a DEF IncrementImportErrorsByRepo, Busy, Doing
  <2>3. worker[i][w].repo \in handled'[i]
    BY <2>1 DEF DispatchOK, DispatchInv
  <2> QED BY <1>3, <1>c, <2>1, <2>2, <2>3
<1>7. ASSUME NEW row \in Rows, ResetImportErrors(i, w, row)
      PROVE  DispatchOK(i)'
  <2>1. unsent' = unsent /\ handled' = handled /\ worker[i][w].pc = "mark"
    BY <1>7 DEF ResetImportErrors, tallies
  <2>2. worker[i][w] \in Importer
    BY <1>b, <2>1, WorkerRepo
  <2>3. worker'[i][w].repo = worker[i][w].repo
    BY <1>7, <1>a, <2>2 DEF ResetImportErrors, Busy, Importer
  <2>4. worker[i][w].repo \in handled'[i]
    BY <2>1 DEF DispatchOK, DispatchInv
  <2> QED BY <1>3, <1>c, <2>1, <2>3, <2>4
<1>8. CASE Count(i, w)
  <2>1. unsent' = unsent /\ handled' = handled /\ worker[i][w].pc = "mark"
    BY <1>8 DEF Count
  <2>2. worker'[i][w].repo = NoRepo /\ worker'[i][w].pc = "recv"
    BY <1>8, <1>a DEF Count, Busy, Doing
  <2>3. worker[i][w].repo \in handled[i]
    BY <2>1 DEF DispatchOK, DispatchInv
  <2>4. \A q : q # NoRepo => (Known(i, q)' <=> Known(i, q))
    BY <1>e, <2>1, <2>2, <2>3 DEF Known, InHand
  <2>5. Disjoint(i)'
    BY <1>e, <2>1, <2>2 DEF DispatchOK, Disjoint
  <2>6. DispatchInv(i)'
    BY <1>d, <1>e, <2>1, <2>2, <2>4, JobAssumption DEF DispatchOK, DispatchInv
  <2> QED BY <1>d, <2>1, <2>5, <2>6 DEF DispatchOK, Handed
<1> QED BY <1>1, <1>2, <1>4, <1>5, <1>6, <1>7, <1>8

(* Every step keeps DispatchOK for every task. *)
LEMMA DispatchStep ==
  ASSUME TypeOK, [Next]_vars, NEW i \in Runs, DispatchOK(i)
  PROVE  DispatchOK(i)'
<1>1. ASSUME NEW j \in Runs,
             \/ ListImportWork(j) \/ WorkListFails(j) \/ Work(j) \/ Cancel(j)
             \/ \E r \in Repos : ListImportWorkForRepo(j, r)
      PROVE  DispatchOK(i)'
  <2>1. CASE i # j
    BY <1>1, <2>1, OtherTasks, KeptDispatch
  <2>2. CASE i = j
    BY <1>1, <2>2, TaskSteps, WorkerSteps DEF Work
  <2> QED BY <2>1, <2>2
<1>2. ASSUME \/ \E row \in Rows : SetActive(row)
             \/ \E r \in Repos : ResetImportErrorsByRepo(r)
             \/ UNCHANGED vars
      PROVE  DispatchOK(i)'
  <2>1. DispatchKept(i)
    BY <1>2 DEF SetActive, ResetImportErrorsByRepo, vars, sharding, tallies, DispatchKept
  <2> QED BY <2>1, KeptDispatch
<1> QED BY <1>1, <1>2 DEF Next

LEMMA DispatchAlways == Spec => [](\A i \in Runs : DispatchOK(i))
<1> DEFINE Inv == \A i \in Runs : DispatchOK(i)
<1>1. Init => Inv
  <2> SUFFICES ASSUME Init, NEW i \in Runs PROVE DispatchOK(i)
    OBVIOUS
  <2>1. /\ pc[i] = "idle" /\ unsent[i] = {} /\ handled[i] = {} /\ outcome[i] = "none"
        /\ \A w \in Workers : worker[i][w].repo = NoRepo /\ worker[i][w].pc = "recv"
    BY DEF Init, Doing
  <2> QED BY <2>1 DEF DispatchOK, DispatchInv, Handed, Disjoint
<1>2. TypeOK /\ Inv /\ [Next]_vars => Inv'
  BY DispatchStep
<1> QED BY <1>1, <1>2, TypeCorrect, PTL DEF Spec

(* A task that reports success has handled exactly its shard (runWorkers,   *)
(* dispatchAndFinalize), for any number of workers and any timeout.         *)
THEOREM SuccessTheorem == Spec => []SuccessMeansHandled
<1>1. (\A i \in Runs : DispatchOK(i)) => SuccessMeansHandled
  BY DEF DispatchOK, Handed, SuccessMeansHandled
<1> QED BY <1>1, DispatchAlways, PTL

(* Two workers of a task never have the same repository in hand, and none   *)
(* has one when the task has ended (runWorkers).                            *)
THEOREM DisjointTheorem == Spec => []WorkersDisjoint
<1>1. (\A i \in Runs : DispatchOK(i)) => WorkersDisjoint
  BY DEF DispatchOK, DispatchInv, Disjoint, WorkersDisjoint
<1> QED BY <1>1, DispatchAlways, PTL

-----------------------------------------------------------------------------
(* The sender and its workers. *)

(* Until the channel is closed, workers return only at a done context. *)
HeardInv(i) ==
  pc[i] \in {"idle", "shard", "send"} /\ ~cancelled[i] =>
    \A w \in Workers : worker[i][w].pc # "done"

(* Every step keeps HeardInv for every task. *)
LEMMA HeardStep ==
  ASSUME TypeOK, [Next]_vars, NEW i \in Runs, HeardInv(i)
  PROVE  HeardInv(i)'
<1>0. /\ pc \in [Runs -> {"idle", "shard", "send", "wait", "ended"}]
      /\ cancelled \in [Runs -> BOOLEAN] /\ worker \in [Runs -> [Workers -> Worker]]
  BY DEF TypeOK
<1>1. CASE \/ \E row \in Rows : SetActive(row)
           \/ \E r \in Repos : ResetImportErrorsByRepo(r)
           \/ UNCHANGED vars
  <2>1. UNCHANGED <<pc, cancelled, worker>>
    BY <1>1 DEF SetActive, ResetImportErrorsByRepo, vars
  <2> QED BY <2>1 DEF HeardInv
<1>2. ASSUME NEW j \in Runs,
             \/ ListImportWork(j) \/ WorkListFails(j) \/ Assign(j) \/ Sharded(j) \/ Close(j) \/ Finalize(j)
             \/ \E r \in Repos : ListImportWorkForRepo(j, r)
      PROVE  HeardInv(i)'
  <2>1. /\ UNCHANGED <<cancelled, worker>>
        /\ \/ UNCHANGED pc
           \/ pc[j] \in {"idle", "shard"} /\ \E l \in {"shard", "send", "ended"} : pc' = [pc EXCEPT ![j] = l]
           \/ \E l \in {"wait", "ended"} : pc' = [pc EXCEPT ![j] = l]
    BY <1>2 DEF ListImportWork, WorkListFails, Assign, Sharded, Close, Finalize, ListImportWorkForRepo, CanStart
  <2> QED BY <1>0, <2>1 DEF HeardInv
<1>3. ASSUME NEW j \in Runs, Cancel(j)
      PROVE  HeardInv(i)'
  <2>1. UNCHANGED <<pc, worker>> /\ cancelled' = [cancelled EXCEPT ![j] = TRUE]
    BY <1>3 DEF Cancel
  <2> QED BY <1>0, <2>1 DEF HeardInv
<1>4. ASSUME NEW j \in Runs, NEW w \in Workers,
             \/ Send(j, w) \/ Drained(j, w) \/ Check(j, w) \/ ImportRepoWork(j, w)
             \/ IncrementImportErrorsByRepo(j, w) \/ Count(j, w)
             \/ \E row \in Rows : ResetImportErrors(j, w, row)
      PROVE  HeardInv(i)'
  <2>1. UNCHANGED <<pc, cancelled>>
    BY <1>4 DEF Send, Drained, Check, ImportRepoWork, IncrementImportErrorsByRepo, Count, ResetImportErrors
  <2>2. PICK s : worker' = [worker EXCEPT ![j][w] = s] /\ (s.pc # "done" \/ pc[j] = "wait" \/ cancelled[j])
    <3>1. CASE \E row \in Rows : ResetImportErrors(j, w, row)
      <4>1. PICK row \in Rows : ResetImportErrors(j, w, row)
        BY <3>1
      <4>2. worker[j][w] \in Importer
        BY <1>0, <4>1, WorkerRepo DEF ResetImportErrors
      <4>3. [worker[j][w] EXCEPT !.rows = @ \ {row}].pc # "done"
        BY <4>2 DEF Importer
      <4> QED BY <4>1, <4>3 DEF ResetImportErrors, Busy
    <3>2. CASE Send(j, w) \/ Drained(j, w) \/ Check(j, w)
      BY <3>2 DEF Send, Drained, Check, Busy, Doing
    <3>3. CASE ImportRepoWork(j, w) \/ IncrementImportErrorsByRepo(j, w) \/ Count(j, w)
      BY <3>3 DEF ImportRepoWork, IncrementImportErrorsByRepo, Count, Busy, Doing
    <3> QED BY <1>4, <3>1, <3>2, <3>3
  <2>3. /\ worker'[j][w] = s
        /\ \A k \in Runs, v \in Workers : k # j \/ v # w => worker'[k][v] = worker[k][v]
    BY <1>0, <2>2
  <2> QED BY <2>1, <2>2, <2>3 DEF HeardInv
<1> QED BY <1>1, <1>2, <1>3, <1>4 DEF Next, Work

(* While repositories are still to be sent and the context is not done, no  *)
(* worker has returned, for any number of workers and any imports that fail *)
(* (runWorkers).                                                            *)
THEOREM SenderTheorem == Spec => []SenderIsHeard
<1> DEFINE Inv == \A i \in Runs : HeardInv(i)
<1>1. Init => Inv
  BY DEF Init, HeardInv, Doing
<1>2. TypeOK /\ Inv /\ [Next]_vars => Inv'
  BY HeardStep
<1>3. Inv => SenderIsHeard
  BY DEF HeardInv, SenderIsHeard
<1> QED BY <1>1, <1>2, <1>3, TypeCorrect, PTL DEF Spec

=============================================================================
