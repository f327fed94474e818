--------------------------- MODULE InstanceProofs ----------------------------
(***************************************************************************)
(* Proofs for Instance: types, the schema of a serving process, the drain  *)
(* before the exit, and that both sets of migrations implement SchemaLog,  *)
(* for any processes and releases and any number of starts, failures,      *)
(* kills and requests.                                                     *)
(***************************************************************************)
EXTENDS Instance, WellFoundedInduction, TLAPS

USE DEF Sets

-----------------------------------------------------------------------------
(* Smallest and largest versions *)

(* A set of numbers that is not empty has a smallest one. *)
LEMMA Smallest ==
  ASSUME NEW S \in SUBSET Nat, S # {}
  PROVE  Min(S) \in S /\ \A y \in S : Min(S) <= y
<1>1. PICK x \in S : \A y \in S : ~(<<y, x>> \in OpToRel(<, Nat))
  BY NatLessThanWellFounded, WFMin
<1>2. \A y \in S : y < x => <<y, x>> \in OpToRel(<, Nat)
  BY DEF OpToRel
<1>3. \A y \in S : ~(y < x)
  BY <1>1, <1>2, Zenon
<1>4. \A y \in S : x <= y
  BY <1>3
<1> QED BY <1>4 DEF Min

Ascending(l) == \A i, j \in 1 .. Len(l) : i < j => l[i] < l[j]

Entries(l) == {l[i] : i \in 1 .. Len(l)}

(* MAX(version) of a table that was filled in ascending order. *)
LEMMA Largest ==
  ASSUME NEW l \in Seq(Nat), Ascending(l)
  PROVE  \A x \in Nat : (x > Max(Entries(l) \cup {0})) <=> (x > 0 /\ \A m \in Entries(l) : m < x)
<1> DEFINE R == Entries(l) \cup {0}
<1>1. \E x \in R : \A y \in R : x >= y
  <2>1. CASE Len(l) = 0
    BY <2>1 DEF Entries
  <2>2. CASE Len(l) > 0
    <3>1. l[Len(l)] \in R /\ l[Len(l)] \in Nat
      BY <2>2 DEF Entries
    <3>2. \A i \in 1 .. Len(l) : l[Len(l)] >= l[i]
      BY <2>2 DEF Ascending
    <3>3. \A y \in R : l[Len(l)] >= y
      BY <3>1, <3>2 DEF Entries
    <3> QED BY <3>1, <3>3
  <2> QED BY <2>1, <2>2
<1>2. Max(R) \in R /\ \A y \in R : Max(R) >= y
  BY <1>1 DEF Max
<1>3. R \subseteq Nat /\ 0 \in R
  BY DEF Entries
<1>4. \A m \in Entries(l) : m \in R
  OBVIOUS
<1>5. \A m \in R : m \in Entries(l) \/ m = 0
  OBVIOUS
<1> SUFFICES ASSUME NEW x \in Nat
             PROVE  (x > Max(R)) <=> (x > 0 /\ \A m \in Entries(l) : m < x)
  OBVIOUS
<1> HIDE DEF R
<1>6. Max(R) \in Nat
  BY <1>2, <1>3
<1>7. ASSUME x > Max(R) PROVE x > 0 /\ \A m \in Entries(l) : m < x
  <2>1. \A y \in R : y < x
    BY <1>2, <1>3, <1>6, <1>7
  <2> QED BY <2>1, <1>3, <1>4
<1>8. ASSUME x > 0, \A m \in Entries(l) : m < x PROVE x > Max(R)
  BY <1>2, <1>5, <1>8
<1> QED BY <1>7, <1>8

-----------------------------------------------------------------------------
(* Types *)

LEMMA FilesType == \A p \in Proc, s \in Sets : Files[p][s] \subseteq Nat \ {0}
<1>1. Files \in [Proc -> [Sets -> SUBSET (Nat \ {0})]]
  BY InstanceAssumption
<1> QED BY <1>1

LEMMA TypeInit == Init => TypeOK
BY DEF Init, TypeOK, NoWork, Load, Locations

LEMMA ExecutedType ==
  ASSUME TypeOK, NEW p \in Proc, todo[p] # {}, Executed(p, Min(todo[p]))
  PROVE  rows' \in [Sets -> SUBSET Nat] /\ log' \in [Sets -> Seq(Nat)]
<1>1. Min(todo[p]) \in Nat
  BY Smallest DEF TypeOK
<1> QED BY <1>1 DEF TypeOK, Executed

LEMMA StartupType ==
  ASSUME TypeOK, NEW p \in Proc, Start(p) \/ Migrates(p) \/ StartFails(p) \/ ConnMaxIdleTime(p)
  PROVE  TypeOK'
<1> USE DEF TypeOK, Locations, Goto
<1>1. CASE Start(p)
  BY <1>1 DEF Start
<1>2. CASE CreateTable(p)
  BY <1>2 DEF CreateTable, migrating, serving, counters
<1>3. CASE AdvisoryLock(p)
  BY <1>3 DEF AdvisoryLock, serving, counters
<1>4. CASE ReadVersion(p)
  <2>1. Files[p][set[p]] \subseteq Nat
    BY FilesType
  <2> QED BY <1>4, <2>1 DEF ReadVersion, serving, counters
<1>5. CASE ApplyOneMigration(p)
  BY <1>5, ExecutedType DEF ApplyOneMigration, serving, counters
<1>6. CASE AdvisoryUnlock(p)
  <2>1. set' \in [Proc -> Sets] /\ pc' \in [Proc -> Locations]
    <3>1. NextSet(p)
      BY <1>6 DEF AdvisoryUnlock
    <3>2. CASE set[p] = 1
      <4>1. set' = [set EXCEPT ![p] = 2] /\ pc' = [pc EXCEPT ![p] = "create"]
        BY <3>1, <3>2 DEF NextSet
      <4> QED BY <4>1
    <3>3. CASE set[p] # 1
      BY <3>1, <3>3 DEF NextSet
    <3> QED BY <3>2, <3>3
  <2>2. lock' \in [Sets -> Proc \cup {Free}] /\ boots' \in Nat /\ faults' \in Nat /\ crashes' \in Nat
    BY <1>6 DEF AdvisoryUnlock, Fault, counters
  <2> QED BY <1>6, <2>1, <2>2 DEF AdvisoryUnlock, serving
<1>7. CASE StartFails(p)
  <2>1. rows' \in [Sets -> SUBSET Nat] /\ log' \in [Sets -> Seq(Nat)]
    BY <1>7, ExecutedType DEF StartFails
  <2> QED BY <1>7, <2>1 DEF StartFails, Fault, Unlocked, serving
<1>8. CASE ConnMaxIdleTime(p)
  BY <1>8 DEF ConnMaxIdleTime, Unlocked, serving, counters
<1> QED BY <1>1, <1>2, <1>3, <1>4, <1>5, <1>6, <1>7, <1>8 DEF Migrates

Serves(p) ==
    \/ Accept(p) \/ HandlerEnds(p) \/ TriggerEnds(p) \/ TaskEnds(p)
    \/ Sigterm(p) \/ ListenFails(p) \/ Stops(p) \/ Crash(p)

LEMMA LoadType ==
  ASSUME TypeOK, NEW p \in Proc
  PROVE  /\ NoWork \in Load
         /\ [work[p] EXCEPT !.handlers = @ + 1] \in Load
         /\ work[p].handlers > 0 =>
               \A trigger, task \in 0 .. 1 :
                  [handlers |-> work[p].handlers - 1, triggers |-> work[p].triggers + trigger,
                   tasks |-> work[p].tasks + task] \in Load
         /\ work[p].triggers > 0 => [work[p] EXCEPT !.triggers = @ - 1] \in Load
         /\ work[p].tasks > 0 => [work[p] EXCEPT !.tasks = @ - 1] \in Load
<1> DEFINE w == work[p]
<1>1. w \in Load
  BY DEF TypeOK
<1> HIDE DEF w
<1>2. NoWork \in Load
  BY DEF Load, NoWork
<1>3. [w EXCEPT !.handlers = @ + 1] \in Load
  BY <1>1 DEF Load
<1>4. w.handlers > 0 =>
        \A trigger, task \in 0 .. 1 :
           [handlers |-> w.handlers - 1, triggers |-> w.triggers + trigger,
            tasks |-> w.tasks + task] \in Load
  BY <1>1 DEF Load
<1>7. w.triggers > 0 => [w EXCEPT !.triggers = @ - 1] \in Load
  BY <1>1 DEF Load
<1>8. w.tasks > 0 => [w EXCEPT !.tasks = @ - 1] \in Load
  BY <1>1 DEF Load
<1> QED BY <1>2, <1>3, <1>4, <1>7, <1>8 DEF w

LEMMA ServingType ==
  ASSUME TypeOK, NEW p \in Proc, Serves(p)
  PROVE  TypeOK'
<1> USE DEF TypeOK, Locations, Goto, migrating, counters
<1>1. CASE Accept(p)
  BY <1>1, LoadType DEF Accept
<1>2. CASE HandlerEnds(p)
  <2>1. work[p].handlers > 0
    BY <1>2 DEF HandlerEnds
  <2>2. PICK trigger \in 0 .. 1, task \in 0 .. 1 :
          work' = [work EXCEPT ![p] = [handlers |-> work[p].handlers - 1,
                                       triggers |-> work[p].triggers + trigger,
                                       tasks |-> work[p].tasks + task]]
    BY <1>2 DEF HandlerEnds
  <2>3. work' \in [Proc -> Load]
    BY <2>1, <2>2, LoadType
  <2> QED BY <1>2, <2>3 DEF HandlerEnds
<1>3. CASE TriggerEnds(p)
  BY <1>3, LoadType DEF TriggerEnds
<1>4. CASE TaskEnds(p)
  BY <1>4, LoadType DEF TaskEnds
<1>5. CASE Sigterm(p)
  BY <1>5 DEF Sigterm, serving
<1>6. CASE ListenFails(p)
  BY <1>6 DEF ListenFails, Fault
<1>7. CASE Shutdown(p) \/ TriggersDrained(p) \/ TasksDrained(p)
  BY <1>7 DEF Shutdown, TriggersDrained, TasksDrained, serving
<1>8. CASE Exit(p)
  BY <1>8, LoadType DEF Exit, Unlocked
<1>9. CASE Crash(p)
  <2>1. work' \in [Proc -> Load] /\ lock' \in [Sets -> Proc \cup {Free}]
    BY <1>9, LoadType DEF Crash, Unlocked
  <2>2. pc' \in [Proc -> Locations] /\ todo' \in [Proc -> SUBSET Nat] /\ crashes' \in Nat
    BY <1>9 DEF Crash
  <2> QED BY <1>9, <2>1, <2>2 DEF Crash
<1> QED BY <1>1, <1>2, <1>3, <1>4, <1>5, <1>6, <1>7, <1>8, <1>9 DEF Serves, Stops

LEMMA TypeStep == TypeOK /\ [Next]_vars => TypeOK'
<1> SUFFICES ASSUME TypeOK, [Next]_vars PROVE TypeOK'
  OBVIOUS
<1>1. CASE UNCHANGED vars
  BY <1>1 DEF vars, migrating, serving, counters, TypeOK
<1>2. CASE Next
  BY <1>2, StartupType, ServingType DEF Next, Serves
<1> QED BY <1>1, <1>2

(* Processes, locks, version tables and the work of a process keep their    *)
(* types; no counter of the work goes below zero.                           *)
THEOREM TypeCorrect == Spec => []TypeOK
BY TypeInit, TypeStep, PTL DEF Spec

-----------------------------------------------------------------------------
(* The inductive invariant of the migrations *)

(* The log of a set ascends and its numbers are the rows of its table. *)
LogInv ==
    \A s \in Sets : /\ Ascending(log[s])
                    /\ rows[s] = Entries(log[s])

(* Below a migration that was executed there is none, of any release, that  *)
(* was not.                                                                 *)
ClosedInv ==
    \A s \in Sets, q \in Proc : \A v \in rows[s], w \in Files[q][s] : w < v => w \in rows[s]

Starting(q) == pc[q] \in {"create", "lock", "read", "apply"}

Above(S, R) == {x \in S : \A m \in R : m < x}

(* Between the read and the unlock a process has the lock of its set, and   *)
(* todo is what the table lacks; a set that was left is complete.           *)
ProcOK(q) ==
    /\ pc[q] \in {"read", "apply"} => lock[set[q]] = q
    /\ pc[q] = "apply" => todo[q] = Above(Files[q][set[q]], rows[set[q]])
    /\ Starting(q) /\ set[q] = 2 => Files[q][1] \subseteq rows[1]
    /\ Up(q) => \A s \in Sets : Files[q][s] \subseteq rows[s]

MigrationInv == LogInv /\ ClosedInv /\ \A q \in Proc : ProcOK(q)

LEMMA MigrationInit == Init => MigrationInv
<1> SUFFICES ASSUME Init PROVE MigrationInv
  OBVIOUS
<1>1. LogInv /\ ClosedInv
  BY DEF Init, LogInv, ClosedInv, Ascending, Entries
<1>2. \A q \in Proc : ProcOK(q)
  BY DEF Init, ProcOK, Starting, Up
<1> QED BY <1>1, <1>2 DEF MigrationInv

(* A log that grows at its upper end still ascends. *)
LEMMA Appended ==
  ASSUME NEW l \in Seq(Nat), NEW v \in Nat, Ascending(l), \A m \in Entries(l) : m < v
  PROVE  Ascending(Append(l, v)) /\ Entries(Append(l, v)) = Entries(l) \cup {v}
<1> DEFINE k == Append(l, v)
<1>1. Len(k) = Len(l) + 1 /\ k[Len(l) + 1] = v /\ \A i \in 1 .. Len(l) : k[i] = l[i]
  OBVIOUS
<1>2. Len(l) \in Nat
  OBVIOUS
<1>3. \A i \in 1 .. Len(l) : l[i] \in Nat /\ l[i] < v
  BY DEF Entries
<1> HIDE DEF k
<1>4. Ascending(k)
  BY <1>1, <1>2, <1>3 DEF Ascending
<1>5. Entries(k) = Entries(l) \cup {v}
  BY <1>1, <1>2 DEF Entries
<1> QED BY <1>4, <1>5 DEF k

(* A file that is not newer than every row is itself a row. *)
LEMMA NotNewer ==
  ASSUME TypeOK, ClosedInv, NEW q \in Proc, NEW s \in Sets,
         NEW x \in Files[q][s], x \notin Above(Files[q][s], rows[s])
  PROVE  x \in rows[s]
<1>1. PICK m \in rows[s] : ~(m < x)
  BY DEF Above
<1>2. x \in Nat /\ m \in Nat
  BY FilesType DEF TypeOK
<1>3. CASE m = x
  BY <1>3
<1>4. CASE x < m
  BY <1>4 DEF ClosedInv
<1> QED BY <1>1, <1>2, <1>3, <1>4

(* The step that executes the smallest migration the table lacks. *)
LEMMA Grow ==
  ASSUME TypeOK, MigrationInv, NEW p \in Proc, pc[p] = "apply", todo[p] # {},
         Executed(p, Min(todo[p]))
  PROVE  /\ LogInv' /\ ClosedInv'
         /\ \A s \in Sets : rows[s] \subseteq rows'[s]
         /\ \A s \in Sets \ {set[p]} : rows'[s] = rows[s]
         /\ Above(Files[p][set[p]], rows'[set[p]]) = todo[p] \ {Min(todo[p])}
<1> DEFINE t  == set[p]
           v  == Min(todo[p])
<1>1. t \in Sets /\ todo[p] = Above(Files[p][t], rows[t])
  BY DEF TypeOK, MigrationInv, ProcOK
<1>2. v \in todo[p] /\ \A y \in todo[p] : v <= y
  BY Smallest DEF TypeOK
<1>3. v \in Nat /\ v \in Files[p][t] /\ \A m \in rows[t] : m < v
  BY <1>1, <1>2, FilesType DEF Above
<1>4. /\ rows'[t] = rows[t] \cup {v}
      /\ log'[t] = Append(log[t], v)
      /\ \A s \in Sets \ {t} : rows'[s] = rows[s] /\ log'[s] = log[s]
  BY <1>1 DEF Executed, TypeOK
<1> HIDE DEF t, v
<1>5. LogInv'
  <2> SUFFICES ASSUME NEW s \in Sets
               PROVE  Ascending(log'[s]) /\ rows'[s] = Entries(log'[s])
    BY DEF LogInv
  <2>1. CASE s = t
    <3>1. log[t] \in Seq(Nat) /\ Ascending(log[t]) /\ rows[t] = Entries(log[t])
      BY <1>1 DEF TypeOK, MigrationInv, LogInv
    <3>2. /\ Ascending(Append(log[t], v))
          /\ Entries(Append(log[t], v)) = Entries(log[t]) \cup {v}
      BY <1>3, <3>1, Appended
    <3> QED BY <1>4, <2>1, <3>1, <3>2
  <2>2. CASE s # t
    BY <1>4, <2>2 DEF MigrationInv, LogInv
  <2> QED BY <2>1, <2>2
<1>6. ClosedInv'
  <2> SUFFICES ASSUME NEW s \in Sets, NEW q \in Proc, NEW u \in rows'[s],
                      NEW w \in Files[q][s], w < u
               PROVE  w \in rows'[s]
    BY DEF ClosedInv
  <2>1. CASE u \in rows[s]
    BY <1>4, <2>1 DEF MigrationInv, ClosedInv
  <2>2. CASE u \notin rows[s]
    <3>1. s = t /\ u = v
      BY <1>4, <2>2
    <3>2. w \in Files[p][t]
      BY <1>1, <1>3, <3>1, InstanceAssumption
    <3>3. w \notin Above(Files[p][t], rows[t])
      BY <1>1, <1>2, <1>3, <3>1, <3>2, FilesType
    <3>4. w \in rows[t]
      BY <1>1, <3>2, <3>3, NotNewer DEF MigrationInv
    <3> QED BY <1>4, <3>1, <3>4
  <2> QED BY <2>1, <2>2
<1>7. \A s \in Sets : rows[s] \subseteq rows'[s]
  BY <1>4
<1>8. Above(Files[p][t], rows'[t]) = todo[p] \ {v}
  <2>1. todo[p] \subseteq Nat
    BY DEF TypeOK
  <2>2. Above(Files[p][t], rows'[t]) = {x \in todo[p] : v < x}
    BY <1>1, <1>4 DEF Above
  <2>3. {x \in todo[p] : v < x} = todo[p] \ {v}
    BY <1>2, <1>3, <2>1
  <2> QED BY <2>2, <2>3
<1> QED BY <1>4, <1>5, <1>6, <1>7, <1>8 DEF t, v

(* What a step of p leaves to another process. *)
LEMMA Others ==
  ASSUME TypeOK, MigrationInv, NEW q \in Proc,
         pc'[q] = pc[q], set'[q] = set[q], todo'[q] = todo[q],
         \A s \in Sets : rows[s] \subseteq rows'[s],
         \A s \in Sets : lock[s] = q => lock'[s] = q,
         pc[q] = "apply" => rows'[set[q]] = rows[set[q]]
  PROVE  ProcOK(q)'
<1>1. ProcOK(q) /\ set[q] \in Sets
  BY DEF TypeOK, MigrationInv
<1>2. pc[q] \in {"read", "apply"} => lock'[set'[q]] = q
  BY <1>1 DEF ProcOK
<1>3. pc[q] = "apply" => todo'[q] = Above(Files[q][set'[q]], rows'[set'[q]])
  BY <1>1 DEF ProcOK
<1>4. Starting(q) /\ set[q] = 2 => Files[q][1] \subseteq rows'[1]
  BY <1>1 DEF ProcOK
<1>5. Up(q) => \A s \in Sets : Files[q][s] \subseteq rows'[s]
  BY <1>1 DEF ProcOK
<1>6. (Starting(q)' <=> Starting(q)) /\ (Up(q)' <=> Up(q))
  BY DEF Starting, Up
<1> QED BY <1>2, <1>3, <1>4, <1>5, <1>6 DEF ProcOK

(* A step that executes nothing and takes p out of, or leaves p outside,    *)
(* the section the lock guards, and frees no lock of another process.       *)
LEMMA Outside ==
  ASSUME TypeOK, MigrationInv, NEW p \in Proc,
         UNCHANGED <<rows, log>>,
         \A q \in Proc \ {p} : pc'[q] = pc[q] /\ set'[q] = set[q] /\ todo'[q] = todo[q],
         \A s \in Sets, q \in Proc \ {p} : lock[s] = q => lock'[s] = q,
         pc'[p] \notin {"read", "apply"},
         Starting(p)' /\ set'[p] = 2 => Files[p][1] \subseteq rows[1],
         Up(p)' => \A s \in Sets : Files[p][s] \subseteq rows[s]
  PROVE  MigrationInv'
<1>1. LogInv' /\ ClosedInv'
  BY DEF MigrationInv, LogInv, ClosedInv
<1>2. ProcOK(p)'
  BY DEF ProcOK
<1>3. ASSUME NEW q \in Proc, q # p PROVE ProcOK(q)'
  BY <1>3, Others
<1> QED BY <1>1, <1>2, <1>3 DEF MigrationInv

(* The set of a process whose list is empty is complete. *)
LEMMA Complete ==
  ASSUME TypeOK, MigrationInv, NEW p \in Proc, pc[p] = "apply", todo[p] = {}
  PROVE  Files[p][set[p]] \subseteq rows[set[p]]
<1>1. set[p] \in Sets /\ Above(Files[p][set[p]], rows[set[p]]) = {}
  BY DEF TypeOK, MigrationInv, ProcOK
<1> QED BY <1>1, NotNewer DEF MigrationInv

(* Nobody else is between the read and the unlock of the set p has.         *)
LEMMA Alone ==
  ASSUME TypeOK, MigrationInv, NEW p \in Proc, NEW q \in Proc, q # p,
         pc[p] \in {"read", "apply"}, pc[q] \in {"read", "apply"}
  PROVE  set[q] # set[p]
BY DEF MigrationInv, ProcOK

LEMMA MigratesStep ==
  ASSUME TypeOK, MigrationInv, NEW p \in Proc, Migrates(p)
  PROVE  MigrationInv'
<1>1. CASE CreateTable(p)
  <2>1. ProcOK(p) /\ pc[p] = "create" /\ pc' = [pc EXCEPT ![p] = "lock"]
        /\ UNCHANGED <<set, todo, lock, rows, log>>
    BY <1>1 DEF CreateTable, Goto, migrating, MigrationInv
  <2> QED BY <2>1, Outside DEF TypeOK, ProcOK, Starting, Up
<1>2. CASE AdvisoryLock(p)
  <2>1. /\ ProcOK(p) /\ pc[p] = "lock" /\ pc' = [pc EXCEPT ![p] = "read"]
        /\ lock[set[p]] = Free /\ lock' = [lock EXCEPT ![set[p]] = p]
        /\ UNCHANGED <<set, todo, rows, log>>
    BY <1>2 DEF AdvisoryLock, Goto, MigrationInv
  <2>2. LogInv' /\ ClosedInv'
    BY <2>1 DEF MigrationInv, LogInv, ClosedInv
  <2>3. ProcOK(p)'
    BY <2>1 DEF ProcOK, TypeOK, Starting, Up
  <2>4. ASSUME NEW q \in Proc, q # p PROVE ProcOK(q)'
    <3>1. \A s \in Sets : lock[s] = q => lock'[s] = q
      BY <2>1, <2>4, InstanceAssumption DEF TypeOK
    <3> QED BY <2>1, <2>4, <3>1, Others DEF TypeOK
  <2> QED BY <2>2, <2>3, <2>4 DEF MigrationInv
<1>3. CASE ReadVersion(p)
  <2>1. /\ ProcOK(p) /\ pc[p] = "read" /\ pc' = [pc EXCEPT ![p] = "apply"]
        /\ todo'[p] = {v \in Files[p][set[p]] : v > Max(rows[set[p]] \cup {0})}
        /\ \A q \in Proc \ {p} : todo'[q] = todo[q]
        /\ UNCHANGED <<set, lock, rows, log>>
    BY <1>3 DEF ReadVersion, Goto, MigrationInv, TypeOK
  <2>2. LogInv' /\ ClosedInv'
    BY <2>1 DEF MigrationInv, LogInv, ClosedInv
  <2>3. todo'[p] = Above(Files[p][set[p]], rows[set[p]])
    <3> DEFINE t == set[p]
    <3>1. t \in Sets /\ log[t] \in Seq(Nat) /\ Ascending(log[t]) /\ rows[t] = Entries(log[t])
      BY DEF TypeOK, MigrationInv, LogInv
    <3>2. Files[p][t] \subseteq Nat \ {0}
      BY <3>1, FilesType
    <3> HIDE DEF t
    <3>3. \A x \in Files[p][t] : x > Max(rows[t] \cup {0}) <=> \A m \in rows[t] : m < x
      BY <3>1, <3>2, Largest
    <3> QED BY <2>1, <3>3 DEF Above, t
  <2>4. ProcOK(p)'
    BY <2>1, <2>3 DEF ProcOK, TypeOK, Starting, Up
  <2>5. ASSUME NEW q \in Proc, q # p PROVE ProcOK(q)'
    BY <2>1, <2>5, Others DEF TypeOK
  <2> QED BY <2>2, <2>4, <2>5 DEF MigrationInv
<1>4. CASE ApplyOneMigration(p)
  <2>1. /\ ProcOK(p) /\ pc[p] = "apply" /\ todo[p] # {} /\ Executed(p, Min(todo[p]))
        /\ todo'[p] = todo[p] \ {Min(todo[p])}
        /\ \A q \in Proc \ {p} : todo'[q] = todo[q]
        /\ UNCHANGED <<pc, set, lock>>
    BY <1>4 DEF ApplyOneMigration, MigrationInv, TypeOK
  <2>2. /\ LogInv' /\ ClosedInv'
        /\ \A s \in Sets : rows[s] \subseteq rows'[s]
        /\ \A s \in Sets \ {set[p]} : rows'[s] = rows[s]
        /\ Above(Files[p][set[p]], rows'[set[p]]) = todo[p] \ {Min(todo[p])}
    BY <2>1, Grow
  <2>3. ProcOK(p)'
    BY <2>1, <2>2 DEF ProcOK, Starting, Up
  <2>4. ASSUME NEW q \in Proc, q # p PROVE ProcOK(q)'
    <3>1. pc[q] = "apply" => rows'[set[q]] = rows[set[q]]
      BY <2>1, <2>2, <2>4, Alone DEF TypeOK
    <3> QED BY <2>1, <2>2, <2>4, <3>1, Others
  <2> QED BY <2>2, <2>3, <2>4 DEF MigrationInv
<1>5. CASE AdvisoryUnlock(p)
  <2>1. /\ ProcOK(p) /\ pc[p] = "apply" /\ todo[p] = {} /\ set[p] \in Sets
        /\ UNCHANGED <<todo, rows, log>>
        /\ lock' = lock \/ lock' = [lock EXCEPT ![set[p]] = Free]
        /\ NextSet(p)
    BY <1>5 DEF AdvisoryUnlock, Fault, MigrationInv, TypeOK
  <2>2. Files[p][set[p]] \subseteq rows[set[p]]
    BY <2>1, Complete
  <2>3. \A s \in Sets, q \in Proc \ {p} : lock[s] = q => lock'[s] = q
    BY <2>1 DEF ProcOK, TypeOK
  <2>4. CASE set[p] = 1
    <3>1. set' = [set EXCEPT ![p] = 2] /\ pc' = [pc EXCEPT ![p] = "create"]
      BY <2>1, <2>4 DEF NextSet, Goto
    <3> QED BY <2>1, <2>2, <2>3, <2>4, <3>1, Outside DEF TypeOK, Starting, Up
  <2>5. CASE set[p] # 1
    <3>1. set[p] = 2 /\ set' = set /\ pc' = [pc EXCEPT ![p] = "serve"]
      BY <2>1, <2>5 DEF NextSet, Goto
    <3>2. \A s \in Sets : Files[p][s] \subseteq rows[s]
      BY <2>1, <2>2, <3>1 DEF ProcOK, Starting
    <3> QED BY <2>1, <2>3, <3>1, <3>2, Outside DEF TypeOK, Starting, Up
  <2> QED BY <2>4, <2>5
<1> QED BY <1>1, <1>2, <1>3, <1>4, <1>5 DEF Migrates

(* The sessions that end are those of p. *)
LEMMA UnlockedOwn ==
  ASSUME NEW p \in Proc, lock' = Unlocked(p)
  PROVE  \A s \in Sets, q \in Proc \ {p} : lock[s] = q => lock'[s] = q
BY DEF Unlocked

LEMMA StartFailsStep ==
  ASSUME TypeOK, MigrationInv, NEW p \in Proc, StartFails(p)
  PROVE  MigrationInv'
<1>1. /\ pc' = [pc EXCEPT ![p] = "down"]
      /\ todo' = [todo EXCEPT ![p] = {}]
      /\ lock' = Unlocked(p)
      /\ UNCHANGED set
      /\ \/ UNCHANGED <<rows, log>>
         \/ pc[p] = "apply" /\ todo[p] # {} /\ Executed(p, Min(todo[p]))
  BY DEF StartFails, Goto
<1>2. \A s \in Sets, q \in Proc \ {p} : lock[s] = q => lock'[s] = q
  BY <1>1, UnlockedOwn
<1>3. /\ pc'[p] = "down"
      /\ \A q \in Proc \ {p} : pc'[q] = pc[q] /\ set'[q] = set[q] /\ todo'[q] = todo[q]
  BY <1>1 DEF TypeOK
<1>4. CASE UNCHANGED <<rows, log>>
  BY <1>2, <1>3, <1>4, Outside DEF Starting, Up
<1>5. CASE pc[p] = "apply" /\ todo[p] # {} /\ Executed(p, Min(todo[p]))
  <2>1. /\ LogInv' /\ ClosedInv'
        /\ \A s \in Sets : rows[s] \subseteq rows'[s]
        /\ \A s \in Sets \ {set[p]} : rows'[s] = rows[s]
    BY <1>5, Grow
  <2>2. ProcOK(p)'
    BY <1>3 DEF ProcOK, Starting, Up
  <2>3. ASSUME NEW q \in Proc, q # p PROVE ProcOK(q)'
    <3>1. pc[q] = "apply" => rows'[set[q]] = rows[set[q]]
      BY <1>5, <2>1, <2>3, Alone DEF TypeOK
    <3> QED BY <1>2, <1>3, <2>1, <2>3, <3>1, Others
  <2> QED BY <2>1, <2>2, <2>3 DEF MigrationInv
<1> QED BY <1>1, <1>4, <1>5

(* A step of a serving process, of a kill or of a session that ends. *)
LEMMA ServingStep ==
  ASSUME TypeOK, MigrationInv, NEW p \in Proc,
         Start(p) \/ ConnMaxIdleTime(p) \/ Serves(p)
  PROVE  MigrationInv'
<1>1. CASE Start(p)
  <2>1. /\ pc' = [pc EXCEPT ![p] = "create"] /\ set' = [set EXCEPT ![p] = 1]
        /\ UNCHANGED <<todo, lock, rows, log>>
    BY <1>1 DEF Start, Goto
  <2> QED BY <2>1, Outside DEF TypeOK, Starting, Up
<1>2. CASE ConnMaxIdleTime(p)
  <2>1. /\ ProcOK(p) /\ pc[p] \in {"create", "lock", "serve"} /\ lock' = Unlocked(p)
        /\ UNCHANGED <<pc, set, todo, rows, log>>
    BY <1>2 DEF ConnMaxIdleTime, MigrationInv
  <2> QED BY <2>1, UnlockedOwn, Outside DEF ProcOK, Starting, Up
<1>3. CASE Accept(p) \/ HandlerEnds(p) \/ TriggerEnds(p) \/ TaskEnds(p)
  <2>1. UNCHANGED <<pc, set, todo, lock, rows, log>>
    BY <1>3 DEF Accept, HandlerEnds, TriggerEnds, TaskEnds, migrating
  <2> QED BY <2>1 DEF MigrationInv, LogInv, ClosedInv, ProcOK, Starting, Up
<1>4. CASE Sigterm(p) \/ ListenFails(p) \/ Shutdown(p) \/ TriggersDrained(p) \/ TasksDrained(p)
  <2>1. /\ ProcOK(p) /\ Up(p) /\ UNCHANGED <<set, todo, lock, rows, log>>
        /\ \E l \in {"shutdown", "triggers", "tasks", "close"} : pc' = [pc EXCEPT ![p] = l]
    BY <1>4 DEF Sigterm, ListenFails, Shutdown, TriggersDrained, TasksDrained, Goto, Up,
                migrating, MigrationInv
  <2>2. \A s \in Sets : Files[p][s] \subseteq rows[s]
    BY <2>1 DEF ProcOK
  <2>3. pc'[p] \in {"shutdown", "triggers", "tasks", "close"}
        /\ \A q \in Proc \ {p} : pc'[q] = pc[q]
    BY <2>1 DEF TypeOK
  <2> QED BY <2>1, <2>2, <2>3, Outside DEF Starting
<1>5. CASE Exit(p) \/ Crash(p)
  <2>1. /\ pc' = [pc EXCEPT ![p] = "down"] /\ lock' = Unlocked(p)
        /\ todo' = todo \/ todo' = [todo EXCEPT ![p] = {}]
        /\ UNCHANGED <<set, rows, log>>
    BY <1>5 DEF Exit, Crash, Goto
  <2>2. /\ pc'[p] = "down"
        /\ \A q \in Proc \ {p} : pc'[q] = pc[q] /\ set'[q] = set[q] /\ todo'[q] = todo[q]
    BY <2>1 DEF TypeOK
  <2> QED BY <2>1, <2>2, UnlockedOwn, Outside DEF Starting, Up
<1> QED BY <1>1, <1>2, <1>3, <1>4, <1>5 DEF Serves, Stops

LEMMA MigrationStep == TypeOK /\ MigrationInv /\ [Next]_vars => MigrationInv'
<1> SUFFICES ASSUME TypeOK, MigrationInv, [Next]_vars PROVE MigrationInv'
  OBVIOUS
<1>1. CASE UNCHANGED vars
  BY <1>1 DEF vars, migrating, MigrationInv, LogInv, ClosedInv, ProcOK, Starting, Up
<1>2. CASE Next
  BY <1>2, MigratesStep, StartFailsStep, ServingStep DEF Next, Serves
<1> QED BY <1>1, <1>2

LEMMA MigrationAlways == Spec => [](TypeOK /\ MigrationInv)
<1>1. Init => TypeOK /\ MigrationInv
  BY TypeInit, MigrationInit
<1>2. (TypeOK /\ MigrationInv) /\ [Next]_vars => (TypeOK /\ MigrationInv)'
  BY TypeStep, MigrationStep
<1> QED BY <1>1, <1>2, PTL DEF Spec

(* A process that serves requests finds every migration of its release in   *)
(* the version tables, for any releases that obey the numbering rule and    *)
(* any number of processes, starts, failures and kills (applyMigrations).   *)
THEOREM SchemaTheorem == Spec => []ServesMigrated
<1>1. MigrationInv => ServesMigrated
  BY DEF MigrationInv, ProcOK, ServesMigrated
<1> QED BY <1>1, MigrationAlways, PTL

-----------------------------------------------------------------------------
(* Refinement: each set of migrations implements SchemaLog. *)

Numbers(s) == UNION {Files[q][s] : q \in Proc}

(* A step of the system is a step of each abstract log, or leaves it alone. *)
Extended(s) ==
    \/ log'[s] = log[s]
    \/ \E v \in Numbers(s) :
          /\ \A i \in DOMAIN log[s] : log[s][i] < v
          /\ log'[s] = Append(log[s], v)

LEMMA LogStep == TypeOK /\ MigrationInv /\ [Next]_vars => \A s \in Sets : Extended(s)
<1> SUFFICES ASSUME TypeOK, MigrationInv, [Next]_vars, NEW s \in Sets PROVE Extended(s)
  OBVIOUS
<1> USE DEF Extended
<1>1. CASE UNCHANGED log
  BY <1>1
<1>2. CASE \E p \in Proc : pc[p] = "apply" /\ todo[p] # {} /\ Executed(p, Min(todo[p]))
  <2>1. PICK p \in Proc : pc[p] = "apply" /\ todo[p] # {} /\ Executed(p, Min(todo[p]))
    BY <1>2
  <2> DEFINE v == Min(todo[p])
  <2>2. /\ set[p] \in Sets /\ todo[p] = Above(Files[p][set[p]], rows[set[p]])
        /\ log[set[p]] \in Seq(Nat) /\ rows[set[p]] = Entries(log[set[p]])
    BY <2>1 DEF TypeOK, MigrationInv, ProcOK, LogInv
  <2>3. v \in todo[p]
    BY <2>1, Smallest DEF TypeOK
  <2>4. log' = [log EXCEPT ![set[p]] = Append(@, v)]
    BY <2>1 DEF Executed
  <2> HIDE DEF v
  <2>5. v \in Numbers(set[p]) /\ \A m \in Entries(log[set[p]]) : m < v
    BY <2>2, <2>3 DEF Above, Numbers
  <2>6. \A i \in DOMAIN log[set[p]] : log[set[p]][i] < v
    BY <2>2, <2>5 DEF Entries
  <2> QED BY <2>2, <2>4, <2>5, <2>6 DEF TypeOK
<1>3. UNCHANGED vars => UNCHANGED log
  BY DEF vars, migrating
<1>4. ASSUME NEW p \in Proc, Next
      PROVE  UNCHANGED log \/ \E q \in Proc : pc[q] = "apply" /\ todo[q] # {} /\ Executed(q, Min(todo[q]))
  BY <1>4 DEF Next, Start, Migrates, CreateTable, AdvisoryLock, ReadVersion, ApplyOneMigration,
       AdvisoryUnlock, StartFails, ConnMaxIdleTime, Accept, HandlerEnds, TriggerEnds, TaskEnds,
       Sigterm, ListenFails, Stops, Shutdown, TriggersDrained, TasksDrained, Exit, Crash, migrating
<1>5. Next => \E p \in Proc : TRUE
  BY DEF Next
<1> QED BY <1>1, <1>2, <1>3, <1>4, <1>5

(* Both sets of migrations implement the abstract log: every migration is   *)
(* executed at most once and in the order of the numbers, by any processes  *)
(* of any releases that obey the numbering rule (the advisory lock, the     *)
(* version table and the transaction around both in applyMigrations).       *)
THEOREM LogTheorem == Spec => ExecutedInOrder
<1>1. Init => Base!Init /\ Saas!Init
  BY DEF Init, Base!Init, Saas!Init
<1>2. TypeOK /\ MigrationInv /\ [Next]_vars => [Base!Next]_(log[1])
  <2> SUFFICES ASSUME TypeOK, MigrationInv, [Next]_vars PROVE [Base!Next]_(log[1])
    OBVIOUS
  <2>1. Extended(1)
    BY LogStep
  <2>2. CASE log'[1] = log[1]
    BY <2>2
  <2>3. CASE log'[1] # log[1]
    <3>1. PICK v \in Numbers(1) : /\ \A i \in DOMAIN log[1] : log[1][i] < v
                                  /\ log'[1] = Append(log[1], v)
      BY <2>1, <2>3 DEF Extended
    <3>2. Base!Execute(v)
      BY <3>1 DEF Base!Execute
    <3> QED BY <3>2 DEF Numbers, Base!Next
  <2> QED BY <2>2, <2>3
<1>3. TypeOK /\ MigrationInv /\ [Next]_vars => [Saas!Next]_(log[2])
  <2> SUFFICES ASSUME TypeOK, MigrationInv, [Next]_vars PROVE [Saas!Next]_(log[2])
    OBVIOUS
  <2>1. Extended(2)
    BY LogStep
  <2>2. CASE log'[2] = log[2]
    BY <2>2
  <2>3. CASE log'[2] # log[2]
    <3>1. PICK v \in Numbers(2) : /\ \A i \in DOMAIN log[2] : log[2][i] < v
                                  /\ log'[2] = Append(log[2], v)
      BY <2>1, <2>3 DEF Extended
    <3>2. Saas!Execute(v)
      BY <3>1 DEF Saas!Execute
    <3> QED BY <3>2 DEF Numbers, Saas!Next
  <2> QED BY <2>2, <2>3
<1> QED BY <1>1, <1>2, <1>3, MigrationAlways, PTL DEF Spec, ExecutedInOrder, Base!Spec, Saas!Spec

-----------------------------------------------------------------------------
(* The drain *)

(* What was waited for is gone and does not come back, unless the drain was *)
(* cut short; the handlers come first because they leave the rest behind.   *)
DrainInv ==
    /\ abandoned = {}
    /\ \A q \in Proc \ cut :
          /\ pc[q] \in {"triggers", "tasks", "close"} => work[q].handlers = 0
          /\ pc[q] \in {"tasks", "close"} => work[q].triggers = 0
          /\ pc[q] = "close" => work[q].tasks = 0

LEMMA DrainInit == Init => DrainInv
BY DEF Init, DrainInv

LEMMA DrainStep == TypeOK /\ DrainInv /\ [Next]_vars => DrainInv'
<1> SUFFICES ASSUME TypeOK, DrainInv, [Next]_vars PROVE DrainInv'
  OBVIOUS
<1>1. CASE UNCHANGED vars
  BY <1>1 DEF vars, serving, DrainInv
<1>2. ASSUME NEW p \in Proc, Start(p) \/ Migrates(p) \/ StartFails(p) \/ ConnMaxIdleTime(p)
      PROVE  DrainInv'
  <2>1. /\ UNCHANGED <<work, abandoned>> /\ cut' \in {cut, cut \ {p}}
        /\ cut' # cut => pc'[p] = "create"
        /\ \A q \in Proc : pc'[q] = pc[q] \/ pc'[q] \in {"create", "lock", "read", "apply", "serve", "down"}
    BY <1>2 DEF Start, Migrates, CreateTable, AdvisoryLock, ReadVersion, ApplyOneMigration,
         AdvisoryUnlock, NextSet, StartFails, ConnMaxIdleTime, serving, Goto, TypeOK
  <2> QED BY <2>1 DEF DrainInv
<1>3. ASSUME NEW p \in Proc, Serves(p) PROVE DrainInv'
  <2> USE DEF DrainInv
  <2>1. CASE Accept(p)
    <3>1. pc[p] = "serve" /\ UNCHANGED <<pc, cut, abandoned>>
          /\ \A q \in Proc \ {p} : work'[q] = work[q]
      BY <2>1 DEF Accept, TypeOK
    <3> QED BY <3>1
  <2>2. CASE HandlerEnds(p)
    <3>1. work[p].handlers > 0 /\ UNCHANGED <<pc, cut, abandoned>>
          /\ \A q \in Proc \ {p} : work'[q] = work[q]
      BY <2>2 DEF HandlerEnds, TypeOK
    <3> QED BY <3>1
  <2>3. CASE TriggerEnds(p)
    <3>1. /\ work[p].triggers > 0 /\ UNCHANGED <<pc, cut, abandoned>>
          /\ work'[p].handlers = work[p].handlers /\ work'[p].tasks = work[p].tasks
          /\ \A q \in Proc \ {p} : work'[q] = work[q]
      BY <2>3 DEF TriggerEnds, TypeOK, Load
    <3> QED BY <3>1
  <2>4. CASE TaskEnds(p)
    <3>1. /\ work[p].tasks > 0 /\ UNCHANGED <<pc, cut, abandoned>>
          /\ work'[p].handlers = work[p].handlers /\ work'[p].triggers = work[p].triggers
          /\ \A q \in Proc \ {p} : work'[q] = work[q]
      BY <2>4 DEF TaskEnds, TypeOK, Load
    <3> QED BY <3>1
  <2>5. CASE Sigterm(p)
    BY <2>5 DEF Sigterm, Goto, serving, TypeOK
  <2>6. CASE ListenFails(p)
    BY <2>6 DEF ListenFails, Goto, TypeOK
  <2>7. CASE Shutdown(p)
    <3>1. work[p].handlers \in Nat
      BY DEF TypeOK, Load
    <3> QED BY <2>7, <3>1 DEF Shutdown, Goto, TypeOK
  <2>8. CASE TriggersDrained(p)
    BY <2>8 DEF TriggersDrained, Goto, serving, TypeOK
  <2>9. CASE TasksDrained(p)
    BY <2>9 DEF TasksDrained, Goto, serving, TypeOK
  <2>10. CASE Exit(p)
    <3>1. /\ pc[p] = "close" /\ pc' = [pc EXCEPT ![p] = "down"] /\ UNCHANGED cut
          /\ work' = [work EXCEPT ![p] = NoWork]
      BY <2>10 DEF Exit, Goto
    <3>2. p \in cut \/ work[p] = NoWork
      <4>1. work[p] \in Load
        BY DEF TypeOK
      <4> QED BY <3>1, <4>1 DEF Load, NoWork
    <3>3. abandoned' = {}
      BY <2>10, <3>2 DEF Exit
    <3> QED BY <3>1, <3>3 DEF TypeOK
  <2>11. CASE Crash(p)
    BY <2>11 DEF Crash, Goto, TypeOK
  <2> QED BY <1>3, <2>1, <2>2, <2>3, <2>4, <2>5, <2>6, <2>7, <2>8, <2>9, <2>10, <2>11
        DEF Serves, Stops
<1>4. CASE Next
  BY <1>2, <1>3, <1>4 DEF Next, Serves
<1> QED BY <1>1, <1>4

(* A process that was told to stop, and whose handlers ended in time, exits *)
(* with no trigger and no task under way, whatever number of requests it    *)
(* took (the order of the drains in Run).                                   *)
THEOREM DrainTheorem == Spec => []DrainedBeforeExit
<1>1. Init => TypeOK /\ DrainInv
  BY TypeInit, DrainInit
<1>2. (TypeOK /\ DrainInv) /\ [Next]_vars => (TypeOK /\ DrainInv)'
  BY TypeStep, DrainStep
<1>3. DrainInv => DrainedBeforeExit
  BY DEF DrainInv, DrainedBeforeExit
<1> QED BY <1>1, <1>2, <1>3, PTL DEF Spec

-----------------------------------------------------------------------------
(* The order of the locks *)

(* A process that migrates a set has no lock of a later one. *)
LockInv ==
    \A q \in Proc, s \in Sets : lock[s] = q =>
        /\ pc[q] # "down"
        /\ pc[q] \in {"create", "lock"} => s < set[q]
        /\ pc[q] \in {"read", "apply"} => s <= set[q]

(* No process that dies keeps a lock. *)
LEMMA DeadUnlocked ==
  ASSUME TypeOK, LockInv, NEW p \in Proc,
         pc' = [pc EXCEPT ![p] = "down"], lock' = Unlocked(p), UNCHANGED set
  PROVE  LockInv'
<1>1. \A s \in Sets : lock'[s] # p /\ (lock'[s] = lock[s] \/ lock'[s] = Free)
  BY InstanceAssumption DEF Unlocked
<1>2. \A q \in Proc \ {p} : pc'[q] = pc[q]
  BY DEF TypeOK
<1> QED BY <1>1, <1>2, InstanceAssumption DEF LockInv

(* Every step keeps LockInv. *)
LEMMA LockStep == TypeOK /\ LockInv /\ [Next]_vars => LockInv'
<1> SUFFICES ASSUME TypeOK, LockInv, [Next]_vars PROVE LockInv'
  OBVIOUS
<1>0. /\ set \in [Proc -> 1 .. 2] /\ pc \in [Proc -> Locations]
      /\ lock \in [Sets -> Proc \cup {Free}] /\ Sets = 1 .. 2
  BY DEF TypeOK, Sets
<1>1. CASE UNCHANGED vars
  BY <1>1 DEF vars, migrating, LockInv
<1>2. ASSUME NEW p \in Proc, Start(p)
      PROVE  LockInv'
  <2>1. /\ pc[p] = "down" /\ pc' = [pc EXCEPT ![p] = "create"]
        /\ set' = [set EXCEPT ![p] = 1] /\ UNCHANGED lock
    BY <1>2 DEF Start, Goto
  <2> QED BY <1>0, <2>1 DEF LockInv
<1>3. ASSUME NEW p \in Proc, CreateTable(p) \/ ReadVersion(p)
      PROVE  LockInv'
  <2>1. /\ UNCHANGED <<set, lock>>
        /\ \/ pc[p] = "create" /\ pc' = [pc EXCEPT ![p] = "lock"]
           \/ pc[p] = "read" /\ pc' = [pc EXCEPT ![p] = "apply"]
    BY <1>3 DEF CreateTable, ReadVersion, Goto, migrating
  <2> QED BY <1>0, <2>1 DEF LockInv
<1>4. ASSUME NEW p \in Proc, AdvisoryLock(p)
      PROVE  LockInv'
  <2>1. /\ pc[p] = "lock" /\ pc' = [pc EXCEPT ![p] = "read"]
        /\ lock' = [lock EXCEPT ![set[p]] = p] /\ UNCHANGED set
    BY <1>4 DEF AdvisoryLock, Goto
  <2> QED BY <1>0, <2>1 DEF LockInv
<1>5. ASSUME NEW p \in Proc, ApplyOneMigration(p)
      PROVE  LockInv'
  BY <1>5 DEF ApplyOneMigration, LockInv
<1>6. ASSUME NEW p \in Proc, AdvisoryUnlock(p)
      PROVE  LockInv'
  <2>1. /\ pc[p] = "apply"
        /\ lock' = lock \/ lock' = [lock EXCEPT ![set[p]] = Free]
        /\ \/ /\ set[p] = 1 /\ set' = [set EXCEPT ![p] = 2]
              /\ pc' = [pc EXCEPT ![p] = "create"]
           \/ pc' = [pc EXCEPT ![p] = "serve"] /\ UNCHANGED set
    BY <1>6 DEF AdvisoryUnlock, NextSet, Goto
  <2>2. \A s \in Sets : lock'[s] = lock[s] \/ lock'[s] = Free
    BY <1>0, <2>1
  <2> QED BY <1>0, <2>1, <2>2, InstanceAssumption DEF LockInv
<1>7. ASSUME NEW p \in Proc, StartFails(p) \/ Exit(p) \/ Crash(p)
      PROVE  LockInv'
  BY <1>7, DeadUnlocked DEF StartFails, Exit, Crash, Goto
<1>8. ASSUME NEW p \in Proc, ConnMaxIdleTime(p)
      PROVE  LockInv'
  <2>1. UNCHANGED <<pc, set>> /\ lock' = Unlocked(p)
    BY <1>8 DEF ConnMaxIdleTime
  <2>2. \A s \in Sets : lock'[s] = lock[s] \/ lock'[s] = Free
    BY <2>1 DEF Unlocked
  <2> QED BY <2>1, <2>2, InstanceAssumption DEF LockInv
<1>9. ASSUME NEW p \in Proc, Accept(p) \/ HandlerEnds(p) \/ TriggerEnds(p) \/ TaskEnds(p)
      PROVE  LockInv'
  BY <1>9 DEF Accept, HandlerEnds, TriggerEnds, TaskEnds, migrating, LockInv
<1>10. ASSUME NEW p \in Proc,
              Sigterm(p) \/ ListenFails(p) \/ Shutdown(p) \/ TriggersDrained(p) \/ TasksDrained(p)
       PROVE  LockInv'
  <2>1. /\ UNCHANGED <<set, lock>>
        /\ \E l \in {"shutdown", "triggers", "tasks", "close"} : pc' = [pc EXCEPT ![p] = l]
    BY <1>10 DEF Sigterm, ListenFails, Shutdown, TriggersDrained, TasksDrained, Goto, migrating
  <2> QED BY <1>0, <2>1 DEF LockInv
<1> QED BY <1>1, <1>2, <1>3, <1>4, <1>5, <1>6, <1>7, <1>8, <1>9, <1>10 DEF Next, Migrates, Stops

(* However many processes start together, fail, are killed, or return a     *)
(* session that kept its lock to the pool, they wait for the advisory locks *)
(* in the order of the sets and never for a dead process (applyMigrations). *)
THEOREM LockTheorem == Spec => []LocksInOrder
<1>1. Init => LockInv
  BY InstanceAssumption DEF Init, LockInv
<1>2. TypeOK /\ LockInv /\ [Next]_vars => LockInv'
  BY LockStep
<1>3. LockInv => LocksInOrder
  BY DEF LockInv, LocksInOrder
<1> QED BY <1>1, <1>2, <1>3, TypeCorrect, PTL DEF Spec
=============================================================================
