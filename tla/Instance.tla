------------------------------ MODULE Instance -------------------------------
(***************************************************************************)
(* The life of the processes that share the database: each one starts,     *)
(* brings the schema up to the migrations its release was built with, and  *)
(* serves requests until it is told to stop or dies.  The two sets of      *)
(* migrations (base, then SaaS) have a version table and an advisory lock  *)
(* each; the lock belongs to the database session that took it.            *)
(*                                                                         *)
(* A serving process has handlers in flight, which leave background work   *)
(* behind (sample seeding) and import triggers; on SIGTERM it stops        *)
(* listening, waits for the handlers up to a timeout, then for the         *)
(* triggers, then for the background work, and closes the pool.            *)
(***************************************************************************)
EXTENDS Naturals, Sequences, FiniteSets, FiniteSetsExt

CONSTANTS
    Proc,        \* processes
    Free,        \* nobody holds the lock
    Files,       \* [Proc -> [Sets -> the versions its release embeds]]
    MaxBoots,    \* bound: process starts
    MaxFaults,   \* bound: failing statements and expired deadlines
    MaxCrashes,  \* bound: processes killed
    MaxWork      \* bound: handlers, triggers and tasks of a process

Sets == 1 .. 2   \* 1: runMigrations (base), 2: RunSaaSMigrations

(* The numbering rule of the release checklist: a migration is numbered     *)
(* above all the earlier ones, so whoever has it has those too.             *)
ASSUME InstanceAssumption ==
    /\ Free \notin Proc
    /\ Files \in [Proc -> [Sets -> SUBSET (Nat \ {0})]]
    /\ \A p \in Proc, s \in Sets : IsFiniteSet(Files[p][s])
    /\ \A p, q \in Proc, s \in Sets : \A v \in Files[p][s], w \in Files[q][s] :
          w < v => w \in Files[p][s]
    /\ MaxBoots \in Nat /\ MaxFaults \in Nat /\ MaxCrashes \in Nat /\ MaxWork \in Nat

VARIABLES
    pc,        \* [Proc -> where the process is]
    set,       \* [Proc -> the set it migrates]
    todo,      \* [Proc -> the files it found to be newer than the table]
    lock,      \* [Sets -> the process whose session has the advisory lock]
    rows,      \* [Sets -> the version table]
    work,      \* [Proc -> handlers, triggers, tasks]
    cut,       \* processes whose drain was cut short
    boots, faults, crashes,
    (* history *)
    log,       \* [Sets -> the migrations executed, in order]
    abandoned  \* processes that exited by themselves with work still under way

migrating == <<set, todo, lock, rows, log>>
serving   == <<work, cut, abandoned>>
counters  == <<boots, faults, crashes>>
vars      == <<pc, migrating, serving, counters>>

NoWork == [handlers |-> 0, triggers |-> 0, tasks |-> 0]

Init ==
    /\ pc = [p \in Proc |-> "down"]
    /\ set = [p \in Proc |-> 1]
    /\ todo = [p \in Proc |-> {}]
    /\ lock = [s \in Sets |-> Free]
    /\ rows = [s \in Sets |-> {}]
    /\ work = [p \in Proc |-> NoWork]
    /\ cut = {}
    /\ boots = 0 /\ faults = 0 /\ crashes = 0
    /\ log = [s \in Sets |-> <<>>]
    /\ abandoned = {}

Fault == faults < MaxFaults /\ faults' = faults + 1 /\ UNCHANGED <<boots, crashes>>

Goto(p, l) == pc' = [pc EXCEPT ![p] = l]

(* The sessions of a process end with its pool: their locks are freed. *)
Unlocked(p) == [s \in Sets |-> IF lock[s] = p THEN Free ELSE lock[s]]

-----------------------------------------------------------------------------
(* Startup: New, then RunSaaSMigrations. *)

Start(p) ==
    /\ pc[p] = "down" /\ boots < MaxBoots
    /\ boots' = boots + 1
    /\ Goto(p, "create")
    /\ set' = [set EXCEPT ![p] = 1]
    /\ cut' = cut \ {p}
    /\ UNCHANGED <<todo, lock, rows, log, work, abandoned, faults, crashes>>

(* The version table is created before the lock is taken. *)
CreateTable(p) ==
    /\ pc[p] = "create"
    /\ Goto(p, "lock")
    /\ UNCHANGED <<migrating, serving, counters>>

(* Wrong variant: the lock is not waited for. *)
AdvisoryTryLock(p) ==
    /\ pc[p] = "lock"
    /\ lock' = [lock EXCEPT ![set[p]] = p]
    /\ Goto(p, "read")
    /\ UNCHANGED <<set, todo, rows, log, serving, counters>>

(* pg_advisory_lock waits for the lock. *)
AdvisoryLock(p) ==
    /\ pc[p] = "lock" /\ lock[set[p]] = Free
    /\ lock' = [lock EXCEPT ![set[p]] = p]
    /\ Goto(p, "read")
    /\ UNCHANGED <<set, todo, rows, log, serving, counters>>

(* MAX(version), and the files above it. *)
ReadVersion(p) ==
    /\ pc[p] = "read"
    /\ LET currentVersion == Max(rows[set[p]] \cup {0})
       IN  todo' = [todo EXCEPT ![p] = {v \in Files[p][set[p]] : v > currentVersion}]
    /\ Goto(p, "apply")
    /\ UNCHANGED <<set, lock, rows, log, serving, counters>>

Executed(p, v) ==
    /\ rows' = [rows EXCEPT ![set[p]] = @ \cup {v}]
    /\ log' = [log EXCEPT ![set[p]] = Append(@, v)]

(* One transaction: the file's statements and its row of the table. *)
ApplyOneMigration(p) ==
    /\ pc[p] = "apply" /\ todo[p] # {}
    /\ Executed(p, Min(todo[p]))
    /\ todo' = [todo EXCEPT ![p] = @ \ {Min(@)}]
    /\ UNCHANGED <<pc, set, lock, serving, counters>>

(* Wrong variant: the SaaS migrations are left out. *)
ServeAtOnce(p) == Goto(p, "serve") /\ UNCHANGED set

NextSet(p) ==
    IF set[p] = 1 THEN Goto(p, "create") /\ set' = [set EXCEPT ![p] = 2]
    ELSE Goto(p, "serve") /\ UNCHANGED set

(* The deferred unlock.  Its error is dropped: the session goes back to     *)
(* the pool with the lock.                                                  *)
AdvisoryUnlock(p) ==
    /\ pc[p] = "apply" /\ todo[p] = {}
    /\ \/ lock' = [lock EXCEPT ![set[p]] = Free] /\ UNCHANGED counters
       \/ Fault /\ UNCHANGED lock
    /\ NextSet(p)
    /\ UNCHANGED <<todo, rows, log, serving>>

(* Wrong variant: the pool is left open when startup fails. *)
StartFailsPoolOpen(p) ==
    /\ pc[p] \in {"create", "lock", "read", "apply"}
    /\ Fault
    /\ Goto(p, "down")
    /\ todo' = [todo EXCEPT ![p] = {}]
    /\ UNCHANGED <<set, lock, rows, log, serving>>

(* A statement fails or the five minutes are over: the transaction is       *)
(* rolled back, or committed without an answer; the pool is closed and the  *)
(* process exits.                                                           *)
StartFails(p) ==
    /\ pc[p] \in {"create", "lock", "read", "apply"}
    /\ Fault
    /\ \/ UNCHANGED <<rows, log>>
       \/ pc[p] = "apply" /\ todo[p] # {} /\ Executed(p, Min(todo[p]))
    /\ Goto(p, "down")
    /\ lock' = Unlocked(p)
    /\ todo' = [todo EXCEPT ![p] = {}]
    /\ UNCHANGED <<set, serving>>

(* A pooled session that kept the lock reaches its maximal idle time. *)
ConnMaxIdleTime(p) ==
    /\ pc[p] \in {"create", "lock", "serve"}
    /\ lock' = Unlocked(p)
    /\ lock' # lock
    /\ UNCHANGED <<pc, set, todo, rows, log, serving, counters>>

-----------------------------------------------------------------------------
(* Serving and stopping: Run. *)

(* The handlers that Shutdown did not wait for go on until the exit. *)
Up(p) == pc[p] \in {"serve", "shutdown", "triggers", "tasks", "close"}

Busy(p) == work[p].triggers + work[p].tasks

Accept(p) ==
    /\ pc[p] = "serve" /\ work[p].handlers + Busy(p) < MaxWork
    /\ work' = [work EXCEPT ![p].handlers = @ + 1]
    /\ UNCHANGED <<pc, migrating, cut, abandoned, counters>>

(* The last thing a handler does is to answer: alone, or having submitted   *)
(* a task (bg.Submit) or a trigger (TriggerRepoImportAsync).                *)
HandlerEnds(p) ==
    /\ Up(p) /\ work[p].handlers > 0
    /\ \E trigger, task \in 0 .. 1 :
          /\ trigger + task < 2
          /\ work' = [work EXCEPT ![p] = [handlers |-> @.handlers - 1,
                                         triggers |-> @.triggers + trigger,
                                         tasks |-> @.tasks + task]]
    /\ UNCHANGED <<pc, migrating, cut, abandoned, counters>>

(* Submit's deadline bounds a task, TriggerRepoImportAsync's a trigger. *)
TriggerEnds(p) ==
    /\ Up(p) /\ work[p].triggers > 0
    /\ work' = [work EXCEPT ![p].triggers = @ - 1]
    /\ UNCHANGED <<pc, migrating, cut, abandoned, counters>>

TaskEnds(p) ==
    /\ Up(p) /\ work[p].tasks > 0
    /\ work' = [work EXCEPT ![p].tasks = @ - 1]
    /\ UNCHANGED <<pc, migrating, cut, abandoned, counters>>

Sigterm(p) ==
    /\ pc[p] = "serve"
    /\ Goto(p, "shutdown")
    /\ UNCHANGED <<migrating, serving, counters>>

(* ListenAndServe returns an error: Run returns without any drain. *)
ListenFails(p) ==
    /\ pc[p] = "serve" /\ Fault
    /\ Goto(p, "close")
    /\ cut' = cut \cup {p}
    /\ UNCHANGED <<migrating, work, abandoned>>

(* Wrong variant: no timeout, handlers are waited for. *)
ShutdownWaits(p) ==
    /\ pc[p] = "shutdown" /\ work[p].handlers = 0
    /\ Goto(p, "triggers")
    /\ UNCHANGED <<migrating, serving, counters>>

(* Shutdown waits for the handlers, up to SERVER_SHUTDOWN_TIMEOUT_SEC. *)
Shutdown(p) ==
    /\ pc[p] = "shutdown"
    /\ Goto(p, "triggers")
    /\ cut' = IF work[p].handlers > 0 THEN cut \cup {p} ELSE cut
    /\ UNCHANGED <<migrating, work, abandoned, counters>>

(* Wrong variant: trigger.Wait is left out. *)
TriggersIgnored(p) ==
    /\ pc[p] = "triggers"
    /\ Goto(p, "tasks")
    /\ UNCHANGED <<migrating, serving, counters>>

(* trigger.Wait *)
TriggersDrained(p) ==
    /\ pc[p] = "triggers" /\ work[p].triggers = 0
    /\ Goto(p, "tasks")
    /\ UNCHANGED <<migrating, serving, counters>>

(* bg.Wait *)
TasksDrained(p) ==
    /\ pc[p] = "tasks" /\ work[p].tasks = 0
    /\ Goto(p, "close")
    /\ UNCHANGED <<migrating, serving, counters>>

(* The deferred store.Close, and the exit. *)
Exit(p) ==
    /\ pc[p] = "close"
    /\ Goto(p, "down")
    /\ lock' = Unlocked(p)
    /\ abandoned' = IF p \notin cut /\ work[p] # NoWork THEN abandoned \cup {p} ELSE abandoned
    /\ work' = [work EXCEPT ![p] = NoWork]
    /\ UNCHANGED <<set, todo, rows, log, cut, counters>>

(* The process is killed: its sessions end, an open transaction is undone. *)
Crash(p) ==
    /\ pc[p] # "down" /\ crashes < MaxCrashes
    /\ crashes' = crashes + 1
    /\ Goto(p, "down")
    /\ lock' = Unlocked(p)
    /\ todo' = [todo EXCEPT ![p] = {}]
    /\ work' = [work EXCEPT ![p] = NoWork]
    /\ UNCHANGED <<set, rows, log, cut, abandoned, boots, faults>>

Migrates(p) == CreateTable(p) \/ AdvisoryLock(p) \/ ReadVersion(p) \/ ApplyOneMigration(p)
                  \/ AdvisoryUnlock(p)

Stops(p) == Shutdown(p) \/ TriggersDrained(p) \/ TasksDrained(p) \/ Exit(p)

Next ==
    \E p \in Proc :
        \/ Start(p) \/ Migrates(p) \/ StartFails(p) \/ ConnMaxIdleTime(p)
        \/ Accept(p) \/ HandlerEnds(p) \/ TriggerEnds(p) \/ TaskEnds(p)
        \/ Sigterm(p) \/ ListenFails(p) \/ Stops(p) \/ Crash(p)

(* Every step of a live process is taken sooner or later: the scheduler of  *)
(* the machine, the deadlines of triggers and tasks, and the pool's maximal *)
(* idle time see to it.  Requests, signals and faults may never come, and a *)
(* handler may never end.  A waiting session gets the advisory lock by turn.*)
Fairness ==
    \A p \in Proc :
        /\ WF_vars(CreateTable(p)) /\ SF_vars(AdvisoryLock(p)) /\ WF_vars(ReadVersion(p))
        /\ WF_vars(ApplyOneMigration(p)) /\ WF_vars(AdvisoryUnlock(p))
        /\ WF_vars(ConnMaxIdleTime(p))
        /\ WF_vars(TriggerEnds(p)) /\ WF_vars(TaskEnds(p)) /\ WF_vars(Stops(p))

Spec == Init /\ [][Next]_vars /\ Fairness

-----------------------------------------------------------------------------
Locations == {"down", "create", "lock", "read", "apply", "serve", "shutdown",
              "triggers", "tasks", "close"}

Load == [handlers : Nat, triggers : Nat, tasks : Nat]

(* The types of the processes, of the version tables and of the work; no    *)
(* counter of the work goes below zero.                                     *)
TypeOK ==
    /\ pc \in [Proc -> Locations]
    /\ set \in [Proc -> Sets]
    /\ todo \in [Proc -> SUBSET Nat]
    /\ lock \in [Sets -> Proc \cup {Free}]
    /\ rows \in [Sets -> SUBSET Nat]
    /\ work \in [Proc -> Load]
    /\ cut \subseteq Proc /\ abandoned \subseteq Proc
    /\ log \in [Sets -> Seq(Nat)]
    /\ boots \in Nat /\ faults \in Nat /\ crashes \in Nat

(* A process that serves requests finds every migration its release was     *)
(* built with in the version tables, whichever releases started before it,  *)
(* beside it, or died half way (applyMigrations).                           *)
ServesMigrated ==
    \A p \in Proc : Up(p) => \A s \in Sets : Files[p][s] \subseteq rows[s]

(* A process that was told to stop, and whose handlers ended in time, does  *)
(* not exit while a trigger or a task is under way (Run's order of drains). *)
DrainedBeforeExit == abandoned = {}

Base == INSTANCE SchemaLog WITH log <- log[1], Version <- UNION {Files[p][1] : p \in Proc}

Saas == INSTANCE SchemaLog WITH log <- log[2], Version <- UNION {Files[p][2] : p \in Proc}

(* Both sets of migrations implement the abstract log: each migration is    *)
(* executed at most once, in the order of the numbers, by whatever          *)
(* processes start together (the advisory lock, the version table and the   *)
(* transaction around both).                                                *)
ExecutedInOrder == Base!Spec /\ Saas!Spec

(* A process holds an advisory lock only while it lives, and waits for that *)
(* of a set only while it holds those of earlier sets: however unlocks fail *)
(* and starts are cut short, no processes wait for each other in a circle   *)
(* (applyMigrations, New, RunSaaSMigrations).                               *)
LocksInOrder ==
    \A p \in Proc, s \in Sets : lock[s] = p =>
        /\ pc[p] # "down"
        /\ pc[p] \in {"create", "lock"} => s < set[p]

(* A process that starts comes up or gives up: it never waits for a lock    *)
(* for ever, not even one an unlock failed to return.                       *)
StartEnds ==
    \A p \in Proc : (pc[p] \in {"create", "lock", "read", "apply"}) ~> (pc[p] \in {"serve", "down"})

(* A process that was told to stop exits, whatever its handlers do. *)
StopEnds == \A p \in Proc : (pc[p] = "shutdown") ~> (pc[p] = "down")
=============================================================================
