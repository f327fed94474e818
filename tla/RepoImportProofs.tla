-------------------------- MODULE RepoImportProofs --------------------------
(***************************************************************************)
(* Proofs about RepoImport: its type invariant, that no stored backfill     *)
(* frontier runs ahead of what the completed passes account for, and that,  *)
(* without overlap and resets, none moves forward again.                   *)
(***************************************************************************)
EXTENDS RepoImport, TLAPS

(* Becomes changes the record of one execution. *)
LEMMA BecomesExecution ==
  ASSUME NEW p \in Executions, NEW r \in Execution,
         ex \in [Executions -> Execution], Becomes(p, r)
  PROVE  /\ ex' \in [Executions -> Execution]
         /\ ex'[p] = r
         /\ \A q \in Executions : q # p => ex'[q] = ex[q]
  BY DEF Becomes

LEMMA IdleType == Idle \in Execution
  BY TypesAssumption, WindowAssumption DEF Idle, Execution, Stored

LEMMA GetBackfillUntilType ==
  ASSUME TypeOK, NEW u \in GetBackfillUntil
  PROVE  u \in Int /\ \E t \in EventTypes : u = rowUntil[t]
  BY DEF TypeOK, GetBackfillUntil, Stored

LEMMA InitType == Init => TypeOK
<1> SUFFICES ASSUME Init PROVE TypeOK
  OBVIOUS
<1>1. updated \in [Items -> Int]
  BY ItemAssumption DEF Init
<1>2. ex \in [Executions -> Execution]
  BY IdleType DEF Init
<1>3. rowSince \in [EventTypes -> Stored] /\ rowUntil \in [EventTypes -> Stored]
  BY DEF Init, Stored
<1>4. upstream \subseteq Items /\ meta = Null
  BY DEF Init
<1>5. /\ now \in Int /\ pushed \in Int /\ touches \in Nat /\ faults \in Nat
      /\ floor \in Int /\ through \in Int /\ events = {} /\ missed = {}
      /\ unread = {} /\ gaps = {} /\ unlisted = {}
  BY WindowAssumption DEF Init
<1> QED BY <1>1, <1>2, <1>3, <1>4, <1>5 DEF TypeOK

(* Every step of the import keeps the types. *)
LEMMA TypeStep == TypeOK /\ [Next]_vars => TypeOK'
<1> SUFFICES ASSUME TypeOK, [Next]_vars PROVE TypeOK'
  OBVIOUS
<1> USE TypesAssumption, WindowAssumption
<1>1. CASE UNCHANGED vars
  BY <1>1 DEF vars, github, state, history, TypeOK
<1>2. CASE Environment
  <2>1. CASE Tick
    BY <2>1 DEF Tick, TypeOK, github, state, history
  <2>2. CASE Push
    BY <2>2 DEF Push, TypeOK, state, history
  <2>3. CASE HardResetRepo
    BY <2>3 DEF HardResetRepo, Adverse, TypeOK, github, history, Stored
  <2>4. CASE \E e \in Items : Arrive(e)
    BY <2>4 DEF Arrive, TypeOK, state, history
  <2>5. CASE \E e \in Items : Touch(e)
    BY <2>5 DEF Touch, TypeOK, state, history
  <2> QED BY <1>2, <2>1, <2>2, <2>3, <2>4, <2>5 DEF Environment
<1>3. ASSUME NEW p \in Executions, Work(p) PROVE TypeOK'
  <2> DEFINE x == ex[p]
  <2>0. x \in Execution
    BY DEF TypeOK
  <2>1. CASE Begin(p)
    <3>1. [x EXCEPT !.pc = "meta"] \in Execution
      BY <2>0 DEF Execution
    <3>2. ex' \in [Executions -> Execution]
      BY <3>1, <2>1, BecomesExecution DEF Begin, TypeOK
    <3> QED BY <3>2, <2>1 DEF Begin, TypeOK, github, state, history
  <2>2. CASE MetaAndCheckSkip(p)
    <3>1. [x EXCEPT !.pc = "begin"] \in Execution
      BY <2>0 DEF Execution
    <3>2. ex' \in [Executions -> Execution]
      BY <3>1, <2>2, IdleType, BecomesExecution DEF MetaAndCheckSkip, TypeOK
    <3>3. meta' \in [pushed : Int, at : Int] \cup {Null}
      <4>1. [pushed |-> pushed, at |-> now] \in [pushed : Int, at : Int]
        BY DEF TypeOK
      <4>2. meta' = meta \/ meta' = [pushed |-> pushed, at |-> now]
        BY <2>2, Zenon DEF MetaAndCheckSkip, ImportRepoMeta
      <4> QED BY <4>1, <4>2 DEF TypeOK
    <3>4. faults' \in Nat
      <4>1. faults' = faults \/ faults' = faults + 1
        BY <2>2, Zenon DEF MetaAndCheckSkip, Adverse
      <4> QED BY <4>1 DEF TypeOK
    <3> QED BY <3>2, <3>3, <3>4, <2>2 DEF MetaAndCheckSkip, TypeOK, github, state, history
  <2>3. CASE StartFresh(p)
    <3>0. now - FreshDays \in Int
      BY DEF TypeOK
    <3>1. [Idle EXCEPT !.pc = "load", !.pass = "fresh", !.min = now - FreshDays] \in Execution
      BY <3>0, IdleType DEF Execution
    <3>2. ex' \in [Executions -> Execution]
      BY <3>1, <2>3, BecomesExecution DEF StartFresh, Window, TypeOK
    <3> QED BY <3>2, <2>3 DEF StartFresh, TypeOK, github, state, history
  <2>4. CASE LoadState(p)
    <3>1. [t \in EventTypes |-> ClampedSince(rowSince[t], x.min)] \in [EventTypes -> Int]
      BY <2>0 DEF TypeOK, ClampedSince, Stored, Execution
    <3>2. [x EXCEPT !.pc = "fetch", !.day = now, !.todo = EventTypes,
             !.since = [t \in EventTypes |-> ClampedSince(rowSince[t], x.min)],
             !.seen = rowUntil, !.list = {}, !.out = {}, !.rows = {}] \in Execution
      BY <2>0, <3>1 DEF TypeOK, Execution
    <3>3. ex' \in [Executions -> Execution]
      BY <3>2, <2>4, BecomesExecution DEF LoadState, TypeOK
    <3> QED BY <3>3, <2>4 DEF LoadState, TypeOK, github, state, history
  <2>5. ASSUME NEW t \in EventTypes, Fetch(p, t) PROVE TypeOK'
    <3>1. PICK cut : /\ Becomes(p, [x EXCEPT !.todo = @ \ {t},
                                             !.list = @ \cup Listed(p, t, cut)])
                     /\ missed' = missed \cup (Wanted(p, t) \ Listed(p, t, cut))
      BY <2>5 DEF Fetch
    <3>2. Listed(p, t, cut) \subseteq Items /\ Wanted(p, t) \subseteq Items
      BY DEF Listed, Wanted, TypeOK
    <3>3. [x EXCEPT !.todo = @ \ {t}, !.list = @ \cup Listed(p, t, cut)] \in Execution
      BY <2>0, <3>2 DEF Execution
    <3>4. ex' \in [Executions -> Execution]
      BY <3>1, <3>3, BecomesExecution DEF TypeOK
    <3> QED BY <3>1, <3>2, <3>4, <2>5 DEF Fetch, TypeOK, github, state
  <2>15. ASSUME NEW t \in EventTypes, FetchItem(p, t) PROVE TypeOK'
    <3>1. PICK e \in Listed(p, t, x.min) : Becomes(p, [x EXCEPT !.list = @ \cup {e}])
      BY <2>15 DEF FetchItem
    <3>2. e \in Items
      BY DEF Listed, TypeOK
    <3>3. [x EXCEPT !.list = @ \cup {e}] \in Execution
      BY <2>0, <3>2 DEF Execution
    <3>4. ex' \in [Executions -> Execution]
      BY <3>1, <3>3, BecomesExecution DEF TypeOK
    <3> QED BY <3>4, <2>15 DEF FetchItem, TypeOK, github, state, history
  <2>6. ASSUME NEW t \in EventTypes, FlushState(p, t) PROVE TypeOK'
    <3>1. [x EXCEPT !.rows = @ \ {t}] \in Execution
      BY <2>0 DEF Execution
    <3>2. ex' \in [Executions -> Execution]
      BY <3>1, <2>6, BecomesExecution DEF FlushState, TypeOK
    <3>3. x.since[t] \in Stored /\ x.seen[t] \in Stored
      BY <2>0 DEF Execution, Stored
    <3> QED BY <3>2, <3>3, <2>6 DEF FlushState, TypeOK, github, history
  <2>7. CASE MidFlush(p)
    <3>1. TakeList(x) \in Execution
      BY <2>0 DEF Execution, TakeList
    <3>2. ex' \in [Executions -> Execution]
      BY <3>1, <2>7, BecomesExecution DEF MidFlush, TypeOK
    <3> QED BY <3>2, <2>7 DEF MidFlush, TypeOK, github, state, history
  <2>8. CASE FinalFlush(p)
    <3>1. TakeList(x) \in Execution
      BY <2>0 DEF Execution, TakeList
    <3>2. [TakeList(x) EXCEPT !.pc = "flush"] \in Execution
      BY <3>1 DEF Execution
    <3>3. ex' \in [Executions -> Execution]
      BY <3>2, <2>8, BecomesExecution DEF FinalFlush, TypeOK
    <3> QED BY <3>3, <2>8 DEF FinalFlush, TypeOK, github, state, history
  <2>9. CASE FlushBatch(p)
    <3>1. PICK batch \in SUBSET x.out : /\ events' = events \cup batch
                                        /\ Becomes(p, [x EXCEPT !.out = @ \ batch])
      BY <2>9 DEF FlushBatch
    <3>2. [x EXCEPT !.out = @ \ batch] \in Execution /\ batch \subseteq Items
      BY <2>0 DEF Execution
    <3>3. ex' \in [Executions -> Execution]
      BY <3>1, <3>2, BecomesExecution DEF TypeOK
    <3> QED BY <3>1, <3>2, <3>3, <2>9 DEF FlushBatch, TypeOK, github, state, history
  <2>10. CASE PassDone(p)
    <3>1. [Idle EXCEPT !.pc = IF x.pass = "fresh" THEN "frontier" ELSE "advance",
             !.pass = x.pass, !.min = x.min, !.ok = TRUE] \in Execution
      BY <2>0, IdleType DEF Execution
    <3>2. ex' \in [Executions -> Execution]
      BY <3>1, <2>10, BecomesExecution DEF PassDone, TypeOK
    <3>3. x.min \in Int /\ x.day \in Int
      BY <2>0 DEF Execution
    <3>4. gaps' \subseteq Int /\ unlisted' \subseteq Int
      BY <3>3, <2>10 DEF PassDone, TypeOK
    <3> QED BY <3>2, <3>3, <3>4, <2>10 DEF PassDone, TypeOK, github, state
  <2>11. CASE ReadFrontier(p)
    <3>1. [x EXCEPT !.pc = "init"] \in Execution
      BY <2>0 DEF Execution
    <3>2. \A u \in GetBackfillUntil : [Idle EXCEPT !.pc = "gate", !.until = u] \in Execution
      BY IdleType, GetBackfillUntilType DEF Execution
    <3>3. ex' \in [Executions -> Execution]
      BY <3>1, <3>2, <2>11, BecomesExecution DEF ReadFrontier, TypeOK
    <3>4. faults' \in Nat
      <4>1. faults' = faults \/ faults' = faults + 1
        BY <2>11, Zenon DEF ReadFrontier, Adverse
      <4> QED BY <4>1 DEF TypeOK
    <3> QED BY <3>3, <3>4, <2>11 DEF ReadFrontier, TypeOK, github, state, history
  <2>12. CASE InitFrontier(p)
    <3>1. x.min \in Int
      BY <2>0 DEF Execution
    <3>2. [Idle EXCEPT !.pc = "gate", !.until = x.min] \in Execution
      BY <3>1, IdleType DEF Execution
    <3>3. ex' \in [Executions -> Execution]
      BY <3>2, <2>12, BecomesExecution DEF InitFrontier, TypeOK
    <3>4. rowSince' \in [EventTypes -> Stored] /\ rowUntil' \in [EventTypes -> Stored]
      BY <3>1, <2>12 DEF InitFrontier, SaveBackfillUntil, TypeOK, state, Stored
    <3>5. faults' \in Nat /\ floor' \in Int /\ unlisted' \subseteq Int
      BY <3>1, <2>12 DEF InitFrontier, Adverse, TypeOK
    <3> QED BY <3>3, <3>4, <3>5, <2>12 DEF InitFrontier, TypeOK, github
  <2>13. CASE StartBackfill(p)
    <3> DEFINE start == ChunkStart(x.until, now - TargetDays)
    <3>1. start \in Int
      BY <2>0 DEF ChunkStart, TypeOK, Execution
    <3> HIDE DEF start
    <3>2. [Idle EXCEPT !.pc = "load", !.pass = "backfill", !.min = start] \in Execution
      BY <3>1, IdleType DEF Execution
    <3>3. ex' \in [Executions -> Execution]
      BY <3>2, <2>13, IdleType, BecomesExecution DEF StartBackfill, Window, TypeOK, start
    <3> QED BY <3>3, <2>13 DEF StartBackfill, TypeOK, github, state, history
  <2>14. CASE AdvanceFrontier(p)
    <3>1. ex' \in [Executions -> Execution]
      BY <2>14, IdleType, BecomesExecution DEF AdvanceFrontier, TypeOK
    <3>2. x.min \in Int
      BY <2>0 DEF Execution
    <3>3. rowSince' \in [EventTypes -> Stored] /\ rowUntil' \in [EventTypes -> Stored]
      BY <3>2, <2>14 DEF AdvanceFrontier, SaveBackfillUntil, TypeOK, state, Stored
    <3>4. faults' \in Nat
      BY <2>14 DEF AdvanceFrontier, Adverse, TypeOK
    <3> QED BY <3>1, <3>3, <3>4, <2>14 DEF AdvanceFrontier, TypeOK, github, history
  <2> QED BY <1>3, <2>1, <2>2, <2>3, <2>4, <2>5, <2>6, <2>7, <2>8, <2>9, <2>10,
             <2>11, <2>12, <2>13, <2>14, <2>15 DEF Work
<1>4. ASSUME NEW p \in Executions, Trouble(p) PROVE TypeOK'
  <2> DEFINE x == ex[p]
  <2>0. x \in Execution
    BY DEF TypeOK
  <2>1. CASE AtLimit(p)
    <3>1. ex' \in [Executions -> Execution]
      BY <2>1, IdleType, BecomesExecution DEF AtLimit, TypeOK
    <3> QED BY <3>1, <2>1 DEF AtLimit, Adverse, TypeOK, github, state, history
  <2>2. CASE ReviewsFail(p)
    <3>1. PICK lost \in SUBSET Listed(p, "pr", x.min) :
            /\ Becomes(p, [x EXCEPT !.todo = @ \ {"pr"},
                                    !.list = @ \cup (Listed(p, "pr", x.min) \ lost)])
            /\ missed' = missed \cup lost \cup (Wanted(p, "pr") \ Listed(p, "pr", x.min))
      BY <2>2 DEF ReviewsFail
    <3>2. Listed(p, "pr", x.min) \subseteq Items /\ Wanted(p, "pr") \subseteq Items
      BY DEF Listed, Wanted, TypeOK
    <3>3. [x EXCEPT !.todo = @ \ {"pr"},
                    !.list = @ \cup (Listed(p, "pr", x.min) \ lost)] \in Execution
      BY <2>0, <3>2 DEF Execution
    <3>4. ex' \in [Executions -> Execution]
      BY <3>1, <3>3, BecomesExecution DEF TypeOK
    <3> QED BY <3>1, <3>2, <3>4, <2>2 DEF ReviewsFail, Adverse, TypeOK, github, state
  <2>3. CASE PassFails(p)
    <3>1. [Idle EXCEPT !.pc = "load", !.pass = x.pass, !.min = x.min,
                       !.tries = x.tries + 1] \in Execution
      <4>1. x.tries + 1 \in Nat /\ x.min \in Int /\ x.pass \in {"fresh", "backfill"}
        BY <2>0 DEF Execution
      <4> HIDE DEF x
      <4> QED BY <4>1, IdleType DEF Execution
    <3>2. [Idle EXCEPT !.pc = "frontier", !.min = x.min] \in Execution
      BY <2>0, IdleType DEF Execution
    <3>3. ex' \in [Executions -> Execution]
      BY <3>1, <3>2, <2>3, IdleType, BecomesExecution DEF PassFails, TypeOK
    <3>4. faults' \in Nat
      BY <2>3 DEF PassFails, Adverse, TypeOK
    <3> QED BY <3>3, <3>4, <2>3 DEF PassFails, TypeOK, github, state, history
  <2>4. CASE Crash(p)
    <3>1. ex' \in [Executions -> Execution]
      BY <2>4, IdleType, BecomesExecution DEF Crash, TypeOK
    <3> QED BY <3>1, <2>4 DEF Crash, Adverse, TypeOK, github, state, history
  <2>5. ASSUME NEW t \in EventTypes, FetchFails(p, t) PROVE TypeOK'
    <3>1. [x EXCEPT !.todo = @ \ {t}] \in Execution
      BY <2>0 DEF Execution
    <3>2. ex' \in [Executions -> Execution]
      BY <3>1, <2>5, BecomesExecution DEF FetchFails, TypeOK
    <3>3. Wanted(p, t) \subseteq Items
      BY DEF Wanted, TypeOK
    <3> QED BY <3>2, <3>3, <2>5 DEF FetchFails, Adverse, TypeOK, github, state
  <2>6. ASSUME NEW t \in EventTypes, MidFlushFails(p, t) PROVE TypeOK'
    <3>1. [x EXCEPT !.todo = @ \ {t}, !.out = {}, !.rows = {}] \in Execution
      BY <2>0 DEF Execution
    <3>2. ex' \in [Executions -> Execution]
      BY <3>1, <2>6, BecomesExecution DEF MidFlushFails, TypeOK
    <3>3. x.out \subseteq Items /\ Wanted(p, t) \subseteq Items
      BY <2>0 DEF Wanted, TypeOK, Execution
    <3> QED BY <3>2, <3>3, <2>6 DEF MidFlushFails, Adverse, TypeOK, github, state
  <2> QED BY <1>4, <2>1, <2>2, <2>3, <2>4, <2>5, <2>6 DEF Trouble
<1> QED BY <1>1, <1>2, <1>3, <1>4 DEF Next

(* The type invariant: every variable of the import keeps its type, so in  *)
(* particular a NULL frontier never reaches the arithmetic of a backfill   *)
(* pass (runFreshPass always hands runBackfillPass a date).                *)
THEOREM TypeCorrect == Spec => []TypeOK
  BY InitType, TypeStep, PTL DEF Spec

-----------------------------------------------------------------------------
(* The inductive invariant ImportInv. *)

(* What every step does to the state other executions rely on. *)
Grows ==
  /\ now <= now' /\ through <= through' /\ floor' <= floor
  /\ events \subseteq events' /\ missed \subseteq missed'
  /\ upstream \subseteq upstream'
  /\ \A e \in upstream' : e \notin upstream => e.created = now

(* A step that is not the end of a pass leaves the calendar alone. *)
Steady == UNCHANGED <<now, upstream, floor, through, gaps, unlisted>>

LEMMA BecomesAt ==
  ASSUME TypeOK, NEW p \in Executions, NEW r, Becomes(p, r)
  PROVE  ex'[p] = r /\ \A q \in Executions \ {p} : ex'[q] = ex[q]
  BY DEF Becomes, TypeOK

(* An execution that does not move keeps its part of the invariant. *)
LEMMA ExecutionKept ==
  ASSUME TypeOK, TypeOK', CalendarInv, Grows, NEW q \in Executions,
         ExecutionInv(q), ex'[q] = ex[q]
  PROVE  ExecutionInv(q)'
<1> DEFINE y == ex[q]
<1>0. y \in Execution /\ ex'[q] = y
  BY DEF TypeOK
<1>1. \A t \in EventTypes : Claimed(ex[q].seen[t])'
  BY <1>0 DEF ExecutionInv, Claimed, Grows, TypeOK, Execution, Stored
<1>2. y.min \in Int /\ y.day \in Int /\ y.until \in Int
  BY <1>0 DEF Execution
<1>3. y.pc \in {"fetch", "flush"} =>
        /\ FirstDay <= y.day /\ y.day <= now'
        /\ \A e \in upstream' :
             /\ Lister(e) \notin y.todo
             /\ y.min <= e.created /\ e.created < y.day
             => e \in events' \cup missed' \cup y.list \cup y.out
  BY <1>2, ItemAssumption, WindowAssumption DEF ExecutionInv, Grows, TypeOK
<1>4. /\ y.ok => floor' <= y.min
      /\ y.pc = "advance" => y.ok
      /\ y.pc = "flush" => y.todo = {} /\ y.list = {}
  BY <1>2 DEF ExecutionInv, Grows, TypeOK
<1> QED BY <1>0, <1>1, <1>3, <1>4 DEF ExecutionInv

(* An execution between two passes claims nothing. *)
LEMMA IdleInv ==
  ASSUME NEW q \in Executions, ex'[q] = Idle
  PROVE  ExecutionInv(q)'
  BY DEF ExecutionInv, Idle, Claimed

(* The start of a call of ImportEvents. *)
LEMMA WindowInv ==
  ASSUME NEW q \in Executions, ex'[q].pc = "load",
         ex'[q].ok = FALSE, ex'[q].seen = [t \in EventTypes |-> Null]
  PROVE  ExecutionInv(q)'
  BY DEF ExecutionInv, Claimed

LEMMA SteadyKeeps ==
  ASSUME TypeOK, CalendarInv, CoveredInv, Grows, Steady
  PROVE  CalendarInv' /\ CoveredInv'
  BY DEF CalendarInv, CoveredInv, Grows, Steady

LEMMA FrontierKept ==
  ASSUME TypeOK, TypeOK', FrontierInv, Grows, UNCHANGED rowUntil
  PROVE  FrontierInv'
  BY DEF FrontierInv, Claimed, Grows, TypeOK, Stored

LEMMA StepGrows ==
  ASSUME TypeOK, [Next]_vars
  PROVE  Grows
<1> USE DEF Grows
<1>1. CASE UNCHANGED vars
  BY <1>1 DEF vars, github, history, TypeOK
<1>2. CASE Environment
  BY <1>2 DEF Environment, Tick, Push, HardResetRepo, Arrive, Touch, github, history, TypeOK
<1>3. ASSUME NEW p \in Executions, Work(p) PROVE Grows
  <2>1. CASE Begin(p) \/ MetaAndCheckSkip(p) \/ StartFresh(p) \/ LoadState(p)
    <3>1. UNCHANGED <<now, upstream, floor, through, events, missed>>
      BY <2>1, Zenon DEF Begin, MetaAndCheckSkip, StartFresh, LoadState, github, history
    <3> QED BY <3>1 DEF TypeOK
  <2>2. ASSUME NEW t \in EventTypes, Fetch(p, t) PROVE Grows
    <3>1. UNCHANGED <<now, upstream, floor, through, events>> /\ missed \subseteq missed'
      BY <2>2 DEF Fetch, github
    <3> QED BY <3>1 DEF TypeOK
  <2>7. ASSUME NEW t \in EventTypes, FetchItem(p, t) \/ FlushState(p, t) PROVE Grows
    <3>1. UNCHANGED <<now, upstream, floor, through, events, missed>>
      BY <2>7, Zenon DEF FetchItem, FlushState, github, history
    <3> QED BY <3>1 DEF TypeOK
  <2>3. CASE MidFlush(p) \/ FinalFlush(p) \/ FlushBatch(p)
    <3>1. UNCHANGED <<now, upstream, floor, through, missed>> /\ events \subseteq events'
      <4>1. CASE FlushBatch(p)
        BY <4>1 DEF FlushBatch, github, history
      <4> QED BY <2>3, <4>1 DEF MidFlush, FinalFlush, github, history
    <3> QED BY <3>1 DEF TypeOK
  <2>4. CASE PassDone(p)
    <3>1. ex[p].min \in Int /\ ex[p].day \in Int
      BY DEF TypeOK, Execution
    <3> QED BY <2>4, <3>1 DEF PassDone, github, TypeOK
  <2>5. CASE InitFrontier(p)
    <3>1. ex[p].min \in Int
      BY DEF TypeOK, Execution
    <3> QED BY <2>5, <3>1 DEF InitFrontier, github, TypeOK
  <2>6. CASE ReadFrontier(p) \/ StartBackfill(p) \/ AdvanceFrontier(p)
    <3>1. UNCHANGED <<now, upstream, floor, through, events, missed>>
      BY <2>6, Zenon DEF ReadFrontier, StartBackfill, AdvanceFrontier, github, history
    <3> QED BY <3>1 DEF TypeOK
  <2> QED BY <1>3, <2>1, <2>2, <2>3, <2>4, <2>5, <2>6, <2>7 DEF Work
<1>4. ASSUME NEW p \in Executions, Trouble(p) PROVE Grows
  <2>1. CASE AtLimit(p) \/ PassFails(p) \/ Crash(p)
    <3>1. UNCHANGED <<now, upstream, floor, through, events, missed>>
      BY <2>1, Zenon DEF AtLimit, PassFails, Crash, github, history
    <3> QED BY <3>1 DEF TypeOK
  <2>2. CASE ReviewsFail(p) \/ \E t \in EventTypes : FetchFails(p, t) \/ MidFlushFails(p, t)
    <3>1. UNCHANGED <<now, upstream, floor, through, events>> /\ missed \subseteq missed'
      <4>1. CASE ReviewsFail(p)
        BY <4>1 DEF ReviewsFail, github
      <4> QED BY <2>2, <4>1 DEF FetchFails, MidFlushFails, github
    <3> QED BY <3>1 DEF TypeOK
  <2> QED BY <1>4, <2>1, <2>2 DEF Trouble
<1> QED BY <1>1, <1>2, <1>3, <1>4 DEF Next

(* A step of execution p disturbs no other execution. *)
LEMMA OneMoves ==
  ASSUME ImportInv, TypeOK', Grows, NEW p \in Executions, NEW r, Becomes(p, r),
         ExecutionInv(p)'
  PROVE  \A q \in Executions : ExecutionInv(q)'
  BY BecomesAt, ExecutionKept DEF ImportInv

LEMMA EnvironmentInv ==
  ASSUME ImportInv, TypeOK', Grows, Environment
  PROVE  ImportInv'
<1>1. ex' = ex
  BY DEF Environment, Tick, Push, HardResetRepo, Arrive, Touch
<1>2. \A q \in Executions : ExecutionInv(q)'
  BY <1>1, ExecutionKept DEF ImportInv
<1>3. FrontierInv'
  <2>1. CASE UNCHANGED rowUntil
    BY <2>1, FrontierKept DEF ImportInv
  <2>2. CASE HardResetRepo
    BY <2>2 DEF HardResetRepo, FrontierInv, Claimed
  <2> QED BY <2>1, <2>2 DEF Environment, Tick, Push, Arrive, Touch, state
<1>4. CalendarInv' /\ CoveredInv'
  <2>1. CASE Tick
    BY <2>1, ItemAssumption, WindowAssumption
    DEF ImportInv, TypeOK, CalendarInv, CoveredInv, Tick, github, history
  <2>2. CASE \E e \in Items : Arrive(e)
    BY <2>2, ItemAssumption DEF ImportInv, TypeOK, CalendarInv, CoveredInv, Arrive, history
  <2>3. CASE Steady
    BY <2>3, SteadyKeeps DEF ImportInv
  <2> QED
    BY <2>1, <2>2, <2>3 DEF Environment, Push, HardResetRepo, Touch, Steady, github, history
<1> QED BY <1>2, <1>3, <1>4 DEF ImportInv

(* A step of p that ends no pass and saves no frontier need only be looked *)
(* at for p itself.                                                        *)
LEMMA SteadyStep ==
  ASSUME ImportInv, TypeOK', Grows, NEW p \in Executions, NEW r, Becomes(p, r),
         Steady, UNCHANGED rowUntil, ExecutionInv(p)'
  PROVE  ImportInv'
  BY OneMoves, SteadyKeeps, FrontierKept DEF ImportInv

(* Everything listed for p stays listed, on its way or accounted for. *)
LEMMA FetchingInv ==
  ASSUME ImportInv, TypeOK', Grows, Steady, NEW p \in Executions,
         ex[p].pc = "fetch", ex'[p].pc = "fetch",
         ex'[p].min = ex[p].min, ex'[p].day = ex[p].day, ex'[p].ok = ex[p].ok,
         ex'[p].seen = ex[p].seen,
         \A e \in upstream :
           /\ Lister(e) \notin ex'[p].todo
           /\ ex[p].min <= e.created /\ e.created < ex[p].day
           => e \in events' \cup missed' \cup ex'[p].list \cup ex'[p].out
  PROVE  ExecutionInv(p)'
<1>1. \A t \in EventTypes : Claimed(ex[p].seen[t])'
  BY DEF ImportInv, ExecutionInv, Claimed, Steady
<1> QED BY <1>1 DEF ImportInv, ExecutionInv, Steady

LEMMA FetchInv ==
  ASSUME ImportInv, TypeOK', Grows, NEW p \in Executions, NEW t \in EventTypes,
         FetchItem(p, t) \/ Fetch(p, t)
  PROVE  ImportInv'
<1> DEFINE x == ex[p]
<1>0. x \in Execution /\ x.pc = "fetch" /\ TypeOK
  BY DEF ImportInv, TypeOK, FetchItem, Fetch, Listing
<1>1. Steady /\ UNCHANGED rowUntil
  BY DEF FetchItem, Fetch, Steady, github, state, history
<1>2. CASE FetchItem(p, t)
  <2>1. PICK e \in Items : Becomes(p, [x EXCEPT !.list = @ \cup {e}])
    BY <1>2, <1>0 DEF FetchItem, Listed, TypeOK
  <2>2. ex'[p] = [x EXCEPT !.list = @ \cup {e}]
    BY <2>1, <1>0, BecomesAt
  <2>3. ExecutionInv(p)'
    BY <1>0, <1>1, <2>2, FetchingInv DEF ImportInv, ExecutionInv, Execution, Grows
  <2> QED BY <1>1, <2>1, <2>3, SteadyStep
<1>3. CASE Fetch(p, t)
  <2>1. PICK cut : /\ Becomes(p, [x EXCEPT !.todo = @ \ {t},
                                           !.list = @ \cup Listed(p, t, cut)])
                   /\ missed' = missed \cup (Wanted(p, t) \ Listed(p, t, cut))
    BY <1>3 DEF Fetch
  <2>2. ex'[p] = [x EXCEPT !.todo = @ \ {t}, !.list = @ \cup Listed(p, t, cut)]
    BY <2>1, <1>0, BecomesAt
  <2>3. \A e \in upstream :
          /\ Lister(e) \notin x.todo \ {t}
          /\ x.min <= e.created /\ e.created < x.day
          => e \in events' \cup missed' \cup (x.list \cup Listed(p, t, cut)) \cup x.out
    <3> SUFFICES ASSUME NEW e \in upstream, Lister(e) \notin x.todo \ {t},
                        x.min <= e.created, e.created < x.day
                 PROVE  e \in events' \cup missed' \cup (x.list \cup Listed(p, t, cut)) \cup x.out
      OBVIOUS
    <3>1. CASE Lister(e) = t
      <4>1. e \in Wanted(p, t)
        BY <3>1, <1>0, ItemAssumption DEF Wanted, Execution, TypeOK
      <4> QED BY <4>1, <2>1
    <3>2. CASE Lister(e) # t
      BY <3>2, <1>0 DEF ImportInv, ExecutionInv, Grows
    <3> QED BY <3>1, <3>2
  <2>4. ExecutionInv(p)'
    BY <1>0, <1>1, <2>2, <2>3, FetchingInv DEF Execution
  <2> QED BY <1>1, <2>1, <2>4, SteadyStep
<1> QED BY <1>2, <1>3

(* A swallowed listing or flush error leaves its items in missed. *)
LEMMA FetchTroubleInv ==
  ASSUME ImportInv, TypeOK', Grows, NEW p \in Executions, NEW t \in EventTypes,
         FetchFails(p, t) \/ MidFlushFails(p, t) \/ (t = "pr" /\ ReviewsFail(p))
  PROVE  ImportInv'
<1> DEFINE x == ex[p]
<1>0. x \in Execution /\ x.pc = "fetch" /\ TypeOK
  BY DEF ImportInv, TypeOK, FetchFails, MidFlushFails, ReviewsFail, Listing
<1>1. Steady /\ UNCHANGED rowUntil
  BY DEF FetchFails, MidFlushFails, ReviewsFail, Steady, github, state
<1>2. \A e \in upstream : Lister(e) = t /\ x.min <= e.created => e \in Wanted(p, t)
  BY <1>0, ItemAssumption DEF Wanted, Execution, TypeOK
<1>3. \A e \in upstream :
        /\ Lister(e) \notin x.todo
        /\ x.min <= e.created /\ e.created < x.day
        => e \in events \cup missed \cup x.list \cup x.out
  BY <1>0 DEF ImportInv, ExecutionInv
<1>4. CASE FetchFails(p, t)
  <2>1. Becomes(p, [x EXCEPT !.todo = @ \ {t}])
    BY <1>4 DEF FetchFails
  <2>2. ex'[p] = [x EXCEPT !.todo = @ \ {t}]
    BY <2>1, <1>0, BecomesAt
  <2>3. \A e \in upstream :
          /\ Lister(e) \notin x.todo \ {t}
          /\ x.min <= e.created /\ e.created < x.day
          => e \in events' \cup missed' \cup x.list \cup x.out
    BY <1>2, <1>3, <1>4 DEF FetchFails, Grows
  <2>4. ExecutionInv(p)'
    BY <1>0, <1>1, <2>2, <2>3, FetchingInv DEF Execution
  <2> QED BY <1>1, <2>1, <2>4, SteadyStep
<1>5. CASE MidFlushFails(p, t)
  <2>1. Becomes(p, [x EXCEPT !.todo = @ \ {t}, !.out = {}, !.rows = {}])
    BY <1>5 DEF MidFlushFails
  <2>2. ex'[p] = [x EXCEPT !.todo = @ \ {t}, !.out = {}, !.rows = {}]
    BY <2>1, <1>0, BecomesAt
  <2>3. \A e \in upstream :
          /\ Lister(e) \notin x.todo \ {t}
          /\ x.min <= e.created /\ e.created < x.day
          => e \in events' \cup missed' \cup x.list
    BY <1>2, <1>3, <1>5 DEF MidFlushFails, Grows
  <2>4. ExecutionInv(p)'
    BY <1>0, <1>1, <2>2, <2>3, FetchingInv DEF Execution
  <2> QED BY <1>1, <2>1, <2>4, SteadyStep
<1>6. CASE t = "pr" /\ ReviewsFail(p)
  <2> DEFINE all == Listed(p, "pr", x.min)
  <2>1. PICK lost : /\ Becomes(p, [x EXCEPT !.todo = @ \ {"pr"}, !.list = @ \cup (all \ lost)])
                    /\ missed' = missed \cup lost \cup (Wanted(p, "pr") \ all)
    BY <1>6 DEF ReviewsFail
  <2>2. ex'[p] = [x EXCEPT !.todo = @ \ {"pr"}, !.list = @ \cup (all \ lost)]
    BY <2>1, <1>0, BecomesAt
  <2>3. \A e \in upstream :
          /\ Lister(e) \notin x.todo \ {"pr"}
          /\ x.min <= e.created /\ e.created < x.day
          => e \in events' \cup missed' \cup (x.list \cup (all \ lost)) \cup x.out
    <3> HIDE DEF all
    <3> QED BY <1>2, <1>3, <1>6, <2>1 DEF Grows
  <2>4. ExecutionInv(p)'
    <3> HIDE DEF all
    <3> QED BY <1>0, <1>1, <2>2, <2>3, FetchingInv DEF Execution
  <2> QED BY <1>1, <2>1, <2>4, SteadyStep
<1> QED BY <1>4, <1>5, <1>6

(* A flush moves items towards the database and loses none. *)
LEMMA FlushInv ==
  ASSUME ImportInv, TypeOK', Grows, NEW p \in Executions,
         MidFlush(p) \/ FinalFlush(p) \/ FlushBatch(p)
  PROVE  ImportInv'
<1> DEFINE x == ex[p]
<1>0. x \in Execution /\ TypeOK /\ ExecutionInv(p)
  BY DEF ImportInv, TypeOK
<1>1. Steady /\ UNCHANGED rowUntil
  BY DEF MidFlush, FinalFlush, FlushBatch, Steady, github, state, history
<1>2. CASE MidFlush(p)
  <2>1. Becomes(p, TakeList(x)) /\ x.pc = "fetch" /\ x.out = {}
    BY <1>2 DEF MidFlush, Flushing
  <2>2. ex'[p] = TakeList(x)
    BY <2>1, <1>0, BecomesAt
  <2>3. ExecutionInv(p)'
    BY <1>0, <1>1, <2>1, <2>2, FetchingInv DEF ExecutionInv, TakeList, Execution, Grows
  <2> QED BY <1>1, <2>1, <2>3, SteadyStep
<1>3. CASE FinalFlush(p)
  <2>1. /\ Becomes(p, [TakeList(x) EXCEPT !.pc = "flush"])
        /\ x.pc = "fetch" /\ x.out = {} /\ x.todo = {}
    BY <1>3 DEF FinalFlush, Flushing
  <2>2. ex'[p] = [TakeList(x) EXCEPT !.pc = "flush"]
    BY <2>1, <1>0, BecomesAt
  <2>3. ExecutionInv(p)'
    <3>1. /\ ex'[p].pc = "flush" /\ ex'[p].min = x.min /\ ex'[p].day = x.day
          /\ ex'[p].ok = x.ok /\ ex'[p].seen = x.seen /\ ex'[p].todo = {}
          /\ ex'[p].list = {} /\ ex'[p].out = x.list
      BY <1>0, <2>1, <2>2 DEF TakeList, Execution
    <3>2. \A t \in EventTypes : Claimed(ex[p].seen[t])'
      BY <1>0, <1>1, <3>1 DEF ExecutionInv, Claimed, Steady
    <3> QED BY <1>0, <1>1, <2>1, <3>1, <3>2 DEF ExecutionInv, Steady, Grows
  <2> QED BY <1>1, <2>1, <2>3, SteadyStep
<1>4. CASE FlushBatch(p)
  <2>1. PICK batch : /\ events' = events \cup batch
                     /\ Becomes(p, [x EXCEPT !.out = @ \ batch])
    BY <1>4 DEF FlushBatch
  <2>2. ex'[p] = [x EXCEPT !.out = @ \ batch]
    BY <2>1, <1>0, BecomesAt
  <2>3. ExecutionInv(p)'
    <3>1. /\ ex'[p].pc = x.pc /\ ex'[p].min = x.min /\ ex'[p].day = x.day
          /\ ex'[p].ok = x.ok /\ ex'[p].seen = x.seen /\ ex'[p].todo = x.todo
          /\ ex'[p].until = x.until
          /\ ex'[p].list = x.list /\ ex'[p].out = x.out \ batch
      BY <1>0, <2>1, <2>2 DEF Execution
    <3>2. \A t \in EventTypes : Claimed(ex[p].seen[t])'
      BY <1>0, <1>1, <3>1 DEF ExecutionInv, Claimed, Steady
    <3> QED BY <1>0, <1>1, <2>1, <3>1, <3>2 DEF ExecutionInv, Steady, Grows
  <2> QED BY <1>1, <2>1, <2>3, SteadyStep
<1> QED BY <1>2, <1>3, <1>4

(* A state row is rewritten with a frontier that was claimed when the pass *)
(* began, and the claimed days only grow.                                  *)
LEMMA FlushStateInv ==
  ASSUME ImportInv, TypeOK', Grows, NEW p \in Executions, NEW t \in EventTypes,
         FlushState(p, t)
  PROVE  ImportInv'
<1> DEFINE x == ex[p]
<1>0. x \in Execution /\ TypeOK /\ ExecutionInv(p)
  BY DEF ImportInv, TypeOK
<1>1. Steady
  BY DEF FlushState, Steady, github, history
<1>2. Becomes(p, [x EXCEPT !.rows = @ \ {t}])
  BY DEF FlushState
<1>3. ex'[p] = [x EXCEPT !.rows = @ \ {t}]
  BY <1>2, <1>0, BecomesAt
<1>4. ExecutionInv(p)'
  <2>1. /\ ex'[p].pc = x.pc /\ ex'[p].min = x.min /\ ex'[p].day = x.day
        /\ ex'[p].ok = x.ok /\ ex'[p].seen = x.seen /\ ex'[p].todo = x.todo
        /\ ex'[p].until = x.until /\ ex'[p].list = x.list /\ ex'[p].out = x.out
    BY <1>0, <1>3 DEF Execution
  <2>2. \A u \in EventTypes : Claimed(ex[p].seen[u])'
    BY <1>0, <1>1, <2>1 DEF ExecutionInv, Claimed, Steady
  <2> QED BY <1>0, <1>1, <2>1, <2>2 DEF ExecutionInv, Steady, Grows
<1>5. FrontierInv'
  <2>1. rowUntil' = [rowUntil EXCEPT ![t] = x.seen[t]] /\ Claimed(x.seen[t])
    BY <1>0 DEF FlushState, ExecutionInv
  <2> QED BY <2>1, <1>0, <1>1 DEF ImportInv, FrontierInv, Claimed, Steady, TypeOK
<1> QED BY <1>0, <1>1, <1>2, <1>4, <1>5, OneMoves, SteadyKeeps DEF ImportInv

(* A completed pass joins its window to the days already covered. *)
LEMMA PassDoneInv ==
  ASSUME ImportInv, TypeOK', Grows, NEW p \in Executions, PassDone(p)
  PROVE  ImportInv'
<1> DEFINE x == ex[p]
<1>0. x \in Execution /\ TypeOK /\ ExecutionInv(p)
  BY DEF ImportInv, TypeOK
<1>1. x.pc = "flush" /\ x.out = {} /\ x.todo = {} /\ x.list = {}
  BY <1>0 DEF PassDone, Flushing, ExecutionInv
<1>2. x.min \in Int /\ x.day \in Int /\ FirstDay <= x.day /\ x.day <= now
  BY <1>0, <1>1 DEF ExecutionInv, Execution
<1>3. \A e \in upstream : x.min <= e.created /\ e.created < x.day => e \in events \cup missed
  BY <1>0, <1>1 DEF ExecutionInv
<1>4. /\ floor' = IF x.min < floor THEN x.min ELSE floor
      /\ through' = IF x.day > through THEN x.day ELSE through
      /\ gaps' = (gaps \cup (through .. x.min - 1)) \ (x.min .. x.day - 1)
      /\ unlisted' = unlisted \ (x.min .. x.day - 1)
      /\ UNCHANGED <<now, upstream, events, missed, rowUntil>>
  BY DEF PassDone, github, state
<1>5. CalendarInv'
  BY <1>0, <1>2, <1>4, WindowAssumption DEF ImportInv, CalendarInv, TypeOK
<1>6. CoveredInv'
  <2> SUFFICES ASSUME NEW e \in upstream, floor' <= e.created, e.created < through',
                      e.created \notin gaps' \cup unlisted'
               PROVE  e \in events \cup missed
    BY <1>4 DEF CoveredInv
  <2>1. e.created \in Int /\ floor <= FirstDay /\ floor \in Int /\ through \in Int
    BY <1>0, ItemAssumption DEF TypeOK, ImportInv, CalendarInv
  <2>2. CASE x.min <= e.created /\ e.created < x.day
    BY <2>2, <1>3
  <2>3. CASE ~(x.min <= e.created /\ e.created < x.day)
    <3>1. e.created \notin x.min .. x.day - 1
      BY <2>1, <2>3, <1>2
    <3>2. e.created \notin gaps \cup unlisted /\ e.created \notin through .. x.min - 1
      BY <3>1, <1>4
    <3>3. floor <= e.created /\ e.created < through
      BY <2>1, <2>3, <3>2, <1>2, <1>4, WindowAssumption
    <3> QED BY <3>2, <3>3 DEF ImportInv, CoveredInv
  <2> QED BY <2>2, <2>3
<1>7. PICK r : Becomes(p, r) /\ r = [Idle EXCEPT
         !.pc = IF x.pass = "fresh" THEN "frontier" ELSE "advance",
         !.pass = x.pass, !.min = x.min, !.ok = TRUE]
  BY DEF PassDone
<1>8. ExecutionInv(p)'
  <2>1. ex'[p] = r
    BY <1>0, <1>7, BecomesAt
  <2>2. /\ r.pc \in {"frontier", "advance"} /\ r.ok = TRUE /\ r.min = x.min
        /\ r.seen = [t \in EventTypes |-> Null]
    BY <1>7 DEF Idle
  <2>3. floor' <= x.min
    BY <1>0, <1>2, <1>4 DEF TypeOK
  <2> QED BY <2>1, <2>2, <2>3 DEF ExecutionInv, Claimed
<1>9. FrontierInv'
  BY <1>4, FrontierKept DEF ImportInv
<1> QED BY <1>5, <1>6, <1>7, <1>8, <1>9, OneMoves DEF ImportInv

(* Steps that only start something, or give it up. *)
LEMMA ControlInv ==
  ASSUME ImportInv, TypeOK', Grows, NEW p \in Executions,
         \/ Begin(p) \/ MetaAndCheckSkip(p) \/ StartFresh(p) \/ LoadState(p)
         \/ ReadFrontier(p) \/ StartBackfill(p)
         \/ AtLimit(p) \/ PassFails(p) \/ Crash(p)
  PROVE  ImportInv'
<1> DEFINE x == ex[p]
<1>0. x \in Execution /\ TypeOK /\ ExecutionInv(p) /\ CalendarInv
  BY DEF ImportInv, TypeOK
<1>1. Steady /\ UNCHANGED rowUntil
  BY Zenon DEF Begin, MetaAndCheckSkip, StartFresh, LoadState, ReadFrontier, StartBackfill,
         AtLimit, PassFails, Crash, Steady, github, state, history
<1>2. ASSUME NEW c \in {"meta", "begin"}, Becomes(p, [x EXCEPT !.pc = c]) PROVE ImportInv'
  <2>1. ex'[p] = [x EXCEPT !.pc = c]
    BY <1>0, <1>2, BecomesAt
  <2>2. ex'[p].pc = c /\ ex'[p].min = x.min /\ ex'[p].ok = x.ok /\ ex'[p].seen = x.seen
    BY <1>0, <2>1 DEF Execution
  <2>3. \A t \in EventTypes : Claimed(ex[p].seen[t])'
    BY <1>0, <1>1, <2>2 DEF ExecutionInv, Claimed, Steady
  <2>4. ExecutionInv(p)'
    BY <1>0, <1>1, <2>2, <2>3 DEF ExecutionInv, Steady
  <2> QED BY <1>1, <1>2, <2>4, SteadyStep
<1>3. ASSUME Becomes(p, Idle) PROVE ImportInv'
  <2>1. ExecutionInv(p)'
    BY <1>0, <1>3, BecomesAt, IdleInv
  <2> QED BY <1>1, <1>3, <2>1, SteadyStep
<1>4. ASSUME NEW r, r.pc = "load", r.ok = FALSE,
             r.seen = [t \in EventTypes |-> Null], Becomes(p, r)
      PROVE  ImportInv'
  <2>1. ExecutionInv(p)'
    BY <1>0, <1>1, <1>4, BecomesAt, WindowInv DEF Steady
  <2> QED BY <1>1, <1>4, <2>1, SteadyStep
<1>5. CASE Begin(p) \/ MetaAndCheckSkip(p)
  BY <1>5, <1>2, <1>3 DEF Begin, MetaAndCheckSkip
<1>6. CASE AtLimit(p) \/ Crash(p)
  BY <1>6, <1>3 DEF AtLimit, Crash
<1>7. ASSUME NEW pass, NEW start, Window(p, pass, start)
      PROVE  ImportInv'
  BY <1>4, <1>7 DEF Window, Idle
<1>8. CASE StartFresh(p)
  BY <1>7, <1>8 DEF StartFresh
<1>9. CASE StartBackfill(p)
  BY <1>3, <1>7, <1>9 DEF StartBackfill
<1>10. CASE LoadState(p)
  <2>1. PICK since : Becomes(p, [x EXCEPT !.pc = "fetch", !.day = now,
                        !.todo = EventTypes, !.since = since, !.seen = rowUntil,
                        !.list = {}, !.out = {}, !.rows = {}])
    BY <1>10 DEF LoadState
  <2>2. ex'[p] = [x EXCEPT !.pc = "fetch", !.day = now,
                     !.todo = EventTypes, !.since = since, !.seen = rowUntil,
                     !.list = {}, !.out = {}, !.rows = {}]
    BY <2>1, <1>0, BecomesAt
  <2>3. /\ ex'[p].pc = "fetch" /\ ex'[p].day = now /\ ex'[p].todo = EventTypes
        /\ ex'[p].seen = rowUntil /\ ex'[p].min = x.min /\ ex'[p].ok = x.ok
    BY <2>2, <1>0 DEF Execution
  <2>4. FirstDay <= now
    BY <1>0, WindowAssumption DEF CalendarInv, TypeOK
  <2>5. \A t \in EventTypes : Claimed(ex[p].seen[t])'
    BY <2>3, <1>1 DEF ImportInv, FrontierInv, Claimed, Steady
  <2>6. \A e \in upstream : Lister(e) \in EventTypes
    BY <1>0, ItemAssumption DEF TypeOK
  <2>7. now \in Int
    BY <1>0 DEF TypeOK
  <2>8. ExecutionInv(p)'
    BY <1>0, <1>1, <2>3, <2>4, <2>5, <2>6, <2>7 DEF ExecutionInv, Steady
  <2> QED BY <1>1, <2>1, <2>8, SteadyStep
<1>11. CASE ReadFrontier(p)
  <2>1. ASSUME NEW u \in GetBackfillUntil, Becomes(p, [Idle EXCEPT !.pc = "gate", !.until = u])
        PROVE  ImportInv'
    <3>1. ex'[p] = [Idle EXCEPT !.pc = "gate", !.until = u]
      BY <1>0, <2>1, BecomesAt
    <3>3. ExecutionInv(p)'
      BY <1>1, <3>1 DEF ExecutionInv, Idle, Claimed, Steady
    <3> QED BY <1>1, <2>1, <3>3, SteadyStep
  <2>2. ASSUME Becomes(p, [x EXCEPT !.pc = "init"]) PROVE ImportInv'
    <3>1. ex'[p] = [x EXCEPT !.pc = "init"] /\ x.pc = "frontier"
      BY <1>0, <1>11, <2>2, BecomesAt DEF ReadFrontier
    <3>2. ex'[p].pc = "init" /\ ex'[p].min = x.min /\ ex'[p].ok = x.ok /\ ex'[p].seen = x.seen
      BY <1>0, <3>1 DEF Execution
    <3>3. \A t \in EventTypes : Claimed(ex[p].seen[t])'
      BY <1>0, <1>1, <3>2 DEF ExecutionInv, Claimed, Steady
    <3>4. ExecutionInv(p)'
      BY <1>0, <1>1, <3>1, <3>2, <3>3 DEF ExecutionInv, Steady
    <3> QED BY <1>1, <2>2, <3>4, SteadyStep
  <2> QED BY <1>11, <2>1, <2>2 DEF ReadFrontier
<1>12. CASE PassFails(p)
  <2>2. ASSUME Becomes(p, [Idle EXCEPT !.pc = "frontier", !.min = x.min]) PROVE ImportInv'
    <3>1. ex'[p] = [Idle EXCEPT !.pc = "frontier", !.min = x.min]
      BY <1>0, <2>2, BecomesAt
    <3>2. ExecutionInv(p)'
      BY <1>1, <3>1 DEF ExecutionInv, Idle, Claimed, Steady
    <3> QED BY <1>1, <2>2, <3>2, SteadyStep
  <2>3. ASSUME NEW pass, NEW n, Becomes(p, [Idle EXCEPT !.pc = "load", !.pass = pass,
                                             !.min = x.min, !.tries = n])
        PROVE  ImportInv'
    BY <2>3, <1>4 DEF Idle
  <2> QED BY <2>2, <2>3, <1>3, <1>12 DEF PassFails
<1> QED BY <1>5, <1>6, <1>8, <1>9, <1>10, <1>11, <1>12

(* SaveBackfillUntil moves every row to a claimed frontier. *)
LEMMA SaveInv ==
  ASSUME NEW d, SaveBackfillUntil(d), floor' <= d
  PROVE  FrontierInv'
  BY DEF SaveBackfillUntil, FrontierInv, Claimed

LEMMA FrontierStepInv ==
  ASSUME ImportInv, TypeOK', Grows, NEW p \in Executions,
         InitFrontier(p) \/ AdvanceFrontier(p)
  PROVE  ImportInv'
<1> DEFINE x == ex[p]
<1>0. x \in Execution /\ TypeOK /\ ExecutionInv(p) /\ CalendarInv
  BY DEF ImportInv, TypeOK
<1>1. x.min \in Int /\ (x.ok => floor <= x.min) /\ floor \in Int
  BY <1>0 DEF ExecutionInv, Execution, TypeOK
<1>2. CASE InitFrontier(p)
  <2>1. ex'[p] = [Idle EXCEPT !.pc = "gate", !.until = x.min]
        /\ Becomes(p, [Idle EXCEPT !.pc = "gate", !.until = x.min])
    BY <1>0, <1>2, BecomesAt DEF InitFrontier
  <2>2. UNCHANGED <<now, upstream, events, missed, through, gaps>>
    BY <1>2 DEF InitFrontier, github
  <2>3. ExecutionInv(p)'
    BY <2>1 DEF ExecutionInv, Idle, Claimed
  <2>4. CASE UNCHANGED <<floor, unlisted, rowUntil>>
    BY <2>1, <2>2, <2>3, <2>4, SteadyStep DEF Steady
  <2>5. CASE /\ SaveBackfillUntil(x.min)
             /\ floor' = IF x.min < floor THEN x.min ELSE floor
             /\ unlisted' = unlisted \cup (x.min .. floor - 1)
    <3>1. floor' <= x.min /\ floor' <= floor
      BY <2>5, <1>1
    <3>2. FrontierInv'
      BY <2>5, <3>1, SaveInv
    <3>3. CalendarInv'
      BY <1>0, <2>2, <2>5, <1>1, WindowAssumption DEF CalendarInv, TypeOK
    <3>4. CoveredInv'
      <4> SUFFICES ASSUME NEW e \in upstream, floor' <= e.created, e.created < through,
                          e.created \notin gaps \cup unlisted'
                   PROVE  e \in events \cup missed
        BY <2>2 DEF CoveredInv
      <4>1. e.created \in Int /\ e.created \notin unlisted /\ e.created \notin x.min .. floor - 1
        BY <1>0, <2>5, ItemAssumption DEF TypeOK
      <4>2. floor <= e.created
        BY <4>1, <2>5, <1>1
      <4> QED BY <4>1, <4>2 DEF ImportInv, CoveredInv
    <3> QED BY <2>1, <2>3, <3>2, <3>3, <3>4, OneMoves DEF ImportInv
  <2> QED BY <1>2, <2>4, <2>5 DEF InitFrontier, state
<1>3. CASE AdvanceFrontier(p)
  <2>1. Becomes(p, Idle) /\ x.ok
    BY <1>0, <1>3 DEF AdvanceFrontier, ExecutionInv
  <2>2. Steady
    BY <1>3 DEF AdvanceFrontier, Steady, github, history
  <2>3. ExecutionInv(p)'
    BY <1>0, <2>1, BecomesAt, IdleInv
  <2>4. FrontierInv'
    <3>1. CASE UNCHANGED rowUntil
      BY <3>1, FrontierKept DEF ImportInv
    <3>2. CASE SaveBackfillUntil(x.min)
      BY <3>2, <1>1, <2>1, <2>2, SaveInv DEF Steady
    <3> QED BY <1>3, <3>1, <3>2 DEF AdvanceFrontier, state
  <2> QED BY <1>0, <2>1, <2>2, <2>3, <2>4, SteadyKeeps, OneMoves DEF ImportInv
<1> QED BY <1>2, <1>3

LEMMA InitInv == Init => ImportInv
<1> SUFFICES ASSUME Init PROVE ImportInv
  OBVIOUS
<1>1. TypeOK
  BY InitType
<1>2. CalendarInv /\ CoveredInv
  BY ItemAssumption, WindowAssumption DEF Init, CalendarInv, CoveredInv
<1>3. FrontierInv
  BY DEF Init, FrontierInv, Claimed
<1>4. \A p \in Executions : ExecutionInv(p)
  BY DEF Init, ExecutionInv, Idle, Claimed
<1> QED BY <1>1, <1>2, <1>3, <1>4 DEF ImportInv

LEMMA StepInv ==
  ASSUME ImportInv, [Next]_vars
  PROVE  ImportInv'
<1>0. TypeOK' /\ Grows
  BY TypeStep, StepGrows DEF ImportInv
<1>1. CASE UNCHANGED vars
  BY <1>1 DEF vars, github, state, history, ImportInv, TypeOK, CalendarInv, CoveredInv,
              FrontierInv, Claimed, ExecutionInv
<1>2. CASE Environment
  BY <1>0, <1>2, EnvironmentInv
<1>3. ASSUME NEW p \in Executions, Work(p) PROVE ImportInv'
  BY <1>0, <1>3, ControlInv, FetchInv, FlushInv, FlushStateInv, PassDoneInv, FrontierStepInv
  DEF Work
<1>4. ASSUME NEW p \in Executions, Trouble(p) PROVE ImportInv'
  <2>1. CASE ReviewsFail(p)
    <3>1. "pr" \in EventTypes
      BY <2>1 DEF ReviewsFail, Listing, ImportInv, TypeOK, Execution
    <3> QED BY <1>0, <2>1, <3>1, FetchTroubleInv
  <2> QED BY <1>0, <1>4, <2>1, ControlInv, FetchTroubleInv DEF Trouble
<1> QED BY <1>1, <1>2, <1>3, <1>4 DEF Next

(* For every number of executions, of items and of days, and with no        *)
(* assumption on when imports run: a stored backfill_until never claims a   *)
(* day that a completed pass has not accounted for, whatever crashes,       *)
(* errors, resets and overlaps happen, except the days passed over between  *)
(* two passes and the window of a failed first pass that no pass has listed *)
(* since.                                                                   *)
THEOREM FrontierTheorem == Spec => []FrontierSound
<1>1. ImportInv => FrontierSound
  <2> SUFFICES ASSUME ImportInv, NEW t \in EventTypes, rowUntil[t] # Null,
                      NEW e \in upstream, rowUntil[t] <= e.created, e.created < through,
                      e.created \notin gaps \cup unlisted
               PROVE  e \in events \cup missed
    BY DEF FrontierSound
  <2>1. rowUntil[t] \in Int /\ e.created \in Int /\ floor \in Int /\ floor <= rowUntil[t]
    BY ItemAssumption DEF ImportInv, TypeOK, Stored, FrontierInv, Claimed
  <2> QED BY <2>1 DEF ImportInv, CoveredInv
<1> QED BY <1>1, InitInv, StepInv, PTL DEF Spec

-----------------------------------------------------------------------------
(* Without API and database errors. *)

(* A completed listing holds every pull request and fork of the window. *)
LEMMA ListedComplete ==
  ASSUME TypeOK, NEW p \in Executions, NEW t \in EventTypes, NEW cut \in Int,
         cut <= ex[p].min, NEW e \in Wanted(p, t), e.kind \in Windowable
  PROVE  e \in Listed(p, t, cut)
<1>1. e \in upstream /\ e \in Items /\ Lister(e) = t /\ e.created >= ex[p].min
  BY DEF Wanted, TypeOK
<1>2. e.created \in Int /\ e.opened \in Int /\ ex[p].min \in Int /\ e.opened = e.created
  BY <1>1, ItemAssumption DEF Windowable, TypeOK, Execution
<1>3. t \notin SinceTypes
  BY <1>1 DEF Windowable, Lister, SinceTypes
<1> QED BY <1>1, <1>2, <1>3 DEF Listed

LEMMA NoErrorStep ==
  ASSUME Adversity \cap {"api", "db"} = {}, ImportInv, NoErrorInv, [Next]_vars
  PROVE  NoErrorInv'
<1> DEFINE Sound(r) == r.pc \in {"frontier", "init"} => r.ok
           Filtered == unlisted = {} /\ \A e \in missed : e.kind \notin Windowable
<1>0. Filtered /\ (\A q \in Executions : Sound(ex[q])) /\ TypeOK
  BY DEF NoErrorInv, ImportInv
<1>1. ~Adverse("api") /\ ~Adverse("db")
  BY DEF Adverse
<1>2. SUFFICES (\A q \in Executions : Sound(ex'[q])) /\ Filtered'
  BY DEF NoErrorInv
<1> HIDE DEF Sound
<1>3. ASSUME NEW p \in Executions, NEW r, Becomes(p, r), Sound(r)
      PROVE  \A q \in Executions : Sound(ex'[q])
  BY <1>0, <1>3, BecomesAt
<1>4. CASE UNCHANGED vars
  BY <1>0, <1>4 DEF vars, history
<1>5. CASE Environment
  BY <1>0, <1>5 DEF Environment, Tick, Push, HardResetRepo, Arrive, Touch, history
<1>6. ASSUME NEW p \in Executions, Work(p)
      PROVE  (\A q \in Executions : Sound(ex'[q])) /\ Filtered'
  <2> DEFINE x == ex[p]
  <2>0. x \in Execution /\ Sound(Idle) /\ TypeOK
    BY <1>0 DEF TypeOK, Sound, Idle
  <2>1. CASE UNCHANGED missed /\ unlisted' = {}
    <3>1. PICK r : Becomes(p, r) /\ Sound(r)
      <4>1. CASE \/ Begin(p) \/ MetaAndCheckSkip(p) \/ StartFresh(p) \/ LoadState(p)
                 \/ StartBackfill(p) \/ AdvanceFrontier(p) \/ InitFrontier(p)
        <5>1. \A c \in {"meta", "begin"} : Sound([x EXCEPT !.pc = c])
          BY <2>0 DEF Sound, Execution
        <5>2. \A pass, start : Sound([Idle EXCEPT !.pc = "load", !.pass = pass, !.min = start])
          BY DEF Sound, Idle
        <5>3. Sound([Idle EXCEPT !.pc = "gate", !.until = x.min])
          BY DEF Sound, Idle
        <5>4. Sound([x EXCEPT !.pc = "fetch", !.day = now, !.todo = EventTypes,
               !.since = [t \in EventTypes |-> ClampedSince(rowSince[t], x.min)],
               !.seen = rowUntil, !.list = {}, !.out = {}, !.rows = {}])
          BY <2>0 DEF Sound, Execution
        <5> QED
          BY <4>1, <5>1, <5>2, <5>3, <5>4, <2>0
          DEF Begin, MetaAndCheckSkip, StartFresh, LoadState, StartBackfill, AdvanceFrontier,
              InitFrontier, Window
      <4>2. ASSUME NEW t \in EventTypes, FetchItem(p, t) \/ Fetch(p, t) \/ FlushState(p, t)
            PROVE  \E r : Becomes(p, r) /\ Sound(r)
        <5>1. \A d, l : Sound([x EXCEPT !.todo = d, !.list = l])
          BY <2>0, <1>0 DEF Sound, Execution
        <5>2. \A l : Sound([x EXCEPT !.list = l]) /\ Sound([x EXCEPT !.rows = l])
          BY <2>0, <1>0 DEF Sound, Execution
        <5> QED BY <4>2, <5>1, <5>2, Zenon DEF FetchItem, Fetch, FlushState
      <4>3. CASE MidFlush(p) \/ FinalFlush(p) \/ FlushBatch(p)
        <5>1. Sound(TakeList(x)) /\ Sound([TakeList(x) EXCEPT !.pc = "flush"])
          BY <2>0, <1>0 DEF Sound, Execution, TakeList
        <5>2. \A l : Sound([x EXCEPT !.out = l])
          BY <2>0, <1>0 DEF Sound, Execution
        <5> QED BY <4>3, <5>1, <5>2, Zenon DEF MidFlush, FinalFlush, FlushBatch
      <4>4. CASE PassDone(p)
        <5>1. \A c, pass, m :
                Sound([Idle EXCEPT !.pc = c, !.pass = pass, !.min = m, !.ok = TRUE])
          BY DEF Sound, Idle
        <5> QED BY <4>4, <5>1, Zenon DEF PassDone
      <4>5. CASE ReadFrontier(p)
        <5>1. \A u : Sound([Idle EXCEPT !.pc = "gate", !.until = u])
          BY DEF Sound, Idle
        <5>2. Sound([x EXCEPT !.pc = "init"])
          BY <4>5, <2>0, <1>0 DEF ReadFrontier, Sound, Execution
        <5> QED BY <4>5, <5>1, <5>2, Zenon DEF ReadFrontier
      <4> QED BY <1>6, <4>1, <4>2, <4>3, <4>4, <4>5 DEF Work
    <3> QED BY <2>1, <3>1, <1>0, <1>3
  <2>2. ASSUME NEW t \in EventTypes, Fetch(p, t)
        PROVE  (\A q \in Executions : Sound(ex'[q])) /\ Filtered'
    <3>0. PICK cut \in {e.created : e \in upstream} \cup {x.min} :
                     /\ cut <= x.min
                     /\ Becomes(p, [x EXCEPT !.todo = @ \ {t},
                                             !.list = @ \cup Listed(p, t, cut)])
                     /\ missed' = missed \cup (Wanted(p, t) \ Listed(p, t, cut))
      BY <2>2, Zenon DEF Fetch
    <3>1. cut \in Int
      BY <2>0, ItemAssumption DEF TypeOK, Execution
    <3>2. Sound([x EXCEPT !.todo = @ \ {t}, !.list = @ \cup Listed(p, t, cut)])
      BY <2>0, <1>0 DEF Sound, Execution
    <3>3. Filtered'
      BY <3>0, <3>1, <1>0, <2>2, ListedComplete DEF Fetch
    <3> QED BY <3>0, <3>2, <3>3, <1>3
  <2>3. CASE InitFrontier(p)
    <3>1. x.ok
      BY <2>3, <1>0 DEF InitFrontier, Sound
    <3>2. floor <= x.min /\ floor \in Int /\ x.min \in Int
      BY <3>1, <2>0 DEF ImportInv, ExecutionInv, TypeOK, Execution
    <3>3. x.min .. floor - 1 = {}
      BY <3>2
    <3>4. unlisted' = unlisted \cup (x.min .. floor - 1) /\ UNCHANGED missed
      BY <2>3, <1>1, Zenon DEF InitFrontier
    <3> QED BY <2>1, <1>0, <3>3, <3>4
  <2>4. CASE PassDone(p)
    BY <2>1, <2>4, <1>0 DEF PassDone
  <2> QED BY <1>0, <1>6, <2>1, <2>2, <2>3, <2>4, Zenon
      DEF Work, Begin, MetaAndCheckSkip, StartFresh, LoadState, FetchItem, FlushState, MidFlush,
          FinalFlush, FlushBatch, ReadFrontier, StartBackfill, AdvanceFrontier, history
<1>7. ASSUME NEW p \in Executions, Trouble(p)
      PROVE  (\A q \in Executions : Sound(ex'[q])) /\ Filtered'
  <2>1. Sound(Idle)
    BY DEF Sound, Idle
  <2>2. CASE AtLimit(p) \/ Crash(p)
    BY <2>1, <2>2, <1>0, <1>3 DEF AtLimit, Crash, history
  <2> QED BY <1>1, <1>7, <2>2, Zenon
      DEF Trouble, ReviewsFail, PassFails, FetchFails, MidFlushFails
<1> QED BY <1>4, <1>5, <1>6, <1>7 DEF Next

(* For every instance without API and database errors, and with no          *)
(* assumption on when imports run: every pull request and fork of the days  *)
(* a stored backfill_until claims is in devpulse_event, whatever executions *)
(* overlap, are killed or meet a hard reset, unless no fresh window reached *)
(* its day.                                                                 *)
THEOREM WindowedHistoryTheorem == Spec => []WindowedHistoryComplete
<1>1. CASE Adversity \cap {"api", "db"} # {}
  <2>1. WindowedHistoryComplete
    BY <1>1 DEF WindowedHistoryComplete
  <2> QED BY <2>1, PTL
<1>2. CASE Adversity \cap {"api", "db"} = {}
  <2>1. Init => NoErrorInv
    BY DEF Init, NoErrorInv, Idle
  <2>2. ImportInv /\ NoErrorInv /\ [Next]_vars => ImportInv' /\ NoErrorInv'
    BY <1>2, StepInv, NoErrorStep DEF ImportInv
  <2>3. ImportInv /\ NoErrorInv => WindowedHistoryComplete
    <3> SUFFICES ASSUME ImportInv, NoErrorInv, NEW t \in EventTypes, rowUntil[t] # Null,
                        NEW e \in upstream, rowUntil[t] <= e.created, e.created < through,
                        e.created \notin gaps, e.kind \in Windowable
                 PROVE  e \in events
      BY DEF WindowedHistoryComplete
    <3>1. rowUntil[t] \in Int /\ e.created \in Int /\ floor \in Int /\ floor <= rowUntil[t]
      BY ItemAssumption DEF ImportInv, TypeOK, Stored, FrontierInv, Claimed
    <3> QED BY <3>1, <1>2 DEF ImportInv, CoveredInv, NoErrorInv
  <2> QED BY <2>1, <2>2, <2>3, InitInv, PTL DEF Spec
<1> QED BY <1>1, <1>2

-----------------------------------------------------------------------------
(* One execution at a time, and no hard reset. *)

Serial == \A p, q \in Executions : p = q

(* A step that leaves the state rows alone and brings the one execution to  *)
(* record r keeps the invariant if r does.                                  *)
LEMMA DepthMoves ==
  ASSUME Serial, TypeOK, DepthInv, NEW p \in Executions, NEW r, Becomes(p, r),
         UNCHANGED <<rowSince, rowUntil, unread>>, DepthOf(r, p \notin unread)
  PROVE  DepthInv'
<1>1. \A q \in Executions : q = p /\ ex'[q] = r
  BY BecomesAt DEF Serial
<1> QED BY <1>1 DEF DepthInv, DepthOf, Deepest

(* A set of days without a first one still has none when one day is taken   *)
(* out.                                                                     *)
NoFirst(S) == \A u \in S : \E v \in S : v < u

LEMMA NoFirstWithout ==
  ASSUME NEW S \in SUBSET Int, NEW a, NoFirst(S)
  PROVE  NoFirst(S \ {a})
<1> SUFFICES ASSUME NEW u \in S \ {a} PROVE \E v \in S \ {a} : v < u
  BY DEF NoFirst
<1>1. PICK v \in S : v < u
  BY DEF NoFirst
<1>2. CASE v = a
  <2>1. PICK w \in S : w < v
    BY DEF NoFirst
  <2> QED BY <1>1, <1>2, <2>1
<1> QED BY <1>1, <1>2

(* The frontier is read as NULL only when no row has one: there are at most *)
(* five event types, so the stored frontiers have a minimum.                *)
LEMMA NoFrontier ==
  ASSUME TypeOK, GetBackfillUntil = {}
  PROVE  \A t \in EventTypes : rowUntil[t] = Null
<1> DEFINE s0 == {rowUntil[t] : t \in EventTypes} \ {Null}
           s1 == s0 \ {rowUntil["pr_review"]}
           s2 == s1 \ {rowUntil["issue"]}
           s3 == s2 \ {rowUntil["issue_comment"]}
           s4 == s3 \ {rowUntil["pr"]}
           s5 == s4 \ {rowUntil["fork"]}
<1>1. s0 \in SUBSET Int /\ NoFirst(s0)
  BY DEF TypeOK, Stored, GetBackfillUntil, NoFirst
<1>2. s5 = {}
  BY TypesAssumption DEF SinceTypes
<1> HIDE DEF s0
<1>3. s1 \in SUBSET Int /\ NoFirst(s1)
  BY <1>1, NoFirstWithout
<1> HIDE DEF s1
<1>4. s2 \in SUBSET Int /\ NoFirst(s2)
  BY <1>3, NoFirstWithout
<1> HIDE DEF s2
<1>5. s3 \in SUBSET Int /\ NoFirst(s3)
  BY <1>4, NoFirstWithout
<1> HIDE DEF s3
<1>6. s4 \in SUBSET Int /\ NoFirst(s4)
  BY <1>5, NoFirstWithout
<1> HIDE DEF s4
(* A set with at most one element, and no first, is empty. *)
<1>7. s4 = {}
  BY <1>2, <1>6 DEF NoFirst, s4
<1>8. s3 = {}
  BY <1>5, <1>7 DEF NoFirst, s4
<1>9. s2 = {}
  BY <1>4, <1>8 DEF NoFirst, s3
<1>10. s1 = {}
  BY <1>3, <1>9 DEF NoFirst, s2
<1>11. s0 = {}
  BY <1>1, <1>10 DEF NoFirst, s1
<1> QED BY <1>11 DEF s0

(* SaveBackfillUntil makes d the only frontier stored, and clears none. *)
LEMMA SaveDepth ==
  ASSUME NEW d \in Int, SaveBackfillUntil(d),
         \A t \in EventTypes : rowUntil[t] # Null => rowSince[t] # Null
  PROVE  /\ \A t \in EventTypes : (rowUntil[t] # Null => rowSince[t] # Null)'
         /\ \A t \in EventTypes : rowUntil[t] # Null => rowUntil'[t] = d
         /\ \A t \in EventTypes : rowUntil'[t] # Null => d <= rowUntil'[t]
  BY DEF SaveBackfillUntil

(* What the steps of one execution do to the invariant and to the frontier. *)
Deeper ==
  \A t \in EventTypes : rowUntil[t] # Null => rowUntil'[t] # Null /\ rowUntil'[t] <= rowUntil[t]

LEMMA UntouchedDeeper ==
  ASSUME TypeOK, UNCHANGED rowUntil
  PROVE  Deeper
  BY DEF TypeOK, Stored, Deeper

(* Steps that leave the state rows alone. *)
LEMMA DepthControl ==
  ASSUME Serial, TypeOK, DepthInv, NEW p \in Executions,
         \/ MetaAndCheckSkip(p) \/ StartFresh(p) \/ LoadState(p) \/ StartBackfill(p)
         \/ PassDone(p) \/ AtLimit(p) \/ PassFails(p) \/ Crash(p)
  PROVE  DepthInv'
<1> DEFINE x == ex[p]
           aware == p \notin unread
<1>0. x \in Execution /\ DepthOf(x, aware)
  BY DEF TypeOK, DepthInv
<1>1. UNCHANGED <<rowSince, rowUntil, unread>>
  BY DEF MetaAndCheckSkip, StartFresh, LoadState, StartBackfill, PassDone, AtLimit, PassFails,
         Crash, state, history
<1>2. SUFFICES \E r : Becomes(p, r) /\ DepthOf(r, aware)
  BY <1>1, DepthMoves
<1>3. DepthOf(Idle, aware)
  BY DEF DepthOf, Idle, Windowed
<1>4. CASE MetaAndCheckSkip(p)
  <2>1. DepthOf([x EXCEPT !.pc = "begin"], aware)
    BY <1>0, <1>4 DEF MetaAndCheckSkip, DepthOf, Windowed, Execution
  <2> QED BY <1>3, <1>4, <2>1, Zenon DEF MetaAndCheckSkip
<1>5. CASE StartFresh(p)
  <2>1. DepthOf([Idle EXCEPT !.pc = "load", !.pass = "fresh", !.min = now - FreshDays], aware)
    BY DEF DepthOf, Idle
  <2> QED BY <1>5, <2>1 DEF StartFresh, Window
<1>6. CASE LoadState(p)
  <2>1. DepthOf([x EXCEPT !.pc = "fetch", !.day = now, !.todo = EventTypes,
                   !.since = [t \in EventTypes |-> ClampedSince(rowSince[t], x.min)],
                   !.seen = rowUntil, !.list = {}, !.out = {}, !.rows = {}], aware)
    BY <1>0, <1>6 DEF LoadState, DepthOf, Windowed, Execution
  <2> QED BY <1>6, <2>1 DEF LoadState
<1>7. CASE StartBackfill(p)
  <2> DEFINE start == ChunkStart(x.until, now - TargetDays)
  <2>1. CASE x.until > now - TargetDays
    <3>1. start \in Int /\ start <= x.until /\ x.until \in Int
      BY <1>0, <2>1, WindowAssumption DEF ChunkStart, TypeOK, Execution
    <3>2. aware => Deepest(start)
      BY <1>0, <1>7, <3>1 DEF StartBackfill, DepthOf, Deepest, TypeOK, Stored
    <3> HIDE DEF start
    <3>3. DepthOf([Idle EXCEPT !.pc = "load", !.pass = "backfill", !.min = start], aware)
      BY <3>2 DEF DepthOf, Idle
    <3> QED BY <1>7, <2>1, <3>3 DEF StartBackfill, Window, start
  <2> QED BY <1>3, <1>7, <2>1 DEF StartBackfill
<1>8. CASE PassDone(p)
  <2> DEFINE r == [Idle EXCEPT !.pc = IF x.pass = "fresh" THEN "frontier" ELSE "advance",
                               !.pass = x.pass, !.min = x.min, !.ok = TRUE]
  <2>1. DepthOf(r, aware)
    BY <1>0, <1>8 DEF PassDone, DepthOf, Idle, Windowed, Execution
  <2> QED BY <1>8, <2>1 DEF PassDone
<1>9. CASE AtLimit(p) \/ Crash(p)
  BY <1>3, <1>9 DEF AtLimit, Crash
<1>10. CASE PassFails(p)
  <2>1. \A n : DepthOf([Idle EXCEPT !.pc = "load", !.pass = x.pass, !.min = x.min,
                                    !.tries = n], aware)
    BY <1>0, <1>10 DEF PassFails, DepthOf, Idle, Windowed
  <2>2. DepthOf([Idle EXCEPT !.pc = "frontier", !.min = x.min], aware)
    BY DEF DepthOf, Idle
  <2>3. CASE x.pass = "fresh"
    BY <1>10, <2>1, <2>2, <2>3, Zenon DEF PassFails
  <2>4. CASE x.pass # "fresh"
    BY <1>3, <1>10, <2>1, <2>4, Zenon DEF PassFails
  <2> QED BY <2>3, <2>4
<1> QED BY <1>4, <1>5, <1>6, <1>7, <1>8, <1>9, <1>10

(* The listings and the event transactions of a pass. *)
LEMMA DepthFetch ==
  ASSUME Serial, TypeOK, DepthInv, NEW p \in Executions,
         \/ MidFlush(p) \/ FinalFlush(p) \/ FlushBatch(p) \/ ReviewsFail(p)
         \/ \E t \in EventTypes :
              FetchItem(p, t) \/ Fetch(p, t) \/ FetchFails(p, t) \/ MidFlushFails(p, t)
  PROVE  DepthInv'
<1> DEFINE x == ex[p]
           aware == p \notin unread
           SameBut(r) == /\ r.pc = x.pc /\ r.pass = x.pass /\ r.min = x.min /\ r.seen = x.seen
                         /\ r.until = x.until /\ (r.rows = x.rows \/ r.pc \in {"fetch", "flush"})
<1>0. x \in Execution /\ DepthOf(x, aware)
  BY DEF TypeOK, DepthInv
<1>1. UNCHANGED <<rowSince, rowUntil, unread>>
  <2>1. CASE MidFlush(p) \/ FinalFlush(p) \/ FlushBatch(p) \/ ReviewsFail(p)
    BY <2>1, Zenon DEF MidFlush, FinalFlush, FlushBatch, ReviewsFail, state, history
  <2>2. ASSUME NEW t \in EventTypes,
               FetchItem(p, t) \/ Fetch(p, t) \/ FetchFails(p, t) \/ MidFlushFails(p, t)
        PROVE  UNCHANGED <<rowSince, rowUntil, unread>>
    BY <2>2, Zenon DEF FetchItem, Fetch, FetchFails, MidFlushFails, state, history
  <2> QED BY <2>1, <2>2
<1>2. SUFFICES \E r : Becomes(p, r) /\ DepthOf(r, aware)
  BY <1>1, DepthMoves
<1>3. ASSUME NEW r, SameBut(r) PROVE DepthOf(r, aware)
  BY <1>0, <1>3 DEF DepthOf
<1>4. CASE MidFlush(p)
  <2>1. SameBut(TakeList(x))
    BY <1>0, <1>4 DEF MidFlush, TakeList, Execution
  <2> QED BY <1>3, <1>4, <2>1 DEF MidFlush
<1>5. CASE FinalFlush(p)
  <2>1. DepthOf([TakeList(x) EXCEPT !.pc = "flush"], aware)
    BY <1>0, <1>5 DEF FinalFlush, TakeList, DepthOf, Windowed, Execution
  <2> QED BY <1>5, <2>1 DEF FinalFlush
<1>6. \A a : SameBut([x EXCEPT !.out = a]) /\ SameBut([x EXCEPT !.list = a])
             /\ SameBut([x EXCEPT !.todo = a])
  BY <1>0 DEF Execution
<1>7. \A a, b : SameBut([x EXCEPT !.todo = a, !.list = b])
  BY <1>0 DEF Execution
<1>12. x.pc = "fetch" => \A a : SameBut([x EXCEPT !.todo = a, !.out = {}, !.rows = {}])
  BY <1>0 DEF Execution
<1> HIDE DEF SameBut
<1>8. CASE FlushBatch(p)
  BY <1>3, <1>6, <1>8, Zenon DEF FlushBatch
<1>9. CASE ReviewsFail(p)
  BY <1>3, <1>7, <1>9, Zenon DEF ReviewsFail
<1>10. ASSUME NEW t \in EventTypes, FetchItem(p, t) \/ Fetch(p, t) \/ FetchFails(p, t)
       PROVE  \E r : Becomes(p, r) /\ DepthOf(r, aware)
  BY <1>3, <1>6, <1>7, <1>10, Zenon DEF FetchItem, Fetch, FetchFails
<1>11. ASSUME NEW t \in EventTypes, MidFlushFails(p, t)
       PROVE  \E r : Becomes(p, r) /\ DepthOf(r, aware)
  BY <1>3, <1>11, <1>12, Zenon DEF MidFlushFails
<1> QED BY <1>4, <1>5, <1>8, <1>9, <1>10, <1>11

(* Begin forgets a failed read; ReadFrontier finds the oldest frontier, or   *)
(* none, or fails.                                                          *)
LEMMA DepthRead ==
  ASSUME Serial, TypeOK, DepthInv, NEW p \in Executions, Begin(p) \/ ReadFrontier(p)
  PROVE  DepthInv'
<1> DEFINE x == ex[p]
<1>0. x \in Execution /\ DepthOf(x, p \notin unread)
  BY DEF TypeOK, DepthInv
<1>1. UNCHANGED <<rowSince, rowUntil>>
  BY Zenon DEF Begin, ReadFrontier, state
<1>2. ASSUME NEW r, Becomes(p, r), DepthOf(r, p \notin unread') PROVE DepthInv'
  <2>1. \A q \in Executions : q = p /\ ex'[q] = r
    BY <1>2, BecomesAt DEF Serial
  <2> QED BY <1>1, <1>2, <2>1 DEF DepthInv, DepthOf, Deepest
<1>3. CASE Begin(p)
  <2>1. \A aware : DepthOf([x EXCEPT !.pc = "meta"], aware)
    BY <1>0, <1>3 DEF Begin, DepthOf, Windowed, Execution
  <2> QED BY <1>2, <1>3, <2>1 DEF Begin
<1>4. CASE ReadFrontier(p)
  <2>1. ASSUME NEW u \in GetBackfillUntil
        PROVE  \A aware : DepthOf([Idle EXCEPT !.pc = "gate", !.until = u], aware)
    <3>1. Deepest(u)
      BY DEF Deepest, GetBackfillUntil
    <3> QED BY <3>1 DEF DepthOf, Idle, Windowed
  <2>2. x.pc = "frontier" /\ x.rows = {}
    <3>1. x.pc = "frontier"
      BY <1>4, Zenon DEF ReadFrontier
    <3> QED BY <1>0, <3>1 DEF DepthOf
  <2>3. GetBackfillUntil = {} => DepthOf([x EXCEPT !.pc = "init"], p \notin unread)
    BY <1>0, <2>2, NoFrontier DEF DepthOf, Windowed, Execution
  <2>4. DepthOf([x EXCEPT !.pc = "init"], FALSE)
    BY <1>0, <2>2 DEF DepthOf, Execution
  <2>5. CASE \E u \in GetBackfillUntil : Becomes(p, [Idle EXCEPT !.pc = "gate", !.until = u])
    BY <1>2, <2>1, <2>5, Zenon
  <2>6. CASE GetBackfillUntil = {} /\ Becomes(p, [x EXCEPT !.pc = "init"]) /\ UNCHANGED unread
    BY <1>2, <2>3, <2>6
  <2>7. CASE Becomes(p, [x EXCEPT !.pc = "init"]) /\ unread' = unread \cup {p}
    <3>1. (p \notin unread') = FALSE
      BY <2>7
    <3> QED BY <1>2, <2>4, <2>7, <3>1
  <2> QED BY <1>4, <2>5, <2>6, <2>7, Zenon DEF ReadFrontier
<1> QED BY <1>3, <1>4

(* The writes of devpulse_state: a flush stores what the pass has loaded, a  *)
(* chunk moves the frontier back, and runFreshPass initialises it only when *)
(* there is none - unless the frontier could not be read.                   *)
LEMMA DepthWrite ==
  ASSUME Serial, TypeOK, DepthInv, NEW p \in Executions,
         \/ InitFrontier(p) \/ AdvanceFrontier(p)
         \/ \E t \in EventTypes : FlushState(p, t)
  PROVE  /\ DepthInv'
         /\ Deeper \/ (p \in unread /\ ex[p].pc \in {"init", "advance"})
<1> DEFINE x == ex[p]
           aware == p \notin unread
<1>0. x \in Execution /\ x.min \in Int /\ DepthOf(x, aware)
  BY DEF TypeOK, DepthInv, Execution
<1>1. ASSUME NEW r, Becomes(p, r) PROVE \A q \in Executions : q = p /\ ex'[q] = r
  BY <1>1, BecomesAt DEF Serial
<1>2. \A t \in EventTypes : rowUntil[t] # Null => rowSince[t] # Null
  BY DEF DepthInv
<1>3. CASE InitFrontier(p)
  <2> DEFINE r == [Idle EXCEPT !.pc = "gate", !.until = x.min]
  <2>1. Becomes(p, r) /\ unread' = unread
    BY <1>3 DEF InitFrontier
  <2>2. aware => \A t \in EventTypes : rowUntil[t] = Null
    BY <1>0, <1>3 DEF InitFrontier, DepthOf
  <2>3. \A t \in EventTypes : (rowUntil[t] # Null => rowSince[t] # Null)'
    BY <1>0, <1>2, <1>3, SaveDepth DEF InitFrontier, state
  <2>4. aware => \A t \in EventTypes : rowUntil'[t] # Null => x.min <= rowUntil'[t]
    <3>1. CASE SaveBackfillUntil(x.min)
      BY <1>0, <1>2, <3>1, SaveDepth
    <3>2. CASE UNCHANGED rowUntil
      BY <2>2, <3>2
    <3> QED BY <1>3, <3>1, <3>2 DEF InitFrontier, state
  <2>5. ex'[p] = r
    BY <1>1, <2>1
  <2>6. DepthOf(ex[p], p \notin unread)'
    BY <2>1, <2>4, <2>5 DEF DepthOf, Idle, Windowed, Deepest
  <2>7. DepthInv'
    BY <2>3, <2>6 DEF DepthInv, Serial
  <2> QED BY <1>3, <2>2, <2>7 DEF Deeper, InitFrontier
<1>4. CASE AdvanceFrontier(p)
  <2>1. Becomes(p, Idle) /\ unread' = unread
    BY <1>4 DEF AdvanceFrontier, history
  <2>2. aware => Deepest(x.min)
    BY <1>0, <1>4 DEF AdvanceFrontier, DepthOf, Windowed
  <2>3. \A t \in EventTypes : (rowUntil[t] # Null => rowSince[t] # Null)'
    BY <1>0, <1>2, <1>4, SaveDepth DEF AdvanceFrontier, state
  <2>4. DepthInv'
    BY <1>1, <2>1, <2>3 DEF DepthInv, DepthOf, Idle, Windowed
  <2>5. aware => Deeper
    <3>1. CASE SaveBackfillUntil(x.min)
      BY <1>0, <1>2, <2>2, <3>1, SaveDepth, TypesAssumption DEF Deepest, Deeper
    <3>2. CASE UNCHANGED rowUntil
      BY <3>2, UntouchedDeeper
    <3> QED BY <1>4, <3>1, <3>2 DEF AdvanceFrontier, state
  <2> QED BY <1>4, <2>4, <2>5 DEF AdvanceFrontier
<1>5. ASSUME NEW t \in EventTypes, FlushState(p, t) PROVE DepthInv' /\ Deeper
  <2> DEFINE r == [x EXCEPT !.rows = @ \ {t}]
  <2>1. Becomes(p, r) /\ unread' = unread
    BY <1>5 DEF FlushState, history
  <2>2. x.pc \in {"fetch", "flush"} /\ x.seen = rowUntil
    BY <1>0, <1>5 DEF FlushState, DepthOf
  <2>3. UNCHANGED rowUntil
    BY <1>5, <2>2 DEF FlushState, TypeOK
  <2>4. \A u \in EventTypes : (rowUntil[u] # Null => rowSince[u] # Null)'
    <3>1. x.since[t] # Null
      BY <1>0, TypesAssumption DEF Execution
    <3> QED BY <1>2, <1>5, <2>3, <3>1 DEF FlushState, TypeOK
  <2>5. DepthOf(r, aware)
    BY <1>0, <2>2 DEF DepthOf, Execution
  <2>6. ex'[p] = r
    BY <1>1, <2>1
  <2>7. DepthOf(ex[p], p \notin unread)'
    BY <2>1, <2>3, <2>5, <2>6 DEF DepthOf, Deepest
  <2>8. DepthInv'
    BY <2>4, <2>7 DEF DepthInv, Serial
  <2> QED BY <2>3, <2>8, UntouchedDeeper
<1> QED BY <1>3, <1>4, <1>5

(* Every step of one execution keeps the invariant; it leaves the stored    *)
(* frontier where it is or moves it back, or the frontier could not be read. *)
LEMMA DepthStep ==
  ASSUME Serial, "reset" \notin Adversity, TypeOK, DepthInv, [Next]_vars
  PROVE  /\ DepthInv'
         /\ Deeper \/ \E p \in unread : ex[p].pc \in {"init", "advance"}
<1>1. CASE UNCHANGED vars
  <2>1. UNCHANGED <<rowSince, rowUntil, ex, unread>>
    BY <1>1 DEF vars, state, history
  <2> QED BY <2>1, UntouchedDeeper DEF DepthInv, DepthOf, Deepest
<1>2. CASE Environment
  <2>1. UNCHANGED <<rowSince, rowUntil, ex, unread>>
    BY <1>2 DEF Environment, Tick, Push, HardResetRepo, Adverse, Arrive, Touch, state, history
  <2> QED BY <2>1, UntouchedDeeper DEF DepthInv, DepthOf, Deepest
<1>3. ASSUME NEW p \in Executions, Work(p)
      PROVE  DepthInv' /\ (Deeper \/ \E q \in unread : ex[q].pc \in {"init", "advance"})
  <2>1. CASE InitFrontier(p) \/ AdvanceFrontier(p) \/ \E t \in EventTypes : FlushState(p, t)
    BY <2>1, DepthWrite
  <2>2. CASE ~(InitFrontier(p) \/ AdvanceFrontier(p) \/ \E t \in EventTypes : FlushState(p, t))
    <3>1. DepthInv'
      BY <1>3, <2>2, DepthControl, DepthFetch, DepthRead DEF Work
    <3>2. UNCHANGED rowUntil
      BY <1>3, <2>2, Zenon
      DEF Work, Begin, MetaAndCheckSkip, StartFresh, LoadState, FetchItem, Fetch, MidFlush,
          FinalFlush, FlushBatch, PassDone, ReadFrontier, StartBackfill, state
    <3> QED BY <3>1, <3>2, UntouchedDeeper
  <2> QED BY <2>1, <2>2
<1>4. ASSUME NEW p \in Executions, Trouble(p) PROVE DepthInv' /\ Deeper
  <2>1. DepthInv'
    BY <1>4, DepthControl, DepthFetch DEF Trouble
  <2>2. UNCHANGED rowUntil
    BY <1>4, Zenon
    DEF Trouble, AtLimit, ReviewsFail, PassFails, Crash, FetchFails, MidFlushFails, state
  <2> QED BY <2>1, <2>2, UntouchedDeeper
<1> QED BY <1>1, <1>2, <1>3, <1>4 DEF Next

(* For every set of items and types, every window and every number of       *)
(* failures: when the executions of a repository do not overlap and nobody  *)
(* hard resets it, a stored backfill_until is never cleared and never moves *)
(* forward again, except by an execution whose read of it failed.           *)
THEOREM FrontierMonotone ==
  ASSUME \A p, q \in Executions : p = q, "reset" \notin Adversity
  PROVE  Spec => FrontierNeverRises
<1>1. Serial
  BY DEF Serial
<1>2. Init => DepthInv
  BY DEF Init, DepthInv, DepthOf, Idle, Windowed
<1>3. TypeOK /\ DepthInv /\ [Next]_vars => DepthInv'
  BY <1>1, DepthStep
<1>4. TypeOK /\ DepthInv /\ [Next]_vars =>
        [\A t \in EventTypes : rowUntil[t] # Null =>
           \/ rowUntil'[t] # Null /\ rowUntil'[t] <= rowUntil[t]
           \/ \E p \in unread : ex[p].pc \in {"init", "advance"}]_vars
  BY <1>1, DepthStep DEF Deeper
<1> QED BY <1>2, <1>3, <1>4, TypeCorrect, PTL DEF Spec, FrontierNeverRises
=============================================================================
