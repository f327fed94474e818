----------------------------- MODULE RepoImport -----------------------------
(***************************************************************************)
(* The event import of one repository: the two-pass (fresh, then backfill) *)
(* pipeline of pkg/importer/importer.go over the event importer of         *)
(* pkg/data/postgres/event.go and the devpulse_state table of              *)
(* pkg/data/postgres/state.go.                                             *)
(*                                                                         *)
(* Several job executions (a task of the scheduled job, an on-demand job)  *)
(* may import the same repository at once; they share only the database.   *)
(* Time is counted in days, the unit of the three windows of the code.     *)
(***************************************************************************)
EXTENDS Integers, FiniteSets

CONSTANTS
  Executions,   \* job executions that may import the repository
  EventTypes,   \* the types imported, each by its own goroutine
  Items,        \* GitHub objects, see ItemAssumption
  Null,         \* SQL NULL, and "no row"
  FreshDays,    \* IMPORT_FRESH_DAYS
  ChunkDays,    \* IMPORT_BACKFILL_CHUNK_DAYS
  TargetDays,   \* EventAgeDaysDefault
  BatchSize,    \* importBatchSize: events in the list that start a flush
  DBBatchSize,  \* IMPORT_DB_BATCH_SIZE: events per transaction
  FirstDay,     \* the day the model starts
  MaxDay,       \* bound: the last day of the model
  MaxTries,     \* transientRetryAttempts
  Adversity,    \* which adverse events may happen
  MaxFaults,    \* bound: how many of them
  MaxTouches    \* bound: how often an issue or comment is updated upstream

(* issue, issue comment and review comment listings are filtered by GitHub *)
(* on the item's last update; see Listed.                                  *)
SinceTypes == {"pr_review", "issue", "issue_comment"}

(* importPREvents lists the pull requests and, for each, its reviews. *)
Lister(e) == IF e.kind = "review" THEN "pr" ELSE e.kind

Mishaps == {"api", "db", "crash", "limit", "reset"}

ASSUME TypesAssumption ==
  /\ EventTypes \subseteq SinceTypes \cup {"pr", "fork"}
  /\ Null \notin Int
  /\ Adversity \subseteq Mishaps

(* An item stands for the objects of one author, kind and day: they share  *)
(* the primary key of devpulse_event. opened is the day its pull request   *)
(* was opened, for a review, and created otherwise.                        *)
ASSUME ItemAssumption ==
  \A e \in Items : /\ e.created \in Int /\ e.updated \in Int /\ e.opened \in Int
                   /\ e.kind # "review" => e.opened = e.created
                   /\ Lister(e) \in EventTypes

ASSUME WindowAssumption ==
  /\ FirstDay \in Int /\ MaxDay \in Int
  /\ FreshDays \in Nat /\ ChunkDays \in Nat \ {0} /\ TargetDays \in Nat
  /\ MaxTries \in Nat /\ MaxFaults \in Nat /\ MaxTouches \in Nat
  /\ BatchSize \in Nat \ {0} /\ DBBatchSize \in Nat \ {0}

-----------------------------------------------------------------------------
VARIABLES
  now,        \* the current day
  upstream,   \* the items GitHub knows
  updated,    \* GitHub's updated_at of every item
  touches,    \* updates made so far
  pushed,     \* GitHub's pushed_at of the repository
  events,     \* devpulse_event: the items imported
  rowSince,   \* devpulse_state.since by type; Null: the row does not exist
  rowUntil,   \* devpulse_state.backfill_until by type
  meta,       \* devpulse_repo_meta: pushed_at and updated_at, Null without row
  ex,         \* what each execution is doing
  faults,     \* adverse events so far
  (* History variables, never read by the program. *)
  floor,      \* [floor, through) are the days of the completed passes
  through,
  gaps,       \* days between two passes that were further apart than the window
  unlisted,   \* days runFreshPass claimed although its pass had failed
  missed,     \* items a completed pass was responsible for and did not store
  unread      \* executions that could not read the frontier

github == <<upstream, updated, touches, pushed>>
state == <<rowSince, rowUntil>>
history == <<floor, through, gaps, unlisted, missed, unread>>
vars == <<now, github, events, state, meta, ex, faults, history>>

Stored == Int \cup {Null}

(* An execution: the phase of importRepo it is in, the pass's windowStart   *)
(* (eventImporter.minEventTime), the day its listing began, the state read  *)
(* by loadState, the goroutines still listing, the event list, the events   *)
(* and state rows of a flush in progress, the outcome of the last           *)
(* ImportEvents call, retryRL's attempts and the local backfillUntil.       *)
Execution ==
  [pc    : {"idle", "meta", "begin", "load", "fetch", "flush", "frontier",
            "init", "gate", "advance"},
   pass  : {"fresh", "backfill"},
   min   : Int,
   day   : Int,
   since : [EventTypes -> Int],
   seen  : [EventTypes -> Stored],
   todo  : SUBSET EventTypes,
   list  : SUBSET Items,
   out   : SUBSET Items,
   rows  : SUBSET EventTypes,
   ok    : BOOLEAN,
   tries : Nat,
   until : Int]

Idle ==
  [pc |-> "idle", pass |-> "fresh", min |-> FirstDay, day |-> FirstDay,
   since |-> [t \in EventTypes |-> FirstDay],
   seen |-> [t \in EventTypes |-> Null],
   todo |-> {}, list |-> {}, out |-> {}, rows |-> {},
   ok |-> FALSE, tries |-> 0, until |-> FirstDay]

Init ==
  /\ now = FirstDay
  /\ upstream = {e \in Items : e.created < FirstDay}
  /\ updated = [e \in Items |-> e.updated]
  /\ touches = 0
  /\ pushed = FirstDay - 1
  /\ events = {}
  /\ rowSince = [t \in EventTypes |-> Null]
  /\ rowUntil = [t \in EventTypes |-> Null]
  /\ meta = Null
  /\ ex = [p \in Executions |-> Idle]
  /\ faults = 0
  /\ floor = FirstDay
  /\ through = FirstDay
  /\ gaps = {}
  /\ unlisted = {}
  /\ missed = {}
  /\ unread = {}

(* An adverse event of kind k happens in this step. *)
Adverse(k) == k \in Adversity /\ faults < MaxFaults /\ faults' = faults + 1

(* Execution p moves on to record r. *)
Becomes(p, r) == ex' = [ex EXCEPT ![p] = r]

-----------------------------------------------------------------------------
(* GitHub and the calendar. *)

(* Nothing ties the calendar to the imports: an unchanged repository is     *)
(* skipped, a quarantined one is left out of the work list.                 *)
Tick ==
  /\ now < MaxDay
  /\ now' = now + 1
  /\ UNCHANGED <<github, events, state, meta, ex, faults, history>>

Arrive(e) ==
  /\ e \notin upstream /\ e.created = now
  /\ upstream' = upstream \cup {e}
  /\ UNCHANGED <<now, updated, touches, pushed, events, state, meta, ex, faults,
                 history>>

(* Only the listings filtered by since look at updated_at. *)
Touch(e) ==
  /\ e \in upstream /\ updated[e] < now /\ touches < MaxTouches
  /\ Lister(e) \in SinceTypes
  /\ updated' = [updated EXCEPT ![e] = now]
  /\ touches' = touches + 1
  /\ UNCHANGED <<now, upstream, pushed, events, state, meta, ex, faults,
                 history>>

Push ==
  /\ pushed < now /\ touches < MaxTouches
  /\ pushed' = now
  /\ touches' = touches + 1
  /\ UNCHANGED <<now, upstream, updated, events, state, meta, ex, faults,
                 history>>

-----------------------------------------------------------------------------
(* devpulse_state. *)

HasState == \E t \in EventTypes : rowSince[t] # Null

(* The oldest value of SELECT MIN(backfill_until) ... IS NOT NULL: a set   *)
(* with its one element, or empty for a NULL answer.                       *)
GetBackfillUntil ==
  LET known == {rowUntil[t] : t \in EventTypes} \ {Null}
  IN  {u \in known : \A v \in known : u <= v}

(* UPDATE devpulse_state SET backfill_until: the rows that exist. *)
SaveBackfillUntil(d) ==
  /\ rowUntil' = [t \in EventTypes |-> IF rowSince[t] = Null THEN Null ELSE d]
  /\ UNCHANGED rowSince

-----------------------------------------------------------------------------
(* importRepo: limit gates, metadata and the skip check. *)

Begin(p) ==
  /\ ex[p].pc = "idle"
  /\ Becomes(p, [ex[p] EXCEPT !.pc = "meta"])
  /\ unread' = unread \ {p}
  /\ UNCHANGED <<now, github, events, state, meta, faults, floor, through, gaps, unlisted,
                 missed>>

(* shouldSkipUnchangedRepo: no push since the newest event already stored. *)
shouldSkipUnchangedRepo(pushedAt) ==
  /\ \E e \in events : e.created >= pushedAt
  /\ \E e \in events : e.kind = "fork"

(* Wrong variant: an unchanged repository is skipped whatever is pending. *)
NothingPending == FALSE

BackfillPending == \E u \in GetBackfillUntil : u > now - TargetDays

Skips(pushedAt) ==
  HasState /\ shouldSkipUnchangedRepo(pushedAt) /\ ~BackfillPending

(* importMetaAndCheckSkip. Metadata younger than a day is answered from     *)
(* devpulse_repo_meta (when the community profile was fetched), otherwise   *)
(* from GitHub. A failed request or query costs the chance to skip; a       *)
(* failed read of the frontier counts as no backfill pending.               *)
ImportRepoMeta(pushedAt) ==
  \/ meta # Null /\ meta.at >= now - 1 /\ pushedAt = meta.pushed /\ UNCHANGED meta
  \/ pushedAt = pushed /\ meta' = [pushed |-> pushed, at |-> now]

MetaAndCheckSkip(p) ==
  /\ ex[p].pc = "meta"
  /\ \/ /\ \E pushedAt \in {pushed} \cup (IF meta = Null THEN {} ELSE {meta.pushed}) :
             /\ ImportRepoMeta(pushedAt)
             /\ Becomes(p, IF Skips(pushedAt) THEN Idle ELSE [ex[p] EXCEPT !.pc = "begin"])
        /\ UNCHANGED faults
     \/ /\ Adverse("api") \/ Adverse("db")
        /\ meta' \in {meta, [pushed |-> pushed, at |-> now]}
        /\ Becomes(p, [ex[p] EXCEPT !.pc = "begin"])
     \/ /\ HasState /\ shouldSkipUnchangedRepo(pushed) /\ Adverse("db")
        /\ meta' = [pushed |-> pushed, at |-> now]
        /\ Becomes(p, Idle)
  /\ UNCHANGED <<now, github, events, state, history>>

(* Every tenant of the repository is at its weekly event limit. *)
AtLimit(p) ==
  /\ ex[p].pc \in {"meta", "begin", "gate"}
  /\ Adverse("limit")
  /\ Becomes(p, Idle)
  /\ UNCHANGED <<now, github, events, state, meta, history>>

(* The call of ImportEvents for one pass. *)
Window(p, pass, start) ==
  Becomes(p, [Idle EXCEPT !.pc = "load", !.pass = pass, !.min = start])

StartFresh(p) ==
  /\ ex[p].pc = "begin"
  /\ Window(p, "fresh", now - FreshDays)
  /\ UNCHANGED <<now, github, events, state, meta, faults, history>>

-----------------------------------------------------------------------------
(* ImportEvents: load the state, list every type, flush. *)

(* loadState: the stored since, or windowStart without a row, is clamped to *)
(* windowStart; it is never lowered.                                        *)
ClampedSince(stored, windowStart) ==
  IF stored = Null \/ stored < windowStart THEN windowStart ELSE stored

(* Wrong variant: the state is loaded without its backfill_until. *)
LoadStateWithoutFrontier(p) ==
  /\ ex[p].pc = "load"
  /\ Becomes(p, [ex[p] EXCEPT
       !.pc = "fetch", !.day = now, !.todo = EventTypes,
       !.since = [t \in EventTypes |-> ClampedSince(rowSince[t], ex[p].min)],
       !.list = {}, !.out = {}, !.rows = {}])
  /\ UNCHANGED <<now, github, events, state, meta, faults, history>>

LoadState(p) ==
  /\ ex[p].pc = "load"
  /\ Becomes(p, [ex[p] EXCEPT
       !.pc = "fetch", !.day = now, !.todo = EventTypes,
       !.since = [t \in EventTypes |-> ClampedSince(rowSince[t], ex[p].min)],
       !.seen = rowUntil, !.list = {}, !.out = {}, !.rows = {}])
  /\ UNCHANGED <<now, github, events, state, meta, faults, history>>

(* Wrong variant: a page on the first day of the window ends the listing. *)
ListedAfterWindowStart(p, t, cut) ==
  {e \in upstream :
     /\ Lister(e) = t
     /\ t = "pr" => e.opened > cut
     /\ t \in SinceTypes => updated[e] >= ex[p].since[t]}

(* What GitHub lists for type t. Pull requests, each with its reviews, come *)
(* newest first until a page holds none of the window, so the last page     *)
(* reaches down to cut.                                                     *)
Listed(p, t, cut) ==
  {e \in upstream :
     /\ Lister(e) = t
     /\ t = "pr" => e.opened >= cut
     /\ t \in SinceTypes => updated[e] >= ex[p].since[t]}

(* The items of type t the pass's window is about. *)
Wanted(p, t) == {e \in upstream : Lister(e) = t /\ e.created >= ex[p].min}

Flushing(p) == ex[p].out # {} \/ ex[p].rows # {}

(* The goroutine of type t is listing; the one that started a flush cannot  *)
(* end before it.                                                           *)
Listing(p, t) ==
  /\ ex[p].pc = "fetch" /\ t \in ex[p].todo
  /\ Flushing(p) => ex[p].todo # {t}

(* One importer goroutine adds an item, and goes on. Items already stored    *)
(* are listed by Fetch: adding them one by one changes nothing.             *)
FetchItem(p, t) ==
  /\ Listing(p, t)
  /\ \E e \in Listed(p, t, ex[p].min) \ (ex[p].list \cup ex[p].out \cup events) :
       Becomes(p, [ex[p] EXCEPT !.list = @ \cup {e}])
  /\ UNCHANGED <<now, github, events, state, meta, faults, history>>

(* It lists its type to the end. *)
Fetch(p, t) ==
  /\ Listing(p, t)
  /\ \E cut \in {e.created : e \in upstream} \cup {ex[p].min} :
       /\ cut <= ex[p].min
       /\ Becomes(p, [ex[p] EXCEPT !.todo = @ \ {t}, !.list = @ \cup Listed(p, t, cut)])
       /\ missed' = missed \cup (Wanted(p, t) \ Listed(p, t, cut))
  /\ UNCHANGED <<now, github, events, state, meta, faults, floor, through, gaps,
                 unlisted, unread>>

(* It gives up after some items; ImportEvents only logs it. A failed review *)
(* listing is logged too, and does not even end the goroutine.              *)
FetchFails(p, t) ==
  /\ Listing(p, t)
  /\ Adverse("api")
  /\ Becomes(p, [ex[p] EXCEPT !.todo = @ \ {t}])
  /\ missed' = missed \cup (Wanted(p, t) \ (ex[p].list \cup ex[p].out \cup events))
  /\ UNCHANGED <<now, github, events, state, meta, floor, through, gaps, unlisted,
                 unread>>

ReviewsFail(p) ==
  /\ Listing(p, "pr")
  /\ Adverse("api")
  /\ \E lost \in SUBSET {e \in Listed(p, "pr", ex[p].min) : e.kind = "review"} :
       /\ Becomes(p, [ex[p] EXCEPT !.todo = @ \ {"pr"},
                                   !.list = @ \cup (Listed(p, "pr", ex[p].min) \ lost)])
       /\ missed' = missed \cup lost \cup (Wanted(p, "pr") \ Listed(p, "pr", ex[p].min))
  /\ UNCHANGED <<now, github, events, state, meta, floor, through, gaps, unlisted,
                 unread>>

(* flush: take the event list; the state rows follow once it is written. *)
TakeList(r) == [r EXCEPT !.out = r.list, !.list = {},
                         !.rows = IF r.list = {} THEN {} ELSE EventTypes]

(* add found importBatchSize events in the list. *)
MidFlush(p) ==
  /\ ex[p].pc = "fetch" /\ ex[p].todo # {} /\ ~Flushing(p)
  /\ Cardinality(ex[p].list) >= BatchSize
  /\ Becomes(p, TakeList(ex[p]))
  /\ UNCHANGED <<now, github, events, state, meta, faults, history>>

FinalFlush(p) ==
  /\ ex[p].pc = "fetch" /\ ex[p].todo = {} /\ ~Flushing(p)
  /\ Becomes(p, [TakeList(ex[p]) EXCEPT !.pc = "flush"])
  /\ UNCHANGED <<now, github, events, state, meta, faults, history>>

(* flushBatch: one transaction upserts the next sub-batch. *)
FlushBatch(p) ==
  /\ ex[p].out # {}
  /\ \E batch \in SUBSET ex[p].out :
       /\ \/ Cardinality(batch) = DBBatchSize
          \/ batch = ex[p].out /\ Cardinality(batch) < DBBatchSize
       /\ events' = events \cup batch
       /\ Becomes(p, [ex[p] EXCEPT !.out = @ \ batch])
  /\ UNCHANGED <<now, github, state, meta, faults, history>>

(* Wrong variant: the flush stores the pass's own window start. *)
FlushStateEager(p, t) ==
  /\ ex[p].out = {} /\ t \in ex[p].rows
  /\ rowSince' = [rowSince EXCEPT ![t] = ex[p].since[t]]
  /\ rowUntil' = [rowUntil EXCEPT ![t] = ex[p].min]
  /\ Becomes(p, [ex[p] EXCEPT !.rows = @ \ {t}])
  /\ UNCHANGED <<now, github, events, meta, faults, history>>

(* One state row is upserted, with the since and backfill_until loaded at   *)
(* the start of the pass.                                                   *)
FlushState(p, t) ==
  /\ ex[p].out = {} /\ t \in ex[p].rows
  /\ rowSince' = [rowSince EXCEPT ![t] = ex[p].since[t]]
  /\ rowUntil' = [rowUntil EXCEPT ![t] = ex[p].seen[t]]
  /\ Becomes(p, [ex[p] EXCEPT !.rows = @ \ {t}])
  /\ UNCHANGED <<now, github, events, meta, faults, history>>

(* A flush started by goroutine t fails: the events it had taken, of every  *)
(* type, are dropped, t ends, and ImportEvents only logs it.                *)
MidFlushFails(p, t) ==
  /\ ex[p].pc = "fetch" /\ Flushing(p) /\ t \in ex[p].todo
  /\ Adverse("db")
  /\ Becomes(p, [ex[p] EXCEPT !.todo = @ \ {t}, !.out = {}, !.rows = {}])
  /\ missed' = missed \cup ex[p].out \cup Wanted(p, t)
  /\ UNCHANGED <<now, github, events, state, meta, floor, through, gaps, unlisted,
                 unread>>

-----------------------------------------------------------------------------
(* The end of a pass. *)

(* ImportEvents returns nil. *)
PassDone(p) ==
  /\ ex[p].pc = "flush" /\ ~Flushing(p)
  /\ Becomes(p, [Idle EXCEPT
       !.pc = IF ex[p].pass = "fresh" THEN "frontier" ELSE "advance",
       !.pass = ex[p].pass, !.min = ex[p].min, !.ok = TRUE])
  /\ floor' = IF ex[p].min < floor THEN ex[p].min ELSE floor
  /\ through' = IF ex[p].day > through THEN ex[p].day ELSE through
  /\ gaps' = (gaps \cup (through .. ex[p].min - 1)) \ (ex[p].min .. ex[p].day - 1)
  /\ unlisted' = unlisted \ (ex[p].min .. ex[p].day - 1)
  /\ UNCHANGED <<now, github, events, state, meta, faults, missed, unread>>

(* ImportEvents returns an error: the state cannot be read, no token is     *)
(* left, or the final flush failed. retryRL calls it again, or gives up.    *)
PassFails(p) ==
  /\ \/ ex[p].pc = "load" /\ (Adverse("db") \/ Adverse("api"))
     \/ ex[p].pc = "flush" /\ Flushing(p) /\ Adverse("db")
  /\ \/ /\ ex[p].tries < MaxTries
        /\ Becomes(p, [Idle EXCEPT !.pc = "load", !.pass = ex[p].pass,
                                   !.min = ex[p].min, !.tries = ex[p].tries + 1])
     \/ Becomes(p, IF ex[p].pass = "fresh"
                   THEN [Idle EXCEPT !.pc = "frontier", !.min = ex[p].min]
                   ELSE Idle)
  /\ UNCHANGED <<now, github, events, state, meta, history>>

(* runFreshPass: read the frontier; a failed read counts as NULL. *)
ReadFrontier(p) ==
  /\ ex[p].pc = "frontier"
  /\ \/ /\ \E u \in GetBackfillUntil :
             Becomes(p, [Idle EXCEPT !.pc = "gate", !.until = u])
        /\ UNCHANGED <<faults, unread>>
     \/ /\ GetBackfillUntil = {}
        /\ Becomes(p, [ex[p] EXCEPT !.pc = "init"])
        /\ UNCHANGED <<faults, unread>>
     \/ /\ Adverse("db")
        /\ Becomes(p, [ex[p] EXCEPT !.pc = "init"])
        /\ unread' = unread \cup {p}
  /\ UNCHANGED <<now, github, events, state, meta, floor, through, gaps, unlisted,
                 missed>>

(* runFreshPass: initialise the frontier to the fresh window, whether or    *)
(* not the fresh pass succeeded. A failed write is only logged.             *)
InitFrontier(p) ==
  /\ ex[p].pc = "init"
  /\ Becomes(p, [Idle EXCEPT !.pc = "gate", !.until = ex[p].min])
  /\ \/ /\ SaveBackfillUntil(ex[p].min)
        /\ floor' = IF ex[p].min < floor THEN ex[p].min ELSE floor
        /\ unlisted' = unlisted \cup (ex[p].min .. floor - 1)
        /\ UNCHANGED faults
     \/ Adverse("db") /\ UNCHANGED <<state, floor, unlisted>>
  /\ UNCHANGED <<now, github, events, meta, through, gaps, missed, unread>>

(* runBackfillPass: one more chunk, unless the target depth is reached. The *)
(* enrichment phases in between touch none of this state.                   *)
ChunkStart(until, target) ==
  IF until - ChunkDays < target THEN target ELSE until - ChunkDays

StartBackfill(p) ==
  /\ ex[p].pc = "gate"
  /\ LET target == now - TargetDays
     IN  IF ex[p].until > target
         THEN Window(p, "backfill", ChunkStart(ex[p].until, target))
         ELSE Becomes(p, Idle)
  /\ UNCHANGED <<now, github, events, state, meta, faults, history>>

(* The chunk is complete; a failed write is only logged. *)
AdvanceFrontier(p) ==
  /\ ex[p].pc = "advance"
  /\ Becomes(p, Idle)
  /\ \/ SaveBackfillUntil(ex[p].min) /\ UNCHANGED faults
     \/ Adverse("db") /\ UNCHANGED state
  /\ UNCHANGED <<now, github, events, meta, history>>

-----------------------------------------------------------------------------
(* The job is killed or its context is cancelled (task timeout). *)
Crash(p) ==
  /\ ex[p].pc # "idle"
  /\ Adverse("crash")
  /\ Becomes(p, Idle)
  /\ UNCHANGED <<now, github, events, state, meta, history>>

(* An administrator clears the import state; events stay. *)
HardResetRepo ==
  /\ Adverse("reset")
  /\ rowSince' = [t \in EventTypes |-> Null]
  /\ rowUntil' = [t \in EventTypes |-> Null]
  /\ meta' = Null
  /\ UNCHANGED <<now, github, events, ex, history>>

Work(p) ==
  \/ Begin(p) \/ MetaAndCheckSkip(p) \/ StartFresh(p) \/ LoadState(p)
  \/ \E t \in EventTypes : FetchItem(p, t) \/ Fetch(p, t) \/ FlushState(p, t)
  \/ MidFlush(p) \/ FinalFlush(p) \/ FlushBatch(p) \/ PassDone(p)
  \/ ReadFrontier(p) \/ InitFrontier(p) \/ StartBackfill(p) \/ AdvanceFrontier(p)

Trouble(p) ==
  \/ AtLimit(p) \/ ReviewsFail(p) \/ PassFails(p) \/ Crash(p)
  \/ \E t \in EventTypes : FetchFails(p, t) \/ MidFlushFails(p, t)

Environment ==
  \/ Tick \/ Push \/ HardResetRepo
  \/ \E e \in Items : Arrive(e) \/ Touch(e)

Next == Environment \/ \E p \in Executions : Work(p) \/ Trouble(p)

Spec == Init /\ [][Next]_vars

(* Executions are started every two hours and do not stop for ever at a     *)
(* step; nothing is assumed of GitHub, of tenants or of adverse events.      *)
FairSpec == Spec /\ \A p \in Executions : WF_vars(Work(p))

-----------------------------------------------------------------------------
(* The rows, the metadata and the executions have their types; a NULL       *)
(* frontier never reaches the arithmetic on days (GetBackfillUntil).        *)
TypeOK ==
  /\ now \in Int
  /\ upstream \subseteq Items /\ events \subseteq Items /\ missed \subseteq Items
  /\ updated \in [Items -> Int] /\ pushed \in Int /\ touches \in Nat
  /\ rowSince \in [EventTypes -> Stored] /\ rowUntil \in [EventTypes -> Stored]
  /\ meta \in [pushed : Int, at : Int] \cup {Null}
  /\ ex \in [Executions -> Execution]
  /\ faults \in Nat
  /\ floor \in Int /\ through \in Int /\ gaps \subseteq Int /\ unlisted \subseteq Int
  /\ unread \subseteq Executions

(* No state row claims a day that is not accounted for: every item created  *)
(* between a stored backfill_until and the last completed pass is stored,   *)
(* or a listing or flush error was swallowed or GitHub's since filter hid   *)
(* it (missed). The code makes two further exceptions: days passed over     *)
(* while the repository was skipped or left out (gaps), and the window of a *)
(* failed first pass, claimed all the same, until a later pass lists it     *)
(* (unlisted). Besides these, whatever crashes, retries, overlaps or        *)
(* resets, the frontier never runs ahead of a completed pass                *)
(* (runBackfillPass, SaveBackfillUntil).                                    *)
FrontierSound ==
  \A t \in EventTypes : rowUntil[t] # Null =>
    \A e \in upstream : /\ rowUntil[t] <= e.created /\ e.created < through
                        /\ e.created \notin gaps \cup unlisted
                        => e \in events \cup missed

(* The items whose listing is not filtered by since or by another's date. *)
Windowable == {"pr", "fork"}

(* Without API and database errors the pull requests and forks of the       *)
(* claimed days are all stored, with executions overlapping, killed and     *)
(* reset at any step (importPREvents stops only below windowStart), except  *)
(* those of days that no fresh window reached (gaps).                       *)
WindowedHistoryComplete ==
  Adversity \cap {"api", "db"} = {} =>
    \A t \in EventTypes : rowUntil[t] # Null =>
      \A e \in upstream : /\ rowUntil[t] <= e.created /\ e.created < through
                          /\ e.created \notin gaps
                          /\ e.kind \in Windowable
                          => e \in events

(* Whatever listings and statements fail, the state rows rewritten by a     *)
(* flush keep the frontier the last chunk reached. Besides a hard reset and *)
(* an overlapping execution, only an execution that could not read the      *)
(* frontier takes coverage back: in runFreshPass, or, when that write       *)
(* failed too, with the chunk runBackfillPass starts from the fresh window. *)
FrontierNeverRises ==
  [][\A t \in EventTypes : rowUntil[t] # Null =>
       \/ rowUntil'[t] # Null /\ rowUntil'[t] <= rowUntil[t]
       \/ \E p \in unread : ex[p].pc \in {"init", "advance"}]_vars

(* "Marching backward until reaching EventAgeDaysDefault ... even on quiet  *)
(* repos", "Killed jobs resume cleanly" (ARCHITECTURE.md): the backfill of  *)
(* every repository reaches its target. It does not: see the two exceptions *)
(* of BackfillCompletes.                                                    *)
BackfillReachesTarget == <>[](\E u \in GetBackfillUntil : u <= now - TargetDays)

(* State rows without a frontier, which the skip check takes for a finished *)
(* backfill. A kill or failed statements leave them.                        *)
Stranded == HasState /\ GetBackfillUntil = {} /\ faults > 0

(* What is left of it: however often the repository is found unchanged and  *)
(* whatever fails on the way, the backfill reaches the target, unless no    *)
(* event of the fresh window and the first chunk ever gave the frontier a   *)
(* row to stand in (flush returns before it stores a state row for an empty *)
(* list), or a failure left the rows without one.                           *)
BackfillCompletes ==
  <>[](~HasState \/ Stranded \/ \E u \in GetBackfillUntil : u <= now - TargetDays)

-----------------------------------------------------------------------------
(* The inductive invariant behind FrontierSound and its parts. *)

CalendarInv ==
  /\ FirstDay <= through /\ through <= now
  /\ floor <= FirstDay
  /\ \A e \in upstream : e.created <= now

(* The days of the completed passes are accounted for. *)
CoveredInv ==
  \A e \in upstream : /\ floor <= e.created /\ e.created < through
                      /\ e.created \notin gaps \cup unlisted
                      => e \in events \cup missed

(* A frontier, stored or remembered, is not older than those days. *)
Claimed(u) == u # Null => floor <= u
FrontierInv == \A t \in EventTypes : Claimed(rowUntil[t])

(* What an execution relies on between the steps of importRepo. *)
ExecutionInv(p) ==
  /\ \A t \in EventTypes : Claimed(ex[p].seen[t])
  /\ ex[p].ok => floor <= ex[p].min
  /\ ex[p].pc = "advance" => ex[p].ok
  /\ ex[p].pc = "flush" => ex[p].todo = {} /\ ex[p].list = {}
  /\ ex[p].pc \in {"fetch", "flush"} =>
       /\ FirstDay <= ex[p].day /\ ex[p].day <= now
       /\ \A e \in upstream :
            /\ Lister(e) \notin ex[p].todo
            /\ ex[p].min <= e.created /\ e.created < ex[p].day
            => e \in events \cup missed \cup ex[p].list \cup ex[p].out

ImportInv ==
  /\ TypeOK /\ CalendarInv /\ CoveredInv /\ FrontierInv
  /\ \A p \in Executions : ExecutionInv(p)

(* Without API and database errors only the filters lose items. *)
NoErrorInv ==
  Adversity \cap {"api", "db"} = {} =>
    /\ \A e \in missed : e.kind \notin Windowable
    /\ unlisted = {}
    /\ \A p \in Executions : ex[p].pc \in {"frontier", "init"} => ex[p].ok

(* The inductive invariant behind FrontierNeverRises. No frontier stored is *)
(* older than day d.                                                        *)
Deepest(d) == \A t \in EventTypes : rowUntil[t] # Null => d <= rowUntil[t]

Windowed == {"load", "fetch", "flush", "frontier", "init", "advance"}

(* What an execution in state r holds of the frontier; aware: it read it. *)
DepthOf(r, aware) ==
  /\ r.pc \notin {"fetch", "flush"} => r.rows = {}
  /\ r.pc \in {"fetch", "flush"} => r.seen = rowUntil
  /\ r.pc = "advance" => r.pass = "backfill"
  /\ aware =>
       /\ r.pc = "init" => \A t \in EventTypes : rowUntil[t] = Null
       /\ r.pc = "gate" => Deepest(r.until)
       /\ r.pc \in Windowed /\ r.pass = "backfill" => Deepest(r.min)

DepthInv ==
  /\ \A t \in EventTypes : rowUntil[t] # Null => rowSince[t] # Null
  /\ \A p \in Executions : DepthOf(ex[p], p \notin unread)

=============================================================================
