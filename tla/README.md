# devpulse: TLA+ verification project

devpulse is a multi-tenant dashboard of GitHub activity. A scheduled Cloud Run
job (`cmd/devpulse-import`) copies pull requests, reviews, issues, comments and
forks of the tracked repositories from the GitHub API into PostgreSQL; a web
server (`cmd/devpulse-site`) signs tenants in, lets them choose repositories and
shows charts computed by SQL. This directory holds TLA+ specifications of the
parts whose correctness depends on ordering, failure or concurrency, the TLC
configurations that check them on small instances, and TLAPS proofs of the
properties that matter most.

    tlc -workers 2 -config RepoImport_overlap.cfg MCRepoImport
    tlapm RepoImportProofs.tla

## 1. Inventory

| Part | State | Operations | Modelled in |
|---|---|---|---|
| Event import of a repository (`pkg/importer/importer.go`, `pkg/data/postgres/event.go`, `state.go`) | `devpulse_event`, `devpulse_state` (since, backfill_until per event type), `devpulse_repo_meta`; in memory the event list, the loaded state, the frontier | metadata and skip check, fresh pass, backfill pass, listing goroutines, flush, frontier update, hard reset | `RepoImport` |
| GitHub token pool (`pkg/data/ghutil/tokenpool.go`) | position, `exhaustedUntil` per token; per importer `curToken`, `client` | `Token`, `Exhaust`, `rotateToken`, `retryOnRateLimit` | `TokenPool` |
| Import job (`pkg/importer/importer.go`, `shard.go`, `pkg/tenant/import.go`) | work list, bins, work channel, workers, tallies; `devpulse_tenant_repo.import_errors` | list work, shard, dispatch, import, count or reset errors, finalize, time out | `ImportJob` |
| Enrichment phases and LLM insights (`pkg/importer/importer.go`, `pkg/data/postgres/release.go`, `metric_history.go`, `container.go`, `reputation.go`, `pkg/data/insights_gen.go`) | releases, star history, container versions, reputation scores, insights with age and event count; in memory the attempt of `retryRL`, watermark, page, chunk | one phase after the other, each retried as a whole; staleness gates | `Enrich` |
| Tenant repositories, plan limits, accounts (`pkg/tenant/installation.go`, `tenant.go`, `admin.go`, `pkg/plan`, handlers in `server.go`, `handler_admin.go`) | `devpulse_tenant`, `devpulse_tenant_repo` | add, mark as sample, seed, deactivate, plan, status, invite, upgrade request | `Tenancy` |
| Webhooks and installations (`pkg/server/webhook.go`) | installation rows; per process the seen deliveries | created, suspend, deleted, repositories removed | `Tenancy` |
| Tenant-scoped connections (`pkg/server/scoped.go`), response cache (`pkg/server/data.go`), data API, pages, admin lists, platform statistics | `app.tenant_id` of pooled connections, cache entries, statistics row | acquire, scope, look up, query, store, invalidate, reset, release | `DataApi` |
| Sign-in (`pkg/oauth`, `pkg/tenant/session.go`, `pkg/middleware/auth.go`), request limiter (`pkg/server/ratelimit.go`) | cookies of browsers, sessions, statuses; tokens per address | start, callback, exchange, profile, session, validate, sign out, reset | `SignIn`, `RateLimit` |
| Weekly digest (`pkg/digest`) | `digest_last_sent_at`, `weekly_digest`, statuses | list, send, record, toggle, unsubscribe | `Digest` |
| Process life: migrations (`pkg/data/postgres/migrate.go`), start-up and shutdown (`server.go`, `bgwork.go`, `import_trigger.go`) | version tables, advisory locks, handlers, triggers and tasks in flight | start, migrate, serve, drain, exit, crash | `Instance`, `SchemaLog` |
| Pull request sizes, developers, affiliations, token collection, health scores, rendering, configuration | read only, or independent upserts | | not modelled |

How the parts interact. Cloud Scheduler starts an execution of the import job
every two hours; it consists of parallel tasks. The server starts an on-demand
execution for one repository when a tenant adds it. Every task reads the work
list from the database, computes every task's share of it, keeps its own and
hands it to worker goroutines. A worker imports one repository at a time: the
event passes first, whose five listing goroutines share an event list, a token
and a GitHub client, then the enrichment phases. The first task of an execution
sends the digests at its end. All executions and all web processes share
nothing but the database. Requests of the web server pass the limiter or the
session check, then run on a connection of their own that is scoped to the
tenant, or on any connection of the pool. GitHub reports installations through
webhooks that it may repeat and reorder. Administrators change plans, statuses,
error counters and import state while jobs and requests run.

What is hard here: two executions on one repository; a kill between any two
transactions; errors that are logged and swallowed, so that a later step runs
although an earlier one failed; state loaded at the start of a pass and written
back at its end; windows measured from a clock that moves; session-level
settings that stay with a pooled connection; check and act in different
transactions; answers that reach a browser in another order than they were
computed; deliveries recorded before they are carried out; mails sent before
they are recorded; a drain that races the work it waits for. The list with
source lines is `hazards` in `PROJECT.json`.

What makes each part correct:

- *Event import*: the frontier `backfill_until` never claims days no completed
  pass accounted for; what it claims is stored; it only moves back; it reaches
  the target depth, which it does not after a kill at the wrong moment (section 3).
- *Token pool*: round robin stays fair under exhaustion and expiry; the pool
  always recovers, and requests still under way prolong a drought once per
  importer at most.
- *Import job*: shards are balanced; the workers of a task never hold the same
  repository; no worker returns while there is work to send; a task that reports
  success has handled its shard; a started task ends.
- *Enrichment*: what a phase that reported success vouches for is stored,
  whatever was cut off before it; history is not inflated; a phase that keeps
  failing ends.
- *Tenancy*: the plan limit; acknowledged webhooks are carried out, once per
  window; an installation follows what GitHub reported last.
- *Data API*: a tenant sees its own rows and no others; statements on the pool
  take effect; cached answers are stale only for known reasons, and fresh ones
  stay cached.
- *Sign-in*: a browser gets only the sessions it asked for; the limiter keeps
  its rate.
- *Digest*: one digest per tenant and cooldown, none for who unsubscribed, and
  nobody whose day it is is left out.
- *Process life*: migrations are executed once and in order; a serving process
  finds its schema; start-up and shutdown end; no work is abandoned.

## 2. Modules

| Module | Role |
|---|---|
| `RepoImport` | the event import of one repository by any number of executions |
| `TokenPool` | the pool and the goroutines that rotate its tokens |
| `ImportJob` | one execution of the job, its tasks and workers, and on-demand executions |
| `Enrich` | the enrichment phases of one repository by overlapping imports |
| `ListingCopy` | what the import of container versions promises, abstractly; `Enrich` implements it |
| `Tenancy` | accounts, tracked repositories, installations and webhooks |
| `DataApi` | the connection pool with its scopes, the response cache and the requests of one process |
| `RateLimit` | the request limiter, as a component without a process of its own |
| `SignIn` | sign-in, sessions and sign-out behind the limiter; it extends `RateLimit` and takes its steps |
| `Digest` | overlapping runs of the digest |
| `SchemaLog` | what schema migration promises, abstractly |
| `Instance` | the life of the processes that share the schema; it implements `SchemaLog` twice |
| `MC...` | instances for TLC |
| `...Proofs` | theorems; `PhaseProofs` has those of `Enrich` and of `TokenPool` |

The components meet at narrow interfaces, which the modules keep.
`ImportJob.ImportRepoWork` is a whole behaviour of one execution of
`RepoImport` (its effect on events reduced to the event count) followed by one
of an import of `Enrich`; the outcomes of `retryOnRateLimit` in `TokenPool` are
the success or failure of a listing in `RepoImport` (`Fetch`, `FetchFails`).
`DataApi.DeactivateTenantRepo` is `Tenancy.DeleteRepo` seen from the cache,
`AddTenantRepos` the transaction of `Tenancy`'s adds as one step, and
`ChangedElsewhere` its webhook removals and sample seeds;
`UpdateStatus` is an action of `Tenancy`, `Digest` and `SignIn`, which all read
the status. `Instance.HandlerEnds` is the end of any handler of the other
modules, with the task or the trigger it leaves behind (`SeedBegins`, the
on-demand execution).

Operators introduced by "Wrong variant" are plausible bugs of the definition
that follows them. Nothing uses them: they serve to show that a property
notices the bug (`mutants` in `PROJECT.json`).

### RepoImport

Time is counted in days, because the three windows of the code
(`IMPORT_FRESH_DAYS`, `IMPORT_BACKFILL_CHUNK_DAYS`, `EventAgeDaysDefault`) are.
The database is `events`, `rowSince`/`rowUntil` (a row of `devpulse_state` per
event type, `Null` for a missing row or a NULL column) and `meta`. GitHub is
`upstream`, `updated`, `pushed`. `ex[p]` is what execution `p` has in memory;
its `pc` names the phase of `importRepo`.

| Action | Code |
|---|---|
| `Begin`, `AtLimit` | `importRepoWork`, `allTenantsAtLimit` and its rechecks |
| `MetaAndCheckSkip` | `importMetaAndCheckSkip`, `ImportRepoMeta`, `shouldSkipUnchangedRepo` |
| `StartFresh`, `StartBackfill` | the calls of `ImportEvents` in `runFreshPass` and `runBackfillPass` |
| `LoadState` | `loadState`, `GetState` |
| `FetchItem`, `Fetch`, `FetchFails`, `ReviewsFail` | the listing goroutines and `add` |
| `MidFlush`, `FinalFlush`, `FlushBatch`, `FlushState`, `MidFlushFails` | `flush`, `flushBatch`, one step per transaction or upsert |
| `PassDone`, `PassFails` | the return of `ImportEvents` and `retryRL` |
| `ReadFrontier`, `InitFrontier`, `AdvanceFrontier` | `GetBackfillUntil`, `SaveBackfillUntil` in the two passes |
| `Crash`, `HardResetRepo` | the kill of a job or the end of its context; the administrator's reset |
| `Tick`, `Arrive`, `Touch`, `Push` | the calendar and GitHub |

Abstractions. An item stands for all objects of one author, kind and day, since
they share the primary key of `devpulse_event`; a comment that is edited gets
another date and is not followed; items without an author are ignored by the
code and left out. Flushes of one execution follow one another (two goroutines
that flush at once upsert disjoint events and equal state rows). Reviews are
listed with their pull request, so that a review of a pull request older than
the window is not seen, as in the code. The number of adverse events is bounded
by `MaxFaults`, and `Adversity` says which kinds may happen. `missed` is a
history variable: the items whose absence a completed pass cannot know of,
because a listing failed and the error was swallowed, a flush failed inside a
goroutine, or GitHub's `since` filter hid them. `floor` and `through` remember
the days the completed passes were about, and `unread` the executions whose read
of the frontier failed. Two more remember what the code claims without having
it: `gaps` are the days that passed by while the repository was skipped as
unchanged, quarantined or not imported at all, and that the next fresh window
did not reach back to; `unlisted` are the days of a first fresh pass that
failed, for which `runFreshPass` stores the initial frontier all the same, until
a later pass lists them. Nothing bounds how long a repository is left alone: the
clock runs to `MaxDay` whether executions do or not.

`FetchItem` adds items to the list one by one only if they are not stored yet;
the stored ones join it when the listing ends (`Fetch`). The code lists and
upserts them again like the others, which changes nothing in the model but how
full the list is in mid listing; the reduction keeps two executions within reach
of TLC.

### TokenPool

`left[i]` is the time until `exhaustedUntil[i]`, so the clock is `Tick`, which
lowers every `left`. `Token` is stated by what the scan returns (`Finds`: every
position before it is exhausted) instead of by its loop. An importer's
goroutines share `curToken` and `client`; a request uses the client at the time
it is sent. `rotateToken` runs under the importer's lock and takes the pool's
twice: first it exhausts the importer's token, whatever token the caller was
refused with (`rotateToken`), then it asks for the next one (`NextToken`), and
other importers may come in between. `owed` is a
history variable: for every token, those that were eligible ever since it was
handed out and have not been chosen. Usage counts are left out. A pool always
has a token here (an empty pool makes every import fail before it starts).

### ImportJob

A task is a state machine of `runImport`: `idle`, `shard` (one step per round of
the greedy loop of `ShardRepos`), `send`, `wait` (channel closed, `wg.Wait`),
`ended`. A worker receives a repository, checks the context, imports, then
resets or counts errors row by row. Updates of counters may fail and are then
only logged. `cancelled` is the task's context: timeout or signal. An on-demand
execution lists the rows of one repository, ignores the circuit breaker and has
a single task; sibling tasks of such an execution return at once and are left
out. Which tasks and executions may be under way together is the bound
`Startable`; `Change` counts the changes of the rows by tenants,
administrators and other executions, and `OldCounts` are the event counts they
start from. `Rank` is the order by lower-cased name, which the model takes to be
strict. `handled` is a history variable.

### Enrich

Releases, versions and users are numbered by age, so that a watermark (`MAX` of
a timestamp column) is the largest number stored. Timestamps of versions have
seconds: `tied` are the versions created in the same second as the one before
them, and `NewerThan` compares seconds, so that a version tied with the
watermark ends the listing, as `createdAt <= sinceCreatedAt` does. `pc[r]` is the step of import
`r`, `attempt[r]` the counter of `retryRL` (or of the calls of the LLM), `mem[r]`
the local variables of the current phase.

| Action | Code |
|---|---|
| `runEnrichmentPhases`, `runCatchUpInsights` | the two ways into the phases |
| `Retry`, `PhaseFails`, `Cancel` | `newRetryRL` around a phase, a logged error, a cancelled context |
| `ImportReleases`, `ReleasePage` | watermark, then one transaction per page, newest first |
| `ImportRepoMetricHistory`, `countRecentStarsByDay`, `upsertMetricHistory` | current total, stargazers by day (flat when they cannot be listed), upsert |
| `PackagesHidden`, `upsertContainerVersions`, `fetchAndStoreVersions`, `CommitVersions` | one transaction over all pages |
| `ImportReputation`, `FlushChunk`, `LastFlush` | stale users, a transaction per chunk |
| `GetRepoInsightsGeneratedAt`, `generateRepoInsights`, `GatherInsightsMetrics`, `InsightsRetry`, `GenerateInsights`, `SaveRepoInsights` | the gates, the metrics, the call and the save |
| `Publish`, `Push`, `Star`, `NewContributor`, `Midnight` | GitHub, the event import and the clock |

Forks are treated exactly as stars and are left out. One container package
stands for all: each has rows and a watermark of its own, and the one
transaction they share is committed or rolled back for each of them alike. A
version without a creation date, which would end a listing too, does not occur.
Listings of releases come in the order of publication across pages. Stars are
only given: a star withdrawn between the total and the listing would be counted
on the days before it was given, which is not modelled. History
variables: `cut` (a release import ended between two pages), `flat` (days whose
row came from a flat history), `vouched` (what successful phases are to have
stored). `starred[d]` is the number of stars there were by the end of day `d`
(for today and later days, those given until now), so that the stars of the
days after `d` are a difference, `StarsAfter(d)`, as the listing back to the
cutoff adds them up; `curve` and `history` are `Never` for days without a row.

### Tenancy

A step is one SQL statement or one critical section. The transaction of
`AddTenantRepos` is three steps: its upsert is visible to itself only
(`View`), it locks the row (`Locked`), and nothing else.

| Action | Code |
|---|---|
| `AddBegins`, `AddChecksInstallation`, `AddUpserts`, `AddCounts`, `AddCommits`, `AddMarksSample`, `AddFails` | `addRepoHandler` with `AddTenantRepos`, `MarkRepoAsSample` |
| `DeleteRepo` | `deleteRepoHandler`, `DeactivateTenantRepo` |
| `SeedBegins`, `SeedAdds`, `SeedStops` | `seedSampleRepos` in the background |
| `UpsertTenant`, `RequestUpgrade` | sign-up, the upgrade request |
| `PlanFormBegins`, `InviteBegins`, `UpdatePlan`, `ClearUpgradeRequest`, `UpdateStatus`, `AdminFails` | the forms of administrators |
| `Deliver`, `DeactivateRemoved`, `Handle`, `UnknownSender`, `HookFails` | `WebhookHandler`, `seenOrRecord` and the two event handlers |
| `Restart`, `Tick`, `GitHubEvent` | the process is replaced, the clock, GitHub |

A row of `devpulse_tenant_repo` is one of five states (own or sample, active or
not, or absent). The signature of a webhook and the lookup of a repository at
GitHub are not modelled: a request that fails there changes nothing. History
variables: `held`, `raced`, `passed`, `applied`, `spoiled`, `latest` (by
installation, the delivery about it that GitHub sent last) and `caughtUp` (the
installations whose delivery handled last is that one).

### DataApi

`conn[c]` is who holds a connection and the tenant its `app.tenant_id` names;
`cache` is `apiCache.entries`; `req[r]` is the goroutine of a request. A
response body is the set of tenants whose rows are in it and the version of the
tenant's repository list it shows; an answer some of whose queries failed, which
a tolerant handler gives and caches all the same, may lack any of the rows.
Every route is a record (`Routes`): the connection its statements run on,
whether it answers although a query failed, how long the answer is cached, and
whether it lists repositories through the pool besides. The tables follow
`makeRouter` and the handlers; a run checks one route of each kind (`Served`),
since routes with equal records behave alike.

| Action | Code |
|---|---|
| `Arrive`, `ValidateSession`, `ValidationFails` | `RequireAuth` |
| `AcquireConn`, `SetScope`, `ReleaseConn` | `ScopedStoreMiddleware` |
| `Lookup`, `DropExpired`, `StoreResponse`, `PurgeExpired` | `responseCache` |
| `AskStore`, `AskPool`, `AskFails`, `ListTenantRepos`, `ExportRefused` | the handlers' queries, the export |
| `AdminList`, `Collect`, `Upsert` | `adminConn`, `platformstats` |
| `AddTenantRepos`, `DeactivateTenantRepo`, `Invalidate` | `addRepoHandler`, `deleteRepoHandler` |
| `ChangedElsewhere` | removals by webhooks and seeded samples, of this or another process, which invalidate nothing |
| `ConnMaxLifetime`, `Tick` | the pool's limits, the clock |

History variables: `lost` (a failed reset left a scope behind), `unapplied` (an
acknowledged write changed nothing), `elsewhere` (the last version of a
tenant's list that came from elsewhere), `overtaken` of an entry.

### SignIn and RateLimit

A browser has two cookies, the state of a sign-in and the session. A request
carries the cookies of the time it was sent, and what its answer sets reaches
the browser when the answer does, in any order, or never. A sign-in is a flow:
its number stands for the state token, the code and the session made from it
(all of them random and unguessable). `RateLimit` has the tokens and `lastSeen`
of every address; its `allow` and `deny` are conjuncts of `SignIn`'s actions.

| Action | Code |
|---|---|
| `oauthStartHandler`, `StartInVain` | `/auth/github` behind `rateLimitMiddleware` |
| `Authorize`, `OpenCallback`, `ExchangeCode`, `ExchangeRefused`, `FetchUser`, `AuthenticateUser` | GitHub's approval and `oauthCallbackHandler` step by step |
| `OpenPage`, `ValidateSession`, `OpenReset`, `DestroySession` | `RequireAuth`, `signoutHandler`, `/auth/reset` |
| `Receive`, `AnswerLost`, `StateExpires`, `SessionExpires`, `UpdateStatus` | browser, network, time, administrators |
| `Sweep`, `LimiterTick` | the limiter's ticker and clock |

### Digest

Time is counted in days; ages above the cooldown are not told apart, so the
clock needs no bound. A run lists the tenants once and then decides from that
list and from the time it began. `FirstAdmin` is the first name of
`DEVPULSE_ADMIN_USERS`, to whom `DIGEST_ADMIN_ONLY` restricts the digests, or
`Nobody` for an empty list, which restricts them to nobody: everybody is mailed.

| Action | Code |
|---|---|
| `sendDigests`, `adminDigestSend` | the first task of a job, the administrator's button |
| `List`, `SendDigest`, `NotSent`, `SendEmail`, `UpdateDigestLastSent`, `RunEnds`, `RunStops` | `digest.Run`, `sendDigest`; the answer of the mail service may be lost, the update may fail |
| `digestToggleHandler`, `digestUnsubscribeHandler`, `UpdateStatus`, `Midnight` | subscriptions, statuses, the calendar |

History variables: `since`, `unseen`, `stopped`, `spared`.

### Instance and SchemaLog

`Instance` has the processes of several releases, each with the migrations it
embeds (`Files`), two version tables and two advisory locks, and the handlers,
triggers and background tasks of a serving process. `SchemaLog` is the abstract
log of one set of migrations: each is executed at most once and in the order of
the numbers. `Instance` is shown to implement it for both sets
(`ExecutedInOrder`), with `log[s]` as the refinement mapping: the sequence of
migrations whose transaction committed.

| Action | Code |
|---|---|
| `Start`, `CreateTable`, `AdvisoryLock`, `ReadVersion`, `ApplyOneMigration`, `AdvisoryUnlock`, `StartFails` | `New`, `RunSaaSMigrations`, `applyMigrations` |
| `ConnMaxIdleTime` | a pooled session that kept the lock is closed |
| `Accept`, `HandlerEnds`, `TriggerEnds`, `TaskEnds` | requests, `TriggerRepoImportAsync`, `Submit` |
| `Sigterm`, `ListenFails`, `Shutdown`, `TriggersDrained`, `TasksDrained`, `Exit`, `Crash` | `Run` |

## 3. Runs

Runs that pass:

| Run | Checks | Instance and why it is enough |
|---|---|---|
| `import_overlap` | `WindowedHistoryComplete`, `FrontierSound` | two executions at once, an issue in the fresh window and a pull request in the first chunk, which is cut at the target, one update upstream, one kill or reset; flush in the middle of the listing (`BatchSize` 1) |
| `import_progress` | `FrontierSound`, `BackfillCompletes`, `FrontierNeverRises` | one execution at a time over three days, so that the windows move and a day can pass unseen, a reviewed pull request in the first chunk and a fork that comes on the first day, before or after a pass, or never; two listing failures, database errors or limits, so that a read of the frontier and the write after it, or both writes of it, can fail; fairness |
| `token_rotation` | `RoundRobinFair`, `PoolRecovers`, `DroughtOnlyDrains` | two tokens; two importers with two goroutines each, so that both can be refused with the token they share and each rotates, while the other importer takes tokens in between; a window of two ticks, so that expiry and use interleave; fairness |
| `job` | `WorkersDisjoint`, `SuccessMeansHandled`, `SenderIsHeard`, `BalancedShards`, `TaskEnds` | two tasks, or a task and an on-demand execution, with two workers each, so that the send loop waits when both return; three repositories of different and equal weight, counters one below the limit, one change of the tracked rows or their counts; fairness |
| `tenancy` | `LimitKeptBySerialAdds`, `AckedIsApplied`, `InstallationInStep`, `OncePerWindow` | a tenant, two repositories of which one is a sample, limits of one and two, two add requests, an administrator, an installation with two deliveries, two ticks with a window of two, four requests or events and one failure, restart or repetition; that an entry older than the window is collected is beyond its clock and left to the theorem |
| `data_api` | `OwnRowsOnly`, `PoolStatementsTakeEffect`, `StaleOnlyIfOvertaken`, `FreshStaysCached` | two tenants, one of which may export, two requests at once and three in all, of eight kinds, changes from elsewhere between them, two connections, a cache of two entries, entries that expire within the run, one failing statement |
| `instance` | `ServesMigrated`, `DrainedBeforeExit`, `LocksInOrder`, `ExecutedInOrder`, `StartEnds`, `StopEnds` | an old and a new release with migrations of their own in both sets, three starts, one failure, one kill, two pieces of work per process; fairness |
| `sign_in` | `OwnSession`, `AtMostRate` | two browsers behind one address, two requests under way, two flows, one failure, a rate of two |
| `digest` | `OncePerCooldown`, `UnsubscribedIsLeftAlone`, `NobodyIsSkipped` | two runs at once, an administrator and a user with different weekdays in a week of three days, two changes of subscriptions and statuses, any number of failures, unbounded time |
| `enrich` | `ReleasesComplete`, `NotInflated`, `ScoresComplete`, `VersionsCopied`, `NoStepInVain` | two overlapping imports, listings longer than a page, a version tied with the one before, users for a full chunk and one more, one change at GitHub and one midnight, one retry per phase, a failure or cancellation at any step |

The type invariants are proved (section 5), and the runs are left to the other
properties.

Runs that show a disagreement between a statement of the repository and the
code (`findings` in `PROJECT.json` quotes the statement):

| Run | Violates | What happens |
|---|---|---|
| `plan_limit` | `PlanLimit` | two requests add a repository each; either transaction counts the committed rows and its own upsert, and both commit over the limit |
| `import_killed` | `BackfillReachesTarget` | a first import is killed between the flush that stores its state rows and the write of the initial frontier; the repository does not change any more, and the skip check takes the NULL frontier for a finished backfill for ever |

Some properties name the exceptions the code has: they say that a bad outcome
has no other cause than the one named. `LimitKeptBySerialAdds` excepts
overlapping adds (`plan_limit` shows why), `PoolStatementsTakeEffect` a failed
reset of the scope, `StaleOnlyIfOvertaken` a response that was computed before
the change and stored after the invalidation, and changes from elsewhere;
`ReleasesComplete` an import cut off between two pages, `VersionsCopied` versions
created in the second of one that was the newest stored, `NotInflated` a flat
history, `OncePerCooldown` a mail the list could not show,
`UnsubscribedIsLeftAlone` a tenant who left after the list was read,
`AckedIsApplied` a delivery whose first attempt failed, `DrainedBeforeExit` a
handler past the timeout of the shutdown, `FrontierSound` what is in `missed`,
`gaps` and `unlisted`, `BackfillCompletes` a repository without state rows and
rows a failure left without a frontier. These outcomes are real: a hazard that
one of them is about has a note in `PROJECT.json` that says so.

Further behaviours the models have and that a reader should know of, without a
run of their own:

- A backfill pass sends GitHub the stored `since`, which is never lowered, so
  older issues and comments are not listed although the frontier passes them
  (`missed`). `WindowedHistoryComplete` is about the types that are filtered by
  date in the code.
- A repository without pushes is skipped, and one with too many errors left out,
  for any time; what happened between its last completed pass and the fresh
  window of the next one is never imported (`gaps`).
- A first fresh pass that failed is followed by the write of the initial
  frontier: its window is claimed, and listed only by a later fresh pass that
  still reaches it (`unlisted`).
- No events in the fresh window and in the first chunk, and no forks: `flush`
  returns before it stores a state row, so the frontier is never stored
  (`SaveBackfillUntil` updates no row), and the backfill of such a repository
  never goes beyond the first chunk. ARCHITECTURE.md (line 129) promises progress
  "even on quiet repos".
- ARCHITECTURE.md (line 123) gives the target depth as 90 days; `TargetDays`
  stands for whatever `EventAgeDaysDefault` is.
- Two goroutines refused with one token: the second exhausts the fresh token
  (`OnlyRefusedExhausted` of `TokenPool` does not hold).
- Two tasks that shard different snapshots of the event counts may import the
  same repository (`DisjointShards` of `ImportJob` does not hold).
- What the kill of `import_killed` does, two failures do as well (the write in
  `runFreshPass`, then the chunk or its own write). `Stranded` names the state,
  and `BackfillCompletes` excepts it.
- A failed read of the frontier counts as a NULL one: `runFreshPass` stores the
  fresh window in its place, and if that write fails too, the chunk that starts
  from the fresh window stores its own start when it is done. The backfill then
  repeats days it had covered. `FrontierNeverRises` excepts these two writes.
- A failed listing ends in a nil error of `ImportEvents`. The comment there says
  the caller learns of it; ARCHITECTURE.md (line 129) says that a failing event
  type does not block the backfill, which is what the code does. The items are
  in `missed`.
- An execution in flight during `HardResetRepo` writes its copies of the state
  rows back at its next flush.
- A repository turned away at the weekly limit counts as a success in
  `runWorkers`: its error counters are cleared.
- A release import that is cut off between two pages leaves the older releases
  out for good: the watermark is the newest one stored (`cut` in `Enrich`).
- A container version created in the same second as the newest stored one, and
  not listed with it, is never stored (`NewerThan`).
- A rate limit wait in `newRetryRL` goes round the loop with `continue` and so
  uses up an attempt, although the comment there says it retries "without
  consuming an attempt slot". `NoStepInVain` is about the code, and its
  comment says that it would not hold of what the comment in the code describes.
- Two overlapping imports that find the insights of a repository stale both pay
  for the LLM, and a save that fails makes the next import pay again.
- `DIGEST_ADMIN_ONLY` with an empty `DEVPULSE_ADMIN_USERS` mails everybody
  (`FirstAdmin`), while docs/EMAIL.md (line 19) says "`true` (default) = admin
  only". The digest is not sent at all when the first task of the job times out.
- Removals by webhooks and seeded samples do not invalidate cached overviews,
  and an answer computed before a change may be stored after its invalidation:
  both are served until they expire (`elsewhere`, `overtaken` in `DataApi`).
- Exports ask the pool for a second connection with their own in hand; as many at
  once as the pool has connections wait for each other until their requests end.
- A failed reset of `app.tenant_id` leaves the scope on the connection until the
  next request sets it or the connection is closed; statements through the pool
  may then change or count nothing but that tenant's rows (`lost`).
- A client that never pauses for a window is refused for good once its tokens are
  used: each request, a refused one too, moves `lastSeen` on.
- Signing out destroys one session: another one of the same user, or a sign-in
  under way in the same browser, stays live, and an error of `DestroySession` is
  dropped.
- A callback opened a second time after its answer set the session carries no
  state cookie any more: it clears the session of the first one, the case the
  comment in `oauthCallbackHandler` is about. It is served without loss only
  when both requests left the browser with the state cookie.
- "unsuspend" is not handled by the webhook: an installation stays suspended
  until it is created anew.
- A failed webhook attempt is remembered as seen, so GitHub's redelivery within
  the window is answered 200 and not carried out (`spoiled` in `Tenancy`).

`CHECK_DEADLOCK FALSE` is set for the models whose system may stop: a job ends,
the bounded requests of a web process come to an end, imports are done, exports
can hold all connections. `RepoImport` and `TokenPool` never stop.

Bounds. `MaxDay`, `MaxFaults`, `MaxTouches` (RepoImport), `MaxChanges`,
`OldCounts`, `OldErrors`, `Startable` (ImportJob), `MaxTime`, `MaxCalls`,
`MaxFaults` (Tenancy), `MaxNow`, `MaxRequests`, `MaxFaults` (DataApi),
`MaxFlows`, `MaxFaults` (SignIn), `MaxChanges` (Digest), `MaxDay`, `MaxChanges`, `OldTies`
(Enrich), `MaxBoots`, `MaxFaults`, `MaxCrashes`, `MaxWork` (Instance) bound the
runs. Every property is violated by its mutant under these bounds. The windows
of the import are one, one and two or three days instead of 21, 7 and `EventAgeDaysDefault`: the
code compares dates and subtracts window lengths, so what matters is that there
are chunks between the fresh window and the target, that the last chunk is cut
at the target, and that the target moves with the day. Likewise a week has
three days and a cooldown of two, a page three items, a chunk two users. The
theorems of section 5 hold for all values.

## 4. Fairness

- `RepoImport.FairSpec`, weak fairness of `Work(p)`: executions are scheduled
  every two hours, and an execution that is not killed goes on. Nothing is
  assumed of GitHub, of limits or of errors; those are bounded by `MaxFaults`,
  that is, they stop at some time.
- `TokenPool.FairPoolSpec`, weak fairness of `Tick`: time passes. Importers and
  GitHub may do as they like, or stop.
- `ImportJob.FairSpec`, weak fairness of the steps of the tasks and executions
  taken together: some started task goes on as long as one can, which is less
  than the scheduling of goroutines gives; imports end, because requests time out and retries are
  bounded (`transientRetryAttempts`). No timeout is assumed to fire.
- `Instance.Spec`, weak fairness of every step of a starting or stopping
  process, of the end of triggers and tasks (both have deadlines) and of the
  pool's maximal idle time; strong fairness of `AdvisoryLock`, because
  PostgreSQL grants a lock to its waiters in turn. Nothing is assumed of
  handlers: `Shutdown` has a timeout. `StartEnds` needs the idle time: an
  unlock that failed leaves the lock with a pooled session.

`NoStepInVain` of `Enrich` shows the termination of an import without fairness:
every step lowers a measure (phases left, attempts left, step, page, chunk).

## 5. What is proved

All theorems hold for every value of the constants that satisfies the named
assumptions; TLC evaluates the assumptions in every run.

**RepoImportProofs.** `TypeCorrect`, `FrontierTheorem` (`FrontierSound`) and
`WindowedHistoryTheorem` (`WindowedHistoryComplete`), for any number of
executions, items, types and days. `FrontierSound` is not inductive: it speaks
of stored frontiers only, while an execution carries a frontier it loaded and
will write back, a window it is working on, and items in its list. The
invariant `ImportInv` adds

- `CalendarInv`: no completed pass and no item is of a later day than today;
- `CoveredInv`: the days `[floor, through)` are accounted for, but for `gaps`
  and `unlisted`;
- `FrontierInv`: stored frontiers lie within these days;
- `ExecutionInv`: so do the frontiers an execution remembers; its window
  touches them, so that completing it extends them without a gap; and every
  item of the window whose type it has listed is stored, missed, in its list or
  being flushed.

`NoErrorInv` adds that without API and database errors only `since` filters and
review dates lose items. Assumptions: `TypesAssumption`, `ItemAssumption` and
`WindowAssumption`. Nothing is assumed of how often passes complete: a fresh
window that does not reach back to the last completed pass leaves the days in
between in `gaps`.

`FrontierMonotone` (`FrontierNeverRises`) assumes instead that executions do not
overlap and that no administrator resets the repository: a flush writes back the
frontier its pass loaded, which undoes what another execution or the reset wrote
in between. Its invariant `DepthInv` says that state rows with a frontier exist
(so that a write reaches them), that a pass has loaded the frontier stored now,
and that, unless the read failed, an execution initialises the frontier only if
none is stored and works on a chunk no newer than any stored one. `NoFrontier`,
that a NULL answer means no row has a frontier, rests on there being at most
five event types: their frontiers have a minimum.

**PhaseProofs, token pool.** `PoolTypeCorrect`, `RoundRobinTheorem`
(`RoundRobinFair`) and `DroughtTheorem` (`DroughtOnlyDrains`) for every pool
size, window, number of importers and goroutines. The invariant `OwedInv` says
that the tokens owed to a token are eligible and lie before it on the scan's
way. A goroutine between the two halves of `rotateToken` has the importer's lock
and no token it may use. `DroughtOnlyDrains` is the safety half of `PoolRecovers`: while every token
is exhausted the scan finds none, so the importers that hold a token only become
fewer, and whoever lengthens a window gives up its own token. Between two of
these finitely many steps only the clock moves `left`, and downwards.

**PhaseProofs, enrichment.** `EnrichInvariant`, `ReleasesTheorem`
(`ReleasesComplete`), `VersionsTheorem` (`VersionsComplete`), `CopyTheorem`
(`VersionsCopied`, the refinement of `ListingCopy`), `StarsTheorem`
(`NotInflated`), `ScoresTheorem` (`ScoresComplete`) and `ProgressTheorem`
(`NoStepInVain`), for any number of
overlapping imports, any page and chunk size, window, age, number of retries and
of calls, from `EnrichAssumption`. The invariant `EnrichInv` is `TypeOK` with

- `ReleaseInv`: a release below one that is stored, or vouched for, is missing
  only while some import that has stored the pages above it is still to read it
  (`Pending`), unless an import was cut off between two pages. A page that is
  stored hands the obligation down to the next page; an import that stops at its
  watermark relies on that watermark being stored, so what is missing below it
  was expected before and is pending with another import. `ReleasesComplete`
  alone is not inductive, because a release may be missing while an import that
  began earlier is between its pages.
- `VersionInv`: what the table lacks below its newest version is tied to the
  version before it, and of each second the table has the first versions; what
  an import has in its open transaction is all that is newer than its watermark,
  down to the pages it is still to read (`Gathered`). A version that is pushed
  meanwhile moves the pages down by one, which repeats an item and skips none
  (`GatheredPush`, `GatheredPage`). What is newer than a watermark is, with a
  version, every later one (`NewAbove`), so the commit leaves out no second but
  the watermark's (`CommitCopies`) and reaches as far as was vouched for
  (`VersionsComplete`), which is the step of `ListingCopy`.
- `StarInv`: stars by day only grow, the total an import read is at most what
  GitHub has now, and the curve it is to write is nowhere above it. The total is
  read before the listing, so every star given in between is taken off.
- `ScoreInv`: a user without a score is still on the list of every import that
  selected its users since the user had events.

The lemmas `Lands` and `Writes` say which actions lead into the middle of a phase
and which write a row, so that each part of the invariant needs a proof for those
actions only. Pages are read through `Paging`: a page holds the numbers between
what it and what the next page leave unread. A watermark exists (`MaxExists`)
because the distances to the bound of a set have a minimum. `ProgressTheorem`
compares a lexicographic measure before and after each action (`Nearer`).

**ImportJobProofs.** `TypeCorrect`; `BalanceTheorem` (`BalancedShards`) from
`ShardInv` (what is assigned is at least as heavy as what is left);
`DisjointTheorem` (`WorkersDisjoint`) and `SuccessTheorem`
(`SuccessMeansHandled`) from `DispatchInv` (until a task ends, every repository
of its shard is handled, in a worker's hands or still to be sent, unless the
context is done, and nothing else is); `SenderTheorem` (`SenderIsHeard`) from
`HeardInv`, which begins before the first send.

**DigestProofs.** `TypeCorrect`, `CooldownTheorem` (`OncePerCooldown`),
`UnsubscribedTheorem` (`UnsubscribedIsLeftAlone`) and `NobodyTheorem`
(`NobodyIsSkipped`), for any tenants, runs, failures and kills. The three are
action properties about the step that mails or ends; the invariant `DigestInv`
carries what a run read to that step: `AtHandInv` (the tenant at hand has left
the list), `CooldownInv` (a tenant of the list has had no mail within the
cooldown unless the list could not show it), `StoppedInv` (a tenant of the list
qualifies unless it stopped since), `RecordInv` (the recorded time stands for a
mail that was sent, up to the one midnight a run may outlive) and `SkippedInv`
(who was due is still ahead, was mailed, or failed).

**InstanceProofs.** `TypeCorrect`, `SchemaTheorem` (`ServesMigrated`),
`LogTheorem` (`ExecutedInOrder`, the refinement of `SchemaLog`) and
`DrainTheorem` (`DrainedBeforeExit`), for any processes and releases and any
number of starts, failures, kills and requests. `InstanceAssumption` has the
numbering rule: a release that embeds a migration embeds every lower one that
any release has. `MigrationInv` consists of `LogInv` (the log of a set ascends
and is its version table), `ClosedInv` (below an executed migration none is
missing) and, for each process, `ProcOK`: between the read and the unlock it has
the lock of its set, `todo` is what the table lacks, and the sets it left are
complete. Mutual exclusion gives that no other process changes the table `todo`
was computed from, the numbering rule gives `ClosedInv`, and the two give both
theorems. `DrainInv` says that what was waited for is gone and stays gone,
handlers first because they leave the rest behind. `LockTheorem`
(`LocksInOrder`) rests on `LockInv`: a process that migrates a set has no lock of
a later one, and a process that dies keeps none. It is the safety half of
`StartEnds`: a session that waits is waited for by nobody it waits for.

**TenancyProofs.** `TypeCorrect`, `SerialAddsKeepLimit`
(`LimitKeptBySerialAdds`), `AcknowledgedIsApplied` (`AckedIsApplied`),
`HandledOncePerWindow` (`OncePerWindow`) and `InstallationsFollow`
(`InstallationInStep`), for any tenants, repositories, plans, requests,
administrators, processes, installations and deliveries. `LimitInv` follows the
transaction of `AddTenantRepos`: the plan of a tenant is one of those it had,
at most one transaction of a tenant that did not race is open, and what an
open transaction is about to commit was counted against one of those plans.
The last part is why overlapping adds must be excepted: another commit makes the
count of an open transaction stale. Every other statement (deletions, samples,
seeds, webhooks) leaves a tenant no more repositories of its own than it had
(`RowsShrink`), and what fitted still fits (`FitsShrinks`). `HookInv` says that a delivery a process remembers was handled,
is being handled or failed, and that it is remembered for as long as the window
lasts, whatever the collection of old entries removes. `LatestInv` says what
GitHub's state is after its latest event and what the handler of that event left
in the row, until another delivery is handled. `TenancyAssumption` asks
that `None` is no tenant, plan, number, payload or set of repositories.

**SignInProofs.** `TypeCorrect`, `RateKept` (`AtMostRate`) and `SessionsAreOwn`
(`OwnSession`), for any browsers, addresses, flows, requests under way, rates
and windows. `OwnSession` is about cookies and answers; `SignInInv` carries it
back to the request: a callback past the comparison of the states is one of the
browser that began the flow (`RequestOK`), cookies name flows of their browser
and sessions that were made (`CookiesOK`), and an answer sets only such ones
(`ResponseOK`). `RedeemedOnce`: GitHub takes a code once, so the one request that
took it makes the session, and no late one makes it again. `LimiterInv` accounts for the tokens of an
address: used and left they are at most `Rate`, and everything admitted was
admitted when the address was last seen or before, so a refill after a silent
window finds the history empty. The history is kept as a sequence of ages,
oldest first, and a tick keeps a suffix of it (`Aged`), which the provers can
count.

**DataApiProofs.** `TypeCorrect`, `TenantsIsolated` (`OwnRowsOnly`),
`PoolStatementsApply` (`PoolStatementsTakeEffect`), `OnlyOvertakenIsStale`
(`StaleOnlyIfOvertaken`) and `FreshEntriesStay` (`FreshStaysCached`), for any tenants, requests, connections,
query strings, cache sizes and times to live, and any of the routes: where the
run serves eight of them, `ServedRoutes` goes through the whole table and shows
what the proofs need of every handler (what lists through the pool has a
connection of its own, and the overview is read through the pool and not
answered without what could not be read).
`DataApiInv` consists of `PoolInv` (connections and the requests that hold them
agree, a request past `SetScope` has its tenant's scope on its connection, and
as long as no reset failed idle connections have none), `CacheInv` (entries hold
rows of their own tenant), `OnRoute` (a request is at a step of its route, and
holds a connection at the steps where the middleware gave it one) and
`Observed` (what it found expired is expired, what it read before a reset failed
is complete). `Evicted` and `Stored` are lemmas about `evictLocked` and
`setWithTTL`: what stays is unchanged, and only a full cache loses an entry.
`RoutesAssumption` asks that the served routes are in the table.

Only model-checked, besides the two runs that refute a statement: the liveness
properties `BackfillCompletes`, `PoolRecovers`,
`TaskEnds`, `StartEnds` and `StopEnds`. They rest on fairness, which is outside
the proof system's reach; what can be said of them without it is proved
(`FrontierNeverRises`, `DroughtOnlyDrains`, `SenderIsHeard`, `LocksInOrder`,
`DrainedBeforeExit`). Every other property of the passing runs is also a theorem.

## 6. What is not modelled

- The rows of pull request sizes, developers, affiliations and entities: upserts
  of values the API returned, which no other part decides on.
- Token collection and quota samples: rows for charts.
- Health scores: floating point arithmetic over one query's result.
- The SQL of the dashboards. `DataApi` has every route as an entry of a table
  (whose rows it reads, on which connection, cached or not), not what it computes.
- Rendering of pages, admin lists and charts; configuration, logging, version;
  security headers and panic recovery.
- The text an LLM returns, and the signatures of App tokens and webhooks.
- `DeleteRepoData`, which no part of the program calls.
- Torn reads of `e.client`: `TokenPool` lets a request read the old or the new
  client.

## 7. Plan

1. An abstract specification of the import, an interval of covered days that
   only grows, which `RepoImport` implements under a refinement mapping, and one
   of the job (every repository handled once) for `ImportJob`.
2. A module for pull request sizes (the set of pull requests without a size
   shrinks) and one for the circuit breaker over several executions.
