------------------------------- MODULE DataApi -------------------------------
(***************************************************************************)
(* The read side of one web server process: the pool of database           *)
(* connections and the tenant scope (app.tenant_id) each of them carries,  *)
(* the in-memory response cache, and the requests that go through both.    *)
(*                                                                         *)
(* Row level security decides which rows a statement sees from the scope   *)
(* of the connection it happens to run on: a scoped connection sees the    *)
(* rows of that tenant, a cleared one sees every row.  The scope is set at *)
(* session level, so it stays with the connection when the connection goes *)
(* back to the pool.  A response body is abstracted to the tenants whose   *)
(* rows are in it and the version of the requesting tenant's data it       *)
(* shows.                                                                  *)
(***************************************************************************)
EXTENDS Naturals, FiniteSets, FiniteSetsExt

CONSTANTS
    Tenant,        \* tenants with a session
    Exporter,      \* the tenants whose plan has the CSV export
    Cleared,       \* the empty app.tenant_id
    Req,           \* requests in flight at once
    Conn,          \* connections of the pool (MaxOpenConns of them)
    NoReq,         \* nobody holds the connection
    NoConn,        \* the request holds no connection
    Query,         \* query strings of one path (they are part of the key)
    Served,        \* the routes of this instance, a subset of Routes
    ServerTTL,     \* serverCacheTTL, in ticks
    MaxTTL,        \* maxCacheTTL, in ticks
    MaxEntries,    \* maxEntries of the cache
    MaxNow,        \* bound: ticks of the clock
    MaxRequests,   \* bound: requests that arrive, and changes made elsewhere
    MaxFaults      \* bound: failing statements

ASSUME DataApiAssumption ==
    /\ ServerTTL \in Nat /\ MaxTTL \in Nat /\ ServerTTL <= MaxTTL
    /\ MaxEntries \in Nat \ {0}
    /\ MaxNow \in Nat /\ MaxRequests \in Nat /\ MaxFaults \in Nat
    /\ Exporter \subseteq Tenant /\ Query # {}
    /\ Cleared \notin Tenant /\ NoReq \notin Req /\ NoConn \notin Conn

VARIABLES
    conn,      \* [Conn -> who holds it, and its app.tenant_id]
    cache,     \* apiCache.entries: key -> entry
    req,       \* [Req -> the state of the request's goroutine]
    ver,       \* [Tenant -> how often its list of repositories changed]
    stats,     \* devpulse_platform_stats: the tenants whose rows today's row counts
    now, arrived, faults,
    (* history *)
    elsewhere, \* [Tenant -> its last version due to a change made elsewhere]
    lost,      \* a failed reset left its scope on a pooled connection
    unapplied  \* an acknowledged write changed nothing

vars == <<conn, cache, req, ver, stats, now, arrived, faults, elsewhere, lost, unapplied>>

-----------------------------------------------------------------------------
(* The routes.  "on" is the connection a handler's statements run on: the  *)
(* request's own scoped one, any of the pool's, or one that is cleared     *)
(* first; the handlers that change something or count the platform are     *)
(* named for it.  "tolerant" says that a handler answers although some of  *)
(* its queries failed, "ttl" how long the answer is cached, "lists" that   *)
(* it also lists the tenant's repositories through the pool while it holds *)
(* its own connection.                                                     *)

insightHandler ==
    [on |-> "own", tolerant |-> FALSE, ttl |-> "server", lists |-> FALSE]

insightWithEntityHandler == insightHandler

uncachedHandler ==
    [on |-> "own", tolerant |-> FALSE, ttl |-> "none", lists |-> FALSE]

batchHandler ==
    [on |-> "own", tolerant |-> TRUE, ttl |-> "request", lists |-> FALSE]

pageHandler ==
    [on |-> "pool", tolerant |-> TRUE, ttl |-> "none", lists |-> FALSE]

adminHandler ==
    [on |-> "cleared", tolerant |-> FALSE, ttl |-> "none", lists |-> FALSE]

(* One chart each, by organisation, repository and entity. *)
entityInsights ==
    [path \in {"summary", "dailyActivity", "retention", "prRatio", "timeToMerge", "timeToClose",
               "timeToRestore", "failureRate", "reviewLatency", "prSize", "momentum", "funnel",
               "firstResponse", "issueRatio", "forks", "composition", "releaseCadence"}
       |-> insightWithEntityHandler]

(* By organisation and repository. *)
repoInsights ==
    [path \in {"metricHistory", "downloads", "downloadsByTag", "containers"} |-> insightHandler]

repoRoutes == [path \in {"repoMeta", "repoOverview"} |-> uncachedHandler]

(* One contributor, and the search for one. *)
contributorRoutes == [path \in {"profile", "developerSearch"} |-> uncachedHandler]

signalRoutes == [path \in {"signals", "portfolio"} |-> uncachedHandler]

(* Shares by developer and by entity, and the series of event types. *)
percentageAPIHandler == uncachedHandler

shareRoutes == [path \in {"developer", "entity", "type"} |-> percentageAPIHandler]

(* The first event, the search boxes, an entity's developers, the text of   *)
(* the LLM.                                                                 *)
minDateAPIHandler == uncachedHandler
queryAPIHandler == uncachedHandler
eventSearchAPIHandler == uncachedHandler
entityDevelopersAPIHandler == uncachedHandler
insightsGeneratedAPIHandler == uncachedHandler

(* The scorecard leaves out the metrics it could not read. *)
insightsHealthScorecardHandler == [uncachedHandler EXCEPT !.tolerant = TRUE]

(* The tabs of the dashboard, each with the charts that could be read. *)
batchHealthHandler == batchHandler
batchActivityHandler == batchHandler
batchVelocityHandler == batchHandler
batchQualityHandler == batchHandler
batchCommunityHandler == batchHandler

(* The export lists the repositories through the pool, with its own        *)
(* connection in hand; a file whose query fails is left out.               *)
csvExportHandler == [uncachedHandler EXCEPT !.tolerant = TRUE, !.lists = TRUE]

dataRoutes ==
    [health           |-> batchHealthHandler,
     activity         |-> batchActivityHandler,
     velocity         |-> batchVelocityHandler,
     quality          |-> batchQualityHandler,
     community        |-> batchCommunityHandler,
     scorecard        |-> insightsHealthScorecardHandler,
     minDate          |-> minDateAPIHandler,
     query            |-> queryAPIHandler,
     search           |-> eventSearchAPIHandler,
     entityDevelopers |-> entityDevelopersAPIHandler,
     generated        |-> insightsGeneratedAPIHandler,
     export           |-> csvExportHandler]

repoOverviewHandler == [pageHandler EXCEPT !.tolerant = FALSE, !.ttl = "request"]

tenantListHandler == [pageHandler EXCEPT !.tolerant = FALSE]

(* Pages that are rendered whether or not their queries succeed, and       *)
(* GitHub's search minus the repositories that are already tracked.        *)
dashboardHandler == pageHandler
settingsHandler == pageHandler
availableReposHandler == pageHandler

(* The changes of the tenant's list that are made in this process. *)
addRepoHandler == [on |-> "add", tolerant |-> FALSE, ttl |-> "none", lists |-> FALSE]
deleteRepoHandler == [on |-> "write", tolerant |-> FALSE, ttl |-> "none", lists |-> FALSE]

tenantRoutes ==
    [overview  |-> repoOverviewHandler,
     list      |-> tenantListHandler,
     dashboard |-> dashboardHandler,
     settings  |-> settingsHandler,
     available |-> availableReposHandler,
     add       |-> addRepoHandler,
     delete    |-> deleteRepoHandler]

adminTenantsHandler == adminHandler
adminTenantDetailHandler == adminHandler

(* The administrator's start page counts the rows of the whole platform on *)
(* a connection of the pool, as it comes, and saves the counts.            *)
adminDashboardHandler ==
    [on |-> "stats", tolerant |-> FALSE, ttl |-> "none", lists |-> FALSE]

adminRoutes ==
    [admin       |-> adminTenantsHandler,
     adminTenant |-> adminTenantDetailHandler,
     stats       |-> adminDashboardHandler]

(* The routes of two tables. *)
f ++ g == [path \in DOMAIN f \cup DOMAIN g |-> IF path \in DOMAIN f THEN f[path] ELSE g[path]]

(* makeRouter *)
Routes == entityInsights ++ repoInsights ++ repoRoutes ++ contributorRoutes ++ signalRoutes
            ++ shareRoutes ++ dataRoutes ++ tenantRoutes ++ adminRoutes

ASSUME RoutesAssumption == Served \subseteq DOMAIN Routes

-----------------------------------------------------------------------------
(* Row level security. *)

(* The policies' rows for a connection's scope: bypass_when_no_tenant shows *)
(* everything to a cleared one.                                            *)
Visible(scope) == IF scope = Cleared THEN Tenant ELSE {scope}

(* Statements on the pool name the tenant themselves; row level security   *)
(* of whatever connection they get applies as well.                        *)
VisibleOf(scope, t) == Visible(scope) \cap {t}

Idle == {c \in Conn : conn[c].by = NoReq}

-----------------------------------------------------------------------------
(* The response cache. *)

(* Wrong variant: the key has no tenant. *)
KeyWithoutTenant(r) ==
    [tenant |-> CHOOSE t \in Tenant : TRUE, path |-> req[r].path, q |-> req[r].q]

dataCacheKey(r) == [tenant |-> req[r].tenant, path |-> req[r].path, q |-> req[r].q]

Keys == [tenant : Tenant, path : Served, q : Query]

(* requestCacheTTL: the ttl parameter, clamped. *)
requestCacheTTL(asked) ==
    IF asked < ServerTTL THEN ServerTTL ELSE IF asked > MaxTTL THEN MaxTTL ELSE asked

TTLs(route) == CASE route.ttl = "server"  -> {ServerTTL}
                 [] route.ttl = "request" -> {requestCacheTTL(a) : a \in 0 .. MaxTTL + 1}
                 [] OTHER                 -> {}

Expired(e) == now > e.expires

Without(c, keys) == [k \in DOMAIN c \ keys |-> c[k]]

(* evictLocked: over the limit, the expired entries go; if that is not     *)
(* enough, the ones that expire soonest, down to nine tenths of the limit. *)
evictLocked(c) ==
    LET live == {k \in DOMAIN c : ~Expired(c[k])}
        kept == MaxEntries - MaxEntries \div 10
    IN  IF Cardinality(DOMAIN c) <= MaxEntries THEN {c}
        ELSE IF Cardinality(live) <= MaxEntries THEN {Without(c, DOMAIN c \ live)}
        ELSE {Without(c, live \ keep) :
                 keep \in {s \in kSubset(kept, live) :
                              \A k \in s, l \in live \ s : c[k].expires >= c[l].expires}}

setWithTTL(key, e) ==
    evictLocked([k \in DOMAIN cache \cup {key} |-> IF k = key THEN e ELSE cache[k]])

(* Wrong variant: the exact key is deleted, not every key with the prefix. *)
InvalidateOne(t) ==
    Without(cache, {k \in DOMAIN cache : k.tenant = t /\ k.path = "overview"
                                           /\ k.q = CHOOSE q \in Query : TRUE})

invalidatePrefix(t) ==
    Without(cache, {k \in DOMAIN cache : k.tenant = t /\ k.path = "overview"})

-----------------------------------------------------------------------------
Idled == [pc |-> "idle"]

Init ==
    /\ conn = [c \in Conn |-> [by |-> NoReq, scope |-> Cleared]]
    /\ cache = <<>>
    /\ req = [r \in Req |-> Idled]
    /\ ver = [t \in Tenant |-> 0] /\ elsewhere = [t \in Tenant |-> 0]
    /\ stats = Tenant
    /\ now = 0 /\ arrived = 0 /\ faults = 0
    /\ lost = FALSE /\ unapplied = FALSE

Fault == faults < MaxFaults /\ faults' = faults + 1

Route(r) == Routes[req[r].path]

Holds(r) == req[r].conn # NoConn

(* The handler returns; a request with a connection of its own releases it. *)
Answer(r, rows) ==
    req' = [req EXCEPT ![r].pc = IF Holds(r) THEN "release" ELSE "done", ![r].rows = rows]

Goto(r, pc) == req' = [req EXCEPT ![r].pc = pc]

At(r, pc) == req[r].pc = pc

(* Where a request goes once its session is valid. *)
AfterAuth(route) ==
    CASE route.on = "own"                           -> "acquire"
      [] route.on = "pool" /\ route.ttl # "none"    -> "lookup"
      [] route.on = "pool"                          -> "ask"
      [] route.on = "cleared"                       -> "admin"
      [] route.on = "stats"                         -> "collect"
      [] route.on \in {"add", "write"}              -> route.on

(* The query string tells requests of a cached route apart, by their key. *)
Variants(path) == IF Routes[path].ttl = "none" THEN {CHOOSE q \in Query : TRUE} ELSE Query

-----------------------------------------------------------------------------
(* A request of a signed-in tenant. *)
Arrive(r, t, path, q) ==
    /\ At(r, "idle")
    /\ arrived < MaxRequests
    /\ arrived' = arrived + 1
    /\ req' = [req EXCEPT ![r] = [pc |-> "auth", tenant |-> t, path |-> path, q |-> q,
                                  conn |-> NoConn, rows |-> {}, seen |-> 0, old |-> {}]]
    /\ UNCHANGED <<conn, cache, ver, stats, now, faults, lost, unapplied, elsewhere>>

(* RequireAuth and ValidateSession: a connection is taken from the pool,   *)
(* its scope cleared for good, the session looked up, the connection given *)
(* back.  Any error sends the visitor to the login page.                   *)
ValidateSession(r, c) ==
    /\ At(r, "auth") /\ c \in Idle
    /\ conn' = [conn EXCEPT ![c].scope = Cleared]
    /\ Goto(r, AfterAuth(Route(r)))
    /\ UNCHANGED <<cache, ver, stats, now, arrived, faults, lost, unapplied, elsewhere>>

ValidationFails(r) ==
    /\ At(r, "auth") /\ Fault
    /\ Answer(r, {})
    /\ UNCHANGED <<conn, cache, ver, stats, now, arrived, lost, unapplied, elsewhere>>

(* ScopedStoreMiddleware: a dedicated connection for the request ... *)
AcquireConn(r, c) ==
    /\ At(r, "acquire") /\ c \in Idle
    /\ conn' = [conn EXCEPT ![c].by = r]
    /\ req' = [req EXCEPT ![r].pc = "scope", ![r].conn = c]
    /\ UNCHANGED <<cache, ver, stats, now, arrived, faults, lost, unapplied, elsewhere>>

(* ... scoped to its tenant ... *)
SetScope(r) ==
    /\ At(r, "scope")
    /\ \/ /\ conn' = [conn EXCEPT ![req[r].conn].scope = req[r].tenant]
          /\ Goto(r, CASE Route(r).lists        -> "list"
                       [] Route(r).ttl = "none" -> "ask"
                       [] OTHER                 -> "lookup")
          /\ UNCHANGED faults
       \/ /\ Fault
          /\ Answer(r, {})
          /\ UNCHANGED conn
    /\ UNCHANGED <<cache, ver, stats, now, arrived, lost, unapplied, elsewhere>>

(* Wrong variant: the connection goes back with its scope. *)
ReleaseUnreset(r) ==
    /\ At(r, "release")
    /\ conn' = [conn EXCEPT ![req[r].conn].by = NoReq]
    /\ req' = [req EXCEPT ![r].pc = "done", ![r].conn = NoConn]
    /\ UNCHANGED <<cache, ver, stats, now, arrived, faults, lost, unapplied, elsewhere>>

(* ... and cleared before it goes back to the pool.  The error of that      *)
(* statement is dropped: either the driver gave the connection up with it,  *)
(* or the connection is pooled with the tenant's scope still set.           *)
ReleaseConn(r) ==
    /\ At(r, "release")
    /\ \/ /\ conn' = [conn EXCEPT ![req[r].conn] = [by |-> NoReq, scope |-> Cleared]]
          /\ UNCHANGED <<faults, lost>>
       \/ /\ Fault
          /\ conn' = [conn EXCEPT ![req[r].conn].by = NoReq]
          /\ lost' = TRUE
    /\ req' = [req EXCEPT ![r].pc = "done", ![r].conn = NoConn]
    /\ UNCHANGED <<cache, ver, stats, now, arrived, unapplied, elsewhere>>

(* responseCache.get: a fresh entry is the answer; an expired one is       *)
(* remembered and dropped under the write lock, if it is still there.      *)
Lookup(r) ==
    /\ At(r, "lookup")
    /\ LET k == dataCacheKey(r) IN
       \/ /\ k \notin DOMAIN cache
          /\ Goto(r, "ask")
       \/ /\ k \in DOMAIN cache /\ ~Expired(cache[k])
          /\ Answer(r, cache[k].rows)
       \/ /\ k \in DOMAIN cache /\ Expired(cache[k])
          /\ req' = [req EXCEPT ![r].pc = "expired", ![r].old = {cache[k]}]
    /\ UNCHANGED <<conn, cache, ver, stats, now, arrived, faults, lost, unapplied, elsewhere>>

(* Wrong variant: the entry is not looked at again under the write lock. *)
DropUnchecked(r) ==
    /\ At(r, "expired")
    /\ cache' = Without(cache, {dataCacheKey(r)})
    /\ req' = [req EXCEPT ![r].pc = "ask", ![r].old = {}]
    /\ UNCHANGED <<conn, ver, stats, now, arrived, faults, lost, unapplied, elsewhere>>

DropExpired(r) ==
    /\ At(r, "expired")
    /\ LET k == dataCacheKey(r) IN
       cache' = IF k \in DOMAIN cache /\ cache[k] \in req[r].old
                THEN Without(cache, {k}) ELSE cache
    /\ req' = [req EXCEPT ![r].pc = "ask", ![r].old = {}]
    /\ UNCHANGED <<conn, ver, stats, now, arrived, faults, lost, unapplied, elsewhere>>

(* The export's list of repositories, on a second connection.  Without an  *)
(* active repository the answer is 404.                                    *)
ListTenantRepos(r, c) ==
    /\ At(r, "list") /\ req[r].tenant \in Exporter /\ c \in Idle
    /\ IF VisibleOf(conn[c].scope, req[r].tenant) = {} THEN Answer(r, {}) ELSE Goto(r, "ask")
    /\ UNCHANGED <<conn, cache, ver, stats, now, arrived, faults, lost, unapplied, elsewhere>>

(* A plan without exports: 403. *)
ExportRefused(r) ==
    /\ At(r, "list") /\ req[r].tenant \notin Exporter
    /\ Answer(r, {})
    /\ UNCHANGED <<conn, cache, ver, stats, now, arrived, faults, lost, unapplied, elsewhere>>

(* The handler's queries gave these rows: they are cached or sent. *)
Asked(r, rows) ==
    IF Route(r).ttl = "none" THEN Answer(r, rows)
    ELSE req' = [req EXCEPT ![r].pc = "store", ![r].rows = rows,
                            ![r].seen = ver[req[r].tenant]]

(* A scoped store's queries.  A tolerant handler answers without the parts  *)
(* that failed, be it all of them, and caches that answer like any other.   *)
AskStore(r) ==
    /\ At(r, "ask") /\ Holds(r)
    /\ \/ Asked(r, Visible(conn[req[r].conn].scope)) /\ UNCHANGED faults
       \/ /\ Route(r).tolerant /\ Fault
          /\ \E rows \in {Visible(conn[req[r].conn].scope), {}} : Asked(r, rows)
    /\ UNCHANGED <<conn, cache, ver, stats, now, arrived, lost, unapplied, elsewhere>>

(* GetOverview, the lists and the pages, on any connection of the pool.    *)
(* Only a page is shown without what it could not read.                    *)
AskPool(r, c) ==
    /\ At(r, "ask") /\ ~Holds(r) /\ c \in Idle
    /\ \/ Asked(r, VisibleOf(conn[c].scope, req[r].tenant)) /\ UNCHANGED faults
       \/ Route(r).tolerant /\ Fault /\ Asked(r, {})
    /\ UNCHANGED <<conn, cache, ver, stats, now, arrived, lost, unapplied, elsewhere>>

AskFails(r) ==
    /\ req[r].pc \in {"ask", "list", "admin", "collect", "upsert", "add", "write"}
    /\ ~(At(r, "ask") /\ Route(r).tolerant)
    /\ Fault
    /\ Answer(r, {})
    /\ UNCHANGED <<conn, cache, ver, stats, now, arrived, lost, unapplied, elsewhere>>

(* adminConn: take a connection, clear its scope for good, then query. *)
AdminList(r, c) ==
    /\ At(r, "admin") /\ c \in Idle
    /\ conn' = [conn EXCEPT ![c].scope = Cleared]
    /\ Answer(r, Visible(conn'[c].scope))
    /\ UNCHANGED <<cache, ver, stats, now, arrived, faults, lost, unapplied, elsewhere>>

(* platformstats.Collect and Upsert: counted on whatever connection the    *)
(* pool gives, then saved as today's row (no row level security on it).    *)
Collect(r, c) ==
    /\ At(r, "collect") /\ c \in Idle
    /\ req' = [req EXCEPT ![r].pc = "upsert", ![r].rows = Visible(conn[c].scope)]
    /\ UNCHANGED <<conn, cache, ver, stats, now, arrived, faults, lost, unapplied, elsewhere>>

Upsert(r, c) ==
    /\ At(r, "upsert") /\ c \in Idle
    /\ stats' = req[r].rows
    /\ Answer(r, req[r].rows)
    /\ UNCHANGED <<conn, cache, ver, now, arrived, faults, lost, unapplied, elsewhere>>

StoreResponse(r) ==
    /\ At(r, "store")
    /\ \E ttl \in TTLs(Route(r)) :
          cache' \in setWithTTL(dataCacheKey(r),
                         [rows |-> req[r].rows, ver |-> req[r].seen, expires |-> now + ttl,
                          overtaken |-> ver[req[r].tenant] > req[r].seen])
    /\ Answer(r, req[r].rows)
    /\ UNCHANGED <<conn, ver, stats, now, arrived, faults, lost, unapplied, elsewhere>>

(* DeactivateTenantRepo: an UPDATE that finds no row is not an error. *)
DeactivateTenantRepo(r, c) ==
    /\ At(r, "write") /\ c \in Idle
    /\ IF VisibleOf(conn[c].scope, req[r].tenant) # {}
       THEN ver' = [ver EXCEPT ![req[r].tenant] = @ + 1] /\ UNCHANGED unapplied
       ELSE unapplied' = TRUE /\ UNCHANGED ver
    /\ Goto(r, "invalidate")
    /\ UNCHANGED <<conn, cache, stats, now, arrived, faults, lost, elsewhere>>

(* AddTenantRepos: the policy refuses a row of another tenant than the      *)
(* scope's, which is an error.                                              *)
AddTenantRepos(r, c) ==
    /\ At(r, "add") /\ c \in Idle
    /\ IF VisibleOf(conn[c].scope, req[r].tenant) # {}
       THEN ver' = [ver EXCEPT ![req[r].tenant] = @ + 1] /\ Goto(r, "invalidate")
       ELSE Answer(r, {}) /\ UNCHANGED ver
    /\ UNCHANGED <<conn, cache, stats, now, arrived, faults, lost, unapplied, elsewhere>>

(* The answer to the change is sent once the cached overviews are gone. *)
Invalidate(r) ==
    /\ At(r, "invalidate")
    /\ cache' = invalidatePrefix(req[r].tenant)
    /\ Answer(r, {})
    /\ UNCHANGED <<conn, ver, stats, now, arrived, faults, lost, unapplied, elsewhere>>

Done(r) ==
    /\ At(r, "done")
    /\ req' = [req EXCEPT ![r] = Idled]
    /\ UNCHANGED <<conn, cache, ver, stats, now, arrived, faults, lost, unapplied, elsewhere>>

-----------------------------------------------------------------------------
(* The list changes and nobody tells this cache: a webhook takes out removed *)
(* repositories, samples are seeded after a sign-in, or another process of   *)
(* the site handles a change.                                                *)
ChangedElsewhere(t) ==
    /\ arrived < MaxRequests
    /\ arrived' = arrived + 1
    /\ ver' = [ver EXCEPT ![t] = @ + 1]
    /\ elsewhere' = [elsewhere EXCEPT ![t] = ver[t] + 1]
    /\ UNCHANGED <<conn, cache, req, stats, now, faults, lost, unapplied>>

(* The eviction goroutine's tick. *)
PurgeExpired ==
    /\ cache' = Without(cache, {k \in DOMAIN cache : Expired(cache[k])})
    /\ UNCHANGED <<conn, req, ver, stats, now, arrived, faults, lost, unapplied, elsewhere>>

(* A pooled connection reaches its maximal age or idle time: the next one  *)
(* to be opened in its place starts without a scope.                       *)
ConnMaxLifetime(c) ==
    /\ c \in Idle
    /\ conn' = [conn EXCEPT ![c].scope = Cleared]
    /\ UNCHANGED <<cache, req, ver, stats, now, arrived, faults, lost, unapplied, elsewhere>>

Tick ==
    /\ now < MaxNow
    /\ now' = now + 1
    /\ UNCHANGED <<conn, cache, req, ver, stats, arrived, faults, lost, unapplied, elsewhere>>

Next ==
    \/ \E r \in Req :
          \/ \E t \in Tenant, path \in Served : \E q \in Variants(path) : Arrive(r, t, path, q)
          \/ ValidationFails(r) \/ SetScope(r) \/ ReleaseConn(r)
          \/ Lookup(r) \/ DropExpired(r) \/ AskStore(r) \/ AskFails(r)
          \/ ExportRefused(r) \/ StoreResponse(r) \/ Invalidate(r) \/ Done(r)
          \/ \E c \in Conn :
                \/ ValidateSession(r, c) \/ AcquireConn(r, c) \/ ListTenantRepos(r, c)
                \/ AskPool(r, c) \/ AdminList(r, c) \/ Collect(r, c) \/ Upsert(r, c)
                \/ DeactivateTenantRepo(r, c) \/ AddTenantRepos(r, c)
    \/ \E t \in Tenant : ChangedElsewhere(t)
    \/ PurgeExpired
    \/ \E c \in Conn : ConnMaxLifetime(c)
    \/ Tick

Spec == Init /\ [][Next]_vars

-----------------------------------------------------------------------------
Entry == [rows : SUBSET Tenant, ver : Nat, expires : Nat, overtaken : BOOLEAN]

Request ==
    [pc : {"auth", "acquire", "scope", "list", "lookup", "expired", "ask", "store", "admin",
           "collect", "upsert", "add", "write", "invalidate", "release", "done"},
     tenant : Tenant, path : Served, q : Query, conn : Conn \cup {NoConn},
     rows : SUBSET Tenant, seen : Nat, old : SUBSET Entry]

(* Type correctness: the shapes of the pool, the cache and the requests. *)
TypeOK ==
    /\ conn \in [Conn -> [by : Req \cup {NoReq}, scope : Tenant \cup {Cleared}]]
    /\ DOMAIN cache \subseteq Keys /\ \A k \in DOMAIN cache : cache[k] \in Entry
    /\ req \in [Req -> Request \cup {Idled}]
    /\ ver \in [Tenant -> Nat] /\ elsewhere \in [Tenant -> Nat]
    /\ stats \subseteq Tenant
    /\ now \in Nat /\ arrived \in Nat /\ faults \in Nat
    /\ lost \in BOOLEAN /\ unapplied \in BOOLEAN

(* Tenant isolation: a response to a tenant, computed or taken from the     *)
(* cache, holds rows of no other tenant, whatever resets failed before and  *)
(* whatever connection it ran on (ScopedStoreMiddleware, dataCacheKey).     *)
OwnRowsOnly ==
    /\ \A r \in Req : (~At(r, "idle") /\ Route(r).on \notin {"cleared", "stats"})
                        => req[r].rows \subseteq {req[r].tenant}
    /\ \A k \in DOMAIN cache : cache[k].rows \subseteq {k.tenant}

(* A deletion that was acknowledged took place, no overview was cached      *)
(* empty and the saved platform statistics count every tenant, unless a     *)
(* reset failed and left its scope on a pooled connection (the statements   *)
(* of deleteRepoHandler, GetOverview and Collect do not clear it).          *)
PoolStatementsTakeEffect ==
    \/ lost
    \/ /\ ~unapplied
       /\ stats = Tenant
       /\ \A k \in DOMAIN cache : k.path = "overview" => cache[k].rows = {k.tenant}

(* Once an add or a deletion is answered, a cached overview that is out of  *)
(* date misses a change made elsewhere (webhooks, seeded samples and other  *)
(* processes do not invalidate), or it was out of date when it was stored:  *)
(* its request ran across both the change and the invalidation.             *)
StaleOnlyIfOvertaken ==
    \A k \in DOMAIN cache :
        (/\ k.path = "overview"
         /\ cache[k].ver < ver[k.tenant]
         /\ \A r \in Req : ~(At(r, "invalidate") /\ req[r].tenant = k.tenant))
            => cache[k].overtaken \/ cache[k].ver < elsewhere[k.tenant]

(* An entry that is still fresh leaves the cache by invalidation or because *)
(* the cache is full, never because a request that found its predecessor    *)
(* expired deletes it (the re-check in responseCache.get).                  *)
FreshStaysCached ==
    [][\A k \in DOMAIN cache \ DOMAIN cache' :
          \/ Expired(cache[k])
          \/ \E r \in Req : At(r, "invalidate") /\ req[r].tenant = k.tenant
          \/ Cardinality(DOMAIN cache) >= MaxEntries]_vars

=============================================================================
