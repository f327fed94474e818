---------------------------- MODULE DataApiProofs ----------------------------
(***************************************************************************)
(* Proofs for DataApi: types, the rows a tenant is answered with, the      *)
(* statements on pooled connections, overviews that are out of date and    *)
(* which entries leave the cache, for any tenants, requests, connections   *)
(* and query strings, any of the routes, and any sizes and ages of the     *)
(* cache.                                                                  *)
(***************************************************************************)
EXTENDS DataApi, FiniteSetTheorems, TLAPS

-----------------------------------------------------------------------------
(* The inductive invariant *)

(* Where a request with a connection of its own can be. *)
Holding == {"scope", "list", "lookup", "expired", "ask", "store", "release"}

(* Its connection has the scope of its tenant. *)
Scoped == {"list", "lookup", "expired", "ask", "store"}

(* The steps of a request are those of its route. *)
OnRoute(q) ==
    LET route == Routes[q.path] IN
    /\ q.conn # NoConn <=> route.on = "own" /\ q.pc \in Holding
    /\ q.pc \in {"acquire", "scope", "list", "release"} => route.on = "own"
    /\ q.pc \in {"lookup", "expired", "ask", "store"} => route.on \in {"own", "pool"}
    /\ q.pc \in {"lookup", "expired", "store"} => route.ttl # "none"
    /\ q.pc = "list" => route.lists
    /\ q.pc = "admin" => route.on = "cleared"
    /\ q.pc \in {"collect", "upsert"} => route.on = "stats"
    /\ q.pc \in {"add", "write"} => route.on = q.pc
    /\ q.pc = "invalidate" => route.on \in {"add", "write"}
    /\ route.on \notin {"cleared", "stats"} => q.rows \subseteq {q.tenant}

(* What a request saw on the pool before a reset failed, what it found      *)
(* expired at time n.                                                       *)
Observed(q, n, failed) ==
    /\ q.pc = "expired" => \A e \in q.old : n > e.expires
    /\ ~failed /\ q.pc = "upsert" => q.rows = Tenant
    /\ ~failed /\ q.pc = "store" /\ q.path = "overview" => q.rows = {q.tenant}

(* Request q and connection c are each other's. *)
Owns(r, q, c) == c.by = r /\ (q.pc \in Scoped => c.scope = q.tenant)

PoolInv ==
    /\ \A c \in Conn : conn[c].by # NoReq => req[conn[c].by] \in Request /\ req[conn[c].by].conn = c
    /\ \A r \in Req : req[r] \in Request /\ req[r].conn # NoConn => Owns(r, req[r], conn[req[r].conn])
    /\ ~lost => \A c \in Conn : conn[c].by = NoReq => conn[c].scope = Cleared

CacheInv ==
    /\ IsFiniteSet(DOMAIN cache)
    /\ \A k \in DOMAIN cache : cache[k].rows \subseteq {k.tenant}
    /\ ~lost => \A k \in DOMAIN cache : k.path = "overview" => cache[k].rows = {k.tenant}

DataApiInv ==
    /\ TypeOK /\ PoolInv /\ CacheInv
    /\ \A r \in Req : req[r] \in Request => OnRoute(req[r]) /\ Observed(req[r], now, lost)
    /\ ~lost => ~unapplied /\ stats = Tenant
    /\ StaleOnlyIfOvertaken

-----------------------------------------------------------------------------
(* The table of routes *)

(* What the handlers of every route have in common; the overview is read    *)
(* through the pool, and not without what could not be read.                *)
RouteOK(path, x) ==
    /\ x.on \in {"own", "pool", "cleared", "stats", "add", "write"}
    /\ x.ttl \in {"server", "request", "none"}
    /\ x.lists \in BOOLEAN /\ x.tolerant \in BOOLEAN
    /\ x.lists => x.on = "own"
    /\ path = "overview" => x.on = "pool" /\ ~x.tolerant

TableOK(f) == \A path \in DOMAIN f : RouteOK(path, f[path])

(* Two tables of such routes make one. *)
LEMMA Merged ==
    ASSUME NEW f, NEW g, TableOK(f), TableOK(g)
    PROVE  TableOK(f ++ g)
BY DEF TableOK, ++

(* The handlers built by one of the constructors. *)
LEMMA Built ==
    ASSUME NEW path, path # "overview"
    PROVE  /\ RouteOK(path, insightHandler)
           /\ RouteOK(path, insightWithEntityHandler)
           /\ RouteOK(path, uncachedHandler)
           /\ RouteOK(path, batchHandler)
           /\ RouteOK(path, pageHandler)
           /\ RouteOK(path, adminHandler)
BY DEF RouteOK, insightHandler, insightWithEntityHandler, uncachedHandler, batchHandler,
       pageHandler, adminHandler

LEMMA DataTable == TableOK(dataRoutes)
<1>1. RouteOK("scorecard", insightsHealthScorecardHandler)
  BY DEF RouteOK, insightsHealthScorecardHandler, uncachedHandler
<1>2. RouteOK("export", csvExportHandler)
  BY DEF RouteOK, csvExportHandler, uncachedHandler
<1> QED  BY <1>1, <1>2, Built
         DEF TableOK, dataRoutes, batchHealthHandler, batchActivityHandler, batchVelocityHandler,
             batchQualityHandler, batchCommunityHandler, minDateAPIHandler, queryAPIHandler,
             eventSearchAPIHandler, entityDevelopersAPIHandler, insightsGeneratedAPIHandler

LEMMA TenantTable == TableOK(tenantRoutes)
<1>1. RouteOK("overview", repoOverviewHandler)
  BY DEF RouteOK, repoOverviewHandler, pageHandler
<1>2. RouteOK("list", tenantListHandler)
  BY DEF RouteOK, tenantListHandler, pageHandler
<1>3. RouteOK("add", addRepoHandler) /\ RouteOK("delete", deleteRepoHandler)
  BY DEF RouteOK, addRepoHandler, deleteRepoHandler
<1> QED  BY <1>1, <1>2, <1>3, Built
         DEF TableOK, tenantRoutes, dashboardHandler, settingsHandler, availableReposHandler

LEMMA AdminTable == TableOK(adminRoutes)
<1>1. RouteOK("stats", adminDashboardHandler)
  BY DEF RouteOK, adminDashboardHandler
<1> QED  BY <1>1, Built DEF TableOK, adminRoutes, adminTenantsHandler, adminTenantDetailHandler

LEMMA InsightTables ==
    /\ TableOK(entityInsights) /\ TableOK(repoInsights) /\ TableOK(repoRoutes)
    /\ TableOK(contributorRoutes) /\ TableOK(signalRoutes) /\ TableOK(shareRoutes)
<1>1. TableOK(entityInsights)
  BY Built DEF TableOK, entityInsights
<1>2. TableOK(repoInsights) /\ TableOK(repoRoutes)
  BY Built DEF TableOK, repoInsights, repoRoutes
<1>3. TableOK(contributorRoutes) /\ TableOK(signalRoutes)
  BY Built DEF TableOK, contributorRoutes, signalRoutes
<1>4. TableOK(shareRoutes)
  BY Built DEF TableOK, shareRoutes, percentageAPIHandler
<1> QED  BY <1>1, <1>2, <1>3, <1>4

LEMMA ServedRoutes == \A path \in Served : RouteOK(path, Routes[path])
<1>1. TableOK(Routes)
  BY InsightTables, DataTable, TenantTable, AdminTable, Merged DEF Routes
<1> QED  BY <1>1, RoutesAssumption DEF TableOK

-----------------------------------------------------------------------------
(* One request *)

Pcs == {"auth", "acquire", "scope", "list", "lookup", "expired", "ask", "store", "admin",
        "collect", "upsert", "add", "write", "invalidate", "release", "done"}

Conns == [by : Req \cup {NoReq}, scope : Tenant \cup {Cleared}]

LEMMA RequestFields ==
    ASSUME NEW q \in Request
    PROVE  /\ q.pc \in Pcs /\ q.tenant \in Tenant /\ q.path \in Served /\ q.q \in Query
           /\ q.conn \in Conn \cup {NoConn} /\ q.rows \subseteq Tenant
           /\ q.seen \in Nat /\ q.old \subseteq Entry
BY DEF Request, Pcs

LEMMA IdledIsNoRequest == Idled \notin Request /\ Idled.pc = "idle"
BY DEF Idled, Request

(* A request that has arrived. *)
LEMMA Arrived ==
    ASSUME TypeOK, NEW r \in Req, req[r].pc # "idle"
    PROVE  req[r] \in Request
BY IdledIsNoRequest DEF TypeOK

(* The records the actions build. *)
LEMMA UpdatedRequest ==
    ASSUME NEW q \in Request, NEW pc \in Pcs, NEW rows \in SUBSET Tenant, NEW n \in Nat,
           NEW old \in SUBSET Entry, NEW c \in Conn \cup {NoConn}
    PROVE  /\ [q EXCEPT !.pc = pc] \in Request
           /\ [q EXCEPT !.pc = pc, !.rows = rows] \in Request
           /\ [q EXCEPT !.pc = pc, !.conn = c] \in Request
           /\ [q EXCEPT !.pc = pc, !.old = old] \in Request
           /\ [q EXCEPT !.pc = pc, !.rows = rows, !.seen = n] \in Request
<1>1. [q EXCEPT !.pc = pc] \in Request
  BY DEF Request, Pcs
<1>2. [q EXCEPT !.pc = pc, !.rows = rows] \in Request
  BY DEF Request, Pcs
<1>3. [q EXCEPT !.pc = pc, !.conn = c] \in Request
  BY DEF Request, Pcs
<1>4. [q EXCEPT !.pc = pc, !.old = old] \in Request
  BY DEF Request, Pcs
<1>5. [q EXCEPT !.pc = pc, !.rows = rows, !.seen = n] \in Request
  BY DEF Request, Pcs
<1> QED  BY <1>1, <1>2, <1>3, <1>4, <1>5

-----------------------------------------------------------------------------
(* What a step leaves alone *)

(* No connection changes hands; an idle one may lose its scope. *)
PoolKept ==
    /\ conn' \in [Conn -> Conns]
    /\ \A c \in Conn : /\ conn'[c].by = conn[c].by
                       /\ conn[c].by # NoReq => conn'[c] = conn[c]
                       /\ conn'[c].scope \in {conn[c].scope, Cleared}

(* Nothing is added to the cache. *)
CacheShrinks ==
    DOMAIN cache' \subseteq DOMAIN cache /\ \A k \in DOMAIN cache' : cache'[k] = cache[k]

LEMMA PoolUnchanged == ASSUME TypeOK, UNCHANGED conn PROVE PoolKept
BY DEF TypeOK, PoolKept, Conns

LEMMA IdleCleared ==
    ASSUME TypeOK, NEW c \in Idle, conn' = [conn EXCEPT ![c].scope = Cleared]
    PROVE  PoolKept
<1>1. c \in Conn /\ conn[c].by = NoReq  BY DEF Idle
<1>2. conn \in [Conn -> Conns]  BY DEF TypeOK, Conns
<1>3. conn' \in [Conn -> Conns]  BY <1>1, <1>2 DEF Conns
<1>4. ASSUME NEW d \in Conn
      PROVE  /\ conn'[d].by = conn[d].by
             /\ conn[d].by # NoReq => conn'[d] = conn[d]
             /\ conn'[d].scope \in {conn[d].scope, Cleared}
  BY <1>1, <1>2 DEF Conns
<1> QED  BY <1>3, <1>4 DEF PoolKept

LEMMA CacheUnchanged == ASSUME UNCHANGED cache PROVE CacheShrinks
BY DEF CacheShrinks

LEMMA CacheWithout ==
    ASSUME NEW keys, cache' = Without(cache, keys)
    PROVE  CacheShrinks /\ DOMAIN cache' = DOMAIN cache \ keys
BY DEF CacheShrinks, Without

CacheTyped == DOMAIN cache \subseteq Keys /\ \A k \in DOMAIN cache : cache[k] \in Entry

LEMMA CachePreserved ==
    ASSUME TypeOK, CacheInv, CacheShrinks, lost => lost'
    PROVE  CacheInv' /\ CacheTyped'
<1>1. IsFiniteSet(DOMAIN cache')
  BY FS_Subset DEF CacheInv, CacheShrinks
<1> QED  BY <1>1 DEF TypeOK, CacheInv, CacheShrinks, CacheTyped

(* A request that keeps its connection keeps the pool in order. *)
LEMMA PoolPreserved ==
    ASSUME TypeOK, PoolInv, PoolKept, lost' = lost,
           NEW r \in Req, req[r] \in Request, NEW p \in Request,
           req' = [req EXCEPT ![r] = p],
           p.tenant = req[r].tenant, p.conn = req[r].conn,
           p.pc \in Scoped => p.conn = NoConn \/ req[r].pc \in Scoped
    PROVE  PoolInv'
<1>1. \A s \in Req : req'[s] = IF s = r THEN p ELSE req[s]
  BY DEF TypeOK
<1>2. conn \in [Conn -> Conns] /\ conn' \in [Conn -> Conns]
  BY DEF TypeOK, Conns, PoolKept
<1>3. ASSUME NEW c \in Conn, conn'[c].by # NoReq
      PROVE  req'[conn'[c].by] \in Request /\ req'[conn'[c].by].conn = c
  <2>1. conn[c].by # NoReq /\ conn'[c].by = conn[c].by /\ conn[c].by \in Req
    BY <1>2, <1>3 DEF PoolKept, Conns
  <2> QED  BY <1>1, <2>1 DEF PoolInv
<1>4. ASSUME NEW s \in Req, req'[s] \in Request, req'[s].conn # NoConn
      PROVE  Owns(s, req'[s], conn'[req'[s].conn])
  <2>1. req[s] \in Request /\ req[s].conn = req'[s].conn /\ req[s].tenant = req'[s].tenant
    BY <1>1, <1>4
  <2>2. Owns(s, req[s], conn[req[s].conn])
    BY <1>4, <2>1 DEF PoolInv
  <2>3. req[s].conn \in Conn
    BY <1>4, <2>1, RequestFields
  <2>4. conn'[req[s].conn] = conn[req[s].conn]
    BY <2>2, <2>3, DataApiAssumption DEF Owns, PoolKept
  <2>5. req'[s].pc \in Scoped => req[s].pc \in Scoped
    BY <1>1, <1>4
  <2> QED  BY <2>1, <2>2, <2>4, <2>5 DEF Owns
<1>5. ~lost' => \A c \in Conn : conn'[c].by = NoReq => conn'[c].scope = Cleared
  BY DEF PoolInv, PoolKept
<1> QED  BY <1>3, <1>4, <1>5 DEF PoolInv

(* The versions and the cache still agree when an invalidation is not over. *)
LEMMA StalePreserved ==
    ASSUME TypeOK, StaleOnlyIfOvertaken, CacheShrinks, UNCHANGED <<ver, elsewhere>>,
           \A s \in Req : req[s].pc = "invalidate" => req'[s] = req[s]
    PROVE  StaleOnlyIfOvertaken'
BY DEF StaleOnlyIfOvertaken, CacheShrinks, At

RequestsInv == \A s \in Req : req[s] \in Request => OnRoute(req[s]) /\ Observed(req[s], now, lost)

LEMMA OthersPreserved ==
    ASSUME TypeOK, RequestsInv, now' = now, lost => lost', lost' \in BOOLEAN,
           NEW r \in Req, NEW p, req' = [req EXCEPT ![r] = p],
           p \in Request => OnRoute(p) /\ Observed(p, now, lost')
    PROVE  RequestsInv'
<1>1. \A s \in Req : req'[s] = IF s = r THEN p ELSE req[s]
  BY DEF TypeOK
<1>2. ASSUME NEW s \in Req, req'[s] \in Request
      PROVE  OnRoute(req'[s]) /\ Observed(req'[s], now', lost')
  <2>1. CASE s = r  BY <1>1, <1>2, <2>1
  <2>2. CASE s # r
    <3>1. req'[s] = req[s] /\ OnRoute(req[s]) /\ Observed(req[s], now, lost)
      BY <1>1, <1>2, <2>2 DEF RequestsInv
    <3>2. Observed(req[s], now, lost')  BY <3>1 DEF Observed, TypeOK
    <3> QED  BY <3>1, <3>2
  <2> QED  BY <2>1, <2>2
<1> QED  BY <1>2 DEF RequestsInv, OnRoute, Observed

(* A step of one request, from its parts. *)
LEMMA RequestSteps ==
    ASSUME DataApiInv, NEW r \in Req, NEW p \in Request \cup {Idled},
           req' = [req EXCEPT ![r] = p],
           p \in Request => OnRoute(p) /\ Observed(p, now, lost'),
           conn' \in [Conn -> Conns], PoolInv', CacheTyped', CacheInv',
           ver' \in [Tenant -> Nat], elsewhere' \in [Tenant -> Nat], StaleOnlyIfOvertaken',
           now' = now, lost => lost', lost' \in BOOLEAN, unapplied' \in BOOLEAN,
           stats' \subseteq Tenant, ~lost' => ~unapplied' /\ stats' = Tenant,
           arrived' \in Nat, faults' \in Nat
    PROVE  DataApiInv'
<1>1. TypeOK /\ RequestsInv
  BY DEF DataApiInv, RequestsInv
<1>2. req' \in [Req -> Request \cup {Idled}]
  BY <1>1 DEF TypeOK
<1>3. TypeOK'
  BY <1>1, <1>2 DEF TypeOK, CacheTyped, Conns
<1>4. RequestsInv'
  BY <1>1, OthersPreserved
<1> QED  BY <1>3, <1>4 DEF DataApiInv, RequestsInv

(* A step of one request that keeps its connection. *)
LEMMA RequestMoves ==
    ASSUME DataApiInv, NEW r \in Req, req[r] \in Request, req[r].pc # "invalidate",
           NEW p \in Request, req' = [req EXCEPT ![r] = p],
           p.tenant = req[r].tenant, p.conn = req[r].conn,
           p.pc \in Scoped => p.conn = NoConn \/ req[r].pc \in Scoped,
           OnRoute(p), Observed(p, now, lost),
           PoolKept, CacheShrinks, UNCHANGED <<ver, elsewhere, now, lost, unapplied>>,
           stats' \subseteq Tenant, ~lost => stats' = Tenant,
           arrived' \in Nat, faults' \in Nat
    PROVE  DataApiInv'
<1>1. TypeOK /\ PoolInv /\ CacheInv /\ StaleOnlyIfOvertaken
  BY DEF DataApiInv
<1>2. PoolInv' /\ conn' \in [Conn -> Conns]
  BY <1>1, PoolPreserved DEF PoolKept
<1>3. CacheInv' /\ CacheTyped'
  BY <1>1, CachePreserved
<1>4. StaleOnlyIfOvertaken'
  <2>1. \A s \in Req : req[s].pc = "invalidate" => req'[s] = req[s]
    BY <1>1 DEF TypeOK
  <2> QED  BY <1>1, <2>1, StalePreserved
<1>5. ~lost' => ~unapplied' /\ stats' = Tenant
  BY DEF DataApiInv
<1>6. ver' \in [Tenant -> Nat] /\ elsewhere' \in [Tenant -> Nat] /\ lost' \in BOOLEAN /\ unapplied' \in BOOLEAN
  BY <1>1 DEF TypeOK
<1> QED  BY <1>2, <1>3, <1>4, <1>5, <1>6, RequestSteps

(* What a step of a request may leave to the rest of the system. *)
Quiet ==
    /\ PoolKept /\ CacheShrinks /\ UNCHANGED <<ver, elsewhere, now, lost, unapplied>>
    /\ stats' \subseteq Tenant /\ (~lost => stats' = Tenant)
    /\ arrived' \in Nat /\ faults' \in Nat

(* The steps that only move requests, and perhaps fail a statement. *)
LEMMA QuietStep ==
    ASSUME DataApiInv, UNCHANGED <<conn, cache, ver, stats, now, arrived, lost, unapplied, elsewhere>>,
           UNCHANGED faults \/ Fault
    PROVE  Quiet
BY PoolUnchanged, CacheUnchanged DEF DataApiInv, TypeOK, Quiet, Fault

(* Every answer is one of the route it is given on. *)
LEMMA AnswerOnRoute ==
    ASSUME NEW q \in Request, OnRoute(q), NEW rows \in SUBSET Tenant,
           Routes[q.path].on \notin {"cleared", "stats"} => rows \subseteq {q.tenant},
           NEW pc, pc = (IF q.conn # NoConn THEN "release" ELSE "done"),
           NEW p, p = [q EXCEPT !.pc = pc, !.rows = rows]
    PROVE  /\ p \in Request /\ p.tenant = q.tenant /\ p.conn = q.conn
           /\ p.pc \in {"release", "done"} /\ OnRoute(p)
<1>1. p \in Request
  BY UpdatedRequest, RequestFields DEF Pcs
<1>2. /\ p.pc = IF q.conn # NoConn THEN "release" ELSE "done"
      /\ p.rows = rows /\ p.tenant = q.tenant /\ p.conn = q.conn /\ p.path = q.path
  BY DEF Request
<1>3. OnRoute(p)
  BY <1>2 DEF OnRoute, Holding
<1> QED  BY <1>1, <1>2, <1>3

LEMMA AnswerBecomes ==
    ASSUME TypeOK, NEW r \in Req, req[r] \in Request, OnRoute(req[r]),
           NEW rows \in SUBSET Tenant,
           Route(r).on \notin {"cleared", "stats"} => rows \subseteq {req[r].tenant},
           Answer(r, rows)
    PROVE  \E p \in Request :
              /\ req' = [req EXCEPT ![r] = p]
              /\ p.tenant = req[r].tenant /\ p.conn = req[r].conn
              /\ p.pc \in {"release", "done"} /\ p.pc \notin Scoped
              /\ OnRoute(p) /\ Observed(p, now, lost')
<1> DEFINE q == req[r]
           pc == IF q.conn # NoConn THEN "release" ELSE "done"
           p == [q EXCEPT !.pc = pc, !.rows = rows]
<1>1. req' = [req EXCEPT ![r] = p]
  BY DEF Answer, Holds, TypeOK
<1>2. /\ p \in Request /\ p.tenant = q.tenant /\ p.conn = q.conn
      /\ p.pc \in {"release", "done"} /\ OnRoute(p)
  <2>1. Routes[q.path].on \notin {"cleared", "stats"} => rows \subseteq {q.tenant}
    BY DEF Route
  <2>2. pc = (IF q.conn # NoConn THEN "release" ELSE "done")  OBVIOUS
  <2>3. q \in Request /\ OnRoute(q)  OBVIOUS
  <2> HIDE DEF pc, q
  <2> QED  BY <2>1, <2>2, <2>3, AnswerOnRoute
<1> HIDE DEF p
<1>3. p.pc \notin Scoped /\ Observed(p, now, lost')
  BY <1>2 DEF Scoped, Observed
<1> QED  BY <1>1, <1>2, <1>3

LEMMA Answered ==
    ASSUME DataApiInv, Quiet, NEW r \in Req, req[r] \in Request, req[r].pc # "invalidate",
           NEW rows \in SUBSET Tenant,
           Route(r).on \notin {"cleared", "stats"} => rows \subseteq {req[r].tenant},
           Answer(r, rows)
    PROVE  DataApiInv'
<1>1. TypeOK /\ OnRoute(req[r])  BY DEF DataApiInv
<1>2. PICK p \in Request :
         /\ req' = [req EXCEPT ![r] = p]
         /\ p.tenant = req[r].tenant /\ p.conn = req[r].conn
         /\ p.pc \in {"release", "done"} /\ p.pc \notin Scoped
         /\ OnRoute(p) /\ Observed(p, now, lost')
  BY <1>1, AnswerBecomes
<1>3. Observed(p, now, lost)  BY <1>2 DEF Observed
<1> QED  BY <1>2, <1>3, RequestMoves DEF Quiet

(* The request goes on to another step of its handler. *)
LEMMA Goes ==
    ASSUME DataApiInv, Quiet, NEW r \in Req, req[r] \in Request, req[r].pc # "invalidate",
           NEW pc \in Pcs, NEW p, p = [req[r] EXCEPT !.pc = pc], OnRoute(p),
           pc \notin {"expired", "upsert", "store"},
           pc \in Scoped => req[r].conn = NoConn \/ req[r].pc \in Scoped,
           Goto(r, pc)
    PROVE  DataApiInv'
<1>1. req' = [req EXCEPT ![r] = p]
  BY DEF Goto, DataApiInv, TypeOK
<1>2. p \in Request  BY UpdatedRequest, RequestFields
<1>3. p.pc = pc /\ p.tenant = req[r].tenant /\ p.conn = req[r].conn
  BY DEF Request
<1>4. Observed(p, now, lost)  BY <1>3 DEF Observed
<1> QED  BY <1>1, <1>2, <1>3, <1>4, RequestMoves DEF Quiet

-----------------------------------------------------------------------------
(* The actions that move one request *)

LEMMA ValidateSessionStep ==
    ASSUME DataApiInv, NEW r \in Req, NEW c \in Conn, ValidateSession(r, c)
    PROVE  DataApiInv'
<1> DEFINE q == req[r]
           pc == AfterAuth(Routes[q.path])
           p == [q EXCEPT !.pc = pc]
<1>1. q \in Request /\ q.pc = "auth" /\ OnRoute(q)
  BY Arrived DEF DataApiInv, ValidateSession, At
<1>2. RouteOK(q.path, Routes[q.path])
  BY <1>1, RequestFields, ServedRoutes
<1>3. q.conn = NoConn
  BY <1>1 DEF OnRoute, Holding
<1>4. pc \in {"acquire", "lookup", "ask", "admin", "collect", "add", "write"}
  BY <1>2 DEF AfterAuth, RouteOK
<1>5. OnRoute(p)
  <2>1. p.pc = pc /\ p.path = q.path /\ p.conn = NoConn /\ p.rows = q.rows /\ p.tenant = q.tenant
    BY <1>1, <1>3 DEF Request
  <2>2. /\ pc = "acquire" => Routes[q.path].on = "own"
        /\ pc \in {"lookup", "ask"} => Routes[q.path].on = "pool"
        /\ pc = "lookup" => Routes[q.path].ttl # "none"
        /\ pc = "admin" => Routes[q.path].on = "cleared"
        /\ pc = "collect" => Routes[q.path].on = "stats"
        /\ pc = "write" => Routes[q.path].on = "write"
        /\ pc = "add" => Routes[q.path].on = "add"
    BY <1>2 DEF AfterAuth, RouteOK
  <2> HIDE DEF pc, p
  <2> QED  BY <1>1, <1>4, <2>1, <2>2 DEF OnRoute, Holding
<1>6. Quiet
  BY IdleCleared, CacheUnchanged DEF ValidateSession, DataApiInv, TypeOK, Quiet
<1>7. Goto(r, pc)  BY DEF ValidateSession, Route
<1> QED
  <2>1. pc \in Pcs  BY <1>4 DEF Pcs
  <2> HIDE DEF pc
  <2> QED  BY <1>1, <1>3, <1>4, <1>5, <1>6, <1>7, <2>1, Goes

LEMMA ValidationFailsStep ==
    ASSUME DataApiInv, NEW r \in Req, ValidationFails(r)
    PROVE  DataApiInv'
<1>1. req[r] \in Request /\ req[r].pc # "invalidate"
  BY Arrived DEF DataApiInv, ValidationFails, At
<1>2. Quiet  BY QuietStep DEF ValidationFails
<1> QED  BY <1>1, <1>2, Answered DEF ValidationFails

(* The scope could not be set. *)
LEMMA ScopeFailsStep ==
    ASSUME DataApiInv, NEW r \in Req, SetScope(r), UNCHANGED conn, Answer(r, {}), Fault
    PROVE  DataApiInv'
<1>1. req[r] \in Request /\ req[r].pc # "invalidate"
  BY Arrived DEF DataApiInv, SetScope, At
<1>2. Quiet  BY QuietStep DEF SetScope
<1> QED  BY <1>1, <1>2, Answered

LEMMA LookupStep ==
    ASSUME DataApiInv, NEW r \in Req, Lookup(r)
    PROVE  DataApiInv'
<1> DEFINE q == req[r]
           k == dataCacheKey(r)
<1>1. q \in Request /\ q.pc = "lookup" /\ OnRoute(q)
  BY Arrived DEF DataApiInv, Lookup, At
<1>2. Quiet  BY QuietStep DEF Lookup
<1>3. q.pc \in Scoped  BY <1>1 DEF Scoped
<1>4. CASE Goto(r, "ask")
  <2> DEFINE p == [q EXCEPT !.pc = "ask"]
  <2>1. p.pc = "ask" /\ p.path = q.path /\ p.conn = q.conn /\ p.rows = q.rows /\ p.tenant = q.tenant
    BY <1>1 DEF Request
  <2>2. OnRoute(p)
    <3> HIDE DEF p
    <3> QED  BY <1>1, <2>1 DEF OnRoute, Holding
  <2> QED  BY <1>1, <1>2, <1>3, <1>4, <2>2, Goes DEF Pcs
<1>5. CASE k \in DOMAIN cache /\ Answer(r, cache[k].rows)
  <2>1. cache[k].rows \subseteq {q.tenant}
    BY <1>5 DEF DataApiInv, CacheInv, dataCacheKey
  <2>2. cache[k].rows \in SUBSET Tenant
    BY <1>1, <2>1, RequestFields
  <2> QED  BY <1>1, <1>2, <1>5, <2>1, <2>2, Answered
<1>6. CASE /\ k \in DOMAIN cache /\ Expired(cache[k])
           /\ req' = [req EXCEPT ![r].pc = "expired", ![r].old = {cache[k]}]
  <2> DEFINE p == [q EXCEPT !.pc = "expired", !.old = {cache[k]}]
  <2>1. /\ p.pc = "expired" /\ p.path = q.path /\ p.conn = q.conn /\ p.rows = q.rows
        /\ p.tenant = q.tenant /\ p.old = {cache[k]}
    BY <1>1 DEF Request
  <2>2. p \in Request
    <3>1. cache[k] \in Entry  BY <1>6 DEF DataApiInv, TypeOK
    <3>2. {cache[k]} \in SUBSET Entry /\ "expired" \in Pcs  BY <3>1 DEF Pcs
    <3> HIDE DEF k
    <3> QED  BY <1>1, <3>2, UpdatedRequest, RequestFields
  <2>3. req' = [req EXCEPT ![r] = p]
    BY <1>6 DEF DataApiInv, TypeOK
  <2> HIDE DEF p, k
  <2>4. OnRoute(p)
    BY <1>1, <2>1 DEF OnRoute, Holding
  <2>5. Observed(p, now, lost)
    BY <1>6, <2>1 DEF Observed, Expired
  <2> QED  BY <1>1, <1>2, <1>3, <2>1, <2>2, <2>3, <2>4, <2>5, RequestMoves DEF Quiet
<1> QED  BY <1>4, <1>5, <1>6 DEF Lookup

LEMMA DropExpiredStep ==
    ASSUME DataApiInv, NEW r \in Req, DropExpired(r)
    PROVE  DataApiInv'
<1> DEFINE q == req[r]
           p == [q EXCEPT !.pc = "ask", !.old = {}]
<1>1. q \in Request /\ q.pc = "expired" /\ OnRoute(q)
  BY Arrived DEF DataApiInv, DropExpired, At
<1>2. CacheShrinks
  <2>1. UNCHANGED cache \/ \E keys : cache' = Without(cache, keys)
    BY DEF DropExpired
  <2> QED  BY <2>1, CacheUnchanged, CacheWithout
<1>3. Quiet
  BY <1>2, PoolUnchanged DEF DropExpired, DataApiInv, TypeOK, Quiet
<1>4. /\ p.pc = "ask" /\ p.path = q.path /\ p.conn = q.conn /\ p.rows = q.rows
      /\ p.tenant = q.tenant
  BY <1>1 DEF Request
<1>5. p \in Request  BY <1>1, UpdatedRequest, RequestFields DEF Pcs
<1>6. req' = [req EXCEPT ![r] = p]
  BY DEF DropExpired, DataApiInv, TypeOK
<1> HIDE DEF p
<1>7. OnRoute(p) /\ Observed(p, now, lost)
  BY <1>1, <1>4 DEF OnRoute, Holding, Observed
<1>8. q.pc \in Scoped  BY <1>1 DEF Scoped
<1> QED  BY <1>1, <1>3, <1>4, <1>5, <1>6, <1>7, <1>8, RequestMoves DEF Quiet

LEMMA ExportRefusedStep ==
    ASSUME DataApiInv, NEW r \in Req, ExportRefused(r)
    PROVE  DataApiInv'
<1>1. req[r] \in Request /\ req[r].pc # "invalidate"
  BY Arrived DEF DataApiInv, ExportRefused, At
<1>2. Quiet  BY QuietStep DEF ExportRefused
<1> QED  BY <1>1, <1>2, Answered DEF ExportRefused

LEMMA ListTenantReposStep ==
    ASSUME DataApiInv, NEW r \in Req, NEW c \in Conn, ListTenantRepos(r, c)
    PROVE  DataApiInv'
<1> DEFINE q == req[r]
           p == [q EXCEPT !.pc = "ask"]
<1>1. q \in Request /\ q.pc = "list" /\ OnRoute(q)
  BY Arrived DEF DataApiInv, ListTenantRepos, At
<1>2. Quiet  BY QuietStep DEF ListTenantRepos
<1>3. CASE Answer(r, {})
  BY <1>1, <1>2, <1>3, Answered
<1>4. CASE Goto(r, "ask")
  <2>1. p.pc = "ask" /\ p.path = q.path /\ p.conn = q.conn /\ p.rows = q.rows /\ p.tenant = q.tenant
    BY <1>1 DEF Request
  <2>2. OnRoute(p)
    <3> HIDE DEF p
    <3> QED  BY <1>1, <2>1 DEF OnRoute, Holding
  <2>3. q.pc \in Scoped  BY <1>1 DEF Scoped
  <2> QED  BY <1>1, <1>2, <1>4, <2>2, <2>3, Goes DEF Pcs
<1> QED  BY <1>3, <1>4 DEF ListTenantRepos

(* A handler that asked for its rows stores or sends them. *)
LEMMA AskedStep ==
    ASSUME DataApiInv, Quiet, NEW r \in Req, req[r] \in Request, req[r].pc = "ask",
           NEW rows, rows \subseteq {req[r].tenant},
           ~lost /\ req[r].path = "overview" => rows = {req[r].tenant},
           Asked(r, rows)
    PROVE  DataApiInv'
<1> DEFINE q == req[r]
<1>1. rows \in SUBSET Tenant  BY RequestFields
<1>2. CASE Answer(r, rows)
  BY <1>1, <1>2, Answered
<1>3. CASE /\ Route(r).ttl # "none"
           /\ req' = [req EXCEPT ![r].pc = "store", ![r].rows = rows,
                                 ![r].seen = ver[req[r].tenant]]
  <2> DEFINE seen == ver[q.tenant]
             p == [q EXCEPT !.pc = "store", !.rows = rows, !.seen = seen]
  <2>1. seen \in Nat  BY RequestFields DEF DataApiInv, TypeOK
  <2>2. p \in Request
    <3> HIDE DEF seen
    <3>1. "store" \in Pcs  BY DEF Pcs
    <3> QED  BY <1>1, <2>1, <3>1, UpdatedRequest, RequestFields
  <2>3. /\ p.pc = "store" /\ p.path = q.path /\ p.conn = q.conn /\ p.rows = rows
        /\ p.tenant = q.tenant
    BY DEF Request
  <2>4. req' = [req EXCEPT ![r] = p]
    BY <1>3 DEF DataApiInv, TypeOK
  <2> HIDE DEF p
  <2>5. OnRoute(q)  BY DEF DataApiInv
  <2>6. OnRoute(p)
    BY <1>3, <2>3, <2>5 DEF OnRoute, Holding, Route
  <2>7. Observed(p, now, lost)
    BY <1>3, <2>3 DEF Observed
  <2>8. q.pc \in Scoped  BY DEF Scoped
  <2> QED  BY <2>2, <2>3, <2>4, <2>6, <2>7, <2>8, RequestMoves DEF Quiet
<1> QED  BY <1>2, <1>3 DEF Asked

LEMMA AskStoreStep ==
    ASSUME DataApiInv, NEW r \in Req, AskStore(r)
    PROVE  DataApiInv'
<1> DEFINE all == Visible(conn[req[r].conn].scope)
<1>1. req[r] \in Request /\ req[r].pc = "ask" /\ OnRoute(req[r])
  BY Arrived DEF DataApiInv, AskStore, At
<1>2. Quiet  BY QuietStep DEF AskStore
<1>3. conn[req[r].conn].scope = req[r].tenant
  BY <1>1 DEF AskStore, Holds, DataApiInv, PoolInv, Owns, Scoped
<1>4. all = {req[r].tenant}
  BY <1>1, <1>3, RequestFields, DataApiAssumption DEF Visible
<1>5. req[r].path # "overview"
  <2>1. Routes[req[r].path].on = "own"
    BY <1>1 DEF OnRoute, AskStore, Holds
  <2> QED  BY <1>1, <2>1, RequestFields, ServedRoutes DEF RouteOK
<1>6. PICK rows \in {all, {}} : Asked(r, rows)
  BY DEF AskStore
<1> HIDE DEF all
<1> QED  BY <1>1, <1>2, <1>4, <1>5, <1>6, AskedStep

LEMMA AskPoolStep ==
    ASSUME DataApiInv, NEW r \in Req, NEW c \in Conn, AskPool(r, c)
    PROVE  DataApiInv'
<1> DEFINE rows == VisibleOf(conn[c].scope, req[r].tenant)
<1>1. req[r] \in Request /\ req[r].pc = "ask" /\ OnRoute(req[r])
  BY Arrived DEF DataApiInv, AskPool, At
<1>2. Quiet  BY QuietStep DEF AskPool
<1>3. Routes[req[r].path].on = "pool"
  BY <1>1 DEF OnRoute, Holding, AskPool, Holds
<1>4. RouteOK(req[r].path, Routes[req[r].path])
  BY <1>1, RequestFields, ServedRoutes
<1>5. CASE Asked(r, rows)
  <2>1. rows \subseteq {req[r].tenant}
    BY DEF VisibleOf
  <2>2. ~lost => rows = {req[r].tenant}
    <3>1. ~lost => conn[c].scope = Cleared
      BY DEF AskPool, Idle, DataApiInv, PoolInv
    <3> QED  BY <1>1, <3>1, RequestFields DEF VisibleOf, Visible
  <2> HIDE DEF rows
  <2> QED  BY <1>1, <1>2, <1>5, <2>1, <2>2, AskedStep
<1>6. CASE Route(r).tolerant /\ Asked(r, {})
  <2>1. req[r].path # "overview"
    BY <1>3, <1>4, <1>6 DEF RouteOK, Route
  <2> QED  BY <1>1, <1>2, <1>6, <2>1, AskedStep
<1> QED  BY <1>5, <1>6 DEF AskPool

LEMMA AskFailsStep ==
    ASSUME DataApiInv, NEW r \in Req, AskFails(r)
    PROVE  DataApiInv'
<1>1. req[r] \in Request /\ req[r].pc # "invalidate"
  BY Arrived DEF DataApiInv, AskFails, At
<1>2. Quiet  BY QuietStep DEF AskFails
<1> QED  BY <1>1, <1>2, Answered DEF AskFails

LEMMA AdminListStep ==
    ASSUME DataApiInv, NEW r \in Req, NEW c \in Conn, AdminList(r, c)
    PROVE  DataApiInv'
<1>1. req[r] \in Request /\ req[r].pc = "admin" /\ OnRoute(req[r])
  BY Arrived DEF DataApiInv, AdminList, At
<1>2. Quiet
  BY IdleCleared, CacheUnchanged DEF AdminList, DataApiInv, TypeOK, Quiet
<1>3. Route(r).on = "cleared"
  BY <1>1 DEF OnRoute, Route
<1>4. conn'[c].scope = Cleared
  BY DEF AdminList, DataApiInv, TypeOK
<1>5. Answer(r, Tenant)
  BY <1>4 DEF AdminList, Visible
<1> QED  BY <1>1, <1>2, <1>3, <1>5, Answered

LEMMA CollectStep ==
    ASSUME DataApiInv, NEW r \in Req, NEW c \in Conn, Collect(r, c)
    PROVE  DataApiInv'
<1> DEFINE q == req[r]
           rows == Visible(conn[c].scope)
           p == [q EXCEPT !.pc = "upsert", !.rows = rows]
<1>1. q \in Request /\ q.pc = "collect" /\ OnRoute(q)
  BY Arrived DEF DataApiInv, Collect, At
<1>2. Quiet  BY QuietStep DEF Collect
<1>3. rows \in SUBSET Tenant
  BY DEF Visible, DataApiInv, TypeOK
<1>4. ~lost => rows = Tenant
  BY DEF Visible, Collect, Idle, DataApiInv, PoolInv
<1>5. p \in Request
  <2>1. "upsert" \in Pcs  BY DEF Pcs
  <2> HIDE DEF rows
  <2> QED  BY <1>1, <1>3, <2>1, UpdatedRequest, RequestFields
<1>6. /\ p.pc = "upsert" /\ p.path = q.path /\ p.conn = q.conn /\ p.rows = rows
      /\ p.tenant = q.tenant
  BY <1>1 DEF Request
<1>7. req' = [req EXCEPT ![r] = p]
  BY DEF Collect, DataApiInv, TypeOK
<1> HIDE DEF p, rows
<1>8. OnRoute(p)
  BY <1>1, <1>6 DEF OnRoute, Holding
<1>9. Observed(p, now, lost)
  BY <1>4, <1>6 DEF Observed
<1>10. p.pc \notin Scoped  BY <1>6 DEF Scoped
<1> QED  BY <1>1, <1>2, <1>5, <1>6, <1>7, <1>8, <1>9, <1>10, RequestMoves DEF Quiet

LEMMA UpsertStep ==
    ASSUME DataApiInv, NEW r \in Req, NEW c \in Conn, Upsert(r, c)
    PROVE  DataApiInv'
<1>1. req[r] \in Request /\ req[r].pc = "upsert" /\ OnRoute(req[r]) /\ Observed(req[r], now, lost)
  BY Arrived DEF DataApiInv, Upsert, At
<1>2. req[r].rows \in SUBSET Tenant
  BY <1>1, RequestFields
<1>3. Quiet
  BY <1>1, <1>2, PoolUnchanged, CacheUnchanged DEF Upsert, DataApiInv, TypeOK, Quiet, Observed
<1>4. Route(r).on = "stats"
  BY <1>1 DEF OnRoute, Route
<1> QED  BY <1>1, <1>2, <1>3, <1>4, Answered DEF Upsert

-----------------------------------------------------------------------------
(* The actions that take or give back a connection *)

(* A step of one request that does not touch the cache or the versions. *)
LEMMA ConnectionStep ==
    ASSUME DataApiInv, NEW r \in Req, NEW p \in Request \cup {Idled},
           req' = [req EXCEPT ![r] = p], req[r].pc # "invalidate",
           p \in Request => OnRoute(p) /\ Observed(p, now, lost'),
           conn' \in [Conn -> Conns], PoolInv',
           UNCHANGED <<cache, ver, elsewhere, stats, now, unapplied>>,
           lost => lost', lost' \in BOOLEAN, arrived' \in Nat, faults' \in Nat
    PROVE  DataApiInv'
<1>1. TypeOK /\ CacheInv /\ StaleOnlyIfOvertaken
  BY DEF DataApiInv
<1>2. CacheInv' /\ CacheTyped'
  BY <1>1, CachePreserved, CacheUnchanged
<1>3. StaleOnlyIfOvertaken'
  <2>1. \A s \in Req : req[s].pc = "invalidate" => req'[s] = req[s]
    BY <1>1 DEF TypeOK
  <2> QED  BY <1>1, <2>1, StalePreserved, CacheUnchanged
<1>4. /\ ver' \in [Tenant -> Nat] /\ elsewhere' \in [Tenant -> Nat] /\ unapplied' \in BOOLEAN /\ stats' \subseteq Tenant
      /\ ~lost' => ~unapplied' /\ stats' = Tenant
  BY <1>1 DEF TypeOK, DataApiInv
<1> QED  BY <1>2, <1>3, <1>4, RequestSteps

(* A request without a connection comes or goes. *)
LEMMA UnconnectedPool ==
    ASSUME TypeOK, PoolInv, NEW r \in Req, NEW p, req' = [req EXCEPT ![r] = p],
           req[r] \in Request => req[r].conn = NoConn,
           p \in Request => p.conn = NoConn,
           UNCHANGED <<conn, lost>>
    PROVE  PoolInv' /\ conn' \in [Conn -> Conns]
<1>1. \A s \in Req : req'[s] = IF s = r THEN p ELSE req[s]
  BY DEF TypeOK
<1>2. conn \in [Conn -> Conns]  BY DEF TypeOK, Conns
<1>3. ASSUME NEW c \in Conn, conn[c].by # NoReq
      PROVE  req'[conn[c].by] \in Request /\ req'[conn[c].by].conn = c
  <2>1. conn[c].by \in Req  BY <1>2, <1>3 DEF Conns
  <2> QED  BY <1>1, <1>3, <2>1, DataApiAssumption DEF PoolInv
<1>4. ASSUME NEW s \in Req, req'[s] \in Request, req'[s].conn # NoConn
      PROVE  Owns(s, req'[s], conn[req'[s].conn])
  BY <1>1, <1>4 DEF PoolInv
<1> QED  BY <1>2, <1>3, <1>4 DEF PoolInv, Owns

LEMMA ArriveStep ==
    ASSUME DataApiInv, NEW r \in Req, NEW t \in Tenant, NEW path \in Served,
           NEW q \in Variants(path), Arrive(r, t, path, q)
    PROVE  DataApiInv'
<1> DEFINE p == [pc |-> "auth", tenant |-> t, path |-> path, q |-> q,
                 conn |-> NoConn, rows |-> {}, seen |-> 0, old |-> {}]
<1>1. q \in Query
  BY DataApiAssumption DEF Variants
<1>2. p \in Request
  BY <1>1 DEF Request
<1>3. p.pc = "auth" /\ p.conn = NoConn /\ p.rows = {}
  OBVIOUS
<1>4. req' = [req EXCEPT ![r] = p]
  BY DEF Arrive
<1>5. req[r].pc = "idle"  BY DEF Arrive, At
<1> HIDE DEF p
<1>6. OnRoute(p) /\ Observed(p, now, lost')
  BY <1>3 DEF OnRoute, Observed, Holding
<1>7. TypeOK /\ PoolInv  BY DEF DataApiInv
<1>8. req[r] \notin Request
  BY <1>5, RequestFields DEF Pcs
<1>9. PoolInv' /\ conn' \in [Conn -> Conns]
  BY <1>3, <1>4, <1>7, <1>8, UnconnectedPool DEF Arrive
<1>10. arrived' \in Nat /\ faults' \in Nat /\ lost' \in BOOLEAN
  BY <1>7 DEF TypeOK, Arrive
<1> QED  BY <1>2, <1>4, <1>5, <1>6, <1>9, <1>10, ConnectionStep DEF Arrive

LEMMA DoneStep ==
    ASSUME DataApiInv, NEW r \in Req, Done(r)
    PROVE  DataApiInv'
<1>1. req[r] \in Request /\ req[r].pc = "done" /\ OnRoute(req[r])
  BY Arrived DEF DataApiInv, Done, At
<1>2. req[r].conn = NoConn
  BY <1>1 DEF OnRoute, Holding
<1>3. TypeOK /\ PoolInv  BY DEF DataApiInv
<1>4. PoolInv' /\ conn' \in [Conn -> Conns]
  BY <1>2, <1>3, IdledIsNoRequest, UnconnectedPool DEF Done
<1>5. arrived' \in Nat /\ faults' \in Nat /\ lost' \in BOOLEAN
  BY <1>3 DEF TypeOK, Done
<1> QED  BY <1>1, <1>4, <1>5, IdledIsNoRequest, ConnectionStep DEF Done

LEMMA AcquireConnStep ==
    ASSUME DataApiInv, NEW r \in Req, NEW c \in Conn, AcquireConn(r, c)
    PROVE  DataApiInv'
<1> DEFINE q == req[r]
           p == [q EXCEPT !.pc = "scope", !.conn = c]
<1>1. q \in Request /\ q.pc = "acquire" /\ OnRoute(q)
  BY Arrived DEF DataApiInv, AcquireConn, At
<1>2. /\ p.pc = "scope" /\ p.path = q.path /\ p.conn = c /\ p.rows = q.rows
      /\ p.tenant = q.tenant
  BY <1>1 DEF Request
<1>3. p \in Request
  BY <1>1, UpdatedRequest, RequestFields DEF Pcs
<1>4. req' = [req EXCEPT ![r] = p]
  BY DEF AcquireConn, DataApiInv, TypeOK
<1> HIDE DEF p
<1>5. OnRoute(p) /\ Observed(p, now, lost')
  BY <1>1, <1>2, DataApiAssumption DEF OnRoute, Observed, Holding
<1>6. TypeOK /\ PoolInv /\ conn \in [Conn -> Conns]  BY DEF DataApiInv, TypeOK, Conns
<1>7. conn[c].by = NoReq  BY DEF AcquireConn, Idle
<1>8. \A s \in Req : req'[s] = IF s = r THEN p ELSE req[s]
  BY <1>4, <1>6 DEF TypeOK
<1>9. /\ conn' \in [Conn -> Conns] /\ conn'[c].by = r
      /\ \A d \in Conn \ {c} : conn'[d] = conn[d]
  BY <1>6 DEF AcquireConn, Conns
<1>10. q.conn = NoConn  BY <1>1 DEF OnRoute, Holding
<1>11. PoolInv'
  <2>1. ASSUME NEW d \in Conn, conn'[d].by # NoReq
        PROVE  req'[conn'[d].by] \in Request /\ req'[conn'[d].by].conn = d
    <3>1. CASE d = c  BY <1>2, <1>3, <1>8, <1>9, <3>1
    <3>2. CASE d # c
      <4>1. conn'[d] = conn[d] /\ conn[d].by \in Req
        BY <1>6, <1>9, <2>1, <3>2 DEF Conns
      <4>2. conn[d].by # r
        BY <1>6, <1>10, <2>1, <4>1, DataApiAssumption DEF PoolInv
      <4> QED  BY <1>6, <1>8, <2>1, <4>1, <4>2 DEF PoolInv
    <3> QED  BY <3>1, <3>2
  <2>2. ASSUME NEW s \in Req, req'[s] \in Request, req'[s].conn # NoConn
        PROVE  Owns(s, req'[s], conn'[req'[s].conn])
    <3>1. CASE s = r  BY <1>2, <1>8, <1>9, <3>1 DEF Owns, Scoped
    <3>2. CASE s # r
      <4>1. req'[s] = req[s] /\ Owns(s, req[s], conn[req[s].conn]) /\ req[s].conn \in Conn
        BY <1>6, <1>8, <2>2, <3>2, RequestFields DEF PoolInv
      <4>2. req[s].conn # c
        BY <1>7, <4>1, DataApiAssumption DEF Owns
      <4> QED  BY <1>9, <4>1, <4>2
    <3> QED  BY <3>1, <3>2
  <2>3. ~lost' => \A d \in Conn : conn'[d].by = NoReq => conn'[d].scope = Cleared
    BY <1>6, <1>9, DataApiAssumption DEF PoolInv, AcquireConn
  <2> QED  BY <2>1, <2>2, <2>3 DEF PoolInv
<1>12. arrived' \in Nat /\ faults' \in Nat /\ lost' \in BOOLEAN
  BY <1>6 DEF TypeOK, AcquireConn
<1> QED  BY <1>1, <1>3, <1>4, <1>5, <1>9, <1>11, <1>12, ConnectionStep DEF AcquireConn

LEMMA ScopeSetStep ==
    ASSUME DataApiInv, NEW r \in Req, SetScope(r),
           conn' = [conn EXCEPT ![req[r].conn].scope = req[r].tenant],
           NEW pc, pc = (CASE Route(r).lists        -> "list"
                           [] Route(r).ttl = "none" -> "ask"
                           [] OTHER                 -> "lookup"),
           Goto(r, pc), UNCHANGED faults
    PROVE  DataApiInv'
<1> DEFINE q == req[r]
           c == q.conn
           p == [q EXCEPT !.pc = pc]
<1>1. q \in Request /\ q.pc = "scope" /\ OnRoute(q)
  BY Arrived DEF DataApiInv, SetScope, At
<1>2. RouteOK(q.path, Routes[q.path])
  BY <1>1, RequestFields, ServedRoutes
<1>3. /\ pc \in {"list", "ask", "lookup"}
      /\ pc = "list" => Routes[q.path].lists
      /\ pc = "lookup" => Routes[q.path].ttl # "none"
  BY <1>2 DEF RouteOK, Route
<1>4. /\ p.pc = pc /\ p.path = q.path /\ p.conn = c /\ p.rows = q.rows /\ p.tenant = q.tenant
  BY <1>1 DEF Request
<1>5. p \in Request
  BY <1>1, <1>3, UpdatedRequest, RequestFields DEF Pcs
<1>6. req' = [req EXCEPT ![r] = p]
  BY DEF Goto, DataApiInv, TypeOK
<1> HIDE DEF p
<1>7. OnRoute(p) /\ Observed(p, now, lost')
  BY <1>1, <1>3, <1>4 DEF OnRoute, Observed, Holding
<1>8. TypeOK /\ PoolInv /\ conn \in [Conn -> Conns]  BY DEF DataApiInv, TypeOK, Conns
<1>9. c \in Conn /\ q.tenant \in Tenant /\ conn[c].by = r
  <2>1. c # NoConn  BY <1>1 DEF OnRoute, Holding
  <2> QED  BY <1>1, <1>8, <2>1, RequestFields DEF PoolInv, Owns
<1>10. \A s \in Req : req'[s] = IF s = r THEN p ELSE req[s]
  BY <1>6, <1>8 DEF TypeOK
<1>11. /\ conn' \in [Conn -> Conns] /\ conn'[c].by = r /\ conn'[c].scope = q.tenant
       /\ \A d \in Conn \ {c} : conn'[d] = conn[d]
  BY <1>8, <1>9 DEF Conns
<1>12. PoolInv'
  <2>1. ASSUME NEW d \in Conn, conn'[d].by # NoReq
        PROVE  req'[conn'[d].by] \in Request /\ req'[conn'[d].by].conn = d
    <3>1. conn'[d].by = conn[d].by /\ conn[d].by \in Req
      BY <1>8, <1>9, <1>11, <2>1 DEF Conns
    <3> QED  BY <1>4, <1>5, <1>8, <1>10, <2>1, <3>1 DEF PoolInv
  <2>2. ASSUME NEW s \in Req, req'[s] \in Request, req'[s].conn # NoConn
        PROVE  Owns(s, req'[s], conn'[req'[s].conn])
    <3>1. CASE s = r  BY <1>4, <1>10, <1>11, <3>1 DEF Owns
    <3>2. CASE s # r
      <4>1. req'[s] = req[s] /\ Owns(s, req[s], conn[req[s].conn]) /\ req[s].conn \in Conn
        BY <1>8, <1>10, <2>2, <3>2, RequestFields DEF PoolInv
      <4>2. req[s].conn # c
        BY <1>9, <3>2, <4>1 DEF Owns
      <4> QED  BY <1>11, <4>1, <4>2
    <3> QED  BY <3>1, <3>2
  <2>3. ~lost' => \A d \in Conn : conn'[d].by = NoReq => conn'[d].scope = Cleared
    BY <1>8, <1>9, <1>11, DataApiAssumption DEF PoolInv, SetScope
  <2> QED  BY <2>1, <2>2, <2>3 DEF PoolInv
<1>13. arrived' \in Nat /\ faults' \in Nat /\ lost' \in BOOLEAN
  BY <1>8 DEF TypeOK, SetScope
<1> QED  BY <1>1, <1>5, <1>6, <1>7, <1>11, <1>12, <1>13, ConnectionStep DEF SetScope

LEMMA SetScopeStep ==
    ASSUME DataApiInv, NEW r \in Req, SetScope(r)
    PROVE  DataApiInv'
BY ScopeSetStep, ScopeFailsStep DEF SetScope

LEMMA ReleaseConnStep ==
    ASSUME DataApiInv, NEW r \in Req, ReleaseConn(r)
    PROVE  DataApiInv'
<1> DEFINE q == req[r]
           c == q.conn
           p == [q EXCEPT !.pc = "done", !.conn = NoConn]
<1>1. q \in Request /\ q.pc = "release" /\ OnRoute(q)
  BY Arrived DEF DataApiInv, ReleaseConn, At
<1>2. /\ p.pc = "done" /\ p.path = q.path /\ p.conn = NoConn /\ p.rows = q.rows
      /\ p.tenant = q.tenant
  BY <1>1 DEF Request
<1>3. p \in Request
  BY <1>1, UpdatedRequest, RequestFields DEF Pcs
<1>4. req' = [req EXCEPT ![r] = p]
  BY DEF ReleaseConn, DataApiInv, TypeOK
<1> HIDE DEF p
<1>5. OnRoute(p) /\ Observed(p, now, lost')
  BY <1>1, <1>2 DEF OnRoute, Observed, Holding
<1>6. TypeOK /\ PoolInv /\ conn \in [Conn -> Conns]  BY DEF DataApiInv, TypeOK, Conns
<1>7. c \in Conn /\ conn[c].by = r
  <2>1. c # NoConn  BY <1>1 DEF OnRoute, Holding
  <2> QED  BY <1>1, <1>6, <2>1, RequestFields DEF PoolInv, Owns
<1>8. \A s \in Req : req'[s] = IF s = r THEN p ELSE req[s]
  BY <1>4, <1>6 DEF TypeOK
<1>9. /\ conn' \in [Conn -> Conns] /\ conn'[c].by = NoReq
      /\ \A d \in Conn \ {c} : conn'[d] = conn[d]
      /\ lost' \/ (lost' = lost /\ conn'[c].scope = Cleared)
      /\ (lost => lost') /\ lost' \in BOOLEAN /\ faults' \in Nat
  <2>1. CASE conn' = [conn EXCEPT ![c] = [by |-> NoReq, scope |-> Cleared]] /\ UNCHANGED <<faults, lost>>
    BY <1>6, <1>7, <2>1 DEF Conns, TypeOK
  <2>2. CASE Fault /\ conn' = [conn EXCEPT ![c].by = NoReq] /\ lost' = TRUE
    <3>1. faults' \in Nat  BY <1>6, <2>2 DEF Fault, TypeOK
    <3>2. /\ conn' \in [Conn -> Conns] /\ conn'[c].by = NoReq
          /\ \A d \in Conn \ {c} : conn'[d] = conn[d]
      BY <1>6, <1>7, <2>2 DEF Conns
    <3>3. lost'  BY <2>2
    <3>4. lost' \in BOOLEAN  BY <2>2
    <3> QED  BY <3>1, <3>2, <3>3, <3>4
  <2> QED  BY <2>1, <2>2 DEF ReleaseConn
<1>10. PoolInv'
  <2>1. ASSUME NEW d \in Conn, conn'[d].by # NoReq
        PROVE  req'[conn'[d].by] \in Request /\ req'[conn'[d].by].conn = d
    <3>1. d # c /\ conn'[d] = conn[d] /\ conn[d].by \in Req
      BY <1>6, <1>9, <2>1 DEF Conns
    <3>2. conn[d].by # r
      BY <1>6, <2>1, <3>1 DEF PoolInv
    <3> QED  BY <1>6, <1>8, <2>1, <3>1, <3>2 DEF PoolInv
  <2>2. ASSUME NEW s \in Req, req'[s] \in Request, req'[s].conn # NoConn
        PROVE  Owns(s, req'[s], conn'[req'[s].conn])
    <3>1. s # r  BY <1>2, <1>8, <2>2
    <3>2. req'[s] = req[s] /\ Owns(s, req[s], conn[req[s].conn]) /\ req[s].conn \in Conn
      BY <1>6, <1>8, <2>2, <3>1, RequestFields DEF PoolInv
    <3>3. req[s].conn # c
      BY <1>7, <3>1, <3>2 DEF Owns
    <3> QED  BY <1>9, <3>2, <3>3
  <2>3. ~lost' => \A d \in Conn : conn'[d].by = NoReq => conn'[d].scope = Cleared
    BY <1>6, <1>9 DEF PoolInv
  <2> QED  BY <2>1, <2>2, <2>3 DEF PoolInv
<1>11. arrived' \in Nat
  BY <1>6 DEF TypeOK, ReleaseConn
<1> QED  BY <1>1, <1>3, <1>4, <1>5, <1>9, <1>10, <1>11, ConnectionStep DEF ReleaseConn

-----------------------------------------------------------------------------
(* The cache *)

(* What eviction leaves is unchanged, and it takes nothing from a cache     *)
(* within its limit.                                                        *)
LEMMA Evicted ==
    ASSUME NEW c, NEW d \in evictLocked(c)
    PROVE  /\ DOMAIN d \subseteq DOMAIN c /\ \A k \in DOMAIN d : d[k] = c[k]
           /\ Cardinality(DOMAIN c) <= MaxEntries => d = c
<1> DEFINE live == {k \in DOMAIN c : ~Expired(c[k])}
           kept == MaxEntries - MaxEntries \div 10
<1>1. CASE Cardinality(DOMAIN c) <= MaxEntries /\ d = c
  BY <1>1
<1>2. CASE /\ ~(Cardinality(DOMAIN c) <= MaxEntries)
           /\ \E keys : d = Without(c, keys)
  BY <1>2 DEF Without
<1>3. \/ Cardinality(DOMAIN c) <= MaxEntries /\ d = c
      \/ /\ ~(Cardinality(DOMAIN c) <= MaxEntries)
         /\ \E keys : d = Without(c, keys)
  BY DEF evictLocked
<1> QED  BY <1>1, <1>2, <1>3

(* A stored response: one more entry, or fewer when the cache was full. *)
LEMMA Stored ==
    ASSUME IsFiniteSet(DOMAIN cache), NEW key, NEW e, NEW d \in setWithTTL(key, e)
    PROVE  /\ DOMAIN d \subseteq DOMAIN cache \cup {key}
           /\ \A k \in DOMAIN d : d[k] = IF k = key THEN e ELSE cache[k]
           /\ IsFiniteSet(DOMAIN d)
           /\ ~(DOMAIN cache \subseteq DOMAIN d) => Cardinality(DOMAIN cache) >= MaxEntries
<1> DEFINE c == [k \in DOMAIN cache \cup {key} |-> IF k = key THEN e ELSE cache[k]]
<1>1. d \in evictLocked(c)  BY DEF setWithTTL
<1>2. DOMAIN c = DOMAIN cache \cup {key}  OBVIOUS
<1>3. \A k \in DOMAIN c : c[k] = IF k = key THEN e ELSE cache[k]  OBVIOUS
<1> HIDE DEF c
<1>4. /\ DOMAIN d \subseteq DOMAIN c /\ \A k \in DOMAIN d : d[k] = c[k]
      /\ Cardinality(DOMAIN c) <= MaxEntries => d = c
  BY <1>1, Evicted
<1>5. /\ IsFiniteSet(DOMAIN c) /\ Cardinality(DOMAIN cache) \in Nat
      /\ Cardinality(DOMAIN c) = Cardinality(DOMAIN cache)
         \/ Cardinality(DOMAIN c) = Cardinality(DOMAIN cache) + 1
  BY <1>2, FS_AddElement, FS_CardinalityType
<1>6. IsFiniteSet(DOMAIN d)
  BY <1>4, <1>5, FS_Subset
<1>7. ASSUME ~(DOMAIN cache \subseteq DOMAIN d)
      PROVE  Cardinality(DOMAIN cache) >= MaxEntries
  <2>1. ~(Cardinality(DOMAIN c) <= MaxEntries)
    BY <1>2, <1>4, <1>7
  <2> QED  BY <1>5, <2>1, DataApiAssumption
<1> QED  BY <1>2, <1>3, <1>4, <1>6, <1>7

LEMMA TTLType ==
    ASSUME NEW route, NEW ttl \in TTLs(route)
    PROVE  ttl \in Nat
<1>1. \A a \in 0 .. MaxTTL + 1 : requestCacheTTL(a) \in Nat
  BY DataApiAssumption DEF requestCacheTTL
<1> QED  BY <1>1, DataApiAssumption DEF TTLs

LEMMA StoreResponseStep ==
    ASSUME DataApiInv, NEW r \in Req, StoreResponse(r)
    PROVE  DataApiInv'
<1> DEFINE q == req[r]
           key == dataCacheKey(r)
<1>1. TypeOK /\ PoolInv /\ CacheInv /\ StaleOnlyIfOvertaken  BY DEF DataApiInv
<1>2. q \in Request /\ q.pc = "store" /\ OnRoute(q) /\ Observed(q, now, lost)
  BY Arrived DEF DataApiInv, StoreResponse, At
<1>3. /\ q.tenant \in Tenant /\ q.path \in Served /\ q.q \in Query /\ q.rows \in SUBSET Tenant
      /\ q.seen \in Nat
  BY <1>2, RequestFields
<1>4. q.rows \subseteq {q.tenant} /\ (~lost /\ q.path = "overview" => q.rows = {q.tenant})
  BY <1>2 DEF OnRoute, Observed
<1>5. PICK p \in Request :
         /\ req' = [req EXCEPT ![r] = p]
         /\ p.tenant = q.tenant /\ p.conn = q.conn
         /\ p.pc \in {"release", "done"} /\ p.pc \notin Scoped
         /\ OnRoute(p) /\ Observed(p, now, lost')
  BY <1>1, <1>2, <1>3, <1>4, AnswerBecomes DEF StoreResponse
<1>8. PoolInv' /\ conn' \in [Conn -> Conns]
  BY <1>1, <1>2, <1>5, PoolPreserved, PoolUnchanged DEF StoreResponse, PoolKept
<1>9. PICK ttl \in TTLs(Route(r)) :
          cache' \in setWithTTL(key, [rows |-> q.rows, ver |-> q.seen, expires |-> now + ttl,
                                     overtaken |-> ver[q.tenant] > q.seen])
  BY DEF StoreResponse
<1> DEFINE e == [rows |-> q.rows, ver |-> q.seen, expires |-> now + ttl,
                 overtaken |-> ver[q.tenant] > q.seen]
<1>10. e.rows = q.rows /\ e.ver = q.seen /\ (ver[q.tenant] > q.seen => e.overtaken)
  OBVIOUS
<1>11. e \in Entry
  <2>1. now + ttl \in Nat  BY <1>1, TTLType DEF TypeOK
  <2>2. (ver[q.tenant] > q.seen) \in BOOLEAN  BY <1>1, <1>3 DEF TypeOK
  <2> QED  BY <1>3, <2>1, <2>2 DEF Entry
<1>12. cache' \in setWithTTL(key, e)  BY <1>9
<1>13. key \in Keys /\ key.tenant = q.tenant /\ key.path = q.path
  BY <1>3 DEF dataCacheKey, Keys
<1> HIDE DEF e, key
<1>14. /\ DOMAIN cache' \subseteq DOMAIN cache \cup {key}
       /\ \A k \in DOMAIN cache' : cache'[k] = IF k = key THEN e ELSE cache[k]
       /\ IsFiniteSet(DOMAIN cache')
  BY <1>1, <1>12, Stored DEF CacheInv
<1>15. CacheTyped'
  BY <1>1, <1>11, <1>13, <1>14 DEF CacheTyped, TypeOK
<1>16. CacheInv'
  BY <1>1, <1>4, <1>10, <1>13, <1>14 DEF CacheInv, StoreResponse
<1>17. StaleOnlyIfOvertaken'
  <2>1. \A s \in Req : req[s].pc = "invalidate" => req'[s] = req[s]
    BY <1>1, <1>2, <1>5 DEF TypeOK
  <2> SUFFICES ASSUME NEW k \in DOMAIN cache', k.path = "overview",
                      cache'[k].ver < ver'[k.tenant],
                      \A s \in Req : ~(req'[s].pc = "invalidate" /\ req'[s].tenant = k.tenant)
               PROVE  cache'[k].overtaken \/ cache'[k].ver < elsewhere'[k.tenant]
    BY DEF StaleOnlyIfOvertaken, At
  <2>2. ver' = ver /\ elsewhere' = elsewhere  BY DEF StoreResponse
  <2>3. CASE k = key
    BY <1>1, <1>3, <1>10, <1>13, <1>14, <2>2, <2>3 DEF TypeOK
  <2>4. CASE k # key
    BY <1>1, <1>14, <2>1, <2>2, <2>4 DEF StaleOnlyIfOvertaken, At
  <2> QED  BY <2>3, <2>4
<1>18. /\ ver' \in [Tenant -> Nat] /\ elsewhere' \in [Tenant -> Nat] /\ now' = now /\ lost' = lost /\ lost' \in BOOLEAN
       /\ unapplied' \in BOOLEAN /\ stats' \subseteq Tenant
       /\ (~lost' => ~unapplied' /\ stats' = Tenant) /\ arrived' \in Nat /\ faults' \in Nat
  BY <1>1 DEF TypeOK, DataApiInv, StoreResponse
<1> QED  BY <1>5, <1>8, <1>15, <1>16, <1>17, <1>18, RequestSteps

LEMMA DeactivateTenantRepoStep ==
    ASSUME DataApiInv, NEW r \in Req, NEW c \in Conn, DeactivateTenantRepo(r, c)
    PROVE  DataApiInv'
<1> DEFINE q == req[r]
           p == [q EXCEPT !.pc = "invalidate"]
<1>1. TypeOK /\ PoolInv /\ CacheInv /\ StaleOnlyIfOvertaken  BY DEF DataApiInv
<1>2. q \in Request /\ q.pc = "write" /\ OnRoute(q)
  BY Arrived DEF DataApiInv, DeactivateTenantRepo, At
<1>3. /\ p.pc = "invalidate" /\ p.path = q.path /\ p.conn = q.conn /\ p.rows = q.rows
      /\ p.tenant = q.tenant
  BY <1>2 DEF Request
<1>4. p \in Request
  BY <1>2, UpdatedRequest, RequestFields DEF Pcs
<1>5. req' = [req EXCEPT ![r] = p]
  BY <1>1 DEF DeactivateTenantRepo, Goto, TypeOK
<1> HIDE DEF p
<1>6. OnRoute(p) /\ Observed(p, now, lost') /\ p.pc \notin Scoped
  BY <1>2, <1>3 DEF OnRoute, Observed, Holding, Scoped
<1>7. PoolInv' /\ conn' \in [Conn -> Conns]
  BY <1>1, <1>2, <1>3, <1>4, <1>5, <1>6, PoolPreserved, PoolUnchanged
     DEF DeactivateTenantRepo, PoolKept
<1>8. CacheInv' /\ CacheTyped'
  BY <1>1, CachePreserved, CacheUnchanged DEF DeactivateTenantRepo
<1>9. q.tenant \in Tenant  BY <1>2, RequestFields
<1>10. /\ ver' \in [Tenant -> Nat] /\ unapplied' \in BOOLEAN
       /\ \A t \in Tenant \ {q.tenant} : ver'[t] = ver[t]
  <2>1. ver \in [Tenant -> Nat] /\ unapplied \in BOOLEAN  BY <1>1 DEF TypeOK
  <2>2. CASE ver' = [ver EXCEPT ![q.tenant] = @ + 1] /\ UNCHANGED unapplied
    BY <1>9, <2>1, <2>2
  <2>3. CASE unapplied' = TRUE /\ UNCHANGED ver
    BY <2>1, <2>3
  <2> QED  BY <2>2, <2>3 DEF DeactivateTenantRepo
<1>11. ~lost => unapplied' = unapplied
  <2>1. ~lost => conn[c].scope = Cleared
    BY <1>1 DEF DeactivateTenantRepo, Idle, PoolInv
  <2>2. ~lost => VisibleOf(conn[c].scope, q.tenant) # {}
    BY <1>9, <2>1 DEF VisibleOf, Visible
  <2> QED  BY <2>2 DEF DeactivateTenantRepo
<1>12. StaleOnlyIfOvertaken'
  <2>1. \A s \in Req : req[s].pc = "invalidate" => req'[s] = req[s]
    BY <1>1, <1>2, <1>5 DEF TypeOK
  <2>2. req'[r] = p  BY <1>1, <1>5 DEF TypeOK
  <2> SUFFICES ASSUME NEW k \in DOMAIN cache', k.path = "overview",
                      cache'[k].ver < ver'[k.tenant],
                      \A s \in Req : ~(req'[s].pc = "invalidate" /\ req'[s].tenant = k.tenant)
               PROVE  cache'[k].overtaken \/ cache'[k].ver < elsewhere'[k.tenant]
    BY DEF StaleOnlyIfOvertaken, At
  <2>3. cache' = cache /\ elsewhere' = elsewhere  BY DEF DeactivateTenantRepo
  <2>4. k.tenant \in Tenant
    BY <1>1, <2>3 DEF TypeOK, Keys
  <2>5. k.tenant # q.tenant
    BY <1>3, <2>2
  <2> QED  BY <1>1, <1>10, <2>1, <2>3, <2>4, <2>5 DEF StaleOnlyIfOvertaken, At
<1>13. /\ now' = now /\ lost' = lost /\ lost' \in BOOLEAN /\ stats' \subseteq Tenant
       /\ elsewhere' \in [Tenant -> Nat]
       /\ (~lost' => ~unapplied' /\ stats' = Tenant) /\ arrived' \in Nat /\ faults' \in Nat
  BY <1>1, <1>11 DEF TypeOK, DataApiInv, DeactivateTenantRepo
<1> QED  BY <1>4, <1>5, <1>6, <1>7, <1>8, <1>10, <1>12, <1>13, RequestSteps

LEMMA AddTenantReposStep ==
    ASSUME DataApiInv, NEW r \in Req, NEW c \in Conn, AddTenantRepos(r, c)
    PROVE  DataApiInv'
<1> DEFINE q == req[r]
           p == [q EXCEPT !.pc = "invalidate"]
<1>1. TypeOK /\ PoolInv /\ CacheInv /\ StaleOnlyIfOvertaken  BY DEF DataApiInv
<1>2. q \in Request /\ q.pc = "add" /\ OnRoute(q) /\ q.tenant \in Tenant
  BY Arrived, RequestFields DEF DataApiInv, AddTenantRepos, At
<1>3. CASE Answer(r, {}) /\ UNCHANGED ver
  <2>1. Quiet  BY <1>3, QuietStep DEF AddTenantRepos
  <2> QED  BY <1>2, <1>3, <2>1, Answered
<1>4. CASE ver' = [ver EXCEPT ![q.tenant] = @ + 1] /\ Goto(r, "invalidate")
  <2>1. /\ p.pc = "invalidate" /\ p.path = q.path /\ p.conn = q.conn /\ p.rows = q.rows
        /\ p.tenant = q.tenant
    BY <1>2 DEF Request
  <2>2. p \in Request
    BY <1>2, UpdatedRequest, RequestFields DEF Pcs
  <2>3. req' = [req EXCEPT ![r] = p]
    BY <1>1, <1>4 DEF Goto, TypeOK
  <2> HIDE DEF p
  <2>4. OnRoute(p) /\ Observed(p, now, lost') /\ p.pc \notin Scoped
    BY <1>2, <2>1 DEF OnRoute, Observed, Holding, Scoped
  <2>5. PoolInv' /\ conn' \in [Conn -> Conns]
    BY <1>1, <1>2, <2>1, <2>2, <2>3, <2>4, PoolPreserved, PoolUnchanged DEF AddTenantRepos, PoolKept
  <2>6. CacheInv' /\ CacheTyped'
    BY <1>1, CachePreserved, CacheUnchanged DEF AddTenantRepos
  <2>7. ver' \in [Tenant -> Nat] /\ \A t \in Tenant \ {q.tenant} : ver'[t] = ver[t]
    BY <1>1, <1>2, <1>4 DEF TypeOK
  <2>8. StaleOnlyIfOvertaken'
    <3>1. \A s \in Req : req[s].pc = "invalidate" => req'[s] = req[s]
      BY <1>1, <1>2, <2>3 DEF TypeOK
    <3>2. req'[r] = p  BY <1>1, <2>3 DEF TypeOK
    <3> SUFFICES ASSUME NEW k \in DOMAIN cache', k.path = "overview",
                        cache'[k].ver < ver'[k.tenant],
                        \A s \in Req : ~(req'[s].pc = "invalidate" /\ req'[s].tenant = k.tenant)
                 PROVE  cache'[k].overtaken \/ cache'[k].ver < elsewhere'[k.tenant]
      BY DEF StaleOnlyIfOvertaken, At
    <3>3. cache' = cache /\ elsewhere' = elsewhere  BY DEF AddTenantRepos
    <3>4. k.tenant \in Tenant /\ k.tenant # q.tenant
      BY <1>1, <2>1, <3>2, <3>3 DEF TypeOK, Keys
    <3> QED  BY <1>1, <2>7, <3>1, <3>3, <3>4 DEF StaleOnlyIfOvertaken, At
  <2>9. /\ now' = now /\ lost' = lost /\ lost' \in BOOLEAN /\ unapplied' \in BOOLEAN
        /\ stats' \subseteq Tenant /\ elsewhere' \in [Tenant -> Nat]
        /\ (~lost' => ~unapplied' /\ stats' = Tenant) /\ arrived' \in Nat /\ faults' \in Nat
    BY <1>1 DEF TypeOK, DataApiInv, AddTenantRepos
  <2> QED  BY <2>2, <2>3, <2>4, <2>5, <2>6, <2>7, <2>8, <2>9, RequestSteps
<1> QED  BY <1>3, <1>4 DEF AddTenantRepos

LEMMA InvalidateStep ==
    ASSUME DataApiInv, NEW r \in Req, Invalidate(r)
    PROVE  DataApiInv'
<1> DEFINE q == req[r]
           gone == {k \in DOMAIN cache : k.tenant = q.tenant /\ k.path = "overview"}
<1>1. TypeOK /\ PoolInv /\ CacheInv /\ StaleOnlyIfOvertaken  BY DEF DataApiInv
<1>2. q \in Request /\ q.pc = "invalidate" /\ OnRoute(q)
  BY Arrived DEF DataApiInv, Invalidate, At
<1>3. PICK p \in Request :
         /\ req' = [req EXCEPT ![r] = p]
         /\ p.tenant = q.tenant /\ p.conn = q.conn
         /\ p.pc \in {"release", "done"} /\ p.pc \notin Scoped
         /\ OnRoute(p) /\ Observed(p, now, lost')
  BY <1>1, <1>2, AnswerBecomes DEF Invalidate
<1>6. PoolInv' /\ conn' \in [Conn -> Conns]
  BY <1>1, <1>2, <1>3, PoolPreserved, PoolUnchanged DEF Invalidate, PoolKept
<1>7. cache' = Without(cache, gone)  BY DEF Invalidate, invalidatePrefix
<1>8. CacheShrinks /\ \A k \in DOMAIN cache' : ~(k.tenant = q.tenant /\ k.path = "overview")
  <2>1. CacheShrinks /\ DOMAIN cache' = DOMAIN cache \ gone
    <3> HIDE DEF gone
    <3> QED  BY <1>7, CacheWithout
  <2> QED  BY <2>1
<1>9. CacheInv' /\ CacheTyped'
  BY <1>1, <1>8, CachePreserved DEF Invalidate
<1>10. StaleOnlyIfOvertaken'
  <2>1. \A s \in Req \ {r} : req'[s] = req[s]
    BY <1>1, <1>3 DEF TypeOK
  <2> SUFFICES ASSUME NEW k \in DOMAIN cache', k.path = "overview",
                      cache'[k].ver < ver'[k.tenant],
                      \A s \in Req : ~(req'[s].pc = "invalidate" /\ req'[s].tenant = k.tenant)
               PROVE  cache'[k].overtaken \/ cache'[k].ver < elsewhere'[k.tenant]
    BY DEF StaleOnlyIfOvertaken, At
  <2>2. ver' = ver /\ elsewhere' = elsewhere /\ k.tenant # q.tenant  BY <1>8 DEF Invalidate
  <2>3. \A s \in Req : ~(req[s].pc = "invalidate" /\ req[s].tenant = k.tenant)
    BY <2>1, <2>2
  <2> QED  BY <1>1, <1>8, <2>2, <2>3 DEF StaleOnlyIfOvertaken, At, CacheShrinks
<1>11. /\ ver' \in [Tenant -> Nat] /\ elsewhere' \in [Tenant -> Nat] /\ now' = now /\ lost' = lost /\ lost' \in BOOLEAN
       /\ unapplied' \in BOOLEAN /\ stats' \subseteq Tenant
       /\ (~lost' => ~unapplied' /\ stats' = Tenant) /\ arrived' \in Nat /\ faults' \in Nat
  BY <1>1 DEF TypeOK, DataApiInv, Invalidate
<1> QED  BY <1>3, <1>6, <1>9, <1>10, <1>11, RequestSteps

-----------------------------------------------------------------------------
(* The actions of the clock, the eviction goroutine and the pool *)

LEMMA ChangedElsewhereStep ==
    ASSUME DataApiInv, NEW t \in Tenant, ChangedElsewhere(t)
    PROVE  DataApiInv'
<1>1. TypeOK /\ PoolInv /\ CacheInv /\ RequestsInv /\ StaleOnlyIfOvertaken
  BY DEF DataApiInv, RequestsInv
<1>2. /\ ver' \in [Tenant -> Nat] /\ elsewhere' \in [Tenant -> Nat]
      /\ ver'[t] = elsewhere'[t]
      /\ \A u \in Tenant \ {t} : ver'[u] = ver[u] /\ elsewhere'[u] = elsewhere[u]
  BY <1>1 DEF TypeOK, ChangedElsewhere
<1>3. TypeOK'
  BY <1>1, <1>2 DEF TypeOK, ChangedElsewhere
<1>4. PoolInv' /\ CacheInv'
  BY <1>1 DEF PoolInv, Owns, CacheInv, ChangedElsewhere
<1>5. RequestsInv'
  BY <1>1 DEF RequestsInv, OnRoute, Observed, ChangedElsewhere
<1>6. StaleOnlyIfOvertaken'
  <2> SUFFICES ASSUME NEW k \in DOMAIN cache', k.path = "overview",
                      cache'[k].ver < ver'[k.tenant],
                      \A s \in Req : ~(req'[s].pc = "invalidate" /\ req'[s].tenant = k.tenant)
               PROVE  cache'[k].overtaken \/ cache'[k].ver < elsewhere'[k.tenant]
    BY DEF StaleOnlyIfOvertaken, At
  <2>1. cache' = cache /\ req' = req  BY DEF ChangedElsewhere
  <2>2. k.tenant \in Tenant  BY <1>1, <2>1 DEF TypeOK, Keys
  <2> QED  BY <1>1, <1>2, <2>1, <2>2 DEF StaleOnlyIfOvertaken, At
<1> QED  BY <1>3, <1>4, <1>5, <1>6 DEF DataApiInv, RequestsInv, ChangedElsewhere

LEMMA PurgeExpiredStep ==
    ASSUME DataApiInv, PurgeExpired
    PROVE  DataApiInv'
<1>1. TypeOK /\ PoolInv /\ CacheInv /\ RequestsInv /\ StaleOnlyIfOvertaken
  BY DEF DataApiInv, RequestsInv
<1>2. CacheShrinks
  BY CacheWithout DEF PurgeExpired
<1>3. CacheInv' /\ CacheTyped'
  BY <1>1, <1>2, CachePreserved DEF PurgeExpired
<1>4. StaleOnlyIfOvertaken'
  BY <1>1, <1>2, StalePreserved DEF PurgeExpired
<1>5. TypeOK'
  BY <1>1, <1>3 DEF TypeOK, CacheTyped, PurgeExpired
<1>6. PoolInv'
  BY <1>1 DEF PoolInv, Owns, PurgeExpired
<1>7. RequestsInv'
  BY <1>1 DEF RequestsInv, OnRoute, Observed, PurgeExpired
<1> QED  BY <1>3, <1>4, <1>5, <1>6, <1>7 DEF DataApiInv, RequestsInv, PurgeExpired

LEMMA ConnMaxLifetimeStep ==
    ASSUME DataApiInv, NEW c \in Conn, ConnMaxLifetime(c)
    PROVE  DataApiInv'
<1>1. TypeOK /\ PoolInv /\ CacheInv /\ RequestsInv /\ StaleOnlyIfOvertaken
  BY DEF DataApiInv, RequestsInv
<1>2. PoolKept
  BY <1>1, IdleCleared DEF ConnMaxLifetime
<1>3. CacheInv' /\ CacheTyped'
  BY <1>1, CacheUnchanged, CachePreserved DEF ConnMaxLifetime
<1>4. StaleOnlyIfOvertaken'
  BY <1>1, CacheUnchanged, StalePreserved DEF ConnMaxLifetime
<1>5. TypeOK'
  BY <1>1, <1>2, <1>3 DEF TypeOK, CacheTyped, PoolKept, Conns, ConnMaxLifetime
<1>6. PoolInv'
  <2>1. ASSUME NEW r \in Req, req[r] \in Request, req[r].conn # NoConn
        PROVE  conn'[req[r].conn] = conn[req[r].conn]
    <3>1. Owns(r, req[r], conn[req[r].conn]) /\ req[r].conn \in Conn
      BY <1>1, <2>1, RequestFields DEF PoolInv
    <3> QED  BY <1>2, <3>1, DataApiAssumption DEF PoolKept, Owns
  <2>2. req' = req /\ lost' = lost  BY DEF ConnMaxLifetime
  <2>3. \A r \in Req : req[r] \in Request /\ req[r].conn # NoConn
                           => Owns(r, req[r], conn'[req[r].conn])
    BY <1>1, <2>1 DEF PoolInv
  <2>4. \A d \in Conn : conn'[d].by # NoReq
                           => req[conn'[d].by] \in Request /\ req[conn'[d].by].conn = d
    BY <1>1, <1>2 DEF PoolInv, PoolKept
  <2>5. ~lost => \A d \in Conn : conn'[d].by = NoReq => conn'[d].scope = Cleared
    BY <1>1, <1>2 DEF PoolInv, PoolKept
  <2> QED  BY <2>2, <2>3, <2>4, <2>5 DEF PoolInv
<1>7. RequestsInv'
  BY <1>1 DEF RequestsInv, OnRoute, Observed, ConnMaxLifetime
<1> QED  BY <1>3, <1>4, <1>5, <1>6, <1>7 DEF DataApiInv, RequestsInv, ConnMaxLifetime

LEMMA TickStep ==
    ASSUME DataApiInv, Tick
    PROVE  DataApiInv'
<1>1. TypeOK /\ PoolInv /\ CacheInv /\ RequestsInv /\ StaleOnlyIfOvertaken
  BY DEF DataApiInv, RequestsInv
<1>2. TypeOK'
  BY <1>1 DEF TypeOK, Tick
<1>3. PoolInv' /\ CacheInv'
  BY <1>1 DEF PoolInv, Owns, CacheInv, Tick
<1>4. StaleOnlyIfOvertaken'
  BY <1>1 DEF StaleOnlyIfOvertaken, At, Tick
<1>5. RequestsInv'
  <2>1. ASSUME NEW s \in Req, req[s] \in Request
        PROVE  OnRoute(req[s]) /\ Observed(req[s], now', lost)
    <3>1. OnRoute(req[s]) /\ Observed(req[s], now, lost)
      BY <1>1, <2>1 DEF RequestsInv
    <3>2. \A e \in req[s].old : e.expires \in Nat
      BY <2>1, RequestFields DEF Entry
    <3>3. now \in Nat /\ now' = now + 1  BY <1>1 DEF TypeOK, Tick
    <3>4. req[s].pc = "expired" => \A e \in req[s].old : now' > e.expires
      BY <3>1, <3>2, <3>3 DEF Observed
    <3> QED  BY <3>1, <3>4 DEF Observed
  <2> QED  BY <2>1 DEF RequestsInv, OnRoute, Observed, Tick
<1> QED  BY <1>2, <1>3, <1>4, <1>5 DEF DataApiInv, RequestsInv, Tick

-----------------------------------------------------------------------------
(* The invariant *)

LEMMA InitInv == ASSUME Init PROVE DataApiInv
<1>1. DOMAIN cache = {}  BY DEF Init
<1>2. \A r \in Req : req[r] \notin Request
  BY IdledIsNoRequest DEF Init
<1>3. TypeOK
  BY <1>1 DEF Init, TypeOK
<1>4. PoolInv
  BY <1>2 DEF Init, PoolInv
<1>5. CacheInv
  BY <1>1, FS_EmptySet DEF CacheInv
<1> QED  BY <1>1, <1>2, <1>3, <1>4, <1>5 DEF DataApiInv, Init, StaleOnlyIfOvertaken

LEMMA NextInv == ASSUME DataApiInv, [Next]_vars PROVE DataApiInv'
<1>1. ASSUME NEW r \in Req, NEW t \in Tenant, NEW path \in Served, NEW q \in Variants(path),
             Arrive(r, t, path, q)
      PROVE  DataApiInv'
  BY <1>1, ArriveStep
<1>2. ASSUME NEW r \in Req,
             \/ ValidationFails(r) \/ SetScope(r) \/ ReleaseConn(r)
             \/ Lookup(r) \/ DropExpired(r) \/ AskStore(r) \/ AskFails(r)
             \/ ExportRefused(r) \/ StoreResponse(r) \/ Invalidate(r) \/ Done(r)
      PROVE  DataApiInv'
  BY <1>2, ValidationFailsStep, SetScopeStep, ReleaseConnStep, LookupStep, DropExpiredStep,
     AskStoreStep, AskFailsStep, ExportRefusedStep, StoreResponseStep, InvalidateStep, DoneStep
<1>3. ASSUME NEW r \in Req, NEW c \in Conn,
             \/ ValidateSession(r, c) \/ AcquireConn(r, c) \/ ListTenantRepos(r, c)
             \/ AskPool(r, c) \/ AdminList(r, c) \/ Collect(r, c) \/ Upsert(r, c)
             \/ DeactivateTenantRepo(r, c) \/ AddTenantRepos(r, c)
      PROVE  DataApiInv'
  BY <1>3, ValidateSessionStep, AcquireConnStep, ListTenantReposStep, AskPoolStep,
     AdminListStep, CollectStep, UpsertStep, DeactivateTenantRepoStep,
     AddTenantReposStep
<1>4. ASSUME NEW c \in Conn, ConnMaxLifetime(c)
      PROVE  DataApiInv'
  BY <1>4, ConnMaxLifetimeStep
<1>5. CASE UNCHANGED vars
  BY <1>5 DEF vars, DataApiInv, TypeOK, PoolInv, CacheInv, StaleOnlyIfOvertaken, Owns, OnRoute,
              Observed, At
<1> QED  BY <1>1, <1>2, <1>3, <1>4, <1>5, ChangedElsewhereStep, PurgeExpiredStep, TickStep
         DEF Next

(* The pool, the cache and the requests of every reachable state of the     *)
(* server agree as DataApiInv says.                                         *)
THEOREM DataApiInvariant == Spec => []DataApiInv
BY InitInv, NextInv, PTL DEF Spec

(* Every reachable state of the server has the types of TypeOK. *)
THEOREM TypeCorrect == Spec => []TypeOK
<1>1. DataApiInv => TypeOK  BY DEF DataApiInv
<1> QED  BY <1>1, DataApiInvariant, PTL

(* Tenant isolation: whatever resets failed and whatever connection a       *)
(* statement ran on, a response and a cached entry hold rows of their own   *)
(* tenant only.                                                             *)
THEOREM TenantsIsolated == Spec => []OwnRowsOnly
<1>1. ASSUME DataApiInv PROVE OwnRowsOnly
  <2>1. ASSUME NEW r \in Req, ~At(r, "idle"), Route(r).on \notin {"cleared", "stats"}
        PROVE  req[r].rows \subseteq {req[r].tenant}
    <3>1. req[r] \in Request  BY <1>1, <2>1, Arrived DEF DataApiInv, At
    <3> QED  BY <1>1, <2>1, <3>1 DEF DataApiInv, OnRoute, Route
  <2> QED  BY <1>1, <2>1 DEF OwnRowsOnly, DataApiInv, CacheInv
<1> QED  BY <1>1, DataApiInvariant, PTL

(* As long as no reset failed, an acknowledged deletion took place, no      *)
(* overview is cached empty and the platform statistics count every tenant. *)
THEOREM PoolStatementsApply == Spec => []PoolStatementsTakeEffect
<1>1. ASSUME DataApiInv PROVE PoolStatementsTakeEffect
  BY <1>1 DEF DataApiInv, CacheInv, PoolStatementsTakeEffect, TypeOK
<1> QED  BY <1>1, DataApiInvariant, PTL

(* After an add or a deletion was answered, only a request that ran across  *)
(* it can leave an overview without it in the cache; changes made elsewhere *)
(* are the other reason why an overview may be old.                         *)
THEOREM OnlyOvertakenIsStale == Spec => []StaleOnlyIfOvertaken
<1>1. DataApiInv => StaleOnlyIfOvertaken  BY DEF DataApiInv
<1> QED  BY <1>1, DataApiInvariant, PTL

(* The steps that take an entry from the cache. *)
LEMMA WhoRemoves ==
    ASSUME DataApiInv, [Next]_vars, NEW k \in DOMAIN cache \ DOMAIN cache'
    PROVE  \/ Expired(cache[k])
           \/ \E r \in Req : At(r, "invalidate") /\ req[r].tenant = k.tenant
           \/ Cardinality(DOMAIN cache) >= MaxEntries
<1>1. ASSUME NEW r \in Req, DropExpired(r)
      PROVE  Expired(cache[k])
  <2>1. req[r] \in Request /\ req[r].pc = "expired"
    BY <1>1, Arrived DEF DataApiInv, DropExpired, At
  <2>2. k = dataCacheKey(r) /\ cache[k] \in req[r].old
    BY <1>1 DEF DropExpired, Without
  <2> QED  BY <2>1, <2>2 DEF DataApiInv, Observed, Expired
<1>2. ASSUME NEW r \in Req, StoreResponse(r)
      PROVE  Cardinality(DOMAIN cache) >= MaxEntries
  <2>1. \E key, e : cache' \in setWithTTL(key, e)
    BY <1>2 DEF StoreResponse
  <2> QED  BY <2>1, Stored DEF DataApiInv, CacheInv
<1>3. ASSUME NEW r \in Req, Invalidate(r)
      PROVE  At(r, "invalidate") /\ req[r].tenant = k.tenant
  BY <1>3 DEF Invalidate, invalidatePrefix, Without
<1>4. ASSUME PurgeExpired
      PROVE  Expired(cache[k])
  BY <1>4 DEF PurgeExpired, Without
<1>5. cache' # cache  OBVIOUS
<1>6. \/ \E r \in Req : DropExpired(r) \/ StoreResponse(r) \/ Invalidate(r)
      \/ PurgeExpired
  <2>1. ASSUME NEW r \in Req,
               \/ \E t \in Tenant, path \in Served : \E q \in Variants(path) : Arrive(r, t, path, q)
               \/ ValidationFails(r) \/ SetScope(r) \/ ReleaseConn(r) \/ Lookup(r)
               \/ AskStore(r) \/ AskFails(r) \/ ExportRefused(r) \/ Done(r)
        PROVE  cache' = cache
    BY <2>1 DEF Arrive, ValidationFails, SetScope, ReleaseConn, Lookup, AskStore, AskFails,
                ExportRefused, Done
  <2>2. ASSUME NEW r \in Req, NEW c \in Conn,
               \/ ValidateSession(r, c) \/ AcquireConn(r, c) \/ ListTenantRepos(r, c)
               \/ AskPool(r, c) \/ AdminList(r, c) \/ Collect(r, c) \/ Upsert(r, c)
               \/ DeactivateTenantRepo(r, c) \/ AddTenantRepos(r, c)
        PROVE  cache' = cache
    BY <2>2 DEF ValidateSession, AcquireConn, ListTenantRepos, AskPool, AdminList, Collect,
                Upsert, DeactivateTenantRepo, AddTenantRepos
  <2>3. ASSUME \/ \E c \in Conn : ConnMaxLifetime(c)
               \/ \E t \in Tenant : ChangedElsewhere(t)
               \/ Tick \/ UNCHANGED vars
        PROVE  cache' = cache
    BY <2>3 DEF ConnMaxLifetime, ChangedElsewhere, Tick, vars
  <2> QED  BY <1>5, <2>1, <2>2, <2>3 DEF Next
<1> QED  BY <1>1, <1>2, <1>3, <1>4, <1>6

(* A fresh entry leaves the cache by an invalidation of its tenant or       *)
(* because the cache is full: a request that found an expired entry never   *)
(* deletes the one that replaced it.                                        *)
THEOREM FreshEntriesStay == Spec => FreshStaysCached
<1>1. ASSUME DataApiInv, [Next]_vars
      PROVE  [\A k \in DOMAIN cache \ DOMAIN cache' :
                 \/ Expired(cache[k])
                 \/ \E r \in Req : At(r, "invalidate") /\ req[r].tenant = k.tenant
                 \/ Cardinality(DOMAIN cache) >= MaxEntries]_vars
  BY <1>1, WhoRemoves
<1> QED  BY <1>1, DataApiInvariant, PTL DEF Spec, FreshStaysCached

=============================================================================
