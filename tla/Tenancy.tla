------------------------------ MODULE Tenancy -------------------------------
(***************************************************************************)
(* The rows a tenant owns and everything that changes them: the            *)
(* repositories it tracks under the limit of its plan, the GitHub App      *)
(* installations recorded by webhooks, and the administrators' plan,       *)
(* status and invite forms (pkg/tenant/installation.go, tenant.go,         *)
(* admin.go, pkg/server/webhook.go, server.go, handler_admin.go).          *)
(* A step is one SQL statement or one critical section: the steps of       *)
(* requests, of webhook deliveries and of administrators interleave.       *)
(***************************************************************************)
EXTENDS Integers, FiniteSets

CONSTANTS
  Tenants, Repos,
  Samples,        \* config.SampleRepos
  Plans, Pro,     \* plan names; the plan of a new tenant
  MaxRepos,       \* by plan: how many repositories, 0 is no limit
  Adds,           \* requests POST /api/repos
  Admins,         \* requests of administrators
  Instances,      \* processes of the site, each with its own deliverySeen
  Installations,
  Deliveries,     \* X-GitHub-Delivery identifiers
  Window,         \* webhookDeliveryWindow
  MaxTime,        \* bound of the clock
  MaxCalls,       \* bound on requests, forms and events of GitHub
  MaxFaults,      \* bound on failing statements, restarts and deliveries made twice
  None

(* What GitHub reports: the account's owner is the sender. *)
Payloads ==
  [event : {"created", "suspend", "unsuspend", "deleted"}, inst : Installations,
   sender : Tenants, repos : {{}}]
  \cup [event : {"removed"}, inst : Installations, sender : Tenants, repos : SUBSET Repos]

ASSUME TenancyAssumption ==
  /\ Samples \subseteq Repos /\ IsFiniteSet(Repos)
  /\ Pro \in Plans /\ MaxRepos \in [Plans -> Nat]
  /\ Window \in Nat \ {0} /\ MaxTime \in Nat /\ MaxCalls \in Nat
  /\ MaxFaults \in Nat
  /\ None \notin Tenants \cup Deliveries \cup Plans \cup Int
  /\ None \notin Payloads /\ \A R \in SUBSET Repos : R # None

VARIABLES
  tenant,    \* devpulse_tenant: plan and status, plan None when there is no row
  upgrade,   \* tenants with upgrade_requested_at
  rows,      \* devpulse_tenant_repo
  seed,      \* by tenant: samples the background task has still to add
  add,       \* by request: where addRepoHandler is
  adm,       \* by request of an administrator: a plan change in progress
  inst,      \* devpulse_github_app_installation: tenant (None: no row), suspended_at
  github,    \* GitHub's own view of an installation
  sent,      \* by delivery: the payload GitHub sent, None before
  seen,      \* by instance: deliverySeen.entries
  hook,      \* by instance and delivery: repositories still to deactivate, None when not handled
  acked,     \* deliveries GitHub got a 200 for
  now, calls, faults,
  (* History variables. *)
  held,      \* by tenant: the plans it had
  raced,     \* tenants for which two transactions of AddTenantRepos were open at once
  passed,    \* by instance and delivery: when it last passed seenOrRecord, None never
  applied,   \* deliveries whose handler returned without error
  spoiled,   \* deliveries whose handler once returned an error
  latest,    \* by installation: the delivery about it that GitHub sent last
  caughtUp   \* installations whose last handled delivery is the one sent last

accounts == <<tenant, upgrade, held>>
tracking == <<rows, seed, add, raced>>
hooks == <<inst, github, sent, seen, hook, acked, passed, applied, spoiled, latest, caughtUp>>
vars == <<accounts, tracking, adm, hooks, now, calls, faults>>

(* A row of devpulse_tenant_repo by its columns active and sample. *)
RowStates == {"none", "own", "own_off", "sample", "sample_off"}

AddRequests ==
  [pc : {"install", "upsert", "count", "commit", "mark"}, t : Tenants, r : Repos]
PlanChanges == [pc : {"plan", "invite", "clear"}, t : Tenants, plan : Plans]

AddIdle == [pc |-> "idle", t |-> None, r |-> None]
NoChange == [pc |-> "idle", t |-> None, plan |-> None]

Init ==
  /\ \E T \in SUBSET Tenants :
       tenant = [t \in Tenants |-> [plan |-> IF t \in T THEN Pro ELSE None, status |-> "active"]]
  /\ held = [t \in Tenants |-> IF tenant[t].plan = None THEN {} ELSE {Pro}]
  /\ upgrade = {}
  /\ rows = [t \in Tenants |-> [r \in Repos |-> "none"]]
  /\ seed = [t \in Tenants |-> {}]
  /\ add = [p \in Adds |-> AddIdle]
  /\ adm = [p \in Admins |-> NoChange]
  /\ inst = [i \in Installations |-> [t |-> None, at |-> None]]
  /\ github = [i \in Installations |-> "absent"]
  /\ sent = [d \in Deliveries |-> None]
  /\ seen = [s \in Instances |-> [d \in Deliveries |-> None]]
  /\ hook = [s \in Instances |-> [d \in Deliveries |-> None]]
  /\ acked = {} /\ raced = {} /\ applied = {} /\ spoiled = {}
  /\ passed = [s \in Instances |-> [d \in Deliveries |-> None]]
  /\ latest = [i \in Installations |-> None] /\ caughtUp = {}
  /\ now = 0 /\ calls = 0 /\ faults = 0

Fault == faults < MaxFaults /\ faults' = faults + 1 /\ UNCHANGED calls
Call == calls < MaxCalls /\ calls' = calls + 1 /\ UNCHANGED faults

Exists(t) == tenant[t].plan # None

-----------------------------------------------------------------------------
(* Statements on devpulse_tenant_repo. *)

(* addTenantRepoSQL: insert, or set active and leave sample as it is. *)
Upserted(row) ==
  IF row \in {"sample", "sample_off"} THEN "sample" ELSE "own"

(* deactivateTenantRepoSQL. *)
Deactivated(row) ==
  CASE row = "own" -> "own_off" [] row = "sample" -> "sample_off" [] OTHER -> row

(* markRepoSampleSQL: only an active row. *)
MarkedSample(row) == IF row = "own" THEN "sample" ELSE row

(* Transactions of AddTenantRepos that have written and not ended. *)
Open(t) == {p \in Adds : add[p].pc \in {"count", "commit"} /\ add[p].t = t}

(* Another statement on the row waits until the transaction ends. *)
Locked(t, r) == \E p \in Open(t) : add[p].r = r

(* What the transaction of p sees: what is committed and its own upsert. *)
View(p) == [rows[add[p].t] EXCEPT ![add[p].r] = Upserted(@)]

(* countTenantReposSQL: active and not a sample. *)
CountTenantRepos(row) == Cardinality({r \in Repos : row[r] = "own"})

(* Not (maxRepos > 0 && currentCount > maxRepos). *)
Within(n, plan) == MaxRepos[plan] = 0 \/ n <= MaxRepos[plan]

-----------------------------------------------------------------------------
(* addRepoHandler. *)

(* RequireAuth let the tenant in and the repository is public. *)
AddBegins(p) ==
  /\ Call
  /\ add[p].pc = "idle"
  /\ \E t \in Tenants, r \in Repos :
       /\ Exists(t) /\ tenant[t].status = "active"
       /\ add' = [add EXCEPT ![p] = [pc |-> "install", t |-> t, r |-> r]]
  /\ UNCHANGED <<accounts, seed, rows, raced, adm, hooks, now>>

GetActiveInstallations(t) == {i \in Installations : inst[i].t = t /\ inst[i].at = None}

(* Any active installation of the tenant will do; without one the request *)
(* is refused.                                                             *)
AddChecksInstallation(p) ==
  /\ add[p].pc = "install"
  /\ add' = [add EXCEPT ![p] = IF GetActiveInstallations(add[p].t) = {} THEN AddIdle
                               ELSE [@ EXCEPT !.pc = "upsert"]]
  /\ UNCHANGED <<accounts, seed, rows, raced, adm, hooks, now, calls, faults>>

(* AddTenantRepos: the upsert, seen by nobody else before the commit. *)
AddUpserts(p) ==
  /\ add[p].pc = "upsert" /\ ~Locked(add[p].t, add[p].r)
  /\ add' = [add EXCEPT ![p].pc = "count"]
  /\ raced' = IF Open(add[p].t) = {} THEN raced ELSE raced \cup {add[p].t}
  /\ UNCHANGED <<accounts, seed, rows, adm, hooks, now, calls, faults>>

(* Wrong variant: the count does not see the upsert. *)
AddCountsBefore(p) ==
  /\ add[p].pc = "count"
  /\ add' = [add EXCEPT ![p] =
       IF Within(CountTenantRepos(rows[add[p].t]), tenant[add[p].t].plan)
       THEN [@ EXCEPT !.pc = "commit"] ELSE AddIdle]
  /\ UNCHANGED <<accounts, seed, rows, raced, adm, hooks, now, calls, faults>>

(* AddTenantRepos: max_repos and the count are read after the upsert; over *)
(* the limit the transaction is rolled back.                               *)
AddCounts(p) ==
  /\ add[p].pc = "count"
  /\ add' = [add EXCEPT ![p] = IF Within(CountTenantRepos(View(p)), tenant[add[p].t].plan)
                               THEN [@ EXCEPT !.pc = "commit"] ELSE AddIdle]
  /\ UNCHANGED <<accounts, seed, rows, raced, adm, hooks, now, calls, faults>>

AddCommits(p) ==
  /\ add[p].pc = "commit"
  /\ rows' = [rows EXCEPT ![add[p].t] = View(p)]
  /\ add' = [add EXCEPT ![p] = IF add[p].r \in Samples THEN [@ EXCEPT !.pc = "mark"]
                               ELSE AddIdle]
  /\ UNCHANGED <<accounts, seed, raced, adm, hooks, now, calls, faults>>

(* MarkRepoAsSample in a statement of its own. *)
AddMarksSample(p) ==
  /\ add[p].pc = "mark" /\ ~Locked(add[p].t, add[p].r)
  /\ rows' = [rows EXCEPT ![add[p].t][add[p].r] = MarkedSample(@)]
  /\ add' = [add EXCEPT ![p] = AddIdle]
  /\ UNCHANGED <<accounts, seed, raced, adm, hooks, now, calls, faults>>

(* A statement fails: the transaction is rolled back and the request ends; *)
(* a failed mark is only logged.                                           *)
AddFails(p) ==
  /\ add[p].pc # "idle" /\ Fault
  /\ add' = [add EXCEPT ![p] = AddIdle]
  /\ UNCHANGED <<accounts, seed, rows, raced, adm, hooks, now>>

(* deleteRepoHandler. *)
DeleteRepo(t, r) ==
  /\ Call
  /\ Exists(t) /\ tenant[t].status = "active" /\ ~Locked(t, r)
  /\ rows[t][r] # Deactivated(rows[t][r])
  /\ rows' = [rows EXCEPT ![t][r] = Deactivated(@)]
  /\ UNCHANGED <<accounts, seed, add, raced, adm, hooks, now>>

(* seedSampleRepos after a sign-in: with no repository of its own the tenant *)
(* is to get the samples, also those it has deleted.                         *)
SeedBegins(t) ==
  /\ Call
  /\ Exists(t) /\ tenant[t].status = "active" /\ seed[t] = {}
  /\ CountTenantRepos(rows[t]) = 0
  /\ seed' = [seed EXCEPT ![t] = Samples]
  /\ UNCHANGED <<accounts, rows, add, raced, adm, hooks, now>>

(* AddSampleRepos: addSampleRepoSQL for one of them; the count is not read again. *)
SeedAdds(t, r) ==
  /\ r \in seed[t] /\ ~Locked(t, r)
  /\ seed' = [seed EXCEPT ![t] = @ \ {r}]
  /\ rows' = [rows EXCEPT ![t][r] = "sample"]
  /\ UNCHANGED <<accounts, add, raced, adm, hooks, now, calls, faults>>

(* A statement fails, or the 30 seconds of the background task are over. *)
SeedStops(t) ==
  /\ Fault
  /\ seed[t] # {}
  /\ seed' = [seed EXCEPT ![t] = {}]
  /\ UNCHANGED <<accounts, rows, add, raced, adm, hooks, now>>

-----------------------------------------------------------------------------
(* Tenants: sign-up, plan, status, upgrade requests. *)

(* UpsertTenant for a new GitHub user; a known one keeps plan and status. *)
UpsertTenant(t) ==
  /\ Call
  /\ ~Exists(t)
  /\ tenant' = [tenant EXCEPT ![t].plan = Pro]
  /\ held' = [held EXCEPT ![t] = @ \cup {Pro}]
  /\ UNCHANGED <<upgrade, tracking, adm, hooks, now>>

(* upgradeRequestHandler, RequestUpgrade: once until it is cleared. *)
RequestUpgrade(t) ==
  /\ Call
  /\ Exists(t) /\ tenant[t].status = "active" /\ t \notin upgrade
  /\ upgrade' = upgrade \cup {t}
  /\ UNCHANGED <<tenant, held, tracking, adm, hooks, now>>

(* adminUpdateStatusHandler. *)
UpdateStatus(t, status) ==
  /\ Call
  /\ Exists(t) /\ tenant[t].status # status
  /\ tenant' = [tenant EXCEPT ![t].status = status]
  /\ UNCHANGED <<upgrade, held, tracking, adm, hooks, now>>

(* adminUpdatePlanHandler found the tenant of the form. *)
PlanFormBegins(a, t, plan) ==
  /\ Call
  /\ adm[a].pc = "idle" /\ Exists(t)
  /\ adm' = [adm EXCEPT ![a] = [pc |-> "plan", t |-> t, plan |-> plan]]
  /\ UNCHANGED <<accounts, tracking, hooks, now>>

(* adminInviteHandler: InsertMinimalTenant adds the tenant with the Pro     *)
(* plan, or finds it; the invited plan follows in a statement of its own.   *)
InviteBegins(a, t, plan) ==
  /\ Call
  /\ adm[a].pc = "idle"
  /\ adm' = [adm EXCEPT ![a] = [pc |-> "invite", t |-> t, plan |-> plan]]
  /\ tenant' = [tenant EXCEPT ![t].plan = IF @ = None THEN Pro ELSE @]
  /\ held' = [held EXCEPT ![t] = @ \cup {tenant'[t].plan}]
  /\ UNCHANGED <<upgrade, tracking, hooks, now>>

(* UpdatePlan; an invite ends here, the plan form clears the request next. *)
UpdatePlan(a) ==
  /\ adm[a].pc \in {"plan", "invite"}
  /\ tenant' = [tenant EXCEPT ![adm[a].t].plan = adm[a].plan]
  /\ held' = [held EXCEPT ![adm[a].t] = @ \cup {adm[a].plan}]
  /\ adm' = [adm EXCEPT ![a] = IF @.pc = "plan" THEN [@ EXCEPT !.pc = "clear"] ELSE NoChange]
  /\ UNCHANGED <<upgrade, tracking, hooks, now, calls, faults>>

ClearUpgradeRequest(a) ==
  /\ adm[a].pc = "clear"
  /\ upgrade' = upgrade \ {adm[a].t}
  /\ adm' = [adm EXCEPT ![a] = NoChange]
  /\ UNCHANGED <<tenant, held, tracking, hooks, now, calls, faults>>

(* The next statement fails: what was done before stays. *)
AdminFails(a) ==
  /\ adm[a].pc # "idle" /\ Fault
  /\ adm' = [adm EXCEPT ![a] = NoChange]
  /\ UNCHANGED <<accounts, tracking, hooks, now>>

-----------------------------------------------------------------------------
(* GitHub and the webhook. *)

GitHubSends(d, payload, state) ==
  /\ Call
  /\ sent[d] = None
  /\ sent' = [sent EXCEPT ![d] = payload]
  /\ github' = [github EXCEPT ![payload.inst] = state]
  /\ IF payload.event = "removed" THEN UNCHANGED <<latest, caughtUp>>
     ELSE /\ latest' = [latest EXCEPT ![payload.inst] = d]
          /\ caughtUp' = caughtUp \ {payload.inst}
  /\ UNCHANGED <<accounts, tracking, adm, inst, seen, hook, acked, passed, applied, spoiled, now>>

(* The owner of the account installs, suspends, resumes or removes the App, *)
(* or takes repositories out of the installation.                           *)
GitHubEvent(d, i, t) ==
  \E event \in {"created", "suspend", "unsuspend", "deleted", "removed"}, R \in SUBSET Repos :
    /\ (event # "removed" => R = {}) /\ (event = "removed" => R # {})
    /\ CASE event = "created" -> github[i] = "absent"
         [] event = "suspend" -> github[i] = "active"
         [] event = "unsuspend" -> github[i] = "suspended"
         [] OTHER -> github[i] # "absent"
    /\ GitHubSends(d, [event |-> event, inst |-> i, sender |-> t, repos |-> R],
                   CASE event \in {"created", "unsuspend"} -> "active"
                     [] event = "suspend" -> "suspended"
                     [] event = "deleted" -> "absent"
                     [] OTHER -> github[i])

(* Wrong variant: entries are dropped as soon as the clock moves on. *)
CollectedAtOnce(entries) == [k \in Deliveries |->
  IF entries[k] # None /\ entries[k] < now THEN None ELSE entries[k]]

(* The collection of stale entries on each write. *)
Collected(entries) == [k \in Deliveries |->
  IF entries[k] # None /\ entries[k] < now - Window THEN None ELSE entries[k]]

(* seenAt.After(cutoff). *)
Seen(s, d) == seen[s][d] # None /\ seen[s][d] > now - Window

(* Not tried yet, or tried in vain; anything else is a delivery made twice. *)
FirstTry(d) == d \notin acked /\ (d \in spoiled \/ \A k \in Instances : passed[k][d] = None)

(* A delivery, or a repeated one, reaches an instance. The first within the *)
(* window is recorded before it is handled; a repeated one is answered 200, *)
(* also while the first is handled. No handler lasts longer than the window.*)
Deliver(s, d) ==
  /\ sent[d] # None /\ (Seen(s, d) \/ hook[s][d] = None)
  /\ IF FirstTry(d) THEN UNCHANGED <<calls, faults>> ELSE Fault
  /\ IF Seen(s, d)
     THEN /\ acked' = acked \cup {d}
          /\ UNCHANGED <<seen, hook, passed>>
     ELSE /\ seen' = [seen EXCEPT ![s] = [Collected(@) EXCEPT ![d] = now]]
          /\ hook' = [hook EXCEPT ![s][d] = sent[d].repos]
          /\ passed' = [passed EXCEPT ![s][d] = now]
          /\ UNCHANGED acked
  /\ UNCHANGED <<accounts, tracking, adm, inst, github, sent, applied, spoiled, latest, caughtUp,
                 now>>

(* Wrong variant: only a suspension is recorded, not the removal of the App. *)
InstallationRowKept(row, payload) ==
  CASE payload.event = "created" -> [t |-> payload.sender, at |-> None]
    [] payload.event = "suspend" /\ row.t # None /\ row.at = None -> [row EXCEPT !.at = now]
    [] OTHER -> row

(* The statement of handleInstallationEvent. saveInstallationSQL takes the   *)
(* installation over and clears suspended_at, suspendInstallationSQL sets it *)
(* once; other actions, "unsuspend" among them, are not handled.             *)
InstallationRow(row, payload) ==
  CASE payload.event = "created" -> [t |-> payload.sender, at |-> None]
    [] payload.event \in {"deleted", "suspend"} /\ row.t # None /\ row.at = None ->
         [row EXCEPT !.at = now]
    [] OTHER -> row

(* GetTenantByGitHubID is called for these. *)
NeedsTenant(payload) == payload.event \in {"created", "removed"}

HookEnds(s, d, ok) ==
  /\ hook' = [hook EXCEPT ![s][d] = None]
  /\ acked' = IF ok THEN acked \cup {d} ELSE acked
  /\ applied' = IF ok THEN applied \cup {d} ELSE applied
  /\ spoiled' = IF ok THEN spoiled ELSE spoiled \cup {d}

(* handleInstallationReposEvent: one repository is deactivated. *)
DeactivateRemoved(s, d) ==
  /\ hook[s][d] \notin {None, {}} /\ Exists(sent[d].sender)
  /\ \E r \in hook[s][d] :
       /\ ~Locked(sent[d].sender, r)
       /\ rows' = [rows EXCEPT ![sent[d].sender][r] = Deactivated(@)]
       /\ hook' = [hook EXCEPT ![s][d] = @ \ {r}]
  /\ UNCHANGED <<accounts, seed, add, raced, adm, inst, github, sent, seen, acked, passed, applied,
                 spoiled, latest, caughtUp, now, calls, faults>>

(* Wrong variant: an unknown sender is answered 200. *)
HandleAnyway(s, d) ==
  /\ hook[s][d] = {}
  /\ \/ inst' = [inst EXCEPT ![sent[d].inst] = InstallationRow(@, sent[d])] /\ HookEnds(s, d, TRUE)
     \/ inst' = inst /\ ~Exists(sent[d].sender) /\ hook' = [hook EXCEPT ![s][d] = None]
        /\ acked' = acked \cup {d} /\ UNCHANGED <<applied, spoiled>>
  /\ UNCHANGED <<accounts, tracking, adm, github, sent, seen, passed, latest, caughtUp, now, calls,
                 faults>>

(* The handler's statement on the installation, or the end of the loop. *)
Handle(s, d) ==
  /\ hook[s][d] = {}
  /\ NeedsTenant(sent[d]) => Exists(sent[d].sender)
  /\ inst' = [inst EXCEPT ![sent[d].inst] = InstallationRow(@, sent[d])]
  /\ HookEnds(s, d, TRUE)
  /\ caughtUp' = IF sent[d].event = "removed" THEN caughtUp
                 ELSE IF latest[sent[d].inst] = d THEN caughtUp \cup {sent[d].inst}
                 ELSE caughtUp \ {sent[d].inst}
  /\ UNCHANGED <<accounts, tracking, adm, github, sent, seen, passed, latest, now, calls, faults>>

(* The sender is not a tenant: 500, and GitHub may deliver again. *)
UnknownSender(s, d) ==
  /\ hook[s][d] # None /\ NeedsTenant(sent[d]) /\ ~Exists(sent[d].sender)
  /\ HookEnds(s, d, FALSE)
  /\ UNCHANGED <<accounts, tracking, adm, inst, github, sent, seen, passed, latest, caughtUp, now,
                 calls, faults>>

(* A statement fails: 500. *)
HookFails(s, d) ==
  /\ hook[s][d] # None /\ Fault
  /\ HookEnds(s, d, FALSE)
  /\ UNCHANGED <<accounts, tracking, adm, inst, github, sent, seen, passed, latest, caughtUp, now>>

(* The process is replaced: its memory of deliveries is gone. *)
Restart(s) ==
  /\ Fault
  /\ seen' = [seen EXCEPT ![s] = [d \in Deliveries |-> None]]
  /\ hook' = [hook EXCEPT ![s] = [d \in Deliveries |-> None]]
  /\ passed' = [passed EXCEPT ![s] = [d \in Deliveries |-> None]]
  /\ spoiled' = spoiled \cup {d \in Deliveries : hook[s][d] # None}
  /\ UNCHANGED <<accounts, tracking, adm, inst, github, sent, acked, applied, latest, caughtUp, now>>

Tick ==
  /\ now < MaxTime /\ now' = now + 1
  /\ UNCHANGED <<accounts, tracking, adm, hooks, calls, faults>>

-----------------------------------------------------------------------------
AddStep(p) ==
  \/ AddBegins(p) \/ AddChecksInstallation(p) \/ AddUpserts(p) \/ AddCounts(p) \/ AddCommits(p)
  \/ AddMarksSample(p) \/ AddFails(p)

AdminStep(a) ==
  \/ \E t \in Tenants, plan \in Plans : PlanFormBegins(a, t, plan) \/ InviteBegins(a, t, plan)
  \/ UpdatePlan(a) \/ ClearUpgradeRequest(a) \/ AdminFails(a)

HookStep(s, d) ==
  Deliver(s, d) \/ DeactivateRemoved(s, d) \/ Handle(s, d) \/ UnknownSender(s, d) \/ HookFails(s, d)

TenantStep(t) ==
  \/ \E r \in Repos : DeleteRepo(t, r)
  \/ SeedBegins(t) \/ SeedStops(t) \/ (\E r \in Samples : SeedAdds(t, r))
  \/ UpsertTenant(t) \/ RequestUpgrade(t)
  \/ \E status \in {"active", "suspended"} : UpdateStatus(t, status)

Next ==
  \/ \E p \in Adds : AddStep(p)
  \/ \E a \in Admins : AdminStep(a)
  \/ \E t \in Tenants : TenantStep(t)
  \/ \E d \in Deliveries, i \in Installations, t \in Tenants : GitHubEvent(d, i, t)
  \/ \E s \in Instances, d \in Deliveries : HookStep(s, d)
  \/ \E s \in Instances : Restart(s)
  \/ Tick

Spec == Init /\ [][Next]_vars

-----------------------------------------------------------------------------
(* Types of the rows, of requests and of the webhook's memory. *)
AccountsOK ==
  /\ tenant \in [Tenants -> [plan : Plans \cup {None}, status : {"active", "suspended"}]]
  /\ upgrade \subseteq Tenants
  /\ held \in [Tenants -> SUBSET Plans]

TrackingOK ==
  /\ rows \in [Tenants -> [Repos -> RowStates]]
  /\ seed \in [Tenants -> SUBSET Samples]
  /\ add \in [Adds -> AddRequests \cup {AddIdle}]
  /\ raced \subseteq Tenants

HooksOK ==
  /\ inst \in [Installations -> [t : Tenants \cup {None}, at : (0 .. MaxTime) \cup {None}]]
  /\ github \in [Installations -> {"absent", "active", "suspended"}]
  /\ sent \in [Deliveries -> Payloads \cup {None}]
  /\ seen \in [Instances -> [Deliveries -> (0 .. MaxTime) \cup {None}]]
  /\ passed \in [Instances -> [Deliveries -> (0 .. MaxTime) \cup {None}]]
  /\ hook \in [Instances -> [Deliveries -> {None} \cup SUBSET Repos]]
  /\ acked \subseteq Deliveries /\ applied \subseteq Deliveries /\ spoiled \subseteq Deliveries

RowsOK ==
  /\ AccountsOK /\ TrackingOK /\ HooksOK
  /\ adm \in [Admins -> PlanChanges \cup {NoChange}]
  /\ now \in 0 .. MaxTime /\ calls \in 0 .. MaxCalls /\ faults \in 0 .. MaxFaults

LatestOK ==
  /\ latest \in [Installations -> Deliveries \cup {None}]
  /\ caughtUp \subseteq Installations

TypeOK == RowsOK /\ LatestOK

(* AddTenantRepos: as long as no two of its transactions for a tenant were  *)
(* open at once, the tenant never tracks more repositories than the largest *)
(* of its plans allowed, whatever deletions, seeded samples, failures, plan *)
(* changes and webhooks come in between.                                    *)
LimitKeptBySerialAdds ==
  \A t \in Tenants : t \in raced \/ CountTenantRepos(rows[t]) = 0
                     \/ \E plan \in held[t] : Within(CountTenantRepos(rows[t]), plan)

(* docs/ARCHITECTURE.md:86: "Repo limit: Count check inside transaction to  *)
(* prevent races".                                                          *)
PlanLimit ==
  \A t \in Tenants : CountTenantRepos(rows[t]) = 0
                     \/ \E plan \in held[t] : Within(CountTenantRepos(rows[t]), plan)

(* WebhookHandler: a delivery GitHub got a 200 for was carried out, unless  *)
(* an attempt of it had failed before (a repeated delivery is acknowledged  *)
(* because of that first attempt) or is still being handled.                *)
AckedIsApplied ==
  \A d \in acked : d \in applied \/ d \in spoiled \/ \E s \in Instances : hook[s][d] # None

(* seenOrRecord: an instance does not handle a delivery again within the    *)
(* window, although entries of other deliveries are collected meanwhile.    *)
OncePerWindow ==
  [][\A s \in Instances, d \in Deliveries :
       passed[s][d] # None /\ passed'[s][d] # passed[s][d] /\ passed'[s][d] # None
         => now >= passed[s][d] + Window]_vars

(* handleInstallationEvent under repeated, failing and reordered            *)
(* deliveries: once the delivery GitHub sent last about an installation is  *)
(* also the one handled last, an App that is suspended or removed lets      *)
(* nobody add repositories, and one newly installed is active for the       *)
(* sender. Only "unsuspend" is not followed.                                *)
InstallationInStep ==
  \A i \in caughtUp :
    IF github[i] = "active"
    THEN sent[latest[i]].event = "unsuspend" \/ i \in GetActiveInstallations(sent[latest[i]].sender)
    ELSE \A t \in Tenants : i \notin GetActiveInstallations(t)
=============================================================================
