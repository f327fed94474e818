---------------------------- MODULE TenancyProofs ----------------------------
(***************************************************************************)
(* Proofs for Tenancy: types, the limit of a plan under serial adds, what  *)
(* an acknowledged webhook delivery stands for, that a delivery is handled *)
(* once in a window, and that the row of an installation follows GitHub,   *)
(* for any tenants, repositories, plans, requests, processes,              *)
(* installations and deliveries, and any window, clock, number of calls    *)
(* and number of failures.                                                 *)
(***************************************************************************)
EXTENDS Tenancy, FiniteSetTheorems, TLAPS

-----------------------------------------------------------------------------
(* The inductive invariants *)

(* The repositories in row fit into one of some plans. *)
Fits(plans, row) ==
  CountTenantRepos(row) = 0 \/ \E plan \in plans : Within(CountTenantRepos(row), plan)

(* A request is one of a tenant, whose plan is one of the plans it had; of  *)
(* a tenant that did not race at most one transaction is open, and what it  *)
(* will commit was counted against one of those plans.                      *)
LimitInv ==
  /\ \A t \in Tenants : Exists(t) => tenant[t].plan \in held[t]
  /\ \A p \in Adds : add[p].pc # "idle" => Exists(add[p].t)
  /\ \A t \in Tenants \ raced : \A p, q \in Open(t) : p = q
  /\ \A p \in Adds : add[p].pc = "commit" /\ add[p].t \notin raced => Fits(held[add[p].t], View(p))
  /\ \A t \in Tenants \ raced : Fits(held[t], rows[t])

(* What an instance remembers of a delivery was handled, is being handled   *)
(* or failed; and as long as the window lasts it does remember it.          *)
HookInv ==
  /\ \A s \in Instances, d \in Deliveries :
       /\ hook[s][d] # None => sent[d] # None
       /\ seen[s][d] # None => hook[s][d] # None \/ d \in applied \/ d \in spoiled
       /\ passed[s][d] # None /\ passed[s][d] > now - Window => seen[s][d] = passed[s][d]
  /\ AckedIsApplied

-----------------------------------------------------------------------------
(* Types *)

LEMMA Constants ==
  /\ Samples \subseteq Repos /\ IsFiniteSet(Repos) /\ Pro \in Plans
  /\ MaxRepos \in [Plans -> Nat] /\ Window \in Nat /\ Window > 0
  /\ MaxTime \in Nat /\ MaxCalls \in Nat /\ MaxFaults \in Nat
  /\ None \notin Tenants /\ None \notin Plans /\ None \notin Int /\ None \notin Payloads
  /\ \A R \in SUBSET Repos : R # None
BY TenancyAssumption

LEMMA SameAccounts == AccountsOK /\ UNCHANGED accounts => AccountsOK'
BY DEF AccountsOK, accounts

LEMMA SameTracking == TrackingOK /\ UNCHANGED tracking => TrackingOK'
BY DEF TrackingOK, tracking

LEMMA SameHooks == HooksOK /\ UNCHANGED hooks => HooksOK'
BY DEF HooksOK, hooks

LEMMA Counters ==
  ASSUME RowsOK
  PROVE  /\ Call \/ Fault \/ UNCHANGED <<calls, faults>> => calls' \in 0 .. MaxCalls /\ faults' \in 0 .. MaxFaults
         /\ UNCHANGED now => now' \in 0 .. MaxTime
         /\ UNCHANGED adm => adm' \in [Admins -> PlanChanges \cup {NoChange}]
BY Constants DEF RowsOK, Call, Fault

(* A request that is not idle is about a tenant and a repository. *)
LEMMA AddType ==
  ASSUME TrackingOK, NEW p \in Adds, add[p].pc # "idle"
  PROVE  /\ add[p] \in AddRequests /\ add[p].t \in Tenants /\ add[p].r \in Repos
         /\ add[p].pc \in {"install", "upsert", "count", "commit", "mark"}
<1>1. add[p] \in AddRequests \cup {AddIdle}
  BY DEF TrackingOK
<1>2. AddIdle.pc = "idle"
  BY DEF AddIdle
<1>3. add[p] \in AddRequests
  BY <1>1, <1>2
<1> QED BY <1>3 DEF AddRequests

LEMMA AddGoesOn ==
  ASSUME TrackingOK, NEW p \in Adds, add[p].pc # "idle",
         NEW pc \in {"install", "upsert", "count", "commit", "mark"}
  PROVE  /\ [add[p] EXCEPT !.pc = pc] \in AddRequests
         /\ [add EXCEPT ![p].pc = pc] \in [Adds -> AddRequests \cup {AddIdle}]
<1>1. add[p] \in AddRequests
  BY AddType
<1>2. [add[p] EXCEPT !.pc = pc] \in AddRequests
  BY <1>1 DEF AddRequests
<1> QED BY <1>2 DEF TrackingOK

LEMMA RowSteps ==
  /\ \A x \in RowStates : Upserted(x) \in RowStates /\ Deactivated(x) \in RowStates /\ MarkedSample(x) \in RowStates
  /\ "sample" \in RowStates
BY DEF RowStates, Upserted, Deactivated, MarkedSample

LEMMA ViewType ==
  ASSUME TrackingOK, NEW p \in Adds, add[p].pc # "idle"
  PROVE  /\ View(p) \in [Repos -> RowStates]
         /\ \A r \in Repos : View(p)[r] = IF r = add[p].r THEN Upserted(rows[add[p].t][r]) ELSE rows[add[p].t][r]
<1>1. add[p].t \in Tenants /\ add[p].r \in Repos
  BY AddType
<1>2. rows[add[p].t] \in [Repos -> RowStates]
  BY <1>1 DEF TrackingOK
<1> QED BY <1>1, <1>2, RowSteps DEF View

(* One row changes. *)
LEMMA RowType ==
  ASSUME TrackingOK, NEW t \in Tenants, NEW r \in Repos, NEW x \in RowStates,
         rows' = [rows EXCEPT ![t][r] = x]
  PROVE  /\ rows' \in [Tenants -> [Repos -> RowStates]]
         /\ rows'[t][r] = x
         /\ \A u \in Tenants, q \in Repos : u # t \/ q # r => rows'[u][q] = rows[u][q]
<1>1. rows \in [Tenants -> [Repos -> RowStates]]
  BY DEF TrackingOK
<1> QED BY <1>1

LEMMA AddStepType ==
  ASSUME RowsOK, NEW p \in Adds, AddStep(p)
  PROVE  RowsOK'
<1> USE DEF RowsOK
<1>1. TrackingOK /\ add \in [Adds -> AddRequests \cup {AddIdle}]
  BY DEF TrackingOK
<1>2. CASE AddBegins(p)
  <2>1. PICK t \in Tenants, r \in Repos : add' = [add EXCEPT ![p] = [pc |-> "install", t |-> t, r |-> r]]
    BY <1>2 DEF AddBegins
  <2>2. [pc |-> "install", t |-> t, r |-> r] \in AddRequests
    BY DEF AddRequests
  <2>3. TrackingOK'
    BY <1>2, <2>1, <2>2 DEF AddBegins, TrackingOK
  <2> QED BY <1>2, <2>3, SameAccounts, SameHooks, Counters DEF AddBegins
<1>3. CASE AddChecksInstallation(p)
  <2>1. add' \in [Adds -> AddRequests \cup {AddIdle}]
    BY <1>1, <1>3, AddGoesOn DEF AddChecksInstallation
  <2>2. TrackingOK'
    BY <1>3, <2>1 DEF AddChecksInstallation, TrackingOK
  <2> QED BY <1>3, <2>2, SameAccounts, SameHooks, Counters DEF AddChecksInstallation
<1>4. CASE AddUpserts(p)
  <2>1. add' \in [Adds -> AddRequests \cup {AddIdle}] /\ raced' \subseteq Tenants
    BY <1>1, <1>4, AddGoesOn, AddType DEF AddUpserts, TrackingOK
  <2>2. TrackingOK'
    BY <1>4, <2>1 DEF AddUpserts, TrackingOK
  <2> QED BY <1>4, <2>2, SameAccounts, SameHooks, Counters DEF AddUpserts
<1>5. CASE AddCounts(p)
  <2>1. add' \in [Adds -> AddRequests \cup {AddIdle}]
    BY <1>1, <1>5, AddGoesOn DEF AddCounts
  <2>2. TrackingOK'
    BY <1>5, <2>1 DEF AddCounts, TrackingOK
  <2> QED BY <1>5, <2>2, SameAccounts, SameHooks, Counters DEF AddCounts
<1>6. CASE AddCommits(p)
  <2>1. add' \in [Adds -> AddRequests \cup {AddIdle}]
    BY <1>1, <1>6, AddGoesOn DEF AddCommits
  <2>2. rows' \in [Tenants -> [Repos -> RowStates]]
    BY <1>1, <1>6, AddType, ViewType DEF AddCommits, TrackingOK
  <2>3. TrackingOK'
    BY <1>6, <2>1, <2>2 DEF AddCommits, TrackingOK
  <2> QED BY <1>6, <2>3, SameAccounts, SameHooks, Counters DEF AddCommits
<1>7. CASE AddMarksSample(p)
  <2>1. add[p].t \in Tenants /\ add[p].r \in Repos
    BY <1>1, <1>7, AddType DEF AddMarksSample
  <2>2. MarkedSample(rows[add[p].t][add[p].r]) \in RowStates
    BY <2>1, RowSteps DEF TrackingOK
  <2>3. rows' \in [Tenants -> [Repos -> RowStates]]
    BY <1>7, <2>1, <2>2, RowType DEF AddMarksSample
  <2>4. TrackingOK'
    BY <1>7, <2>3 DEF AddMarksSample, TrackingOK
  <2> QED BY <1>7, <2>4, SameAccounts, SameHooks, Counters DEF AddMarksSample
<1>8. CASE AddFails(p)
  <2>1. TrackingOK'
    BY <1>8 DEF AddFails, TrackingOK
  <2> QED BY <1>8, <2>1, SameAccounts, SameHooks, Counters DEF AddFails
<1> QED BY <1>2, <1>3, <1>4, <1>5, <1>6, <1>7, <1>8 DEF AddStep

LEMMA TenantStepType ==
  ASSUME RowsOK, NEW t \in Tenants, TenantStep(t)
  PROVE  RowsOK'
<1> USE DEF RowsOK
<1>1. ASSUME NEW r \in Repos, DeleteRepo(t, r) PROVE RowsOK'
  <2>1. Deactivated(rows[t][r]) \in RowStates
    BY RowSteps DEF TrackingOK
  <2>2. rows' \in [Tenants -> [Repos -> RowStates]]
    BY <1>1, <2>1, RowType DEF DeleteRepo
  <2>3. TrackingOK'
    BY <1>1, <2>2 DEF DeleteRepo, TrackingOK
  <2> QED BY <1>1, <2>3, SameAccounts, SameHooks, Counters DEF DeleteRepo
<1>2. CASE SeedBegins(t)
  <2>1. TrackingOK'
    BY <1>2 DEF SeedBegins, TrackingOK
  <2> QED BY <1>2, <2>1, SameAccounts, SameHooks, Counters DEF SeedBegins
<1>3. CASE SeedStops(t)
  <2>1. TrackingOK'
    BY <1>3 DEF SeedStops, TrackingOK
  <2> QED BY <1>3, <2>1, SameAccounts, SameHooks, Counters DEF SeedStops
<1>4. ASSUME NEW r \in Samples, SeedAdds(t, r) PROVE RowsOK'
  <2>1. rows' \in [Tenants -> [Repos -> RowStates]]
    BY <1>4, RowType, RowSteps, Constants DEF SeedAdds
  <2>2. seed' \in [Tenants -> SUBSET Samples]
    BY <1>4 DEF SeedAdds, TrackingOK
  <2>3. TrackingOK'
    BY <1>4, <2>1, <2>2 DEF SeedAdds, TrackingOK
  <2> QED BY <1>4, <2>3, SameAccounts, SameHooks, Counters DEF SeedAdds
<1>5. CASE UpsertTenant(t)
  <2>1. AccountsOK'
    BY <1>5, Constants DEF UpsertTenant, AccountsOK
  <2> QED BY <1>5, <2>1, SameTracking, SameHooks, Counters DEF UpsertTenant
<1>6. CASE RequestUpgrade(t)
  <2>1. AccountsOK'
    BY <1>6 DEF RequestUpgrade, AccountsOK
  <2> QED BY <1>6, <2>1, SameTracking, SameHooks, Counters DEF RequestUpgrade
<1>7. ASSUME NEW status \in {"active", "suspended"}, UpdateStatus(t, status) PROVE RowsOK'
  <2>1. AccountsOK'
    BY <1>7 DEF UpdateStatus, AccountsOK
  <2> QED BY <1>7, <2>1, SameTracking, SameHooks, Counters DEF UpdateStatus
<1> QED BY <1>1, <1>2, <1>3, <1>4, <1>5, <1>6, <1>7 DEF TenantStep

(* A plan change that is not idle is about a tenant and a plan. *)
LEMMA ChangeType ==
  ASSUME RowsOK, NEW a \in Admins, adm[a].pc # "idle"
  PROVE  adm[a] \in PlanChanges /\ adm[a].t \in Tenants /\ adm[a].plan \in Plans
<1>1. adm[a] \in PlanChanges \cup {NoChange}
  BY DEF RowsOK
<1>2. NoChange.pc = "idle"
  BY DEF NoChange
<1>3. adm[a] \in PlanChanges
  BY <1>1, <1>2
<1> QED BY <1>3 DEF PlanChanges

LEMMA AdminStepType ==
  ASSUME RowsOK, NEW a \in Admins, AdminStep(a)
  PROVE  RowsOK'
<1>1. RowsOK /\ AccountsOK /\ TrackingOK /\ HooksOK /\ adm \in [Admins -> PlanChanges \cup {NoChange}]
  BY DEF RowsOK
<1>2. ASSUME NEW t \in Tenants, NEW plan \in Plans, PlanFormBegins(a, t, plan) PROVE RowsOK'
  <2>1. [pc |-> "plan", t |-> t, plan |-> plan] \in PlanChanges
    BY DEF PlanChanges
  <2>2. adm' \in [Admins -> PlanChanges \cup {NoChange}]
    BY <1>1, <1>2, <2>1 DEF PlanFormBegins
  <2> QED BY <1>1, <1>2, <2>2, SameAccounts, SameTracking, SameHooks, Counters DEF PlanFormBegins, RowsOK
<1>3. ASSUME NEW t \in Tenants, NEW plan \in Plans, InviteBegins(a, t, plan) PROVE RowsOK'
  <2>1. [pc |-> "invite", t |-> t, plan |-> plan] \in PlanChanges
    BY DEF PlanChanges
  <2>2. adm' \in [Admins -> PlanChanges \cup {NoChange}]
    BY <1>1, <1>3, <2>1 DEF InviteBegins
  <2> DEFINE x == IF tenant[t].plan = None THEN Pro ELSE tenant[t].plan
  <2>3. x \in Plans
    BY <1>1, Constants DEF AccountsOK
  <2>4. tenant' = [tenant EXCEPT ![t].plan = x] /\ upgrade' = upgrade
    BY <1>3 DEF InviteBegins
  <2> HIDE DEF x
  <2>5. tenant'[t].plan = x
    BY <1>1, <2>4 DEF AccountsOK
  <2>6. held' = [held EXCEPT ![t] = @ \cup {x}]
    BY <1>3, <2>5 DEF InviteBegins
  <2>7. AccountsOK'
    BY <1>1, <2>3, <2>4, <2>6 DEF AccountsOK
  <2> QED BY <1>1, <1>3, <2>2, <2>7, SameTracking, SameHooks, Counters DEF InviteBegins, RowsOK
<1>4. CASE UpdatePlan(a)
  <2>1. adm[a] \in PlanChanges /\ adm[a].t \in Tenants /\ adm[a].plan \in Plans
    BY <1>1, <1>4, ChangeType DEF UpdatePlan
  <2>2. [adm[a] EXCEPT !.pc = "clear"] \in PlanChanges
    BY <2>1 DEF PlanChanges
  <2>3. adm' \in [Admins -> PlanChanges \cup {NoChange}]
    BY <1>1, <1>4, <2>2 DEF UpdatePlan
  <2>4. AccountsOK'
    BY <1>1, <1>4, <2>1 DEF UpdatePlan, AccountsOK
  <2> QED BY <1>1, <1>4, <2>3, <2>4, SameTracking, SameHooks, Counters DEF UpdatePlan, RowsOK
<1>5. CASE ClearUpgradeRequest(a)
  <2>1. AccountsOK'
    BY <1>1, <1>5 DEF ClearUpgradeRequest, AccountsOK
  <2>2. adm' \in [Admins -> PlanChanges \cup {NoChange}]
    BY <1>1, <1>5 DEF ClearUpgradeRequest
  <2> QED BY <1>1, <1>5, <2>1, <2>2, SameTracking, SameHooks, Counters DEF ClearUpgradeRequest, RowsOK
<1>6. CASE AdminFails(a)
  <2>1. adm' \in [Admins -> PlanChanges \cup {NoChange}]
    BY <1>1, <1>6 DEF AdminFails
  <2> QED BY <1>1, <1>6, <2>1, SameAccounts, SameTracking, SameHooks, Counters DEF AdminFails, RowsOK
<1> QED BY <1>2, <1>3, <1>4, <1>5, <1>6 DEF AdminStep

-----------------------------------------------------------------------------
(* The webhook *)

Events == {"created", "suspend", "unsuspend", "deleted", "removed"}

LEMMA PayloadType ==
  ASSUME NEW x \in Payloads
  PROVE  /\ x.event \in Events /\ x.inst \in Installations /\ x.sender \in Tenants
         /\ x.repos \in SUBSET Repos /\ x.repos # None
<1>1. x.event \in Events /\ x.inst \in Installations /\ x.sender \in Tenants /\ x.repos \in SUBSET Repos
  BY DEF Payloads, Events
<1> QED BY <1>1, Constants

Times == (0 .. MaxTime) \cup {None}
Rows == [t : Tenants \cup {None}, at : Times]
Memory == [Instances -> [Deliveries -> Times]]
Work == [Instances -> [Deliveries -> {None} \cup SUBSET Repos]]

(* The types of the webhook's variables, by name. *)
LEMMA HookTypes ==
  HooksOK <=> /\ inst \in [Installations -> Rows]
              /\ github \in [Installations -> {"absent", "active", "suspended"}]
              /\ sent \in [Deliveries -> Payloads \cup {None}]
              /\ seen \in Memory /\ passed \in Memory /\ hook \in Work
              /\ acked \subseteq Deliveries /\ applied \subseteq Deliveries /\ spoiled \subseteq Deliveries
BY DEF HooksOK, Rows, Memory, Work, Times

LEMMA HookTypesNext ==
  HooksOK' <=> /\ inst' \in [Installations -> Rows]
               /\ github' \in [Installations -> {"absent", "active", "suspended"}]
               /\ sent' \in [Deliveries -> Payloads \cup {None}]
               /\ seen' \in Memory /\ passed' \in Memory /\ hook' \in Work
               /\ acked' \subseteq Deliveries /\ applied' \subseteq Deliveries /\ spoiled' \subseteq Deliveries
BY DEF HooksOK, Rows, Memory, Work, Times

LEMMA CollectedType ==
  ASSUME NEW f \in [Deliveries -> Times], now \in 0 .. MaxTime, NEW d \in Deliveries
  PROVE  /\ [Collected(f) EXCEPT ![d] = now] \in [Deliveries -> Times]
         /\ [Collected(f) EXCEPT ![d] = now][d] = now
         /\ \A e \in Deliveries : e # d =>
               /\ [Collected(f) EXCEPT ![d] = now][e] \in {f[e], None}
               /\ f[e] # None /\ f[e] > now - Window => [Collected(f) EXCEPT ![d] = now][e] = f[e]
<1> DEFINE c == Collected(f)
<1>1. c \in [Deliveries -> Times]
  BY Constants DEF Collected, Times
<1>2. \A e \in Deliveries : c[e] = IF f[e] # None /\ f[e] < now - Window THEN None ELSE f[e]
  BY DEF Collected
<1> HIDE DEF c
<1>3. \A e \in Deliveries : f[e] # None /\ f[e] > now - Window => c[e] = f[e]
  <2> SUFFICES ASSUME NEW e \in Deliveries, f[e] # None, f[e] > now - Window PROVE c[e] = f[e]
    OBVIOUS
  <2>1. f[e] \in Int
    BY Constants DEF Times
  <2> QED BY <2>1, <1>2, Constants
<1>4. /\ [c EXCEPT ![d] = now] \in [Deliveries -> Times]
      /\ [c EXCEPT ![d] = now][d] = now
      /\ \A e \in Deliveries : e # d => [c EXCEPT ![d] = now][e] = c[e]
  BY <1>1 DEF Times
<1> QED BY <1>2, <1>3, <1>4 DEF c

(* What the handler of a delivery writes. *)
LEMMA InstallationRowType ==
  ASSUME NEW row \in Rows, NEW x \in Payloads, now \in 0 .. MaxTime
  PROVE  InstallationRow(row, x) \in Rows
<1>1. x.sender \in Tenants
  BY PayloadType
<1>2. row.t \in Tenants \cup {None} /\ row.at \in Times
  BY DEF Rows
<1>3. now \in Times
  BY DEF Times
<1>4. [t |-> x.sender, at |-> None] \in Rows
  BY <1>1 DEF Rows, Times
<1>5. [row EXCEPT !.at = now] \in Rows
  BY <1>3 DEF Rows
<1>6. CASE x.event = "created"
  BY <1>4, <1>6 DEF InstallationRow
<1>7. CASE x.event \in {"deleted", "suspend"} /\ row.t # None /\ row.at = None
  BY <1>5, <1>7 DEF InstallationRow
<1>8. CASE x.event # "created" /\ ~(x.event \in {"deleted", "suspend"} /\ row.t # None /\ row.at = None)
  BY <1>8 DEF InstallationRow
<1> QED BY <1>6, <1>7, <1>8

WebhookOK == RowsOK /\ HookInv

(* Steps that leave the webhook and the clock alone. *)
LEMMA SameHookInv ==
  ASSUME HookInv, UNCHANGED <<hooks, now>>
  PROVE  HookInv'
BY DEF HookInv, hooks, AckedIsApplied

LEMMA GitHubEventStep ==
  ASSUME WebhookOK, NEW d \in Deliveries, NEW i \in Installations, NEW t \in Tenants, GitHubEvent(d, i, t)
  PROVE  WebhookOK'
<1>1. RowsOK /\ AccountsOK /\ TrackingOK /\ HooksOK /\ HookInv
  BY DEF WebhookOK, RowsOK
<1>2. PICK x \in Payloads, state \in {"absent", "active", "suspended"} : GitHubSends(d, x, state)
  <2>1. PICK event \in Events, R \in SUBSET Repos :
           /\ event # "removed" => R = {}
           /\ GitHubSends(d, [event |-> event, inst |-> i, sender |-> t, repos |-> R],
                   CASE event \in {"created", "unsuspend"} -> "active"
                     [] event = "suspend" -> "suspended"
                     [] event = "deleted" -> "absent"
                     [] OTHER -> github[i])
    BY DEF GitHubEvent, Events
  <2> DEFINE x == [event |-> event, inst |-> i, sender |-> t, repos |-> R]
             st == CASE event \in {"created", "unsuspend"} -> "active"
                     [] event = "suspend" -> "suspended"
                     [] event = "deleted" -> "absent"
                     [] OTHER -> github[i]
  <2>2. x \in Payloads
    BY <2>1 DEF Payloads, Events
  <2>3. github[i] \in {"absent", "active", "suspended"}
    BY <1>1 DEF HooksOK
  <2>4. st \in {"absent", "active", "suspended"}
    BY <2>3 DEF Events
  <2>5. GitHubSends(d, x, st)
    BY <2>1
  <2> HIDE DEF x, st
  <2> QED BY <2>2, <2>4, <2>5
<1>3. sent' = [sent EXCEPT ![d] = x] /\ sent[d] = None /\ github' = [github EXCEPT ![x.inst] = state]
      /\ UNCHANGED <<accounts, tracking, adm, inst, seen, hook, acked, passed, applied, spoiled, now>> /\ Call
  BY <1>2 DEF GitHubSends
<1>4. HooksOK'
  BY <1>1, <1>3, HookTypes, HookTypesNext
<1>5. \A e \in Deliveries : sent[e] # None => sent'[e] # None
  BY <1>1, <1>3 DEF HooksOK
<1>6. HookInv'
  BY <1>1, <1>3, <1>5 DEF HookInv, AckedIsApplied
<1> QED BY <1>1, <1>3, <1>4, <1>6, SameAccounts, SameTracking, Counters DEF RowsOK, WebhookOK

LEMMA DeliverStep ==
  ASSUME WebhookOK, NEW s \in Instances, NEW d \in Deliveries, Deliver(s, d)
  PROVE  WebhookOK'
<1>1. RowsOK /\ AccountsOK /\ TrackingOK /\ HooksOK /\ HookInv /\ now \in 0 .. MaxTime
  BY DEF WebhookOK, RowsOK
<1>2. UNCHANGED <<accounts, tracking, adm, inst, github, sent, applied, spoiled, now>> /\ sent[d] # None
  BY DEF Deliver
<1>3. calls' \in 0 .. MaxCalls /\ faults' \in 0 .. MaxFaults
  BY <1>1, Counters DEF Deliver
<1>4. /\ inst \in [Installations -> Rows]
      /\ github \in [Installations -> {"absent", "active", "suspended"}]
      /\ sent \in [Deliveries -> Payloads \cup {None}]
      /\ seen \in Memory /\ passed \in Memory /\ hook \in Work
      /\ acked \subseteq Deliveries /\ applied \subseteq Deliveries /\ spoiled \subseteq Deliveries
  BY <1>1, HookTypes
<1>5. CASE Seen(s, d)
  <2>1. acked' = acked \cup {d} /\ UNCHANGED <<seen, hook, passed>>
    BY <1>5 DEF Deliver
  <2>2. HooksOK'
    BY <1>2, <1>4, <2>1, HookTypesNext
  <2>3. hook[s][d] # None \/ d \in applied \/ d \in spoiled
    BY <1>1, <1>5 DEF Seen, HookInv
  <2>4. HookInv'
    BY <1>1, <1>2, <2>1, <2>3 DEF HookInv, AckedIsApplied
  <2> QED BY <1>1, <1>2, <1>3, <2>2, <2>4, SameAccounts, SameTracking, Counters DEF RowsOK, WebhookOK
<1>6. CASE ~Seen(s, d)
  <2> DEFINE f == [Collected(seen[s]) EXCEPT ![d] = now]
             x == sent[d].repos
  <2>1. /\ seen' = [seen EXCEPT ![s] = f] /\ hook' = [hook EXCEPT ![s][d] = x]
        /\ passed' = [passed EXCEPT ![s][d] = now] /\ acked' = acked
    BY <1>6 DEF Deliver
  <2>2. x \in SUBSET Repos /\ x # None
    BY <1>2, <1>4, PayloadType
  <2>3. seen[s] \in [Deliveries -> Times]
    BY <1>4 DEF Memory
  <2>4. /\ f \in [Deliveries -> Times] /\ f[d] = now
        /\ \A e \in Deliveries : e # d =>
               /\ f[e] \in {seen[s][e], None}
               /\ seen[s][e] # None /\ seen[s][e] > now - Window => f[e] = seen[s][e]
    BY <1>1, <2>3, CollectedType
  <2> HIDE DEF f, x
  <2>5. /\ seen' \in Memory /\ \A e \in Deliveries : seen'[s][e] = f[e]
        /\ \A k \in Instances \ {s}, e \in Deliveries : seen'[k][e] = seen[k][e]
    BY <1>4, <2>1, <2>4 DEF Memory
  <2>6. now \in Times
    BY <1>1 DEF Times
  <2>7. /\ passed' \in Memory /\ passed'[s][d] = now
        /\ \A k \in Instances, e \in Deliveries : k # s \/ e # d => passed'[k][e] = passed[k][e]
    BY <1>4, <2>1, <2>6 DEF Memory
  <2>8. /\ hook' \in Work /\ hook'[s][d] = x
        /\ \A k \in Instances, e \in Deliveries : k # s \/ e # d => hook'[k][e] = hook[k][e]
    BY <1>4, <2>1, <2>2 DEF Work
  <2>9. HooksOK'
    BY <1>2, <1>4, <2>1, <2>5, <2>7, <2>8, HookTypesNext
  <2>10. ASSUME NEW k \in Instances, NEW e \in Deliveries
         PROVE  /\ hook'[k][e] # None => sent'[e] # None
                /\ seen'[k][e] # None => hook'[k][e] # None \/ e \in applied' \/ e \in spoiled'
                /\ passed'[k][e] # None /\ passed'[k][e] > now' - Window => seen'[k][e] = passed'[k][e]
    <3>1. CASE k = s /\ e = d
      BY <1>2, <2>2, <2>4, <2>5, <2>7, <2>8, <3>1
    <3>2. CASE k = s /\ e # d
      <4>1. /\ hook'[k][e] = hook[k][e] /\ passed'[k][e] = passed[k][e]
            /\ seen'[k][e] = f[e] /\ f[e] \in {seen[s][e], None}
            /\ seen[s][e] # None /\ seen[s][e] > now - Window => f[e] = seen[s][e]
        BY <2>4, <2>5, <2>7, <2>8, <3>2
      <4> QED BY <1>1, <1>2, <3>2, <4>1 DEF HookInv
    <3>3. CASE k # s
      <4>1. hook'[k][e] = hook[k][e] /\ passed'[k][e] = passed[k][e] /\ seen'[k][e] = seen[k][e]
        BY <2>5, <2>7, <2>8, <3>3
      <4> QED BY <1>1, <1>2, <4>1 DEF HookInv
    <3> QED BY <3>1, <3>2, <3>3
  <2>11. AckedIsApplied'
    BY <1>1, <1>2, <2>1, <2>2, <2>8 DEF HookInv, AckedIsApplied
  <2> QED BY <1>1, <1>2, <1>3, <2>9, <2>10, <2>11, SameAccounts, SameTracking, Counters DEF RowsOK, WebhookOK, HookInv
<1> QED BY <1>5, <1>6

(* The handler ends, with or without an error. *)
LEMMA HookEndsStep ==
  ASSUME HooksOK, HookInv, NEW s \in Instances, NEW d \in Deliveries, NEW ok \in BOOLEAN, HookEnds(s, d, ok),
         inst' \in [Installations -> Rows], UNCHANGED <<github, sent, seen, passed, now>>
  PROVE  HooksOK' /\ HookInv'
<1>1. /\ github \in [Installations -> {"absent", "active", "suspended"}]
      /\ sent \in [Deliveries -> Payloads \cup {None}]
      /\ seen \in Memory /\ passed \in Memory /\ hook \in Work
      /\ acked \subseteq Deliveries /\ applied \subseteq Deliveries /\ spoiled \subseteq Deliveries
  BY HookTypes
<1>2. hook' = [hook EXCEPT ![s][d] = None]
  BY DEF HookEnds
<1>3. /\ hook' \in Work /\ hook'[s][d] = None
      /\ \A k \in Instances, e \in Deliveries : k # s \/ e # d => hook'[k][e] = hook[k][e]
  BY <1>1, <1>2 DEF Work
<1>4. /\ acked' \in {acked, acked \cup {d}} /\ applied \subseteq applied' /\ spoiled \subseteq spoiled'
      /\ applied' \subseteq Deliveries /\ spoiled' \subseteq Deliveries
      /\ d \in applied' \/ d \in spoiled'
  BY <1>1 DEF HookEnds
<1>5. HooksOK'
  BY <1>1, <1>3, <1>4, HookTypesNext
<1>6. \A k \in Instances, e \in Deliveries :
         hook'[k][e] = hook[k][e] \/ (e = d /\ hook'[k][e] = None)
  BY <1>3
<1>7. ASSUME NEW k \in Instances, NEW e \in Deliveries
      PROVE  /\ hook'[k][e] # None => sent'[e] # None
             /\ seen'[k][e] # None => hook'[k][e] # None \/ e \in applied' \/ e \in spoiled'
             /\ passed'[k][e] # None /\ passed'[k][e] > now' - Window => seen'[k][e] = passed'[k][e]
  BY <1>4, <1>6 DEF HookInv
<1>8. AckedIsApplied'
  <2>1. AckedIsApplied
    BY DEF HookInv
  <2> SUFFICES ASSUME NEW e \in acked'
               PROVE  e \in applied' \/ e \in spoiled' \/ \E k \in Instances : hook'[k][e] # None
    BY DEF AckedIsApplied
  <2>2. CASE e = d
    BY <1>4, <2>2
  <2>3. CASE e # d
    <3>1. e \in acked /\ e \in Deliveries
      BY <1>1, <1>4, <2>3
    <3>2. \A k \in Instances : hook'[k][e] = hook[k][e]
      BY <1>6, <2>3, <3>1
    <3> QED BY <1>4, <2>1, <3>1, <3>2 DEF AckedIsApplied
  <2> QED BY <2>2, <2>3
<1> QED BY <1>5, <1>7, <1>8 DEF HookInv

LEMMA SentType ==
  ASSUME WebhookOK, NEW s \in Instances, NEW d \in Deliveries, hook[s][d] # None
  PROVE  /\ sent[d] \in Payloads /\ sent[d].inst \in Installations /\ sent[d].sender \in Tenants
         /\ hook[s][d] \in SUBSET Repos
<1>1. sent[d] \in Payloads
  BY DEF WebhookOK, RowsOK, HooksOK, HookInv
<1>2. hook[s][d] \in SUBSET Repos
  BY DEF WebhookOK, RowsOK, HooksOK
<1> QED BY <1>1, <1>2, PayloadType

LEMMA HookStepOK ==
  ASSUME WebhookOK, NEW s \in Instances, NEW d \in Deliveries, HookStep(s, d)
  PROVE  WebhookOK'
<1>1. RowsOK /\ AccountsOK /\ TrackingOK /\ HooksOK /\ HookInv /\ now \in 0 .. MaxTime
  BY DEF WebhookOK, RowsOK
<1>2. inst \in [Installations -> Rows] /\ hook \in Work
  BY <1>1, HookTypes
<1>3. CASE DeactivateRemoved(s, d)
  <2>1. hook[s][d] \in SUBSET Repos /\ sent[d].sender \in Tenants
    BY <1>3, SentType DEF DeactivateRemoved
  <2>2. PICK r \in hook[s][d] :
          /\ rows' = [rows EXCEPT ![sent[d].sender][r] = Deactivated(@)]
          /\ hook' = [hook EXCEPT ![s][d] = @ \ {r}]
    BY <1>3 DEF DeactivateRemoved
  <2>3. UNCHANGED <<accounts, seed, add, raced, adm, inst, github, sent, seen, acked, passed, applied,
                    spoiled, now, calls, faults>>
    BY <1>3 DEF DeactivateRemoved
  <2>4. Deactivated(rows[sent[d].sender][r]) \in RowStates
    BY <1>1, <2>1, RowSteps DEF TrackingOK
  <2>5. TrackingOK'
    <3>1. rows' \in [Tenants -> [Repos -> RowStates]]
      BY <1>1, <2>1, <2>2, <2>4, RowType
    <3> QED BY <1>1, <2>3, <3>1 DEF TrackingOK
  <2>6. hook[s][d] \ {r} \in SUBSET Repos /\ hook[s][d] \ {r} # None
    BY <2>1, Constants
  <2>7. /\ hook' \in Work /\ hook'[s][d] = hook[s][d] \ {r}
        /\ \A k \in Instances, e \in Deliveries : k # s \/ e # d => hook'[k][e] = hook[k][e]
    BY <1>2, <2>2, <2>6 DEF Work
  <2>8. HooksOK'
    BY <1>1, <2>3, <2>7, HookTypes, HookTypesNext
  <2>9. \A k \in Instances, e \in Deliveries : hook'[k][e] # None <=> hook[k][e] # None
    BY <1>3, <2>6, <2>7 DEF DeactivateRemoved
  <2>10. AckedIsApplied'
    <3>1. acked \subseteq Deliveries
      BY <1>1 DEF HooksOK
    <3> QED BY <1>1, <2>3, <2>9, <3>1 DEF HookInv, AckedIsApplied
  <2>11. HookInv'
    BY <1>1, <2>3, <2>9, <2>10 DEF HookInv
  <2> QED BY <1>1, <2>3, <2>5, <2>8, <2>11, SameAccounts, Counters DEF RowsOK, WebhookOK
<1>4. CASE Handle(s, d)
  <2>1. hook[s][d] # None
    BY <1>4, Constants DEF Handle
  <2>2. sent[d] \in Payloads /\ sent[d].inst \in Installations
    BY <2>1, SentType
  <2>3. InstallationRow(inst[sent[d].inst], sent[d]) \in Rows
    BY <1>1, <1>2, <2>2, InstallationRowType
  <2>4. inst' \in [Installations -> Rows]
    BY <1>2, <1>4, <2>2, <2>3 DEF Handle
  <2>5. UNCHANGED <<github, sent, seen, passed, now>> /\ HookEnds(s, d, TRUE)
    BY <1>4 DEF Handle
  <2>6. HooksOK' /\ HookInv'
    BY <1>1, <2>4, <2>5, HookEndsStep
  <2> QED BY <1>1, <1>4, <2>6, SameAccounts, SameTracking, Counters DEF Handle, RowsOK, WebhookOK
<1>5. CASE UnknownSender(s, d)
  <2>1. HooksOK' /\ HookInv'
    BY <1>1, <1>2, <1>5, HookEndsStep DEF UnknownSender
  <2> QED BY <1>1, <1>5, <2>1, SameAccounts, SameTracking, Counters DEF UnknownSender, RowsOK, WebhookOK
<1>6. CASE HookFails(s, d)
  <2>1. HooksOK' /\ HookInv'
    BY <1>1, <1>2, <1>6, HookEndsStep DEF HookFails
  <2> QED BY <1>1, <1>6, <2>1, SameAccounts, SameTracking, Counters DEF HookFails, RowsOK, WebhookOK
<1> QED BY <1>3, <1>4, <1>5, <1>6, DeliverStep DEF HookStep

LEMMA RestartStep ==
  ASSUME WebhookOK, NEW s \in Instances, Restart(s)
  PROVE  WebhookOK'
<1>1. RowsOK /\ AccountsOK /\ TrackingOK /\ HooksOK /\ HookInv
  BY DEF WebhookOK, RowsOK
<1> DEFINE Lost == [d \in Deliveries |-> None]
<1>2. /\ inst \in [Installations -> Rows]
      /\ github \in [Installations -> {"absent", "active", "suspended"}]
      /\ sent \in [Deliveries -> Payloads \cup {None}]
      /\ seen \in Memory /\ passed \in Memory /\ hook \in Work
      /\ acked \subseteq Deliveries /\ applied \subseteq Deliveries /\ spoiled \subseteq Deliveries
  BY <1>1, HookTypes
<1>3. Lost \in [Deliveries -> Times] /\ Lost \in [Deliveries -> {None} \cup SUBSET Repos]
      /\ \A d \in Deliveries : Lost[d] = None
  BY DEF Times
<1>4. /\ seen' = [seen EXCEPT ![s] = Lost] /\ hook' = [hook EXCEPT ![s] = Lost]
      /\ passed' = [passed EXCEPT ![s] = Lost]
      /\ spoiled' = spoiled \cup {d \in Deliveries : hook[s][d] # None}
      /\ UNCHANGED <<accounts, tracking, adm, inst, github, sent, acked, applied, now>> /\ Fault
  BY DEF Restart
<1> HIDE DEF Lost
<1>5. /\ seen' \in Memory /\ passed' \in Memory
      /\ \A d \in Deliveries : seen'[s][d] = None /\ passed'[s][d] = None
      /\ \A k \in Instances \ {s}, d \in Deliveries : seen'[k][d] = seen[k][d] /\ passed'[k][d] = passed[k][d]
  BY <1>2, <1>3, <1>4 DEF Memory
<1>6. /\ hook' \in Work /\ \A d \in Deliveries : hook'[s][d] = None
      /\ \A k \in Instances \ {s}, d \in Deliveries : hook'[k][d] = hook[k][d]
  BY <1>2, <1>3, <1>4 DEF Work
<1>7. HooksOK'
  BY <1>2, <1>4, <1>5, <1>6, HookTypesNext
<1>8. ASSUME NEW k \in Instances, NEW e \in Deliveries
      PROVE  /\ hook'[k][e] # None => sent'[e] # None
             /\ seen'[k][e] # None => hook'[k][e] # None \/ e \in applied' \/ e \in spoiled'
             /\ passed'[k][e] # None /\ passed'[k][e] > now' - Window => seen'[k][e] = passed'[k][e]
  <2>1. CASE k = s
    BY <1>5, <1>6, <2>1
  <2>2. CASE k # s
    <3>1. hook'[k][e] = hook[k][e] /\ passed'[k][e] = passed[k][e] /\ seen'[k][e] = seen[k][e]
      BY <1>5, <1>6, <2>2
    <3> QED BY <1>1, <1>4, <3>1 DEF HookInv
  <2> QED BY <2>1, <2>2
<1>9. AckedIsApplied'
  <2> SUFFICES ASSUME NEW e \in acked', e \notin applied', e \notin spoiled'
               PROVE  \E k \in Instances : hook'[k][e] # None
    BY DEF AckedIsApplied
  <2>1. e \in acked /\ e \in Deliveries /\ e \notin applied /\ e \notin spoiled /\ hook[s][e] = None
    BY <1>2, <1>4
  <2>2. PICK k \in Instances : hook[k][e] # None
    BY <1>1, <2>1 DEF HookInv, AckedIsApplied
  <2> QED BY <1>6, <2>1, <2>2
<1> QED BY <1>1, <1>4, <1>7, <1>8, <1>9, SameAccounts, SameTracking, Counters DEF RowsOK, WebhookOK, HookInv

-----------------------------------------------------------------------------
(* The limit of a plan *)

LEMMA CountType ==
  ASSUME NEW row PROVE CountTenantRepos(row) \in Nat /\ IsFiniteSet({r \in Repos : row[r] = "own"})
<1>1. {r \in Repos : row[r] = "own"} \in SUBSET Repos
  OBVIOUS
<1>2. IsFiniteSet({r \in Repos : row[r] = "own"})
  BY <1>1, Constants, FS_Subset
<1> QED BY <1>2, FS_CardinalityType DEF CountTenantRepos

(* With fewer repositories of its own, and perhaps more plans, what fitted  *)
(* still fits.                                                              *)
LEMMA FitsShrinks ==
  ASSUME NEW new, NEW old, \A r \in Repos : new[r] = "own" => old[r] = "own",
         NEW more \in SUBSET Plans, NEW plans \in SUBSET more, Fits(plans, old)
  PROVE  Fits(more, new)
<1>1. CountTenantRepos(new) \in Nat /\ CountTenantRepos(old) \in Nat
  BY CountType
<1>2. CountTenantRepos(new) <= CountTenantRepos(old)
  <2>1. {r \in Repos : new[r] = "own"} \in SUBSET {r \in Repos : old[r] = "own"}
    OBVIOUS
  <2> QED BY <2>1, CountType, FS_Subset DEF CountTenantRepos
<1>3. CASE CountTenantRepos(old) = 0
  BY <1>1, <1>2, <1>3 DEF Fits
<1>4. CASE \E plan \in plans : Within(CountTenantRepos(old), plan)
  <2>1. PICK plan \in plans : Within(CountTenantRepos(old), plan)
    BY <1>4
  <2>2. MaxRepos[plan] \in Nat
    BY Constants
  <2>3. Within(CountTenantRepos(new), plan)
    BY <1>1, <1>2, <2>1, <2>2 DEF Within
  <2> QED BY <2>3 DEF Fits
<1> QED BY <1>3, <1>4 DEF Fits

LEMMA AddTypeNext ==
  ASSUME TrackingOK', NEW p \in Adds, add'[p].pc # "idle"
  PROVE  add'[p].t \in Tenants /\ add'[p].r \in Repos
<1>1. add'[p] \in AddRequests \cup {AddIdle}
  BY DEF TrackingOK
<1>2. AddIdle.pc = "idle"
  BY DEF AddIdle
<1>3. add'[p] \in AddRequests
  BY <1>1, <1>2
<1> QED BY <1>3 DEF AddRequests

LEMMA ViewNext ==
  ASSUME TrackingOK', NEW p \in Adds, add'[p].pc # "idle"
  PROVE  \A r \in Repos : View(p)'[r] = IF r = add'[p].r THEN Upserted(rows'[add'[p].t][r])
                                        ELSE rows'[add'[p].t][r]
<1>1. add'[p].t \in Tenants /\ add'[p].r \in Repos
  BY AddTypeNext
<1>2. rows'[add'[p].t] \in [Repos -> RowStates]
  BY <1>1 DEF TrackingOK
<1> QED BY <1>1, <1>2 DEF View

(* The plans a tenant had are not forgotten. *)
PlansGrow ==
  \A t \in Tenants : /\ held[t] \subseteq held'[t]
                     /\ Exists(t) => Exists(t)'
                     /\ Exists(t)' => tenant'[t].plan \in held'[t]

(* A row of the tenant's own comes only from one, now or after an upsert.   *)
RowsShrink ==
  \A t \in Tenants, r \in Repos :
    /\ rows'[t][r] = "own" => rows[t][r] = "own"
    /\ Upserted(rows'[t][r]) = "own" => Upserted(rows[t][r]) = "own"

(* The request stays where it is, or is not in a transaction. *)
NotInside(p) ==
  \/ add'[p] = add[p]
  \/ add'[p].pc \notin {"count", "commit"} /\ (add'[p].pc # "idle" => Exists(add[p].t)')

LEMMA PlansSame ==
  ASSUME LimitInv, UNCHANGED <<tenant, held>>
  PROVE  PlansGrow
BY DEF LimitInv, PlansGrow, Exists

LEMMA RowsSame ==
  ASSUME UNCHANGED rows
  PROVE  RowsShrink
BY DEF RowsShrink

LEMMA OutsideStep ==
  ASSUME LimitInv, RowsOK, RowsOK', PlansGrow, RowsShrink, \A p \in Adds : NotInside(p), UNCHANGED raced
  PROVE  LimitInv'
<1>1. AccountsOK' /\ TrackingOK /\ TrackingOK'
  BY DEF RowsOK
<1>2. \A t \in Tenants : held'[t] \in SUBSET Plans /\ held[t] \in SUBSET held'[t]
  BY <1>1 DEF AccountsOK, PlansGrow
<1>3. \A t \in Tenants : Exists(t)' => tenant'[t].plan \in held'[t]
  BY DEF PlansGrow
<1>4. \A p \in Adds : add'[p].pc # "idle" => Exists(add[p].t)'
  <2> SUFFICES ASSUME NEW p \in Adds, add'[p].pc # "idle" PROVE Exists(add[p].t)'
    OBVIOUS
  <2>1. CASE add'[p] = add[p]
    <3>1. Exists(add[p].t) /\ add[p].t \in Tenants
      BY <1>1, <2>1, AddType DEF LimitInv
    <3> QED BY <2>1, <3>1 DEF PlansGrow, Exists
  <2>2. CASE add'[p] # add[p]
    BY <2>2 DEF NotInside
  <2> QED BY <2>1, <2>2
<1>5. \A t \in Tenants \ raced' : \A p, q \in Open(t)' : p = q
  <2>1. \A t \in Tenants : Open(t)' \subseteq Open(t)
    BY DEF Open, NotInside
  <2> QED BY <2>1 DEF LimitInv
<1>6. ASSUME NEW p \in Adds, add'[p].pc = "commit", add'[p].t \notin raced'
      PROVE  Fits(held'[add'[p].t], View(p)')
  <2>1. add'[p] = add[p]
    BY <1>6 DEF NotInside
  <2>2. add[p].pc = "commit" /\ add[p].t \in Tenants /\ add[p].r \in Repos
    BY <1>1, <1>6, <2>1, AddType
  <2>3. Fits(held[add[p].t], View(p))
    BY <1>6, <2>1, <2>2 DEF LimitInv
  <2>4. \A r \in Repos : View(p)'[r] = "own" => View(p)[r] = "own"
    <3>1. \A r \in Repos : View(p)[r] = IF r = add[p].r THEN Upserted(rows[add[p].t][r]) ELSE rows[add[p].t][r]
      BY <1>1, <2>2, ViewType
    <3>2. \A r \in Repos : View(p)'[r] = IF r = add[p].r THEN Upserted(rows'[add[p].t][r]) ELSE rows'[add[p].t][r]
      BY <1>1, <2>1, <2>2, ViewNext
    <3> QED BY <2>2, <3>1, <3>2 DEF RowsShrink
  <2>5. Fits(held'[add[p].t], View(p)')
    <3>1. held'[add[p].t] \in SUBSET Plans /\ held[add[p].t] \in SUBSET held'[add[p].t]
      BY <1>2, <2>2
    <3> DEFINE new == View(p)'
               old == View(p)
    <3>2. Fits(held[add[p].t], old) /\ \A r \in Repos : new[r] = "own" => old[r] = "own"
      BY <2>3, <2>4
    <3> HIDE DEF new, old
    <3>3. Fits(held'[add[p].t], new)
      BY <3>1, <3>2, FitsShrinks
    <3> QED BY <3>3 DEF new
  <2> QED BY <2>1, <2>5
<1>7. ASSUME NEW t \in Tenants \ raced' PROVE Fits(held'[t], rows'[t])
  <2>1. Fits(held[t], rows[t])
    BY DEF LimitInv
  <2>2. \A r \in Repos : rows'[t][r] = "own" => rows[t][r] = "own"
    BY DEF RowsShrink
  <2> QED BY <1>2, <2>1, <2>2, FitsShrinks
<1> QED BY <1>3, <1>4, <1>5, <1>6, <1>7 DEF LimitInv, Fits

(* One row loses its place among the tenant's own. *)
LEMMA OneRowShrinks ==
  ASSUME TrackingOK, NEW t \in Tenants, NEW r \in Repos,
         NEW x \in {Deactivated(rows[t][r]), MarkedSample(rows[t][r]), "sample"},
         rows' = [rows EXCEPT ![t][r] = x]
  PROVE  RowsShrink
<1>1. rows[t][r] \in RowStates
  BY DEF TrackingOK
<1>2. x \in RowStates
  BY <1>1, RowSteps
<1>3. (x = "own" => rows[t][r] = "own") /\ (Upserted(x) = "own" => Upserted(rows[t][r]) = "own")
  BY <1>1 DEF RowStates, Upserted, Deactivated, MarkedSample
<1>4. /\ rows'[t][r] = x
      /\ \A u \in Tenants, q \in Repos : u # t \/ q # r => rows'[u][q] = rows[u][q]
  BY <1>2, RowType
<1> QED BY <1>3, <1>4 DEF RowsShrink

(* A second transaction of the same tenant makes it one that raced. *)
LEMMA UpsertsStep ==
  ASSUME LimitInv, RowsOK, RowsOK', NEW p \in Adds, AddUpserts(p)
  PROVE  LimitInv'
<1>1. TrackingOK /\ TrackingOK' /\ add \in [Adds -> AddRequests \cup {AddIdle}]
  BY DEF RowsOK, TrackingOK
<1>2. add[p].pc = "upsert" /\ add[p] \in AddRequests /\ add[p].t \in Tenants /\ UNCHANGED <<tenant, held, rows>>
  BY <1>1, AddType DEF AddUpserts, accounts
<1>3. /\ add'[p].pc = "count" /\ add'[p].t = add[p].t
      /\ \A q \in Adds \ {p} : add'[q] = add[q]
  <2>1. add' = [add EXCEPT ![p] = [add[p] EXCEPT !.pc = "count"]]
    BY DEF AddUpserts
  <2>2. [add[p] EXCEPT !.pc = "count"].pc = "count" /\ [add[p] EXCEPT !.pc = "count"].t = add[p].t
    BY <1>2 DEF AddRequests
  <2> QED BY <1>1, <2>1, <2>2
<1>4. raced' = IF Open(add[p].t) = {} THEN raced ELSE raced \cup {add[p].t}
  BY DEF AddUpserts
<1>5. raced \subseteq raced'
  BY <1>4
<1>6. \A t \in Tenants : Exists(t)' => tenant'[t].plan \in held'[t]
  BY <1>2 DEF LimitInv, Exists
<1>7. \A q \in Adds : add'[q].pc # "idle" => Exists(add[q].t)'
  BY <1>2, <1>3 DEF LimitInv, Exists
<1>8. ASSUME NEW t \in Tenants \ raced', NEW q \in Open(t)', NEW k \in Open(t)' PROVE q = k
  <2>1. CASE t = add[p].t
    <3>1. Open(t) = {}
      BY <1>4, <1>8, <2>1
    <3>2. \A j \in Open(t)' : j = p
      BY <1>3, <3>1 DEF Open
    <3> QED BY <1>8, <3>2
  <2>2. CASE t # add[p].t
    <3>1. Open(t)' \subseteq Open(t)
      BY <1>3, <2>2 DEF Open
    <3> QED BY <1>5, <1>8, <3>1 DEF LimitInv
  <2> QED BY <2>1, <2>2
<1>9. ASSUME NEW q \in Adds, add'[q].pc = "commit", add'[q].t \notin raced'
      PROVE  Fits(held'[add'[q].t], View(q)')
  <2>1. q # p /\ add'[q] = add[q]
    BY <1>3, <1>9
  <2>2. View(q)' = View(q)
    BY <1>2, <2>1 DEF View
  <2> QED BY <1>2, <1>5, <1>9, <2>1, <2>2 DEF LimitInv
<1>10. \A t \in Tenants \ raced' : Fits(held'[t], rows'[t])
  BY <1>2, <1>5 DEF LimitInv
<1> QED BY <1>6, <1>7, <1>8, <1>9, <1>10 DEF LimitInv, Fits

(* The count is of what the transaction will commit. *)
LEMMA CountsStep ==
  ASSUME LimitInv, RowsOK, RowsOK', NEW p \in Adds, AddCounts(p)
  PROVE  LimitInv'
<1>1. TrackingOK /\ TrackingOK' /\ add \in [Adds -> AddRequests \cup {AddIdle}]
  BY DEF RowsOK, TrackingOK
<1>2. /\ add[p].pc = "count" /\ add[p] \in AddRequests /\ add[p].t \in Tenants
      /\ UNCHANGED <<tenant, held, rows, raced>>
  BY <1>1, AddType DEF AddCounts, accounts
<1>3. CASE ~Within(CountTenantRepos(View(p)), tenant[add[p].t].plan)
  <2>1. add' = [add EXCEPT ![p] = AddIdle]
    BY <1>3 DEF AddCounts
  <2>2. add'[p] = AddIdle /\ \A q \in Adds \ {p} : add'[q] = add[q]
    BY <1>1, <2>1
  <2>3. \A q \in Adds : NotInside(q)
    BY <2>2 DEF NotInside, AddIdle
  <2> QED BY <1>2, <2>3, PlansSame, RowsSame, OutsideStep
<1>4. CASE Within(CountTenantRepos(View(p)), tenant[add[p].t].plan)
  <2>1. add' = [add EXCEPT ![p] = [add[p] EXCEPT !.pc = "commit"]]
    BY <1>4 DEF AddCounts
  <2>2. /\ [add[p] EXCEPT !.pc = "commit"].pc = "commit"
        /\ [add[p] EXCEPT !.pc = "commit"].t = add[p].t /\ [add[p] EXCEPT !.pc = "commit"].r = add[p].r
    BY <1>2 DEF AddRequests
  <2>3. /\ add'[p].pc = "commit" /\ add'[p].t = add[p].t /\ add'[p].r = add[p].r
        /\ \A q \in Adds \ {p} : add'[q] = add[q]
    BY <1>1, <2>1, <2>2
  <2>4. \A t \in Tenants : Exists(t)' => tenant'[t].plan \in held'[t]
    BY <1>2 DEF LimitInv, Exists
  <2>5. \A q \in Adds : add'[q].pc # "idle" => Exists(add[q].t)'
    BY <1>2, <2>3 DEF LimitInv, Exists
  <2>6. \A t \in Tenants \ raced' : \A q, k \in Open(t)' : q = k
    <3>1. \A t \in Tenants : Open(t)' \subseteq Open(t)
      BY <1>2, <2>3 DEF Open
    <3> QED BY <1>2, <3>1 DEF LimitInv
  <2>7. \A q \in Adds : View(q)' = View(q)
    BY <1>2, <2>3 DEF View
  <2>8. tenant[add[p].t].plan \in held[add[p].t]
    BY <1>2 DEF LimitInv
  <2>9. Fits(held[add[p].t], View(p))
    BY <1>4, <2>8 DEF Fits
  <2>10. \A q \in Adds : add'[q].pc = "commit" /\ add'[q].t \notin raced' => Fits(held'[add'[q].t], View(q)')
    BY <1>2, <2>3, <2>7, <2>9 DEF LimitInv
  <2>11. \A t \in Tenants \ raced' : Fits(held'[t], rows'[t])
    BY <1>2 DEF LimitInv
  <2> QED BY <2>4, <2>5, <2>6, <2>10, <2>11 DEF LimitInv, Fits
<1> QED BY <1>3, <1>4

(* The rows become what was counted; nobody else was about to commit. *)
LEMMA CommitsStep ==
  ASSUME LimitInv, RowsOK, RowsOK', NEW p \in Adds, AddCommits(p)
  PROVE  LimitInv'
<1>1. /\ TrackingOK /\ TrackingOK' /\ add \in [Adds -> AddRequests \cup {AddIdle}]
      /\ rows \in [Tenants -> [Repos -> RowStates]]
  BY DEF RowsOK, TrackingOK
<1>2. /\ add[p].pc = "commit" /\ add[p] \in AddRequests /\ add[p].t \in Tenants
      /\ UNCHANGED <<tenant, held, raced>> /\ rows' = [rows EXCEPT ![add[p].t] = View(p)]
  BY <1>1, AddType DEF AddCommits, accounts
<1>3. /\ add'[p] \in {AddIdle, [add[p] EXCEPT !.pc = "mark"]}
      /\ \A q \in Adds \ {p} : add'[q] = add[q]
  BY <1>1 DEF AddCommits
<1>4. [add[p] EXCEPT !.pc = "mark"].pc = "mark" /\ [add[p] EXCEPT !.pc = "mark"].t = add[p].t
  BY <1>2 DEF AddRequests
<1>5. AddIdle.pc = "idle"
  BY DEF AddIdle
<1>6. add'[p].pc \in {"idle", "mark"} /\ (add'[p].pc = "mark" => add'[p].t = add[p].t)
  BY <1>3, <1>4, <1>5
<1>7. \A t \in Tenants : Exists(t)' => tenant'[t].plan \in held'[t]
  BY <1>2 DEF LimitInv, Exists
<1>8. \A q \in Adds : add'[q].pc # "idle" => Exists(add[q].t)'
  BY <1>2, <1>3, <1>6 DEF LimitInv, Exists
<1>9. \A t \in Tenants \ raced' : \A q, k \in Open(t)' : q = k
  <2>1. \A t \in Tenants : Open(t)' \subseteq Open(t)
    BY <1>3, <1>6 DEF Open
  <2> QED BY <1>2, <2>1 DEF LimitInv
<1>10. ASSUME NEW q \in Adds, add'[q].pc = "commit", add'[q].t \notin raced'
       PROVE  Fits(held'[add'[q].t], View(q)')
  <2>1. q # p /\ add'[q] = add[q] /\ add[q].t \in Tenants
    BY <1>1, <1>3, <1>6, <1>10, AddType
  <2>2. add[q].t # add[p].t
    <3>1. q \in Open(add[q].t) /\ p \in Open(add[p].t)
      BY <1>2, <1>10, <2>1 DEF Open
    <3> QED BY <1>2, <1>10, <2>1, <3>1 DEF LimitInv
  <2>3. rows'[add[q].t] = rows[add[q].t]
    BY <1>1, <1>2, <2>1, <2>2
  <2>4. View(q)' = View(q)
    BY <2>1, <2>3 DEF View
  <2> QED BY <1>2, <1>10, <2>1, <2>4 DEF LimitInv
<1>11. ASSUME NEW t \in Tenants \ raced' PROVE Fits(held'[t], rows'[t])
  <2>1. CASE t = add[p].t
    <3>1. rows'[t] = View(p)
      BY <1>1, <1>2, <2>1
    <3> QED BY <1>2, <2>1, <3>1 DEF LimitInv
  <2>2. CASE t # add[p].t
    <3>1. rows'[t] = rows[t]
      BY <1>1, <1>2, <2>2
    <3> QED BY <1>2, <3>1 DEF LimitInv
  <2> QED BY <2>1, <2>2
<1> QED BY <1>7, <1>8, <1>9, <1>10, <1>11 DEF LimitInv, Fits

LEMMA AddStepLimit ==
  ASSUME LimitInv, RowsOK, RowsOK', NEW p \in Adds, AddStep(p)
  PROVE  LimitInv'
<1>1. TrackingOK /\ add \in [Adds -> AddRequests \cup {AddIdle}]
  BY DEF RowsOK, TrackingOK
<1>2. AddIdle.pc = "idle"
  BY DEF AddIdle
<1>3. ASSUME add' = [add EXCEPT ![p] = AddIdle] PROVE \A q \in Adds : NotInside(q)
  <2>1. add'[p] = AddIdle /\ \A q \in Adds \ {p} : add'[q] = add[q]
    BY <1>1, <1>3
  <2> QED BY <1>2, <2>1 DEF NotInside
<1>4. CASE AddBegins(p)
  <2>1. PICK t \in Tenants, r \in Repos : Exists(t) /\ add' = [add EXCEPT ![p] = [pc |-> "install", t |-> t, r |-> r]]
    BY <1>4 DEF AddBegins
  <2>2. add'[p].pc = "install" /\ add'[p].t = t /\ \A q \in Adds \ {p} : add'[q] = add[q]
    BY <1>1, <2>1
  <2>3. UNCHANGED <<tenant, held, rows, raced>>
    BY <1>4 DEF AddBegins, accounts
  <2>4. \A q \in Adds : NotInside(q)
    BY <2>1, <2>2, <2>3 DEF NotInside, Exists
  <2> QED BY <2>3, <2>4, PlansSame, RowsSame, OutsideStep
<1>5. CASE AddChecksInstallation(p)
  <2>1. UNCHANGED <<tenant, held, rows, raced>> /\ add[p].pc = "install"
    BY <1>5 DEF AddChecksInstallation, accounts
  <2>2. \/ add' = [add EXCEPT ![p] = AddIdle]
        \/ add' = [add EXCEPT ![p] = [add[p] EXCEPT !.pc = "upsert"]]
    BY <1>5 DEF AddChecksInstallation
  <2>3. CASE add' = [add EXCEPT ![p] = [add[p] EXCEPT !.pc = "upsert"]]
    <3>1. add[p] \in AddRequests
      BY <1>1, <2>1, AddType
    <3>2. [add[p] EXCEPT !.pc = "upsert"].pc = "upsert" /\ [add[p] EXCEPT !.pc = "upsert"].t = add[p].t
      BY <3>1 DEF AddRequests
    <3>3. add'[p].pc = "upsert" /\ add'[p].t = add[p].t /\ \A q \in Adds \ {p} : add'[q] = add[q]
      BY <1>1, <2>3, <3>2
    <3>4. Exists(add[p].t)
      BY <2>1 DEF LimitInv
    <3>5. \A q \in Adds : NotInside(q)
      BY <2>1, <3>3, <3>4 DEF NotInside, Exists
    <3> QED BY <2>1, <3>5, PlansSame, RowsSame, OutsideStep
  <2> QED BY <1>3, <2>1, <2>2, <2>3, PlansSame, RowsSame, OutsideStep
<1>6. CASE AddMarksSample(p)
  <2>1. add[p].t \in Tenants /\ add[p].r \in Repos
    BY <1>1, <1>6, AddType DEF AddMarksSample
  <2>2. RowsShrink
    BY <1>1, <1>6, <2>1, OneRowShrinks DEF AddMarksSample
  <2> QED BY <1>3, <1>6, <2>2, PlansSame, OutsideStep DEF AddMarksSample, accounts
<1>7. CASE AddFails(p)
  BY <1>3, <1>7, PlansSame, RowsSame, OutsideStep DEF AddFails, accounts
<1> QED BY <1>4, <1>5, <1>6, <1>7, UpsertsStep, CountsStep, CommitsStep DEF AddStep

(* Everything else leaves the requests alone. *)
LEMMA OtherStepLimit ==
  ASSUME LimitInv, RowsOK, RowsOK', PlansGrow, RowsShrink, UNCHANGED <<add, raced>>
  PROVE  LimitInv'
<1>1. \A p \in Adds : NotInside(p)
  BY DEF NotInside
<1> QED BY <1>1, OutsideStep

LEMMA TenantStepLimit ==
  ASSUME LimitInv, RowsOK, RowsOK', NEW t \in Tenants, TenantStep(t)
  PROVE  LimitInv'
<1>1. TrackingOK /\ AccountsOK
  BY DEF RowsOK
<1>2. ASSUME NEW r \in Repos, DeleteRepo(t, r) PROVE LimitInv'
  <2>1. RowsShrink
    BY <1>1, <1>2, OneRowShrinks DEF DeleteRepo
  <2> QED BY <1>2, <2>1, PlansSame, OtherStepLimit DEF DeleteRepo, accounts
<1>3. CASE SeedBegins(t) \/ SeedStops(t)
  BY <1>3, PlansSame, RowsSame, OtherStepLimit DEF SeedBegins, SeedStops, accounts
<1>4. ASSUME NEW r \in Samples, SeedAdds(t, r) PROVE LimitInv'
  <2>1. RowsShrink
    BY <1>1, <1>4, Constants, OneRowShrinks DEF SeedAdds
  <2> QED BY <1>4, <2>1, PlansSame, OtherStepLimit DEF SeedAdds, accounts
<1>5. CASE UpsertTenant(t)
  <2>1. UNCHANGED <<rows, add, raced>>
    BY <1>5 DEF UpsertTenant, tracking
  <2>2. PlansGrow
    BY <1>1, <1>5, Constants DEF UpsertTenant, AccountsOK, PlansGrow, Exists, LimitInv
  <2> QED BY <2>1, <2>2, RowsSame, OtherStepLimit
<1>6. CASE RequestUpgrade(t)
  BY <1>6, PlansSame, RowsSame, OtherStepLimit DEF RequestUpgrade, tracking
<1>7. ASSUME NEW status \in {"active", "suspended"}, UpdateStatus(t, status) PROVE LimitInv'
  <2>1. UNCHANGED <<rows, add, raced>>
    BY <1>7 DEF UpdateStatus, tracking
  <2>2. PlansGrow
    BY <1>1, <1>7 DEF UpdateStatus, AccountsOK, PlansGrow, Exists, LimitInv
  <2> QED BY <2>1, <2>2, RowsSame, OtherStepLimit
<1> QED BY <1>2, <1>3, <1>4, <1>5, <1>6, <1>7 DEF TenantStep

LEMMA AdminStepLimit ==
  ASSUME LimitInv, RowsOK, RowsOK', NEW a \in Admins, AdminStep(a)
  PROVE  LimitInv'
<1>1. AccountsOK
  BY DEF RowsOK
<1>2. ASSUME NEW t \in Tenants, NEW plan \in Plans, InviteBegins(a, t, plan) PROVE LimitInv'
  <2>1. UNCHANGED <<rows, add, raced>>
    BY <1>2 DEF InviteBegins, tracking
  <2> DEFINE x == IF tenant[t].plan = None THEN Pro ELSE tenant[t].plan
  <2>2. x \in Plans
    BY <1>1, Constants DEF AccountsOK
  <2>3. tenant' = [tenant EXCEPT ![t].plan = x]
    BY <1>2 DEF InviteBegins
  <2> HIDE DEF x
  <2>4. tenant'[t].plan = x /\ \A u \in Tenants : u # t => tenant'[u] = tenant[u]
    BY <1>1, <2>3 DEF AccountsOK
  <2>5. held' = [held EXCEPT ![t] = @ \cup {x}]
    BY <1>2, <2>4 DEF InviteBegins
  <2>6. held'[t] = held[t] \cup {x} /\ \A u \in Tenants : u # t => held'[u] = held[u]
    BY <1>1, <2>5 DEF AccountsOK
  <2>7. PlansGrow
    BY <2>2, <2>4, <2>6, Constants DEF PlansGrow, Exists, LimitInv
  <2> QED BY <2>1, <2>7, RowsSame, OtherStepLimit
<1>3. CASE UpdatePlan(a)
  <2>1. UNCHANGED <<rows, add, raced>>
    BY <1>3 DEF UpdatePlan, tracking
  <2>2. adm[a].t \in Tenants /\ adm[a].plan \in Plans
    BY <1>3, ChangeType DEF UpdatePlan
  <2>3. PlansGrow
    BY <1>1, <1>3, <2>2, Constants DEF UpdatePlan, AccountsOK, PlansGrow, Exists, LimitInv
  <2> QED BY <2>1, <2>3, RowsSame, OtherStepLimit
<1>4. ASSUME NEW t \in Tenants, NEW plan \in Plans, PlanFormBegins(a, t, plan) PROVE LimitInv'
  BY <1>4, PlansSame, RowsSame, OtherStepLimit DEF PlanFormBegins, tracking, accounts
<1>5. CASE ClearUpgradeRequest(a) \/ AdminFails(a)
  BY <1>5, PlansSame, RowsSame, OtherStepLimit DEF ClearUpgradeRequest, AdminFails, tracking, accounts
<1> QED BY <1>2, <1>3, <1>4, <1>5 DEF AdminStep

LEMMA HookStepLimit ==
  ASSUME LimitInv, WebhookOK, RowsOK', NEW s \in Instances, NEW d \in Deliveries, HookStep(s, d)
  PROVE  LimitInv'
<1>1. RowsOK /\ TrackingOK
  BY DEF WebhookOK, RowsOK
<1>2. CASE DeactivateRemoved(s, d)
  <2>1. PICK r \in hook[s][d] : rows' = [rows EXCEPT ![sent[d].sender][r] = Deactivated(@)]
    BY <1>2 DEF DeactivateRemoved
  <2>2. sent[d].sender \in Tenants /\ r \in Repos
    BY <1>2, SentType DEF DeactivateRemoved
  <2>3. RowsShrink
    BY <1>1, <2>1, <2>2, OneRowShrinks
  <2> QED BY <1>1, <1>2, <2>3, PlansSame, OtherStepLimit DEF DeactivateRemoved, accounts
<1>3. CASE Deliver(s, d) \/ Handle(s, d) \/ UnknownSender(s, d) \/ HookFails(s, d)
  <2>1. UNCHANGED <<tenant, held, rows, add, raced>>
    BY <1>3 DEF Deliver, Handle, UnknownSender, HookFails, accounts, tracking
  <2> QED BY <1>1, <2>1, PlansSame, RowsSame, OtherStepLimit
<1> QED BY <1>2, <1>3 DEF HookStep

-----------------------------------------------------------------------------
(* The theorems *)

TenancyInv == RowsOK /\ HookInv /\ LimitInv

LEMMA TenancyInitially == Init => TenancyInv
<1> SUFFICES ASSUME Init PROVE TenancyInv
  OBVIOUS
<1>1. AccountsOK
  BY Constants DEF Init, AccountsOK
<1>2. TrackingOK
  BY DEF Init, TrackingOK, RowStates
<1>3. HooksOK
  BY DEF Init, HooksOK
<1>4. RowsOK
  BY <1>1, <1>2, <1>3, Constants DEF Init, RowsOK
<1>5. HookInv
  BY DEF Init, HookInv, AckedIsApplied
<1>6. \A t \in Tenants : Exists(t) => tenant[t].plan \in held[t]
  BY Constants DEF Init, Exists
<1>7. \A p \in Adds : add[p].pc = "idle"
  BY DEF Init, AddIdle
<1>8. \A t \in Tenants : Fits(held[t], rows[t])
  <2> SUFFICES ASSUME NEW t \in Tenants PROVE CountTenantRepos(rows[t]) = 0
    BY DEF Fits
  <2>1. {r \in Repos : rows[t][r] = "own"} = {}
    BY DEF Init
  <2> QED BY <2>1, FS_EmptySet DEF CountTenantRepos
<1>9. \A t \in Tenants : Open(t) = {}
  BY <1>7 DEF Open
<1>10. LimitInv
  BY <1>6, <1>7, <1>8, <1>9 DEF LimitInv
<1> QED BY <1>4, <1>5, <1>10 DEF TenancyInv

LEMMA TenancyStep ==
  ASSUME TenancyInv, [Next]_vars
  PROVE  TenancyInv'
<1>1. RowsOK /\ HookInv /\ LimitInv /\ WebhookOK /\ AccountsOK /\ TrackingOK /\ HooksOK
  BY DEF TenancyInv, WebhookOK, RowsOK
<1>2. ASSUME UNCHANGED <<tenant, held, rows, add, raced>>, RowsOK' PROVE LimitInv'
  BY <1>1, <1>2, PlansSame, RowsSame, OtherStepLimit
<1>3. ASSUME NEW p \in Adds, AddStep(p) PROVE TenancyInv'
  <2>1. UNCHANGED <<hooks, now>>
    BY <1>3 DEF AddStep, AddBegins, AddChecksInstallation, AddUpserts, AddCounts, AddCommits, AddMarksSample, AddFails
  <2> QED BY <1>1, <1>3, <2>1, AddStepType, AddStepLimit, SameHookInv DEF TenancyInv
<1>4. ASSUME NEW a \in Admins, AdminStep(a) PROVE TenancyInv'
  <2>1. UNCHANGED <<hooks, now>>
    BY <1>4 DEF AdminStep, PlanFormBegins, InviteBegins, UpdatePlan, ClearUpgradeRequest, AdminFails
  <2> QED BY <1>1, <1>4, <2>1, AdminStepType, AdminStepLimit, SameHookInv DEF TenancyInv
<1>5. ASSUME NEW t \in Tenants, TenantStep(t) PROVE TenancyInv'
  <2>1. UNCHANGED <<hooks, now>>
    BY <1>5 DEF TenantStep, DeleteRepo, SeedBegins, SeedStops, SeedAdds, UpsertTenant, RequestUpgrade, UpdateStatus
  <2> QED BY <1>1, <1>5, <2>1, TenantStepType, TenantStepLimit, SameHookInv DEF TenancyInv
<1>6. ASSUME NEW d \in Deliveries, NEW i \in Installations, NEW t \in Tenants, GitHubEvent(d, i, t)
      PROVE  TenancyInv'
  <2>1. UNCHANGED <<tenant, held, rows, add, raced>>
    BY <1>6 DEF GitHubEvent, GitHubSends, accounts, tracking
  <2>2. WebhookOK'
    BY <1>1, <1>6, GitHubEventStep
  <2> QED BY <1>2, <2>1, <2>2 DEF WebhookOK, TenancyInv
<1>7. ASSUME NEW s \in Instances, NEW d \in Deliveries, HookStep(s, d) PROVE TenancyInv'
  <2>1. RowsOK' /\ HookInv'
    BY <1>1, <1>7, HookStepOK DEF WebhookOK
  <2> QED BY <1>1, <1>7, <2>1, HookStepLimit DEF TenancyInv
<1>8. ASSUME NEW s \in Instances, Restart(s) PROVE TenancyInv'
  <2>1. UNCHANGED <<tenant, held, rows, add, raced>>
    BY <1>8 DEF Restart, accounts, tracking
  <2>2. WebhookOK'
    BY <1>1, <1>8, RestartStep
  <2> QED BY <1>2, <2>1, <2>2 DEF WebhookOK, TenancyInv
<1>9. CASE Tick
  <2>1. /\ now' = now + 1 /\ now' \in 0 .. MaxTime /\ now \in 0 .. MaxTime
        /\ UNCHANGED <<accounts, tracking, adm, hooks, calls, faults>>
    BY <1>1, <1>9, Constants DEF Tick, RowsOK
  <2>2. RowsOK'
    BY <1>1, <2>1, SameAccounts, SameTracking, SameHooks, Counters DEF RowsOK
  <2>3. HookInv'
    <3>1. \A s \in Instances, d \in Deliveries : passed[s][d] \in (0 .. MaxTime) \cup {None}
      BY <1>1 DEF HooksOK
    <3>2. \A x \in 0 .. MaxTime : x > now' - Window => x > now - Window
      BY <2>1, Constants
    <3>3. \A s \in Instances, d \in Deliveries :
             passed[s][d] # None /\ passed[s][d] > now' - Window => passed[s][d] > now - Window
      BY <3>1, <3>2
    <3> QED BY <1>1, <2>1, <3>3 DEF HookInv, AckedIsApplied, hooks
  <2> QED BY <1>2, <2>1, <2>2, <2>3 DEF TenancyInv, accounts, tracking
<1>10. CASE UNCHANGED vars
  <2>1. RowsOK'
    BY <1>1, <1>10, SameAccounts, SameTracking, SameHooks, Counters DEF vars, RowsOK
  <2> QED BY <1>1, <1>2, <1>10, <2>1, SameHookInv DEF vars, accounts, tracking, TenancyInv
<1> QED BY <1>3, <1>4, <1>5, <1>6, <1>7, <1>8, <1>9, <1>10 DEF Next

(* The inductive invariant holds in every reachable state. *)
THEOREM TenancyInvariant == Spec => []TenancyInv
<1>1. Init => TenancyInv
  BY TenancyInitially
<1>2. TenancyInv /\ [Next]_vars => TenancyInv'
  BY TenancyStep
<1> QED BY <1>1, <1>2, PTL DEF Spec

(* AddTenantRepos keeps a tenant within the largest of its plans unless two *)
(* of its transactions were open at once: the count it reads in between is  *)
(* that of the rows it commits, and every other statement only lowers it.   *)
THEOREM SerialAddsKeepLimit == Spec => []LimitKeptBySerialAdds
<1>1. TenancyInv => LimitKeptBySerialAdds
  BY DEF TenancyInv, LimitInv, LimitKeptBySerialAdds, Fits
<1> QED BY <1>1, TenancyInvariant, PTL

(* A delivery WebhookHandler answered 200 was carried out, is being carried *)
(* out, or failed before; restarts and collected entries included.          *)
THEOREM AcknowledgedIsApplied == Spec => []AckedIsApplied
<1>1. TenancyInv => AckedIsApplied
  BY DEF TenancyInv, HookInv
<1> QED BY <1>1, TenancyInvariant, PTL

(* Who writes an installation row, and who records that a delivery passed. *)
LEMMA WebhookWriters ==
  ASSUME Next
  PROVE  /\ inst' # inst => \E s \in Instances, d \in Deliveries : Handle(s, d)
         /\ passed' # passed => \/ \E s \in Instances, d \in Deliveries : Deliver(s, d)
                              \/ \E s \in Instances : Restart(s)
<1>1. ASSUME NEW p \in Adds, AddStep(p) PROVE UNCHANGED <<inst, passed>>
  BY <1>1 DEF AddStep, AddBegins, AddChecksInstallation, AddUpserts, AddCounts, AddCommits,
              AddMarksSample, AddFails, hooks
<1>2. ASSUME NEW a \in Admins, AdminStep(a) PROVE UNCHANGED <<inst, passed>>
  BY <1>2 DEF AdminStep, PlanFormBegins, InviteBegins, UpdatePlan, ClearUpgradeRequest, AdminFails, hooks
<1>3. ASSUME NEW t \in Tenants, TenantStep(t) PROVE UNCHANGED <<inst, passed>>
  BY <1>3 DEF TenantStep, DeleteRepo, SeedBegins, SeedStops, SeedAdds, UpsertTenant, RequestUpgrade,
              UpdateStatus, hooks
<1>4. ASSUME NEW d \in Deliveries, NEW i \in Installations, NEW t \in Tenants, GitHubEvent(d, i, t)
      PROVE  UNCHANGED <<inst, passed>>
  BY <1>4 DEF GitHubEvent, GitHubSends
<1>5. ASSUME NEW s \in Instances, NEW d \in Deliveries, HookStep(s, d)
      PROVE  /\ inst' # inst => Handle(s, d)
             /\ passed' # passed => Deliver(s, d)
  BY <1>5 DEF HookStep, Deliver, DeactivateRemoved, Handle, UnknownSender, HookFails
<1>6. ASSUME NEW s \in Instances, Restart(s) PROVE inst' = inst
  BY <1>6 DEF Restart
<1>7. ASSUME Tick PROVE UNCHANGED <<inst, passed>>
  BY <1>7 DEF Tick, hooks
<1> QED BY <1>1, <1>2, <1>3, <1>4, <1>5, <1>6, <1>7 DEF Next

(* seenOrRecord lets a delivery through once in a window, whatever it       *)
(* forgets of the other deliveries.                                         *)
THEOREM HandledOncePerWindow == Spec => OncePerWindow
<1> DEFINE A == \A s \in Instances, d \in Deliveries :
                  passed[s][d] # None /\ passed'[s][d] # passed[s][d] /\ passed'[s][d] # None
                    => now >= passed[s][d] + Window
<1>1. TenancyInv /\ [Next]_vars => [A]_vars
  <2> SUFFICES ASSUME TenancyInv, Next, NEW s \in Instances, NEW d \in Deliveries,
                      passed[s][d] # None, passed'[s][d] # passed[s][d], passed'[s][d] # None
               PROVE  now >= passed[s][d] + Window
    OBVIOUS
  <2>1. HooksOK /\ HookInv /\ now \in 0 .. MaxTime /\ passed[s][d] \in 0 .. MaxTime
    BY DEF TenancyInv, RowsOK, HooksOK
  <2>2. passed' # passed
    OBVIOUS
  <2>3. (\E k \in Instances, e \in Deliveries : Deliver(k, e)) \/ (\E k \in Instances : Restart(k))
    BY <2>2, WebhookWriters
  <2>4. CASE \E k \in Instances : Restart(k)
    BY <2>1, <2>4 DEF Restart, HooksOK
  <2>5. CASE \E k \in Instances, e \in Deliveries : Deliver(k, e)
    <3>1. PICK k \in Instances, e \in Deliveries : Deliver(k, e)
      BY <2>5
    <3>2. ~Seen(k, e) /\ passed' = [passed EXCEPT ![k][e] = now]
      BY <2>2, <3>1 DEF Deliver
    <3>3. k = s /\ e = d
      BY <2>1, <3>2 DEF HooksOK
    <3>4. ~(passed[s][d] > now - Window)
      BY <2>1, <3>2, <3>3 DEF HookInv, Seen
    <3> QED BY <2>1, <3>4, Constants
  <2> QED BY <2>3, <2>4, <2>5
<1> QED BY <1>1, TenancyInvariant, PTL DEF Spec, OncePerWindow

-----------------------------------------------------------------------------
(* The installation rows and GitHub *)

StateAfter(event) ==
  CASE event \in {"created", "unsuspend"} -> "active"
    [] event = "suspend" -> "suspended"
    [] event = "deleted" -> "absent"

(* GitHub's view of an installation is what its last delivery says, and the *)
(* row of an installation that is caught up is what that delivery wrote.    *)
LatestInv ==
  /\ LatestOK
  /\ \A i \in Installations : latest[i] # None =>
       /\ sent[latest[i]] # None /\ sent[latest[i]].inst = i /\ sent[latest[i]].event # "removed"
       /\ github[i] = StateAfter(sent[latest[i]].event)
  /\ \A i \in caughtUp :
       /\ latest[i] # None
       /\ sent[latest[i]].event = "created" => inst[i] = [t |-> sent[latest[i]].sender, at |-> None]
       /\ sent[latest[i]].event \in {"suspend", "deleted"} => inst[i].t = None \/ inst[i].at # None

LEMMA LatestSame ==
  ASSUME LatestInv, UNCHANGED <<inst, github, sent, latest, caughtUp>>
  PROVE  LatestInv'
BY DEF LatestInv, LatestOK

(* GitHub reports something about an installation. *)
LEMMA LatestSent ==
  ASSUME RowsOK, LatestInv, NEW d \in Deliveries, NEW i \in Installations, NEW t \in Tenants,
         GitHubEvent(d, i, t)
  PROVE  LatestInv'
<1>1. PICK event \in Events, R \in SUBSET Repos :
         /\ event # "removed" => R = {}
         /\ GitHubSends(d, [event |-> event, inst |-> i, sender |-> t, repos |-> R],
                        CASE event \in {"created", "unsuspend"} -> "active"
                          [] event = "suspend" -> "suspended"
                          [] event = "deleted" -> "absent"
                          [] OTHER -> github[i])
  BY DEF GitHubEvent, Events
<1> DEFINE x == [event |-> event, inst |-> i, sender |-> t, repos |-> R]
           st == CASE event \in {"created", "unsuspend"} -> "active"
                   [] event = "suspend" -> "suspended"
                   [] event = "deleted" -> "absent"
                   [] OTHER -> github[i]
<1>2. x.event = event /\ x.inst = i
  OBVIOUS
<1>3. x \in Payloads
  BY <1>1 DEF Payloads, Events
<1>4. x # None
  BY <1>3, Constants
<1>5. st = IF event = "removed" THEN github[i] ELSE StateAfter(event)
  BY DEF Events, StateAfter
<1>6. GitHubSends(d, x, st)
  BY <1>1
<1> HIDE DEF x, st
<1>7. /\ sent[d] = None /\ sent' = [sent EXCEPT ![d] = x] /\ github' = [github EXCEPT ![i] = st]
      /\ UNCHANGED inst
      /\ event = "removed" => UNCHANGED <<latest, caughtUp>>
      /\ event # "removed" => latest' = [latest EXCEPT ![i] = d] /\ caughtUp' = caughtUp \ {i}
  BY <1>2, <1>6 DEF GitHubSends
<1>8. /\ sent \in [Deliveries -> Payloads \cup {None}]
      /\ github \in [Installations -> {"absent", "active", "suspended"}]
      /\ latest \in [Installations -> Deliveries \cup {None}] /\ caughtUp \subseteq Installations
  BY DEF RowsOK, HooksOK, LatestInv, LatestOK
<1>9. /\ sent'[d] = x /\ \A e \in Deliveries : sent[e] # None => sent'[e] = sent[e]
      /\ github'[i] = st /\ \A k \in Installations : k # i => github'[k] = github[k]
  BY <1>7, <1>8
<1>10. CASE event = "removed"
  <2>1. UNCHANGED <<inst, github, latest, caughtUp>>
    BY <1>5, <1>7, <1>8, <1>10
  <2>2. \A k \in Installations : latest[k] # None => sent'[latest[k]] = sent[latest[k]]
    BY <1>8, <1>9 DEF LatestInv
  <2>3. \A k \in caughtUp : k \in Installations
    BY <1>8
  <2>4. LatestOK'
    BY <2>1 DEF LatestInv, LatestOK
  <2> QED BY <2>1, <2>2, <2>3, <2>4 DEF LatestInv
<1>11. CASE event # "removed"
  <2>1. /\ latest'[i] = d /\ \A k \in Installations : k # i => latest'[k] = latest[k]
        /\ LatestOK' /\ i \notin caughtUp' /\ caughtUp' \subseteq caughtUp
    BY <1>7, <1>8, <1>11 DEF LatestOK
  <2>2. ASSUME NEW k \in Installations, latest'[k] # None
        PROVE  /\ sent'[latest'[k]] # None /\ sent'[latest'[k]].inst = k
               /\ sent'[latest'[k]].event # "removed"
               /\ github'[k] = StateAfter(sent'[latest'[k]].event)
    <3>1. CASE k = i
      BY <1>2, <1>4, <1>5, <1>9, <1>11, <2>1, <3>1
    <3>2. CASE k # i
      <4>1. latest[k] # None /\ latest[k] \in Deliveries /\ latest'[k] = latest[k]
        BY <1>8, <2>1, <2>2, <3>2
      <4> QED BY <1>9, <3>2, <4>1 DEF LatestInv
    <3> QED BY <3>1, <3>2
  <2>3. ASSUME NEW k \in caughtUp'
        PROVE  /\ latest'[k] # None
               /\ sent'[latest'[k]].event = "created"
                    => inst'[k] = [t |-> sent'[latest'[k]].sender, at |-> None]
               /\ sent'[latest'[k]].event \in {"suspend", "deleted"} => inst'[k].t = None \/ inst'[k].at # None
    <3>1. k \in caughtUp /\ k # i /\ k \in Installations
      BY <1>8, <2>1
    <3>2. latest[k] # None /\ latest[k] \in Deliveries /\ latest'[k] = latest[k] /\ sent[latest[k]] # None
      BY <1>8, <2>1, <3>1 DEF LatestInv
    <3>3. sent'[latest'[k]] = sent[latest[k]] /\ inst' = inst
      BY <1>7, <1>9, <3>2
    <3> QED BY <3>1, <3>2, <3>3 DEF LatestInv
  <2> QED BY <2>1, <2>2, <2>3 DEF LatestInv
<1> QED BY <1>10, <1>11

(* The row a delivery leaves. *)
LEMMA RowLeft ==
  ASSUME NEW row \in Rows, NEW x \in Payloads, now \in 0 .. MaxTime
  PROVE  /\ x.event = "created" => InstallationRow(row, x) = [t |-> x.sender, at |-> None]
         /\ x.event \in {"suspend", "deleted"}
              => InstallationRow(row, x).t = None \/ InstallationRow(row, x).at # None
         /\ x.event = "removed" => InstallationRow(row, x) = row
<1>1. now # None
  BY Constants
<1>2. CASE x.event = "created"
  BY <1>2 DEF InstallationRow
<1>3. CASE x.event \in {"suspend", "deleted"} /\ row.t # None /\ row.at = None
  <2>1. InstallationRow(row, x) = [row EXCEPT !.at = now]
    BY <1>3 DEF InstallationRow
  <2>2. [row EXCEPT !.at = now].at = now
    BY DEF Rows
  <2> QED BY <1>1, <1>3, <2>1, <2>2
<1>4. CASE x.event # "created" /\ ~(x.event \in {"suspend", "deleted"} /\ row.t # None /\ row.at = None)
  <2>1. InstallationRow(row, x) = row
    BY <1>4 DEF InstallationRow
  <2> QED BY <1>4, <2>1
<1> QED BY <1>2, <1>3, <1>4

(* A delivery is carried out. *)
LEMMA LatestHandled ==
  ASSUME WebhookOK, LatestInv, NEW s \in Instances, NEW d \in Deliveries, Handle(s, d)
  PROVE  LatestInv'
<1>1. hook[s][d] # None
  BY Constants DEF Handle
<1>2. sent[d] \in Payloads /\ sent[d].inst \in Installations
  BY <1>1, SentType
<1>3. /\ inst \in [Installations -> Rows] /\ now \in 0 .. MaxTime
      /\ latest \in [Installations -> Deliveries \cup {None}] /\ caughtUp \subseteq Installations
  BY HookTypes DEF WebhookOK, RowsOK, LatestInv, LatestOK
<1> DEFINE i == sent[d].inst
<1>4. /\ inst'[i] = InstallationRow(inst[i], sent[d])
      /\ \A k \in Installations : k # i => inst'[k] = inst[k]
      /\ UNCHANGED <<github, sent, latest>>
  BY <1>2, <1>3 DEF Handle
<1>5. /\ sent[d].event = "removed" => caughtUp' = caughtUp
      /\ sent[d].event # "removed" /\ latest[i] = d => caughtUp' = caughtUp \cup {i}
      /\ sent[d].event # "removed" /\ latest[i] # d => caughtUp' = caughtUp \ {i}
  <2>1. caughtUp' = IF sent[d].event = "removed" THEN caughtUp
                    ELSE IF latest[i] = d THEN caughtUp \cup {i} ELSE caughtUp \ {i}
    BY Zenon DEF Handle
  <2> HIDE DEF i
  <2> QED BY <2>1, SMT
<1>6. inst[i] \in Rows
  BY <1>2, <1>3
<1>7. /\ sent[d].event = "created" => inst'[i] = [t |-> sent[d].sender, at |-> None]
      /\ sent[d].event \in {"suspend", "deleted"} => inst'[i].t = None \/ inst'[i].at # None
      /\ sent[d].event = "removed" => inst'[i] = inst[i]
  BY <1>2, <1>3, <1>4, <1>6, RowLeft
<1>8. LatestOK' /\ caughtUp' \subseteq Installations
  BY <1>2, <1>3, <1>4, <1>5 DEF LatestOK
<1>9. ASSUME NEW k \in caughtUp'
      PROVE  /\ latest[k] # None
             /\ sent[latest[k]].event = "created" => inst'[k] = [t |-> sent[latest[k]].sender, at |-> None]
             /\ sent[latest[k]].event \in {"suspend", "deleted"} => inst'[k].t = None \/ inst'[k].at # None
  <2>1. CASE k = i /\ sent[d].event # "removed"
    <3>1. latest[i] = d
      BY <1>5, <1>9, <2>1
    <3>2. d # None
      BY TenancyAssumption
    <3> QED BY <1>7, <2>1, <3>1, <3>2
  <2>2. CASE k # i \/ sent[d].event = "removed"
    <3>1. k \in caughtUp /\ k \in Installations
      BY <1>3, <1>5, <1>9, <2>2
    <3>2. inst'[k] = inst[k]
      BY <1>4, <1>7, <2>2, <3>1
    <3> QED BY <3>1, <3>2 DEF LatestInv
  <2> QED BY <2>1, <2>2
<1> QED BY <1>4, <1>8, <1>9 DEF LatestInv

LEMMA LatestStep ==
  ASSUME TenancyInv, LatestInv, [Next]_vars
  PROVE  LatestInv'
<1>1. RowsOK /\ WebhookOK
  BY DEF TenancyInv, WebhookOK
<1> DEFINE Same == UNCHANGED <<inst, github, sent, latest, caughtUp>>
<1>2. ASSUME NEW p \in Adds, AddStep(p) PROVE Same
  BY <1>2 DEF AddStep, AddBegins, AddChecksInstallation, AddUpserts, AddCounts, AddCommits,
              AddMarksSample, AddFails, hooks
<1>3. ASSUME NEW a \in Admins, AdminStep(a) PROVE Same
  BY <1>3 DEF AdminStep, PlanFormBegins, InviteBegins, UpdatePlan, ClearUpgradeRequest, AdminFails, hooks
<1>4. ASSUME NEW t \in Tenants, TenantStep(t) PROVE Same
  BY <1>4 DEF TenantStep, DeleteRepo, SeedBegins, SeedStops, SeedAdds, UpsertTenant, RequestUpgrade,
              UpdateStatus, hooks
<1>5. ASSUME NEW s \in Instances, NEW d \in Deliveries, HookStep(s, d), ~Handle(s, d) PROVE Same
  BY <1>5 DEF HookStep, Deliver, DeactivateRemoved, UnknownSender, HookFails
<1>6. ASSUME NEW s \in Instances, Restart(s) PROVE Same
  BY <1>6 DEF Restart
<1>7. ASSUME Tick \/ UNCHANGED vars PROVE Same
  BY <1>7 DEF Tick, vars, hooks
<1>8. Same => LatestInv'
  BY LatestSame
<1> HIDE DEF Same
<1> QED BY <1>1, <1>2, <1>3, <1>4, <1>5, <1>6, <1>7, <1>8, LatestSent, LatestHandled DEF Next

LEMMA LatestInvariant == Spec => []LatestInv
<1>1. Init => LatestInv
  BY DEF Init, LatestInv, LatestOK
<1>2. TenancyInv /\ LatestInv /\ [Next]_vars => LatestInv'
  BY LatestStep
<1> QED BY <1>1, <1>2, TenancyInvariant, PTL DEF Spec

(* Tenants, rows, requests and the webhook's memory have their types. *)
THEOREM TypeCorrect == Spec => []TypeOK
<1>1. TenancyInv /\ LatestInv => TypeOK
  BY DEF TenancyInv, LatestInv, TypeOK
<1> QED BY <1>1, TenancyInvariant, LatestInvariant, PTL

(* handleInstallationEvent: when the delivery GitHub sent last about an     *)
(* installation is the one handled last, the row agrees with GitHub, however *)
(* deliveries were repeated, reordered, lost or failed before; "unsuspend"  *)
(* is not handled.                                                          *)
THEOREM InstallationsFollow == Spec => []InstallationInStep
<1>1. TenancyInv /\ LatestInv => InstallationInStep
  <2> SUFFICES ASSUME TenancyInv, LatestInv, NEW i \in caughtUp
               PROVE  IF github[i] = "active"
                      THEN sent[latest[i]].event = "unsuspend"
                           \/ i \in GetActiveInstallations(sent[latest[i]].sender)
                      ELSE \A t \in Tenants : i \notin GetActiveInstallations(t)
    BY DEF InstallationInStep
  <2>1. i \in Installations /\ latest[i] \in Deliveries /\ latest[i] # None
    BY DEF LatestInv, LatestOK
  <2>2. sent[latest[i]] \in Payloads
    BY <2>1 DEF TenancyInv, RowsOK, HooksOK, LatestInv
  <2>3. sent[latest[i]].event \in Events \ {"removed"} /\ github[i] = StateAfter(sent[latest[i]].event)
    BY <2>1, <2>2, PayloadType DEF LatestInv
  <2>4. CASE sent[latest[i]].event = "created"
    <3>1. inst[i] = [t |-> sent[latest[i]].sender, at |-> None] /\ github[i] = "active"
      BY <2>3, <2>4 DEF LatestInv, StateAfter
    <3> QED BY <2>1, <3>1 DEF GetActiveInstallations
  <2>5. CASE sent[latest[i]].event \in {"suspend", "deleted"}
    <3>1. inst[i].t = None \/ inst[i].at # None
      BY <2>5 DEF LatestInv
    <3>2. github[i] # "active"
      BY <2>3, <2>5 DEF StateAfter
    <3> QED BY <3>1, <3>2, Constants DEF GetActiveInstallations
  <2>6. CASE sent[latest[i]].event = "unsuspend"
    BY <2>3, <2>6 DEF StateAfter
  <2> QED BY <2>3, <2>4, <2>5, <2>6 DEF Events
<1> QED BY <1>1, TenancyInvariant, LatestInvariant, PTL
=============================================================================
