------------------------------- MODULE Digest --------------------------------
(***************************************************************************)
(* The weekly digest.  digest.Run may be under way several times at once:  *)
(* at the end of the first task of every import job, scheduled or started  *)
(* by hand, and behind the button of the administrators.  Each run lists   *)
(* the tenants once, with the time of their last digest, and then mails    *)
(* the ones that are due; users toggle their subscription and accounts are *)
(* suspended meanwhile.                                                    *)
(*                                                                         *)
(* Time is counted in days.  An age is a number of days since something,   *)
(* and the ages above Cooldown + 1 are not told apart, so that time needs  *)
(* no bound.                                                               *)
(***************************************************************************)
EXTENDS Integers, FiniteSets

CONSTANTS
    Run,         \* runs of digest.Run that may be under way together
    Tenant,      \* accounts with an email address
    Nobody,      \* no tenant
    Admin,       \* the administrator who sends digests by the button
    FirstAdmin,  \* the first of DEVPULSE_ADMIN_USERS, Nobody if that is empty
    digestDay,   \* [Tenant -> weekday]: FNV-1a of the id, modulo 7
    AdminOnly,   \* DIGEST_ADMIN_ONLY is not "false"
    Week,        \* days in a week
    Cooldown,    \* digestCooldown
    MaxChanges   \* bound: changes of a subscription or of a status

ASSUME DigestAssumption ==
    /\ Admin \in Tenant /\ Nobody \notin Tenant /\ FirstAdmin \in {Admin, Nobody}
    /\ Week \in Nat \ {0} /\ Cooldown \in 1 .. Week - 1
    /\ digestDay \in [Tenant -> 0 .. Week - 1]
    /\ AdminOnly \in BOOLEAN /\ MaxChanges \in Nat

VARIABLES
    today,     \* the weekday
    active,    \* tenants whose status is active
    weekly,    \* tenants with weekly_digest
    lastSent,  \* [Tenant -> age of digest_last_sent_at; Old for NULL]
    pc,        \* [Run -> "idle", "list", "loop", "send", "record"]
    only,      \* [Run -> cfg.TestUsername, or Nobody]
    day,       \* [Run -> the weekday when it began]
    due,       \* [Run -> tenants of the list still to be mailed]
    at,        \* [Run -> the tenant it is sending to]
    changes,
    (* history *)
    since,     \* [Tenant -> age of the last mail delivered]
    unseen,    \* [Run -> tenants with a mail its list could not show]
    stopped,   \* [Run -> tenants that stopped qualifying after its list]
    spared     \* [Run -> tenants whose send failed, or who had no content]

tenants == <<active, weekly, changes>>
history == <<since, unseen, stopped, spared>>
vars == <<today, tenants, lastSent, pc, only, day, due, at, history>>

Old  == Cooldown + 2
Ages == 0 .. Old

Init ==
    /\ today = 0
    /\ active = Tenant /\ weekly = Tenant /\ changes = 0
    /\ lastSent = [t \in Tenant |-> Old]
    /\ pc = [r \in Run |-> "idle"]
    /\ only = [r \in Run |-> Nobody]
    /\ day = [r \in Run |-> 0]
    /\ due = [r \in Run |-> {}]
    /\ at = [r \in Run |-> Nobody]
    /\ since = [t \in Tenant |-> Old]
    /\ unseen = [r \in Run |-> {}]
    /\ stopped = [r \in Run |-> {}]
    /\ spared = [r \in Run |-> {}]

Goto(r, l) == pc' = [pc EXCEPT ![r] = l]

Begin(r, username) ==
    /\ pc[r] = "idle"
    /\ Goto(r, "list")
    /\ only' = [only EXCEPT ![r] = username]
    /\ day' = [day EXCEPT ![r] = today]
    /\ UNCHANGED <<today, tenants, lastSent, due, at, history>>

(* The first task of an import job, with the configuration of its           *)
(* environment: TestUsername is the first administrator, and without one    *)
(* everybody is mailed, whatever DIGEST_ADMIN_ONLY says.                    *)
sendDigests(r) == Begin(r, IF AdminOnly THEN FirstAdmin ELSE Nobody)

(* The button: the administrator is the only one to be mailed. *)
adminDigestSend(r) == Admin \in active /\ Begin(r, Admin)

(* Wrong variant: weekly_digest is not in the WHERE clause. *)
ListEveryActive == active

ListDigestTenants == active \cap weekly

(* The age of the last digest at the time the run began. *)
AgeFor(r, t) == IF today = day[r] THEN lastSent[t] ELSE lastSent[t] - 1

(* Wrong variant: the cooldown is not looked at. *)
DueRecent(r, t) ==
    IF only[r] = Nobody THEN digestDay[t] = day[r] ELSE t = only[r]

(* The loop of Run, up to the call of sendDigest, decides by the list, by   *)
(* the configuration and by the time at which the run began only.           *)
Due(r, t) ==
    /\ IF only[r] = Nobody THEN digestDay[t] = day[r] ELSE t = only[r]
    /\ AgeFor(r, t) >= Cooldown

List(r) ==
    /\ pc[r] = "list"
    /\ due' = [due EXCEPT ![r] = {t \in ListDigestTenants : Due(r, t)}]
    /\ Goto(r, "loop")
    /\ unseen' = [unseen EXCEPT ![r] = {t \in due'[r] : since[t] < lastSent[t]}]
    /\ stopped' = [stopped EXCEPT ![r] = {}]
    /\ spared' = [spared EXCEPT ![r] = Tenant \ {t \in active \cap weekly : digestDay[t] = day[r]}]
    /\ UNCHANGED <<today, tenants, lastSent, only, day, at, since>>

(* Wrong variant: the time is recorded before the mail is sent. *)
SendDigestRecords(r, t) ==
    /\ pc[r] = "loop" /\ t \in due[r]
    /\ due' = [due EXCEPT ![r] = @ \ {t}]
    /\ at' = [at EXCEPT ![r] = t]
    /\ lastSent' = [lastSent EXCEPT ![t] = 0]
    /\ Goto(r, "send")
    /\ UNCHANGED <<today, tenants, only, day, history>>

(* sendDigest scopes a connection to the tenant, reads its signals and its  *)
(* portfolio and writes the texts.                                          *)
SendDigest(r, t) ==
    /\ pc[r] = "loop" /\ t \in due[r]
    /\ due' = [due EXCEPT ![r] = @ \ {t}]
    /\ at' = [at EXCEPT ![r] = t]
    /\ Goto(r, "send")
    /\ UNCHANGED <<today, tenants, lastSent, only, day, history>>

(* sendDigest returns to the loop. *)
Returns(r) == at' = [at EXCEPT ![r] = Nobody] /\ Goto(r, "loop")

(* Nothing was sent: no connection, a failing query, no signals and no      *)
(* portfolio, or an error of the mail service.                              *)
NotSent(r) ==
    /\ pc[r] = "send"
    /\ Returns(r)
    /\ spared' = [spared EXCEPT ![r] = @ \cup {at[r]}]
    /\ UNCHANGED <<today, tenants, lastSent, only, day, due, since, unseen, stopped>>

(* The tenants that a run may still mail. *)
ToMail(r) == due[r] \cup (IF pc[r] = "send" THEN {at[r]} ELSE {})

Delivered(r, t) ==
    /\ since' = [since EXCEPT ![t] = 0]
    /\ unseen' = [q \in Run |-> IF q = r THEN unseen[q] \ {t}
                                ELSE unseen[q] \cup (ToMail(q) \cap {t})]

(* The mail service takes the message.  Its answer may be lost: the call    *)
(* times out and the message is delivered all the same.                     *)
SendEmail(r) ==
    /\ pc[r] = "send"
    /\ Delivered(r, at[r])
    /\ \/ Goto(r, "record") /\ UNCHANGED at
       \/ Returns(r)
    /\ UNCHANGED <<today, tenants, lastSent, only, day, due, stopped, spared>>

(* A failing update is logged, and the digest counts as sent. *)
UpdateDigestLastSent(r) ==
    /\ pc[r] = "record"
    /\ \/ lastSent' = [lastSent EXCEPT ![at[r]] = 0]
       \/ UNCHANGED lastSent
    /\ Returns(r)
    /\ UNCHANGED <<today, tenants, only, day, due, history>>

(* What a run knew is gone with it. *)
Idle(r) ==
    /\ Goto(r, "idle")
    /\ only' = [only EXCEPT ![r] = Nobody]
    /\ day' = [day EXCEPT ![r] = 0]
    /\ due' = [due EXCEPT ![r] = {}]
    /\ at' = [at EXCEPT ![r] = Nobody]
    /\ unseen' = [unseen EXCEPT ![r] = {}]
    /\ stopped' = [stopped EXCEPT ![r] = {}]
    /\ spared' = [spared EXCEPT ![r] = {}]

RunEnds(r) ==
    /\ pc[r] = "loop" /\ due[r] = {}
    /\ Idle(r)
    /\ UNCHANGED <<today, tenants, lastSent, since>>

(* The list cannot be read, the context is cancelled (the deadline of the   *)
(* task, an administrator who closes the page), or the process dies.        *)
RunStops(r) ==
    /\ pc[r] # "idle"
    /\ Idle(r)
    /\ UNCHANGED <<today, tenants, lastSent, since>>

-----------------------------------------------------------------------------
(* Meanwhile. *)

Qualifies(t) == t \in active \cap weekly

Change == changes < MaxChanges /\ changes' = changes + 1

Leaves(t) == stopped' = [r \in Run |-> stopped[r] \cup (ToMail(r) \cap {t})]

(* The toggle of the settings page. *)
digestToggleHandler(t, enabled) ==
    /\ Change
    /\ t \in active
    /\ weekly' = IF enabled THEN weekly \cup {t} ELSE weekly \ {t}
    /\ IF enabled THEN UNCHANGED stopped ELSE Leaves(t)
    /\ UNCHANGED <<today, active, lastSent, pc, only, day, due, at, since, unseen, spared>>

(* The link of a mail needs no session: the token is the HMAC of the id. *)
digestUnsubscribeHandler(t) ==
    /\ Change
    /\ weekly' = weekly \ {t}
    /\ Leaves(t)
    /\ UNCHANGED <<today, active, lastSent, pc, only, day, due, at, since, unseen, spared>>

(* UpdateStatus of the administrators. *)
UpdateStatus(t) ==
    /\ Change
    /\ active' = IF t \in active THEN active \ {t} ELSE active \cup {t}
    /\ IF t \in active THEN Leaves(t) ELSE UNCHANGED stopped
    /\ UNCHANGED <<today, weekly, lastSent, pc, only, day, due, at, since, unseen, spared>>

Older(age) == IF age < Old THEN age + 1 ELSE age

Tomorrow == IF today = Week - 1 THEN 0 ELSE today + 1

(* Midnight.  A run lasts less than a day: the deadline of the task ends it *)
(* long before.                                                             *)
Midnight ==
    /\ \A r \in Run : pc[r] = "idle" \/ day[r] = today
    /\ today' = Tomorrow
    /\ lastSent' = [t \in Tenant |-> Older(lastSent[t])]
    /\ since' = [t \in Tenant |-> Older(since[t])]
    /\ UNCHANGED <<tenants, pc, only, day, due, at, unseen, stopped, spared>>

RunStep(r) ==
    \/ List(r) \/ NotSent(r) \/ SendEmail(r) \/ UpdateDigestLastSent(r)
    \/ RunEnds(r)
    \/ \E t \in Tenant : SendDigest(r, t)

Next ==
    \/ \E r \in Run : sendDigests(r) \/ adminDigestSend(r) \/ RunStep(r) \/ RunStops(r)
    \/ \E t \in Tenant : \/ \E enabled \in BOOLEAN : digestToggleHandler(t, enabled)
                         \/ digestUnsubscribeHandler(t)
                         \/ UpdateStatus(t)
    \/ Midnight

Spec == Init /\ [][Next]_vars

-----------------------------------------------------------------------------
(* The types of the subscriptions and of the runs; a run has a tenant at    *)
(* hand exactly while it is inside sendDigest.                              *)
TypeOK ==
    /\ today \in 0 .. Week - 1
    /\ active \subseteq Tenant /\ weekly \subseteq Tenant
    /\ changes \in 0 .. MaxChanges
    /\ lastSent \in [Tenant -> Ages] /\ since \in [Tenant -> Ages]
    /\ pc \in [Run -> {"idle", "list", "loop", "send", "record"}]
    /\ only \in [Run -> {Nobody, Admin}]
    /\ day \in [Run -> 0 .. Week - 1]
    /\ at \in [Run -> Tenant \cup {Nobody}]
    /\ \A r \in Run : (at[r] # Nobody) <=> (pc[r] \in {"send", "record"})
    /\ due \in [Run -> SUBSET Tenant] /\ unseen \in [Run -> SUBSET Tenant]
    /\ stopped \in [Run -> SUBSET Tenant] /\ spared \in [Run -> SUBSET Tenant]

(* A mail goes out. *)
Mails(r, t) == pc[r] = "send" /\ at[r] = t /\ since' = [since EXCEPT ![t] = 0]

(* A tenant is mailed again within the cooldown only by a run whose list    *)
(* could not show the earlier mail: the time had not been recorded (the     *)
(* update failed, the process died, the answer was lost), or another run    *)
(* sent the mail after this one had read the list.                          *)
OncePerCooldown ==
    [][\A r \in Run, t \in Tenant :
          Mails(r, t) /\ t \notin unseen[r] => since[t] >= Cooldown]_vars

(* A tenant who unsubscribed or was suspended is mailed only by a run that  *)
(* had read its list before.                                                *)
UnsubscribedIsLeftAlone ==
    [][\A r \in Run, t \in Tenant : Mails(r, t) /\ ~Qualifies(t) => t \in stopped[r]]_vars

(* When a run for everybody comes to its end, each tenant whose day it was  *)
(* and who was listed has had a digest within the week, unless this         *)
(* run's own attempt failed or had no content: the recorded time never      *)
(* stands for a mail that was not sent.                                     *)
NobodyIsSkipped ==
    [][\A r \in Run : pc[r] = "loop" /\ due[r] = {} /\ pc'[r] = "idle" /\ only[r] = Nobody
          => \A t \in Tenant \ spared[r] : since[t] <= Cooldown + 1]_vars
=============================================================================
