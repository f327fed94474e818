---------------------------- MODULE DigestProofs -----------------------------
(***************************************************************************)
(* Proofs for Digest: types, and the three promises of the digest, for any *)
(* number of overlapping runs, any tenants and weekdays, any cooldown and  *)
(* any number of failures and changes.                                     *)
(***************************************************************************)
EXTENDS Digest, TLAPS

USE DigestAssumption

-----------------------------------------------------------------------------
(* The steps of Next: the two ways to begin a run and the two ways to end   *)
(* one are the same to every invariant.                                     *)
Changes(t) ==
    \/ \E enabled \in BOOLEAN : digestToggleHandler(t, enabled)
    \/ digestUnsubscribeHandler(t)
    \/ UpdateStatus(t)

LEMMA Steps ==
  ASSUME Next
  PROVE  \/ \E r \in Run, u \in {Nobody, Admin} : Begin(r, u)
         \/ \E r \in Run : Idle(r) /\ UNCHANGED <<today, tenants, lastSent, since>>
         \/ \E r \in Run : List(r)
         \/ \E r \in Run, t \in Tenant : SendDigest(r, t)
         \/ \E r \in Run : NotSent(r) \/ SendEmail(r) \/ UpdateDigestLastSent(r)
         \/ \E t \in Tenant : Changes(t)
         \/ Midnight
<1>1. CASE \E r \in Run : sendDigests(r) \/ adminDigestSend(r)
  BY <1>1 DEF sendDigests, adminDigestSend
<1>2. CASE \E r \in Run : RunStep(r) \/ RunStops(r)
  BY <1>2 DEF RunStep, RunEnds, RunStops
<1>3. CASE \E t \in Tenant : Changes(t)
  BY <1>3
<1> QED BY <1>1, <1>2, <1>3 DEF Next, Changes

-----------------------------------------------------------------------------
(* Types *)

LEMMA TypeInit == Init => TypeOK
BY DEF Init, TypeOK, Ages, Old

LEMMA BeginType ==
  ASSUME TypeOK, NEW r \in Run, NEW u \in {Nobody, Admin}, Begin(r, u)
  PROVE  TypeOK'
BY DEF TypeOK, Begin, Goto, tenants, history

LEMMA IdleType ==
  ASSUME TypeOK, NEW r \in Run, Idle(r), UNCHANGED <<today, tenants, lastSent, since>>
  PROVE  TypeOK'
BY DEF TypeOK, Idle, Goto, tenants

LEMMA ListType ==
  ASSUME TypeOK, NEW r \in Run, List(r)
  PROVE  TypeOK'
BY DEF TypeOK, List, Goto, tenants, ListDigestTenants

LEMMA SendDigestType ==
  ASSUME TypeOK, NEW r \in Run, NEW t \in Tenant, SendDigest(r, t)
  PROVE  TypeOK'
BY DEF TypeOK, SendDigest, Goto, tenants, history

LEMMA NotSentType ==
  ASSUME TypeOK, NEW r \in Run, NotSent(r)
  PROVE  TypeOK'
<1>1. at[r] \in Tenant
  BY DEF TypeOK, NotSent
<1> QED BY <1>1 DEF TypeOK, NotSent, Returns, Goto, tenants

LEMMA SendEmailType ==
  ASSUME TypeOK, NEW r \in Run, SendEmail(r)
  PROVE  TypeOK'
<1>1. at[r] \in Tenant /\ 0 \in Ages
  BY DEF TypeOK, SendEmail, Ages, Old
<1>2. since' \in [Tenant -> Ages] /\ unseen' \in [Run -> SUBSET Tenant]
  BY <1>1 DEF TypeOK, SendEmail, Delivered, ToMail
<1>3. CASE Goto(r, "record") /\ UNCHANGED at
  BY <1>2, <1>3 DEF TypeOK, SendEmail, Goto, tenants
<1>4. CASE Returns(r)
  BY <1>2, <1>4 DEF TypeOK, SendEmail, Returns, Goto, tenants
<1> QED BY <1>3, <1>4 DEF SendEmail

LEMMA RecordType ==
  ASSUME TypeOK, NEW r \in Run, UpdateDigestLastSent(r)
  PROVE  TypeOK'
<1>1. at[r] \in Tenant /\ 0 \in Ages
  BY DEF TypeOK, UpdateDigestLastSent, Ages, Old
<1>2. lastSent' \in [Tenant -> Ages]
  BY <1>1 DEF TypeOK, UpdateDigestLastSent
<1> QED BY <1>2 DEF TypeOK, UpdateDigestLastSent, Returns, Goto, tenants, history

LEMMA ChangeType ==
  ASSUME TypeOK, NEW t \in Tenant, Changes(t)
  PROVE  TypeOK'
<1>1. stopped' \in [Run -> SUBSET Tenant] /\ changes' \in 0 .. MaxChanges
  BY DEF Changes, TypeOK, digestToggleHandler, digestUnsubscribeHandler, UpdateStatus, Leaves, ToMail, Change
<1>2. active' \subseteq Tenant /\ weekly' \subseteq Tenant
  BY DEF Changes, TypeOK, digestToggleHandler, digestUnsubscribeHandler, UpdateStatus
<1>3. UNCHANGED <<today, lastSent, pc, only, day, due, at, since, unseen, spared>>
  BY DEF Changes, digestToggleHandler, digestUnsubscribeHandler, UpdateStatus
<1> QED BY <1>1, <1>2, <1>3 DEF TypeOK

LEMMA OlderAge == \A a \in Ages : Older(a) \in Ages /\ Older(a) >= a /\ Older(a) <= a + 1
BY DEF Ages, Old, Older

LEMMA MidnightType ==
  ASSUME TypeOK, Midnight
  PROVE  TypeOK'
<1>1. today' \in 0 .. Week - 1
  BY DEF TypeOK, Midnight, Tomorrow
<1>2. lastSent' \in [Tenant -> Ages] /\ since' \in [Tenant -> Ages]
  BY OlderAge DEF TypeOK, Midnight
<1> QED BY <1>1, <1>2 DEF TypeOK, Midnight, tenants

LEMMA TypeStep == TypeOK /\ [Next]_vars => TypeOK'
<1> SUFFICES ASSUME TypeOK, [Next]_vars PROVE TypeOK'
  OBVIOUS
<1>1. CASE UNCHANGED vars
  BY <1>1 DEF vars, tenants, history, TypeOK
<1>2. CASE Next
  BY <1>2, Steps, BeginType, IdleType, ListType, SendDigestType, NotSentType, SendEmailType,
     RecordType, ChangeType, MidnightType
<1> QED BY <1>1, <1>2

(* The rows, the subscriptions and the local state of every run keep their  *)
(* types, and a run has a tenant at hand exactly inside sendDigest.         *)
THEOREM TypeCorrect == Spec => []TypeOK
BY TypeInit, TypeStep, PTL DEF Spec

-----------------------------------------------------------------------------
(* What a run may still do *)

(* The tenant at hand has left the list of the run, so that no run mails a  *)
(* tenant twice.                                                            *)
AtHandInv == \A r \in Run : pc[r] \in {"send", "record"} => at[r] \notin due[r]

(* A tenant still to be mailed had no mail within the cooldown, but for one *)
(* the list could not show.                                                 *)
CooldownInv == \A r \in Run : \A t \in ToMail(r) \ unseen[r] : since[t] >= Cooldown

(* A tenant still to be mailed qualifies, or stopped to after the list.     *)
StoppedInv == \A r \in Run : \A t \in ToMail(r) : Qualifies(t) \/ t \in stopped[r]

(* A run outlives at most one midnight.  The recorded time is at most that  *)
(* of the last mail, but for the midnight between the mail and the record.  *)
Late(r) == IF today = day[r] THEN 0 ELSE 1

RecordInv ==
    /\ \A t \in Tenant : since[t] <= lastSent[t] + 1
    /\ \A r \in Run : pc[r] = "record" => since[at[r]] <= Late(r)

(* Whom a run for everybody has passed over, or is done with.               *)
SkippedInv ==
    \A r \in Run : pc[r] \in {"loop", "send", "record"} /\ only[r] = Nobody
        => \A t \in Tenant \ (spared[r] \cup ToMail(r)) : since[t] <= Cooldown + Late(r)

DigestInv ==
    TypeOK /\ AtHandInv /\ CooldownInv /\ StoppedInv /\ RecordInv /\ SkippedInv

LEMMA InvInit == Init => DigestInv
<1> SUFFICES ASSUME Init PROVE DigestInv
  OBVIOUS
<1>1. TypeOK
  BY TypeInit
<1>2. \A r \in Run : pc[r] = "idle" /\ ToMail(r) = {}
  BY DEF Init, ToMail
<1>3. RecordInv
  BY <1>2, <1>1 DEF Init, RecordInv, Old
<1> QED BY <1>1, <1>2, <1>3 DEF DigestInv, AtHandInv, CooldownInv, StoppedInv, SkippedInv

LEMMA BeginInv ==
  ASSUME DigestInv, NEW r \in Run, NEW u \in {Nobody, Admin}, Begin(r, u)
  PROVE  AtHandInv' /\ CooldownInv' /\ StoppedInv' /\ RecordInv' /\ SkippedInv'
<1>1. /\ UNCHANGED <<today, active, weekly, lastSent, since, due, at, unseen, stopped, spared>>
      /\ pc' = [pc EXCEPT ![r] = "list"] /\ pc[r] = "idle"
      /\ \A q \in Run \ {r} : pc'[q] = pc[q] /\ day'[q] = day[q] /\ only'[q] = only[q]
  BY DEF Begin, Goto, tenants, history, DigestInv, TypeOK
<1>2. pc'[r] = "list"
  BY <1>1 DEF DigestInv, TypeOK
<1>3. \A q \in Run : ToMail(q)' = ToMail(q)
  BY <1>1, <1>2 DEF ToMail
<1> QED
  BY <1>1, <1>2, <1>3 DEF DigestInv, AtHandInv, CooldownInv, StoppedInv, RecordInv, SkippedInv,
     Qualifies, Late

LEMMA IdleInv ==
  ASSUME DigestInv, NEW r \in Run, Idle(r), UNCHANGED <<today, tenants, lastSent, since>>
  PROVE  AtHandInv' /\ CooldownInv' /\ StoppedInv' /\ RecordInv' /\ SkippedInv'
<1>1. /\ UNCHANGED <<today, active, weekly, lastSent, since>>
      /\ pc'[r] = "idle" /\ due'[r] = {}
      /\ \A q \in Run \ {r} : /\ pc'[q] = pc[q] /\ day'[q] = day[q] /\ only'[q] = only[q]
                              /\ due'[q] = due[q] /\ at'[q] = at[q] /\ unseen'[q] = unseen[q]
                              /\ stopped'[q] = stopped[q] /\ spared'[q] = spared[q]
  BY DEF Idle, Goto, tenants, DigestInv, TypeOK
<1>2. ToMail(r)' = {} /\ \A q \in Run \ {r} : ToMail(q)' = ToMail(q)
  BY <1>1 DEF ToMail
<1> QED
  BY <1>1, <1>2 DEF DigestInv, AtHandInv, CooldownInv, StoppedInv, RecordInv, SkippedInv,
     Qualifies, Late

LEMMA ListInv ==
  ASSUME DigestInv, NEW r \in Run, List(r)
  PROVE  AtHandInv' /\ CooldownInv' /\ StoppedInv' /\ RecordInv' /\ SkippedInv'
<1>1. /\ UNCHANGED <<today, active, weekly, lastSent, since, at, only, day>>
      /\ pc'[r] = "loop" /\ stopped'[r] = {}
      /\ due'[r] = {t \in active \cap weekly : Due(r, t)}
      /\ unseen'[r] = {t \in due'[r] : since[t] < lastSent[t]}
      /\ spared'[r] = Tenant \ {t \in active \cap weekly : digestDay[t] = day[r]}
      /\ \A q \in Run \ {r} : /\ pc'[q] = pc[q] /\ due'[q] = due[q] /\ unseen'[q] = unseen[q]
                              /\ stopped'[q] = stopped[q] /\ spared'[q] = spared[q]
  BY DEF List, Goto, tenants, ListDigestTenants, DigestInv, TypeOK
<1>2. ToMail(r)' = due'[r] /\ \A q \in Run \ {r} : ToMail(q)' = ToMail(q)
  BY <1>1 DEF ToMail
<1>3. \A t \in Tenant : lastSent[t] \in Nat /\ since[t] \in Nat
  BY DEF DigestInv, TypeOK, Ages, Old
<1>4. \A t \in due'[r] : t \in Tenant /\ lastSent[t] >= Cooldown
  BY <1>1, <1>3 DEF Due, AgeFor, DigestInv, TypeOK
<1>5. \A t \in due'[r] \ unseen'[r] : since[t] >= Cooldown
  BY <1>1, <1>3, <1>4
<1>6. ASSUME only[r] = Nobody, NEW t \in Tenant, t \notin spared'[r], t \notin due'[r]
      PROVE  since[t] <= Cooldown + Late(r)
  <2>1. ~Due(r, t) /\ digestDay[t] = day[r]
    BY <1>1, <1>6
  <2>2. AgeFor(r, t) < Cooldown
    BY <2>1, <1>3, <1>6 DEF Due, AgeFor
  <2> QED BY <2>2, <1>3 DEF AgeFor, Late, DigestInv, RecordInv
<1>7. AtHandInv' /\ RecordInv'
  BY <1>1 DEF DigestInv, AtHandInv, RecordInv, Late
<1>8. CooldownInv'
  BY <1>1, <1>2, <1>5 DEF DigestInv, CooldownInv
<1>9. StoppedInv'
  BY <1>1, <1>2 DEF DigestInv, StoppedInv, Qualifies
<1>10. SkippedInv'
  <2> SUFFICES ASSUME NEW q \in Run, pc'[q] \in {"loop", "send", "record"}, only'[q] = Nobody,
                      NEW t \in Tenant, t \notin spared'[q], t \notin ToMail(q)'
               PROVE  since'[t] <= Cooldown + Late(q)'
    BY DEF SkippedInv
  <2>1. CASE q = r
    BY <2>1, <1>1, <1>2, <1>6 DEF Late
  <2>2. CASE q # r
    BY <2>2, <1>1, <1>2 DEF Late, DigestInv, SkippedInv
  <2> QED BY <2>1, <2>2
<1> QED BY <1>7, <1>8, <1>9, <1>10

LEMMA SendDigestInv ==
  ASSUME DigestInv, NEW r \in Run, NEW t \in Tenant, SendDigest(r, t)
  PROVE  AtHandInv' /\ CooldownInv' /\ StoppedInv' /\ RecordInv' /\ SkippedInv'
<1>1. /\ UNCHANGED <<today, active, weekly, lastSent, since, only, day, unseen, stopped, spared>>
      /\ pc[r] = "loop" /\ t \in due[r]
      /\ pc'[r] = "send" /\ due'[r] = due[r] \ {t} /\ at'[r] = t
      /\ \A q \in Run \ {r} : pc'[q] = pc[q] /\ due'[q] = due[q] /\ at'[q] = at[q]
  BY DEF SendDigest, Goto, tenants, history, DigestInv, TypeOK
<1>2. \A q \in Run : ToMail(q)' = ToMail(q)
  BY <1>1 DEF ToMail
<1> QED
  BY <1>1, <1>2 DEF DigestInv, AtHandInv, CooldownInv, StoppedInv, RecordInv, SkippedInv,
     Qualifies, Late

LEMMA NotSentInv ==
  ASSUME DigestInv, NEW r \in Run, NotSent(r)
  PROVE  AtHandInv' /\ CooldownInv' /\ StoppedInv' /\ RecordInv' /\ SkippedInv'
<1>1. /\ UNCHANGED <<today, active, weekly, lastSent, since, only, day, due, unseen, stopped>>
      /\ pc[r] = "send" /\ pc'[r] = "loop" /\ spared'[r] = spared[r] \cup {at[r]}
      /\ \A q \in Run \ {r} : pc'[q] = pc[q] /\ at'[q] = at[q] /\ spared'[q] = spared[q]
  BY DEF NotSent, Returns, Goto, tenants, DigestInv, TypeOK
<1>2. ToMail(r)' = due[r] /\ \A q \in Run \ {r} : ToMail(q)' = ToMail(q)
  BY <1>1 DEF ToMail
<1>3. ToMail(r) = due[r] \cup {at[r]}
  BY <1>1 DEF ToMail
<1> QED
  BY <1>1, <1>2, <1>3 DEF DigestInv, AtHandInv, CooldownInv, StoppedInv, RecordInv, SkippedInv,
     Qualifies, Late

LEMMA SendEmailInv ==
  ASSUME DigestInv, NEW r \in Run, SendEmail(r)
  PROVE  AtHandInv' /\ CooldownInv' /\ StoppedInv' /\ RecordInv' /\ SkippedInv'
<1> DEFINE a == at[r]
<1>1. /\ UNCHANGED <<today, active, weekly, lastSent, only, day, due, stopped, spared>>
      /\ pc[r] = "send" /\ pc'[r] \in {"record", "loop"}
      /\ pc'[r] = "record" => at'[r] = a
      /\ \A q \in Run \ {r} : pc'[q] = pc[q] /\ at'[q] = at[q]
  BY DEF SendEmail, Returns, Goto, tenants, DigestInv, TypeOK
<1>2. a \in Tenant /\ a \notin due[r]
  BY <1>1 DEF DigestInv, TypeOK, AtHandInv
<1>3. /\ since'[a] = 0
      /\ \A t \in Tenant \ {a} : since'[t] = since[t]
      /\ unseen'[r] = unseen[r] \ {a}
      /\ \A q \in Run \ {r} : unseen'[q] = unseen[q] \cup (ToMail(q) \cap {a})
  BY <1>2 DEF SendEmail, Delivered, DigestInv, TypeOK
<1>4. ToMail(r)' = due[r] /\ ToMail(r) = due[r] \cup {a}
  BY <1>1 DEF ToMail
<1>5. \A q \in Run \ {r} : ToMail(q)' = ToMail(q)
  BY <1>1 DEF ToMail
<1>6. \A q \in Run : ToMail(q) \subseteq Tenant
  BY DEF ToMail, DigestInv, TypeOK
<1>7. AtHandInv'
  BY <1>1, <1>2 DEF DigestInv, AtHandInv
<1>8. CooldownInv'
  <2> SUFFICES ASSUME NEW q \in Run, NEW t \in ToMail(q)', t \notin unseen'[q]
               PROVE  since'[t] >= Cooldown
    BY DEF CooldownInv
  <2>1. t \in ToMail(q) /\ t \notin unseen[q] /\ t # a
    BY <1>2, <1>3, <1>4, <1>5
  <2> QED BY <2>1, <1>3, <1>6 DEF DigestInv, CooldownInv
<1>9. StoppedInv'
  BY <1>1, <1>4, <1>5 DEF DigestInv, StoppedInv, Qualifies
<1>10. \A t \in Tenant : since'[t] \in Nat /\ since'[t] <= since[t] /\ lastSent[t] \in Nat
  BY <1>3 DEF DigestInv, TypeOK, Ages, Old
<1>11. \A q \in Run : Late(q)' = Late(q) /\ Late(q) \in {0, 1}
  BY <1>1 DEF Late
<1>12. RecordInv'
  <2>1. \A t \in Tenant : since'[t] <= lastSent'[t] + 1
    BY <1>1, <1>10 DEF DigestInv, RecordInv, TypeOK, Ages, Old
  <2>2. ASSUME NEW q \in Run, pc'[q] = "record"
        PROVE  since'[at'[q]] <= Late(q)'
    <3>1. CASE q = r
      BY <3>1, <2>2, <1>1, <1>3, <1>11
    <3>2. CASE q # r
      <4>1. pc[q] = "record" /\ at'[q] = at[q] /\ at[q] \in Tenant
        BY <3>2, <2>2, <1>1 DEF DigestInv, TypeOK
      <4>2. since[at[q]] <= Late(q) /\ since[at[q]] \in Nat
        BY <4>1 DEF DigestInv, RecordInv, TypeOK, Ages, Old
      <4> QED BY <4>1, <4>2, <1>10, <1>11
    <3> QED BY <3>1, <3>2
  <2> QED BY <2>1, <2>2 DEF RecordInv
<1>13. SkippedInv'
  <2> SUFFICES ASSUME NEW q \in Run, pc'[q] \in {"loop", "send", "record"}, only'[q] = Nobody,
                      NEW t \in Tenant, t \notin spared'[q], t \notin ToMail(q)'
               PROVE  since'[t] <= Cooldown + Late(q)'
    BY DEF SkippedInv
  <2>1. CASE t = a
    BY <2>1, <1>3, <1>11
  <2>2. CASE t # a
    <3>1. /\ pc[q] \in {"loop", "send", "record"} /\ only[q] = Nobody /\ t \notin spared[q]
          /\ t \notin ToMail(q)
      BY <2>2, <1>1, <1>4, <1>5
    <3>2. since[t] <= Cooldown + Late(q) /\ since[t] \in Nat
      BY <3>1 DEF DigestInv, SkippedInv, TypeOK, Ages, Old
    <3> QED BY <3>2, <2>2, <1>3, <1>11
  <2> QED BY <2>1, <2>2
<1> QED BY <1>7, <1>8, <1>9, <1>12, <1>13

LEMMA RecordStepInv ==
  ASSUME DigestInv, NEW r \in Run, UpdateDigestLastSent(r)
  PROVE  AtHandInv' /\ CooldownInv' /\ StoppedInv' /\ RecordInv' /\ SkippedInv'
<1>1. /\ UNCHANGED <<today, active, weekly, since, only, day, due, unseen, stopped, spared>>
      /\ pc[r] = "record" /\ pc'[r] = "loop" /\ at[r] \in Tenant
      /\ \A q \in Run \ {r} : pc'[q] = pc[q] /\ at'[q] = at[q]
  BY DEF UpdateDigestLastSent, Returns, Goto, tenants, history, DigestInv, TypeOK
<1>2. \A q \in Run : ToMail(q)' = ToMail(q)
  BY <1>1 DEF ToMail
<1>3. \A t \in Tenant : \/ lastSent'[t] = lastSent[t]
                        \/ lastSent'[t] = 0 /\ t = at[r]
  BY <1>1 DEF UpdateDigestLastSent, DigestInv, TypeOK
<1>4. since[at[r]] <= 1 /\ \A t \in Tenant : since[t] <= lastSent[t] + 1
  BY <1>1 DEF DigestInv, RecordInv, Late, TypeOK, Ages, Old
<1>5. RecordInv'
  BY <1>1, <1>3, <1>4 DEF DigestInv, RecordInv, Late
<1> QED
  BY <1>1, <1>2, <1>5 DEF DigestInv, AtHandInv, CooldownInv, StoppedInv, SkippedInv,
     Qualifies, Late

LEMMA ChangeInv ==
  ASSUME DigestInv, NEW t \in Tenant, Changes(t)
  PROVE  AtHandInv' /\ CooldownInv' /\ StoppedInv' /\ RecordInv' /\ SkippedInv'
<1>1. UNCHANGED <<today, lastSent, pc, only, day, due, at, since, unseen, spared>>
  BY DEF Changes, digestToggleHandler, digestUnsubscribeHandler, UpdateStatus
<1>2. \A q \in Run : ToMail(q)' = ToMail(q)
  BY <1>1 DEF ToMail
<1>3. \/ /\ \A u \in Tenant : Qualifies(u) => Qualifies(u)'
         /\ stopped' = stopped
      \/ /\ \A u \in Tenant \ {t} : Qualifies(u) => Qualifies(u)'
         /\ Leaves(t)
  BY DEF Changes, digestToggleHandler, digestUnsubscribeHandler, UpdateStatus, Qualifies
<1>4. \A q \in Run : ToMail(q) \subseteq Tenant
  BY DEF ToMail, DigestInv, TypeOK
<1>5. StoppedInv'
  BY <1>2, <1>3, <1>4 DEF DigestInv, StoppedInv, Leaves
<1> QED
  BY <1>1, <1>2, <1>5 DEF DigestInv, AtHandInv, CooldownInv, RecordInv, SkippedInv, Late

LEMMA MidnightInv ==
  ASSUME DigestInv, Midnight
  PROVE  AtHandInv' /\ CooldownInv' /\ StoppedInv' /\ RecordInv' /\ SkippedInv'
<1>1. UNCHANGED <<active, weekly, pc, only, day, due, at, unseen, stopped, spared>>
  BY DEF Midnight, tenants
<1>2. \A q \in Run : ToMail(q)' = ToMail(q) /\ ToMail(q) \subseteq Tenant
  BY <1>1 DEF ToMail, DigestInv, TypeOK
<1>3. \A t \in Tenant : /\ since[t] \in Nat /\ lastSent[t] \in Nat
                        /\ since'[t] \in Nat /\ since[t] <= since'[t] /\ since'[t] <= since[t] + 1
  BY OlderAge DEF Midnight, DigestInv, TypeOK, Ages, Old
<1>4. \A t \in Tenant : since'[t] <= lastSent'[t] + 1
  BY DEF Midnight, DigestInv, RecordInv, TypeOK, Ages, Old, Older
<1>5. today' # today /\ today \in Int /\ today' \in Int
  BY DEF Midnight, Tomorrow, DigestInv, TypeOK
<1>6. \A q \in Run : pc[q] # "idle" => Late(q) = 0 /\ Late(q)' = 1
  BY <1>1, <1>5 DEF Midnight, Late
<1>7. AtHandInv' /\ StoppedInv'
  BY <1>1, <1>2 DEF DigestInv, AtHandInv, StoppedInv, Qualifies
<1>8. CooldownInv'
  BY <1>1, <1>2, <1>3 DEF DigestInv, CooldownInv
<1>9. RecordInv'
  <2>1. ASSUME NEW q \in Run, pc'[q] = "record"
        PROVE  since'[at'[q]] <= Late(q)'
    <3>1. pc[q] = "record" /\ at[q] \in Tenant /\ at'[q] = at[q]
      BY <2>1, <1>1 DEF DigestInv, TypeOK
    <3>2. since[at[q]] <= 0
      BY <3>1, <1>6 DEF DigestInv, RecordInv
    <3> QED BY <3>1, <3>2, <1>3, <1>6
  <2> QED BY <2>1, <1>4 DEF RecordInv
<1>10. SkippedInv'
  <2> SUFFICES ASSUME NEW q \in Run, pc'[q] \in {"loop", "send", "record"}, only'[q] = Nobody,
                      NEW t \in Tenant, t \notin spared'[q], t \notin ToMail(q)'
               PROVE  since'[t] <= Cooldown + Late(q)'
    BY DEF SkippedInv
  <2>1. since[t] <= Cooldown + 0
    BY <1>1, <1>2, <1>6 DEF DigestInv, SkippedInv
  <2> QED BY <2>1, <1>1, <1>3, <1>6
<1> QED BY <1>7, <1>8, <1>9, <1>10

LEMMA InvStep == DigestInv /\ [Next]_vars => DigestInv'
<1> SUFFICES ASSUME DigestInv, [Next]_vars PROVE DigestInv'
  OBVIOUS
<1>1. TypeOK'
  BY TypeStep DEF DigestInv
<1>2. CASE UNCHANGED vars
  BY <1>1, <1>2 DEF vars, tenants, history, DigestInv, AtHandInv, CooldownInv, StoppedInv,
     RecordInv, SkippedInv, ToMail, Qualifies, Late
<1>3. CASE Next
  <2>1. AtHandInv' /\ CooldownInv' /\ StoppedInv' /\ RecordInv' /\ SkippedInv'
    BY <1>3, Steps, BeginInv, IdleInv, ListInv, SendDigestInv, NotSentInv, SendEmailInv,
       RecordStepInv, ChangeInv, MidnightInv
  <2> QED BY <1>1, <2>1 DEF DigestInv
<1> QED BY <1>2, <1>3

LEMMA Invariance == Spec => []DigestInv
BY InvInit, InvStep, PTL DEF Spec

-----------------------------------------------------------------------------
(* The promises *)

(* A tenant is mailed again within the cooldown only by a run whose list    *)
(* could not show the earlier mail (digest.Run, UpdateDigestLastSent).      *)
THEOREM CooldownTheorem == Spec => OncePerCooldown
<1>1. DigestInv => (\A r \in Run, t \in Tenant :
                      Mails(r, t) /\ t \notin unseen[r] => since[t] >= Cooldown)
  BY DEF DigestInv, CooldownInv, ToMail, Mails
<1> QED BY <1>1, Invariance, PTL DEF OncePerCooldown

(* A tenant who unsubscribed or was suspended is mailed only by a run that  *)
(* had read its list before (ListDigestTenants, digestUnsubscribeHandler).  *)
THEOREM UnsubscribedTheorem == Spec => UnsubscribedIsLeftAlone
<1>1. DigestInv => (\A r \in Run, t \in Tenant :
                      Mails(r, t) /\ ~Qualifies(t) => t \in stopped[r])
  BY DEF DigestInv, StoppedInv, ToMail, Mails
<1> QED BY <1>1, Invariance, PTL DEF UnsubscribedIsLeftAlone

(* When a run for everybody ends, each tenant that was listed and whose day *)
(* it was has had a digest within the week, or this run's own attempt       *)
(* failed or had no content (digest.Run).                                   *)
THEOREM NobodyTheorem == Spec => NobodyIsSkipped
<1>1. DigestInv => (\A r \in Run : pc[r] = "loop" /\ due[r] = {} /\ pc'[r] = "idle"
                                     /\ only[r] = Nobody
                      => \A t \in Tenant \ spared[r] : since[t] <= Cooldown + 1)
  <2> SUFFICES ASSUME DigestInv, NEW r \in Run, pc[r] = "loop", due[r] = {}, only[r] = Nobody,
                      NEW t \in Tenant, t \notin spared[r]
               PROVE  since[t] <= Cooldown + 1
    OBVIOUS
  <2>1. t \notin ToMail(r)
    BY DEF ToMail
  <2>2. since[t] <= Cooldown + Late(r) /\ since[t] \in Nat
    BY <2>1 DEF DigestInv, SkippedInv, TypeOK, Ages, Old
  <2> QED BY <2>2 DEF Late
<1> QED BY <1>1, Invariance, PTL DEF NobodyIsSkipped
=============================================================================
