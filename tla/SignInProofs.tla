---------------------------- MODULE SignInProofs -----------------------------
(***************************************************************************)
(* Proofs for SignIn and the limiter it goes through: types, whose session *)
(* a browser has, that signing out is final, which answers take a valid    *)
(* session away, and the number of requests admitted in a window, for any  *)
(* browsers, users, addresses and requests under way and any rate, window, *)
(* number of sign-ins and number of failures.                              *)
(***************************************************************************)
EXTENDS SignIn, FiniteSetTheorems, TLAPS

-----------------------------------------------------------------------------
(* The limiter *)

(* Of two requests the earlier one is not younger. *)
OldestFirst(ages) == \A i, j \in 1 .. Len(ages) : i < j => ages[i] >= ages[j]

(* What the tokens of an address say of the requests it was admitted:      *)
(* every one of them was made when the address was last seen or before, an *)
(* address that is not known has none within the window, and the tokens    *)
(* that are left are the ones that were not used.                          *)
Accounted(v, ages) ==
    /\ OldestFirst(ages)
    /\ v = Nil => Len(ages) = 0
    /\ v # Nil => /\ Len(ages) + v.tokens <= Rate
                  /\ \A k \in 1 .. Len(ages) : ages[k] >= v.seen

LimiterInv ==
    /\ LimiterTypeOK
    /\ \A ip \in Ip : Accounted(visitors[ip], admitted[ip])

Ages == Seq(0 .. Window)

LEMMA LimiterConstants == Rate \in Nat /\ Rate > 0 /\ Window \in Nat /\ Window > 0 /\ Nil \notin Visitor
BY LimiterAssumption

LEMMA AgesType ==
  ASSUME NEW ages \in Ages
  PROVE  /\ Len(ages) \in Nat /\ DOMAIN ages = 1 .. Len(ages)
         /\ \A k \in 1 .. Len(ages) : ages[k] \in 0 .. Window
<1> DEFINE W == 0 .. Window
<1>1. ages \in Seq(W)
  BY DEF Ages
<1> HIDE DEF W
<1>2. Len(ages) \in Nat /\ DOMAIN ages = 1 .. Len(ages) /\ \A k \in 1 .. Len(ages) : ages[k] \in W
  BY <1>1
<1> QED BY <1>2 DEF W

LEMMA IntervalCount ==
  ASSUME NEW a \in Int, NEW b \in Int, a <= b + 1
  PROVE  IsFiniteSet(a .. b) /\ Cardinality(a .. b) = b - a + 1
<1>1. IsFiniteSet(a .. b) /\ Cardinality(a .. b) = IF a > b THEN 0 ELSE b - a + 1
  BY FS_Interval, Zenon
<1> QED BY <1>1

LEMMA StillRecentBounds ==
  ASSUME NEW ages \in Ages
  PROVE  /\ StillRecent(ages) \in Nat
         /\ StillRecent(ages) <= Len(ages)
         /\ (\A k \in 1 .. Len(ages) : ages[k] >= Window) => StillRecent(ages) = 0
<1> DEFINE R == {k \in DOMAIN ages : ages[k] < Window}
<1>1. DOMAIN ages = 1 .. Len(ages) /\ Len(ages) \in Nat
  BY DEF Ages
<1>2. IsFiniteSet(1 .. Len(ages)) /\ Cardinality(1 .. Len(ages)) = Len(ages)
  BY <1>1, IntervalCount
<1>3. R \in SUBSET (1 .. Len(ages))
  BY <1>1
<1>4. IsFiniteSet(R) /\ Cardinality(R) <= Len(ages) /\ Cardinality(R) \in Nat
  <2>1. IsFiniteSet(R) /\ Cardinality(R) <= Cardinality(1 .. Len(ages))
    BY <1>2, <1>3, FS_Subset
  <2> QED BY <2>1, <1>2, FS_CardinalityType
<1>5. ASSUME \A k \in 1 .. Len(ages) : ages[k] >= Window PROVE Cardinality(R) = 0
  <2>1. \A k \in 1 .. Len(ages) : ages[k] \in 0 .. Window
    BY AgesType
  <2>2. R = {}
    BY <1>5, <1>1, <2>1, LimiterConstants
  <2> QED BY <2>2, FS_EmptySet
<1> QED BY <1>4, <1>5 DEF StillRecent

(* The requests that are still recent are the last ones of the sequence. *)
LEMMA RecentAreLast ==
  ASSUME NEW ages \in Ages, OldestFirst(ages),
         NEW j \in 1 .. Len(ages), j > Len(ages) - StillRecent(ages)
  PROVE  ages[j] < Window
<1> DEFINE R == {k \in DOMAIN ages : ages[k] < Window}
<1>1. DOMAIN ages = 1 .. Len(ages) /\ Len(ages) \in Nat
  BY DEF Ages
<1>2. \A k \in 1 .. Len(ages) : ages[k] \in 0 .. Window
  BY AgesType
<1> SUFFICES ASSUME ages[j] >= Window PROVE FALSE
  BY <1>2, LimiterConstants
<1>3. \A k \in 1 .. Len(ages) : k <= j => ages[k] >= Window
  BY <1>2, LimiterConstants DEF OldestFirst
<1>4. R \in SUBSET ((j + 1) .. Len(ages))
  BY <1>1, <1>2, <1>3, LimiterConstants
<1>5. /\ IsFiniteSet((j + 1) .. Len(ages))
      /\ Cardinality((j + 1) .. Len(ages)) = Len(ages) - (j + 1) + 1
  BY <1>1, IntervalCount
<1>6. Cardinality(R) <= Cardinality((j + 1) .. Len(ages))
  BY <1>4, <1>5, FS_Subset
<1>7. Cardinality((j + 1) .. Len(ages)) = Len(ages) - j
  BY <1>5, <1>1
<1>8. StillRecent(ages) <= Len(ages) - j
  BY <1>6, <1>7 DEF StillRecent
<1> QED BY <1>8, <1>1, StillRecentBounds

(* A tick keeps the order, makes every request that stays one tick older,  *)
(* and keeps none that was at the end of the window.                       *)
LEMMA AgedAges ==
  ASSUME NEW ages \in Ages, OldestFirst(ages)
  PROVE  /\ Aged(ages) \in Ages
         /\ OldestFirst(Aged(ages))
         /\ Len(Aged(ages)) = StillRecent(ages)
         /\ \A k \in 1 .. StillRecent(ages) :
               \E l \in 1 .. Len(ages) : ages[l] < Window /\ Aged(ages)[k] = ages[l] + 1
<1> DEFINE n == StillRecent(ages)
           o == Len(ages) - n
<1>1. DOMAIN ages = 1 .. Len(ages) /\ Len(ages) \in Nat
  BY DEF Ages
<1>2. \A k \in 1 .. Len(ages) : ages[k] \in 0 .. Window
  BY AgesType
<1>3. n \in Nat /\ n <= Len(ages) /\ o \in Nat
  BY <1>1, StillRecentBounds
<1>4. \A k \in 1 .. n : o + k \in 1 .. Len(ages) /\ o + k > Len(ages) - n
  BY <1>1, <1>3
<1>5. \A k \in 1 .. n : ages[o + k] < Window
  BY <1>4, RecentAreLast
<1>6. Aged(ages) = [k \in 1 .. n |-> ages[o + k] + 1]
  BY DEF Aged
<1> HIDE DEF n, o
<1>7. \A k \in 1 .. n : ages[o + k] + 1 \in 0 .. Window
  BY <1>2, <1>4, <1>5, LimiterConstants
<1>8. Aged(ages) \in Seq(0 .. Window) /\ Len(Aged(ages)) = n
  BY <1>3, <1>6, <1>7
<1>9. \A i, j \in 1 .. n : i < j => Aged(ages)[i] >= Aged(ages)[j]
  <2> SUFFICES ASSUME NEW i \in 1 .. n, NEW j \in 1 .. n, i < j
               PROVE  Aged(ages)[i] >= Aged(ages)[j]
    OBVIOUS
  <2>1. ages[o + i] >= ages[o + j]
    BY <1>3, <1>4 DEF OldestFirst
  <2> QED BY <2>1, <1>2, <1>4, <1>6
<1>10. \A k \in 1 .. n : \E l \in 1 .. Len(ages) : ages[l] < Window /\ Aged(ages)[k] = ages[l] + 1
  BY <1>4, <1>5, <1>6
<1> QED BY <1>8, <1>9, <1>10 DEF Ages, OldestFirst, n

LEMMA LimiterInitially == LimiterInit => LimiterInv
<1> SUFFICES ASSUME LimiterInit PROVE LimiterInv
  OBVIOUS
<1>1. <<>> \in Ages /\ Len(<<>>) = 0
  BY LimiterConstants DEF Ages
<1> QED BY <1>1 DEF LimiterInit, LimiterInv, LimiterTypeOK, Accounted, OldestFirst, Ages

(* An address that starts again has no request within the window. *)
LEMMA FreshIsEmpty ==
  ASSUME LimiterInv, NEW ip \in Ip, Fresh(ip)
  PROVE  Len(admitted[ip]) = 0
<1>1. Accounted(visitors[ip], admitted[ip]) /\ admitted[ip] \in Seq(0 .. Window)
      /\ visitors[ip] \in Visitor \cup {Nil}
  BY DEF LimiterInv, LimiterTypeOK
<1>2. CASE visitors[ip] = Nil
  BY <1>1, <1>2 DEF Accounted
<1>3. CASE visitors[ip] # Nil
  <2>1. visitors[ip].seen > Window /\ visitors[ip].seen \in Nat
    BY <1>1, <1>3, LimiterConstants DEF Fresh, Visitor, Forgotten
  <2>2. \A k \in 1 .. Len(admitted[ip]) : admitted[ip][k] >= visitors[ip].seen
    BY <1>1, <1>3 DEF Accounted
  <2>3. \A k \in 1 .. Len(admitted[ip]) : admitted[ip][k] \in 0 .. Window
    BY <1>1, AgesType DEF Ages
  <2>4. Len(admitted[ip]) \in Nat
    BY <1>1
  <2> QED BY <2>1, <2>2, <2>3, <2>4, LimiterConstants
<1> QED BY <1>2, <1>3

(* A request that was just admitted is the youngest. *)
LEMMA AppendAges ==
  ASSUME NEW ages \in Ages, OldestFirst(ages)
  PROVE  /\ Append(ages, 0) \in Ages /\ OldestFirst(Append(ages, 0))
         /\ Len(Append(ages, 0)) = Len(ages) + 1
         /\ \A k \in 1 .. Len(Append(ages, 0)) : Append(ages, 0)[k] >= 0
<1>1. Len(ages) \in Nat /\ \A k \in 1 .. Len(ages) : ages[k] \in 0 .. Window
  BY AgesType
<1>2. Append(ages, 0) \in Seq(0 .. Window) /\ Len(Append(ages, 0)) = Len(ages) + 1
  BY LimiterConstants DEF Ages
<1>3. \A k \in 1 .. Len(ages) + 1 :
         Append(ages, 0)[k] = IF k = Len(ages) + 1 THEN 0 ELSE ages[k]
  BY <1>1 DEF Ages
<1>4. \A k \in 1 .. Len(ages) + 1 : Append(ages, 0)[k] \in 0 .. Window
  BY <1>1, <1>3, LimiterConstants
<1>5. ASSUME NEW i \in 1 .. Len(ages) + 1, NEW j \in 1 .. Len(ages) + 1, i < j
      PROVE  Append(ages, 0)[i] >= Append(ages, 0)[j]
  <2>1. CASE j = Len(ages) + 1
    BY <2>1, <1>3, <1>4
  <2>2. CASE j # Len(ages) + 1
    BY <2>2, <1>1, <1>3, <1>5 DEF OldestFirst
  <2> QED BY <2>1, <2>2
<1> QED BY <1>2, <1>4, <1>5 DEF Ages, OldestFirst

LEMMA AllowStep ==
  ASSUME LimiterInv, NEW ip \in Ip, allow(ip)
  PROVE  LimiterInv'
<1> DEFINE w(n) == [tokens |-> n, seen |-> 0]
<1>1. \A a \in Ip : Accounted(visitors[a], admitted[a]) /\ admitted[a] \in Ages
                    /\ visitors[a] \in Visitor \cup {Nil}
  BY DEF LimiterInv, LimiterTypeOK, Ages
<1>2. PICK n \in 0 .. Rate : LastSeen(ip, n) /\ Len(admitted[ip]) + 1 + n <= Rate
  <2>1. CASE Fresh(ip) /\ LastSeen(ip, Rate - 1)
    BY <2>1, FreshIsEmpty, LimiterConstants
  <2>2. CASE ~Fresh(ip) /\ visitors[ip].tokens > 0 /\ LastSeen(ip, visitors[ip].tokens - 1)
    <3>1. visitors[ip] # Nil
      BY <2>2 DEF Fresh
    <3>2. visitors[ip].tokens \in 0 .. Rate /\ Len(admitted[ip]) + visitors[ip].tokens <= Rate
      BY <3>1, <1>1 DEF Accounted, Visitor
    <3>3. Len(admitted[ip]) \in Nat
      BY <1>1 DEF Ages
    <3> QED BY <3>2, <3>3, <2>2, LimiterConstants
  <2> QED BY <2>1, <2>2 DEF allow
<1>3. visitors' = [visitors EXCEPT ![ip] = w(n)] /\ admitted' = [admitted EXCEPT ![ip] = Append(@, 0)]
  BY <1>2 DEF allow, LastSeen
<1>4. w(n) \in Visitor /\ w(n) # Nil /\ w(n).tokens = n /\ w(n).seen = 0
  BY LimiterConstants DEF Visitor, Forgotten
<1> HIDE DEF w
<1>5. Append(admitted[ip], 0) \in Ages /\ Accounted(w(n), Append(admitted[ip], 0))
  <2>1. OldestFirst(admitted[ip]) /\ admitted[ip] \in Ages /\ Len(admitted[ip]) \in Nat
    BY <1>1 DEF Accounted, Ages
  <2> QED BY <2>1, <1>2, <1>4, AppendAges DEF Accounted
<1>6. LimiterTypeOK'
  BY <1>3, <1>4, <1>5 DEF LimiterInv, LimiterTypeOK, Ages
<1>7. \A a \in Ip : Accounted(visitors'[a], admitted'[a])
  <2> SUFFICES ASSUME NEW a \in Ip PROVE Accounted(visitors'[a], admitted'[a])
    OBVIOUS
  <2>1. CASE a = ip
    <3>1. visitors'[ip] = w(n) /\ admitted'[ip] = Append(admitted[ip], 0)
      BY <1>3 DEF LimiterInv, LimiterTypeOK
    <3> QED BY <2>1, <3>1, <1>5
  <2>2. CASE a # ip
    <3>1. visitors'[a] = visitors[a] /\ admitted'[a] = admitted[a]
      BY <2>2, <1>3 DEF LimiterInv, LimiterTypeOK
    <3> QED BY <3>1, <1>1
  <2> QED BY <2>1, <2>2
<1> QED BY <1>6, <1>7 DEF LimiterInv, Accounted, OldestFirst

LEMMA DenyStep ==
  ASSUME LimiterInv, NEW ip \in Ip, deny(ip)
  PROVE  LimiterInv'
<1> DEFINE w == [tokens |-> 0, seen |-> 0]
<1>1. \A a \in Ip : Accounted(visitors[a], admitted[a]) /\ admitted[a] \in Ages
                    /\ visitors[a] \in Visitor \cup {Nil}
  BY DEF LimiterInv, LimiterTypeOK, Ages
<1>2. visitors' = [visitors EXCEPT ![ip] = w] /\ admitted' = admitted
  BY DEF deny, LastSeen
<1>3. w \in Visitor /\ w # Nil /\ w.tokens = 0 /\ w.seen = 0
  BY LimiterConstants DEF Visitor, Forgotten
<1> HIDE DEF w
<1>4. Accounted(w, admitted[ip])
  <2>1. visitors[ip] # Nil /\ visitors[ip].tokens = 0
    BY DEF deny, Fresh
  <2>2. \A k \in 1 .. Len(admitted[ip]) : admitted[ip][k] \in 0 .. Window
    BY <1>1, AgesType
  <2> QED BY <1>1, <1>3, <2>1, <2>2, LimiterConstants DEF Accounted
<1>5. LimiterTypeOK'
  BY <1>2, <1>3 DEF LimiterInv, LimiterTypeOK
<1>6. \A a \in Ip : Accounted(visitors'[a], admitted'[a])
  BY <1>1, <1>2, <1>4 DEF LimiterInv, LimiterTypeOK
<1> QED BY <1>5, <1>6 DEF LimiterInv, Accounted, OldestFirst

LEMMA SweepStep ==
  ASSUME LimiterInv, Sweep
  PROVE  LimiterInv'
<1>1. \A a \in Ip : Accounted(visitors[a], admitted[a]) /\ admitted[a] \in Ages
                    /\ visitors[a] \in Visitor \cup {Nil}
  BY DEF LimiterInv, LimiterTypeOK, Ages
<1>2. LimiterTypeOK'
  BY DEF LimiterInv, LimiterTypeOK, Sweep
<1>3. ASSUME NEW a \in Ip PROVE Accounted(visitors'[a], admitted'[a])
  <2>1. CASE visitors[a] # Nil /\ visitors[a].seen > 3 * Window
    <3>1. visitors[a].seen \in Nat
      BY <2>1, <1>1, LimiterConstants DEF Visitor, Forgotten
    <3>2. Len(admitted[a]) = 0
      BY <2>1, <3>1, FreshIsEmpty, LimiterConstants DEF Fresh
    <3>3. visitors'[a] = Nil /\ admitted'[a] = admitted[a]
      BY <2>1 DEF Sweep
    <3> QED BY <3>2, <3>3, <1>1 DEF Accounted
  <2>2. CASE ~(visitors[a] # Nil /\ visitors[a].seen > 3 * Window)
    <3>1. visitors'[a] = visitors[a] /\ admitted'[a] = admitted[a]
      BY <2>2 DEF Sweep
    <3> QED BY <3>1, <1>1
  <2> QED BY <2>1, <2>2
<1> QED BY <1>2, <1>3 DEF LimiterInv, Accounted, OldestFirst

LEMMA TickStep ==
  ASSUME LimiterInv, LimiterTick
  PROVE  LimiterInv'
<1>1. \A a \in Ip : Accounted(visitors[a], admitted[a]) /\ admitted[a] \in Ages
                    /\ visitors[a] \in Visitor \cup {Nil}
  BY DEF LimiterInv, LimiterTypeOK, Ages
<1>2. ASSUME NEW a \in Ip
      PROVE  visitors'[a] \in Visitor \cup {Nil} /\ Accounted(visitors'[a], Aged(admitted[a]))
  <2> DEFINE s == admitted[a]
  <2>1. /\ s \in Ages /\ OldestFirst(s) /\ Len(s) \in Nat
        /\ \A k \in 1 .. Len(s) : s[k] \in 0 .. Window
    BY <1>1, AgesType DEF Accounted
  <2>2. /\ Aged(s) \in Ages /\ OldestFirst(Aged(s)) /\ Len(Aged(s)) = StillRecent(s)
        /\ StillRecent(s) \in Nat /\ StillRecent(s) <= Len(s)
        /\ \A k \in 1 .. StillRecent(s) :
              \E l \in 1 .. Len(s) : s[l] < Window /\ Aged(s)[k] = s[l] + 1
    BY <2>1, AgedAges, StillRecentBounds
  <2>3. CASE visitors[a] = Nil
    <3>1. visitors'[a] = Nil
      BY <2>3 DEF LimiterTick
    <3>2. Len(s) = 0
      BY <1>1, <2>3 DEF Accounted
    <3>3. Len(Aged(s)) = 0
      BY <3>2, <2>2
    <3> HIDE DEF s
    <3>4. Accounted(Nil, Aged(s))
      BY <3>3, <2>2 DEF Accounted
    <3> QED BY <3>1, <3>4 DEF s
  <2>4. CASE visitors[a] # Nil
    <3> DEFINE v == visitors[a]
               u == visitors'[a]
    <3>1. u = [v EXCEPT !.seen = IF @ < Forgotten THEN @ + 1 ELSE @]
      BY <2>4 DEF LimiterTick
    <3>2. v \in Visitor /\ v.seen \in 0 .. Forgotten /\ v.tokens \in 0 .. Rate /\ Forgotten \in Nat
      BY <2>4, <1>1, LimiterConstants DEF Visitor, Forgotten
    <3>3. /\ u \in Visitor /\ u.tokens = v.tokens
          /\ u.seen = IF v.seen < Forgotten THEN v.seen + 1 ELSE v.seen
      <4> HIDE DEF v, u
      <4> QED BY <3>1, <3>2 DEF Visitor
    <3>4. u # Nil
      BY <3>3, LimiterConstants
    <3>5. Len(s) + v.tokens <= Rate /\ \A k \in 1 .. Len(s) : s[k] >= v.seen
      BY <1>1, <2>4 DEF Accounted
    <3> HIDE DEF s, v, u
    <3>6. \A k \in 1 .. StillRecent(s) : Aged(s)[k] >= u.seen
      BY <2>1, <2>2, <3>2, <3>3, <3>5
    <3>7. StillRecent(s) + u.tokens <= Rate
      BY <2>1, <2>2, <3>2, <3>3, <3>5, LimiterConstants
    <3>8. Accounted(u, Aged(s))
      BY <2>2, <3>4, <3>6, <3>7 DEF Accounted
    <3> QED BY <3>3, <3>8 DEF u, s
  <2> QED BY <2>3, <2>4
<1>3. \A a \in Ip : admitted'[a] = Aged(admitted[a])
  BY DEF LimiterTick
<1>4. \A a \in Ip : Aged(admitted[a]) \in Seq(0 .. Window)
  BY <1>1, AgedAges DEF Accounted, Ages
<1>5. LimiterTypeOK'
  <2>1. visitors' \in [Ip -> Visitor \cup {Nil}]
    BY <1>2 DEF LimiterTick
  <2>2. admitted' \in [Ip -> Seq(0 .. Window)]
    BY <1>4 DEF LimiterTick
  <2> QED BY <2>1, <2>2 DEF LimiterTypeOK, Visitor, Forgotten
<1> QED BY <1>2, <1>3, <1>5 DEF LimiterInv, Accounted, OldestFirst

-----------------------------------------------------------------------------
(* The inductive invariant of the sign-in.  Its parts are about one request *)
(* q or one pair of cookies c, with the flows fl and the sessions se.       *)

(* A callback whose state was compared with the cookie. *)
Checked == {"exchange", "refused", "fetch", "auth"}

(* The code was taken, the session is not made yet. *)
Redeeming == {"fetch", "auth"}

RequestOK(q, fl, se) ==
    /\ q.step \in Checked => q.flow \in Flow /\ fl[q.flow].by = q.from
    /\ q.session # None => se[q.session] # "none"
    /\ q.step \in {"validate", "leave", "destroy"} => q.session # None

ResponseOK(q, fl, se) ==
    /\ q.setState \in Flow => fl[q.setState].by = q.from
    /\ q.setSession \in Flow => fl[q.setSession].by = q.from /\ se[q.setSession] # "none"

CookiesOK(b, c, fl, se) ==
    /\ c.state # None => fl[c.state].by = b
    /\ c.session # None => fl[c.session].by = b /\ se[c.session] # "none"

SlotOK(q, fl, se) ==
    /\ q \in Request => RequestOK(q, fl, se)
    /\ q \in Response => ResponseOK(q, fl, se)

Redeems(i, f) == req[i] \in Request /\ req[i].step \in Redeeming /\ req[i].flow = f

(* A code is taken by one request, and only that one makes the session.    *)
RedeemedOnce ==
    /\ \A i \in Slot, f \in Flow : Redeems(i, f) => flows[f].code = "spent" /\ session[f] = "none"
    /\ \A i, j \in Slot, f \in Flow : Redeems(i, f) /\ Redeems(j, f) => i = j
    /\ \A f \in Flow : session[f] # "none" => flows[f].code = "spent"

SignInInv ==
    /\ LimiterInv /\ TypeOK
    /\ \A i \in Slot : SlotOK(req[i], flows, session)
    /\ \A b \in Browser : CookiesOK(b, jar[b], flows, session)
    /\ RedeemedOnce

-----------------------------------------------------------------------------
(* Requests and answers *)

LEMMA FlowNumbers == None \notin Flow /\ Keep \notin Flow /\ None # Keep /\ Nil \notin Browser
BY SignInAssumption DEF Flow, None, Keep

LEMMA RequestType == \A q \in Request : q # Nil /\ q \notin Response /\ q.step # "answer"
<1>1. \A q \in Request : q.step # "answer"
  BY DEF Request
<1>2. \A q \in Response : q.step = "answer"
  BY DEF Response
<1> QED BY <1>1, <1>2, SignInAssumption

LEMMA ResponseType == \A q \in Response : q # Nil /\ q \notin Request /\ q.step = "answer"
BY RequestType, SignInAssumption DEF Response

LEMMA NilType == Nil \notin Request /\ Nil \notin Response
BY SignInAssumption

(* A request in the hands of its handler. *)
LEMMA Handling ==
  ASSUME TypeOK, NEW i \in Slot, NEW step, At(i, step)
  PROVE  /\ step # "answer" => req[i] \in Request
         /\ step = "answer" => req[i] \in Response
<1>1. req[i] \in Request \cup Response
  BY DEF TypeOK, At
<1> QED BY <1>1, RequestType, ResponseType DEF At

LEMMA RequestFields ==
  ASSUME NEW q \in Request
  PROVE  q.from \in Browser /\ q.flow \in Flow \cup {None} /\ q.session \in Flow \cup {None}
BY DEF Request

LEMMA ResponseFields ==
  ASSUME NEW q \in Response
  PROVE  /\ q.from \in Browser
         /\ q.setState \in Flow \cup {None, Keep} /\ q.setSession \in Flow \cup {None, Keep}
BY DEF Response

(* The handler goes on with the same request. *)
LEMMA GoneOn ==
  ASSUME NEW q \in Request,
         NEW step \in {"exchange", "refused", "fetch", "auth", "validate", "leave", "destroy"},
         NEW p, p = [q EXCEPT !.step = step]
  PROVE  /\ p \in Request /\ p.step = step
         /\ p.from = q.from /\ p.flow = q.flow /\ p.session = q.session
BY DEF Request

LEMMA Sent ==
  ASSUME NEW b \in Browser, NEW f \in Flow \cup {None}, NEW se \in Flow \cup {None},
         NEW step \in {"exchange", "validate", "leave", "destroy"},
         NEW p, p = [step |-> step, from |-> b, flow |-> f, session |-> se]
  PROVE  p \in Request /\ p.step = step /\ p.from = b /\ p.flow = f /\ p.session = se
BY DEF Request

LEMMA Responded ==
  ASSUME NEW b \in Browser, NEW st \in Flow \cup {None, Keep}, NEW se \in Flow \cup {None, Keep},
         NEW p, p = [step |-> "answer", from |-> b, setState |-> st, setSession |-> se]
  PROVE  /\ p \in Response /\ p.step = "answer"
         /\ p.from = b /\ p.setState = st /\ p.setSession = se
BY DEF Response

-----------------------------------------------------------------------------
(* Steps *)

(* What the browsers did is not undone: a flow stays with the browser that  *)
(* began it, a code that was taken stays taken, and a row does not vanish.  *)
Grow ==
    \A f \in Flow : /\ flows[f].by # Nil => flows'[f].by = flows[f].by
                    /\ flows[f].code = "spent" => flows'[f].code = "spent"
                    /\ session[f] # "none" => session'[f] # "none"

NoNewSession == \A f \in Flow : session[f] = "none" => session'[f] = "none"

LEMMA SlotGrows ==
  ASSUME Grow, NEW q \in Request \cup Response \cup {Nil}, SlotOK(q, flows, session)
  PROVE  SlotOK(q, flows', session')
<1>1. CASE q \in Request
  <2>1. RequestOK(q, flows, session)
    BY <1>1 DEF SlotOK
  <2>2. RequestOK(q, flows', session')
    BY <1>1, <2>1, RequestFields, FlowNumbers DEF RequestOK, Grow
  <2> QED BY <1>1, <2>2, RequestType DEF SlotOK
<1>2. CASE q \in Response
  <2>1. ResponseOK(q, flows, session)
    BY <1>2 DEF SlotOK
  <2>2. ResponseOK(q, flows', session')
    BY <1>2, <2>1, ResponseFields, FlowNumbers DEF ResponseOK, Grow
  <2> QED BY <1>2, <2>2, ResponseType DEF SlotOK
<1>3. CASE q = Nil
  BY <1>3, NilType DEF SlotOK
<1> QED BY <1>1, <1>2, <1>3

LEMMA SlotsGrow ==
  ASSUME SignInInv, Grow
  PROVE  \A i \in Slot : SlotOK(req[i], flows', session')
BY SlotGrows DEF SignInInv, TypeOK

LEMMA CookiesGrow ==
  ASSUME SignInInv, Grow
  PROVE  \A b \in Browser : CookiesOK(b, jar[b], flows', session')
<1> SUFFICES ASSUME NEW b \in Browser PROVE CookiesOK(b, jar[b], flows', session')
  OBVIOUS
<1>1. jar[b].state \in Flow \cup {None} /\ jar[b].session \in Flow \cup {None}
  BY DEF SignInInv, TypeOK
<1>2. CookiesOK(b, jar[b], flows, session)
  BY DEF SignInInv
<1> QED BY <1>1, <1>2, FlowNumbers DEF CookiesOK, Grow

(* A step of one request: the others are as they were. *)
LEMMA SlotStep ==
  ASSUME SignInInv, Grow, NEW i \in Slot, NEW p \in Request \cup Response \cup {Nil},
         req' = [req EXCEPT ![i] = p], SlotOK(p, flows', session')
  PROVE  /\ req' \in [Slot -> Request \cup Response \cup {Nil}]
         /\ req'[i] = p /\ \A j \in Slot \ {i} : req'[j] = req[j]
         /\ \A j \in Slot : SlotOK(req'[j], flows', session')
<1>1. req \in [Slot -> Request \cup Response \cup {Nil}]
  BY DEF SignInInv, TypeOK
<1>2. req' \in [Slot -> Request \cup Response \cup {Nil}]
  BY <1>1
<1>3. req'[i] = p /\ \A j \in Slot \ {i} : req'[j] = req[j]
  BY <1>1
<1> QED BY <1>2, <1>3, SlotsGrow

(* No code is taken and no session is made. *)
LEMMA RedeemedKept ==
  ASSUME SignInInv, Grow, NoNewSession,
         \A j \in Slot, f \in Flow : Redeems(j, f)' => Redeems(j, f)
  PROVE  RedeemedOnce'
<1>1. RedeemedOnce
  BY DEF SignInInv
<1>2. \A j \in Slot, f \in Flow : Redeems(j, f)' => (flows[f].code = "spent" /\ session[f] = "none")'
  BY <1>1 DEF RedeemedOnce, Grow, NoNewSession
<1>3. \A i, j \in Slot, f \in Flow : Redeems(i, f)' /\ Redeems(j, f)' => i = j
  BY <1>1 DEF RedeemedOnce
<1>4. \A f \in Flow : session'[f] # "none" => flows'[f].code = "spent"
  BY <1>1 DEF RedeemedOnce, Grow, NoNewSession
<1> QED BY <1>2, <1>3, <1>4 DEF RedeemedOnce

LEMMA UnchangedGrow ==
  ASSUME UNCHANGED <<flows, session>>
  PROVE  Grow /\ NoNewSession
BY DEF Grow, NoNewSession

LEMMA SameSlots ==
  ASSUME SignInInv, Grow, UNCHANGED req
  PROVE  /\ req' \in [Slot -> Request \cup Response \cup {Nil}]
         /\ \A j \in Slot : SlotOK(req'[j], flows', session')
         /\ \A j \in Slot, f \in Flow : Redeems(j, f)' => Redeems(j, f)
<1>1. req \in [Slot -> Request \cup Response \cup {Nil}]
  BY DEF SignInInv, TypeOK
<1> QED BY <1>1, SlotsGrow DEF Redeems

LEMMA SameCookies ==
  ASSUME SignInInv, Grow, UNCHANGED jar
  PROVE  /\ jar' \in [Browser -> [state : Flow \cup {None}, session : Flow \cup {None}]]
         /\ \A b \in Browser : CookiesOK(b, jar'[b], flows', session')
<1>1. jar \in [Browser -> [state : Flow \cup {None}, session : Flow \cup {None}]]
  BY DEF SignInInv, TypeOK
<1> QED BY <1>1, CookiesGrow

(* A step that only changes one request. *)
LEMMA RequestStep ==
  ASSUME SignInInv, LimiterInv', NEW i \in Slot, NEW p \in Request \cup Response \cup {Nil},
         req' = [req EXCEPT ![i] = p], SlotOK(p, flows, session),
         p \in Request /\ p.step \in Redeeming => Redeems(i, p.flow),
         UNCHANGED <<jar, flows, session, active>>, faults' \in 0 .. MaxFaults
  PROVE  SignInInv'
<1>1. Grow /\ NoNewSession
  BY UnchangedGrow
<1>2. /\ req' \in [Slot -> Request \cup Response \cup {Nil}]
      /\ req'[i] = p /\ \A j \in Slot \ {i} : req'[j] = req[j]
      /\ \A j \in Slot : SlotOK(req'[j], flows', session')
  BY <1>1, SlotStep
<1>3. \A j \in Slot, f \in Flow : Redeems(j, f)' => Redeems(j, f)
  BY <1>2 DEF Redeems
<1>4. RedeemedOnce'
  BY <1>1, <1>3, RedeemedKept
<1>5. \A b \in Browser : CookiesOK(b, jar'[b], flows', session')
  BY <1>1, SameCookies
<1> QED BY <1>2, <1>4, <1>5 DEF SignInInv, TypeOK, LimiterInv

LEMMA FaultType == ASSUME TypeOK PROVE (Fault => faults' \in 0 .. MaxFaults) /\ (UNCHANGED faults => faults' \in 0 .. MaxFaults)
BY SignInAssumption DEF TypeOK, Fault

(* An answer that gives out no state and no session. *)
LEMMA PlainAnswer ==
  ASSUME NEW b \in Browser, NEW st \in {None, Keep}, NEW se \in {None, Keep}, NEW fl, NEW rows,
         NEW p, p = [step |-> "answer", from |-> b, setState |-> st, setSession |-> se]
  PROVE  p \in Response /\ p \notin Request /\ SlotOK(p, fl, rows)
<1>1. /\ p \in Response /\ p.setState = st /\ p.setSession = se
  BY Responded
<1>2. p \notin Request
  BY <1>1, ResponseType
<1> QED BY <1>1, <1>2, FlowNumbers DEF SlotOK, ResponseOK

LEMMA OpenCallbackStep ==
  ASSUME SignInInv, LimiterInv', NEW i \in Slot, NEW b \in Browser, NEW f \in Flow, OpenCallback(i, b, f)
  PROVE  SignInInv'
<1>1. UNCHANGED <<jar, flows, session, active>> /\ faults' \in 0 .. MaxFaults
  BY FaultType DEF OpenCallback, server, SignInInv
<1>2. CASE CheckState(b, f) /\ Send(i, b, "exchange", f)
  <2> DEFINE p == [step |-> "exchange", from |-> b, flow |-> f, session |-> jar[b].session]
  <2>1. jar[b].session \in Flow \cup {None}
    BY DEF SignInInv, TypeOK
  <2>2. p \in Request /\ p.step = "exchange" /\ p.from = b /\ p.flow = f /\ p.session = jar[b].session
    BY <2>1, Sent
  <2>3. req' = [req EXCEPT ![i] = p]
    BY <1>2 DEF Send
  <2> HIDE DEF p
  <2>4. CookiesOK(b, jar[b], flows, session)
    BY DEF SignInInv
  <2>5. RequestOK(p, flows, session)
    BY <1>2, <2>2, <2>4, FlowNumbers DEF CheckState, RequestOK, CookiesOK
  <2>6. SlotOK(p, flows, session)
    BY <2>2, <2>5, RequestType DEF SlotOK
  <2> QED BY <1>1, <2>2, <2>3, <2>6, RequestStep DEF Redeeming
<1>3. CASE Respond(i, b, None, None)
  <2> DEFINE p == [step |-> "answer", from |-> b, setState |-> None, setSession |-> None]
  <2>1. p \in Response /\ p \notin Request /\ SlotOK(p, flows, session)
    BY PlainAnswer
  <2>2. req' = [req EXCEPT ![i] = p]
    BY <1>3 DEF Respond
  <2> HIDE DEF p
  <2> QED BY <1>1, <2>1, <2>2, RequestStep
<1> QED BY <1>2, <1>3 DEF OpenCallback

(* An answer of a handler that sets no new cookie. *)
LEMMA AnswerStep ==
  ASSUME SignInInv, LimiterInv', NEW i \in Slot, req[i] \in Request,
         NEW st \in {None, Keep}, NEW se \in {None, Keep},
         Answer(i, st, se),
         UNCHANGED <<jar, flows, session, active>>, faults' \in 0 .. MaxFaults
  PROVE  SignInInv'
<1>1. req[i].from \in Browser
  BY RequestFields
<1> DEFINE p == [step |-> "answer", from |-> req[i].from, setState |-> st, setSession |-> se]
<1>2. p \in Response /\ p \notin Request /\ SlotOK(p, flows, session)
  BY <1>1, PlainAnswer
<1>3. req' = [req EXCEPT ![i] = p]
  BY DEF Answer, Respond
<1> HIDE DEF p
<1> QED BY <1>2, <1>3, RequestStep

(* The handler goes on, and takes no code. *)
LEMMA GotoStep ==
  ASSUME SignInInv, LimiterInv', NEW i \in Slot, req[i] \in Request,
         NEW step \in {"refused", "auth", "destroy"}, Goto(i, step),
         step = "refused" => req[i].step = "exchange",
         step = "auth" => req[i].step = "fetch",
         step = "destroy" => req[i].step = "leave",
         UNCHANGED <<jar, flows, session, active>>, faults' \in 0 .. MaxFaults
  PROVE  SignInInv'
<1> DEFINE p == [req[i] EXCEPT !.step = step]
<1>1. /\ p \in Request /\ p.step = step
      /\ p.from = req[i].from /\ p.flow = req[i].flow /\ p.session = req[i].session
  BY GoneOn
<1>2. req' = [req EXCEPT ![i] = p]
  BY DEF Goto
<1> HIDE DEF p
<1>3. RequestOK(req[i], flows, session)
  BY DEF SignInInv, SlotOK
<1>4. SlotOK(p, flows, session)
  BY <1>1, <1>3, RequestType DEF RequestOK, Checked, SlotOK
<1>5. p.step \in Redeeming => Redeems(i, p.flow)
  BY <1>1 DEF Redeeming, Redeems
<1> QED BY <1>1, <1>2, <1>4, <1>5, RequestStep

LEMMA ExchangeRefusedStep ==
  ASSUME SignInInv, LimiterInv', NEW i \in Slot, ExchangeRefused(i)
  PROVE  SignInInv'
<1>1. UNCHANGED <<jar, flows, session, active>> /\ faults' \in 0 .. MaxFaults
  BY FaultType DEF ExchangeRefused, server, SignInInv
<1>2. req[i] \in Request
  BY Handling DEF ExchangeRefused, SignInInv
<1>3. CASE Valid(req[i].session) /\ Answer(i, None, Keep)
  BY <1>1, <1>2, <1>3, AnswerStep, FlowNumbers
<1>4. CASE ~Valid(req[i].session) /\ Answer(i, None, None)
  BY <1>1, <1>2, <1>4, AnswerStep
<1>5. CASE Answer(i, None, None)
  BY <1>1, <1>2, <1>5, AnswerStep
<1> QED BY <1>3, <1>4, <1>5 DEF ExchangeRefused, clearAndRedirect

LEMMA FetchUserStep ==
  ASSUME SignInInv, LimiterInv', NEW i \in Slot, FetchUser(i)
  PROVE  SignInInv'
<1>1. UNCHANGED <<jar, flows, session, active>> /\ faults' \in 0 .. MaxFaults
  BY FaultType DEF FetchUser, server, SignInInv
<1>2. req[i] \in Request /\ req[i].step = "fetch"
  BY Handling DEF FetchUser, SignInInv, At
<1>3. CASE Goto(i, "auth")
  BY <1>1, <1>2, <1>3, GotoStep
<1>4. CASE Answer(i, None, None)
  BY <1>1, <1>2, <1>4, AnswerStep
<1> QED BY <1>3, <1>4 DEF FetchUser, clearAndRedirect

LEMMA ValidateSessionStep ==
  ASSUME SignInInv, LimiterInv', NEW i \in Slot, ValidateSession(i)
  PROVE  SignInInv'
<1>1. UNCHANGED <<jar, flows, session, active>> /\ faults' \in 0 .. MaxFaults
  BY FaultType DEF ValidateSession, server, SignInInv
<1>2. req[i] \in Request
  BY Handling DEF ValidateSession, SignInInv
<1>3. CASE ~Valid(req[i].session) /\ Answer(i, Keep, None)
  BY <1>1, <1>2, <1>3, AnswerStep
<1>4. CASE Answer(i, Keep, Keep)
  BY <1>1, <1>2, <1>4, AnswerStep, FlowNumbers
<1>5. CASE req[i].step = "leave" /\ Goto(i, "destroy")
  BY <1>1, <1>2, <1>5, GotoStep
<1>6. CASE Answer(i, Keep, None)
  BY <1>1, <1>2, <1>6, AnswerStep
<1> QED BY <1>3, <1>4, <1>5, <1>6 DEF ValidateSession, RequireAuth

LEMMA OpenPageStep ==
  ASSUME SignInInv, LimiterInv', NEW i \in Slot, NEW b \in Browser,
         NEW step \in {"validate", "leave", "destroy"}, jar[b].session # None,
         Send(i, b, step, None), UNCHANGED <<limiter, jar, flows, server, faults>>
  PROVE  SignInInv'
<1> DEFINE p == [step |-> step, from |-> b, flow |-> None, session |-> jar[b].session]
<1>1. jar[b].session \in Flow \cup {None}
  BY DEF SignInInv, TypeOK
<1>2. p \in Request /\ p.step = step /\ p.session = jar[b].session
  BY <1>1, Sent
<1>3. req' = [req EXCEPT ![i] = p]
  BY DEF Send
<1> HIDE DEF p
<1>4. CookiesOK(b, jar[b], flows, session)
  BY DEF SignInInv
<1>5. SlotOK(p, flows, session)
  BY <1>2, <1>4, RequestType DEF RequestOK, CookiesOK, SlotOK, Checked
<1>6. UNCHANGED <<jar, flows, session, active>> /\ faults' \in 0 .. MaxFaults
  BY FaultType DEF server, SignInInv
<1> QED BY <1>2, <1>3, <1>5, <1>6, RequestStep DEF Redeeming

LEMMA OpenResetStep ==
  ASSUME SignInInv, LimiterInv', NEW i \in Slot, NEW b \in Browser, OpenReset(i, b)
  PROVE  SignInInv'
<1>1. CASE jar[b].session = None /\ Respond(i, b, Keep, None)
  <2> DEFINE p == [step |-> "answer", from |-> b, setState |-> Keep, setSession |-> None]
  <2>1. p \in Response /\ p \notin Request /\ SlotOK(p, flows, session)
    BY PlainAnswer
  <2>2. req' = [req EXCEPT ![i] = p]
    BY <1>1 DEF Respond
  <2> HIDE DEF p
  <2>3. UNCHANGED <<jar, flows, session, active>> /\ faults' \in 0 .. MaxFaults
    BY FaultType DEF OpenReset, server, SignInInv
  <2> QED BY <2>1, <2>2, <2>3, RequestStep
<1>2. CASE jar[b].session # None /\ Send(i, b, "destroy", None)
  BY <1>2, OpenPageStep DEF OpenReset
<1> QED BY <1>1, <1>2 DEF OpenReset

(* A step that makes no session and keeps the cookies. *)
LEMMA FlowStep ==
  ASSUME SignInInv, LimiterInv', Grow, NoNewSession,
         flows' \in [Flow -> [by : Browser \cup {Nil}, user : User \cup {Nil},
                             code : {"none", "ready", "spent"}]],
         req' \in [Slot -> Request \cup Response \cup {Nil}],
         \A j \in Slot : SlotOK(req'[j], flows', session'),
         RedeemedOnce', UNCHANGED <<jar, session, active>>, faults' \in 0 .. MaxFaults
  PROVE  SignInInv'
<1>1. \A b \in Browser : CookiesOK(b, jar'[b], flows', session')
  BY SameCookies
<1> QED BY <1>1 DEF SignInInv, TypeOK, LimiterInv

(* The answer that sets the state of a flow that was just begun. *)
LEMMA oauthStartStep ==
  ASSUME SignInInv, LimiterInv', NEW i \in Slot, NEW b \in Browser, oauthStartHandler(i, b)
  PROVE  SignInInv'
<1>1. PICK f \in Flow : /\ f \notin Begun /\ flows' = [flows EXCEPT ![f].by = b]
                        /\ Respond(i, b, f, Keep)
  BY DEF oauthStartHandler
<1>2. UNCHANGED <<jar, session, active>> /\ faults' \in 0 .. MaxFaults
  BY FaultType DEF oauthStartHandler, server, SignInInv
<1>3. flows \in [Flow -> [by : Browser \cup {Nil}, user : User \cup {Nil}, code : {"none", "ready", "spent"}]]
  BY DEF SignInInv, TypeOK
<1>4. flows' \in [Flow -> [by : Browser \cup {Nil}, user : User \cup {Nil}, code : {"none", "ready", "spent"}]]
  BY <1>1, <1>3
<1>5. flows'[f].by = b
  BY <1>1, <1>3
<1>6. \A g \in Flow : g # f => flows'[g] = flows[g]
  BY <1>1, <1>3
<1>7. flows'[f].code = flows[f].code
  BY <1>1, <1>3
<1>8. flows[f].by = Nil
  BY <1>1 DEF Begun
<1>9. Grow /\ NoNewSession
  BY <1>2, <1>6, <1>7, <1>8 DEF Grow, NoNewSession
<1> DEFINE p == [step |-> "answer", from |-> b, setState |-> f, setSession |-> Keep]
<1>10. p \in Response /\ p.from = b /\ p.setState = f /\ p.setSession = Keep
  <2>1. f \in Flow \cup {None, Keep} /\ Keep \in Flow \cup {None, Keep}
    OBVIOUS
  <2> QED BY <2>1 DEF Response
<1>11. req' = [req EXCEPT ![i] = p]
  BY <1>1 DEF Respond
<1> HIDE DEF p
<1>12. p \notin Request
  BY <1>10, ResponseType
<1>13. SlotOK(p, flows', session')
  BY <1>5, <1>10, <1>12, FlowNumbers DEF SlotOK, ResponseOK
<1>14. /\ req' \in [Slot -> Request \cup Response \cup {Nil}]
       /\ req'[i] = p /\ \A j \in Slot \ {i} : req'[j] = req[j]
       /\ \A j \in Slot : SlotOK(req'[j], flows', session')
  BY <1>9, <1>10, <1>11, <1>13, SlotStep
<1>15. \A j \in Slot, g \in Flow : Redeems(j, g)' => Redeems(j, g)
  BY <1>12, <1>14 DEF Redeems
<1>16. RedeemedOnce'
  BY <1>9, <1>15, RedeemedKept
<1> QED BY <1>2, <1>4, <1>9, <1>14, <1>16, FlowStep

LEMMA AuthorizeStep ==
  ASSUME SignInInv, LimiterInv', NEW f \in Flow, NEW u \in User, Authorize(f, u)
  PROVE  SignInInv'
<1>1. flows \in [Flow -> [by : Browser \cup {Nil}, user : User \cup {Nil}, code : {"none", "ready", "spent"}]]
  BY DEF SignInInv, TypeOK
<1>2. flows' \in [Flow -> [by : Browser \cup {Nil}, user : User \cup {Nil}, code : {"none", "ready", "spent"}]]
  BY <1>1 DEF Authorize
<1>3. \A g \in Flow : flows'[g].by = flows[g].by /\ (flows[g].code = "spent" => flows'[g].code = "spent")
  BY <1>1 DEF Authorize
<1>4. UNCHANGED <<jar, session, active, req>> /\ faults' \in 0 .. MaxFaults
  BY FaultType DEF Authorize, server, SignInInv
<1>5. Grow /\ NoNewSession
  BY <1>3, <1>4 DEF Grow, NoNewSession
<1>6. RedeemedOnce'
  BY <1>4, <1>5, SameSlots, RedeemedKept
<1> QED BY <1>2, <1>4, <1>5, <1>6, SameSlots, FlowStep

(* The one step that takes a code: nobody else can have taken it.          *)
LEMMA CodeTaken ==
  ASSUME SignInInv, LimiterInv', NEW i \in Slot, req[i] \in Request, req[i].step = "exchange",
         NEW f \in Flow, f = req[i].flow, flows[f].code = "ready", Goto(i, "fetch"),
         flows' = [flows EXCEPT ![f].code = "spent"],
         UNCHANGED <<jar, session, active>>, faults' \in 0 .. MaxFaults
  PROVE  SignInInv'
<1>1. flows \in [Flow -> [by : Browser \cup {Nil}, user : User \cup {Nil}, code : {"none", "ready", "spent"}]]
  BY DEF SignInInv, TypeOK
<1>2. flows' \in [Flow -> [by : Browser \cup {Nil}, user : User \cup {Nil}, code : {"none", "ready", "spent"}]]
  BY <1>1
<1>3. /\ \A g \in Flow : flows'[g].by = flows[g].by
      /\ \A g \in Flow : flows[g].code = "spent" => flows'[g].code = "spent"
      /\ flows'[f].code = "spent"
  BY <1>1
<1>4. Grow /\ NoNewSession
  BY <1>3 DEF Grow, NoNewSession
<1> DEFINE p == [req[i] EXCEPT !.step = "fetch"]
<1>5. /\ p \in Request /\ p.step = "fetch"
      /\ p.from = req[i].from /\ p.flow = f /\ p.session = req[i].session
  BY GoneOn
<1>6. req' = [req EXCEPT ![i] = p]
  BY DEF Goto
<1> HIDE DEF p
<1>7. RequestOK(req[i], flows', session')
  BY <1>4, SlotsGrow DEF SlotOK
<1>8. SlotOK(p, flows', session')
  BY <1>5, <1>7, RequestType DEF RequestOK, Checked, SlotOK
<1>9. /\ req' \in [Slot -> Request \cup Response \cup {Nil}]
      /\ req'[i] = p /\ \A j \in Slot \ {i} : req'[j] = req[j]
      /\ \A j \in Slot : SlotOK(req'[j], flows', session')
  BY <1>4, <1>5, <1>6, <1>8, SlotStep
<1>10. /\ session[f] = "none"
       /\ \A j \in Slot : ~Redeems(j, f)
       /\ \A j \in Slot, g \in Flow : Redeems(j, g) => flows[g].code = "spent" /\ session[g] = "none"
       /\ \A j, k \in Slot, g \in Flow : Redeems(j, g) /\ Redeems(k, g) => j = k
       /\ \A g \in Flow : session[g] # "none" => flows[g].code = "spent"
  BY DEF SignInInv, RedeemedOnce
<1>11. \A j \in Slot, g \in Flow : Redeems(j, g)' => (j = i /\ g = f) \/ (j # i /\ Redeems(j, g))
  BY <1>5, <1>9 DEF Redeems
<1>12. RedeemedOnce'
  <2>1. \A j \in Slot, g \in Flow : Redeems(j, g)' => flows'[g].code = "spent" /\ session'[g] = "none"
    BY <1>3, <1>10, <1>11
  <2>2. \A j, k \in Slot, g \in Flow : Redeems(j, g)' /\ Redeems(k, g)' => j = k
    BY <1>10, <1>11
  <2>3. \A g \in Flow : session'[g] # "none" => flows'[g].code = "spent"
    BY <1>3, <1>10
  <2> QED BY <2>1, <2>2, <2>3 DEF RedeemedOnce
<1> QED BY <1>2, <1>4, <1>9, <1>12, FlowStep

(* The exchange fails; the code may have been taken all the same. *)
LEMMA CodeLost ==
  ASSUME SignInInv, LimiterInv', NEW i \in Slot, req[i] \in Request, req[i].step = "exchange",
         NEW f \in Flow, f = req[i].flow, Goto(i, "refused"),
         flows' = [flows EXCEPT ![f].code = "spent"],
         UNCHANGED <<jar, session, active>>, faults' \in 0 .. MaxFaults
  PROVE  SignInInv'
<1>1. flows \in [Flow -> [by : Browser \cup {Nil}, user : User \cup {Nil}, code : {"none", "ready", "spent"}]]
  BY DEF SignInInv, TypeOK
<1>2. flows' \in [Flow -> [by : Browser \cup {Nil}, user : User \cup {Nil}, code : {"none", "ready", "spent"}]]
  BY <1>1
<1>3. /\ \A g \in Flow : flows'[g].by = flows[g].by
      /\ \A g \in Flow : flows[g].code = "spent" => flows'[g].code = "spent"
  BY <1>1
<1>4. Grow /\ NoNewSession
  BY <1>3 DEF Grow, NoNewSession
<1> DEFINE p == [req[i] EXCEPT !.step = "refused"]
<1>5. /\ p \in Request /\ p.step = "refused"
      /\ p.from = req[i].from /\ p.flow = f /\ p.session = req[i].session
  BY GoneOn
<1>6. req' = [req EXCEPT ![i] = p]
  BY DEF Goto
<1> HIDE DEF p
<1>7. RequestOK(req[i], flows', session')
  BY <1>4, SlotsGrow DEF SlotOK
<1>8. SlotOK(p, flows', session')
  BY <1>5, <1>7, RequestType DEF RequestOK, Checked, SlotOK
<1>9. /\ req' \in [Slot -> Request \cup Response \cup {Nil}]
      /\ req'[i] = p /\ \A j \in Slot \ {i} : req'[j] = req[j]
      /\ \A j \in Slot : SlotOK(req'[j], flows', session')
  BY <1>4, <1>5, <1>6, <1>8, SlotStep
<1>10. \A j \in Slot, g \in Flow : Redeems(j, g)' => Redeems(j, g)
  BY <1>5, <1>9 DEF Redeems, Redeeming
<1>11. RedeemedOnce'
  BY <1>4, <1>10, RedeemedKept
<1> QED BY <1>2, <1>4, <1>9, <1>11, FlowStep

LEMMA ExchangeCodeStep ==
  ASSUME SignInInv, LimiterInv', NEW i \in Slot, ExchangeCode(i)
  PROVE  SignInInv'
<1>1. req[i] \in Request /\ req[i].step = "exchange"
  BY Handling DEF ExchangeCode, SignInInv, At
<1>2. UNCHANGED <<jar, session, active>> /\ faults' \in 0 .. MaxFaults
  BY FaultType DEF ExchangeCode, server, SignInInv
<1>3. req[i].flow \in Flow
  BY <1>1 DEF SignInInv, SlotOK, RequestOK, Checked
<1>4. CASE flows[req[i].flow].code = "ready" /\ Goto(i, "fetch")
           /\ flows' = [flows EXCEPT ![req[i].flow].code = "spent"]
  BY <1>1, <1>2, <1>3, <1>4, CodeTaken
<1>5. CASE Goto(i, "refused") /\ flows' = flows
  BY <1>1, <1>2, <1>5, GotoStep
<1>6. CASE Goto(i, "refused") /\ flows' = [flows EXCEPT ![req[i].flow].code = "spent"]
  BY <1>1, <1>2, <1>3, <1>6, CodeLost
<1> QED BY <1>4, <1>5, <1>6 DEF ExchangeCode

(* A session is made once: its number was not in use.                        *)
LEMMA SessionMade ==
  ASSUME SignInInv, LimiterInv', NEW i \in Slot, req[i] \in Request, req[i].step = "auth",
         NEW f \in Flow, f = req[i].flow, CreateRow(f),
         NEW se \in {f, Keep}, Answer(i, None, se),
         UNCHANGED <<jar, flows, active>>, faults' \in 0 .. MaxFaults
  PROVE  SignInInv'
<1>1. session \in [Flow -> {"none", "live", "expired", "destroyed"}]
  BY DEF SignInInv, TypeOK
<1>2. Redeems(i, f)
  BY DEF Redeems, Redeeming
<1>3. /\ flows[f].code = "spent" /\ session[f] = "none"
      /\ \A j \in Slot, g \in Flow : Redeems(j, g) => flows[g].code = "spent" /\ session[g] = "none"
      /\ \A j, k \in Slot, g \in Flow : Redeems(j, g) /\ Redeems(k, g) => j = k
      /\ \A g \in Flow : session[g] # "none" => flows[g].code = "spent"
  BY <1>2 DEF SignInInv, RedeemedOnce
<1>4. /\ session' \in [Flow -> {"none", "live", "expired", "destroyed"}]
      /\ session'[f] = "live" /\ \A g \in Flow : g # f => session'[g] = session[g]
  BY <1>1 DEF CreateRow
<1>5. Grow
  BY <1>3, <1>4 DEF Grow
<1>6. RequestOK(req[i], flows, session)
  BY DEF SignInInv, SlotOK
<1>7. flows'[f].by = req[i].from /\ req[i].from \in Browser
  BY <1>6, RequestFields DEF RequestOK, Checked
<1> DEFINE p == [step |-> "answer", from |-> req[i].from, setState |-> None, setSession |-> se]
<1>8. p \in Response /\ p.from = req[i].from /\ p.setState = None /\ p.setSession = se
  <2>1. None \in Flow \cup {None, Keep} /\ se \in Flow \cup {None, Keep}
    OBVIOUS
  <2> QED BY <2>1, <1>7 DEF Response
<1>9. req' = [req EXCEPT ![i] = p]
  BY DEF Answer, Respond
<1> HIDE DEF p
<1>10. p \notin Request
  BY <1>8, ResponseType
<1>11. SlotOK(p, flows', session')
  BY <1>4, <1>7, <1>8, <1>10, FlowNumbers DEF SlotOK, ResponseOK
<1>12. /\ req' \in [Slot -> Request \cup Response \cup {Nil}]
       /\ req'[i] = p /\ \A j \in Slot \ {i} : req'[j] = req[j]
       /\ \A j \in Slot : SlotOK(req'[j], flows', session')
  BY <1>5, <1>8, <1>9, <1>11, SlotStep
<1>13. \A j \in Slot, g \in Flow : Redeems(j, g)' => j # i /\ Redeems(j, g)
  BY <1>10, <1>12 DEF Redeems
<1>14. \A j \in Slot, g \in Flow : Redeems(j, g)' => g # f
  BY <1>2, <1>3, <1>13
<1>15. RedeemedOnce'
  <2>1. \A j \in Slot, g \in Flow : Redeems(j, g)' => flows'[g].code = "spent" /\ session'[g] = "none"
    BY <1>3, <1>4, <1>13, <1>14
  <2>2. \A j, k \in Slot, g \in Flow : Redeems(j, g)' /\ Redeems(k, g)' => j = k
    BY <1>3, <1>13
  <2>3. \A g \in Flow : session'[g] # "none" => flows'[g].code = "spent"
    BY <1>3, <1>4
  <2> QED BY <2>1, <2>2, <2>3 DEF RedeemedOnce
<1>16. \A b \in Browser : CookiesOK(b, jar'[b], flows', session')
  BY <1>5, SameCookies
<1> QED BY <1>4, <1>12, <1>15, <1>16 DEF SignInInv, TypeOK, LimiterInv

LEMMA AuthenticateUserStep ==
  ASSUME SignInInv, LimiterInv', NEW i \in Slot, AuthenticateUser(i)
  PROVE  SignInInv'
<1>1. req[i] \in Request /\ req[i].step = "auth"
  BY Handling DEF AuthenticateUser, SignInInv, At
<1>2. UNCHANGED <<jar, flows, active>> /\ faults' \in 0 .. MaxFaults
  BY FaultType DEF AuthenticateUser, SignInInv
<1>3. req[i].flow \in Flow
  BY <1>1 DEF SignInInv, SlotOK, RequestOK, Checked
<1> DEFINE se == IF flows[req[i].flow].user \in active THEN req[i].flow ELSE Keep
<1>4. CASE CreateRow(req[i].flow) /\ Answer(i, None, se)
  <2>1. se \in {req[i].flow, Keep}
    OBVIOUS
  <2> HIDE DEF se
  <2> QED BY <1>1, <1>2, <1>3, <1>4, <2>1, SessionMade
<1>5. CASE Answer(i, None, None) /\ UNCHANGED session
  BY <1>1, <1>2, <1>5, AnswerStep
<1> QED BY <1>4, <1>5 DEF AuthenticateUser, clearAndRedirect

LEMMA DestroySessionStep ==
  ASSUME SignInInv, LimiterInv', NEW i \in Slot, DestroySession(i)
  PROVE  SignInInv'
<1>1. req[i] \in Request /\ req[i].step = "destroy"
  BY Handling DEF DestroySession, SignInInv, At
<1>2. UNCHANGED <<jar, flows, active>> /\ faults' \in 0 .. MaxFaults
  BY FaultType DEF DestroySession, SignInInv
<1>3. CASE UNCHANGED session
  BY <1>1, <1>2, <1>3, AnswerStep DEF DestroySession
<1>4. CASE DestroyRow(req[i].session)
  <2> DEFINE x == req[i].session
  <2>1. x \in Flow /\ session[x] # "none"
    BY <1>1, RequestFields DEF SignInInv, SlotOK, RequestOK
  <2>2. session \in [Flow -> {"none", "live", "expired", "destroyed"}]
    BY DEF SignInInv, TypeOK
  <2> HIDE DEF x
  <2>3. /\ session' \in [Flow -> {"none", "live", "expired", "destroyed"}]
        /\ session'[x] = "destroyed" /\ \A g \in Flow : g # x => session'[g] = session[g]
    BY <1>4, <2>1, <2>2 DEF DestroyRow, x
  <2>4. Grow /\ NoNewSession
    BY <1>2, <2>1, <2>3 DEF Grow, NoNewSession
  <2> DEFINE p == [step |-> "answer", from |-> req[i].from, setState |-> Keep, setSession |-> None]
  <2>5. p \in Response /\ p \notin Request /\ SlotOK(p, flows', session')
    BY <1>1, RequestFields, PlainAnswer
  <2>6. req' = [req EXCEPT ![i] = p]
    BY DEF DestroySession, Answer, Respond
  <2> HIDE DEF p
  <2>7. /\ req' \in [Slot -> Request \cup Response \cup {Nil}]
        /\ req'[i] = p /\ \A j \in Slot \ {i} : req'[j] = req[j]
        /\ \A j \in Slot : SlotOK(req'[j], flows', session')
    BY <2>4, <2>5, <2>6, SlotStep
  <2>8. \A j \in Slot, f \in Flow : Redeems(j, f)' => Redeems(j, f)
    BY <2>5, <2>7 DEF Redeems
  <2>9. RedeemedOnce'
    BY <2>4, <2>8, RedeemedKept
  <2>10. \A b \in Browser : CookiesOK(b, jar'[b], flows', session')
    BY <1>2, <2>4, SameCookies
  <2> QED BY <1>2, <2>3, <2>7, <2>9, <2>10 DEF SignInInv, TypeOK, LimiterInv
<1> QED BY <1>3, <1>4 DEF DestroySession

(* The cookies of one browser change, and perhaps one request is over. *)
LEMMA JarStep ==
  ASSUME SignInInv, LimiterInv', NEW b \in Browser,
         NEW c \in [state : Flow \cup {None}, session : Flow \cup {None}],
         jar' = [jar EXCEPT ![b] = c], CookiesOK(b, c, flows, session),
         UNCHANGED req \/ \E i \in Slot : req' = [req EXCEPT ![i] = Nil],
         UNCHANGED <<flows, session, active, faults>>
  PROVE  SignInInv'
<1> DEFINE J == [state : Flow \cup {None}, session : Flow \cup {None}]
<1>1. Grow /\ NoNewSession
  BY UnchangedGrow
<1>2. jar \in [Browser -> J]
  BY DEF SignInInv, TypeOK
<1>3. c \in J
  OBVIOUS
<1> HIDE DEF J
<1>4. jar' \in [Browser -> J]
  BY <1>2, <1>3
<1>5. \A a \in Browser : CookiesOK(a, jar'[a], flows', session')
  <2> SUFFICES ASSUME NEW a \in Browser PROVE CookiesOK(a, jar'[a], flows, session)
    OBVIOUS
  <2>1. CookiesOK(a, jar[a], flows, session)
    BY DEF SignInInv
  <2>2. jar'[a] = IF a = b THEN c ELSE jar[a]
    BY <1>2
  <2> QED BY <2>1, <2>2
<1>6. /\ req' \in [Slot -> Request \cup Response \cup {Nil}]
      /\ \A j \in Slot : SlotOK(req'[j], flows', session')
      /\ \A j \in Slot, f \in Flow : Redeems(j, f)' => Redeems(j, f)
  <2>1. CASE UNCHANGED req
    BY <1>1, <2>1, SameSlots
  <2>2. CASE \E i \in Slot : req' = [req EXCEPT ![i] = Nil]
    <3>1. PICK i \in Slot : req' = [req EXCEPT ![i] = Nil]
      BY <2>2
    <3>2. SlotOK(Nil, flows', session')
      BY NilType DEF SlotOK
    <3>3. /\ req' \in [Slot -> Request \cup Response \cup {Nil}]
          /\ req'[i] = Nil /\ \A j \in Slot \ {i} : req'[j] = req[j]
          /\ \A j \in Slot : SlotOK(req'[j], flows', session')
      BY <1>1, <3>1, <3>2, SlotStep
    <3> QED BY <3>3, NilType DEF Redeems
  <2> QED BY <2>1, <2>2
<1>7. RedeemedOnce'
  BY <1>1, <1>6, RedeemedKept
<1> QED BY <1>4, <1>5, <1>6, <1>7 DEF SignInInv, TypeOK, LimiterInv, J

LEMMA ReceiveStep ==
  ASSUME SignInInv, LimiterInv', NEW i \in Slot, Receive(i)
  PROVE  SignInInv'
<1>1. req[i] \in Response
  BY Handling DEF Receive, SignInInv
<1> DEFINE b == req[i].from
           c == [state |-> Set(jar[b].state, req[i].setState),
                 session |-> Set(jar[b].session, req[i].setSession)]
<1>2. b \in Browser /\ req[i].setState \in Flow \cup {None, Keep} /\ req[i].setSession \in Flow \cup {None, Keep}
  BY <1>1, ResponseFields
<1>3. jar[b].state \in Flow \cup {None} /\ jar[b].session \in Flow \cup {None}
  BY <1>2 DEF SignInInv, TypeOK
<1>4. CookiesOK(b, jar[b], flows, session) /\ ResponseOK(req[i], flows, session)
  BY <1>1, <1>2 DEF SignInInv, SlotOK
<1>5. jar' = [jar EXCEPT ![b] = c]
  BY DEF Receive
<1>6. /\ c.state = Set(jar[b].state, req[i].setState)
      /\ c.session = Set(jar[b].session, req[i].setSession)
      /\ c.state \in Flow \cup {None} /\ c.session \in Flow \cup {None}
  BY <1>2, <1>3 DEF Set
<1>7. c \in [state : Flow \cup {None}, session : Flow \cup {None}]
  BY <1>6
<1> HIDE DEF c, b
<1>8. CookiesOK(b, c, flows, session)
  BY <1>2, <1>3, <1>4, <1>6, FlowNumbers DEF CookiesOK, ResponseOK, Set, b
<1>9. UNCHANGED <<flows, session, active, faults>> /\ req' = [req EXCEPT ![i] = Nil]
  BY DEF Receive, server
<1> QED BY <1>2, <1>5, <1>7, <1>8, <1>9, JarStep

LEMMA StateExpiresStep ==
  ASSUME SignInInv, LimiterInv', NEW b \in Browser, StateExpires(b)
  PROVE  SignInInv'
<1> DEFINE c == [jar[b] EXCEPT !.state = None]
<1>1. jar[b] \in [state : Flow \cup {None}, session : Flow \cup {None}]
  BY DEF SignInInv, TypeOK
<1>2. c \in [state : Flow \cup {None}, session : Flow \cup {None}] /\ c.state = None /\ c.session = jar[b].session
  BY <1>1
<1>3. jar' = [jar EXCEPT ![b] = c] /\ UNCHANGED <<flows, session, active, faults, req>>
  BY DEF StateExpires, server
<1> HIDE DEF c
<1>4. CookiesOK(b, c, flows, session)
  BY <1>2 DEF SignInInv, CookiesOK
<1> QED BY <1>2, <1>3, <1>4, JarStep

LEMMA AnswerLostStep ==
  ASSUME SignInInv, LimiterInv', NEW i \in Slot, AnswerLost(i)
  PROVE  SignInInv'
<1>1. UNCHANGED <<jar, flows, session, active>> /\ faults' \in 0 .. MaxFaults
  BY FaultType DEF AnswerLost, server, SignInInv
<1>2. SlotOK(Nil, flows, session)
  BY NilType DEF SlotOK
<1> QED BY <1>1, <1>2, NilType, RequestStep DEF AnswerLost

LEMMA SessionExpiresStep ==
  ASSUME SignInInv, LimiterInv', NEW f \in Flow, SessionExpires(f)
  PROVE  SignInInv'
<1>1. session \in [Flow -> {"none", "live", "expired", "destroyed"}]
  BY DEF SignInInv, TypeOK
<1>2. /\ session' \in [Flow -> {"none", "live", "expired", "destroyed"}]
      /\ session[f] = "live" /\ session'[f] = "expired" /\ \A g \in Flow : g # f => session'[g] = session[g]
  BY <1>1 DEF SessionExpires
<1>3. UNCHANGED <<jar, flows, active, req, faults>>
  BY DEF SessionExpires
<1>4. Grow /\ NoNewSession
  BY <1>2, <1>3 DEF Grow, NoNewSession
<1>5. RedeemedOnce'
  BY <1>3, <1>4, SameSlots, RedeemedKept
<1> QED BY <1>2, <1>3, <1>4, <1>5, SameSlots, SameCookies DEF SignInInv, TypeOK, LimiterInv

(* Steps of the limiter, the administrator and the clock, and no step. *)
LEMMA OtherStep ==
  ASSUME SignInInv, LimiterInv', UNCHANGED <<jar, flows, session, req, faults>>, active' \subseteq User
  PROVE  SignInInv'
<1>1. Grow /\ NoNewSession
  BY UnchangedGrow
<1>2. RedeemedOnce'
  BY <1>1, SameSlots, RedeemedKept
<1> QED BY <1>1, <1>2, SameSlots, SameCookies DEF SignInInv, TypeOK, LimiterInv

-----------------------------------------------------------------------------
(* The theorems *)

LEMMA LimiterStep ==
  ASSUME LimiterInv, [Next]_vars
  PROVE  LimiterInv'
<1>1. CASE UNCHANGED limiter
  BY <1>1 DEF limiter, LimiterInv, LimiterTypeOK, Accounted, OldestFirst
<1>2. ASSUME NEW b \in Browser, allow(Addr[b]) PROVE LimiterInv'
  BY <1>2, AllowStep, SignInAssumption
<1>3. ASSUME NEW b \in Browser, deny(Addr[b]) PROVE LimiterInv'
  BY <1>3, DenyStep, SignInAssumption
<1>4. CASE Tick
  BY <1>4, TickStep DEF Tick
<1>5. CASE Forget
  BY <1>5, SweepStep DEF Forget
<1>6. CASE \E i \in Slot : Handle(i) \/ Receive(i) \/ AnswerLost(i)
  BY <1>1, <1>6 DEF Handle, ExchangeCode, ExchangeRefused, FetchUser, AuthenticateUser,
                    ValidateSession, DestroySession, Receive, AnswerLost
<1>7. CASE \E i \in Slot, b \in Browser :
              \/ OpenReset(i, b)
              \/ \E f \in Flow : OpenCallback(i, b, f)
              \/ \E step \in {"validate", "leave"} : OpenPage(i, b, step)
  BY <1>1, <1>7 DEF OpenReset, OpenCallback, OpenPage
<1>8. CASE \E i \in Slot, b \in Browser : oauthStartHandler(i, b)
  BY <1>2, <1>8 DEF oauthStartHandler
<1>9. CASE \E b \in Browser : StateExpires(b)
  BY <1>1, <1>9 DEF StateExpires
<1>10. CASE \E b \in Browser : StartInVain(b)
  BY <1>2, <1>3, <1>10 DEF StartInVain
<1>11. CASE \/ \E f \in Flow, u \in User : Authorize(f, u)
            \/ \E f \in Flow : SessionExpires(f)
            \/ \E u \in User : UpdateStatus(u)
  BY <1>1, <1>11 DEF Authorize, SessionExpires, UpdateStatus
<1>12. CASE UNCHANGED vars
  BY <1>1, <1>12 DEF vars
<1> QED BY <1>4, <1>5, <1>6, <1>7, <1>8, <1>9, <1>10, <1>11, <1>12 DEF Next

LEMMA SignInInitially == Init => SignInInv
<1> SUFFICES ASSUME Init PROVE SignInInv
  OBVIOUS
<1>1. LimiterInv
  BY LimiterInitially DEF Init
<1>2. TypeOK
  BY <1>1, SignInAssumption DEF Init, TypeOK, LimiterInv
<1>3. \A i \in Slot : SlotOK(req[i], flows, session)
  BY NilType DEF Init, SlotOK
<1>4. \A b \in Browser : CookiesOK(b, jar[b], flows, session)
  BY DEF Init, CookiesOK
<1>5. RedeemedOnce
  BY NilType DEF Init, RedeemedOnce, Redeems
<1> QED BY <1>1, <1>2, <1>3, <1>4, <1>5 DEF Init, SignInInv

LEMMA SignInStep ==
  ASSUME SignInInv, [Next]_vars
  PROVE  SignInInv'
<1>1. LimiterInv'
  BY LimiterStep DEF SignInInv
<1>2. ASSUME NEW i \in Slot, Handle(i) PROVE SignInInv'
  BY <1>1, <1>2, ExchangeCodeStep, ExchangeRefusedStep, FetchUserStep, AuthenticateUserStep,
     ValidateSessionStep, DestroySessionStep DEF Handle
<1>3. ASSUME NEW i \in Slot, Receive(i) \/ AnswerLost(i) PROVE SignInInv'
  BY <1>1, <1>3, ReceiveStep, AnswerLostStep
<1>4. ASSUME NEW i \in Slot, NEW b \in Browser, oauthStartHandler(i, b) \/ OpenReset(i, b) PROVE SignInInv'
  BY <1>1, <1>4, oauthStartStep, OpenResetStep
<1>5. ASSUME NEW i \in Slot, NEW b \in Browser, NEW f \in Flow, OpenCallback(i, b, f) PROVE SignInInv'
  BY <1>1, <1>5, OpenCallbackStep
<1>6. ASSUME NEW i \in Slot, NEW b \in Browser, NEW step \in {"validate", "leave"}, OpenPage(i, b, step)
      PROVE  SignInInv'
  BY <1>1, <1>6, OpenPageStep DEF OpenPage
<1>7. ASSUME NEW f \in Flow, NEW u \in User, Authorize(f, u) PROVE SignInInv'
  BY <1>1, <1>7, AuthorizeStep
<1>8. ASSUME NEW b \in Browser, StateExpires(b) PROVE SignInInv'
  BY <1>1, <1>8, StateExpiresStep
<1>9. ASSUME NEW f \in Flow, SessionExpires(f) PROVE SignInInv'
  BY <1>1, <1>9, SessionExpiresStep
<1>10. active \subseteq User
  BY DEF SignInInv, TypeOK
<1>11. ASSUME NEW u \in User, UpdateStatus(u) PROVE SignInInv'
  <2>1. active' \subseteq User
    BY <1>10, <1>11 DEF UpdateStatus
  <2> QED BY <1>1, <1>11, <2>1, OtherStep DEF UpdateStatus
<1>12. ASSUME NEW b \in Browser, StartInVain(b) PROVE SignInInv'
  BY <1>1, <1>10, <1>12, OtherStep DEF StartInVain, server
<1>13. CASE Tick \/ Forget
  BY <1>1, <1>10, <1>13, OtherStep DEF Tick, Forget, server
<1>14. CASE UNCHANGED vars
  BY <1>1, <1>10, <1>14, OtherStep DEF vars, server
<1> QED BY <1>2, <1>3, <1>4, <1>5, <1>6, <1>7, <1>8, <1>9, <1>11, <1>12, <1>13, <1>14 DEF Next

(* The inductive invariant holds in every reachable state. *)
THEOREM SignInInvariant == Spec => []SignInInv
<1>1. Init => SignInInv
  BY SignInInitially
<1>2. SignInInv /\ [Next]_vars => SignInInv'
  BY SignInStep
<1> QED BY <1>1, <1>2, PTL DEF Spec

(* Cookies, flows, sessions, requests and the limiter have their types. *)
THEOREM TypeCorrect == Spec => []TypeOK
<1>1. SignInInv => TypeOK
  BY DEF SignInInv
<1> QED BY <1>1, SignInInvariant, PTL

(* No address is admitted more than Rate times in a window, whatever the    *)
(* order of its requests, of the ticks and of the sweep of newRateLimiter.  *)
THEOREM RateKept == Spec => []AtMostRate
<1>1. SignInInv => AtMostRate
  <2> SUFFICES ASSUME SignInInv, NEW ip \in Ip PROVE Len(admitted[ip]) <= Rate
    BY DEF AtMostRate
  <2>1. Accounted(visitors[ip], admitted[ip]) /\ visitors[ip] \in Visitor \cup {Nil} /\ admitted[ip] \in Ages
    BY DEF SignInInv, LimiterInv, LimiterTypeOK, Ages
  <2>2. CASE visitors[ip] = Nil
    BY <2>1, <2>2, LimiterConstants DEF Accounted
  <2>3. CASE visitors[ip] # Nil
    <3>1. visitors[ip].tokens \in Nat /\ Len(admitted[ip]) \in Nat
      BY <2>1, <2>3, AgesType DEF Visitor
    <3> QED BY <2>1, <2>3, <3>1, LimiterConstants DEF Accounted
  <2> QED BY <2>2, <2>3
<1> QED BY <1>1, SignInInvariant, PTL

(* oauthCallbackHandler signs in only the browser that began the sign-in:   *)
(* neither a cookie nor an answer on its way carries another one's session. *)
THEOREM SessionsAreOwn == Spec => []OwnSession
<1>1. SignInInv => OwnSession
  <2> SUFFICES ASSUME SignInInv PROVE OwnSession
    OBVIOUS
  <2>1. \A b \in Browser : jar[b].session # None => flows[jar[b].session].by = b
    BY DEF SignInInv, CookiesOK
  <2>2. \A i \in Slot : At(i, "answer") /\ req[i].setSession \in Flow
                         => flows[req[i].setSession].by = req[i].from
    BY Handling DEF SignInInv, SlotOK, ResponseOK
  <2> QED BY <2>1, <2>2 DEF OwnSession
<1> QED BY <1>1, SignInInvariant, PTL
=============================================================================
