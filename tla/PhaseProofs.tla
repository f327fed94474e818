---------------------------- MODULE PhaseProofs -----------------------------
(***************************************************************************)
(* Proofs for what the phases of an import do with GitHub's answers: the   *)
(* rows the enrichment phases leave (Enrich), for any number of imports of *)
(* a repository at once, any page and chunk size and any number of         *)
(* retries, and the rotation of the tokens they ask with (TokenPool), for  *)
(* pools of any size, any number of importers and goroutines and any       *)
(* pattern of refusals and expiries.                                       *)
(***************************************************************************)
EXTENDS Enrich, TokenPool, TLAPS, FiniteSetTheorems, WellFoundedInduction

(* Constants, maxima and the order of the phases. *)

(* The constants, one by one. *)
LEMMA Constant ==
  /\ PageSize \in Nat \ {0} /\ insightsMaxRetries \in Nat \ {0} /\ reputationChunkSize \in Nat \ {0}
  /\ transientRetryAttempts \in Nat /\ reputationStale \in Nat /\ insightsMinAge \in Nat
  /\ backfillDays \in Nat /\ MaxDay \in Nat /\ MaxChanges \in Nat
BY EnrichAssumption

(* The larger of two numbers. *)
LEMMA MaxOfTwo ==
  ASSUME NEW a \in Int, NEW b \in Int
  PROVE  Max({a, b}) \in {a, b} /\ Max({a, b}) >= a /\ Max({a, b}) >= b
<1>1. \E x \in {a, b} : \A y \in {a, b} : x >= y
  OBVIOUS
<1> QED BY <1>1 DEF Max

(* A set of positive numbers with a bound has a largest one: the one that   *)
(* is nearest the bound.                                                    *)
LEMMA MaxExists ==
  ASSUME NEW n \in Nat, NEW S \in SUBSET (1 .. n), S # {}
  PROVE  Max(S) \in S /\ \A y \in S : Max(S) >= y
<1> DEFINE T == {k \in Nat : \E x \in S : k = n - x}
<1>1. T \subseteq Nat /\ T # {}
  <2>1. PICK x \in S : x \in 1 .. n
    OBVIOUS
  <2>2. n - x \in T
    BY <2>1
  <2> QED BY <2>2
<1>2. PICK k \in T : \A y \in T : ~(<<y, k>> \in OpToRel(<, Nat))
  BY <1>1, NatLessThanWellFounded, WFMin, Zenon
<1>3. \A y \in T : ~(y < k)
  BY <1>2 DEF OpToRel
<1>4. PICK x \in S : k = n - x
  OBVIOUS
<1>5. \A y \in S : n - y \in T
  OBVIOUS
<1>6. \A y \in S : x >= y
  BY <1>3, <1>4, <1>5
<1> QED BY <1>4, <1>6 DEF Max

(* The phase of every label. *)
LEMMA PhaseTable ==
  /\ PhaseOf("releases") = "releases" /\ PhaseOf("releasePage") = "releases"
  /\ PhaseOf("metrics") = "metrics" /\ PhaseOf("starCount") = "metrics" /\ PhaseOf("starSave") = "metrics"
  /\ PhaseOf("containers") = "containers" /\ PhaseOf("versionPage") = "containers"
  /\ PhaseOf("versionSave") = "containers"
  /\ PhaseOf("reputation") = "reputation" /\ PhaseOf("score") = "reputation"
  /\ PhaseOf("insights") = "insights" /\ PhaseOf("insightGate") = "insights" /\ PhaseOf("gather") = "insights"
  /\ PhaseOf("llm") = "insights" /\ PhaseOf("insightSave") = "insights"
BY DEF PhaseOf

InPhase == Labels \ {"idle", "done"}

(* A label within a phase belongs to one of the five. *)
LEMMA PhaseKnown ==
  ASSUME NEW l \in InPhase
  PROVE  PhaseOf(l) \in {"releases", "metrics", "containers", "reputation", "insights"}
BY PhaseTable DEF InPhase, Labels, Resting

(* A phase ends before another one or at the end of the import. *)
LEMMA AfterKnown ==
  ASSUME NEW r, NEW l \in InPhase
  PROVE  /\ After(r, l) \in Resting \ {"idle"}
         /\ PhaseOf(l) = "insights" => After(r, l) = "done"
BY PhaseKnown DEF After, Resting

(* The phases left, by the label a phase begins with. *)
LEMMA LeftTable ==
  /\ PhasesLeft("done") = 0 /\ PhasesLeft("insights") = 1 /\ PhasesLeft("reputation") = 2
  /\ PhasesLeft("containers") = 3 /\ PhasesLeft("metrics") = 4 /\ PhasesLeft("releases") = 5
<1>1. PhasesLeft("done") = 0
  BY DEF PhasesLeft
<1>2. PhasesLeft("insights") = 1
  BY PhaseTable, Zenon DEF PhasesLeft
<1>3. PhasesLeft("reputation") = 2
  BY PhaseTable, Zenon DEF PhasesLeft
<1>4. PhasesLeft("containers") = 3
  BY PhaseTable, Zenon DEF PhasesLeft
<1>5. PhasesLeft("metrics") = 4
  BY PhaseTable, Zenon DEF PhasesLeft
<1>6. PhasesLeft("releases") = 5
  BY PhaseTable, Zenon DEF PhasesLeft
<1> QED BY <1>1, <1>2, <1>3, <1>4, <1>5, <1>6

(* The order of the phases. *)
LEMMA AfterTable ==
  ASSUME NEW r, NEW l
  PROVE  /\ PhaseOf(l) = "releases" => After(r, l) = "metrics"
         /\ PhaseOf(l) = "metrics" => After(r, l) = "containers"
         /\ PhaseOf(l) = "containers" => After(r, l) = "reputation"
         /\ PhaseOf(l) = "reputation" => After(r, l) = IF r \in Paying THEN "insights" ELSE "done"
         /\ PhaseOf(l) = "insights" => After(r, l) = "done"
BY Zenon DEF After

(* The phases left are those of the phase the label belongs to. *)
LEMMA LeftOf ==
  ASSUME NEW l \in InPhase
  PROVE  PhasesLeft(l) = PhasesLeft(PhaseOf(l))
<1>1. l # "done"
  BY DEF InPhase
<1>2. CASE PhaseOf(l) = "insights"
  BY <1>1, <1>2, PhaseTable, Zenon DEF PhasesLeft
<1>3. CASE PhaseOf(l) = "reputation"
  BY <1>1, <1>3, PhaseTable, Zenon DEF PhasesLeft
<1>4. CASE PhaseOf(l) = "containers"
  BY <1>1, <1>4, PhaseTable, Zenon DEF PhasesLeft
<1>5. CASE PhaseOf(l) = "metrics"
  BY <1>1, <1>5, PhaseTable, Zenon DEF PhasesLeft
<1>6. CASE PhaseOf(l) = "releases"
  BY <1>1, <1>6, PhaseTable, Zenon DEF PhasesLeft
<1> QED BY <1>2, <1>3, <1>4, <1>5, <1>6, PhaseKnown

(* Ending a phase leaves fewer. *)
LEMMA PhaseEnds ==
  ASSUME NEW r, NEW l \in InPhase
  PROVE  PhasesLeft(After(r, l)) < PhasesLeft(l)
BY LeftOf, LeftTable, AfterTable, PhaseKnown

AttemptBound == Max({transientRetryAttempts, insightsMaxRetries - 1})

(* The bound is a number. *)
LEMMA AttemptBoundType ==
  /\ AttemptBound \in Nat /\ transientRetryAttempts <= AttemptBound /\ insightsMaxRetries - 1 <= AttemptBound
BY Constant, MaxOfTwo DEF AttemptBound

(* An import starts a phase with its variables empty. *)
LEMMA BlankType == Blank \in Memory
BY DEF Blank, Memory, Never

(* Types are kept by a jump, *)
LEMMA GotoType ==
  ASSUME TypeOK, NEW r \in Run, NEW l \in Labels, Goto(r, l)
  PROVE  pc' \in [Run -> Labels] /\ pc'[r] = l /\ \A q \in Run \ {r} : pc'[q] = pc[q]
<1>1. pc \in [Run -> Labels]
  BY DEF TypeOK
<1> QED BY <1>1 DEF Goto

(* by a change of the variables of an import, *)
LEMMA PutType ==
  ASSUME TypeOK, NEW r \in Run, NEW m \in Memory, Put(r, m)
  PROVE  mem' \in [Run -> Memory] /\ mem'[r] = m /\ \A q \in Run \ {r} : mem'[q] = mem[q]
<1>1. mem \in [Run -> Memory]
  BY DEF TypeOK
<1> QED BY <1>1 DEF Put

(* and by the end of a phase. *)
LEMMA EndType ==
  ASSUME TypeOK, NEW r \in Run, pc[r] \in InPhase, EndPhase(r)
  PROVE  /\ pc' \in [Run -> Labels] /\ pc'[r] = After(r, pc[r]) /\ \A q \in Run \ {r} : pc'[q] = pc[q]
         /\ mem' \in [Run -> Memory] /\ mem'[r] = Blank /\ \A q \in Run \ {r} : mem'[q] = mem[q]
         /\ attempt' \in [Run -> 0 .. AttemptBound] /\ attempt'[r] = 0
         /\ \A q \in Run \ {r} : attempt'[q] = attempt[q]
<1>1. After(r, pc[r]) \in Labels
  BY AfterKnown DEF Labels
<1>2. attempt \in [Run -> 0 .. AttemptBound]
  BY DEF TypeOK, AttemptBound
<1>3. Goto(r, After(r, pc[r])) /\ Put(r, Blank) /\ attempt' = [attempt EXCEPT ![r] = 0]
  BY DEF EndPhase
<1>4. attempt' \in [Run -> 0 .. AttemptBound] /\ attempt'[r] = 0 /\ \A q \in Run \ {r} : attempt'[q] = attempt[q]
  BY <1>2, <1>3, AttemptBoundType
<1> QED BY <1>1, <1>3, <1>4, GotoType, PutType, BlankType

(* What a step of the import r leaves alone: the other imports. *)
Alone(r) ==
  /\ \A q \in Run \ {r} : pc'[q] = pc[q] /\ mem'[q] = mem[q] /\ attempt'[q] = attempt[q]
  /\ pc' \in [Run -> Labels] /\ mem' \in [Run -> Memory] /\ attempt' \in [Run -> 0 .. AttemptBound]

(* These three change nothing for the other imports. *)
LEMMA EndAlone ==
  ASSUME TypeOK, NEW r \in Run, pc[r] \in InPhase, EndPhase(r)
  PROVE  Alone(r) /\ pc'[r] \in Resting /\ mem'[r] = Blank /\ attempt'[r] = 0
BY EndType, AfterKnown DEF Alone

(* Nor does a jump with a change of the variables, *)
LEMMA MoveAlone ==
  ASSUME TypeOK, NEW r \in Run, NEW l \in Labels, NEW m \in Memory,
         Goto(r, l), Put(r, m), UNCHANGED attempt
  PROVE  Alone(r) /\ pc'[r] = l /\ mem'[r] = m /\ attempt'[r] = attempt[r]
BY GotoType, PutType DEF Alone, TypeOK, AttemptBound

(* a jump, *)
LEMMA GoAlone ==
  ASSUME TypeOK, NEW r \in Run, NEW l \in Labels, Goto(r, l), UNCHANGED <<mem, attempt>>
  PROVE  Alone(r) /\ pc'[r] = l /\ mem'[r] = mem[r] /\ attempt'[r] = attempt[r]
BY GotoType DEF Alone, TypeOK, AttemptBound

(* or a change of the variables. *)
LEMMA StayAlone ==
  ASSUME TypeOK, NEW r \in Run, NEW m \in Memory, Put(r, m), UNCHANGED <<pc, attempt>>
  PROVE  Alone(r) /\ pc'[r] = pc[r] /\ mem'[r] = m /\ attempt'[r] = attempt[r]
BY PutType DEF Alone, TypeOK, AttemptBound

(* The variables of an import, one by one. *)
LEMMA MemType ==
  ASSUME TypeOK, NEW r \in Run
  PROVE  /\ mem[r] \in Memory /\ pc[r] \in Labels /\ attempt[r] \in 0 .. AttemptBound
         /\ mem[r].from \in Nat \cup {Never} /\ mem[r].latest \in Nat /\ mem[r].page \in Nat
         /\ mem[r].todo \in SUBSET Nat /\ mem[r].total \in Nat
         /\ mem[r].curve \in [Days -> Nat \cup {Never}] /\ mem[r].flat \in BOOLEAN
<1>1. mem[r] \in Memory /\ pc[r] \in Labels /\ attempt[r] \in 0 .. AttemptBound
  BY DEF TypeOK, AttemptBound
<1> QED BY <1>1 DEF Memory

(* A watermark is 0 or one of the numbers stored. *)
LEMMA NewestType ==
  ASSUME NEW n \in Nat, NEW S \in SUBSET (1 .. n)
  PROVE  /\ Newest(S) \in Nat
         /\ Newest(S) = 0 \/ Newest(S) \in S
         /\ \A y \in S : y <= Newest(S)
<1>1. CASE S = {}
  BY <1>1 DEF Newest
<1>2. CASE S # {}
  <2>1. Newest(S) = Max(S)
    BY <1>2 DEF Newest
  <2>2. Max(S) \in S /\ \A y \in S : Max(S) >= y
    BY <1>2, MaxExists
  <2>3. Newest(S) \in 1 .. n /\ \A y \in S : y \in 1 .. n
    BY <2>1, <2>2
  <2> QED BY <2>1, <2>2, <2>3
<1> QED BY <1>1, <1>2

(* A product of positive numbers is positive. *)
LEMMA Product ==
  ASSUME NEW p \in Nat \ {0}
  PROVE  /\ p * PageSize \in Nat /\ (p - 1) * PageSize \in Nat
         /\ p * PageSize = (p - 1) * PageSize + PageSize
         /\ ((p + 1) - 1) * PageSize = p * PageSize
BY Constant

(* A page holds the numbers between what it and what the next page leave    *)
(* unread; without a next page nothing is left unread.                      *)
LEMMA Paging ==
  ASSUME NEW n \in Nat, NEW p \in Nat \ {0}
  PROVE  /\ Unread(n, p) \in Int /\ Unread(n, p + 1) \in Int
         /\ Unread(n, p + 1) < Unread(n, p)
         /\ PageOf(n, p) \subseteq 1 .. n
         /\ \A i \in 1 .. n : i \in PageOf(n, p) <=> (Unread(n, p + 1) < i /\ i <= Unread(n, p))
         /\ NextPage(n, p) <=> Unread(n, p + 1) > 0
         /\ Unread(n + 1, p) = Unread(n, p) + 1
<1> DEFINE a == (p - 1) * PageSize
           b == p * PageSize
<1>1. a \in Nat /\ b \in Nat /\ b = a + PageSize /\ ((p + 1) - 1) * PageSize = b
  BY Product
<1>2. /\ Unread(n, p) = n - a /\ Unread(n, p + 1) = n - b /\ Unread(n + 1, p) = (n + 1) - a
      /\ NextPage(n, p) <=> b < n
      /\ PageOf(n, p) = {i \in 1 .. n : a < n - i + 1 /\ n - i + 1 <= b}
  BY <1>1 DEF Unread, NextPage, PageOf
<1> HIDE DEF a, b
<1>3. PageSize \in Nat \ {0}
  BY Constant
<1> QED BY <1>1, <1>2, <1>3

(* Before the first page nothing is read. *)
LEMMA FirstPage ==
  ASSUME NEW n \in Nat
  PROVE  Unread(n, 1) = n
BY Constant DEF Unread

-----------------------------------------------------------------------------
(* What every step does to its import. *)

Rests(r) == Alone(r) /\ pc'[r] \in Resting

(* An import begins at the first phase, at the insights, or ends. *)
LEMMA StartStep ==
  ASSUME TypeOK, NEW r \in Run, runEnrichmentPhases(r) \/ runCatchUpInsights(r)
  PROVE  pc[r] = "idle" /\ Rests(r) /\ UNCHANGED <<world, rows, observed>>
<1>1. CASE runEnrichmentPhases(r)
  BY <1>1, GoAlone DEF runEnrichmentPhases, Rests, Resting, Labels
<1>2. CASE runCatchUpInsights(r)
  BY <1>2, GoAlone DEF runCatchUpInsights, Rests, Resting, Labels
<1> QED BY <1>1, <1>2

(* A working import is within a phase. *)
LEMMA WorkingPhase ==
  ASSUME TypeOK, NEW r \in Run, Working(r)
  PROVE  pc[r] \in InPhase
BY MemType DEF Working, InPhase

(* What each action does to the import that takes it and to the rows.       *)
(* Retry starts the phase again,                                            *)
LEMMA RetryStep ==
  ASSUME TypeOK, NEW r \in Run, Retry(r)
  PROVE  /\ Working(r) /\ Rests(r) /\ Interrupted(r) /\ UNCHANGED <<world, rows, flat, vouched>>
         /\ pc'[r] = PhaseOf(pc[r]) /\ attempt'[r] = attempt[r] + 1
<1>1. pc[r] \in InPhase
  BY WorkingPhase DEF Retry
<1>2. PhaseOf(pc[r]) \in Resting /\ PhaseOf(pc[r]) \in Labels
  BY <1>1, PhaseKnown DEF Resting, Labels
<1>3. Goto(r, PhaseOf(pc[r])) /\ Put(r, Blank) /\ attempt' = [attempt EXCEPT ![r] = @ + 1]
      /\ attempt[r] < transientRetryAttempts
  BY DEF Retry
<1>4. attempt \in [Run -> 0 .. AttemptBound]
  BY DEF TypeOK, AttemptBound
<1>5. /\ attempt' \in [Run -> 0 .. AttemptBound] /\ attempt'[r] = attempt[r] + 1
      /\ \A q \in Run \ {r} : attempt'[q] = attempt[q]
  BY <1>3, <1>4, AttemptBoundType, Constant
<1> QED BY <1>2, <1>3, <1>5, GotoType, PutType, BlankType DEF Alone, Rests, Retry

(* a failure goes on to the next, *)
LEMMA FailStep ==
  ASSUME TypeOK, NEW r \in Run, PhaseFails(r)
  PROVE  /\ Working(r) /\ Rests(r) /\ Interrupted(r) /\ UNCHANGED <<world, rows, flat, vouched>>
         /\ pc'[r] = After(r, pc[r])
BY WorkingPhase, EndAlone, EndType DEF PhaseFails, Rests

(* cancellation ends the import. *)
LEMMA CancelStep ==
  ASSUME TypeOK, NEW r \in Run, Cancel(r)
  PROVE  /\ Working(r) /\ Rests(r) /\ Interrupted(r) /\ UNCHANGED <<world, rows, flat, vouched>>
         /\ pc'[r] = "done"
<1>1. Goto(r, "done") /\ Put(r, Blank) /\ attempt' = [attempt EXCEPT ![r] = 0]
  BY DEF Cancel
<1>2. attempt \in [Run -> 0 .. AttemptBound]
  BY DEF TypeOK, AttemptBound
<1>3. /\ attempt' \in [Run -> 0 .. AttemptBound] /\ \A q \in Run \ {r} : attempt'[q] = attempt[q]
  BY <1>1, <1>2, AttemptBoundType
<1>4. "done" \in Labels /\ "done" \in Resting
  BY DEF Labels, Resting
<1> QED BY <1>1, <1>3, <1>4, GotoType, PutType, BlankType DEF Alone, Rests, Cancel

(* ImportReleases reads the watermark. *)
LEMMA ReleasesStep ==
  ASSUME TypeOK, NEW r \in Run, ImportReleases(r)
  PROVE  /\ Alone(r) /\ pc'[r] = "releasePage" /\ pc[r] = "releases" /\ attempt'[r] = attempt[r]
         /\ mem'[r].from = published /\ mem'[r].latest = Newest(releases) /\ mem'[r].page = 1
         /\ UNCHANGED <<world, rows, observed>>
<1> DEFINE m == [Blank EXCEPT !.from = published, !.latest = Newest(releases), !.page = 1]
<1>1. published \in Nat /\ Newest(releases) \in Nat
  BY NewestType DEF TypeOK
<1>2. m \in Memory /\ m.from = published /\ m.latest = Newest(releases) /\ m.page = 1
  BY <1>1 DEF Blank, Memory, Never
<1>3. Goto(r, "releasePage") /\ Put(r, m) /\ UNCHANGED attempt
  BY DEF ImportReleases
<1>4. "releasePage" \in Labels
  BY DEF Labels
<1> HIDE DEF m
<1> QED BY <1>2, <1>3, <1>4, MoveAlone DEF ImportReleases

(* ImportRepoMetricHistory reads the total. *)
LEMMA MetricStep ==
  ASSUME TypeOK, NEW r \in Run, ImportRepoMetricHistory(r)
  PROVE  /\ Alone(r) /\ pc'[r] = "starCount" /\ pc[r] = "metrics" /\ attempt'[r] = attempt[r]
         /\ mem'[r].total = starred[day]
         /\ UNCHANGED <<world, rows, observed>>
<1> DEFINE m == [Blank EXCEPT !.total = starred[day]]
<1>1. starred[day] \in Nat
  BY DEF TypeOK
<1>2. m \in Memory /\ m.total = starred[day]
  BY <1>1 DEF Blank, Memory, Never
<1>3. Goto(r, "starCount") /\ Put(r, m) /\ UNCHANGED attempt
  BY DEF ImportRepoMetricHistory
<1>4. "starCount" \in Labels
  BY DEF Labels
<1> HIDE DEF m
<1> QED BY <1>2, <1>3, <1>4, MoveAlone DEF ImportRepoMetricHistory

(* The totals of the days are numbers, and Never outside the window. *)
LEMMA CurveType ==
  ASSUME TypeOK, NEW total \in Nat, NEW listed \in BOOLEAN
  PROVE  /\ buildDailyTotals(total, listed) \in [Days -> Nat \cup {Never}]
         /\ listed => \A d \in Days : buildDailyTotals(total, listed)[d] # Never =>
              d <= day /\ buildDailyTotals(total, listed)[d] \in {0, total - (starred[day] - starred[d])}
<1>1. ASSUME NEW d \in Days
      PROVE  LET x == IF listed THEN total - StarsAfter(d) ELSE total
             IN  x \in Int /\ Max({0, x}) \in Nat /\ Max({0, x}) \in {0, x}
  <2>1. starred[d] \in Nat /\ starred[day] \in Nat
    BY DEF TypeOK
  <2> DEFINE x == IF listed THEN total - StarsAfter(d) ELSE total
  <2>2. x \in Int
    BY <2>1 DEF StarsAfter
  <2> HIDE DEF x
  <2>3. Max({0, x}) \in {0, x} /\ Max({0, x}) >= 0
    BY <2>2, MaxOfTwo
  <2>4. Max({0, x}) \in Nat
    BY <2>2, <2>3
  <2> QED BY <2>2, <2>3, <2>4 DEF x
<1>2. buildDailyTotals(total, listed) \in [Days -> Nat \cup {Never}]
  BY <1>1 DEF buildDailyTotals
<1>3. ASSUME NEW d \in Days, listed, buildDailyTotals(total, listed)[d] # Never
      PROVE  d <= day /\ buildDailyTotals(total, listed)[d] \in {0, total - (starred[day] - starred[d])}
  BY <1>1, <1>3 DEF buildDailyTotals, Window, StarsAfter
<1> QED BY <1>2, <1>3

(* countRecentStarsByDay computes the curve. *)
LEMMA CountStep ==
  ASSUME TypeOK, NEW r \in Run, countRecentStarsByDay(r)
  PROVE  /\ Alone(r) /\ pc'[r] = "starSave" /\ pc[r] = "starCount" /\ attempt'[r] = attempt[r]
         /\ UNCHANGED <<world, rows, observed>>
         /\ \E listed \in BOOLEAN : mem'[r].flat = ~listed
                                   /\ mem'[r].curve = buildDailyTotals(mem[r].total, listed)
<1>1. PICK listed \in BOOLEAN :
        Put(r, [mem[r] EXCEPT !.curve = buildDailyTotals(mem[r].total, listed), !.flat = ~listed])
  BY DEF countRecentStarsByDay
<1> DEFINE c == buildDailyTotals(mem[r].total, listed)
           m == [mem[r] EXCEPT !.curve = c, !.flat = ~listed]
<1>2. mem[r] \in Memory /\ mem[r].total \in Nat
  BY MemType
<1>3. c \in [Days -> Nat \cup {Never}]
  BY <1>2, CurveType
<1> HIDE DEF c
<1>4. m \in Memory /\ m.curve = c /\ m.flat = ~listed
  BY <1>2, <1>3 DEF Memory
<1>5. Goto(r, "starSave") /\ Put(r, m) /\ UNCHANGED attempt
  BY <1>1 DEF countRecentStarsByDay, c
<1>6. "starSave" \in Labels
  BY DEF Labels
<1> HIDE DEF m
<1> QED BY <1>4, <1>5, <1>6, MoveAlone DEF countRecentStarsByDay, c

(* upsertMetricHistory writes it. *)
LEMMA MetricsSaved ==
  ASSUME TypeOK, NEW r \in Run, upsertMetricHistory(r)
  PROVE  /\ Rests(r) /\ pc[r] = "starSave" /\ pc'[r] = After(r, pc[r])
         /\ UNCHANGED <<world, releases, versions, scored, insight, cut, vouched>>
<1>1. pc[r] \in InPhase
  BY DEF upsertMetricHistory, InPhase, Labels, Resting
<1> QED BY <1>1, EndAlone, EndType DEF upsertMetricHistory, Rests

(* Without packages the phase ends. *)
LEMMA HiddenStep ==
  ASSUME TypeOK, NEW r \in Run, PackagesHidden(r)
  PROVE  /\ Rests(r) /\ pc[r] = "containers" /\ pc'[r] = After(r, pc[r])
         /\ UNCHANGED <<world, rows, observed>>
<1>1. pc[r] \in InPhase
  BY DEF PackagesHidden, InPhase, Labels, Resting
<1> QED BY <1>1, EndAlone, EndType DEF PackagesHidden, Rests

(* upsertContainerVersions reads the watermark. *)
LEMMA VersionsStep ==
  ASSUME TypeOK, NEW r \in Run, upsertContainerVersions(r)
  PROVE  /\ Alone(r) /\ pc'[r] = "versionPage" /\ pc[r] = "containers" /\ attempt'[r] = attempt[r]
         /\ mem'[r].from = pushed /\ mem'[r].latest = Newest(versions)
         /\ mem'[r].page = 1 /\ mem'[r].todo = {}
         /\ UNCHANGED <<world, rows, observed>>
<1> DEFINE m == [Blank EXCEPT !.from = pushed, !.latest = Newest(versions), !.page = 1]
<1>1. pushed \in Nat /\ Newest(versions) \in Nat
  BY NewestType DEF TypeOK
<1>2. m \in Memory /\ m.from = pushed /\ m.latest = Newest(versions) /\ m.page = 1 /\ m.todo = {}
  BY <1>1 DEF Blank, Memory, Never
<1>3. Goto(r, "versionPage") /\ Put(r, m) /\ UNCHANGED attempt
  BY DEF upsertContainerVersions
<1>4. "versionPage" \in Labels
  BY DEF Labels
<1> HIDE DEF m
<1> QED BY <1>2, <1>3, <1>4, MoveAlone DEF upsertContainerVersions

(* fetchAndStoreVersions adds a page to the open transaction. *)
LEMMA VersionPageStep ==
  ASSUME TypeOK, NEW r \in Run, fetchAndStoreVersions(r)
  PROVE  LET page == PageOf(pushed, mem[r].page)
             kept == NewerThan(page, mem[r].latest)
         IN  /\ Alone(r) /\ pc[r] = "versionPage" /\ attempt'[r] = attempt[r]
             /\ UNCHANGED <<world, rows, observed>>
             /\ mem'[r].from = mem[r].from /\ mem'[r].latest = mem[r].latest
             /\ mem'[r].todo = mem[r].todo \cup kept
             /\ \/ /\ kept = page /\ NextPage(pushed, mem[r].page)
                   /\ pc'[r] = "versionPage" /\ mem'[r].page = mem[r].page + 1
                \/ /\ ~(kept = page /\ NextPage(pushed, mem[r].page))
                   /\ pc'[r] = "versionSave" /\ mem'[r].page = mem[r].page
<1> DEFINE page == PageOf(pushed, mem[r].page)
           kept == NewerThan(page, mem[r].latest)
           more == kept = page /\ NextPage(pushed, mem[r].page)
<1>1. /\ pc[r] = "versionPage" /\ VersionsPaged(r, kept, page)
      /\ UNCHANGED <<world, rows, attempt, observed>>
  BY DEF fetchAndStoreVersions
<1>2. kept \in SUBSET Nat
  BY DEF NewerThan, PageOf
<1>3. mem[r] \in Memory
  BY MemType
<1>4. "versionSave" \in Labels
  BY DEF Labels
<1>5. more => Put(r, [mem[r] EXCEPT !.page = @ + 1, !.todo = @ \cup kept]) /\ UNCHANGED pc
  BY <1>1 DEF VersionsPaged
<1>6. ~more => Put(r, [mem[r] EXCEPT !.todo = @ \cup kept]) /\ Goto(r, "versionSave")
  BY <1>1 DEF VersionsPaged
<1> HIDE DEF kept
<1>7. CASE more
  <2> DEFINE m == [mem[r] EXCEPT !.page = @ + 1, !.todo = @ \cup kept]
  <2>1. /\ m \in Memory /\ m.from = mem[r].from /\ m.latest = mem[r].latest
        /\ m.page = mem[r].page + 1 /\ m.todo = mem[r].todo \cup kept
    <3>1. mem[r].page \in Nat /\ mem[r].todo \in SUBSET Nat
      BY MemType
    <3>2. PICK y : y = [mem[r] EXCEPT !.page = @ + 1]
      OBVIOUS
    <3>3. /\ y \in Memory /\ y.from = mem[r].from /\ y.latest = mem[r].latest
          /\ y.page = mem[r].page + 1 /\ y.todo = mem[r].todo
      BY <1>3, <3>1, <3>2 DEF Memory
    <3>4. m = [y EXCEPT !.todo = mem[r].todo \cup kept]
      BY <3>2
    <3>5. PICK t : t = mem[r].todo \cup kept /\ t \in SUBSET Nat
      BY <1>2, <3>1, Zenon
    <3> QED BY <3>3, <3>4, <3>5 DEF Memory
  <2>2. Put(r, m) /\ UNCHANGED <<pc, attempt>>
    BY <1>1, <1>5, <1>7
  <2> HIDE DEF m
  <2>3. Alone(r) /\ pc'[r] = pc[r] /\ mem'[r] = m /\ attempt'[r] = attempt[r]
    BY <2>1, <2>2, StayAlone
  <2> QED BY <1>1, <1>7, <2>1, <2>3 DEF kept
<1>8. CASE ~more
  <2> DEFINE m == [mem[r] EXCEPT !.todo = @ \cup kept]
  <2>1. /\ m \in Memory /\ m.from = mem[r].from /\ m.latest = mem[r].latest
        /\ m.page = mem[r].page /\ m.todo = mem[r].todo \cup kept
    BY <1>2, <1>3 DEF Memory
  <2>2. Put(r, m) /\ Goto(r, "versionSave") /\ UNCHANGED attempt
    BY <1>1, <1>6, <1>8
  <2> HIDE DEF m
  <2>3. Alone(r) /\ pc'[r] = "versionSave" /\ mem'[r] = m /\ attempt'[r] = attempt[r]
    BY <1>4, <2>1, <2>2, MoveAlone
  <2> QED BY <1>1, <1>8, <2>1, <2>3 DEF kept
<1> QED BY <1>7, <1>8 DEF kept

(* CommitVersions stores what it gathered. *)
LEMMA CommitStep ==
  ASSUME TypeOK, NEW r \in Run, CommitVersions(r)
  PROVE  /\ Rests(r) /\ pc[r] = "versionSave" /\ pc'[r] = After(r, pc[r])
         /\ versions' = versions \cup mem[r].todo
         /\ vouched' = [vouched EXCEPT !.versions = Max({@, mem[r].from})]
         /\ UNCHANGED <<world, releases, history, scored, insight, cut, flat>>
<1>1. pc[r] \in InPhase
  BY DEF CommitVersions, InPhase, Labels, Resting
<1> QED BY <1>1, EndAlone, EndType DEF CommitVersions, Rests

(* ReleasePage stores what upsertReleasePage keeps of a page. *)
LEMMA ReleasePageStep ==
  ASSUME TypeOK, NEW r \in Run, ReleasePage(r)
  PROVE  LET page == PageOf(published, mem[r].page)
             kept == upsertReleasePage(page, mem[r].latest)
             more == kept = page /\ NextPage(published, mem[r].page)
         IN  /\ Alone(r) /\ pc[r] = "releasePage" /\ releases' = releases \cup kept
             /\ UNCHANGED <<world, versions, history, scored, insight, cut, flat>>
             /\ \/ /\ more /\ pc'[r] = "releasePage" /\ attempt'[r] = attempt[r] /\ UNCHANGED vouched
                   /\ mem'[r].page = mem[r].page + 1
                   /\ mem'[r].from = mem[r].from /\ mem'[r].latest = mem[r].latest
                \/ /\ ~more /\ pc'[r] \in Resting /\ pc'[r] = After(r, pc[r])
                   /\ vouched' = [vouched EXCEPT !.releases = Max({@, mem[r].from})]
<1> DEFINE page == PageOf(published, mem[r].page)
           kept == upsertReleasePage(page, mem[r].latest)
           more == kept = page /\ NextPage(published, mem[r].page)
<1>1. /\ pc[r] = "releasePage" /\ releases' = releases \cup kept
      /\ UNCHANGED <<world, versions, history, scored, insight, cut, flat>>
      /\ more => Put(r, [mem[r] EXCEPT !.page = @ + 1]) /\ UNCHANGED <<pc, attempt, vouched>>
      /\ ~more => EndPhase(r) /\ vouched' = [vouched EXCEPT !.releases = Max({@, mem[r].from})]
  BY DEF ReleasePage
<1>2. mem[r] \in Memory /\ mem[r].page \in Nat
  BY MemType
<1>3. CASE more
  <2> DEFINE m == [mem[r] EXCEPT !.page = @ + 1]
  <2>1. m \in Memory /\ m.from = mem[r].from /\ m.latest = mem[r].latest /\ m.page = mem[r].page + 1
    BY <1>2 DEF Memory
  <2>2. Put(r, m) /\ UNCHANGED <<pc, attempt, vouched>>
    BY <1>1, <1>3
  <2> HIDE DEF m
  <2>3. Alone(r) /\ pc'[r] = pc[r] /\ mem'[r] = m /\ attempt'[r] = attempt[r]
    BY <2>1, <2>2, StayAlone
  <2> HIDE DEF more
  <2> QED BY <1>1, <1>3, <2>1, <2>2, <2>3 DEF more
<1>4. CASE ~more
  <2>1. pc[r] \in InPhase
    BY <1>1 DEF InPhase, Labels, Resting
  <2>2. Alone(r) /\ pc'[r] \in Resting /\ pc'[r] = After(r, pc[r])
    BY <1>1, <1>4, <2>1, EndAlone, EndType
  <2> QED BY <1>1, <1>4, <2>2
<1> QED BY <1>3, <1>4

(* The users selected have events. *)
LEMMA StaleUsers ==
  ASSUME TypeOK
  PROVE  /\ getStaleReputationUsernames \subseteq 1 .. events
         /\ getStaleReputationUsernames \in SUBSET Nat
         /\ \A u \in 1 .. events : scored[u] = Never => u \in getStaleReputationUsernames
BY DEF getStaleReputationUsernames, TypeOK

(* ImportReputation selects the users, or ends without any. *)
LEMMA ReputationStep ==
  ASSUME TypeOK, NEW r \in Run, ImportReputation(r)
  PROVE  /\ Alone(r) /\ pc[r] = "reputation" /\ UNCHANGED <<world, rows, cut, flat>>
         /\ \/ /\ getStaleReputationUsernames = {}
               /\ pc'[r] \in Resting /\ pc'[r] = After(r, pc[r])
               /\ vouched' = [vouched EXCEPT !.users = Max({@, events})]
            \/ /\ pc'[r] = "score" /\ UNCHANGED vouched /\ attempt'[r] = attempt[r]
               /\ mem'[r].from = events /\ mem'[r].total = day
               /\ mem'[r].todo = getStaleReputationUsernames
<1>0. pc[r] = "reputation" /\ UNCHANGED <<world, rows, cut, flat>>
  BY DEF ImportReputation
<1>1. CASE getStaleReputationUsernames = {}
  <2>1. EndPhase(r) /\ vouched' = [vouched EXCEPT !.users = Max({@, events})]
    BY <1>1 DEF ImportReputation, ScoresDone
  <2>2. pc[r] \in InPhase
    BY <1>0 DEF InPhase, Labels, Resting
  <2> QED BY <1>0, <1>1, <2>1, <2>2, EndAlone, EndType
<1>2. CASE getStaleReputationUsernames # {}
  <2> DEFINE t == getStaleReputationUsernames
             m == [Blank EXCEPT !.from = events, !.total = day, !.todo = t]
  <2>1. Goto(r, "score") /\ Put(r, m) /\ UNCHANGED <<attempt, vouched>>
    BY <1>2 DEF ImportReputation
  <2>2. events \in Nat /\ day \in Nat
    BY DEF TypeOK, Days
  <2>6. t \in SUBSET Nat
    BY StaleUsers
  <2> HIDE DEF t
  <2>3. m \in Memory /\ m.from = events /\ m.total = day /\ m.todo = t
    <3>1. [Blank EXCEPT !.from = events, !.total = day] \in Memory
      BY <2>2 DEF Blank, Memory, Never
    <3>2. PICK x : x = [Blank EXCEPT !.from = events, !.total = day]
      OBVIOUS
    <3>3. x \in Memory /\ x.from = events /\ x.total = day
      BY <2>2, <3>1, <3>2 DEF Blank, Memory
    <3>4. m = [x EXCEPT !.todo = t]
      BY <3>2
    <3> QED BY <2>6, <3>3, <3>4 DEF Memory
  <2>4. "score" \in Labels
    BY DEF Labels
  <2> HIDE DEF m
  <2>5. Alone(r) /\ pc'[r] = "score" /\ mem'[r] = m /\ attempt'[r] = attempt[r]
    BY <2>1, <2>3, <2>4, MoveAlone
  <2> QED BY <1>0, <2>1, <2>3, <2>5 DEF t
<1> QED BY <1>1, <1>2

(* FlushChunk scores a chunk of them, *)
LEMMA FlushStep ==
  ASSUME TypeOK, NEW r \in Run, FlushChunk(r)
  PROVE  /\ Alone(r) /\ pc[r] = "score" /\ pc'[r] = "score" /\ attempt'[r] = attempt[r]
         /\ UNCHANGED <<world, releases, versions, history, insight, observed>>
         /\ mem'[r].from = mem[r].from /\ mem'[r].total = mem[r].total
         /\ \E chunk \in SUBSET mem[r].todo :
              /\ Cardinality(chunk) = reputationChunkSize
              /\ ScoreUsers(chunk, mem[r].total)
              /\ mem'[r].todo = mem[r].todo \ chunk
<1>1. PICK chunk \in kSubset(reputationChunkSize, mem[r].todo) :
        /\ ScoreUsers(chunk, mem[r].total)
        /\ Put(r, [mem[r] EXCEPT !.todo = @ \ chunk])
  BY DEF FlushChunk
<1>2. /\ pc[r] = "score"
      /\ UNCHANGED <<world, releases, versions, history, insight, pc, attempt, observed>>
  BY DEF FlushChunk
<1>3. chunk \in SUBSET mem[r].todo /\ Cardinality(chunk) = reputationChunkSize
  BY DEF kSubset
<1> DEFINE m == [mem[r] EXCEPT !.todo = @ \ chunk]
<1>4. mem[r] \in Memory
  BY MemType
<1>5. m \in Memory /\ m.from = mem[r].from /\ m.total = mem[r].total /\ m.todo = mem[r].todo \ chunk
  BY <1>4 DEF Memory
<1> HIDE DEF m
<1>6. Alone(r) /\ pc'[r] = pc[r] /\ mem'[r] = m /\ attempt'[r] = attempt[r]
  BY <1>1, <1>2, <1>5, StayAlone DEF m
<1> QED BY <1>1, <1>2, <1>3, <1>5, <1>6

(* LastFlush the rest. *)
LEMMA LastFlushStep ==
  ASSUME TypeOK, NEW r \in Run, LastFlush(r)
  PROVE  /\ Rests(r) /\ pc[r] = "score" /\ pc'[r] = After(r, pc[r])
         /\ ScoreUsers(mem[r].todo, mem[r].total)
         /\ vouched' = [vouched EXCEPT !.users = Max({@, mem[r].from})]
         /\ UNCHANGED <<world, releases, versions, history, insight, cut, flat>>
<1>1. pc[r] \in InPhase
  BY DEF LastFlush, InPhase, Labels, Resting
<1> QED BY <1>1, EndAlone, EndType DEF LastFlush, ScoresDone, Rests

(* GetRepoInsightsGeneratedAt reads the age of the insights. *)
LEMMA InsightRead ==
  ASSUME TypeOK, NEW r \in Run, GetRepoInsightsGeneratedAt(r)
  PROVE  /\ Alone(r) /\ pc[r] = "insights" /\ pc'[r] = "insightGate" /\ attempt'[r] = attempt[r]
         /\ UNCHANGED <<world, rows, observed>>
<1> DEFINE m == [Blank EXCEPT !.from = insight.at]
<1>1. insight.at \in Nat \cup {Never}
  BY DEF TypeOK, Days
<1>2. m \in Memory
  BY <1>1 DEF Blank, Memory, Never
<1>3. Goto(r, "insightGate") /\ Put(r, m) /\ UNCHANGED attempt
  BY DEF GetRepoInsightsGeneratedAt
<1>4. "insightGate" \in Labels
  BY DEF Labels
<1> HIDE DEF m
<1> QED BY <1>2, <1>3, <1>4, MoveAlone DEF GetRepoInsightsGeneratedAt

(* generateRepoInsights goes on only from old ones. *)
LEMMA GateStep ==
  ASSUME TypeOK, NEW r \in Run, generateRepoInsights(r)
  PROVE  /\ Alone(r) /\ pc[r] = "insightGate" /\ UNCHANGED <<world, rows, observed>>
         /\ \/ /\ checkInsightStaleness(mem[r].from, insight.count, events)
               /\ pc'[r] = "gather" /\ attempt'[r] = attempt[r] /\ mem'[r].from = mem[r].from
            \/ pc'[r] \in Resting /\ pc'[r] = After(r, pc[r])
<1>0. pc[r] = "insightGate" /\ UNCHANGED <<world, rows, observed>>
  BY DEF generateRepoInsights
<1>1. CASE checkInsightStaleness(mem[r].from, insight.count, events)
  <2> DEFINE m == [mem[r] EXCEPT !.total = events]
  <2>1. Goto(r, "gather") /\ Put(r, m) /\ UNCHANGED attempt
    BY <1>1 DEF generateRepoInsights
  <2>2. mem[r] \in Memory /\ events \in Nat
    BY MemType DEF TypeOK
  <2>3. m \in Memory /\ m.from = mem[r].from
    BY <2>2 DEF Memory
  <2>4. "gather" \in Labels
    BY DEF Labels
  <2> HIDE DEF m
  <2>5. Alone(r) /\ pc'[r] = "gather" /\ mem'[r] = m /\ attempt'[r] = attempt[r]
    BY <2>1, <2>3, <2>4, MoveAlone
  <2> QED BY <1>0, <1>1, <2>3, <2>5
<1>2. CASE ~checkInsightStaleness(mem[r].from, insight.count, events)
  <2>1. EndPhase(r)
    BY <1>2 DEF generateRepoInsights
  <2>2. pc[r] \in InPhase
    BY <1>0 DEF InPhase, Labels, Resting
  <2> QED BY <1>0, <2>1, <2>2, EndAlone, EndType
<1> QED BY <1>1, <1>2

(* Gathering and calling keep what was read, *)
LEMMA LlmStep ==
  ASSUME TypeOK, NEW r \in Run, GatherInsightsMetrics(r) \/ GenerateInsights(r)
  PROVE  /\ Alone(r) /\ mem'[r] = mem[r] /\ attempt'[r] = attempt[r] /\ UNCHANGED <<world, rows, observed>>
         /\ \/ pc[r] = "gather" /\ pc'[r] = "llm"
            \/ pc[r] = "llm" /\ pc'[r] = "insightSave"
<1>1. "llm" \in Labels /\ "insightSave" \in Labels
  BY DEF Labels
<1>2. CASE GatherInsightsMetrics(r)
  BY <1>1, <1>2, GoAlone DEF GatherInsightsMetrics
<1>3. CASE GenerateInsights(r)
  BY <1>1, <1>3, GoAlone DEF GenerateInsights
<1> QED BY <1>2, <1>3

(* and so does another call. *)
LEMMA LlmRetryStep ==
  ASSUME TypeOK, NEW r \in Run, InsightsRetry(r)
  PROVE  /\ Alone(r) /\ pc'[r] = pc[r] /\ mem'[r] = mem[r] /\ pc[r] = "llm"
         /\ attempt'[r] = attempt[r] + 1 /\ UNCHANGED <<world, rows, observed>>
<1>1. attempt \in [Run -> 0 .. AttemptBound] /\ pc \in [Run -> Labels] /\ mem \in [Run -> Memory]
  BY DEF TypeOK, AttemptBound
<1>2. attempt' = [attempt EXCEPT ![r] = @ + 1] /\ attempt[r] < insightsMaxRetries - 1
      /\ UNCHANGED <<world, rows, pc, mem, observed>> /\ pc[r] = "llm"
  BY DEF InsightsRetry
<1>3. /\ attempt' \in [Run -> 0 .. AttemptBound] /\ attempt'[r] = attempt[r] + 1
      /\ \A q \in Run \ {r} : attempt'[q] = attempt[q]
  BY <1>1, <1>2, AttemptBoundType, Constant
<1> QED BY <1>1, <1>2, <1>3 DEF Alone

(* SaveRepoInsights writes the insights. *)
LEMMA SaveStep ==
  ASSUME TypeOK, NEW r \in Run, SaveRepoInsights(r)
  PROVE  /\ Rests(r) /\ pc[r] = "insightSave" /\ pc'[r] = After(r, pc[r])
         /\ insight' = [at |-> day, count |-> mem[r].total]
         /\ UNCHANGED <<world, releases, versions, history, scored, observed>>
<1>1. pc[r] \in InPhase
  BY DEF SaveRepoInsights, InPhase, Labels, Resting
<1> QED BY <1>1, EndAlone, EndType DEF SaveRepoInsights, Rests

-----------------------------------------------------------------------------
(* Types. *)

WorldType ==
  /\ day \in Days /\ changes \in 0 .. MaxChanges
  /\ {published, pushed, events} \subseteq Nat /\ starred \in [Days -> Nat]
  /\ pushed >= 1 /\ tied \subseteq 2 .. pushed

RowType ==
  /\ releases \subseteq 1 .. published /\ versions \subseteq 1 .. pushed
  /\ history \in [Days -> Nat \cup {Never}]
  /\ scored \in [Users -> Days \cup {Never}]
  /\ insight \in [at : Days \cup {Never}, count : Nat]

ImportType ==
  /\ attempt \in [Run -> 0 .. AttemptBound]
  /\ pc \in [Run -> Labels]
  /\ mem \in [Run -> Memory]

NoteType ==
  /\ cut \in BOOLEAN /\ flat \subseteq Days
  /\ vouched \in [releases : Nat, versions : Nat, users : Nat]

(* TypeOK by its parts, before and after a step. *)
LEMMA TypeParts == TypeOK <=> WorldType /\ RowType /\ ImportType /\ NoteType
BY Zenon DEF TypeOK, WorldType, RowType, ImportType, NoteType, AttemptBound

(* The same of the state after a step. *)
LEMMA TypeNext == WorldType' /\ RowType' /\ ImportType' /\ NoteType' => TypeOK'
BY Zenon DEF TypeOK, WorldType, RowType, ImportType, NoteType, AttemptBound

(* Vouching for more keeps the type of vouched. *)
LEMMA VouchType ==
  ASSUME NEW v \in [releases : Nat, versions : Nat, users : Nat], NEW n \in Nat \cup {Never}
  PROVE  /\ [v EXCEPT !.releases = Max({@, n})] \in [releases : Nat, versions : Nat, users : Nat]
         /\ [v EXCEPT !.versions = Max({@, n})] \in [releases : Nat, versions : Nat, users : Nat]
         /\ [v EXCEPT !.users = Max({@, n})] \in [releases : Nat, versions : Nat, users : Nat]
<1>1. v.releases \in Nat /\ v.versions \in Nat /\ v.users \in Nat /\ n \in Int
  BY DEF Never
<1>2. /\ Max({v.releases, n}) \in Nat /\ Max({v.versions, n}) \in Nat /\ Max({v.users, n}) \in Nat
  <2>1. ASSUME NEW k \in Nat PROVE Max({k, n}) \in Nat
    <3>1. k \in Int /\ n \in Int
      BY <1>1
    <3>2. Max({k, n}) \in {k, n} /\ Max({k, n}) >= k
      BY <3>1, MaxOfTwo
    <3> QED BY <3>1, <3>2
  <2> QED BY <1>1, <2>1
<1> QED BY <1>2

(* The world outside changes. *)
LEMMA WorldTypeStep ==
  ASSUME TypeOK, World
  PROVE  TypeOK' /\ UNCHANGED <<rows, pc, attempt, mem, observed>>
<1>1. UNCHANGED <<rows, pc, attempt, mem, observed>>
  BY DEF World, Publish, Push, Star, NewContributor, Midnight
<1>2. WorldType' /\ published' >= published /\ pushed' >= pushed
  <2>1. WorldType
    BY TypeParts
  <2>2. CASE Publish
    BY <2>1, <2>2, Constant DEF WorldType, Publish, Change
  <2>6. CASE NewContributor
    BY <2>1, <2>6, Constant DEF WorldType, NewContributor, Change
  <2>5. CASE Push
    <3>1. pushed \in Nat \ {0} /\ tied \subseteq 2 .. pushed /\ pushed' = pushed + 1
      BY <2>1, <2>5 DEF WorldType, Push
    <3>2. pushed + 1 \in 2 .. (pushed + 1)
      BY <3>1
    <3>3. tied' \subseteq 2 .. pushed'
      <4>1. tied' = tied \/ tied' = tied \cup {pushed + 1}
        BY <2>5 DEF Push
      <4>2. tied \subseteq 2 .. pushed'
        BY <3>1
      <4> QED BY <3>1, <3>2, <4>1, <4>2
    <3> QED BY <2>1, <2>5, <3>1, <3>3, Constant DEF WorldType, Push, Change
  <2>3. CASE Star
    <3>1. starred' \in [Days -> Nat]
      BY <2>1, <2>3 DEF WorldType, Star
    <3> QED BY <2>1, <2>3, <3>1, Constant DEF WorldType, Star, Change
  <2>4. CASE Midnight
    BY <2>1, <2>4, Constant DEF WorldType, Midnight, Days
  <2> QED BY <2>2, <2>3, <2>4, <2>5, <2>6 DEF World
<1>3. RowType'
  <2>1. published \in Nat /\ pushed \in Nat /\ published' \in Nat /\ pushed' \in Nat
    BY <1>2, TypeParts DEF WorldType
  <2> QED BY <1>1, <1>2, <2>1, TypeParts DEF RowType, rows
<1>4. ImportType' /\ NoteType'
  BY <1>1, TypeParts DEF ImportType, NoteType, observed
<1> QED BY <1>1, <1>2, <1>3, <1>4, TypeNext

(* A step of an import that writes no rows. *)
LEMMA QuietType ==
  ASSUME TypeOK, NEW r \in Run, Alone(r), UNCHANGED <<world, rows>>, NoteType'
  PROVE  TypeOK'
<1>1. WorldType' /\ RowType'
  BY TypeParts DEF WorldType, RowType, world, rows
<1>2. ImportType'
  BY DEF Alone, ImportType
<1> QED BY <1>1, <1>2, TypeNext

(* A step that writes no row keeps the types, *)
LEMMA SilentType ==
  ASSUME TypeOK, NEW r \in Run, Alone(r), UNCHANGED <<world, rows, observed>>
  PROVE  TypeOK'
BY QuietType, TypeParts DEF NoteType, observed

(* and so does an interruption, *)
LEMMA InterruptedType ==
  ASSUME TypeOK, NEW r \in Run, Alone(r), Interrupted(r), UNCHANGED <<world, rows, flat, vouched>>
  PROVE  TypeOK'
<1>1. cut' \in BOOLEAN
  BY DEF Interrupted, TypeOK, BetweenPages
<1> QED BY <1>1, QuietType, TypeParts DEF NoteType

(* a page of releases, *)
LEMMA ReleasePageType ==
  ASSUME TypeOK, NEW r \in Run, ReleasePage(r)
  PROVE  TypeOK'
<1>1. /\ Alone(r) /\ releases' = releases \cup upsertReleasePage(PageOf(published, mem[r].page), mem[r].latest)
      /\ UNCHANGED <<world, versions, history, scored, insight, cut, flat>>
      /\ vouched' = vouched \/ vouched' = [vouched EXCEPT !.releases = Max({@, mem[r].from})]
  BY ReleasePageStep
<1>2. releases' \subseteq 1 .. published
  BY <1>1 DEF TypeOK, upsertReleasePage, PageOf
<1>3. vouched' \in [releases : Nat, versions : Nat, users : Nat]
  <2>1. vouched \in [releases : Nat, versions : Nat, users : Nat] /\ mem[r].from \in Nat \cup {Never}
    BY MemType DEF TypeOK
  <2> QED BY <1>1, <2>1, VouchType
<1>4. WorldType' /\ RowType' /\ NoteType'
  BY <1>1, <1>2, <1>3, TypeParts DEF WorldType, RowType, NoteType, world
<1> QED BY <1>1, <1>4, TypeNext DEF Alone, ImportType

(* the star history, *)
LEMMA MetricsType ==
  ASSUME TypeOK, NEW r \in Run, upsertMetricHistory(r)
  PROVE  TypeOK'
<1>1. Alone(r) /\ UNCHANGED <<world, releases, versions, scored, insight, cut, vouched>>
  BY MetricsSaved DEF Rests
<1>2. mem[r].curve \in [Days -> Nat \cup {Never}]
  BY MemType
<1>3. history' \in [Days -> Nat \cup {Never}]
  BY <1>2 DEF upsertMetricHistory, TypeOK
<1>4. flat' \subseteq Days
  BY DEF upsertMetricHistory, Written, TypeOK
<1>5. WorldType' /\ RowType' /\ NoteType'
  BY <1>1, <1>3, <1>4, TypeParts DEF WorldType, RowType, NoteType, world
<1> QED BY <1>1, <1>5, TypeNext DEF Alone, ImportType

(* the versions, *)
LEMMA CommitType ==
  ASSUME TypeOK, VersionInv, NEW r \in Run, CommitVersions(r)
  PROVE  TypeOK'
<1>1. /\ Alone(r) /\ UNCHANGED <<world, releases, history, scored, insight, cut, flat>>
      /\ versions' = versions \cup mem[r].todo /\ pc[r] = "versionSave"
      /\ vouched' = [vouched EXCEPT !.versions = Max({@, mem[r].from})]
  BY CommitStep DEF Rests
<1>2. mem[r].todo \subseteq 1 .. pushed
  BY <1>1 DEF VersionInv, NewerThan
<1>3. vouched' \in [releases : Nat, versions : Nat, users : Nat]
  <2>1. vouched \in [releases : Nat, versions : Nat, users : Nat] /\ mem[r].from \in Nat \cup {Never}
    BY MemType DEF TypeOK
  <2> QED BY <1>1, <2>1, VouchType
<1>4. WorldType' /\ NoteType'
  BY <1>1, <1>3, TypeParts DEF WorldType, NoteType, world
<1>5. RowType'
  BY <1>1, <1>2, TypeParts DEF RowType, world
<1> QED BY <1>1, <1>4, <1>5, TypeNext DEF Alone, ImportType

(* a chunk of scores, *)
LEMMA ScoreType ==
  ASSUME TypeOK, NEW chunk, NEW at \in Days, ScoreUsers(chunk, at)
  PROVE  scored' \in [Users -> Days \cup {Never}]
BY DEF ScoreUsers, TypeOK

(* the end of a phase without users, *)
LEMMA ReputationType ==
  ASSUME TypeOK, NEW r \in Run, ImportReputation(r)
  PROVE  TypeOK'
<1>1. /\ Alone(r) /\ UNCHANGED <<world, rows, cut, flat>>
      /\ vouched' = vouched \/ vouched' = [vouched EXCEPT !.users = Max({@, events})]
  BY ReputationStep
<1>2. vouched \in [releases : Nat, versions : Nat, users : Nat] /\ events \in Nat \cup {Never}
  BY DEF TypeOK
<1>3. vouched' \in [releases : Nat, versions : Nat, users : Nat]
  BY <1>1, <1>2, VouchType
<1>4. NoteType'
  BY <1>1, <1>3, TypeParts DEF NoteType
<1> QED BY <1>1, <1>4, QuietType

(* the flush of a chunk, *)
LEMMA FlushType ==
  ASSUME TypeOK, ScoreInv, NEW r \in Run, FlushChunk(r) \/ LastFlush(r)
  PROVE  TypeOK'
<1>1. /\ Alone(r) /\ UNCHANGED <<world, releases, versions, history, insight, cut, flat>> /\ pc[r] = "score"
      /\ vouched' = vouched \/ vouched' = [vouched EXCEPT !.users = Max({@, mem[r].from})]
      /\ \E chunk : ScoreUsers(chunk, mem[r].total)
  <2>1. CASE FlushChunk(r)
    BY <2>1, FlushStep DEF observed
  <2>2. CASE LastFlush(r)
    BY <2>2, LastFlushStep DEF Rests
  <2> QED BY <2>1, <2>2
<1>2. mem[r].total \in Days
  BY <1>1 DEF ScoreInv
<1>3. scored' \in [Users -> Days \cup {Never}]
  BY <1>1, <1>2, ScoreType
<1>4. vouched \in [releases : Nat, versions : Nat, users : Nat] /\ mem[r].from \in Nat \cup {Never}
  BY MemType DEF TypeOK
<1>5. vouched' \in [releases : Nat, versions : Nat, users : Nat]
  BY <1>1, <1>4, VouchType
<1>6. WorldType' /\ RowType' /\ NoteType'
  BY <1>1, <1>3, <1>5, TypeParts DEF WorldType, RowType, NoteType, world
<1> QED BY <1>1, <1>6, TypeNext DEF Alone, ImportType

(* and the insights. *)
LEMMA SaveType ==
  ASSUME TypeOK, NEW r \in Run, SaveRepoInsights(r)
  PROVE  TypeOK'
<1>1. /\ Alone(r) /\ UNCHANGED <<world, releases, versions, history, scored, observed>>
      /\ insight' = [at |-> day, count |-> mem[r].total]
  BY SaveStep DEF Rests
<1>2. day \in Days /\ mem[r].total \in Nat
  BY MemType DEF TypeOK
<1>3. insight' \in [at : Days \cup {Never}, count : Nat]
  BY <1>1, <1>2
<1>4. WorldType' /\ RowType' /\ NoteType'
  BY <1>1, <1>3, TypeParts DEF WorldType, RowType, NoteType, world, observed
<1> QED BY <1>1, <1>4, TypeNext DEF Alone, ImportType

(* Every step keeps the types. *)
LEMMA TypeStep ==
  ASSUME TypeOK, VersionInv, ScoreInv, [Next]_vars
  PROVE  TypeOK'
<1>1. CASE World
  BY <1>1, WorldTypeStep
<1>2. ASSUME NEW r \in Run, runEnrichmentPhases(r) \/ runCatchUpInsights(r)
      PROVE  TypeOK'
  BY <1>2, StartStep, SilentType DEF Rests
<1>3. ASSUME NEW r \in Run, Step(r)
      PROVE  TypeOK'
  <2>1. CASE ImportReleases(r) \/ ImportRepoMetricHistory(r) \/ countRecentStarsByDay(r)
    BY <2>1, ReleasesStep, MetricStep, CountStep, SilentType
  <2>2. CASE PackagesHidden(r) \/ upsertContainerVersions(r) \/ fetchAndStoreVersions(r)
    BY <2>2, HiddenStep, VersionsStep, VersionPageStep, SilentType DEF Rests
  <2>3. CASE \/ GetRepoInsightsGeneratedAt(r) \/ generateRepoInsights(r) \/ GatherInsightsMetrics(r)
             \/ InsightsRetry(r) \/ GenerateInsights(r)
    BY <2>3, InsightRead, GateStep, LlmStep, LlmRetryStep, SilentType
  <2>4. CASE Retry(r) \/ PhaseFails(r) \/ Cancel(r)
    BY <2>4, RetryStep, FailStep, CancelStep, InterruptedType DEF Rests
  <2> QED BY <1>3, <2>1, <2>2, <2>3, <2>4, ReleasePageType, MetricsType, CommitType, ReputationType,
             FlushType, SaveType DEF Step
<1>4. CASE UNCHANGED vars
  <2>1. WorldType' /\ RowType' /\ ImportType' /\ NoteType'
    BY <1>4, TypeParts DEF vars, world, rows, observed, WorldType, RowType, ImportType, NoteType
  <2> QED BY <2>1, TypeNext
<1> QED BY <1>1, <1>2, <1>3, <1>4 DEF Next

-----------------------------------------------------------------------------
(* Which steps can disturb what. *)

Moves(r) == runEnrichmentPhases(r) \/ runCatchUpInsights(r) \/ Step(r)

(* Between phases an import is within none. *)
LEMMA RestingLabels ==
  Resting \cap {"releasePage", "starCount", "starSave", "versionPage", "versionSave",
                "score", "insightGate", "gather", "llm", "insightSave"} = {}
BY DEF Resting

(* The only ways into the middle of a phase. *)
LEMMA Lands ==
  ASSUME TypeOK, NEW r \in Run, Moves(r)
  PROVE  /\ Alone(r) /\ UNCHANGED world
         /\ pc'[r] = "releasePage" => ImportReleases(r) \/ ReleasePage(r)
         /\ pc'[r] = "starCount" => ImportRepoMetricHistory(r)
         /\ pc'[r] = "starSave" => countRecentStarsByDay(r)
         /\ pc'[r] = "versionPage" => upsertContainerVersions(r) \/ fetchAndStoreVersions(r)
         /\ pc'[r] = "versionSave" => fetchAndStoreVersions(r)
         /\ pc'[r] = "score" => ImportReputation(r) \/ FlushChunk(r)
         /\ pc'[r] = "gather" => generateRepoInsights(r)
         /\ pc'[r] \in {"llm", "insightSave"} =>
              GatherInsightsMetrics(r) \/ InsightsRetry(r) \/ GenerateInsights(r)
<1> DEFINE G == /\ pc'[r] = "releasePage" => ImportReleases(r) \/ ReleasePage(r)
                /\ pc'[r] = "starCount" => ImportRepoMetricHistory(r)
                /\ pc'[r] = "starSave" => countRecentStarsByDay(r)
                /\ pc'[r] = "versionPage" => upsertContainerVersions(r) \/ fetchAndStoreVersions(r)
                /\ pc'[r] = "versionSave" => fetchAndStoreVersions(r)
                /\ pc'[r] = "score" => ImportReputation(r) \/ FlushChunk(r)
                /\ pc'[r] = "gather" => generateRepoInsights(r)
                /\ pc'[r] \in {"llm", "insightSave"} =>
                     GatherInsightsMetrics(r) \/ InsightsRetry(r) \/ GenerateInsights(r)
<1>0. pc'[r] \in Resting => G
  BY RestingLabels
<1> SUFFICES Alone(r) /\ UNCHANGED world /\ G
  OBVIOUS
<1>1. CASE ImportReleases(r) \/ ImportRepoMetricHistory(r) \/ countRecentStarsByDay(r) \/ upsertContainerVersions(r)
  BY <1>1, ReleasesStep, MetricStep, CountStep, VersionsStep
<1>2. CASE fetchAndStoreVersions(r)
  BY <1>2, VersionPageStep
<1>3. CASE GetRepoInsightsGeneratedAt(r) \/ GatherInsightsMetrics(r) \/ InsightsRetry(r) \/ GenerateInsights(r)
  BY <1>3, InsightRead, LlmStep, LlmRetryStep
<1>4. CASE ReleasePage(r)
  <2>1. Alone(r) /\ UNCHANGED world /\ (pc'[r] = "releasePage" \/ pc'[r] \in Resting)
    BY <1>4, ReleasePageStep
  <2> QED BY <1>0, <1>4, <2>1
<1>5. CASE ImportReputation(r)
  <2>1. Alone(r) /\ UNCHANGED world /\ (pc'[r] = "score" \/ pc'[r] \in Resting)
    BY <1>5, ReputationStep
  <2> QED BY <1>0, <1>5, <2>1
<1>6. CASE FlushChunk(r)
  BY <1>6, FlushStep
<1>7. CASE generateRepoInsights(r)
  <2>1. Alone(r) /\ UNCHANGED world /\ (pc'[r] = "gather" \/ pc'[r] \in Resting)
    BY <1>7, GateStep
  <2> QED BY <1>0, <1>7, <2>1
<1> HIDE DEF G
<1>8. CASE runEnrichmentPhases(r) \/ runCatchUpInsights(r)
  BY <1>0, <1>8, StartStep DEF Rests
<1>9. CASE upsertMetricHistory(r) \/ PackagesHidden(r) \/ CommitVersions(r) \/ LastFlush(r) \/ SaveRepoInsights(r)
  BY <1>0, <1>9, MetricsSaved, HiddenStep, CommitStep, LastFlushStep, SaveStep DEF Rests
<1>10. CASE Retry(r) \/ PhaseFails(r) \/ Cancel(r)
  BY <1>0, <1>10, RetryStep, FailStep, CancelStep DEF Rests
<1> QED BY <1>1, <1>2, <1>3, <1>4, <1>5, <1>6, <1>7, <1>8, <1>9, <1>10, Zenon DEF Moves, Step

(* The only ways to write a row, or to vouch for one. *)
LEMMA Writes ==
  ASSUME TypeOK, NEW r \in Run, Moves(r)
  PROVE  /\ ReleasePage(r) \/ (UNCHANGED releases /\ vouched'.releases = vouched.releases)
         /\ CommitVersions(r) \/ (UNCHANGED versions /\ vouched'.versions = vouched.versions)
         /\ upsertMetricHistory(r) \/ UNCHANGED <<history, flat>>
         /\ ImportReputation(r) \/ LastFlush(r) \/ vouched'.users = vouched.users
         /\ FlushChunk(r) \/ LastFlush(r) \/ UNCHANGED scored
         /\ UNCHANGED cut \/ (Interrupted(r) /\ pc'[r] \in Resting)
<1>0. vouched \in [releases : Nat, versions : Nat, users : Nat]
  BY DEF TypeOK
<1>1. CASE UNCHANGED <<rows, observed>>
  BY <1>1 DEF rows, observed
<1>2. CASE \/ ImportReleases(r) \/ ImportRepoMetricHistory(r) \/ countRecentStarsByDay(r)
           \/ upsertContainerVersions(r) \/ fetchAndStoreVersions(r) \/ PackagesHidden(r)
  BY <1>1, <1>2, ReleasesStep, MetricStep, CountStep, VersionsStep, VersionPageStep, HiddenStep
<1>3. CASE \/ GetRepoInsightsGeneratedAt(r) \/ GatherInsightsMetrics(r) \/ InsightsRetry(r)
           \/ GenerateInsights(r) \/ generateRepoInsights(r)
           \/ runEnrichmentPhases(r) \/ runCatchUpInsights(r)
  BY <1>1, <1>3, InsightRead, LlmStep, LlmRetryStep, GateStep, StartStep
<1>4. CASE ReleasePage(r)
  <2>1. /\ UNCHANGED <<versions, history, scored, cut, flat>>
        /\ vouched' = vouched \/ vouched' = [vouched EXCEPT !.releases = Max({@, mem[r].from})]
    BY <1>4, ReleasePageStep
  <2> QED BY <1>0, <1>4, <2>1
<1>5. CASE upsertMetricHistory(r)
  BY <1>5, MetricsSaved
<1>6. CASE CommitVersions(r)
  BY <1>0, <1>6, CommitStep
<1>7. CASE ImportReputation(r)
  <2>1. /\ UNCHANGED <<rows, cut, flat>>
        /\ vouched' = vouched \/ vouched' = [vouched EXCEPT !.users = Max({@, events})]
    BY <1>7, ReputationStep
  <2> QED BY <1>0, <1>7, <2>1 DEF rows
<1>8. CASE FlushChunk(r)
  BY <1>8, FlushStep DEF observed
<1>9. CASE LastFlush(r)
  BY <1>0, <1>9, LastFlushStep
<1>10. CASE SaveRepoInsights(r)
  BY <1>10, SaveStep DEF observed
<1>11. CASE Retry(r) \/ PhaseFails(r) \/ Cancel(r)
  BY <1>11, RetryStep, FailStep, CancelStep DEF Rests, rows
<1> QED BY <1>2, <1>3, <1>4, <1>5, <1>6, <1>7, <1>8, <1>9, <1>10, <1>11, Zenon DEF Moves, Step

-----------------------------------------------------------------------------
(* The world. *)

(* The world changes nothing of the imports and their rows, and one thing   *)
(* of its own at a time.                                                    *)
LEMMA WorldFrame ==
  ASSUME World
  PROVE  /\ UNCHANGED <<releases, versions, history, scored, insight, pc, attempt, mem, cut, flat, vouched>>
         /\ Publish \/ UNCHANGED published
         /\ Push \/ UNCHANGED <<pushed, tied>>
         /\ Star \/ UNCHANGED starred
         /\ NewContributor \/ UNCHANGED events
         /\ Midnight \/ UNCHANGED day
<1>1. CASE Publish
  BY <1>1 DEF Publish, rows, observed
<1>2. CASE Push
  BY <1>2 DEF Push, rows, observed
<1>3. CASE Star
  BY <1>3 DEF Star, rows, observed
<1>4. CASE NewContributor
  BY <1>4 DEF NewContributor, rows, observed
<1>5. CASE Midnight
  BY <1>5 DEF Midnight, rows, observed
<1> QED BY <1>1, <1>2, <1>3, <1>4, <1>5, Zenon DEF World

(* The types the clock and the stars have. *)
LEMMA DayType ==
  ASSUME TypeOK
  PROVE  day \in Days /\ day \in Nat /\ MaxDay \in Nat /\ starred \in [Days -> Nat]
BY Constant DEF TypeOK, Days

-----------------------------------------------------------------------------
(* Star history. *)

(* StarInv is kept by the world: a star is given today and counts for       *)
(* today and every later day, and a day begins with what the one before     *)
(* ended with.                                                              *)
LEMMA StarWorld ==
  ASSUME TypeOK, StarInv, World
  PROVE  StarInv'
<1>0. /\ day \in Nat /\ MaxDay \in Nat /\ starred \in [Days -> Nat] /\ day \in Days
      /\ history \in [Days -> Nat \cup {Never}]
  BY Constant DEF TypeOK, Days
<1>1. /\ pc' = pc /\ mem' = mem /\ history' = history /\ flat' = flat
      /\ Star \/ starred' = starred
      /\ Midnight \/ day' = day
  BY WorldFrame
<1>2. /\ day' \in Days /\ day' >= day
      /\ starred' \in [Days -> Nat]
      /\ \A d \in Days : starred'[d] >= starred[d]
      /\ \A d, e \in Days : d <= e => starred'[d] <= starred'[e]
      /\ \A d \in Days : d >= day' => starred'[d] = starred'[day']
  <2>1. CASE Star
    <3>1. day' = day /\ starred' = [d \in Days |-> IF d < day THEN starred[d] ELSE starred[d] + 1]
      BY <2>1 DEF Star
    <3>2. \A d \in Days : d \in Nat /\ starred[d] \in Nat
      BY <1>0 DEF Days
    <3>3. /\ \A d, e \in Days : d <= e => starred[d] <= starred[e]
          /\ \A d \in Days : d >= day => starred[d] = starred[day]
      BY DEF StarInv
    <3>4. starred' \in [Days -> Nat]
      BY <3>1, <3>2
    <3>5. \A d \in Days : starred'[d] = IF d < day THEN starred[d] ELSE starred[d] + 1
      BY <3>1
    <3>6. \A d \in Days : starred'[d] >= starred[d]
      BY <3>2, <3>5
    <3>7. \A d, e \in Days : d <= e => starred'[d] <= starred'[e]
      BY <1>0, <3>2, <3>3, <3>5
    <3>8. \A d \in Days : d >= day => starred'[d] = starred'[day]
      BY <1>0, <3>2, <3>3, <3>5
    <3> QED BY <1>0, <3>1, <3>4, <3>6, <3>7, <3>8
  <2>2. CASE Midnight
    <3>1. day' = day + 1 /\ starred' = starred /\ day < MaxDay
      BY <2>2 DEF Midnight
    <3>2. day' \in Days /\ day' >= day /\ starred'[day'] = starred[day]
      BY <1>0, <3>1 DEF StarInv, Days
    <3> QED BY <1>0, <3>1, <3>2 DEF StarInv, Days
  <2>3. CASE day' = day /\ starred' = starred
    BY <1>0, <2>3 DEF StarInv, Days
  <2> QED BY <1>1, <2>1, <2>2, <2>3 DEF Star, Midnight
<1>3. \A d \in Days \ flat : history[d] <= starred'[d]
  BY <1>0, <1>2 DEF StarInv, NotInflated, Never
<1>4. \A r \in Run : pc[r] = "starCount" => mem[r].total <= starred'[day']
  <2> SUFFICES ASSUME NEW r \in Run, pc[r] = "starCount" PROVE mem[r].total <= starred'[day']
    OBVIOUS
  <2>1. mem[r].total \in Nat /\ mem[r].total <= starred[day]
    BY MemType DEF StarInv
  <2>2. starred[day] <= starred[day']
    BY <1>0, <1>2 DEF StarInv
  <2>3. starred[day] \in Nat /\ starred[day'] \in Nat /\ starred'[day'] \in Nat /\ starred'[day'] >= starred[day']
    BY <1>0, <1>2
  <2> QED BY <2>1, <2>2, <2>3
<1>5. \A r \in Run : pc[r] = "starSave" /\ ~mem[r].flat =>
        \A d \in Days : mem[r].curve[d] <= starred'[d]
  <2> SUFFICES ASSUME NEW r \in Run, pc[r] = "starSave", ~mem[r].flat, NEW d \in Days
               PROVE  mem[r].curve[d] <= starred'[d]
    OBVIOUS
  <2>1. mem[r].curve[d] \in Nat \cup {Never} /\ mem[r].curve[d] <= starred[d]
    BY MemType DEF StarInv
  <2> QED BY <1>0, <1>2, <2>1 DEF Never
<1> QED BY <1>1, <1>2, <1>3, <1>4, <1>5 DEF StarInv, NotInflated

(* StarInv is kept by the imports: the total was read before the listing,   *)
(* so that the stars taken off are at least those given meanwhile.          *)
LEMMA StarMove ==
  ASSUME TypeOK, StarInv, NEW r \in Run, Moves(r)
  PROVE  StarInv'
<1>0. Alone(r) /\ day' = day /\ starred' = starred /\ day \in Days /\ starred \in [Days -> Nat]
  BY Lands DEF world, TypeOK
<1>1. NotInflated'
  <2>1. CASE upsertMetricHistory(r)
    <3>1. pc[r] = "starSave" /\ history' = [d \in Days |-> IF d \in Written(r) THEN mem[r].curve[d] ELSE history[d]]
          /\ flat' = IF mem[r].flat THEN flat \cup Written(r) ELSE flat \ Written(r)
      BY <2>1 DEF upsertMetricHistory
    <3>2. ~mem[r].flat => \A d \in Days : mem[r].curve[d] <= starred[d]
      BY <3>1 DEF StarInv
    <3> QED BY <1>0, <3>1, <3>2 DEF StarInv, NotInflated
  <2>2. CASE UNCHANGED <<history, flat>>
    BY <1>0, <2>2 DEF StarInv, NotInflated
  <2> QED BY <2>1, <2>2, Writes
<1>2. ASSUME NEW q \in Run, pc'[q] = "starCount"
      PROVE  mem'[q].total <= starred[day]
  <2>1. CASE q # r
    BY <1>0, <1>2, <2>1 DEF Alone, StarInv
  <2>2. CASE q = r
    BY <1>0, <1>2, <2>2, Lands, MetricStep
  <2> QED BY <2>1, <2>2
<1>3. ASSUME NEW q \in Run, pc'[q] = "starSave", ~mem'[q].flat, NEW d \in Days
      PROVE  mem'[q].curve[d] <= starred[d]
  <2>1. CASE q # r
    BY <1>0, <1>3, <2>1 DEF Alone, StarInv
  <2>2. CASE q = r
    <3>1. countRecentStarsByDay(r)
      BY <1>3, <2>2, Lands
    <3>2. PICK listed \in BOOLEAN : mem'[r].flat = ~listed /\ mem'[r].curve = buildDailyTotals(mem[r].total, listed)
      BY <3>1, CountStep
    <3>3. listed
      BY <1>3, <2>2, <3>2
    <3>4. mem[r].total \in Nat /\ mem[r].total <= starred[day] /\ starred[d] \in Nat /\ starred[day] \in Nat
      BY <1>0, <3>1, CountStep, MemType DEF StarInv
    <3>5. mem'[r].curve[d] \in {Never, 0, mem[r].total - (starred[day] - starred[d])}
      BY <3>2, <3>3, <3>4, CurveType
    <3> QED BY <2>2, <3>4, <3>5 DEF Never
  <2> QED BY <2>1, <2>2
<1> QED BY <1>0, <1>1, <1>2, <1>3 DEF StarInv

-----------------------------------------------------------------------------
(* Scores. *)

(* The users vouched for have events. *)
LEMMA VouchedUsers ==
  ASSUME TypeOK, NEW n \in Nat, vouched' = [vouched EXCEPT !.users = Max({@, n})]
  PROVE  vouched'.users \in {vouched.users, n} /\ vouched.users \in Nat
<1>1. vouched \in [releases : Nat, versions : Nat, users : Nat]
  BY DEF TypeOK
<1>2. vouched.users \in Nat
  BY <1>1
<1>3. Max({vouched.users, n}) \in {vouched.users, n}
  BY <1>2, MaxOfTwo
<1> QED BY <1>1, <1>2, <1>3

(* Users with events are users. *)
LEMMA EventUsers ==
  ASSUME TypeOK, ScoreInv
  PROVE  events \in Nat /\ changes \in Nat /\ 1 .. events \subseteq Users /\ vouched.users \in Nat
         /\ vouched.users <= events
BY Constant DEF TypeOK, ScoreInv, Users

(* ScoreInv is kept by the world. *)
LEMMA ScoreWorld ==
  ASSUME TypeOK, ScoreInv, World
  PROVE  ScoreInv'
<1>0. /\ events \in Nat /\ changes \in Nat /\ vouched.users \in Nat
  BY EventUsers
<1>1. pc' = pc /\ mem' = mem /\ scored' = scored /\ vouched' = vouched
  BY WorldFrame
<1>2. /\ events' \in Nat /\ events' >= events /\ events' <= changes' + reputationChunkSize
  <2>1. CASE NewContributor
    BY <1>0, <2>1, Constant DEF NewContributor, Change, ScoreInv
  <2>2. CASE UNCHANGED events /\ (changes' = changes + 1 \/ changes' = changes)
    BY <1>0, <2>2, Constant DEF ScoreInv
  <2>3. changes' = changes + 1 \/ changes' = changes
    BY DEF World, Publish, Push, Star, NewContributor, Midnight, Change
  <2> QED BY <2>1, <2>2, <2>3, WorldFrame
<1>3. vouched'.users <= events' /\ ScoresComplete'
  BY <1>0, <1>1, <1>2 DEF ScoreInv, ScoresComplete
<1>4. ASSUME NEW q \in Run, pc'[q] = "score"
      PROVE  /\ mem'[q].total \in Days /\ mem'[q].from \in 0 .. events' /\ mem'[q].todo \subseteq 1 .. events'
             /\ \A u \in 1 .. mem'[q].from : scored'[u] # Never \/ u \in mem'[q].todo
  <2>1. /\ mem[q].total \in Days /\ mem[q].from \in 0 .. events /\ mem[q].todo \subseteq 1 .. events
        /\ \A u \in 1 .. mem[q].from : scored[u] # Never \/ u \in mem[q].todo
    BY <1>1, <1>4 DEF ScoreInv
  <2>2. 0 .. events \subseteq 0 .. events' /\ 1 .. events \subseteq 1 .. events'
    BY <1>0, <1>2
  <2> QED BY <1>1, <2>1, <2>2
<1> QED BY <1>2, <1>3, <1>4 DEF ScoreInv

(* No score is taken back. *)
LEMMA ScoresKept ==
  ASSUME TypeOK, ScoreInv, NEW r \in Run, Moves(r), NEW u \in Users, scored[u] # Never
  PROVE  scored'[u] # Never
<1>1. CASE FlushChunk(r) \/ LastFlush(r)
  <2>1. pc[r] = "score" /\ \E chunk : ScoreUsers(chunk, mem[r].total)
    BY <1>1, FlushStep, LastFlushStep
  <2>2. mem[r].total \in Days
    BY <2>1 DEF ScoreInv
  <2>3. mem[r].total # Never
    BY <2>2, Constant DEF Days, Never
  <2> QED BY <2>1, <2>3 DEF ScoreUsers
<1>2. CASE UNCHANGED scored
  BY <1>2
<1> QED BY <1>1, <1>2, Writes

(* ScoreInv is kept by the imports. *)
LEMMA ScoreMove ==
  ASSUME TypeOK, ScoreInv, NEW r \in Run, Moves(r)
  PROVE  ScoreInv'
<1>0. /\ Alone(r) /\ events' = events /\ changes' = changes /\ day' = day
      /\ events \in Nat /\ vouched.users \in Nat /\ 1 .. events \subseteq Users
      /\ vouched.users <= events
  BY Lands, EventUsers DEF world
<1>1. /\ events' <= changes' + reputationChunkSize
  BY <1>0 DEF ScoreInv
<1>2. ASSUME NEW q \in Run, pc'[q] = "score"
      PROVE  /\ mem'[q].total \in Days /\ mem'[q].from \in 0 .. events /\ mem'[q].todo \subseteq 1 .. events
             /\ \A u \in 1 .. mem'[q].from : scored'[u] # Never \/ u \in mem'[q].todo
  <2>1. CASE q # r
    <3>1. pc[q] = "score" /\ mem'[q] = mem[q]
      BY <1>0, <1>2, <2>1 DEF Alone
    <3>2. /\ mem[q].total \in Days /\ mem[q].from \in 0 .. events /\ mem[q].todo \subseteq 1 .. events
          /\ \A u \in 1 .. mem[q].from : scored[u] # Never \/ u \in mem[q].todo
      BY <3>1 DEF ScoreInv
    <3>3. \A u \in 1 .. mem[q].from : u \in Users
      BY <1>0, <3>2
    <3> QED BY <3>1, <3>2, <3>3, ScoresKept
  <2>2. CASE q = r /\ ImportReputation(r)
    <3>1. /\ mem'[r].from = events /\ mem'[r].total = day /\ mem'[r].todo = getStaleReputationUsernames
          /\ scored' = scored
      BY <1>2, <2>2, ReputationStep, RestingLabels DEF rows
    <3>2. day \in Days
      BY DayType
    <3>3. mem'[r].from \in 0 .. events
      BY <1>0, <3>1
    <3> QED BY <2>2, <3>1, <3>2, <3>3, StaleUsers
  <2>3. CASE q = r /\ FlushChunk(r)
    <3>1. PICK chunk \in SUBSET mem[r].todo :
            ScoreUsers(chunk, mem[r].total) /\ mem'[r].todo = mem[r].todo \ chunk
      BY <2>3, FlushStep
    <3>2. pc[r] = "score" /\ mem'[r].from = mem[r].from /\ mem'[r].total = mem[r].total
      BY <2>3, FlushStep
    <3>3. /\ mem[r].total \in Days /\ mem[r].from \in 0 .. events /\ mem[r].todo \subseteq 1 .. events
          /\ \A u \in 1 .. mem[r].from : scored[u] # Never \/ u \in mem[r].todo
      BY <3>2 DEF ScoreInv
    <3>4. mem[r].total # Never
      BY <3>3, Constant DEF Days, Never
    <3>5. \A u \in 1 .. mem[r].from : u \in Users
      BY <1>0, <3>3
    <3>6. \A u \in 1 .. mem[r].from : scored'[u] # Never \/ u \in mem'[r].todo
      BY <3>1, <3>3, <3>4, <3>5 DEF ScoreUsers
    <3> QED BY <2>3, <3>1, <3>2, <3>3, <3>6
  <2> QED BY <1>2, <2>1, <2>2, <2>3, Lands
<1>3. vouched'.users <= events /\ \A u \in 1 .. vouched'.users : scored'[u] # Never
  <2>0. \A u \in 1 .. vouched.users : u \in Users /\ scored[u] # Never
    BY <1>0 DEF ScoreInv, ScoresComplete
  <2>1. CASE vouched'.users = vouched.users
    BY <1>0, <2>0, <2>1, ScoresKept
  <2>2. CASE ImportReputation(r) /\ vouched'.users # vouched.users
    <3>1. /\ scored' = scored /\ getStaleReputationUsernames = {}
          /\ vouched' = [vouched EXCEPT !.users = Max({@, events})]
      BY <2>2, ReputationStep DEF rows
    <3>2. vouched'.users = events
      BY <1>0, <2>2, <3>1, VouchedUsers
    <3> QED BY <1>0, <3>1, <3>2, StaleUsers
  <2>3. CASE LastFlush(r) /\ vouched'.users # vouched.users
    <3>1. /\ pc[r] = "score" /\ ScoreUsers(mem[r].todo, mem[r].total)
          /\ vouched' = [vouched EXCEPT !.users = Max({@, mem[r].from})]
      BY <2>3, LastFlushStep
    <3>2. /\ mem[r].total \in Days /\ mem[r].from \in 0 .. events
          /\ \A u \in 1 .. mem[r].from : scored[u] # Never \/ u \in mem[r].todo
      BY <3>1 DEF ScoreInv
    <3>3. vouched'.users = mem[r].from /\ mem[r].from \in Nat
      BY <1>0, <2>3, <3>1, <3>2, VouchedUsers
    <3>4. mem[r].total # Never
      BY <3>2, Constant DEF Days, Never
    <3>5. \A u \in 1 .. mem[r].from : u \in Users
      BY <1>0, <3>2
    <3> QED BY <1>0, <3>1, <3>2, <3>3, <3>4, <3>5 DEF ScoreUsers
  <2> QED BY <2>1, <2>2, <2>3, Writes
<1> QED BY <1>0, <1>1, <1>2, <1>3 DEF ScoreInv, ScoresComplete

-----------------------------------------------------------------------------
(* Container versions. *)

(* A version that is newer than the watermark, with the ties td. *)
New(i, latest, td) == i > latest /\ ~(latest + 1 .. i \subseteq td)

(* What VersionInv says of an import: watermark, start, page and rows so far. *)
Gathered(n, td, saving, latest, from, page, todo) ==
  /\ page >= 1 /\ from <= n
  /\ \A i \in todo : i \in 1 .. n /\ New(i, latest, td)
  /\ \A i \in 1 .. n :
       /\ New(i, latest, td)
       /\ ~saving => i > Unread(n, page)
       /\ i <= from \/ \E j \in todo : i <= j
       => i \in todo

(* Nothing is missing below a version that is stored, but ties. *)
Gapless(S, td) ==
  /\ \A j \in S : (1 .. j) \ S \subseteq td
  /\ \A i \in S \cap td : i - 1 \in S

(* An import of versions that is under way. *)
Gathers(q) ==
  /\ mem[q].latest = 0 \/ mem[q].latest \in versions
  /\ Gathered(pushed, tied, pc[q] = "versionSave", mem[q].latest, mem[q].from, mem[q].page, mem[q].todo)

(* VersionInv in terms of Gathered, before and after a step. *)
LEMMA VersionParts ==
  ASSUME VersionInv
  PROVE  /\ VersionsComplete /\ vouched.versions <= pushed /\ Gapless(versions, tied)
         /\ \A q \in Run : pc[q] \in {"versionPage", "versionSave"} => Gathers(q)
<1>1. ASSUME NEW q \in Run, pc[q] \in {"versionPage", "versionSave"}
      PROVE  Gathers(q)
  <2>1. /\ mem[q].page >= 1 /\ mem[q].from <= pushed
        /\ mem[q].todo \subseteq NewerThan(1 .. pushed, mem[q].latest)
        /\ mem[q].latest = 0 \/ mem[q].latest \in versions
        /\ \A i \in NewerThan(1 .. pushed, mem[q].latest) :
             /\ pc[q] = "versionPage" => i > Unread(pushed, mem[q].page)
             /\ i <= mem[q].from \/ \E j \in mem[q].todo : i <= j
             => i \in mem[q].todo
    BY <1>1 DEF VersionInv
  <2>2. \A i : i \in NewerThan(1 .. pushed, mem[q].latest) <=> i \in 1 .. pushed /\ New(i, mem[q].latest, tied)
    BY DEF NewerThan, New
  <2> QED BY <1>1, <2>1, <2>2, Zenon DEF Gathers, Gathered
<1> QED BY <1>1 DEF VersionInv, Gapless

(* The same of the state after a step. *)
LEMMA VersionNext ==
  ASSUME VersionsComplete', vouched'.versions <= pushed', Gapless(versions', tied'),
         \A q \in Run : pc'[q] \in {"versionPage", "versionSave"} => Gathers(q)'
  PROVE  VersionInv'
<1>1. ASSUME NEW q \in Run, pc'[q] \in {"versionPage", "versionSave"}
      PROVE  /\ mem'[q].page >= 1 /\ mem'[q].from <= pushed'
             /\ mem'[q].todo \subseteq NewerThan(1 .. pushed, mem[q].latest)'
             /\ mem'[q].latest = 0 \/ mem'[q].latest \in versions'
             /\ \A i \in NewerThan(1 .. pushed, mem[q].latest)' :
                  /\ pc'[q] = "versionPage" => i > Unread(pushed', mem'[q].page)
                  /\ i <= mem'[q].from \/ \E j \in mem'[q].todo : i <= j
                  => i \in mem'[q].todo
  <2>1. /\ mem'[q].latest = 0 \/ mem'[q].latest \in versions'
        /\ Gathered(pushed', tied', pc'[q] = "versionSave", mem'[q].latest, mem'[q].from, mem'[q].page, mem'[q].todo)
    BY <1>1 DEF Gathers
  <2>2. \A i : i \in NewerThan(1 .. pushed, mem[q].latest)' <=> i \in 1 .. pushed' /\ New(i, mem'[q].latest, tied')
    BY DEF NewerThan, New
  <2>3. pc'[q] = "versionPage" <=> ~(pc'[q] = "versionSave")
    BY <1>1
  <2> QED BY <2>1, <2>2, <2>3, Zenon DEF Gathered
<1> QED BY <1>1 DEF VersionInv, Gapless

(* What is older than a version that is not new is not new either. *)
LEMMA NewAbove ==
  ASSUME NEW latest \in Nat, NEW td, NEW i \in Nat, NEW e \in Nat,
         New(i, latest, td), ~New(e, latest, td)
  PROVE  i > e
BY DEF New

(* A version that is pushed moves the pages and changes nothing below. *)
LEMMA GatheredPush ==
  ASSUME NEW n \in Nat, NEW saving \in BOOLEAN, NEW latest \in Nat, NEW from \in Nat \cup {Never},
         NEW page \in Nat, NEW todo \in SUBSET Nat, NEW td, NEW tdn, tdn = td \/ tdn = td \cup {n + 1},
         Gathered(n, td, saving, latest, from, page, todo)
  PROVE  Gathered(n + 1, tdn, saving, latest, from, page, todo)
<1>1. /\ page \in Nat \ {0} /\ from <= n /\ from \in Int
      /\ \A i \in todo : i \in 1 .. n /\ New(i, latest, td)
  BY DEF Gathered, Never
<1>2. Unread(n, page) \in Int /\ Unread(n + 1, page) = Unread(n, page) + 1
  BY <1>1, Paging
<1>3. ASSUME NEW i \in 1 .. n
      PROVE  New(i, latest, tdn) <=> New(i, latest, td)
  <2>1. n + 1 \notin latest + 1 .. i
    OBVIOUS
  <2> QED BY <2>1 DEF New
<1>4. ASSUME NEW i \in 1 .. (n + 1), New(i, latest, tdn), ~saving => i > Unread(n + 1, page),
             i <= from \/ \E j \in todo : i <= j
      PROVE  i \in todo
  <2>1. i \in 1 .. n
    BY <1>1, <1>4
  <2>2. ~saving => i > Unread(n, page)
    BY <1>2, <1>4
  <2> QED BY <1>3, <1>4, <2>1, <2>2 DEF Gathered
<1>5. \A i \in todo : i \in 1 .. (n + 1) /\ New(i, latest, tdn)
  BY <1>1, <1>3
<1>6. from <= n + 1
  BY <1>1
<1> HIDE DEF New
<1> QED BY <1>1, <1>4, <1>5, <1>6 DEF Gathered

(* Reading a page extends what is gathered downwards; the last page ends at *)
(* the watermark or at the first version.                                   *)
LEMMA GatheredPage ==
  ASSUME NEW n \in Nat, NEW latest \in Nat, NEW from \in Nat \cup {Never},
         NEW page \in Nat, NEW todo \in SUBSET Nat,
         Gathered(n, tied, FALSE, latest, from, page, todo)
  PROVE  LET p    == PageOf(n, page)
             kept == NewerThan(p, latest)
         IN  /\ Gathered(n, tied, FALSE, latest, from, page + 1, todo \cup kept)
             /\ ~(kept = p /\ NextPage(n, page)) => Gathered(n, tied, TRUE, latest, from, page, todo \cup kept)
<1> DEFINE p    == PageOf(n, page)
           kept == NewerThan(p, latest)
<1>1. /\ page \in Nat \ {0} /\ from <= n /\ from \in Int
      /\ \A i \in todo : i \in 1 .. n /\ New(i, latest, tied)
  BY DEF Gathered, Never
<1>2. /\ Unread(n, page) \in Int /\ Unread(n, page + 1) \in Int
      /\ p \subseteq 1 .. n
      /\ \A i \in 1 .. n : i \in p <=> (Unread(n, page + 1) < i /\ i <= Unread(n, page))
      /\ NextPage(n, page) <=> Unread(n, page + 1) > 0
  BY <1>1, Paging
<1>3. \A i : i \in kept <=> i \in p /\ New(i, latest, tied)
  BY DEF NewerThan, New
<1> HIDE DEF p, kept
<1>4. ASSUME NEW i \in 1 .. n, New(i, latest, tied), i > Unread(n, page + 1),
             i <= from \/ \E j \in todo \cup kept : i <= j
      PROVE  i \in todo \cup kept
  <2>1. CASE i <= Unread(n, page)
    BY <1>2, <1>3, <1>4, <2>1
  <2>2. CASE i > Unread(n, page)
    <3>1. ASSUME NEW j \in kept PROVE ~(i <= j)
      <4>1. j \in p /\ j \in 1 .. n
        BY <1>2, <1>3
      <4>2. j <= Unread(n, page)
        BY <1>2, <4>1
      <4> QED BY <1>2, <2>2, <4>1, <4>2
    <3>2. i <= from \/ \E j \in todo : i <= j
      BY <1>4, <3>1
    <3> QED BY <1>4, <2>2, <3>2 DEF Gathered
  <2> QED BY <1>2, <2>1, <2>2
<1>5. \A i \in todo \cup kept : i \in 1 .. n /\ New(i, latest, tied)
  BY <1>1, <1>2, <1>3
<1>6. Gathered(n, tied, FALSE, latest, from, page + 1, todo \cup kept)
  BY <1>1, <1>4, <1>5 DEF Gathered
<1>7. ASSUME ~(kept = p /\ NextPage(n, page)), NEW i \in 1 .. n, New(i, latest, tied)
      PROVE  i > Unread(n, page + 1)
  <2>1. CASE ~NextPage(n, page)
    BY <1>2, <2>1
  <2>2. CASE kept # p
    <3>1. PICK e \in p : ~New(e, latest, tied)
      BY <1>3, <2>2
    <3>2. e \in 1 .. n /\ e > Unread(n, page + 1)
      BY <1>2, <3>1
    <3>3. i > e
      BY <1>7, <3>1, <3>2, NewAbove
    <3> QED BY <1>2, <3>2, <3>3
  <2> QED BY <1>7, <2>1, <2>2
<1>8. ~(kept = p /\ NextPage(n, page)) => Gathered(n, tied, TRUE, latest, from, page, todo \cup kept)
  BY <1>1, <1>4, <1>5, <1>7 DEF Gathered
<1> QED BY <1>6, <1>8 DEF p, kept

(* The listings have a length. *)
LEMMA PushedType ==
  ASSUME TypeOK
  PROVE  /\ pushed \in Nat /\ versions \in SUBSET (1 .. pushed) /\ vouched.versions \in Nat
         /\ tied \in SUBSET (2 .. pushed)
         /\ published \in Nat /\ releases \in SUBSET (1 .. published) /\ vouched.releases \in Nat
BY DEF TypeOK

(* VersionInv is kept by the world. *)
LEMMA VersionWorld ==
  ASSUME TypeOK, VersionInv, World
  PROVE  VersionInv'
<1>0. pushed \in Nat /\ versions \in SUBSET (1 .. pushed) /\ vouched.versions \in Nat
  BY PushedType
<1>1. pc' = pc /\ mem' = mem /\ versions' = versions /\ vouched' = vouched
  BY WorldFrame
<1>2. \/ pushed' = pushed /\ tied' = tied
      \/ pushed' = pushed + 1 /\ (tied' = tied \/ tied' = tied \cup {pushed + 1})
  BY WorldFrame DEF Push
<1>3. ASSUME NEW q \in Run, pc'[q] \in {"versionPage", "versionSave"}
      PROVE  Gathers(q)'
  <2>1. /\ mem[q].latest = 0 \/ mem[q].latest \in versions
        /\ Gathered(pushed, tied, pc[q] = "versionSave", mem[q].latest, mem[q].from, mem[q].page, mem[q].todo)
    BY <1>1, <1>3, VersionParts DEF Gathers
  <2>2. /\ mem[q].latest \in Nat /\ mem[q].from \in Nat \cup {Never} /\ mem[q].page \in Nat
        /\ mem[q].todo \in SUBSET Nat
    BY MemType
  <2>3. PICK b \in BOOLEAN : b = (pc[q] = "versionSave")
    OBVIOUS
  <2>4. CASE pushed' = pushed /\ tied' = tied
    BY <1>1, <2>1, <2>4 DEF Gathers
  <2>5. CASE pushed' = pushed + 1 /\ (tied' = tied \/ tied' = tied \cup {pushed + 1})
    <3>1. Gathered(pushed + 1, tied', b, mem[q].latest, mem[q].from, mem[q].page, mem[q].todo)
      BY <1>0, <2>1, <2>2, <2>3, <2>5, GatheredPush
    <3> QED BY <1>1, <2>1, <2>3, <2>5, <3>1 DEF Gathers
  <2> QED BY <1>2, <2>4, <2>5
<1>4. VersionsComplete' /\ vouched'.versions <= pushed'
  BY <1>0, <1>1, <1>2, VersionParts DEF VersionsComplete
<1>5. Gapless(versions', tied')
  <2>1. Gapless(versions, tied) /\ pushed + 1 \notin versions
    BY <1>0, VersionParts
  <2> QED BY <1>1, <1>2, <2>1 DEF Gapless
<1> QED BY <1>3, <1>4, <1>5, VersionNext

(* VersionInv is kept by the imports: what is committed reaches down to a   *)
(* watermark below which nothing is missing but ties.                       *)
LEMMA VersionMove ==
  ASSUME TypeOK, VersionInv, NEW r \in Run, Moves(r)
  PROVE  VersionInv'
<1>0. /\ Alone(r) /\ pushed' = pushed /\ tied' = tied /\ pushed \in Nat /\ versions \in SUBSET (1 .. pushed)
      /\ vouched.versions \in Nat /\ Gapless(versions, tied) /\ VersionsComplete /\ vouched.versions <= pushed
  BY Lands, PushedType, VersionParts DEF world
<1>1. /\ versions \subseteq versions' /\ VersionsComplete' /\ vouched'.versions <= pushed'
      /\ Gapless(versions', tied')
  <2>1. CASE UNCHANGED versions /\ vouched'.versions = vouched.versions
    BY <1>0, <2>1 DEF VersionsComplete
  <2>2. CASE CommitVersions(r)
    <3> DEFINE latest == mem[r].latest
               todo   == mem[r].todo
    <3>1. /\ pc[r] = "versionSave" /\ versions' = versions \cup todo
          /\ vouched' = [vouched EXCEPT !.versions = Max({@, mem[r].from})]
      BY <2>2, CommitStep
    <3>2. /\ latest = 0 \/ latest \in versions
          /\ Gathered(pushed, tied, TRUE, latest, mem[r].from, mem[r].page, todo)
      BY <3>1, VersionParts DEF Gathers
    <3>3. /\ latest \in Nat /\ mem[r].from \in Nat \cup {Never} /\ todo \in SUBSET Nat
      BY MemType
    <3>4. mem[r].from <= pushed /\ \A i \in todo : i \in 1 .. pushed /\ New(i, latest, tied)
      BY <3>2 DEF Gathered
    <3> HIDE DEF latest, todo
    <3>5. ASSUME NEW i \in 1 .. pushed, i <= mem[r].from \/ \E j \in todo : i <= j, i \notin versions'
          PROVE  i \in tied
      <4>1. i \notin versions /\ i \notin todo
        BY <3>1, <3>5
      <4>2. ~New(i, latest, tied)
        BY <3>2, <3>5, <4>1 DEF Gathered
      <4>3. CASE i > latest
        <5>1. i \in latest + 1 .. i /\ latest + 1 .. i \subseteq tied
          BY <3>3, <4>2, <4>3 DEF New
        <5> QED BY <5>1
      <4>4. CASE ~(i > latest)
        <5>1. latest \in versions /\ i \in 1 .. latest
          BY <3>2, <3>3, <4>4
        <5> QED BY <1>0, <4>1, <5>1 DEF Gapless
      <4> QED BY <4>3, <4>4
    <3>6. ASSUME NEW j \in versions', NEW i \in 1 .. j, i \notin versions'
          PROVE  i \in tied
      <4>1. CASE j \in versions
        BY <1>0, <3>1, <3>6, <4>1 DEF Gapless
      <4>2. CASE j \in todo
        <5>1. i \in 1 .. pushed /\ i <= j
          BY <1>0, <3>4, <4>2
        <5> QED BY <3>5, <3>6, <4>2, <5>1
      <4> QED BY <3>1, <4>1, <4>2
    <3>7. vouched'.versions \in {vouched.versions, mem[r].from}
      <4>1. vouched \in [releases : Nat, versions : Nat, users : Nat]
        BY DEF TypeOK
      <4>2. mem[r].from \in Int /\ vouched.versions \in Int
        BY <1>0, <3>3 DEF Never
      <4>3. Max({vouched.versions, mem[r].from}) \in {vouched.versions, mem[r].from}
        BY <4>2, MaxOfTwo
      <4> QED BY <3>1, <4>1, <4>3
    <3>8. ASSUME NEW i \in 1 .. vouched'.versions, i \notin versions'
          PROVE  i \in tied
      <4>1. CASE vouched'.versions = vouched.versions
        BY <1>0, <3>1, <3>8, <4>1 DEF VersionsComplete
      <4>2. CASE vouched'.versions = mem[r].from
        <5>1. i \in 1 .. pushed /\ i <= mem[r].from
          BY <1>0, <3>3, <3>4, <4>2 DEF Never
        <5> QED BY <3>5, <3>8, <5>1
      <4> QED BY <3>7, <4>1, <4>2
    <3>9. ASSUME NEW i \in versions', i \in tied
          PROVE  i - 1 \in versions'
      <4>1. CASE i \in versions
        BY <1>0, <3>1, <3>9, <4>1 DEF Gapless
      <4>2. CASE i \in todo
        <5>1. i \in 1 .. pushed /\ New(i, latest, tied)
          BY <3>4, <4>2
        <5>2. PICK k \in latest + 1 .. i : k \notin tied
          BY <5>1 DEF New
        <5>3. i \in Int /\ k \in Int /\ latest + 1 <= k /\ k <= i /\ k # i
          BY <3>3, <3>9, <5>1, <5>2
        <5>4. i - 1 > latest /\ i - 1 \in 1 .. pushed /\ k \in latest + 1 .. i - 1
          BY <1>0, <3>3, <5>1, <5>3
        <5>5. i - 1 <= i
          BY <5>1
        <5>6. New(i - 1, latest, tied)
          BY <5>2, <5>4 DEF New
        <5>7. i - 1 \in todo
          BY <3>2, <4>2, <5>4, <5>5, <5>6 DEF Gathered
        <5> QED BY <3>1, <5>7
      <4> QED BY <3>1, <4>1, <4>2
    <3>10. vouched'.versions <= pushed'
      BY <1>0, <3>4, <3>7
    <3> QED BY <1>0, <3>1, <3>6, <3>8, <3>9, <3>10 DEF VersionsComplete, Gapless
  <2> QED BY <2>1, <2>2, Writes
<1>2. ASSUME NEW q \in Run, pc'[q] \in {"versionPage", "versionSave"}
      PROVE  Gathers(q)'
  <2>1. CASE q # r
    <3>1. pc'[q] = pc[q] /\ mem'[q] = mem[q]
      BY <1>0, <2>1 DEF Alone
    <3>2. Gathers(q)
      BY <1>2, <3>1, VersionParts
    <3> QED BY <1>0, <1>1, <3>1, <3>2 DEF Gathers
  <2>2. CASE q = r /\ upsertContainerVersions(r)
    <3>1. /\ pc'[r] = "versionPage" /\ mem'[r].from = pushed /\ mem'[r].latest = Newest(versions)
          /\ mem'[r].page = 1 /\ mem'[r].todo = {} /\ versions' = versions
      BY <2>2, VersionsStep DEF rows
    <3>2. Newest(versions) \in Nat /\ (Newest(versions) = 0 \/ Newest(versions) \in versions)
      BY <1>0, NewestType
    <3>4. Unread(pushed, 1) = pushed
      BY <1>0, FirstPage
    <3>5. Gathered(pushed, tied, FALSE, Newest(versions), pushed, 1, {})
      BY <1>0, <3>4 DEF Gathered
    <3> QED BY <1>0, <2>2, <3>1, <3>2, <3>5 DEF Gathers
  <2>3. CASE q = r /\ fetchAndStoreVersions(r)
    <3> DEFINE p    == PageOf(pushed, mem[r].page)
               kept == NewerThan(p, mem[r].latest)
               more == kept = p /\ NextPage(pushed, mem[r].page)
    <3>1. /\ pc[r] = "versionPage" /\ versions' = versions
          /\ mem'[r].from = mem[r].from /\ mem'[r].latest = mem[r].latest
          /\ mem'[r].todo = mem[r].todo \cup kept
          /\ \/ more /\ pc'[r] = "versionPage" /\ mem'[r].page = mem[r].page + 1
             \/ ~more /\ pc'[r] = "versionSave" /\ mem'[r].page = mem[r].page
      BY <2>3, VersionPageStep DEF rows
    <3>2. /\ mem[r].latest = 0 \/ mem[r].latest \in versions
          /\ Gathered(pushed, tied, FALSE, mem[r].latest, mem[r].from, mem[r].page, mem[r].todo)
      BY <3>1, VersionParts DEF Gathers
    <3>3. /\ mem[r].latest \in Nat /\ mem[r].from \in Nat \cup {Never} /\ mem[r].page \in Nat
          /\ mem[r].todo \in SUBSET Nat
      BY MemType
    <3>4. /\ Gathered(pushed, tied, FALSE, mem[r].latest, mem[r].from, mem[r].page + 1, mem[r].todo \cup kept)
          /\ ~more => Gathered(pushed, tied, TRUE, mem[r].latest, mem[r].from, mem[r].page, mem[r].todo \cup kept)
      BY <1>0, <3>2, <3>3, GatheredPage
    <3> HIDE DEF kept, more
    <3> QED BY <1>0, <2>3, <3>1, <3>2, <3>4 DEF Gathers
  <2> QED BY <1>2, <2>1, <2>2, <2>3, Lands
<1> QED BY <1>1, <1>2, VersionNext

-----------------------------------------------------------------------------
(* Releases. *)

(* The import q is still to read the release i. *)
Pending(q, i) ==
  BetweenPages(q) /\ mem[q].latest <= i /\ i <= Unread(published, mem[q].page)

(* A release that ought to be stored. *)
Expected(i) == i <= vouched.releases \/ \E j \in releases : i <= j

Paged(q) ==
  /\ mem[q].page >= 1 /\ mem[q].from <= published
  /\ mem[q].latest = 0 \/ mem[q].latest \in releases
  /\ mem[q].page > 1 => \E j \in releases : mem[q].from <= j

(* ReleaseInv in terms of Pending, before and after a step. *)
LEMMA ReleaseParts ==
  ReleaseInv <=>
    /\ published >= 1 /\ vouched.releases <= published
    /\ \A q \in Run : pc[q] = "releasePage" => Paged(q)
    /\ ~cut => \A i \in (1 .. published) \ releases : Expected(i) => \E q \in Run : Pending(q, i)
BY DEF ReleaseInv, Paged, Expected, Pending

(* The same of the state after a step. *)
LEMMA ReleaseNext ==
  ASSUME published' >= 1, vouched'.releases <= published',
         \A q \in Run : pc'[q] = "releasePage" => Paged(q)',
         ~cut' => \A i \in (1 .. published') \ releases' : Expected(i)' => \E q \in Run : Pending(q, i)'
  PROVE  ReleaseInv'
BY DEF ReleaseInv, Paged, Expected, Pending

(* The releases of a page that are not older than the watermark. *)
LEMMA PageKept ==
  ASSUME NEW n \in Nat, NEW page \in SUBSET (1 .. n), NEW latest \in Nat
  PROVE  /\ upsertReleasePage(page, latest) \subseteq page
         /\ \A j \in page : j \in upsertReleasePage(page, latest) <=> latest = 0 \/ j >= latest
<1>1. \A j \in page : j \in Nat
  OBVIOUS
<1> QED BY <1>1 DEF upsertReleasePage, Before

(* What an import is still to read, as a number. *)
LEMMA PendingType ==
  ASSUME TypeOK, NEW q \in Run, BetweenPages(q)
  PROVE  /\ mem[q].latest \in Nat /\ mem[q].page \in Nat \ {0} /\ published \in Nat
         /\ Unread(published, mem[q].page) \in Int
         /\ Unread(published + 1, mem[q].page) = Unread(published, mem[q].page) + 1
<1>1. mem[q].latest \in Nat /\ mem[q].page \in Nat /\ published \in Nat
  BY MemType, PushedType
<1>2. mem[q].page \in Nat \ {0}
  BY <1>1 DEF BetweenPages
<1> QED BY <1>1, <1>2, Paging

(* ReleaseInv is kept by the world: a release that is published moves the   *)
(* pages down with what is still to be read.                                *)
LEMMA ReleaseWorld ==
  ASSUME TypeOK, ReleaseInv, World
  PROVE  ReleaseInv'
<1>1. pc' = pc /\ mem' = mem /\ releases' = releases /\ vouched' = vouched /\ cut' = cut
  BY WorldFrame
<1>2. published' = published \/ published' = published + 1
  BY WorldFrame DEF Publish
<1>3. published \in Nat /\ vouched.releases \in Nat /\ releases \in SUBSET (1 .. published)
  BY PushedType
<1>4. published >= 1 /\ vouched.releases <= published
  BY DEF ReleaseInv
<1>5. \A q \in Run : pc'[q] = "releasePage" => Paged(q)'
  <2> SUFFICES ASSUME NEW q \in Run, pc[q] = "releasePage" PROVE Paged(q)'
    BY <1>1
  <2>1. Paged(q)
    BY ReleaseParts
  <2>2. mem[q].from \in Nat \cup {Never}
    BY MemType
  <2>3. mem[q].from <= published'
    BY <1>2, <1>3, <2>1, <2>2 DEF Paged, Never
  <2> QED BY <1>1, <2>1, <2>3 DEF Paged
<1>6. ASSUME ~cut, NEW i \in (1 .. published') \ releases, i <= vouched.releases \/ \E j \in releases : i <= j
      PROVE  \E q \in Run : Pending(q, i)'
  <2>1. i \in (1 .. published) \ releases /\ Expected(i)
    BY <1>2, <1>3, <1>4, <1>6 DEF Expected
  <2>2. PICK q \in Run : Pending(q, i)
    BY <1>6, <2>1, ReleaseParts
  <2>3. i <= Unread(published', mem[q].page)
    <3>1. BetweenPages(q) /\ i <= Unread(published, mem[q].page) /\ i \in Nat
      BY <1>3, <2>1, <2>2 DEF Pending
    <3> QED BY <1>2, <3>1, PendingType
  <2> QED BY <1>1, <2>2, <2>3 DEF Pending, BetweenPages
<1> QED BY <1>1, <1>2, <1>3, <1>4, <1>5, <1>6, ReleaseNext DEF Expected

(* An import leaves a page by storing it or by being interrupted. *)
LEMMA LeavesPage ==
  ASSUME TypeOK, NEW r \in Run, Moves(r), pc[r] = "releasePage"
  PROVE  ReleasePage(r) \/ Interrupted(r)
<1>1. CASE runEnrichmentPhases(r) \/ runCatchUpInsights(r) \/ ImportReleases(r) \/ ImportRepoMetricHistory(r)
  BY <1>1 DEF runEnrichmentPhases, runCatchUpInsights, ImportReleases, ImportRepoMetricHistory
<1>2. CASE countRecentStarsByDay(r) \/ upsertMetricHistory(r) \/ PackagesHidden(r) \/ upsertContainerVersions(r)
  BY <1>2 DEF countRecentStarsByDay, upsertMetricHistory, PackagesHidden, upsertContainerVersions
<1>3. CASE fetchAndStoreVersions(r) \/ CommitVersions(r) \/ ImportReputation(r) \/ FlushChunk(r) \/ LastFlush(r)
  BY <1>3 DEF fetchAndStoreVersions, CommitVersions, ImportReputation, FlushChunk, LastFlush
<1>4. CASE GetRepoInsightsGeneratedAt(r) \/ generateRepoInsights(r) \/ GatherInsightsMetrics(r)
  BY <1>4 DEF GetRepoInsightsGeneratedAt, generateRepoInsights, GatherInsightsMetrics
<1>5. CASE InsightsRetry(r) \/ GenerateInsights(r) \/ SaveRepoInsights(r)
  BY <1>5 DEF InsightsRetry, GenerateInsights, SaveRepoInsights
<1>6. CASE Retry(r) \/ PhaseFails(r) \/ Cancel(r)
  BY <1>6 DEF Retry, PhaseFails, Cancel
<1> QED BY <1>1, <1>2, <1>3, <1>4, <1>5, <1>6, Zenon DEF Moves, Step

(* The other imports: what they are to read, they are still to read. *)
LEMMA OthersPending ==
  ASSUME NEW r \in Run, Alone(r), published' = published, NEW q \in Run \ {r}
  PROVE  /\ \A i : Pending(q, i) => Pending(q, i)'
         /\ releases \subseteq releases' /\ Paged(q) => Paged(q)'
BY DEF Alone, Pending, BetweenPages, Paged

(* A step that stores no release keeps ReleaseInv, unless it ends an        *)
(* import between its pages, which cut records.                             *)
LEMMA ReleaseOther ==
  ASSUME TypeOK, ReleaseInv, NEW r \in Run, Moves(r), ~ReleasePage(r)
  PROVE  ReleaseInv'
<1>0. Alone(r) /\ published' = published /\ published \in Nat /\ releases \in SUBSET (1 .. published)
  BY Lands, PushedType DEF world
<1>1. releases' = releases /\ vouched'.releases = vouched.releases
  BY Writes
<1>2. ASSUME NEW q \in Run, pc'[q] = "releasePage"
      PROVE  Paged(q)'
  <2>1. CASE q # r
    BY <1>0, <1>1, <1>2, <2>1, OthersPending, ReleaseParts DEF Alone
  <2>2. CASE q = r
    <3>1. ImportReleases(r)
      BY <1>2, <2>2, Lands
    <3>2. mem'[r].from = published /\ mem'[r].latest = Newest(releases) /\ mem'[r].page = 1
      BY <3>1, ReleasesStep
    <3>3. Newest(releases) = 0 \/ Newest(releases) \in releases
      BY <1>0, NewestType
    <3> QED BY <1>0, <1>1, <2>2, <3>2, <3>3 DEF Paged
  <2> QED BY <2>1, <2>2
<1>3. ASSUME ~cut', NEW i \in (1 .. published) \ releases, Expected(i)
      PROVE  \E q \in Run : Pending(q, i)'
  <2>1. ~cut /\ ~(Interrupted(r) /\ BetweenPages(r))
    BY <1>3, Writes DEF Interrupted
  <2>2. PICK q \in Run : Pending(q, i)
    BY <1>3, <2>1, ReleaseParts
  <2>3. q # r
    BY <2>1, <2>2, LeavesPage DEF Pending, BetweenPages
  <2> QED BY <1>0, <2>2, <2>3, OthersPending
<1>4. published >= 1 /\ vouched.releases <= published
  BY DEF ReleaseInv
<1> QED BY <1>0, <1>1, <1>2, <1>3, <1>4, ReleaseNext DEF Expected

(* A page stored keeps ReleaseInv: what is missing below it and above the   *)
(* watermark is on the pages to come, and what is below the watermark was   *)
(* expected before.                                                         *)
LEMMA ReleaseStored ==
  ASSUME TypeOK, ReleaseInv, NEW r \in Run, ReleasePage(r)
  PROVE  ReleaseInv'
<1> DEFINE p    == mem[r].page
           page == PageOf(published, p)
           kept == upsertReleasePage(page, mem[r].latest)
           more == kept = page /\ NextPage(published, p)
           lo   == Unread(published, p + 1)
           hi   == Unread(published, p)
           from == mem[r].from
           latest == mem[r].latest
<1>1. /\ Alone(r) /\ pc[r] = "releasePage" /\ releases' = releases \cup kept /\ published' = published /\ cut' = cut
      /\ \/ /\ more /\ pc'[r] = "releasePage" /\ vouched' = vouched
            /\ mem'[r].page = p + 1 /\ mem'[r].from = from /\ mem'[r].latest = latest
         \/ /\ ~more /\ pc'[r] \in Resting
            /\ vouched' = [vouched EXCEPT !.releases = Max({@, from})]
  BY ReleasePageStep DEF world
<1>2. Paged(r) /\ published >= 1 /\ vouched.releases <= published
  BY <1>1, ReleaseParts
<1>3. /\ p \in Nat \ {0} /\ latest \in Nat /\ from \in Nat \cup {Never} /\ published \in Nat
      /\ releases \in SUBSET (1 .. published) /\ vouched.releases \in Nat
  BY <1>2, MemType, PushedType DEF Paged
<1>4. /\ lo \in Int /\ hi \in Int /\ lo < hi /\ page \subseteq 1 .. published
      /\ \A i \in 1 .. published : i \in page <=> (lo < i /\ i <= hi)
      /\ NextPage(published, p) <=> lo > 0
  BY <1>3, Paging
<1>5. kept \subseteq page /\ \A j \in page : j \in kept <=> latest = 0 \/ j >= latest
  <2>1. PICK P \in SUBSET (1 .. published) : P = page
    BY <1>4
  <2>2. PICK L \in Nat : L = latest
    BY <1>3
  <2>3. /\ upsertReleasePage(P, L) \subseteq P
        /\ \A j \in P : j \in upsertReleasePage(P, L) <=> L = 0 \/ j >= L
    BY <1>3, PageKept
  <2> QED BY <2>1, <2>2, <2>3
<1>6. p = 1 => hi = published
  BY <1>3, FirstPage
<1>7. p > 1 => \E j \in releases : from <= j
  BY <1>2 DEF Paged
<1>8. latest = 0 \/ latest \in releases
  BY <1>2 DEF Paged
<1>9. more => Paged(r)'
  <2> HAVE more
  <2>1. \E j \in releases' : from <= j
    <3>1. CASE p > 1
      BY <1>1, <1>7, <3>1
    <3>2. CASE p = 1
      <4>1. published \in page /\ from <= published
        BY <1>2, <1>3, <1>4, <1>6, <3>2 DEF Paged
      <4> QED BY <1>1, <4>1
    <3> QED BY <1>3, <3>1, <3>2
  <2>2. mem'[r].page = p + 1 /\ mem'[r].from = from /\ mem'[r].latest = latest
    BY <1>1
  <2>3. p + 1 >= 1
    BY <1>3
  <2>4. latest = 0 \/ latest \in releases'
    BY <1>1, <1>8
  <2> HIDE DEF p, from, latest
  <2> QED BY <1>1, <1>2, <2>1, <2>2, <2>3, <2>4 DEF Paged, from
<1>10. ASSUME NEW i \in 1 .. published, i \notin releases', latest <= i, i <= hi
       PROVE  Pending(r, i)'
  <2>1. i <= lo
    BY <1>1, <1>3, <1>4, <1>5, <1>10
  <2>2. more
    <3>1. lo > 0
      BY <1>4, <2>1
    <3>2. ASSUME kept # page PROVE FALSE
      <4>1. PICK e \in page : e \notin kept
        BY <1>5, <3>2
      <4>2. e \in 1 .. published /\ lo < e /\ e < latest
        BY <1>3, <1>4, <1>5, <4>1
      <4> QED BY <1>3, <1>4, <1>10, <2>1, <4>2
    <3> QED BY <1>4, <3>1, <3>2
  <2>3. /\ pc'[r] = "releasePage" /\ mem'[r].page = p + 1 /\ mem'[r].latest = latest
    BY <1>1, <2>2, RestingLabels
  <2>4. p + 1 > 1
    BY <1>3
  <2> HIDE DEF p, latest, more
  <2> QED BY <1>1, <1>10, <2>1, <2>3, <2>4 DEF Pending, BetweenPages
<1>11. ASSUME ~cut, NEW i \in (1 .. published) \ releases', Expected(i)
       PROVE  \E q \in Run : Pending(q, i)'
  <2>1. i \in (1 .. published) \ releases
    BY <1>1, <1>11
  <2>2. PICK q \in Run : Pending(q, i)
    BY <1>11, <2>1, ReleaseParts
  <2>3. CASE q = r
    BY <1>10, <1>11, <2>2, <2>3 DEF Pending
  <2>4. CASE q # r
    BY <1>1, <2>2, <2>4, OthersPending
  <2> QED BY <2>3, <2>4
<1>12. vouched'.releases = vouched.releases \/ (~more /\ vouched'.releases = from)
  <2>1. CASE ~more
    <3>1. vouched \in [releases : Nat, versions : Nat, users : Nat]
      BY DEF TypeOK
    <3>2. from \in Int /\ vouched.releases \in Int
      BY <1>3 DEF Never
    <3>3. Max({vouched.releases, from}) \in {vouched.releases, from}
      BY <3>2, MaxOfTwo
    <3>4. vouched'.releases = Max({vouched.releases, from})
      BY <1>1, <2>1, <3>1
    <3> QED BY <2>1, <3>3, <3>4
  <2>2. CASE more
    BY <1>1, <2>2
  <2> QED BY <2>1, <2>2
<1>13. ASSUME NEW i \in (1 .. published) \ releases', Expected(i)', ~Expected(i)
       PROVE  Pending(r, i)'
  <2>1. latest <= i
    BY <1>3, <1>8, <1>13 DEF Expected
  <2>2. i <= hi
    <3>1. CASE \E j \in kept : i <= j
      <4>1. PICK j \in kept : i <= j
        BY <3>1
      <4>2. j \in 1 .. published /\ j <= hi
        BY <1>4, <1>5, <4>1
      <4> QED BY <1>4, <4>1, <4>2
    <3>2. CASE i <= from
      <4>1. ~(p > 1)
        <5>1. ASSUME NEW j \in releases, from <= j PROVE FALSE
          <6>1. i <= j
            BY <1>3, <3>2, <5>1 DEF Never
          <6> QED BY <1>13, <6>1 DEF Expected
        <5> QED BY <1>7, <5>1
      <4>2. p = 1
        BY <1>3, <4>1
      <4> QED BY <1>6, <4>2
    <3>3. (\E j \in kept : i <= j) \/ i <= from
      BY <1>1, <1>12, <1>13 DEF Expected
    <3> QED BY <3>1, <3>2, <3>3
  <2> QED BY <1>10, <1>13, <2>1, <2>2
<1>14. ASSUME NEW q \in Run, pc'[q] = "releasePage"
       PROVE  Paged(q)'
  <2>1. CASE q = r
    BY <1>1, <1>9, <1>14, <2>1, RestingLabels
  <2>2. CASE q # r
    BY <1>1, <1>14, <2>2, OthersPending, ReleaseParts DEF Alone
  <2> QED BY <2>1, <2>2
<1>15. published' >= 1 /\ vouched'.releases <= published'
  BY <1>1, <1>2, <1>12 DEF Paged
<1>16. ~cut' => \A i \in (1 .. published') \ releases' : Expected(i)' => \E q \in Run : Pending(q, i)'
  BY <1>1, <1>11, <1>13
<1> QED BY <1>14, <1>15, <1>16, ReleaseNext

(* ReleaseInv is kept by the imports. *)
LEMMA ReleaseMove ==
  ASSUME TypeOK, ReleaseInv, NEW r \in Run, Moves(r)
  PROVE  ReleaseInv'
BY ReleaseOther, ReleaseStored

-----------------------------------------------------------------------------
(* The theorems. *)

EnrichInv == TypeOK /\ ReleaseInv /\ VersionInv /\ StarInv /\ ScoreInv

(* Before the first import. *)
LEMMA InvInit == Init => EnrichInv
<1> SUFFICES ASSUME Init PROVE EnrichInv
  OBVIOUS
<1>1. TypeOK
  <2>1. WorldType
    <3>1. tied \subseteq 2 .. pushed
      BY EnrichAssumption DEF Init
    <3> QED BY <3>1, Constant DEF Init, WorldType, Days
  <2>2. RowType
    BY Constant DEF Init, RowType
  <2>3. ImportType
    BY BlankType, AttemptBoundType DEF Init, ImportType, Labels, Resting
  <2>4. NoteType
    BY DEF Init, NoteType
  <2> QED BY <2>1, <2>2, <2>3, <2>4, TypeParts
<1>2. \A r \in Run : pc[r] = "idle"
  BY DEF Init
<1>3. ReleaseInv
  BY <1>2, Constant DEF Init, ReleaseInv
<1>4. VersionInv
  BY <1>2, Constant DEF Init, VersionInv, VersionsComplete
<1>5. StarInv
  BY <1>2, Constant DEF Init, StarInv, NotInflated, Days, Never
<1>6. ScoreInv
  BY <1>2, Constant DEF Init, ScoreInv, ScoresComplete
<1> QED BY <1>1, <1>3, <1>4, <1>5, <1>6 DEF EnrichInv

(* Every step, of the world or of an import, keeps all of it. *)
LEMMA InvStep ==
  ASSUME EnrichInv, [Next]_vars
  PROVE  EnrichInv'
<1>1. TypeOK /\ ReleaseInv /\ VersionInv /\ StarInv /\ ScoreInv
  BY DEF EnrichInv
<1>2. TypeOK'
  BY <1>1, TypeStep
<1>3. CASE World
  BY <1>1, <1>2, <1>3, ReleaseWorld, VersionWorld, StarWorld, ScoreWorld DEF EnrichInv
<1>4. ASSUME NEW r \in Run, Moves(r)
      PROVE  EnrichInv'
  BY <1>1, <1>2, <1>4, ReleaseMove, VersionMove, StarMove, ScoreMove DEF EnrichInv
<1>5. CASE UNCHANGED vars
  <2>1. ReleaseInv'
    BY <1>1, <1>5 DEF vars, world, rows, observed, ReleaseInv, BetweenPages
  <2>2. VersionInv'
    BY <1>1, <1>5 DEF vars, world, rows, observed, VersionInv, VersionsComplete, NewerThan
  <2>3. StarInv'
    BY <1>1, <1>5 DEF vars, world, rows, observed, StarInv, NotInflated
  <2>4. ScoreInv'
    BY <1>1, <1>5 DEF vars, world, rows, observed, ScoreInv, ScoresComplete
  <2> QED BY <1>2, <2>1, <2>2, <2>3, <2>4 DEF EnrichInv
<1> QED BY <1>3, <1>4, <1>5 DEF Next, Moves

(* Several imports of a repository may be under way at once, retry, fail    *)
(* and be cancelled between any two requests (runEnrichmentPhases,          *)
(* newRetryRL), and GitHub may change meanwhile: the rows and the           *)
(* variables of the imports keep to EnrichInv.                              *)
THEOREM EnrichInvariant == Spec => []EnrichInv
BY InvInit, InvStep, PTL DEF Spec

(* Unless an import was cut off between two pages, no release that a        *)
(* successful ImportReleases listed is missing once no other import is      *)
(* between its pages (upsertReleasePage).                                   *)
THEOREM ReleasesTheorem == Spec => []ReleasesComplete
<1>1. EnrichInv => ReleasesComplete
  <2> SUFFICES ASSUME EnrichInv, ~cut, ~(\E r \in Run : BetweenPages(r)), NEW i \in 1 .. vouched.releases
               PROVE  i \in releases
    BY DEF ReleasesComplete
  <2>1. ReleaseInv /\ TypeOK
    BY DEF EnrichInv
  <2>2. i \in 1 .. published /\ i <= vouched.releases
    BY <2>1, PushedType DEF ReleaseInv
  <2> QED BY <2>1, <2>2, ReleaseParts DEF Expected, Pending
<1> QED BY <1>1, EnrichInvariant, PTL

(* No container version that a successful phase listed is missing, because  *)
(* the pages of a phase are one transaction (upsertContainerVersions), but  *)
(* versions created within the second of an older one.                      *)
THEOREM VersionsTheorem == Spec => []VersionsComplete
<1>1. EnrichInv => VersionsComplete
  BY DEF EnrichInv, VersionInv
<1> QED BY <1>1, EnrichInvariant, PTL

(* The star history never shows more stars than there were by the end of    *)
(* the day, but for days written while the listing failed                   *)
(* (buildDailyTotals).                                                      *)
THEOREM StarsTheorem == Spec => []NotInflated
<1>1. EnrichInv => NotInflated
  BY DEF EnrichInv, StarInv
<1> QED BY <1>1, EnrichInvariant, PTL

(* Every user who had events when a successful reputation phase selected    *)
(* its users has a score (getStaleReputationUsernames, ImportReputation).   *)
THEOREM ScoresTheorem == Spec => []ScoresComplete
<1>1. EnrichInv => ScoresComplete
  BY DEF EnrichInv, ScoreInv
<1> QED BY <1>1, EnrichInvariant, PTL

-----------------------------------------------------------------------------
(* Refinement: the version table implements ListingCopy. *)

(* A commit takes the table to one with every second of a listing, which    *)
(* reaches as far as was vouched for.                                       *)
LEMMA CommitCopies ==
  ASSUME TypeOK, TypeOK', VersionInv, VersionInv', NEW r \in Run, CommitVersions(r)
  PROVE  Copy!Next
<1>1. UNCHANGED <<pushed, tied>> /\ versions \subseteq versions'
  BY CommitStep DEF world
<1>2. pushed \in Nat /\ versions' \in SUBSET (1 .. pushed)
  BY <1>1 DEF TypeOK
<1>3. /\ (1 .. vouched'.versions) \ versions' \subseteq tied /\ vouched'.versions <= pushed
      /\ \A j \in versions' : (1 .. j) \ versions' \subseteq tied
      /\ \A i \in versions' \cap tied : i - 1 \in versions'
  BY <1>1 DEF VersionInv, VersionsComplete
<1>4. vouched.versions \in Nat /\ vouched'.versions \in Nat
  BY DEF TypeOK
<1>5. vouched'.versions >= vouched.versions
  <2>1. vouched' = [vouched EXCEPT !.versions = Max({@, mem[r].from})]
    BY CommitStep
  <2>2. PICK m : m = Max({vouched.versions, mem[r].from})
    OBVIOUS
  <2>3. vouched'.versions = m
    BY <2>1, <2>2 DEF TypeOK
  <2>4. mem[r].from \in Int
    BY MemType DEF Never
  <2>5. m >= vouched.versions
    BY <1>4, <2>2, <2>4, MaxOfTwo
  <2> QED BY <2>3, <2>5
<1>6. PICK k : k = Newest(versions')
  OBVIOUS
<1>7. k \in Nat /\ (k = 0 \/ k \in versions') /\ \A y \in versions' : y <= k
  BY <1>2, <1>6, NewestType
<1>8. \E n \in 0 .. pushed :
        versions' \subseteq 1 .. n /\ (1 .. n) \ versions' \subseteq tied /\ vouched'.versions <= n
  <2>1. CASE k <= vouched'.versions
    <3>1. versions' \subseteq 1 .. vouched'.versions
      BY <1>2, <1>4, <1>7, <2>1
    <3> QED BY <1>2, <1>3, <1>4, <3>1
  <2>2. CASE ~(k <= vouched'.versions)
    <3>1. k \in versions' /\ k \in 0 .. pushed
      BY <1>2, <1>4, <1>7, <2>2
    <3>2. versions' \subseteq 1 .. k
      BY <1>2, <1>7
    <3> QED BY <1>3, <1>4, <1>7, <2>2, <3>1, <3>2
  <2> QED BY <2>1, <2>2
<1>9. PICK n \in 0 .. pushed :
        versions' \subseteq 1 .. n /\ (1 .. n) \ versions' \subseteq tied /\ vouched'.versions <= n
  BY <1>8
<1>10. vouched'.versions \in vouched.versions .. n
  BY <1>4, <1>5, <1>9
<1>11. Copy!Whole(versions', n)
  BY <1>3, <1>9 DEF Copy!Whole
<1>12. Copy!CopyUpTo(n)
  BY <1>1, <1>10, <1>11 DEF Copy!CopyUpTo
<1> QED BY <1>2, <1>12 DEF Copy!Next

(* A step of the system is a step of the copy, or leaves it alone. *)
LEMMA CopyStep ==
  ASSUME EnrichInv, [Next]_vars
  PROVE  [Copy!Next]_<<pushed, tied, versions, vouched.versions>>
<1>0. TypeOK /\ TypeOK' /\ VersionInv /\ VersionInv'
  BY InvStep DEF EnrichInv
<1>1. CASE World
  <2>1. UNCHANGED <<versions, vouched>> /\ (Push \/ UNCHANGED <<pushed, tied>>)
    BY <1>1, WorldFrame
  <2>2. CASE Push
    BY <2>1, <2>2 DEF Push, Copy!Next, Copy!Extend
  <2> QED BY <2>1, <2>2
<1>2. ASSUME NEW r \in Run, Moves(r)
      PROVE  [Copy!Next]_<<pushed, tied, versions, vouched.versions>>
  <2>1. CASE CommitVersions(r)
    BY <1>0, <2>1, CommitCopies
  <2>2. CASE ~CommitVersions(r)
    <3>1. UNCHANGED versions /\ vouched'.versions = vouched.versions
      BY <1>0, <1>2, <2>2, Writes
    <3>2. UNCHANGED <<pushed, tied>>
      BY <1>0, <1>2, Lands DEF world
    <3> QED BY <3>1, <3>2
  <2> QED BY <2>1, <2>2
<1>3. CASE UNCHANGED vars
  BY <1>3 DEF vars, world, rows, observed
<1> QED BY <1>1, <1>2, <1>3 DEF Next, Moves

(* The version table implements the abstract copy: any number of imports    *)
(* that page through the moving listing, retry and are cut off, leave in it *)
(* after every step all the seconds of a listing, each from its first       *)
(* version on (upsertContainerVersions).                                    *)
THEOREM CopyTheorem == Spec => VersionsCopied
<1>1. Init => Copy!Init
  <2> SUFFICES ASSUME Init PROVE Copy!Init
    OBVIOUS
  <2>1. /\ pushed = PageSize + 1 /\ versions = {} /\ vouched.versions = 0 /\ PageSize \in Nat
        /\ tied \in SUBSET (2 .. pushed)
    BY Constant, EnrichAssumption DEF Init
  <2> QED BY <2>1 DEF Copy!Init
<1>2. EnrichInv /\ [Next]_vars => [Copy!Next]_<<pushed, tied, versions, vouched.versions>>
  BY CopyStep
<1> QED BY <1>1, <1>2, EnrichInvariant, PTL DEF Spec, VersionsCopied, Copy!Spec

-----------------------------------------------------------------------------
(* Every step counts. *)

(* The position of every label within its phase. *)
LEMMA StepTable ==
  /\ StepNo("releases") = 0 /\ StepNo("releasePage") = 1
  /\ StepNo("metrics") = 0 /\ StepNo("starCount") = 1 /\ StepNo("starSave") = 2
  /\ StepNo("containers") = 0 /\ StepNo("versionPage") = 1 /\ StepNo("versionSave") = 2
  /\ StepNo("reputation") = 0 /\ StepNo("score") = 1
  /\ StepNo("insights") = 0 /\ StepNo("insightGate") = 1 /\ StepNo("gather") = 2
  /\ StepNo("llm") = 3 /\ StepNo("insightSave") = 4
<1>1. StepNo("releases") = 0 /\ StepNo("metrics") = 0 /\ StepNo("containers") = 0
  BY PhaseTable, Zenon DEF StepNo
<1>2. StepNo("reputation") = 0 /\ StepNo("insights") = 0
  BY PhaseTable, Zenon DEF StepNo
<1>3. StepNo("releasePage") = 1 /\ StepNo("starCount") = 1 /\ StepNo("versionPage") = 1
  BY PhaseTable, Zenon DEF StepNo
<1>4. StepNo("score") = 1 /\ StepNo("insightGate") = 1
  BY PhaseTable, Zenon DEF StepNo
<1>5. StepNo("starSave") = 2 /\ StepNo("versionSave") = 2 /\ StepNo("gather") = 2
  BY PhaseTable, Zenon DEF StepNo
<1>6. StepNo("llm") = 3 /\ StepNo("insightSave") = 4
  BY PhaseTable, Zenon DEF StepNo
<1> QED BY <1>1, <1>2, <1>3, <1>4, <1>5, <1>6

(* Labels of one phase have the same phases left. *)
LEMMA SamePhase ==
  ASSUME NEW l \in InPhase, NEW m \in InPhase, PhaseOf(l) = PhaseOf(m)
  PROVE  PhasesLeft(l) = PhasesLeft(m)
BY LeftOf

Nearer(r) ==
  \/ PhasesLeft(pc'[r]) < PhasesLeft(pc[r])
  \/ /\ PhasesLeft(pc'[r]) = PhasesLeft(pc[r])
     /\ \/ attempt'[r] > attempt[r]
        \/ /\ attempt'[r] = attempt[r]
           /\ \/ StepNo(pc'[r]) > StepNo(pc[r])
              \/ /\ pc'[r] = pc[r]
                 /\ \/ mem'[r].page > mem[r].page
                    \/ Cardinality(mem'[r].todo) < Cardinality(mem[r].todo)

(* The end of a phase is progress, *)
LEMMA EndsNearer ==
  ASSUME NEW r \in Run, pc[r] \in InPhase, pc'[r] = After(r, pc[r])
  PROVE  Nearer(r)
BY PhaseEnds DEF Nearer

(* and so is a later position in it. *)
LEMMA GoesOn ==
  ASSUME NEW r \in Run, pc[r] \in InPhase, pc'[r] \in InPhase, PhaseOf(pc'[r]) = PhaseOf(pc[r]),
         attempt'[r] = attempt[r], StepNo(pc'[r]) > StepNo(pc[r])
  PROVE  Nearer(r)
<1>1. PhasesLeft(pc'[r]) = PhasesLeft(pc[r])
  BY SamePhase
<1> QED BY <1>1 DEF Nearer

(* A chunk that is full leaves fewer users to score. *)
LEMMA FewerUsers ==
  ASSUME NEW n \in Nat, NEW todo \in SUBSET (1 .. n), NEW chunk \in SUBSET todo,
         Cardinality(chunk) = reputationChunkSize
  PROVE  Cardinality(todo \ chunk) < Cardinality(todo)
<1>1. IsFiniteSet(1 .. n)
  BY FS_Interval
<1>2. IsFiniteSet(todo)
  BY <1>1, FS_Subset
<1>3. todo \cap chunk = chunk
  OBVIOUS
<1>4. Cardinality(todo \ chunk) = Cardinality(todo) - Cardinality(todo \cap chunk)
  BY <1>2, FS_Difference
<1>5. Cardinality(todo) \in Nat
  BY <1>2, FS_CardinalityType
<1>6. Cardinality(todo \cap chunk) = reputationChunkSize
  BY <1>3
<1>7. reputationChunkSize \in Nat \ {0}
  BY Constant
<1> QED BY <1>4, <1>5, <1>6, <1>7

(* Every action of an import is progress. *)
LEMMA StepNearer ==
  ASSUME EnrichInv, NEW r \in Run, Step(r)
  PROVE  Nearer(r)
<1>0. TypeOK /\ ScoreInv
  BY DEF EnrichInv
<1>1. CASE ImportReleases(r) \/ ImportRepoMetricHistory(r) \/ countRecentStarsByDay(r) \/ upsertContainerVersions(r)
  <2>1. /\ attempt'[r] = attempt[r]
        /\ \/ pc[r] = "releases" /\ pc'[r] = "releasePage"
           \/ pc[r] = "metrics" /\ pc'[r] = "starCount"
           \/ pc[r] = "starCount" /\ pc'[r] = "starSave"
           \/ pc[r] = "containers" /\ pc'[r] = "versionPage"
    BY <1>0, <1>1, ReleasesStep, MetricStep, CountStep, VersionsStep
  <2>2. pc[r] \in InPhase /\ pc'[r] \in InPhase
    BY <2>1 DEF InPhase, Labels, Resting
  <2>3. PhaseOf(pc'[r]) = PhaseOf(pc[r])
    BY <2>1, PhaseTable
  <2>4. StepNo(pc'[r]) > StepNo(pc[r])
    BY <2>1, StepTable
  <2> QED BY <2>1, <2>2, <2>3, <2>4, GoesOn
<1>2. CASE GetRepoInsightsGeneratedAt(r) \/ GatherInsightsMetrics(r) \/ GenerateInsights(r)
  <2>1. /\ attempt'[r] = attempt[r]
        /\ \/ pc[r] = "insights" /\ pc'[r] = "insightGate"
           \/ pc[r] = "gather" /\ pc'[r] = "llm"
           \/ pc[r] = "llm" /\ pc'[r] = "insightSave"
    BY <1>0, <1>2, InsightRead, LlmStep
  <2>2. pc[r] \in InPhase /\ pc'[r] \in InPhase
    BY <2>1 DEF InPhase, Labels, Resting
  <2>3. PhaseOf(pc'[r]) = PhaseOf(pc[r])
    BY <2>1, PhaseTable
  <2>4. StepNo(pc'[r]) > StepNo(pc[r])
    BY <2>1, StepTable
  <2> QED BY <2>1, <2>2, <2>3, <2>4, GoesOn
<1>3. CASE ReleasePage(r)
  <2>1. /\ pc[r] = "releasePage"
        /\ \/ pc'[r] = "releasePage" /\ attempt'[r] = attempt[r] /\ mem'[r].page = mem[r].page + 1
           \/ pc'[r] = After(r, pc[r])
    BY <1>0, <1>3, ReleasePageStep
  <2>2. pc[r] \in InPhase
    BY <2>1 DEF InPhase, Labels, Resting
  <2>3. mem[r].page \in Nat
    BY <1>0, MemType
  <2> QED BY <2>1, <2>2, <2>3, EndsNearer DEF Nearer
<1>4. CASE fetchAndStoreVersions(r)
  <2>1. /\ pc[r] = "versionPage" /\ attempt'[r] = attempt[r]
        /\ \/ pc'[r] = "versionPage" /\ mem'[r].page = mem[r].page + 1
           \/ pc'[r] = "versionSave"
    BY <1>0, <1>4, VersionPageStep
  <2>2. pc[r] \in InPhase /\ "versionSave" \in InPhase
    BY <2>1 DEF InPhase, Labels, Resting
  <2>3. mem[r].page \in Nat
    BY <1>0, MemType
  <2>4. CASE pc'[r] = "versionPage" /\ mem'[r].page = mem[r].page + 1
    BY <2>1, <2>3, <2>4 DEF Nearer
  <2>5. CASE pc'[r] = "versionSave"
    <3>1. PhaseOf(pc'[r]) = PhaseOf(pc[r])
      BY <2>1, <2>5, PhaseTable
    <3>2. StepNo(pc'[r]) > StepNo(pc[r])
      BY <2>1, <2>5, StepTable
    <3> QED BY <2>1, <2>2, <2>5, <3>1, <3>2, GoesOn
  <2> QED BY <2>1, <2>4, <2>5
<1>5. CASE ImportReputation(r)
  <2>1. /\ pc[r] = "reputation"
        /\ \/ pc'[r] = After(r, pc[r])
           \/ pc'[r] = "score" /\ attempt'[r] = attempt[r]
    BY <1>0, <1>5, ReputationStep
  <2>2. pc[r] \in InPhase /\ "score" \in InPhase
    BY <2>1 DEF InPhase, Labels, Resting
  <2>3. CASE pc'[r] = "score" /\ attempt'[r] = attempt[r]
    <3>1. PhaseOf(pc'[r]) = PhaseOf(pc[r])
      BY <2>1, <2>3, PhaseTable
    <3>2. StepNo(pc'[r]) > StepNo(pc[r])
      BY <2>1, <2>3, StepTable
    <3> QED BY <2>1, <2>2, <2>3, <3>1, <3>2, GoesOn
  <2> QED BY <2>1, <2>2, <2>3, EndsNearer
<1>6. CASE FlushChunk(r)
  <2>1. pc[r] = "score" /\ pc'[r] = "score" /\ attempt'[r] = attempt[r]
    BY <1>0, <1>6, FlushStep
  <2>2. PICK chunk \in SUBSET mem[r].todo :
          Cardinality(chunk) = reputationChunkSize /\ mem'[r].todo = mem[r].todo \ chunk
    BY <1>0, <1>6, FlushStep
  <2>3. events \in Nat /\ mem[r].todo \in SUBSET (1 .. events)
    BY <1>0, <2>1, EventUsers DEF ScoreInv
  <2>4. Cardinality(mem'[r].todo) < Cardinality(mem[r].todo)
    BY <2>2, <2>3, FewerUsers
  <2> QED BY <2>1, <2>4 DEF Nearer
<1>7. CASE generateRepoInsights(r)
  <2>1. /\ pc[r] = "insightGate"
        /\ \/ pc'[r] = After(r, pc[r])
           \/ pc'[r] = "gather" /\ attempt'[r] = attempt[r]
    BY <1>0, <1>7, GateStep
  <2>2. pc[r] \in InPhase /\ "gather" \in InPhase
    BY <2>1 DEF InPhase, Labels, Resting
  <2>3. CASE pc'[r] = "gather" /\ attempt'[r] = attempt[r]
    <3>1. PhaseOf(pc'[r]) = PhaseOf(pc[r])
      BY <2>1, <2>3, PhaseTable
    <3>2. StepNo(pc'[r]) > StepNo(pc[r])
      BY <2>1, <2>3, StepTable
    <3> QED BY <2>1, <2>2, <2>3, <3>1, <3>2, GoesOn
  <2> QED BY <2>1, <2>2, <2>3, EndsNearer
<1>8. CASE InsightsRetry(r)
  <2>1. pc'[r] = pc[r] /\ attempt'[r] = attempt[r] + 1
    BY <1>0, <1>8, LlmRetryStep
  <2>2. attempt[r] \in Int
    BY <1>0, MemType
  <2> QED BY <2>1, <2>2 DEF Nearer
<1>9. CASE upsertMetricHistory(r) \/ PackagesHidden(r) \/ CommitVersions(r) \/ LastFlush(r) \/ SaveRepoInsights(r)
  <2>1. /\ pc[r] \in {"starSave", "containers", "versionSave", "score", "insightSave"}
        /\ pc'[r] = After(r, pc[r])
    BY <1>0, <1>9, MetricsSaved, HiddenStep, CommitStep, LastFlushStep, SaveStep
  <2>2. pc[r] \in InPhase
    BY <2>1 DEF InPhase, Labels, Resting
  <2> QED BY <2>1, <2>2, EndsNearer
<1>10. CASE Retry(r)
  <2>1. pc[r] \in InPhase /\ pc'[r] = PhaseOf(pc[r]) /\ attempt'[r] = attempt[r] + 1
    BY <1>0, <1>10, RetryStep, WorkingPhase
  <2>2. PhasesLeft(pc'[r]) = PhasesLeft(pc[r])
    BY <2>1, LeftOf
  <2>3. attempt[r] \in Int
    BY <1>0, MemType
  <2> QED BY <2>1, <2>2, <2>3 DEF Nearer
<1>11. CASE PhaseFails(r)
  BY <1>0, <1>11, FailStep, WorkingPhase, EndsNearer
<1>12. CASE Cancel(r)
  <2>1. pc[r] \in InPhase /\ pc'[r] = "done"
    BY <1>0, <1>12, CancelStep, WorkingPhase
  <2>2. PhasesLeft(pc'[r]) < PhasesLeft(pc[r])
    BY <2>1, LeftOf, LeftTable, PhaseKnown
  <2> QED BY <2>2 DEF Nearer
<1> QED BY <1>1, <1>2, <1>3, <1>4, <1>5, <1>6, <1>7, <1>8, <1>9, <1>10, <1>11, <1>12, Zenon DEF Step

(* Only its own actions move an import. *)
LEMMA NearerStep ==
  ASSUME EnrichInv, [Next]_vars, NEW r \in Run, Working(r),
         <<pc[r], attempt[r], mem[r]>>' # <<pc[r], attempt[r], mem[r]>>
  PROVE  Nearer(r)
<1>0. TypeOK
  BY DEF EnrichInv
<1>1. CASE World
  BY <1>1, WorldFrame
<1>2. CASE UNCHANGED vars
  BY <1>2 DEF vars
<1>3. ASSUME NEW q \in Run, Moves(q)
      PROVE  Nearer(r)
  <2>1. Alone(q)
    BY <1>0, <1>3, Lands
  <2>2. q = r
    BY <2>1 DEF Alone
  <2>3. Step(r)
    BY <1>3, <2>2 DEF Moves, Working, runEnrichmentPhases, runCatchUpInsights
  <2> QED BY <2>3, StepNearer
<1> QED BY <1>1, <1>2, <1>3 DEF Next, Moves

(* No step of an import is in vain, however often a request fails: phases   *)
(* left, attempts, position, pages and users are a measure that every step  *)
(* improves (newRetryRL, runEnrichmentPhases, GenerateInsights).            *)
THEOREM ProgressTheorem == Spec => NoStepInVain
<1>1. EnrichInv /\ [Next]_vars =>
        [\A r \in Run :
           Working(r) /\ <<pc[r], attempt[r], mem[r]>>' # <<pc[r], attempt[r], mem[r]>> => Nearer(r)]_vars
  BY NearerStep
<1> QED BY <1>1, EnrichInvariant, PTL DEF Spec, NoStepInVain, Nearer

-----------------------------------------------------------------------------
(* The pool of tokens. *)

(* Advance and Distance stay within the pool. *)
LEMMA AdvanceInPool == \A i \in Tokens : Advance(i) \in Tokens
BY PoolAssumption DEF Advance, Tokens

LEMMA DistanceBound ==
  \A c, i \in Tokens : Distance(c, i) \in Nat /\ Distance(c, i) < N
BY PoolAssumption DEF Distance, Tokens

(* Handing out a token keeps the pool's state well-typed. *)
LEMMA TokenType ==
  ASSUME PoolTypeOK,
         NEW remaining \in [Tokens -> 0 .. exhaustionWindow],
         NEW o \in [Tokens -> SUBSET Tokens],
         NEW tok \in Tokens \cup {NoToken},
         Token(remaining, o, tok)
  PROVE  current' \in Tokens /\ owed' \in [Tokens -> SUBSET Tokens]
<1>1. CASE tok \in Tokens /\ Finds(remaining, tok)
  <2>1. tok # NoToken
    BY <1>1, PoolAssumption DEF Tokens
  <2>2. /\ current' = Advance(tok)
        /\ owed' = [k \in Tokens |-> IF k = tok
                                     THEN {j \in Tokens \ {k} : ~isExhausted(remaining, j)}
                                     ELSE o[k] \ {tok}]
    BY <1>1, <2>1 DEF Token
  <2> QED BY <1>1, <2>2, AdvanceInPool
<1>2. CASE tok = NoToken /\ current' = current /\ owed' = o
  BY <1>2 DEF PoolTypeOK
<1> QED BY <1>1, <1>2 DEF Token

(* A goroutine that moves on keeps the type of call. *)
LEMMA CallType ==
  ASSUME PoolTypeOK, NEW m \in Importers, NEW g \in Listers, NEW r \in Calls
  PROVE  [call EXCEPT ![m][g] = r] \in [Importers -> [Listers -> Calls]]
<1>1. call[m] \in [Listers -> Calls]
  BY DEF PoolTypeOK
<1>2. [call[m] EXCEPT ![g] = r] \in [Listers -> Calls]
  BY <1>1
<1> QED BY <1>2 DEF PoolTypeOK

(* Every step keeps the types. *)
LEMMA PoolTypeStep ==
  ASSUME PoolTypeOK, [PoolNext]_poolVars
  PROVE  PoolTypeOK'
<1> USE DEF PoolTypeOK
<1>1. CASE Tick
  <2>1. left' \in [Tokens -> 0 .. exhaustionWindow]
    BY <1>1, PoolAssumption DEF Tick
  <2> QED BY <1>1, <2>1 DEF Tick, importers
<1>2. CASE TokenForPhase
  BY <1>2, TokenType DEF TokenForPhase, importers
<1>3. ASSUME NEW m \in Importers, ImportEvents(m)
      PROVE  PoolTypeOK'
  <2>1. PICK tok \in Tokens \cup {NoToken} :
          /\ Token(left, owed, tok)
          /\ IF tok = NoToken THEN UNCHANGED importers
             ELSE /\ phase' = [phase EXCEPT ![m] = "list"]
                  /\ curToken' = [curToken EXCEPT ![m] = tok]
                  /\ client' = [client EXCEPT ![m] = tok]
                  /\ call' = [call EXCEPT ![m] = [g \in Listers |-> Ready]]
    BY <1>3 DEF ImportEvents
  <2>2. current' \in Tokens /\ owed' \in [Tokens -> SUBSET Tokens]
    BY <2>1, TokenType
  <2>3. [g \in Listers |-> Ready] \in [Listers -> Calls]
    BY DEF Ready, Calls
  <2>4. /\ phase' \in [Importers -> {"off", "list", "size"}]
        /\ curToken' \in [Importers -> Tokens \cup {NoToken}]
        /\ client' \in [Importers -> Tokens \cup {NoToken}]
        /\ call' \in [Importers -> [Listers -> Calls]]
    BY <2>1, <2>3 DEF importers
  <2> QED BY <1>3, <2>2, <2>4 DEF ImportEvents
<1>4. ASSUME NEW m \in Importers, BackfillPRSize(m) \/ Return(m)
      PROVE  PoolTypeOK'
  <2>1. Ready \in Calls
    BY DEF Ready, Calls
  <2>2. BackfillPRSize(m) => \E g \in Listers : call' = [call EXCEPT ![m][g] = Ready]
    BY DEF BackfillPRSize
  <2>3. call' \in [Importers -> [Listers -> Calls]]
    <3>1. CASE BackfillPRSize(m)
      <4>1. PICK g \in Listers : call' = [call EXCEPT ![m][g] = Ready]
        BY <2>2, <3>1
      <4> QED BY <2>1, <4>1, CallType
    <3>2. CASE Return(m)
      BY <3>2 DEF Return
    <3> QED BY <1>4, <3>1, <3>2
  <2> QED BY <1>4, <2>3 DEF BackfillPRSize, Return, pool
<1>5. ASSUME NEW m \in Importers, NEW g \in Listers,
             Send(m, g) \/ Answer(m, g) \/ ServerError(m, g) \/ End(m, g) \/ Refuse(m, g)
      PROVE  PoolTypeOK'
  <2>1. client[m] \in Tokens \cup {NoToken} /\ call[m][g] \in Calls
    OBVIOUS
  <2>2. PICK r \in Calls : call' = [call EXCEPT ![m][g] = r]
    <3>1. CASE Send(m, g)
      BY <3>1, <2>1 DEF Send, Becomes, Calls
    <3>2. CASE Answer(m, g) \/ ServerError(m, g) \/ End(m, g)
      BY <3>2 DEF Answer, ServerError, End, Becomes, Calls, Ended
    <3>3. CASE Refuse(m, g)
      BY <3>3 DEF Refuse, Becomes, Calls
    <3> QED BY <1>5, <3>1, <3>2, <3>3
  <2>3. call' \in [Importers -> [Listers -> Calls]]
    BY <2>2, CallType
  <2>4. refused' \subseteq Tokens \cup {NoToken}
    BY <1>5, <2>1 DEF Send, Answer, ServerError, End, Refuse, Calls
  <2>5. UNCHANGED <<current, left, phase, curToken, client, owed>>
    BY <1>5 DEF Send, Answer, ServerError, End, Refuse, pool
  <2> QED BY <2>3, <2>4, <2>5
<1>6. ASSUME NEW m \in Importers, NEW g \in Listers, rotateToken(m, g)
      PROVE  PoolTypeOK'
  <2>1. left' \in [Tokens -> 0 .. exhaustionWindow]
    BY <1>6, PoolAssumption DEF rotateToken, Exhaust
  <2>2. owed' \in [Tokens -> SUBSET Tokens]
    BY <1>6 DEF rotateToken
  <2>3. PICK r \in Calls : call' = [call EXCEPT ![m][g] = r]
    BY <1>6 DEF rotateToken, Becomes, Calls
  <2>4. call' \in [Importers -> [Listers -> Calls]]
    BY <2>3, CallType
  <2> QED BY <1>6, <2>1, <2>2, <2>4 DEF rotateToken
<1>7. ASSUME NEW m \in Importers, NEW g \in Listers, NextToken(m, g)
      PROVE  PoolTypeOK'
  <2>1. PICK tok \in Tokens \cup {NoToken} :
          /\ Token(left, owed, tok)
          /\ curToken' = [curToken EXCEPT ![m] = tok]
          /\ IF tok = NoToken
             THEN call' = [call EXCEPT ![m][g] = Ended] /\ UNCHANGED client
             ELSE Becomes(m, g, "again", NoToken) /\ client' = [client EXCEPT ![m] = tok]
    BY <1>7 DEF NextToken
  <2>2. current' \in Tokens /\ owed' \in [Tokens -> SUBSET Tokens]
    BY <2>1, TokenType
  <2>3. PICK r \in Calls : call' = [call EXCEPT ![m][g] = r]
    BY <2>1 DEF Becomes, Ended, Calls
  <2>4. call' \in [Importers -> [Listers -> Calls]]
    BY <2>3, CallType
  <2>5. client' \in [Importers -> Tokens \cup {NoToken}]
    BY <2>1
  <2> QED BY <1>7, <2>1, <2>2, <2>4, <2>5 DEF NextToken
<1>8. CASE UNCHANGED poolVars
  BY <1>8 DEF poolVars, pool, importers
<1> QED BY <1>1, <1>2, <1>3, <1>4, <1>5, <1>6, <1>7, <1>8 DEF PoolNext, Lister

(* Every variable of the pool and its importers keeps its type; current     *)
(* stays an index of the pool, however it is advanced (Token).              *)
THEOREM PoolTypeCorrect == PoolSpec => []PoolTypeOK
<1>1. PoolInit => PoolTypeOK
  BY PoolAssumption DEF PoolInit, PoolTypeOK, Tokens, Ended, Calls
<1>2. PoolTypeOK /\ [PoolNext]_poolVars => PoolTypeOK'
  BY PoolTypeStep
<1> QED BY <1>1, <1>2, PTL DEF PoolSpec

-----------------------------------------------------------------------------
(* The scan. *)

(* Behind the token just handed out, the order of the remaining positions   *)
(* of the scan stays what it was, and that token comes last.                *)
LEMMA AdvanceOrder ==
  \A c, p, i, j \in Tokens :
    /\ i # p => (/\ Distance(c, p) < Distance(c, j)
                 /\ Distance(c, j) < Distance(c, i)
                 => Distance(Advance(p), j) < Distance(Advance(p), i))
    /\ j # p => Distance(Advance(p), j) < Distance(Advance(p), p)
BY PoolAssumption DEF Distance, Advance, Tokens

(* Two tokens at the same distance are the same. *)
LEMMA DistanceInjective ==
  \A c, i, j \in Tokens : Distance(c, i) = Distance(c, j) => i = j
BY PoolAssumption DEF Distance, Tokens

(* What Token needs of the history to hand a token out fairly. *)
Ahead(remaining, o) ==
  \A i \in Tokens : \A j \in o[i] :
    remaining[j] = 0 /\ Distance(current, j) < Distance(current, i)

(* Handing out a token keeps OwedInv. *)
LEMMA TokenOwed ==
  ASSUME PoolTypeOK,
         NEW remaining \in [Tokens -> 0 .. exhaustionWindow],
         NEW o \in [Tokens -> SUBSET Tokens],
         NEW tok \in Tokens \cup {NoToken},
         Ahead(remaining, o), Token(remaining, o, tok), left' = remaining
  PROVE  OwedInv'
<1>1. CASE tok \in Tokens /\ Finds(remaining, tok)
  <2>1. tok # NoToken
    BY <1>1, PoolAssumption DEF Tokens
  <2>2. /\ current' = Advance(tok)
        /\ owed' = [k \in Tokens |-> IF k = tok
                                     THEN {j \in Tokens \ {k} : ~isExhausted(remaining, j)}
                                     ELSE o[k] \ {tok}]
    BY <1>1, <2>1 DEF Token
  <2>3. SUFFICES ASSUME NEW i \in Tokens, NEW j \in owed'[i]
                 PROVE  left'[j] = 0 /\ Distance(current', j) < Distance(current', i)
    BY DEF OwedInv
  <2>4. current \in Tokens
    BY DEF PoolTypeOK
  <2>5. CASE i = tok
    <3>1. j \in Tokens /\ j # tok /\ ~isExhausted(remaining, j)
      BY <2>2, <2>5
    <3>2. Distance(Advance(tok), j) < Distance(Advance(tok), tok)
      BY <1>1, <2>4, <3>1, AdvanceOrder
    <3> QED BY <2>2, <2>5, <3>1, <3>2 DEF isExhausted
  <2>6. CASE i # tok
    <3>1. j \in o[i] /\ j # tok /\ j \in Tokens
      BY <2>2, <2>6
    <3>2. remaining[j] = 0 /\ Distance(current, j) < Distance(current, i)
      BY <3>1 DEF Ahead
    <3>3. ~(Distance(current, j) < Distance(current, tok))
      BY <1>1, <3>1, <3>2 DEF Finds, isExhausted
    <3>4. Distance(current, tok) < Distance(current, j)
      BY <1>1, <2>4, <3>1, <3>3, DistanceInjective, DistanceBound
    <3>5. Distance(Advance(tok), j) < Distance(Advance(tok), i)
      BY <1>1, <2>4, <2>6, <3>1, <3>2, <3>4, AdvanceOrder
    <3> QED BY <2>2, <3>2, <3>5
  <2> QED BY <2>5, <2>6
<1>2. CASE tok = NoToken /\ current' = current /\ owed' = o
  BY <1>2 DEF Ahead, OwedInv
<1> QED BY <1>1, <1>2 DEF Token

(* Every step keeps OwedInv: a token that is exhausted is owed to no one. *)
LEMMA OwedStep ==
  ASSUME PoolTypeOK, OwedInv, [PoolNext]_poolVars
  PROVE  OwedInv'
<1>1. Ahead(left, owed)
  BY DEF OwedInv, Ahead
<1>2. CASE Tick
  BY <1>2 DEF Tick, OwedInv, PoolTypeOK
<1>3. CASE TokenForPhase
  <2>1. PICK tok \in Tokens \cup {NoToken} : Token(left, owed, tok)
    BY <1>3 DEF TokenForPhase
  <2> QED BY <1>1, <1>3, <2>1, TokenOwed DEF TokenForPhase, PoolTypeOK
<1>4. ASSUME NEW m \in Importers, ImportEvents(m)
      PROVE  OwedInv'
  <2>1. PICK tok \in Tokens \cup {NoToken} : Token(left, owed, tok)
    BY <1>4 DEF ImportEvents
  <2> QED BY <1>1, <1>4, <2>1, TokenOwed DEF ImportEvents, PoolTypeOK
<1>5. ASSUME NEW m \in Importers, BackfillPRSize(m) \/ Return(m)
      PROVE  OwedInv'
  BY <1>5 DEF BackfillPRSize, Return, pool, OwedInv
<1>6. ASSUME NEW m \in Importers, NEW g \in Listers,
             Send(m, g) \/ Answer(m, g) \/ ServerError(m, g) \/ End(m, g) \/ Refuse(m, g)
      PROVE  OwedInv'
  BY <1>6 DEF Send, Answer, ServerError, End, Refuse, pool, OwedInv
<1>7. ASSUME NEW m \in Importers, NEW g \in Listers, rotateToken(m, g)
      PROVE  OwedInv'
  <2>1. /\ current' = current /\ left' = Exhaust(curToken[m])
        /\ owed' = [k \in Tokens |-> owed[k] \ {curToken[m]}]
    BY <1>7 DEF rotateToken
  <2> QED BY <2>1 DEF OwedInv, Exhaust, PoolTypeOK
<1>8. ASSUME NEW m \in Importers, NEW g \in Listers, NextToken(m, g)
      PROVE  OwedInv'
  <2>1. PICK tok \in Tokens \cup {NoToken} : Token(left, owed, tok)
    BY <1>8 DEF NextToken
  <2> QED BY <1>1, <1>8, <2>1, TokenOwed DEF NextToken, PoolTypeOK
<1>9. CASE UNCHANGED poolVars
  BY <1>9 DEF poolVars, pool, OwedInv
<1> QED BY <1>2, <1>3, <1>4, <1>5, <1>6, <1>7, <1>8, <1>9 DEF PoolNext, Lister

(* Round robin is fair for a pool of any size (TokenPool.Token): no token   *)
(* is handed out again while one that was eligible ever since waits.        *)
THEOREM RoundRobinTheorem == PoolSpec => []RoundRobinFair
<1>1. PoolInit => OwedInv
  BY DEF PoolInit, OwedInv
<1>2. PoolTypeOK /\ OwedInv /\ [PoolNext]_poolVars => OwedInv'
  BY OwedStep
<1>3. PoolTypeOK /\ OwedInv => RoundRobinFair
  <2> SUFFICES ASSUME PoolTypeOK, OwedInv, NEW i \in Tokens, Finds(left, i), NEW j \in owed[i]
               PROVE  FALSE
    BY DEF RoundRobinFair, PoolTypeOK
  <2>1. j \in Tokens /\ left[j] = 0 /\ Distance(current, j) < Distance(current, i)
    BY DEF OwedInv, PoolTypeOK
  <2> QED BY <2>1 DEF Finds, isExhausted
<1> QED BY <1>1, <1>2, <1>3, PoolTypeCorrect, PTL DEF PoolSpec

-----------------------------------------------------------------------------
(* A drought. *)

(* With every token exhausted the scan finds none. *)
LEMMA NoneFound ==
  ASSUME NEW remaining, NEW o, NEW tok \in Tokens \cup {NoToken},
         \A i \in Tokens : isExhausted(remaining, i), Token(remaining, o, tok)
  PROVE  tok = NoToken
BY DEF Token, Finds

(* Whether an importer rotates, when one of its goroutines moves on. *)
LEMMA RotatingStep ==
  ASSUME PoolTypeOK, NEW m \in Importers, NEW g \in Listers, NEW r \in Calls,
         call' = [call EXCEPT ![m][g] = r]
  PROVE  /\ \A q \in Importers \ {m} : Rotating(q)' <=> Rotating(q)
         /\ Rotating(m)' <=> r.pc = "rotating" \/ \E h \in Listers \ {g} : call[m][h].pc = "rotating"
<1>1. \A q \in Importers \ {m} : call'[q] = call[q]
  BY DEF PoolTypeOK
<1>2. call'[m][g] = r /\ \A h \in Listers \ {g} : call'[m][h] = call[m][h]
  BY DEF PoolTypeOK
<1> QED BY <1>1, <1>2 DEF Rotating

(* A step of the pool or of an importer in a drought: no importer comes by  *)
(* a token, and one that exhausts a token again loses it.                   *)
LEMMA DroughtStep ==
  ASSUME PoolTypeOK, [PoolNext]_poolVars, AllExhausted
  PROVE  /\ Holders' \subseteq Holders
         /\ (\E i \in Tokens : left'[i] > left[i]) => Holders' # Holders
<1>0. /\ left \in [Tokens -> 0 .. exhaustionWindow] /\ exhaustionWindow \in Nat
      /\ curToken \in [Importers -> Tokens \cup {NoToken}]
      /\ \A i \in Tokens : left[i] > 0
  BY PoolAssumption DEF PoolTypeOK, AllExhausted, isExhausted
<1> DEFINE G == /\ Holders' \subseteq Holders
                /\ (\E i \in Tokens : left'[i] > left[i]) => Holders' # Holders
<1> SUFFICES G
  OBVIOUS
<1>1. CASE UNCHANGED left /\ Holders' \subseteq Holders
  BY <1>0, <1>1
<1>2. CASE Tick
  <2>1. UNCHANGED <<curToken, call>> /\ \A i \in Tokens : left'[i] = left[i] - 1 /\ left[i] \in Nat
    BY <1>0, <1>2 DEF Tick, importers
  <2> QED BY <2>1 DEF Holders, Rotating
<1>3. CASE TokenForPhase
  BY <1>1, <1>3 DEF TokenForPhase, importers, Holders, Rotating
<1>4. ASSUME NEW m \in Importers, ImportEvents(m)
      PROVE  G
  <2>1. PICK tok \in Tokens \cup {NoToken} :
          Token(left, owed, tok) /\ (tok = NoToken => UNCHANGED <<curToken, call>>) /\ UNCHANGED left
    BY <1>4 DEF ImportEvents, importers
  <2>2. tok = NoToken
    BY <2>1, NoneFound DEF AllExhausted
  <2> QED BY <1>1, <2>1, <2>2 DEF Holders, Rotating
<1>5. ASSUME NEW m \in Importers, Return(m)
      PROVE  G
  <2>1. UNCHANGED <<left, call>> /\ curToken' = [curToken EXCEPT ![m] = NoToken]
    BY <1>5 DEF Return, pool
  <2> QED BY <1>0, <1>1, <2>1 DEF Holders, Rotating
<1>6. ASSUME NEW m \in Importers, BackfillPRSize(m)
      PROVE  G
  <2>1. UNCHANGED <<left, curToken>> /\ AllEnded(m)
    BY <1>6 DEF BackfillPRSize, pool
  <2>2. PICK g \in Listers : call' = [call EXCEPT ![m][g] = Ready]
    BY <1>6 DEF BackfillPRSize
  <2>3. ~Rotating(m)
    BY <2>1 DEF AllEnded, Rotating
  <2>4. \A q \in Importers : Rotating(q)' <=> Rotating(q)
    BY <2>2, <2>3, RotatingStep DEF Ready, Calls, Rotating
  <2> QED BY <1>1, <2>1, <2>4 DEF Holders
<1>7. ASSUME NEW m \in Importers, NEW g \in Listers,
             Send(m, g) \/ Answer(m, g) \/ ServerError(m, g) \/ End(m, g) \/ Refuse(m, g)
      PROVE  G
  <2>1. UNCHANGED <<left, curToken>> /\ call[m][g].pc # "rotating"
    BY <1>7 DEF Send, Answer, ServerError, End, Refuse, pool
  <2>2. PICK r \in Calls : call' = [call EXCEPT ![m][g] = r] /\ r.pc # "rotating"
    <3>1. client[m] \in Tokens \cup {NoToken}
      BY DEF PoolTypeOK
    <3>2. \A l \in {"ready", "sent", "limited", "again", "resent", "ended"}, tok \in Tokens \cup {NoToken} :
            /\ [pc |-> l, tok |-> tok] \in Calls
            /\ [pc |-> l, tok |-> tok].pc # "rotating"
      BY DEF Calls
    <3>3. CASE Send(m, g)
      <4>1. Becomes(m, g, "sent", client[m]) \/ Becomes(m, g, "resent", client[m])
        BY <3>3 DEF Send
      <4> QED BY <3>1, <3>2, <4>1 DEF Becomes
    <3>4. CASE Answer(m, g) \/ ServerError(m, g)
      BY <3>2, <3>4 DEF Answer, ServerError, Becomes
    <3>5. CASE End(m, g)
      BY <3>2, <3>5 DEF End, Ended
    <3>6. CASE Refuse(m, g)
      <4>1. Becomes(m, g, "limited", NoToken) \/ Becomes(m, g, "ended", NoToken)
        BY <3>6 DEF Refuse
      <4> QED BY <3>2, <4>1 DEF Becomes
    <3> QED BY <1>7, <3>3, <3>4, <3>5, <3>6
  <2>3. \A q \in Importers : Rotating(q)' <=> Rotating(q)
    <3>1. Rotating(m) <=> \E h \in Listers \ {g} : call[m][h].pc = "rotating"
      BY <2>1 DEF Rotating
    <3> QED BY <2>2, <3>1, RotatingStep
  <2> QED BY <1>1, <2>1, <2>3 DEF Holders
<1>8. ASSUME NEW m \in Importers, NEW g \in Listers, rotateToken(m, g)
      PROVE  G
  <2>1. UNCHANGED curToken /\ left' = Exhaust(curToken[m]) /\ ~Rotating(m)
    BY <1>8 DEF rotateToken
  <2>2. PICK r \in Calls : call' = [call EXCEPT ![m][g] = r] /\ r.pc = "rotating"
    <3>1. [pc |-> "rotating", tok |-> NoToken] \in Calls
      BY DEF Calls
    <3> QED BY <1>8, <3>1 DEF rotateToken, Becomes
  <2>3. Rotating(m)' /\ \A q \in Importers \ {m} : Rotating(q)' <=> Rotating(q)
    BY <2>2, RotatingStep
  <2>4. Holders' = Holders \ {m}
    BY <2>1, <2>3 DEF Holders
  <2>5. CASE curToken[m] = NoToken
    <3>1. left' = left
      BY <1>0, <2>1, <2>5, PoolAssumption DEF Exhaust, Tokens
    <3> QED BY <1>1, <2>4, <3>1
  <2>6. CASE curToken[m] # NoToken
    BY <2>1, <2>4, <2>6 DEF Holders
  <2> QED BY <2>5, <2>6
<1>9. ASSUME NEW m \in Importers, NEW g \in Listers, NextToken(m, g)
      PROVE  G
  <2>1. PICK tok \in Tokens \cup {NoToken} :
          /\ Token(left, owed, tok) /\ curToken' = [curToken EXCEPT ![m] = tok]
          /\ tok = NoToken => call' = [call EXCEPT ![m][g] = Ended]
    BY <1>9 DEF NextToken
  <2>2. tok = NoToken
    BY <2>1, NoneFound DEF AllExhausted
  <2>3. \A q \in Importers \ {m} : Rotating(q)' <=> Rotating(q)
    BY <2>1, <2>2, RotatingStep DEF Ended, Calls
  <2>4. Holders' \subseteq Holders
    BY <1>0, <2>1, <2>2, <2>3 DEF Holders
  <2> QED BY <1>1, <1>9, <2>4 DEF NextToken
<1>10. CASE UNCHANGED poolVars
  BY <1>1, <1>10 DEF poolVars, pool, importers, Holders, Rotating
<1> HIDE DEF G
<1> QED BY <1>2, <1>3, <1>4, <1>5, <1>6, <1>7, <1>8, <1>9, <1>10, Zenon DEF PoolNext, Lister

(* While every token is exhausted the importers can lengthen the drought    *)
(* once each at most, in pools of any size and with any number of requests  *)
(* under way (rotateToken, Token): the safety half of PoolRecovers.         *)
THEOREM DroughtTheorem == PoolSpec => DroughtOnlyDrains
<1>1. PoolTypeOK /\ [PoolNext]_poolVars =>
        [AllExhausted =>
           /\ Holders' \subseteq Holders
           /\ (\E i \in Tokens : left'[i] > left[i]) => Holders' # Holders]_poolVars
  BY DroughtStep
<1> QED BY <1>1, PoolTypeCorrect, PTL DEF PoolSpec, DroughtOnlyDrains

=============================================================================
