------------------------------- MODULE Enrich -------------------------------
(***************************************************************************)
(* The enrichment phases of a repository's import: releases, star history, *)
(* container versions, reputation, LLM insights.  Several imports of one   *)
(* repository may be under way at once, a scheduled task and jobs started  *)
(* by hand.  Every phase but the last runs under retryRL, which calls the  *)
(* whole phase again; what an attempt had committed stays.                 *)
(*                                                                         *)
(* Releases, versions and users are numbered by age, so that a watermark   *)
(* (MAX of a timestamp column) is that of the largest number stored.       *)
(* Versions may be pushed in the same second, the precision at which their *)
(* ages are compared.  Forks are treated exactly as stars and are left     *)
(* out.  Waiting, for a rate limit or in a backoff, is the time that       *)
(* passes between two steps.                                               *)
(***************************************************************************)
EXTENDS Integers, FiniteSets, FiniteSetsExt

CONSTANTS
    Run,                     \* imports of the repository
    Paying,                  \* the imports under a plan with insights
    PageSize,                \* items on a page of a GitHub listing
    transientRetryAttempts,  \* retries of a phase
    insightsMaxRetries,      \* calls of the LLM
    reputationChunkSize,     \* users scored in a transaction
    reputationStale,         \* ticks after which a score is stale
    insightsMinAge,          \* ticks before insights are generated again
    backfillDays,            \* ticks of star history that are rewritten
    OldTies,                 \* bound: which versions are tied at the beginning
    MaxDay,                  \* bound: ticks of the clock
    MaxChanges               \* bound: changes at GitHub

ASSUME EnrichAssumption ==
    /\ Paying \subseteq Run
    /\ {PageSize, insightsMaxRetries, reputationChunkSize} \subseteq Nat \ {0}
    /\ OldTies \subseteq SUBSET (2 .. PageSize + 1)
    /\ {transientRetryAttempts, reputationStale, insightsMinAge, backfillDays, MaxDay, MaxChanges} \subseteq Nat

VARIABLES
    (* GitHub, and the events imported *)
    day, changes,
    published,   \* releases of the repository
    pushed,      \* versions of its container package
    tied,        \* those created in the same second as the one before them
    starred,     \* [day -> stars there are by its end, given until now]
    events,      \* users with events
    (* the database *)
    releases, versions,
    history,     \* [day -> stars, or Never]
    scored,      \* [user -> reputation_updated_at, or Never]
    insight,     \* generated_at and event_count of the insights
    (* the imports *)
    pc, attempt,
    mem,         \* the local variables of the current phase
    (* history *)
    cut,         \* a release import ended between two of its pages
    flat,        \* days whose row was written from a flat history
    vouched      \* what the successful phases are to have stored

world    == <<day, changes, published, pushed, tied, starred, events>>
rows     == <<releases, versions, history, scored, insight>>
observed == <<cut, flat, vouched>>
vars == <<world, rows, pc, attempt, mem, observed>>

Never == -1
Days  == 0 .. MaxDay
Users == 1 .. (MaxChanges + reputationChunkSize)
Blank == [from |-> 0, latest |-> 0, page |-> 0, todo |-> {}, total |-> 0,
          curve |-> [d \in Days |-> Never], flat |-> FALSE]

Memory == [from : Nat \cup {Never}, latest : Nat, page : Nat, todo : SUBSET Nat, total : Nat,
           curve : [Days -> Nat \cup {Never}], flat : BOOLEAN]

(* Where an import is when it holds nothing in memory, and where it is      *)
(* within a phase.                                                          *)
Resting == {"idle", "releases", "metrics", "containers", "reputation", "insights", "done"}
Labels  == Resting \cup {"releasePage", "starCount", "starSave", "versionPage", "versionSave",
                         "score", "insightGate", "gather", "llm", "insightSave"}

(* A repository with more than a page of releases and of versions and with  *)
(* the events of a full chunk of users, before its first import.            *)
Init ==
    /\ day = 0 /\ changes = 0
    /\ published = PageSize + 1 /\ pushed = PageSize + 1 /\ events = reputationChunkSize
    /\ tied \in OldTies
    /\ starred = [d \in Days |-> 0]
    /\ releases = {} /\ versions = {}
    /\ history = [d \in Days |-> Never]
    /\ scored = [u \in Users |-> Never]
    /\ insight = [at |-> Never, count |-> 0]
    /\ pc = [r \in Run |-> "idle"]
    /\ attempt = [r \in Run |-> 0]
    /\ mem = [r \in Run |-> Blank]
    /\ cut = FALSE /\ flat = {}
    /\ vouched = [releases |-> 0, versions |-> 0, users |-> 0]

-----------------------------------------------------------------------------
(* The world outside: GitHub, and the import of events. *)

Change == changes < MaxChanges /\ changes' = changes + 1

Publish ==
    /\ Change /\ published' = published + 1
    /\ UNCHANGED <<day, pushed, tied, starred, events, rows, pc, attempt, mem, observed>>

(* A version, in a new second or in that of the version before it. *)
Push ==
    /\ Change /\ pushed' = pushed + 1
    /\ tied' \in {tied, tied \cup {pushed + 1}}
    /\ UNCHANGED <<day, published, starred, events, rows, pc, attempt, mem, observed>>

Star ==
    /\ Change /\ starred' = [d \in Days |-> IF d < day THEN starred[d] ELSE starred[d] + 1]
    /\ UNCHANGED <<day, published, pushed, tied, events, rows, pc, attempt, mem, observed>>

NewContributor ==
    /\ Change /\ events' = events + 1
    /\ UNCHANGED <<day, published, pushed, tied, starred, rows, pc, attempt, mem, observed>>

Midnight ==
    /\ day < MaxDay /\ day' = day + 1
    /\ UNCHANGED <<changes, published, pushed, tied, starred, events, rows, pc, attempt, mem, observed>>

-----------------------------------------------------------------------------
(* The order of the phases, and retryRL. *)

Goto(r, l) == pc' = [pc EXCEPT ![r] = l]

Put(r, m) == mem' = [mem EXCEPT ![r] = m]

PhaseOf(l) ==
    CASE l \in {"releases", "releasePage"}                 -> "releases"
      [] l \in {"metrics", "starCount", "starSave"}        -> "metrics"
      [] l \in {"containers", "versionPage", "versionSave"} -> "containers"
      [] l \in {"reputation", "score"}                     -> "reputation"
      [] l \in {"insights", "insightGate", "gather", "llm", "insightSave"} -> "insights"

After(r, l) ==
    CASE PhaseOf(l) = "releases"   -> "metrics"
      [] PhaseOf(l) = "metrics"    -> "containers"
      [] PhaseOf(l) = "containers" -> "reputation"
      [] PhaseOf(l) = "reputation" -> IF r \in Paying THEN "insights" ELSE "done"
      [] PhaseOf(l) = "insights"   -> "done"

(* A phase ends, with an error or without: the next one begins. *)
EndPhase(r) ==
    /\ Goto(r, After(r, pc[r]))
    /\ attempt' = [attempt EXCEPT ![r] = 0]
    /\ Put(r, Blank)

(* The attempt has committed a page of releases and not the next one. *)
BetweenPages(r) == pc[r] = "releasePage" /\ mem[r].page > 1

Interrupted(r) == cut' = (cut \/ BetweenPages(r))

Working(r) == pc[r] \notin {"idle", "done"}

runEnrichmentPhases(r) ==
    /\ pc[r] = "idle" /\ Goto(r, "releases")
    /\ UNCHANGED <<world, rows, attempt, mem, observed>>

(* An unchanged repository is skipped but for its insights. *)
runCatchUpInsights(r) ==
    /\ pc[r] = "idle" /\ Goto(r, IF r \in Paying THEN "insights" ELSE "done")
    /\ UNCHANGED <<world, rows, attempt, mem, observed>>

(* A request or a statement fails for a rate limit or a transient error,    *)
(* and the phase is called again.  Either kind of failure takes a turn of   *)
(* the loop: "continue" passes the loop's attempt++, so that a wait for a   *)
(* rate limit does use up an attempt, although its comment says otherwise.  *)
Retry(r) ==
    /\ Working(r) /\ PhaseOf(pc[r]) # "insights"
    /\ attempt[r] < transientRetryAttempts
    /\ attempt' = [attempt EXCEPT ![r] = @ + 1]
    /\ Goto(r, PhaseOf(pc[r])) /\ Put(r, Blank)
    /\ Interrupted(r)
    /\ UNCHANGED <<world, rows, flat, vouched>>

(* Wrong variant: the phase that failed is begun anew. *)
PhaseAgain(r) ==
    /\ Working(r)
    /\ Goto(r, PhaseOf(pc[r])) /\ attempt' = [attempt EXCEPT ![r] = 0] /\ Put(r, Blank)
    /\ Interrupted(r)
    /\ UNCHANGED <<world, rows, flat, vouched>>

(* Any other failure, or one too many: the error is logged and counted.     *)
PhaseFails(r) ==
    /\ Working(r)
    /\ EndPhase(r) /\ Interrupted(r)
    /\ UNCHANGED <<world, rows, flat, vouched>>

(* The context is cancelled: what is open is rolled back, retryRL gives up  *)
(* and the phases that are left are not begun.                              *)
Cancel(r) ==
    /\ Working(r)
    /\ Goto(r, "done") /\ attempt' = [attempt EXCEPT ![r] = 0] /\ Put(r, Blank)
    /\ Interrupted(r)
    /\ UNCHANGED <<world, rows, flat, vouched>>

Newest(S) == IF S = {} THEN 0 ELSE Max(S)

(* A page of a listing of n items, the newest first. *)
PageOf(n, p) == {i \in 1 .. n : (p - 1) * PageSize < n - i + 1 /\ n - i + 1 <= p * PageSize}

NextPage(n, p) == p * PageSize < n

-----------------------------------------------------------------------------
(* Releases: a transaction for every page. *)

ImportReleases(r) ==
    /\ pc[r] = "releases" /\ Goto(r, "releasePage")
    /\ Put(r, [Blank EXCEPT !.from = published, !.latest = Newest(releases), !.page = 1])
    /\ UNCHANGED <<world, rows, attempt, observed>>

(* Wrong variant: the page is sorted by tag. *)
BeforeByTag(i, j) == i <= j

(* The page is sorted by published_at, newest first. *)
Before(i, j) == i >= j

(* The loop leaves at the first release older than the watermark. *)
upsertReleasePage(page, latest) ==
    {j \in page : latest = 0 \/ \A i \in page : Before(i, j) => i >= latest}

ReleasePage(r) ==
    LET page == PageOf(published, mem[r].page)
        kept == upsertReleasePage(page, mem[r].latest)
        more == kept = page /\ NextPage(published, mem[r].page)
    IN  /\ pc[r] = "releasePage"
        /\ releases' = releases \cup kept
        /\ IF more
           THEN /\ Put(r, [mem[r] EXCEPT !.page = @ + 1])
                /\ UNCHANGED <<pc, attempt, vouched>>
           ELSE /\ EndPhase(r)
                /\ vouched' = [vouched EXCEPT !.releases = Max({@, mem[r].from})]
        /\ UNCHANGED <<world, versions, history, scored, insight, cut, flat>>

-----------------------------------------------------------------------------
(* Star history: the current total first, then the stars by day. *)

ImportRepoMetricHistory(r) ==
    /\ pc[r] = "metrics" /\ Goto(r, "starCount")
    /\ Put(r, [Blank EXCEPT !.total = starred[day]])
    /\ UNCHANGED <<world, rows, attempt, observed>>

Window == {d \in Days : d <= day /\ day - d <= backfillDays}

(* The stars that the listing has for the days after d. *)
StarsAfter(d) == starred[day] - starred[d]

(* Wrong variant: the stars of the day after are not taken off. *)
TotalsADayLate(total, listed) ==
    [d \in Days |-> IF d \notin Window THEN Never
                    ELSE Max({0, IF listed /\ d < day THEN total - StarsAfter(d + 1) ELSE total})]

(* The total of a day is the current one less the stars of the days after   *)
(* it, and never below zero; days outside the window have no row.           *)
buildDailyTotals(total, listed) ==
    [d \in Days |-> IF d \notin Window THEN Never
                    ELSE Max({0, IF listed THEN total - StarsAfter(d) ELSE total})]

(* The stargazers are listed back to the cutoff.  When the listing fails    *)
(* the history is flat.                                                     *)
countRecentStarsByDay(r) ==
    /\ pc[r] = "starCount" /\ Goto(r, "starSave")
    /\ \E listed \in BOOLEAN :
         Put(r, [mem[r] EXCEPT !.curve = buildDailyTotals(mem[r].total, listed), !.flat = ~listed])
    /\ UNCHANGED <<world, rows, attempt, observed>>

Written(r) == {d \in Days : mem[r].curve[d] # Never}

upsertMetricHistory(r) ==
    /\ pc[r] = "starSave" /\ EndPhase(r)
    /\ history' = [d \in Days |-> IF d \in Written(r) THEN mem[r].curve[d] ELSE history[d]]
    /\ flat' = IF mem[r].flat THEN flat \cup Written(r) ELSE flat \ Written(r)
    /\ UNCHANGED <<world, releases, versions, scored, insight, cut, vouched>>

-----------------------------------------------------------------------------
(* Container versions: one transaction for all the pages. *)

(* listRepoContainerPackages: answers 400, 403 and 404 mean no packages. *)
PackagesHidden(r) ==
    /\ pc[r] = "containers" /\ EndPhase(r)
    /\ UNCHANGED <<world, rows, observed>>

upsertContainerVersions(r) ==
    /\ pc[r] = "containers" /\ Goto(r, "versionPage")
    /\ Put(r, [Blank EXCEPT !.from = pushed, !.latest = Newest(versions), !.page = 1])
    /\ UNCHANGED <<world, rows, attempt, observed>>

(* Created after the watermark, which has the precision of a second: the    *)
(* loop leaves at the first version that is not.  In an empty table every   *)
(* version is new, and the first one is tied to none.                       *)
NewerThan(page, latest) == {i \in page : i > latest /\ ~(latest + 1 .. i \subseteq tied)}

VersionsPaged(r, kept, page) ==
    IF kept = page /\ NextPage(pushed, mem[r].page)
    THEN /\ Put(r, [mem[r] EXCEPT !.page = @ + 1, !.todo = @ \cup kept])
         /\ UNCHANGED pc
    ELSE /\ Put(r, [mem[r] EXCEPT !.todo = @ \cup kept])
         /\ Goto(r, "versionSave")

(* Wrong variant: every page is committed, as the releases are. *)
StoreVersionsByPage(r) ==
    LET page == PageOf(pushed, mem[r].page)
        kept == NewerThan(page, mem[r].latest)
    IN  /\ pc[r] = "versionPage"
        /\ VersionsPaged(r, kept, page)
        /\ versions' = versions \cup kept
        /\ UNCHANGED <<world, releases, history, scored, insight, attempt, observed>>

(* The rows go into the open transaction. *)
fetchAndStoreVersions(r) ==
    LET page == PageOf(pushed, mem[r].page)
        kept == NewerThan(page, mem[r].latest)
    IN  /\ pc[r] = "versionPage"
        /\ VersionsPaged(r, kept, page)
        /\ UNCHANGED <<world, rows, attempt, observed>>

CommitVersions(r) ==
    /\ pc[r] = "versionSave" /\ EndPhase(r)
    /\ versions' = versions \cup mem[r].todo
    /\ vouched' = [vouched EXCEPT !.versions = Max({@, mem[r].from})]
    /\ UNCHANGED <<world, releases, history, scored, insight, cut, flat>>

-----------------------------------------------------------------------------
(* Reputation: the users without a recent score, a transaction per chunk. *)

getStaleReputationUsernames ==
    {u \in 1 .. events : scored[u] = Never \/ day - scored[u] > reputationStale}

ScoresDone(r, upto) ==
    EndPhase(r) /\ vouched' = [vouched EXCEPT !.users = Max({@, upto})]

ImportReputation(r) ==
    /\ pc[r] = "reputation"
    /\ IF getStaleReputationUsernames = {}
       THEN ScoresDone(r, events)
       ELSE /\ Goto(r, "score")
            /\ Put(r, [Blank EXCEPT !.from = events, !.total = day, !.todo = getStaleReputationUsernames])
            /\ UNCHANGED <<attempt, vouched>>
    /\ UNCHANGED <<world, rows, cut, flat>>

ScoreUsers(chunk, at) ==
    scored' = [u \in Users |-> IF u \in chunk THEN at ELSE scored[u]]

(* The chunk is full and is flushed. *)
FlushChunk(r) ==
    /\ pc[r] = "score"
    /\ \E chunk \in kSubset(reputationChunkSize, mem[r].todo) :
         /\ ScoreUsers(chunk, mem[r].total)
         /\ Put(r, [mem[r] EXCEPT !.todo = @ \ chunk])
    /\ UNCHANGED <<world, releases, versions, history, insight, pc, attempt, observed>>

(* Wrong variant: the users of the last chunk are forgotten. *)
NoLastFlush(r) ==
    /\ pc[r] = "score" /\ Cardinality(mem[r].todo) < reputationChunkSize
    /\ ScoresDone(r, mem[r].from)
    /\ UNCHANGED <<world, rows, cut, flat>>

(* The flush after the loop. *)
LastFlush(r) ==
    /\ pc[r] = "score" /\ Cardinality(mem[r].todo) < reputationChunkSize
    /\ ScoreUsers(mem[r].todo, mem[r].total)
    /\ ScoresDone(r, mem[r].from)
    /\ UNCHANGED <<world, releases, versions, history, insight, cut, flat>>

-----------------------------------------------------------------------------
(* Insights: not under retryRL. *)

GetRepoInsightsGeneratedAt(r) ==
    /\ pc[r] = "insights" /\ Goto(r, "insightGate")
    /\ Put(r, [Blank EXCEPT !.from = insight.at])
    /\ UNCHANGED <<world, rows, attempt, observed>>

(* First the age, then the change of the event count by a tenth. *)
checkInsightStaleness(at, saved, current) ==
    \/ at = Never
    \/ /\ day - at >= insightsMinAge
       /\ \/ saved = 0
          \/ 10 * (Max({saved, current}) - Min({saved, current})) >= saved

(* The saved event count and the current one, and the decision. *)
generateRepoInsights(r) ==
    /\ pc[r] = "insightGate"
    /\ IF checkInsightStaleness(mem[r].from, insight.count, events)
       THEN Goto(r, "gather") /\ Put(r, [mem[r] EXCEPT !.total = events]) /\ UNCHANGED attempt
       ELSE EndPhase(r)
    /\ UNCHANGED <<world, rows, observed>>

(* The metrics of the prompt; one whose query fails is left out of it. *)
GatherInsightsMetrics(r) ==
    /\ pc[r] = "gather" /\ Goto(r, "llm")
    /\ UNCHANGED <<world, rows, attempt, mem, observed>>

(* The LLM is busy: the call is made again. *)
InsightsRetry(r) ==
    /\ pc[r] = "llm" /\ attempt[r] < insightsMaxRetries - 1
    /\ attempt' = [attempt EXCEPT ![r] = @ + 1]
    /\ UNCHANGED <<world, rows, pc, mem, observed>>

GenerateInsights(r) ==
    /\ pc[r] = "llm" /\ Goto(r, "insightSave")
    /\ UNCHANGED <<world, rows, attempt, mem, observed>>

SaveRepoInsights(r) ==
    /\ pc[r] = "insightSave" /\ EndPhase(r)
    /\ insight' = [at |-> day, count |-> mem[r].total]
    /\ UNCHANGED <<world, releases, versions, history, scored, observed>>

-----------------------------------------------------------------------------

Step(r) ==
    \/ ImportReleases(r) \/ ReleasePage(r)
    \/ ImportRepoMetricHistory(r) \/ countRecentStarsByDay(r) \/ upsertMetricHistory(r)
    \/ PackagesHidden(r) \/ upsertContainerVersions(r) \/ fetchAndStoreVersions(r) \/ CommitVersions(r)
    \/ ImportReputation(r) \/ FlushChunk(r) \/ LastFlush(r)
    \/ GetRepoInsightsGeneratedAt(r) \/ generateRepoInsights(r)
    \/ GatherInsightsMetrics(r) \/ InsightsRetry(r) \/ GenerateInsights(r) \/ SaveRepoInsights(r)
    \/ Retry(r) \/ PhaseFails(r) \/ Cancel(r)

World == Publish \/ Push \/ Star \/ NewContributor \/ Midnight

Next ==
    \/ World
    \/ \E r \in Run : runEnrichmentPhases(r) \/ runCatchUpInsights(r) \/ Step(r)

Spec == Init /\ [][Next]_vars

-----------------------------------------------------------------------------
(* Properties *)

(* The types of the rows and of the imports; no phase is tried more often   *)
(* than retryRL and GenerateInsights allow.                                 *)
TypeOK ==
    /\ day \in Days /\ changes \in 0 .. MaxChanges
    /\ {published, pushed, events} \subseteq Nat /\ starred \in [Days -> Nat]
    /\ releases \subseteq 1 .. published /\ versions \subseteq 1 .. pushed
    /\ pushed >= 1 /\ tied \subseteq 2 .. pushed
    /\ history \in [Days -> Nat \cup {Never}]
    /\ scored \in [Users -> Days \cup {Never}]
    /\ insight \in [at : Days \cup {Never}, count : Nat]
    /\ attempt \in [Run -> 0 .. Max({transientRetryAttempts, insightsMaxRetries - 1})]
    /\ pc \in [Run -> Labels]
    /\ mem \in [Run -> Memory]
    /\ cut \in BOOLEAN /\ flat \subseteq Days
    /\ vouched \in [releases : Nat, versions : Nat, users : Nat]

(* The watermark of releases is the newest one stored, and pages are        *)
(* committed newest first: once an import is cut off between two pages, no  *)
(* later one looks below the watermark.  Unless that has happened, every    *)
(* release published when a successful import began is stored, as soon as   *)
(* no import is between its pages (ImportReleases, upsertReleasePage).      *)
ReleasesComplete ==
    ~cut /\ ~(\E r \in Run : BetweenPages(r)) =>
        1 .. vouched.releases \subseteq releases

(* The versions of containers are committed together, so that failures,     *)
(* retries and overlapping imports leave no gap below the watermark but     *)
(* versions created in the same second as one that is stored, which had     *)
(* not been listed with it (upsertContainerVersions, fetchAndStoreVersions). *)
VersionsComplete == (1 .. vouched.versions) \ versions \subseteq tied

Copy == INSTANCE ListingCopy WITH listed <- pushed, stored <- versions,
                                  promised <- vouched.versions

(* The version table implements the abstract copy: with imports that page   *)
(* through a moving listing side by side, it never shows a listing with a   *)
(* second left out, not even between two commits, it has of every second    *)
(* the versions up to some one, and it reaches as far as a successful phase *)
(* vouched for (upsertContainerVersions).                                   *)
VersionsCopied == Copy!Spec

(* The row of a day never claims more stars than there were by its end,     *)
(* whatever is starred between the requests and whichever import writes     *)
(* last, unless the stargazers could not be listed                          *)
(* (ImportRepoMetricHistory, buildDailyTotals).                             *)
NotInflated == \A d \in Days \ flat : history[d] <= starred[d]

(* Every user with events when a successful reputation phase selected its   *)
(* users has a score, also one whose chunk failed in an earlier attempt or  *)
(* was taken by another import (ImportReputation).                          *)
ScoresComplete ==
    \A u \in 1 .. vouched.users : scored[u] # Never

(* The phases that are left, and how far the current one is.                *)
PhasesLeft(l) ==
    IF l = "done" THEN 0 ELSE
    CASE PhaseOf(l) = "insights"   -> 1
      [] PhaseOf(l) = "reputation" -> 2
      [] PhaseOf(l) = "containers" -> 3
      [] PhaseOf(l) = "metrics"    -> 4
      [] PhaseOf(l) = "releases"   -> 5

StepNo(l) ==
    CASE l = PhaseOf(l) -> 0
      [] l \in {"releasePage", "starCount", "versionPage", "score", "insightGate"} -> 1
      [] l \in {"starSave", "versionSave", "gather"} -> 2
      [] l = "llm" -> 3
      [] l = "insightSave" -> 4

(* However often GitHub answers with rate limits and transient errors, every *)
(* step of an import brings it nearer its end: it finishes a phase, uses up  *)
(* one of the attempts, goes on within the attempt, or takes the next page   *)
(* or chunk (newRetryRL, runEnrichmentPhases, GenerateInsights).  It rests   *)
(* on the loop's attempt++, which a wait for a rate limit does not escape:   *)
(* were it as the comment in newRetryRL has it ("retry without consuming an  *)
(* attempt slot"), a phase that meets rate limits could go on for ever.      *)
NoStepInVain ==
    [][\A r \in Run :
         Working(r) /\ <<pc[r], attempt[r], mem[r]>>' # <<pc[r], attempt[r], mem[r]>> =>
            \/ PhasesLeft(pc'[r]) < PhasesLeft(pc[r])
            \/ /\ PhasesLeft(pc'[r]) = PhasesLeft(pc[r])
               /\ \/ attempt'[r] > attempt[r]
                  \/ /\ attempt'[r] = attempt[r]
                     /\ \/ StepNo(pc'[r]) > StepNo(pc[r])
                        \/ /\ pc'[r] = pc[r]
                           /\ \/ mem'[r].page > mem[r].page
                              \/ Cardinality(mem'[r].todo) < Cardinality(mem[r].todo)]_vars

-----------------------------------------------------------------------------
(* What the phases keep true, from which the properties above follow.       *)

(* The items of a listing of n that the pages before p do not reach. *)
Unread(n, p) == n - (p - 1) * PageSize

(* A release is missing below one that is stored, or was vouched for, only  *)
(* while an import that has stored the pages above it is still to read it.  *)
ReleaseInv ==
    /\ published >= 1 /\ vouched.releases <= published
    /\ \A r \in Run : pc[r] = "releasePage" =>
         /\ mem[r].page >= 1 /\ mem[r].from <= published
         /\ mem[r].latest = 0 \/ mem[r].latest \in releases
         /\ mem[r].page > 1 => \E j \in releases : mem[r].from <= j
    /\ ~cut => \A i \in (1 .. published) \ releases :
         (i <= vouched.releases \/ \E j \in releases : i <= j) =>
            \E r \in Run : BetweenPages(r) /\ mem[r].latest <= i /\ i <= Unread(published, mem[r].page)

(* Versions missing below one that is stored are tied to the one before     *)
(* them, and of a second those stored come first.  What an import has in    *)
(* its open transaction is all that it found newer than its watermark.      *)
VersionInv ==
    /\ VersionsComplete /\ vouched.versions <= pushed
    /\ \A j \in versions : (1 .. j) \ versions \subseteq tied
    /\ \A i \in versions \cap tied : i - 1 \in versions
    /\ \A r \in Run : pc[r] \in {"versionPage", "versionSave"} =>
         /\ mem[r].page >= 1 /\ mem[r].from <= pushed
         /\ mem[r].todo \subseteq NewerThan(1 .. pushed, mem[r].latest)
         /\ mem[r].latest = 0 \/ mem[r].latest \in versions
         /\ \A i \in NewerThan(1 .. pushed, mem[r].latest) :
              /\ pc[r] = "versionPage" => i > Unread(pushed, mem[r].page)
              /\ i <= mem[r].from \/ \E j \in mem[r].todo : i <= j
              => i \in mem[r].todo

(* Neither the total an import has read nor the curve it is to write is     *)
(* above what GitHub has.                                                   *)
StarInv ==
    /\ \A d, e \in Days : d <= e => starred[d] <= starred[e]
    /\ \A d \in Days : d >= day => starred[d] = starred[day]
    /\ NotInflated
    /\ \A r \in Run : pc[r] = "starCount" => mem[r].total <= starred[day]
    /\ \A r \in Run : pc[r] = "starSave" /\ ~mem[r].flat =>
         \A d \in Days : mem[r].curve[d] <= starred[d]

(* A user without a score is still on the list of every import that has     *)
(* selected its users since the user had events.                            *)
ScoreInv ==
    /\ events <= changes + reputationChunkSize /\ vouched.users <= events
    /\ ScoresComplete
    /\ \A r \in Run : pc[r] = "score" =>
         /\ mem[r].total \in Days /\ mem[r].from \in 0 .. events /\ mem[r].todo \subseteq 1 .. events
         /\ \A u \in 1 .. mem[r].from : scored[u] # Never \/ u \in mem[r].todo
=============================================================================
