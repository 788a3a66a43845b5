------------------------------ MODULE Workspace ------------------------------
(***************************************************************************)
(* A workspace's right to reviews, as the control plane keeps it: tier,    *)
(* trial, suspension, the day's limit and each pull request's allowance.   *)
(*                                                                         *)
(* The orchestrator asks before it reviews (repos/enabled), reviews, folds *)
(* the review into the pull request's ledger, posts it, saves the ledger   *)
(* and reports the review (POST /api/reviews), again when the answer was   *)
(* lost.  Meanwhile other jobs do the same, a typed resolve reads a ledger *)
(* and saves it back, days pass, founders change the limits and the control *)
(* plane is out of reach.                                                  *)
(***************************************************************************)
EXTENDS Integers, Sequences, FiniteSets, SequencesExt

CONSTANTS
  Orgs,        \* workspaces that connected the one repository modelled
  PRs,         \* its pull requests
  Jobs,        \* the orchestrator's workers: each does one job after another
  Day,         \* length of the daily window, in ticks: 0 is the tick itself
  FreeDay, PaidDay,  \* CAVIX_FREE/PAID_REVIEWS_PER_DAY
  FreePr, PaidPr,    \* CAVIX_FREE/PAID_REVIEWS_PER_PR
  Limits,      \* the values a founder or an owner enters
  MaxLedgers,  \* MAX_PR_LEDGERS
  MaxAttempts, \* attempts of the recorder per review
  MaxTime, MaxReviews,   \* bounds: ticks, reviews
  MaxChanges   \* bound: administrative changes, typed resolves and ledger calls that fail

\* What the constants are.
WorkspaceAssumption ==
  /\ IsFiniteSet(Orgs) /\ Day \in Nat /\ FreeDay \in Nat /\ PaidDay \in Nat
  /\ FreePr \in Nat \ {0} /\ PaidPr \in Nat \ {0} /\ Limits \subseteq Nat
  /\ MaxLedgers \in Nat \ {0} /\ MaxAttempts \in Nat \ {0}
  /\ MaxTime \in Nat /\ MaxChanges \in Nat /\ MaxReviews \in Nat

VARIABLES
  now,      \* ticks
  org,      \* the Org rows and the one setting that matters here
  repos,    \* the repository's rows, in the order the Map holds them
  reviews,  \* recorded reviews: [org, at, n, of], of the post reported
  ledgers,  \* pull requests with a ledger, as the Map holds them: [key, used, at]
  jobs,     \* see Job
  clearing, \* the ledger a typed resolve has read, or Idle
  changes,  \* bound
  peak,     \* history: the highest daily limit a workspace has had
  posts,    \* history: reviews posted, [org, at, n]
  spent,    \* history: reviews of a pull request since its ledger began
  uncounted, \* history: those of them whose count was not saved, or overwritten
  missing   \* history: numbers of the posts no record of which will ever come

ledgerVars == <<ledgers, clearing, spent, uncounted>>
vars == <<now, org, repos, reviews, jobs, changes, peak, posts, missing, ledgerVars>>

NoValue == -1
Keys == Orgs \X PRs
Idle == [pc |-> "idle"]
Job ==
  [pc : {"gated", "folded", "posted"}, key : Keys, moved : BOOLEAN,
   limit : Nat,     \* the allowance the gate saw
   laps : Nat,      \* history: reviews of the pull request counted since
   known : BOOLEAN, used : Nat, at : Nat,   \* of the fold: was the ledger read, its count, when
   post : Nat]
  \cup
  [pc : {"reporting", "done"}, key : Keys, moved : BOOLEAN,
   saved : BOOLEAN, post : Nat, tries : 0..MaxAttempts, stored : Nat, refused : BOOLEAN]

(***************************************************************************)
(* Limits                                                                  *)
(***************************************************************************)
OnTrial(o) == org[o].trialEnds > now
Tier(o) == IF OnTrial(o) THEN "paid" ELSE org[o].tier

(* effectiveReviewsPerDay, of a workspace that exists *)
PerDay(r, t) ==
  CASE r.suspended -> 0
    [] ~r.suspended /\ r.perDay # NoValue -> r.perDay
    [] OTHER -> IF r.trialEnds > t \/ r.tier = "paid" THEN PaidDay ELSE FreeDay

EffectivePerDay(o) == PerDay(org[o], now)

(* reviewCountSince: the window is closed at its far end. *)
InWindow(set, o) == {r \in set : r.org = o /\ r.at >= now - Day}
ReviewsToday(o) == Cardinality(InWindow(reviews, o))
DayIsFull(o) == ReviewsToday(o) >= EffectivePerDay(o)

(* prBudget and reviewBudget: free is a flat number, nothing else is consulted. *)

PrLimit(o) ==
  IF Tier(o) = "free" THEN FreePr
  ELSE IF org[o].perPr = NoValue THEN PaidPr ELSE org[o].perPr
Raisable(o) == Tier(o) # "free"

LedgerOf(k) == {i \in 1..Len(ledgers) : ledgers[i].key = k}
Used(k) == IF LedgerOf(k) = {} THEN 0 ELSE ledgers[CHOOSE i \in LedgerOf(k) : TRUE].used

Exhausted(k) == Used(k) >= PrLimit(k[1])

(* lookupRepo: the workspace of the first enabled row, if there is one. *)
Enabled == {i \in 1..Len(repos) : repos[i].on}
LookupRepo == {repos[i].org : i \in {i \in Enabled : \A j \in Enabled : i <= j}}

Init ==
  /\ now = 0 /\ changes = 0
  /\ org \in [Orgs -> [tier : {"free", "paid"}, trialEnds : {0}, suspended : {FALSE},
                       perDay : {NoValue}, perPr : {NoValue}]]
  /\ \E n \in 0..Cardinality(Orgs) : \E s \in [1..n -> Orgs] :
       /\ \A i, j \in 1..n : i # j => s[i] # s[j]
       /\ repos = [i \in 1..n |-> [org |-> s[i], on |-> TRUE]]
  /\ reviews = {} /\ ledgers = <<>> /\ clearing = Idle
  /\ jobs = [j \in Jobs |-> Idle]
  /\ peak = [o \in Orgs |-> PerDay(org[o], 0)]
  /\ posts = {} /\ missing = {}
  /\ spent = [k \in Keys |-> 0] /\ uncounted = [k \in Keys |-> 0]

(***************************************************************************)
(* Founder console and settings: one request changes one field here.       *)
(***************************************************************************)
UnderReview == {"gated", "folded", "posted", "reporting"}

(* Reviews under way whose workspace just got another limit. *)
Moved(t, rows) ==
  [j \in Jobs |->
     IF jobs[j].pc \in UnderReview
        /\ PerDay(rows[jobs[j].key[1]], t) < EffectivePerDay(jobs[j].key[1])
     THEN [jobs[j] EXCEPT !.moved = TRUE] ELSE jobs[j]]

Peaked(t, rows) ==
  [o \in Orgs |-> IF PerDay(rows[o], t) > peak[o] THEN PerDay(rows[o], t) ELSE peak[o]]

Change == changes < MaxChanges /\ changes' = changes + 1

SetOrg(o, row) ==
  /\ org' = [org EXCEPT ![o] = row]
  /\ jobs' = Moved(now, org') /\ peak' = Peaked(now, org')
  /\ UNCHANGED <<now, repos, reviews, ledgerVars, posts, missing>>

SetTier(o) == Change /\ \E t \in {"free", "paid"} \ {org[o].tier} : SetOrg(o, [org[o] EXCEPT !.tier = t])
StartTrial(o) == Change /\ SetOrg(o, [org[o] EXCEPT !.trialEnds = now + 1])
EndTrial(o) == Change /\ org[o].trialEnds > 0 /\ SetOrg(o, [org[o] EXCEPT !.trialEnds = 0])
SetPerDay(o) == Change /\ \E n \in Limits \cup {NoValue} : SetOrg(o, [org[o] EXCEPT !.perDay = n])
SetSuspended(o) == Change /\ SetOrg(o, [org[o] EXCEPT !.suspended = ~@])
(* PATCH settings: refused on the free tier; clampLimit keeps it positive. *)
SetPerPr(o) ==
  /\ Raisable(o) /\ Change
  /\ \E n \in Limits : SetOrg(o, [org[o] EXCEPT !.perPr = IF n < 1 THEN 1 ELSE n])

(***************************************************************************)
(* The repository picker: createRepo and setRepoEnabled.  A row that is    *)
(* there keeps its place and its visibility.                               *)
(***************************************************************************)
RowOf(o) == {i \in 1..Len(repos) : repos[i].org = o}
MayCreate(o, private) == ~(org[o].tier = "free" /\ ~OnTrial(o) /\ private)

Enable(o, private) ==
  /\ IF RowOf(o) = {}
     THEN /\ MayCreate(o, private)
          /\ repos' = Append(repos, [org |-> o, on |-> TRUE])
     ELSE repos' = [i \in 1..Len(repos) |->
                      IF i \in RowOf(o) THEN [repos[i] EXCEPT !.on = TRUE] ELSE repos[i]]
  /\ Change
  /\ UNCHANGED <<now, org, reviews, ledgerVars, jobs, peak, posts, missing>>

Disable(o) ==
  /\ RowOf(o) # {}
  /\ repos' = [i \in 1..Len(repos) |->
                 IF i \in RowOf(o) THEN [repos[i] EXCEPT !.on = FALSE] ELSE repos[i]]
  /\ Change
  /\ UNCHANGED <<now, org, reviews, ledgerVars, jobs, peak, posts, missing>>

RemoveRepo(o) ==
  /\ \E i \in RowOf(o) : repos' = RemoveAt(repos, i)
  /\ Change
  /\ UNCHANGED <<now, org, reviews, ledgerVars, jobs, peak, posts, missing>>

(***************************************************************************)
(* The gate, asked before anything is spent.  A job it lets through may    *)
(* wait for the slot of ReviewRun and stand down, superseded or failed.    *)
(***************************************************************************)
Started == Cardinality(posts) + Cardinality({j \in Jobs : jobs[j].pc \in {"gated", "folded"}})
Busy(k) == \E j \in Jobs : jobs[j].pc \in {"folded", "posted"} /\ jobs[j].key = k

Gated(k) ==
  [pc |-> "gated", key |-> k, moved |-> FALSE, limit |-> PrLimit(k[1]), laps |-> 0,
   known |-> FALSE, used |-> 0, at |-> 0, post |-> 0]

\* Mutant: the daily limit is checked only when the review is recorded.
GateOpensUnchecked(j, pr) ==
  /\ jobs[j].pc \in {"idle", "done"} /\ Started < MaxReviews
  /\ \E o \in LookupRepo : ~Exhausted(<<o, pr>>) /\ jobs' = [jobs EXCEPT ![j] = Gated(<<o, pr>>)]
  /\ UNCHANGED <<now, org, repos, reviews, ledgerVars, changes, peak, posts, missing>>

GateOpens(j, pr) ==
  /\ jobs[j].pc \in {"idle", "done"} /\ Started < MaxReviews
  /\ \E o \in LookupRepo :
       ~DayIsFull(o) /\ ~Exhausted(<<o, pr>>) /\ jobs' = [jobs EXCEPT ![j] = Gated(<<o, pr>>)]
  /\ UNCHANGED <<now, org, repos, reviews, ledgerVars, changes, peak, posts, missing>>

(* One review of a pull request holds its slot (ReviewWorkflow says when);  *)
(* reconcile adds one to the count it read and stamps the ledger with the   *)
(* time.  A ledger that could not be read is not saved later.               *)
Fold(j) ==
  /\ jobs[j].pc = "gated" /\ ~Busy(jobs[j].key)
  /\ \/ /\ jobs' = [jobs EXCEPT ![j].pc = "folded", ![j].known = TRUE,
                                ![j].used = Used(jobs[j].key), ![j].at = now]
        /\ UNCHANGED changes
     \/ Change /\ jobs' = [jobs EXCEPT ![j].pc = "folded"]
  /\ UNCHANGED <<now, org, repos, reviews, ledgers, clearing, peak, posts, spent, uncounted, missing>>

StandDown(j) ==
  /\ jobs[j].pc \in {"gated", "folded"} /\ jobs' = [jobs EXCEPT ![j] = Idle]
  /\ UNCHANGED <<now, org, repos, reviews, ledgerVars, changes, peak, posts, missing>>

(* The review goes onto the pull request. *)
Post(j) ==
  /\ jobs[j].pc = "folded"
  /\ jobs' = [jobs EXCEPT ![j].pc = "posted", ![j].post = Cardinality(posts)]
  /\ posts' = posts \cup {[org |-> jobs[j].key[1], at |-> now, n |-> Cardinality(posts)]}
  /\ spent' = [spent EXCEPT ![jobs[j].key] = @ + 1]
  /\ UNCHANGED <<now, org, repos, reviews, ledgers, clearing, changes, peak, uncounted, missing>>

(***************************************************************************)
(* savePrLedger and trimLedgers: a ledger that is there keeps its place;   *)
(* of one too many the least recently updated goes, which may be the one   *)
(* just saved, and of several as old the first.                            *)
(***************************************************************************)
Saved(l) ==
  IF LedgerOf(l.key) = {} THEN Append(ledgers, l)
  ELSE [i \in 1..Len(ledgers) |-> IF i \in LedgerOf(l.key) THEN l ELSE ledgers[i]]

Oldest(s, i) == \A j \in 1..Len(s) : s[i].at < s[j].at \/ (s[i].at = s[j].at /\ i <= j)

\* Mutant: the ledger that came first goes, whenever it was updated.
TrimmedFirst(s) == IF Len(s) > MaxLedgers THEN Tail(s) ELSE s

Trimmed(s) ==
  IF Len(s) > MaxLedgers THEN RemoveAt(s, CHOOSE i \in 1..Len(s) : Oldest(s, i)) ELSE s

HasLedger(k, s) == \E i \in 1..Len(s) : s[i].key = k
Lost(k, n) == IF uncounted[k] + n < spent[k] THEN uncounted[k] + n ELSE spent[k]

(* The request is stored; lost counts those of the pull request it undoes. *)
Store(l, lost) ==
  /\ LookupRepo # {}
  /\ ledgers' = Trimmed(Saved(l))
  /\ spent' = [k \in Keys |-> IF HasLedger(k, ledgers') THEN spent[k] ELSE 0]
  /\ uncounted' = [k \in Keys |->
       IF ~HasLedger(k, ledgers') THEN 0 ELSE IF k = l.key THEN Lost(k, lost) ELSE uncounted[k]]

(* It is not: nobody answers, or no enabled row is left (403). *)
NotStored ==
  /\ Change \/ (LookupRepo = {} /\ UNCHANGED changes)
  /\ UNCHANGED ledgers

Entry(j) == [key |-> jobs[j].key, used |-> jobs[j].used + 1, at |-> jobs[j].at]
Reports(j, saved) ==
  [pc |-> "reporting", key |-> jobs[j].key, moved |-> jobs[j].moved, saved |-> saved,
   post |-> jobs[j].post, tries |-> 0, stored |-> 0, refused |-> FALSE]
Counted(j) ==
  [i \in Jobs |-> IF i = j THEN Reports(j, TRUE)
                  ELSE IF jobs[i].pc = "gated" /\ jobs[i].key = jobs[j].key
                  THEN [jobs[i] EXCEPT !.laps = @ + 1] ELSE jobs[i]]

SaveLedger(j) ==
  /\ jobs[j].pc = "posted"
  /\ \/ jobs[j].known /\ Store(Entry(j), 0) /\ jobs' = Counted(j) /\ UNCHANGED changes
     \/ /\ IF jobs[j].known THEN NotStored ELSE UNCHANGED <<ledgers, changes>>
        /\ jobs' = [jobs EXCEPT ![j] = Reports(j, FALSE)]
        /\ uncounted' = [uncounted EXCEPT ![jobs[j].key] = Lost(jobs[j].key, 1)]
        /\ UNCHANGED spent
  /\ UNCHANGED <<now, org, repos, reviews, clearing, peak, posts, missing>>

(***************************************************************************)
(* "@cavixcode resolve", clearLedger: the ledger is read, its entries      *)
(* dismissed, which stamps it, and its count saved back as it was read.    *)
(***************************************************************************)
ClearReads(k) ==
  /\ clearing = Idle /\ Change
  /\ HasLedger(k, ledgers) /\ clearing' = [key |-> k, used |-> Used(k), at |-> now]
  /\ UNCHANGED <<now, org, repos, reviews, ledgers, jobs, peak, posts, spent, uncounted, missing>>

Undone == IF Used(clearing.key) > clearing.used THEN Used(clearing.key) - clearing.used ELSE 0

ClearSaves ==
  /\ clearing # Idle /\ clearing' = Idle
  /\ \/ Store(clearing, Undone) /\ UNCHANGED changes
     \/ NotStored /\ UNCHANGED <<spent, uncounted>>
  /\ UNCHANGED <<now, org, repos, reviews, jobs, peak, posts, missing>>

(***************************************************************************)
(* The recorder and POST /api/reviews: a full day answers 429 and is not   *)
(* asked again; an answer that does not come is, up to MaxAttempts times,  *)
(* and every request that arrives stores a record of its own.              *)
(***************************************************************************)
Missed(j) == IF jobs[j].stored = 0 THEN missing \cup {jobs[j].post} ELSE missing
Reporting(j) == jobs[j].pc = "reporting" /\ jobs[j].tries < MaxAttempts

(* Everyone else of the workspace now has one place less. *)
Stored(j) ==
  /\ ~DayIsFull(jobs[j].key[1])
  /\ reviews' = reviews \cup {[org |-> jobs[j].key[1], at |-> now,
                                n |-> Cardinality(reviews), of |-> jobs[j].post]}
Outrun(f, j) ==
  [i \in Jobs |-> IF i # j /\ f[i].pc \in UnderReview
                     /\ f[i].key[1] = f[j].key[1]
                  THEN [f[i] EXCEPT !.moved = TRUE] ELSE f[i]]

Recorded(j) ==
  /\ Reporting(j) /\ Stored(j)
  /\ jobs' = Outrun([jobs EXCEPT ![j].pc = "done", ![j].stored = @ + 1], j)
  /\ UNCHANGED <<now, org, repos, ledgerVars, changes, peak, posts, missing>>

Refused(j) ==
  /\ Reporting(j) /\ DayIsFull(jobs[j].key[1])
  /\ jobs' = [jobs EXCEPT ![j].pc = "done", ![j].refused = TRUE]
  /\ missing' = Missed(j)
  /\ UNCHANGED <<now, org, repos, reviews, ledgerVars, changes, peak, posts>>

Waited(j) ==
  [jobs[j] EXCEPT !.tries = @ + 1, !.pc = IF jobs[j].tries + 1 = MaxAttempts THEN "done" ELSE @]

(* No answer within the timeout: the request was stored, or it never came. *)
Unanswered(j) ==
  /\ Reporting(j)
  /\ \/ /\ Stored(j) /\ UNCHANGED missing
        /\ jobs' = Outrun([jobs EXCEPT ![j] = [Waited(j) EXCEPT !.stored = @ + 1]], j)
     \/ /\ UNCHANGED reviews /\ jobs' = [jobs EXCEPT ![j] = Waited(j)]
        /\ missing' = IF Waited(j).pc = "done" THEN Missed(j) ELSE missing
  /\ UNCHANGED <<now, org, repos, ledgerVars, changes, peak, posts>>

Tick ==
  /\ now < MaxTime /\ now' = now + 1
  /\ jobs' = Moved(now + 1, org) /\ peak' = Peaked(now + 1, org)
  /\ UNCHANGED <<org, repos, reviews, ledgerVars, changes, posts, missing>>

Next ==
  \/ \E o \in Orgs : \/ SetTier(o) \/ StartTrial(o) \/ EndTrial(o) \/ SetPerDay(o)
                     \/ SetSuspended(o) \/ SetPerPr(o)
                     \/ \E private \in BOOLEAN : Enable(o, private)
                     \/ Disable(o) \/ RemoveRepo(o)
  \/ \E j \in Jobs : \/ \E pr \in PRs : GateOpens(j, pr)
                     \/ Fold(j) \/ StandDown(j) \/ Post(j) \/ SaveLedger(j)
                     \/ Recorded(j) \/ Refused(j) \/ Unanswered(j)
  \/ \E k \in Keys : ClearReads(k)
  \/ ClearSaves \/ Tick

Spec == Init /\ [][Next]_vars

-----------------------------------------------------------------------------
(* Every variable has its type; a repository has at most one row per workspace. *)
TypeOK ==
  /\ now \in 0..MaxTime /\ changes \in 0..MaxChanges /\ missing \subseteq 0..MaxReviews
  /\ \A o \in Orgs : org[o].perDay \in Nat \cup {NoValue} /\ org[o].tier \in {"free", "paid"}
  /\ \A i, j \in 1..Len(repos) : i # j => repos[i].org # repos[j].org
  /\ \A i, j \in 1..Len(ledgers) : i # j => ledgers[i].key # ledgers[j].key
  /\ Len(ledgers) <= MaxLedgers /\ \A i \in 1..Len(ledgers) : ledgers[i].at <= now
  /\ clearing = Idle \/ (clearing.key \in Keys /\ clearing.used \in Nat /\ clearing.at <= now)
  /\ \A k \in Keys : uncounted[k] \in 0..spent[k]
  /\ \A j \in Jobs : jobs[j] = Idle \/ jobs[j] \in Job

(***************************************************************************)
(* The daily gate and POST /api/reviews count alike: a posted review is refused by *)
(* the dashboard, with nothing of it stored, only if since the gate let it *)
(* through its workspace's limit fell or another review was recorded.      *)
(***************************************************************************)
DroppedOnlyIfOutrun ==
  \A j \in Jobs :
    jobs[j].pc = "done" /\ jobs[j].refused /\ jobs[j].stored = 0 => jobs[j].moved

(***************************************************************************)
(* The daily limit bounds what is spent, not only what is recorded: within *)
(* a window a workspace posts no more than its highest limit, the reviews  *)
(* aside that are still to be reported and those that never will be: every *)
(* other one was recorded, no earlier than it was posted.                  *)
(***************************************************************************)
UnderWay ==
  {jobs[j].post : j \in {i \in Jobs : jobs[i].pc = "posted" \/ (jobs[i].pc = "reporting" /\ jobs[i].stored = 0)}}
SpentToday(o) == {p \in InWindow(posts, o) : p.n \notin missing \cup UnderWay}

SpendIsBounded == \A o \in Orgs : Cardinality(SpentToday(o)) <= peak[o]

(***************************************************************************)
(* A pull request gets no more reviews than the allowance the gate saw,    *)
(* counted since its ledger began (a forgotten ledger starts the count     *)
(* again), but for those the gate could not know of: counted after it      *)
(* answered and before its job took the slot, or never counted, because    *)
(* the ledger could not be read or saved or a resolve put an older count   *)
(* back.                                                                   *)
(***************************************************************************)
AllowanceHolds ==
  \A j \in Jobs : jobs[j].pc = "posted" =>
    spent[jobs[j].key] - uncounted[jobs[j].key] <= jobs[j].limit + jobs[j].laps

(***************************************************************************)
(* The limits of a workspace hold together: what the gate let through is   *)
(* recorded, what is posted stays within the day, and a pull request within *)
(* its allowance.                                                          *)
(***************************************************************************)
LimitsHold == DroppedOnlyIfOutrun /\ SpendIsBounded /\ AllowanceHolds

(***************************************************************************)
(* trimLedgers: when a ledger is forgotten, stored before or just saved,   *)
(* as many as may be are kept, all of them updated no earlier: a review    *)
(* that took long may lose its own, but never costs a later one its count. *)
(***************************************************************************)
Entries == {ledgers[i] : i \in 1..Len(ledgers)}
SavedNow == {Entry(j) : j \in {i \in Jobs : jobs[i].pc = "posted" /\ jobs'[i].pc = "reporting" /\ jobs'[i].saved}}

OldestLedgerGoes ==
  [][\A l \in Entries \cup SavedNow : ~HasLedger(l.key, ledgers') =>
       Len(ledgers') = MaxLedgers /\ \A m \in Entries' : l.at <= m.at]_vars
=============================================================================
