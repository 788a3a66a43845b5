-------------------------- MODULE ControlPlane_proof --------------------------
(***************************************************************************)
(* What orchestrators keep of the control plane, and two of its own parts: *)
(* for any keys, tokens, workspaces, repositories, installations and       *)
(* requests, any lengths of caches and answers, and any number of changes, *)
(* faults and jobs at once.  Each part is a component of its own, with its *)
(* own clock; all are named as in ControlPlane, with any constants.        *)
(***************************************************************************)
EXTENDS ControlPlane, SequenceTheorems, FiniteSetTheorems, WellFoundedInduction, TLAPS

-----------------------------------------------------------------------------
(* The inductive invariant.                                                *)

(* Jobs past the gate that have not ended, and those that hold the slot. *)
Working(j) == jobs[j].pc \in {"gated", "folded", "posted", "reporting"}
AtIt(j) == jobs[j].pc \in {"folded", "posted"}

(* A job before its ledger is saved or given up, and after. *)
Before ==
  [pc : {"gated", "folded", "posted"}, key : Keys, moved : BOOLEAN,
   limit : Nat, laps : Nat, known : BOOLEAN, used : Nat, at : Nat, post : Nat]
After ==
  [pc : {"reporting", "done"}, key : Keys, moved : BOOLEAN,
   saved : BOOLEAN, post : Nat, tries : 0..MaxAttempts, stored : Nat, refused : BOOLEAN]

Row == [tier : {"free", "paid"}, trialEnds : Nat, suspended : BOOLEAN,
        perDay : Nat \cup {NoValue}, perPr : Nat \cup {NoValue}]

RowsOK ==
  /\ now \in Nat /\ org \in [Orgs -> Row]
  /\ repos \in Seq([org : Orgs, on : BOOLEAN])
  /\ peak \in [Orgs -> Nat] /\ \A o \in Orgs : EffectivePerDay(o) <= peak[o]

ReviewsOK ==
  /\ IsFiniteSet(reviews) /\ reviews \subseteq [org : Orgs, at : Nat, n : Nat, of : Nat]
  /\ \A r \in reviews : r.n < Cardinality(reviews)
  /\ \A o \in Orgs : ReviewsToday(o) <= peak[o]

PostsOK ==
  /\ IsFiniteSet(posts) /\ posts \subseteq [org : Orgs, at : Nat, n : Nat]
  /\ \A p \in posts : p.n < Cardinality(posts) /\ p.at <= now
  /\ \A p, q \in posts : p.n = q.n => p = q

(* A job that posted knows its post; none is refused before it ends. *)
JobsOK ==
  /\ jobs \in [Jobs -> Before \cup After \cup {Idle}]
  /\ \A j \in Jobs : jobs[j].pc \in {"posted", "reporting"} =>
       \E p \in posts : p.n = jobs[j].post /\ p.org = jobs[j].key[1]
  /\ \A j \in Jobs : jobs[j].pc = "reporting" => ~jobs[j].refused

(* Every post is recorded, still to be reported, or never will be. *)
Accounted ==
  \A p \in posts :
    \/ p.n \in missing \cup UnderWay
    \/ \E r \in reviews : r.of = p.n /\ r.org = p.org /\ r.at >= p.at

(* The place the gate found for a review is free until another takes it. *)
RoomLeft ==
  \A j \in Jobs : Working(j) /\ ~jobs[j].moved /\ (jobs[j].pc = "reporting" => jobs[j].stored = 0)
                    => ~DayIsFull(jobs[j].key[1])

Ledger == [key : Keys, used : Nat, at : Nat]
LedgersOK ==
  /\ ledgers \in Seq(Ledger) /\ Len(ledgers) <= MaxLedgers
  /\ \A i, j \in 1..Len(ledgers) : ledgers[i].key = ledgers[j].key => i = j
  /\ clearing \in Ledger \cup {Idle}

(* The reviews of a pull request that were counted, or are still to be.  The *)
(* ledger says no less, but for a review that is posted and not yet saved.   *)
Sure(k) == spent[k] - uncounted[k]
Posted(k) == \E j \in Jobs : jobs[j].pc = "posted" /\ jobs[j].key = k
ByLedger(k) == Sure(k) <= Used(k) + 1 /\ (~Posted(k) => Sure(k) <= Used(k))

(* What a job may rely on: the allowance it was let in on, with the reviews *)
(* counted since, has room for its own until it posts, and the count it     *)
(* read is no older than its slot.                                          *)
Room(j) == jobs[j].pc = "folded" \/ (jobs[j].pc = "gated" /\ ~Posted(jobs[j].key))
Within(j) ==
  /\ jobs[j].limit > 0 /\ (jobs[j].pc = "gated" => ~jobs[j].known)
  /\ Sure(jobs[j].key) <= jobs[j].limit + jobs[j].laps
  /\ Room(j) => Sure(jobs[j].key) < jobs[j].limit + jobs[j].laps
  /\ jobs[j].known /\ jobs[j].pc = "folded" => Sure(jobs[j].key) <= jobs[j].used
  /\ jobs[j].known /\ jobs[j].pc = "posted" => Sure(jobs[j].key) <= jobs[j].used + 1

(* One job at a time holds a pull request, and each spends within its allowance. *)
CountsOK ==
  /\ spent \in [Keys -> Nat] /\ uncounted \in [Keys -> Nat]
  /\ \A k \in Keys : uncounted[k] <= spent[k]
SpentOK ==
  /\ CountsOK
  /\ \A i, j \in Jobs : AtIt(i) /\ AtIt(j) /\ jobs[i].key = jobs[j].key => i = j
  /\ \A k \in Keys : ByLedger(k)
  /\ \A j \in Jobs : jobs[j].pc \in {"gated", "folded", "posted"} => Within(j)

WorkspaceInv ==
  RowsOK /\ ReviewsOK /\ PostsOK /\ JobsOK /\ Accounted /\ RoomLeft
    /\ DroppedOnlyIfOutrun /\ LedgersOK /\ SpentOK

-----------------------------------------------------------------------------
(* Limits and windows.                                                     *)

(* A workspace that exists has a limit for the day. *)
LEMMA LimitIsANumber ==
  ASSUME WorkspaceAssumption, NEW r \in Row, NEW t \in Nat
  PROVE  PerDay(r, t) \in Nat
<1>1. CASE r.suspended
  BY <1>1 DEF PerDay
<1>2. CASE ~r.suspended /\ r.perDay # NoValue
  BY <1>2 DEF PerDay, Row
<1>3. CASE ~r.suspended /\ r.perDay = NoValue
  BY <1>3 DEF PerDay, WorkspaceAssumption
<1> QED  BY <1>1, <1>2, <1>3

(* The limit that is in force is a number. *)
LEMMA EffectiveIsANumber ==
  ASSUME WorkspaceAssumption, RowsOK, NEW o \in Orgs
  PROVE  EffectivePerDay(o) \in Nat
<1>1. org[o] \in Row /\ now \in Nat
  BY DEF RowsOK
<1> QED  BY <1>1, LimitIsANumber DEF EffectivePerDay

(* The day's count is a number. *)
LEMMA CountIsANumber ==
  ASSUME ReviewsOK, NEW o
  PROVE  IsFiniteSet(InWindow(reviews, o)) /\ ReviewsToday(o) \in Nat
<1>1. InWindow(reviews, o) \in SUBSET reviews
  BY DEF InWindow
<1>2. IsFiniteSet(InWindow(reviews, o))
  BY <1>1, FS_Subset DEF ReviewsOK
<1> QED  BY <1>2, FS_CardinalityType DEF ReviewsToday

(* As time passes reviews leave the window. *)
LEMMA WindowShrinks ==
  ASSUME WorkspaceAssumption, ReviewsOK, NEW o, now \in Nat, now' \in Nat, now <= now',
         reviews' = reviews
  PROVE  ReviewsToday(o)' \in Nat /\ ReviewsToday(o)' <= ReviewsToday(o)
<1>1. InWindow(reviews, o)' \in SUBSET InWindow(reviews, o)
  <2> SUFFICES ASSUME NEW r \in reviews, r.org = o, r.at >= now' - Day
               PROVE  r.at >= now - Day
    BY DEF InWindow
  <2>1. r.at \in Nat /\ Day \in Nat
    BY DEF ReviewsOK, WorkspaceAssumption
  <2> QED  BY <2>1
<1>2. IsFiniteSet(InWindow(reviews, o))
  BY CountIsANumber
<1>3. /\ IsFiniteSet(InWindow(reviews, o)')
      /\ Cardinality(InWindow(reviews, o)') <= Cardinality(InWindow(reviews, o))
  BY ONLY <1>1, <1>2, FS_Subset
<1> QED  BY <1>3, FS_CardinalityType DEF ReviewsToday

(* A record takes one place of its workspace, and no other. *)
LEMMA WindowGrows ==
  ASSUME WorkspaceAssumption, RowsOK, ReviewsOK, NEW o \in Orgs, NEW post \in Nat, now' = now,
         reviews' = reviews \cup {[org |-> o, at |-> now, n |-> Cardinality(reviews), of |-> post]}
  PROVE  /\ IsFiniteSet(reviews')
         /\ reviews' \subseteq [org : Orgs, at : Nat, n : Nat, of : Nat]
         /\ \A r \in reviews' : r.n < Cardinality(reviews')
         /\ ReviewsToday(o)' = ReviewsToday(o) + 1
         /\ \A u \in Orgs : u # o => ReviewsToday(u)' = ReviewsToday(u)
<1> DEFINE r == [org |-> o, at |-> now, n |-> Cardinality(reviews), of |-> post]
<1>1. Cardinality(reviews) \in Nat /\ now \in Nat /\ Day \in Nat
  BY FS_CardinalityType DEF ReviewsOK, RowsOK, WorkspaceAssumption
<1>2. r \in [org : Orgs, at : Nat, n : Nat, of : Nat] /\ r.org = o /\ r.at = now
        /\ r.n = Cardinality(reviews)
  BY <1>1
<1>3. r \notin reviews
  BY <1>1, <1>2 DEF ReviewsOK
<1> HIDE DEF r
<1>4. reviews' = reviews \cup {r}
  BY DEF r
<1>5. IsFiniteSet(reviews') /\ Cardinality(reviews') = Cardinality(reviews) + 1
  BY <1>3, <1>4, FS_AddElement DEF ReviewsOK
<1>6. \A s \in reviews' : s.n < Cardinality(reviews')
  BY <1>1, <1>2, <1>4, <1>5 DEF ReviewsOK
<1>7. ReviewsToday(o)' = ReviewsToday(o) + 1
  <2>1. InWindow(reviews, o)' = InWindow(reviews, o) \cup {r}
    BY <1>1, <1>2, <1>4 DEF InWindow
  <2>2. IsFiniteSet(InWindow(reviews, o)) /\ r \notin InWindow(reviews, o)
    BY <1>3, CountIsANumber DEF InWindow
  <2> QED  BY <2>1, <2>2, FS_AddElement DEF ReviewsToday
<1>8. \A u \in Orgs : u # o => ReviewsToday(u)' = ReviewsToday(u)
  BY <1>2, <1>4 DEF InWindow, ReviewsToday
<1> QED  BY <1>2, <1>4, <1>5, <1>6, <1>7, <1>8 DEF ReviewsOK
-----------------------------------------------------------------------------
(* What the steps do.                                                      *)

(* Another workspace row, or another hour. *)
RowStep ==
  /\ now' \in Nat /\ now <= now' /\ org' \in [Orgs -> Row]
  /\ jobs' = Moved(now', org') /\ peak' = Peaked(now', org')
  /\ UNCHANGED <<repos, reviews, ledgerVars, posts, missing>>

(* Another list of repositories. *)
RepoStep ==
  /\ repos' \in Seq([org : Orgs, on : BOOLEAN])
  /\ UNCHANGED <<now, org, reviews, ledgerVars, jobs, peak, posts, missing>>

(* A resolve reads a ledger or saves it. *)
ClearStep == ClearSaves \/ \E k \in Keys : ClearReads(k)

(* A job goes on, up to its report. *)
JobStep(j) == (\E pr \in PRs : GateOpens(j, pr)) \/ Fold(j) \/ StandDown(j) \/ Post(j) \/ SaveLedger(j)

(* A record is stored, answered or not. *)
StoreStep(j) ==
  /\ Reporting(j) /\ Stored(j)
  /\ \E t \in 0..MaxAttempts, c \in {"reporting", "done"} :
       jobs' = Outrun([jobs EXCEPT ![j] = [jobs[j] EXCEPT !.tries = t, !.pc = c, !.stored = @ + 1]], j)
  /\ UNCHANGED <<now, org, repos, ledgerVars, peak, posts, missing>>

(* A report is refused, or does not arrive. *)
NoStoreStep(j) ==
  /\ Reporting(j)
  /\ \E t \in 0..MaxAttempts, c \in {"reporting", "done"}, f \in BOOLEAN :
       /\ jobs' = [jobs EXCEPT ![j] = [jobs[j] EXCEPT !.tries = t, !.pc = c, !.refused = f]]
       /\ f => c = "done" /\ DayIsFull(jobs[j].key[1])
       /\ missing' = IF c = "done" THEN Missed(j) ELSE missing
  /\ UNCHANGED <<now, org, repos, reviews, ledgerVars, peak, posts>>

Steps ==
  \/ RowStep \/ RepoStep \/ ClearStep
  \/ \E j \in Jobs : JobStep(j) \/ StoreStep(j) \/ NoStoreStep(j)

(* A list without one of its entries. *)
LEMMA RemoveAtIs ==
  ASSUME NEW Els, NEW s \in Seq(Els), NEW i \in 1..Len(s)
  PROVE  /\ RemoveAt(s, i) \in Seq(Els) /\ Len(RemoveAt(s, i)) = Len(s) - 1
         /\ \A a \in 1..(Len(s) - 1) : RemoveAt(s, i)[a] = s[IF a < i THEN a ELSE a + 1]
<1> DEFINE front == SubSeq(s, 1, i - 1)  back == SubSeq(s, i + 1, Len(s))
<1>1. Len(s) \in Nat /\ i \in Nat /\ 1 <= i /\ i <= Len(s)
  BY LenProperties
<1>2. front \in Seq(Els) /\ Len(front) = i - 1 /\ \A a \in 1..(i - 1) : front[a] = s[a]
  <2>1. \A a \in 1..(i - 1) : a \in 1..Len(s)
    BY <1>1
  <2>2. \A a \in 1..(i - 1) : s[a] \in Els
    BY <2>1, ElementOfSeq
  <2>3. 1 \in 1..(Len(s) + 1) /\ i - 1 \in 0..Len(s)
    BY <1>1
  <2> QED  BY <1>1, <2>1, <2>2, SubSeqProperties
<1>3. back \in Seq(Els) /\ Len(back) = Len(s) - i /\ \A a \in 1..(Len(s) - i) : back[a] = s[i + a]
  BY <1>1, SubSeqProperties
<1>4. RemoveAt(s, i) = front \o back
  BY DEF RemoveAt
<1> HIDE DEF front, back
<1>5. /\ front \o back \in Seq(Els) /\ Len(front \o back) = Len(front) + Len(back)
      /\ \A a \in 1..(Len(front) + Len(back)) :
           (front \o back)[a] = IF a <= Len(front) THEN front[a] ELSE back[a - Len(front)]
  <2>1. front \in Seq(Els) /\ back \in Seq(Els)
    BY <1>2, <1>3
  <2> QED  BY ONLY <2>1, ConcatProperties
<1>6. ASSUME NEW a \in 1..(Len(s) - 1)
      PROVE  (front \o back)[a] = s[IF a < i THEN a ELSE a + 1]
  <2>1. a \in 1..(Len(front) + Len(back))
    BY <1>1, <1>2, <1>3
  <2>2. CASE a < i
    BY <1>1, <1>2, <1>5, <2>1, <2>2
  <2>3. CASE ~(a < i)
    <3>1. ~(a <= Len(front)) /\ a - Len(front) = a - i + 1 /\ a - i + 1 \in 1..(Len(s) - i)
      BY <1>1, <1>2, <2>3
    <3>2. i + (a - i + 1) = a + 1
      BY <1>1
    <3>3. (front \o back)[a] = back[a - i + 1]
      BY <1>5, <2>1, <3>1
    <3>4. back[a - i + 1] = s[i + (a - i + 1)]
      BY <1>3, <3>1
    <3> QED  BY <2>3, <3>2, <3>3, <3>4
  <2> QED  BY <2>2, <2>3
<1>7. Len(front) + Len(back) = Len(s) - 1
  BY <1>1, <1>2, <1>3
<1> QED  BY <1>4, <1>5, <1>6, <1>7

(* A job's record is one of its stage. *)
LEMMA JobIs ==
  ASSUME JobsOK, NEW j \in Jobs
  PROVE  /\ jobs[j].pc \in {"gated", "folded", "posted"} => jobs[j] \in Before
         /\ jobs[j].pc \in {"reporting", "done"} => jobs[j] \in After
         /\ jobs[j].pc \in {"idle", "gated", "folded", "posted", "reporting", "done"}
<1>1. jobs[j] \in Before \/ jobs[j] \in After \/ jobs[j] = Idle
  BY DEF JobsOK
<1>2. jobs[j] \in Before => jobs[j].pc \in {"gated", "folded", "posted"}
  BY DEF Before
<1>3. jobs[j] \in After => jobs[j].pc \in {"reporting", "done"}
  BY DEF After
<1>4. jobs[j] = Idle => jobs[j].pc = "idle"
  BY DEF Idle
<1> QED  BY <1>1, <1>2, <1>3, <1>4

(* Every step of a state of the invariant is one of these. *)
LEMMA NextIsASteps ==
  ASSUME WorkspaceAssumption, RowsOK, JobsOK, Next
  PROVE  Steps
<1>1. now \in Nat /\ org \in [Orgs -> Row] /\ repos \in Seq([org : Orgs, on : BOOLEAN])
  BY DEF RowsOK
<1>2. ASSUME NEW o \in Orgs, NEW row \in Row, SetOrg(o, row)
      PROVE  RowStep
  <2>1. now' = now /\ org' \in [Orgs -> Row]
    BY <1>1, <1>2 DEF SetOrg
  <2> QED  BY <1>1, <1>2, <2>1 DEF SetOrg, RowStep
<1>3. ASSUME NEW o \in Orgs,
             SetTier(o) \/ StartTrial(o) \/ EndTrial(o) \/ SetPerDay(o) \/ SetSuspended(o) \/ SetPerPr(o)
      PROVE  RowStep
  <2>0. org[o] \in Row
    BY <1>1
  <2>1. CASE SetTier(o)
    <3>1. PICK t \in {"free", "paid"} : SetOrg(o, [org[o] EXCEPT !.tier = t])
      BY <2>1 DEF SetTier
    <3>2. [org[o] EXCEPT !.tier = t] \in Row
      BY <2>0 DEF Row
    <3> QED  BY <1>2, <3>1, <3>2
  <2>2. CASE StartTrial(o)
    <3>2. [org[o] EXCEPT !.trialEnds = now + 1] \in Row
      BY <1>1, <2>0 DEF Row
    <3> QED  BY <1>2, <2>2, <3>2 DEF StartTrial
  <2>3. CASE EndTrial(o)
    <3>2. [org[o] EXCEPT !.trialEnds = 0] \in Row
      BY <2>0 DEF Row
    <3> QED  BY <1>2, <2>3, <3>2 DEF EndTrial
  <2>4. CASE SetPerDay(o)
    <3>1. PICK n \in Limits \cup {NoValue} : SetOrg(o, [org[o] EXCEPT !.perDay = n])
      BY <2>4 DEF SetPerDay
    <3>2. [org[o] EXCEPT !.perDay = n] \in Row
      BY <2>0 DEF Row, WorkspaceAssumption
    <3> QED  BY <1>2, <3>1, <3>2
  <2>5. CASE SetSuspended(o)
    <3>2. [org[o] EXCEPT !.suspended = ~@] \in Row
      BY <2>0, Zenon DEF Row
    <3> QED  BY <1>2, <2>5, <3>2 DEF SetSuspended
  <2>6. CASE SetPerPr(o)
    <3>1. PICK n \in Limits : SetOrg(o, [org[o] EXCEPT !.perPr = IF n < 1 THEN 1 ELSE n])
      BY <2>6 DEF SetPerPr
    <3>2. (IF n < 1 THEN 1 ELSE n) \in Nat
      BY DEF WorkspaceAssumption
    <3>3. [org[o] EXCEPT !.perPr = IF n < 1 THEN 1 ELSE n] \in Row
      BY <2>0, <3>2 DEF Row
    <3> QED  BY <1>2, <3>1, <3>3
  <2> QED  BY <1>3, <2>1, <2>2, <2>3, <2>4, <2>5, <2>6
<1>4. ASSUME NEW o \in Orgs, NEW private \in BOOLEAN, Enable(o, private)
      PROVE  RepoStep
  <2>1. [org |-> o, on |-> TRUE] \in [org : Orgs, on : BOOLEAN]
    OBVIOUS
  <2>2. Append(repos, [org |-> o, on |-> TRUE]) \in Seq([org : Orgs, on : BOOLEAN])
    BY <1>1, <2>1, AppendProperties
  <2>3. [i \in 1..Len(repos) |-> IF i \in RowOf(o) THEN [repos[i] EXCEPT !.on = TRUE] ELSE repos[i]]
          \in Seq([org : Orgs, on : BOOLEAN])
    <3>1. Len(repos) \in Nat /\ \A i \in 1..Len(repos) : repos[i] \in [org : Orgs, on : BOOLEAN]
      BY <1>1, LenProperties, ElementOfSeq
    <3>2. \A r \in [org : Orgs, on : BOOLEAN] : [r EXCEPT !.on = TRUE] \in [org : Orgs, on : BOOLEAN]
      OBVIOUS
    <3> QED  BY <3>1, <3>2, SeqDef
  <2> QED  BY <1>4, <2>2, <2>3 DEF Enable, RepoStep
<1>5. ASSUME NEW o \in Orgs, Disable(o)
      PROVE  RepoStep
  <2>1. Len(repos) \in Nat /\ \A i \in 1..Len(repos) : repos[i] \in [org : Orgs, on : BOOLEAN]
    BY <1>1, LenProperties, ElementOfSeq
  <2>2. \A r \in [org : Orgs, on : BOOLEAN] : [r EXCEPT !.on = FALSE] \in [org : Orgs, on : BOOLEAN]
    OBVIOUS
  <2>3. [i \in 1..Len(repos) |-> IF i \in RowOf(o) THEN [repos[i] EXCEPT !.on = FALSE] ELSE repos[i]]
          \in Seq([org : Orgs, on : BOOLEAN])
    BY <2>1, <2>2, SeqDef
  <2> QED  BY <1>5, <2>3 DEF Disable, RepoStep
<1>6. ASSUME NEW o \in Orgs, RemoveRepo(o)
      PROVE  RepoStep
  <2>1. PICK i \in RowOf(o) : repos' = RemoveAt(repos, i)
    BY <1>6 DEF RemoveRepo
  <2>2. i \in 1..Len(repos)
    BY DEF RowOf
  <2>3. repos' \in Seq([org : Orgs, on : BOOLEAN])
    BY <1>1, <2>1, <2>2, RemoveAtIs
  <2> QED  BY <1>6, <2>3 DEF RemoveRepo, RepoStep
<1>7. ASSUME NEW j \in Jobs, Recorded(j) \/ Refused(j) \/ Unanswered(j)
      PROVE  StoreStep(j) \/ NoStoreStep(j)
  <2>0. Reporting(j)
    BY <1>7 DEF Recorded, Refused, Unanswered
  <2>1. Reporting(j) /\ jobs[j] \in After /\ ~jobs[j].refused
    BY <2>0, JobIs DEF Reporting, JobsOK
  <2>2. jobs[j].tries \in 0..MaxAttempts /\ jobs[j].tries + 1 \in 0..MaxAttempts
    BY <2>1 DEF Reporting, After, WorkspaceAssumption
  <2>3. CASE Recorded(j)
    <3>1. [jobs EXCEPT ![j].pc = "done", ![j].stored = @ + 1]
            = [jobs EXCEPT ![j] = [jobs[j] EXCEPT !.tries = jobs[j].tries, !.pc = "done", !.stored = @ + 1]]
      BY <2>1 DEF JobsOK, After
    <3> QED  BY <2>2, <2>3, <3>1 DEF Recorded, StoreStep
  <2>4. CASE Refused(j)
    <3>1. [jobs EXCEPT ![j].pc = "done", ![j].refused = TRUE]
            = [jobs EXCEPT ![j] = [jobs[j] EXCEPT !.tries = jobs[j].tries, !.pc = "done", !.refused = TRUE]]
      BY <2>1 DEF JobsOK, After
    <3> QED  BY <2>2, <2>4, <3>1 DEF Refused, NoStoreStep
  <2>5. CASE Unanswered(j)
    <3> DEFINE c == IF jobs[j].tries + 1 = MaxAttempts THEN "done" ELSE jobs[j].pc
    <3>1. c \in {"reporting", "done"}
      BY <2>1 DEF Reporting
    <3>2. Waited(j) = [jobs[j] EXCEPT !.tries = jobs[j].tries + 1, !.pc = c]
      BY DEF Waited
    <3>3. Waited(j) = [jobs[j] EXCEPT !.tries = jobs[j].tries + 1, !.pc = c, !.refused = FALSE]
      BY <2>1, <3>2 DEF After
    <3>4. Waited(j).pc = c
      BY <2>1, <3>2 DEF After
    <3>5. [Waited(j) EXCEPT !.stored = @ + 1]
            = [jobs[j] EXCEPT !.tries = jobs[j].tries + 1, !.pc = c, !.stored = @ + 1]
      BY <2>1, <3>2 DEF After
    <3> HIDE DEF c
    <3>6. CASE /\ Stored(j) /\ UNCHANGED missing
               /\ jobs' = Outrun([jobs EXCEPT ![j] = [Waited(j) EXCEPT !.stored = @ + 1]], j)
      <4>1. jobs' = Outrun([jobs EXCEPT ![j] =
                       [jobs[j] EXCEPT !.tries = jobs[j].tries + 1, !.pc = c, !.stored = @ + 1]], j)
        BY <3>5, <3>6
      <4> QED  BY <2>1, <2>2, <2>5, <3>1, <3>6, <4>1 DEF Unanswered, StoreStep
    <3>7. CASE /\ UNCHANGED reviews /\ jobs' = [jobs EXCEPT ![j] = Waited(j)]
               /\ missing' = IF Waited(j).pc = "done" THEN Missed(j) ELSE missing
      <4>1. /\ jobs' = [jobs EXCEPT ![j] =
                 [jobs[j] EXCEPT !.tries = jobs[j].tries + 1, !.pc = c, !.refused = FALSE]]
            /\ missing' = IF c = "done" THEN Missed(j) ELSE missing
        BY <3>3, <3>4, <3>7
      <4>2. UNCHANGED <<now, org, repos, reviews, ledgerVars, peak, posts>>
        BY <2>5, <3>7 DEF Unanswered
      <4> QED  BY <2>1, <2>2, <3>1, <4>1, <4>2 DEF NoStoreStep
    <3> QED  BY <2>5, <3>6, <3>7 DEF Unanswered
  <2> QED  BY <1>7, <2>3, <2>4, <2>5
<1>8. ASSUME Tick
      PROVE  RowStep
  BY <1>1, <1>8 DEF Tick, RowStep
<1>9. ASSUME NEW j \in Jobs, (\E pr \in PRs : GateOpens(j, pr)) \/ Fold(j) \/ StandDown(j) \/ Post(j) \/ SaveLedger(j)
      PROVE  JobStep(j)
  BY <1>9 DEF JobStep
<1>10. ASSUME ClearSaves \/ \E k \in Keys : ClearReads(k)
       PROVE  ClearStep
  BY <1>10 DEF ClearStep
<1> QED  BY <1>3, <1>4, <1>5, <1>6, <1>7, <1>8, <1>9, <1>10, Zenon DEF Next, Steps

(* A job that others leave alone, but for the mark that it was outrun and the *)
(* reviews counted since its gate.                                           *)
Same(i) ==
  /\ jobs'[i].pc = jobs[i].pc /\ jobs'[i].key = jobs[i].key
  /\ jobs[i].pc # "idle" => (jobs[i].moved => jobs'[i].moved)
  /\ jobs[i].pc \in {"posted", "reporting", "done"} => jobs'[i].post = jobs[i].post
  /\ jobs[i].pc \in {"reporting", "done"} =>
       jobs'[i].stored = jobs[i].stored /\ jobs'[i].refused = jobs[i].refused
  /\ jobs[i].pc \in {"gated", "folded", "posted"} =>
       /\ jobs'[i].limit = jobs[i].limit /\ jobs'[i].laps >= jobs[i].laps
       /\ jobs'[i].known = jobs[i].known /\ jobs'[i].used = jobs[i].used

(* A record that is left alone is the same. *)
LEMMA AloneIsSame ==
  ASSUME JobsOK, NEW i \in Jobs, jobs'[i] = jobs[i]
  PROVE  Same(i)
<1>1. jobs[i].pc \in {"gated", "folded", "posted"} => jobs[i].laps >= jobs[i].laps
  <2>1. ASSUME jobs[i].pc \in {"gated", "folded", "posted"} PROVE jobs[i].laps \in Nat
    BY <2>1, JobIs DEF Before
  <2> QED  BY <2>1
<1> QED  BY <1>1 DEF Same

(* Marking a job changes nothing else of it. *)
LEMMA MarkOnly ==
  ASSUME JobsOK, NEW i \in Jobs, Working(i), jobs'[i] = [jobs[i] EXCEPT !.moved = TRUE]
  PROVE  jobs'[i] \in Before \cup After /\ Same(i) /\ jobs'[i].moved
<1>1. CASE jobs[i].pc \in {"gated", "folded", "posted"}
  <2>1. jobs[i] \in Before
    BY <1>1, JobIs
  <2>2. /\ jobs'[i] \in Before /\ jobs'[i].moved
        /\ jobs'[i].pc = jobs[i].pc /\ jobs'[i].key = jobs[i].key /\ jobs'[i].post = jobs[i].post
        /\ jobs'[i].limit = jobs[i].limit /\ jobs'[i].laps = jobs[i].laps
        /\ jobs'[i].known = jobs[i].known /\ jobs'[i].used = jobs[i].used
    BY <2>1 DEF Before
  <2>3. jobs[i].laps \in Nat
    BY <2>1 DEF Before
  <2>4. jobs'[i].laps >= jobs[i].laps
    BY <2>2, <2>3
  <2> QED  BY <1>1, <2>2, <2>4 DEF Same
<1>2. CASE jobs[i].pc = "reporting"
  <2>1. jobs[i] \in After
    BY <1>2, JobIs
  <2>2. /\ jobs'[i] \in After /\ jobs'[i].moved
        /\ jobs'[i].pc = jobs[i].pc /\ jobs'[i].key = jobs[i].key /\ jobs'[i].post = jobs[i].post
        /\ jobs'[i].stored = jobs[i].stored /\ jobs'[i].refused = jobs[i].refused
    BY <2>1 DEF After
  <2> QED  BY <1>2, <2>2 DEF Same
<1> QED  BY <1>1, <1>2 DEF Working

(* Another row or hour marks those whose limit fell, and touches no other. *)
LEMMA RowStepJobs ==
  ASSUME JobsOK, RowStep
  PROVE  /\ jobs' \in [Jobs -> Before \cup After \cup {Idle}]
         /\ \A i \in Jobs : Same(i)
         /\ \A i \in Jobs, o \in Orgs :
              Working(i) /\ jobs[i].key[1] = o /\ EffectivePerDay(o)' < EffectivePerDay(o)
                => jobs'[i].moved
<1>1. jobs' = Moved(now', org') /\ jobs \in [Jobs -> Before \cup After \cup {Idle}]
  BY DEF RowStep, JobsOK
<1>2. ASSUME NEW i \in Jobs
      PROVE  /\ jobs'[i] \in Before \cup After \cup {Idle} /\ Same(i)
             /\ \A o \in Orgs :
                  Working(i) /\ jobs[i].key[1] = o /\ EffectivePerDay(o)' < EffectivePerDay(o)
                    => jobs'[i].moved
  <2> DEFINE Fell == PerDay(org'[jobs[i].key[1]], now') < EffectivePerDay(jobs[i].key[1])
  <2>1. jobs'[i] = IF Working(i) /\ Fell THEN [jobs[i] EXCEPT !.moved = TRUE] ELSE jobs[i]
    BY <1>1 DEF Moved, Working, UnderReview
  <2>2. \A o \in Orgs :
          jobs[i].key[1] = o /\ EffectivePerDay(o)' < EffectivePerDay(o) => Fell
    BY DEF EffectivePerDay
  <2> HIDE DEF Fell
  <2>3. CASE Working(i) /\ Fell
    <3>1. jobs'[i] = [jobs[i] EXCEPT !.moved = TRUE]
      BY <2>1, <2>3
    <3> QED  BY <2>3, <3>1, MarkOnly
  <2>4. CASE ~(Working(i) /\ Fell)
    <3>1. jobs'[i] = jobs[i]
      BY <2>1, <2>4
    <3>2. Same(i)
      BY <3>1, AloneIsSame
    <3> QED  BY <1>1, <2>2, <2>4, <3>1, <3>2
  <2> QED  BY <2>3, <2>4
<1>3. jobs' = [i \in Jobs |-> jobs'[i]]
  BY <1>1 DEF Moved
<1> QED  BY <1>2, <1>3

(* A stored record ends the reporting job's attempt, marks the other jobs of *)
(* the workspace, and touches no other.                                      *)
LEMMA StoreStepJobs ==
  ASSUME JobsOK, NEW j \in Jobs, StoreStep(j)
  PROVE  /\ jobs' \in [Jobs -> Before \cup After \cup {Idle}]
         /\ jobs[j] \in After /\ jobs[j].pc = "reporting"
         /\ jobs'[j].pc \in {"reporting", "done"} /\ jobs'[j].key = jobs[j].key
         /\ jobs'[j].post = jobs[j].post /\ jobs'[j].stored > 0 /\ jobs'[j].refused = jobs[j].refused
         /\ \A i \in Jobs \ {j} : Same(i)
         /\ \A i \in Jobs \ {j} : Working(i) /\ jobs[i].key[1] = jobs[j].key[1] => jobs'[i].moved
<1>1. jobs \in [Jobs -> Before \cup After \cup {Idle}] /\ jobs[j] \in After /\ jobs[j].pc = "reporting"
  BY JobIs DEF JobsOK, StoreStep, Reporting
<1>2. PICK t \in 0..MaxAttempts, c \in {"reporting", "done"} :
        jobs' = Outrun([jobs EXCEPT ![j] = [jobs[j] EXCEPT !.tries = t, !.pc = c, !.stored = @ + 1]], j)
  BY DEF StoreStep
<1> DEFINE now_j == [jobs[j] EXCEPT !.tries = t, !.pc = c, !.stored = @ + 1]
           f == [jobs EXCEPT ![j] = now_j]
<1>3. /\ now_j \in After /\ now_j.pc = c /\ now_j.key = jobs[j].key /\ now_j.post = jobs[j].post
      /\ now_j.refused = jobs[j].refused
  <2>1. jobs[j].stored + 1 \in Nat
    BY <1>1 DEF After
  <2>2. now_j = [jobs[j] EXCEPT !.tries = t, !.pc = c, !.stored = jobs[j].stored + 1]
    OBVIOUS
  <2> HIDE DEF now_j
  <2> QED  BY <1>1, <2>1, <2>2 DEF After
<1>4. now_j.stored > 0
  <2>1. jobs[j].stored \in Nat /\ now_j.stored = jobs[j].stored + 1
    BY <1>1 DEF After
  <2> QED  BY <2>1
<1> HIDE DEF now_j
<1>5. jobs' = Outrun(f, j)
  BY <1>2 DEF now_j
<1>6. f[j] = now_j /\ \A i \in Jobs \ {j} : f[i] = jobs[i]
  BY <1>1
<1> HIDE DEF f
<1>7. jobs'[j] = now_j
  BY <1>5, <1>6 DEF Outrun
<1>8. ASSUME NEW i \in Jobs \ {j}
      PROVE  /\ jobs'[i] \in Before \cup After \cup {Idle} /\ Same(i)
             /\ Working(i) /\ jobs[i].key[1] = jobs[j].key[1] => jobs'[i].moved
  <2> DEFINE Near == Working(i) /\ jobs[i].key[1] = jobs[j].key[1]
  <2>1. jobs'[i] = IF Near THEN [jobs[i] EXCEPT !.moved = TRUE] ELSE jobs[i]
    BY <1>3, <1>5, <1>6 DEF Outrun, Working, UnderReview
  <2>2. CASE Near
    <3>1. jobs'[i] = [jobs[i] EXCEPT !.moved = TRUE]
      BY <2>1, <2>2
    <3> QED  BY <2>2, <3>1, MarkOnly
  <2>3. CASE ~Near
    <3>1. jobs'[i] = jobs[i]
      BY <2>1, <2>3
    <3>2. Same(i)
      BY <3>1, AloneIsSame
    <3> QED  BY <1>1, <2>3, <3>1, <3>2
  <2> QED  BY <2>2, <2>3
<1>9. jobs' = [i \in Jobs |-> jobs'[i]]
  BY <1>5 DEF Outrun
<1>10. \A i \in Jobs : jobs'[i] \in Before \cup After \cup {Idle}
  BY <1>3, <1>7, <1>8
<1> QED  BY <1>1, <1>3, <1>4, <1>7, <1>8, <1>9, <1>10

(* A report that stores nothing. *)
LEMMA NoStoreStepJobs ==
  ASSUME JobsOK, NEW j \in Jobs, NoStoreStep(j)
  PROVE  /\ jobs' \in [Jobs -> Before \cup After \cup {Idle}]
         /\ jobs[j] \in After /\ jobs[j].pc = "reporting"
         /\ jobs'[j].pc \in {"reporting", "done"} /\ jobs'[j].key = jobs[j].key
         /\ jobs'[j].post = jobs[j].post /\ jobs'[j].stored = jobs[j].stored
         /\ jobs'[j].moved = jobs[j].moved
         /\ jobs'[j].refused => jobs'[j].pc = "done" /\ DayIsFull(jobs[j].key[1])
         /\ missing' = IF jobs'[j].pc = "done" THEN Missed(j) ELSE missing
         /\ \A i \in Jobs \ {j} : Same(i)
<1>1. jobs \in [Jobs -> Before \cup After \cup {Idle}] /\ jobs[j] \in After /\ jobs[j].pc = "reporting"
  BY JobIs DEF JobsOK, NoStoreStep, Reporting
<1>2. PICK t \in 0..MaxAttempts, c \in {"reporting", "done"}, f \in BOOLEAN :
        /\ jobs' = [jobs EXCEPT ![j] = [jobs[j] EXCEPT !.tries = t, !.pc = c, !.refused = f]]
        /\ f => c = "done" /\ DayIsFull(jobs[j].key[1])
        /\ missing' = IF c = "done" THEN Missed(j) ELSE missing
  BY DEF NoStoreStep
<1> DEFINE now_j == [jobs[j] EXCEPT !.tries = t, !.pc = c, !.refused = f]
<1>3. /\ now_j \in After /\ now_j.pc = c /\ now_j.key = jobs[j].key /\ now_j.post = jobs[j].post
      /\ now_j.stored = jobs[j].stored
  BY <1>1 DEF After
<1>4. now_j.refused = f /\ now_j.moved = jobs[j].moved
  BY <1>1 DEF After
<1>5. jobs' = [jobs EXCEPT ![j] = now_j]
  BY <1>2
<1> HIDE DEF now_j
<1>6. /\ jobs'[j] = now_j /\ jobs' \in [Jobs -> Before \cup After \cup {Idle}]
      /\ \A i \in Jobs \ {j} : jobs'[i] = jobs[i]
  BY <1>1, <1>3, <1>5
<1>7. jobs'[j].refused => jobs'[j].pc = "done" /\ DayIsFull(jobs[j].key[1])
  BY <1>2, <1>3, <1>4, <1>6
<1>8. \A i \in Jobs \ {j} : Same(i)
  BY <1>6, AloneIsSame
<1> QED  BY <1>1, <1>2, <1>3, <1>4, <1>6, <1>7, <1>8

(* What a ledger says is a number. *)
LEMMA UsedIsANumber ==
  ASSUME LedgersOK, NEW k \in Keys
  PROVE  Used(k) \in Nat
<1>1. CASE LedgerOf(k) = {}
  BY <1>1 DEF Used
<1>2. CASE LedgerOf(k) # {}
  <2>1. PICK a \in 1..Len(ledgers) : Used(k) = ledgers[a].used
    BY <1>2 DEF Used, LedgerOf
  <2>2. ledgers[a] \in Ledger
    BY <2>1, ElementOfSeq DEF LedgersOK
  <2> QED  BY <2>1, <2>2 DEF Ledger
<1> QED  BY <1>1, <1>2

(* A job that is replaced leaves the others alone. *)
LEMMA OneReplaced ==
  ASSUME JobsOK, NEW j \in Jobs, NEW b \in Before \cup After \cup {Idle}, jobs' = [jobs EXCEPT ![j] = b]
  PROVE  /\ jobs' \in [Jobs -> Before \cup After \cup {Idle}] /\ jobs'[j] = b
         /\ \A i \in Jobs \ {j} : jobs'[i] = jobs[i] /\ Same(i)
<1>1. jobs' \in [Jobs -> Before \cup After \cup {Idle}] /\ jobs'[j] = b
        /\ \A i \in Jobs \ {j} : jobs'[i] = jobs[i]
  BY DEF JobsOK
<1> QED  BY <1>1, AloneIsSame

(* The gate starts a job where a day and an allowance have room. *)
LEMMA GateIs ==
  ASSUME WorkspaceAssumption, RowsOK, JobsOK, LedgersOK,
         NEW j \in Jobs, NEW pr \in PRs, GateOpens(j, pr)
  PROVE  \E k \in Keys :
           /\ k[1] \in Orgs /\ ~DayIsFull(k[1]) /\ Used(k) < PrLimit(k[1])
           /\ Used(k) \in Nat /\ PrLimit(k[1]) \in Nat
           /\ jobs[j].pc \in {"idle", "done"}
           /\ Gated(k) \in Before /\ jobs' = [jobs EXCEPT ![j] = Gated(k)]
<1>1. PICK o \in LookupRepo :
        ~DayIsFull(o) /\ ~Exhausted(<<o, pr>>) /\ jobs' = [jobs EXCEPT ![j] = Gated(<<o, pr>>)]
  BY DEF GateOpens
<1>2. o \in Orgs
  <2>1. PICK i \in 1..Len(repos) : o = repos[i].org
    BY DEF LookupRepo, Enabled
  <2>2. repos[i] \in [org : Orgs, on : BOOLEAN]
    BY <2>1, ElementOfSeq DEF RowsOK
  <2> QED  BY <2>1, <2>2
<1>3. PICK k \in Keys : k = <<o, pr>> /\ k[1] = o
  <2>1. <<o, pr>> \in Keys /\ <<o, pr>>[1] = o
    BY <1>2 DEF Keys
  <2> QED  BY <2>1
<1>4. Used(k) \in Nat
  BY UsedIsANumber
<1>5. PrLimit(o) \in Nat
  <2>1. org[o] \in Row
    BY <1>2 DEF RowsOK
  <2>2. org[o].perPr \in Nat \cup {NoValue}
    BY <2>1 DEF Row
  <2> QED  BY <2>2 DEF PrLimit, WorkspaceAssumption
<1>6. Used(k) < PrLimit(o)
  BY <1>1, <1>3, <1>4, <1>5 DEF Exhausted
<1>7. Gated(k) \in Before
  BY <1>3, <1>5 DEF Gated, Before
<1> QED  BY <1>1, <1>2, <1>3, <1>4, <1>5, <1>6, <1>7 DEF GateOpens

(* The slot: nobody else holds the pull request, and the count is read now. *)
LEMMA FoldIs ==
  ASSUME RowsOK, JobsOK, LedgersOK, NEW j \in Jobs, Fold(j)
  PROVE  /\ jobs[j] \in Before /\ jobs[j].pc = "gated" /\ ~Busy(jobs[j].key)
         /\ jobs' \in [Jobs -> Before \cup After \cup {Idle}] /\ jobs'[j] \in Before
         /\ jobs'[j].pc = "folded" /\ jobs'[j].key = jobs[j].key /\ jobs'[j].moved = jobs[j].moved
         /\ jobs'[j].limit = jobs[j].limit /\ jobs'[j].laps = jobs[j].laps
         /\ jobs'[j].known => jobs[j].known \/ jobs'[j].used = Used(jobs[j].key)
         /\ \A i \in Jobs \ {j} : jobs'[i] = jobs[i] /\ Same(i)
<1>1. jobs[j] \in Before /\ jobs[j].pc = "gated" /\ ~Busy(jobs[j].key)
  BY JobIs DEF Fold
<1>2. jobs[j].key \in Keys
  BY <1>1 DEF Before
<1>3. Used(jobs[j].key) \in Nat /\ now \in Nat
  BY <1>2, UsedIsANumber DEF RowsOK
<1>4. CASE jobs' = [jobs EXCEPT ![j].pc = "folded", ![j].known = TRUE,
                                ![j].used = Used(jobs[j].key), ![j].at = now]
  <2> DEFINE b == [jobs[j] EXCEPT !.pc = "folded", !.known = TRUE, !.used = Used(jobs[j].key), !.at = now]
  <2>1. /\ b \in Before /\ b.pc = "folded" /\ b.key = jobs[j].key /\ b.moved = jobs[j].moved
        /\ b.limit = jobs[j].limit /\ b.laps = jobs[j].laps /\ b.used = Used(jobs[j].key)
    BY <1>1, <1>3 DEF Before
  <2>2. jobs' = [jobs EXCEPT ![j] = b]
    BY <1>1, <1>4 DEF JobsOK, Before
  <2> HIDE DEF b
  <2> QED  BY <1>1, <2>1, <2>2, OneReplaced
<1>5. CASE jobs' = [jobs EXCEPT ![j].pc = "folded"]
  <2> DEFINE b == [jobs[j] EXCEPT !.pc = "folded"]
  <2>1. /\ b \in Before /\ b.pc = "folded" /\ b.key = jobs[j].key /\ b.moved = jobs[j].moved
        /\ b.limit = jobs[j].limit /\ b.laps = jobs[j].laps /\ b.known = jobs[j].known
    BY <1>1 DEF Before
  <2>2. jobs' = [jobs EXCEPT ![j] = b]
    BY <1>5 DEF JobsOK
  <2> HIDE DEF b
  <2> QED  BY <1>1, <2>1, <2>2, OneReplaced
<1> QED  BY <1>4, <1>5 DEF Fold

(* A job that posts takes the next number. *)
LEMMA PostIs ==
  ASSUME PostsOK, JobsOK, NEW j \in Jobs, Post(j)
  PROVE  /\ jobs[j] \in Before /\ jobs[j].pc = "folded"
         /\ jobs' \in [Jobs -> Before \cup After \cup {Idle}] /\ jobs'[j] \in Before
         /\ jobs'[j].pc = "posted" /\ jobs'[j].key = jobs[j].key /\ jobs'[j].moved = jobs[j].moved
         /\ jobs'[j].limit = jobs[j].limit /\ jobs'[j].laps = jobs[j].laps
         /\ jobs'[j].known = jobs[j].known /\ jobs'[j].used = jobs[j].used
         /\ jobs'[j].post = Cardinality(posts)
         /\ \A i \in Jobs \ {j} : jobs'[i] = jobs[i] /\ Same(i)
<1>1. jobs[j] \in Before /\ jobs[j].pc = "folded"
  BY JobIs DEF Post
<1>2. Cardinality(posts) \in Nat
  BY FS_CardinalityType DEF PostsOK
<1> DEFINE b == [jobs[j] EXCEPT !.pc = "posted", !.post = Cardinality(posts)]
<1>3. /\ b \in Before /\ b.pc = "posted" /\ b.key = jobs[j].key /\ b.moved = jobs[j].moved
      /\ b.limit = jobs[j].limit /\ b.laps = jobs[j].laps
      /\ b.known = jobs[j].known /\ b.used = jobs[j].used /\ b.post = Cardinality(posts)
  BY <1>1, <1>2 DEF Before
<1>4. jobs' = [jobs EXCEPT ![j] = b]
  BY <1>1 DEF Post, JobsOK
<1> HIDE DEF b
<1> QED  BY <1>1, <1>3, <1>4, OneReplaced

(* The ledger is stored, and those that wait learn of one more review; or it *)
(* is not, and nobody will.                                                  *)
SaveMove(j) ==
  \/ /\ jobs'[j].saved /\ jobs[j].known /\ Store(Entry(j), 0)
     /\ \A i \in Jobs \ {j} : jobs[i].pc = "gated" /\ jobs[i].key = jobs[j].key
                                => jobs'[i].laps = jobs[i].laps + 1
  \/ /\ ~jobs'[j].saved /\ ledgers' = ledgers /\ spent' = spent
     /\ uncounted' = [uncounted EXCEPT ![jobs[j].key] = Lost(jobs[j].key, 1)]

LEMMA SaveIs ==
  ASSUME WorkspaceAssumption, JobsOK, NEW j \in Jobs, SaveLedger(j)
  PROVE  /\ jobs[j] \in Before /\ jobs[j].pc = "posted" /\ clearing' = clearing
         /\ jobs' \in [Jobs -> Before \cup After \cup {Idle}] /\ jobs'[j] \in After
         /\ jobs'[j].pc = "reporting" /\ jobs'[j].key = jobs[j].key /\ jobs'[j].moved = jobs[j].moved
         /\ jobs'[j].post = jobs[j].post /\ jobs'[j].stored = 0 /\ ~jobs'[j].refused
         /\ \A i \in Jobs \ {j} : Same(i)
         /\ SaveMove(j)
<1>1. jobs[j] \in Before /\ jobs[j].pc = "posted"
  BY JobIs DEF SaveLedger
<1>2. ASSUME NEW s \in BOOLEAN
      PROVE  LET b == Reports(j, s) IN
             /\ b \in After /\ b.pc = "reporting" /\ b.key = jobs[j].key /\ b.moved = jobs[j].moved
             /\ b.post = jobs[j].post /\ b.stored = 0 /\ ~b.refused /\ b.saved = s
  <2>1. jobs[j].key \in Keys /\ jobs[j].moved \in BOOLEAN /\ jobs[j].post \in Nat
    BY <1>1 DEF Before
  <2>2. 0 \in 0..MaxAttempts /\ 0 \in Nat
    BY DEF WorkspaceAssumption
  <2> QED  BY <2>1, <2>2, Zenon DEF Reports, After
<1>3. CASE jobs[j].known /\ Store(Entry(j), 0) /\ jobs' = Counted(j)
  <2>1. jobs'[j] = Reports(j, TRUE)
    BY <1>3 DEF Counted
  <2>2. ASSUME NEW i \in Jobs \ {j}
        PROVE  /\ jobs'[i] \in Before \cup After \cup {Idle} /\ Same(i)
               /\ jobs[i].pc = "gated" /\ jobs[i].key = jobs[j].key => jobs'[i].laps = jobs[i].laps + 1
    <3>1. jobs'[i] = IF jobs[i].pc = "gated" /\ jobs[i].key = jobs[j].key
                     THEN [jobs[i] EXCEPT !.laps = @ + 1] ELSE jobs[i]
      BY <1>3 DEF Counted
    <3>2. CASE jobs[i].pc = "gated" /\ jobs[i].key = jobs[j].key
      <4>1. jobs[i] \in Before
        BY <3>2, JobIs
      <4>2. jobs[i].laps \in Nat /\ jobs'[i] = [jobs[i] EXCEPT !.laps = jobs[i].laps + 1]
        BY <3>1, <3>2, <4>1 DEF Before
      <4>3. jobs[i].laps + 1 \in Nat /\ jobs[i].laps + 1 >= jobs[i].laps
        BY <4>2
      <4>4. /\ jobs'[i] \in Before /\ jobs'[i].pc = jobs[i].pc /\ jobs'[i].key = jobs[i].key
            /\ jobs'[i].moved = jobs[i].moved /\ jobs'[i].limit = jobs[i].limit
            /\ jobs'[i].known = jobs[i].known /\ jobs'[i].used = jobs[i].used
            /\ jobs'[i].laps = jobs[i].laps + 1
        BY <4>1, <4>2, <4>3 DEF Before
      <4> QED  BY <3>2, <4>3, <4>4 DEF Same
    <3>3. CASE ~(jobs[i].pc = "gated" /\ jobs[i].key = jobs[j].key)
      <4>1. jobs'[i] = jobs[i]
        BY <3>1, <3>3
      <4> QED  BY <3>3, <4>1, AloneIsSame DEF JobsOK
    <3> QED  BY <3>2, <3>3
  <2>3. jobs' = [i \in Jobs |-> jobs'[i]]
    BY <1>3 DEF Counted
  <2>4. \A i \in Jobs : jobs'[i] \in Before \cup After \cup {Idle}
    BY <1>2, <2>1, <2>2
  <2>5. SaveMove(j)
    BY <1>2, <1>3, <2>1, <2>2 DEF SaveMove
  <2>6. jobs' \in [Jobs -> Before \cup After \cup {Idle}]
    BY <2>3, <2>4
  <2> QED  BY <1>1, <1>2, <2>1, <2>2, <2>5, <2>6 DEF SaveLedger
<1>4. CASE /\ ledgers' = ledgers /\ jobs' = [jobs EXCEPT ![j] = Reports(j, FALSE)]
           /\ uncounted' = [uncounted EXCEPT ![jobs[j].key] = Lost(jobs[j].key, 1)]
           /\ UNCHANGED spent
  <2>1. /\ jobs' \in [Jobs -> Before \cup After \cup {Idle}] /\ jobs'[j] = Reports(j, FALSE)
        /\ \A i \in Jobs \ {j} : Same(i)
    BY <1>2, <1>4, OneReplaced
  <2>2. SaveMove(j)
    BY <1>2, <1>4, <2>1 DEF SaveMove
  <2> QED  BY <1>1, <1>2, <2>1, <2>2 DEF SaveLedger
<1> QED  BY <1>3, <1>4 DEF SaveLedger, NotStored

(* A job that goes on: the others stay the same, and the rows and records too. *)
Onward(j) ==
  /\ UNCHANGED <<now, org, repos, peak, reviews, missing>>
  /\ jobs' \in [Jobs -> Before \cup After \cup {Idle}] /\ \A i \in Jobs \ {j} : Same(i)
  /\ \/ /\ posts' = posts /\ jobs[j].pc \in {"idle", "done"} /\ jobs'[j].pc = "gated"
        /\ ~DayIsFull(jobs'[j].key[1])
     \/ /\ posts' = posts /\ jobs[j].pc = "gated" /\ jobs'[j].pc = "folded"
        /\ jobs'[j].key = jobs[j].key /\ jobs'[j].moved = jobs[j].moved
     \/ posts' = posts /\ jobs[j].pc \in {"gated", "folded"} /\ jobs'[j].pc = "idle"
     \/ /\ jobs[j].pc = "folded" /\ jobs'[j].pc = "posted" /\ jobs'[j].key = jobs[j].key
        /\ jobs'[j].moved = jobs[j].moved /\ jobs'[j].post = Cardinality(posts)
        /\ posts' = posts \cup {[org |-> jobs[j].key[1], at |-> now, n |-> Cardinality(posts)]}
     \/ /\ posts' = posts /\ jobs[j].pc = "posted" /\ jobs'[j].pc = "reporting"
        /\ jobs'[j].key = jobs[j].key /\ jobs'[j].moved = jobs[j].moved
        /\ jobs'[j].post = jobs[j].post /\ jobs'[j].stored = 0 /\ ~jobs'[j].refused

LEMMA JobStepIsOnward ==
  ASSUME WorkspaceAssumption, RowsOK, PostsOK, JobsOK, LedgersOK, NEW j \in Jobs, JobStep(j)
  PROVE  Onward(j)
<1>1. ASSUME NEW pr \in PRs, GateOpens(j, pr)
      PROVE  Onward(j)
  <2>1. PICK k \in Keys : /\ ~DayIsFull(k[1]) /\ jobs[j].pc \in {"idle", "done"}
                          /\ Gated(k) \in Before /\ jobs' = [jobs EXCEPT ![j] = Gated(k)]
    BY <1>1, GateIs
  <2>2. /\ jobs' \in [Jobs -> Before \cup After \cup {Idle}] /\ jobs'[j] = Gated(k)
        /\ \A i \in Jobs \ {j} : Same(i)
    BY <2>1, OneReplaced
  <2>3. jobs'[j].pc = "gated" /\ jobs'[j].key = k
    BY <2>2 DEF Gated
  <2> QED  BY <1>1, <2>1, <2>2, <2>3 DEF GateOpens, Onward
<1>2. CASE Fold(j)
  BY <1>2, FoldIs DEF Fold, Onward
<1>3. CASE StandDown(j)
  <2>1. jobs' = [jobs EXCEPT ![j] = Idle]
    BY <1>3 DEF StandDown
  <2>2. /\ jobs' \in [Jobs -> Before \cup After \cup {Idle}] /\ jobs'[j] = Idle
        /\ \A i \in Jobs \ {j} : Same(i)
    BY <2>1, OneReplaced
  <2>3. jobs'[j].pc = "idle"
    BY <2>2 DEF Idle
  <2> QED  BY <1>3, <2>2, <2>3 DEF StandDown, Onward
<1>4. CASE Post(j)
  BY <1>4, PostIs DEF Post, Onward
<1>5. CASE SaveLedger(j)
  BY <1>5, SaveIs DEF SaveLedger, Onward
<1> QED  BY <1>1, <1>2, <1>3, <1>4, <1>5 DEF JobStep

-----------------------------------------------------------------------------
(* Each part of the invariant is kept.                                     *)

(* A job that goes on, and a resolve, leave the rows and the records alone. *)
LEMMA JobStepFrame ==
  ASSUME NEW j \in Jobs, JobStep(j)
  PROVE  UNCHANGED <<now, org, repos, peak, reviews, missing>>
  BY DEF JobStep, GateOpens, Fold, StandDown, Post, SaveLedger

LEMMA ClearStepFrame ==
  ASSUME ClearStep
  PROVE  UNCHANGED <<now, org, repos, reviews, jobs, peak, posts, missing>>
  BY DEF ClearStep, ClearReads, ClearSaves

(* A step keeps the rows of the workspaces well formed, and no peak falls. *)
LEMMA RowsKept ==
  ASSUME WorkspaceAssumption, RowsOK, Steps
  PROVE  RowsOK' /\ \A o \in Orgs : peak[o] <= peak'[o]
<1>1. CASE RowStep
  <2>1. now' \in Nat /\ org' \in [Orgs -> Row] /\ repos' \in Seq([org : Orgs, on : BOOLEAN])
    BY <1>1 DEF RowStep, RowsOK
  <2>2. peak' = Peaked(now', org')
    BY <1>1 DEF RowStep
  <2>3. ASSUME NEW o \in Orgs
        PROVE  /\ peak'[o] \in Nat /\ EffectivePerDay(o)' <= peak'[o]
               /\ peak[o] <= peak'[o]
    <3>1. PerDay(org'[o], now') \in Nat
      BY <2>1, LimitIsANumber
    <3>2. peak'[o] = IF PerDay(org'[o], now') > peak[o] THEN PerDay(org'[o], now') ELSE peak[o]
      BY <2>2 DEF Peaked
    <3>3. peak[o] \in Nat
      BY DEF RowsOK
    <3>4. EffectivePerDay(o)' = PerDay(org'[o], now')
      BY DEF EffectivePerDay
    <3> QED  BY <3>1, <3>2, <3>3, <3>4
  <2>4. peak' \in [Orgs -> Nat]
    BY <2>2, <2>3 DEF Peaked
  <2> QED  BY <2>1, <2>3, <2>4 DEF RowsOK
<1>2. CASE ~RowStep
  <2>1. UNCHANGED <<now, org, peak>> /\ repos' \in Seq([org : Orgs, on : BOOLEAN])
    BY <1>2, JobStepFrame, ClearStepFrame DEF Steps, RepoStep, StoreStep, NoStoreStep, RowsOK
  <2>2. \A o \in Orgs : EffectivePerDay(o)' = EffectivePerDay(o)
    BY <2>1 DEF EffectivePerDay
  <2>3. \A o \in Orgs : peak[o] <= peak[o]
    BY DEF RowsOK
  <2> QED  BY <2>1, <2>2, <2>3 DEF RowsOK
<1> QED  BY <1>1, <1>2

(* A step adds at most one review, of which the window had room. *)
LEMMA ReviewsKept ==
  ASSUME WorkspaceAssumption, RowsOK, ReviewsOK, JobsOK, Steps
  PROVE  ReviewsOK'
<1>1. CASE RowStep
  <2>1. reviews' = reviews /\ now \in Nat /\ now' \in Nat /\ now <= now'
    BY <1>1 DEF RowStep, RowsOK
  <2>2. ASSUME NEW o \in Orgs
        PROVE  ReviewsToday(o)' <= peak'[o]
    <3>1. ReviewsToday(o)' \in Nat /\ ReviewsToday(o) \in Nat /\ ReviewsToday(o)' <= ReviewsToday(o)
      BY <2>1, WindowShrinks, CountIsANumber
    <3>2. peak[o] \in Nat /\ peak'[o] \in Nat /\ peak[o] <= peak'[o] /\ ReviewsToday(o) <= peak[o]
      BY RowsKept DEF RowsOK, ReviewsOK
    <3> QED  BY <3>1, <3>2
  <2> QED  BY <2>1, <2>2 DEF ReviewsOK
<1>2. ASSUME NEW j \in Jobs, StoreStep(j)
      PROVE  ReviewsOK'
  <2>1. jobs[j] \in After
    BY <1>2, StoreStepJobs
  <2>2. PICK o \in Orgs, post \in Nat : o = jobs[j].key[1] /\ post = jobs[j].post
    BY <2>1 DEF After, Keys
  <2>3. /\ ~DayIsFull(o) /\ now' = now /\ peak' = peak
        /\ reviews' = reviews \cup {[org |-> o, at |-> now, n |-> Cardinality(reviews), of |-> post]}
    BY <1>2, <2>2 DEF StoreStep, Stored
  <2>4. /\ IsFiniteSet(reviews')
        /\ reviews' \subseteq [org : Orgs, at : Nat, n : Nat, of : Nat]
        /\ \A r \in reviews' : r.n < Cardinality(reviews')
        /\ ReviewsToday(o)' = ReviewsToday(o) + 1
        /\ \A u \in Orgs : u # o => ReviewsToday(u)' = ReviewsToday(u)
    BY <2>2, <2>3, WindowGrows
  <2>5. ReviewsToday(o) \in Nat /\ EffectivePerDay(o) \in Nat /\ peak[o] \in Nat
          /\ EffectivePerDay(o) <= peak[o]
    BY <2>2, CountIsANumber, EffectiveIsANumber DEF RowsOK
  <2>6. ReviewsToday(o) + 1 <= peak[o]
    BY <2>3, <2>5 DEF DayIsFull
  <2>7. \A u \in Orgs : ReviewsToday(u)' <= peak'[u]
    BY <2>3, <2>4, <2>6 DEF ReviewsOK
  <2> QED  BY <2>4, <2>7 DEF ReviewsOK
<1>3. CASE ~RowStep /\ ~(\E j \in Jobs : StoreStep(j))
  <2>1. UNCHANGED <<now, reviews, peak>>
    BY <1>3, JobStepFrame, ClearStepFrame DEF Steps, RepoStep, NoStoreStep
  <2>2. \A o \in Orgs : ReviewsToday(o)' = ReviewsToday(o)
    BY <2>1 DEF ReviewsToday, InWindow
  <2> QED  BY <2>1, <2>2 DEF ReviewsOK
<1> QED  BY <1>1, <1>2, <1>3

(* A step adds at most one post, numbered after those there are. *)
LEMMA PostsKept ==
  ASSUME WorkspaceAssumption, RowsOK, PostsOK, JobsOK, Steps
  PROVE  PostsOK'
<1>1. now \in Nat /\ now' \in Nat /\ now <= now'
  <2>1. now \in Nat
    BY DEF RowsOK
  <2>2. now' = now \/ RowStep
    BY JobStepFrame, ClearStepFrame DEF Steps, RepoStep, StoreStep, NoStoreStep
  <2> QED  BY <2>1, <2>2 DEF RowStep
<1>2. ASSUME NEW j \in Jobs, Post(j)
      PROVE  PostsOK'
  <2> DEFINE p == [org |-> jobs[j].key[1], at |-> now, n |-> Cardinality(posts)]
  <2>1. jobs[j] \in Before
    BY <1>2, JobIs DEF Post
  <2>2. Cardinality(posts) \in Nat
    BY FS_CardinalityType DEF PostsOK
  <2>3. p \in [org : Orgs, at : Nat, n : Nat] /\ p.at = now /\ p.n = Cardinality(posts)
    BY <1>1, <2>1, <2>2 DEF Before, Keys
  <2>4. p \notin posts
    BY <2>2, <2>3 DEF PostsOK
  <2>5. posts' = posts \cup {p} /\ now' = now
    BY <1>2 DEF Post
  <2> HIDE DEF p
  <2>6. IsFiniteSet(posts') /\ Cardinality(posts') = Cardinality(posts) + 1
    BY <2>4, <2>5, FS_AddElement DEF PostsOK
  <2>7. \A q \in posts' : q.n < Cardinality(posts') /\ q.at <= now'
    BY <1>1, <2>2, <2>3, <2>5, <2>6 DEF PostsOK
  <2>8. \A q \in posts : q.n # p.n
    BY <2>2, <2>3 DEF PostsOK
  <2>9. \A q, r \in posts' : q.n = r.n => q = r
    BY <2>5, <2>8 DEF PostsOK
  <2> QED  BY <2>3, <2>5, <2>6, <2>7, <2>9 DEF PostsOK
<1>3. CASE ~(\E j \in Jobs : Post(j))
  <2>1. posts' = posts
    BY <1>3, ClearStepFrame
      DEF Steps, JobStep, RowStep, RepoStep, StoreStep, NoStoreStep, GateOpens, Fold, StandDown, SaveLedger
  <2>2. \A p \in posts : p.at <= now'
    BY <1>1 DEF PostsOK
  <2> QED  BY <2>1, <2>2 DEF PostsOK
<1> QED  BY <1>2, <1>3

(* What each step does to the jobs: all but one stay the same, and that one *)
(* goes on as its action says.                                              *)
LEMMA JobsKept ==
  ASSUME WorkspaceAssumption, RowsOK, PostsOK, JobsOK, LedgersOK, Steps
  PROVE  JobsOK'
<1> DEFINE Fine(i) ==
      /\ jobs[i].pc \in {"posted", "reporting"} => \E p \in posts : p.n = jobs[i].post /\ p.org = jobs[i].key[1]
      /\ jobs[i].pc = "reporting" => ~jobs[i].refused
<1>0. \A i \in Jobs : Fine(i)
  BY DEF JobsOK
<1>1. posts \subseteq posts'
  BY JobStepIsOnward, ClearStepFrame DEF Steps, RowStep, RepoStep, StoreStep, NoStoreStep, Onward
<1>2. ASSUME NEW i \in Jobs, Same(i)
      PROVE  Fine(i)'
  <2>1. CASE jobs[i].pc \in {"posted", "reporting"}
    <3>1. \E p \in posts' : p.n = jobs[i].post /\ p.org = jobs[i].key[1]
      BY <1>0, <1>1, <2>1
    <3> QED  BY <1>0, <1>2, <2>1, <3>1 DEF Same
  <2>2. CASE jobs[i].pc \notin {"posted", "reporting"}
    BY <1>2, <2>2 DEF Same
  <2> QED  BY <2>1, <2>2
<1>3. ASSUME jobs' \in [Jobs -> Before \cup After \cup {Idle}], \A i \in Jobs : Fine(i)'
      PROVE  JobsOK'
  BY <1>3 DEF JobsOK
<1> HIDE DEF Fine
<1>4. CASE RowStep
  BY <1>2, <1>3, <1>4, RowStepJobs
<1>5. CASE RepoStep \/ ClearStep
  <2>1. jobs' = jobs
    BY <1>5, ClearStepFrame DEF RepoStep
  <2>2. \A i \in Jobs : Same(i)
    BY <2>1, AloneIsSame
  <2> QED  BY <1>2, <1>3, <2>1, <2>2 DEF JobsOK
<1>6. ASSUME NEW j \in Jobs, JobStep(j)
      PROVE  JobsOK'
  <2>1. Onward(j)
    BY <1>6, JobStepIsOnward
  <2>2. Fine(j)'
    <3>1. CASE jobs'[j].pc \notin {"posted", "reporting"}
      BY <3>1 DEF Fine
    <3>2. CASE jobs'[j].pc = "posted"
      <4>1. /\ jobs'[j].post = Cardinality(posts) /\ jobs'[j].key = jobs[j].key
            /\ posts' = posts \cup {[org |-> jobs[j].key[1], at |-> now, n |-> Cardinality(posts)]}
        BY <2>1, <3>2 DEF Onward
      <4> DEFINE p == [org |-> jobs[j].key[1], at |-> now, n |-> Cardinality(posts)]
      <4>2. p \in posts' /\ p.n = jobs'[j].post /\ p.org = jobs'[j].key[1]
        BY <4>1
      <4> QED  BY <3>2, <4>2 DEF Fine
    <3>3. CASE jobs'[j].pc = "reporting"
      <4>1. /\ jobs[j].pc = "posted" /\ jobs'[j].key = jobs[j].key /\ jobs'[j].post = jobs[j].post
            /\ ~jobs'[j].refused
        BY <2>1, <3>3 DEF Onward
      <4>2. \E p \in posts : p.n = jobs[j].post /\ p.org = jobs[j].key[1]
        BY <1>0, <4>1 DEF Fine
      <4>3. \E p \in posts' : p.n = jobs'[j].post /\ p.org = jobs'[j].key[1]
        BY <1>1, <4>1, <4>2
      <4> QED  BY <3>3, <4>1, <4>3 DEF Fine
    <3> QED  BY <3>1, <3>2, <3>3
  <2>3. \A i \in Jobs : Fine(i)'
    BY <1>2, <2>1, <2>2 DEF Onward
  <2> QED  BY <1>3, <2>1, <2>3 DEF Onward
<1>7. ASSUME NEW j \in Jobs, StoreStep(j) \/ NoStoreStep(j)
      PROVE  JobsOK'
  <2>1. /\ jobs' \in [Jobs -> Before \cup After \cup {Idle}]
        /\ jobs[j].pc = "reporting"
        /\ jobs'[j].pc \in {"reporting", "done"} /\ jobs'[j].key = jobs[j].key
        /\ jobs'[j].post = jobs[j].post
        /\ \A i \in Jobs \ {j} : Same(i)
    BY <1>7, StoreStepJobs, NoStoreStepJobs
  <2>2. ~jobs[j].refused /\ \E p \in posts : p.n = jobs[j].post /\ p.org = jobs[j].key[1]
    BY <1>0, <2>1 DEF Fine
  <2>3. jobs'[j].pc = "reporting" => ~jobs'[j].refused
    BY <1>7, <2>2, StoreStepJobs, NoStoreStepJobs
  <2>4. \E p \in posts' : p.n = jobs'[j].post /\ p.org = jobs'[j].key[1]
    BY <1>1, <2>1, <2>2
  <2>5. \A i \in Jobs : Fine(i)'
    BY <1>2, <2>1, <2>3, <2>4 DEF Fine
  <2> QED  BY <1>3, <2>1, <2>5
<1> QED  BY <1>4, <1>5, <1>6, <1>7 DEF Steps

(* Nothing escapes the accounts: a post that is due stays due until its     *)
(* record is stored or given up.                                           *)
LEMMA AccountsKept ==
  ASSUME WorkspaceAssumption, RowsOK, ReviewsOK, PostsOK, JobsOK, LedgersOK, Accounted, Steps
  PROVE  Accounted'
<1> DEFINE Due(i) == jobs[i].pc = "posted" \/ (jobs[i].pc = "reporting" /\ jobs[i].stored = 0)
           Known(p) == \E r \in reviews : r.of = p.n /\ r.org = p.org /\ r.at >= p.at
           Still(p) == \E i \in Jobs : Due(i)' /\ jobs'[i].post = p.n
           Recalled(p) == \E r \in reviews' : r.of = p.n /\ r.org = p.org /\ r.at >= p.at
<1>1. SUFFICES ASSUME NEW p \in posts'
               PROVE  p.n \in missing' \/ Still(p) \/ Recalled(p)
  BY DEF Accounted, UnderWay
<1>2. missing \subseteq missing' /\ reviews \subseteq reviews'
  BY NoStoreStepJobs, JobStepFrame, ClearStepFrame
     DEF Steps, RowStep, RepoStep, StoreStep, NoStoreStep, Stored, Missed
<1>3. ASSUME p \in posts
      PROVE  p.n \in missing \/ (\E i \in Jobs : Due(i) /\ jobs[i].post = p.n) \/ Known(p)
  BY <1>3 DEF Accounted, UnderWay
<1>4. ASSUME NEW i \in Jobs, Same(i), Due(i), jobs[i].post = p.n
      PROVE  Due(i)' /\ jobs'[i].post = p.n
  BY <1>4 DEF Same
<1>5. CASE RowStep
  <2>1. p \in posts /\ \A i \in Jobs : Same(i)
    BY <1>5, RowStepJobs DEF RowStep
  <2> QED  BY <1>2, <1>3, <1>4, <2>1
<1>6. CASE RepoStep \/ ClearStep
  <2>1. p \in posts /\ jobs' = jobs
    BY <1>6, ClearStepFrame DEF RepoStep
  <2> QED  BY <1>2, <1>3, <2>1
<1>7. ASSUME NEW j \in Jobs, JobStep(j)
      PROVE  p.n \in missing' \/ Still(p) \/ Recalled(p)
  <2>1. Onward(j)
    BY <1>7, JobStepIsOnward
  <2>2. \A i \in Jobs \ {j} : Same(i)
    BY <2>1 DEF Onward
  <2>3. CASE p \in posts /\ ~Due(j)
    BY <1>2, <1>3, <1>4, <2>2, <2>3
  <2>4. CASE p \in posts /\ Due(j)
    <3>1. jobs'[j].pc = "reporting" /\ jobs'[j].stored = 0 /\ jobs'[j].post = jobs[j].post
      BY <2>1, <2>4 DEF Onward
    <3>2. Due(j)'
      BY <3>1
    <3> QED  BY <1>2, <1>3, <1>4, <2>2, <2>4, <3>1, <3>2
  <2>5. CASE p \notin posts
    <3>1. /\ posts' = posts \cup {[org |-> jobs[j].key[1], at |-> now, n |-> Cardinality(posts)]}
          /\ jobs'[j].pc = "posted" /\ jobs'[j].post = Cardinality(posts)
      BY <2>1, <2>5 DEF Onward
    <3>2. p.n = Cardinality(posts)
      BY <2>5, <3>1
    <3> QED  BY <3>1, <3>2
  <2> QED  BY <2>3, <2>4, <2>5
<1>10. ASSUME NEW j \in Jobs, StoreStep(j)
      PROVE  p.n \in missing' \/ Still(p) \/ Recalled(p)
  <2>1. p \in posts /\ \A i \in Jobs \ {j} : Same(i)
    BY <1>10, StoreStepJobs DEF StoreStep
  <2>2. CASE Due(j) /\ jobs[j].post = p.n
    <3>1. PICK q \in posts : q.n = jobs[j].post /\ q.org = jobs[j].key[1]
      BY <2>2 DEF JobsOK
    <3>2. q = p
      BY <2>1, <2>2, <3>1 DEF PostsOK
    <3>3. p.at <= now /\ p.at \in Nat /\ now \in Nat
      BY <2>1 DEF PostsOK, RowsOK
    <3>4. PICK r \in reviews' : r = [org |-> jobs[j].key[1], at |-> now,
                                    n |-> Cardinality(reviews), of |-> jobs[j].post]
      BY <1>10 DEF StoreStep, Stored
    <3>5. r.of = p.n /\ r.org = p.org /\ r.at = now
      BY <2>2, <3>1, <3>2, <3>4
    <3> QED  BY <3>3, <3>5
  <2> QED  BY <1>2, <1>3, <1>4, <2>1, <2>2
<1>11. ASSUME NEW j \in Jobs, NoStoreStep(j)
      PROVE  p.n \in missing' \/ Still(p) \/ Recalled(p)
  <2>1. p \in posts
    BY <1>11 DEF NoStoreStep
  <2>2. /\ jobs[j].pc = "reporting"
        /\ jobs'[j].pc \in {"reporting", "done"} /\ jobs'[j].post = jobs[j].post
        /\ jobs'[j].stored = jobs[j].stored
        /\ missing' = IF jobs'[j].pc = "done" THEN Missed(j) ELSE missing
        /\ \A i \in Jobs \ {j} : Same(i)
    BY <1>11, NoStoreStepJobs
  <2>3. CASE Due(j) /\ jobs[j].post = p.n
    BY <2>2, <2>3 DEF Missed
  <2> QED  BY <1>2, <1>3, <1>4, <2>1, <2>2, <2>3
<1> QED  BY <1>5, <1>6, <1>7, <1>10, <1>11 DEF Steps

(* A review refused with nothing stored was outrun: what room the gate saw *)
(* only a lower limit or another record takes.                             *)
LEMMA RoomKept ==
  ASSUME WorkspaceAssumption, RowsOK, ReviewsOK, PostsOK, JobsOK, LedgersOK, RoomLeft, DroppedOnlyIfOutrun, Steps
  PROVE  RoomLeft' /\ DroppedOnlyIfOutrun'
<1> DEFINE Waits(i) == Working(i) /\ ~jobs[i].moved /\ (jobs[i].pc = "reporting" => jobs[i].stored = 0)
           Has(i) == Waits(i) => ~DayIsFull(jobs[i].key[1])
           Drop(i) == jobs[i].pc = "done" /\ jobs[i].refused /\ jobs[i].stored = 0 => jobs[i].moved
<1>1. SUFFICES ASSUME NEW i \in Jobs
               PROVE  Has(i)' /\ Drop(i)'
  BY DEF RoomLeft, DroppedOnlyIfOutrun
<1>2. Has(i) /\ Drop(i)
  BY DEF RoomLeft, DroppedOnlyIfOutrun
<1>3. Working(i) => jobs[i].key[1] \in Orgs
  BY JobIs DEF Working, Before, After, Keys
<1>4. ASSUME Same(i) PROVE Drop(i)' /\ (Waits(i)' => Waits(i)) /\ Working(i)' = Working(i)
  <2>1. Drop(i)'
    BY <1>2, <1>4 DEF Same
  <2>2. Working(i)' = Working(i)
    BY <1>4 DEF Same, Working
  <2>3. Waits(i)' => Waits(i)
    BY <1>4 DEF Same, Working
  <2> QED  BY <2>1, <2>2, <2>3
<1>5. CASE RowStep
  <2>1. Same(i)
    BY <1>5, RowStepJobs
  <2>2. SUFFICES ASSUME Waits(i)'
                 PROVE  ~DayIsFull(jobs[i].key[1])'
    BY <1>4, <2>1
  <2>3. Waits(i) /\ jobs'[i].key = jobs[i].key
    BY <1>4, <2>1, <2>2 DEF Same
  <2>4. PICK o \in Orgs : o = jobs[i].key[1]
    BY <1>3, <2>3
  <2>5. ~DayIsFull(o)
    BY <1>2, <2>3, <2>4
  <2>6. ~(EffectivePerDay(o)' < EffectivePerDay(o))
    BY <1>5, <2>2, <2>3, <2>4, RowStepJobs
  <2>7. EffectivePerDay(o) \in Nat /\ EffectivePerDay(o)' \in Nat
    <3>1. org'[o] \in Row /\ now' \in Nat
      BY <1>5 DEF RowStep
    <3> QED  BY <3>1, EffectiveIsANumber, LimitIsANumber DEF EffectivePerDay
  <2>8. ReviewsToday(o) \in Nat /\ ReviewsToday(o)' \in Nat /\ ReviewsToday(o)' <= ReviewsToday(o)
    BY <1>5, WindowShrinks, CountIsANumber DEF RowStep, RowsOK
  <2>9. ~DayIsFull(o)'
    BY <2>5, <2>6, <2>7, <2>8 DEF DayIsFull
  <2>10. DayIsFull(jobs[i].key[1])' = DayIsFull(o)'
    BY <2>3, <2>4 DEF DayIsFull, ReviewsToday, EffectivePerDay, InWindow
  <2> QED  BY <2>9, <2>10
<1>7. ASSUME Same(i), reviews' = reviews, now' = now, org' = org
      PROVE  Has(i)' /\ Drop(i)'
  <2>1. jobs'[i].key = jobs[i].key
    BY <1>7 DEF Same
  <2>2. DayIsFull(jobs[i].key[1])' = DayIsFull(jobs[i].key[1])
    BY <1>7, <2>1 DEF DayIsFull, ReviewsToday, EffectivePerDay, InWindow
  <2>3. Drop(i)' /\ (Waits(i)' => Waits(i))
    BY <1>4, <1>7
  <2> HIDE DEF Waits, Drop
  <2> QED  BY <1>2, <2>2, <2>3, Zenon
<1>8. CASE RepoStep \/ ClearStep
  <2>1. jobs' = jobs /\ reviews' = reviews /\ now' = now /\ org' = org
    BY <1>8, ClearStepFrame DEF RepoStep
  <2>2. Same(i)
    BY <2>1, AloneIsSame
  <2> QED  BY <1>7, <2>1, <2>2
<1>9. ASSUME NEW j \in Jobs, JobStep(j)
      PROVE  Has(i)' /\ Drop(i)'
  <2>0. Onward(j) /\ reviews' = reviews /\ now' = now /\ org' = org
    BY <1>9, JobStepIsOnward DEF Onward
  <2>1. CASE i # j
    <3>1. Same(i)
      BY <2>0, <2>1 DEF Onward
    <3> QED  BY <1>7, <2>0, <3>1
  <2>2. CASE i = j /\ jobs'[j].pc = "gated"
    <3>1. ~DayIsFull(jobs'[i].key[1])
      BY <2>0, <2>2 DEF Onward
    <3>2. DayIsFull(jobs[i].key[1])' = DayIsFull(jobs'[i].key[1])
      BY <2>0 DEF DayIsFull, ReviewsToday, EffectivePerDay, InWindow
    <3> QED  BY <2>2, <3>1, <3>2
  <2>3. CASE i = j /\ jobs'[j].pc = "idle"
    BY <2>3 DEF Working
  <2>4. CASE i = j /\ jobs'[j].pc \in {"folded", "posted", "reporting"}
    <3>1. /\ jobs[i].pc \in {"gated", "folded", "posted"} /\ jobs'[i].key = jobs[i].key
          /\ jobs'[i].moved = jobs[i].moved
      BY <2>0, <2>4 DEF Onward
    <3>2. DayIsFull(jobs[i].key[1])' = DayIsFull(jobs[i].key[1])
      BY <2>0, <3>1 DEF DayIsFull, ReviewsToday, EffectivePerDay, InWindow
    <3>3. Drop(i)'
      BY <2>4
    <3>4. Waits(i)' => Waits(i)
      BY <3>1 DEF Working
    <3> HIDE DEF Waits, Drop
    <3> QED  BY <1>2, <3>2, <3>3, <3>4, Zenon
  <2>5. jobs'[j].pc \in {"gated", "idle", "folded", "posted", "reporting"}
    BY <2>0 DEF Onward
  <2> QED  BY <2>1, <2>2, <2>3, <2>4, <2>5
<1>10. ASSUME NEW j \in Jobs, StoreStep(j)
      PROVE  Has(i)' /\ Drop(i)'
  <2>1. CASE i = j
    <3>1. jobs'[j].stored > 0 /\ jobs'[j].pc \in {"reporting", "done"}
      BY <1>10, StoreStepJobs
    <3>2. ~(jobs'[j].stored = 0)
      BY <3>1
    <3> QED  BY <2>1, <3>1, <3>2 DEF Working
  <2>2. CASE i # j
    <3>1. Same(i)
      BY <1>10, <2>2, StoreStepJobs
    <3>2. CASE Working(i) /\ jobs[i].key[1] = jobs[j].key[1]
      <4>1. jobs'[i].moved
        BY <1>10, <2>2, <3>2, StoreStepJobs
      <4> QED  BY <1>4, <3>1, <4>1
    <3>3. CASE ~Working(i)
      BY <1>4, <3>1, <3>3
    <3>4. CASE Working(i) /\ jobs[i].key[1] # jobs[j].key[1]
      <4>1. PICK o \in Orgs : o = jobs[i].key[1]
        BY <1>3, <3>4
      <4>2. PICK u : u = jobs[j].key[1]
        OBVIOUS
      <4>3. now' = now /\ org' = org
              /\ reviews' = reviews \cup {[org |-> u, at |-> now, n |-> Cardinality(reviews), of |-> jobs[j].post]}
        BY <1>10, <4>2 DEF StoreStep, Stored
      <4>4. o # u
        BY <3>4, <4>1, <4>2
      <4>5. InWindow(reviews, o)' = InWindow(reviews, o)
        BY <4>3, <4>4 DEF InWindow
      <4>6. DayIsFull(o)' = DayIsFull(o)
        BY <4>3, <4>5 DEF DayIsFull, ReviewsToday, EffectivePerDay
      <4>7. jobs'[i].key[1] = o
        BY <3>1, <4>1 DEF Same
      <4>8. DayIsFull(jobs[i].key[1])' = DayIsFull(o)'
        BY <4>7 DEF DayIsFull, ReviewsToday, EffectivePerDay, InWindow
      <4>9. Waits(i)' => Waits(i)
        BY <1>4, <3>1
      <4>10. Has(i)'
        <5> HIDE DEF Waits
        <5> QED  BY <1>2, <4>1, <4>6, <4>8, <4>9, Zenon
      <4> QED  BY <1>4, <3>1, <4>10
    <3> QED  BY <3>2, <3>3, <3>4
  <2> QED  BY <2>1, <2>2
<1>11. ASSUME NEW j \in Jobs, NoStoreStep(j)
      PROVE  Has(i)' /\ Drop(i)'
  <2>0. reviews' = reviews /\ now' = now /\ org' = org
    BY <1>11 DEF NoStoreStep
  <2>1. CASE i # j
    <3>1. Same(i)
      BY <1>11, <2>1, NoStoreStepJobs
    <3> QED  BY <1>7, <2>0, <3>1
  <2>2. CASE i = j
    <3>1. /\ jobs[i].pc = "reporting"
          /\ jobs'[i].pc \in {"reporting", "done"} /\ jobs'[i].key = jobs[i].key
          /\ jobs'[i].stored = jobs[i].stored /\ jobs'[i].moved = jobs[i].moved
          /\ (jobs'[i].refused => jobs'[i].pc = "done" /\ DayIsFull(jobs[i].key[1]))
      BY <1>11, <2>2, NoStoreStepJobs
    <3>2. Working(i)
      BY <3>1 DEF Working
    <3>3. DayIsFull(jobs[i].key[1])' = DayIsFull(jobs[i].key[1])
      BY <2>0, <3>1 DEF DayIsFull, ReviewsToday, EffectivePerDay, InWindow
    <3>4. Has(i)'
      <4>1. Waits(i)' => Waits(i)
        BY <3>1 DEF Working
      <4> HIDE DEF Waits
      <4> QED  BY <1>2, <3>3, <4>1, Zenon
    <3>5. Drop(i)'
      BY <1>2, <3>1, <3>2, Zenon
    <3> QED  BY <3>4, <3>5
  <2> QED  BY <2>1, <2>2
<1> QED  BY <1>5, <1>8, <1>9, <1>10, <1>11 DEF Steps

-----------------------------------------------------------------------------
(* The ledgers.                                                            *)

(* What saving l leaves: l, if it is there, and ledgers that were; if any is *)
(* gone, as many as may be, none of them updated before it.                  *)
Kept(new, l) ==
  /\ new \in Seq(Ledger) /\ Len(new) <= MaxLedgers
  /\ \A a, b \in 1..Len(new) : new[a].key = new[b].key => a = b
  /\ \A a \in 1..Len(new) : IF new[a].key = l.key THEN new[a] = l
                            ELSE \E b \in 1..Len(ledgers) : new[a] = ledgers[b]
  /\ \A e \in Entries \cup {l} : ~HasLedger(e.key, new) =>
       Len(new) = MaxLedgers /\ \A a \in 1..Len(new) : e.at <= new[a].at

(* A list of ledgers holds ledgers. *)
LEMMA EntryOf ==
  ASSUME NEW s \in Seq(Ledger)
  PROVE  /\ Len(s) \in Nat
         /\ \A i \in 1..Len(s) : s[i] \in Ledger /\ s[i].key \in Keys /\ s[i].used \in Nat /\ s[i].at \in Nat
<1>1. Len(s) \in Nat /\ \A i \in 1..Len(s) : s[i] \in Ledger
  BY LenProperties, ElementOfSeq
<1>2. \A l \in Ledger : l.key \in Keys /\ l.used \in Nat /\ l.at \in Nat
  BY DEF Ledger
<1> QED  BY <1>1, <1>2

(* Some entry of a list was updated before the others, the first of them. *)
LEMMA OldestIsThere ==
  ASSUME NEW s \in Seq(Ledger), Len(s) > 0
  PROVE  \E i \in 1..Len(s) : Oldest(s, i)
<1>1. Len(s) \in Nat /\ \A i \in 1..Len(s) : s[i].at \in Nat
  BY EntryOf
<1>2. ASSUME NEW least, least \subseteq Nat, least # {}
      PROVE  \E x \in least : \A y \in least : x <= y
  <2>1. PICK x \in least : \A y \in least : ~(<<y, x>> \in OpToRel(<, Nat))
    BY <1>2, NatLessThanWellFounded, WFMin
  <2>2. \A y \in least : ~(y < x)
    BY <1>2, <2>1 DEF OpToRel
  <2>3. \A y \in least : x <= y
    BY <1>2, <2>2
  <2> QED  BY <2>3
<1> DEFINE Times == {s[i].at : i \in 1..Len(s)}
<1>3. PICK t \in Times : \A u \in Times : t <= u
  <2>1. Times \subseteq Nat
    BY <1>1
  <2>2. 1 \in 1..Len(s)
    BY <1>1
  <2>3. s[1].at \in Times
    BY <2>2
  <2> QED  BY <1>2, <2>1, <2>3
<1> DEFINE First == {i \in 1..Len(s) : s[i].at = t}
<1>4. PICK i \in First : \A j \in First : i <= j
  <2>1. First \subseteq Nat
    OBVIOUS
  <2>2. First # {}
    OBVIOUS
  <2> HIDE DEF First
  <2> QED  BY <1>2, <2>1, <2>2
<1>5. ASSUME NEW j \in 1..Len(s)
      PROVE  s[i].at < s[j].at \/ (s[i].at = s[j].at /\ i <= j)
  <2>1. s[i].at = t /\ i \in 1..Len(s) /\ s[j].at \in Nat /\ s[i].at \in Nat
    BY <1>1
  <2>2. t <= s[j].at
    BY <1>3
  <2>3. s[j].at = t => i <= j
    BY <1>4
  <2> QED  BY <2>1, <2>2, <2>3
<1>6. i \in 1..Len(s)
  OBVIOUS
<1> QED  BY <1>5, <1>6 DEF Oldest

(* The list with l in it, in its place or the last. *)
Put(s, l) ==
  /\ s \in Seq(Ledger) /\ Len(s) \in Nat /\ Len(s) \in {Len(ledgers), Len(ledgers) + 1}
  /\ \A a, b \in 1..Len(s) : s[a].key = s[b].key => a = b
  /\ \A a \in 1..Len(s) : IF s[a].key = l.key THEN s[a] = l ELSE \E b \in 1..Len(ledgers) : s[a] = ledgers[b]
  /\ \E a \in 1..Len(s) : s[a] = l
  /\ \A b \in 1..Len(ledgers) : \E a \in 1..Len(s) : s[a].key = ledgers[b].key
  /\ Len(s) = Len(ledgers) + 1 => \A b \in 1..Len(ledgers) : s[b] = ledgers[b]

LEMMA SavedIs ==
  ASSUME LedgersOK, NEW l \in Ledger
  PROVE  Put(Saved(l), l)
<1> DEFINE s == Saved(l)  n == Len(ledgers)
<1>1. /\ ledgers \in Seq(Ledger) /\ n \in Nat /\ n <= MaxLedgers
      /\ \A a \in 1..n : ledgers[a] \in Ledger
      /\ \A i, j \in 1..n : ledgers[i].key = ledgers[j].key => i = j
  BY LenProperties, ElementOfSeq DEF LedgersOK
<1>2. CASE LedgerOf(l.key) = {}
  <2>1. s = Append(ledgers, l)
    BY <1>2 DEF Saved
  <2>2. /\ s \in Seq(Ledger) /\ Len(s) = n + 1
        /\ \A a \in 1..n : s[a] = ledgers[a]
        /\ s[n + 1] = l
    BY <1>1, <2>1, AppendProperties
  <2>3. \A a \in 1..n : ledgers[a].key # l.key
    BY <1>2 DEF LedgerOf
  <2> HIDE DEF s, n
  <2>4. n + 1 \in 1..Len(s) /\ Len(s) \in Nat /\ \A b \in 1..n : b \in 1..Len(s)
    BY <1>1, <2>2
  <2>5. \A a \in 1..Len(s) : a \in 1..n \/ a = n + 1
    BY <1>1, <2>2
  <2>6. \A a, b \in 1..Len(s) : s[a].key = s[b].key => a = b
    BY <1>1, <2>2, <2>3, <2>5
  <2>7. \A a \in 1..Len(s) : IF s[a].key = l.key THEN s[a] = l ELSE \E b \in 1..n : s[a] = ledgers[b]
    BY <2>2, <2>3, <2>5
  <2>8. \A b \in 1..n : \E a \in 1..Len(s) : s[a].key = ledgers[b].key
    BY <2>2, <2>4
  <2> QED  BY <2>2, <2>4, <2>6, <2>7, <2>8 DEF s, n, Put
<1>3. CASE LedgerOf(l.key) # {}
  <2>1. s = [i \in 1..n |-> IF i \in LedgerOf(l.key) THEN l ELSE ledgers[i]]
    BY <1>3 DEF Saved
  <2>2. s \in Seq(Ledger) /\ Len(s) = n
    BY <1>1, <2>1, SeqDef
  <2>3. \A a \in 1..n : s[a] = IF ledgers[a].key = l.key THEN l ELSE ledgers[a]
    BY <2>1 DEF LedgerOf
  <2> HIDE DEF s, n
  <2>4. \A a \in 1..n : s[a].key = ledgers[a].key
    BY <2>3
  <2>5. \A a, b \in 1..Len(s) : s[a].key = s[b].key => a = b
    BY <1>1, <2>2, <2>4
  <2>6. \A a \in 1..Len(s) : IF s[a].key = l.key THEN s[a] = l ELSE \E b \in 1..n : s[a] = ledgers[b]
    BY <2>2, <2>3, <2>4
  <2>7. \E a \in 1..Len(s) : s[a] = l
    BY <1>3, <2>2, <2>3 DEF LedgerOf, n
  <2>8. Len(s) # n + 1
    BY <1>1, <2>2
  <2> QED  BY <1>1, <2>2, <2>4, <2>5, <2>6, <2>7, <2>8 DEF s, n, Put
<1> QED  BY <1>2, <1>3

(* What a save leaves of the list. *)
LEMMA TrimmedIs ==
  ASSUME WorkspaceAssumption, LedgersOK, NEW l \in Ledger
  PROVE  Kept(Trimmed(Saved(l)), l)
<1> DEFINE n == Len(ledgers)
<1>1. PICK s : s = Saved(l)
  OBVIOUS
<1>2. /\ s \in Seq(Ledger) /\ Len(s) \in Nat /\ Len(s) \in {n, n + 1}
      /\ \A a, b \in 1..Len(s) : s[a].key = s[b].key => a = b
      /\ \A a \in 1..Len(s) : IF s[a].key = l.key THEN s[a] = l ELSE \E b \in 1..n : s[a] = ledgers[b]
      /\ \E a \in 1..Len(s) : s[a] = l
      /\ \A b \in 1..n : \E a \in 1..Len(s) : s[a].key = ledgers[b].key
      /\ Len(s) = n + 1 => \A b \in 1..n : s[b] = ledgers[b]
  <2>1. Put(s, l)
    BY <1>1, SavedIs
  <2> QED  BY <2>1 DEF Put
<1>3. n \in Nat /\ n <= MaxLedgers /\ MaxLedgers \in Nat /\ MaxLedgers >= 1
  BY LenProperties DEF LedgersOK, WorkspaceAssumption
<1>4. CASE ~(Len(s) > MaxLedgers)
  <2>1. Trimmed(s) = s /\ Len(s) <= MaxLedgers
    BY <1>2, <1>3, <1>4 DEF Trimmed
  <2>2. \A e \in Entries \cup {l} : HasLedger(e.key, s)
    <3>1. HasLedger(l.key, s)
      BY <1>2 DEF HasLedger
    <3>2. ASSUME NEW b \in 1..n PROVE HasLedger(ledgers[b].key, s)
      BY <1>2, <3>2 DEF HasLedger
    <3> QED  BY <3>1, <3>2 DEF Entries
  <2> QED  BY <1>1, <1>2, <2>1, <2>2 DEF Kept
<1>5. CASE Len(s) > MaxLedgers
  <2>1. Len(s) = n + 1 /\ n = MaxLedgers /\ Len(s) > 0
    BY <1>2, <1>3, <1>5
  <2>2. PICK i \in 1..Len(s) : Oldest(s, i) /\ Trimmed(s) = RemoveAt(s, i)
    BY <1>2, <1>5, <2>1, OldestIsThere DEF Trimmed
  <2>3. PICK new : new = RemoveAt(s, i)
    OBVIOUS
  <2> DEFINE g == [a \in 1..n |-> IF a < i THEN a ELSE a + 1]
  <2>4. new \in Seq(Ledger) /\ Len(new) = n /\ \A a \in 1..n : new[a] = s[g[a]]
    <3>1. Len(s) - 1 = n
      BY <1>3, <2>1
    <3>2. s \in Seq(Ledger)
      BY <1>2
    <3>3. /\ new \in Seq(Ledger) /\ Len(new) = Len(s) - 1
          /\ \A a \in 1..(Len(s) - 1) : new[a] = s[IF a < i THEN a ELSE a + 1]
      BY <2>3, <3>2, RemoveAtIs
    <3> QED  BY <3>1, <3>3
  <2>5. \A a \in 1..n : g[a] \in 1..Len(s) /\ g[a] = IF a < i THEN a ELSE a + 1
    BY <1>3, <2>1
  <2> HIDE DEF g
  <2>6. ASSUME NEW a \in 1..n, NEW b \in 1..n, new[a].key = new[b].key
        PROVE  a = b
    <3>0. g[a] \in 1..Len(s) /\ g[b] \in 1..Len(s) /\ s[g[a]].key = s[g[b]].key
      BY <2>4, <2>5, <2>6
    <3>1. g[a] = g[b]
      BY <1>2, <3>0
    <3> QED  BY <2>5, <3>1
  <2>7. \A a \in 1..n : IF new[a].key = l.key THEN new[a] = l ELSE \E b \in 1..n : new[a] = ledgers[b]
    <3>1. \A c \in 1..Len(s) : IF s[c].key = l.key THEN s[c] = l ELSE \E b \in 1..n : s[c] = ledgers[b]
      BY <1>2
    <3>2. SUFFICES ASSUME NEW a \in 1..n
                   PROVE  IF new[a].key = l.key THEN new[a] = l ELSE \E b \in 1..n : new[a] = ledgers[b]
      OBVIOUS
    <3>3. PICK c \in 1..Len(s) : new[a] = s[c]
      BY <2>4, <2>5
    <3>4. IF s[c].key = l.key THEN s[c] = l ELSE \E b \in 1..n : s[c] = ledgers[b]
      BY <3>1
    <3> HIDE DEF n
    <3> QED  BY <3>3, <3>4
  <2>8. ASSUME NEW c \in 1..Len(s), c # i
        PROVE  \E a \in 1..n : new[a] = s[c]
    <3>1. CASE c < i
      <4>1. c \in 1..n
        BY <1>3, <2>1, <3>1
      <4> QED  BY <2>4, <2>5, <3>1, <4>1
    <3>2. CASE c > i
      <4>1. c - 1 \in 1..n /\ ~(c - 1 < i) /\ (c - 1) + 1 = c
        BY <1>3, <2>1, <3>2
      <4> QED  BY <2>4, <2>5, <4>1
    <3> QED  BY <2>8, <3>1, <3>2
  <2>9. ASSUME NEW e \in Entries \cup {l}, ~HasLedger(e.key, new)
        PROVE  \A a \in 1..n : e.at <= new[a].at
    <3>1. PICK c \in 1..Len(s) : s[c] = e
      <4>1. CASE e = l
        BY <1>2, <4>1
      <4>2. CASE e \in Entries
        <5>1. PICK b \in 1..n : e = ledgers[b]
          BY <4>2 DEF Entries
        <5>2. b \in 1..Len(s) /\ s[b] = e
          BY <1>2, <1>3, <2>1, <5>1
        <5> QED  BY <5>2
      <4> QED  BY <4>1, <4>2
    <3>2. c = i
      <4>1. \A a \in 1..n : new[a].key # e.key
        BY <2>4, <2>9 DEF HasLedger
      <4> QED  BY <2>8, <3>1, <4>1
    <3>3. \A a \in 1..Len(s) : s[i].at <= s[a].at
      <4>1. \A a \in 1..Len(s) : s[a].at \in Nat
        BY <1>2, EntryOf
      <4> QED  BY <2>2, <4>1 DEF Oldest
    <3> QED  BY <2>4, <2>5, <3>1, <3>2, <3>3
  <2>10. Kept(new, l)
    BY <1>3, <2>1, <2>4, <2>6, <2>7, <2>9 DEF Kept
  <2> QED  BY <1>1, <2>2, <2>3, <2>10
<1> QED  BY <1>4, <1>5

(* A save keeps the list well formed. *)
LEMMA StoreIs ==
  ASSUME WorkspaceAssumption, LedgersOK, NEW l \in Ledger, NEW lost, Store(l, lost)
  PROVE  Kept(ledgers', l)
  BY TrimmedIs DEF Store

(* What a job saves is a ledger. *)
LEMMA EntryIs ==
  ASSUME NEW j \in Jobs, jobs[j] \in Before
  PROVE  /\ Entry(j) \in Ledger /\ Entry(j).key = jobs[j].key
         /\ jobs[j].used \in Nat /\ Entry(j).used = jobs[j].used + 1
<1>1. jobs[j].key \in Keys /\ jobs[j].used \in Nat /\ jobs[j].at \in Nat
  BY DEF Before
<1>2. jobs[j].used + 1 \in Nat
  BY <1>1
<1> QED  BY <1>1, <1>2 DEF Entry, Ledger

(* A list is left as it was, or a ledger is stored. *)
LEMMA ListStep ==
  ASSUME WorkspaceAssumption, JobsOK, LedgersOK, Steps
  PROVE  ledgers' = ledgers \/ \E l \in Ledger : Kept(ledgers', l)
<1>1. ASSUME NEW j \in Jobs, SaveLedger(j)
      PROVE  ledgers' = ledgers \/ \E l \in Ledger : Kept(ledgers', l)
  <2>1. jobs[j] \in Before /\ SaveMove(j)
    BY <1>1, SaveIs
  <2>2. ledgers' = ledgers \/ Store(Entry(j), 0)
    BY <2>1 DEF SaveMove
  <2> QED  BY <2>1, <2>2, EntryIs, StoreIs
<1>2. CASE ClearSaves
  <2>1. clearing \in Ledger
    BY <1>2 DEF ClearSaves, LedgersOK
  <2>2. ledgers' = ledgers \/ Store(clearing, Undone)
    BY <1>2 DEF ClearSaves, NotStored
  <2> QED  BY <2>1, <2>2, StoreIs
<1>3. CASE ~(\E j \in Jobs : SaveLedger(j)) /\ ~ClearSaves
  BY <1>3 DEF Steps, RowStep, RepoStep, ClearStep, ClearReads, JobStep, StoreStep, NoStoreStep,
      GateOpens, Fold, StandDown, Post, ledgerVars
<1> QED  BY <1>1, <1>2, <1>3

(* A step keeps the ledgers well formed, one for each pull request. *)
LEMMA LedgersKept ==
  ASSUME WorkspaceAssumption, RowsOK, JobsOK, LedgersOK, Steps
  PROVE  LedgersOK'
<1>1. /\ ledgers' \in Seq(Ledger) /\ Len(ledgers') <= MaxLedgers
      /\ \A i, j \in 1..Len(ledgers') : ledgers'[i].key = ledgers'[j].key => i = j
  BY ListStep DEF Kept, LedgersOK
<1>2. clearing' \in Ledger \cup {Idle}
  <2>1. ASSUME NEW k \in Keys, ClearReads(k)
        PROVE  clearing' \in Ledger
    <3>1. Used(k) \in Nat /\ now \in Nat
      BY UsedIsANumber DEF RowsOK
    <3> QED  BY <2>1, <3>1 DEF ClearReads, Ledger
  <2>2. CASE ClearSaves
    BY <2>2 DEF ClearSaves
  <2>3. CASE ~ClearStep
    <3>1. clearing' = clearing
      BY <2>3, SaveIs DEF Steps, RowStep, RepoStep, JobStep, StoreStep, NoStoreStep,
         GateOpens, Fold, StandDown, Post, ledgerVars
    <3> QED  BY <3>1 DEF LedgersOK
  <2> QED  BY <2>1, <2>2, <2>3 DEF ClearStep
<1> QED  BY <1>1, <1>2 DEF LedgersOK

-----------------------------------------------------------------------------
(* What was spent.                                                         *)

(* What the ledger of a pull request says it used, before and after a step. *)
LEMMA UsedIs ==
  ASSUME LedgersOK, NEW k \in Keys, NEW a \in 1..Len(ledgers), ledgers[a].key = k
  PROVE  Used(k) = ledgers[a].used
<1>1. a \in LedgerOf(k)
  BY DEF LedgerOf
<1>2. \A b \in LedgerOf(k) : b = a
  BY DEF LedgerOf, LedgersOK
<1> QED  BY <1>1, <1>2 DEF Used

LEMMA UsedIsThen ==
  ASSUME LedgersOK', NEW k \in Keys, NEW a \in 1..Len(ledgers'), ledgers'[a].key = k
  PROVE  Used(k)' = ledgers'[a].used
<1>1. a \in LedgerOf(k)'
  BY DEF LedgerOf
<1>2. \A b \in LedgerOf(k)' : b = a
  BY DEF LedgerOf, LedgersOK
<1> QED  BY <1>1, <1>2 DEF Used

(* After a save the ledger says what was saved, the others that are left    *)
(* what they said.                                                         *)
LEMMA UsedAfter ==
  ASSUME LedgersOK, LedgersOK', NEW l \in Ledger, Kept(ledgers', l), NEW q \in Keys
  PROVE  /\ HasLedger(q, ledgers') => Used(q)' = IF q = l.key THEN l.used ELSE Used(q)
         /\ ~HasLedger(q, ledgers') => Used(q)' = 0
<1>1. CASE HasLedger(q, ledgers')
  <2>1. PICK a \in 1..Len(ledgers') : ledgers'[a].key = q
    BY <1>1 DEF HasLedger
  <2>2. Used(q)' = ledgers'[a].used
    BY <2>1, UsedIsThen
  <2>3. IF ledgers'[a].key = l.key THEN ledgers'[a] = l ELSE \E b \in 1..Len(ledgers) : ledgers'[a] = ledgers[b]
    BY DEF Kept
  <2>4. CASE q = l.key
    BY <1>1, <2>1, <2>2, <2>3, <2>4
  <2>5. CASE q # l.key
    <3>1. PICK b \in 1..Len(ledgers) : ledgers'[a] = ledgers[b]
      BY <2>1, <2>3, <2>5
    <3>2. Used(q) = ledgers[b].used
      BY <2>1, <3>1, UsedIs
    <3> QED  BY <1>1, <2>2, <2>5, <3>1, <3>2
  <2> QED  BY <2>4, <2>5
<1>2. CASE ~HasLedger(q, ledgers')
  <2>1. LedgerOf(q)' = {}
    BY <1>2 DEF LedgerOf, HasLedger
  <2> QED  BY <1>2, <2>1 DEF Used
<1> QED  BY <1>1, <1>2

LEMMA SureIsANumber ==
  ASSUME CountsOK, NEW q \in Keys
  PROVE  Sure(q) \in Nat /\ spent[q] \in Nat /\ uncounted[q] \in Nat
<1>1. spent[q] \in Nat /\ uncounted[q] \in Nat /\ uncounted[q] <= spent[q]
  BY DEF CountsOK
<1> QED  BY <1>1 DEF Sure

LEMMA SureThen ==
  ASSUME CountsOK', NEW q \in Keys
  PROVE  Sure(q)' \in Nat
<1>1. spent'[q] \in Nat /\ uncounted'[q] \in Nat /\ uncounted'[q] <= spent'[q]
  BY DEF CountsOK
<1> QED  BY <1>1 DEF Sure

(* A few reviews more that are not counted, but no more than there were. *)
LEMMA LostIs ==
  ASSUME CountsOK, NEW k \in Keys, NEW n \in Nat
  PROVE  /\ Lost(k, n) \in Nat /\ Lost(k, n) <= spent[k]
         /\ spent[k] - Lost(k, n) <= Sure(k)
         /\ spent[k] - Lost(k, n) = 0 \/ spent[k] - Lost(k, n) = Sure(k) - n
<1>1. spent[k] \in Nat /\ uncounted[k] \in Nat /\ uncounted[k] <= spent[k]
  BY DEF CountsOK
<1>2. CASE uncounted[k] + n < spent[k]
  <2>1. Lost(k, n) = uncounted[k] + n
    BY <1>2 DEF Lost
  <2> QED  BY <1>1, <1>2, <2>1 DEF Sure
<1>3. CASE ~(uncounted[k] + n < spent[k])
  <2>1. Lost(k, n) = spent[k]
    BY <1>3 DEF Lost
  <2> QED  BY <1>1, <1>3, <2>1 DEF Sure
<1> QED  BY <1>2, <1>3

(* A save of l counts no review more, forgets those of a ledger that is     *)
(* gone, and of l's own those it undoes.                                   *)
LEMMA CountsAfter ==
  ASSUME CountsOK, NEW l \in Ledger, NEW n \in Nat, Store(l, n)
  PROVE  /\ CountsOK'
         /\ \A q \in Keys : Sure(q)' <= Sure(q)
         /\ \A q \in Keys : ~HasLedger(q, ledgers') => Sure(q)' = 0
         /\ Sure(l.key)' = 0 \/ Sure(l.key)' = Sure(l.key) - n
<1>1. /\ spent' = [k \in Keys |-> IF HasLedger(k, ledgers') THEN spent[k] ELSE 0]
      /\ uncounted' = [k \in Keys |->
            IF ~HasLedger(k, ledgers') THEN 0 ELSE IF k = l.key THEN Lost(k, n) ELSE uncounted[k]]
  BY DEF Store
<1>2. ASSUME NEW q \in Keys
      PROVE  /\ spent'[q] \in Nat /\ uncounted'[q] \in Nat /\ uncounted'[q] <= spent'[q]
             /\ Sure(q)' <= Sure(q) /\ (~HasLedger(q, ledgers') => Sure(q)' = 0)
             /\ q = l.key => Sure(q)' = 0 \/ Sure(q)' = Sure(q) - n
  <2>0. spent[q] \in Nat /\ uncounted[q] \in Nat /\ uncounted[q] <= spent[q] /\ Sure(q) \in Nat
    BY SureIsANumber DEF CountsOK
  <2>1. CASE ~HasLedger(q, ledgers')
    <3>1. spent'[q] = 0 /\ uncounted'[q] = 0
      BY <1>1, <2>1
    <3> QED  BY <2>0, <2>1, <3>1 DEF Sure
  <2>2. CASE HasLedger(q, ledgers') /\ q = l.key
    <3>1. spent'[q] = spent[q] /\ uncounted'[q] = Lost(q, n)
      BY <1>1, <2>2
    <3>2. /\ Lost(q, n) \in Nat /\ Lost(q, n) <= spent[q] /\ spent[q] - Lost(q, n) <= Sure(q)
          /\ spent[q] - Lost(q, n) = 0 \/ spent[q] - Lost(q, n) = Sure(q) - n
      BY LostIs
    <3>3. Sure(q)' = spent[q] - Lost(q, n)
      BY <3>1 DEF Sure
    <3> QED  BY <2>0, <2>2, <3>1, <3>2, <3>3
  <2>3. CASE HasLedger(q, ledgers') /\ q # l.key
    <3>1. spent'[q] = spent[q] /\ uncounted'[q] = uncounted[q]
      BY <1>1, <2>3
    <3>2. Sure(q)' = Sure(q)
      BY <3>1 DEF Sure
    <3> QED  BY <2>0, <2>3, <3>1, <3>2
  <2> QED  BY <2>1, <2>2, <2>3
<1>3. spent' \in [Keys -> Nat] /\ uncounted' \in [Keys -> Nat]
  BY <1>1, <1>2
<1>4. l.key \in Keys
  BY DEF Ledger
<1> QED  BY <1>2, <1>3, <1>4 DEF CountsOK

(* What a job relies on stays while nothing more is counted for its pull     *)
(* request and a post there is still to be saved.                           *)
LEMMA WithinKept ==
  ASSUME JobsOK, JobsOK', CountsOK, CountsOK', NEW i \in Jobs, NEW q \in Keys, jobs[i].key = q,
         jobs[i].pc \in {"gated", "folded", "posted"}, Same(i), Within(i),
         Sure(q)' <= Sure(q), Posted(q) => Posted(q)'
  PROVE  Within(i)'
<1>1. /\ jobs'[i].pc = jobs[i].pc /\ jobs'[i].key = q /\ jobs'[i].limit = jobs[i].limit
      /\ jobs'[i].laps >= jobs[i].laps /\ jobs'[i].known = jobs[i].known /\ jobs'[i].used = jobs[i].used
  BY DEF Same
<1>2. jobs[i].limit \in Nat /\ jobs[i].laps \in Nat /\ jobs[i].used \in Nat
  BY JobIs DEF Before
<1>3. jobs'[i].laps \in Nat
  <2>1. jobs'[i] \in Before
    <3>1. jobs'[i] \in Before \cup After \cup {Idle}
      BY DEF JobsOK
    <3>2. jobs'[i] \in After => jobs'[i].pc \in {"reporting", "done"}
      BY DEF After
    <3>3. jobs'[i] = Idle => jobs'[i].pc = "idle"
      BY DEF Idle
    <3> QED  BY <1>1, <3>1, <3>2, <3>3
  <2> QED  BY <2>1 DEF Before
<1>4. Sure(q) \in Nat /\ Sure(q)' \in Nat
  BY SureIsANumber, SureThen
<1>5. Room(i)' => Room(i)
  BY <1>1 DEF Room
<1>6. Sure(jobs[i].key)' = Sure(q)'
  BY <1>1 DEF Sure
<1>7. /\ jobs[i].limit > 0 /\ (jobs[i].pc = "gated" => ~jobs[i].known)
      /\ Sure(q) <= jobs[i].limit + jobs[i].laps
      /\ Room(i) => Sure(q) < jobs[i].limit + jobs[i].laps
      /\ jobs[i].known /\ jobs[i].pc = "folded" => Sure(q) <= jobs[i].used
      /\ jobs[i].known /\ jobs[i].pc = "posted" => Sure(q) <= jobs[i].used + 1
  BY DEF Within
<1>8. /\ Sure(q)' <= jobs[i].limit + jobs'[i].laps
      /\ Sure(q) < jobs[i].limit + jobs[i].laps => Sure(q)' < jobs[i].limit + jobs'[i].laps
      /\ Sure(q) <= jobs[i].used => Sure(q)' <= jobs[i].used
      /\ Sure(q) <= jobs[i].used + 1 => Sure(q)' <= jobs[i].used + 1
  BY <1>1, <1>2, <1>3, <1>4, <1>7
<1>9. /\ jobs'[i].limit > 0 /\ (jobs'[i].pc = "gated" => ~jobs'[i].known)
      /\ Sure(q)' <= jobs'[i].limit + jobs'[i].laps
      /\ Room(i)' => Sure(q)' < jobs'[i].limit + jobs'[i].laps
      /\ jobs'[i].known /\ jobs'[i].pc = "folded" => Sure(q)' <= jobs'[i].used
      /\ jobs'[i].known /\ jobs'[i].pc = "posted" => Sure(q)' <= jobs'[i].used + 1
  BY <1>1, <1>5, <1>7, <1>8
<1> QED  BY <1>6, <1>9 DEF Within

(* A job under review has a pull request. *)
LEMMA KeyOf ==
  ASSUME JobsOK, NEW i \in Jobs, jobs[i].pc \in {"gated", "folded", "posted"}
  PROVE  jobs[i].key \in Keys
  BY JobIs DEF Before

(* Steps that leave the ledgers and counts alone, and of the jobs before    *)
(* their save only let some stand down, leave the accounts as they are.    *)
LEMMA SpentSame ==
  ASSUME JobsOK, JobsOK', SpentOK, ledgers' = ledgers, spent' = spent, uncounted' = uncounted,
         \A i \in Jobs : Same(i) \/ (jobs[i].pc # "posted" /\ jobs'[i].pc \in {"idle", "reporting", "done"})
  PROVE  SpentOK'
<1>1. CountsOK /\ CountsOK' /\ \A q \in Keys : Sure(q)' = Sure(q) /\ Used(q)' = Used(q)
  BY DEF SpentOK, CountsOK, Sure, Used, LedgerOf
<1>2. \A i \in Jobs : jobs'[i].pc \in {"gated", "folded", "posted"} =>
        Same(i) /\ jobs[i].pc = jobs'[i].pc /\ jobs[i].key = jobs'[i].key
  BY DEF Same
<1>3. \A q : Posted(q) => Posted(q)'
  BY DEF Posted, Same
<1>4. ASSUME NEW i \in Jobs, jobs'[i].pc \in {"gated", "folded", "posted"}
      PROVE  Within(i)'
  <2>1. Same(i) /\ jobs[i].pc \in {"gated", "folded", "posted"}
    BY <1>2, <1>4
  <2>2. PICK q \in Keys : q = jobs[i].key
    BY <2>1, KeyOf
  <2>3. Within(i)
    BY <2>1 DEF SpentOK
  <2>4. Sure(q)' <= Sure(q)
    BY <1>1, SureIsANumber
  <2> QED  BY <1>1, <1>3, <2>1, <2>2, <2>3, <2>4, WithinKept
<1>5. \A q \in Keys : ByLedger(q)'
  BY <1>1, <1>3 DEF SpentOK, ByLedger
<1>6. \A i, j \in Jobs : AtIt(i)' /\ AtIt(j)' /\ jobs'[i].key = jobs'[j].key => i = j
  BY <1>2 DEF SpentOK, AtIt
<1> QED  BY <1>1, <1>4, <1>5, <1>6 DEF SpentOK

(* A pull request with a job at it has no other post to save. *)
LEMMA OnePost ==
  ASSUME SpentOK, NEW j \in Jobs, AtIt(j)
  PROVE  Posted(jobs[j].key) => jobs[j].pc = "posted"
  BY DEF SpentOK, Posted, AtIt

(* The gate lets a job in where the ledger leaves room. *)
LEMMA SpentAfterGate ==
  ASSUME WorkspaceAssumption, RowsOK, JobsOK, JobsOK', LedgersOK, SpentOK,
         NEW j \in Jobs, NEW pr \in PRs, GateOpens(j, pr)
  PROVE  SpentOK'
<1>1. PICK k \in Keys :
        /\ Used(k) < PrLimit(k[1]) /\ Used(k) \in Nat /\ PrLimit(k[1]) \in Nat
        /\ jobs[j].pc \in {"idle", "done"} /\ Gated(k) \in Before /\ jobs' = [jobs EXCEPT ![j] = Gated(k)]
  BY GateIs
<1>2. jobs'[j] = Gated(k) /\ \A i \in Jobs \ {j} : jobs'[i] = jobs[i] /\ Same(i)
  BY <1>1, OneReplaced
<1>3. /\ jobs'[j].pc = "gated" /\ jobs'[j].key = k /\ jobs'[j].limit = PrLimit(k[1]) /\ jobs'[j].laps = 0
      /\ ~jobs'[j].known
  BY <1>2 DEF Gated
<1>4. CountsOK /\ CountsOK' /\ \A q \in Keys : Sure(q)' = Sure(q) /\ Used(q)' = Used(q)
  BY DEF GateOpens, ledgerVars, SpentOK, CountsOK, Sure, Used, LedgerOf
<1>5. \A q : Posted(q)' = Posted(q)
  <2>1. \A q : Posted(q)' <=> Posted(q)
    BY <1>1, <1>2, <1>3 DEF Posted
  <2> QED  BY <2>1 DEF Posted
<1>6. Within(j)'
  <2>1. Sure(k) \in Nat
    BY <1>4, SureIsANumber
  <2>2. Sure(k) <= Used(k) + 1 /\ (~Posted(k) => Sure(k) <= Used(k))
    BY DEF SpentOK, ByLedger
  <2>3. Sure(k) <= PrLimit(k[1]) + 0 /\ (~Posted(k) => Sure(k) < PrLimit(k[1]) + 0) /\ PrLimit(k[1]) > 0
    BY <1>1, <2>1, <2>2
  <2>4. Sure(jobs[j].key)' = Sure(k)
    BY <1>3, <1>4 DEF Sure
  <2>5. Room(j)' => ~Posted(k)
    BY <1>3, <1>5 DEF Room
  <2> QED  BY <1>3, <2>3, <2>4, <2>5 DEF Within
<1>7. ASSUME NEW i \in Jobs, jobs'[i].pc \in {"gated", "folded", "posted"}
      PROVE  Within(i)'
  <2>1. CASE i = j
    BY <1>6, <2>1
  <2>2. CASE i # j
    <3>1. Same(i) /\ jobs[i].pc \in {"gated", "folded", "posted"}
      BY <1>2, <1>7, <2>2 DEF Same
    <3>2. PICK q \in Keys : q = jobs[i].key
      BY <3>1, KeyOf
    <3>3. Within(i) /\ Sure(q)' <= Sure(q)
      BY <1>4, <3>1, SureIsANumber DEF SpentOK
    <3> QED  BY <1>4, <1>5, <3>1, <3>2, <3>3, WithinKept
  <2> QED  BY <2>1, <2>2
<1>8. \A q \in Keys : ByLedger(q)'
  BY <1>4, <1>5 DEF SpentOK, ByLedger
<1>9. \A a, b \in Jobs : AtIt(a)' /\ AtIt(b)' /\ jobs'[a].key = jobs'[b].key => a = b
  BY <1>2, <1>3 DEF SpentOK, AtIt
<1> QED  BY <1>4, <1>7, <1>8, <1>9 DEF SpentOK

(* The job that takes the slot finds no other post to save. *)
LEMMA SpentAfterFold ==
  ASSUME RowsOK, JobsOK, JobsOK', LedgersOK, SpentOK, NEW j \in Jobs, Fold(j)
  PROVE  SpentOK'
<1>1. /\ jobs[j] \in Before /\ jobs[j].pc = "gated" /\ ~Busy(jobs[j].key)
      /\ jobs'[j].pc = "folded" /\ jobs'[j].key = jobs[j].key
      /\ jobs'[j].limit = jobs[j].limit /\ jobs'[j].laps = jobs[j].laps
      /\ jobs'[j].known => jobs[j].known \/ jobs'[j].used = Used(jobs[j].key)
      /\ \A i \in Jobs \ {j} : jobs'[i] = jobs[i] /\ Same(i)
  BY FoldIs
<1>2. PICK k \in Keys : k = jobs[j].key
  BY <1>1, KeyOf
<1>3. CountsOK /\ CountsOK' /\ \A q \in Keys : Sure(q)' = Sure(q) /\ Used(q)' = Used(q)
  <2>1. ledgers' = ledgers /\ spent' = spent /\ uncounted' = uncounted
    BY DEF Fold
  <2> QED  BY <2>1 DEF SpentOK, CountsOK, Sure, Used, LedgerOf
<1>4. ~Posted(k) /\ \A i \in Jobs : AtIt(i) => jobs[i].key # k
  BY <1>1, <1>2 DEF Busy, Posted, AtIt
<1>5. \A q : Posted(q)' = Posted(q)
  <2>1. \A q : Posted(q)' <=> Posted(q)
    BY <1>1 DEF Posted
  <2> QED  BY <2>1 DEF Posted
<1>6. Within(j)'
  <2>1. Within(j) /\ Room(j)
    BY <1>1, <1>2, <1>4 DEF SpentOK, Room
  <2>2. jobs[j].limit > 0 /\ ~jobs[j].known
          /\ Sure(k) <= jobs[j].limit + jobs[j].laps /\ Sure(k) < jobs[j].limit + jobs[j].laps
    BY <1>1, <1>2, <2>1 DEF Within
  <2>3. Sure(k) <= Used(k)
    BY <1>4 DEF SpentOK, ByLedger
  <2>4. Sure(jobs[j].key)' = Sure(k)
    BY <1>1, <1>2, <1>3 DEF Sure
  <2> QED  BY <1>1, <1>2, <2>2, <2>3, <2>4 DEF Within
<1>7. ASSUME NEW i \in Jobs, jobs'[i].pc \in {"gated", "folded", "posted"}
      PROVE  Within(i)'
  <2>1. CASE i = j
    BY <1>6, <2>1
  <2>2. CASE i # j
    <3>1. Same(i) /\ jobs[i].pc \in {"gated", "folded", "posted"}
      BY <1>1, <1>7, <2>2 DEF Same
    <3>2. PICK q \in Keys : q = jobs[i].key
      BY <3>1, KeyOf
    <3>3. Within(i) /\ Sure(q)' <= Sure(q)
      BY <1>3, <3>1, SureIsANumber DEF SpentOK
    <3> QED  BY <1>3, <1>5, <3>1, <3>2, <3>3, WithinKept
  <2> QED  BY <2>1, <2>2
<1>8. \A q \in Keys : ByLedger(q)'
  BY <1>3, <1>5 DEF SpentOK, ByLedger
<1>9. \A a, b \in Jobs : AtIt(a)' /\ AtIt(b)' /\ jobs'[a].key = jobs'[b].key => a = b
  BY <1>1, <1>2, <1>4 DEF SpentOK, AtIt
<1> QED  BY <1>3, <1>7, <1>8, <1>9 DEF SpentOK

(* A post spends one review, which its job and no other has to save. *)
LEMMA SpentAfterPost ==
  ASSUME PostsOK, JobsOK, JobsOK', LedgersOK, SpentOK, NEW j \in Jobs, Post(j)
  PROVE  SpentOK'
<1>1. /\ jobs[j] \in Before /\ jobs[j].pc = "folded"
      /\ jobs'[j].pc = "posted" /\ jobs'[j].key = jobs[j].key
      /\ jobs'[j].limit = jobs[j].limit /\ jobs'[j].laps = jobs[j].laps
      /\ jobs'[j].known = jobs[j].known /\ jobs'[j].used = jobs[j].used
      /\ \A i \in Jobs \ {j} : jobs'[i] = jobs[i] /\ Same(i)
  BY PostIs
<1>2. PICK k \in Keys : k = jobs[j].key
  BY <1>1, KeyOf
<1>3. CountsOK /\ \A q \in Keys : Used(q)' = Used(q)
  BY DEF Post, SpentOK, Used, LedgerOf
<1>4. spent[k] \in Nat /\ spent' = [spent EXCEPT ![k] = spent[k] + 1] /\ uncounted' = uncounted
  BY <1>2, <1>3, SureIsANumber DEF Post
<1>5. CountsOK' /\ Sure(k)' = Sure(k) + 1 /\ \A q \in Keys \ {k} : Sure(q)' = Sure(q)
  <2>1. /\ spent' \in [Keys -> Nat] /\ uncounted' \in [Keys -> Nat] /\ spent'[k] = spent[k] + 1
        /\ \A q \in Keys \ {k} : spent'[q] = spent[q]
    BY <1>3, <1>4 DEF CountsOK
  <2>2. uncounted[k] \in Nat /\ uncounted[k] <= spent[k] /\ \A q \in Keys : uncounted[q] <= spent[q]
    BY <1>3 DEF CountsOK
  <2>3. Sure(k)' = Sure(k) + 1
    BY <1>4, <2>1, <2>2 DEF Sure
  <2>4. \A q \in Keys \ {k} : Sure(q)' = Sure(q)
    BY <1>4, <2>1 DEF Sure
  <2>5. \A q \in Keys : uncounted'[q] <= spent'[q]
    BY <1>4, <2>1, <2>2
  <2> QED  BY <2>1, <2>3, <2>4, <2>5 DEF CountsOK
<1>6. /\ ~Posted(k) /\ Posted(k)' /\ \A q : q # k => Posted(q)' = Posted(q)
      /\ \A i \in Jobs \ {j} : AtIt(i) => jobs[i].key # k
  <2>1. AtIt(j)
    BY <1>1 DEF AtIt
  <2>2. ~Posted(k)
    BY <1>1, <1>2, <2>1, OnePost
  <2>3. Posted(k)'
    BY <1>1, <1>2 DEF Posted
  <2>4. \A q : q # k => (Posted(q)' <=> Posted(q))
    BY <1>1, <1>2 DEF Posted
  <2>5. \A i \in Jobs \ {j} : AtIt(i) => jobs[i].key # k
    BY <1>2, <2>1 DEF SpentOK
  <2> QED  BY <2>2, <2>3, <2>4, <2>5 DEF Posted
<1>7. Sure(k) \in Nat
  BY <1>3, SureIsANumber
<1>8. ASSUME NEW i \in Jobs, jobs'[i].pc \in {"gated", "folded", "posted"}
      PROVE  Within(i)'
  <2>1. CASE i = j
    <3>1. Within(j) /\ Room(j)
      BY <1>1 DEF SpentOK, Room
    <3>2. jobs[j].limit > 0 /\ Sure(k) < jobs[j].limit + jobs[j].laps /\ (jobs[j].known => Sure(k) <= jobs[j].used)
      BY <1>1, <1>2, <3>1 DEF Within
    <3>3. jobs[j].limit \in Nat /\ jobs[j].laps \in Nat /\ jobs[j].used \in Nat
      BY <1>1 DEF Before
    <3>4. Sure(k) + 1 <= jobs[j].limit + jobs[j].laps /\ (Sure(k) <= jobs[j].used => Sure(k) + 1 <= jobs[j].used + 1)
      BY <1>7, <3>2, <3>3
    <3>5. Sure(jobs[j].key)' = Sure(k) + 1
      BY <1>1, <1>2, <1>5 DEF Sure
    <3>6. ~Room(j)'
      BY <1>1 DEF Room
    <3> QED  BY <1>1, <2>1, <3>2, <3>4, <3>5, <3>6 DEF Within
  <2>2. CASE i # j /\ jobs[i].key # k
    <3>1. Same(i) /\ jobs[i].pc \in {"gated", "folded", "posted"}
      BY <1>1, <1>8, <2>2 DEF Same
    <3>2. PICK q \in Keys : q = jobs[i].key /\ q # k
      BY <2>2, <3>1, KeyOf
    <3>3. Within(i) /\ Sure(q)' <= Sure(q)
      BY <1>3, <1>5, <3>1, <3>2, SureIsANumber DEF SpentOK
    <3> QED  BY <1>3, <1>5, <1>6, <3>1, <3>2, <3>3, WithinKept
  <2>3. CASE i # j /\ jobs[i].key = k
    <3>1. jobs'[i] = jobs[i] /\ jobs[i].pc = "gated"
      BY <1>1, <1>6, <1>8, <2>3 DEF AtIt
    <3>2. jobs[i].limit \in Nat /\ jobs[i].laps \in Nat
      BY <3>1, JobIs DEF Before
    <3>3. Within(i) /\ Room(i)
      BY <1>6, <2>3, <3>1 DEF SpentOK, Room
    <3>4. jobs[i].limit > 0 /\ ~jobs[i].known /\ Sure(k) < jobs[i].limit + jobs[i].laps
      BY <2>3, <3>1, <3>3 DEF Within
    <3>5. Sure(k) + 1 <= jobs[i].limit + jobs[i].laps
      BY <1>7, <3>2, <3>4
    <3>6. ~Room(i)'
      BY <1>6, <2>3, <3>1 DEF Room
    <3>7. Sure(jobs[i].key)' = Sure(k) + 1
      BY <1>5, <2>3, <3>1 DEF Sure
    <3> QED  BY <3>1, <3>4, <3>5, <3>6, <3>7 DEF Within
  <2> QED  BY <2>1, <2>2, <2>3
<1>9. ASSUME NEW q \in Keys
      PROVE  ByLedger(q)'
  <2>1. ByLedger(q)
    BY DEF SpentOK
  <2>2. CASE q = k
    <3>1. Sure(k) <= Used(k) /\ Used(k) \in Nat
      BY <1>6, <2>1, <2>2, UsedIsANumber DEF ByLedger
    <3>2. Sure(k)' <= Used(k)' + 1
      BY <1>3, <1>5, <1>7, <3>1
    <3> QED  BY <1>6, <2>2, <3>2 DEF ByLedger
  <2>3. CASE q # k
    BY <1>3, <1>5, <1>6, <2>1, <2>3 DEF ByLedger
  <2> QED  BY <2>2, <2>3
<1>10. \A a, b \in Jobs : AtIt(a)' /\ AtIt(b)' /\ jobs'[a].key = jobs'[b].key => a = b
  <2>1. \A i \in Jobs : (AtIt(i)' <=> AtIt(i)) /\ jobs'[i].key = jobs[i].key
    BY <1>1 DEF AtIt
  <2> QED  BY <2>1 DEF SpentOK
<1> QED  BY <1>5, <1>8, <1>9, <1>10 DEF SpentOK

(* A count that is saved is the ledger's; one that is not is nobody's. *)
LEMMA SpentAfterSave ==
  ASSUME WorkspaceAssumption, JobsOK, JobsOK', LedgersOK, LedgersOK', SpentOK, NEW j \in Jobs, SaveLedger(j)
  PROVE  SpentOK'
<1>1. /\ jobs[j] \in Before /\ jobs[j].pc = "posted"
      /\ jobs'[j].pc = "reporting" /\ \A i \in Jobs \ {j} : Same(i)
      /\ SaveMove(j)
  BY SaveIs
<1>2. PICK k \in Keys : k = jobs[j].key
  BY <1>1, KeyOf
<1>3. CountsOK /\ AtIt(j) /\ Sure(k) \in Nat /\ Used(k) \in Nat
  BY <1>1, SureIsANumber, UsedIsANumber DEF SpentOK, AtIt
<1>4. \A i \in Jobs : jobs'[i].pc \in {"gated", "folded", "posted"} =>
        i # j /\ Same(i) /\ jobs[i].pc = jobs'[i].pc /\ jobs[i].key = jobs'[i].key
  BY <1>1 DEF Same
<1>5. /\ ~Posted(k)' /\ \A q : q # k /\ Posted(q) => Posted(q)'
      /\ \A i \in Jobs \ {j} : AtIt(i) => jobs[i].key # k
  <2>1. \A i \in Jobs \ {j} : AtIt(i) => jobs[i].key # k
    BY <1>2, <1>3 DEF SpentOK
  <2>2. ~Posted(k)'
    BY <1>4, <2>1 DEF Posted, AtIt
  <2>3. \A q : q # k /\ Posted(q) => Posted(q)'
    BY <1>1, <1>2 DEF Posted, Same
  <2> QED  BY <2>1, <2>2, <2>3
(* Of the pull request saved, one review less is uncertain or one lap more  *)
(* is known.                                                                *)
<1>6. /\ CountsOK' /\ \A q \in Keys : Sure(q)' <= Sure(q)
      /\ \A q \in Keys : ByLedger(q)'
      /\ \A i \in Jobs \ {j} : jobs[i].pc = "gated" /\ jobs[i].key = k =>
           jobs'[i].laps \in Nat /\ Sure(k)' < jobs[i].limit + jobs'[i].laps
  <2>1. \A i \in Jobs : jobs[i].pc = "gated" /\ jobs[i].key = k =>
          /\ jobs[i].limit \in Nat /\ jobs[i].laps \in Nat /\ jobs[i].limit > 0
          /\ Sure(k) <= jobs[i].limit + jobs[i].laps
    BY JobIs DEF Before, SpentOK, Within
  <2>2. CASE /\ jobs[j].known /\ Store(Entry(j), 0)
             /\ \A i \in Jobs \ {j} : jobs[i].pc = "gated" /\ jobs[i].key = jobs[j].key
                                        => jobs'[i].laps = jobs[i].laps + 1
    <3>1. PICK l \in Ledger : l = Entry(j) /\ l.key = k /\ l.used = jobs[j].used + 1 /\ jobs[j].used \in Nat
      BY <1>1, <1>2, EntryIs
    <3>2. /\ CountsOK' /\ \A q \in Keys : Sure(q)' <= Sure(q)
          /\ \A q \in Keys : ~HasLedger(q, ledgers') => Sure(q)' = 0
      BY <1>3, <2>2, <3>1, CountsAfter
    <3>3. Kept(ledgers', l)
      BY <2>2, <3>1, StoreIs
    <3>4. ASSUME NEW q \in Keys
          PROVE  ByLedger(q)'
      <4>0. Sure(q) \in Nat /\ Sure(q)' \in Nat /\ Used(q) \in Nat
        BY <1>3, <3>2, SureIsANumber, SureThen, UsedIsANumber
      <4>1. CASE ~HasLedger(q, ledgers')
        <5>1. Sure(q)' = 0 /\ Used(q)' = 0
          BY <3>2, <3>3, <4>1, UsedAfter
        <5>2. Sure(q)' <= Used(q)' + 1 /\ Sure(q)' <= Used(q)'
          BY <5>1
        <5> QED  BY <5>2 DEF ByLedger
      <4>2. CASE HasLedger(q, ledgers') /\ q = k
        <5>1. Used(q)' = jobs[j].used + 1
          BY <3>1, <3>3, <4>2, UsedAfter
        <5>2. Sure(k) <= jobs[j].used + 1
          BY <1>1, <1>2, <2>2 DEF SpentOK, Within
        <5>3. Sure(q)' <= jobs[j].used + 1
          BY <1>3, <3>1, <3>2, <4>0, <4>2, <5>2
        <5>4. Sure(q)' <= Used(q)' + 1 /\ Sure(q)' <= Used(q)'
          BY <3>1, <4>0, <5>1, <5>3
        <5> QED  BY <5>4 DEF ByLedger
      <4>3. CASE HasLedger(q, ledgers') /\ q # k
        <5>1. Used(q)' = Used(q)
          BY <3>1, <3>3, <4>3, UsedAfter
        <5>2. Sure(q)' <= Sure(q) /\ Sure(q) <= Used(q) + 1 /\ (~Posted(q) => Sure(q) <= Used(q))
          BY <3>2 DEF SpentOK, ByLedger
        <5>3. Sure(q)' <= Used(q)' + 1 /\ (Sure(q) <= Used(q) => Sure(q)' <= Used(q)')
          BY <4>0, <5>1, <5>2
        <5>4. ~Posted(q)' => ~Posted(q)
          BY <1>5, <4>3
        <5> QED  BY <5>2, <5>3, <5>4 DEF ByLedger
      <4> QED  BY <4>1, <4>2, <4>3
    <3>5. ASSUME NEW i \in Jobs \ {j}, jobs[i].pc = "gated", jobs[i].key = k
          PROVE  jobs'[i].laps \in Nat /\ Sure(k)' < jobs[i].limit + jobs'[i].laps
      <4>1. jobs'[i].laps = jobs[i].laps + 1
        BY <1>2, <2>2, <3>5
      <4>2. Sure(k)' <= Sure(k) /\ Sure(k)' \in Nat
        BY <3>2, SureThen
      <4>3. jobs[i].limit \in Nat /\ jobs[i].laps \in Nat /\ Sure(k) <= jobs[i].limit + jobs[i].laps
        BY <2>1, <3>5
      <4> QED  BY <1>3, <4>1, <4>2, <4>3
    <3> QED  BY <3>2, <3>4, <3>5
  <2>3. CASE /\ ledgers' = ledgers /\ spent' = spent
             /\ uncounted' = [uncounted EXCEPT ![jobs[j].key] = Lost(jobs[j].key, 1)]
    <3>1. /\ Lost(k, 1) \in Nat /\ Lost(k, 1) <= spent[k] /\ spent[k] - Lost(k, 1) <= Sure(k)
          /\ spent[k] - Lost(k, 1) = 0 \/ spent[k] - Lost(k, 1) = Sure(k) - 1
      BY <1>3, LostIs
    <3>2. /\ uncounted' \in [Keys -> Nat] /\ uncounted'[k] = Lost(k, 1)
          /\ \A q \in Keys \ {k} : uncounted'[q] = uncounted[q]
      BY <1>2, <1>3, <2>3, <3>1 DEF CountsOK
    <3>3. CountsOK'
      <4>1. \A q \in Keys : uncounted'[q] <= spent'[q]
        BY <1>3, <2>3, <3>1, <3>2 DEF CountsOK
      <4> QED  BY <1>3, <2>3, <3>2, <4>1 DEF CountsOK
    <3>4. /\ Sure(k)' = spent[k] - Lost(k, 1) /\ Sure(k)' \in Nat
          /\ \A q \in Keys \ {k} : Sure(q)' = Sure(q)
      BY <2>3, <3>2, <3>3, SureThen DEF Sure
    <3>5. \A q \in Keys : Sure(q)' <= Sure(q)
      BY <1>3, <3>1, <3>4, SureIsANumber
    <3>6. \A q \in Keys : Used(q)' = Used(q)
      BY <2>3 DEF Used, LedgerOf
    <3>7. ASSUME NEW q \in Keys
          PROVE  ByLedger(q)'
      <4>1. Sure(q) <= Used(q) + 1 /\ (~Posted(q) => Sure(q) <= Used(q))
        BY DEF SpentOK, ByLedger
      <4>2. CASE q = k
        <5>1. Sure(k)' <= Used(k) /\ Sure(k)' <= Used(k) + 1
          BY <1>3, <3>1, <3>4, <4>1, <4>2
        <5> QED  BY <3>6, <4>2, <5>1 DEF ByLedger
      <4>3. CASE q # k
        BY <1>5, <3>4, <3>6, <4>1, <4>3 DEF ByLedger
      <4> QED  BY <4>2, <4>3
    <3>8. ASSUME NEW i \in Jobs \ {j}, jobs[i].pc = "gated", jobs[i].key = k
          PROVE  jobs'[i].laps \in Nat /\ Sure(k)' < jobs[i].limit + jobs'[i].laps
      <4>1. jobs'[i] \in Before
        <5>1. Same(i) /\ jobs'[i].pc = "gated" /\ jobs'[i] \in Before \cup After \cup {Idle}
          BY <1>1, <3>8 DEF Same, JobsOK
        <5>2. jobs'[i] \in After => jobs'[i].pc \in {"reporting", "done"}
          BY DEF After
        <5>3. jobs'[i] = Idle => jobs'[i].pc = "idle"
          BY DEF Idle
        <5> QED  BY <5>1, <5>2, <5>3
      <4>2. jobs'[i].laps \in Nat /\ jobs'[i].laps >= jobs[i].laps
        BY <1>1, <3>8, <4>1 DEF Same, Before
      <4>3. /\ jobs[i].limit \in Nat /\ jobs[i].laps \in Nat /\ jobs[i].limit > 0
            /\ Sure(k) <= jobs[i].limit + jobs[i].laps
        BY <2>1, <3>8
      <4>4. Sure(k)' = 0 \/ Sure(k)' = Sure(k) - 1
        BY <3>1, <3>4
      <4> QED  BY <1>3, <4>2, <4>3, <4>4
    <3> QED  BY <3>3, <3>5, <3>7, <3>8
  <2> QED  BY <1>1, <2>2, <2>3 DEF SaveMove
<1>7. ASSUME NEW i \in Jobs, jobs'[i].pc \in {"gated", "folded", "posted"}
      PROVE  Within(i)'
  <2>1. i # j /\ Same(i) /\ jobs[i].pc \in {"gated", "folded", "posted"}
          /\ jobs[i].pc = jobs'[i].pc /\ jobs[i].key = jobs'[i].key
    BY <1>4, <1>7
  <2>2. CASE jobs[i].key # k
    <3>1. PICK q \in Keys : q = jobs[i].key /\ q # k
      BY <2>1, <2>2, KeyOf
    <3>2. Within(i) /\ Sure(q)' <= Sure(q) /\ (Posted(q) => Posted(q)')
      BY <1>5, <1>6, <2>1, <3>1 DEF SpentOK
    <3> QED  BY <1>3, <1>6, <2>1, <3>1, <3>2, WithinKept
  <2>3. CASE jobs[i].key = k
    <3>1. jobs[i].pc = "gated"
      BY <1>5, <2>1, <2>3 DEF AtIt
    <3>2. Within(i) /\ jobs'[i].limit = jobs[i].limit /\ jobs'[i].known = jobs[i].known
      BY <2>1, <3>1 DEF SpentOK, Same
    <3>3. jobs[i].limit > 0 /\ ~jobs[i].known /\ jobs[i].limit \in Nat
      BY <3>1, <3>2, JobIs DEF Within, Before
    <3>4. Sure(k)' < jobs'[i].limit + jobs'[i].laps /\ Sure(k)' \in Nat /\ jobs'[i].laps \in Nat
      BY <1>6, <2>1, <2>3, <3>1, <3>2, SureThen
    <3>5. Sure(k)' <= jobs'[i].limit + jobs'[i].laps
      BY <3>2, <3>3, <3>4
    <3>6. Sure(jobs[i].key)' = Sure(k)'
      BY <2>1, <2>3 DEF Sure
    <3> QED  BY <2>1, <3>1, <3>2, <3>3, <3>4, <3>5, <3>6 DEF Within
  <2> QED  BY <2>2, <2>3
<1>8. \A a, b \in Jobs : AtIt(a)' /\ AtIt(b)' /\ jobs'[a].key = jobs'[b].key => a = b
  BY <1>4 DEF SpentOK, AtIt
<1> QED  BY <1>6, <1>7, <1>8 DEF SpentOK

(* A resolve puts back the count it read and undoes what came since. *)
LEMMA SpentAfterClear ==
  ASSUME WorkspaceAssumption, JobsOK, JobsOK', LedgersOK, LedgersOK', SpentOK, ClearSaves
  PROVE  SpentOK'
<1>1. jobs' = jobs /\ clearing \in Ledger
  BY DEF ClearSaves, LedgersOK
<1>2. \A i \in Jobs : Same(i)
  BY <1>1, AloneIsSame
<1>3. CASE ledgers' = ledgers /\ spent' = spent /\ uncounted' = uncounted
  BY <1>2, <1>3, SpentSame
<1>4. CASE Store(clearing, Undone)
  <2>1. PICK l \in Ledger : l = clearing /\ l.key \in Keys /\ l.used \in Nat
    BY <1>1 DEF Ledger
  <2>2. CountsOK /\ Used(l.key) \in Nat /\ Sure(l.key) \in Nat
    BY <2>1, UsedIsANumber, SureIsANumber DEF SpentOK
  <2>3. PICK n \in Nat : n = Undone /\ (n = 0 \/ n = Used(l.key) - l.used) /\ Used(l.key) - n <= l.used
    <3>1. CASE Used(l.key) > l.used
      <4>1. Undone = Used(l.key) - l.used /\ Undone \in Nat
        BY <2>1, <2>2, <3>1 DEF Undone
      <4> QED  BY <2>1, <2>2, <4>1
    <3>2. CASE ~(Used(l.key) > l.used)
      <4>1. Undone = 0
        BY <2>1, <3>2 DEF Undone
      <4> QED  BY <2>1, <2>2, <3>2, <4>1
    <3> QED  BY <3>1, <3>2
  <2>4. /\ CountsOK' /\ \A q \in Keys : Sure(q)' <= Sure(q)
        /\ \A q \in Keys : ~HasLedger(q, ledgers') => Sure(q)' = 0
        /\ Sure(l.key)' = 0 \/ Sure(l.key)' = Sure(l.key) - n
        /\ Kept(ledgers', l)
    <3>1. Store(l, n)
      BY <1>4, <2>1, <2>3
    <3> QED  BY <2>2, <3>1, CountsAfter, StoreIs
  <2>5. \A q : Posted(q)' = Posted(q)
    BY <1>1 DEF Posted
  <2>6. ASSUME NEW q \in Keys
        PROVE  ByLedger(q)'
    <3>0. Sure(q) \in Nat /\ Sure(q)' \in Nat /\ Used(q) \in Nat
      BY <2>2, <2>4, SureIsANumber, SureThen, UsedIsANumber
    <3>1. Sure(q) <= Used(q) + 1 /\ (~Posted(q) => Sure(q) <= Used(q))
      BY DEF SpentOK, ByLedger
    <3>2. CASE ~HasLedger(q, ledgers')
      <4>1. Sure(q)' = 0 /\ Used(q)' = 0
        BY <2>4, <3>2, UsedAfter
      <4>2. Sure(q)' <= Used(q)' + 1 /\ Sure(q)' <= Used(q)'
        BY <4>1
      <4> QED  BY <4>2 DEF ByLedger
    <3>3. CASE HasLedger(q, ledgers') /\ q = l.key
      <4>1. Used(q)' = l.used
        BY <2>4, <3>3, UsedAfter
      <4>2. Sure(q)' = 0 \/ Sure(q)' = Sure(q) - n
        BY <2>4, <3>3
      <4>3. Used(q) - n <= l.used
        BY <2>3, <3>3
      <4>4. Sure(q)' <= l.used + 1 /\ (Sure(q) <= Used(q) => Sure(q)' <= l.used)
        BY <2>1, <2>3, <3>0, <3>1, <4>2, <4>3
      <4> QED  BY <2>5, <3>1, <4>1, <4>4 DEF ByLedger
    <3>4. CASE HasLedger(q, ledgers') /\ q # l.key
      <4>1. Used(q)' = Used(q)
        BY <2>4, <3>4, UsedAfter
      <4>2. Sure(q)' <= Used(q) + 1 /\ (Sure(q) <= Used(q) => Sure(q)' <= Used(q))
        BY <2>4, <3>0, <3>1
      <4> QED  BY <2>5, <3>1, <4>1, <4>2 DEF ByLedger
    <3> QED  BY <3>2, <3>3, <3>4
  <2>7. ASSUME NEW i \in Jobs, jobs'[i].pc \in {"gated", "folded", "posted"}
        PROVE  Within(i)'
    <3>1. Same(i) /\ jobs[i].pc \in {"gated", "folded", "posted"} /\ Within(i)
      BY <1>1, <1>2, <2>7 DEF SpentOK
    <3>2. PICK q \in Keys : q = jobs[i].key
      BY <3>1, KeyOf
    <3>3. Sure(q)' <= Sure(q) /\ (Posted(q) => Posted(q)')
      BY <2>4, <2>5
    <3> QED  BY <2>2, <2>4, <3>1, <3>2, <3>3, WithinKept
  <2>8. \A a, b \in Jobs : AtIt(a)' /\ AtIt(b)' /\ jobs'[a].key = jobs'[b].key => a = b
    BY <1>1 DEF SpentOK, AtIt
  <2> QED  BY <2>4, <2>6, <2>7, <2>8 DEF SpentOK
<1> QED  BY <1>3, <1>4 DEF ClearSaves, NotStored

(* What a pull request spent stays within what its ledger and the jobs at it *)
(* account for: the slot makes one job at a time spend.                     *)
LEMMA SpentKept ==
  ASSUME WorkspaceAssumption, RowsOK, PostsOK, JobsOK, JobsOK', LedgersOK, LedgersOK', SpentOK, Steps
  PROVE  SpentOK'
<1>1. CASE RowStep
  BY <1>1, RowStepJobs, SpentSame DEF RowStep, ledgerVars
<1>2. CASE RepoStep
  <2>1. \A i \in Jobs : Same(i)
    BY <1>2, AloneIsSame DEF RepoStep
  <2> QED  BY <1>2, <2>1, SpentSame DEF RepoStep, ledgerVars
<1>3. ASSUME NEW j \in Jobs, StoreStep(j) \/ NoStoreStep(j)
      PROVE  SpentOK'
  <2>1. spent' = spent /\ ledgers' = ledgers /\ uncounted' = uncounted
    BY <1>3 DEF StoreStep, NoStoreStep, ledgerVars
  <2>2. jobs[j].pc = "reporting" /\ jobs'[j].pc \in {"reporting", "done"} /\ \A i \in Jobs \ {j} : Same(i)
    BY <1>3, StoreStepJobs, NoStoreStepJobs
  <2> QED  BY <2>1, <2>2, SpentSame
<1>4. ASSUME NEW k \in Keys, ClearReads(k)
      PROVE  SpentOK'
  <2>1. jobs' = jobs /\ ledgers' = ledgers /\ spent' = spent /\ uncounted' = uncounted
    BY <1>4 DEF ClearReads
  <2>2. \A i \in Jobs : Same(i)
    BY <2>1, AloneIsSame
  <2> QED  BY <2>1, <2>2, SpentSame
<1>5. ASSUME NEW j \in Jobs, StandDown(j)
      PROVE  SpentOK'
  <2>1. /\ jobs[j].pc \in {"gated", "folded"} /\ jobs' = [jobs EXCEPT ![j] = Idle]
        /\ ledgers' = ledgers /\ spent' = spent /\ uncounted' = uncounted
    BY <1>5 DEF StandDown, ledgerVars
  <2>2. jobs'[j].pc = "idle" /\ \A i \in Jobs \ {j} : Same(i)
    BY <2>1, OneReplaced DEF Idle
  <2> QED  BY <2>1, <2>2, SpentSame
<1>6. ASSUME NEW j \in Jobs, JobStep(j)
      PROVE  SpentOK'
  BY <1>5, <1>6, SpentAfterGate, SpentAfterFold, SpentAfterPost, SpentAfterSave DEF JobStep
<1> QED  BY <1>1, <1>2, <1>3, <1>4, <1>6, SpentAfterClear DEF Steps, ClearStep

-----------------------------------------------------------------------------
(* The theorems.                                                           *)

(* The control plane starts in the invariant. *)
LEMMA StartIsFine ==
  ASSUME WorkspaceAssumption, Init
  PROVE  WorkspaceInv
<1>1. now = 0 /\ now \in Nat /\ org \in [Orgs -> Row]
  <2>1. org \in [Orgs -> [tier : {"free", "paid"}, trialEnds : {0}, suspended : {FALSE},
                          perDay : {NoValue}, perPr : {NoValue}]]
    BY DEF Init
  <2>2. ASSUME NEW o \in Orgs
        PROVE  org[o] \in Row
    <3>1. org[o] \in [tier : {"free", "paid"}, trialEnds : {0}, suspended : {FALSE},
                      perDay : {NoValue}, perPr : {NoValue}]
      BY <2>1
    <3>2. /\ org[o] = [tier |-> org[o].tier, trialEnds |-> 0, suspended |-> FALSE,
                       perDay |-> NoValue, perPr |-> NoValue]
          /\ org[o].tier \in {"free", "paid"}
      BY <3>1
    <3>3. 0 \in Nat /\ FALSE \in BOOLEAN /\ NoValue \in Nat \cup {NoValue}
      OBVIOUS
    <3>4. \A t \in {"free", "paid"}, z \in Nat, b \in BOOLEAN, v \in Nat \cup {NoValue} :
            [tier |-> t, trialEnds |-> z, suspended |-> b, perDay |-> v, perPr |-> v] \in Row
      BY DEF Row
    <3> QED  BY <3>2, <3>3, <3>4, Zenon
  <2> QED  BY <2>1, <2>2 DEF Init
<1>2. RowsOK
  <2>1. repos \in Seq([org : Orgs, on : BOOLEAN])
    <3>0. PICK n \in 0..Cardinality(Orgs) : \E s \in [1..n -> Orgs] :
            repos = [i \in 1..n |-> [org |-> s[i], on |-> TRUE]]
      BY DEF Init
    <3>1. PICK s \in [1..n -> Orgs] : repos = [i \in 1..n |-> [org |-> s[i], on |-> TRUE]]
      BY <3>0
    <3>2. n \in Nat
      BY FS_CardinalityType DEF WorkspaceAssumption
    <3>3. \A i \in 1..n : [org |-> s[i], on |-> TRUE] \in [org : Orgs, on : BOOLEAN]
      OBVIOUS
    <3> QED  BY <3>1, <3>2, <3>3, SeqDef
  <2>2. ASSUME NEW o \in Orgs
        PROVE  peak[o] \in Nat /\ EffectivePerDay(o) <= peak[o]
    <3>1. PerDay(org[o], 0) \in Nat
      BY <1>1, LimitIsANumber
    <3>2. peak[o] = PerDay(org[o], 0) /\ EffectivePerDay(o) = PerDay(org[o], 0)
      BY <1>1 DEF Init, EffectivePerDay
    <3> QED  BY <3>1, <3>2
  <2>3. peak \in [Orgs -> Nat]
    BY <2>2 DEF Init
  <2> QED  BY <1>1, <2>1, <2>2, <2>3 DEF RowsOK
<1>3. /\ reviews = {} /\ posts = {} /\ ledgers = <<>> /\ clearing = Idle
      /\ jobs = [j \in Jobs |-> Idle]
      /\ spent = [k \in Keys |-> 0] /\ uncounted = [k \in Keys |-> 0]
  BY DEF Init
<1>4. ReviewsOK
  <2>1. \A o \in Orgs : InWindow(reviews, o) = {}
    BY <1>3 DEF InWindow
  <2>2. \A o \in Orgs : ReviewsToday(o) = 0
    BY <2>1, FS_EmptySet DEF ReviewsToday
  <2>3. \A o \in Orgs : 0 <= peak[o]
    BY <1>2 DEF RowsOK
  <2> QED  BY <1>3, <2>2, <2>3, FS_EmptySet DEF ReviewsOK
<1>5. PostsOK /\ Accounted
  BY <1>3, FS_EmptySet DEF PostsOK, Accounted
<1>6. \A j \in Jobs : jobs[j].pc = "idle"
  BY <1>3 DEF Idle
<1>7. JobsOK
  <2>1. jobs \in [Jobs -> Before \cup After \cup {Idle}]
    BY <1>3
  <2> QED  BY <1>6, <2>1 DEF JobsOK
<1>8. RoomLeft /\ DroppedOnlyIfOutrun
  BY <1>6 DEF RoomLeft, DroppedOnlyIfOutrun, Working
<1>9. LedgersOK
  <2>1. ledgers \in Seq(Ledger) /\ Len(ledgers) = 0 /\ clearing \in Ledger \cup {Idle}
    BY <1>3, EmptySeq
  <2> QED  BY <2>1 DEF LedgersOK, WorkspaceAssumption
<1>10. SpentOK
  <2>1. CountsOK /\ \A k \in Keys : Sure(k) = 0
    BY <1>3 DEF CountsOK, Sure
  <2>2. ASSUME NEW k \in Keys
        PROVE  ByLedger(k)
    <3>1. Used(k) \in Nat
      BY <1>9, UsedIsANumber
    <3>2. Sure(k) <= Used(k) + 1 /\ Sure(k) <= Used(k)
      BY <2>1, <3>1
    <3> QED  BY <3>2 DEF ByLedger
  <2> QED  BY <1>6, <2>1, <2>2 DEF SpentOK, AtIt
<1> QED  BY <1>2, <1>4, <1>5, <1>7, <1>8, <1>9, <1>10 DEF WorkspaceInv

(* Every step keeps the invariant. *)
LEMMA InvIsKept ==
  ASSUME WorkspaceAssumption, WorkspaceInv, [Next]_vars
  PROVE  WorkspaceInv'
<1>1. CASE Next
  <2>1. Steps
    BY <1>1, NextIsASteps DEF WorkspaceInv
  <2>2. RowsOK' /\ ReviewsOK' /\ PostsOK' /\ JobsOK'
    BY <2>1, RowsKept, ReviewsKept, PostsKept, JobsKept DEF WorkspaceInv
  <2>3. Accounted' /\ RoomLeft' /\ DroppedOnlyIfOutrun'
    BY <2>1, AccountsKept, RoomKept DEF WorkspaceInv
  <2>4. LedgersOK'
    BY <2>1, LedgersKept DEF WorkspaceInv
  <2>5. SpentOK'
    BY <2>1, <2>2, <2>4, SpentKept DEF WorkspaceInv
  <2> QED  BY <2>2, <2>3, <2>4, <2>5 DEF WorkspaceInv
<1>2. CASE UNCHANGED vars
  <2>1. UNCHANGED <<now, org, repos, reviews, jobs, peak, posts, missing, ledgers, clearing, spent, uncounted>>
    BY <1>2 DEF vars, ledgerVars
  <2>2. RowsOK' /\ ReviewsOK'
    BY <2>1 DEF WorkspaceInv, RowsOK, ReviewsOK, EffectivePerDay, ReviewsToday, InWindow
  <2>3. PostsOK' /\ JobsOK' /\ Accounted'
    BY <2>1 DEF WorkspaceInv, PostsOK, JobsOK, Accounted, UnderWay
  <2>4. RoomLeft' /\ DroppedOnlyIfOutrun'
    BY <2>1 DEF WorkspaceInv, RoomLeft, DroppedOnlyIfOutrun, Working, DayIsFull, ReviewsToday,
       EffectivePerDay, InWindow
  <2>5. LedgersOK' /\ SpentOK'
    <3>1. \A i \in Jobs : Same(i)
      BY <2>1, AloneIsSame DEF WorkspaceInv
    <3>2. LedgersOK'
      BY <2>1 DEF WorkspaceInv, LedgersOK
    <3>3. SpentOK'
      BY <2>1, <2>3, <3>1, SpentSame DEF WorkspaceInv
    <3> QED  BY <3>2, <3>3
  <2> QED  BY <2>2, <2>3, <2>4, <2>5 DEF WorkspaceInv
<1> QED  BY <1>1, <1>2

(* Each post that counts has a record of its own in the window, so there    *)
(* are no more of them than of records.                                    *)
LEMMA SpendIsRecorded ==
  ASSUME WorkspaceAssumption, WorkspaceInv
  PROVE  SpendIsBounded
<1> SUFFICES ASSUME NEW o \in Orgs
             PROVE  Cardinality(SpentToday(o)) <= peak[o]
  BY DEF SpendIsBounded
<1> DEFINE counted == SpentToday(o)  recorded == InWindow(reviews, o)
           Record(p) == CHOOSE r \in recorded : r.of = p.n
           f == [p \in counted |-> Record(p)]
<1>1. ASSUME NEW p \in counted
      PROVE  \E r \in recorded : r.of = p.n
  <2>1. p \in posts /\ p.org = o /\ p.at >= now - Day /\ p.n \notin missing \cup UnderWay
    BY DEF SpentToday, InWindow
  <2>2. PICK r \in reviews : r.of = p.n /\ r.org = p.org /\ r.at >= p.at
    BY <2>1 DEF WorkspaceInv, Accounted
  <2>3. r.at \in Nat /\ p.at \in Nat /\ now \in Nat /\ Day \in Nat
    BY <2>1 DEF WorkspaceInv, ReviewsOK, PostsOK, RowsOK, WorkspaceAssumption
  <2>4. r.at >= now - Day
    BY <2>1, <2>2, <2>3
  <2> QED  BY <2>1, <2>2, <2>4 DEF InWindow
<1>2. \A p \in counted : f[p] \in recorded /\ f[p].of = p.n
  BY <1>1
<1>3. \A p, q \in counted : f[p] = f[q] => p = q
  <2>1. counted \subseteq posts
    BY DEF SpentToday, InWindow
  <2> QED  BY <1>2, <2>1 DEF WorkspaceInv, PostsOK
<1>4. f \in Injection(counted, recorded)
  BY <1>2, <1>3 DEF Injection, IsInjective
<1>5. IsFiniteSet(recorded) /\ Cardinality(recorded) \in Nat /\ Cardinality(recorded) <= peak[o]
  BY CountIsANumber DEF WorkspaceInv, ReviewsOK, ReviewsToday
<1> HIDE DEF counted, recorded, f
<1>6. IsFiniteSet(counted) /\ Cardinality(counted) <= Cardinality(recorded)
  BY <1>4, <1>5, FS_Injection
<1>7. Cardinality(counted) \in Nat /\ peak[o] \in Nat
  BY <1>6, FS_CardinalityType DEF WorkspaceInv, RowsOK
<1>8. Cardinality(counted) <= peak[o]
  BY <1>5, <1>6, <1>7
<1> QED  BY <1>8 DEF counted

(* A posted review is within what its job was let in on. *)
LEMMA AllowanceIsHeld ==
  ASSUME WorkspaceInv
  PROVE  AllowanceHolds
<1> SUFFICES ASSUME NEW j \in Jobs, jobs[j].pc = "posted"
             PROVE  Sure(jobs[j].key) <= jobs[j].limit + jobs[j].laps
  BY DEF AllowanceHolds, Sure
<1> QED  BY DEF WorkspaceInv, SpentOK, Within

(* The inductive invariant holds, for any limits and any changes of them.  *)
THEOREM InvHolds ==
  ASSUME WorkspaceAssumption
  PROVE  Spec => []WorkspaceInv
<1> QED  BY StartIsFine, InvIsKept, PTL DEF Spec

(* The limits of a workspace hold together, whatever reads and saves fail:  *)
(* what the dashboard refuses was outrun, what counts as spent within a     *)
(* window stays within the highest daily limit, and no pull request gets    *)
(* more than the allowance its gate saw but for reviews the gate could not  *)
(* know of.                                                                *)
THEOREM LimitsAlwaysHold ==
  ASSUME WorkspaceAssumption
  PROVE  Spec => []LimitsHold
<1>1. WorkspaceInv => LimitsHold
  BY SpendIsRecorded, AllowanceIsHeld DEF WorkspaceInv, LimitsHold
<1> QED  BY <1>1, InvHolds, PTL

(* What a step saves is an entry, and no step but a save saves one.        *)
LEMMA NoneSaved ==
  ASSUME \A i \in Jobs : jobs[i].pc = "posted" => jobs'[i].pc # "reporting" \/ ~jobs'[i].saved
  PROVE  SavedNow = {}
  BY DEF SavedNow

LEMMA SaveGoesRight ==
  ASSUME WorkspaceAssumption, WorkspaceInv, NEW j \in Jobs, SaveLedger(j)
  PROVE  \/ ledgers' = ledgers /\ SavedNow = {}
         \/ Kept(ledgers', Entry(j)) /\ SavedNow \subseteq {Entry(j)}
<1>1. /\ jobs[j] \in Before /\ SaveMove(j) /\ \A i \in Jobs \ {j} : Same(i)
  BY SaveIs DEF WorkspaceInv
<1>2. \A i \in Jobs : jobs[i].pc = "posted" /\ jobs'[i].pc = "reporting" => i = j
  <2>1. ASSUME NEW i \in Jobs \ {j}
        PROVE  jobs'[i].pc = jobs[i].pc
    BY <1>1, <2>1 DEF Same
  <2> QED  BY <2>1
<1>3. CASE ~jobs'[j].saved /\ ledgers' = ledgers
  BY <1>2, <1>3, NoneSaved
<1>4. CASE Store(Entry(j), 0)
  <2>1. Entry(j) \in Ledger
    BY <1>1, EntryIs
  <2>2. Kept(ledgers', Entry(j))
    BY <1>4, <2>1, StoreIs DEF WorkspaceInv
  <2>3. SavedNow \subseteq {Entry(j)}
    BY <1>2 DEF SavedNow
  <2> QED  BY <2>2, <2>3
<1> QED  BY <1>1, <1>3, <1>4 DEF SaveMove

(* Steps other than saves forget nothing and save nothing. *)
LEMMA OthersForgetNone ==
  ASSUME WorkspaceAssumption, WorkspaceInv, Steps, ~ClearSaves, ~\E j \in Jobs : SaveLedger(j)
  PROVE  ledgers' = ledgers /\ SavedNow = {}
<1>1. ledgers' = ledgers
  BY DEF Steps, RowStep, RepoStep, ClearStep, ClearReads, JobStep, StoreStep, NoStoreStep,
     GateOpens, Fold, StandDown, Post, ledgerVars
<1>2. ASSUME NEW i \in Jobs, jobs[i].pc = "posted"
      PROVE  jobs'[i].pc # "reporting"
  <2>1. JobsOK /\ PostsOK /\ RowsOK /\ LedgersOK
    BY DEF WorkspaceInv
  <2>2. CASE RowStep
    BY <1>2, <2>1, <2>2, RowStepJobs DEF Same
  <2>3. CASE RepoStep \/ ClearStep
    <3>1. jobs' = jobs
      BY <2>3, ClearStepFrame DEF RepoStep
    <3> QED  BY <1>2, <3>1
  <2>4. ASSUME NEW j \in Jobs, StoreStep(j) \/ NoStoreStep(j)
        PROVE  jobs'[i].pc # "reporting"
    <3>1. jobs[j].pc = "reporting" /\ \A m \in Jobs \ {j} : Same(m)
      BY <2>1, <2>4, StoreStepJobs, NoStoreStepJobs
    <3> QED  BY <1>2, <3>1 DEF Same
  <2>5. ASSUME NEW j \in Jobs, JobStep(j)
        PROVE  jobs'[i].pc # "reporting"
    <3>1. CASE i # j
      <4>1. Same(i)
        BY <2>1, <2>5, <3>1, JobStepIsOnward DEF Onward
      <4> QED  BY <1>2, <4>1 DEF Same
    <3>2. CASE i = j
      BY <1>2, <2>5, <3>2 DEF JobStep, GateOpens, Fold, StandDown, Post
    <3> QED  BY <3>1, <3>2
  <2> QED  BY <2>2, <2>3, <2>4, <2>5 DEF Steps
<1> QED  BY <1>1, <1>2, NoneSaved

(* A ledger that is forgotten, whether stored before or just saved, was     *)
(* updated no later than all that are kept, and as many as may be are kept. *)
THEOREM OnlyTheOldestGoes ==
  ASSUME WorkspaceAssumption
  PROVE  Spec => OldestLedgerGoes
<1> DEFINE Goes == \A l \in Entries \cup SavedNow : ~HasLedger(l.key, ledgers') =>
                     Len(ledgers') = MaxLedgers /\ \A m \in Entries' : l.at <= m.at
<1>1. ASSUME WorkspaceInv, [Next]_vars
      PROVE  [Goes]_vars
  <2>1. SUFFICES ASSUME Next, NEW l \in Entries \cup SavedNow, ~HasLedger(l.key, ledgers')
                 PROVE  Len(ledgers') = MaxLedgers /\ \A m \in Entries' : l.at <= m.at
    BY <1>1
  <2>2. Steps
    BY <1>1, <2>1, NextIsASteps DEF WorkspaceInv
  <2>3. ASSUME NEW e, Kept(ledgers', e), SavedNow \subseteq {e}
        PROVE  Len(ledgers') = MaxLedgers /\ \A m \in Entries' : l.at <= m.at
    <3>1. l \in Entries \cup {e}
      BY <2>1, <2>3
    <3>2. Len(ledgers') = MaxLedgers /\ \A a \in 1..Len(ledgers') : l.at <= ledgers'[a].at
      BY <2>1, <2>3, <3>1 DEF Kept
    <3> QED  BY <3>2 DEF Entries
  <2>4. CASE ledgers' = ledgers /\ SavedNow = {}
    <3>1. l \in Entries
      BY <2>1, <2>4
    <3>2. HasLedger(l.key, ledgers')
      BY <2>4, <3>1 DEF Entries, HasLedger
    <3> QED  BY <2>1, <3>2
  <2>5. ASSUME NEW j \in Jobs, SaveLedger(j)
        PROVE  Len(ledgers') = MaxLedgers /\ \A m \in Entries' : l.at <= m.at
    BY <1>1, <2>3, <2>4, <2>5, SaveGoesRight
  <2>6. CASE ClearSaves
    <3>1. clearing \in Ledger /\ jobs' = jobs
      BY <1>1, <2>6 DEF ClearSaves, WorkspaceInv, LedgersOK
    <3>2. SavedNow = {}
      BY <3>1, NoneSaved
    <3>3. ledgers' = ledgers \/ Store(clearing, Undone)
      BY <2>6 DEF ClearSaves, NotStored
    <3>4. ASSUME Store(clearing, Undone)
          PROVE  Kept(ledgers', clearing)
      BY <1>1, <3>1, <3>4, StoreIs DEF WorkspaceInv
    <3> QED  BY <2>3, <2>4, <3>2, <3>3, <3>4
  <2>7. CASE ~ClearSaves /\ ~\E j \in Jobs : SaveLedger(j)
    BY <1>1, <2>2, <2>4, <2>7, OthersForgetNone
  <2> QED  BY <2>5, <2>6, <2>7
<1> QED  BY <1>1, InvHolds, PTL DEF Spec, OldestLedgerGoes

-----------------------------------------------------------------------------
(***************************************************************************)
(* The model key.  What is kept, under way or used names a key that the    *)
(* workspace had late enough, or tells that there was none or that the     *)
(* read failed.                                                            *)
(***************************************************************************)
Had(had, erred, k, t) ==
  IF k # Fallback THEN k \in ModelKeys /\ had[k] >= t ELSE had[NoKey] >= t \/ erred >= t

AskedKey(had, erred, time, q) ==
  /\ q.at \in Nat /\ q.at <= time /\ time <= q.at + MaxTravel
  /\ IF q.key # NoKey THEN q.key \in ModelKeys /\ had[q.key] >= q.at
     ELSE had[NoKey] >= q.at \/ erred >= q.at

KeptKey(had, erred, time, kp) ==
  kp.exp \in Int /\ (kp.exp > time => Had(had, erred, kp.key, kp.exp - LlmTtl - MaxTravel))

UsedKey(had, erred, u) ==
  u = K!NoCall \/ (u.at \in Nat /\ Had(had, erred, u.key, u.at - LlmTtl - MaxTravel + 1))

KeyInv ==
  /\ tick \in Nat /\ key \in ModelKeys \cup {NoKey} /\ faultAt \in Int
  /\ hadKey \in [ModelKeys \cup {NoKey} -> Int] /\ hadKey[key] >= tick
  /\ faultAt <= tick /\ \A k \in ModelKeys \cup {NoKey} : hadKey[k] <= tick
  /\ \A q \in asked : AskedKey(hadKey, faultAt, tick, q)
  /\ KeptKey(hadKey, faultAt, tick, resolved) /\ UsedKey(hadKey, faultAt, used)

(* What the constants are, as leaves need it. *)
LEMMA KeyConstants ==
  ASSUME K!ModelKeyAssumption
  PROVE  /\ LlmTtl \in Nat /\ LlmTtl > 0 /\ MaxTravel \in Nat
         /\ NoKey \notin ModelKeys /\ Fallback \notin ModelKeys
  BY DEF K!ModelKeyAssumption

(* At the start nothing is kept, under way or used. *)
LEMMA KeyStart ==
  ASSUME K!ModelKeyAssumption, K!Init PROVE KeyInv
  <1>1. K!Never \in Int /\ K!Never <= 0
    BY KeyConstants DEF K!Never
  <1>2. hadKey = [k \in ModelKeys \cup {NoKey} |-> IF k = key THEN 0 ELSE K!Never] /\ key \in ModelKeys \cup {NoKey}
    BY DEF K!Init
  <1>3. hadKey \in [ModelKeys \cup {NoKey} -> Int] /\ hadKey[key] = 0
        /\ \A k \in ModelKeys \cup {NoKey} : hadKey[k] <= 0
    BY <1>1, <1>2
  <1> QED
    BY <1>1, <1>2, <1>3 DEF K!Init, KeyInv, KeptKey, UsedKey

(* What a workspace had is not forgotten, so what is kept, under way or     *)
(* used stays good.                                                         *)
LEMMA KeyKept ==
  ASSUME LlmTtl \in Nat, MaxTravel \in Nat,
         NEW had \in [ModelKeys \cup {NoKey} -> Int], NEW had2 \in [ModelKeys \cup {NoKey} -> Int],
         NEW erred \in Int, NEW erred2 \in Int, NEW time \in Nat, NEW time2 \in Nat,
         \A k \in ModelKeys \cup {NoKey} : had[k] <= had2[k], erred <= erred2, time <= time2
  PROVE  /\ \A q : AskedKey(had, erred, time, q) /\ time2 <= q.at + MaxTravel => AskedKey(had2, erred2, time2, q)
         /\ \A kp : KeptKey(had, erred, time, kp) => KeptKey(had2, erred2, time2, kp)
         /\ \A u : UsedKey(had, erred, u) => UsedKey(had2, erred2, u)
  <1>1. \A k \in ModelKeys \cup {NoKey} : had[k] \in Int /\ had2[k] \in Int
    OBVIOUS
  <1>2. ASSUME NEW k, NEW t \in Int, Had(had, erred, k, t) PROVE Had(had2, erred2, k, t)
    <2>1. CASE k # Fallback
      <3>1. k \in ModelKeys /\ had[k] >= t
        BY <1>2, <2>1 DEF Had
      <3>2. had2[k] >= t
        BY <1>1, <3>1
      <3> QED
        BY <2>1, <3>1, <3>2 DEF Had
    <2>2. CASE k = Fallback
      <3>1. had[NoKey] >= t \/ erred >= t
        BY <1>2, <2>2 DEF Had
      <3>2. had2[NoKey] >= t \/ erred2 >= t
        BY <1>1, <3>1
      <3> QED
        BY <2>2, <3>2 DEF Had
    <2> QED
      BY <2>1, <2>2
  <1>3. ASSUME NEW q, AskedKey(had, erred, time, q), time2 <= q.at + MaxTravel
        PROVE  AskedKey(had2, erred2, time2, q)
    <2>1. q.at \in Nat /\ q.at <= time
      BY <1>3 DEF AskedKey
    <2>2. q.at <= time2
      BY <2>1
    <2>3. CASE q.key # NoKey
      <3>1. q.key \in ModelKeys /\ had[q.key] >= q.at
        BY <1>3, <2>3 DEF AskedKey
      <3>2. had2[q.key] >= q.at
        BY <1>1, <2>1, <3>1
      <3> QED
        BY <1>3, <2>1, <2>2, <2>3, <3>1, <3>2 DEF AskedKey
    <2>4. CASE q.key = NoKey
      <3>1. had[NoKey] >= q.at \/ erred >= q.at
        BY <1>3, <2>4 DEF AskedKey
      <3>2. had2[NoKey] >= q.at \/ erred2 >= q.at
        BY <1>1, <2>1, <3>1
      <3> QED
        BY <1>3, <2>1, <2>2, <2>4, <3>2 DEF AskedKey
    <2> QED
      BY <2>3, <2>4
  <1>4. ASSUME NEW kp, KeptKey(had, erred, time, kp) PROVE KeptKey(had2, erred2, time2, kp)
    <2>1. kp.exp \in Int /\ kp.exp - LlmTtl - MaxTravel \in Int
      BY <1>4 DEF KeptKey
    <2>2. kp.exp > time2 => kp.exp > time
      BY <2>1
    <2> QED
      BY <1>2, <1>4, <2>1, <2>2 DEF KeptKey
  <1>5. ASSUME NEW u, UsedKey(had, erred, u) PROVE UsedKey(had2, erred2, u)
    <2>1. CASE u = K!NoCall
      BY <2>1 DEF UsedKey
    <2>2. CASE u # K!NoCall
      <3>1. u.at \in Nat /\ Had(had, erred, u.key, u.at - LlmTtl - MaxTravel + 1)
        BY <1>5, <2>2 DEF UsedKey
      <3>2. u.at - LlmTtl - MaxTravel + 1 \in Int
        BY <3>1
      <3> QED
        BY <1>2, <3>1, <3>2 DEF UsedKey
    <2> QED
      BY <2>1, <2>2
  <1> QED
    BY <1>3, <1>4, <1>5

(* Time passes, or the owner saves a key: what the workspace has, it has now. *)
LEMMA KeyOwners ==
  ASSUME K!ModelKeyAssumption, KeyInv, K!Tick \/ \E k \in ModelKeys \cup {NoKey} : K!SetKey(k)
  PROVE  KeyInv'
  <1> DEFINE All == ModelKeys \cup {NoKey}
  <1>1. /\ tick \in Nat /\ hadKey \in [All -> Int] /\ key \in All /\ \A k \in All : hadKey[k] <= tick
        /\ LlmTtl \in Nat /\ MaxTravel \in Nat /\ faultAt \in Int /\ faultAt <= tick
    BY KeyConstants DEF KeyInv
  <1>2. /\ faultAt' = faultAt /\ used' = used /\ resolved' = resolved /\ asked' = asked
        /\ key' \in All /\ tick' \in Nat /\ tick <= tick' /\ hadKey' \in [All -> Int]
        /\ \A k \in All : hadKey'[k] \in {hadKey[k], tick'}
        /\ hadKey'[key'] >= tick'
        /\ \A q \in asked : tick' <= q.at + MaxTravel
    <2>1. CASE K!Tick
      <3>1. tick' = tick + 1 /\ key' = key /\ hadKey' = [hadKey EXCEPT ![key] = tick + 1]
        BY <2>1 DEF K!Tick
      <3>2. \A q \in asked : tick' <= q.at + MaxTravel
        BY <1>1, <2>1, <3>1 DEF K!Tick, KeyInv, AskedKey
      <3> QED
        BY <1>1, <2>1, <3>1, <3>2 DEF K!Tick
    <2>2. ASSUME NEW k \in All, K!SetKey(k)
          PROVE  /\ tick' = tick /\ key' = k /\ hadKey' = [hadKey EXCEPT ![key] = tick, ![k] = tick]
                 /\ faultAt' = faultAt /\ used' = used /\ resolved' = resolved /\ asked' = asked
      BY <2>2 DEF K!SetKey
    <2>3. CASE \E k \in All : K!SetKey(k)
      <3>1. PICK k \in All : K!SetKey(k)
        BY <2>3
      <3>2. \A q \in asked : tick' <= q.at + MaxTravel
        BY <2>2, <3>1 DEF KeyInv, AskedKey
      <3> QED
        BY <1>1, <2>2, <3>1, <3>2
    <2> QED
      BY <2>1, <2>3
  <1>3. \A k \in All : hadKey[k] <= hadKey'[k] /\ hadKey'[k] <= tick' /\ hadKey[k] \in Int
    BY <1>1, <1>2
  <1>4. /\ \A q \in asked : AskedKey(hadKey, faultAt, tick, q)
        /\ KeptKey(hadKey, faultAt, tick, resolved) /\ UsedKey(hadKey, faultAt, used)
    BY DEF KeyInv
  <1>5. /\ \A q : AskedKey(hadKey, faultAt, tick, q) /\ tick' <= q.at + MaxTravel => AskedKey(hadKey', faultAt, tick', q)
        /\ \A kp : KeptKey(hadKey, faultAt, tick, kp) => KeptKey(hadKey', faultAt, tick', kp)
        /\ \A u : UsedKey(hadKey, faultAt, u) => UsedKey(hadKey', faultAt, u)
    <2>1. faultAt <= faultAt
      BY <1>1
    <2> QED
      BY <1>1, <1>2, <1>3, <2>1, KeyKept
  <1>6. /\ \A q \in asked' : AskedKey(hadKey', faultAt', tick', q)
        /\ KeptKey(hadKey', faultAt', tick', resolved') /\ UsedKey(hadKey', faultAt', used')
    BY <1>2, <1>4, <1>5
  <1> QED
    BY <1>1, <1>2, <1>3, <1>6 DEF KeyInv

(* The control plane answers a read with the key it has now, or fails.      *)
LEMMA KeyAsk ==
  ASSUME K!ModelKeyAssumption, KeyInv, K!Ask PROVE KeyInv'
  <1> DEFINE All == ModelKeys \cup {NoKey}
  <1>1. /\ tick \in Nat /\ hadKey \in [All -> Int] /\ key \in All /\ hadKey[key] >= tick
        /\ LlmTtl \in Nat /\ MaxTravel \in Nat /\ faultAt \in Int /\ faultAt <= tick
    BY KeyConstants DEF KeyInv
  <1>2. /\ tick' = tick /\ key' = key /\ hadKey' = hadKey /\ resolved' = resolved /\ used' = used
        /\ \/ asked' = asked \cup {[key |-> key, at |-> tick]} /\ faultAt' = faultAt
           \/ asked' = asked \cup {[key |-> NoKey, at |-> tick]} /\ faultAt' = tick
    BY DEF K!Ask
  <1>3. faultAt' \in Int /\ faultAt <= faultAt' /\ faultAt' <= tick
    BY <1>1, <1>2
  <1>4. /\ \A q \in asked : AskedKey(hadKey, faultAt', tick, q)
        /\ KeptKey(hadKey, faultAt', tick, resolved) /\ UsedKey(hadKey, faultAt', used)
    <2>1. /\ \A q \in asked : AskedKey(hadKey, faultAt, tick, q) /\ tick <= q.at + MaxTravel
          /\ KeptKey(hadKey, faultAt, tick, resolved) /\ UsedKey(hadKey, faultAt, used)
      BY DEF KeyInv, AskedKey
    <2>2. (\A k \in All : hadKey[k] <= hadKey[k]) /\ tick <= tick
      BY <1>1
    <2>3. /\ \A q : AskedKey(hadKey, faultAt, tick, q) /\ tick <= q.at + MaxTravel => AskedKey(hadKey, faultAt', tick, q)
          /\ \A kp : KeptKey(hadKey, faultAt, tick, kp) => KeptKey(hadKey, faultAt', tick, kp)
          /\ \A u : UsedKey(hadKey, faultAt, u) => UsedKey(hadKey, faultAt', u)
      BY <1>1, <1>3, <2>2, KeyKept
    <2> QED
      BY <2>1, <2>3
  <1>5. \A q \in asked' : AskedKey(hadKey, faultAt', tick, q)
    <2>1. CASE asked' = asked \cup {[key |-> key, at |-> tick]}
      <3>1. AskedKey(hadKey, faultAt', tick, [key |-> key, at |-> tick])
        BY <1>1 DEF AskedKey
      <3> QED
        BY <1>4, <2>1, <3>1
    <2>2. CASE asked' = asked \cup {[key |-> NoKey, at |-> tick]} /\ faultAt' = tick
      <3>1. AskedKey(hadKey, faultAt', tick, [key |-> NoKey, at |-> tick])
        BY <1>1, <2>2 DEF AskedKey
      <3> QED
        BY <1>4, <2>2, <3>1
    <2> QED
      BY <1>2, <2>1, <2>2
  <1> QED
    BY <1>2, <1>3, <1>4, <1>5 DEF KeyInv

(* An answer that arrives, or a kept key, is used in time.                  *)
LEMMA KeyAnswer ==
  ASSUME K!ModelKeyAssumption, KeyInv, K!Complete \/ \E q \in asked : K!Answer(q) PROVE KeyInv'
  <1> DEFINE All == ModelKeys \cup {NoKey}
  <1>1. /\ tick \in Nat /\ LlmTtl \in Nat /\ LlmTtl > 0 /\ MaxTravel \in Nat
        /\ NoKey \notin ModelKeys /\ Fallback \notin ModelKeys
        /\ hadKey \in [All -> Int] /\ faultAt \in Int
    BY KeyConstants DEF KeyInv
  <1>2. tick' = tick /\ key' = key /\ hadKey' = hadKey /\ faultAt' = faultAt /\ asked' \subseteq asked
    BY DEF K!Complete, K!Answer
  <1>3. KeptKey(hadKey, faultAt, tick, resolved') /\ UsedKey(hadKey, faultAt, used')
    <2>1. CASE K!Complete
      <3>1. resolved' = resolved /\ used' = [key |-> resolved.key, at |-> tick] /\ resolved.exp > tick
        BY <2>1 DEF K!Complete, K!Live
      <3>2. resolved.exp \in Int /\ Had(hadKey, faultAt, resolved.key, resolved.exp - LlmTtl - MaxTravel)
        BY <3>1 DEF KeyInv, KeptKey
      <3>3. \A k \in All : hadKey[k] \in Int
        BY <1>1
      <3>4. Had(hadKey, faultAt, resolved.key, tick - LlmTtl - MaxTravel + 1)
        <4>1. \A n \in Int : n >= resolved.exp - LlmTtl - MaxTravel => n >= tick - LlmTtl - MaxTravel + 1
          BY <1>1, <3>1, <3>2
        <4> QED
          BY <1>1, <3>2, <3>3, <4>1 DEF Had
      <3> QED
        BY <1>1, <3>1, <3>4 DEF KeyInv, UsedKey
    <2>2. ASSUME NEW q \in asked, K!Answer(q)
          PROVE  KeptKey(hadKey, faultAt, tick, resolved') /\ UsedKey(hadKey, faultAt, used')
      <3>1. CASE K!Config(q.key) = NoKey
        BY <2>2, <3>1 DEF K!Answer, KeyInv
      <3>2. CASE K!Config(q.key) # NoKey
        <4> DEFINE k == K!Config(q.key)
        <4>1. resolved' = [key |-> k, exp |-> tick + LlmTtl] /\ used' = [key |-> k, at |-> tick]
          BY <2>2, <3>2 DEF K!Answer
        <4>2. AskedKey(hadKey, faultAt, tick, q)
          BY DEF KeyInv
        <4>3. q.at \in Nat /\ tick <= q.at + MaxTravel
          BY <4>2 DEF AskedKey
        <4>4. Had(hadKey, faultAt, k, q.at)
          <5>1. CASE q.key = NoKey
            BY <3>2, <4>2, <5>1 DEF AskedKey, K!Config, Had
          <5>2. CASE q.key # NoKey
            BY <1>1, <4>2, <5>2 DEF AskedKey, K!Config, Had
          <5> QED
            BY <5>1, <5>2
        <4> HIDE DEF k
        <4>5. \A n \in Int : n >= q.at => /\ n >= tick - MaxTravel
                                          /\ n >= (tick + LlmTtl) - LlmTtl - MaxTravel
                                          /\ n >= tick - LlmTtl - MaxTravel + 1
          BY <1>1, <4>3
        <4>6. \A j \in All : hadKey[j] \in Int
          BY <1>1
        <4>7. /\ Had(hadKey, faultAt, k, (tick + LlmTtl) - LlmTtl - MaxTravel)
              /\ Had(hadKey, faultAt, k, tick - LlmTtl - MaxTravel + 1)
          BY <1>1, <4>4, <4>5, <4>6 DEF Had
        <4> QED
          BY <1>1, <4>1, <4>7 DEF KeptKey, UsedKey
      <3> QED
        BY <3>1, <3>2
    <2> QED
      BY <2>1, <2>2
  <1> QED
    BY <1>2, <1>3 DEF KeyInv

(* KeyIsRecent holds for any keys, any number of reads at once, any length  *)
(* of the cache and of an answer's way, and any faults.                     *)
THEOREM KeyStaysRecent == ASSUME K!ModelKeyAssumption PROVE K!Spec => []K!KeyIsRecent
  <1>1. K!Init => KeyInv
    BY KeyStart
  <1>2. KeyInv /\ [K!Next]_K!vars => KeyInv'
    <2> SUFFICES ASSUME KeyInv, [K!Next]_K!vars PROVE KeyInv'
      OBVIOUS
    <2>1. CASE K!Tick \/ \E k \in ModelKeys \cup {NoKey} : K!SetKey(k)
      BY <2>1, KeyOwners
    <2>2. CASE K!Ask
      BY <2>2, KeyAsk
    <2>3. CASE K!Complete \/ \E q \in asked : K!Answer(q)
      BY <2>3, KeyAnswer
    <2>4. CASE UNCHANGED K!vars
      BY <2>4 DEF K!vars, KeyInv
    <2> QED
      BY <2>1, <2>2, <2>3, <2>4 DEF K!Next
  <1>3. KeyInv => K!KeyIsRecent
    <2> SUFFICES ASSUME KeyInv, used # K!NoCall PROVE K!KeyIsRecent
      BY DEF K!KeyIsRecent
    <2>1. used.at \in Nat /\ Had(hadKey, faultAt, used.key, used.at - LlmTtl - MaxTravel + 1)
      BY DEF KeyInv, UsedKey
    <2>2. /\ LlmTtl \in Nat /\ MaxTravel \in Nat /\ faultAt \in Int
          /\ \A k \in ModelKeys \cup {NoKey} : hadKey[k] \in Int
      BY KeyConstants DEF KeyInv
    <2>3. \A n \in Int : n >= used.at - LlmTtl - MaxTravel + 1 => n > used.at - LlmTtl - MaxTravel
      BY <2>1, <2>2
    <2> QED
      BY <2>1, <2>2, <2>3 DEF Had, K!KeyIsRecent
  <1> QED
    BY <1>1, <1>2, <1>3, PTL DEF K!Spec

-----------------------------------------------------------------------------
(***************************************************************************)
(* The settings.  What a row says, with the defaults for what it lacks, is *)
(* what its owner chose; a configuration under way or cached was somebody's *)
(* choice when it was answered.                                             *)
(***************************************************************************)
Configs == [S!Switches -> BOOLEAN]

\* A workspace's choice let what this one lets through, and no more, at t or later.
Chose(heard, o, config, t) == \A draft \in BOOLEAN : heard[o][draft][S!Allows(config, draft)] >= t

\* A configuration on its way to a job, an entry of the cache, and a review.
GoodAnswer(heard, time, o, a) ==
  a.config \in Configs /\ a.at \in Nat /\ a.at <= time /\ time <= a.at + Wait /\ Chose(heard, o, a.config, a.at)

GoodEntry(heard, e) ==
  e.org \in Spaces /\ e.config \in Configs /\ e.at \in Nat /\ Chose(heard, e.org, e.config, e.at - Wait)

GoodRun(heard, r) ==
  r = S!NoRun \/ ~r.read
  \/ (r.org \in Spaces /\ r.draft \in BOOLEAN /\ r.starts \in BOOLEAN /\ r.at \in Nat
      /\ heard[r.org][r.draft][r.starts] >= r.at - ReviewTtl - Wait + 1)

SaidType == [Spaces -> [BOOLEAN -> [BOOLEAN -> Int]]]

OwnersInv ==
  /\ minute \in Nat /\ knows \subseteq S!Switches
  /\ DOMAIN rows = Spaces /\ chosen \in [Spaces -> Configs]
  /\ \A o \in Spaces : DOMAIN rows[o] \subseteq S!Switches /\ chosen[o] = S!Coerce(rows[o])
  /\ said \in SaidType /\ \A o \in Spaces, d \in BOOLEAN, y \in BOOLEAN : said[o][d][y] <= minute
  /\ \A o \in Spaces : Chose(said, o, chosen[o], minute)

SettingsInv ==
  /\ OwnersInv
  /\ DOMAIN stage = Gates /\ DOMAIN answer = Gates
  /\ \A j \in Gates : stage[j] = "asked" => GoodAnswer(said, minute, SpaceOf[j], answer[j])
  /\ configs \in Seq([org : Spaces, at : Nat, config : Configs])
  /\ \A i \in DOMAIN configs : GoodEntry(said, configs[i])
  /\ GoodRun(said, ran)

(* A row that is filled from a version's defaults says the same.            *)
LEMMA ConfigSent ==
  ASSUME OwnersInv, NEW o \in Spaces
  PROVE  /\ S!Coerce(S!Sent(o)) = chosen[o] /\ DOMAIN S!Sent(o) = DOMAIN rows[o] \cup knows
         /\ \A s \in DOMAIN S!Sent(o) : S!Sent(o)[s] = chosen[o][s]
  <1>1. /\ knows \subseteq S!Switches /\ DOMAIN rows[o] \subseteq S!Switches /\ chosen[o] = S!Coerce(rows[o])
    BY DEF OwnersInv
  <1>2. S!DefaultConfig = [s \in S!Switches |-> s = "autoReview"]
    BY DEF S!DefaultConfig, S!Default
  <1>3. chosen[o] = [s \in S!Switches |-> IF s \in DOMAIN rows[o] THEN rows[o][s] ELSE s = "autoReview"]
    BY <1>1, <1>2 DEF S!Coerce, S!Filled
  <1>4. S!Sent(o) = [s \in knows \cup DOMAIN rows[o] |-> IF s \in DOMAIN rows[o] THEN rows[o][s] ELSE s = "autoReview"]
    BY DEF S!Sent, S!Filled, S!Default
  <1>5. \A s \in DOMAIN S!Sent(o) : S!Sent(o)[s] = chosen[o][s]
    BY <1>1, <1>3, <1>4
  <1>6. S!Coerce(S!Sent(o)) = [s \in S!Switches |-> IF s \in DOMAIN S!Sent(o) THEN S!Sent(o)[s] ELSE s = "autoReview"]
    BY <1>1, <1>2, <1>4 DEF S!Coerce, S!Filled
  <1> QED
    BY <1>1, <1>3, <1>4, <1>5, <1>6

(* What a configuration lets through is a yes or a no.                      *)
LEMMA AllowsType ==
  ASSUME NEW config \in Configs, NEW draft \in BOOLEAN PROVE S!Allows(config, draft) \in BOOLEAN
  BY DEF Configs, S!Allows, S!Switches

(* What was said stays said, so answers, entries and runs stay good.        *)
LEMMA SettingsKept ==
  ASSUME Wait \in Nat, ReviewTtl \in Nat,
         NEW heard \in SaidType, NEW heard2 \in SaidType,
         \A o \in Spaces, d \in BOOLEAN, y \in BOOLEAN : heard[o][d][y] <= heard2[o][d][y],
         NEW time \in Nat, NEW time2 \in Nat, time <= time2
  PROVE  /\ \A o \in Spaces : \A a : GoodAnswer(heard, time, o, a) /\ time2 <= a.at + Wait => GoodAnswer(heard2, time2, o, a)
         /\ \A e : GoodEntry(heard, e) => GoodEntry(heard2, e)
         /\ \A r : GoodRun(heard, r) => GoodRun(heard2, r)
  <1>1. ASSUME NEW o \in Spaces, NEW d \in BOOLEAN, NEW y \in BOOLEAN, NEW t \in Int, heard[o][d][y] >= t
        PROVE  heard2[o][d][y] >= t
    <2>1. heard[o][d][y] \in Int /\ heard2[o][d][y] \in Int /\ heard[o][d][y] <= heard2[o][d][y]
      BY DEF SaidType
    <2> QED
      BY <1>1, <2>1
  <1>2. ASSUME NEW o \in Spaces, NEW config \in Configs, NEW t \in Int, Chose(heard, o, config, t)
        PROVE  Chose(heard2, o, config, t)
    <2> SUFFICES ASSUME NEW d \in BOOLEAN PROVE heard2[o][d][S!Allows(config, d)] >= t
      BY DEF Chose
    <2>1. heard[o][d][S!Allows(config, d)] >= t
      BY <1>2 DEF Chose
    <2> QED
      BY <1>1, <2>1, AllowsType
  <1>3. ASSUME NEW o \in Spaces, NEW a, GoodAnswer(heard, time, o, a), time2 <= a.at + Wait
        PROVE  GoodAnswer(heard2, time2, o, a)
    <2>1. a.config \in Configs /\ a.at \in Nat /\ a.at <= time /\ Chose(heard, o, a.config, a.at)
      BY <1>3 DEF GoodAnswer
    <2>2. a.at <= time2 /\ a.at \in Int
      BY <2>1
    <2>3. Chose(heard2, o, a.config, a.at)
      BY <1>2, <2>1, <2>2
    <2> QED
      BY <1>3, <2>1, <2>2, <2>3 DEF GoodAnswer
  <1>4. ASSUME NEW e, GoodEntry(heard, e) PROVE GoodEntry(heard2, e)
    <2>1. e.org \in Spaces /\ e.config \in Configs /\ e.at \in Nat /\ Chose(heard, e.org, e.config, e.at - Wait)
      BY <1>4 DEF GoodEntry
    <2>2. e.at - Wait \in Int
      BY <2>1
    <2> QED
      BY <1>2, <2>1, <2>2 DEF GoodEntry
  <1>5. ASSUME NEW r, GoodRun(heard, r) PROVE GoodRun(heard2, r)
    <2>1. CASE r = S!NoRun \/ ~r.read
      BY <2>1 DEF GoodRun
    <2>2. CASE ~(r = S!NoRun \/ ~r.read)
      <3>1. /\ r.org \in Spaces /\ r.draft \in BOOLEAN /\ r.starts \in BOOLEAN /\ r.at \in Nat
            /\ heard[r.org][r.draft][r.starts] >= r.at - ReviewTtl - Wait + 1
        BY <1>5, <2>2 DEF GoodRun
      <3>2. r.at - ReviewTtl - Wait + 1 \in Int
        BY <3>1
      <3> QED
        BY <1>1, <3>1, <3>2 DEF GoodRun
    <2> QED
      BY <2>1, <2>2
  <1> QED
    BY <1>3, <1>4, <1>5

\* The times to live are numbers, and each gate belongs to a workspace.
LEMMA SettingsConstants ==
  ASSUME S!SettingsAssumption
  PROVE  Wait \in Nat /\ ReviewTtl \in Nat /\ ReviewTtl > 0 /\ SpaceOf \in [Gates -> Spaces]
  BY DEF S!SettingsAssumption

\* S!SaidAt, of any such record.
Saying(heard, choice, time) ==
  [o \in Spaces |-> [draft \in BOOLEAN |-> [yes \in BOOLEAN |->
     IF yes = S!Allows(choice[o], draft) THEN time ELSE heard[o][draft][yes]]]]

(* What an owner's choice says, it says from now on.                        *)
LEMMA SaidNow ==
  ASSUME NEW heard \in SaidType, NEW choice \in [Spaces -> Configs], NEW time \in Nat, NEW heard2,
         \A o \in Spaces, d \in BOOLEAN, y \in BOOLEAN : heard[o][d][y] <= time,
         heard2 = Saying(heard, choice, time)
  PROVE  /\ heard2 \in SaidType
         /\ \A o \in Spaces, d \in BOOLEAN, y \in BOOLEAN : heard[o][d][y] <= heard2[o][d][y] /\ heard2[o][d][y] <= time
         /\ \A o \in Spaces : Chose(heard2, o, choice[o], time)
  <1>1. ASSUME NEW o \in Spaces, NEW d \in BOOLEAN, NEW y \in BOOLEAN
        PROVE  /\ heard[o][d][y] \in Int /\ heard2[o][d][y] \in {time, heard[o][d][y]}
               /\ (y = S!Allows(choice[o], d) => heard2[o][d][y] = time)
    BY DEF SaidType, Saying
  <1>2. ASSUME NEW o \in Spaces, NEW d \in BOOLEAN, NEW y \in BOOLEAN
        PROVE  heard2[o][d][y] \in Int /\ heard[o][d][y] <= heard2[o][d][y] /\ heard2[o][d][y] <= time
    BY <1>1
  <1>3. heard2 \in SaidType
    BY <1>2 DEF SaidType, Saying
  <1>4. ASSUME NEW o \in Spaces PROVE Chose(heard2, o, choice[o], time)
    <2> SUFFICES ASSUME NEW d \in BOOLEAN PROVE heard2[o][d][S!Allows(choice[o], d)] >= time
      BY DEF Chose
    <2>1. S!Allows(choice[o], d) \in BOOLEAN
      BY AllowsType
    <2>2. heard2[o][d][S!Allows(choice[o], d)] = time
      BY <1>1, <2>1
    <2> QED
      BY <2>2
  <1> QED
    BY <1>2, <1>3, <1>4

(* At the start every owner has the defaults.                               *)
LEMMA SettingsStart ==
  ASSUME S!SettingsAssumption, S!Init PROVE SettingsInv
  <1>1. S!DefaultConfig = [s \in S!Switches |-> s = "autoReview"] /\ S!DefaultConfig \in Configs
    BY DEF S!DefaultConfig, S!Default, Configs
  <1>2. \A o \in Spaces : rows[o] = <<>> /\ chosen[o] = S!DefaultConfig
    BY DEF S!Init
  <1>3. \A o \in Spaces : DOMAIN rows[o] \subseteq S!Switches /\ chosen[o] = S!Coerce(rows[o])
    BY <1>1, <1>2 DEF S!Coerce, S!Filled
  <1>4. minute = 0 /\ ReviewTtl \in Nat /\ Wait \in Nat
    BY SettingsConstants DEF S!Init
  <1>5. \A o \in Spaces, d \in BOOLEAN, y \in BOOLEAN :
          said[o][d][y] = IF y = ~d THEN 0 ELSE 0 - ReviewTtl - Wait
    BY DEF S!Init
  <1>6. 0 - ReviewTtl - Wait \in Int /\ 0 - ReviewTtl - Wait <= 0
    BY <1>4
  <1>7. said \in SaidType /\ \A o \in Spaces, d \in BOOLEAN, y \in BOOLEAN : said[o][d][y] <= minute
    <2>1. said = [o \in Spaces |-> [draft \in BOOLEAN |-> [yes \in BOOLEAN |->
                  IF yes = ~draft THEN 0 ELSE 0 - ReviewTtl - Wait]]]
      BY DEF S!Init
    <2> QED
      BY <1>4, <1>6, <2>1 DEF SaidType
  <1>8. ASSUME NEW o \in Spaces PROVE Chose(said, o, chosen[o], minute)
    <2> SUFFICES ASSUME NEW d \in BOOLEAN PROVE said[o][d][S!Allows(S!DefaultConfig, d)] >= 0
      BY <1>2, <1>4 DEF Chose
    <2>1. S!Allows(S!DefaultConfig, d) = ~d
      BY <1>1 DEF S!Allows, S!Switches
    <2>2. said[o][d][~d] = 0
      BY <1>5
    <2> QED
      BY <2>1, <2>2
  <1>9. OwnersInv
    <2>1. knows \subseteq S!Switches /\ DOMAIN rows = Spaces /\ chosen = [o \in Spaces |-> S!DefaultConfig]
      BY DEF S!Init, S!Switches
    <2>2. chosen \in [Spaces -> Configs]
      BY <1>1, <2>1
    <2>3. minute \in Nat
      BY <1>4
    <2> QED
      BY <1>3, <1>7, <1>8, <2>1, <2>2, <2>3 DEF OwnersInv
  <1> QED
    BY <1>9 DEF S!Init, SettingsInv, GoodRun

(* Where the rows and the choices stay, what they say does.                 *)
LEMMA OwnersStay ==
  ASSUME OwnersInv, rows' = rows, chosen' = chosen, minute' \in Nat, knows' \subseteq S!Switches, said' \in SaidType,
         \A o \in Spaces, d \in BOOLEAN, y \in BOOLEAN : said'[o][d][y] <= minute',
         \A o \in Spaces : Chose(said', o, chosen[o], minute')
  PROVE  OwnersInv'
  <1>1. /\ DOMAIN rows' = Spaces /\ chosen' \in [Spaces -> Configs]
        /\ \A o \in Spaces : DOMAIN rows'[o] \subseteq S!Switches /\ chosen'[o] = S!Coerce(rows'[o])
    BY DEF OwnersInv
  <1>2. \A o \in Spaces : Chose(said', o, chosen'[o], minute')
    OBVIOUS
  <1> QED
    BY <1>1, <1>2 DEF OwnersInv

\* A step that leaves the owners' side alone.
LEMMA OwnersSame ==
  ASSUME OwnersInv, rows' = rows, chosen' = chosen, minute' = minute, knows' = knows, said' = said
  PROVE  OwnersInv'
  <1>1. /\ minute \in Nat /\ knows \subseteq S!Switches /\ said \in SaidType
        /\ \A o \in Spaces, d \in BOOLEAN, y \in BOOLEAN : said[o][d][y] <= minute
        /\ \A o \in Spaces : Chose(said, o, chosen[o], minute)
    BY DEF OwnersInv
  <1>2. /\ minute' \in Nat /\ knows' \subseteq S!Switches /\ said' \in SaidType
        /\ \A o \in Spaces, d \in BOOLEAN, y \in BOOLEAN : said'[o][d][y] <= minute'
        /\ \A o \in Spaces : Chose(said', o, chosen[o], minute')
    BY <1>1
  <1> QED
    BY <1>2, OwnersStay

(* The owner changes a switch, the control plane is upgraded, time passes.  *)
LEMMA OwnersKeep ==
  ASSUME S!SettingsAssumption, SettingsInv,
         \/ S!Tick \/ S!Upgrade
         \/ \E o \in Spaces : S!SetEnabled(o) \/ \E s \in S!Switches, on \in BOOLEAN : S!SetSwitch(o, [t \in {s} |-> on])
  PROVE  SettingsInv'
  <1>1. OwnersInv /\ Wait \in Nat /\ ReviewTtl \in Nat /\ SpaceOf \in [Gates -> Spaces]
    BY SettingsConstants DEF SettingsInv
  <1>2. /\ minute \in Nat /\ said \in SaidType /\ chosen \in [Spaces -> Configs]
        /\ \A o \in Spaces, d \in BOOLEAN, y \in BOOLEAN : said[o][d][y] <= minute
        /\ \A o \in Spaces, d \in BOOLEAN, y \in BOOLEAN : said[o][d][y] \in Int
    BY <1>1 DEF OwnersInv, SaidType
  <1>3. /\ configs' = configs /\ stage' = stage /\ answer' = answer /\ ran' = ran
    BY DEF S!Tick, S!Upgrade, S!SetEnabled, S!SetSwitch, S!jobs
  <1>4. /\ OwnersInv' /\ minute <= minute'
        /\ \A o \in Spaces, d \in BOOLEAN, y \in BOOLEAN : said[o][d][y] <= said'[o][d][y]
        /\ \A j \in Gates : stage[j] = "asked" => minute' <= answer[j].at + Wait
    <2>1. \A j \in Gates : stage[j] = "asked" => answer[j].at \in Nat /\ minute <= answer[j].at + Wait
      BY DEF SettingsInv, GoodAnswer
    <2>2. CASE S!Tick
      <3>1. /\ minute' = minute + 1 /\ knows' = knows /\ rows' = rows /\ chosen' = chosen
            /\ \A j \in Gates : stage[j] = "asked" => minute - answer[j].at < Wait
            /\ said' = S!SaidAt(minute + 1, chosen)
        BY <2>2 DEF S!Tick
      <3>2. minute + 1 \in Nat /\ \A o \in Spaces, d \in BOOLEAN, y \in BOOLEAN : said[o][d][y] <= minute + 1
        BY <1>2
      <3> DEFINE next == minute + 1
      <3>7. said' = Saying(said, chosen, next)
        BY <3>1 DEF S!SaidAt, Saying
      <3>8. next \in Nat /\ \A o \in Spaces, d \in BOOLEAN, y \in BOOLEAN : said[o][d][y] <= next
        BY <3>2
      <3> HIDE DEF next
      <3>9. /\ said' \in SaidType
            /\ \A o \in Spaces, d \in BOOLEAN, y \in BOOLEAN : said[o][d][y] <= said'[o][d][y] /\ said'[o][d][y] <= next
            /\ \A o \in Spaces : Chose(said', o, chosen[o], next)
        BY <1>2, <3>7, <3>8, SaidNow
      <3>3. /\ said' \in SaidType
            /\ \A o \in Spaces, d \in BOOLEAN, y \in BOOLEAN : said[o][d][y] <= said'[o][d][y] /\ said'[o][d][y] <= minute + 1
            /\ \A o \in Spaces : Chose(said', o, chosen[o], minute + 1)
        BY <3>9 DEF next
      <3>4. minute + 1 \in Nat /\ minute <= minute + 1
        BY <1>2
      <3>5. OwnersInv'
        <4>1. knows' \subseteq S!Switches
          BY <1>1, <3>1 DEF OwnersInv
        <4>2. /\ minute' \in Nat /\ \A o \in Spaces, d \in BOOLEAN, y \in BOOLEAN : said'[o][d][y] <= minute'
              /\ \A o \in Spaces : Chose(said', o, chosen[o], minute')
          BY <3>1, <3>3, <3>4
        <4> QED
          BY <1>1, <3>1, <3>3, <4>1, <4>2, OwnersStay
      <3>6. \A j \in Gates : stage[j] = "asked" => minute' <= answer[j].at + Wait
        BY <1>1, <1>2, <2>1, <3>1
      <3> QED
        BY <3>1, <3>3, <3>4, <3>5, <3>6
    <2>3. CASE S!Upgrade \/ \E o \in Spaces : S!SetEnabled(o)
      <3>1. /\ minute' = minute /\ knows' \subseteq S!Switches /\ rows' = rows /\ chosen' = chosen /\ said' = said
        BY <1>1, <2>3 DEF S!Upgrade, S!SetEnabled, OwnersInv
      <3>2. OwnersInv'
        <4>1. \A o \in Spaces, d \in BOOLEAN, y \in BOOLEAN : said[o][d][y] <= minute
          BY <1>2
        <4>2. \A o \in Spaces : Chose(said, o, chosen[o], minute)
          BY <1>1 DEF OwnersInv
        <4> QED
          BY <1>1, <1>2, <3>1, <4>1, <4>2, OwnersStay
      <3> QED
        BY <1>2, <2>1, <3>1, <3>2
    <2>4. ASSUME NEW o \in Spaces, NEW s \in S!Switches, NEW on \in BOOLEAN, S!SetSwitch(o, [t \in {s} |-> on])
          PROVE  OwnersInv' /\ minute' = minute
                 /\ \A p \in Spaces, d \in BOOLEAN, y \in BOOLEAN : said[p][d][y] <= said'[p][d][y]
      <3> DEFINE patch == [t \in {s} |-> on]
      <3> DEFINE taken == DOMAIN patch \cap knows
      <3> DEFINE fresh == [t \in S!Switches |-> IF t \in taken THEN patch[t] ELSE chosen[o][t]]
      <3>1. /\ rows' = [rows EXCEPT ![o] = S!Updated(o, patch)] /\ chosen' = [chosen EXCEPT ![o] = fresh]
            /\ said' = S!SaidAt(minute, chosen') /\ minute' = minute /\ knows' = knows
        BY <2>4 DEF S!SetSwitch
      <3>2. taken \subseteq S!Switches /\ \A t \in taken : patch[t] \in BOOLEAN
        BY <1>1 DEF OwnersInv
      <3>3. fresh \in Configs /\ chosen[o] \in Configs
        BY <1>2, <3>2 DEF Configs
      <3>4. S!Updated(o, patch) = [t \in DOMAIN S!Sent(o) \cup taken |-> IF t \in taken THEN patch[t] ELSE S!Sent(o)[t]]
        BY DEF S!Updated, S!Filled
      <3> HIDE DEF taken, patch, fresh
      <3>5. /\ DOMAIN S!Updated(o, patch) = DOMAIN S!Sent(o) \cup taken
            /\ \A t \in DOMAIN S!Updated(o, patch) : S!Updated(o, patch)[t] = fresh[t]
        <4>1. /\ DOMAIN S!Sent(o) \subseteq S!Switches
              /\ \A t \in DOMAIN S!Sent(o) : S!Sent(o)[t] = chosen[o][t]
          BY <1>1, ConfigSent DEF OwnersInv
        <4> QED
          BY <3>2, <3>4, <4>1 DEF fresh
      <3>6. DOMAIN S!Sent(o) \subseteq S!Switches
            /\ \A t \in S!Switches \ DOMAIN S!Sent(o) : chosen[o][t] = (t = "autoReview")
        <4>1. DOMAIN rows[o] \subseteq S!Switches /\ chosen[o] = S!Coerce(rows[o])
          BY <1>1 DEF OwnersInv
        <4>2. DOMAIN S!Sent(o) = DOMAIN rows[o] \cup knows /\ knows \subseteq S!Switches
          BY <1>1, ConfigSent DEF OwnersInv
        <4> QED
          BY <4>1, <4>2 DEF S!Coerce, S!Filled, S!DefaultConfig, S!Default
      <3>7. S!Coerce(S!Updated(o, patch)) = fresh
        <4>1. S!Coerce(S!Updated(o, patch)) = [t \in S!Switches |->
                IF t \in DOMAIN S!Updated(o, patch) THEN S!Updated(o, patch)[t] ELSE t = "autoReview"]
          BY <3>2, <3>5, <3>6 DEF S!Coerce, S!Filled, S!DefaultConfig, S!Default
        <4>2. \A t \in S!Switches \ DOMAIN S!Updated(o, patch) : fresh[t] = (t = "autoReview")
          BY <3>5, <3>6 DEF fresh
        <4>3. fresh = [t \in S!Switches |-> fresh[t]]
          BY DEF fresh
        <4> QED
          BY <3>5, <4>1, <4>2, <4>3
      <3>8. /\ DOMAIN rows' = Spaces /\ chosen' \in [Spaces -> Configs]
            /\ \A p \in Spaces : DOMAIN rows'[p] \subseteq S!Switches /\ chosen'[p] = S!Coerce(rows'[p])
        BY <1>1, <1>2, <3>1, <3>2, <3>3, <3>5, <3>6, <3>7 DEF OwnersInv
      <3>9. /\ said' \in SaidType
            /\ \A p \in Spaces, d \in BOOLEAN, y \in BOOLEAN : said[p][d][y] <= said'[p][d][y] /\ said'[p][d][y] <= minute
            /\ \A p \in Spaces : Chose(said', p, chosen'[p], minute)
        <4>1. said' = Saying(said, chosen', minute)
          BY <3>1 DEF S!SaidAt, Saying
        <4> QED
          BY <1>2, <3>8, <4>1, SaidNow
      <3>10. OwnersInv'
        BY <1>1, <1>2, <3>1, <3>8, <3>9 DEF OwnersInv, S!Coerce, S!Filled, S!DefaultConfig, S!Default
      <3> QED
        BY <3>1, <3>9, <3>10
    <2>5. CASE \E o \in Spaces : \E s \in S!Switches, on \in BOOLEAN : S!SetSwitch(o, [t \in {s} |-> on])
      <3>1. OwnersInv' /\ minute' = minute
            /\ \A p \in Spaces, d \in BOOLEAN, y \in BOOLEAN : said[p][d][y] <= said'[p][d][y]
        BY <2>4, <2>5
      <3>2. minute <= minute
        BY <1>2
      <3> QED
        BY <2>1, <3>1, <3>2
    <2> QED
      BY <2>2, <2>3, <2>5
  <1>5. minute' \in Nat /\ said' \in SaidType
    BY <1>4 DEF OwnersInv
  <1>6. /\ \A o \in Spaces : \A a : GoodAnswer(said, minute, o, a) /\ minute' <= a.at + Wait => GoodAnswer(said', minute', o, a)
        /\ \A e : GoodEntry(said, e) => GoodEntry(said', e)
        /\ \A r : GoodRun(said, r) => GoodRun(said', r)
    BY <1>1, <1>2, <1>4, <1>5, SettingsKept
  <1>7. \A j \in Gates : stage[j] = "asked" => GoodAnswer(said', minute', SpaceOf[j], answer[j])
    BY <1>1, <1>4, <1>6 DEF SettingsInv
  <1>8. (\A i \in DOMAIN configs : GoodEntry(said', configs[i])) /\ GoodRun(said', ran)
    BY <1>6 DEF SettingsInv
  <1> QED
    BY <1>3, <1>4, <1>7, <1>8 DEF SettingsInv

(* A job's step leaves owners' choices, and what is good, alone; it starts  *)
(* a review only on a configuration of the age the property allows.        *)
LEMMA JobDecides ==
  ASSUME S!SettingsAssumption, SettingsInv, NEW j \in Gates, NEW config \in Configs, NEW read \in BOOLEAN,
         S!Decided(j, config, read), read => Chose(said, SpaceOf[j], config, minute - ReviewTtl - Wait + 1)
  PROVE  /\ DOMAIN stage' = Gates /\ DOMAIN answer' = Gates
         /\ \A i \in Gates : stage'[i] = "asked" => stage[i] = "asked" /\ answer'[i] = answer[i]
         /\ GoodRun(said, ran')
  <1>1. DOMAIN stage = Gates /\ DOMAIN answer = Gates /\ minute \in Nat /\ SpaceOf[j] \in Spaces
    BY SettingsConstants DEF SettingsInv, OwnersInv
  <1>2. /\ stage' = [stage EXCEPT ![j] = "idle"] /\ answer' = [answer EXCEPT ![j] = S!NoAnswer]
    BY DEF S!Decided
  <1>3. \A i \in Gates : stage'[i] = "asked" => stage[i] = "asked" /\ answer'[i] = answer[i]
    BY <1>1, <1>2
  <1>4. PICK draft \in BOOLEAN :
          ran' = [org |-> SpaceOf[j], draft |-> draft, starts |-> S!Allows(config, draft), read |-> read, at |-> minute]
    BY DEF S!Decided
  <1>5. S!Allows(config, draft) \in BOOLEAN
    BY AllowsType
  <1>6. CASE ~read
    BY <1>1, <1>2, <1>3, <1>4, <1>6 DEF GoodRun
  <1>7. CASE read
    <2>1. said[SpaceOf[j]][draft][S!Allows(config, draft)] >= minute - ReviewTtl - Wait + 1
      BY <1>7 DEF Chose
    <2>2. GoodRun(said, ran')
      BY <1>1, <1>4, <1>5, <2>1 DEF GoodRun
    <2> QED
      BY <1>1, <1>2, <1>3, <2>2
  <1> QED
    BY <1>6, <1>7

(* What is cached is the answer that came.                                  *)
LEMMA EntriesStored ==
  ASSUME S!SettingsAssumption, SettingsInv, NEW o \in Spaces, NEW config \in Configs,
         Chose(said, o, config, minute - Wait)
  PROVE  /\ S!Stored(o, config) \in Seq([org : Spaces, at : Nat, config : Configs])
         /\ \A i \in DOMAIN S!Stored(o, config) : GoodEntry(said, S!Stored(o, config)[i])
  <1> DEFINE Copies == [org : Spaces, at : Nat, config : Configs]
  <1> DEFINE entry == [org |-> o, at |-> minute, config |-> config]
  <1> DEFINE same == {i \in DOMAIN configs : configs[i].org = o}
  <1> DEFINE kpt == IF Len(configs) >= MaxConfigs THEN Tail(configs) ELSE configs
  <1>1. minute \in Nat /\ configs \in Seq(Copies) /\ \A i \in DOMAIN configs : GoodEntry(said, configs[i])
    BY DEF SettingsInv, OwnersInv
  <1>2. entry \in Copies /\ GoodEntry(said, entry)
    BY <1>1 DEF GoodEntry
  <1>3. S!Stored(o, config) = IF same # {} THEN [i \in DOMAIN configs |-> IF i \in same THEN entry ELSE configs[i]]
                              ELSE Append(kpt, entry)
    BY DEF S!Stored
  <1> HIDE DEF Copies, entry, same
  <1>4. \A i \in DOMAIN configs : configs[i] \in Copies
    <2> SUFFICES ASSUME NEW i \in DOMAIN configs PROVE configs[i] \in Copies
      OBVIOUS
    <2>1. configs \in Seq(Copies) /\ i \in 1..Len(configs)
      BY <1>1
    <2> QED
      BY <2>1
  <1>5. CASE same # {}
    <2>1. S!Stored(o, config) = [i \in 1..Len(configs) |-> IF i \in same THEN entry ELSE configs[i]]
      BY <1>1, <1>3, <1>5
    <2>2. S!Stored(o, config) \in Seq(Copies)
      BY <1>1, <1>2, <1>4, <2>1
    <2> QED
      BY <1>1, <1>2, <2>1, <2>2 DEF Copies
  <1>6. CASE same = {}
    <2>1. kpt \in Seq(Copies) /\ \A i \in 1..Len(kpt) : GoodEntry(said, kpt[i])
      <3>1. CASE Len(configs) >= MaxConfigs /\ configs # <<>>
        <4>1. /\ Tail(configs) \in Seq(Copies) /\ Len(Tail(configs)) = Len(configs) - 1
              /\ \A i \in 1..Len(Tail(configs)) : Tail(configs)[i] = configs[i + 1]
          BY <1>1, <3>1
        <4>2. \A i \in 1..Len(Tail(configs)) : i + 1 \in DOMAIN configs
          BY <1>1, <4>1
        <4> QED
          BY <1>1, <3>1, <4>1, <4>2
      <3>2. CASE ~(Len(configs) >= MaxConfigs)
        BY <1>1, <3>2
      <3>3. CASE Len(configs) >= MaxConfigs /\ configs = <<>>
        BY <1>1, <3>3 DEF S!SettingsAssumption
      <3> QED
        BY <3>1, <3>2, <3>3
    <2> HIDE DEF kpt
    <2>2. S!Stored(o, config) = Append(kpt, entry)
      BY <1>3, <1>6
    <2>3. /\ Append(kpt, entry) \in Seq(Copies) /\ DOMAIN Append(kpt, entry) = 1..(Len(kpt) + 1)
          /\ \A i \in 1..Len(kpt) : Append(kpt, entry)[i] = kpt[i]
          /\ Append(kpt, entry)[Len(kpt) + 1] = entry
      BY <1>2, <2>1
    <2>4. ASSUME NEW i \in 1..(Len(kpt) + 1) PROVE GoodEntry(said, Append(kpt, entry)[i])
      <3>1. i \in 1..Len(kpt) \/ i = Len(kpt) + 1
        BY <2>1
      <3> QED
        BY <1>2, <2>1, <2>3, <3>1
    <2> QED
      BY <2>2, <2>3, <2>4 DEF Copies
  <1> QED
    BY <1>5, <1>6

(* A job asks at the gate, reads the configuration and decides.             *)
LEMMA JobsKeep ==
  ASSUME S!SettingsAssumption, SettingsInv, NEW j \in Gates,
         S!Gate(j) \/ S!ConfigHit(j) \/ S!AskConfig(j) \/ S!ConfigArrives(j) \/ S!ConfigFails(j)
  PROVE  SettingsInv'
  <1>1. /\ OwnersInv /\ minute \in Nat /\ Wait \in Nat /\ ReviewTtl \in Nat /\ ReviewTtl > 0 /\ SpaceOf[j] \in Spaces
        /\ DOMAIN stage = Gates /\ DOMAIN answer = Gates /\ said \in SaidType
        /\ configs \in Seq([org : Spaces, at : Nat, config : Configs])
    BY SettingsConstants DEF SettingsInv, OwnersInv
  <1>2. minute' = minute /\ said' = said /\ chosen' = chosen /\ knows' = knows
    BY DEF S!Gate, S!ConfigHit, S!AskConfig, S!ConfigArrives, S!ConfigFails, S!owners
  <1>3. ASSUME NEW o \in Spaces, NEW config \in Configs, NEW t \in Int, NEW u \in Int, t >= u, Chose(said, o, config, t)
        PROVE  Chose(said, o, config, u)
    <2> SUFFICES ASSUME NEW d \in BOOLEAN PROVE said[o][d][S!Allows(config, d)] >= u
      BY DEF Chose
    <2>1. S!Allows(config, d) \in BOOLEAN
      BY AllowsType
    <2>2. said[o][d][S!Allows(config, d)] \in Int /\ said[o][d][S!Allows(config, d)] >= t
      BY <1>1, <1>3, <2>1 DEF Chose, SaidType
    <2> QED
      BY <1>3, <2>2
  <1>4. \A o \in Spaces : Chose(said, o, chosen[o], minute)
    BY <1>1 DEF OwnersInv
  <1>5. CASE S!Gate(j)
    <2>1. /\ rows' = rows /\ configs' = configs /\ answer' = answer /\ ran' = ran
          /\ (stage' = [stage EXCEPT ![j] = "gated"] \/ stage' = stage)
      BY <1>5 DEF S!Gate, S!owners
    <2>2. OwnersInv'
      BY <1>1, <1>2, <2>1, OwnersSame
    <2>3. DOMAIN stage' = Gates /\ \A i \in Gates : stage'[i] = "asked" => stage[i] = "asked"
      BY <1>1, <2>1
    <2> QED
      BY <1>2, <2>1, <2>2, <2>3 DEF SettingsInv
  <1>6. CASE S!ConfigHit(j)
    <2>1. PICK i \in S!Hit(SpaceOf[j]) : S!Decided(j, configs[i].config, TRUE)
      BY <1>6 DEF S!ConfigHit
    <2>2. rows' = rows /\ configs' = configs
      BY <1>6 DEF S!ConfigHit, S!owners
    <2>3. i \in DOMAIN configs /\ configs[i].org = SpaceOf[j] /\ minute - configs[i].at < ReviewTtl
      BY DEF S!Hit
    <2>4. /\ configs[i].config \in Configs /\ configs[i].at \in Nat
          /\ Chose(said, SpaceOf[j], configs[i].config, configs[i].at - Wait)
      BY <2>3 DEF SettingsInv, GoodEntry
    <2>5. /\ configs[i].at - Wait >= minute - ReviewTtl - Wait + 1
          /\ configs[i].at - Wait \in Int /\ minute - ReviewTtl - Wait + 1 \in Int
      BY <1>1, <2>3, <2>4
    <2>6. Chose(said, SpaceOf[j], configs[i].config, minute - ReviewTtl - Wait + 1)
      BY <1>1, <1>3, <2>4, <2>5
    <2>7. /\ DOMAIN stage' = Gates /\ DOMAIN answer' = Gates
          /\ \A k \in Gates : stage'[k] = "asked" => stage[k] = "asked" /\ answer'[k] = answer[k]
          /\ GoodRun(said, ran')
      BY <2>1, <2>4, <2>6, JobDecides
    <2>8. OwnersInv'
      BY <1>1, <1>2, <2>2, OwnersSame
    <2> QED
      BY <1>2, <2>2, <2>7, <2>8 DEF SettingsInv
  <1>7. CASE S!AskConfig(j)
    <2> DEFINE o == SpaceOf[j]
    <2> DEFINE got == [config |-> S!Coerce(S!Sent(o)), at |-> minute]
    <2>1. /\ stage' = [stage EXCEPT ![j] = "asked"] /\ answer' = [answer EXCEPT ![j] = got]
          /\ rows' = [rows EXCEPT ![o] = S!Sent(o)] /\ configs' = configs /\ ran' = ran
      BY <1>7 DEF S!AskConfig
    <2>2. /\ S!Coerce(S!Sent(o)) = chosen[o] /\ DOMAIN S!Sent(o) = DOMAIN rows[o] \cup knows
      BY <1>1, ConfigSent
    <2>3. DOMAIN rows' = Spaces
          /\ \A p \in Spaces : DOMAIN rows'[p] \subseteq S!Switches /\ chosen'[p] = S!Coerce(rows'[p])
      BY <1>1, <1>2, <2>1, <2>2 DEF OwnersInv
    <2>4. OwnersInv'
      BY <1>1, <1>2, <2>3 DEF OwnersInv
    <2>5. got.config = chosen[o] /\ got.at = minute /\ chosen[o] \in Configs
      BY <1>1, <2>2 DEF OwnersInv
    <2> HIDE DEF got
    <2>6. GoodAnswer(said, minute, o, got)
      <3>1. minute <= minute /\ minute <= minute + Wait
        BY <1>1
      <3> QED
        BY <1>1, <1>4, <2>5, <3>1 DEF GoodAnswer
    <2>7. \A i \in Gates : stage'[i] = "asked" => GoodAnswer(said, minute, SpaceOf[i], answer'[i])
      BY <1>1, <2>1, <2>6 DEF SettingsInv
    <2> QED
      BY <1>1, <1>2, <2>1, <2>4, <2>7 DEF SettingsInv
  <1>8. CASE S!ConfigArrives(j) \/ S!ConfigFails(j)
    <2>1. rows' = rows /\ stage[j] = "asked"
      BY <1>8 DEF S!ConfigArrives, S!ConfigFails, S!owners
    <2>2. OwnersInv'
      BY <1>1, <1>2, <2>1, OwnersSame
    <2>3. GoodAnswer(said, minute, SpaceOf[j], answer[j])
      BY <2>1 DEF SettingsInv
    <2> DEFINE config == answer[j].config
    <2> DEFINE at == answer[j].at
    <2>4. config \in Configs /\ at \in Nat /\ minute <= at + Wait /\ Chose(said, SpaceOf[j], config, at)
      BY <2>3 DEF GoodAnswer
    <2>5. S!DefaultConfig \in Configs
      BY DEF S!DefaultConfig, S!Default, Configs
    <2> HIDE DEF config, at
    <2>6. /\ Chose(said, SpaceOf[j], config, minute - Wait)
          /\ Chose(said, SpaceOf[j], config, minute - ReviewTtl - Wait + 1)
      <3>1. /\ at >= minute - Wait /\ at >= minute - ReviewTtl - Wait + 1
            /\ at \in Int /\ minute - Wait \in Int /\ minute - ReviewTtl - Wait + 1 \in Int
        BY <1>1, <2>4
      <3> QED
        BY <1>1, <1>3, <2>4, <3>1
    <2>7. /\ DOMAIN stage' = Gates /\ DOMAIN answer' = Gates
          /\ \A i \in Gates : stage'[i] = "asked" => stage[i] = "asked" /\ answer'[i] = answer[i]
          /\ GoodRun(said, ran')
          /\ (configs' = S!Stored(SpaceOf[j], config) \/ configs' = configs)
      <3>1. CASE S!ConfigArrives(j)
        <4>1. S!Decided(j, config, TRUE) /\ configs' = S!Stored(SpaceOf[j], config)
          BY <3>1 DEF S!ConfigArrives, config
        <4> QED
          BY <2>4, <2>6, <4>1, JobDecides
      <3>2. CASE S!ConfigFails(j)
        <4>1. S!Decided(j, S!DefaultConfig, FALSE) /\ configs' = configs
          BY <3>2 DEF S!ConfigFails
        <4> QED
          BY <2>5, <4>1, JobDecides
      <3> QED
        BY <1>8, <3>1, <3>2
    <2>8. /\ configs' \in Seq([org : Spaces, at : Nat, config : Configs])
          /\ \A i \in DOMAIN configs' : GoodEntry(said, configs'[i])
      <3>1. CASE configs' = configs
        BY <1>1, <3>1 DEF SettingsInv
      <3>2. CASE configs' = S!Stored(SpaceOf[j], config)
        BY <1>1, <2>4, <2>6, <3>2, EntriesStored
      <3> QED
        BY <2>7, <3>1, <3>2
    <2> QED
      BY <1>2, <2>2, <2>7, <2>8 DEF SettingsInv
  <1> QED
    BY <1>5, <1>6, <1>7, <1>8

(* SwitchIsObeyed holds for any workspaces, jobs, lengths of the cache and  *)
(* of an answer's way, and any number of changes and faults.                *)
THEOREM SwitchStaysObeyed == ASSUME S!SettingsAssumption PROVE S!Spec => []S!SwitchIsObeyed
  <1>1. S!Init => SettingsInv
    BY SettingsStart
  <1>2. SettingsInv /\ [S!Next]_S!vars => SettingsInv'
    <2> SUFFICES ASSUME SettingsInv, [S!Next]_S!vars PROVE SettingsInv'
      OBVIOUS
    <2>1. CASE \/ S!Tick \/ S!Upgrade
               \/ \E o \in Spaces : S!SetEnabled(o)
                    \/ \E s \in S!Switches, on \in BOOLEAN : S!SetSwitch(o, [t \in {s} |-> on])
      BY <2>1, OwnersKeep
    <2>2. CASE \E j \in Gates : S!Gate(j) \/ S!ConfigHit(j) \/ S!AskConfig(j) \/ S!ConfigArrives(j) \/ S!ConfigFails(j)
      BY <2>2, JobsKeep
    <2>3. CASE UNCHANGED S!vars
      <3>1. /\ minute' = minute /\ knows' = knows /\ rows' = rows /\ chosen' = chosen /\ said' = said
            /\ configs' = configs /\ stage' = stage /\ answer' = answer /\ ran' = ran
        BY <2>3 DEF S!vars
      <3>2. OwnersInv'
        BY <3>1, OwnersSame DEF SettingsInv
      <3> QED
        BY <3>1, <3>2 DEF SettingsInv
    <2> QED
      BY <2>1, <2>2, <2>3 DEF S!Next
  <1>3. ASSUME S!SettingsAssumption, SettingsInv PROVE S!SwitchIsObeyed
    <2> SUFFICES ASSUME ran # S!NoRun, ran.read PROVE said[ran.org][ran.draft][ran.starts] > ran.at - ReviewTtl - Wait
      BY DEF S!SwitchIsObeyed
    <2>1. /\ ran.org \in Spaces /\ ran.draft \in BOOLEAN /\ ran.starts \in BOOLEAN /\ ran.at \in Nat
          /\ said[ran.org][ran.draft][ran.starts] >= ran.at - ReviewTtl - Wait + 1
      BY <1>3 DEF SettingsInv, GoodRun
    <2>2. said[ran.org][ran.draft][ran.starts] \in Int
      BY <1>3, <2>1 DEF SettingsInv, OwnersInv, SaidType
    <2>3. ReviewTtl \in Nat /\ Wait \in Nat
      BY <1>3, SettingsConstants
    <2> QED
      BY <2>1, <2>2, <2>3
  <1> QED
    BY <1>1, <1>2, <1>3, PTL DEF S!Spec

-----------------------------------------------------------------------------
(***************************************************************************)
(* The graph and the CI history.  While no call failed and refreshes came  *)
(* one after another, one of them is under way at most, and its copy, and  *)
(* the cached one unless that refresh has just saved, are the record.      *)
(***************************************************************************)
Fields == {"phase", "repo", "copy", "read"}

InSequence ==
  /\ stored.data = alone
  /\ \A i, j \in Refreshes : job[i].phase # "idle" /\ job[j].phase # "idle" => i = j
  /\ cached # NoCopy => cached.data = stored.data \/ \E j \in Refreshes : job[j].phase = "put"
  /\ \A j \in Refreshes : job[j].phase \in {"asked", "loaded", "read"} => job[j].copy.data = stored.data

HistoryInv ==
  /\ callFaults \in Nat /\ DOMAIN stored = {"data", "fresh"}
  /\ DOMAIN job = Refreshes /\ \A j \in Refreshes : DOMAIN job[j] = Fields
  /\ callFaults = 0 /\ ~side => InSequence

(* A refresh starts: from the cache, or with a request.                     *)
LEMMA HistoryLoad ==
  ASSUME HistoryInv, NEW j \in Refreshes, NEW r \in Projected, H!Load(j, r) PROVE HistoryInv'
  <1>1. /\ job[j].phase = "idle" /\ callFaults' = callFaults /\ stored' = stored /\ cached' = cached /\ alone' = alone
        /\ side' = (side \/ \E k \in Refreshes \ {j} : job[k].phase # "idle")
        /\ DOMAIN job = Refreshes
    BY DEF H!Load, HistoryInv
  <1> DEFINE copy == IF cached = NoCopy THEN stored ELSE cached
  <1>2. PICK phase \in {"asked", "loaded"} :
          job' = [job EXCEPT ![j] = [phase |-> phase, repo |-> r, read |-> {}, copy |-> copy]]
    BY DEF H!Load
  <1>3. /\ DOMAIN job' = Refreshes /\ \A i \in Refreshes : DOMAIN job'[i] = Fields
        /\ job'[j].copy = copy /\ job'[j].phase \in {"asked", "loaded"}
        /\ \A i \in Refreshes \ {j} : job'[i] = job[i]
    <2>1. [phase |-> phase, repo |-> r, read |-> {}, copy |-> copy].copy = copy
      OBVIOUS
    <2> HIDE DEF copy
    <2> QED
      BY <1>1, <1>2, <2>1 DEF HistoryInv, Fields
  <1>4. ASSUME callFaults' = 0, ~side' PROVE InSequence'
    <2>1. InSequence /\ \A k \in Refreshes \ {j} : job[k].phase = "idle"
      BY <1>1, <1>4 DEF HistoryInv
    <2>2. copy.data = stored.data
      BY <1>1, <2>1 DEF InSequence
    <2> HIDE DEF copy
    <2>3. \A i \in Refreshes : job'[i].phase # "idle" => i = j
      BY <1>3, <2>1
    <2>4. cached # NoCopy => cached.data = stored.data
      BY <1>1, <2>1 DEF InSequence
    <2>5. \A i \in Refreshes : job'[i].phase \in {"asked", "loaded", "read"} => job'[i].copy.data = stored.data
      BY <1>3, <2>2, <2>3
    <2> QED
      BY <1>1, <2>1, <2>3, <2>4, <2>5 DEF InSequence
  <1> QED
    BY <1>1, <1>3, <1>4 DEF HistoryInv

(* It goes on: one of its calls is answered or fails.                       *)
LEMMA HistoryCalls ==
  ASSUME HistoryInv, NEW j \in Refreshes,
         H!Answered(j) \/ H!LoadFails(j) \/ H!Skip(j) \/ H!Read(j) \/ H!Saved(j) \/ H!SaveFails(j)
  PROVE  HistoryInv'
  <1>1. DOMAIN job = Refreshes /\ DOMAIN job[j] = Fields /\ callFaults \in Nat
    BY DEF HistoryInv
  <1>2. stored' = stored /\ alone' = alone /\ side' = side
    BY DEF H!Answered, H!LoadFails, H!Skip, H!Read, H!Saved, H!SaveFails
  <1>3. CASE H!LoadFails(j) \/ H!SaveFails(j)
    <2>1. callFaults' = callFaults + 1
          /\ (job' = [job EXCEPT ![j].phase = "loaded", ![j].copy = H!Empty] \/ job' = [job EXCEPT ![j] = H!Idle])
      BY <1>3 DEF H!LoadFails, H!SaveFails
    <2>2. callFaults' \in Nat /\ callFaults' # 0
      BY <1>1, <2>1
    <2>3. DOMAIN job' = Refreshes /\ \A i \in Refreshes : DOMAIN job'[i] = Fields
      BY <1>1, <2>1 DEF HistoryInv, H!Idle, Fields
    <2> QED
      BY <1>2, <2>2, <2>3 DEF HistoryInv
  <1>4. CASE H!Answered(j)
    <2>1. callFaults' = callFaults /\ job[j].phase = "asked" /\ cached' = job[j].copy
          /\ job' = [job EXCEPT ![j].phase = "loaded"]
      BY <1>4 DEF H!Answered
    <2>2. /\ DOMAIN job' = Refreshes /\ (\A i \in Refreshes : DOMAIN job'[i] = Fields)
          /\ job'[j].phase = "loaded" /\ job'[j].copy = job[j].copy
          /\ \A i \in Refreshes \ {j} : job'[i] = job[i]
      BY <1>1, <2>1 DEF HistoryInv, Fields
    <2>3. InSequence => InSequence'
      BY <1>2, <2>1, <2>2 DEF InSequence
    <2> QED
      BY <1>2, <2>1, <2>2, <2>3 DEF HistoryInv
  <1>5. CASE H!Skip(j)
    <2>1. callFaults' = callFaults /\ job[j].phase = "loaded" /\ cached' = cached /\ job' = [job EXCEPT ![j] = H!Idle]
      BY <1>5 DEF H!Skip
    <2>2. /\ DOMAIN job' = Refreshes /\ (\A i \in Refreshes : DOMAIN job'[i] = Fields)
          /\ job'[j].phase = "idle" /\ \A i \in Refreshes \ {j} : job'[i] = job[i]
      BY <1>1, <2>1 DEF HistoryInv, Fields, H!Idle
    <2>3. InSequence => InSequence'
      BY <1>2, <2>1, <2>2 DEF InSequence
    <2> QED
      BY <1>2, <2>1, <2>2, <2>3 DEF HistoryInv
  <1>6. CASE H!Read(j)
    <2>1. /\ callFaults' = callFaults /\ job[j].phase = "loaded" /\ cached' = cached
          /\ job' = [job EXCEPT ![j].phase = "read", ![j].read = H!Listed(job[j].repo)]
      BY <1>6 DEF H!Read
    <2>2. /\ DOMAIN job' = Refreshes /\ (\A i \in Refreshes : DOMAIN job'[i] = Fields)
          /\ job'[j].phase = "read" /\ job'[j].copy = job[j].copy
          /\ \A i \in Refreshes \ {j} : job'[i] = job[i]
      BY <1>1, <2>1 DEF HistoryInv, Fields
    <2>3. InSequence => InSequence'
      BY <1>2, <2>1, <2>2 DEF InSequence
    <2> QED
      BY <1>2, <2>1, <2>2, <2>3 DEF HistoryInv
  <1>7. CASE H!Saved(j)
    <2>1. callFaults' = callFaults /\ job[j].phase = "put" /\ cached' = NoCopy /\ job' = [job EXCEPT ![j] = H!Idle]
      BY <1>7 DEF H!Saved, H!AfterSave
    <2>2. /\ DOMAIN job' = Refreshes /\ (\A i \in Refreshes : DOMAIN job'[i] = Fields)
          /\ job'[j].phase = "idle" /\ \A i \in Refreshes \ {j} : job'[i] = job[i]
      BY <1>1, <2>1 DEF HistoryInv, Fields, H!Idle
    <2>3. InSequence => InSequence'
      BY <1>2, <2>1, <2>2 DEF InSequence
    <2> QED
      BY <1>2, <2>1, <2>2, <2>3 DEF HistoryInv
  <1> QED
    BY <1>3, <1>4, <1>5, <1>6, <1>7

(* The control plane saves what the refresh built.                          *)
LEMMA HistoryPut ==
  ASSUME HistoryInv, NEW j \in Refreshes, H!Put(j) PROVE HistoryInv'
  <1> DEFINE r == job[j].repo
  <1>1. /\ job[j].phase = "read" /\ stored' = H!Replaced(stored, job[j].copy, r, job[j].read)
        /\ alone' = [alone EXCEPT ![r] = H!Merged(alone[r], job[j].read)]
        /\ job' = [job EXCEPT ![j].phase = "put"]
        /\ cached' = cached /\ callFaults' = callFaults /\ side' = side
    BY DEF H!Put
  <1>2. /\ DOMAIN job' = Refreshes /\ (\A i \in Refreshes : DOMAIN job'[i] = Fields)
        /\ job'[j].phase = "put" /\ \A i \in Refreshes \ {j} : job'[i] = job[i]
        /\ DOMAIN stored' = {"data", "fresh"}
    BY <1>1 DEF HistoryInv, Fields, H!Replaced
  <1>3. ASSUME InSequence PROVE InSequence'
    <2>1. stored.data = alone /\ job[j].copy.data = alone
      BY <1>1, <1>3 DEF InSequence
    <2>2. stored'.data = [alone EXCEPT ![r] = H!Merged(alone[r], job[j].read)]
      BY <1>1, <2>1 DEF H!Replaced
    <2>3. \A i \in Refreshes \ {j} : job[i].phase = "idle"
      BY <1>1, <1>3 DEF InSequence
    <2> QED
      BY <1>1, <1>2, <2>2, <2>3 DEF InSequence
  <1> QED
    BY <1>1, <1>2, <1>3 DEF HistoryInv

(* KeptInSequence holds of either record, for any repositories, refreshes   *)
(* and sizes of what is fetched and kept.                                   *)
THEOREM HistoryStaysInSequence == H!Spec => []H!KeptInSequence
  <1>1. H!Init => HistoryInv
    BY DEF H!Init, HistoryInv, InSequence, H!Empty, H!Idle, Fields
  <1>2. HistoryInv /\ [H!Next]_H!vars => HistoryInv'
    <2> SUFFICES ASSUME HistoryInv, [H!Next]_H!vars PROVE HistoryInv'
      OBVIOUS
    <2>1. CASE \E r \in Projected : H!Change(r)
      BY <2>1 DEF H!Change, HistoryInv, InSequence
    <2>2. CASE \E j \in Refreshes, r \in Projected : H!Load(j, r)
      BY <2>2, HistoryLoad
    <2>3. CASE \E j \in Refreshes : H!Answered(j) \/ H!LoadFails(j) \/ H!Skip(j) \/ H!Read(j) \/ H!Saved(j) \/ H!SaveFails(j)
      BY <2>3, HistoryCalls
    <2>4. CASE \E j \in Refreshes : H!Put(j)
      BY <2>4, HistoryPut
    <2>5. CASE H!CacheExpires
      BY <2>5 DEF H!CacheExpires, HistoryInv, InSequence
    <2>6. CASE H!GoStale
      <3>1. stored' = [stored EXCEPT !.fresh = {}] /\ cached' = NoCopy /\ job' = job /\ alone' = alone
            /\ callFaults' = callFaults /\ side' = side
        BY <2>6 DEF H!GoStale
      <3>2. stored'.data = stored.data /\ DOMAIN stored' = {"data", "fresh"}
        BY <3>1 DEF HistoryInv
      <3> QED
        BY <3>1, <3>2 DEF HistoryInv, InSequence
    <2>7. CASE UNCHANGED H!vars
      BY <2>7 DEF H!vars, HistoryInv, InSequence
    <2> QED
      BY <2>1, <2>2, <2>3, <2>4, <2>5, <2>6, <2>7 DEF H!Next
  <1>3. HistoryInv => H!KeptInSequence
    BY DEF HistoryInv, InSequence, H!KeptInSequence, H!OthersSurvive
  <1> QED
    BY <1>1, <1>2, <1>3, PTL DEF H!Spec

-----------------------------------------------------------------------------
(***************************************************************************)
(* The tokens: what is kept or under way was good when it was asked for,   *)
(* and what a workspace once had is not unlearned.                         *)
(***************************************************************************)
TokenEntry == [of : Places, token : T!Tokens, until : Int, expires : Int]
TokenAnswer == [of : Places, token : T!Tokens, until : Int, at : Nat]

GoodToken(e) ==
  IF provider = "app" THEN e.expires + Margin <= e.until
  ELSE e.token \in Pasted /\ hadToken[e.of][e.token] >= e.expires - PastedTtl - Patience

GoodAwaited(a) ==
  /\ a \in TokenAnswer /\ a.at <= second /\ second <= a.at + Patience
  /\ IF provider = "app" THEN a.until = a.at + Lifetime
     ELSE a.token \in Pasted => hadToken[a.of][a.token] >= a.at

GoodSent ==
  \/ sent = T!Unsent
  \/ /\ sent \in [of : Places, token : T!Tokens, until : Int]
     /\ IF provider = "app" THEN second + Margin < sent.until
        ELSE sent.token \in Pasted /\ hadToken[sent.of][sent.token] > second - PastedTtl - Patience

PastedInv ==
  /\ second \in Nat /\ saved \in [Places -> T!Tokens] /\ hadToken \in [Places -> [T!Tokens -> Int]]
  /\ \A k \in Places : \A t \in T!Tokens : hadToken[k][t] <= second
  /\ \A k \in Places : saved[k] \in Pasted => hadToken[k][saved[k]] >= second

KeptInv == kept \in Seq(TokenEntry) /\ \A i \in DOMAIN kept : GoodToken(kept[i])
AwaitedInv == \A r \in Calls : awaited[r] = T!Idle \/ GoodAwaited(awaited[r])

TokensInv ==
  provider \in {"app", "pasted"} /\ PastedInv /\ KeptInv /\ AwaitedInv /\ DOMAIN awaited = Calls /\ GoodSent

\* Keeping an entry leaves it and what was there.
LEMMA TokenStored ==
  ASSUME T!HostTokensAssumption, NEW e \in TokenEntry, kept \in Seq(TokenEntry)
  PROVE  /\ T!Stored(e) \in Seq(TokenEntry)
         /\ \A i \in DOMAIN T!Stored(e) : T!Stored(e)[i] = e \/ \E j \in DOMAIN kept : T!Stored(e)[i] = kept[j]
  <1>1. CASE \E i \in DOMAIN kept : kept[i].of = e.of
    <2> DEFINE s == [i \in DOMAIN kept |-> IF kept[i].of = e.of THEN e ELSE kept[i]]
    <2>1. T!Stored(e) = s
      BY <1>1 DEF T!Stored
    <2>2. s \in Seq(TokenEntry) /\ DOMAIN s = DOMAIN kept
      OBVIOUS
    <2> QED
      BY <2>1, <2>2
  <1>2. CASE ~\E i \in DOMAIN kept : kept[i].of = e.of
    <2>1. PICK c \in {kept, Tail(kept)} : T!Stored(e) = Append(c, e) /\ (c = kept \/ Len(kept) > 0)
      BY <1>2 DEF T!Stored, T!HostTokensAssumption
    <2>2. c \in Seq(TokenEntry) /\ \A i \in DOMAIN c : \E j \in DOMAIN kept : c[i] = kept[j]
      <3>1. CASE c = kept
        BY <3>1
      <3>2. CASE c = Tail(kept) /\ Len(kept) > 0
        <4>1. c \in Seq(TokenEntry) /\ Len(c) = Len(kept) - 1 /\ Len(kept) \in Nat
          BY <3>2
        <4>2. \A i \in 1..Len(c) : i + 1 \in 1..Len(kept) /\ c[i] = kept[i + 1]
          BY <3>2, <4>1
        <4>3. DOMAIN c = 1..Len(c) /\ DOMAIN kept = 1..Len(kept)
          BY <4>1
        <4>4. ASSUME NEW i \in DOMAIN c PROVE \E j \in DOMAIN kept : c[i] = kept[j]
          <5>1. i + 1 \in 1..Len(kept) /\ c[i] = kept[i + 1]
            BY <4>2, <4>3, Zenon
          <5> QED
            BY <4>3, <5>1, Zenon
        <4> QED
          BY <4>1, <4>4
      <3> QED
        BY <2>1, <3>1, <3>2
    <2> QED
      BY <2>1, <2>2
  <1> QED
    BY <1>1, <1>2

\* At the start nothing is kept and nobody waits.
LEMMA InitTokensInv == T!HostTokensAssumption /\ T!Init => TokensInv
  <1> SUFFICES ASSUME T!HostTokensAssumption, T!Init PROVE TokensInv
    OBVIOUS
  <1> DEFINE F(k) == [t \in T!Tokens |-> IF saved[k] = t THEN 0 ELSE T!Never]
  <1>1. T!Never \in Int /\ T!Never <= 0
    BY DEF T!Never, T!HostTokensAssumption
  <1>2. \A k \in Places : F(k) \in [T!Tokens -> Int] /\ \A t \in T!Tokens : F(k)[t] <= 0 /\ (t = saved[k] => F(k)[t] = 0)
    BY <1>1
  <1>3. hadToken = [k \in Places |-> F(k)]
    BY DEF T!Init
  <1>4. second = 0 /\ saved \in [Places -> T!Tokens] /\ Pasted \subseteq T!Tokens
    BY DEF T!Init, T!Tokens
  <1> HIDE DEF F
  <1>5. PastedInv
    BY <1>2, <1>3, <1>4 DEF PastedInv
  <1>6. KeptInv
    BY DEF T!Init, KeptInv
  <1> QED
    BY <1>5, <1>6 DEF T!Init, TokensInv, AwaitedInv, GoodSent

\* What a workspace had is not forgotten, whatever its owner does and time passes.
LEMMA PastedKept ==
  ASSUME T!HostTokensAssumption, PastedInv,
         T!Tick \/ T!ChangeSecret \/ (\E k \in Places, t \in T!Tokens : T!SetToken(k, t))
  PROVE  /\ PastedInv' /\ second <= second'
         /\ \A k \in Places : \A t \in T!Tokens : hadToken[k][t] <= hadToken'[k][t]
  <1>1. second \in Nat /\ \A k \in Places : \A t \in T!Tokens : hadToken[k][t] \in Int
    BY DEF PastedInv
  <1>2. CASE T!Tick
    <2>1. second' = second + 1 /\ saved' = saved
      BY <1>2 DEF T!Tick
    <2>2. \A k \in Places : hadToken'[k] = [hadToken[k] EXCEPT ![saved[k]] = second + 1]
      BY <1>2 DEF T!Tick
    <2>3. hadToken' \in [Places -> [T!Tokens -> Int]]
      BY <1>1, <1>2 DEF T!Tick, PastedInv
    <2>4. ASSUME NEW k \in Places, NEW t \in T!Tokens
          PROVE  hadToken'[k][t] = IF t = saved[k] THEN second + 1 ELSE hadToken[k][t]
      <3>1. hadToken[k] \in [T!Tokens -> Int]
        BY DEF PastedInv
      <3> QED
        BY <2>2, <3>1
    <2>5. \A k \in Places : \A t \in T!Tokens : hadToken[k][t] <= hadToken'[k][t] /\ hadToken'[k][t] <= second'
      BY <1>1, <2>1, <2>4 DEF PastedInv
    <2>6. \A k \in Places : hadToken'[k][saved'[k]] = second'
      BY <2>1, <2>4 DEF PastedInv
    <2>7. second' \in Nat /\ saved' \in [Places -> T!Tokens]
      BY <1>1, <2>1 DEF PastedInv
    <2> QED
      BY <1>1, <2>1, <2>3, <2>5, <2>6, <2>7 DEF PastedInv
  <1>3. CASE T!ChangeSecret
    <2>1. second' = second /\ hadToken' = hadToken /\ saved' = [k \in Places |-> NoSecret]
      BY <1>3 DEF T!ChangeSecret
    <2>2. \A k \in Places : saved'[k] \notin Pasted
      BY <2>1 DEF T!HostTokensAssumption
    <2>3. saved' \in [Places -> T!Tokens]
      BY <2>1 DEF T!Tokens
    <2> QED
      BY <1>1, <2>1, <2>2, <2>3 DEF PastedInv
  <1>4. ASSUME NEW k \in Places, NEW t \in T!Tokens, T!SetToken(k, t)
        PROVE  /\ PastedInv' /\ second <= second'
               /\ \A q \in Places : \A u \in T!Tokens : hadToken[q][u] <= hadToken'[q][u]
    <2>1. second' = second /\ saved' = [saved EXCEPT ![k] = t] /\ hadToken' = [hadToken EXCEPT ![k][t] = second]
      BY <1>4 DEF T!SetToken, T!Written
    <2>2. saved' \in [Places -> T!Tokens] /\ hadToken' \in [Places -> [T!Tokens -> Int]]
      BY <1>1, <2>1 DEF PastedInv
    <2>3. \A q \in Places : \A u \in T!Tokens : hadToken'[q][u] = IF q = k /\ u = t THEN second ELSE hadToken[q][u]
      BY <2>1 DEF PastedInv
    <2>4. \A q \in Places : \A u \in T!Tokens : hadToken[q][u] <= hadToken'[q][u] /\ hadToken'[q][u] <= second'
      BY <1>1, <2>1, <2>3 DEF PastedInv
    <2>5. \A q \in Places : saved'[q] = IF q = k THEN t ELSE saved[q]
      BY <2>1 DEF PastedInv
    <2>6. \A q \in Places : saved'[q] \in Pasted => hadToken'[q][saved'[q]] >= second'
      BY <1>1, <2>1, <2>3, <2>5 DEF PastedInv
    <2> QED
      BY <1>1, <2>1, <2>2, <2>4, <2>6 DEF PastedInv
  <1> QED
    BY <1>2, <1>3, <1>4

\* So what is kept or under way stays good while owners change tokens and time
\* passes.
LEMMA PastedStep ==
  ASSUME T!HostTokensAssumption, TokensInv,
         T!Tick \/ T!ChangeSecret \/ (\E k \in Places, t \in T!Tokens : T!SetToken(k, t))
  PROVE  TokensInv'
  <1>1. /\ PastedInv' /\ second <= second'
        /\ \A k \in Places : \A t \in T!Tokens : hadToken[k][t] <= hadToken'[k][t]
    BY PastedKept DEF TokensInv
  <1>2. /\ second \in Nat /\ second' \in Nat /\ PastedTtl \in Nat /\ Patience \in Nat /\ Pasted \subseteq T!Tokens
        /\ \A k \in Places : \A t \in T!Tokens : hadToken[k][t] \in Int /\ hadToken'[k][t] \in Int
    BY <1>1 DEF TokensInv, PastedInv, T!HostTokensAssumption, T!Tokens
  <1>3. provider' = provider /\ kept' = kept /\ awaited' = awaited
    BY DEF T!Tick, T!ChangeSecret, T!SetToken
  <1>4. KeptInv'
    <2> SUFFICES ASSUME NEW i \in DOMAIN kept PROVE GoodToken(kept[i])'
      BY <1>3 DEF TokensInv, KeptInv
    <2>1. kept[i] \in TokenEntry /\ GoodToken(kept[i])
      BY DEF TokensInv, KeptInv
    <2>2. kept[i].of \in Places /\ kept[i].expires \in Int
      BY <2>1 DEF TokenEntry
    <2> QED
      BY <1>1, <1>2, <1>3, <2>1, <2>2 DEF GoodToken
  <1>5. AwaitedInv'
    <2> SUFFICES ASSUME NEW r \in Calls, awaited[r] # T!Idle PROVE GoodAwaited(awaited[r])'
      BY <1>3 DEF TokensInv, AwaitedInv
    <2>1. GoodAwaited(awaited[r]) /\ awaited[r] \in TokenAnswer
      BY DEF TokensInv, AwaitedInv, GoodAwaited
    <2>2. awaited[r].of \in Places /\ awaited[r].at \in Nat
      BY <2>1 DEF TokenAnswer
    <2>3. second' <= awaited[r].at + Patience /\ awaited[r].at <= second'
      <3>1. CASE second' = second
        BY <2>1, <3>1 DEF GoodAwaited
      <3>2. CASE T!Tick
        BY <1>2, <2>1, <2>2, <3>2 DEF T!Tick, GoodAwaited
      <3> QED
        BY <3>1, <3>2 DEF T!ChangeSecret, T!SetToken
    <2> QED
      BY <1>1, <1>2, <1>3, <2>1, <2>2, <2>3 DEF GoodAwaited
  <1>6. GoodSent'
    <2>1. CASE T!Tick
      BY <2>1 DEF T!Tick, GoodSent
    <2>2. CASE second' = second /\ sent' = sent
      <3>1. CASE sent = T!Unsent
        BY <2>2, <3>1 DEF GoodSent
      <3>2. CASE sent # T!Unsent
        <4>1. sent.of \in Places
          BY <3>2 DEF TokensInv, GoodSent
        <4> QED
          BY <1>1, <1>2, <1>3, <2>2, <3>2, <4>1 DEF TokensInv, GoodSent
      <3> QED
        BY <3>1, <3>2
    <2> QED
      BY <2>1, <2>2 DEF T!ChangeSecret, T!SetToken
  <1> QED
    BY <1>1, <1>3, <1>4, <1>5, <1>6 DEF TokensInv

\* A request that is answered from the cache, asks, waits with others or fails
\* leaves everything good.
LEMMA CallStep ==
  ASSUME T!HostTokensAssumption, TokensInv, NEW r \in Calls, NEW k,
         (k \in Places /\ (T!Hit(r, k) \/ T!Join(r, k) \/ T!Ask(r, k))) \/ T!Fails(r)
  PROVE  TokensInv'
  <1>1. UNCHANGED <<second, provider, T!owners, kept>>
    BY DEF T!Hit, T!Join, T!Ask, T!Fails
  <1>2. PastedInv' /\ KeptInv'
    BY <1>1 DEF TokensInv, PastedInv, KeptInv, GoodToken, T!owners
  <1>3. \A a : GoodAwaited(a)' <=> GoodAwaited(a)
    BY <1>1 DEF GoodAwaited, T!owners
  <1>4. second \in Nat /\ Patience \in Nat /\ Lifetime \in Nat /\ PastedTtl \in Nat
    BY DEF TokensInv, PastedInv, T!HostTokensAssumption
  <1>5. CASE T!Hit(r, k)
    <2>1. PICK i \in DOMAIN kept : kept[i].expires > second /\ sent' = T!SentWith(kept[i])
      BY <1>5 DEF T!Hit, T!Live
    <2>2. kept[i] \in TokenEntry /\ GoodToken(kept[i])
      BY DEF TokensInv, KeptInv
    <2>3. /\ kept[i].of \in Places /\ kept[i].token \in T!Tokens
          /\ kept[i].until \in Int /\ kept[i].expires \in Int
      BY <2>2 DEF TokenEntry
    <2>4. sent' \in [of : Places, token : T!Tokens, until : Int]
      BY <2>1, <2>3 DEF T!SentWith
    <2>5. provider = "app" => second + Margin < sent'.until
      BY <1>4, <2>1, <2>2, <2>3 DEF GoodToken, T!SentWith, T!HostTokensAssumption
    <2>6. provider # "app" => sent'.token \in Pasted /\ hadToken[sent'.of][sent'.token] > second - PastedTtl - Patience
      <3>1. hadToken[kept[i].of][kept[i].token] \in Int
        BY <2>3 DEF TokensInv, PastedInv
      <3> QED
        BY <1>4, <2>1, <2>2, <2>3, <3>1 DEF GoodToken, T!SentWith
    <2>7. GoodSent'
      BY <1>1, <2>4, <2>5, <2>6 DEF GoodSent, T!owners
    <2>8. awaited' = awaited
      BY <1>5 DEF T!Hit
    <2> QED
      BY <1>1, <1>2, <1>3, <2>7, <2>8 DEF TokensInv, AwaitedInv
  <1>6. CASE T!Join(r, k) \/ (k \in Places /\ T!Ask(r, k)) \/ T!Fails(r)
    <2>1. sent' = sent
      BY <1>6 DEF T!Join, T!Ask, T!Fails
    <2>2. GoodSent'
      BY <1>1, <2>1 DEF GoodSent, TokensInv, T!owners
    <2>3. AwaitedInv' /\ DOMAIN awaited' = Calls
      <3>1. CASE T!Join(r, k)
        <4>1. PICK q \in Calls : awaited' = [awaited EXCEPT ![r] = awaited[q]]
          BY <3>1 DEF T!Join, T!Pending
        <4>2. \A p \in Calls : awaited'[p] = T!Idle \/ GoodAwaited(awaited'[p])
          BY <4>1 DEF TokensInv, AwaitedInv
        <4> QED
          BY <1>3, <4>1, <4>2 DEF TokensInv, AwaitedInv
      <3>2. CASE T!Fails(r)
        BY <1>3, <3>2 DEF T!Fails, T!Answered, TokensInv, AwaitedInv
      <3>3. CASE k \in Places /\ T!Ask(r, k)
        <4> DEFINE a == [of |-> k, token |-> IF provider = "app" THEN NoSecret ELSE saved[k],
                         until |-> second + Lifetime, at |-> second]
        <4>1. a \in TokenAnswer /\ saved[k] \in T!Tokens
          BY <1>4, <3>3 DEF TokenAnswer, TokensInv, PastedInv, T!Tokens
        <4>2. GoodAwaited(a)
          BY <1>4, <3>3, <4>1 DEF GoodAwaited, TokensInv, PastedInv
        <4>3. awaited' = [awaited EXCEPT ![r] = a]
          BY <3>3 DEF T!Ask, T!ReadNow
        <4> QED
          BY <1>3, <4>2, <4>3 DEF TokensInv, AwaitedInv
      <3> QED
        BY <1>6, <3>1, <3>2, <3>3
    <2> QED
      BY <1>1, <1>2, <2>2, <2>3 DEF TokensInv
  <1> QED
    BY <1>5, <1>6

\* An answer is good when it arrives, in time, and kept no longer than it is.
LEMMA TokenArrives ==
  ASSUME T!HostTokensAssumption, TokensInv, NEW r \in Calls, T!Arrives(r)
  PROVE  TokensInv'
  <1> DEFINE a == awaited[r]
  <1>1. /\ UNCHANGED <<second, provider, T!owners>>
        /\ a # T!Idle /\ (provider = "pasted" => a.token # NoSecret)
        /\ sent' = T!SentWith(a) /\ awaited' = T!Answered(r)
    BY DEF T!Arrives, T!Denied
  <1>2. PICK e \in T!Expiries(a) : kept' = T!Stored([of |-> a.of, token |-> a.token, until |-> a.until, expires |-> e])
    BY DEF T!Arrives
  <1>3. GoodAwaited(a) /\ a.of \in Places /\ a.token \in T!Tokens /\ a.until \in Int /\ a.at \in Nat
    BY <1>1 DEF TokensInv, AwaitedInv, GoodAwaited, TokenAnswer
  <1>4. /\ second \in Nat /\ Patience \in Nat /\ Lifetime \in Nat /\ PastedTtl \in Nat /\ PastedTtl > 0
        /\ Margin \in Nat /\ Assumed \in Nat
        /\ Margin + Patience < Lifetime /\ Assumed + Patience + Margin <= Lifetime
    BY DEF TokensInv, PastedInv, T!HostTokensAssumption
  <1>5. second <= a.at + Patience /\ (provider = "app" => a.until = a.at + Lifetime)
    BY <1>3 DEF GoodAwaited
  <1>6. provider # "app" => /\ e = second + PastedTtl /\ hadToken[a.of][a.token] >= a.at
                            /\ a.token \in Pasted /\ hadToken[a.of][a.token] \in Int
    <2>1. provider # "app" => provider = "pasted"
      BY DEF TokensInv
    <2> QED
      BY <1>1, <1>2, <1>3, <2>1 DEF T!Expiries, GoodAwaited, T!Tokens, TokensInv, PastedInv
  <1>7. provider = "app" => e = a.until - Margin \/ e = second + Assumed
    BY <1>2 DEF T!Expiries
  <1>8. e \in Int
    BY <1>3, <1>4, <1>6, <1>7
  <1> DEFINE entry == [of |-> a.of, token |-> a.token, until |-> a.until, expires |-> e]
  <1>9. entry \in TokenEntry /\ GoodToken(entry)
    <2>1. entry \in TokenEntry
      BY <1>3, <1>8 DEF TokenEntry
    <2>2. CASE provider = "app"
      <3>1. e + Margin <= a.until
        BY <1>3, <1>4, <1>5, <1>7, <2>2
      <3> QED
        BY <2>1, <2>2, <3>1 DEF GoodToken
    <2>3. CASE provider # "app"
      <3>1. hadToken[a.of][a.token] >= e - PastedTtl - Patience
        BY <1>3, <1>4, <1>5, <1>6, <2>3
      <3> QED
        BY <1>6, <2>1, <2>3, <3>1 DEF GoodToken
    <2> QED
      BY <2>2, <2>3
  <1>10. \A x : GoodToken(x)' <=> GoodToken(x)
    BY <1>1 DEF GoodToken, T!owners
  <1>11. KeptInv'
    <2>1. kept' = T!Stored(entry)
      BY <1>2
    <2>2. /\ kept' \in Seq(TokenEntry)
          /\ \A i \in DOMAIN kept' : kept'[i] = entry \/ \E j \in DOMAIN kept : kept'[i] = kept[j]
      BY <1>9, <2>1, TokenStored DEF TokensInv, KeptInv
    <2>3. \A i \in DOMAIN kept' : GoodToken(kept'[i])
      BY <1>9, <2>2 DEF TokensInv, KeptInv
    <2> QED
      BY <1>10, <2>2, <2>3 DEF KeptInv
  <1>12. AwaitedInv' /\ DOMAIN awaited' = Calls
    <2>1. \A x : GoodAwaited(x)' <=> GoodAwaited(x)
      BY <1>1 DEF GoodAwaited, T!owners
    <2> QED
      BY <1>1, <2>1 DEF TokensInv, AwaitedInv, T!Answered
  <1>13. GoodSent'
    <2>1. sent' \in [of : Places, token : T!Tokens, until : Int]
      BY <1>1, <1>3 DEF T!SentWith
    <2>2. sent'.until = a.until /\ sent'.of = a.of /\ sent'.token = a.token
      BY <1>1 DEF T!SentWith
    <2>3. provider = "app" => second + Margin < sent'.until
      BY <1>3, <1>4, <1>5, <2>2
    <2>4. provider # "app" => sent'.token \in Pasted /\ hadToken[sent'.of][sent'.token] > second - PastedTtl - Patience
      BY <1>3, <1>4, <1>5, <1>6, <2>2
    <2> QED
      BY <1>1, <2>1, <2>3, <2>4 DEF GoodSent, T!owners
  <1>14. PastedInv'
    BY <1>1 DEF TokensInv, PastedInv, T!owners
  <1> QED
    BY <1>1, <1>11, <1>12, <1>13, <1>14 DEF TokensInv

\* TokenIsGood holds for any installations and workspaces, any tokens, any number
\* of requests at once and any faults.
THEOREM TokensAreGood == ASSUME T!HostTokensAssumption PROVE T!Spec => []T!TokenIsGood
  <1>1. T!Init => TokensInv
    BY InitTokensInv
  <1>2. TokensInv /\ [T!Next]_T!vars => TokensInv'
    <2> SUFFICES ASSUME TokensInv, [T!Next]_T!vars PROVE TokensInv'
      OBVIOUS
    <2>1. CASE T!Tick \/ T!ChangeSecret \/ (\E k \in Places, t \in T!Tokens : T!SetToken(k, t))
      BY <2>1, PastedStep
    <2>2. ASSUME NEW r \in Calls, NEW k \in Places, T!Hit(r, k) \/ T!Join(r, k) \/ T!Ask(r, k)
          PROVE  TokensInv'
      BY <2>2, CallStep
    <2>3. ASSUME NEW r \in Calls, T!Fails(r) PROVE TokensInv'
      BY <2>3, CallStep
    <2>4. ASSUME NEW r \in Calls, T!Arrives(r) PROVE TokensInv'
      BY <2>4, TokenArrives
    <2>5. CASE UNCHANGED T!vars
      BY <2>5 DEF T!vars, TokensInv, PastedInv, KeptInv, GoodToken, AwaitedInv, GoodAwaited, GoodSent
    <2> QED
      BY <2>1, <2>2, <2>3, <2>4, <2>5 DEF T!Next
  <1>3. TokensInv => T!TokenIsGood
    BY DEF TokensInv, GoodSent, T!TokenIsGood
  <1> QED
    BY <1>1, <1>2, <1>3, PTL DEF T!Spec

-----------------------------------------------------------------------------
(***************************************************************************)
(* The parts together: each moves by its own steps and rests through those *)
(* of the others.                                                          *)
(***************************************************************************)
LEMMA PartsAreTheirs ==
  PartsSpec => K!Spec /\ S!Spec /\ H!Spec /\ T!Spec
  <1>1. PartsInit => K!Init /\ S!Init /\ H!Init /\ T!Init
    BY DEF PartsInit
  <1>2. [PartsNext]_allVars => [K!Next]_K!vars
    BY DEF PartsNext, allVars, keptVars, keyVars, K!vars, WorkspaceStep, DecisionsStep, InstallationsStep,
       SessionStep, KeyStep, SettingsStep, HistoryStep, TokensStep
  <1>3. [PartsNext]_allVars => [S!Next]_S!vars
    BY DEF PartsNext, allVars, keptVars, settingsVars, S!vars, WorkspaceStep, DecisionsStep, InstallationsStep,
       SessionStep, KeyStep, SettingsStep, HistoryStep, TokensStep
  <1>4. [PartsNext]_allVars => [H!Next]_H!vars
    BY DEF PartsNext, allVars, keptVars, historyVars, H!vars, WorkspaceStep, DecisionsStep, InstallationsStep,
       SessionStep, KeyStep, SettingsStep, HistoryStep, TokensStep
  <1>5. [PartsNext]_allVars => [T!Next]_T!vars
    BY DEF PartsNext, allVars, keptVars, tokenVars, T!vars, WorkspaceStep, DecisionsStep, InstallationsStep,
       SessionStep, KeyStep, SettingsStep, HistoryStep, TokensStep
  <1> QED
    BY <1>1, <1>2, <1>3, <1>4, <1>5, PTL DEF PartsSpec, K!Spec, S!Spec, H!Spec, T!Spec

(* CopiesAreRecent: whatever an orchestrator uses of a workspace, the       *)
(* workspace had it, or said it, within the time the copy may be kept.     *)
THEOREM CopiesStayRecent == ASSUME PartsAssumption PROVE PartsSpec => []CopiesAreRecent
  <1>1. K!Spec => []K!KeyIsRecent
    BY KeyStaysRecent DEF PartsAssumption
  <1>2. S!Spec => []S!SwitchIsObeyed
    BY SwitchStaysObeyed DEF PartsAssumption
  <1>3. H!Spec => []H!KeptInSequence
    BY HistoryStaysInSequence
  <1>4. T!Spec => []T!TokenIsGood
    BY TokensAreGood DEF PartsAssumption
  <1> QED
    BY <1>1, <1>2, <1>3, <1>4, PartsAreTheirs, PTL DEF CopiesAreRecent

-----------------------------------------------------------------------------
(***************************************************************************)
(* The GitHub credential.  While no sign-in overtook a renewal, one fresh  *)
(* pair is on its way at most, it is the newest, and no request waits to   *)
(* renew it; what is stored is the newest or nothing, unless an answer, be *)
(* it that pair or none, is still on its way.                              *)
(***************************************************************************)
PhasesOf == {"idle", "asking", "renewing", "using", "leaving"}

\* Fresh(q): GitHub gave this request a new pair, and it is not stored yet.
Fresh(reqs, q) == reqs[q].pc = "renewing" /\ reqs[q].answer # 0

SessionType ==
  /\ issued \in Nat /\ token \in Nat /\ token <= issued /\ granted \in BOOLEAN /\ crossed \in BOOLEAN
  /\ DOMAIN req = Visits
  /\ \A q \in Visits : /\ req[q] \in [pc : PhasesOf, read : Nat, answer : Nat]
                       /\ req[q].read <= issued /\ req[q].answer <= issued

NewestInv ==
  /\ token \in {0, issued} \/ \E q \in Visits : req[q].pc = "renewing"
  /\ \A q \in Visits : Fresh(req, q) =>
       /\ req[q].answer = issued /\ token # issued
       /\ \A o \in Visits : (Fresh(req, o) => o = q) /\ (req[o].pc = "asking" => req[o].read # issued)

OverlapInv ==
  \A q \in Visits : q \notin raced =>
    /\ req[q].pc = "asking" => req[q].read = issued
    /\ req[q].pc = "renewing" /\ req[q].answer = 0 => q \in failed \/ ~granted

TripInv ==
  /\ DOMAIN trip = States /\ ended \in [States -> Nat]
  /\ \A s \in States \ SignIns : ended[s] <= 1 /\ (trip[s] # G!NoTrip => ended[s] = 0)

SessionInv == SessionType /\ TripInv /\ (~crossed => NewestInv /\ OverlapInv)

(* A sign-in begins, or comes back.                                         *)
LEMMA TripStep ==
  ASSUME SessionInv, NEW s \in States, G!Begin(s) \/ G!Return(s) PROVE SessionInv'
  <1>1. /\ SessionType /\ DOMAIN trip = States /\ ended \in [States -> Nat]
        /\ \A t \in States \ SignIns : ended[t] <= 1 /\ (trip[t] # G!NoTrip => ended[t] = 0)
    BY DEF SessionInv, TripInv
  <1>2. CASE G!Begin(s)
    <2>1. /\ ended[s] = 0 /\ ended' = ended /\ DOMAIN trip' = States
          /\ \A t \in States \ {s} : trip'[t] \in {G!NoTrip, trip[t]}
          /\ UNCHANGED <<issued, granted, token, req, raced, failed, crossed>>
      BY <1>2 DEF G!Begin, G!sessionVars
    <2>2. TripInv'
      BY <1>1, <2>1 DEF TripInv, G!NoTrip
    <2>3. SessionType' /\ NewestInv' = NewestInv /\ OverlapInv' = OverlapInv
      BY <1>1, <2>1 DEF SessionType, NewestInv, OverlapInv
    <2> QED
      BY <2>1, <2>2, <2>3 DEF SessionInv
  <1>3. CASE G!Return(s)
    <2>1. trip' = [trip EXCEPT ![s] = G!NoTrip] /\ req' = req /\ failed' = failed
      BY <1>3 DEF G!Return
    <2>2. CASE G!SignedIn(s)
      <3>1. /\ s \in SignIns \/ trip[s] # G!NoTrip
            /\ issued' = issued + 1 /\ token' = issued' /\ granted' = TRUE
            /\ ended' = [ended EXCEPT ![s] = ended[s] + 1]
            /\ crossed' = (crossed \/ \E q \in Visits : req[q].pc \in {"asking", "renewing"})
        BY <2>2 DEF G!SignedIn, G!Valid, G!Taken
      <3>2. TripInv'
        BY <1>1, <2>1, <3>1 DEF TripInv
      <3>3. SessionType'
        BY <1>1, <2>1, <3>1 DEF SessionType
      <3>4. ~crossed' => NewestInv' /\ OverlapInv'
        BY <2>1, <3>1 DEF NewestInv, OverlapInv, Fresh
      <3> QED
        BY <3>2, <3>3, <3>4 DEF SessionInv
    <2>3. CASE UNCHANGED <<issued, token, granted, ended, raced, crossed>>
      <3>1. TripInv'
        BY <1>1, <2>1, <2>3 DEF TripInv
      <3>2. SessionType' /\ NewestInv' = NewestInv /\ OverlapInv' = OverlapInv
        BY <1>1, <2>1, <2>3 DEF SessionType, NewestInv, OverlapInv
      <3> QED
        BY <2>3, <3>1, <3>2 DEF SessionInv
    <2> QED
      BY <1>3, <2>2, <2>3 DEF G!Return
  <1> QED
    BY <1>2, <1>3

(* A request reads what is stored.                                          *)
LEMMA SessionLoad ==
  ASSUME SessionInv, NEW q \in Visits, NEW leaving \in BOOLEAN, G!Load(q, leaving) PROVE SessionInv'
  <1>1. PICK phase \in {"asking", "leaving", "using"} :
          req' = [req EXCEPT ![q] = [pc |-> phase, read |-> token, answer |-> token]]
    BY DEF G!Load
  <1>2. /\ req[q].pc = "idle" /\ token # 0
        /\ raced' = IF \E o \in Visits : req[o].pc = "renewing" THEN raced \cup {q} ELSE raced \ {q}
        /\ failed' = failed \ {q}
        /\ UNCHANGED <<issued, granted, token, crossed, trip, ended>>
    BY DEF G!Load, G!NoToken, G!tripVars
  <1>3. SessionType /\ TripInv
    BY DEF SessionInv
  <1>4. /\ DOMAIN req' = Visits /\ req'[q] = [pc |-> phase, read |-> token, answer |-> token]
        /\ \A o \in Visits \ {q} : req'[o] = req[o]
    BY <1>1, <1>3 DEF SessionType
  <1>5. SessionType'
    BY <1>2, <1>3, <1>4 DEF SessionType, PhasesOf
  <1>6. \A o \in Visits : Fresh(req', o) <=> Fresh(req, o)
    BY <1>2, <1>4 DEF Fresh
  <1>7. ASSUME ~crossed PROVE NewestInv' /\ OverlapInv'
    <2>1. NewestInv /\ OverlapInv
      BY <1>7 DEF SessionInv
    <2>2. \A o \in Visits : Fresh(req', o) => o # q /\ req'[o] = req[o]
      BY <1>2, <1>4, <1>6 DEF Fresh
    <2>3. ASSUME NEW o \in Visits, Fresh(req', o)
          PROVE  /\ req'[o].answer = issued /\ token # issued
                 /\ \A p \in Visits : (Fresh(req', p) => p = o) /\ (req'[p].pc = "asking" => req'[p].read # issued)
      <3>1. Fresh(req, o) /\ req'[o] = req[o]
        BY <1>6, <2>2, <2>3
      <3>2. /\ req[o].answer = issued /\ token # issued
            /\ \A p \in Visits : (Fresh(req, p) => p = o) /\ (req[p].pc = "asking" => req[p].read # issued)
        BY <2>1, <3>1 DEF NewestInv
      <3>3. req'[q].read = token
        BY <1>4
      <3> QED
        BY <1>4, <1>6, <3>1, <3>2, <3>3
    <2>7. ASSUME NEW o \in Visits, req[o].pc = "renewing"
          PROVE  req'[o].pc = "renewing"
      BY <1>2, <1>4, <2>7
    <2>4. NewestInv'
      BY <1>2, <2>1, <2>3, <2>7 DEF NewestInv
    <2>5. ASSUME NEW o \in Visits, o \notin raced'
          PROVE  /\ req'[o].pc = "asking" => req'[o].read = issued
                 /\ req'[o].pc = "renewing" /\ req'[o].answer = 0 => o \in failed' \/ ~granted
      <3>1. CASE o = q
        <4>1. \A p \in Visits : req[p].pc # "renewing"
          BY <1>2, <2>5, <3>1
        <4>2. token = issued
          BY <1>2, <2>1, <4>1 DEF NewestInv
        <4> QED
          BY <1>4, <3>1, <4>2
      <3>2. CASE o # q
        <4>1. o \notin raced /\ req'[o] = req[o] /\ (o \in failed => o \in failed')
          BY <1>2, <1>4, <2>5, <3>2
        <4> QED
          BY <2>1, <4>1 DEF OverlapInv
      <3> QED
        BY <3>1, <3>2
    <2>6. OverlapInv'
      BY <1>2, <2>5 DEF OverlapInv
    <2> QED
      BY <2>4, <2>6
  <1> QED
    BY <1>2, <1>3, <1>5, <1>7 DEF SessionInv, TripInv

(* It asks for a new pair; GitHub gives one for the newest only, and what it *)
(* gives may not arrive.                                                    *)
LEMMA SessionRenew ==
  ASSUME SessionInv, NEW q \in Visits, G!Renew(q) PROVE SessionInv'
  <1>1. /\ SessionType /\ TripInv /\ req[q].pc = "asking" /\ issued \in Nat
        /\ UNCHANGED <<granted, token, crossed, trip, ended>>
    BY DEF SessionInv, SessionType, G!Renew, G!tripVars
  <1>2. ASSUME NEW pair \in Nat, pair <= issued', issued' \in {issued, issued + 1}, G!Answer(q, pair)
        PROVE  /\ SessionType' /\ TripInv'
               /\ DOMAIN req' = Visits /\ req'[q] = [pc |-> "renewing", read |-> req[q].read, answer |-> pair]
               /\ \A o \in Visits \ {q} : req'[o] = req[o]
    <2>1. /\ DOMAIN req' = Visits /\ req'[q] = [pc |-> "renewing", read |-> req[q].read, answer |-> pair]
          /\ \A o \in Visits \ {q} : req'[o] = req[o]
      BY <1>1, <1>2 DEF SessionType, G!Answer
    <2>2. SessionType'
      BY <1>1, <1>2, <2>1 DEF SessionType, PhasesOf
    <2> QED
      BY <1>1, <2>1, <2>2 DEF TripInv
  <1>3. ASSUME ~crossed, G!Issue(q), NEW pair \in {0, issued'}, G!Answer(q, pair),
               pair = 0 => failed' = failed \cup {q}
        PROVE  NewestInv' /\ OverlapInv'
    <2>1. /\ issued' = issued + 1 /\ req[q].read = issued
          /\ raced' = raced \cup {o \in Visits \ {q} : req[o].pc # "idle"}
      BY <1>3 DEF G!Issue, G!Renewable
    <2>2. /\ req'[q] = [pc |-> "renewing", read |-> req[q].read, answer |-> pair]
          /\ \A o \in Visits \ {q} : req'[o] = req[o]
      <3>1. pair \in Nat /\ pair <= issued'
        BY <1>1, <1>3, <2>1
      <3> QED
        BY <1>2, <1>3, <2>1, <3>1
    <2>3. \A o \in Visits : ~Fresh(req, o)
      <3>1. NewestInv
        BY <1>3 DEF SessionInv
      <3> QED
        BY <1>1, <2>1, <3>1 DEF NewestInv
    <2>4. \A o \in Visits : Fresh(req', o) => o = q /\ req'[o].answer = issued'
      BY <1>3, <2>2, <2>3 DEF Fresh
    <2>5. token # issued' /\ \A o \in Visits : req'[o].pc = "asking" => req'[o].read # issued'
      BY <1>1, <2>1, <2>2 DEF SessionType
    <2>6. NewestInv'
      BY <1>1, <2>2, <2>4, <2>5 DEF NewestInv
    <2>7. \A o \in Visits : o \notin raced' => o = q \/ req'[o].pc = "idle"
      BY <2>1, <2>2
    <2>8. OverlapInv'
      BY <1>1, <1>3, <2>1, <2>2, <2>7 DEF OverlapInv
    <2> QED
      BY <2>6, <2>8
  <1>4. ASSUME ~crossed, UNCHANGED <<issued, raced>>, G!Answer(q, 0), failed \subseteq failed',
               q \in failed' \/ ~granted \/ req[q].read # issued
        PROVE  NewestInv' /\ OverlapInv'
    <2>1. /\ req'[q] = [pc |-> "renewing", read |-> req[q].read, answer |-> 0]
          /\ \A o \in Visits \ {q} : req'[o] = req[o]
      BY <1>1, <1>2, <1>4
    <2>2. NewestInv /\ OverlapInv
      BY <1>4 DEF SessionInv
    <2>3. \A o \in Visits : (Fresh(req', o) <=> Fresh(req, o)) /\ (Fresh(req, o) => req'[o] = req[o])
      BY <1>1, <2>1 DEF Fresh
    <2>4. \A o \in Visits : req'[o].pc = "asking" => req'[o] = req[o]
      BY <2>1
    <2>5. NewestInv'
      BY <1>1, <1>4, <2>1, <2>2, <2>3, <2>4 DEF NewestInv
    <2>6. OverlapInv'
      BY <1>1, <1>4, <2>1, <2>2 DEF OverlapInv
    <2> QED
      BY <2>5, <2>6
  <1>5. CASE G!Issue(q) /\ G!Answer(q, issued')
    <2>1. issued' = issued + 1 /\ issued' \in Nat /\ issued' <= issued'
      BY <1>1, <1>5 DEF G!Issue
    <2>2. issued' # 0
      BY <1>1, <2>1
    <2> QED
      BY <1>1, <1>2, <1>3, <1>5, <2>1, <2>2 DEF SessionInv
  <1>6. CASE G!Answer(q, 0) /\ UNCHANGED <<issued, raced>> /\ failed \subseteq failed'
             /\ (q \in failed' \/ ~granted \/ req[q].read # issued)
    <2>1. issued' = issued /\ 0 <= issued' /\ crossed' = crossed
      BY <1>1, <1>6 DEF SessionType
    <2>2. SessionType' /\ TripInv'
      BY <1>1, <1>2, <1>6, <2>1
    <2>3. ~crossed => NewestInv' /\ OverlapInv'
      BY <1>4, <1>6
    <2> QED
      BY <2>1, <2>2, <2>3 DEF SessionInv
  <1>7. CASE G!Answer(q, 0) /\ G!Issue(q) /\ failed' = failed \cup {q}
    <2>1. issued' = issued + 1 /\ 0 <= issued'
      BY <1>1, <1>7 DEF G!Issue
    <2> QED
      BY <1>1, <1>2, <1>3, <1>7, <2>1 DEF SessionInv
  <1> QED
    BY <1>5, <1>6, <1>7 DEF G!Renew, G!NoToken

(* There is nothing to renew with: what is stored is forgotten.             *)
LEMMA SessionLoadSpent ==
  ASSUME SessionInv, NEW q \in Visits, G!LoadSpent(q) PROVE SessionInv'
  <1>1. token' = 0 /\ UNCHANGED <<issued, granted, req, raced, failed, crossed, trip, ended>>
    BY DEF G!LoadSpent, G!NoToken, G!tripVars
  <1>2. SessionType' /\ TripInv'
    BY <1>1 DEF SessionInv, SessionType, TripInv
  <1>3. ASSUME ~crossed PROVE NewestInv' /\ OverlapInv'
    <2>1. NewestInv /\ OverlapInv
      BY <1>3 DEF SessionInv
    <2>2. \A o \in Visits : Fresh(req, o) => issued # 0
      BY <2>1 DEF NewestInv, Fresh
    <2> QED
      BY <1>1, <2>1, <2>2 DEF NewestInv, OverlapInv, Fresh
  <1> QED
    BY <1>1, <1>2, <1>3 DEF SessionInv

(* The answer is stored; a page uses the token, or the user leaves.         *)
LEMMA SessionStore ==
  ASSUME SessionInv, NEW q \in Visits, G!Renewed(q) \/ G!Use(q) \/ G!Leave(q) PROVE SessionInv'
  <1>1. /\ SessionType /\ TripInv
        /\ UNCHANGED <<issued, crossed, raced, failed, trip, ended>> /\ granted' \in {FALSE, granted}
    BY DEF SessionInv, G!Renewed, G!Use, G!Leave, G!tripVars
  <1>3. /\ DOMAIN req' = Visits /\ req'[q] \in [pc : PhasesOf, read : Nat, answer : Nat]
        /\ req'[q].read <= issued /\ req'[q].answer <= issued /\ req'[q].pc \in {"idle", "using"}
        /\ \A o \in Visits \ {q} : req'[o] = req[o]
    <2>1. CASE G!Renewed(q)
      <3>1. PICK phase \in {"idle", "using"} : req' = [req EXCEPT ![q].pc = phase]
        BY <2>1 DEF G!Renewed
      <3>2. req[q] \in [pc : PhasesOf, read : Nat, answer : Nat] /\ req[q].read <= issued /\ req[q].answer <= issued
        BY <1>1 DEF SessionType
      <3>3. req'[q] = [req[q] EXCEPT !.pc = phase] /\ DOMAIN req' = Visits /\ \A o \in Visits \ {q} : req'[o] = req[o]
        BY <1>1, <3>1 DEF SessionType
      <3>4. req'[q] = [pc |-> phase, read |-> req[q].read, answer |-> req[q].answer]
        BY <3>2, <3>3
      <3> QED
        BY <3>2, <3>3, <3>4 DEF PhasesOf
    <2>2. CASE G!Use(q) \/ G!Leave(q)
      <3>1. req' = [req EXCEPT ![q] = [pc |-> "idle", read |-> 0, answer |-> 0]]
        BY <2>2 DEF G!Use, G!Leave, G!Ready, G!NoToken
      <3>2. 0 <= issued /\ 0 \in Nat
        BY <1>1 DEF SessionType
      <3> QED
        BY <1>1, <3>1, <3>2 DEF SessionType, PhasesOf
    <2> QED
      BY <2>1, <2>2
  <1>4. token' \in {0, token} \/ (req[q].pc = "renewing" /\ token' = req[q].answer)
    BY DEF G!Renewed, G!Use, G!Leave, G!NoToken
  <1>5. SessionType'
    <2>1. issued \in Nat /\ token \in Nat /\ token <= issued /\ req[q].answer \in Nat /\ req[q].answer <= issued
      BY <1>1 DEF SessionType
    <2>2. token' \in Nat /\ token' <= issued
      BY <1>4, <2>1
    <2>3. \A o \in Visits : /\ req'[o] \in [pc : PhasesOf, read : Nat, answer : Nat]
                             /\ req'[o].read <= issued /\ req'[o].answer <= issued
      BY <1>1, <1>3 DEF SessionType
    <2>4. granted' \in BOOLEAN /\ crossed' \in BOOLEAN
      BY <1>1 DEF SessionType
    <2> QED
      BY <1>1, <1>3, <2>2, <2>3, <2>4 DEF SessionType
  <1>6. \A o \in Visits : Fresh(req', o) => Fresh(req, o) /\ o # q /\ req'[o] = req[o]
    BY <1>3 DEF Fresh
  <1>7. ASSUME ~crossed PROVE NewestInv' /\ OverlapInv'
    <2>1. NewestInv /\ OverlapInv
      BY <1>7 DEF SessionInv
    <2>2. CASE req[q].pc = "renewing" /\ token' = req[q].answer
      <3>1. CASE req[q].answer = 0
        <4>1. ~Fresh(req, q) /\ token' = 0
          BY <2>2, <3>1 DEF Fresh
        <4>2. \A o \in Visits : Fresh(req', o) => issued # 0
          BY <1>6, <2>1 DEF NewestInv, Fresh
        <4>3. \A o \in Visits : Fresh(req', o) =>
                /\ req'[o].answer = issued
                /\ \A p \in Visits : (Fresh(req', p) => p = o) /\ (req'[p].pc = "asking" => req'[p].read # issued)
          BY <1>3, <1>6, <2>1 DEF NewestInv
        <4>4. NewestInv'
          BY <1>1, <4>1, <4>2, <4>3 DEF NewestInv
        <4>5. OverlapInv'
          BY <1>1, <1>3, <2>1 DEF OverlapInv
        <4> QED
          BY <4>4, <4>5
      <3>2. CASE req[q].answer # 0
        <4>1. Fresh(req, q)
          BY <2>2, <3>2 DEF Fresh
        <4>2. token' = issued /\ \A o \in Visits : ~Fresh(req', o)
          BY <1>6, <2>1, <2>2, <4>1 DEF NewestInv
        <4>3. NewestInv'
          BY <1>1, <4>2 DEF NewestInv
        <4>4. OverlapInv'
          BY <1>1, <1>3, <2>1 DEF OverlapInv
        <4> QED
          BY <4>3, <4>4
      <3> QED
        BY <3>1, <3>2
    <2>3. CASE req[q].pc # "renewing" /\ token' \in {0, token}
      <3>1. \A o \in Visits : req[o].pc = "renewing" => req'[o].pc = "renewing"
        BY <1>3, <2>3
      <3>2. \A o \in Visits : Fresh(req', o) =>
              /\ req'[o].answer = issued /\ token # issued /\ issued # 0
              /\ \A p \in Visits : (Fresh(req', p) => p = o) /\ (req'[p].pc = "asking" => req'[p].read # issued)
        BY <1>3, <1>6, <2>1 DEF NewestInv, Fresh
      <3>3. NewestInv'
        BY <1>1, <2>1, <2>3, <3>1, <3>2 DEF NewestInv
      <3>4. OverlapInv'
        BY <1>1, <1>3, <2>1 DEF OverlapInv
      <3> QED
        BY <3>3, <3>4
    <2>4. CASE req[q].pc = "renewing" /\ token' # req[q].answer
      BY <2>4 DEF G!Renewed, G!Use, G!Leave
    <2> QED
      BY <1>4, <2>2, <2>3, <2>4
  <1> QED
    BY <1>1, <1>5, <1>7 DEF SessionInv, TripInv

(* CredentialIsKept holds of any number of requests and round trips, pairs  *)
(* of tokens, and times they live, whatever renewals fail.                                          *)
LEMMA CredentialStaysKept == ASSUME G!GitHubSessionAssumption PROVE G!Spec => G!CredentialIsKept
  <1>1. ASSUME G!Init PROVE SessionInv
    <2>1. /\ issued = 0 /\ token = 0 /\ granted = FALSE /\ crossed = FALSE /\ DOMAIN req = Visits
          /\ \A q \in Visits : req[q] = [pc |-> "idle", read |-> 0, answer |-> 0]
          /\ DOMAIN trip = States /\ ended = [s \in States |-> 0]
      BY <1>1 DEF G!Init, G!Ready, G!NoToken
    <2>5. \A q \in Visits : /\ req[q] \in [pc : PhasesOf, read : Nat, answer : Nat]
                             /\ req[q].read = 0 /\ req[q].answer = 0
      BY <2>1 DEF PhasesOf
    <2>6. granted \in BOOLEAN /\ crossed \in BOOLEAN
      BY <2>1
    <2>7. /\ issued \in Nat /\ token \in Nat /\ token <= issued
          /\ \A q \in Visits : req[q].read <= issued /\ req[q].answer <= issued
      BY <2>1, <2>5
    <2>2. SessionType
      BY <2>1, <2>5, <2>6, <2>7 DEF SessionType
    <2>3. TripInv
      BY <2>1 DEF TripInv
    <2>4. NewestInv /\ OverlapInv
      BY <2>1 DEF NewestInv, OverlapInv, Fresh
    <2> QED
      BY <2>2, <2>3, <2>4 DEF SessionInv
  <1>2. SessionInv /\ [G!Next]_G!vars => SessionInv'
    <2> SUFFICES ASSUME SessionInv, [G!Next]_G!vars PROVE SessionInv'
      OBVIOUS
    <2>1. CASE \E s \in States : G!Begin(s) \/ G!Return(s)
      BY <2>1, TripStep
    <2>2. CASE \E q \in Visits, leaving \in BOOLEAN : G!Load(q, leaving)
      BY <2>2, SessionLoad
    <2>3. CASE \E q \in Visits : G!Renew(q)
      BY <2>3, SessionRenew
    <2>4. CASE \E q \in Visits : G!Renewed(q) \/ G!Use(q) \/ G!Leave(q)
      BY <2>4, SessionStore
    <2>6. CASE \E q \in Visits : G!LoadSpent(q)
      BY <2>6, SessionLoadSpent
    <2>5. CASE G!Pass \/ G!Expire \/ UNCHANGED G!vars
      BY <2>5 DEF G!Pass, G!Expire, G!vars, G!sessionVars, G!tripVars,
         SessionInv, SessionType, TripInv, NewestInv, OverlapInv
    <2> QED
      BY <2>1, <2>2, <2>3, <2>4, <2>5, <2>6 DEF G!Next
  <1>3. SessionInv => G!StoredIsNewest /\ G!TripEndsOnce
    BY DEF SessionInv, NewestInv, TripInv, Fresh, G!StoredIsNewest, G!TripEndsOnce, G!NoToken
  <1>4. SessionInv' => G!StoredIsNewest' /\ G!TripEndsOnce'
    BY DEF SessionInv, NewestInv, TripInv, Fresh, G!StoredIsNewest, G!TripEndsOnce, G!NoToken
  <1>5. ASSUME SessionInv, [G!Next]_G!vars, granted, token # G!NoToken, token' = G!NoToken
        PROVE  (G!Spent /\ ~renews) \/ \E q \in Visits : G!LostBy(q)
    <2>1. DOMAIN req = Visits /\ issued \in Nat
      BY <1>5 DEF SessionInv, SessionType
    <2>2. ASSUME NEW q \in Visits, G!LoadSpent(q)
          PROVE  G!Spent /\ ~renews
      BY <2>2 DEF G!LoadSpent
    <2>3. ASSUME NEW q \in Visits, G!Renewed(q)
          PROVE  G!LostBy(q)
      <3>1. req[q].pc = "renewing" /\ req[q].answer = 0 /\ req'[q].pc = "idle"
        BY <1>5, <2>1, <2>3 DEF G!Renewed, G!NoToken
      <3>2. q \in raced \cup failed \/ crossed
        BY <1>5, <3>1 DEF SessionInv, OverlapInv
      <3> QED
        BY <3>1, <3>2 DEF G!LostBy
    <2>4. ASSUME NEW q \in Visits, G!Use(q)
          PROVE  G!LostBy(q)
      <3>1. req[q].pc = "using" /\ req'[q].pc = "idle" /\ G!Rejected(q)
        BY <1>5, <2>1, <2>4 DEF G!Use, G!Ready
      <3> QED
        BY <1>5, <3>1 DEF G!LostBy, G!Rejected
    <2>5. ASSUME NEW q \in Visits, G!Leave(q)
          PROVE  G!LostBy(q)
      <3>1. req[q].pc = "leaving" /\ req'[q].pc = "idle"
        BY <2>1, <2>5 DEF G!Leave, G!Ready
      <3> QED
        BY <3>1 DEF G!LostBy
    <2>6. ASSUME NEW q \in Visits, NEW leaving \in BOOLEAN, G!Load(q, leaving) \/ G!Renew(q)
          PROVE  FALSE
      BY <1>5, <2>6 DEF G!Load, G!Renew
    <2>7. ASSUME NEW s \in States, G!Begin(s) \/ G!Return(s)
          PROVE  FALSE
      <3>1. token' = 0 /\ token # 0
        BY <1>5 DEF G!NoToken
      <3>2. CASE G!Begin(s)
        BY <3>1, <3>2 DEF G!Begin, G!sessionVars
      <3>3. CASE G!Return(s)
        <4>1. token' = token \/ token' = issued + 1
          BY <3>3 DEF G!Return, G!SignedIn
        <4> QED
          BY <2>1, <3>1, <4>1
      <3> QED
        BY <2>7, <3>2, <3>3
    <2>8. CASE G!Pass \/ G!Expire \/ UNCHANGED G!vars
      BY <1>5, <2>8 DEF G!Pass, G!Expire, G!vars, G!sessionVars
    <2> QED
      BY <1>5, <2>2, <2>3, <2>4, <2>5, <2>6, <2>7, <2>8 DEF G!Next
  <1>6. SessionInv /\ [G!Next]_G!vars =>
          [granted /\ issued < MaxGens /\ token # G!NoToken /\ token' = G!NoToken =>
             (G!Spent /\ ~renews) \/ \E q \in Visits : G!LostBy(q)]_G!vars
    BY <1>5
  <1> QED
    BY <1>1, <1>2, <1>4, <1>6, PTL DEF G!Spec, G!CredentialIsKept, G!LostOnlyByOverlap

-----------------------------------------------------------------------------
(***************************************************************************)
(* The installations.  A row that no webhook wrote last is not of the      *)
(* future; while a page load is undisturbed it has listed what is there,   *)
(* and the rows it is done with are what GitHub grants, or a webhook's of  *)
(* a later stamp.                                                          *)
(***************************************************************************)
PageFields == {"pc", "list", "at", "todo", "got", "clean"}

PageType(p, time) ==
  \/ p = I!Closed
  \/ /\ DOMAIN p = PageFields /\ p.pc \in {"listed", "fetching", "fetched"} /\ p.clean \in BOOLEAN
     /\ p.list \subseteq Insts /\ p.todo \subseteq p.list
     /\ p.at \in Nat /\ p.at <= I!IsoStamp(time)
     /\ p.pc = "fetched" => p.got.inst \in p.list \ p.todo /\ p.got.repos \subseteq Projects

MailType(d) ==
  /\ d.inst \in Insts /\ d.repos \subseteq Projects
  /\ d.added \subseteq Projects /\ d.removed \subseteq Projects /\ d.at \in Nat

RowsType ==
  /\ clock \in Nat
  /\ DOMAIN github = Insts /\ \A i \in Insts : github[i] = NotInstalled \/ github[i] \in SUBSET Projects
  /\ DOMAIN known = Insts /\ \A i \in Insts : known[i] = NoRow \/ known[i] \in I!Rows
  /\ \A d \in mail : MailType(d)
  /\ DOMAIN page = Loads /\ \A l \in Loads : PageType(page[l], clock)

\* No row of these is newer than this, but a webhook's.
UntilThen(rs, tld, time) == \A i \in Insts : rs[i] # NoRow /\ i \notin tld => rs[i].at <= time

\* A page load has made this row what GitHub grants, unless a webhook's is newer.
Right(gh, rs, tld, l, i, at) ==
  /\ rs[i] # NoRow
  /\ (rs[i].team = MemberOf[l] /\ rs[i].repos = gh[i]) \/ (i \in tld /\ rs[i].at > at)

\* A page load that nothing disturbed so far.
CleanPage(p, l, gh, rs, tld) ==
  /\ p.list = {i \in Insts : gh[i] # NotInstalled} \cap Sees[l]
  /\ p.pc # "listed" => UntilThen(rs, tld, p.at)
  /\ p.pc = "fetching" => \A i \in p.list \ p.todo : Right(gh, rs, tld, l, i, p.at)
  /\ p.pc = "fetched" => /\ p.got.ok /\ p.got.repos = gh[p.got.inst]
                         /\ \A i \in p.list \ (p.todo \cup {p.got.inst}) : Right(gh, rs, tld, l, i, p.at)

PagesInv ==
  /\ UntilThen(known, told, I!IsoStamp(clock))
  /\ \A l \in Loads : page[l] # I!Closed /\ page[l].clean => CleanPage(page[l], l, github, known, told)

RowsInv == RowsType /\ PagesInv

\* The rows are a function, so that two that agree at every installation are the same.
RowsFunction == known = [i \in Insts |-> known[i]]

\* An installation has at most one row.
LEMMA RowsStayFunction == ASSUME RowsFunction, I!Next PROVE RowsFunction'
  <1> USE DEF RowsFunction
  <1>1. ASSUME NEW i \in Insts, I!Install(i) \/ I!Uninstall(i) \/ I!OtherChange(i) \/ \E r \in Projects : I!Grant(i, r) \/ I!Revoke(i, r)
        PROVE  known' = known
    BY <1>1 DEF I!Install, I!Uninstall, I!OtherChange, I!Grant, I!Revoke, I!AtGitHub
  <1>2. ASSUME NEW d, I!Lose(d) \/ I!Deliver(d) PROVE known' = [i \in Insts |-> known'[i]]
    <2>1. CASE I!Lose(d)
      BY <2>1 DEF I!Lose
    <2>2. CASE I!Deliver(d)
      <3>1. known' = [known EXCEPT ![d.inst] = I!Applied(d)]
        BY <2>2 DEF I!Deliver
      <3> QED
        BY <3>1
    <2> QED
      BY <1>2, <2>1, <2>2
  <1>3. ASSUME NEW l, NEW rs PROVE I!Pruned(rs, l) = [i \in Insts |-> I!Pruned(rs, l)[i]]
    BY DEF I!Pruned
  <1>4. ASSUME NEW l \in Loads, I!Start(l) PROVE known' = [i \in Insts |-> known'[i]]
    BY <1>3, <1>4 DEF I!Start
  <1>5. ASSUME NEW l \in Loads, I!Save(l) PROVE known' = [i \in Insts |-> known'[i]]
    <2> DEFINE rows1 == [known EXCEPT ![page[l].got.inst] = I!Fetched(l)]
    <2>1. known' = I!Pruned(rows1, l) \/ known' = rows1
      BY <1>5 DEF I!Save
    <2>2. rows1 = [i \in Insts |-> rows1[i]]
      OBVIOUS
    <2> HIDE DEF rows1
    <2> QED
      BY <1>3, <2>1, <2>2
  <1>6. ASSUME NEW l \in Loads, I!Ask(l) \/ \E i \in Insts : I!Fetch(l, i) PROVE known' = known
    BY <1>6 DEF I!Ask, I!Fetch
  <1>7. ASSUME NEW t \in Accounts, I!Disconnect(t) PROVE known' = [i \in Insts |-> known'[i]]
    BY <1>7 DEF I!Disconnect
  <1>8. ASSUME I!Tick PROVE known' = known
    BY <1>8 DEF I!Tick
  <1> QED
    BY <1>1, <1>2, <1>4, <1>5, <1>6, <1>7, <1>8 DEF I!Next

(* What makes every page load under way one of the past.                    *)
LEMMA PagesStale ==
  ASSUME RowsType
  PROVE  /\ DOMAIN I!Stale = Loads
         /\ \A l \in Loads : /\ PageType(I!Stale[l], clock)
                             /\ I!Stale[l] = I!Closed <=> page[l] = I!Closed
                             /\ I!Stale[l] # I!Closed => ~I!Stale[l].clean
  <1>1. DOMAIN I!Stale = Loads
    BY DEF I!Stale
  <1>2. ASSUME NEW l \in Loads
        PROVE  /\ PageType(I!Stale[l], clock) /\ (I!Stale[l] = I!Closed <=> page[l] = I!Closed)
               /\ I!Stale[l] # I!Closed => ~I!Stale[l].clean
    <2>1. CASE page[l] = I!Closed
      <3>1. I!Stale[l] = I!Closed
        BY <2>1 DEF I!Stale
      <3> QED
        BY <2>1, <3>1 DEF PageType
    <2>2. CASE page[l] # I!Closed
      <3> DEFINE p == page[l]
      <3> DEFINE q == [p EXCEPT !.clean = FALSE]
      <3>1. I!Stale[l] = q
        BY <2>2 DEF I!Stale
      <3>2. PageType(p, clock)
        BY DEF RowsType
      <3>3. DOMAIN p = PageFields /\ p.pc # "closed"
        BY <2>2, <3>2 DEF PageType
      <3> HIDE DEF p
      <3>4. /\ DOMAIN q = PageFields /\ q.pc = p.pc /\ q.clean = FALSE /\ q.list = p.list
            /\ q.todo = p.todo /\ q.at = p.at /\ q.got = p.got
        BY <3>3 DEF PageFields
      <3> HIDE DEF q
      <3>5. PageType(q, clock)
        BY <2>2, <3>2, <3>4 DEF PageType, p
      <3>6. q # I!Closed
        BY <3>3, <3>4 DEF I!Closed
      <3> QED
        BY <2>2, <3>1, <3>4, <3>5, <3>6
    <2> QED
      BY <2>1, <2>2
  <1> QED
    BY <1>1, <1>2

\* Both stamps of a moment are numbers.
LEMMA StampType ==
  ASSUME NEW t \in Nat PROVE I!PayloadStamp(t) \in Nat /\ I!IsoStamp(t) \in Nat
  BY DEF I!PayloadStamp, I!IsoStamp

(* Something changes at GitHub, and a webhook goes out.                     *)
LEMMA GitHubStep ==
  ASSUME I!InstallationsAssumption, RowsInv, NEW i \in Insts,
         I!Install(i) \/ I!Uninstall(i) \/ I!OtherChange(i) \/ \E r \in Projects : I!Grant(i, r) \/ I!Revoke(i, r)
  PROVE  RowsInv' /\ known' = known /\ \A l \in Loads : page'[l] = I!Closed => page[l] = I!Closed
  <1>1. PICK grant \in {NotInstalled} \cup SUBSET Projects : I!AtGitHub(i, grant)
    <2>1. github[i] \in {NotInstalled} \cup SUBSET Projects
      BY DEF RowsInv, RowsType
    <2>2. CASE \E r \in Projects : I!Grant(i, r) \/ I!Revoke(i, r)
      <3>1. PICK r \in Projects : I!Grant(i, r) \/ I!Revoke(i, r)
        BY <2>2
      <3>2. github[i] \in SUBSET Projects
        BY <2>1, <3>1 DEF I!Grant, I!Revoke, I!Installed
      <3> QED
        BY <3>1, <3>2 DEF I!Grant, I!Revoke
    <2>3. CASE I!Install(i) \/ I!Uninstall(i) \/ I!OtherChange(i)
      BY <2>1, <2>3 DEF I!Install, I!Uninstall, I!OtherChange
    <2> QED
      BY <2>2, <2>3
  <1>2. PICK d : MailType(d) /\ mail' = mail \cup {d}
    <2>1. I!PayloadStamp(clock) \in Nat
      BY StampType DEF RowsInv, RowsType
    <2>2. ASSUME NEW action, NEW list \in SUBSET Projects, NEW gained \in SUBSET Projects, NEW gone \in SUBSET Projects,
                 I!Send(i, action, list, gained, gone)
          PROVE  \E d : MailType(d) /\ mail' = mail \cup {d}
      <3> DEFINE d == [inst |-> i, action |-> action, repos |-> list, added |-> gained, removed |-> gone,
                       at |-> I!PayloadStamp(clock)]
      <3>1. MailType(d)
        BY <2>1 DEF MailType
      <3>2. mail' = mail \cup {d}
        BY <2>2 DEF I!Send
      <3> QED
        BY <3>1, <3>2
    <2>3. \E action : \E list, gained, gone \in SUBSET Projects : I!Send(i, action, list, gained, gone)
      <3>1. CASE \E r \in Projects : I!Grant(i, r) \/ I!Revoke(i, r)
        BY <3>1 DEF I!Grant, I!Revoke
      <3>2. CASE I!Install(i) \/ I!Uninstall(i) \/ I!OtherChange(i)
        BY <3>2 DEF I!Install, I!Uninstall, I!OtherChange
      <3> QED
        BY <3>1, <3>2
    <2> QED
      BY <2>2, <2>3
  <1>3. /\ github' = [github EXCEPT ![i] = grant] /\ page' = I!Stale
        /\ known' = known /\ told' = told /\ clock' = clock
    BY <1>1 DEF I!AtGitHub
  <1>4. RowsType
    BY DEF RowsInv
  <1>5. RowsType'
    BY <1>2, <1>3, <1>4, PagesStale DEF RowsType
  <1>6. PagesInv'
    <2>1. \A l \in Loads : page'[l] # I!Closed => ~page'[l].clean
      BY <1>3, <1>4, PagesStale
    <2> QED
      BY <1>3, <2>1 DEF RowsInv, PagesInv, UntilThen
  <1> QED
    BY <1>3, <1>4, <1>5, <1>6, PagesStale DEF RowsInv

(* What each row's time and each page load's end have to do with the rows.  *)
Forward == \A i \in Insts : known[i] # NoRow /\ known'[i] # NoRow => known'[i].at >= known[i].at

StaysOpen == \A l \in Loads : page'[l] = I!Closed => page[l] = I!Closed

Repairs(l) ==
  \A i \in I!Comparable(l) :
    IF i \in I!Installed
    THEN known'[i] # NoRow /\ known'[i].repos = github[i] /\ known'[i].team = MemberOf[l]
    ELSE known[i] # NoRow /\ known[i].team = MemberOf[l] => known'[i] = NoRow

(* A delivery is lost or applied, a workspace disconnects, or time passes.  *)
LEMMA DeliveryStep ==
  ASSUME I!InstallationsAssumption, RowsInv,
         (\E d \in mail : I!Lose(d) \/ I!Deliver(d)) \/ (\E t \in Accounts : I!Disconnect(t)) \/ I!Tick
  PROVE  RowsInv' /\ Forward /\ StaysOpen
  <1>1. /\ RowsType /\ UntilThen(known, told, I!IsoStamp(clock)) /\ clock \in Nat
        /\ \A i \in Insts : known[i] = NoRow \/ known[i] \in I!Rows
        /\ \A i \in Insts : known[i] # NoRow => known[i].at \in Nat
    BY DEF RowsInv, PagesInv, RowsType, I!Rows
  <1>2. ASSUME NEW d \in mail, I!Lose(d) PROVE RowsInv' /\ Forward /\ StaysOpen
    <2>1. mail' = mail \ {d} /\ UNCHANGED <<clock, github, known, page, told>>
      BY <1>2 DEF I!Lose
    <2>2. RowsType'
      BY <1>1, <2>1 DEF RowsType
    <2>3. PagesInv'
      BY <2>1 DEF RowsInv, PagesInv, UntilThen, CleanPage, Right, I!Installed
    <2> QED
      BY <1>1, <2>1, <2>2, <2>3 DEF RowsInv, Forward, StaysOpen
  <1>3. CASE I!Tick
    <2>1. clock' = clock + 1 /\ UNCHANGED <<github, mail, known, page, told>>
      BY <1>3 DEF I!Tick
    <2>2. clock' \in Nat /\ I!IsoStamp(clock) <= I!IsoStamp(clock') /\ I!IsoStamp(clock) \in Nat /\ I!IsoStamp(clock') \in Nat
      BY <1>1, <2>1 DEF I!IsoStamp
    <2>3. \A l \in Loads : PageType(page[l], clock')
      <3> SUFFICES ASSUME NEW l \in Loads PROVE PageType(page[l], clock')
        OBVIOUS
      <3>1. PageType(page[l], clock)
        BY <1>1 DEF RowsType
      <3>2. page[l].at \in Nat /\ page[l].at <= I!IsoStamp(clock) => page[l].at <= I!IsoStamp(clock')
        BY <2>2
      <3> QED
        BY <3>1, <3>2 DEF PageType
    <2>4. RowsType'
      BY <1>1, <2>1, <2>2, <2>3 DEF RowsType
    <2>5. UntilThen(known, told, I!IsoStamp(clock'))
      BY <1>1, <2>2 DEF UntilThen
    <2>6. PagesInv'
      BY <2>1, <2>5 DEF RowsInv, PagesInv, CleanPage, UntilThen, Right, I!Installed
    <2> QED
      BY <1>1, <2>1, <2>4, <2>6 DEF RowsInv, Forward, StaysOpen
  <1>4. ASSUME page' = I!Stale, UNCHANGED <<clock, github>>, mail' \subseteq mail, DOMAIN known' = Insts,
               \A i \in Insts : known'[i] = NoRow \/ known'[i] \in I!Rows,
               UntilThen(known', told', I!IsoStamp(clock))
        PROVE  RowsInv' /\ StaysOpen
    <2>1. RowsType'
      BY <1>1, <1>4, PagesStale DEF RowsType
    <2>2. \A l \in Loads : page'[l] # I!Closed => ~page'[l].clean
      BY <1>1, <1>4, PagesStale
    <2>3. PagesInv'
      BY <1>4, <2>2 DEF PagesInv, UntilThen
    <2> QED
      BY <1>1, <1>4, <2>1, <2>3, PagesStale DEF RowsInv, StaysOpen
  <1>5. ASSUME NEW t \in Accounts, I!Disconnect(t) PROVE RowsInv' /\ Forward /\ StaysOpen
    <2>1. /\ page' = I!Stale /\ UNCHANGED <<clock, github, mail, told>> /\ DOMAIN known' = Insts
          /\ \A i \in Insts : known'[i] \in {NoRow, known[i]}
      BY <1>5 DEF I!Disconnect
    <2>2. UntilThen(known', told', I!IsoStamp(clock)) /\ \A i \in Insts : known'[i] = NoRow \/ known'[i] \in I!Rows
      BY <1>1, <2>1 DEF UntilThen
    <2>3. Forward
      BY <1>1, <2>1 DEF Forward
    <2> QED
      BY <1>4, <2>1, <2>2, <2>3
  <1>6. ASSUME NEW d \in mail, I!Deliver(d) PROVE RowsInv' /\ Forward /\ StaysOpen
    <2> DEFINE i == d.inst
    <2> DEFINE row == known[i]
    <2> DEFINE new == I!Applied(d)
    <2>1. /\ page' = I!Stale /\ UNCHANGED <<clock, github>> /\ mail' = mail \ {d}
          /\ known' = [known EXCEPT ![i] = new]
          /\ told' = IF known' = known THEN told ELSE told \cup {i}
      BY <1>6 DEF I!Deliver
    <2>2. MailType(d) /\ i \in Insts
      BY <1>1 DEF RowsType, MailType
    <2>3. AccountOf[i] \in Accounts
      BY <2>2 DEF I!InstallationsAssumption
    <2>4. row = NoRow \/ row \in I!Rows
      BY <1>1, <2>2
    <2>5. (new = NoRow \/ new \in I!Rows) /\ (row # NoRow /\ new # NoRow => new.at >= row.at)
      <3>1. CASE d.action = "deleted"
        BY <3>1 DEF I!Applied
      <3>2. CASE d.action \in {"added", "removed"}
        <4>1. CASE row = NoRow \/ ~I!Accepts(i, d.at)
          <5>1. new = row
            BY <3>2, <4>1 DEF I!Applied
          <5>2. row # NoRow => row.at \in Nat
            BY <1>1, <2>2
          <5>3. row # NoRow => row.at >= row.at
            BY <5>2
          <5> QED
            BY <2>4, <5>1, <5>3
        <4>2. CASE ~(row = NoRow \/ ~I!Accepts(i, d.at))
          <5>1. new = I!Relisted(row, d) /\ row \in I!Rows /\ d.at >= row.at
            BY <2>4, <3>2, <4>2 DEF I!Applied, I!Accepts
          <5>2. new = [row EXCEPT !.repos = (row.repos \ d.removed) \cup d.added, !.at = d.at]
            BY <5>1 DEF I!Relisted
          <5>3. new = [team |-> row.team, repos |-> (row.repos \ d.removed) \cup d.added, at |-> d.at]
            BY <5>1, <5>2 DEF I!Rows
          <5>4. (row.repos \ d.removed) \cup d.added \in SUBSET Projects /\ row.team \in Accounts /\ d.at \in Nat
            BY <2>2, <5>1 DEF MailType, I!Rows
          <5> HIDE DEF new
          <5> QED
            BY <5>1, <5>3, <5>4 DEF I!Rows
        <4> QED
          BY <4>1, <4>2
      <3>3. CASE d.action \notin {"deleted", "added", "removed"}
        <4>1. CASE ~I!Accepts(i, d.at)
          <5>1. new = row
            BY <3>3, <4>1 DEF I!Applied
          <5>2. row # NoRow => row.at \in Nat
            BY <1>1, <2>2
          <5>3. row # NoRow => row.at >= row.at
            BY <5>2
          <5> QED
            BY <2>4, <5>1, <5>3
        <4>2. CASE I!Accepts(i, d.at)
          <5> DEFINE repos2 == IF d.action = "created" THEN d.repos ELSE IF row = NoRow THEN {} ELSE row.repos
          <5> DEFINE team2 == IF row = NoRow THEN AccountOf[i] ELSE row.team
          <5>1. new = [team |-> team2, at |-> d.at, repos |-> repos2]
            BY <3>3, <4>2 DEF I!Applied
          <5>2. repos2 \in SUBSET Projects /\ team2 \in Accounts
            BY <2>2, <2>3, <2>4 DEF MailType, I!Rows
          <5>3. d.at \in Nat /\ (row # NoRow => d.at >= row.at)
            BY <2>2, <4>2 DEF MailType, I!Accepts
          <5> HIDE DEF new, repos2, team2
          <5> QED
            BY <5>1, <5>2, <5>3 DEF I!Rows
        <4> QED
          BY <4>1, <4>2
      <3> QED
        BY <3>1, <3>2, <3>3
    <2> HIDE DEF new
    <2>6. \A j \in Insts : known'[j] = NoRow \/ known'[j] \in I!Rows
      BY <1>1, <2>1, <2>5 DEF RowsType
    <2>7. \A j \in Insts : j \notin told' => j \notin told /\ known'[j] = known[j]
      BY <1>1, <2>1 DEF RowsType
    <2>8. UntilThen(known', told', I!IsoStamp(clock))
      BY <1>1, <2>7 DEF UntilThen
    <2>9. Forward
      BY <1>1, <2>1, <2>5 DEF Forward, RowsType
    <2>10. DOMAIN known' = Insts
      BY <1>1, <2>1 DEF RowsType
    <2> QED
      BY <1>4, <2>1, <2>6, <2>8, <2>9, <2>10
  <1> QED
    BY <1>2, <1>3, <1>5, <1>6

(* Where the rows are written by one page load, the others are disturbed.   *)
LEMMA PageMoves ==
  ASSUME RowsInv, NEW l \in Loads, DOMAIN page' = Loads, UNCHANGED <<clock, github, mail>>,
         DOMAIN known' = Insts, \A i \in Insts : known'[i] = NoRow \/ known'[i] \in I!Rows,
         UntilThen(known', told', I!IsoStamp(clock)),
         PageType(page'[l], clock),
         page'[l] # I!Closed /\ page'[l].clean => CleanPage(page'[l], l, github', known', told'),
         \A k \in Loads \ {l} : \/ page'[k] = page[k] /\ known' = known /\ told' = told
                                \/ page'[k] = I!Stale[k]
  PROVE  RowsInv' /\ \A k \in Loads \ {l} : page'[k] = I!Closed => page[k] = I!Closed
  <1>1. RowsType
    BY DEF RowsInv
  <1>2. \A k \in Loads : PageType(page'[k], clock)
    <2> SUFFICES ASSUME NEW k \in Loads PROVE PageType(page'[k], clock)
      OBVIOUS
    <2>1. PageType(page[k], clock) /\ PageType(I!Stale[k], clock)
      BY <1>1, PagesStale DEF RowsType
    <2> QED
      BY <2>1
  <1>3. RowsType'
    BY <1>1, <1>2 DEF RowsType
  <1>4. ASSUME NEW k \in Loads, page'[k] # I!Closed, page'[k].clean PROVE CleanPage(page'[k], k, github', known', told')
    <2>1. CASE k = l
      BY <1>4, <2>1
    <2>2. CASE k # l /\ page'[k] = page[k] /\ known' = known /\ told' = told
      BY <1>4, <2>2 DEF RowsInv, PagesInv
    <2>3. CASE k # l /\ page'[k] = I!Stale[k]
      BY <1>1, <1>4, <2>3, PagesStale
    <2> QED
      BY <2>1, <2>2, <2>3
  <1>6. PagesInv'
    <2>1. UntilThen(known', told', I!IsoStamp(clock'))
      BY <1>1
    <2> QED
      BY <1>4, <2>1 DEF PagesInv
  <1>7. \A k \in Loads \ {l} : page'[k] = I!Closed => page[k] = I!Closed
    BY <1>1, PagesStale
  <1> QED
    BY <1>3, <1>6, <1>7 DEF RowsInv

(* A page load asks which installations there are, starts, or fetches one.  *)
LEMMA PageReads ==
  ASSUME I!InstallationsAssumption, RowsInv, NEW l \in Loads,
         I!Ask(l) \/ (\E i \in Insts : I!Fetch(l, i)) \/ (I!Start(l) /\ page[l].list # {})
  PROVE  RowsInv' /\ known' = known /\ StaysOpen
  <1>1. /\ RowsType /\ clock \in Nat /\ UntilThen(known, told, I!IsoStamp(clock)) /\ DOMAIN page = Loads
        /\ PageType(page[l], clock) /\ I!IsoStamp(clock) \in Nat
    BY StampType DEF RowsInv, PagesInv, RowsType
  <1>2. /\ UNCHANGED <<clock, github, mail, known, told>>
        /\ DOMAIN page' = Loads /\ \A k \in Loads \ {l} : page'[k] = page[k]
    BY <1>1 DEF I!Ask, I!Fetch, I!Start
  <1>3. ASSUME PageType(page'[l], clock), page'[l] # I!Closed,
               page'[l].clean => CleanPage(page'[l], l, github, known, told)
        PROVE  RowsInv' /\ known' = known /\ StaysOpen
    <2>1. DOMAIN known' = Insts /\ \A i \in Insts : known'[i] = NoRow \/ known'[i] \in I!Rows
      BY <1>1, <1>2 DEF RowsType
    <2>2. UntilThen(known', told', I!IsoStamp(clock))
      BY <1>1, <1>2
    <2>3. page'[l] # I!Closed /\ page'[l].clean => CleanPage(page'[l], l, github', known', told')
      BY <1>2, <1>3
    <2>4. RowsInv'
      BY <1>2, <1>3, <2>1, <2>2, <2>3, PageMoves
    <2> QED
      BY <1>2, <1>3, <2>4 DEF StaysOpen
  <1>4. CASE I!Ask(l)
    <2> DEFINE p == [pc |-> "listed", list |-> I!Installed \cap Sees[l], at |-> 0,
                     todo |-> {}, got |-> NotInstalled, clean |-> TRUE]
    <2>1. page'[l] = p
      BY <1>1, <1>4 DEF I!Ask
    <2>2. /\ DOMAIN p = PageFields /\ p.pc = "listed" /\ p.list = I!Installed \cap Sees[l] /\ p.at = 0
          /\ p.todo = {} /\ p.clean = TRUE
      BY DEF PageFields
    <2> HIDE DEF p
    <2>3. p.at \in Nat /\ p.at <= I!IsoStamp(clock)
      BY <1>1, <2>2
    <2>6. p.list \subseteq Insts /\ p.todo \subseteq p.list /\ p.clean \in BOOLEAN /\ p.pc \notin {"closed", "fetched"}
      BY <2>2 DEF I!Installed
    <2>4. PageType(p, clock) /\ p # I!Closed
      BY <2>2, <2>3, <2>6 DEF PageType, I!Closed
    <2>5. CleanPage(p, l, github, known, told)
      BY <2>2 DEF CleanPage, I!Installed
    <2> QED
      BY <1>3, <2>1, <2>4, <2>5
  <1>5. CASE I!Start(l) /\ page[l].list # {}
    <2> DEFINE p == page[l]
    <2> DEFINE q == [p EXCEPT !.pc = "fetching", !.at = I!IsoStamp(clock), !.todo = p.list]
    <2>1. page'[l] = q /\ p.pc = "listed"
      BY <1>1, <1>5 DEF I!Start
    <2>2. p # I!Closed /\ DOMAIN p = PageFields /\ p.list \subseteq Insts /\ p.clean \in BOOLEAN
      BY <1>1, <2>1 DEF PageType, I!Closed
    <2>3. p.clean => CleanPage(p, l, github, known, told)
      BY <2>2 DEF RowsInv, PagesInv
    <2> HIDE DEF p
    <2>4. /\ DOMAIN q = PageFields /\ q.pc = "fetching" /\ q.list = p.list /\ q.at = I!IsoStamp(clock)
          /\ q.todo = p.list /\ q.clean = p.clean
      BY <2>2 DEF PageFields
    <2> HIDE DEF q
    <2>5. I!IsoStamp(clock) <= I!IsoStamp(clock)
      BY <1>1
    <2>6. PageType(q, clock) /\ q # I!Closed
      BY <1>1, <2>2, <2>4, <2>5 DEF PageType, I!Closed
    <2>7. q.clean => CleanPage(q, l, github, known, told)
      BY <1>1, <2>3, <2>4 DEF CleanPage
    <2> QED
      BY <1>3, <2>1, <2>6, <2>7
  <1>6. ASSUME NEW i \in Insts, I!Fetch(l, i) PROVE RowsInv' /\ known' = known /\ StaysOpen
    <2> DEFINE p == page[l]
    <2>1. p.pc = "fetching" /\ i \in p.todo
      BY <1>6 DEF I!Fetch
    <2>2. p # I!Closed /\ DOMAIN p = PageFields /\ p.list \subseteq Insts /\ p.clean \in BOOLEAN /\ p.todo \subseteq p.list
          /\ p.at \in Nat /\ p.at <= I!IsoStamp(clock)
      BY <1>1, <2>1 DEF PageType, I!Closed
    <2>3. p.clean => CleanPage(p, l, github, known, told)
      BY <2>2 DEF RowsInv, PagesInv
    <2>4. ASSUME NEW q, DOMAIN q = PageFields, q.pc = "fetched", q.list = p.list, q.at = p.at, q.todo = p.todo \ {i},
                 q.clean \in BOOLEAN, q.clean => p.clean, q.got.inst = i, q.got.repos \subseteq Projects,
                 q.clean => q.got.ok /\ q.got.repos = github[i], page'[l] = q
          PROVE  RowsInv' /\ known' = known /\ StaysOpen
      <3>1. PageType(q, clock) /\ q # I!Closed
        BY <2>1, <2>2, <2>4 DEF PageType, I!Closed
      <3>2. q.clean => CleanPage(q, l, github, known, told)
        BY <2>1, <2>3, <2>4 DEF CleanPage
      <3> QED
        BY <1>3, <2>4, <3>1, <3>2
    <2>5. CASE /\ i \in I!Installed
               /\ page' = [page EXCEPT ![l].pc = "fetched", ![l].todo = p.todo \ {i},
                                       ![l].got = [inst |-> i, ok |-> TRUE, repos |-> github[i]]]
      <3> DEFINE got == [inst |-> i, ok |-> TRUE, repos |-> github[i]]
      <3> DEFINE q == [p EXCEPT !.pc = "fetched", !.todo = p.todo \ {i}, !.got = got]
      <3>1. page'[l] = q
        BY <1>1, <2>5
      <3>2. got.inst = i /\ got.ok = TRUE /\ got.repos = github[i] /\ github[i] \subseteq Projects
        BY <1>1, <2>5 DEF RowsType, I!Installed
      <3> HIDE DEF got, p
      <3>3. /\ DOMAIN q = PageFields /\ q.pc = "fetched" /\ q.list = p.list /\ q.at = p.at
            /\ q.todo = p.todo \ {i} /\ q.clean = p.clean /\ q.got = got
        BY <2>2 DEF PageFields
      <3> HIDE DEF q
      <3>4. q.got.inst = i /\ q.got.repos \subseteq Projects /\ q.got.ok /\ q.got.repos = github[i]
        BY <3>2, <3>3
      <3> QED
        BY <2>2, <2>4, <3>1, <3>3, <3>4
    <2>6. CASE page' = [page EXCEPT ![l].pc = "fetched", ![l].todo = p.todo \ {i}, ![l].clean = FALSE,
                             ![l].got = [inst |-> i, ok |-> FALSE, repos |-> {}]]
      <3> DEFINE got == [inst |-> i, ok |-> FALSE, repos |-> {}]
      <3> DEFINE q == [p EXCEPT !.pc = "fetched", !.todo = p.todo \ {i}, !.clean = FALSE, !.got = got]
      <3>1. page'[l] = q
        BY <1>1, <2>6
      <3>2. got.inst = i /\ got.repos = {}
        OBVIOUS
      <3> HIDE DEF got, p
      <3>3. /\ DOMAIN q = PageFields /\ q.pc = "fetched" /\ q.list = p.list /\ q.at = p.at
            /\ q.todo = p.todo \ {i} /\ q.clean = FALSE /\ q.got = got
        BY <2>2 DEF PageFields
      <3> HIDE DEF q
      <3>4. q.got.inst = i /\ q.got.repos \subseteq Projects
        BY <3>2, <3>3
      <3> QED
        BY <2>2, <2>4, <3>1, <3>3, <3>4
    <2> QED
      BY <1>6, <2>5, <2>6 DEF I!Fetch
  <1> QED
    BY <1>4, <1>5, <1>6

(* What the workspace has and the page did not list is dropped.             *)
LEMMA PrunedRows ==
  ASSUME NEW rs, DOMAIN rs = Insts, NEW l \in Loads
  PROVE  /\ DOMAIN I!Pruned(rs, l) = Insts /\ \A i \in Insts : I!Pruned(rs, l)[i] \in {NoRow, rs[i]}
         /\ \A i \in page[l].list \cap Insts : I!Pruned(rs, l)[i] = rs[i]
         /\ \A i \in Insts : i \notin page[l].list /\ rs[i] # NoRow /\ rs[i].team = MemberOf[l] => I!Pruned(rs, l)[i] = NoRow
  BY DEF I!Pruned

(* A page load that lists nothing, or saves what it fetched; when it ends   *)
(* undisturbed the rows are right.                                          *)
LEMMA PageEmpty ==
  ASSUME I!InstallationsAssumption, RowsInv, NEW l \in Loads, I!Start(l), page[l].list = {}
  PROVE  /\ RowsInv' /\ Forward /\ \A k \in Loads \ {l} : page'[k] = I!Closed => page[k] = I!Closed
         /\ page[l] # I!Closed /\ page[l].clean => Repairs(l)
  <1>1. /\ RowsType /\ UntilThen(known, told, I!IsoStamp(clock)) /\ DOMAIN page = Loads /\ DOMAIN known = Insts
        /\ PageType(page[l], clock) /\ \A i \in Insts : known[i] = NoRow \/ known[i] \in I!Rows
    BY DEF RowsInv, PagesInv, RowsType
  <1>2. /\ known' = I!Pruned(known, l) /\ page' = [I!Stale EXCEPT ![l] = I!Closed]
        /\ UNCHANGED <<clock, github, mail, told>>
    BY DEF I!Start
  <1>3. /\ DOMAIN known' = Insts /\ \A i \in Insts : known'[i] \in {NoRow, known[i]}
        /\ \A i \in Insts : known[i] # NoRow /\ known[i].team = MemberOf[l] => known'[i] = NoRow
    BY <1>1, <1>2, PrunedRows
  <1>4. DOMAIN page' = Loads /\ page'[l] = I!Closed /\ \A k \in Loads \ {l} : page'[k] = I!Stale[k]
    BY <1>1, <1>2, PagesStale
  <1>5. PageType(page'[l], clock)
    BY <1>4 DEF PageType
  <1>6. UntilThen(known', told', I!IsoStamp(clock)) /\ \A i \in Insts : known'[i] = NoRow \/ known'[i] \in I!Rows
    BY <1>1, <1>2, <1>3 DEF UntilThen
  <1>7. RowsInv' /\ \A k \in Loads \ {l} : page'[k] = I!Closed => page[k] = I!Closed
    BY <1>2, <1>3, <1>4, <1>5, <1>6, PageMoves
  <1>8. Forward
    <2>1. \A i \in Insts : known[i] # NoRow => known[i].at \in Nat
      BY <1>1 DEF I!Rows
    <2> QED
      BY <1>3, <2>1 DEF Forward
  <1>9. ASSUME page[l] # I!Closed, page[l].clean PROVE Repairs(l)
    <2>1. I!Installed \cap Sees[l] = {}
      BY <1>9 DEF RowsInv, PagesInv, CleanPage, I!Installed
    <2> QED
      BY <1>3, <2>1 DEF Repairs, I!Comparable, I!Installed, I!InstallationsAssumption
  <1> QED
    BY <1>7, <1>8, <1>9

\* A page load saves what it read, never over a newer row; undisturbed, it repairs.
LEMMA PageSaves ==
  ASSUME I!InstallationsAssumption, RowsInv, RowsFunction, NEW l \in Loads, I!Save(l)
  PROVE  /\ RowsInv' /\ Forward /\ \A k \in Loads \ {l} : page'[k] = I!Closed => page[k] = I!Closed
         /\ page'[l] = I!Closed /\ page[l].clean => Repairs(l)
  <1> DEFINE p == page[l]
  <1> DEFINE i == p.got.inst
  <1> DEFINE row == known[i]
  <1> DEFINE new == I!Fetched(l)
  <1> DEFINE saved1 == [known EXCEPT ![i] = new]
  <1>1. /\ RowsType /\ UntilThen(known, told, I!IsoStamp(clock)) /\ DOMAIN page = Loads /\ DOMAIN known = Insts
        /\ PageType(p, clock) /\ clock \in Nat /\ I!IsoStamp(clock) \in Nat
        /\ \A j \in Insts : known[j] = NoRow \/ known[j] \in I!Rows
        /\ \A j \in Insts : known[j] # NoRow => known[j].at \in Nat
        /\ MemberOf[l] \in Accounts /\ NoRow \notin I!Rows /\ Sees[l] \subseteq Insts
    BY StampType DEF RowsInv, PagesInv, RowsType, I!Rows, I!InstallationsAssumption
  <1>2. p.pc = "fetched" /\ UNCHANGED <<clock, github, mail>>
    BY DEF I!Save
  <1>3. /\ p # I!Closed /\ DOMAIN p = PageFields /\ p.clean \in BOOLEAN /\ p.list \subseteq Insts /\ p.todo \subseteq p.list
        /\ p.at \in Nat /\ p.at <= I!IsoStamp(clock)
        /\ i \in p.list \ p.todo /\ i \in Insts /\ p.got.repos \subseteq Projects
    BY <1>1, <1>2 DEF PageType, I!Closed
  <1>4. told' = IF saved1 = known THEN told ELSE told \ {i}
    BY DEF I!Save
  <1>5. p.clean => CleanPage(p, l, github, known, told)
    BY <1>3 DEF RowsInv, PagesInv
  <1>6. /\ \/ /\ new = row /\ row # NoRow /\ row.at > p.at
           \/ /\ new \in I!Rows /\ new.team = MemberOf[l] /\ new.at = p.at
              /\ (row # NoRow => p.at >= row.at) /\ (p.got.ok => new.repos = p.got.repos)
    <2>1. CASE ~I!Accepts(i, p.at)
      <3>1. new = row /\ row # NoRow /\ ~(p.at >= row.at)
        BY <2>1 DEF I!Fetched, I!Accepts
      <3>2. row.at \in Nat
        BY <1>1, <1>3, <3>1
      <3> QED
        BY <1>3, <3>1, <3>2
    <2>2. CASE I!Accepts(i, p.at)
      <3> DEFINE repos2 == IF p.got.ok THEN p.got.repos ELSE IF row = NoRow THEN {} ELSE row.repos
      <3>1. new = [team |-> MemberOf[l], at |-> p.at, repos |-> repos2]
        BY <2>2 DEF I!Fetched
      <3>2. repos2 \in SUBSET Projects
        BY <1>1, <1>3 DEF I!Rows
      <3>3. row # NoRow => p.at >= row.at
        BY <2>2 DEF I!Accepts
      <3>4. p.got.ok => repos2 = p.got.repos
        OBVIOUS
      <3> HIDE DEF repos2, new, p
      <3> QED
        BY <1>1, <1>3, <3>1, <3>2, <3>3, <3>4 DEF I!Rows, p
    <2> QED
      BY <2>1, <2>2
  <1> HIDE DEF new
  <1>7. /\ DOMAIN saved1 = Insts /\ saved1[i] = new /\ \A j \in Insts \ {i} : saved1[j] = known[j]
        /\ \A j \in Insts : saved1[j] = NoRow \/ saved1[j] \in I!Rows
    BY <1>1, <1>3, <1>6
  <1>8. saved1 = known <=> new = row
    <2>1. saved1 = [j \in Insts |-> saved1[j]]
      BY <1>1
    <2> HIDE DEF saved1, row
    <2>2. ASSUME new = row PROVE saved1 = known
      <3>1. \A j \in Insts : saved1[j] = known[j]
        BY <1>7, <2>2 DEF row
      <3> QED
        BY <2>1, <3>1 DEF RowsFunction
    <2>3. ASSUME saved1 = known PROVE new = row
      BY <1>7, <2>3 DEF row
    <2> QED
      BY <2>2, <2>3
  <1> HIDE DEF saved1
  <1>9. ASSUME NEW t \in Nat, p.at <= t, UntilThen(known, told, t) PROVE UntilThen(saved1, told', t)
    <2> SUFFICES ASSUME NEW j \in Insts, saved1[j] # NoRow, j \notin told' PROVE saved1[j].at <= t
      BY DEF UntilThen
    <2>1. CASE j # i \/ new = row
      <3>1. saved1[j] = known[j] /\ j \notin told
        BY <1>4, <1>7, <1>8, <2>1
      <3> QED
        BY <1>9, <3>1 DEF UntilThen
    <2>2. CASE j = i /\ new # row
      BY <1>6, <1>7, <1>9, <2>2
    <2> QED
      BY <2>1, <2>2
  <1>10. ASSUME p.clean, NEW j \in p.list \ p.todo PROVE Right(github, saved1, told', l, j, p.at)
    <2>1. CASE j # i
      <3>1. Right(github, known, told, l, j, p.at) /\ j \in Insts
        BY <1>2, <1>3, <1>5, <1>10, <2>1 DEF CleanPage
      <3>2. saved1[j] = known[j] /\ (j \in told => j \in told')
        BY <1>4, <1>7, <2>1, <3>1
      <3> QED
        BY <3>1, <3>2 DEF Right
    <2>2. CASE j = i
      <3>1. p.got.ok /\ p.got.repos = github[i] /\ UntilThen(known, told, p.at)
        BY <1>2, <1>5, <1>10 DEF CleanPage
      <3>2. CASE new = row /\ row # NoRow /\ row.at > p.at
        <4>1. row.at \in Nat
          BY <1>1, <1>3, <3>2
        <4>2. ~(row.at <= p.at)
          BY <1>3, <3>2, <4>1
        <4>3. i \in told
          BY <1>3, <3>1, <3>2, <4>2 DEF UntilThen
        <4> QED
          BY <1>4, <1>7, <1>8, <2>2, <3>2, <4>3 DEF Right
      <3>3. CASE new \in I!Rows /\ new.team = MemberOf[l] /\ (p.got.ok => new.repos = p.got.repos)
        BY <1>1, <1>7, <2>2, <3>1, <3>3 DEF Right
      <3> QED
        BY <1>6, <3>2, <3>3
    <2> QED
      BY <2>1, <2>2
  <1>11. \A j \in Insts : known[j] # NoRow /\ saved1[j] # NoRow => saved1[j].at >= known[j].at
    <2> SUFFICES ASSUME NEW j \in Insts, known[j] # NoRow PROVE saved1[j].at >= known[j].at
      OBVIOUS
    <2>1. known[j].at \in Nat /\ known[j].at >= known[j].at
      BY <1>1
    <2>2. CASE j # i \/ new = row
      BY <1>7, <2>1, <2>2
    <2>3. CASE j = i /\ new # row
      BY <1>6, <1>7, <2>3
    <2> QED
      BY <2>2, <2>3
  <1>12. UntilThen(saved1, told', I!IsoStamp(clock))
    BY <1>1, <1>3, <1>9
  <1>13. /\ DOMAIN page' = Loads /\ \A k \in Loads \ {l} : page'[k] = I!Stale[k]
    <2> DEFINE others == [k \in Loads |-> IF k # l /\ page[k] # I!Closed
                                          THEN [page[k] EXCEPT !.clean = FALSE] ELSE page[k]]
    <2>1. DOMAIN others = Loads /\ \A k \in Loads \ {l} : others[k] = I!Stale[k]
      BY DEF I!Stale
    <2>2. page' = [others EXCEPT ![l] = I!Closed] \/ page' = [others EXCEPT ![l].pc = "fetching"]
      BY DEF I!Save
    <2> HIDE DEF others
    <2> QED
      BY <2>1, <2>2
  <1>14. CASE p.todo # {}
    <2> DEFINE q == [p EXCEPT !.pc = "fetching"]
    <2>1. known' = saved1 /\ page'[l] = q
      <3> DEFINE others == [k \in Loads |-> IF k # l /\ page[k] # I!Closed
                                            THEN [page[k] EXCEPT !.clean = FALSE] ELSE page[k]]
      <3>1. known' = saved1 /\ page' = [others EXCEPT ![l].pc = "fetching"]
        BY <1>14 DEF I!Save, saved1, new
      <3>2. DOMAIN others = Loads /\ others[l] = p
        OBVIOUS
      <3> HIDE DEF others
      <3> QED
        BY <3>1, <3>2
    <2> HIDE DEF p
    <2>2. /\ DOMAIN q = PageFields /\ q.pc = "fetching" /\ q.list = p.list /\ q.at = p.at
          /\ q.todo = p.todo /\ q.clean = p.clean
      BY <1>3 DEF PageFields
    <2> HIDE DEF q
    <2>3. PageType(q, clock) /\ q # I!Closed
      BY <1>3, <2>2 DEF PageType, I!Closed
    <2>4. q.clean => CleanPage(q, l, github, saved1, told')
      <3> SUFFICES ASSUME p.clean PROVE CleanPage(q, l, github, saved1, told')
        BY <2>2
      <3>1. p.list = {j \in Insts : github[j] # NotInstalled} \cap Sees[l] /\ UntilThen(known, told, p.at)
        BY <1>2, <1>5 DEF CleanPage
      <3>2. UntilThen(saved1, told', p.at)
        <4>1. p.at <= p.at
          BY <1>3
        <4> QED
          BY <1>3, <1>9, <3>1, <4>1
      <3>3. \A j \in p.list \ p.todo : Right(github, saved1, told', l, j, p.at)
        BY <1>10
      <3> QED
        BY <2>2, <3>1, <3>2, <3>3 DEF CleanPage
    <2>5. UntilThen(known', told', I!IsoStamp(clock)) /\ DOMAIN known' = Insts
          /\ \A j \in Insts : known'[j] = NoRow \/ known'[j] \in I!Rows
      BY <1>7, <1>12, <2>1
    <2>6. PageType(page'[l], clock) /\ (page'[l] # I!Closed /\ page'[l].clean => CleanPage(page'[l], l, github', known', told'))
      BY <1>2, <2>1, <2>3, <2>4
    <2>7. RowsInv' /\ \A k \in Loads \ {l} : page'[k] = I!Closed => page[k] = I!Closed
      BY <1>2, <1>13, <2>5, <2>6, PageMoves
    <2> QED
      BY <1>11, <2>1, <2>3, <2>7 DEF Forward
  <1>15. CASE p.todo = {}
    <2>1. known' = I!Pruned(saved1, l) /\ page'[l] = I!Closed
      <3> DEFINE others == [k \in Loads |-> IF k # l /\ page[k] # I!Closed
                                            THEN [page[k] EXCEPT !.clean = FALSE] ELSE page[k]]
      <3>1. known' = I!Pruned(saved1, l) /\ page' = [others EXCEPT ![l] = I!Closed]
        BY <1>15 DEF I!Save, saved1, new
      <3>2. DOMAIN others = Loads
        OBVIOUS
      <3> HIDE DEF others
      <3> QED
        BY <3>1, <3>2
    <2>2. /\ DOMAIN known' = Insts /\ \A j \in Insts : known'[j] \in {NoRow, saved1[j]}
          /\ \A j \in p.list : known'[j] = saved1[j]
          /\ \A j \in Insts : j \notin p.list /\ saved1[j] # NoRow /\ saved1[j].team = MemberOf[l] => known'[j] = NoRow
      BY <1>3, <1>7, <2>1, PrunedRows
    <2>3. UntilThen(known', told', I!IsoStamp(clock)) /\ \A j \in Insts : known'[j] = NoRow \/ known'[j] \in I!Rows
      BY <1>7, <1>12, <2>2 DEF UntilThen
    <2>4. PageType(page'[l], clock)
      BY <2>1 DEF PageType
    <2>5. RowsInv' /\ \A k \in Loads \ {l} : page'[k] = I!Closed => page[k] = I!Closed
      BY <1>2, <1>13, <2>1, <2>2, <2>3, <2>4, PageMoves
    <2>6. Forward
      BY <1>11, <2>2 DEF Forward
    <2>7. ASSUME p.clean PROVE Repairs(l)
      <3> SUFFICES ASSUME NEW j \in I!Comparable(l)
                   PROVE  IF j \in I!Installed
                          THEN known'[j] # NoRow /\ known'[j].repos = github[j] /\ known'[j].team = MemberOf[l]
                          ELSE known[j] # NoRow /\ known[j].team = MemberOf[l] => known'[j] = NoRow
        BY DEF Repairs
      <3>1. j \in Sees[l] /\ j \in Insts /\ (known[j] = NoRow \/ j \notin told \/ known[j].at <= p.at)
        BY <1>1 DEF I!Comparable
      <3>2. p.list = I!Installed \cap Sees[l]
        BY <1>5, <2>7 DEF CleanPage, I!Installed
      <3>3. CASE j \in I!Installed
        <4>1. j \in p.list /\ known'[j] = saved1[j]
          BY <2>2, <3>1, <3>2, <3>3
        <4>2. Right(github, saved1, told', l, j, p.at)
          BY <1>10, <1>15, <2>7, <4>1
        <4>3. ~(j \in told' /\ saved1[j].at > p.at)
          <5> SUFFICES ASSUME j \in told', saved1[j].at > p.at PROVE FALSE
            OBVIOUS
          <5>1. j \in told /\ (j = i => new = row)
            BY <1>4, <1>8
          <5>2. saved1[j] = known[j]
            BY <1>7, <3>1, <5>1
          <5>3. saved1[j] # NoRow
            BY <4>2 DEF Right
          <5>4. known[j].at \in Nat
            BY <1>1, <3>1, <5>2, <5>3
          <5> QED
            BY <1>3, <3>1, <5>1, <5>2, <5>3, <5>4
        <4> QED
          BY <3>3, <4>1, <4>2, <4>3 DEF Right
      <3>4. CASE j \notin I!Installed
        <4>1. j \notin p.list /\ j # i
          BY <1>3, <3>2, <3>4
        <4>2. saved1[j] = known[j]
          BY <1>7, <3>1, <4>1
        <4> QED
          BY <2>2, <3>1, <3>4, <4>1, <4>2
      <3> QED
        BY <3>3, <3>4
    <2> QED
      BY <2>5, <2>6, <2>7
  <1> QED
    BY <1>14, <1>15

(* RowsConverge holds for any installations, users and page loads at once.  *)
LEMMA RowsStayConverging == ASSUME I!InstallationsAssumption PROVE I!Spec => I!RowsConverge
  <1>1. ASSUME I!Init PROVE RowsInv /\ RowsFunction
    <2>1. /\ clock = 0 /\ mail = {} /\ told = {} /\ DOMAIN github = Insts /\ DOMAIN known = Insts /\ DOMAIN page = Loads
          /\ \A i \in Insts : github[i] \in {NotInstalled, Projects} /\ known[i] = NoRow
          /\ \A l \in Loads : page[l] = I!Closed
      BY <1>1 DEF I!Init
    <2>2. RowsType
      BY <2>1 DEF RowsType, PageType
    <2>3. PagesInv
      BY <2>1 DEF PagesInv, UntilThen
    <2>4. RowsFunction
      BY <1>1 DEF I!Init, RowsFunction
    <2> QED
      BY <2>2, <2>3, <2>4 DEF RowsInv
  <1>2. ASSUME RowsInv, RowsFunction, I!Next
        PROVE  RowsInv' /\ Forward /\ \A l \in Loads : page[l] # I!Closed /\ page'[l] = I!Closed /\ page[l].clean => Repairs(l)
    <2>1. ASSUME known' = known PROVE Forward
      <3>1. \A i \in Insts : known[i] # NoRow => known[i].at \in Nat
        BY <1>2 DEF RowsInv, RowsType, I!Rows
      <3> QED
        BY <2>1, <3>1 DEF Forward
    <2>2. CASE \E i \in Insts : \/ I!Install(i) \/ I!Uninstall(i) \/ I!OtherChange(i)
                               \/ \E r \in Projects : I!Grant(i, r) \/ I!Revoke(i, r)
      BY <1>2, <2>1, <2>2, GitHubStep
    <2>3. CASE (\E d \in mail : I!Lose(d) \/ I!Deliver(d)) \/ (\E t \in Accounts : I!Disconnect(t)) \/ I!Tick
      BY <1>2, <2>3, DeliveryStep DEF StaysOpen
    <2>4. ASSUME NEW l \in Loads, I!Ask(l) \/ (\E i \in Insts : I!Fetch(l, i)) \/ (I!Start(l) /\ page[l].list # {})
          PROVE  RowsInv' /\ known' = known /\ StaysOpen
      BY <1>2, <2>4, PageReads
    <2>5. ASSUME NEW l \in Loads, (I!Start(l) /\ page[l].list = {}) \/ I!Save(l)
          PROVE  /\ RowsInv' /\ Forward /\ \A k \in Loads \ {l} : page'[k] = I!Closed => page[k] = I!Closed
                 /\ page[l] # I!Closed /\ page'[l] = I!Closed /\ page[l].clean => Repairs(l)
      BY <1>2, <2>5, PageEmpty, PageSaves
    <2>6. CASE \E l \in Loads : I!Ask(l) \/ I!Start(l) \/ I!Save(l) \/ \E i \in Insts : I!Fetch(l, i)
      BY <2>1, <2>4, <2>5, <2>6 DEF StaysOpen
    <2> QED
      BY <1>2, <2>2, <2>3, <2>6 DEF I!Next
  <1>3. RowsInv /\ RowsFunction /\ [I!Next]_I!vars => RowsInv' /\ RowsFunction'
    <2>1. ASSUME RowsInv, RowsFunction, UNCHANGED I!vars PROVE RowsInv' /\ RowsFunction'
      BY <2>1 DEF I!vars, RowsInv, RowsType, PagesInv, RowsFunction
    <2> QED
      BY <1>2, <2>1, RowsStayFunction
  <1>4. RowsInv /\ RowsFunction /\ [I!Next]_I!vars =>
          [\A i \in Insts : known[i] # NoRow /\ known'[i] # NoRow => known'[i].at >= known[i].at]_I!vars
    BY <1>2 DEF Forward
  <1>5. RowsInv /\ RowsFunction /\ [I!Next]_I!vars =>
          [\A l \in Loads : page[l] # I!Closed /\ page'[l] = I!Closed /\ page[l].clean =>
             \A i \in I!Comparable(l) :
               IF i \in I!Installed
               THEN known'[i] # NoRow /\ known'[i].repos = github[i] /\ known'[i].team = MemberOf[l]
               ELSE known[i] # NoRow /\ known[i].team = MemberOf[l] => known'[i] = NoRow]_I!vars
    BY <1>2 DEF Repairs
  <1> QED
    BY <1>1, <1>3, <1>4, <1>5, PTL DEF I!Spec, I!RowsConverge, I!NoRowGoesBack, I!PageLoadRepairs

-----------------------------------------------------------------------------
\* The composition's sign-ins and installations are those of their modules.
LEMMA OwnPartsAreTheirs ==
  PartsSpec => G!Spec /\ I!Spec
  <1>1. PartsInit => G!Init /\ I!Init
    BY DEF PartsInit
  <1>2. [PartsNext]_allVars => [G!Next]_G!vars
    BY DEF PartsNext, allVars, ownVars, sessionVars, G!vars, WorkspaceStep, DecisionsStep, InstallationsStep,
       SessionStep, KeyStep, SettingsStep, HistoryStep, TokensStep
  <1>3. [PartsNext]_allVars => [I!Next]_I!vars
    BY DEF PartsNext, allVars, ownVars, installationVars, I!vars, WorkspaceStep, DecisionsStep, InstallationsStep,
       SessionStep, KeyStep, SettingsStep, HistoryStep, TokensStep
  <1> QED
    BY <1>1, <1>2, <1>3, PTL DEF PartsSpec, G!Spec, I!Spec

(* CredentialIsKept: GitHub's rotating refresh token, used by overlapping   *)
(* requests of any number of tabs and by sign-ins, is never stored older    *)
(* than the newest, and is lost only where two of them overlapped.          *)
THEOREM CredentialsAreKept == ASSUME PartsAssumption PROVE PartsSpec => CredentialIsKept
  <1>1. G!Spec => G!CredentialIsKept
    BY CredentialStaysKept DEF PartsAssumption
  <1> QED
    BY <1>1, OwnPartsAreTheirs DEF CredentialIsKept

(* RowsConverge: no webhook, however late, and no page load takes a row of  *)
(* any installation back, and a page load nothing disturbed repairs what    *)
(* the lost ones left behind.                                               *)
THEOREM RowsAlwaysConverge == ASSUME PartsAssumption PROVE PartsSpec => RowsConverge
  <1>1. I!Spec => I!RowsConverge
    BY RowsStayConverging DEF PartsAssumption
  <1> QED
    BY <1>1, OwnPartsAreTheirs DEF RowsConverge

-----------------------------------------------------------------------------
(***************************************************************************)
(* The bars of a workspace (Decisions) follow its decisions since a        *)
(* finding nobody posted is undecided: posting it tells no workspace       *)
(* anything new.                                                           *)
(***************************************************************************)
BarsInv ==
  /\ posted \in [Findings -> Teams \cup {Nobody}]
  /\ durable \in [Findings -> Teams \cup {Nobody}]
  /\ DOMAIN ruling = Findings /\ DOMAIN bars = Teams
  /\ \A f \in Findings : posted[f] = Nobody => ruling[f] = NoRuling
  /\ BarsFollowDecisions

(* A fresh store has no bars, and no decisions either. *)
LEMMA InitBarsInv == DecisionsInit => BarsInv
  BY DEF DecisionsInit, BarsInv, Nothing, Undecided, BarsFollowDecisions

(* The bars follow the decisions as long as no decision they tell changes. *)
LEMMA SameDecisions ==
  ASSUME BarsFollowDecisions, bars' = bars,
         \A t \in Teams : \A d : Derived(t, d)' = Derived(t, d)
  PROVE  BarsFollowDecisions'
  BY DEF BarsFollowDecisions

(* A new review is undecided: no workspace's decisions change. *)
LEMMA SaveReviewBars ==
  ASSUME BarsInv, NEW f \in Findings, NEW t \in Teams, SaveReview(f, t)
  PROVE  BarsInv'
  <1>1. /\ posted' \in [Findings -> Teams \cup {Nobody}]
        /\ \A g \in Findings : posted'[g] = Nobody => ruling[g] = NoRuling
    BY DEF BarsInv, SaveReview
  <1>2. ASSUME NEW u \in Teams, NEW d PROVE Derived(u, d)' = Derived(u, d)
    <2>1. ruling[f] = NoRuling /\ ruling' = ruling
      BY DEF BarsInv, SaveReview
    <2>2. \A g \in Findings \ {f} : posted'[g] = posted[g]
      BY DEF BarsInv, SaveReview
    <2>3. {g \in Findings : posted[g] = u /\ ruling[g] # NoRuling /\ ruling[g].at >= d - Window}'
          = {g \in Findings : posted[g] = u /\ ruling[g] # NoRuling /\ ruling[g].at >= d - Window}
      BY <2>1, <2>2
    <2> QED
      BY <2>1, <2>3 DEF Derived
  <1>3. BarsFollowDecisions'
    BY <1>2, SameDecisions DEF BarsInv, SaveReview
  <1> QED
    BY <1>1, <1>3 DEF BarsInv, SaveReview

(***************************************************************************)
(* A decision changes what its own workspace has decided, whose bars are   *)
(* dropped, and no other's.                                                *)
(***************************************************************************)
LEMMA DecideBars ==
  ASSUME BarsInv, NEW f \in Findings, NEW accepted \in BOOLEAN, Decide(f, accepted)
  PROVE  BarsInv'
  <1>1. /\ DOMAIN ruling' = Findings /\ DOMAIN bars' = Teams
        /\ \A g \in Findings : posted'[g] = Nobody => ruling'[g] = NoRuling
    BY DEF BarsInv, Decide
  <1>2. ASSUME NEW u \in Teams, bars'[u] # NotCached
        PROVE  bars'[u] = bars[u] /\ \A d : Derived(u, d)' = Derived(u, d)
    <2>1. posted[f] # u /\ bars'[u] = bars[u]
      BY <1>2 DEF BarsInv, Decide
    <2>2. \A g \in Findings \ {f} : ruling'[g] = ruling[g]
      BY DEF BarsInv, Decide
    <2>3. posted' = posted
      BY DEF Decide
    <2>4. ASSUME NEW d PROVE Derived(u, d)' = Derived(u, d)
      <3> DEFINE Told == {g \in Findings : posted[g] = u /\ ruling[g] # NoRuling
                                           /\ ruling[g].at >= d - Window}
      <3>1. Told' = Told
        BY <2>1, <2>2, <2>3
      <3>2. \A g \in Told : ruling'[g] = ruling[g]
        BY <2>1, <2>2
      <3> QED
        BY <3>1, <3>2 DEF Derived
    <2> QED
      BY <2>1, <2>4
  <1>3. BarsFollowDecisions'
    BY <1>2 DEF BarsInv, BarsFollowDecisions
  <1> QED
    BY <1>1, <1>3 DEF BarsInv, Decide

(***************************************************************************)
(* BarsFollowDecisions holds for any workspaces, any findings and any      *)
(* window.                                                                 *)
(***************************************************************************)
THEOREM BarsAlwaysFollow == DecisionsSpec => []BarsFollowDecisions
  <1>1. BarsInv /\ [DecisionsNext]_decisionVars => BarsInv'
    <2> SUFFICES ASSUME BarsInv, [DecisionsNext]_decisionVars PROVE BarsInv'
      OBVIOUS
    <2>1. CASE Restore
      BY <2>1 DEF Restore, BarsInv, BarsFollowDecisions
    <2>2. CASE NextDay
      <3>1. \A t \in Teams : \A d : Derived(t, d)' = Derived(t, d)
        BY <2>2 DEF NextDay, Derived
      <3> QED
        BY <2>2, <3>1, SameDecisions DEF NextDay, BarsInv
    <2>3. CASE \E f \in Findings, t \in Teams : SaveReview(f, t)
      BY <2>3, SaveReviewBars
    <2>4. CASE \E f \in Findings, accepted \in BOOLEAN : Decide(f, accepted)
      BY <2>4, DecideBars
    <2>5. ASSUME NEW t \in Teams, Calibration(t) PROVE BarsInv'
      <3>1. \A u \in Teams : \A d : Derived(u, d)' = Derived(u, d)
        BY <2>5 DEF Calibration, Derived
      <3>2. BarsFollowDecisions'
        <4> SUFFICES ASSUME NEW u \in Teams, bars'[u] # NotCached
                     PROVE  bars'[u].of = Derived(u, bars'[u].day)
          BY <3>1 DEF BarsFollowDecisions
        <4>1. CASE bars[t] # NotCached \/ u # t
          <5>1. bars'[u] = bars[u]
            BY <2>5, <4>1 DEF Calibration, BarsInv
          <5> QED
            BY <5>1 DEF BarsInv, BarsFollowDecisions
        <4>2. CASE bars[t] = NotCached /\ u = t
          BY <2>5, <4>2 DEF Calibration, BarsInv
        <4> QED
          BY <4>1, <4>2
      <3> QED
        BY <2>5, <3>2 DEF Calibration, BarsInv
    <2>6. CASE UNCHANGED decisionVars
      <3>1. \A t \in Teams : \A d : Derived(t, d)' = Derived(t, d)
        BY <2>6 DEF decisionVars, Derived
      <3> QED
        BY <2>6, <3>1, SameDecisions DEF decisionVars, BarsInv
    <2> QED
      BY <2>1, <2>2, <2>3, <2>4, <2>5, <2>6 DEF DecisionsNext
  <1>2. BarsInv => BarsFollowDecisions
    BY DEF BarsInv
  <1> QED
    BY <1>1, <1>2, InitBarsInv, PTL DEF DecisionsSpec

=============================================================================
