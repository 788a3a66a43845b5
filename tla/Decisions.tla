------------------------------ MODULE Decisions ------------------------------
(***************************************************************************)
(* What a workspace has taught Cavix: the decisions people take on posted  *)
(* findings, and the confidence bars derived from the recent ones, which   *)
(* the store keeps until the next decision.  The store may be serving      *)
(* reads from an empty memory when the durable copy replaces it.           *)
(***************************************************************************)
EXTENDS Integers

CONSTANTS
  Teams,     \* workspaces
  Findings,  \* posted findings, one review each
  Window,    \* how long a decision counts (90 days), in ticks
  MaxDays    \* bound: ticks

\* What the constants are.
DecisionsAssumption == Window \in Nat /\ MaxDays \in Nat

VARIABLES
  day,      \* ticks
  loaded,   \* the store holds the durable copy
  durable,  \* the stored reviews and decisions, when it does not
  posted,   \* the reviews: finding -> the workspace's name or Nobody
  ruling,   \* the decision on a finding: NoRuling, or when it was taken and how
  bars      \* calibrations: workspace -> NotCached, or what it was derived from

decisionVars == <<day, loaded, durable, posted, ruling, bars>>

Nobody == "nobody"
NoRuling == [at |-> -1, accepted |-> FALSE]
NotCached == [of |-> {}, day |-> -1]
Rulings == {NoRuling} \cup [at : 0..MaxDays, accepted : BOOLEAN]
Nothing == [f \in Findings |-> Nobody]
Undecided == [f \in Findings |-> NoRuling]

DecisionsInit ==
  /\ day = 0 /\ loaded = FALSE
  /\ durable \in [Findings -> Teams \cup {Nobody}]
  /\ posted = Nothing /\ ruling = Undecided
  /\ bars = [t \in Teams |-> NotCached]

(* restore: everything is replaced, and what was derived from it dropped. *)
Restore ==
  /\ ~loaded /\ loaded' = TRUE
  /\ posted' = durable
  /\ ruling' = [f \in Findings |->
                  IF durable[f] = Nobody THEN NoRuling ELSE [at |-> day, accepted |-> TRUE]]
  /\ bars' = [t \in Teams |-> NotCached]
  /\ UNCHANGED <<day, durable>>

(* saveReview: a new review is undecided and leaves the cache alone. *)
SaveReview(f, t) ==
  /\ loaded /\ posted[f] = Nobody
  /\ posted' = [posted EXCEPT ![f] = t]
  /\ UNCHANGED <<day, loaded, durable, ruling, bars>>

(* recordDecision: the latest word counts, the workspace's bars are dropped. *)
\* Mutant: the workspace keeps its bars.
DecideKeepsBars(f, accepted) ==
  /\ loaded /\ posted[f] # Nobody
  /\ ruling' = [ruling EXCEPT ![f] = [at |-> day, accepted |-> accepted]]
  /\ UNCHANGED <<day, loaded, durable, posted, bars>>

Decide(f, accepted) ==
  /\ loaded /\ posted[f] # Nobody
  /\ ruling' = [ruling EXCEPT ![f] = [at |-> day, accepted |-> accepted]]
  /\ bars' = [bars EXCEPT ![posted[f]] = NotCached]
  /\ UNCHANGED <<day, loaded, durable, posted>>

(* decisionRecords and calibrate: this workspace's rulings inside the window. *)
Derived(t, d) ==
  {<<f, ruling[f].accepted>> : f \in
     {g \in Findings : posted[g] = t /\ ruling[g] # NoRuling /\ ruling[g].at >= d - Window}}

Calibration(t) ==
  /\ bars' = IF bars[t] # NotCached THEN bars
             ELSE [bars EXCEPT ![t] = [of |-> Derived(t, day), day |-> day]]
  /\ UNCHANGED <<day, loaded, durable, posted, ruling>>

NextDay ==
  /\ day < MaxDays /\ day' = day + 1
  /\ UNCHANGED <<loaded, durable, posted, ruling, bars>>

DecisionsNext ==
  \/ Restore \/ NextDay
  \/ \E f \in Findings : \/ \E t \in Teams : SaveReview(f, t)
                         \/ \E accepted \in BOOLEAN : Decide(f, accepted)
  \/ \E t \in Teams : Calibration(t)

DecisionsSpec == DecisionsInit /\ [][DecisionsNext]_decisionVars

-----------------------------------------------------------------------------
(* Every variable has its type. *)
DecisionsTypeOK ==
  /\ day \in 0..MaxDays /\ loaded \in BOOLEAN
  /\ {posted[f] : f \in Findings} \cup {durable[f] : f \in Findings} \subseteq Teams \cup {Nobody}
  /\ \A f \in Findings : ruling[f] \in Rulings
  /\ \A t \in Teams : bars[t].day \in -1..MaxDays

(***************************************************************************)
(* "Clicking Accept and then seeing the Learnings page report the old bar" *)
(* does not happen: the bars a workspace is served are those its present   *)
(* decisions gave on the day they were derived, whichever decisions were   *)
(* taken, taken back or loaded from the database in between.               *)
(***************************************************************************)
BarsFollowDecisions ==
  \A t \in Teams : bars[t] # NotCached => bars[t].of = Derived(t, bars[t].day)
=============================================================================
